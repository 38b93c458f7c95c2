----------------------------- MODULE NeonProofs -----------------------------
(***************************************************************************)
(* Proofs about Neon, for any number of files, writes, crashes and         *)
(* failures.                                                               *)
(*                                                                         *)
(* While one process runs, the files only grow, and so do the archives it  *)
(* reads from them.  An archive that equals the remembered one, which is   *)
(* no larger than the row, is therefore no smaller than the row: nothing   *)
(* else was stored in between.                                             *)
(***************************************************************************)
EXTENDS Neon, TLAPS

AtMost(a, b) == \A f \in Files : a[f] <= b[f]

Holds(a) == \E f \in Files : a[f] > 0

\* What a process remembers and does, it has since it runs the worker.
RunInv ==
  /\ main = "unpack" => row # None
  /\ thread # "sleep" \/ last # None \/ signed => main = "run"

\* The next write is the largest.
WritesInv == \A f \in Files :
  disk[f] <= writes /\ tar[f] <= writes /\ (row # None => row[f] <= writes)

\* What has been unpacked is no older than the row.
UnpackInv == main = "unpack" =>
  \A f \in Files \ todo : row[f] <= disk[f]

\* What is remembered is stored, or a later archive is.  A row that is this
\* process's own is no newer than the directory.
RowInv ==
  /\ last # None => own /\ row # None /\ AtMost(last, row)
  /\ own /\ row # None => AtMost(row, disk)

Reading == {"build", "connect", "store", "remember"}

\* What has been read is no older than the row and no newer than the files.
TarInv ==
  /\ thread \in Reading \ {"build"} => left = {}
  /\ thread \in Reading => \A f \in Files \ left :
       tar[f] <= disk[f] /\ (own /\ row # None => row[f] <= tar[f])
  /\ thread = "remember" => own /\ row = tar

\* A file of the session is there, and in the archive once it was read, in a
\* round that began with a session.
SessionInv ==
  /\ signed => Holds(disk)
  /\ thread = "build" /\ ~misread =>
       \E f \in Files : disk[f] > 0 /\ (f \notin left => tar[f] > 0)
  /\ thread \in Reading \ {"build"} /\ ~misread => Holds(tar)

IInv ==
  TypeOK /\ RunInv /\ UnpackInv /\ WritesInv /\ RowInv /\ TarInv /\ SessionInv

LEMMA HoldsSomething ==
  ASSUME NEW a \in Archives, NeonAssumption
  PROVE  Holds(a) <=> a # Nothing
<1>1. a # Nothing <=> \E f \in Files : a[f] # 0
  BY DEF Archives, Nothing
<1>2. \A f \in Files : a[f] # 0 <=> a[f] > 0
  BY DEF Archives, NeonAssumption
<1>. QED BY <1>1, <1>2 DEF Holds

LEMMA NoneApart ==
  ASSUME NeonAssumption
  PROVE  None \notin Archives
BY DEF NeonAssumption, Archives
-----------------------------------------------------------------------------
(* One lemma per part of the invariant.                                    *)

LEMMA TypeStep ==
  ASSUME NeonAssumption, TypeOK, RunInv, [Next]_vars
  PROVE  TypeOK'
<1>. USE DEF TypeOK, NeonAssumption, diskVars, backupVars
<1>1. CASE Found \/ Unpacked \/ RestoreFails \/ StartWorker
  BY <1>1 DEF Found, Unpacked, RestoreFails, StartWorker, MainGoto
<1>2. ASSUME NEW f \in Files, Unpack(f) PROVE TypeOK'
  <2>1. row \in Archives
    BY <1>2 DEF Unpack, RunInv
  <2>2. disk' \in Archives
    BY <1>2, <2>1 DEF Unpack, Archives
  <2>. QED BY <1>2, <2>2 DEF Unpack
<1>3. CASE Crash
  <2>1. Nothing \in Archives
    BY DEF Nothing, Archives
  <2>2. crashes' \in 0 .. MaxCrashes
    BY <1>3 DEF Crash
  <2>3. disk' \in Archives /\ tar' \in Archives
    BY <1>3, <2>1 DEF Crash
  <2>. QED BY <1>3, <2>2, <2>3 DEF Crash
<1>4. CASE SignIn \/ Login \/ SignOut
  BY <1>4 DEF SignIn, Login, SignOut
<1>5. ASSUME NEW f \in Files, Write(f) PROVE TypeOK'
  <2>1. writes' \in 0 .. MaxWrites /\ disk' \in Archives
    BY <1>5 DEF Write, Archives
  <2>. QED BY <1>5, <2>1 DEF Write
<1>6. CASE Wake \/ AskMe \/ SignedOut \/ Compare
  <2>1. Nothing \in Archives
    BY DEF Nothing, Archives
  <2>. QED BY <1>6, <2>1 DEF Wake, AskMe, SignedOut, Compare, Goto
<1>7. CASE Connect \/ Upsert \/ Remember \/ RoundFails
  <2>1. CASE Connect \/ Upsert \/ Remember
    BY <2>1 DEF Connect, Upsert, Remember, Goto, Remembered
  <2>2. CASE RoundFails
    <3>1. row' \in {row, tar} /\ own' \in {own, TRUE}
      BY <2>2 DEF RoundFails
    <3>2. row' \in Archives \cup {None} /\ own' \in BOOLEAN
      BY <3>1
    <3>3. failures' \in 0 .. MaxFailures /\ thread' = "sleep"
          /\ UNCHANGED <<main, todo, diskVars, crashes, last, tar, left,
                         misread>>
      BY <2>2 DEF RoundFails, Goto
    <3>. QED BY <3>2, <3>3
  <2>. QED BY <1>7, <2>1, <2>2
<1>8. ASSUME NEW f \in Files, Read(f) PROVE TypeOK'
  <2>1. tar' \in Archives
    BY <1>8 DEF Read, Goto, Entry, Archives
  <2>. QED BY <1>8, <2>1 DEF Read, Goto
<1>9. CASE UNCHANGED vars
  BY <1>9 DEF vars
<1>. QED BY <1>1, <1>2, <1>3, <1>4, <1>5, <1>6, <1>7, <1>8, <1>9
         DEF Next, RestoreState, WorkerStep, BackupStep

LEMMA RunStep ==
  ASSUME NeonAssumption, TypeOK, RunInv, [Next]_vars
  PROVE  RunInv'
<1>. USE DEF RunInv, diskVars, backupVars
<1>1. CASE RestoreState
  BY <1>1 DEF RestoreState, Found, Unpack, Unpacked, RestoreFails,
       StartWorker, MainGoto
<1>2. CASE Crash
  BY <1>2 DEF Crash
<1>3. CASE WorkerStep
  BY <1>3 DEF WorkerStep, SignIn, Login, SignOut, Write
<1>4. CASE BackupStep
  BY <1>4 DEF BackupStep, Wake, AskMe, SignedOut, Read, Compare, Connect,
       Upsert, Remember, RoundFails, Goto
<1>5. CASE UNCHANGED vars
  BY <1>5 DEF vars
<1>. QED BY <1>1, <1>2, <1>3, <1>4, <1>5 DEF Next

LEMMA WritesStep ==
  ASSUME NeonAssumption, TypeOK, RunInv, WritesInv, [Next]_vars
  PROVE  WritesInv'
<1>. USE DEF WritesInv, TypeOK, NeonAssumption, diskVars, backupVars
<1>1. CASE Found \/ Unpacked \/ RestoreFails \/ StartWorker
  BY <1>1 DEF Found, Unpacked, RestoreFails, StartWorker
<1>2. ASSUME NEW f \in Files, Unpack(f) PROVE WritesInv'
  BY <1>2 DEF Unpack, RunInv, Archives
<1>3. CASE Crash
  BY <1>3 DEF Crash, Nothing
<1>4. CASE SignIn \/ Login \/ SignOut
  BY <1>4 DEF SignIn, Login, SignOut
<1>5. ASSUME NEW f \in Files, Write(f) PROVE WritesInv'
  BY <1>5 DEF Write, Archives
<1>6. CASE Wake \/ AskMe \/ SignedOut \/ Compare
  BY <1>6 DEF Wake, AskMe, SignedOut, Compare, Goto, Nothing
<1>7. CASE Connect \/ Upsert \/ Remember \/ RoundFails
  BY <1>7 DEF Connect, Upsert, Remember, RoundFails, Goto
<1>8. ASSUME NEW f \in Files, Read(f) PROVE WritesInv'
  BY <1>8 DEF Read, Goto, Entry, Archives
<1>9. CASE UNCHANGED vars
  BY <1>9 DEF vars
<1>. QED BY <1>1, <1>2, <1>3, <1>4, <1>5, <1>6, <1>7, <1>8, <1>9
         DEF Next, RestoreState, WorkerStep, BackupStep

LEMMA UnpackStep ==
  ASSUME NeonAssumption, TypeOK, RunInv, UnpackInv, [Next]_vars
  PROVE  UnpackInv'
<1>. USE DEF UnpackInv, diskVars, backupVars
<1>1. CASE Found
  <2>1. \A f \in Files : row # None /\ row[f] = 0 => row[f] <= disk[f]
    BY DEF TypeOK, Archives, NeonAssumption
  <2>. QED BY <1>1, <2>1 DEF Found, MainGoto
<1>2. CASE Unpacked \/ RestoreFails \/ StartWorker
  BY <1>2 DEF Unpacked, RestoreFails, StartWorker, MainGoto
<1>3. ASSUME NEW f \in Files, Unpack(f) PROVE UnpackInv'
  <2>1. row \in Archives /\ disk \in Archives
    BY <1>3 DEF Unpack, RunInv, TypeOK
  <2>2. row[f] <= row[f]
    BY <2>1 DEF Archives, NeonAssumption
  <2>3. disk'[f] = row[f] /\ \A g \in Files \ {f} : disk'[g] = disk[g]
    BY <1>3, <2>1 DEF Unpack, Archives
  <2>. QED BY <1>3, <2>2, <2>3 DEF Unpack
<1>4. CASE Crash
  BY <1>4 DEF Crash
<1>5. CASE WorkerStep
  BY <1>5 DEF WorkerStep, SignIn, Login, SignOut, Write, RunInv
<1>6. CASE BackupStep
  BY <1>6 DEF BackupStep, Wake, AskMe, SignedOut, Read, Compare, Connect,
       Upsert, Remember, RoundFails, Goto
<1>7. CASE UNCHANGED vars
  BY <1>7 DEF vars
<1>. QED BY <1>1, <1>2, <1>3, <1>4, <1>5, <1>6, <1>7 DEF Next, RestoreState

LEMMA RowStep ==
  ASSUME NeonAssumption, TypeOK, RunInv, UnpackInv, WritesInv, RowInv,
         TarInv, [Next]_vars
  PROVE  RowInv'
<1>. USE DEF RowInv, AtMost, diskVars, backupVars
<1>1. CASE RestoreState
  <2>1. CASE RestoreFails \/ StartWorker
    BY <2>1 DEF RestoreFails, StartWorker
  <2>4. CASE Found
    <3>1. last' = None /\ row' = row /\ (own' => row = None)
      BY <2>4 DEF Found, MainGoto, RunInv
    <3>. QED BY <3>1
  <2>2. CASE Unpacked
    BY <2>2 DEF Unpacked, MainGoto, UnpackInv
  <2>3. ASSUME NEW f \in Files, Unpack(f) PROVE RowInv'
    <3>1. row \in Archives /\ disk \in Archives
      BY <2>3 DEF Unpack, RunInv, TypeOK
    <3>2. row[f] <= row[f]
      BY <3>1 DEF Archives, NeonAssumption
    <3>3. disk'[f] = row[f] /\ \A g \in Files \ {f} : disk'[g] = disk[g]
      BY <2>3, <3>1 DEF Unpack, Archives
    <3>. QED BY <2>3, <3>2, <3>3 DEF Unpack, RunInv
  <2>. QED BY <1>1, <2>1, <2>2, <2>3, <2>4 DEF RestoreState
<1>2. CASE Crash
  BY <1>2 DEF Crash
<1>3. CASE SignIn \/ Login \/ SignOut
  BY <1>3 DEF SignIn, Login, SignOut
<1>4. ASSUME NEW f \in Files, Write(f) PROVE RowInv'
  BY <1>4 DEF Write, WritesInv, TypeOK, Archives, NeonAssumption
<1>5. CASE Wake \/ AskMe \/ SignedOut \/ Compare \/ Connect
  BY <1>5 DEF Wake, AskMe, SignedOut, Compare, Connect, Remembered, Goto
<1>6. ASSUME NEW f \in Files, Read(f) PROVE RowInv'
  BY <1>6 DEF Read, Goto
<1>7. CASE Upsert \/ RoundFails
  <2>1. UNCHANGED <<last, disk>>
    BY <1>7 DEF Upsert, RoundFails, Goto
  <2>2. CASE UNCHANGED <<row, own>>
    BY <2>1, <2>2
  <2>3. CASE ~UNCHANGED <<row, own>>
    <3>1. thread = "store" /\ row' = tar /\ own'
      BY <1>7, <2>3 DEF Upsert, RoundFails, Goto
    <3>2. \A f \in Files :
            tar[f] <= disk[f] /\ (own /\ row # None => row[f] <= tar[f])
      BY <3>1 DEF TarInv, Reading
    <3>3. tar # None /\ tar \in Archives
      BY NoneApart DEF TypeOK
    <3>4. last # None => last \in Archives /\ row \in Archives
      BY DEF TypeOK
    <3>. QED BY <2>1, <3>1, <3>2, <3>3, <3>4 DEF Archives, NeonAssumption
  <2>. QED BY <2>2, <2>3
<1>8. CASE Remember
  <2>1. own' /\ row = tar /\ \A f \in Files : tar[f] <= disk[f]
    BY <1>8 DEF Remember, Goto, TarInv, Reading
  <2>2. last' = tar /\ row' = row /\ disk' = disk
    BY <1>8 DEF Remember, Goto
  <2>3. tar # None /\ \A f \in Files : tar[f] <= tar[f]
    BY NoneApart DEF TypeOK, Archives, NeonAssumption
  <2>. QED BY <2>1, <2>2, <2>3
<1>9. CASE UNCHANGED vars
  BY <1>9 DEF vars
<1>. QED BY <1>1, <1>2, <1>3, <1>4, <1>5, <1>6, <1>7, <1>8, <1>9
         DEF Next, WorkerStep, BackupStep

LEMMA TarStep ==
  ASSUME NeonAssumption, TypeOK, RunInv, UnpackInv, WritesInv, RowInv, TarInv,
         [Next]_vars
  PROVE  TarInv'
<1>. USE DEF TarInv, Reading, diskVars, backupVars
<1>1. CASE RestoreState
  BY <1>1 DEF RestoreState, Found, Unpack, Unpacked, RestoreFails,
       StartWorker, MainGoto, RunInv
<1>2. CASE Crash
  BY <1>2 DEF Crash
<1>3. CASE SignIn \/ Login \/ SignOut
  BY <1>3 DEF SignIn, Login, SignOut
<1>4. ASSUME NEW f \in Files, Write(f) PROVE TarInv'
  BY <1>4 DEF Write, WritesInv, TypeOK, Archives, NeonAssumption
<1>5. CASE Wake \/ AskMe \/ SignedOut \/ Compare \/ Connect \/ Remember
           \/ RoundFails
  <2>1. CASE Remember \/ RoundFails \/ Wake \/ SignedOut
    BY <2>1 DEF Remember, RoundFails, Wake, SignedOut, Goto
  <2>2. CASE AskMe
    BY <2>2 DEF AskMe, Goto
  <2>3. CASE Compare \/ Connect
    BY <2>3 DEF Compare, Connect, Remembered, Goto
  <2>. QED BY <1>5, <2>1, <2>2, <2>3
<1>6. ASSUME NEW f \in Files, Read(f) PROVE TarInv'
  <2>1. disk[f] <= disk[f] /\ (own /\ row # None => row[f] <= disk[f])
    BY DEF RowInv, AtMost, TypeOK, Archives, NeonAssumption
  <2>2. tar' = [tar EXCEPT ![f] = disk[f]] /\ left' = left \ {f}
        /\ thread = "build" /\ thread' = "build"
        /\ UNCHANGED <<disk, last, row, own>>
    BY <1>6 DEF Read, Goto, Entry
  <2>. QED BY <2>1, <2>2 DEF TypeOK, Archives
<1>7. CASE Upsert
  <2>1. left = {} /\ \A f \in Files : tar[f] <= disk[f] /\ tar[f] <= tar[f]
    BY <1>7 DEF Upsert, Goto, TypeOK, Archives, NeonAssumption
  <2>. QED BY <1>7, <2>1 DEF Upsert, Goto
<1>8. CASE UNCHANGED vars
  BY <1>8 DEF vars
<1>. QED BY <1>1, <1>2, <1>3, <1>4, <1>5, <1>6, <1>7, <1>8
         DEF Next, WorkerStep, BackupStep

LEMMA SessionStep ==
  ASSUME NeonAssumption, TypeOK, RunInv, WritesInv, TarInv, SessionInv,
         [Next]_vars
  PROVE  SessionInv'
<1>. USE DEF SessionInv, Reading, Holds, diskVars, backupVars
<1>1. CASE RestoreState
  BY <1>1 DEF RestoreState, Found, Unpack, Unpacked, RestoreFails,
       StartWorker, MainGoto, RunInv
<1>2. CASE Crash
  BY <1>2 DEF Crash
<1>3. CASE SignIn
  <2>1. Holds(disk)
    BY <1>3, HoldsSomething DEF SignIn, TypeOK
  <2>. QED BY <1>3, <2>1 DEF SignIn
<1>4. CASE Login \/ SignOut
  BY <1>4 DEF Login, SignOut
<1>5. ASSUME NEW f \in Files, Write(f) PROVE SessionInv'
  <2>1. \A g \in Files : disk[g] > 0 => disk'[g] > 0
    BY <1>5 DEF Write, TypeOK, Archives, NeonAssumption
  <2>. QED BY <1>5, <2>1 DEF Write
<1>6. CASE Wake \/ SignedOut \/ Connect \/ Remember
  BY <1>6 DEF Wake, SignedOut, Connect, Remember, Goto
<1>7. CASE AskMe
  BY <1>7 DEF AskMe, SaysAuthenticated, Goto
<1>8. CASE Compare
  BY <1>8 DEF Compare, Goto
<1>9. CASE Upsert \/ RoundFails
  BY <1>9 DEF Upsert, RoundFails, Goto
<1>10. ASSUME NEW f \in Files, Read(f) PROVE SessionInv'
  <2>1. CASE misread
    BY <1>10, <2>1 DEF Read, Goto
  <2>2. CASE ~misread
    <3>1. PICK g \in Files : disk[g] > 0 /\ (g \notin left => tar[g] > 0)
      BY <1>10, <2>2 DEF Read, Goto
    <3>2. disk'[g] > 0 /\ (g \notin left' => tar'[g] > 0)
      BY <1>10, <3>1 DEF Read, Goto, Entry, TypeOK, Archives
    <3>. QED BY <1>10, <3>2 DEF Read, Goto
  <2>. QED BY <2>1, <2>2
<1>11. CASE UNCHANGED vars
  BY <1>11 DEF vars
<1>. QED BY <1>1, <1>2, <1>3, <1>4, <1>5, <1>6, <1>7, <1>8, <1>9, <1>10,
            <1>11 DEF Next, WorkerStep, BackupStep
-----------------------------------------------------------------------------
(* The invariant, and what follows from it.                                *)

LEMMA InitInv ==
  ASSUME NeonAssumption, Init
  PROVE  IInv
<1>1. TypeOK
  <2>1. Nothing \in Archives
    BY DEF Nothing, Archives, NeonAssumption
  <2>2. 0 \in 0 .. MaxWrites /\ 0 \in 0 .. MaxCrashes
        /\ 0 \in 0 .. MaxFailures
    BY DEF NeonAssumption
  <2>. QED BY <2>1, <2>2 DEF Init, TypeOK
<1>2. RunInv /\ UnpackInv /\ WritesInv /\ RowInv /\ TarInv /\ SessionInv
  BY DEF Init, RunInv, UnpackInv, WritesInv, RowInv, TarInv, SessionInv, Reading, Nothing
<1>. QED BY <1>1, <1>2 DEF IInv

LEMMA NextInv ==
  ASSUME NeonAssumption, IInv, [Next]_vars
  PROVE  IInv'
BY TypeStep, RunStep, UnpackStep, WritesStep, RowStep, TarStep, SessionStep DEF IInv

LEMMA StoredWhenSkipped ==
  ASSUME NeonAssumption, TypeOK, RowInv, TarInv
  PROVE  SkippedIsStored
<1>. SUFFICES ASSUME thread = "build", left = {}, tar = last
              PROVE  row = tar
  BY DEF SkippedIsStored
<1>1. tar # None /\ row \in Archives /\ tar \in Archives
  BY NoneApart DEF TypeOK, RowInv
<1>2. \A f \in Files : row[f] <= tar[f] /\ tar[f] <= row[f]
  BY <1>1 DEF TarInv, Reading, RowInv, AtMost
<1>3. \A f \in Files : row[f] = tar[f]
  <2>. TAKE f \in Files
  <2>1. row[f] \in Nat /\ tar[f] \in Nat
    BY <1>1 DEF Archives, NeonAssumption
  <2>. QED BY <1>2, <2>1
<1>. QED BY <1>1, <1>3 DEF Archives

\* All of the invariant holds throughout.
THEOREM Invariant == Spec => []IInv
<1>1. Init => IInv
  BY InitInv, NeonAssumption
<1>2. IInv /\ [Next]_vars => IInv'
  BY NextInv, NeonAssumption
<1>. QED BY <1>1, <1>2, PTL DEF Spec

\* Every variable keeps its type (neon_state.rs).
THEOREM TypeCorrect == Spec => []TypeOK
<1>1. IInv => TypeOK
  BY DEF IInv
<1>. QED BY <1>1, Invariant, PTL

\* A change is never taken for saved when it is not, whatever step of an
\* earlier round failed (neon_state.rs:114-138).
THEOREM SkippedRoundsAreStored == Spec => []SkippedIsStored
<1>1. IInv => SkippedIsStored
  BY StoredWhenSkipped, NeonAssumption DEF IInv
<1>. QED BY <1>1, Invariant, PTL

\* The row changes only when the backup thread stores its archive.
LEMMA OnlyStored ==
  ASSUME [Next]_vars, row' # row
  PROVE  thread = "store" /\ row' = tar
<1>1. Upsert \/ RoundFails
  <2>1. ~RestoreState
    BY DEF RestoreState, Found, Unpack, Unpacked, RestoreFails, StartWorker
  <2>2. ~Crash /\ ~WorkerStep
    BY DEF Crash, WorkerStep, SignIn, Login, SignOut, Write
  <2>3. ~UNCHANGED vars
    BY DEF vars
  <2>. QED BY <2>1, <2>2, <2>3 DEF Next, BackupStep, Wake, AskMe, SignedOut,
              Read, Compare, Connect, Remember, Goto
<1>. QED BY <1>1 DEF Upsert, RoundFails, Goto

\* A round that began with the worker signed in stores no empty directory,
\* whatever the worker and its files do until the round reads them
\* (neon_state.rs:74-107).
THEOREM BackupsHoldSessions == Spec => BackupHoldsSession
<1>1. IInv /\ [Next]_vars => (row' # row /\ ~misread => row' # Nothing)
  <2>1. SUFFICES ASSUME IInv, [Next]_vars, row' # row, ~misread
                 PROVE  row' # Nothing
    OBVIOUS
  <2>2. thread = "store" /\ row' = tar BY <2>1, OnlyStored
  <2>3. tar \in Archives /\ Holds(tar)
    BY <2>1, <2>2 DEF IInv, TypeOK, SessionInv, Reading
  <2>. QED BY <2>2, <2>3, HoldsSomething, NeonAssumption
<1>. QED BY <1>1, Invariant, PTL DEF Spec, BackupHoldsSession

LEMMA OlderStep ==
  ASSUME NeonAssumption, TypeOK, RowInv, TarInv, [Next]_vars,
         own, row # None, row' # row
  PROVE  \A f \in Files : row[f] <= row'[f]
<1>1. thread = "store" /\ row' = tar BY OnlyStored
<1>. QED BY <1>1 DEF TarInv, Reading

\* Once a process has unpacked the row, found none or stored its own, no file
\* in the database gets older (main.rs:52-60, neon_state.rs:124-138).
THEOREM RowsNeverOlder == Spec => NeverOlder
<1>1. IInv /\ [Next]_vars =>
        (own /\ row # None /\ row' # row =>
           \A f \in Files : row[f] <= row'[f])
  BY OlderStep, NeonAssumption DEF IInv
<1>2. IInv /\ UNCHANGED vars => row' = row
  BY DEF vars
<1>. QED BY <1>1, <1>2, Invariant, PTL DEF Spec, NeverOlder
=============================================================================
