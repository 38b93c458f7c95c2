-------------------------------- MODULE Neon --------------------------------
(***************************************************************************)
(* The session's copy in a database: src/rust/neon_state.rs, with what     *)
(* run() of main.rs does around it.  At its start the supervisor unpacks   *)
(* the saved directory; only then it starts the worker, and a thread that  *)
(* saves the directory again every minute.  The process may end at any     *)
(* step, and the next one finds the directory as it was left, or, in a new *)
(* container, an empty one.                                                *)
(*                                                                         *)
(* A file is known by how often the worker has written files before it, 0  *)
(* where it does not exist.  The hash of an archive stands for the archive *)
(* itself.  One process at a time uses the key in the database.            *)
(***************************************************************************)
EXTENDS Integers

CONSTANTS
  Files,       \* bound: the files of mpl_db
  None,
  MaxWrites,   \* bound: writes of the worker
  MaxCrashes,  \* bound: ends of the process
  MaxFailures  \* bound: rounds that fail

ASSUME NeonAssumption ==
  /\ MaxWrites \in Nat /\ MaxCrashes \in Nat /\ MaxFailures \in Nat
  /\ Files # {}
  /\ None \notin [Files -> Nat]

VARIABLES
  main,     \* where run() of main.rs is
  todo,     \* files of the row that are still to be unpacked
  disk,     \* the directory mpl_db
  signed,   \* the worker is signed in
  text,     \* the Apple ID or the error that GET /me shows has the word
            \* "authenticated" in it
  row,      \* the row of the database: None, or an archive
  own,      \* history: the row is what this process unpacked or stored
  last,     \* LAST_HASH: None for its initial 0, or of which archive
  thread,   \* where the backup thread is
  tar,      \* the archive it builds or holds
  left,     \* files it has still to read
  misread,  \* history: it builds on that word in a text, nobody being signed in
  writes, crashes, failures

diskVars   == <<disk, signed, text, writes>>
backupVars == <<last, thread, tar, left, misread>>
vars == <<main, todo, diskVars, row, own, backupVars, crashes, failures>>

Archives == [Files -> 0 .. MaxWrites]

Nothing == [f \in Files |-> 0]

TypeOK ==
  /\ main \in {"connect", "unpack", "start", "run"}
  /\ todo \subseteq Files /\ left \subseteq Files
  /\ disk \in Archives /\ tar \in Archives
  /\ row \in Archives \cup {None} /\ last \in Archives \cup {None}
  /\ {signed, text, own, misread} \subseteq BOOLEAN
  /\ thread \in {"sleep", "ask", "build", "connect", "store", "remember"}
  /\ writes \in 0 .. MaxWrites /\ crashes \in 0 .. MaxCrashes
  /\ failures \in 0 .. MaxFailures

Init ==
  /\ main = "connect" /\ todo = {}
  /\ disk = Nothing /\ signed = FALSE /\ text = FALSE
  /\ row = None /\ own = FALSE /\ last = None
  /\ thread = "sleep" /\ tar = Nothing /\ left = {} /\ misread = FALSE
  /\ writes = 0 /\ crashes = 0 /\ failures = 0
-----------------------------------------------------------------------------
(* The start of the supervisor.                                            *)

MainGoto(from, to) == main = from /\ main' = to

\* connect(), the table and the query; without a row nothing is unpacked.
Found ==
  /\ MainGoto("connect", IF row = None THEN "start" ELSE "unpack")
  /\ todo' = IF row = None THEN {} ELSE {f \in Files : row[f] # 0}
  /\ own' = (row = None)
  /\ UNCHANGED <<diskVars, row, backupVars, crashes, failures>>

Unpack(f) ==
  /\ main = "unpack" /\ f \in todo
  /\ disk' = [disk EXCEPT ![f] = row[f]]
  /\ todo' = todo \ {f}
  /\ UNCHANGED <<main, signed, text, writes, row, own, backupVars, crashes,
                 failures>>

UnpackedSome ==
  /\ MainGoto("unpack", "start") /\ own' = TRUE
  /\ UNCHANGED <<todo, diskVars, row, backupVars, crashes, failures>>

Unpacked ==
  /\ MainGoto("unpack", "start") /\ todo = {} /\ own' = TRUE
  /\ UNCHANGED <<todo, diskVars, row, backupVars, crashes, failures>>

\* An error is logged, whatever has been unpacked by then.
RestoreFails ==
  /\ main \in {"connect", "unpack"}
  /\ main' = "start" /\ todo' = {}
  /\ UNCHANGED <<diskVars, row, own, backupVars, crashes, failures>>

\* ensure_started(), spawn_backup_loop().
StartWorker ==
  /\ MainGoto("start", "run")
  /\ UNCHANGED <<todo, diskVars, row, own, backupVars, crashes, failures>>

RestoreState ==
  \/ Found \/ Unpacked \/ RestoreFails \/ StartWorker
  \/ \E f \in Files : Unpack(f)

\* The process ends, and another one starts.
Crash ==
  /\ crashes < MaxCrashes
  /\ crashes' = crashes + 1
  /\ main' = "connect" /\ todo' = {} /\ own' = FALSE
  /\ disk' \in {disk, Nothing} /\ signed' = FALSE /\ text' = FALSE
  /\ last' = None /\ thread' = "sleep" /\ tar' = Nothing /\ left' = {}
  /\ misread' = FALSE
  /\ UNCHANGED <<row, writes, failures>>
-----------------------------------------------------------------------------
(* The worker.                                                             *)

Write(f) ==
  /\ main = "run" /\ writes < MaxWrites
  /\ writes' = writes + 1
  /\ disk' = [disk EXCEPT ![f] = writes + 1]
  /\ UNCHANGED <<main, todo, signed, text, row, own, backupVars, crashes,
                 failures>>

\* The session is on the disk before the state is Authenticated.
SignIn ==
  /\ main = "run" /\ disk # Nothing
  /\ signed' = TRUE
  /\ UNCHANGED <<main, todo, disk, text, writes, row, own, backupVars, crashes,
                 failures>>

\* A login is under way or has failed.  GET /me then shows the Apple ID that
\* the client gave, and of a failed one what Apple has to say of it.
Login ==
  /\ main = "run"
  /\ signed' = FALSE /\ text' \in BOOLEAN
  /\ UNCHANGED <<main, todo, disk, writes, row, own, backupVars, crashes,
                 failures>>

\* A logout, or a new worker: signed out, and the files are left alone.
SignOut ==
  /\ signed \/ text
  /\ signed' = FALSE /\ text' = FALSE
  /\ UNCHANGED <<main, todo, disk, writes, row, own, backupVars, crashes,
                 failures>>

WorkerStep == SignIn \/ Login \/ SignOut \/ \E f \in Files : Write(f)
-----------------------------------------------------------------------------
(* The backup thread.                                                      *)

Goto(from, to) ==
  /\ main = "run" /\ thread = from /\ thread' = to
  /\ UNCHANGED <<main, todo, diskVars, crashes>>

Wake ==
  /\ Goto("sleep", "ask")
  /\ UNCHANGED <<row, own, last, tar, left, misread, failures>>

\* GET /me says "authenticated": as the state, or anywhere else in its JSON.
AnyAnswer == TRUE
SaysAuthenticated == signed \/ text

AskMe ==
  /\ Goto("ask", "build") /\ SaysAuthenticated
  /\ tar' = Nothing /\ left' = Files
  /\ misread' = (text /\ ~signed)
  /\ UNCHANGED <<row, own, last, failures>>

SignedOut ==
  /\ Goto("ask", "sleep") /\ ~SaysAuthenticated
  /\ UNCHANGED <<row, own, last, tar, left, misread, failures>>

\* build_tarball(): one file after the other, as it is by now.  A file that
\* does not exist has no entry.
EmptyEntry(f) == IF disk[f] = 0 THEN None ELSE disk[f]
Entry(f) == disk[f]

Read(f) ==
  /\ Goto("build", "build") /\ f \in left
  /\ tar' = [tar EXCEPT ![f] = Entry(f)]
  /\ left' = left \ {f}
  /\ UNCHANGED <<row, own, last, misread, failures>>

\* The hash of the archive is that of the last one, or it is not.
SameNames == last # None /\ \A f \in Files : tar[f] = 0 <=> last[f] = 0
Unchanged == tar = last

Compare ==
  /\ left = {}
  /\ Goto("build", IF Unchanged THEN "sleep" ELSE "connect")
  /\ UNCHANGED <<row, own, last, tar, left, misread, failures>>

\* connect(), the table: nothing is remembered yet.
Early == tar
Remembered == last

Connect ==
  /\ Goto("connect", "store") /\ last' = Remembered
  /\ UNCHANGED <<row, own, tar, left, misread, failures>>

Upsert ==
  /\ Goto("store", "remember") /\ row' = tar /\ own' = TRUE
  /\ UNCHANGED <<last, tar, left, misread, failures>>

Remember ==
  /\ Goto("remember", "sleep") /\ last' = tar
  /\ UNCHANGED <<row, own, tar, left, misread, failures>>

\* The worker does not answer, a file is gone when it is read, the database
\* fails, with the row stored or not: the next round tries again.
RoundFails ==
  /\ failures < MaxFailures /\ failures' = failures + 1
  /\ thread \in {"ask", "build", "connect", "store"}
  /\ Goto(thread, "sleep")
  /\ \/ UNCHANGED <<row, own>>
     \/ thread = "store" /\ row' = tar /\ own' = TRUE
  /\ UNCHANGED <<last, tar, left, misread>>

BackupStep ==
  \/ Wake \/ AskMe \/ SignedOut \/ Compare \/ Connect \/ Upsert \/ Remember
  \/ RoundFails
  \/ \E f \in Files : Read(f)

Next == RestoreState \/ Crash \/ WorkerStep \/ BackupStep

\* Both threads of the supervisor run.
Fairness == WF_vars(RestoreState) /\ WF_vars(BackupStep)

Spec == Init /\ [][Next]_vars /\ Fairness
-----------------------------------------------------------------------------
(* Properties.                                                             *)

\* A round is over early only when the database holds just this archive:
\* whichever step of an earlier round failed, also after the row was written,
\* a change is never taken for saved when it is not (neon_state.rs:114-138).
SkippedIsStored == thread = "build" /\ left = {} /\ tar = last => row = tar

\* What a round stores holds a session, unless it has misread GET /me: one that
\* began with the worker signed in stores no empty directory, although by the
\* time it reads the files the worker may be signed out, writing or another one
\* (neon_state.rs:74-107).
BackupHoldsSession == [][row' # row /\ ~misread => row' # Nothing]_vars

\* No file in the database gets older but once: in the first archive that a
\* process stores whose restore failed, as it then runs on what it has.  Once
\* a process has unpacked the row, found none or stored its own, it stores
\* nothing older, although an archive is read while the worker writes and a
\* round may end anywhere (main.rs:52-60, neon_state.rs:74-80 and 124-138).
NeverOlder ==
  [][own /\ row # None /\ row' # row =>
       \A f \in Files : row[f] <= row'[f]]_vars

\* A worker that stays signed in and leaves its files alone ends up saved,
\* whatever failed before: the thread tries again (neon_state.rs:143-150).
Quiet == main = "run" /\ signed

Saved == <>[]Quiet => <>[](row = disk)
-----------------------------------------------------------------------------
(* What a comment says, and the code does not do.                          *)

\* neon_state.rs:99: "Only back up when authenticated."  What a worker has on
\* its disk that is not signed in, which may be nothing at all, then never
\* takes the place of a session in the database.
SavedSessionKept == [][row # None /\ row # Nothing => row' # Nothing]_vars
=============================================================================
