---------------------------- MODULE AccountProofs ----------------------------
(***************************************************************************)
(* Proofs about Account, for any finite set of attempts and any number of  *)
(* logouts.  What keeps threads out of Apple's libraries is a count: every *)
(* attempt or restore that goes in finds the state not busy and leaves it  *)
(* busy, and only logout() makes it free again with somebody inside        *)
(* (ReentryStep).  Before the first logout, then, whoever is inside is     *)
(* alone (Alone), so nobody touches its password or its runtime            *)
(* (Undisturbed), nobody undoes its session, and nobody meets a null.      *)
(***************************************************************************)
EXTENDS Account, FiniteSetTheorems, TLAPS

Inside == Live \cup Claims

\* Before the first logout, a live attempt finds the runtime and its own
\* password where start_login() put them, and has given Apple no other.
Undisturbed ==
  logouts = 0 =>
    \A f \in Live : runtime /\ password = f /\ sent[f].password = f

\* The thread id of no attempt carries nothing over to the next one.
OffUnsent == \A f \in Attempts : pc[f] = "off" => sent[f] = Unsent(f)

\* Until a logout begins, an accepted code has somebody waiting for it.
CodeWaits ==
  logouts = 0 /\ ~aborted /\ twofa_code = "fresh" =>
    \E f \in Attempts : pc[f] = "parked"

IInv ==
  /\ TypeOK /\ ReentryBounded /\ FieldsAgree /\ CodeFindsHandler
  /\ OffUnsent /\ Undisturbed /\ NoNullDereference /\ CodeWaits
-----------------------------------------------------------------------------
(* Types.                                                                  *)

\* Every handler, section and unlocked access assigns values of the types.
LEMMA TypeStep ==
  ASSUME AccountAssumption, TypeOK, [Next]_vars
  PROVE  TypeOK'
<1>. USE DEF TypeOK, At, Goto, accountVars, Threads, Restorers, IpcAt, BootAt,
             LazyAt, AttemptAt, LoginStates, AccountAssumption
<1>1. CASE UNCHANGED vars
  BY <1>1 DEF vars
<1>2. CASE IpcNoEffect \/ Stopped
  BY <1>2 DEF IpcNoEffect, Stopped, vars
<1>3. CASE IpcSubmit2fa
  BY <1>3 DEF IpcSubmit2fa
<1>4. CASE TriggerRestore
  BY <1>4 DEF TriggerRestore
<1>5. CASE LogoutAborts
  BY <1>5 DEF LogoutAborts
<1>6. CASE LogoutLooks
  BY <1>6 DEF LogoutLooks
<1>7. CASE LogoutDetaches
  BY <1>7 DEF LogoutDetaches
<1>8. CASE LogoutThrows
  BY <1>8 DEF LogoutThrows
<1>9. CASE LogoutClears
  <2>1. logouts' \in Nat BY <1>9 DEF LogoutClears
  <2>. QED BY <1>9, <2>1 DEF LogoutClears
<1>10. CASE BootInit \/ BootLooks
  BY <1>10 DEF BootInit, BootLooks
<1>11. CASE BootSkipsLogin
  BY <1>11 DEF BootSkipsLogin
<1>12. CASE BootCheck
  BY <1>12 DEF BootCheck
<1>13. ASSUME NEW t \in {Ipc, Boot}, Settled(t) PROVE TypeOK'
  BY <1>13 DEF Settled
<1>14. ASSUME NEW f \in Attempts, IpcLogin(f) PROVE TypeOK'
  BY <1>14 DEF IpcLogin, StartLogin
<1>15. ASSUME NEW f \in Attempts, BootLogin(f) PROVE TypeOK'
  BY <1>15 DEF BootLogin, StartLogin
<1>16. ASSUME NEW f \in Attempts, AttemptBegins(f) PROVE TypeOK'
  BY <1>16 DEF AttemptBegins
<1>17. ASSUME NEW f \in Attempts, NoRuntime(f) PROVE TypeOK'
  BY <1>17 DEF NoRuntime, WipeSecrets, Ends, Unsent
<1>18. ASSUME NEW f \in Attempts, EnterApple(f) PROVE TypeOK'
  BY <1>18 DEF EnterApple
<1>19. ASSUME NEW f \in Attempts, AskPassword(f) PROVE TypeOK'
  BY <1>19 DEF AskPassword
<1>20. ASSUME NEW f \in Attempts, AskCode(f) PROVE TypeOK'
  BY <1>20 DEF AskCode
<1>21. ASSUME NEW f \in Attempts, AskCodeNoWait(f) PROVE TypeOK'
  BY <1>21 DEF AskCodeNoWait, HandOver, BackInProgress
<1>22. ASSUME NEW f \in Attempts, Wakes(f) PROVE TypeOK'
  BY <1>22 DEF Wakes, HandOver, BackInProgress
<1>23. ASSUME NEW f \in Attempts, TimesOut(f) PROVE TypeOK'
  BY <1>23 DEF TimesOut, HandOver, BackInProgress
<1>24. ASSUME NEW f \in Attempts, AppleAccepts(f) PROVE TypeOK'
  BY <1>24 DEF AppleAccepts
<1>25. ASSUME NEW f \in Attempts, AttemptFails(f) PROVE TypeOK'
  BY <1>25 DEF AttemptFails, WipeSecrets, Ends, Unsent
<1>26. ASSUME NEW f \in Attempts, AttemptSucceeds(f) PROVE TypeOK'
  BY <1>26 DEF AttemptSucceeds, FinishAuthenticated, WipeSecrets, Ends, Unsent
<1>27. ASSUME NEW f \in Attempts, NullDereference(f) PROVE TypeOK'
  BY <1>27 DEF NullDereference
<1>28. ASSUME NEW r \in Restorers, RestoreLock(r) PROVE TypeOK'
  BY <1>28 DEF RestoreLock, Restored
<1>29. ASSUME NEW r \in Restorers, RestoreDeclined(r) PROVE TypeOK'
  BY <1>29 DEF RestoreDeclined, Restored
<1>30. ASSUME NEW r \in Restorers, RestoreClaims(r) PROVE TypeOK'
  BY <1>30 DEF RestoreClaims
<1>31. ASSUME NEW r \in Restorers, RestoreFails(r) PROVE TypeOK'
  BY <1>31 DEF RestoreFails, Restored
<1>32. ASSUME NEW r \in Restorers, RestoreSucceeds(r) PROVE TypeOK'
  BY <1>32 DEF RestoreSucceeds, FinishAuthenticated, WipeSecrets, Restored
<1>33. ASSUME NEW r \in Restorers, DetachesSecond(r) PROVE TypeOK'
  BY <1>33 DEF DetachesSecond
<1>. QED
  BY <1>1, <1>2, <1>3, <1>4, <1>5, <1>6, <1>7, <1>8, <1>9, <1>10, <1>11,
     <1>12, <1>13, <1>14, <1>15, <1>16, <1>17, <1>18, <1>19, <1>20, <1>21,
     <1>22, <1>23, <1>24, <1>25, <1>26, <1>27, <1>28, <1>29, <1>30, <1>31,
     <1>32, <1>33 DEF Next, Handler, Logout, BootStep, Attempt, Restore
-----------------------------------------------------------------------------
(* Who is inside Apple's libraries.                                        *)

\* Nobody goes in or out, and the state is no less busy ...
Keeps ==
  Inside' = Inside /\ logouts' = logouts /\ (state' = state \/ state' \in Busy)

\* ... or x goes in, which finds the state free and leaves it busy ...
Joins(x) ==
  /\ Inside' = Inside \cup {x} /\ logouts' = logouts
  /\ state \notin Busy /\ state' \in Busy

\* ... or x comes out ...
Leaves(x) == x \in Inside /\ Inside' = Inside \ {x} /\ logouts' = logouts

\* ... or a logout completes, whoever is inside.
LogsOut == Inside' = Inside /\ logouts' = logouts + 1

Moves ==
  \/ Keeps \/ LogsOut
  \/ \E x \in Attempts \cup Restorers : Joins(x) \/ Leaves(x)

\* Every step is one of these.
LEMMA InsideStep ==
  ASSUME AccountAssumption, TypeOK, [Next]_vars
  PROVE  Moves
<1>. USE DEF TypeOK, At, Goto, accountVars, Threads, Restorers, IpcAt, BootAt,
             LazyAt, AttemptAt, AccountAssumption, Inside, Live, Claims, Busy
<1>1. CASE UNCHANGED vars
  BY <1>1 DEF vars, Moves, Keeps
<1>2. CASE IpcNoEffect \/ Stopped
  BY <1>2 DEF IpcNoEffect, Stopped, vars, Moves, Keeps
<1>3. CASE IpcSubmit2fa
  <2>1. Keeps BY <1>3 DEF IpcSubmit2fa, Keeps
  <2>. QED BY <2>1 DEF Moves
<1>4. CASE TriggerRestore
  <2>1. Keeps BY <1>4 DEF TriggerRestore, Keeps
  <2>. QED BY <2>1 DEF Moves
<1>5. CASE LogoutAborts
  <2>1. Keeps BY <1>5 DEF LogoutAborts, Keeps
  <2>. QED BY <2>1 DEF Moves
<1>6. CASE LogoutLooks
  <2>1. Keeps BY <1>6 DEF LogoutLooks, Keeps
  <2>. QED BY <2>1 DEF Moves
<1>7. CASE LogoutDetaches
  <2>1. Keeps BY <1>7 DEF LogoutDetaches, Keeps
  <2>. QED BY <2>1 DEF Moves
<1>8. CASE LogoutThrows
  <2>1. Keeps BY <1>8 DEF LogoutThrows, Keeps
  <2>. QED BY <2>1 DEF Moves
<1>9. CASE LogoutClears
  <2>1. LogsOut BY <1>9 DEF LogoutClears, LogsOut
  <2>. QED BY <2>1 DEF Moves
<1>10. CASE BootInit \/ BootLooks
  <2>1. Keeps BY <1>10 DEF BootInit, BootLooks, Keeps
  <2>. QED BY <2>1 DEF Moves
<1>11. CASE BootSkipsLogin
  <2>1. Keeps BY <1>11 DEF BootSkipsLogin, Keeps
  <2>. QED BY <2>1 DEF Moves
<1>12. CASE BootCheck
  <2>1. Keeps BY <1>12 DEF BootCheck, Keeps
  <2>. QED BY <2>1 DEF Moves
<1>13. ASSUME NEW t \in {Ipc, Boot}, Settled(t) PROVE Moves
  <2>1. Keeps BY <1>13 DEF Settled, Keeps
  <2>. QED BY <2>1 DEF Moves
<1>14. ASSUME NEW f \in Attempts, IpcLogin(f) PROVE Moves
  <2>1. Joins(f) BY <1>14 DEF IpcLogin, StartLogin, NotBusy, Joins
  <2>. QED BY <2>1 DEF Moves
<1>15. ASSUME NEW f \in Attempts, BootLogin(f) PROVE Moves
  <2>1. Joins(f) BY <1>15 DEF BootLogin, StartLogin, NotBusy, Joins
  <2>. QED BY <2>1 DEF Moves
<1>16. ASSUME NEW f \in Attempts, AttemptBegins(f) PROVE Moves
  <2>1. Keeps BY <1>16 DEF AttemptBegins, Keeps
  <2>. QED BY <2>1 DEF Moves
<1>17. ASSUME NEW f \in Attempts, NoRuntime(f) PROVE Moves
  <2>1. Leaves(f) BY <1>17 DEF NoRuntime, WipeSecrets, Ends, Unsent, Leaves
  <2>. QED BY <2>1 DEF Moves
<1>18. ASSUME NEW f \in Attempts, EnterApple(f) PROVE Moves
  <2>1. Keeps BY <1>18 DEF EnterApple, Keeps
  <2>. QED BY <2>1 DEF Moves
<1>19. ASSUME NEW f \in Attempts, AskPassword(f) PROVE Moves
  <2>1. Keeps BY <1>19 DEF AskPassword, Keeps
  <2>. QED BY <2>1 DEF Moves
<1>20. ASSUME NEW f \in Attempts, AskCode(f) PROVE Moves
  <2>1. Keeps BY <1>20 DEF AskCode, Keeps
  <2>. QED BY <2>1 DEF Moves
<1>21. ASSUME NEW f \in Attempts, AskCodeNoWait(f) PROVE Moves
  <2>1. Keeps BY <1>21 DEF AskCodeNoWait, HandOver, BackInProgress, Keeps
  <2>. QED BY <2>1 DEF Moves
<1>22. ASSUME NEW f \in Attempts, Wakes(f) PROVE Moves
  <2>1. Keeps BY <1>22 DEF Wakes, HandOver, BackInProgress, Keeps
  <2>. QED BY <2>1 DEF Moves
<1>23. ASSUME NEW f \in Attempts, TimesOut(f) PROVE Moves
  <2>1. Keeps BY <1>23 DEF TimesOut, HandOver, BackInProgress, Keeps
  <2>. QED BY <2>1 DEF Moves
<1>24. ASSUME NEW f \in Attempts, AppleAccepts(f) PROVE Moves
  <2>1. Keeps BY <1>24 DEF AppleAccepts, Keeps
  <2>. QED BY <2>1 DEF Moves
<1>25. ASSUME NEW f \in Attempts, AttemptFails(f) PROVE Moves
  <2>1. Leaves(f) BY <1>25 DEF AttemptFails, WipeSecrets, Ends, Unsent, Leaves
  <2>. QED BY <2>1 DEF Moves
<1>26. ASSUME NEW f \in Attempts, AttemptSucceeds(f) PROVE Moves
  <2>1. Leaves(f) BY <1>26 DEF AttemptSucceeds, FinishAuthenticated, WipeSecrets, Ends, Unsent, Leaves
  <2>. QED BY <2>1 DEF Moves
<1>27. ASSUME NEW f \in Attempts, NullDereference(f) PROVE Moves
  <2>1. Keeps BY <1>27 DEF NullDereference, Keeps
  <2>. QED BY <2>1 DEF Moves
<1>28. ASSUME NEW r \in Restorers, RestoreLock(r) PROVE Moves
  <2>1. Keeps BY <1>28 DEF RestoreLock, Restored, Keeps
  <2>. QED BY <2>1 DEF Moves
<1>29. ASSUME NEW r \in Restorers, RestoreDeclined(r) PROVE Moves
  <2>1. Keeps BY <1>29 DEF RestoreDeclined, Restored, Keeps
  <2>. QED BY <2>1 DEF Moves
<1>30. ASSUME NEW r \in Restorers, RestoreClaims(r) PROVE Moves
  <2>1. Joins(r) BY <1>30 DEF RestoreClaims, RestoreMayClaim, Joins
  <2>. QED BY <2>1 DEF Moves
<1>31. ASSUME NEW r \in Restorers, RestoreFails(r) PROVE Moves
  <2>1. Leaves(r) BY <1>31 DEF RestoreFails, Restored, Leaves
  <2>. QED BY <2>1 DEF Moves
<1>32. ASSUME NEW r \in Restorers, RestoreSucceeds(r) PROVE Moves
  <2>1. Leaves(r) BY <1>32 DEF RestoreSucceeds, FinishAuthenticated, WipeSecrets, Restored, Leaves
  <2>. QED BY <2>1 DEF Moves
<1>33. ASSUME NEW r \in Restorers, DetachesSecond(r) PROVE Moves
  <2>1. Keeps BY <1>33 DEF DetachesSecond, Keeps
  <2>. QED BY <2>1 DEF Moves
<1>. QED
  BY <1>1, <1>2, <1>3, <1>4, <1>5, <1>6, <1>7, <1>8, <1>9, <1>10, <1>11,
     <1>12, <1>13, <1>14, <1>15, <1>16, <1>17, <1>18, <1>19, <1>20, <1>21,
     <1>22, <1>23, <1>24, <1>25, <1>26, <1>27, <1>28, <1>29, <1>30, <1>31,
     <1>32, <1>33 DEF Next, Handler, Logout, BootStep, Attempt, Restore

\* One element more.
LEMMA AddOne ==
  ASSUME NEW S, IsFiniteSet(S), NEW x
  PROVE  /\ Cardinality(S \cup {x}) \in Nat
         /\ x \notin S => Cardinality(S \cup {x}) = Cardinality(S) + 1
         /\ Cardinality(S \cup {x}) <= Cardinality(S) + 1
<1>1. /\ IsFiniteSet(S \cup {x})
      /\ Cardinality(S \cup {x})
           = IF x \in S THEN Cardinality(S) ELSE Cardinality(S) + 1
  BY FS_AddElement, Zenon
<1>2. Cardinality(S) \in Nat BY FS_CardinalityType
<1>3. Cardinality(S \cup {x}) \in Nat BY <1>1, FS_CardinalityType
<1>. QED BY <1>1, <1>2, <1>3

\* Inside is finite, so that it can be counted.
LEMMA InsideFinite ==
  ASSUME AccountAssumption
  PROVE  IsFiniteSet(Inside) /\ Cardinality(Inside) \in Nat
<1>1. IsFiniteSet(Restorers)
  <2>1. IsFiniteSet({}) BY FS_EmptySet
  <2>2. IsFiniteSet({Boot}) BY <2>1, FS_Singleton
  <2>3. Restorers = {Boot} \cup {Lazy} BY DEF Restorers
  <2>. QED BY <2>2, <2>3, FS_AddElement
<1>2. IsFiniteSet(Attempts \cup Restorers)
  BY <1>1, FS_Union DEF AccountAssumption
<1>3. Inside \subseteq Attempts \cup Restorers BY DEF Inside, Live, Claims
<1>. QED BY <1>2, <1>3, FS_Subset, FS_CardinalityType

\* The count of those inside, against the logouts and the state.
LEMMA ReentryStep ==
  ASSUME AccountAssumption, TypeOK, ReentryBounded, [Next]_vars
  PROVE  ReentryBounded'
<1>1. Moves BY InsideStep
<1>2. IsFiniteSet(Inside) /\ Cardinality(Inside) \in Nat BY InsideFinite
<1>3. Cardinality(Inside) <= logouts + (IF state \in Busy THEN 1 ELSE 0)
  BY DEF ReentryBounded, Inside
<1>4. logouts \in Nat BY DEF TypeOK
<1>5. SUFFICES Cardinality(Inside')
                 <= logouts' + (IF state' \in Busy THEN 1 ELSE 0)
  BY DEF ReentryBounded, Inside
<1>6. CASE Keeps BY <1>2, <1>3, <1>4, <1>6 DEF Keeps
<1>7. CASE LogsOut BY <1>2, <1>3, <1>4, <1>7 DEF LogsOut
<1>8. ASSUME NEW x \in Attempts \cup Restorers, Joins(x)
      PROVE  Cardinality(Inside')
               <= logouts' + (IF state' \in Busy THEN 1 ELSE 0)
  <2>1. /\ Cardinality(Inside \cup {x}) <= Cardinality(Inside) + 1
        /\ Cardinality(Inside \cup {x}) \in Nat
    BY <1>2, AddOne
  <2>. QED BY <1>2, <1>3, <1>4, <1>8, <2>1 DEF Joins
<1>9. ASSUME NEW x \in Attempts \cup Restorers, Leaves(x)
      PROVE  Cardinality(Inside')
               <= logouts' + (IF state' \in Busy THEN 1 ELSE 0)
  <2>1. Cardinality(Inside \ {x}) = Cardinality(Inside) - 1
    BY <1>2, <1>9, FS_RemoveElement DEF Leaves
  <2>. QED BY <1>2, <1>3, <1>4, <1>9, <2>1 DEF Leaves
<1>. QED BY <1>1, <1>6, <1>7, <1>8, <1>9 DEF Moves

\* Before the first logout whoever is inside is alone, and nobody is there
\* when the state is not busy.
Solo == logouts = 0 => /\ \A x, y \in Inside : x = y
                       /\ state \notin Busy => Inside = {}

\* The count says so.
LEMMA Alone ==
  ASSUME AccountAssumption, TypeOK, ReentryBounded
  PROVE  Solo
<1>1. SUFFICES ASSUME logouts = 0
               PROVE  /\ \A x, y \in Inside : x = y
                      /\ state \notin Busy => Inside = {}
  BY DEF Solo
<1>2. IsFiniteSet(Inside) /\ Cardinality(Inside) \in Nat BY InsideFinite
<1>3. Cardinality(Inside) <= (IF state \in Busy THEN 1 ELSE 0)
  BY <1>1, <1>2 DEF ReentryBounded, Inside
<1>4. ASSUME NEW x \in Inside, NEW y \in Inside, x # y PROVE FALSE
  <2>1. IsFiniteSet({x}) /\ Cardinality({x}) = 1 BY FS_Singleton
  <2>2. Cardinality({x} \cup {y}) = 2
    <3>1. y \notin {x} BY <1>4
    <3>. QED BY <2>1, <3>1, AddOne
  <2>3. ({x} \cup {y}) \in SUBSET Inside OBVIOUS
  <2>4. Cardinality({x} \cup {y}) <= Cardinality(Inside)
    BY <1>2, <2>3, FS_Subset
  <2>. QED BY <1>2, <1>3, <2>2, <2>4
<1>5. state \notin Busy => Inside = {} BY <1>2, <1>3, FS_EmptySet
<1>. QED BY <1>4, <1>5
-----------------------------------------------------------------------------
(* Preservation of the other conjuncts.                                    *)

\* A section that sets the state sets what the snapshot shows with it.
LEMMA SnapshotStep ==
  ASSUME AccountAssumption, TypeOK, FieldsAgree, [Next]_vars
  PROVE  FieldsAgree'
<1>. USE DEF FieldsAgree, At, accountVars
<1>1. CASE UNCHANGED vars
  BY <1>1 DEF vars
<1>2. CASE IpcNoEffect \/ Stopped
  BY <1>2 DEF IpcNoEffect, Stopped, vars
<1>3. CASE IpcSubmit2fa
  BY <1>3 DEF IpcSubmit2fa
<1>4. CASE TriggerRestore
  BY <1>4 DEF TriggerRestore
<1>5. CASE LogoutAborts
  BY <1>5 DEF LogoutAborts
<1>6. CASE LogoutLooks
  BY <1>6 DEF LogoutLooks
<1>7. CASE LogoutDetaches
  BY <1>7 DEF LogoutDetaches
<1>8. CASE LogoutThrows
  BY <1>8 DEF LogoutThrows
<1>9. CASE LogoutClears
  BY <1>9 DEF LogoutClears
<1>10. CASE BootInit \/ BootLooks
  BY <1>10 DEF BootInit, BootLooks
<1>11. CASE BootSkipsLogin
  BY <1>11 DEF BootSkipsLogin
<1>12. CASE BootCheck
  BY <1>12 DEF BootCheck
<1>13. ASSUME NEW t \in {Ipc, Boot}, Settled(t) PROVE FieldsAgree'
  BY <1>13 DEF Settled
<1>14. ASSUME NEW f \in Attempts, IpcLogin(f) PROVE FieldsAgree'
  BY <1>14 DEF IpcLogin, StartLogin
<1>15. ASSUME NEW f \in Attempts, BootLogin(f) PROVE FieldsAgree'
  BY <1>15 DEF BootLogin, StartLogin
<1>16. ASSUME NEW f \in Attempts, AttemptBegins(f) PROVE FieldsAgree'
  BY <1>16 DEF AttemptBegins
<1>17. ASSUME NEW f \in Attempts, NoRuntime(f) PROVE FieldsAgree'
  BY <1>17 DEF NoRuntime, WipeSecrets, Ends, Unsent
<1>18. ASSUME NEW f \in Attempts, EnterApple(f) PROVE FieldsAgree'
  BY <1>18 DEF EnterApple
<1>19. ASSUME NEW f \in Attempts, AskPassword(f) PROVE FieldsAgree'
  BY <1>19 DEF AskPassword
<1>20. ASSUME NEW f \in Attempts, AskCode(f) PROVE FieldsAgree'
  BY <1>20 DEF AskCode
<1>21. ASSUME NEW f \in Attempts, AskCodeNoWait(f) PROVE FieldsAgree'
  BY <1>21 DEF AskCodeNoWait, HandOver, BackInProgress
<1>22. ASSUME NEW f \in Attempts, Wakes(f) PROVE FieldsAgree'
  BY <1>22 DEF Wakes, HandOver, BackInProgress
<1>23. ASSUME NEW f \in Attempts, TimesOut(f) PROVE FieldsAgree'
  BY <1>23 DEF TimesOut, HandOver, BackInProgress
<1>24. ASSUME NEW f \in Attempts, AppleAccepts(f) PROVE FieldsAgree'
  BY <1>24 DEF AppleAccepts
<1>25. ASSUME NEW f \in Attempts, AttemptFails(f) PROVE FieldsAgree'
  BY <1>25 DEF AttemptFails, WipeSecrets, Ends, Unsent
<1>26. ASSUME NEW f \in Attempts, AttemptSucceeds(f) PROVE FieldsAgree'
  BY <1>26 DEF AttemptSucceeds, FinishAuthenticated, WipeSecrets, Ends, Unsent
<1>27. ASSUME NEW f \in Attempts, NullDereference(f) PROVE FieldsAgree'
  BY <1>27 DEF NullDereference
<1>28. ASSUME NEW r \in Restorers, RestoreLock(r) PROVE FieldsAgree'
  BY <1>28 DEF RestoreLock, Restored
<1>29. ASSUME NEW r \in Restorers, RestoreDeclined(r) PROVE FieldsAgree'
  BY <1>29 DEF RestoreDeclined, Restored
<1>30. ASSUME NEW r \in Restorers, RestoreClaims(r) PROVE FieldsAgree'
  BY <1>30 DEF RestoreClaims
<1>31. ASSUME NEW r \in Restorers, RestoreFails(r) PROVE FieldsAgree'
  BY <1>31 DEF RestoreFails, Restored
<1>32. ASSUME NEW r \in Restorers, RestoreSucceeds(r) PROVE FieldsAgree'
  BY <1>32 DEF RestoreSucceeds, FinishAuthenticated, WipeSecrets, Restored
<1>33. ASSUME NEW r \in Restorers, DetachesSecond(r) PROVE FieldsAgree'
  BY <1>33 DEF DetachesSecond
<1>. QED
  BY <1>1, <1>2, <1>3, <1>4, <1>5, <1>6, <1>7, <1>8, <1>9, <1>10, <1>11,
     <1>12, <1>13, <1>14, <1>15, <1>16, <1>17, <1>18, <1>19, <1>20, <1>21,
     <1>22, <1>23, <1>24, <1>25, <1>26, <1>27, <1>28, <1>29, <1>30, <1>31,
     <1>32, <1>33 DEF Next, Handler, Logout, BootStep, Attempt, Restore

\* Only a parked handler makes the state Awaiting2FA, and when any of them
\* goes on it takes the state away.
LEMMA CodeStep ==
  ASSUME AccountAssumption, TypeOK, CodeFindsHandler, [Next]_vars
  PROVE  CodeFindsHandler'
<1>. USE DEF TypeOK, CodeFindsHandler, At, Goto, accountVars, Threads, Restorers,
             AccountAssumption
<1>1. CASE UNCHANGED vars
  BY <1>1 DEF vars
<1>2. CASE IpcNoEffect \/ Stopped
  BY <1>2 DEF IpcNoEffect, Stopped, vars
<1>3. CASE IpcSubmit2fa
  BY <1>3 DEF IpcSubmit2fa
<1>4. CASE TriggerRestore
  BY <1>4 DEF TriggerRestore
<1>5. CASE LogoutAborts
  BY <1>5 DEF LogoutAborts
<1>6. CASE LogoutLooks
  BY <1>6 DEF LogoutLooks
<1>7. CASE LogoutDetaches
  BY <1>7 DEF LogoutDetaches
<1>8. CASE LogoutThrows
  BY <1>8 DEF LogoutThrows
<1>9. CASE LogoutClears
  BY <1>9 DEF LogoutClears
<1>10. CASE BootInit \/ BootLooks
  BY <1>10 DEF BootInit, BootLooks
<1>11. CASE BootSkipsLogin
  BY <1>11 DEF BootSkipsLogin
<1>12. CASE BootCheck
  BY <1>12 DEF BootCheck
<1>13. ASSUME NEW t \in {Ipc, Boot}, Settled(t) PROVE CodeFindsHandler'
  BY <1>13 DEF Settled
<1>14. ASSUME NEW f \in Attempts, IpcLogin(f) PROVE CodeFindsHandler'
  BY <1>14 DEF IpcLogin, StartLogin
<1>15. ASSUME NEW f \in Attempts, BootLogin(f) PROVE CodeFindsHandler'
  BY <1>15 DEF BootLogin, StartLogin
<1>16. ASSUME NEW f \in Attempts, AttemptBegins(f) PROVE CodeFindsHandler'
  BY <1>16 DEF AttemptBegins
<1>17. ASSUME NEW f \in Attempts, NoRuntime(f) PROVE CodeFindsHandler'
  BY <1>17 DEF NoRuntime, WipeSecrets, Ends, Unsent
<1>18. ASSUME NEW f \in Attempts, EnterApple(f) PROVE CodeFindsHandler'
  BY <1>18 DEF EnterApple
<1>19. ASSUME NEW f \in Attempts, AskPassword(f) PROVE CodeFindsHandler'
  BY <1>19 DEF AskPassword
<1>20. ASSUME NEW f \in Attempts, AskCode(f) PROVE CodeFindsHandler'
  BY <1>20 DEF AskCode
<1>21. ASSUME NEW f \in Attempts, AskCodeNoWait(f) PROVE CodeFindsHandler'
  BY <1>21 DEF AskCodeNoWait, HandOver, BackInProgress
<1>22. ASSUME NEW f \in Attempts, Wakes(f) PROVE CodeFindsHandler'
  BY <1>22 DEF Wakes, HandOver, BackInProgress
<1>23. ASSUME NEW f \in Attempts, TimesOut(f) PROVE CodeFindsHandler'
  BY <1>23 DEF TimesOut, HandOver, BackInProgress
<1>24. ASSUME NEW f \in Attempts, AppleAccepts(f) PROVE CodeFindsHandler'
  BY <1>24 DEF AppleAccepts
<1>25. ASSUME NEW f \in Attempts, AttemptFails(f) PROVE CodeFindsHandler'
  BY <1>25 DEF AttemptFails, WipeSecrets, Ends, Unsent
<1>26. ASSUME NEW f \in Attempts, AttemptSucceeds(f) PROVE CodeFindsHandler'
  BY <1>26 DEF AttemptSucceeds, FinishAuthenticated, WipeSecrets, Ends, Unsent
<1>27. ASSUME NEW f \in Attempts, NullDereference(f) PROVE CodeFindsHandler'
  BY <1>27 DEF NullDereference
<1>28. ASSUME NEW r \in Restorers, RestoreLock(r) PROVE CodeFindsHandler'
  BY <1>28 DEF RestoreLock, Restored
<1>29. ASSUME NEW r \in Restorers, RestoreDeclined(r) PROVE CodeFindsHandler'
  BY <1>29 DEF RestoreDeclined, Restored
<1>30. ASSUME NEW r \in Restorers, RestoreClaims(r) PROVE CodeFindsHandler'
  BY <1>30 DEF RestoreClaims
<1>31. ASSUME NEW r \in Restorers, RestoreFails(r) PROVE CodeFindsHandler'
  BY <1>31 DEF RestoreFails, Restored
<1>32. ASSUME NEW r \in Restorers, RestoreSucceeds(r) PROVE CodeFindsHandler'
  BY <1>32 DEF RestoreSucceeds, FinishAuthenticated, WipeSecrets, Restored
<1>33. ASSUME NEW r \in Restorers, DetachesSecond(r) PROVE CodeFindsHandler'
  BY <1>33 DEF DetachesSecond
<1>. QED
  BY <1>1, <1>2, <1>3, <1>4, <1>5, <1>6, <1>7, <1>8, <1>9, <1>10, <1>11,
     <1>12, <1>13, <1>14, <1>15, <1>16, <1>17, <1>18, <1>19, <1>20, <1>21,
     <1>22, <1>23, <1>24, <1>25, <1>26, <1>27, <1>28, <1>29, <1>30, <1>31,
     <1>32, <1>33 DEF Next, Handler, Logout, BootStep, Attempt, Restore

\* An attempt clears what it has sent when it ends.
LEMMA OffStep ==
  ASSUME AccountAssumption, TypeOK, OffUnsent, [Next]_vars
  PROVE  OffUnsent'
<1>. USE DEF TypeOK, OffUnsent, Unsent, At, Goto, accountVars, Threads, Restorers,
             AccountAssumption
<1>1. CASE UNCHANGED vars
  BY <1>1 DEF vars
<1>2. CASE IpcNoEffect \/ Stopped
  BY <1>2 DEF IpcNoEffect, Stopped, vars
<1>3. CASE IpcSubmit2fa
  BY <1>3 DEF IpcSubmit2fa
<1>4. CASE TriggerRestore
  BY <1>4 DEF TriggerRestore
<1>5. CASE LogoutAborts
  BY <1>5 DEF LogoutAborts
<1>6. CASE LogoutLooks
  BY <1>6 DEF LogoutLooks
<1>7. CASE LogoutDetaches
  BY <1>7 DEF LogoutDetaches
<1>8. CASE LogoutThrows
  BY <1>8 DEF LogoutThrows
<1>9. CASE LogoutClears
  BY <1>9 DEF LogoutClears
<1>10. CASE BootInit \/ BootLooks
  BY <1>10 DEF BootInit, BootLooks
<1>11. CASE BootSkipsLogin
  BY <1>11 DEF BootSkipsLogin
<1>12. CASE BootCheck
  BY <1>12 DEF BootCheck
<1>13. ASSUME NEW t \in {Ipc, Boot}, Settled(t) PROVE OffUnsent'
  BY <1>13 DEF Settled
<1>14. ASSUME NEW f \in Attempts, IpcLogin(f) PROVE OffUnsent'
  BY <1>14 DEF IpcLogin, StartLogin
<1>15. ASSUME NEW f \in Attempts, BootLogin(f) PROVE OffUnsent'
  BY <1>15 DEF BootLogin, StartLogin
<1>16. ASSUME NEW f \in Attempts, AttemptBegins(f) PROVE OffUnsent'
  BY <1>16 DEF AttemptBegins
<1>17. ASSUME NEW f \in Attempts, NoRuntime(f) PROVE OffUnsent'
  BY <1>17 DEF NoRuntime, WipeSecrets, Ends
<1>18. ASSUME NEW f \in Attempts, EnterApple(f) PROVE OffUnsent'
  BY <1>18 DEF EnterApple
<1>19. ASSUME NEW f \in Attempts, AskPassword(f) PROVE OffUnsent'
  BY <1>19 DEF AskPassword
<1>20. ASSUME NEW f \in Attempts, AskCode(f) PROVE OffUnsent'
  BY <1>20 DEF AskCode
<1>21. ASSUME NEW f \in Attempts, AskCodeNoWait(f) PROVE OffUnsent'
  BY <1>21 DEF AskCodeNoWait, HandOver, BackInProgress
<1>22. ASSUME NEW f \in Attempts, Wakes(f) PROVE OffUnsent'
  BY <1>22 DEF Wakes, HandOver, BackInProgress
<1>23. ASSUME NEW f \in Attempts, TimesOut(f) PROVE OffUnsent'
  BY <1>23 DEF TimesOut, HandOver, BackInProgress
<1>24. ASSUME NEW f \in Attempts, AppleAccepts(f) PROVE OffUnsent'
  BY <1>24 DEF AppleAccepts
<1>25. ASSUME NEW f \in Attempts, AttemptFails(f) PROVE OffUnsent'
  BY <1>25 DEF AttemptFails, WipeSecrets, Ends
<1>26. ASSUME NEW f \in Attempts, AttemptSucceeds(f) PROVE OffUnsent'
  BY <1>26 DEF AttemptSucceeds, FinishAuthenticated, WipeSecrets, Ends
<1>27. ASSUME NEW f \in Attempts, NullDereference(f) PROVE OffUnsent'
  BY <1>27 DEF NullDereference
<1>28. ASSUME NEW r \in Restorers, RestoreLock(r) PROVE OffUnsent'
  BY <1>28 DEF RestoreLock, Restored
<1>29. ASSUME NEW r \in Restorers, RestoreDeclined(r) PROVE OffUnsent'
  BY <1>29 DEF RestoreDeclined, Restored
<1>30. ASSUME NEW r \in Restorers, RestoreClaims(r) PROVE OffUnsent'
  BY <1>30 DEF RestoreClaims
<1>31. ASSUME NEW r \in Restorers, RestoreFails(r) PROVE OffUnsent'
  BY <1>31 DEF RestoreFails, Restored
<1>32. ASSUME NEW r \in Restorers, RestoreSucceeds(r) PROVE OffUnsent'
  BY <1>32 DEF RestoreSucceeds, FinishAuthenticated, WipeSecrets, Restored
<1>33. ASSUME NEW r \in Restorers, DetachesSecond(r) PROVE OffUnsent'
  BY <1>33 DEF DetachesSecond
<1>. QED
  BY <1>1, <1>2, <1>3, <1>4, <1>5, <1>6, <1>7, <1>8, <1>9, <1>10, <1>11,
     <1>12, <1>13, <1>14, <1>15, <1>16, <1>17, <1>18, <1>19, <1>20, <1>21,
     <1>22, <1>23, <1>24, <1>25, <1>26, <1>27, <1>28, <1>29, <1>30, <1>31,
     <1>32, <1>33 DEF Next, Handler, Logout, BootStep, Attempt, Restore

\* Until the first logout the one attempt inside has the account to itself.
LEMMA UndisturbedStep ==
  ASSUME AccountAssumption, TypeOK, ReentryBounded, OffUnsent, Undisturbed,
         [Next]_vars
  PROVE  Undisturbed'
<1>. Solo BY Alone
<1>. USE DEF TypeOK, Undisturbed, OffUnsent, Unsent, Solo, Inside, Live, Claims, Busy,
             At, Goto, accountVars, Threads, Restorers, AccountAssumption
<1>1. CASE UNCHANGED vars
  BY <1>1 DEF vars
<1>2. CASE IpcNoEffect \/ Stopped
  BY <1>2 DEF IpcNoEffect, Stopped, vars
<1>3. CASE IpcSubmit2fa
  BY <1>3 DEF IpcSubmit2fa
<1>4. CASE TriggerRestore
  BY <1>4 DEF TriggerRestore
<1>5. CASE LogoutAborts
  BY <1>5 DEF LogoutAborts
<1>6. CASE LogoutLooks
  BY <1>6 DEF LogoutLooks
<1>7. CASE LogoutDetaches
  BY <1>7 DEF LogoutDetaches
<1>8. CASE LogoutThrows
  BY <1>8 DEF LogoutThrows
<1>9. CASE LogoutClears
  BY <1>9 DEF LogoutClears
<1>10. CASE BootInit \/ BootLooks
  BY <1>10 DEF BootInit, BootLooks
<1>11. CASE BootSkipsLogin
  BY <1>11 DEF BootSkipsLogin
<1>12. CASE BootCheck
  BY <1>12 DEF BootCheck
<1>13. ASSUME NEW t \in {Ipc, Boot}, Settled(t) PROVE Undisturbed'
  BY <1>13 DEF Settled
<1>14. ASSUME NEW f \in Attempts, IpcLogin(f) PROVE Undisturbed'
  BY <1>14 DEF IpcLogin, StartLogin, NotBusy
<1>15. ASSUME NEW f \in Attempts, BootLogin(f) PROVE Undisturbed'
  BY <1>15 DEF BootLogin, StartLogin, NotBusy
<1>16. ASSUME NEW f \in Attempts, AttemptBegins(f) PROVE Undisturbed'
  BY <1>16 DEF AttemptBegins
<1>17. ASSUME NEW f \in Attempts, NoRuntime(f) PROVE Undisturbed'
  BY <1>17 DEF NoRuntime, WipeSecrets, Ends
<1>18. ASSUME NEW f \in Attempts, EnterApple(f) PROVE Undisturbed'
  BY <1>18 DEF EnterApple
<1>19. ASSUME NEW f \in Attempts, AskPassword(f) PROVE Undisturbed'
  BY <1>19 DEF AskPassword
<1>20. ASSUME NEW f \in Attempts, AskCode(f) PROVE Undisturbed'
  BY <1>20 DEF AskCode
<1>21. ASSUME NEW f \in Attempts, AskCodeNoWait(f) PROVE Undisturbed'
  BY <1>21 DEF AskCodeNoWait, HandOver, BackInProgress
<1>22. ASSUME NEW f \in Attempts, Wakes(f) PROVE Undisturbed'
  BY <1>22 DEF Wakes, HandOver, BackInProgress
<1>23. ASSUME NEW f \in Attempts, TimesOut(f) PROVE Undisturbed'
  BY <1>23 DEF TimesOut, HandOver, BackInProgress
<1>24. ASSUME NEW f \in Attempts, AppleAccepts(f) PROVE Undisturbed'
  BY <1>24 DEF AppleAccepts
<1>25. ASSUME NEW f \in Attempts, AttemptFails(f) PROVE Undisturbed'
  BY <1>25 DEF AttemptFails, WipeSecrets, Ends
<1>26. ASSUME NEW f \in Attempts, AttemptSucceeds(f) PROVE Undisturbed'
  BY <1>26 DEF AttemptSucceeds, FinishAuthenticated, WipeSecrets, Ends
<1>27. ASSUME NEW f \in Attempts, NullDereference(f) PROVE Undisturbed'
  BY <1>27 DEF NullDereference
<1>28. ASSUME NEW r \in Restorers, RestoreLock(r) PROVE Undisturbed'
  BY <1>28 DEF RestoreLock, Restored
<1>29. ASSUME NEW r \in Restorers, RestoreDeclined(r) PROVE Undisturbed'
  BY <1>29 DEF RestoreDeclined, Restored
<1>30. ASSUME NEW r \in Restorers, RestoreClaims(r) PROVE Undisturbed'
  BY <1>30 DEF RestoreClaims, RestoreMayClaim
<1>31. ASSUME NEW r \in Restorers, RestoreFails(r) PROVE Undisturbed'
  BY <1>31 DEF RestoreFails, Restored
<1>32. ASSUME NEW r \in Restorers, RestoreSucceeds(r) PROVE Undisturbed'
  BY <1>32 DEF RestoreSucceeds, FinishAuthenticated, WipeSecrets, Restored
<1>33. ASSUME NEW r \in Restorers, DetachesSecond(r) PROVE Undisturbed'
  BY <1>33 DEF DetachesSecond
<1>. QED
  BY <1>1, <1>2, <1>3, <1>4, <1>5, <1>6, <1>7, <1>8, <1>9, <1>10, <1>11,
     <1>12, <1>13, <1>14, <1>15, <1>16, <1>17, <1>18, <1>19, <1>20, <1>21,
     <1>22, <1>23, <1>24, <1>25, <1>26, <1>27, <1>28, <1>29, <1>30, <1>31,
     <1>32, <1>33 DEF Next, Handler, Logout, BootStep, Attempt, Restore

\* A code is accepted while somebody is parked; who leaves takes it along, and
\* who forgets that a logout has begun forgets the code with it.
LEMMA WaitsStep ==
  ASSUME AccountAssumption, TypeOK, CodeFindsHandler, CodeWaits, [Next]_vars
  PROVE  CodeWaits'
<1>. USE DEF TypeOK, At, Goto, accountVars, Threads, Restorers,
             AccountAssumption, CodeWaits
<1>1. CASE UNCHANGED vars \/ IpcNoEffect \/ Stopped
  BY <1>1 DEF IpcNoEffect, Stopped, vars
<1>2. CASE IpcSubmit2fa
  BY <1>2 DEF IpcSubmit2fa, CodeFindsHandler
<1>3. CASE TriggerRestore \/ BootStep \/ \E t \in {Ipc, Boot} : Settled(t)
  BY <1>3 DEF TriggerRestore, BootStep, BootInit, BootLooks, BootSkipsLogin,
     BootCheck, Settled
<1>4. CASE Logout
  BY <1>4 DEF Logout, LogoutAborts, LogoutLooks, LogoutDetaches, LogoutThrows,
     LogoutClears
<1>5. ASSUME NEW f \in Attempts, IpcLogin(f) \/ BootLogin(f) PROVE CodeWaits'
  BY <1>5 DEF IpcLogin, BootLogin, StartLogin
<1>6. ASSUME NEW f \in Attempts,
             \/ AttemptBegins(f) \/ EnterApple(f) \/ AskPassword(f)
             \/ AskCode(f) \/ AppleAccepts(f) \/ NullDereference(f)
      PROVE  CodeWaits'
  BY <1>6 DEF AttemptBegins, EnterApple, AskPassword, AskCode, AppleAccepts,
     NullDereference
<1>7. ASSUME NEW f \in Attempts,
             AttemptFails(f) \/ NoRuntime(f) \/ AttemptSucceeds(f)
      PROVE  CodeWaits'
  BY <1>7 DEF AttemptFails, NoRuntime, AttemptSucceeds, FinishAuthenticated,
     WipeSecrets
<1>8. ASSUME NEW f \in Attempts, AskCodeNoWait(f) \/ Wakes(f) \/ TimesOut(f)
      PROVE  CodeWaits'
  BY <1>8 DEF AskCodeNoWait, Wakes, TimesOut, HandOver
<1>9. ASSUME NEW r \in Restorers, Restore(r) \/ DetachesSecond(r)
      PROVE  CodeWaits'
  BY <1>9 DEF Restore, RestoreLock, RestoreDeclined, RestoreClaims,
     RestoreFails, RestoreSucceeds, FinishAuthenticated, WipeSecrets,
     DetachesSecond, Restored
<1>. QED
  BY <1>1, <1>2, <1>3, <1>4, <1>5, <1>6, <1>7, <1>8, <1>9
     DEF Next, Handler, Attempt

\* A null is met only where the runtime of a live attempt is gone, which is
\* after a logout.
LEMMA NullStep ==
  ASSUME AccountAssumption, TypeOK, Undisturbed, NoNullDereference, [Next]_vars
  PROVE  NoNullDereference'
<1>1. CASE \E f \in Attempts : NullDereference(f)
  <2>1. PICK f \in Attempts : NullDereference(f) BY <1>1
  <2>2. f \in Live /\ ~runtime BY <2>1 DEF NullDereference, Live, At
  <2>3. logouts # 0 BY <2>2 DEF Undisturbed
  <2>4. logouts' = logouts BY <2>1 DEF NullDereference
  <2>. QED BY <2>3, <2>4 DEF TypeOK, NoNullDereference
<1>2. CASE ~\E f \in Attempts : NullDereference(f)
  <2>1. crashed' = crashed \/ crashed' = "terminate"
    BY <1>2 DEF Next, Handler, Logout, BootStep, Attempt, Restore, vars,
       IpcSubmit2fa, TriggerRestore, LogoutAborts, LogoutLooks,
       LogoutDetaches, LogoutThrows, LogoutClears, BootInit, BootLooks,
       BootSkipsLogin, BootCheck, Settled, IpcLogin, BootLogin, StartLogin, AttemptBegins,
       NoRuntime, EnterApple, AskPassword, AskCode, AskCodeNoWait, Wakes,
       TimesOut, AppleAccepts, AttemptFails, AttemptSucceeds, HandOver,
       RestoreLock, RestoreDeclined, RestoreClaims, RestoreFails,
       RestoreSucceeds, DetachesSecond, IpcNoEffect, Stopped
  <2>2. logouts' = logouts \/ logouts' = logouts + 1
    <3>1. Moves BY InsideStep
    <3>. QED BY <3>1 DEF Moves, Keeps, LogsOut, Joins, Leaves
  <2>. QED BY <2>1, <2>2 DEF TypeOK, NoNullDereference
<1>. QED BY <1>1, <1>2

\* Every step keeps the inductive invariant.
LEMMA IInvStep ==
  ASSUME AccountAssumption, IInv, [Next]_vars
  PROVE  IInv'
BY TypeStep, ReentryStep, SnapshotStep, CodeStep, OffStep, UndisturbedStep,
   NullStep, WaitsStep DEF IInv

\* At the start nobody is inside and nothing is set.
LEMMA IInvInit == ASSUME AccountAssumption, Init PROVE IInv
<1>. USE DEF Init, Threads, Restorers, AccountAssumption
<1>1. TypeOK
  BY DEF TypeOK, IpcAt, BootAt, LazyAt, AttemptAt, LoginStates, Unsent
<1>2. Inside = {} BY DEF Inside, Live, Claims
<1>3. ReentryBounded
  BY <1>2, FS_EmptySet DEF ReentryBounded, Inside, Busy
<1>4. FieldsAgree /\ CodeFindsHandler
  BY DEF FieldsAgree, CodeFindsHandler
<1>5. OffUnsent BY DEF OffUnsent
<1>6. Undisturbed BY <1>2 DEF Undisturbed, Inside
<1>7. NoNullDereference BY DEF NoNullDereference
<1>8. CodeWaits BY DEF CodeWaits
<1>. QED BY <1>1, <1>3, <1>4, <1>5, <1>6, <1>7, <1>8 DEF IInv

\* The invariant of auth.cpp.
THEOREM Invariance == Spec => []IInv
<1>1. Init => IInv BY IInvInit, AccountAssumption
<1>2. IInv /\ [Next]_vars => IInv' BY IInvStep, AccountAssumption
<1>. QED BY <1>1, <1>2, PTL DEF Spec
-----------------------------------------------------------------------------
(* The theorems.                                                           *)

\* Every variable keeps its type.
THEOREM AccountTypes == Spec => []TypeOK
<1>1. IInv => TypeOK BY DEF IInv
<1>. QED BY <1>1, Invariance, PTL

\* However logins, 2FA codes, restores and logouts interleave, there are at
\* most as many threads in Apple's auth path as DELETE /login completed, and
\* one more.
THEOREM ReentryCorrect == Spec => []ReentryBounded
<1>1. IInv => ReentryBounded BY DEF IInv
<1>. QED BY <1>1, Invariance, PTL

\* The state and what public_snapshot() shows with it agree, and submit_2fa()
\* never accepts a code nobody waits for.
THEOREM SnapshotCorrect == Spec => []SnapshotConsistent
<1>1. IInv => SnapshotConsistent BY DEF IInv, SnapshotConsistent
<1>. QED BY <1>1, Invariance, PTL

\* Before the first logout no attempt presents another's password, and no
\* thread finds loader_ or runtime_ nulled.
THEOREM AttemptCorrect == Spec => []AttemptUndisturbed
<1>1. IInv => AttemptUndisturbed
  BY DEF IInv, Undisturbed, OwnPassword, AttemptUndisturbed
<1>. QED BY <1>1, Invariance, PTL

\* Before the first logout, what ends an authenticated session is a login.
THEOREM SessionCorrect == Spec => SessionKept
<1>1. ASSUME IInv, [Next]_vars, state = "Authenticated", logouts' = 0,
             state' # state
      PROVE  \E f \in Attempts : pc[f] = "off" /\ pc'[f] = "begin"
  <2>1. TypeOK /\ ReentryBounded /\ AccountAssumption
    BY <1>1, AccountAssumption DEF IInv
  <2>2. logouts = 0 /\ logouts' = logouts
    <3>1. Moves BY <1>1, <2>1, InsideStep
    <3>. QED BY <1>1, <2>1, <3>1 DEF Moves, Keeps, LogsOut, Joins, Leaves, TypeOK
  <2>3. Inside = {} BY <1>1, <2>1, <2>2, Alone DEF Solo, Busy
  <2>4. /\ \A f \in Attempts : pc[f] = "off"
        /\ \A r \in Restorers : pc[r] # "harvest"
    BY <2>3 DEF Inside, Live, Claims
  <2>5. ASSUME NEW t \in {Ipc, Boot}, NEW f \in Attempts, StartLogin(t, f)
        PROVE  pc[f] = "off" /\ pc'[f] = "begin"
    BY <2>1, <2>5 DEF StartLogin, TypeOK, Threads, Restorers, AccountAssumption
  <2>6. \E f \in Attempts : IpcLogin(f) \/ BootLogin(f)
    BY <1>1, <2>2, <2>4 DEF Next, Handler, Logout, BootStep, Attempt,
       Restore, vars, accountVars, At, IpcSubmit2fa, TriggerRestore,
       LogoutAborts, LogoutLooks, LogoutDetaches, LogoutThrows,
       LogoutClears, BootInit, BootLooks, BootSkipsLogin, BootCheck, Settled,
       AttemptBegins, NoRuntime, EnterApple, AskPassword, AskCode,
       AskCodeNoWait, Wakes, TimesOut, AppleAccepts, AttemptFails,
       AttemptSucceeds, NullDereference, HandOver, RestoreLock,
       RestoreDeclined, RestoreClaims, RestoreFails, RestoreSucceeds,
       DetachesSecond, RestoreMayClaim, IpcNoEffect, Stopped
  <2>. QED BY <2>5, <2>6 DEF IpcLogin, BootLogin
<1>2. IInv /\ [Next]_vars =>
        [state = "Authenticated" /\ logouts' = 0 /\ state' # state =>
           \E f \in Attempts : pc[f] = "off" /\ pc'[f] = "begin"]_vars
  BY <1>1
<1>. QED BY <1>2, Invariance, PTL DEF Spec, SessionKept

\* Before a logout begins, what takes an accepted 2FA code away is the attempt
\* that waits for it, and it takes its own password to Apple with it.
THEOREM CodeCorrect == Spec => CodeDelivered
<1>1. ASSUME IInv, [Next]_vars, twofa_code = "fresh", twofa_code' # "fresh",
             ~aborted, logouts' = 0
      PROVE  \E f \in Attempts :
               pc[f] = "parked" /\ sent'[f] = [password |-> f, code |-> "fresh"]
  <2>1. TypeOK /\ ReentryBounded /\ AccountAssumption
    BY <1>1, AccountAssumption DEF IInv
  <2>2. logouts = 0 /\ logouts' = logouts
    <3>1. Moves BY <1>1, <2>1, InsideStep
    <3>. QED BY <1>1, <2>1, <3>1 DEF Moves, Keeps, LogsOut, Joins, Leaves, TypeOK
  <2>3. PICK g \in Attempts : pc[g] = "parked"
    BY <1>1, <2>2 DEF IInv, CodeWaits
  <2>4. g \in Inside BY <2>3 DEF Inside, Live
  <2>5. /\ Inside = {g} /\ state \in Busy
        /\ password = g
    BY <1>1, <2>1, <2>2, <2>3, <2>4, Alone DEF IInv, Solo, Undisturbed, Live
  <2>6. /\ \A f \in Attempts : pc[f] # "off" => f = g
        /\ \A r \in Restorers : pc[r] # "harvest"
    <3>1. g \notin Restorers BY <2>1 DEF AccountAssumption, Restorers
    <3>. QED BY <2>5, <3>1 DEF Inside, Live, Claims
  <2>7. HandOver(g)
    BY <1>1, <2>2, <2>3, <2>5, <2>6 DEF Next, Handler, Logout, BootStep,
       Attempt, Restore, vars, accountVars, At, Busy, IpcSubmit2fa,
       TriggerRestore, LogoutAborts, LogoutLooks, LogoutDetaches, LogoutThrows,
       LogoutClears, BootInit, BootLooks, BootSkipsLogin, BootCheck, Settled,
       IpcLogin, BootLogin, StartLogin, NotBusy, AttemptBegins, NoRuntime,
       EnterApple, AskPassword, AskCode, AskCodeNoWait, Wakes, TimesOut,
       AppleAccepts, AttemptFails, AttemptSucceeds, NullDereference,
       RestoreLock, RestoreDeclined, RestoreClaims, RestoreFails,
       RestoreSucceeds, DetachesSecond, RestoreMayClaim, IpcNoEffect, Stopped
  <2>8. sent'[g] = [password |-> g, code |-> "fresh"]
    BY <1>1, <2>1, <2>5, <2>7 DEF HandOver, TypeOK
  <2>. QED BY <2>3, <2>8
<1>2. IInv /\ [Next]_vars =>
        [twofa_code = "fresh" /\ twofa_code' # "fresh" /\ ~aborted
           /\ logouts' = 0 =>
           \E f \in Attempts :
             pc[f] = "parked"
             /\ sent'[f] = [password |-> f, code |-> "fresh"]]_vars
  BY <1>1
<1>. QED BY <1>2, Invariance, PTL DEF Spec, CodeDelivered
-----------------------------------------------------------------------------
(* The promise of LoginService.                                            *)

\* restore_mu_ is held by one restore at a time.
OneRestore == \A q, r \in Restorers :
  pc[q] \in {"enter", "harvest"} /\ pc[r] \in {"enter", "harvest"} => q = r

LEMMA OneRestoreStep ==
  ASSUME AccountAssumption, TypeOK, OneRestore, [Next]_vars
  PROVE  OneRestore'
<1>. USE DEF TypeOK, Threads, Restorers, AccountAssumption
<1>1. ASSUME NEW r \in Restorers, RestoreLock(r) PROVE OneRestore'
  BY <1>1 DEF RestoreLock, RestoreLocked, Goto, Restored, OneRestore
<1>2. ASSUME NEW r \in Restorers,
             \/ RestoreDeclined(r) \/ RestoreFails(r) \/ RestoreSucceeds(r)
             \/ RestoreClaims(r) \/ DetachesSecond(r)
      PROVE  OneRestore'
  BY <1>2 DEF RestoreDeclined, RestoreFails, RestoreSucceeds, RestoreClaims,
     DetachesSecond, At, Goto, Restored, OneRestore
<1>3. ASSUME NEW f \in Attempts, IpcLogin(f) \/ BootLogin(f) \/ Attempt(f)
      PROVE  OneRestore'
  BY <1>3 DEF IpcLogin, BootLogin, StartLogin, Attempt, AttemptBegins,
     NoRuntime, EnterApple, AskPassword, AskCode, AskCodeNoWait, Wakes,
     TimesOut, HandOver, AppleAccepts, AttemptFails, AttemptSucceeds, Ends,
     NullDereference, Goto, OneRestore
<1>4. CASE Handler \/ Logout \/ BootStep \/ Stopped \/ UNCHANGED vars
  BY <1>4 DEF Handler, IpcSubmit2fa, TriggerRestore, IpcNoEffect, Logout,
     LogoutAborts, LogoutLooks, LogoutDetaches, LogoutThrows, LogoutClears,
     BootStep, BootInit, BootLooks, BootSkipsLogin, BootCheck, Stopped, vars, Goto,
     OneRestore
<1>5. ASSUME NEW t \in {Ipc, Boot}, Settled(t) PROVE OneRestore'
  BY <1>5 DEF Settled, Goto, OneRestore
<1>. QED BY <1>1, <1>2, <1>3, <1>4, <1>5 DEF Next, Restore

LEMMA Restores == Spec => [](IInv /\ OneRestore)
<1>1. Init => OneRestore
  BY AccountAssumption DEF Init, OneRestore, Threads, Restorers,
     AccountAssumption
<1>2. IInv /\ OneRestore /\ [Next]_vars => OneRestore'
  BY OneRestoreStep, AccountAssumption DEF IInv
<1>. QED BY <1>1, <1>2, Invariance, PTL DEF Spec

\* What a client cannot see of the threads is left out.
Waiting == {f \in Attempts : pc[f] = "parked"}
Leaving == pc[Ipc] \in {"joinable", "detach", "clear"}
Dead    == crashed # None

Unseen ==
  /\ UNCHANGED <<state, tokens, logouts>>
  /\ Inside' = Inside /\ Waiting' = Waiting
  /\ (Leaving' <=> Leaving) /\ (Dead' <=> Dead)

LEMMA UnseenStutters ==
  ASSUME Unseen
  PROVE  UNCHANGED Service!vars
BY DEF Unseen, Service!vars, Service!work, Inside, Waiting, Leaving, Dead

\* The IPC thread, but for a login, and the init thread.
LEMMA HandlerSeen ==
  ASSUME AccountAssumption, IInv,
         Handler \/ Logout \/ BootStep \/ Stopped
         \/ (\E t \in {Ipc, Boot} : Settled(t))
  PROVE  Service!Next \/ Unseen
<1>. USE DEF IInv, TypeOK, At, Goto, accountVars, Threads, Restorers,
             AccountAssumption, Inside, Live, Claims, Waiting, Leaving, Dead
<1>1. CASE IpcSubmit2fa
  <2>1. Waiting # {}
    BY <1>1 DEF IpcSubmit2fa, CodeFindsHandler
  <2>2. Service!SubmitCode
    BY <1>1, <2>1 DEF IpcSubmit2fa, Service!SubmitCode, Service!work
  <2>. QED BY <2>2 DEF Service!Next
<1>2. CASE TriggerRestore \/ BootStep \/ \E t \in {Ipc, Boot} : Settled(t)
  BY <1>2 DEF TriggerRestore, BootStep, BootInit, BootLooks, BootSkipsLogin,
     BootCheck, Settled, Unseen
<1>3. CASE IpcNoEffect \/ Stopped
  BY <1>3 DEF IpcNoEffect, Stopped, vars, Unseen
<1>4. CASE LogoutAborts
  <2>1. Service!Leave
    BY <1>4 DEF LogoutAborts, Service!Leave, Service!work
  <2>. QED BY <2>1 DEF Service!Next
<1>5. CASE LogoutLooks \/ LogoutDetaches
  BY <1>5 DEF LogoutLooks, LogoutDetaches, Unseen
<1>6. CASE LogoutThrows
  <2>1. Service!StayIn
    BY <1>6 DEF LogoutThrows, Service!StayIn, Service!work
  <2>. QED BY <2>1 DEF Service!Next
<1>7. CASE LogoutClears
  <2>1. Service!LoggedOut
    BY <1>7 DEF LogoutClears, Service!LoggedOut, Service!work
  <2>. QED BY <2>1 DEF Service!Next
<1>. QED
  BY <1>1, <1>2, <1>3, <1>4, <1>5, <1>6, <1>7 DEF Handler, Logout

\* A login, of either thread.
LEMMA LoginSeen ==
  ASSUME AccountAssumption, IInv, NEW f \in Attempts,
         IpcLogin(f) \/ BootLogin(f)
  PROVE  Service!Next
<1>. USE DEF IInv, TypeOK, Goto, Threads, Restorers, AccountAssumption, Inside,
             Live, Claims
<1>1. PICK t \in {Ipc, Boot} : StartLogin(t, f) /\ crashed = None
                               /\ pc[t] \in {"idle", "env"}
  BY DEF IpcLogin, BootLogin, At
<1>2. Inside' = Inside \cup {f} /\ f \notin Inside
  BY <1>1 DEF StartLogin
<1>3. Waiting' = Waiting
  BY <1>1 DEF StartLogin, Waiting
<1>4. Leaving' <=> Leaving
  BY <1>1 DEF StartLogin, Leaving
<1>5. Service!Begin(f)
  BY <1>1, <1>2, <1>3, <1>4 DEF Service!Begin, Service!Busy, StartLogin,
     NotBusy, Busy, Waiting, Leaving
<1>. QED BY <1>5 DEF Service!Next, Service!Login

\* A restore.
LEMMA RestoreSeen ==
  ASSUME AccountAssumption, IInv, OneRestore, NEW r \in Restorers,
         Restore(r) \/ DetachesSecond(r)
  PROVE  Service!Next \/ Unseen
<1>. USE DEF IInv, TypeOK, At, Goto, accountVars, Threads, Restorers,
             AccountAssumption, Inside, Live, Claims
<1>1. CASE RestoreLock(r) \/ RestoreDeclined(r)
  BY <1>1 DEF RestoreLock, RestoreDeclined, Restored, Unseen, Waiting, Leaving,
     Dead
<1>2. CASE RestoreClaims(r)
  <2>1. Inside' = Inside \cup {r} /\ r \notin Inside
    BY <1>2 DEF RestoreClaims
  <2>2. Waiting' = Waiting /\ (Leaving' <=> Leaving)
    BY <1>2 DEF RestoreClaims, Waiting, Leaving
  <2>3. Inside \cap Restorers = {}
    BY <1>2 DEF RestoreClaims, OneRestore
  <2>4. Service!Begin(r)
    BY <1>2, <2>1, <2>2 DEF Service!Begin, Service!Busy, RestoreClaims,
       RestoreMayClaim, Waiting, Leaving
  <2>5. state = "LoggedOut"
    BY <1>2 DEF RestoreClaims, RestoreMayClaim
  <2>. QED BY <2>3, <2>4, <2>5 DEF Service!Next, Service!Restore
<1>3. CASE RestoreFails(r) \/ RestoreSucceeds(r)
  <2>1. Inside' = Inside \ {r} /\ r \in Inside \ Waiting
    BY <1>3 DEF RestoreFails, RestoreSucceeds, Restored, Waiting
  <2>2. Waiting' = Waiting /\ (Leaving' <=> Leaving)
    BY <1>3 DEF RestoreFails, RestoreSucceeds, Restored, Waiting, Leaving
  <2>3. CASE RestoreFails(r)
    <3>1. Service!Finish(r, "LoggedOut")
      BY <2>1, <2>2, <2>3 DEF Service!Finish, Service!Free, RestoreFails,
         Waiting, Leaving
    <3>. QED BY <3>1 DEF Service!Next, Service!Fail
  <2>4. CASE RestoreSucceeds(r)
    <3>1. Service!Finish(r, "Authenticated")
      BY <2>1, <2>2, <2>4 DEF Service!Finish, Service!Free, RestoreSucceeds,
         FinishAuthenticated, Waiting, Leaving
    <3>. QED BY <3>1 DEF Service!Next, Service!Succeed
  <2>. QED BY <1>3, <2>3, <2>4
<1>4. CASE DetachesSecond(r)
  <2>1. Service!Die
    BY <1>4 DEF DetachesSecond, Service!Die, Service!work
  <2>. QED BY <2>1 DEF Service!Next
<1>. QED BY <1>1, <1>2, <1>3, <1>4 DEF Restore

\* An attempt.
LEMMA AttemptSeen ==
  ASSUME AccountAssumption, IInv, NEW f \in Attempts, Attempt(f)
  PROVE  Service!Next \/ Unseen
<1>. USE DEF IInv, TypeOK, At, Goto, accountVars, Threads, Restorers,
             AccountAssumption, Inside, Live, Claims
<1>1. CASE AttemptBegins(f) \/ EnterApple(f) \/ AskPassword(f)
           \/ AppleAccepts(f)
  BY <1>1 DEF AttemptBegins, EnterApple, AskPassword, AppleAccepts, Unseen,
     Waiting, Leaving, Dead
<1>2. CASE AskCode(f)
  <2>1. /\ f \in Inside \ Waiting /\ Waiting' = Waiting \cup {f}
        /\ Inside' = Inside /\ (Leaving' <=> Leaving)
    BY <1>2 DEF AskCode, Waiting, Leaving
  <2>2. Service!AskCode
    BY <1>2, <2>1 DEF Service!AskCode, Service!Free, AskCode, Waiting, Leaving
  <2>. QED BY <2>2 DEF Service!Next
<1>3. CASE AskCodeNoWait(f) \/ Wakes(f) \/ TimesOut(f)
  <2>1. HandOver(f) /\ pc[f] \in {"apple", "parked"} /\ crashed = None
    BY <1>3 DEF AskCodeNoWait, Wakes, TimesOut
  <2>2. /\ f \in Inside /\ Waiting' = Waiting \ {f}
        /\ Inside' = Inside /\ (Leaving' <=> Leaving)
    BY <2>1 DEF HandOver, Waiting, Leaving
  <2>3. Service!Proceed
    BY <2>1, <2>2 DEF Service!Proceed, HandOver, BackInProgress, Waiting,
       Leaving
  <2>. QED BY <2>3 DEF Service!Next
<1>4. CASE AttemptFails(f) \/ NoRuntime(f) \/ AttemptSucceeds(f)
  <2>1. Inside' = Inside \ {f} /\ f \in Inside \ Waiting
    BY <1>4 DEF AttemptFails, NoRuntime, AttemptSucceeds, Ends, Waiting
  <2>2. Waiting' = Waiting /\ (Leaving' <=> Leaving)
    BY <1>4 DEF AttemptFails, NoRuntime, AttemptSucceeds, Ends, Waiting,
       Leaving
  <2>3. CASE AttemptFails(f) \/ NoRuntime(f)
    <3>1. Service!Finish(f, "Failed")
      BY <2>1, <2>2, <2>3 DEF Service!Finish, Service!Free, AttemptFails,
         NoRuntime, Waiting, Leaving
    <3>. QED BY <3>1 DEF Service!Next, Service!Fail
  <2>4. CASE AttemptSucceeds(f)
    <3>1. /\ state' = "Authenticated" /\ tokens' = TRUE
          /\ crashed = None /\ UNCHANGED <<logouts, crashed>>
      BY <2>4 DEF AttemptSucceeds, FinishAuthenticated
    <3>2. Service!Free(f)
      BY <2>1, <3>1 DEF Service!Free, Waiting
    <3>3. tokens' = ("Authenticated" = "Authenticated" \/ tokens)
      BY <3>1
    <3>4. Service!Finish(f, "Authenticated")
      BY <2>1, <2>2, <3>1, <3>2, <3>3 DEF Service!Finish, Waiting, Leaving
    <3>. QED BY <3>4 DEF Service!Next, Service!Succeed
  <2>. QED BY <1>4, <2>3, <2>4
<1>5. CASE NullDereference(f)
  <2>1. logouts > 0
    BY <1>5 DEF NullDereference, Undisturbed
  <2>2. Service!Die
    BY <1>5, <2>1 DEF NullDereference, Service!Die, Service!work
  <2>. QED BY <2>2 DEF Service!Next
<1>. QED BY <1>1, <1>2, <1>3, <1>4, <1>5 DEF Attempt

\* Whatever the threads do to each other, a client sees logins, restores and
\* logouts that take turns as LoginService says (auth.cpp:66-374).
THEOREM AccountImplementsService == Spec => ServiceImplemented
<1>1. Init => Service!Init
  BY AccountAssumption DEF Init, Service!Init, Live, Claims, Threads,
     Restorers, AccountAssumption
<1>2. IInv /\ OneRestore /\ [Next]_vars => [Service!Next]_(Service!vars)
  <2>1. SUFFICES ASSUME IInv, OneRestore, [Next]_vars
                 PROVE  Service!Next \/ UNCHANGED Service!vars
    OBVIOUS
  <2>2. UNCHANGED vars => Unseen
    BY DEF vars, accountVars, Unseen, Inside, Live, Claims, Waiting, Leaving,
       Dead
  <2>3. Service!Next \/ Unseen
    BY <2>1, <2>2, HandlerSeen, LoginSeen, RestoreSeen, AttemptSeen,
       AccountAssumption DEF Next
  <2>. QED BY <2>3, UnseenStutters
<1>. QED BY <1>1, <1>2, Restores, PTL
         DEF Spec, ServiceImplemented, Service!Spec
=============================================================================
