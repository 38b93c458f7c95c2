--------------------------- MODULE SupervisorProofs ---------------------------
(***************************************************************************)
(* Proofs about Supervisor, for any finite set of callers, any pids and    *)
(* any timeouts.  IInv is inductive: besides the invariants TLC checks it  *)
(* says what a thread is doing at each location (OpOK), when the slot and  *)
(* the thread's own child are there (SlotOK), and that a reaped process    *)
(* leaves empty pipes behind (FreeDrained).  One lemma per conjunct, one   *)
(* step per action.                                                        *)
(***************************************************************************)
EXTENDS Supervisor, FiniteSetTheorems, SequenceTheorems, TLAPS

\* What each thread is doing follows from where it is.
OpOK ==
  \A t \in Threads :
    /\ pc[t] = "boot" => op[t] = "ensure"
    /\ pc[t] \in {"clear", "sleep"} => op[t] = "restart"
    /\ pc[t] \notin {"boot", "clear", "sleep", "spawn", "probe"}
         => op[t] = "request"

\* When there must be a worker in the slot, or in the hands of a thread.
SlotOK ==
  \A t \in Threads :
    /\ pc[t] \in {"write", "read"} => slot # None
    /\ pc[t] \in {"spawn", "probe", "release"} => slot = None
    /\ pc[t] = "probe" /\ ~exited => child[t] # None

\* A pid that is not in use has empty pipes: fork() starts with new ones.
FreeDrained == \A w \in Pids : proc[w] = "free" => Drained(w)

IInv ==
  /\ TypeOK /\ WaitersCounted /\ OpOK /\ RequestTracked
  /\ SlotOK /\ WorkerOwned /\ FreeDrained /\ PipesInStep
-----------------------------------------------------------------------------
(* Facts about sequences, and what the helpers of the model do to types.   *)

\* Append keeps a sequence over its set: frames are queued behind others.
LEMMA AppendType ==
  ASSUME NEW S, NEW s \in Seq(S), NEW x \in S
  PROVE  Append(s, x) \in Seq(S)
OBVIOUS

\* Taking the first frame from a pipe that has one.
LEMMA HeadTailType ==
  ASSUME NEW S, NEW s \in Seq(S), s # <<>>
  PROVE  Head(s) \in S /\ Tail(s) \in Seq(S)
OBVIOUS

\* A pipe that holds one frame, before it is put there and after it is taken.
LEMMA OneFrame ==
  ASSUME NEW x
  PROVE  Append(<<>>, x) = <<x>> /\ Tail(<<x>>) = <<>> /\ Head(<<x>>) = x
OBVIOUS

\* A pipe with one frame is not empty, and is once the frame is taken.
LEMMA TailOfOne ==
  ASSUME NEW S, NEW s \in Seq(S), Len(s) = 1
  PROVE  s # <<>> /\ Tail(s) = <<>>
<1>1. s # <<>> OBVIOUS
<1>2. Tail(s) \in Seq(S) /\ Len(Tail(s)) = 0 BY <1>1
<1>. QED BY <1>1, <1>2, EmptySeq

\* The request ids that threads use are Ids.
LEMMA IdType == ASSUME TypeOK, NEW t \in Threads PROVE Id(t) \in Ids
BY DEF TypeOK, Id, Ids

\* Reaping a process leaves process states and pipes of their types.
LEMMA ReapedType ==
  ASSUME TypeOK, NEW w \in Pids, Reaped(w)
  PROVE  /\ proc' \in [Pids -> {"free", "alive", "exited"}]
         /\ req' \in [Pids -> Seq(Ids)]
         /\ resp' \in [Pids -> Seq(Answers)]
BY DEF TypeOK, Reaped

\* The set of waiting threads is finite: its cardinality can be counted.
LEMMA WaitersFinite ==
  ASSUME SupervisorAssumption
  PROVE  IsFiniteSet(Waiters) /\ Cardinality(Waiters) \in Nat
<1>1. IsFiniteSet(Threads) BY FS_AddElement DEF SupervisorAssumption, Threads
<1>2. Waiters \subseteq Threads BY DEF Waiters
<1>. QED BY <1>1, <1>2, FS_Subset, FS_CardinalityType

\* A thread in Waiters keeps waiting_count positive until it drops its tracker.
LEMMA WaiterPositive ==
  ASSUME SupervisorAssumption, TypeOK, WaitersCounted,
         NEW t \in Threads, t \in Waiters
  PROVE  waiting_count - 1 \in Nat
<1>1. Cardinality(Waiters) # 0 BY WaitersFinite, FS_EmptySet
<1>. QED BY <1>1, WaitersFinite DEF WaitersCounted
-----------------------------------------------------------------------------
(* Preservation, one lemma per conjunct of IInv.                           *)

\* Types.  waiting_count stays in Nat because it counts a set of threads.
LEMMA TypeStep ==
  ASSUME SupervisorAssumption, TypeOK, WaitersCounted, SlotOK, [Next]_vars
  PROVE  TypeOK'
<1>. USE DEF TypeOK, At, Goto, threadVars, mutexVars, stateVars, procVars, clockVars,
       Locations
<1>1. ASSUME NEW t \in Threads, EnterRequest(t) PROVE TypeOK'
  <2>1. turn[t] = 0 \/ turn[t] = 1 OBVIOUS
  <2>2. 1 - turn[t] \in {0, 1} BY <2>1
  <2>. QED BY <1>1, <2>2 DEF EnterRequest
<1>2. ASSUME NEW t \in Threads, TrackWait(t) PROVE TypeOK'
  <2>1. waiting_count' \in Nat BY <1>2 DEF TrackWait, CountWaiter
  <2>2. pc' \in [Threads -> Locations] BY <1>2 DEF TrackWait
  <2>. QED BY <1>2, <2>1, <2>2 DEF TrackWait
<1>3. ASSUME NEW t \in Threads, AcquireWorker(t) PROVE TypeOK'
  <2>1. t \in Waiters BY <1>3 DEF AcquireWorker, Waiters
  <2>2. waiting_count' \in Nat
    BY <1>3, <2>1, WaiterPositive DEF AcquireWorker, DropWaiter
  <2>3. waitAge' \in [Threads -> 0..BusyTimeout]
    BY <1>3 DEF AcquireWorker, SupervisorAssumption
  <2>. QED BY <1>3, <2>2, <2>3 DEF AcquireWorker
<1>4. ASSUME NEW t \in Threads, BusyTimedOut(t) PROVE TypeOK'
  <2>1. /\ waitAge' \in [Threads -> 0..BusyTimeout]
        /\ reqAge' \in [Threads -> 0..RequestTimeout]
    BY <1>4 DEF BusyTimedOut, SupervisorAssumption
  <2>2. pc' \in [Threads -> Locations] BY <1>4 DEF BusyTimedOut
  <2>. QED BY <1>4, <2>1, <2>2 DEF BusyTimedOut
<1>5. ASSUME NEW t \in Threads, StuckTest(t) PROVE TypeOK'
  BY <1>5 DEF StuckTest
<1>6. ASSUME NEW t \in Threads, SwapPid(t) PROVE TypeOK'
  BY <1>6 DEF SwapPid
<1>7. ASSUME NEW t \in Threads, GiveUp(t) PROVE TypeOK'
  <2>1. t \in Waiters BY <1>7 DEF GiveUp, Waiters
  <2>. QED BY <1>7, <2>1, WaiterPositive DEF GiveUp, DropWaiter
<1>8. ASSUME NEW t \in Threads, TrackRequest(t) PROVE TypeOK'
  <2>1. curAge' \in 0..RequestTimeout BY <1>8 DEF TrackRequest, SupervisorAssumption
  <2>2. pc' \in [Threads -> Locations] BY <1>8 DEF TrackRequest
  <2>. QED BY <1>8, <2>1, <2>2 DEF TrackRequest
<1>9. ASSUME NEW t \in Threads, CheckWorker(t) PROVE TypeOK'
  <2>1. CASE UNCHANGED <<slot, procVars>> BY <1>9, <2>1 DEF CheckWorker
  <2>2. CASE slot # None /\ Reaped(slot) /\ slot' = None
    BY <1>9, <2>2, ReapedType DEF CheckWorker
  <2>3. CASE slot = None /\ slot' = None /\ UNCHANGED procVars
    BY <1>9, <2>3 DEF CheckWorker
  <2>. QED BY <1>9, <2>1, <2>2, <2>3 DEF CheckWorker
<1>10. ASSUME NEW t \in Threads, WriteFrame(t) PROVE TypeOK'
  <2>1. req' \in [Pids -> Seq(Ids)] BY <1>10, IdType, AppendType DEF WriteFrame
  <2>. QED BY <1>10, <2>1 DEF WriteFrame
<1>11. ASSUME NEW t \in Threads, ExchangeFails(t) PROVE TypeOK'
  BY <1>11 DEF ExchangeFails, Abandon, CleanupWorker
<1>12. ASSUME NEW t \in Threads, ReadMismatch(t) PROVE TypeOK'
  BY <1>12 DEF ReadMismatch, Abandon, CleanupWorker
<1>13. ASSUME NEW t \in Threads, ReadAnswer(t) PROVE TypeOK'
  <2>1. resp' \in [Pids -> Seq(Answers)] BY <1>13, HeadTailType DEF ReadAnswer
  <2>2. \/ pc' = [pc EXCEPT ![t] = "take"]
        \/ pc' = [pc EXCEPT ![t] = "idle"]
    BY <1>13 DEF ReadAnswer
  <2>3. current' \in Threads \cup {None} /\ curAge' \in 0..RequestTimeout
    BY <1>13 DEF ReadAnswer, DropTracked, SupervisorAssumption
  <2>4. reqAge' \in [Threads -> 0..RequestTimeout]
    BY <1>13 DEF ReadAnswer, SupervisorAssumption
  <2>. QED BY <1>13, <2>1, <2>2, <2>3, <2>4 DEF ReadAnswer
<1>14. ASSUME NEW t \in Threads, Release(t) PROVE TypeOK'
  <2>1. current' \in Threads \cup {None} /\ curAge' \in 0..RequestTimeout
    BY <1>14 DEF Release, DropTracked, SupervisorAssumption
  <2>2. reqAge' \in [Threads -> 0..RequestTimeout]
    BY <1>14 DEF Release, SupervisorAssumption
  <2>3. pc' \in [Threads -> Locations] BY <1>14 DEF Release
  <2>. QED BY <1>14, <2>1, <2>2, <2>3 DEF Release
<1>15. ASSUME NEW t \in Threads, EnsureStarted(t) PROVE TypeOK'
  <2>1. CASE UNCHANGED <<slot, procVars>> BY <1>15, <2>1 DEF EnsureStarted
  <2>2. CASE slot # None /\ Reaped(slot) /\ slot' = None
    BY <1>15, <2>2, ReapedType DEF EnsureStarted
  <2>3. CASE slot = None /\ slot' = None /\ UNCHANGED procVars
    BY <1>15, <2>3 DEF EnsureStarted
  <2>. QED BY <1>15, <2>1, <2>2, <2>3 DEF EnsureStarted
<1>16. ASSUME NEW t \in Threads, Spawn(t) PROVE TypeOK'
  <2>1. ProbeId \in Ids BY DEF ProbeId, Ids, Threads
  <2>2. <<ProbeId>> \in Seq(Ids) BY <2>1
  <2>3. req' \in [Pids -> Seq(Ids)] BY <1>16, <2>2 DEF Spawn
  <2>4. /\ proc' \in [Pids -> {"free", "alive", "exited"}]
        /\ child' \in [Threads -> Pids \cup {None}]
        /\ pid' \in Pids \cup {None}
    <3>1. PICK w \in Pids : /\ child' = [child EXCEPT ![t] = w]
                            /\ pid' = w
                            /\ proc' = [proc EXCEPT ![w] = "alive"]
      BY <1>16 DEF Spawn
    <3>. QED BY <3>1
  <2>5. pc' = [pc EXCEPT ![t] = "probe"] /\ probeAge' \in 0..StartupTimeout
    BY <1>16 DEF Spawn, SupervisorAssumption
  <2>6. UNCHANGED <<op, turn, lock, slot, waiting_count, startup_failures,
                    current, doomed, kills, exited, resp, reqAge, waitAge,
                    curAge>>
    BY <1>16 DEF Spawn
  <2>. QED BY <2>3, <2>4, <2>5, <2>6
<1>17. ASSUME NEW t \in Threads, SpawnFails(t) PROVE TypeOK'
  BY <1>17 DEF SpawnFails
<1>18. ASSUME NEW t \in Threads, ProbeAnswered(t) PROVE TypeOK'
  <2>1. child[t] \in Pids BY <1>18 DEF ProbeAnswered, SlotOK
  <2>2. resp' \in [Pids -> Seq(Answers)]
    BY <1>18, <2>1, HeadTailType DEF ProbeAnswered
  <2>3. /\ pc' \in [Threads -> Locations]
        /\ op' \in [Threads -> {"ensure", "request", "again", "restart"}]
        /\ lock' \in Threads \cup {None}
    BY <1>18 DEF ProbeAnswered
  <2>4. /\ slot' \in Pids /\ child' \in [Threads -> Pids \cup {None}]
        /\ startup_failures' \in Nat /\ probeAge' \in 0..StartupTimeout
    BY <1>18, <2>1 DEF ProbeAnswered, SupervisorAssumption
  <2>5. UNCHANGED <<turn, pid, waiting_count, current, doomed, kills, exited,
                    proc, req, reqAge, waitAge, curAge>>
    BY <1>18 DEF ProbeAnswered
  <2>. QED BY <2>2, <2>3, <2>4, <2>5
<1>19. ASSUME NEW t \in Threads, ProbeFails(t) PROVE TypeOK'
  <2>1. child[t] \in Pids BY <1>19 DEF ProbeFails, SlotOK
  <2>. QED BY <1>19, <2>1 DEF ProbeFails, CleanupWorker
<1>20. ASSUME NEW t \in Threads, TakeWorker(t) PROVE TypeOK'
  BY <1>20 DEF TakeWorker
<1>21. ASSUME NEW t \in Threads, ClearPid(t) PROVE TypeOK'
  BY <1>21 DEF ClearPid, CleanupWorker
<1>22. ASSUME NEW t \in Threads, Relock(t) PROVE TypeOK'
  BY <1>22 DEF Relock
<1>23. ASSUME NEW w \in Pids, Cleanup(w) PROVE TypeOK'
  BY <1>23, ReapedType DEF Cleanup
<1>24. ASSUME NEW w \in Pids, Kill(w) PROVE TypeOK'
  BY <1>24 DEF Kill
<1>25. ASSUME NEW w \in Pids, WorkerAnswers(w) PROVE TypeOK'
  <2>1. PICK k \in {"ok", "restart", "bad"} :
          resp' = [resp EXCEPT ![w] = Append(@, [id |-> Head(req[w]), kind |-> k])]
    BY <1>25 DEF WorkerAnswers
  <2>2. Head(req[w]) \in Ids /\ Tail(req[w]) \in Seq(Ids)
    BY <1>25, HeadTailType DEF WorkerAnswers
  <2>3. [id |-> Head(req[w]), kind |-> k] \in Answers BY <2>2 DEF Answers
  <2>4. resp' \in [Pids -> Seq(Answers)] BY <2>1, <2>3, AppendType
  <2>. QED BY <1>25, <2>2, <2>4 DEF WorkerAnswers
<1>26. ASSUME NEW w \in Pids, WorkerDies(w) PROVE TypeOK'
  BY <1>26 DEF WorkerDies
<1>27. ASSUME Tick PROVE TypeOK'
  BY <1>27 DEF Tick, Older, OnTheClock, SupervisorAssumption
<1>28. ASSUME UNCHANGED vars PROVE TypeOK'
  BY <1>28 DEF vars
<1>. QED BY <1>1, <1>2, <1>3, <1>4, <1>5, <1>6, <1>7, <1>8, <1>9, <1>10,
        <1>11, <1>12, <1>13, <1>14, <1>15, <1>16, <1>17, <1>18, <1>19, <1>20,
        <1>21, <1>22, <1>23, <1>24, <1>25, <1>26, <1>27, <1>28 DEF Next,
        Request, Start, Restart, Stopped, Threads

\* A waiter is counted when it joins and when it leaves.
LEMMA WaiterJoins ==
  ASSUME SupervisorAssumption, TypeOK, WaitersCounted,
         NEW t \in Threads, TrackWait(t)
  PROVE  WaitersCounted'
<1>1. Waiters' = Waiters \cup {t} /\ t \notin Waiters
  BY DEF TrackWait, Waiters, TypeOK, At, Goto
<1>. QED BY <1>1, WaitersFinite, FS_AddElement
     DEF WaitersCounted, TrackWait, CountWaiter

\* The wait tracker is dropped once, by the thread that has it.
LEMMA WaiterLeaves ==
  ASSUME SupervisorAssumption, TypeOK, WaitersCounted,
         NEW t \in Threads, AcquireWorker(t) \/ GiveUp(t)
  PROVE  WaitersCounted'
<1>1. Waiters' = Waiters \ {t} /\ t \in Waiters
  BY DEF AcquireWorker, GiveUp, Waiters, TypeOK, At, Goto
<1>. QED BY <1>1, WaitersFinite, FS_RemoveElement
     DEF WaitersCounted, AcquireWorker, GiveUp, DropWaiter

\* The two ends of a wait keep waiting_count equal to the number of waiters;
\* every other step leaves both alone.
LEMMA WaitersStep ==
  ASSUME SupervisorAssumption, TypeOK, WaitersCounted, [Next]_vars
  PROVE  WaitersCounted'
<1>. USE DEF TypeOK, At, Goto, threadVars, mutexVars, stateVars, procVars, clockVars,
       WaitersCounted, Waiters
<1>1. ASSUME NEW t \in Threads, EnterRequest(t) PROVE WaitersCounted'
  BY <1>1 DEF EnterRequest
<1>2. ASSUME NEW t \in Threads, TrackWait(t) PROVE WaitersCounted'
  BY <1>2, WaiterJoins
<1>3. ASSUME NEW t \in Threads, AcquireWorker(t) PROVE WaitersCounted'
  BY <1>3, WaiterLeaves
<1>4. ASSUME NEW t \in Threads, BusyTimedOut(t) PROVE WaitersCounted'
  BY <1>4 DEF BusyTimedOut
<1>5. ASSUME NEW t \in Threads, StuckTest(t) PROVE WaitersCounted'
  BY <1>5 DEF StuckTest
<1>6. ASSUME NEW t \in Threads, SwapPid(t) PROVE WaitersCounted'
  BY <1>6 DEF SwapPid
<1>7. ASSUME NEW t \in Threads, GiveUp(t) PROVE WaitersCounted'
  BY <1>7, WaiterLeaves
<1>8. ASSUME NEW t \in Threads, TrackRequest(t) PROVE WaitersCounted'
  BY <1>8 DEF TrackRequest
<1>9. ASSUME NEW t \in Threads, CheckWorker(t) PROVE WaitersCounted'
  BY <1>9 DEF CheckWorker
<1>10. ASSUME NEW t \in Threads, WriteFrame(t) PROVE WaitersCounted'
  BY <1>10 DEF WriteFrame
<1>11. ASSUME NEW t \in Threads, ExchangeFails(t) PROVE WaitersCounted'
  BY <1>11 DEF ExchangeFails, Abandon
<1>12. ASSUME NEW t \in Threads, ReadMismatch(t) PROVE WaitersCounted'
  BY <1>12 DEF ReadMismatch, Abandon
<1>13. ASSUME NEW t \in Threads, ReadAnswer(t) PROVE WaitersCounted'
  BY <1>13 DEF ReadAnswer
<1>14. ASSUME NEW t \in Threads, Release(t) PROVE WaitersCounted'
  BY <1>14 DEF Release
<1>15. ASSUME NEW t \in Threads, EnsureStarted(t) PROVE WaitersCounted'
  BY <1>15 DEF EnsureStarted
<1>16. ASSUME NEW t \in Threads, Spawn(t) PROVE WaitersCounted'
  BY <1>16 DEF Spawn
<1>17. ASSUME NEW t \in Threads, SpawnFails(t) PROVE WaitersCounted'
  BY <1>17 DEF SpawnFails
<1>18. ASSUME NEW t \in Threads, ProbeAnswered(t) PROVE WaitersCounted'
  BY <1>18 DEF ProbeAnswered
<1>19. ASSUME NEW t \in Threads, ProbeFails(t) PROVE WaitersCounted'
  BY <1>19 DEF ProbeFails
<1>20. ASSUME NEW t \in Threads, TakeWorker(t) PROVE WaitersCounted'
  BY <1>20 DEF TakeWorker
<1>21. ASSUME NEW t \in Threads, ClearPid(t) PROVE WaitersCounted'
  BY <1>21 DEF ClearPid
<1>22. ASSUME NEW t \in Threads, Relock(t) PROVE WaitersCounted'
  BY <1>22 DEF Relock
<1>23. ASSUME NEW w \in Pids, Cleanup(w) PROVE WaitersCounted'
  BY <1>23 DEF Cleanup
<1>24. ASSUME NEW w \in Pids, Kill(w) PROVE WaitersCounted'
  BY <1>24 DEF Kill
<1>25. ASSUME NEW w \in Pids, WorkerAnswers(w) PROVE WaitersCounted'
  BY <1>25 DEF WorkerAnswers
<1>26. ASSUME NEW w \in Pids, WorkerDies(w) PROVE WaitersCounted'
  BY <1>26 DEF WorkerDies
<1>27. ASSUME Tick PROVE WaitersCounted'
  BY <1>27 DEF Tick
<1>28. ASSUME UNCHANGED vars PROVE WaitersCounted'
  BY <1>28 DEF vars
<1>. QED BY <1>1, <1>2, <1>3, <1>4, <1>5, <1>6, <1>7, <1>8, <1>9, <1>10,
        <1>11, <1>12, <1>13, <1>14, <1>15, <1>16, <1>17, <1>18, <1>19, <1>20,
        <1>21, <1>22, <1>23, <1>24, <1>25, <1>26, <1>27, <1>28 DEF Next,
        Request, Start, Restart, Stopped, Threads

\* What a thread is doing follows from where it is.
LEMMA OpStep ==
  ASSUME TypeOK, OpOK, [Next]_vars
  PROVE  OpOK'
<1>. USE DEF TypeOK, At, Goto, threadVars, mutexVars, stateVars, procVars, clockVars, OpOK
<1>1. ASSUME NEW t \in Threads, EnterRequest(t) PROVE OpOK'
  BY <1>1 DEF EnterRequest
<1>2. ASSUME NEW t \in Threads, TrackWait(t) PROVE OpOK'
  BY <1>2 DEF TrackWait
<1>3. ASSUME NEW t \in Threads, AcquireWorker(t) PROVE OpOK'
  BY <1>3 DEF AcquireWorker
<1>4. ASSUME NEW t \in Threads, BusyTimedOut(t) PROVE OpOK'
  BY <1>4 DEF BusyTimedOut
<1>5. ASSUME NEW t \in Threads, StuckTest(t) PROVE OpOK'
  BY <1>5 DEF StuckTest
<1>6. ASSUME NEW t \in Threads, SwapPid(t) PROVE OpOK'
  BY <1>6 DEF SwapPid
<1>7. ASSUME NEW t \in Threads, GiveUp(t) PROVE OpOK'
  BY <1>7 DEF GiveUp
<1>8. ASSUME NEW t \in Threads, TrackRequest(t) PROVE OpOK'
  BY <1>8 DEF TrackRequest
<1>9. ASSUME NEW t \in Threads, CheckWorker(t) PROVE OpOK'
  BY <1>9 DEF CheckWorker
<1>10. ASSUME NEW t \in Threads, WriteFrame(t) PROVE OpOK'
  BY <1>10 DEF WriteFrame
<1>11. ASSUME NEW t \in Threads, ExchangeFails(t) PROVE OpOK'
  BY <1>11 DEF ExchangeFails, Abandon
<1>12. ASSUME NEW t \in Threads, ReadMismatch(t) PROVE OpOK'
  BY <1>12 DEF ReadMismatch, Abandon
<1>13. ASSUME NEW t \in Threads, ReadAnswer(t) PROVE OpOK'
  BY <1>13 DEF ReadAnswer
<1>14. ASSUME NEW t \in Threads, Release(t) PROVE OpOK'
  BY <1>14 DEF Release
<1>15. ASSUME NEW t \in Threads, EnsureStarted(t) PROVE OpOK'
  BY <1>15 DEF EnsureStarted
<1>16. ASSUME NEW t \in Threads, Spawn(t) PROVE OpOK'
  BY <1>16 DEF Spawn
<1>17. ASSUME NEW t \in Threads, SpawnFails(t) PROVE OpOK'
  BY <1>17 DEF SpawnFails
<1>18. ASSUME NEW t \in Threads, ProbeAnswered(t) PROVE OpOK'
  BY <1>18 DEF ProbeAnswered
<1>19. ASSUME NEW t \in Threads, ProbeFails(t) PROVE OpOK'
  BY <1>19 DEF ProbeFails
<1>20. ASSUME NEW t \in Threads, TakeWorker(t) PROVE OpOK'
  BY <1>20 DEF TakeWorker
<1>21. ASSUME NEW t \in Threads, ClearPid(t) PROVE OpOK'
  BY <1>21 DEF ClearPid
<1>22. ASSUME NEW t \in Threads, Relock(t) PROVE OpOK'
  BY <1>22 DEF Relock
<1>23. ASSUME NEW w \in Pids, Cleanup(w) PROVE OpOK'
  BY <1>23 DEF Cleanup
<1>24. ASSUME NEW w \in Pids, Kill(w) PROVE OpOK'
  BY <1>24 DEF Kill
<1>25. ASSUME NEW w \in Pids, WorkerAnswers(w) PROVE OpOK'
  BY <1>25 DEF WorkerAnswers
<1>26. ASSUME NEW w \in Pids, WorkerDies(w) PROVE OpOK'
  BY <1>26 DEF WorkerDies
<1>27. ASSUME Tick PROVE OpOK'
  BY <1>27 DEF Tick
<1>28. ASSUME UNCHANGED vars PROVE OpOK'
  BY <1>28 DEF vars
<1>. QED BY <1>1, <1>2, <1>3, <1>4, <1>5, <1>6, <1>7, <1>8, <1>9, <1>10,
        <1>11, <1>12, <1>13, <1>14, <1>15, <1>16, <1>17, <1>18, <1>19, <1>20,
        <1>21, <1>22, <1>23, <1>24, <1>25, <1>26, <1>27, <1>28 DEF Next,
        Request, Start, Restart, Stopped, Threads

\* Mutual exclusion, and the life of a RequestTracker.
LEMMA TrackedStep ==
  ASSUME SupervisorAssumption, TypeOK, OpOK, RequestTracked, [Next]_vars
  PROVE  RequestTracked'
<1>. USE DEF TypeOK, At, Goto, threadVars, mutexVars, stateVars, procVars, clockVars,
       OpOK, RequestTracked, Holding, Exchanging, SupervisorAssumption
<1>1. ASSUME NEW t \in Threads, EnterRequest(t) PROVE RequestTracked'
  <2>1. CASE pc' = pc BY <1>1, <2>1 DEF EnterRequest
  <2>2. CASE pc' = [pc EXCEPT ![t] = "admitted"]
    <3>1. pc[t] = "idle" /\ UNCHANGED <<lock, current, op>>
      BY <1>1 DEF EnterRequest
    <3>. QED BY <2>2, <3>1
  <2>. QED BY <1>1, <2>1, <2>2 DEF EnterRequest
<1>2. ASSUME NEW t \in Threads, TrackWait(t) PROVE RequestTracked'
  BY <1>2 DEF TrackWait
<1>3. ASSUME NEW t \in Threads, AcquireWorker(t) PROVE RequestTracked'
  BY <1>3 DEF AcquireWorker, MutexFree
<1>4. ASSUME NEW t \in Threads, BusyTimedOut(t) PROVE RequestTracked'
  BY <1>4 DEF BusyTimedOut
<1>5. ASSUME NEW t \in Threads, StuckTest(t) PROVE RequestTracked'
  <2>1. PICK l \in {"swap", "giveup"} : pc' = [pc EXCEPT ![t] = l]
    BY <1>5 DEF StuckTest
  <2>2. pc[t] = "recover" /\ UNCHANGED <<lock, current, op>> BY <1>5 DEF StuckTest
  <2>. QED BY <2>1, <2>2
<1>6. ASSUME NEW t \in Threads, SwapPid(t) PROVE RequestTracked'
  BY <1>6 DEF SwapPid
<1>7. ASSUME NEW t \in Threads, GiveUp(t) PROVE RequestTracked'
  BY <1>7 DEF GiveUp
<1>8. ASSUME NEW t \in Threads, TrackRequest(t) PROVE RequestTracked'
  BY <1>8 DEF TrackRequest
<1>9. ASSUME NEW t \in Threads, CheckWorker(t) PROVE RequestTracked'
  BY <1>9 DEF CheckWorker
<1>10. ASSUME NEW t \in Threads, WriteFrame(t) PROVE RequestTracked'
  BY <1>10 DEF WriteFrame
<1>11. ASSUME NEW t \in Threads, ExchangeFails(t) PROVE RequestTracked'
  BY <1>11 DEF ExchangeFails, Abandon
<1>12. ASSUME NEW t \in Threads, ReadMismatch(t) PROVE RequestTracked'
  BY <1>12 DEF ReadMismatch, Abandon
<1>13. ASSUME NEW t \in Threads, ReadAnswer(t) PROVE RequestTracked'
  BY <1>13 DEF ReadAnswer, DropTracked
<1>14. ASSUME NEW t \in Threads, Release(t) PROVE RequestTracked'
  BY <1>14 DEF Release, DropTracked
<1>15. ASSUME NEW t \in Threads, EnsureStarted(t) PROVE RequestTracked'
  BY <1>15 DEF EnsureStarted, MutexFree
<1>16. ASSUME NEW t \in Threads, Spawn(t) PROVE RequestTracked'
  <2>1. pc[t] = "spawn" /\ pc' = [pc EXCEPT ![t] = "probe"]
    BY <1>16 DEF Spawn
  <2>2. UNCHANGED <<lock, current, op>> BY <1>16 DEF Spawn
  <2>. QED BY <2>1, <2>2
<1>17. ASSUME NEW t \in Threads, SpawnFails(t) PROVE RequestTracked'
  BY <1>17 DEF SpawnFails
<1>18. ASSUME NEW t \in Threads, ProbeAnswered(t) PROVE RequestTracked'
  BY <1>18 DEF ProbeAnswered
<1>19. ASSUME NEW t \in Threads, ProbeFails(t) PROVE RequestTracked'
  BY <1>19 DEF ProbeFails
<1>20. ASSUME NEW t \in Threads, TakeWorker(t) PROVE RequestTracked'
  BY <1>20 DEF TakeWorker, MutexFree
<1>21. ASSUME NEW t \in Threads, ClearPid(t) PROVE RequestTracked'
  BY <1>21 DEF ClearPid
<1>22. ASSUME NEW t \in Threads, Relock(t) PROVE RequestTracked'
  BY <1>22 DEF Relock, MutexFree
<1>23. ASSUME NEW w \in Pids, Cleanup(w) PROVE RequestTracked'
  BY <1>23 DEF Cleanup
<1>24. ASSUME NEW w \in Pids, Kill(w) PROVE RequestTracked'
  BY <1>24 DEF Kill
<1>25. ASSUME NEW w \in Pids, WorkerAnswers(w) PROVE RequestTracked'
  BY <1>25 DEF WorkerAnswers
<1>26. ASSUME NEW w \in Pids, WorkerDies(w) PROVE RequestTracked'
  BY <1>26 DEF WorkerDies
<1>27. ASSUME Tick PROVE RequestTracked'
  BY <1>27 DEF Tick
<1>28. ASSUME UNCHANGED vars PROVE RequestTracked'
  BY <1>28 DEF vars
<1>. QED BY <1>1, <1>2, <1>3, <1>4, <1>5, <1>6, <1>7, <1>8, <1>9, <1>10,
        <1>11, <1>12, <1>13, <1>14, <1>15, <1>16, <1>17, <1>18, <1>19, <1>20,
        <1>21, <1>22, <1>23, <1>24, <1>25, <1>26, <1>27, <1>28 DEF Next,
        Request, Start, Restart, Stopped, Threads

\* ensure_started() returns, or goes on with an empty slot.
LEMMA StartGoes ==
  ASSUME NEW t \in Threads, EnsureStarted(t)
  PROVE  Goto(t, "idle") \/ (Goto(t, "spawn") /\ slot' = None)
BY DEF EnsureStarted

\* The slot belongs to the thread that holds the mutex.
LEMMA SlotStep ==
  ASSUME SupervisorAssumption, TypeOK, OpOK, RequestTracked, SlotOK, [Next]_vars
  PROVE  SlotOK'
<1>. USE DEF TypeOK, At, Goto, threadVars, mutexVars, stateVars, procVars, clockVars,
       OpOK, RequestTracked, Holding, Exchanging, SlotOK, SupervisorAssumption
<1>1. ASSUME NEW t \in Threads, EnterRequest(t) PROVE SlotOK'
  <2>1. CASE pc' = pc BY <1>1, <2>1 DEF EnterRequest
  <2>2. CASE pc' = [pc EXCEPT ![t] = "admitted"]
    <3>1. \A u \in Threads : pc'[u] = pc[u] \/ pc'[u] = "admitted" BY <2>2
    <3>. QED BY <1>1, <3>1 DEF EnterRequest
  <2>. QED BY <1>1, <2>1, <2>2 DEF EnterRequest
<1>2. ASSUME NEW t \in Threads, TrackWait(t) PROVE SlotOK'
  BY <1>2 DEF TrackWait
<1>3. ASSUME NEW t \in Threads, AcquireWorker(t) PROVE SlotOK'
  BY <1>3 DEF AcquireWorker, MutexFree
<1>4. ASSUME NEW t \in Threads, BusyTimedOut(t) PROVE SlotOK'
  BY <1>4 DEF BusyTimedOut
<1>5. ASSUME NEW t \in Threads, StuckTest(t) PROVE SlotOK'
  <2>1. PICK l \in {"swap", "giveup"} : pc' = [pc EXCEPT ![t] = l]
    BY <1>5 DEF StuckTest
  <2>2. UNCHANGED <<slot, child, exited>> BY <1>5 DEF StuckTest
  <2>. QED BY <2>1, <2>2
<1>6. ASSUME NEW t \in Threads, SwapPid(t) PROVE SlotOK'
  BY <1>6 DEF SwapPid
<1>7. ASSUME NEW t \in Threads, GiveUp(t) PROVE SlotOK'
  BY <1>7 DEF GiveUp
<1>8. ASSUME NEW t \in Threads, TrackRequest(t) PROVE SlotOK'
  BY <1>8 DEF TrackRequest
<1>9. ASSUME NEW t \in Threads, CheckWorker(t) PROVE SlotOK'
  BY <1>9 DEF CheckWorker
<1>10. ASSUME NEW t \in Threads, WriteFrame(t) PROVE SlotOK'
  BY <1>10 DEF WriteFrame
<1>11. ASSUME NEW t \in Threads, ExchangeFails(t) PROVE SlotOK'
  BY <1>11 DEF ExchangeFails, Abandon
<1>12. ASSUME NEW t \in Threads, ReadMismatch(t) PROVE SlotOK'
  BY <1>12 DEF ReadMismatch, Abandon
<1>13. ASSUME NEW t \in Threads, ReadAnswer(t) PROVE SlotOK'
  BY <1>13 DEF ReadAnswer, DropTracked
<1>14. ASSUME NEW t \in Threads, Release(t) PROVE SlotOK'
  BY <1>14 DEF Release, DropTracked
<1>15. ASSUME NEW t \in Threads, EnsureStarted(t) PROVE SlotOK'
  <2>1. lock = None /\ pc[t] = "boot" BY <1>15 DEF EnsureStarted, MutexFree
  <2>2. \A u \in Threads : pc[u] \notin {"write", "read", "spawn", "probe", "release"}
    BY <2>1
  <2>3. \A u \in Threads \ {t} : pc'[u] = pc[u] BY <1>15 DEF EnsureStarted
  <2>4. pc'[t] = "idle" \/ (pc'[t] = "spawn" /\ slot' = None)
    <3>1. Goto(t, "idle") \/ (Goto(t, "spawn") /\ slot' = None)
      BY <1>15, StartGoes
    <3>2. Goto(t, "idle") => pc'[t] = "idle" OBVIOUS
    <3>3. Goto(t, "spawn") => pc'[t] = "spawn" OBVIOUS
    <3>. QED BY <3>1, <3>2, <3>3
  <2>. QED BY <2>2, <2>3, <2>4
<1>16. ASSUME NEW t \in Threads, Spawn(t) PROVE SlotOK'
  BY <1>16 DEF Spawn
<1>17. ASSUME NEW t \in Threads, SpawnFails(t) PROVE SlotOK'
  BY <1>17 DEF SpawnFails
<1>18. ASSUME NEW t \in Threads, ProbeAnswered(t) PROVE SlotOK'
  BY <1>18 DEF ProbeAnswered
<1>19. ASSUME NEW t \in Threads, ProbeFails(t) PROVE SlotOK'
  BY <1>19 DEF ProbeFails
<1>20. ASSUME NEW t \in Threads, TakeWorker(t) PROVE SlotOK'
  BY <1>20 DEF TakeWorker, MutexFree
<1>21. ASSUME NEW t \in Threads, ClearPid(t) PROVE SlotOK'
  BY <1>21 DEF ClearPid
<1>22. ASSUME NEW t \in Threads, Relock(t) PROVE SlotOK'
  BY <1>22 DEF Relock, MutexFree
<1>23. ASSUME NEW w \in Pids, Cleanup(w) PROVE SlotOK'
  BY <1>23 DEF Cleanup
<1>24. ASSUME NEW w \in Pids, Kill(w) PROVE SlotOK'
  BY <1>24 DEF Kill
<1>25. ASSUME NEW w \in Pids, WorkerAnswers(w) PROVE SlotOK'
  BY <1>25 DEF WorkerAnswers
<1>26. ASSUME NEW w \in Pids, WorkerDies(w) PROVE SlotOK'
  BY <1>26 DEF WorkerDies
<1>27. ASSUME Tick PROVE SlotOK'
  BY <1>27 DEF Tick
<1>28. ASSUME UNCHANGED vars PROVE SlotOK'
  BY <1>28 DEF vars
<1>. QED BY <1>1, <1>2, <1>3, <1>4, <1>5, <1>6, <1>7, <1>8, <1>9, <1>10,
        <1>11, <1>12, <1>13, <1>14, <1>15, <1>16, <1>17, <1>18, <1>19, <1>20,
        <1>21, <1>22, <1>23, <1>24, <1>25, <1>26, <1>27, <1>28 DEF Next,
        Request, Start, Restart, Stopped, Threads

\* Steps of a thread that owns no process outside the slot: nothing changes
\* hands, or the exited worker in the slot is reaped.
LEMMA OwnedFrame ==
  ASSUME TypeOK, WorkerOwned, UNCHANGED <<proc, slot, doomed, child>>,
         NEW t \in Threads, pc[t] \notin {"probe", "clear"},
         \A u \in Threads \ {t} : pc'[u] = pc[u]
  PROVE  WorkerOwned'
BY DEF TypeOK, WorkerOwned

\* try_wait() on the exited worker in the slot frees its pid and the slot.
LEMMA SlotReaped ==
  ASSUME SupervisorAssumption, TypeOK, WorkerOwned,
         UNCHANGED <<doomed, child>>,
         slot # None, Reaped(slot), slot' = None,
         NEW t \in Threads, pc[t] \notin {"probe", "clear"},
         \A u \in Threads \ {t} : pc'[u] = pc[u]
  PROVE  WorkerOwned'
<1>1. slot \in Pids BY DEF TypeOK
<1>2. \A w \in Pids : proc'[w] = IF w = slot THEN "free" ELSE proc[w]
  BY <1>1 DEF TypeOK, Reaped
<1>3. child[t] = None BY DEF WorkerOwned
<1>4. \A u \in Threads : child[u] # slot BY DEF WorkerOwned
<1>. QED BY <1>1, <1>2, <1>3, <1>4 DEF TypeOK, WorkerOwned, SupervisorAssumption

\* fork() gives a free pid, which nobody owned, to the spawning thread.
LEMMA SpawnOwned ==
  ASSUME SupervisorAssumption, TypeOK, WorkerOwned, NEW t \in Threads, Spawn(t)
  PROVE  WorkerOwned'
<1>1. PICK w \in Pids : /\ proc[w] = "free"
                        /\ child' = [child EXCEPT ![t] = w]
                        /\ proc' = [proc EXCEPT ![w] = "alive"]
  BY DEF Spawn
<1>2. w # slot /\ w \notin doomed /\ w # None /\ \A u \in Threads : child[u] # w
  BY <1>1 DEF WorkerOwned, SupervisorAssumption
<1>3. /\ pc' = [pc EXCEPT ![t] = "probe"] /\ pc[t] = "spawn"
      /\ UNCHANGED <<slot, doomed>>
  BY DEF Spawn, At, Goto, mutexVars
<1>4. child[t] = None BY <1>3 DEF WorkerOwned
<1>5. \A v \in Pids : proc'[v] = IF v = w THEN "alive" ELSE proc[v]
  BY <1>1 DEF TypeOK
<1>6. \A u \in Threads : child'[u] = IF u = t THEN w ELSE child[u]
  BY <1>1 DEF TypeOK
<1>7. ASSUME NEW v \in Pids
      PROVE  proc'[v] # "free" <=>
          \/ v = slot' \/ v \in doomed' \/ \E u \in Threads : child'[u] = v
  <2>1. CASE v = w BY <1>5, <1>6, <2>1
  <2>2. CASE v # w
    <3>1. (\E u \in Threads : child'[u] = v) <=> (\E u \in Threads : child[u] = v)
      BY <1>4, <1>6, <2>2, SupervisorAssumption DEF SupervisorAssumption
    <3>. QED BY <1>3, <1>5, <2>2, <3>1 DEF WorkerOwned
  <2>. QED BY <2>1, <2>2
<1>8. \A u \in Threads : child'[u] # None =>
        /\ pc'[u] \in {"probe", "clear"}
        /\ child'[u] # slot' /\ child'[u] \notin doomed'
        /\ \A v \in Threads \ {u} : child'[v] # child'[u]
  <2>1. \A u \in Threads : child[u] # w BY <1>2, <1>4
  <2>2. ASSUME NEW u \in Threads, child'[u] # None
        PROVE  /\ pc'[u] \in {"probe", "clear"}
               /\ child'[u] # slot' /\ child'[u] \notin doomed'
               /\ \A v \in Threads \ {u} : child'[v] # child'[u]
    <3>1. pc'[u] \in {"probe", "clear"}
      BY <1>3, <1>6, <2>2 DEF WorkerOwned, TypeOK
    <3>2. child'[u] # slot' /\ child'[u] \notin doomed'
      BY <1>2, <1>3, <1>6, <2>2 DEF WorkerOwned
    <3>3. \A v \in Threads \ {u} : child'[v] # child'[u]
      BY <1>6, <2>1, <2>2 DEF WorkerOwned
    <3>. QED BY <3>1, <3>2, <3>3
  <2>. QED BY <2>2
<1>9. slot' \notin doomed' BY <1>3 DEF WorkerOwned
<1>. QED BY <1>7, <1>8, <1>9 DEF WorkerOwned

\* A thread hands the process it owns over to a cleanup thread.
LEMMA DiscardOwned ==
  ASSUME SupervisorAssumption, TypeOK, WorkerOwned, NEW t \in Threads,
         doomed' = doomed \cup ({child[t]} \ {None}), slot' = slot, proc' = proc,
         \A u \in Threads : child'[u] = IF u = t THEN None ELSE child[u],
         \A u \in Threads \ {t} : pc'[u] = pc[u]
  PROVE  WorkerOwned'
<1>1. ASSUME NEW v \in Pids
      PROVE  proc'[v] # "free" <=>
          \/ v = slot' \/ v \in doomed' \/ \E u \in Threads : child'[u] = v
  <2>1. v # None BY DEF SupervisorAssumption
  <2>2. CASE v = child[t] BY <2>1, <2>2 DEF WorkerOwned
  <2>3. CASE v # child[t]
    <3>1. (\E u \in Threads : child'[u] = v) <=> (\E u \in Threads : child[u] = v)
      BY <2>1, <2>3
    <3>2. v \in doomed' <=> v \in doomed BY <2>3
    <3>. QED BY <3>1, <3>2 DEF WorkerOwned
  <2>. QED BY <2>2, <2>3
<1>2. slot' \notin doomed'
  <2>1. child[t] = None \/ child[t] # slot BY DEF WorkerOwned
  <2>. QED BY <2>1 DEF WorkerOwned
<1>3. ASSUME NEW u \in Threads, child'[u] # None
      PROVE  /\ pc'[u] \in {"probe", "clear"}
             /\ child'[u] # slot' /\ child'[u] \notin doomed'
             /\ \A v \in Threads \ {u} : child'[v] # child'[u]
  BY <1>3 DEF WorkerOwned
<1>. QED BY <1>1, <1>2, <1>3 DEF WorkerOwned

\* No worker process is lost or shared: each step moves at most one process
\* from one owner to another.
LEMMA OwnedStep ==
  ASSUME SupervisorAssumption, TypeOK, OpOK, RequestTracked, SlotOK,
         WorkerOwned, [Next]_vars
  PROVE  WorkerOwned'
<1>. USE DEF TypeOK, At, Goto, threadVars, mutexVars, stateVars, procVars, clockVars
<1>1. ASSUME NEW t \in Threads, EnterRequest(t) PROVE WorkerOwned'
  <2>1. pc[t] \notin {"probe", "clear"} /\ \A u \in Threads \ {t} : pc'[u] = pc[u]
    BY <1>1 DEF EnterRequest
  <2>. QED BY <1>1, <2>1, OwnedFrame DEF EnterRequest
<1>2. ASSUME NEW t \in Threads, TrackWait(t) PROVE WorkerOwned'
  BY <1>2 DEF TrackWait, WorkerOwned, SlotOK, SupervisorAssumption
<1>3. ASSUME NEW t \in Threads, AcquireWorker(t) PROVE WorkerOwned'
  BY <1>3 DEF AcquireWorker, WorkerOwned, SlotOK, SupervisorAssumption
<1>4. ASSUME NEW t \in Threads, BusyTimedOut(t) PROVE WorkerOwned'
  BY <1>4 DEF BusyTimedOut, WorkerOwned, SlotOK, SupervisorAssumption
<1>5. ASSUME NEW t \in Threads, StuckTest(t) PROVE WorkerOwned'
  <2>1. pc[t] \notin {"probe", "clear"} /\ \A u \in Threads \ {t} : pc'[u] = pc[u]
    BY <1>5 DEF StuckTest
  <2>. QED BY <1>5, <2>1, OwnedFrame DEF StuckTest
<1>6. ASSUME NEW t \in Threads, SwapPid(t) PROVE WorkerOwned'
  BY <1>6 DEF SwapPid, WorkerOwned, SlotOK, SupervisorAssumption
<1>7. ASSUME NEW t \in Threads, GiveUp(t) PROVE WorkerOwned'
  BY <1>7 DEF GiveUp, WorkerOwned, SlotOK, SupervisorAssumption
<1>8. ASSUME NEW t \in Threads, TrackRequest(t) PROVE WorkerOwned'
  BY <1>8 DEF TrackRequest, WorkerOwned, SlotOK, SupervisorAssumption
<1>9. ASSUME NEW t \in Threads, CheckWorker(t) PROVE WorkerOwned'
  <2>1. pc[t] \notin {"probe", "clear"} /\ \A u \in Threads \ {t} : pc'[u] = pc[u]
    BY <1>9 DEF CheckWorker
  <2>2. CASE UNCHANGED <<slot, proc>> BY <1>9, <2>1, <2>2, OwnedFrame DEF CheckWorker
  <2>3. CASE slot # None /\ Reaped(slot) /\ slot' = None
    BY <1>9, <2>1, <2>3, SlotReaped DEF CheckWorker
  <2>. QED BY <1>9, <2>2, <2>3 DEF CheckWorker
<1>10. ASSUME NEW t \in Threads, WriteFrame(t) PROVE WorkerOwned'
  BY <1>10 DEF WriteFrame, WorkerOwned, SlotOK, SupervisorAssumption
<1>11. ASSUME NEW t \in Threads, ExchangeFails(t) PROVE WorkerOwned'
  BY <1>11 DEF ExchangeFails, WorkerOwned, SlotOK, SupervisorAssumption, Abandon, CleanupWorker
<1>12. ASSUME NEW t \in Threads, ReadMismatch(t) PROVE WorkerOwned'
  BY <1>12 DEF ReadMismatch, WorkerOwned, SlotOK, SupervisorAssumption, Abandon, CleanupWorker
<1>13. ASSUME NEW t \in Threads, ReadAnswer(t) PROVE WorkerOwned'
  <2>1. pc[t] \notin {"probe", "clear"} /\ \A u \in Threads \ {t} : pc'[u] = pc[u]
    BY <1>13 DEF ReadAnswer
  <2>. QED BY <1>13, <2>1, OwnedFrame DEF ReadAnswer
<1>14. ASSUME NEW t \in Threads, Release(t) PROVE WorkerOwned'
  BY <1>14 DEF Release, WorkerOwned, SlotOK, SupervisorAssumption
<1>15. ASSUME NEW t \in Threads, EnsureStarted(t) PROVE WorkerOwned'
  <2>1. pc[t] \notin {"probe", "clear"} /\ \A u \in Threads \ {t} : pc'[u] = pc[u]
    BY <1>15 DEF EnsureStarted
  <2>2. CASE UNCHANGED <<slot, proc>> BY <1>15, <2>1, <2>2, OwnedFrame DEF EnsureStarted
  <2>3. CASE slot # None /\ Reaped(slot) /\ slot' = None
    BY <1>15, <2>1, <2>3, SlotReaped DEF EnsureStarted
  <2>. QED BY <1>15, <2>2, <2>3 DEF EnsureStarted
<1>16. ASSUME NEW t \in Threads, Spawn(t) PROVE WorkerOwned'
  BY <1>16, SpawnOwned
<1>17. ASSUME NEW t \in Threads, SpawnFails(t) PROVE WorkerOwned'
  BY <1>17 DEF SpawnFails, WorkerOwned, SlotOK, SupervisorAssumption
<1>18. ASSUME NEW t \in Threads, ProbeAnswered(t) PROVE WorkerOwned'
  <2>. DEFINE w == child[t]
  <2>1. /\ pc[t] = "probe" /\ slot = None /\ w \in Pids /\ w # None
    BY <1>18 DEF ProbeAnswered, SlotOK, SupervisorAssumption
  <2>2. /\ slot' = w /\ proc' = proc /\ doomed' = doomed
        /\ \A u \in Threads : child'[u] = IF u = t THEN None ELSE child[u]
        /\ \A u \in Threads \ {t} : pc'[u] = pc[u]
    BY <1>18 DEF ProbeAnswered
  <2>3. w \notin doomed /\ \A u \in Threads \ {t} : child[u] # w
    BY <2>1 DEF WorkerOwned
  <2>4. ASSUME NEW v \in Pids
        PROVE  proc'[v] # "free" <=>
            \/ v = slot' \/ v \in doomed' \/ \E u \in Threads : child'[u] = v
    <3>1. CASE v = w BY <2>1, <2>2, <3>1 DEF WorkerOwned
    <3>2. CASE v # w
      <4>1. (\E u \in Threads : child'[u] = v) <=> (\E u \in Threads : child[u] = v)
        BY <2>2, <3>2, SupervisorAssumption DEF SupervisorAssumption
      <4>2. v # slot /\ v # slot'
        BY <2>1, <2>2, <3>2, SupervisorAssumption DEF SupervisorAssumption
      <4>. QED BY <2>2, <4>1, <4>2 DEF WorkerOwned
    <3>. QED BY <3>1, <3>2
  <2>5. ASSUME NEW u \in Threads, child'[u] # None
        PROVE  /\ pc'[u] \in {"probe", "clear"}
               /\ child'[u] # slot' /\ child'[u] \notin doomed'
               /\ \A v \in Threads \ {u} : child'[v] # child'[u]
    BY <2>2, <2>3, <2>5 DEF WorkerOwned
  <2>6. slot' \notin doomed' BY <2>2, <2>3
  <2>. QED BY <2>4, <2>5, <2>6 DEF WorkerOwned
<1>19. ASSUME NEW t \in Threads, ProbeFails(t) PROVE WorkerOwned'
  <2>. DEFINE w == child[t]
  <2>1. /\ doomed' = doomed \cup ({w} \ {None}) /\ slot' = slot /\ proc' = proc
        /\ \A u \in Threads : child'[u] = IF u = t THEN None ELSE child[u]
        /\ \A u \in Threads \ {t} : pc'[u] = pc[u]
    BY <1>19 DEF ProbeFails, CleanupWorker
  <2>. QED BY <2>1, DiscardOwned
<1>20. ASSUME NEW t \in Threads, TakeWorker(t) PROVE WorkerOwned'
  <2>1. /\ doomed' = doomed /\ slot' = None /\ proc' = proc
        /\ \A u \in Threads : child'[u] = IF u = t THEN slot ELSE child[u]
        /\ pc'[t] = "clear" /\ \A u \in Threads \ {t} : pc'[u] = pc[u]
    BY <1>20 DEF TakeWorker
  <2>2. child[t] = None
    BY <1>20 DEF TakeWorker, WorkerOwned
  <2>3. None \notin Pids /\ None \notin doomed
    BY DEF SupervisorAssumption
  <2>4. ASSUME NEW w \in Pids
        PROVE  proc'[w] # "free" <=> \/ w = slot' \/ w \in doomed'
                                     \/ \E u \in Threads : child'[u] = w
    <3>1. proc[w] # "free" <=> \/ w = slot \/ w \in doomed
                               \/ \E u \in Threads : child[u] = w
      BY DEF WorkerOwned
    <3>2. (\E u \in Threads : child'[u] = w)
            <=> w = slot \/ \E u \in Threads : child[u] = w
      BY <2>1, <2>2, <2>3
    <3>. QED BY <2>1, <2>3, <3>1, <3>2
  <2>5. ASSUME NEW u \in Threads, child'[u] # None
        PROVE  /\ pc'[u] \in {"probe", "clear"}
               /\ child'[u] # slot' /\ child'[u] \notin doomed'
               /\ \A v \in Threads \ {u} : child'[v] # child'[u]
    BY <2>1, <2>5 DEF WorkerOwned
  <2>6. slot' \notin doomed' BY <2>1, <2>3
  <2>. QED BY <2>4, <2>5, <2>6 DEF WorkerOwned
<1>21. ASSUME NEW t \in Threads, ClearPid(t) PROVE WorkerOwned'
  <2>. DEFINE w == child[t]
  <2>1. /\ doomed' = doomed \cup ({w} \ {None}) /\ slot' = slot /\ proc' = proc
        /\ \A u \in Threads : child'[u] = IF u = t THEN None ELSE child[u]
        /\ \A u \in Threads \ {t} : pc'[u] = pc[u]
    BY <1>21 DEF ClearPid, CleanupWorker
  <2>. QED BY <2>1, DiscardOwned
<1>22. ASSUME NEW t \in Threads, Relock(t) PROVE WorkerOwned'
  <2>1. pc[t] \notin {"probe", "clear"} /\ \A u \in Threads \ {t} : pc'[u] = pc[u]
    BY <1>22 DEF Relock
  <2>. QED BY <1>22, <2>1, OwnedFrame DEF Relock
<1>23. ASSUME NEW w \in Pids, Cleanup(w) PROVE WorkerOwned'
  BY <1>23 DEF Cleanup, WorkerOwned, SlotOK, SupervisorAssumption, Reaped
<1>24. ASSUME NEW w \in Pids, Kill(w) PROVE WorkerOwned'
  BY <1>24 DEF Kill, WorkerOwned, SlotOK, SupervisorAssumption
<1>25. ASSUME NEW w \in Pids, WorkerAnswers(w) PROVE WorkerOwned'
  BY <1>25 DEF WorkerAnswers, WorkerOwned, SlotOK, SupervisorAssumption
<1>26. ASSUME NEW w \in Pids, WorkerDies(w) PROVE WorkerOwned'
  BY <1>26 DEF WorkerDies, WorkerOwned, SlotOK, SupervisorAssumption
<1>27. ASSUME Tick PROVE WorkerOwned'
  BY <1>27 DEF Tick, WorkerOwned, SlotOK, SupervisorAssumption
<1>28. ASSUME UNCHANGED vars PROVE WorkerOwned'
  BY <1>28 DEF vars, WorkerOwned, SlotOK, SupervisorAssumption
<1>. QED BY <1>1, <1>2, <1>3, <1>4, <1>5, <1>6, <1>7, <1>8, <1>9, <1>10,
        <1>11, <1>12, <1>13, <1>14, <1>15, <1>16, <1>17, <1>18, <1>19, <1>20,
        <1>21, <1>22, <1>23, <1>24, <1>25, <1>26, <1>27, <1>28 DEF Next,
        Request, Start, Restart, Stopped, Threads

\* A free pid comes with empty pipes, so a new worker starts in step.
LEMMA FreeStep ==
  ASSUME TypeOK, FreeDrained, [Next]_vars
  PROVE  FreeDrained'
<1>. USE DEF TypeOK, At, Goto, threadVars, mutexVars, stateVars, procVars, clockVars,
       FreeDrained, Drained
<1>1. ASSUME NEW t \in Threads, EnterRequest(t) PROVE FreeDrained'
  BY <1>1 DEF EnterRequest
<1>2. ASSUME NEW t \in Threads, TrackWait(t) PROVE FreeDrained'
  BY <1>2 DEF TrackWait
<1>3. ASSUME NEW t \in Threads, AcquireWorker(t) PROVE FreeDrained'
  BY <1>3 DEF AcquireWorker
<1>4. ASSUME NEW t \in Threads, BusyTimedOut(t) PROVE FreeDrained'
  BY <1>4 DEF BusyTimedOut
<1>5. ASSUME NEW t \in Threads, StuckTest(t) PROVE FreeDrained'
  BY <1>5 DEF StuckTest
<1>6. ASSUME NEW t \in Threads, SwapPid(t) PROVE FreeDrained'
  BY <1>6 DEF SwapPid
<1>7. ASSUME NEW t \in Threads, GiveUp(t) PROVE FreeDrained'
  BY <1>7 DEF GiveUp
<1>8. ASSUME NEW t \in Threads, TrackRequest(t) PROVE FreeDrained'
  BY <1>8 DEF TrackRequest
<1>9. ASSUME NEW t \in Threads, CheckWorker(t) PROVE FreeDrained'
  BY <1>9 DEF CheckWorker, Reaped
<1>10. ASSUME NEW t \in Threads, WriteFrame(t) PROVE FreeDrained'
  BY <1>10 DEF WriteFrame
<1>11. ASSUME NEW t \in Threads, ExchangeFails(t) PROVE FreeDrained'
  BY <1>11 DEF ExchangeFails, Abandon, CleanupWorker
<1>12. ASSUME NEW t \in Threads, ReadMismatch(t) PROVE FreeDrained'
  BY <1>12 DEF ReadMismatch, Abandon, CleanupWorker
<1>13. ASSUME NEW t \in Threads, ReadAnswer(t) PROVE FreeDrained'
  BY <1>13 DEF ReadAnswer
<1>14. ASSUME NEW t \in Threads, Release(t) PROVE FreeDrained'
  BY <1>14 DEF Release
<1>15. ASSUME NEW t \in Threads, EnsureStarted(t) PROVE FreeDrained'
  BY <1>15 DEF EnsureStarted, Reaped, MutexFree
<1>16. ASSUME NEW t \in Threads, Spawn(t) PROVE FreeDrained'
  BY <1>16 DEF Spawn
<1>17. ASSUME NEW t \in Threads, SpawnFails(t) PROVE FreeDrained'
  BY <1>17 DEF SpawnFails
<1>18. ASSUME NEW t \in Threads, ProbeAnswered(t) PROVE FreeDrained'
  BY <1>18 DEF ProbeAnswered
<1>19. ASSUME NEW t \in Threads, ProbeFails(t) PROVE FreeDrained'
  BY <1>19 DEF ProbeFails
<1>20. ASSUME NEW t \in Threads, TakeWorker(t) PROVE FreeDrained'
  BY <1>20 DEF TakeWorker
<1>21. ASSUME NEW t \in Threads, ClearPid(t) PROVE FreeDrained'
  BY <1>21 DEF ClearPid
<1>22. ASSUME NEW t \in Threads, Relock(t) PROVE FreeDrained'
  BY <1>22 DEF Relock
<1>23. ASSUME NEW w \in Pids, Cleanup(w) PROVE FreeDrained'
  BY <1>23 DEF Cleanup, Reaped
<1>24. ASSUME NEW w \in Pids, Kill(w) PROVE FreeDrained'
  BY <1>24 DEF Kill
<1>25. ASSUME NEW w \in Pids, WorkerAnswers(w) PROVE FreeDrained'
  BY <1>25 DEF WorkerAnswers
<1>26. ASSUME NEW w \in Pids, WorkerDies(w) PROVE FreeDrained'
  BY <1>26 DEF WorkerDies
<1>27. ASSUME Tick PROVE FreeDrained'
  BY <1>27 DEF Tick
<1>28. ASSUME UNCHANGED vars PROVE FreeDrained'
  BY <1>28 DEF vars
<1>. QED BY <1>1, <1>2, <1>3, <1>4, <1>5, <1>6, <1>7, <1>8, <1>9, <1>10,
        <1>11, <1>12, <1>13, <1>14, <1>15, <1>16, <1>17, <1>18, <1>19, <1>20,
        <1>21, <1>22, <1>23, <1>24, <1>25, <1>26, <1>27, <1>28 DEF Next,
        Request, Start, Restart, Stopped, Threads

\* The worker turns the request in its pipe into the answer to that request.
LEMMA AnswerInStep ==
  ASSUME TypeOK, PipesInStep, NEW w \in Pids, WorkerAnswers(w)
  PROVE  PipesInStep'
<1>1. \A v : v # w => req'[v] = req[v] /\ resp'[v] = resp[v]
  BY DEF WorkerAnswers, TypeOK
<1>2. UNCHANGED <<lock, slot, pc, exited, child, turn>>
  BY DEF WorkerAnswers, threadVars, mutexVars
<1>3. ASSUME NEW id, InStep(w, id)
      PROVE  req'[w] = <<>> /\ Len(resp'[w]) = 1 /\ resp'[w][1].id = id
  <2>1. req[w] = <<id>> /\ resp[w] = <<>> BY <1>3 DEF WorkerAnswers, InStep
  <2>2. PICK k \in {"ok", "restart", "bad"} :
          resp' = [resp EXCEPT ![w] = Append(@, [id |-> Head(req[w]), kind |-> k])]
    BY DEF WorkerAnswers
  <2>3. resp'[w] = <<[id |-> id, kind |-> k]>> BY <2>1, <2>2, OneFrame DEF TypeOK
  <2>4. req'[w] = <<>> BY <2>1, OneFrame DEF TypeOK, WorkerAnswers
  <2>. QED BY <2>3, <2>4
<1>4. ~Drained(w) BY DEF WorkerAnswers, Drained
<1>5. ASSUME NEW t \in Threads, pc[t] = "probe" /\ ~exited
      PROVE  InStep(child[t], ProbeId)'
  <2>1. InStep(child[t], ProbeId) BY <1>5 DEF PipesInStep
  <2>. QED BY <2>1, <1>1, <1>2, <1>3 DEF InStep, ProbeId
<1>6. \A t : Id(t)' = Id(t) BY <1>2 DEF Id
<1>7. CASE lock # None /\ pc[lock] = "read"
  <2>1. slot # None => InStep(slot, Id(lock)) BY <1>7 DEF PipesInStep
  <2>2. slot # None => InStep(slot, Id(lock))'
    BY <2>1, <1>1, <1>2, <1>3, <1>6 DEF InStep
  <2>. QED BY <1>2, <1>5, <1>7, <2>2 DEF PipesInStep
<1>8. CASE ~(lock # None /\ pc[lock] = "read")
  <2>1. slot # None => Drained(slot) BY <1>8 DEF PipesInStep
  <2>2. slot # None => Drained(slot)' BY <2>1, <1>1, <1>2, <1>4 DEF Drained
  <2>. QED BY <1>2, <1>5, <1>8, <2>2 DEF PipesInStep
<1>. QED BY <1>7, <1>8

\* The pipes stay in step with the exchanges.
LEMMA PipesStep ==
  ASSUME SupervisorAssumption, TypeOK, OpOK, RequestTracked, SlotOK,
         WorkerOwned, FreeDrained, PipesInStep, [Next]_vars
  PROVE  PipesInStep'
<1>. USE DEF TypeOK, At, Goto, threadVars, mutexVars, stateVars, procVars, clockVars,
       RequestTracked, Holding, Exchanging, SlotOK, SupervisorAssumption
<1>1. ASSUME NEW t \in Threads, EnterRequest(t) PROVE PipesInStep'
  BY <1>1 DEF EnterRequest, PipesInStep, InStep, Drained, Id
<1>2. ASSUME NEW t \in Threads, TrackWait(t) PROVE PipesInStep'
  BY <1>2 DEF TrackWait, PipesInStep, InStep, Drained, Id
<1>3. ASSUME NEW t \in Threads, AcquireWorker(t) PROVE PipesInStep'
  BY <1>3 DEF AcquireWorker, PipesInStep, InStep, Drained, Id, MutexFree
<1>4. ASSUME NEW t \in Threads, BusyTimedOut(t) PROVE PipesInStep'
  BY <1>4 DEF BusyTimedOut, PipesInStep, InStep, Drained, Id
<1>5. ASSUME NEW t \in Threads, StuckTest(t) PROVE PipesInStep'
  <2>1. PICK l \in {"swap", "giveup"} : pc' = [pc EXCEPT ![t] = l]
    BY <1>5 DEF StuckTest
  <2>2. pc[t] = "recover" /\ UNCHANGED <<lock, slot, child, exited, req, resp, turn>>
    BY <1>5 DEF StuckTest
  <2>3. lock # t BY <2>2
  <2>. QED BY <2>1, <2>2, <2>3 DEF PipesInStep, InStep, Drained, Id
<1>6. ASSUME NEW t \in Threads, SwapPid(t) PROVE PipesInStep'
  BY <1>6 DEF SwapPid, PipesInStep, InStep, Drained, Id
<1>7. ASSUME NEW t \in Threads, GiveUp(t) PROVE PipesInStep'
  BY <1>7 DEF GiveUp, PipesInStep, InStep, Drained, Id
<1>8. ASSUME NEW t \in Threads, TrackRequest(t) PROVE PipesInStep'
  BY <1>8 DEF TrackRequest, PipesInStep, InStep, Drained, Id
<1>9. ASSUME NEW t \in Threads, CheckWorker(t) PROVE PipesInStep'
  BY <1>9 DEF CheckWorker, PipesInStep, InStep, Drained, Id, Reaped
<1>10. ASSUME NEW t \in Threads, WriteFrame(t) PROVE PipesInStep'
  <2>1. lock = t /\ lock' = t /\ slot # None /\ slot' = slot /\ slot \in Pids
    BY <1>10 DEF WriteFrame
  <2>2. pc' = [pc EXCEPT ![t] = "read"] /\ pc[t] = "write" BY <1>10 DEF WriteFrame
  <2>3. Drained(slot) BY <2>1, <2>2 DEF PipesInStep
  <2>4. req'[slot] = <<Id(t)>> /\ resp'[slot] = <<>>
    BY <1>10, <2>1, <2>3, OneFrame DEF WriteFrame, Drained
  <2>5. Id(t)' = Id(t) BY <1>10 DEF WriteFrame, Id
  <2>6. InStep(slot, Id(t))' BY <2>1, <2>4, <2>5 DEF InStep
  <2>7. \A u \in Threads : pc'[u] # "probe" BY <2>1, <2>2
  <2>. QED BY <2>1, <2>2, <2>6, <2>7 DEF PipesInStep
<1>11. ASSUME NEW t \in Threads, ExchangeFails(t) PROVE PipesInStep'
  BY <1>11 DEF ExchangeFails, PipesInStep, InStep, Drained, Id, Abandon, CleanupWorker
<1>12. ASSUME NEW t \in Threads, ReadMismatch(t) PROVE PipesInStep'
  BY <1>12 DEF ReadMismatch, PipesInStep, InStep, Drained, Id, Abandon, CleanupWorker
<1>13. ASSUME NEW t \in Threads, ReadAnswer(t) PROVE PipesInStep'
  <2>1. lock = t /\ lock' = None /\ slot # None /\ slot' = slot /\ slot \in Pids
    BY <1>13 DEF ReadAnswer
  <2>2. /\ pc'[t] # "probe" /\ pc[t] = "read"
        /\ \A u \in Threads \ {t} : pc'[u] = pc[u]
    BY <1>13 DEF ReadAnswer
  <2>3. InStep(slot, Id(t)) /\ resp[slot] # <<>>
    BY <1>13, <2>1, <2>2 DEF PipesInStep, ReadAnswer
  <2>4. Drained(slot)'
    <3>1. req[slot] = <<>> /\ Len(resp[slot]) = 1 BY <2>3 DEF InStep
    <3>2. resp[slot] \in Seq(Answers) BY <2>1
    <3>. QED BY <1>13, <2>1, <3>1, <3>2, TailOfOne DEF ReadAnswer, Drained
  <2>5. \A u \in Threads : pc'[u] # "probe" BY <2>1, <2>2
  <2>. QED BY <2>1, <2>2, <2>4, <2>5 DEF PipesInStep
<1>14. ASSUME NEW t \in Threads, Release(t) PROVE PipesInStep'
  BY <1>14 DEF Release, PipesInStep, InStep, Drained, Id
<1>15. ASSUME NEW t \in Threads, EnsureStarted(t) PROVE PipesInStep'
  BY <1>15 DEF EnsureStarted, PipesInStep, InStep, Drained, Id, Reaped, MutexFree
<1>16. ASSUME NEW t \in Threads, Spawn(t) PROVE PipesInStep'
  <2>1. /\ pc' = [pc EXCEPT ![t] = "probe"] /\ pc[t] = "spawn"
        /\ slot' = slot /\ slot = None
    BY <1>16 DEF Spawn
  <2>2. PICK w \in Pids : /\ proc[w] = "free"
                          /\ child' = [child EXCEPT ![t] = w]
                          /\ req' = [req EXCEPT ![w] = <<ProbeId>>]
    BY <1>16 DEF Spawn
  <2>3. InStep(w, ProbeId)'
    BY <1>16, <2>2 DEF Spawn, FreeDrained, Drained, InStep, ProbeId
  <2>4. child'[t] = w BY <2>2
  <2>5. \A u \in Threads \ {t} : pc'[u] # "probe" BY <2>1
  <2>. QED BY <2>1, <2>3, <2>4, <2>5 DEF PipesInStep
<1>17. ASSUME NEW t \in Threads, SpawnFails(t) PROVE PipesInStep'
  BY <1>17 DEF SpawnFails, PipesInStep, InStep, Drained, Id
<1>18. ASSUME NEW t \in Threads, ProbeAnswered(t) PROVE PipesInStep'
  <2>. DEFINE w == child[t]
  <2>1. lock = t /\ w \in Pids BY <1>18 DEF ProbeAnswered
  <2>2. InStep(w, ProbeId) BY <1>18 DEF ProbeAnswered, PipesInStep
  <2>3. req[w] = <<>> /\ Len(resp[w]) = 1
    BY <1>18, <2>2 DEF ProbeAnswered, InStep
  <2>4. req'[w] = <<>> /\ resp'[w] = <<>>
    BY <1>18, <2>1, <2>3, TailOfOne DEF ProbeAnswered
  <2>5. slot' = w /\ lock' \in {t, None} BY <1>18, <2>1 DEF ProbeAnswered
  <2>6. pc'[t] \notin {"read", "probe"} /\ \A u \in Threads \ {t} : pc'[u] = pc[u]
    BY <1>18 DEF ProbeAnswered
  <2>7. \A u \in Threads \ {t} : pc[u] # "probe" BY <2>1
  <2>. QED BY <2>1, <2>4, <2>5, <2>6, <2>7 DEF PipesInStep, Drained
<1>19. ASSUME NEW t \in Threads, ProbeFails(t) PROVE PipesInStep'
  BY <1>19 DEF ProbeFails, PipesInStep, InStep, Drained, Id
<1>20. ASSUME NEW t \in Threads, TakeWorker(t) PROVE PipesInStep'
  BY <1>20 DEF TakeWorker, PipesInStep, InStep, Drained, Id, MutexFree
<1>21. ASSUME NEW t \in Threads, ClearPid(t) PROVE PipesInStep'
  BY <1>21 DEF ClearPid, PipesInStep, InStep, Drained, Id
<1>22. ASSUME NEW t \in Threads, Relock(t) PROVE PipesInStep'
  BY <1>22 DEF Relock, PipesInStep, InStep, Drained, Id, MutexFree
<1>23. ASSUME NEW w \in Pids, Cleanup(w) PROVE PipesInStep'
  <2>1. w # slot /\ \A t \in Threads : child[t] # w
    BY <1>23 DEF Cleanup, WorkerOwned
  <2>2. \A v : v # w => req'[v] = req[v] /\ resp'[v] = resp[v]
    BY <1>23 DEF Cleanup, Reaped
  <2>3. UNCHANGED <<lock, slot, pc, exited, child, turn>> BY <1>23 DEF Cleanup
  <2>. QED BY <2>1, <2>2, <2>3 DEF PipesInStep, InStep, Drained, Id
<1>24. ASSUME NEW w \in Pids, Kill(w) PROVE PipesInStep'
  BY <1>24 DEF Kill, PipesInStep, InStep, Drained, Id
<1>25. ASSUME NEW w \in Pids, WorkerAnswers(w) PROVE PipesInStep'
  BY <1>25, AnswerInStep
<1>26. ASSUME NEW w \in Pids, WorkerDies(w) PROVE PipesInStep'
  BY <1>26 DEF WorkerDies, PipesInStep, InStep, Drained, Id
<1>27. ASSUME Tick PROVE PipesInStep'
  BY <1>27 DEF Tick, PipesInStep, InStep, Drained, Id
<1>28. ASSUME UNCHANGED vars PROVE PipesInStep'
  BY <1>28 DEF vars, PipesInStep, InStep, Drained, Id
<1>. QED BY <1>1, <1>2, <1>3, <1>4, <1>5, <1>6, <1>7, <1>8, <1>9, <1>10,
        <1>11, <1>12, <1>13, <1>14, <1>15, <1>16, <1>17, <1>18, <1>19, <1>20,
        <1>21, <1>22, <1>23, <1>24, <1>25, <1>26, <1>27, <1>28 DEF Next,
        Request, Start, Restart, Stopped, Threads

-----------------------------------------------------------------------------
(* Theorems.                                                               *)

\* Before run() calls ensure_started nobody waits, holds or owns anything.
LEMMA InitIInv == ASSUME SupervisorAssumption, Init PROVE IInv
<1>. USE DEF Init, Threads
<1>1. TypeOK
  <2>1. /\ pc \in [Threads -> Locations]
        /\ op \in [Threads -> {"ensure", "request", "again", "restart"}]
        /\ turn \in [Threads -> {0, 1}]
        /\ child \in [Threads -> Pids \cup {None}]
    BY DEF Locations
  <2>2. /\ proc \in [Pids -> {"free", "alive", "exited"}]
        /\ req \in [Pids -> Seq(Ids)]
        /\ resp \in [Pids -> Seq(Answers)]
    OBVIOUS
  <2>3. /\ reqAge \in [Threads -> 0..RequestTimeout]
        /\ waitAge \in [Threads -> 0..BusyTimeout]
        /\ curAge \in 0..RequestTimeout
        /\ probeAge \in 0..StartupTimeout
    BY DEF SupervisorAssumption
  <2>. QED BY <2>1, <2>2, <2>3 DEF TypeOK
<1>2. WaitersCounted
  <2>1. Waiters = {} BY DEF Waiters
  <2>. QED BY <2>1, FS_EmptySet DEF WaitersCounted
<1>3. OpOK /\ RequestTracked /\ SlotOK
  BY DEF OpOK, RequestTracked, SlotOK, Holding, Exchanging, SupervisorAssumption
<1>4. WorkerOwned BY DEF WorkerOwned, SupervisorAssumption
<1>5. FreeDrained /\ PipesInStep BY DEF FreeDrained, PipesInStep, Drained
<1>. QED BY <1>1, <1>2, <1>3, <1>4, <1>5 DEF IInv

\* The inductive invariant holds in every reachable state.
LEMMA IInvHolds == Spec => []IInv
<1>1. Init => IInv BY InitIInv, SupervisorAssumption
<1>2. IInv /\ [Next]_vars => IInv'
  BY SupervisorAssumption, TypeStep, WaitersStep, OpStep, TrackedStep, SlotStep,
     OwnedStep, FreeStep, PipesStep DEF IInv
<1>. QED BY <1>1, <1>2, PTL DEF Spec

\* Every variable of the supervisor keeps its type; in particular the atomic
\* waiting_count never wraps below zero.
THEOREM TypeCorrect == Spec => []TypeOK
<1>1. IInv => TypeOK BY DEF IInv
<1>. QED BY <1>1, IInvHolds, PTL

\* Mutual exclusion on the worker, current names the thread that uses it, and
\* waiting_count is exact on every path, for any number of callers.
THEOREM TrackingCorrect == Spec => []TrackersExact
<1>1. IInv => TrackersExact BY DEF IInv, TrackersExact
<1>. QED BY <1>1, IInvHolds, PTL

\* No worker process is leaked, shared, or used after it was discarded.
THEOREM OwnershipCorrect == Spec => []WorkerOwned
<1>1. IInv => WorkerOwned BY DEF IInv
<1>. QED BY <1>1, IInvHolds, PTL

\* No answer to one request is ever there to be read by another.
THEOREM PipesCorrect == Spec => []PipesInStep
<1>1. IInv => PipesInStep BY DEF IInv
<1>. QED BY <1>1, IInvHolds, PTL

\* Only the thread in an exchange takes the worker out of the slot.
THEOREM ExchangeCorrect == Spec => ExchangeUndisturbed
<1>1. ASSUME IInv, [Next]_vars, NEW t \in Threads,
             pc[t] \in {"write", "read"}, slot' # slot
      PROVE  pc'[t] = "release"
  <2>. USE DEF At, Goto, mutexVars
  <2>1. /\ TypeOK /\ RequestTracked /\ lock = t /\ lock # None /\ slot # None
        /\ \A u \in Threads : pc[u] \in Holding => u = t
    BY <1>1, SupervisorAssumption
       DEF IInv, RequestTracked, SlotOK, Holding, Exchanging, SupervisorAssumption,
           TypeOK
  <2>2. ASSUME NEW u \in Threads, Abandon(u), pc[u] \in {"write", "read"}
        PROVE  pc'[t] = "release"
    BY <2>1, <2>2 DEF Abandon, TypeOK, Holding, Exchanging
  <2>3. ASSUME NEW u \in Callers, EnterRequest(u) PROVE FALSE
    BY <1>1, <2>3 DEF EnterRequest
  <2>4. ASSUME NEW u \in Threads, Request(u) PROVE pc'[t] = "release"
    BY <1>1, <2>1, <2>2, <2>4
       DEF Request, TrackWait, AcquireWorker, BusyTimedOut, StuckTest, SwapPid,
           GiveUp, TrackRequest, CheckWorker, WriteFrame, ExchangeFails,
           ReadMismatch, ReadAnswer, Release, Holding, Exchanging
  <2>5. ASSUME NEW u \in Threads, Start(u) PROVE FALSE
    BY <1>1, <2>1, <2>5
       DEF Start, EnsureStarted, Spawn, SpawnFails, ProbeAnswered, ProbeFails,
           MutexFree, Holding, Exchanging
  <2>6. ASSUME NEW u \in Threads, Restart(u) PROVE FALSE
    BY <1>1, <2>1, <2>6 DEF Restart, TakeWorker, ClearPid, Relock, MutexFree
  <2>7. ASSUME NEW w \in Pids,
               Cleanup(w) \/ Kill(w) \/ WorkerAnswers(w) \/ WorkerDies(w)
        PROVE  FALSE
    BY <1>1, <2>7 DEF Cleanup, Kill, WorkerAnswers, WorkerDies
  <2>8. ASSUME Tick \/ Stopped \/ UNCHANGED vars PROVE FALSE
    BY <1>1, <2>8 DEF Tick, Stopped, vars
  <2>. QED BY <1>1, <2>3, <2>4, <2>5, <2>6, <2>7, <2>8 DEF Next
<1>2. IInv /\ [Next]_vars =>
        [\A t \in Threads :
           pc[t] \in {"write", "read"} /\ slot' # slot => pc'[t] = "release"]_vars
  BY <1>1
<1>. QED BY <1>2, IInvHolds, PTL DEF Spec, ExchangeUndisturbed
-----------------------------------------------------------------------------
(* The supervisor implements WorkerService.                                *)

\* Main only calls ensure_started(), and until it is done nobody else has
\* done anything: there is no worker to lose at that point.
BootOK ==
  /\ pc[Main] \in {"boot", "spawn", "probe", "idle"}
  /\ pc[Main] \in {"spawn", "probe"} => op[Main] = "ensure"
  /\ pc[Main] # "idle" => slot = None /\ \A c \in Callers : pc[c] = "idle"
  /\ \A c \in Callers : pc[c] # "boot"

\* Nobody makes a request before ensure_started() has returned.
LEMMA BootStep ==
  ASSUME SupervisorAssumption, TypeOK, OpOK, BootOK, [Next]_vars
  PROVE  BootOK'
<1>. USE DEF TypeOK, At, Goto, BootOK, OpOK, threadVars, mutexVars, Threads,
       SupervisorAssumption
<1>1. ASSUME NEW t \in Callers, EnterRequest(t) PROVE BootOK'
  BY <1>1 DEF EnterRequest
<1>2. ASSUME NEW t \in Threads, Request(t) PROVE BootOK'
  <2>1. t # Main /\ pc[t] # "idle" /\ pc'[Main] = pc[Main] /\ op'[Main] = op[Main]
    BY <1>2
       DEF Request, TrackWait, AcquireWorker, BusyTimedOut, StuckTest, SwapPid,
           GiveUp, TrackRequest, CheckWorker, WriteFrame, ExchangeFails,
           ReadMismatch, ReadAnswer, Release, Abandon
  <2>2. pc[Main] = "idle" BY <2>1
  <2>3. pc'[t] # "boot" /\ \A u \in Threads \ {t} : pc'[u] = pc[u]
    BY <1>2
       DEF Request, TrackWait, AcquireWorker, BusyTimedOut, StuckTest, SwapPid,
           GiveUp, TrackRequest, CheckWorker, WriteFrame, ExchangeFails,
           ReadMismatch, ReadAnswer, Release, Abandon
  <2>. QED BY <2>1, <2>2, <2>3
<1>3. ASSUME NEW t \in Threads, EnsureStarted(t) PROVE BootOK'
  BY <1>3 DEF EnsureStarted
<1>4. ASSUME NEW t \in Threads, Spawn(t) PROVE BootOK'
  BY <1>4 DEF Spawn
<1>5. ASSUME NEW t \in Threads, SpawnFails(t) \/ ProbeFails(t) PROVE BootOK'
  BY <1>5 DEF SpawnFails, ProbeFails
<1>6. ASSUME NEW t \in Threads, ProbeAnswered(t) PROVE BootOK'
  BY <1>6 DEF ProbeAnswered
<1>7. ASSUME NEW t \in Threads, Restart(t) PROVE BootOK'
  <2>1. t # Main /\ pc[t] # "idle" /\ pc'[Main] = pc[Main] /\ op'[Main] = op[Main]
    BY <1>7 DEF Restart, TakeWorker, ClearPid, Relock
  <2>2. pc[Main] = "idle" BY <2>1
  <2>3. pc'[t] # "boot" /\ \A u \in Threads \ {t} : pc'[u] = pc[u]
    BY <1>7 DEF Restart, TakeWorker, ClearPid, Relock
  <2>4. slot' = None \/ pc'[Main] = "idle" BY <2>1, <2>2
  <2>. QED BY <2>1, <2>2, <2>3, <2>4
<1>8. ASSUME NEW w \in Pids,
             Cleanup(w) \/ Kill(w) \/ WorkerAnswers(w) \/ WorkerDies(w)
      PROVE  BootOK'
  BY <1>8 DEF Cleanup, Kill, WorkerAnswers, WorkerDies
<1>9. ASSUME Tick \/ Stopped \/ UNCHANGED vars PROVE BootOK'
  BY <1>9 DEF Tick, Stopped, vars
<1>. QED BY <1>1, <1>2, <1>3, <1>4, <1>5, <1>6, <1>7, <1>8, <1>9
     DEF Next, Start

\* The abstract queue, and a step that leaves the abstract state alone.
Queue == {t \in Callers : pc[t] \in {"admitted", "waiting", "recover", "swap",
                                     "giveup"}}

\* A step that changes nothing callers can see is a stutter of the service.
LEMMA ServiceStutter ==
  ASSUME Queue' = Queue, lock' = lock, exited' = exited,
         (slot' # None) = (slot # None), Failed' = Failed
  PROVE  UNCHANGED Service!vars
BY DEF Queue, Service!vars

\* Only the thread that holds the mutex can be on its way out with a failure.
LEMMA HolderFailed ==
  ASSUME RequestTracked, NEW t \in Threads, lock = t
  PROVE  Failed <=> pc[t] = "release"
BY DEF RequestTracked, Holding, Exchanging, Failed

\* A step of one thread between two other locations changes nothing of that.
LEMMA FailedKept ==
  ASSUME TypeOK, NEW t \in Threads, pc[t] # "release",
         NEW l \in Locations \ {"release"}, pc' = [pc EXCEPT ![t] = l]
  PROVE  Failed' = Failed
<1>1. pc'[t] = l /\ \A u \in Threads \ {t} : pc'[u] = pc[u] BY DEF TypeOK
<1>2. ASSUME NEW u \in Threads PROVE pc'[u] = "release" <=> pc[u] = "release"
  BY <1>1
<1>. QED BY <1>2, Zenon DEF Failed

\* Every step is a step of the service or leaves its state alone.
LEMMA ServiceStep ==
  ASSUME SupervisorAssumption, IInv, BootOK, [Next]_vars
  PROVE  [Service!Next]_(Service!vars)
<1>. USE SupervisorAssumption DEF At, Goto, threadVars, mutexVars
<1>. DEFINE Goal == [Service!Next]_(Service!vars)
<1>0. TypeOK /\ OpOK /\ RequestTracked /\ SlotOK BY DEF IInv
<1>1. ASSUME NEW t \in Callers, EnterRequest(t) PROVE Goal
  <2>1. t \in Threads BY DEF Threads
  <2>2. CASE pc' = pc BY <1>1, <2>2, ServiceStutter DEF EnterRequest, Queue, Failed
  <2>3. CASE pc' = [pc EXCEPT ![t] = "admitted"]
    <3>1. lock # t
      BY <1>0, <1>1, <2>1 DEF EnterRequest, RequestTracked, Holding, Exchanging
    <3>2. pc[t] = "idle" /\ \A u \in Callers :
            pc'[u] = IF u = t THEN "admitted" ELSE pc[u]
      BY <1>0, <1>1, <2>3 DEF EnterRequest, TypeOK, Threads
    <3>3. Queue' = Queue \cup {t} /\ t \notin Queue BY <3>2 DEF Queue
    <3>4. Failed' = Failed BY <1>0, <2>1, <2>3, <3>2, FailedKept DEF Locations
    <3>5. Service!Ask(t)
      BY <1>1, <3>1, <3>3, <3>4 DEF EnterRequest, Service!Ask, Queue
    <3>. QED BY <3>5 DEF Service!Next
  <2>. QED BY <1>1, <2>2, <2>3 DEF EnterRequest
<1>2. ASSUME NEW t \in Threads, AcquireWorker(t) PROVE Goal
  <2>1. t \in Callers BY <1>2 DEF AcquireWorker, BootOK, Threads
  <2>2. Queue' = Queue \ {t} /\ t \in Queue
    BY <1>0, <1>2, <2>1 DEF AcquireWorker, Queue, TypeOK, Threads, MutexFree
  <2>3. lock = None /\ lock' = t
    BY <1>0, <1>2
       DEF AcquireWorker, RequestTracked, SlotOK, Holding, Exchanging,
           SupervisorAssumption, MutexFree
  <2>5. Failed' = Failed BY <1>0, <1>2, FailedKept DEF AcquireWorker, Locations
  <2>4. Service!Begin(t)
    BY <1>2, <2>2, <2>3, <2>5 DEF AcquireWorker, Service!Begin, Queue, MutexFree
  <2>. QED BY <2>1, <2>4 DEF Service!Next
<1>3. ASSUME NEW t \in Threads, GiveUp(t) PROVE Goal
  <2>1. t \in Callers BY <1>3 DEF GiveUp, BootOK, Threads
  <2>2. Queue' = Queue \ {t} /\ t \in Queue
    BY <1>0, <1>3, <2>1 DEF GiveUp, Queue, TypeOK, Threads
  <2>3. ~exited
    BY <1>0, <1>3
       DEF GiveUp, RequestTracked, SlotOK, Holding, Exchanging,
           SupervisorAssumption
  <2>5. Failed' = Failed BY <1>0, <1>3, FailedKept DEF GiveUp, Locations
  <2>4. Service!TurnAway(t)
    BY <1>3, <2>2, <2>3, <2>5 DEF GiveUp, Service!TurnAway, Queue
  <2>. QED BY <2>1, <2>4 DEF Service!Next
<1>4. ASSUME NEW t \in Threads, ReadAnswer(t) PROVE Goal
  <2>1. t \in Callers BY <1>4 DEF ReadAnswer, BootOK, Threads
  <2>2. Queue' = Queue
    BY <1>0, <1>4, <2>1 DEF ReadAnswer, Queue, TypeOK, Threads
  <2>3. lock = t /\ slot # None
    BY <1>0, <1>4
       DEF ReadAnswer, RequestTracked, SlotOK, Holding, Exchanging,
           SupervisorAssumption
  <2>5. ~Failed BY <1>0, <1>4, <2>3, HolderFailed DEF ReadAnswer
  <2>6. ~Failed'
    <3>1. CASE pc' = [pc EXCEPT ![t] = "take"]
      BY <1>0, <1>4, <2>5, <3>1, FailedKept DEF ReadAnswer, Locations
    <3>2. CASE pc' = [pc EXCEPT ![t] = "idle"]
      BY <1>0, <1>4, <2>5, <3>2, FailedKept DEF ReadAnswer, Locations
    <3>. QED BY <1>4, <3>1, <3>2 DEF ReadAnswer
  <2>7. ~exited /\ lock' = None /\ slot' = slot /\ exited' = exited
    BY <1>4 DEF ReadAnswer
  <2>8. Failed' = Failed BY <2>5, <2>6, Zenon DEF Failed
  <2>4. Service!Answer(t)
    BY <2>2, <2>3, <2>5, <2>7, <2>8 DEF Service!Answer, Queue
  <2>. QED BY <2>1, <2>4 DEF Service!Next
<1>5. ASSUME NEW t \in Threads, Release(t) PROVE Goal
  <2>1. t \in Callers BY <1>5 DEF Release, BootOK, Threads
  <2>2. Queue' = Queue
    BY <1>0, <1>5, <2>1 DEF Release, Queue, TypeOK, Threads
  <2>3. lock = t /\ slot = None
    BY <1>0, <1>5
       DEF Release, RequestTracked, SlotOK, Holding, Exchanging,
           SupervisorAssumption
  <2>5. Failed BY <1>5 DEF Release, Failed
  <2>6. ~Failed'
    <3>1. \A u \in Threads \ {t} : pc[u] # "release"
      BY <1>0, <2>3 DEF RequestTracked, Holding, Exchanging
    <3>2. pc'[t] = "idle" /\ \A u \in Threads \ {t} : pc'[u] = pc[u]
      BY <1>0, <1>5 DEF Release, TypeOK
    <3>. QED BY <3>1, <3>2 DEF Failed
  <2>4. Service!Fail(t)
    BY <1>5, <2>2, <2>3, <2>5, <2>6 DEF Release, Service!Fail, Queue
  <2>. QED BY <2>1, <2>4 DEF Service!Next
<1>6. ASSUME NEW t \in Threads, ExchangeFails(t) \/ ReadMismatch(t) PROVE Goal
  <2>1. t \in Callers BY <1>6 DEF ExchangeFails, ReadMismatch, BootOK, Threads
  <2>2. Queue' = Queue
    BY <1>0, <1>6, <2>1 DEF ExchangeFails, ReadMismatch, Queue, TypeOK, Threads, Abandon
  <2>3. lock = t /\ slot # None
    BY <1>0, <1>6
       DEF ExchangeFails, ReadMismatch, RequestTracked, SlotOK, Holding, Exchanging,
           SupervisorAssumption, Abandon
  <2>5. Failed' \in BOOLEAN BY DEF Failed
  <2>4. Service!Lose(t)
    BY <1>6, <2>2, <2>3, <2>5 DEF ExchangeFails, ReadMismatch, Service!Lose, Queue, Abandon
  <2>. QED BY <2>1, <2>4 DEF Service!Next
<1>7. ASSUME NEW t \in Threads, ProbeAnswered(t) PROVE Goal
  <2>1. t \in Callers \cup {Main} BY DEF Threads
  <2>2. Queue' = Queue
    BY <1>0, <1>7, <2>1 DEF ProbeAnswered, Queue, TypeOK, Threads
  <2>3. lock = t /\ slot = None /\ slot' # None /\ lock' \in {t, None}
    BY <1>0, <1>7
       DEF ProbeAnswered, RequestTracked, SlotOK, Holding, Exchanging,
           SupervisorAssumption
  <2>5. ~Failed BY <1>0, <1>7, <2>3, HolderFailed DEF ProbeAnswered
  <2>6. Failed' = Failed
    <3>1. PICK l \in {"check", "write", "idle"} : pc' = [pc EXCEPT ![t] = l]
      BY <1>7 DEF ProbeAnswered
    <3>. QED BY <1>0, <1>7, <3>1, FailedKept DEF ProbeAnswered, Locations
  <2>4. Service!Start(t)
    BY <1>7, <2>2, <2>3, <2>5, <2>6 DEF ProbeAnswered, Service!Start, Queue
  <2>. QED BY <2>1, <2>4 DEF Service!Next
<1>8. ASSUME NEW t \in Threads, SpawnFails(t) \/ ProbeFails(t) PROVE Goal
  <2>1. t \in Callers \cup {Main} BY DEF Threads
  <2>2. Queue' = Queue
    BY <1>0, <1>8, <2>1 DEF SpawnFails, ProbeFails, Queue, TypeOK, Threads
  <2>3. lock = t /\ lock # None /\ slot = None
    BY <1>0, <1>8
       DEF SpawnFails, ProbeFails, RequestTracked, SlotOK, Holding, Exchanging,
           SupervisorAssumption
  <2>5. ~Failed BY <1>0, <1>8, <2>3, HolderFailed DEF SpawnFails, ProbeFails
  <2>6. Failed' = Failed BY <1>8 DEF SpawnFails, ProbeFails, Failed
  <2>4. Service!Halt
    BY <1>8, <2>2, <2>3, <2>5, <2>6 DEF SpawnFails, ProbeFails, Service!Halt, Queue
  <2>. QED BY <2>1, <2>4 DEF Service!Next
<1>9. ASSUME NEW t \in Threads, CheckWorker(t) PROVE Goal
  <2>1. t \in Callers BY <1>9 DEF CheckWorker, BootOK, Threads
  <2>2. Queue' = Queue BY <1>0, <1>9, <2>1 DEF CheckWorker, Queue, TypeOK, Threads
  <2>3. lock = t
    BY <1>0, <1>9 DEF CheckWorker, RequestTracked, Holding, Exchanging
  <2>6. Failed' = Failed
    <3>1. PICK l \in {"spawn", "write"} : pc' = [pc EXCEPT ![t] = l]
      BY <1>9 DEF CheckWorker
    <3>. QED BY <1>0, <1>9, <3>1, FailedKept DEF CheckWorker, Locations
  <2>4. CASE slot # None /\ slot' = None
    <3>1. Failed' \in BOOLEAN BY DEF Failed
    <3>2. Service!Lose(t)
      BY <1>9, <2>2, <2>3, <2>4, <3>1 DEF CheckWorker, Service!Lose, Queue
    <3>. QED BY <2>1, <3>2 DEF Service!Next
  <2>5. CASE slot' = slot BY <1>9, <2>2, <2>5, <2>6, ServiceStutter DEF CheckWorker
  <2>. QED BY <1>9, <2>4, <2>5 DEF CheckWorker
<1>10. ASSUME NEW t \in Threads, EnsureStarted(t) PROVE Goal
  <2>1. t = Main /\ slot = None BY <1>10 DEF EnsureStarted, BootOK, Threads
  <2>2. Queue' = Queue /\ t \notin Queue
    BY <1>0, <1>10, <2>1 DEF EnsureStarted, Queue, TypeOK, Threads,
       SupervisorAssumption
  <2>4. Failed' = Failed
    <3>1. PICK l \in {"spawn", "idle"} : pc' = [pc EXCEPT ![t] = l]
      BY <1>10 DEF EnsureStarted
    <3>. QED BY <1>0, <1>10, <3>1, FailedKept DEF EnsureStarted, Locations
  <2>3. Service!Prepare(t)
    BY <1>10, <2>1, <2>2, <2>4 DEF EnsureStarted, MutexFree, Service!Prepare, Queue
  <2>. QED BY <2>1, <2>3 DEF Service!Next
<1>11. ASSUME NEW t \in Threads, TakeWorker(t) PROVE Goal
  <2>1. Queue' = Queue BY <1>0, <1>11 DEF TakeWorker, Queue, TypeOK, Threads
  <2>4. Failed' = Failed BY <1>0, <1>11, FailedKept DEF TakeWorker, Locations
  <2>2. CASE slot = None
    BY <1>11, <2>1, <2>2, <2>4, ServiceStutter DEF TakeWorker
  <2>3. CASE slot # None
    <3>1. Service!Withdraw
      BY <1>11, <2>1, <2>3, <2>4 DEF TakeWorker, MutexFree, Service!Withdraw, Queue
    <3>. QED BY <3>1 DEF Service!Next
  <2>. QED BY <2>2, <2>3
<1>12. ASSUME NEW t \in Threads, Relock(t) PROVE Goal
  <2>1. t \in Callers \cup {Main} BY DEF Threads
  <2>2. Queue' = Queue /\ t \notin Queue
    BY <1>0, <1>12 DEF Relock, Queue, TypeOK, Threads
  <2>5. Failed' = Failed
    <3>1. PICK l \in {"spawn", "idle"} : pc' = [pc EXCEPT ![t] = l]
      BY <1>12 DEF Relock
    <3>. QED BY <1>0, <1>12, <3>1, FailedKept DEF Relock, Locations
  <2>3. CASE slot # None
    BY <1>12, <2>2, <2>3, <2>5, ServiceStutter DEF Relock
  <2>4. CASE slot = None
    <3>1. Service!Prepare(t)
      BY <1>12, <2>2, <2>4, <2>5 DEF Relock, MutexFree, Service!Prepare, Queue
    <3>. QED BY <2>1, <3>1 DEF Service!Next
  <2>. QED BY <2>3, <2>4
<1>13. ASSUME NEW t \in Threads,
              TrackWait(t) \/ BusyTimedOut(t) \/ StuckTest(t) \/ SwapPid(t)
                \/ TrackRequest(t) \/ WriteFrame(t) \/ Spawn(t) \/ ClearPid(t)
       PROVE  Goal
  <2>1. Queue' = Queue
    BY <1>0, <1>13
       DEF TrackWait, BusyTimedOut, StuckTest, SwapPid, TrackRequest, WriteFrame,
           Spawn, ClearPid, Queue, TypeOK, Threads
  <2>2. UNCHANGED <<lock, slot, exited>>
    BY <1>13
       DEF TrackWait, BusyTimedOut, StuckTest, SwapPid, TrackRequest, WriteFrame,
           Spawn, ClearPid
  <2>3. Failed' = Failed
    <3>1. PICK l \in Locations \ {"release"} : pc' = [pc EXCEPT ![t] = l]
      BY <1>13
         DEF TrackWait, BusyTimedOut, StuckTest, SwapPid, TrackRequest, WriteFrame,
             Spawn, ClearPid, Locations
    <3>2. pc[t] # "release"
      BY <1>13
         DEF TrackWait, BusyTimedOut, StuckTest, SwapPid, TrackRequest, WriteFrame,
             Spawn, ClearPid
    <3>. QED BY <1>0, <3>1, <3>2, FailedKept
  <2>. QED BY <2>1, <2>2, <2>3, ServiceStutter
<1>14. ASSUME NEW w \in Pids,
              Cleanup(w) \/ Kill(w) \/ WorkerAnswers(w) \/ WorkerDies(w)
       PROVE  Goal
  <2>1. UNCHANGED <<pc, lock, slot, exited>>
    BY <1>14 DEF Cleanup, Kill, WorkerAnswers, WorkerDies
  <2>. QED BY <2>1, ServiceStutter DEF Queue, Failed
<1>15. ASSUME Tick \/ Stopped \/ UNCHANGED vars PROVE Goal
  <2>1. UNCHANGED <<pc, lock, slot, exited>> BY <1>15 DEF Tick, Stopped, vars
  <2>. QED BY <2>1, ServiceStutter DEF Queue, Failed
<1>. QED
  BY <1>1, <1>2, <1>3, <1>4, <1>5, <1>6, <1>7, <1>8, <1>9,
     <1>10, <1>11, <1>12, <1>13, <1>14, <1>15 DEF Next, Request, Start, Restart

\* Requests are served one at a time; a failed exchange costs its worker; no
\* worker is withdrawn from under the thread it serves.
THEOREM SupervisorImplementsService == Spec => ServiceImplemented
<1>1. Init => BootOK BY SupervisorAssumption
  DEF Init, BootOK, Threads, SupervisorAssumption
<1>2. IInv /\ BootOK /\ [Next]_vars => BootOK'
  BY BootStep, SupervisorAssumption DEF IInv
<1>3. Init => Service!Init
  BY SupervisorAssumption DEF Init, Service!Init, Failed, Threads, SupervisorAssumption
<1>4. IInv /\ BootOK /\ [Next]_vars => [Service!Next]_(Service!vars)
  BY ServiceStep, SupervisorAssumption
<1>. QED BY <1>1, <1>2, <1>3, <1>4, IInvHolds, PTL
     DEF Spec, ServiceImplemented, Service!Spec
=============================================================================
