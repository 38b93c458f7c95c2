------------------------------ MODULE Supervisor ------------------------------
(***************************************************************************)
(* The worker supervisor of src/rust/worker.rs: many request threads, one  *)
(* C++ worker process, and what happens when the worker is slow, wedged,   *)
(* killed, or asks to be restarted.                                        *)
(*                                                                         *)
(* The request threads share                                               *)
(*   - proc: Mutex<Option<WorkerProcess>>, here `lock` (who holds it) and  *)
(*     `slot` (the process it contains, by pid);                           *)
(*   - the atomics pid, waiting_count and startup_failures;                *)
(*   - state: Mutex<WorkerState>, of which `current` decides recovery.     *)
(* One action is the code between two accesses to that shared state that   *)
(* another thread can tell apart.  Threads detached by the supervisor      *)
(* (cleanup_worker, the killer of recover_stuck_worker_or_exit) appear as  *)
(* the sets `doomed` and `kills` of pids they still have to act on.        *)
(*                                                                         *)
(* Durations are counted in ticks by ages that stop at their limit; a      *)
(* deadline that has passed is noticed at some later step, never before.   *)
(***************************************************************************)
EXTENDS Integers, Sequences, FiniteSets

CONSTANTS
  Callers,         \* threads that call request(): HTTP pool, TCP clients, backup loop
  Main,            \* the thread of run(), which starts the first worker
  Pids,            \* process ids; one is free again when its process is reaped
  None,            \* no thread, no process, pid 0
  MaxWaiters,      \* max_waiters
  BusyTimeout,     \* busy_timeout, in ticks
  RequestTimeout,  \* request_timeout, in ticks
  StartupTimeout   \* startup_timeout, in ticks

Threads == Callers \cup {Main}

ASSUME SupervisorAssumption ==
  /\ IsFiniteSet(Callers)
  /\ Main \notin Callers
  /\ None \notin Threads \cup Pids
  /\ {MaxWaiters, BusyTimeout, RequestTimeout, StartupTimeout} \subseteq Nat \ {0}

VARIABLES
  pc,                \* where each thread is
  op,                \* what for: "ensure", "request", "again" (a request that
                     \* spawns after try_wait has failed it) or "restart"
  turn,              \* parity of the thread's request count (next_id)
  lock, slot,        \* the mutex `proc` and the worker in it
  child,             \* a WorkerProcess owned by a thread's stack, or None
  pid, waiting_count, startup_failures,
  current,           \* the thread whose request is WorkerState.current
  doomed,            \* processes handed to a cleanup_worker thread
  kills,             \* pids a killer thread is about to send SIGKILL
  exited,            \* process::exit(70) was called
  proc,              \* state of each process id
  req, resp,         \* each process's stdin and stdout pipes
  reqAge, waitAge,   \* time since request() was entered, since it queued
  curAge, probeAge   \* time since current.started, since the probe began

threadVars == <<pc, op, turn>>
mutexVars  == <<lock, slot>>
stateVars  == <<pid, waiting_count, startup_failures, current>>
procVars   == <<proc, req, resp>>
clockVars  == <<reqAge, waitAge, curAge, probeAge>>
vars == <<threadVars, mutexVars, child, stateVars, doomed, kills, exited,
          procVars, clockVars>>

Locations == {"boot", "idle", "admitted", "waiting", "recover", "swap",
              "giveup", "tracking", "check", "spawn", "probe", "write",
              "read", "release", "take", "clear", "sleep"}

\* The id fetch_add hands out, up to what matters: ids of different threads
\* differ, and so do two consecutive ids of one thread.  0 is the probe's.
Id(t)   == [by |-> t, turn |-> turn[t]]
ProbeId == [by |-> Main, turn |-> 0]
Ids     == [by : Threads, turn : {0, 1}]

\* What comes back on stdout: a matching answer, one with restart_worker set,
\* or a frame that does not parse or match (anything printed on stdout).
Answers == [id : Ids, kind : {"ok", "restart", "bad"}]

Init ==
  /\ pc = [t \in Threads |-> IF t = Main THEN "boot" ELSE "idle"]
  /\ op = [t \in Threads |-> IF t = Main THEN "ensure" ELSE "request"]
  /\ turn = [t \in Threads |-> 0]
  /\ lock = None /\ slot = None
  /\ child = [t \in Threads |-> None]
  /\ pid = None /\ waiting_count = 0 /\ startup_failures = 0 /\ current = None
  /\ doomed = {} /\ kills = {} /\ exited = FALSE
  /\ proc = [w \in Pids |-> "free"]
  /\ req = [w \in Pids |-> <<>>] /\ resp = [w \in Pids |-> <<>>]
  /\ reqAge = [t \in Threads |-> 0] /\ waitAge = [t \in Threads |-> 0]
  /\ curAge = 0 /\ probeAge = 0

At(t, l)   == pc[t] = l /\ ~exited
Goto(t, l) == pc' = [pc EXCEPT ![t] = l]

\* lock() and try_lock() on `proc` succeed only when nobody holds the guard.
MutexIgnored == TRUE
MutexFree == lock = None

\* track_wait() and the Drop of WaitTracker.
Uncounted == UNCHANGED waiting_count
CountWaiter == waiting_count' = waiting_count + 1
DropWaiter == waiting_count' = waiting_count - 1

\* The Drop of RequestTracker forgets the request if it is still this one.
KeepTracked(t) == UNCHANGED <<current, curAge>>
DropTracked(t) ==
  IF current = t THEN current' = None /\ curAge' = 0
  ELSE UNCHANGED <<current, curAge>>

\* cleanup_worker(): a detached thread will kill the process and wait for it.
\* Dropping a Child alone would do neither.
JustDrop(w) == UNCHANGED doomed
CleanupWorker(w) == doomed' = doomed \cup ({w} \ {None})

\* A process gone and waited for: its pid is free, its pipes unreadable.
Reaped(w) ==
  /\ proc' = [proc EXCEPT ![w] = "free"]
  /\ req'  = [req EXCEPT ![w] = <<>>]
  /\ resp' = [resp EXCEPT ![w] = <<>>]
-----------------------------------------------------------------------------
(* Entry, admission control and the wait for the worker mutex.             *)

\* request(): take an id, start the request clock, read waiting_count.  A
\* thread that finds too many waiters fails at once.
EnterRequest(t) ==
  /\ At(t, "idle") /\ pc[Main] = "idle"
  /\ turn' = [turn EXCEPT ![t] = 1 - @]
  /\ IF waiting_count >= MaxWaiters THEN UNCHANGED pc ELSE Goto(t, "admitted")
  /\ UNCHANGED <<op, mutexVars, child, stateVars, doomed, kills, exited,
                 procVars, clockVars>>

\* track_wait(), and the start of the busy clock.
TrackWait(t) ==
  /\ At(t, "admitted")
  /\ CountWaiter
  /\ Goto(t, "waiting")
  /\ UNCHANGED <<op, turn, mutexVars, child, pid, startup_failures, current,
                 doomed, kills, exited, procVars, clockVars>>

\* lock_worker_timeout() succeeds; the wait tracker is dropped.  try_lock
\* comes before the deadline test, so a late thread may still get the lock.
AcquireWorker(t) ==
  /\ At(t, "waiting") /\ MutexFree
  /\ lock' = t
  /\ DropWaiter
  /\ waitAge' = [waitAge EXCEPT ![t] = 0]
  /\ Goto(t, "tracking")
  /\ UNCHANGED <<op, turn, slot, child, pid, startup_failures, current, doomed,
                 kills, exited, procVars, reqAge, curAge, probeAge>>

\* lock_worker_timeout() fails: the lock is held and the busy clock ran out.
BusyTimedOut(t) ==
  /\ At(t, "waiting") /\ ~MutexFree
  /\ waitAge[t] >= BusyTimeout
  /\ waitAge' = [waitAge EXCEPT ![t] = 0]
  /\ reqAge' = [reqAge EXCEPT ![t] = 0]
  /\ Goto(t, "recover")
  /\ UNCHANGED <<op, turn, mutexVars, child, stateVars, doomed, kills, exited,
                 procVars, curAge, probeAge>>

\* recover_stuck_worker_or_exit(), first half: is the current request older
\* than request_timeout?
StuckTest(t) ==
  /\ At(t, "recover")
  /\ IF current # None /\ curAge >= RequestTimeout
     THEN Goto(t, "swap")
     ELSE Goto(t, "giveup")
  /\ UNCHANGED <<op, turn, mutexVars, child, stateVars, doomed, kills, exited,
                 procVars, clockVars>>

\* recover_stuck_worker_or_exit(), second half: whoever swaps a pid out of
\* the atomic has it killed by a new thread; pid 0 is left to its cleaner.
SwapPid(t) ==
  /\ At(t, "swap")
  /\ kills' = kills \cup ({pid} \ {None})
  /\ pid' = None
  /\ Goto(t, "giveup")
  /\ UNCHANGED <<op, turn, mutexVars, child, waiting_count, startup_failures,
                 current, doomed, exited, procVars, clockVars>>

\* The error return of a timed-out waiter drops its wait tracker.
GiveUp(t) ==
  /\ At(t, "giveup")
  /\ DropWaiter
  /\ Goto(t, "idle")
  /\ UNCHANGED <<op, turn, mutexVars, child, pid, startup_failures, current,
                 doomed, kills, exited, procVars, clockVars>>
-----------------------------------------------------------------------------
(* The exchange with the worker, under the mutex.                          *)

\* track_request(): current.started is now.
TrackRequest(t) ==
  /\ At(t, "tracking")
  /\ current' = t /\ curAge' = 0
  /\ Goto(t, "check")
  /\ UNCHANGED <<op, turn, mutexVars, child, pid, waiting_count,
                 startup_failures, doomed, kills, exited, procVars, reqAge,
                 waitAge, probeAge>>

\* Spawn a worker if the slot is empty, and then, once, if try_wait finds the
\* one there exited.  Such a worker is thereby reaped: its handle, which stays
\* in the slot until the next one replaces it, counts as an empty slot.
CheckWorker(t) ==
  /\ At(t, "check")
  /\ \/ /\ slot = None
        /\ Goto(t, "spawn")
        /\ UNCHANGED <<op, slot, procVars>>
     \/ /\ slot # None /\ proc[slot] = "alive"
        /\ Goto(t, "write")
        /\ UNCHANGED <<op, slot, procVars>>
     \/ /\ slot # None /\ proc[slot] # "alive"
        /\ op' = [op EXCEPT ![t] = "again"]
        /\ slot' = None /\ Reaped(slot)
        /\ Goto(t, "spawn")
  /\ UNCHANGED <<turn, lock, child, stateVars, doomed, kills, exited, clockVars>>

\* The deadline was fixed when request() was entered; wait_fd tests it first.
NoDeadline(t) == TRUE
InTime(t) == reqAge[t] < RequestTimeout

WriteFrame(t) ==
  /\ At(t, "write") /\ InTime(t) /\ proc[slot] = "alive"
  /\ req' = [req EXCEPT ![slot] = Append(@, Id(t))]
  /\ Goto(t, "read")
  /\ UNCHANGED <<op, turn, mutexVars, child, stateVars, doomed, kills, exited,
                 proc, resp, clockVars>>

\* abandon_locked_worker(): empty the slot, forget the pid, hand the process
\* to a cleanup thread.
ReturnOnly(t) ==
  /\ Goto(t, "release")
  /\ UNCHANGED <<op, turn, mutexVars, child, stateVars, doomed, kills, exited,
                 procVars, clockVars>>
Abandon(t) ==
  /\ CleanupWorker(slot)
  /\ slot' = None /\ pid' = None
  /\ Goto(t, "release")
  /\ UNCHANGED <<op, turn, lock, child, waiting_count, startup_failures,
                 current, kills, exited, procVars, clockVars>>

\* The write or the read hits the deadline or a closed pipe.
ExchangeFails(t) ==
  /\ At(t, "write") \/ At(t, "read")
  /\ ~InTime(t) \/ proc[slot] = "exited"
  /\ Abandon(t)

Matches(t, answer) == answer.kind # "bad" /\ answer.id = Id(t)

\* A frame that is not the response to this request.
ReadMismatch(t) ==
  /\ At(t, "read") /\ InTime(t) /\ proc[slot] = "alive"
  /\ resp[slot] # <<>> /\ ~Matches(t, Head(resp[slot]))
  /\ Abandon(t)

\* The failed request returns: its tracker, then the mutex guard, are dropped.
Release(t) ==
  /\ At(t, "release")
  /\ DropTracked(t) /\ lock' = None
  /\ reqAge' = [reqAge EXCEPT ![t] = 0]
  /\ Goto(t, "idle")
  /\ UNCHANGED <<op, turn, slot, child, pid, waiting_count, startup_failures,
                 doomed, kills, exited, procVars, waitAge, probeAge>>

\* The response arrives; the trackers and the guard are dropped.  A decrypt
\* whose answer says restart_worker goes on to restart_after_delay().
ReadAnswer(t) ==
  /\ At(t, "read") /\ InTime(t) /\ proc[slot] = "alive"
  /\ resp[slot] # <<>>
  /\ LET answer == Head(resp[slot]) IN
       /\ Matches(t, answer)
       /\ IF answer.kind = "restart" THEN Goto(t, "take") ELSE Goto(t, "idle")
  /\ resp' = [resp EXCEPT ![slot] = Tail(@)]
  /\ startup_failures' = 0
  /\ DropTracked(t) /\ lock' = None
  /\ reqAge' = [reqAge EXCEPT ![t] = 0]
  /\ UNCHANGED <<op, turn, slot, child, pid, waiting_count, doomed, kills,
                 exited, proc, req, waitAge, probeAge>>
-----------------------------------------------------------------------------
(* Starting a worker: spawn_ready(), under the mutex.                      *)

\* spawn(): fork and exec, publish the pid; probe_ready() sends OP_HEALTH.
Spawn(t) ==
  /\ At(t, "spawn")
  /\ \E w \in Pids :
       /\ proc[w] = "free"
       /\ child' = [child EXCEPT ![t] = w]
       /\ pid' = w
       /\ proc' = [proc EXCEPT ![w] = "alive"]
       /\ req' = [req EXCEPT ![w] = <<ProbeId>>]
  /\ probeAge' = 0
  /\ Goto(t, "probe")
  /\ UNCHANGED <<op, turn, mutexVars, waiting_count, startup_failures, current,
                 doomed, kills, exited, resp, reqAge, waitAge, curAge>>

\* spawn() fails: the supervisor exits.
SpawnFails(t) ==
  /\ At(t, "spawn")
  /\ exited' = TRUE
  /\ UNCHANGED <<threadVars, mutexVars, child, stateVars, doomed, kills,
                 procVars, clockVars>>

\* The probe is answered in time: the new worker goes into the slot.  A
\* request goes on with it, through try_wait unless it has been there before;
\* ensure_started() and restart_after_delay() return.
ProbeAnswered(t) ==
  /\ At(t, "probe") /\ probeAge < StartupTimeout
  /\ LET w == child[t] IN
       /\ proc[w] = "alive" /\ resp[w] # <<>> /\ Head(resp[w]).kind # "bad"
       /\ resp' = [resp EXCEPT ![w] = Tail(@)]
       /\ slot' = w
  /\ child' = [child EXCEPT ![t] = None]
  /\ startup_failures' = 0
  /\ probeAge' = 0
  /\ op' = [op EXCEPT ![t] = "request"]
  /\ \/ op[t] = "request" /\ Goto(t, "check") /\ UNCHANGED lock
     \/ op[t] = "again" /\ Goto(t, "write") /\ UNCHANGED lock
     \/ op[t] \in {"ensure", "restart"} /\ Goto(t, "idle") /\ lock' = None
  /\ UNCHANGED <<turn, pid, waiting_count, current, doomed, kills, exited, proc,
                 req, reqAge, waitAge, curAge>>

\* The probe times out, is answered by garbage or finds the pipe closed:
\* spawn_ready() clears the pid, has the child killed and exits.
ProbeFails(t) ==
  /\ At(t, "probe")
  /\ LET w == child[t] IN
       /\ \/ probeAge >= StartupTimeout
          \/ proc[w] = "exited"
          \/ resp[w] # <<>> /\ Head(resp[w]).kind = "bad"
       /\ CleanupWorker(w)
  /\ child' = [child EXCEPT ![t] = None]
  /\ pid' = None
  /\ exited' = TRUE
  /\ UNCHANGED <<threadVars, mutexVars, waiting_count, startup_failures,
                 current, kills, procVars, clockVars>>

\* ensure_started(), which run() calls before any thread can make a request.
EnsureStarted(t) ==
  /\ At(t, "boot") /\ MutexFree
  /\ IF slot # None /\ proc[slot] = "alive"
     THEN /\ Goto(t, "idle") /\ op' = [op EXCEPT ![t] = "request"]
          /\ UNCHANGED <<lock, slot, pid, procVars>>
     ELSE /\ UNCHANGED op /\ lock' = t /\ slot' = None /\ Goto(t, "spawn")
          /\ IF slot = None
             THEN UNCHANGED <<pid, procVars>>
             ELSE pid' = None /\ Reaped(slot)
  /\ UNCHANGED <<turn, child, waiting_count, startup_failures, current, doomed,
                 kills, exited, clockVars>>
-----------------------------------------------------------------------------
(* restart_after_delay(), called once the guard of the request is gone.    *)

\* Lock, take whatever is in the slot by now, unlock.
TakeWorker(t) ==
  /\ At(t, "take") /\ MutexFree
  /\ child' = [child EXCEPT ![t] = slot]
  /\ slot' = None
  /\ op' = [op EXCEPT ![t] = "restart"]
  /\ Goto(t, "clear")
  /\ UNCHANGED <<turn, lock, stateVars, doomed, kills, exited, procVars,
                 clockVars>>

\* Without the lock: forget the pid, hand the old process to a cleanup thread.
ClearPid(t) ==
  /\ At(t, "clear")
  /\ pid' = None
  /\ CleanupWorker(child[t])
  /\ child' = [child EXCEPT ![t] = None]
  /\ Goto(t, "sleep")
  /\ UNCHANGED <<op, turn, mutexVars, waiting_count, startup_failures, current,
                 kills, exited, procVars, clockVars>>

\* After the sleep, lock again; start a worker unless another thread has.
Relock(t) ==
  /\ At(t, "sleep") /\ MutexFree
  /\ IF slot # None
     THEN /\ Goto(t, "idle") /\ op' = [op EXCEPT ![t] = "request"]
          /\ UNCHANGED lock
     ELSE Goto(t, "spawn") /\ lock' = t /\ UNCHANGED op
  /\ UNCHANGED <<turn, slot, child, stateVars, doomed, kills, exited, procVars,
                 clockVars>>
-----------------------------------------------------------------------------
(* Detached threads, the worker processes, and time.                       *)

\* A cleanup_worker thread: kill and wait.
Cleanup(w) ==
  /\ w \in doomed /\ ~exited
  /\ doomed' = doomed \ {w}
  /\ Reaped(w)
  /\ UNCHANGED <<threadVars, mutexVars, child, stateVars, kills, exited,
                 clockVars>>

\* A killer thread: SIGKILL to whichever process has that pid now.
Kill(w) ==
  /\ w \in kills /\ ~exited
  /\ kills' = kills \ {w}
  /\ proc' = [proc EXCEPT ![w] = IF @ = "alive" THEN "exited" ELSE @]
  /\ UNCHANGED <<threadVars, mutexVars, child, stateVars, doomed, exited, req,
                 resp, clockVars>>

\* The worker's IPC loop takes a frame and answers it: properly, asking for a
\* restart (a failed decrypt), or with a frame that cannot be accepted.
WorkerAnswers(w) ==
  /\ proc[w] = "alive" /\ ~exited
  /\ req[w] # <<>>
  /\ \E k \in {"ok", "restart", "bad"} :
       resp' = [resp EXCEPT ![w] = Append(@, [id |-> Head(req[w]), kind |-> k])]
  /\ req' = [req EXCEPT ![w] = Tail(@)]
  /\ UNCHANGED <<threadVars, mutexVars, child, stateVars, doomed, kills, exited,
                 proc, clockVars>>

\* The worker crashes or is killed by the platform.
WorkerDies(w) ==
  /\ proc[w] = "alive" /\ ~exited
  /\ proc' = [proc EXCEPT ![w] = "exited"]
  /\ UNCHANGED <<threadVars, mutexVars, child, stateVars, doomed, kills, exited,
                 req, resp, clockVars>>

Older(age, limit) == IF age < limit THEN age + 1 ELSE age

\* request() is running on its own clock at these locations.
OnTheClock(t) ==
  /\ op[t] \in {"request", "again"}
  /\ pc[t] \in {"admitted", "waiting", "tracking", "check", "spawn", "probe",
                "write", "read"}

Tick ==
  /\ ~exited
  /\ reqAge' = [t \in Threads |-> IF OnTheClock(t)
                                  THEN Older(reqAge[t], RequestTimeout)
                                  ELSE reqAge[t]]
  /\ waitAge' = [t \in Threads |-> IF pc[t] = "waiting"
                                   THEN Older(waitAge[t], BusyTimeout)
                                   ELSE waitAge[t]]
  /\ curAge' = IF current # None THEN Older(curAge, RequestTimeout) ELSE curAge
  /\ probeAge' = IF \E t \in Threads : pc[t] = "probe"
                 THEN Older(probeAge, StartupTimeout) ELSE probeAge
  /\ UNCHANGED <<threadVars, mutexVars, child, stateVars, doomed, kills, exited,
                 procVars>>

\* The process is gone; the platform restarts the container.
Stopped == exited /\ UNCHANGED vars

\* What thread t can do next inside a call, once it has entered one.
Request(t) ==
  \/ TrackWait(t) \/ AcquireWorker(t) \/ BusyTimedOut(t) \/ StuckTest(t)
  \/ SwapPid(t) \/ GiveUp(t) \/ TrackRequest(t) \/ CheckWorker(t)
  \/ WriteFrame(t) \/ ExchangeFails(t) \/ ReadMismatch(t) \/ ReadAnswer(t)
  \/ Release(t)
Start(t) ==
  \/ EnsureStarted(t) \/ Spawn(t) \/ SpawnFails(t) \/ ProbeAnswered(t)
  \/ ProbeFails(t)
Restart(t) == TakeWorker(t) \/ ClearPid(t) \/ Relock(t)

Next ==
  \/ \E t \in Callers : EnterRequest(t)
  \/ \E t \in Threads : Request(t) \/ Start(t) \/ Restart(t)
  \/ \E w \in Pids : Cleanup(w) \/ Kill(w) \/ WorkerAnswers(w) \/ WorkerDies(w)
  \/ Tick
  \/ Stopped

Spec == Init /\ [][Next]_vars

(* Threads keep running, time passes, and detached threads get to run.     *)
(* Weak fairness promises nothing to a thread blocked in Mutex::lock: the  *)
(* lock is taken and free again and again, and std's mutex may be barged.  *)
(* No worker is obliged to answer, no fork to fail.                        *)
Fairness ==
  /\ WF_vars(Tick)
  /\ \A t \in Threads :
       /\ WF_vars(Request(t))
       /\ WF_vars(EnsureStarted(t) \/ Spawn(t) \/ ProbeAnswered(t) \/ ProbeFails(t))
       /\ WF_vars(Restart(t))
  /\ \A w \in Pids : WF_vars(Cleanup(w)) /\ WF_vars(Kill(w))

FairSpec == Spec /\ Fairness
-----------------------------------------------------------------------------
(* Correctness.                                                            *)

\* Every variable has its type.
TypeOK ==
  /\ pc \in [Threads -> Locations]
  /\ op \in [Threads -> {"ensure", "request", "again", "restart"}]
  /\ turn \in [Threads -> {0, 1}]
  /\ lock \in Threads \cup {None}
  /\ slot \in Pids \cup {None}
  /\ child \in [Threads -> Pids \cup {None}]
  /\ pid \in Pids \cup {None}
  /\ waiting_count \in Nat
  /\ startup_failures \in Nat
  /\ current \in Threads \cup {None}
  /\ doomed \in SUBSET Pids
  /\ kills \in SUBSET Pids
  /\ exited \in BOOLEAN
  /\ proc \in [Pids -> {"free", "alive", "exited"}]
  /\ req \in [Pids -> Seq(Ids)]
  /\ resp \in [Pids -> Seq(Answers)]
  /\ reqAge \in [Threads -> 0..RequestTimeout]
  /\ waitAge \in [Threads -> 0..BusyTimeout]
  /\ curAge \in 0..RequestTimeout
  /\ probeAge \in 0..StartupTimeout

\* waiting_count, which decides admission and is shown by /health, counts the
\* threads that queue or are on their way out of a failed wait: no path
\* through request() leaks or double-drops a WaitTracker.
Waiters == {t \in Threads : pc[t] \in {"waiting", "recover", "swap", "giveup"}}
WaitersCounted == waiting_count = Cardinality(Waiters)

Exchanging == {"check", "spawn", "probe", "write", "read", "release"}
Holding    == Exchanging \cup {"tracking"}

\* The mutex is held exactly by the one thread between lock and unlock, and
\* WorkerState.current names that thread exactly while its RequestTracker
\* lives: recover_stuck_worker_or_exit never sees the request of a thread
\* that has given the worker up.
RequestTracked ==
  \A t \in Threads :
    /\ lock = t <=> pc[t] \in Holding
    /\ current = t <=> op[t] \in {"request", "again"} /\ pc[t] \in Exchanging

\* Both trackers, whose destructors end them on every path, tell the truth of
\* the threads (worker.rs:448-462, :532-546).
TrackersExact == WaitersCounted /\ RequestTracked

\* No worker process leaks or has two owners: one that is running or unreaped
\* is in the slot, or in the hands of one thread that probes or discards it,
\* or with its cleanup thread; and what a thread no longer owns is not used.
WorkerOwned ==
  /\ \A w \in Pids : proc[w] # "free" <=>
       \/ w = slot
       \/ w \in doomed
       \/ \E t \in Threads : child[t] = w
  /\ slot \notin doomed
  /\ \A t \in Threads : child[t] # None =>
       /\ pc[t] \in {"probe", "clear"}
       /\ child[t] # slot /\ child[t] \notin doomed
       /\ \A u \in Threads \ {t} : child[u] # child[t]

\* Pipes in step: outside an exchange the pipes of the worker in the slot are
\* empty, within one they hold the holder's own request or the answer to it.
\* A late answer to an abandoned request is never read by the next request.
InStep(w, id) ==
  \/ req[w] = <<id>> /\ resp[w] = <<>>
  \/ req[w] = <<>> /\ Len(resp[w]) = 1 /\ resp[w][1].id = id
Drained(w) == req[w] = <<>> /\ resp[w] = <<>>
PipesInStep ==
  /\ slot # None =>
       IF lock # None /\ pc[lock] = "read"
       THEN InStep(slot, Id(lock))
       ELSE Drained(slot)
  /\ \A t \in Threads : pc[t] = "probe" /\ ~exited => InStep(child[t], ProbeId)

\* A thread in the middle of an exchange keeps its worker: the slot changes
\* under it only by its own abandon_locked_worker, never by another thread's
\* restart_after_delay.
ExchangeUndisturbed ==
  [][\A t \in Threads :
       pc[t] \in {"write", "read"} /\ slot' # slot => pc'[t] = "release"]_vars

\* Every request that is admitted returns, whatever the worker does, unless
\* the supervisor exits first: no lock is held for ever, no wait is unbounded.
RequestReturns ==
  \A t \in Callers : pc[t] = "admitted" ~> (pc[t] \in {"idle", "take"} \/ exited)

\* A worker that dies in the hands of a request, wherever that request is
\* between lock and unlock, and one that restart_after_delay has taken out, is
\* waited for in the end though no other request ever comes: found by try_wait,
\* or abandoned on the error path and then cleaned up (worker.rs:489, :532-546,
\* :667).
Lost(w) ==
  \/ w = slot /\ lock # None /\ proc[w] = "exited"
  \/ \E t \in Threads : child[t] = w /\ pc[t] = "clear"
LostReaped == \A w \in Pids : Lost(w) ~> (proc[w] = "free" \/ exited)

\* A request that has failed with the worker in its hands is on its way out.
Failed == \E t \in Threads : pc[t] = "release"

\* The threads and the mutex implement the service their callers rely on.
Service == INSTANCE WorkerService WITH
  queue  <- {t \in Callers : pc[t] \in {"admitted", "waiting", "recover", "swap",
                                       "giveup"}},
  server <- lock,
  ready  <- slot # None,
  failed <- Failed,
  halted <- exited

\* Requests are served one at a time by a worker that has answered a probe;
\* one that fails costs its worker, and no worker is taken from a request.
ServiceImplemented == Service!Spec
-----------------------------------------------------------------------------
(* What docs, comments and tests say, and the code does not do.            *)

\* worker.rs:585, .env.example:47: at most max_waiters requests queue.
WaitersBounded == waiting_count <= MaxWaiters

\* .env.example:37: a new worker has startup_timeout to answer its probe
\* before it is killed.  (One whose own request has meanwhile outlived its
\* request_timeout may be killed with it.)
ProbeGetsItsTime ==
  [][\A w \in kills, t \in Threads :
       /\ w \notin kills' /\ child[t] = w /\ pc[t] = "probe" /\ proc[w] = "alive"
       /\ curAge < RequestTimeout
       => probeAge >= StartupTimeout]_vars
=============================================================================
