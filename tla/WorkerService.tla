---------------------------- MODULE WorkerService ----------------------------
(***************************************************************************)
(* What the supervisor of src/rust/worker.rs promises its callers, without *)
(* saying how: one worker, used by one thread at a time.  A caller queues, *)
(* is served alone, and is done in one of two ways: with an answer, and    *)
(* the worker stays ready for the next one; or with a failure, and that    *)
(* worker is gone.  A worker that failed an exchange serves nobody again.  *)
(***************************************************************************)
EXTENDS FiniteSets

CONSTANTS Callers,   \* threads that make requests
          Main,      \* the thread that starts the first worker
          None       \* nobody

VARIABLES queue,     \* callers waiting to be served
          server,    \* the thread that has the worker to itself, or None
          ready,     \* a worker is there that has answered its probe
          failed,    \* the caller being served has had its exchange fail
          halted     \* the supervisor has exited

vars == <<queue, server, ready, failed, halted>>

Init ==
  /\ queue = {} /\ server = None
  /\ ready = FALSE /\ failed = FALSE /\ halted = FALSE

\* A caller asks; it may be turned away at any time before it is served.
Ask(c) ==
  /\ c \notin queue /\ server # c /\ ~halted
  /\ queue' = queue \cup {c}
  /\ UNCHANGED <<server, ready, failed, halted>>

TurnAway(c) ==
  /\ c \in queue /\ ~halted
  /\ queue' = queue \ {c}
  /\ UNCHANGED <<server, ready, failed, halted>>

\* Service is exclusive.
Begin(c) ==
  /\ c \in queue /\ server = None /\ ~halted
  /\ server' = c /\ queue' = queue \ {c}
  /\ UNCHANGED <<ready, failed, halted>>

\* Service ends with an answer from a worker that stays ready ...
Answer(c) ==
  /\ server = c /\ ready /\ ~failed /\ ~halted
  /\ server' = None
  /\ UNCHANGED <<queue, ready, failed, halted>>

\* ... or with a failure that has cost the worker.
Fail(c) ==
  /\ server = c /\ ~ready /\ failed /\ ~halted
  /\ server' = None /\ failed' = FALSE
  /\ UNCHANGED <<queue, ready, halted>>

\* The thread being served gives its worker up, or finds it dead and goes on.
Lose(t) ==
  /\ server = t /\ ready /\ ~halted
  /\ ready' = FALSE /\ failed' \in BOOLEAN
  /\ UNCHANGED <<queue, server, halted>>

\* A thread that needs no answer may still have a worker started ...
Prepare(t) ==
  /\ server = None /\ ~ready /\ t \notin queue /\ ~halted
  /\ server' = t
  /\ UNCHANGED <<queue, ready, failed, halted>>

\* ... and a new worker is ready before it serves, or the supervisor halts.
Start(t) ==
  /\ server = t /\ ~ready /\ ~failed /\ ~halted
  /\ ready' = TRUE /\ server' \in {t, None}
  /\ UNCHANGED <<queue, failed, halted>>

Halt ==
  /\ server # None /\ ~ready /\ ~failed
  /\ halted' = TRUE
  /\ UNCHANGED <<queue, server, ready, failed>>

\* A worker may be withdrawn, but never from under the thread it serves.
Withdraw ==
  /\ server = None /\ ready /\ ~halted
  /\ ready' = FALSE
  /\ UNCHANGED <<queue, server, failed, halted>>

Next ==
  \/ \E c \in Callers : Ask(c) \/ TurnAway(c) \/ Begin(c) \/ Answer(c) \/ Fail(c)
  \/ \E t \in Callers \cup {Main} : Lose(t) \/ Prepare(t) \/ Start(t)
  \/ Withdraw \/ Halt

Spec == Init /\ [][Next]_vars
=============================================================================
