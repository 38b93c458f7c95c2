------------------------------- MODULE Decrypt -------------------------------
(***************************************************************************)
(* decrypt_samples() of src/daemon/apple/decrypt.cpp: the FIFO-bounded     *)
(* cache of key contexts and the thread pool that decrypts the samples of  *)
(* a batch.                                                                *)
(*                                                                         *)
(* One thread, the IPC thread of ipc.cpp, accepts batches; main is where   *)
(* it is.  It alone touches the cache.  The samples of a batch are dealt   *)
(* out in stripes: task t takes t, t + Stride, t + 2 * Stride...  A task   *)
(* is known by its next sample.  It works on locals of decrypt_once(),     *)
(* which are gone when the IPC thread has left run_all().                  *)
(*                                                                         *)
(* One action is one critical section of the pool's mutex or one access    *)
(* outside it.  A thread "asleep" is blocked in a condition variable;      *)
(* "ready" and "wait" are about to test its predicate.                     *)
(***************************************************************************)
EXTENDS Integers, Sequences, FiniteSets

CONSTANTS
  Workers,      \* threads of the pool
  Tracks,       \* pairs of adam_id and key URI
  Prefetch,     \* those with adam_id "0"
  MaxEntries,   \* kKdCacheMaxEntries
  MaxSamples,   \* bound: the largest batch the model looks at
  None, NoPrefetch, NoKey   \* no error; no context to decrypt with

ASSUME DecryptAssumption ==
  /\ IsFiniteSet(Workers) /\ Workers # {}
  /\ Tracks # {} /\ Prefetch \subseteq Tracks
  /\ MaxEntries \in Nat \ {0}
  /\ MaxSamples \in Nat \ {0}
  /\ {None, NoPrefetch, NoKey} \cap Nat = {}
  /\ None \notin {NoPrefetch, NoKey} /\ NoPrefetch # NoKey

VARIABLES
  main,        \* the IPC thread
  track,       \* the current or last batch: its track,
  chunks,      \* its number of samples,
  plaintexts,  \* what has become of them,
  error,       \* and its first error: a sample, or why there is no context
  outcome,     \* how the last batch ended
  cache,       \* tracks with an entry in g_kd_cache
  order,       \* g_kd_cache_order
  at,          \* the pool's threads; "off" is no thread
  task,        \* the next sample of the task each runs
  queue,       \* tasks not taken yet
  active,      \* tasks running
  stop

batchVars == <<track, chunks, plaintexts, error, outcome>>
cacheVars == <<cache, order>>
poolVars  == <<at, task, queue, active>>
vars == <<main, batchVars, cacheVars, poolVars, stop>>

Samples == 0 .. MaxSamples - 1

\* num_threads, which tasks capture by reference.
Stride == IF Cardinality(Workers) > chunks THEN chunks
                                           ELSE Cardinality(Workers)

Init ==
  /\ main = "idle"
  /\ track \in Tracks /\ chunks = 0 /\ plaintexts = <<>>
  /\ error = None /\ outcome = "ok"
  /\ cache = {} /\ order = <<>>
  /\ at = [w \in Workers |-> "off"]
  /\ task = [w \in Workers |-> 0]
  /\ queue = <<>> /\ active = 0 /\ stop = FALSE

----------------------------------------------------------------------------
(* The cache. *)

\* s without its first x: std::find and erase.
Without(s, x) ==
  LET p == CHOOSE i \in DOMAIN s :
             s[i] = x /\ \A j \in DOMAIN s : j < i => s[j] # x
  IN  [i \in 1 .. Len(s) - 1 |-> IF i < p THEN s[i] ELSE s[i + 1]]

\* store_cached_kd() of a track that has no entry.  Entries are stored one by
\* one, so the loop that evicts runs at most once.
Store(t) ==
  IF t \in Prefetch THEN cache' = cache \cup {t} /\ UNCHANGED order
  ELSE IF Len(order) < MaxEntries
  THEN cache' = cache \cup {t} /\ order' = Append(order, t)
  ELSE /\ cache' = (cache \cup {t}) \ {Head(order)}
       /\ order' = Tail(Append(order, t))

\* erase_cached_kd()
KeepOrder(t) == cache' = cache \ {t} /\ UNCHANGED order
Erase(t) ==
  /\ cache' = cache \ {t}
  /\ order' = IF t \in cache /\ \E i \in DOMAIN order : order[i] = t
              THEN Without(order, t) ELSE order

----------------------------------------------------------------------------
(* The IPC thread. *)

\* The payload parser refuses empty batches and empty samples.
Receive ==
  /\ main = "idle" /\ main' = "lookup"
  /\ track' \in Tracks
  /\ chunks' \in 1 .. MaxSamples
  /\ plaintexts' = <<>> /\ error' = None
  /\ UNCHANGED <<outcome, cacheVars, poolVars, stop>>

UseCached ==
  /\ main = "lookup" /\ track \in cache
  /\ main' = "pool"
  /\ UNCHANGED <<batchVars, cacheVars, poolVars, stop>>

RefusePrefetch ==
  /\ main = "lookup" /\ track \notin cache /\ track \in Prefetch
  /\ main' = "failed" /\ error' = NoPrefetch
  /\ UNCHANGED <<track, chunks, plaintexts, outcome, cacheVars, poolVars, stop>>

Derivable == main = "lookup" /\ track \notin cache /\ track \notin Prefetch

DeriveFails ==
  /\ Derivable
  /\ main' = "failed" /\ error' = NoKey
  /\ UNCHANGED <<track, chunks, plaintexts, outcome, cacheVars, poolVars, stop>>

Derive ==
  /\ Derivable
  /\ main' = "pool"
  /\ Store(track)
  /\ UNCHANGED <<batchVars, poolVars, stop>>

\* get_thread_pool() starts the threads when it is first called.
GetPool ==
  /\ main = "pool" /\ main' = "submit"
  /\ plaintexts' = [i \in 0 .. chunks - 1 |-> "cipher"]
  /\ at' = [w \in Workers |-> IF at[w] = "off" THEN "ready" ELSE at[w]]
  /\ UNCHANGED <<track, chunks, error, outcome, cacheVars, task, queue, active,
                 stop>>

Submit ==
  /\ main = "submit" /\ main' = "notify"
  /\ queue' = queue \o [t \in 1 .. Stride |-> t - 1]
  /\ UNCHANGED <<batchVars, cacheVars, at, task, active, stop>>

\* cv.notify_all()
WakeNobody == at' = at
WakeWorkers == at' = [w \in Workers |-> IF at[w] = "asleep" THEN "ready"
                                                            ELSE at[w]]

NotifyWorkers ==
  /\ main = "notify" /\ main' = "wait"
  /\ WakeWorkers
  /\ UNCHANGED <<batchVars, cacheVars, task, queue, active, stop>>

QueueEmpty == queue = <<>>
NobodyActive == active = 0
BatchDone == queue = <<>> /\ active = 0

\* done_cv.wait()
Wait ==
  /\ main = "wait"
  /\ main' = IF BatchDone THEN "collect" ELSE "asleep"
  /\ UNCHANGED <<batchVars, cacheVars, poolVars, stop>>

CollectOk ==
  /\ main = "collect" /\ error = None
  /\ main' = "idle" /\ outcome' = "ok"
  /\ UNCHANGED <<track, chunks, plaintexts, error, cacheVars, poolVars, stop>>

CollectError ==
  /\ main = "collect" /\ error # None
  /\ main' = "failed"
  /\ UNCHANGED <<batchVars, cacheVars, poolVars, stop>>

AnswerFailed ==
  /\ main = "failed" /\ main' = "idle"
  /\ outcome' = "failed" /\ plaintexts' = <<>>
  /\ Erase(track)
  /\ UNCHANGED <<track, chunks, error, poolVars, stop>>

\* The input is closed, or there was an OpShutdown: the static pool is destroyed.
Shutdown ==
  /\ main = "idle" /\ main' = "stopping"
  /\ stop' = TRUE
  /\ UNCHANGED <<batchVars, cacheVars, poolVars>>

NotifyStop ==
  /\ main = "stopping" /\ main' = "join"
  /\ WakeWorkers
  /\ UNCHANGED <<batchVars, cacheVars, task, queue, active, stop>>

Join ==
  /\ main = "join" /\ \A w \in Workers : at[w] = "off"
  /\ main' = "gone"
  /\ UNCHANGED <<batchVars, cacheVars, poolVars, stop>>

Main == \/ UseCached \/ RefusePrefetch \/ DeriveFails \/ Derive
        \/ GetPool \/ Submit \/ NotifyWorkers \/ Wait
        \/ CollectOk \/ CollectError \/ AnswerFailed
        \/ NotifyStop \/ Join

----------------------------------------------------------------------------
(* A thread of the pool. *)

Go(w, from, to) == at[w] = from /\ at' = [at EXCEPT ![w] = to]

Uncounted == active' = active
CountTask == active' = active + 1

Take(w) ==
  /\ queue # <<>>
  /\ Go(w, "ready", "test")
  /\ task' = [task EXCEPT ![w] = Head(queue)]
  /\ queue' = Tail(queue)
  /\ CountTask
  /\ UNCHANGED <<main, batchVars, cacheVars, stop>>

Doze(w) ==
  /\ queue = <<>> /\ ~stop
  /\ Go(w, "ready", "asleep")
  /\ UNCHANGED <<main, batchVars, cacheVars, task, queue, active, stop>>

Leave(w) ==
  /\ queue = <<>> /\ stop
  /\ Go(w, "ready", "off")
  /\ UNCHANGED <<main, batchVars, cacheVars, task, queue, active, stop>>

\* The head of the loop over the stripe, and the test of error_occurred.
Test(w) ==
  /\ Go(w, "test", IF task[w] < chunks /\ error = None THEN "decrypt"
                                                       ELSE "retire")
  /\ UNCHANGED <<main, batchVars, cacheVars, task, queue, active, stop>>

\* A task's next sample is in its own stripe.
NextIndex(i) == i + 1
NextInStripe(i) == i + Stride

\* The ciphertext is copied and decrypted in place, whatever the others do.
DecryptSample(w) ==
  /\ Go(w, "decrypt", "test")
  /\ plaintexts' = [plaintexts EXCEPT ![task[w]] = "plain"]
  /\ task' = [task EXCEPT ![w] = NextInStripe(@)]
  /\ UNCHANGED <<main, track, chunks, error, outcome, cacheVars, queue, active,
                 stop>>

SampleFails(w) ==
  /\ Go(w, "decrypt", "report")
  /\ plaintexts' = [plaintexts EXCEPT ![task[w]] = "broken"]
  /\ UNCHANGED <<main, track, chunks, error, outcome, cacheVars, task, queue,
                 active, stop>>

\* Under error_mutex: only the first error is kept.
KeepNone(i) == error' = error
KeepFirst(i) == error' = IF error = None THEN i ELSE error

ReportError(w) ==
  /\ Go(w, "report", "retire")
  /\ KeepFirst(task[w])
  /\ UNCHANGED <<main, track, chunks, plaintexts, outcome, cacheVars, task,
                 queue, active, stop>>

Retire(w) ==
  /\ Go(w, "retire", "notify")
  /\ active' = active - 1
  /\ UNCHANGED <<main, batchVars, cacheVars, task, queue, stop>>

\* done_cv.notify_all()
LetMainSleep == main' = main
WakeMain == main' = IF main = "asleep" THEN "wait" ELSE main

NotifyDone(w) ==
  /\ Go(w, "notify", "ready")
  /\ WakeMain
  /\ UNCHANGED <<batchVars, cacheVars, task, queue, active, stop>>

Worker(w) == \/ Take(w) \/ Doze(w) \/ Leave(w) \/ Test(w)
             \/ DecryptSample(w) \/ SampleFails(w) \/ ReportError(w)
             \/ Retire(w) \/ NotifyDone(w)

\* A condition variable may wake up for no reason.
SpuriousWakeup ==
  \/ /\ main = "asleep" /\ main' = "wait"
     /\ UNCHANGED <<batchVars, cacheVars, poolVars, stop>>
  \/ /\ \E w \in Workers : Go(w, "asleep", "ready")
     /\ UNCHANGED <<main, batchVars, cacheVars, task, queue, active, stop>>

Gone == main = "gone" /\ UNCHANGED vars

Next == \/ Receive \/ Shutdown \/ Main
        \/ \E w \in Workers : Worker(w)
        \/ SpuriousWakeup \/ Gone

Spec == Init /\ [][Next]_vars

\* The threads are scheduled, and Apple's decryption returns.
FairSpec == Spec /\ WF_vars(Main) /\ \A w \in Workers : WF_vars(Worker(w))
----------------------------------------------------------------------------
(* Properties *)

MainPlaces == {"idle", "lookup", "pool", "submit", "notify", "wait", "asleep",
               "collect", "failed", "stopping", "join", "gone"}
Running == {"test", "decrypt", "report", "retire"}
InRunAll == {"notify", "wait", "asleep"}
OnLocals == {w \in Workers : at[w] \in {"test", "decrypt", "report"}}

\* Types.
TypeOK ==
  /\ main \in MainPlaces
  /\ track \in Tracks
  /\ chunks \in 0 .. MaxSamples
  /\ plaintexts \in [DOMAIN plaintexts -> {"cipher", "plain", "broken"}]
  /\ DOMAIN plaintexts \in {0 .. chunks - 1, {}}
  /\ error \in Samples \cup {None, NoPrefetch, NoKey}
  /\ outcome \in {"ok", "failed"}
  /\ cache \subseteq Tracks
  /\ order \in Seq(Tracks)
  /\ at \in [Workers -> {"off", "ready", "asleep", "notify"} \cup Running]
  /\ task \in [Workers -> Nat]
  /\ queue \in Seq(Samples)
  /\ active \in Nat
  /\ stop \in BOOLEAN

\* When run_all() has returned no task is left, queued or running: a task works
\* on chunks, error_mutex and num_threads on the stack of decrypt_once().
BarrierHolds ==
  queue # <<>> \/ OnLocals # {} => main \in InRunAll

\* No sample is handed to Apple twice, at the same time or one after the other:
\* the buffer that a task decrypts in place holds nobody's output yet, and is no
\* other task's (decrypt.cpp:274-300).
DecryptedOnce ==
  /\ \A w \in Workers : at[w] = "decrypt" => plaintexts[task[w]] = "cipher"
  /\ \A v, w \in Workers :
       at[v] = "decrypt" /\ at[w] = "decrypt" /\ v # w => task[v] # task[w]

\* No wakeup falls between a test and a sleep (decrypt.cpp:55-96): while the IPC
\* thread waits, no thread of the pool sleeps or is gone with a task in the
\* queue; it sleeps itself only before the last thread's notification; and when
\* it joins the threads all of them have been woken to see stop.
NoLostWakeup ==
  /\ main \in {"wait", "asleep"} /\ queue # <<>> =>
       \A w \in Workers : at[w] \notin {"asleep", "off"}
  /\ main = "asleep" /\ queue = <<>> /\ active = 0 =>
       \E w \in Workers : at[w] = "notify"
  /\ main = "join" => \A w \in Workers : at[w] # "asleep"

\* A batch is answered OK only with every sample of it decrypted: a failure in
\* any task is seen by the IPC thread, and no sample falls between two stripes.
BatchComplete ==
  main = "idle" /\ outcome = "ok" =>
    plaintexts = [i \in 0 .. chunks - 1 |-> "plain"]

\* The FIFO and the cache have the same tracks, each once, the prefetch entry
\* apart, and there are at most kKdCacheMaxEntries of them, however stores,
\* evictions and failed batches follow each other.
CacheInStep ==
  /\ cache \ Prefetch = {order[i] : i \in DOMAIN order}
  /\ \A i, j \in DOMAIN order : order[i] = order[j] => i = j
  /\ Len(order) <= MaxEntries

\* Nobody waits for ever, no wakeup being lost between the pool's two condition
\* variables: run_all() returns, and so does decrypt_samples(); and the worker
\* process can exit, as the pool's threads see stop and are joined.
ReturnsAndJoins ==
  /\ main = "lookup" ~> main = "idle"
  /\ main = "stopping" ~> main = "gone"

\* A batch is being served, and its samples that are not decrypted yet.
Serving == main \notin {"idle", "stopping", "join", "gone"}
Left == IF ~Serving THEN {}
        ELSE IF plaintexts = <<>> THEN 0 .. chunks - 1
        ELSE {i \in 0 .. chunks - 1 : plaintexts[i] # "plain"}

Service == INSTANCE DecryptService
             WITH serving <- Serving, known <- cache, left <- Left

\* The cache and the pool keep the promise of decrypt_samples(): a batch is
\* decrypted with its own track's context while it is served, completely or not at
\* all, and the context with which one failed is forgotten.
ServiceImplemented == Service!Spec
=============================================================================
