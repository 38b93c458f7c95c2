# A TLA+ development of the wrapper

The wrapper lets HTTP and TCP clients use Apple's Android music libraries. A
Rust supervisor (`src/src/rust/`) accepts the clients and owns one C++ worker
process (`src/src/daemon/`), which loads the libraries. The two talk over the
worker's stdin and stdout, one frame each way per request.

This directory models the parts of the program whose correctness depends on the
order in which threads, processes and timeouts act, checks them with TLC on small
instances and proves the main safety properties with TLAPS for all instances.

| module | what it is |
|---|---|
| `Supervisor` | `rust/worker.rs`: request threads, the worker mutex, spawn, probe, exchange, timeouts, recovery, restart |
| `WorkerService` | what the supervisor promises its callers; `Supervisor` implements it |
| `MCSupervisor` | small instances of `Supervisor` |
| `SupervisorProofs` | type correctness, three invariants, one action property and the refinement, for any number of callers and pids |
| `Account` | `daemon/apple/auth.cpp` with its callers in `ipc.cpp`, `main.cpp` and `runtime.cpp`: login, 2FA, restore, logout |
| `LoginService` | what the account promises its clients; `Account` implements it |
| `MCAccount` | small instances of `Account` |
| `AccountProofs` | type correctness, three invariants, two action properties and the refinement, for any number of attempts and logouts |
| `Decrypt` | `daemon/apple/decrypt.cpp`: the cache of key contexts and the thread pool that decrypts a batch |
| `DecryptService` | what `decrypt_samples()` promises its caller; `Decrypt` implements it |
| `MCDecrypt` | small instances of `Decrypt` |
| `DecryptProofs` | type correctness, seven invariants, one action property and the refinement, for any number of threads, samples, tracks and entries |
| `Daemon` | the worker process as a whole: `daemon/main.cpp`, `daemon/ipc.cpp`, and `loader.cpp`, `runtime.cpp` and `tokens.cpp` of `daemon/apple/`; extends `Playback` |
| `RequestService` | what a worker promises whoever sends it requests; `Daemon` implements it |
| `Playback` | `daemon/apple/playback.cpp`: the capture that Apple's preprocessors fill, as actions that `Daemon` puts into its IPC thread |
| `Codec` | the JSON scanner and the base64url decoder of `tokens.cpp`, the payloads of a decrypt batch on both sides of the pipe, as operators |
| `MCDaemon` | a small instance of `Daemon`, and the evaluation of `Codec` |
| `DaemonProofs` | type correctness, six invariants, one action property and the refinement, for any number of requests |
| `Neon` | `rust/neon_state.rs` and the start in `rust/main.rs`: restore, backup, crashes |
| `MCNeon` | small instances of `Neon` |
| `NeonProofs` | type correctness, one invariant and two action properties, for any number of files, writes, crashes and failures |
| `BatchPath` | a decrypt batch on its way through `rust/main.rs`, `rust/protocol.rs` and `daemon/ipc.cpp`: sizes, casts, sums and offsets |
| `MCBatchPath` | a small instance of `BatchPath` |
| `BatchPathProofs` | type correctness and three invariants, for integers, payloads and batches of any size |

The modules are composed by the worker's IPC loop. `Daemon` is the loop itself, beside the
init thread, with the actions of `Playback` between its own. `Supervisor` has the loop as
a process that answers, hangs or dies; `Account` and `Decrypt` have its thread as the one
that calls their handlers (`pc[Ipc]`, `main`), and in `Daemon` those handlers are a
refusal, or a wait and an answer. `BatchPath` follows one batch from the front to
the worker and back.

Paths below are relative to `src/src/`.

## Inventory

### Rust side

**Worker supervisor** (`rust/worker.rs`). State: `proc: Mutex<Option<WorkerProcess>>`,
the atomics `pid`, `waiting_count`, `startup_failures`, `next_id`, and
`state: Mutex<WorkerState>` with the current request and counters for `/health`.
Operations: `ensure_started`, `request` (admission, timed lock, spawn if needed,
write, read, match), `decrypt_batch` with `restart_after_delay`,
`recover_stuck_worker_or_exit`, the detached `cleanup_worker` and killer threads.
Hard: everything here runs in many threads at once with three different clocks
(10 s to get the mutex, 25 s for the request, 30 s for a new worker) and a
child that may hang, die or answer late. Correct when the counters and the tracker
tell the truth, no process leaks or is shared, no answer reaches the wrong
request, and every request returns.

**HTTP and TCP front** (`rust/main.rs`). A bounded queue (64) feeding 32 HTTP threads;
one thread per TCP decrypt client, which answers frames in order. State: the
queue, per-connection buffers. Calls the supervisor. Correct when a full queue
delays and does not lose, and answers keep the order of requests.

**Frame protocol** (`rust/protocol.rs` and the codec in `daemon/ipc.cpp`). Pure
functions with length fields. Correct when both sides agree and sizes are refused
before they are allocated.

**Neon backup** (`rust/neon_state.rs`). Restores the session directory from a
database at start, and backs it up every minute when `/me` says so. State: the
row, the directory, the last hash. Hard: the directory is live, a round may fail before or
after the row is written, and the process may end anywhere. Correct when no change is
taken for saved that is not, and no empty directory replaces a saved session (in one
case one does, see *saved_session_kept*).

### C++ side

**Daemon boot** (`daemon/main.cpp`). Starts the IPC loop at once and an init thread
that loads the libraries, initialises the runtime, signs in from the environment and
restores the session on disk. The two share loader and runtime without a lock. Hard: any
of Apple's calls may hang, one of them with the runtime's mutex held. Correct when health
and refusals keep coming, and nobody uses what is not there yet.

**IPC loop and handlers** (`daemon/ipc.cpp`). One request at a time; an exception
becomes a 500. The handlers of `/login`, `/login/2fa`, `/me`, `/playback` and
decrypt call into the components below. `/login` blocks the loop for up to 30 s and
`/login/2fa` for 60 s.

**Sign-in state machine** (`daemon/apple/auth.cpp`). State: `state_`, the credentials,
`aborted_`, `tokens_`, `loader_`/`runtime_`, `worker_`, all meant to be guarded by
`mu_`; `restore_mu_`, `restore_running_`. Actors: IPC thread, init thread, lazy
restore thread, one thread per attempt, which calls back from inside Apple's
libraries. Hard: `logout()` cannot stop a thread inside Apple's libraries, and
forgets about it; restores and logins compete; the state is the only thing that
keeps them apart. Correct when at most one of them is inside, each attempt uses its
own password and a code once, and the reported state is consistent.

**Runtime** (`daemon/apple/runtime.cpp`). One-time initialisation under `mu_`, published
by `initialized_`; the playback lease; accessors that take `mu_`; the dialog handler, and
the credential handler, which asks `Account` for the password or a code.

**Decrypt** (`daemon/apple/decrypt.cpp`). State: a map of key contexts by track with a
FIFO that bounds it, and a thread pool: queue, `active`, `stop`, two condition
variables. One operation, `decrypt_samples()`, called by the IPC thread. Hard: the
tasks work on references to locals of their caller; the mutex is released between a
change and its notification; several tasks may fail at once. Correct when cache
and FIFO agree and stay bounded, the barrier ends exactly when the batch is done,
and a batch is decrypted completely or reported as failed.

**Playback** (`daemon/apple/playback.cpp`). A `thread_local` capture, which every
request's preprocessor fills with a dictionary it has retained. Hard: Apple keeps the
preprocessors for ever. Correct when each dictionary is released once and no answer is
made of an older request's.

**Tokens, loader, ABI** (`tokens.cpp`, `loader.cpp`, `abi.hpp`). Sequential calls into
Apple's libraries. Correct when messages outlive the references to them, the optional
FairPlay symbols are used all or not at all, and answers are cut and decoded right.

The hazards of all of these, each at its line, are in `PROJECT.json`.

## Supervisor

`pc[t]` says where a thread of the Rust side is in `request()`, `ensure_started()`
or `restart_after_delay()`, `op[t]` which of them it is in. A step is the code between
two accesses to shared state that another thread can tell apart. What the code
does under the mutex on the worker alone (write, wait, read) is several steps,
because the worker, the clock and the killer threads act between them.

| code | model |
|---|---|
| `proc` mutex, the `Option` in it | `lock` (its holder), `slot` (the pid in it) |
| a `WorkerProcess` in a local variable | `child[t]` |
| `pid`, `waiting_count`, `startup_failures` | the same |
| `WorkerState.current`, `current.started` | `current`, `curAge` |
| `cleanup_worker` and killer threads | pids in `doomed` and `kills` |
| processes and pipes | `proc`, `req`, `resp` |
| `next_id` | `turn`: ids of two threads differ, and two consecutive ids of one thread |
| `Instant` | `reqAge`, `waitAge`, `curAge`, `probeAge`: ticks since the clock was started, stopping at the limit |

A clock that has reached its limit lets the timeout happen at any later step,
never before: a tick is as long as the code needs it to be. `MutexFree` stands for
both `try_lock` polling and `lock()`. An id is its thread and a parity, because
what matters is whether an old answer can be taken for a new one, and each
thread has at most one frame in a pipe. A frame with a wrong kind or opcode, a frame
that does not parse and text printed on stdout are one answer kind, `"bad"`. A
dead worker that `try_wait` has reaped stays in the code's slot as a handle until it
is replaced; the model empties the slot at once, as nothing can be done with it.
After a first spawn for an empty slot `try_wait` is asked again, which may spawn a
second worker (`op = "again"`). POLLHUP drops what is still in a dead worker's
pipe, so a dead worker never answers.

Left out: the counters that only `/health` shows, error texts, stderr forwarding,
`try_wait` and `set_nonblocking` errors.

`WorkerService` is the promise: callers queue, one at a time is served by a
worker that has answered its probe, a served caller leaves either with an answer,
and the worker is still there, or with a failure, and that worker is gone; a worker
is never withdrawn from a caller being served.

### Runs

*supervisor* (two callers, the main thread, two pids, every limit 1 tick; symmetric
in callers and pids; about 3 million states): type invariant, `TrackersExact`,
`WorkerOwned`, `PipesInStep`, `ExchangeUndisturbed` and the
refinement `ServiceImplemented`. Two callers are the one being served and the
one that times out, recovers and takes over. Two pids allow a discarded and a new
worker at once, and the reuse of a pid by the system. One tick separates "in
time" from "late"; every code path compares a clock with its own limit only.

*supervisor_live* (one pid, no symmetry, fair; about 116 000 states): `RequestReturns` and
`LostReaped`. The latter is about a worker that dies in a request's hands or is taken out by
`restart_after_delay`: it is reaped though no other request comes, so nothing waits
for the next caller to clean up. One pid makes both harder: a new worker has to wait for
the reaping of the old one.

Two runs show what the documentation says and the code does not do:

- *waiters_bounded*: `max_waiters` can be exceeded, as the test and the increment are
  two steps (`rust/worker.rs:201` and `:208`).
- *probe_gets_its_time*: `recover_stuck_worker_or_exit` may kill a worker that was
  spawned after its test (`rust/worker.rs:500`). A waiter finds the current request stuck;
  that request gives up, the next one spawns a worker, and the waiter's late swap gets
  the pid of this worker, which is killed in its probe while its own request is still
  in time. The next request must be admitted while the waiter still counts, so
  `MaxWaiters` is 2 (the default is 32); every other limit is 1.

A third divergence is a single statement and needs no run: the first failed start exits the
supervisor (`rust/worker.rs:372`, `:385`). `note_startup_failure` is never called, so
`startup_failures` stays 0 and no number of attempts is counted, although the comment
at `rust/worker.rs:360` and `.env.example:52` speak of one.

### Fairness

`Tick` is weakly fair: time passes. Each thread is weakly fair in the steps of a
call it has entered: the system schedules it. Detached threads run. Nothing is
assumed of the worker, of clients or of a spawn failing. Weak fairness gives no
guarantee to a thread blocked on the mutex, and none is needed: a
request gives up on its own clock. `restart_after_delay` uses a plain `lock()`, and
so `RequestReturns` ends at `"take"`: the code gives it no bound.

### Proofs

`SupervisorProofs` proves, from `SupervisorAssumption` alone (a finite set of callers,
positive limits, distinct names), that each of the safety properties above holds in
every behaviour. None is inductive on its own. `IInv` adds

- `OpOK`: what a thread is doing at each location;
- `SlotOK`: when there must be a worker in the slot or in a thread's hands, e.g. that a
  thread between write and read has one;
- `FreeDrained`: a reaped process has empty pipes, so the next process with that pid
  starts in step.

They rest on each other: `PipesInStep` needs `WorkerOwned` (nobody else writes to the
worker in the slot), which needs `TrackersExact` (whoever changes the slot holds
the mutex), which needs `OpOK`. There is one lemma per conjunct and one step per
action. That `waiting_count` counts the queued
threads uses the library's facts on finite sets. The refinement
adds `BootOK` (nobody makes a request before `ensure_started` has returned) and maps
each step to a step of `WorkerService` or a stutter.

## Account

| code | model |
|---|---|
| IPC thread, init thread, lazy restore, attempts | `pc[Ipc]`, `pc[Boot]`, `pc[Lazy]`, `pc[f]` |
| `state_`, `aborted_`, `tokens_`, `last_error_` | `state`, `aborted`, `tokens`, `error` |
| `loader_` and `runtime_`, set and nulled together | `runtime` |
| `password_` | `password`: the attempt whose login brought it |
| `twofa_code_`, `twofa_submitted_` | `twofa_code`: none, fresh, or already given to Apple |
| `restore_mu_`, `restore_running_` | `RestoreLocked`, "the lazy thread lives" |
| `worker_.joinable()` | `joinable` |
| what the credential handler passes to Apple | `sent` (not state of the code: what an observer saw) |

One action is one critical section of `mu_` or one access outside it. `logout()` is
four: abort, the unlocked look at `worker_`, the detach, the clearing. The handlers
that do not change the account are `IpcNoEffect`. The waits for a settled state
(30 s and 60 s) and for a code (5 minutes) are untimed: they may end at any time.
Apple's calls take any time, ask for the password any number of times and for
codes any number of times, accept or fail. `apple_id_` is left out: the
properties do not depend on the name, and its unsynchronised read is listed as a
hazard. A new attempt may reuse the thread name of one that has ended.
`MaxLogouts` bounds the number of `DELETE /login`. The init thread's look at the state and
its `start_login()` are two steps (`BootLooks`, `BootLogin`), as a `POST /login` may be
served in between; it then ends that login, or the session it brought.

### Runs

*account* (two attempts, at most two logouts; about 690 000 states): seven
properties. Two attempts are a stranded one and its successor, or one from the
environment and one from HTTP. Two logouts strand two flows, which is where
`ReentryBounded` would fail if a logout could free two places.

- `ReentryBounded`: what may be in Apple's non-re-entrant libraries is one thread, and one
  more for each logout.
- `SnapshotConsistent`: state, tokens, error and secrets agree, and a code is asked for
  and accepted only when somebody is parked for it (`CodeFindsHandler`).
- `AttemptUndisturbed` (an attempt gives Apple its own password, and finds no null
  runtime), `SessionKept`: hold until the first logout. After one they do not: the
  stranded flow takes the password of the next login, a failing restore nulls the
  runtime under it, a late attempt ends a session.
- `CodeDelivered`: a code that `POST /login/2fa` has accepted leaves the account in one way
  only, until a logout begins: the attempt that asked for it takes it, with its own
  password. No restore, late attempt or second login clears it first.
- `ServiceImplemented`: the refinement.

`LoginService` is the account as clients see it: who is at work on it, who waits for a
code, what `GET /me` says, and whether there is a session. A login or a restore begins
only when nobody is signing in, and no two restores work at a time; the outcome that is
shown is always that of one that was at work. It says as plainly what is not promised: a
logout does not end who is at work, so after one a late attempt may still bring a session,
show a failure, or take the state back to `InProgress`; and the process may die while
a logout is served, or after one, but not before.

Two runs show divergences:

- *one_flow*: `daemon/apple/auth.hpp:11` promises one flow at a time; a logout and a
  new login make two.
- *code_used_once*: a second challenge in one flow is answered with the first
  code without waiting (`daemon/apple/auth.cpp:274`), though `README.md:57` announces
  `202` for it.

### Proofs

`AccountProofs` proves all safety properties from `AccountAssumption` (a finite set
of attempts, distinct names), for any number of logouts. The core is a counting
argument: `Live \cup Claims` grows only in `StartLogin` and `RestoreClaims`, which
need a state outside `Busy` and leave one inside, so the bound grows with it
(`Moves`, `InsideStep`, `ReentryStep`). With `logouts = 0` the bound is one, hence
the thread that is inside is alone (`Solo`, `Alone`), which gives the rest:
nobody can wipe its password, null its runtime or end its session. `IInv` adds
`OffUnsent` (an attempt that has not begun has sent nothing), `Undisturbed` (the
password and the runtime are the running attempt's own until the first logout) and
`CodeWaits` (until then an accepted code has somebody parked for it). `CodeDelivered`
needs the last two: whoever clears the code would have to be inside beside the
parked attempt. The
refinement adds `OneRestore` (`restore_mu_` has one holder), and has a lemma for each of
the handlers, the logins, the restores and the attempts.

## Decrypt

| code | model |
|---|---|
| where the IPC thread is in the handler, `decrypt_samples()`, `run_all()` and the pool's destructor | `main` |
| `adam_id` with `key_uri`; `chunks.size()` | `track`; `chunks` |
| `attempt.plaintexts` | `plaintexts`: per sample still cipher, plain, or broken by a failed call |
| `error_occurred` with `*error` | `error`: none, the sample that failed, or why there is no context |
| `g_kd_cache`, `g_kd_cache_order` | `cache` (its keys), `order` |
| the pool's `queue`, `active`, `stop` | the same |
| where a pool thread is; the index `i` of its task | `at[w]`; `task[w]` |
| waiting in `cv`, in `done_cv` | `at[w] = "asleep"`, `main = "asleep"` |

One action is one critical section of `mu`, or one access outside it. A wait is two
places: a thread that is about to test the predicate (`"ready"`, `"wait"`) and one that
sleeps; a notification moves only sleepers. The changes to the queue, to `active` and to
`stop` and the notifications that follow them are separate actions, because the code has
released the mutex in between. `error_occurred` is read without a lock, so `Test` and
`ReportError` are separate too. A task is known by its next sample: the first is its
number `t`, and it goes on by `Stride` (`num_threads`).

The cache has a mutex of its own, but only the IPC thread calls its functions, so
each is one step. `handle_decrypt_batch` comes before `Receive`, with the checks that
answer 400, 401 or 503 and change nothing here; its parser refuses empty batches
and empty samples, so the tests for those in `decrypt_samples()` never hold. Empty
ids are refused likewise. `loader.ok()` and `playback_ready()` do not go back.
Apple's derivation may fail at any of its four checks (`DeriveFails`), and each sample
may fail. The loop that evicts runs at most once, since entries are stored one
by one. The pool is started by the first batch that gets that far.

Abstracted: the values of the pointers (a context is known for a track or it is not),
error texts, and allocations that fail. `Shutdown` stands for the two exits in the
IPC thread, a closed pipe and `OpShutdown`, which both run the destructor of the
static pool between two batches. The third, `std::exit` in the handler of SIGTERM
and SIGINT (`daemon/main.cpp:80`), runs it in an interrupted thread; it is not
modelled, and listed as a hazard.

`DecryptService` is the promise: a batch is served, its samples are decrypted
one by one while it is and only with a context known for its track; it succeeds only
when none is left, and when it fails its track's context is forgotten.

### Runs

*decrypt* (two threads, three regular tracks and a prefetch one, a cache of two, up to
three samples; about 480 000 states, fair). Two threads and up to three samples give
a batch smaller than the pool, one that fits and one with stripes of different
lengths; two tasks can fail together, or one while the other goes on. Three regular
tracks and a cache of two give evictions, an erase from the front and from the back
of the FIFO, and a track that comes back. A batch can follow a batch while threads
of the pool are still on their way back to their wait.

- `BarrierHolds`: when `run_all()` has returned nobody works on the caller's locals.
- `DecryptedOnce`, `BatchComplete`: no sample has two tasks or is handed to Apple twice,
  none is left out, and a batch answered OK has all of them decrypted.
- `CacheInStep`: the two containers agree within the bound.
- `NoLostWakeup`: no pool thread sleeps beside a queued task, the IPC thread sleeps through
  the end of a batch only as long as its notification is on the way, and nobody sleeps
  through `stop`. This is the safety core of the next one.
- `ReturnsAndJoins`: a batch that is received is answered, and the pool's destructor ends.
- `ServiceImplemented`: the refinement. A context a batch failed with is not used again.

Comments at `daemon/apple/decrypt.cpp:29` and `:40` say that the context for `adam_id` 0
is cached and pinned, and that this matters because its absence is an error. The code
tests for its absence before the only statement that could store it, so a request for a
prefetch sample never succeeds: `PrefetchNeverServed` of `DecryptProofs` shows it for
every behaviour, and such a request restarts the worker (`daemon/ipc.cpp:528`).

### Fairness

The IPC thread and each pool thread are weakly fair in their own steps: they are
scheduled, and Apple's decryption returns. The arrival of a batch, the shutdown and
spurious wakeups are not fair, so no liveness rests on a wakeup nobody sent.

### Proofs

`DecryptProofs` proves the safety properties and the refinement from `DecryptAssumption`
(a finite set of threads, distinct names, positive bounds). `IInv` adds

- `BatchOK`, `StripesOK`: the batch has samples while it is served, and a queued or
  running task is at one of its own stripe, which no other task has;
- `PoolBarrier`, `ActiveCounted`: a task exists only while the IPC thread is in
  `run_all()`, and `active` is the number of running ones. This is why the predicate
  `queue.empty() && active == 0` is the end of the batch;
- `AllAccounted`: while nothing has failed, a sample is decrypted, or is ahead of the
  one task whose stripe it is in. With no task left this is `BatchComplete`;
- `AheadUndone`: what is ahead of a task is not decrypted yet. The refinement
  needs it: each `DecryptSample` takes one sample out of what is left;
- `PoolKept`: `stop` is set at the end only, and the threads exist before a task is
  queued. `NoLostWakeup` rests on it.

`CacheInStep` is inductive with the types. Two facts the run leaves to the refinement are
theorems of their own: `ForgottenCorrect` (after a failed batch its track has no
context) and `FirstErrorCorrect` (no step replaces an error, until the next batch). The stripes
need facts about the remainder by `Stride` (two numbers less than `Stride`
apart with the same remainder are equal), which are the module's first lemmas.

## Daemon and Playback

| code | model |
|---|---|
| where the IPC thread is in its loop and the handlers | `ipc` |
| where the init thread is, from `Loader::open()` to `harvest_all()` | `boot` |
| `symbols_` (required, FairPlay), `fps_decrypt_available_`, `ok_`, `last_error_` | `lib.core`, `lib.fps`, `lib.available`, `lib.ok`, `lib.error` |
| `device_guid_`, `request_ctx_`, `presentation_interface_`, `loader_`, `foothill_`, `playback_ready_`, `initialized_` | the fields of `rt` |
| `Runtime::mu_` | held while `boot \in Initializing` |
| what `runtime_to_json()` has read | `report` |
| `wrapper_dialog_handler()` running, and in which thread | `dialog` |
| `HTTPMessageHolder::buf`; Apple's references to it | `storage`; `held` |
| `cap.cf_dict`, the local `dict` | `cf_dict`, `dict` |
| `CFRetain` without its `CFRelease` | `refs` |
| a preprocessor between `CFRetain` and `cap.mu` | `storing` |
| who else stored while a request ran; what the answer is made of | `stray`, `body` (what an observer saw) |

One action is the code between two accesses to shared state: `Configure` and `Publish`
are separate because the IPC thread may look in between, and `runtime_to_json()` is five
reads. A library or a required symbol may be missing, each of the FairPlay symbols too;
each of Apple's calls may fail where the code tests for it, and may take for ever:
that is a state in which only the other threads move. `base_dir_`, `device_info_` and
`loader_` are set together, in `Configure`. `playback_ready_` and `foothill_`
are set in one action, because nobody reads the latter before the former is published.
`playback_mutex()` is taken by the IPC thread alone (`refresh_playback_lease()` has no
caller), so it is left out.

Who is signed in is `Account`'s business: a handler is let through or answers 401, and
`start_login()`, `submit_2fa()` and their bounded waits are `AskAccount` and `Settled`.
Only `POST /login` tests the runtime; a code and a logout go to `Account` without.
The sign-in of the init thread ends at any time (`LoginOver`) or is followed by no
restore (`HarvestFails` in `"login"`). The harvest that follows a login runs the same
functions in the attempt's thread, on messages of its own.

A dialog may come from a thread of Apple's as soon as the handler is registered, and from
within `requestLease()` in the init thread itself, which holds `mu_`. The handler tests
`loader_` and then asks for the interface through an accessor. The accessor looks at
`initialized_` before it locks: that is what `MayRead` says, and what keeps the thread
from waiting for itself. A dialog shown that early is dropped without an answer.

### Runs

*daemon* (two playback requests, each preprocessor run up to twice; about 213 000 states,
fair; the process may end, so deadlock is not checked). Two requests are one and the one
whose preprocessor comes late; two runs of a preprocessor are a double fire, or one in
time and one late. Every other request can be made any number of times.

- `RefsOwned`: every retained dictionary has one owner: the capture, the guard of the IPC
  thread, or a preprocessor on its way.
- `PublishedWhole`: after the store to `initialized_` no field changes.
- `CallsResolved`: a thread is at a call only with its symbol and its object there, with
  any subset of the FairPlay symbols missing, and for as long as the handler is at work.
- `MessagesOutlive`: `held` has valid memory, for the second token request too.
- `LockHeldBriefly`: although the init thread holds `mu_` across all of `initialize()`, an
  accessor waits for it only in the last step, and a dialog in the init thread never.
- `HandlersReturn`: from any point of the init thread, stuck for ever included, an
  admitted request is answered unless it is in one of Apple's calls itself, and a dialog
  handler returns.
- `ServiceImplemented`: the refinement of `RequestService`, below.

`RequestService` is what somebody at the other end of the pipe can rely on. Requests are
served one after the other. The runtime comes up at most once and for good; what needs it
is served only then. A report that says "initialized" is true and final and names the
directories, although it is five reads beside the init thread; whatever a report says of
decryption never turns out wrong, and an error is shown only of a start that failed for good. A
playback answer is made of the request's own dictionary, or of one whose preprocessor
ran while this request did: the capture does not know who stores, and the reset at the
start of a request throws away what came before. The mapping is at the end of `Daemon`:
where the two threads are becomes `runtime` and `serving`, and what a report has read becomes `said`
once it is complete.

Before it explores states, TLC evaluates the assumption `CodecExact` of `MCDaemon`:

- `JsonScannerExact`: for all texts of up to six characters out of brace, quote, backslash
  and another one, `first_json_object()` cuts what the grammar of objects and strings
  says. Six allow an object in an object, a brace in a string and an escaped quote.
- `Base64Exact`: for texts of up to six digits the decoder yields the bytes of the
  number they write, although its accumulator is a signed `int` that is shifted on
  without a mask and holds two digits here (five in the code). Overflow of a signed shift
  is undefined in C++17; the model takes the wrap that compilers for this target emit.
  The table gives `=` the value 0, so the test for `=` in the code is never reached and
  padding adds zero bytes; Apple's tokens carry none.
- `FramesExact`: `parse_decrypt_payload()` accepts just what `decrypt_batch_payload()`
  encodes and returns what was put in, and `parse_decrypt_samples_payload()` does with the
  answer, over all payloads of up to 12 cells. A u16 is one cell and a u32 two, so the
  length table, both ids, up to three samples and every way of ending one cell early
  or late occur; with two values per cell a product of 32 bits overflows.

They are facts about operators, so they are assumptions and not invariants.

### Fairness

The IPC thread is weakly fair in the steps it can take on its own (`IpcStep`), and so are
the dialog handler and the end of `initialize()`, which releases `mu_`. Nothing is
assumed of Apple's calls or of clients: the init thread, `RunReturns` and
`DecryptReturns` are not fair.

### Proofs

`DaemonProofs` proves every safety property of the run from `PlaybackAssumption`
(distinct names). Its invariant adds

- `BootInv`: what loader and runtime hold at each stage of the init thread, in particular
  that nothing is published before `"unlock"`. This gives `PublishedWhole` (`Frozen`:
  the stages that write come before it);
- `IpcInv`: what a handler was let through with, which stays true because it is published
  or was tested;
- `ReportInv`: which fields have been read, and that a value read after `initialized_`
  was seen is the final one;
- `CaptureInv`: while a request is served, what is in the capture or in the guard is its
  own or `stray`;
- `ServeInv`: `call` and `stray` are empty between requests, and a preprocessor that is
  on its way is of a request that was made. The refinement and `LockHeldBriefly` need it.

`StepKinds` sorts the actions by the thread that takes them, so each lemma looks only at
the threads that touch its variables. `DaemonImplementsService` follows the same kinds:
`BootSeen` (the init thread brings the runtime up, gives up, or is not seen), `PreSeen` (a
preprocessor that stores for another request comes late), `EventSeen` and `WorkSeen` (the
IPC thread). `AnswersOwnDict` and `ReportsAreFinal` state two of its consequences in terms
of the program.

## Neon

| code | model |
|---|---|
| where `run()` of `main.rs` is | `main` |
| files still to be unpacked | `todo` |
| the directory `mpl_db`, the row, `LAST_HASH` | `disk`, `row`, `last` |
| where the backup thread is; its archive; files it has not read | `thread`; `tar`; `left` |
| whether the state in `GET /me` is "authenticated" | `signed` |
| whether its Apple ID or error has that word in it | `text` |
| a round began on that word, with nobody signed in | `misread` (what an observer saw) |

A file is the number of the write that made it, so an archive says how old each of its
files is. Archives hold modification times, so those of different writes differ; the
64-bit hash of an archive is taken for the archive itself. Reading is one action per
file, with the worker's writes in between. `RoundFails` is any of the `?` of a round,
in the database also after the row was written, when the answer is lost. `Crash` is
the end of the process and the start of the next, which finds its disk or, in a new
container, none.

`backup_state()` looks for the word "authenticated" anywhere in the body of `GET /me`, so
`SaysAuthenticated` is true of a state and of a text. `Login` is a login that is under way
or has failed: the body has the Apple ID the client gave, and of a failed login what Apple
says of it (`daemon/ipc.cpp:173`). A logout clears both.

Assumed of what is outside: a worker that is signed in has files in `mpl_db`; one
process uses a key.

### Runs

*neon* (two files, three writes, two crashes, two failures; about 364 000 states, fair).
Two files are the least that can be torn. Three writes allow a session, a change
during the backup and one after it; two failures an uncertain store and a failure of
the round that repeats it; two crashes a restore of a restored directory.

- `SkippedIsStored`: when the hash says "unchanged", the row is just this archive.
- `BackupHoldsSession`: a round that began with the worker signed in stores no empty
  directory, although by the time it reads the files the worker may be signed out. Of a
  round that is `misread` it says nothing; *saved_session_kept* does.
- `NeverOlder`: no file in the database is replaced by an older one, except by the first
  archive of a process whose restore has failed. `own` says that the row is what this process
  unpacked or stored.
- `Saved`: if the worker stays signed in and writes no more, the row ends up equal to the
  directory: a torn archive is replaced, and a failed round is repeated.

Both threads of the supervisor are weakly fair: they are scheduled, and the sleep of a
minute ends. Failures end because `MaxFailures` bounds them; `Saved` says nothing
of a database that fails for ever.

*saved_session_kept* (two files, one write, one crash, no failed round) shows a divergence
from `rust/neon_state.rs:99`, "Only back up when authenticated". A session is saved, the
process starts again in a new container and its restore fails, so its directory is empty.
A login that is not completed has the word in its Apple ID or its error, and the next
round takes the worker for signed in: an empty archive replaces the saved session. One
write and one crash are all it needs.

### Proofs

`NeonProofs` proves the safety properties from `NeonAssumption` (bounds are numbers, there
is a file). The argument: within one process the files only grow (`WritesInv`), so an
archive is no older than the row and no newer than the directory where it was read
(`TarInv`), and what is remembered is no newer than the row (`RowInv`). An archive
that equals the remembered one is thus squeezed against the row. `SessionInv`
follows one file of the session from the directory into the archive, in a round that is
not `misread`; `BackupHoldsSession` is what it says of the step that stores.
`UnpackInv` says that what a restore has unpacked is no older than the row, so that a row
which is this process's `own` never gets ahead of its directory (`NeverOlder`).

## BatchPath

| code | model |
|---|---|
| which parser or builder has the batch, and where in it | `at` |
| `payload.len()`, `payload.size()` | `size` |
| the ids' lengths and the count, as locals and as header fields | `adam_len`, `uri_len`, `sample_count` |
| the length table of a request or of an answer | `table` |
| `lengths`, `sample_bytes`, `offset` of the parsers | the same |
| where a builder put the samples, where a parser cut them | `starts`, `samples` |

A client's batch comes as a TCP frame (u16 ids; `ReceiveTcp`) or an HTTP body (u32 ids;
`ReceiveHttp`), is encoded, parsed by the worker, answered, and the answer is
parsed. Every turn of a loop is an action, and every cast is a remainder: `U16`, `U32` and
`U64` are the numbers of values of the three types. The bytes do not matter and are not there: the
client's table may hold anything, so an entry is chosen when it is read. `Codec` has
the bytes, for short payloads. An id that is not UTF-8 is one of the two outcomes of
`FrontIds`; a failed decryption one of `WorkerAnswer`. A TCP frame may be larger than the worker
takes in one frame; `read_frame()` then ends the worker, which is the outcome `"closed"`.

### Runs

*batch_path* (`U16` 3, `U32` 28, `U64` 256, `kMaxPayload` 25, `MAX_HTTP_BODY` 24, samples
of up to 4 bytes; about 21 000 states; a batch can follow a batch). Ids are one or two bytes long, or
too long for a u16; two samples fit into an HTTP body and three into a TCP frame;
four times a count can exceed a u32, so a table size kept in 32 bits would be cut.

- `ReadsInside`: no parser reads an entry or a sample past its payload. The worker cuts
  the samples without a test, after one of their sum.
- `FrontDecides`: what the front has accepted is accepted by every later parser. The exceptions
  are an HTTP id too long for the u16 of the frame, and a TCP frame too long for
  the worker.
- `SamplesFound`: every parser finds each sample where its builder put it, and the client
  gets the lengths it sent.

There is nothing to be fair to: a batch is parsed by one thread at a time.

### Proofs

`BatchPathProofs` proves the four from `BatchAssumption`, for all widths and limits that
are ordered as those of the code: 2^16, 2^32 and 2^64, 2^28 and 2^26 satisfy it. A
chain (`Placed`) is a list of samples each of which begins where the one before it ends.
Two chains of the same lengths keep their distance, so the request is shorter than
the body by the difference of their headers, and the answer is shorter than the
request; hence no sum in the worker wraps and no cast cuts. The invariant says which
chain there is at each step.

## What is only model-checked

Liveness (`RequestReturns`, `LostReaped`, `ReturnsAndJoins`, `HandlersReturn`, `Saved`) is out of the prover's reach, as are the five violations, which
are traces. The decoders of `Codec` are recursive or folds: what they compute for
every input needs induction over data, so they are evaluated within bounds.

## What is not modelled, and why

- The listeners of `main.rs`: each connection is served by one thread,
  in order, through `Supervisor`; what the connections share is a bounded channel of
  the standard library. The HTTP syntax is data; the parsers
  of a decrypt batch are in `BatchPath`.
- `Supervisor`'s 25 s and the waits of 30 s and 60 s in the login handlers in one state
  space: listed as a hazard. It needs the attempts of `Account`, the supervisor's threads
  and both clocks together, far beyond what TLC can explore.
- The handlers of SIGTERM and of crashes (`daemon/main.cpp`): they call functions that are
  not allowed in a signal handler, at any instruction; what happens then is undefined.
- Conversions of data: property lists to JSON, base64 encoding, the claims of a token,
  dates, log lines. None decides about a state.
- `refresh_playback_lease()`: nothing calls it.
- `abi.hpp` and the build and packaging scripts: declarations and recipes without state.
