------------------------------- MODULE Account -------------------------------
(***************************************************************************)
(* The sign-in state machine of src/daemon/apple/auth.cpp.                 *)
(*                                                                         *)
(* Its actors are the IPC thread of the worker, which runs one handler at  *)
(* a time; the init thread of main.cpp, which initialises the runtime,     *)
(* signs in from the environment and restores the session on disk; the     *)
(* detached thread of a lazy restore; and one thread per login attempt,    *)
(* which spends most of its life inside Apple's AuthenticateFlow and is    *)
(* called back there for the password and, perhaps, for a 2FA code.        *)
(*                                                                         *)
(* One action is one critical section of mu_, or one access outside it.    *)
(* Passwords stand for the attempt that brought them.  Both sides of       *)
(* twofa_code_ and twofa_submitted_, always set and cleared together, are  *)
(* twofa_code.  restore_running_ is "the lazy thread lives"; restore_mu_   *)
(* is held by whoever is between "enter" and the end of the restore.       *)
(* Apple's calls take any time, the 5 minutes of a parked attempt too.     *)
(***************************************************************************)
EXTENDS Integers, FiniteSets

CONSTANTS
  Attempts,     \* threads running worker_main()
  Ipc,          \* the thread of run_ipc_worker()
  Boot,         \* init_thread of main.cpp
  Lazy,         \* the thread of trigger_restore_cached_session()
  None,
  MaxLogouts    \* bound: how many DELETE /login the model looks at

Restorers == {Boot, Lazy}
Threads   == Attempts \cup {Ipc, Boot, Lazy}

ASSUME AccountAssumption ==
  /\ IsFiniteSet(Attempts)
  /\ Attempts \cap {Ipc, Boot, Lazy} = {}
  /\ Ipc # Boot /\ Ipc # Lazy /\ Boot # Lazy
  /\ None \notin Threads \cup {"fresh", "spent", "null", "terminate"}
  /\ MaxLogouts \in Nat

VARIABLES
  pc,          \* where each thread is; "off" is no thread
  state,       \* state_
  runtime,     \* loader_ and runtime_ are set
  password,    \* whose password is in password_
  twofa_code,  \* None, "fresh", or "spent": already handed to Apple
  aborted,     \* aborted_
  tokens,      \* tokens_ hold a session
  error,       \* last_error_ is set
  joinable,    \* worker_ holds a thread
  logouts,     \* completed logouts
  sent,        \* what each attempt last handed to Apple
  crashed      \* None, or what the worker died of

accountVars == <<state, runtime, password, twofa_code, aborted, tokens, error>>
vars == <<pc, accountVars, joinable, logouts, sent, crashed>>

LoginStates == {"LoggedOut", "InProgress", "Awaiting2FA", "Authenticated",
                "Failed"}
Busy == {"InProgress", "Awaiting2FA"}

\* Nothing is handed over yet: it can only be the attempt's own password.
Unsent(f) == [password |-> f, code |-> None]

Init ==
  /\ pc = [t \in Threads |-> IF t = Ipc THEN "idle"
                             ELSE IF t = Boot THEN "init" ELSE "off"]
  /\ state = "LoggedOut" /\ runtime = FALSE
  /\ password = None /\ twofa_code = None /\ aborted = FALSE
  /\ tokens = FALSE /\ error = FALSE
  /\ joinable = FALSE /\ logouts = 0
  /\ sent = [f \in Attempts |-> Unsent(f)]
  /\ crashed = None

At(t, l)   == pc[t] = l /\ crashed = None
Goto(t, l) == pc' = [pc EXCEPT ![t] = l]

\* Runtime::initialized()
Initialized == pc[Boot] \notin {"init", "failed"}

NeverLocked == FALSE
RestoreLocked == \E r \in Restorers : pc[r] \in {"enter", "harvest"}

\* start_login() refuses while a login runs or waits for a code.
AwaitingIgnored == state # "InProgress"
NotBusy == state \notin Busy

\* try_restore_cached_session() gives way to any login there has been.
RestoreAnytime == TRUE
RestoreMayClaim == state = "LoggedOut"

\* finish_*() wipe the password and the code.
WipeSecrets == password' = None /\ twofa_code' = None

\* The parked credential handler goes on.
LeaveState == UNCHANGED state
BackInProgress == state' = "InProgress"
-----------------------------------------------------------------------------
(* The init thread, the IPC handlers and the restores.                     *)

\* start_login(): take the credentials over from whatever was there, start
\* the thread of attempt f; caller t waits in wait_for_settled_state().
StartLogin(t, f) ==
  /\ NotBusy
  /\ pc[f] = "off"
  /\ pc' = [pc EXCEPT ![t] = "settle", ![f] = "begin"]
  /\ state' = "InProgress" /\ runtime' = TRUE
  /\ password' = f /\ twofa_code' = None /\ aborted' = FALSE
  /\ tokens' = FALSE /\ error' = FALSE
  /\ joinable' = TRUE
  /\ UNCHANGED <<logouts, sent, crashed>>

\* POST /login once the runtime is initialised.
IpcLogin(f) == At(Ipc, "idle") /\ Initialized /\ StartLogin(Ipc, f)

\* POST /login/2fa: submit_2fa(), then wait for the outcome.
IpcSubmit2fa ==
  /\ At(Ipc, "idle") /\ state = "Awaiting2FA"
  /\ twofa_code' = "fresh"
  /\ state' = "InProgress"
  /\ Goto(Ipc, "settle")
  /\ UNCHANGED <<runtime, password, aborted, tokens, error, joinable, logouts,
                 sent, crashed>>

\* wait_for_settled_state() returns, because the state is not InProgress or
\* its time is up; the handler answers, the init thread goes on to restore.
Settled(t) ==
  /\ At(t, "settle")
  /\ Goto(t, IF t = Boot THEN "check" ELSE "idle")
  /\ UNCHANGED <<accountVars, joinable, logouts, sent, crashed>>

\* GET /me, GET /playback and POST /decrypt start a lazy restore, unless one
\* is running, and go on without it.
TriggerRestore ==
  /\ At(Ipc, "idle") /\ Initialized /\ state # "Authenticated"
  /\ pc[Lazy] = "off"
  /\ Goto(Lazy, "lock")
  /\ UNCHANGED <<accountVars, joinable, logouts, sent, crashed>>

\* A request that changes nothing: refused, or only looking.
IpcNoEffect == At(Ipc, "idle") /\ UNCHANGED vars

\* The init thread loads Apple's libraries, or fails for good.
BootInit ==
  /\ At(Boot, "init")
  /\ \E l \in {"login", "failed"} : Goto(Boot, l)
  /\ UNCHANGED <<accountVars, joinable, logouts, sent, crashed>>

\* maybe_auto_login_from_env() looks at the state, then logs in with the
\* credentials in the environment, whatever the state has become ...
BootLooks ==
  /\ At(Boot, "login") /\ state # "Authenticated"
  /\ Goto(Boot, "env")
  /\ UNCHANGED <<accountVars, joinable, logouts, sent, crashed>>

BootLogin(f) == At(Boot, "env") /\ StartLogin(Boot, f)

\* ... or there are none, or another login is done or in the way.
BootSkipsLogin ==
  /\ At(Boot, "login") \/ (At(Boot, "env") /\ ~NotBusy)
  /\ Goto(Boot, "check")
  /\ UNCHANGED <<accountVars, joinable, logouts, sent, crashed>>

\* The init thread restores only if nobody has logged in.
BootCheck ==
  /\ At(Boot, "check")
  /\ Goto(Boot, IF state = "LoggedOut" THEN "lock" ELSE "ready")
  /\ UNCHANGED <<accountVars, joinable, logouts, sent, crashed>>

\* restore_running_ is cleared when the lazy thread has finished.
RunningKept(r) == "ready"
Restored(r) == IF r = Boot THEN "ready" ELSE "off"

\* try_to_lock on restore_mu_.
RestoreLock(r) ==
  /\ At(r, "lock")
  /\ Goto(r, IF RestoreLocked THEN Restored(r) ELSE "enter")
  /\ UNCHANGED <<accountVars, joinable, logouts, sent, crashed>>

\* There is no warm session on disk, or somebody has logged in meanwhile.
RestoreDeclined(r) ==
  /\ At(r, "enter")
  /\ Goto(r, Restored(r))
  /\ UNCHANGED <<accountVars, joinable, logouts, sent, crashed>>

\* The restore claims the account for the time of its network calls.
RestoreClaims(r) ==
  /\ At(r, "enter") /\ RestoreMayClaim
  /\ joinable' = FALSE
  /\ runtime' = TRUE
  /\ password' = None /\ twofa_code' = None /\ aborted' = FALSE
  /\ tokens' = FALSE /\ error' = FALSE
  /\ state' = "InProgress"
  /\ Goto(r, "harvest")
  /\ UNCHANGED <<logouts, sent, crashed>>

\* No request context, or the harvest fails: back to LoggedOut.
RestoreFails(r) ==
  /\ At(r, "harvest")
  /\ runtime' = FALSE
  /\ state' = "LoggedOut"
  /\ Goto(r, Restored(r))
  /\ UNCHANGED <<password, twofa_code, aborted, tokens, error, joinable,
                 logouts, sent, crashed>>

\* finish_authenticated()
FinishAuthenticated ==
  /\ tokens' = TRUE
  /\ WipeSecrets
  /\ state' = "Authenticated"
  /\ UNCHANGED <<runtime, aborted, error>>

RestoreSucceeds(r) ==
  /\ At(r, "harvest")
  /\ FinishAuthenticated
  /\ Goto(r, Restored(r))
  /\ UNCHANGED <<joinable, logouts, sent, crashed>>
-----------------------------------------------------------------------------
(* DELETE /login: logout() is two critical sections, with an unlocked look *)
(* at worker_ between them.                                                *)

LogoutAborts ==
  /\ At(Ipc, "idle") /\ logouts < MaxLogouts
  /\ aborted' = TRUE
  /\ Goto(Ipc, "joinable")
  /\ UNCHANGED <<state, runtime, password, twofa_code, tokens, error, joinable,
                 logouts, sent, crashed>>

LogoutLooks ==
  /\ At(Ipc, "joinable")
  /\ Goto(Ipc, IF joinable THEN "detach" ELSE "clear")
  /\ UNCHANGED <<accountVars, joinable, logouts, sent, crashed>>

LogoutDetaches ==
  /\ At(Ipc, "detach") /\ joinable
  /\ joinable' = FALSE
  /\ Goto(Ipc, "clear")
  /\ UNCHANGED <<accountVars, logouts, sent, crashed>>

\* Another thread has detached worker_ since, or is about to assign to it in
\* start_login(): detach() throws, dispatch() answers 500, and the second
\* critical section never runs.
LogoutThrows ==
  /\ At(Ipc, "detach")
  /\ ~joinable \/ pc[Boot] = "settle"
  /\ Goto(Ipc, "idle")
  /\ UNCHANGED <<accountVars, joinable, logouts, sent, crashed>>

\* Or the other thread found worker_ joinable too and is the one that comes
\* second: nobody catches what detach() throws there.
DetachesSecond(t) ==
  /\ At(Ipc, "detach") /\ joinable
  /\ \/ t = Boot /\ At(t, "env") /\ NotBusy
     \/ At(t, "enter") /\ RestoreMayClaim
  /\ crashed' = "terminate"
  /\ UNCHANGED <<pc, accountVars, joinable, logouts, sent>>

LogoutClears ==
  /\ At(Ipc, "clear")
  /\ state' = "LoggedOut"
  /\ password' = None /\ twofa_code' = None /\ aborted' = FALSE
  /\ tokens' = FALSE /\ error' = FALSE
  /\ logouts' = logouts + 1
  /\ Goto(Ipc, "idle")
  /\ UNCHANGED <<runtime, joinable, sent, crashed>>
-----------------------------------------------------------------------------
(* An attempt: worker_main() and the credential handler Apple calls.       *)

\* The attempt's thread ends, and nothing of it is left.
Ends(f) ==
  /\ Goto(f, "off")
  /\ sent' = [sent EXCEPT ![f] = Unsent(f)]

\* finish_failed()
AttemptFails(f) ==
  /\ \/ At(f, "context") /\ runtime
     \/ At(f, "apple") \/ At(f, "harvest")
  /\ error' = TRUE
  /\ WipeSecrets
  /\ state' = "Failed"
  /\ Ends(f)
  /\ UNCHANGED <<runtime, aborted, tokens, joinable, logouts, crashed>>

\* The first thing worker_main() does is to look, unlocked, at loader_.
AttemptBegins(f) ==
  /\ At(f, "begin") /\ runtime
  /\ Goto(f, "context")
  /\ UNCHANGED <<accountVars, joinable, logouts, sent, crashed>>

NoRuntime(f) ==
  /\ At(f, "begin") /\ ~runtime
  /\ error' = TRUE
  /\ WipeSecrets
  /\ state' = "Failed"
  /\ Ends(f)
  /\ UNCHANGED <<runtime, aborted, tokens, joinable, logouts, crashed>>

\* Then it uses loader_ and runtime_, and enters AuthenticateFlow::run().
EnterApple(f) ==
  /\ At(f, "context") /\ runtime
  /\ Goto(f, "apple")
  /\ UNCHANGED <<accountVars, joinable, logouts, sent, crashed>>

\* Apple asks for the password: fetch_credentials_blocking(needs_2fa = false).
AskPassword(f) ==
  /\ At(f, "apple")
  /\ sent' = [sent EXCEPT ![f] = [password |-> password, code |-> None]]
  /\ UNCHANGED <<pc, accountVars, joinable, logouts, crashed>>

\* What ends the wait on cv_2fa_ before its time.
Woken == twofa_code # None \/ aborted

\* The handler returns: with the code, if one is there and nobody aborted.
HandOver(f) ==
  /\ BackInProgress
  /\ LET code == IF aborted THEN None ELSE twofa_code IN
       /\ sent' = [sent EXCEPT ![f] = [password |-> password, code |-> code]]
       /\ twofa_code' = IF code = None THEN twofa_code ELSE "spent"
  /\ Goto(f, "apple")
  /\ UNCHANGED <<runtime, password, aborted, tokens, error, joinable, logouts,
                 crashed>>

\* Apple asks for a code and the handler parks ...
AskCode(f) ==
  /\ At(f, "apple") /\ ~Woken
  /\ state' = "Awaiting2FA"
  /\ Goto(f, "parked")
  /\ UNCHANGED <<runtime, password, twofa_code, aborted, tokens, error,
                 joinable, logouts, sent, crashed>>

\* ... or finds the predicate true and does not release the mutex at all.
AskCodeNoWait(f) == At(f, "apple") /\ Woken /\ HandOver(f)

\* wait_for() evaluates its predicate when it has the mutex again: what was
\* notified may have been undone by then.
Wakes(f) == At(f, "parked") /\ Woken /\ HandOver(f)

\* k2faTimeout
TimesOut(f) == At(f, "parked") /\ HandOver(f)

\* The response is of type 6: harvest the tokens, through runtime_.
AppleAccepts(f) ==
  /\ At(f, "apple") /\ runtime
  /\ Goto(f, "harvest")
  /\ UNCHANGED <<accountVars, joinable, logouts, sent, crashed>>

AttemptSucceeds(f) ==
  /\ At(f, "harvest")
  /\ FinishAuthenticated
  /\ Ends(f)
  /\ UNCHANGED <<joinable, logouts, crashed>>

\* loader_ or runtime_ is used after a failed restore has nulled it.
NullDereference(f) ==
  /\ At(f, "context") \/ At(f, "apple")
  /\ ~runtime
  /\ crashed' = "null"
  /\ UNCHANGED <<pc, accountVars, joinable, logouts, sent>>

\* The worker process is gone; the supervisor starts another.
Stopped == crashed # None /\ UNCHANGED vars

Handler == IpcSubmit2fa \/ TriggerRestore \/ IpcNoEffect
Logout  == LogoutAborts \/ LogoutLooks \/ LogoutDetaches \/ LogoutThrows
           \/ LogoutClears
BootStep == BootInit \/ BootLooks \/ BootSkipsLogin \/ BootCheck
Restore(r) == RestoreLock(r) \/ RestoreDeclined(r) \/ RestoreClaims(r)
              \/ RestoreFails(r) \/ RestoreSucceeds(r)
Attempt(f) == AttemptBegins(f) \/ NoRuntime(f) \/ EnterApple(f)
              \/ AskPassword(f) \/ AskCode(f) \/ AskCodeNoWait(f) \/ Wakes(f)
              \/ TimesOut(f) \/ AppleAccepts(f) \/ AttemptFails(f)
              \/ AttemptSucceeds(f) \/ NullDereference(f)

Next ==
  \/ Handler \/ Logout \/ BootStep \/ Stopped
  \/ \E t \in {Ipc, Boot} : Settled(t)
  \/ \E f \in Attempts : IpcLogin(f) \/ BootLogin(f) \/ Attempt(f)
  \/ \E r \in Restorers : Restore(r) \/ DetachesSecond(r)

Spec == Init /\ [][Next]_vars
-----------------------------------------------------------------------------
(* Correctness.                                                            *)

IpcAt     == {"idle", "settle", "joinable", "detach", "clear"}
BootAt    == {"init", "failed", "login", "env", "settle", "check", "lock",
              "enter", "harvest", "ready"}
LazyAt    == {"off", "lock", "enter", "harvest"}
AttemptAt == {"off", "begin", "context", "apple", "parked", "harvest"}

\* Every variable has its type.
TypeOK ==
  /\ pc \in [Threads -> IpcAt \cup BootAt \cup LazyAt \cup AttemptAt]
  /\ pc[Ipc] \in IpcAt /\ pc[Boot] \in BootAt /\ pc[Lazy] \in LazyAt
  /\ \A f \in Attempts : pc[f] \in AttemptAt
  /\ state \in LoginStates
  /\ runtime \in BOOLEAN
  /\ password \in Attempts \cup {None}
  /\ twofa_code \in {None, "fresh", "spent"}
  /\ aborted \in BOOLEAN
  /\ tokens \in BOOLEAN
  /\ error \in BOOLEAN
  /\ joinable \in BOOLEAN
  /\ logouts \in Nat
  /\ sent \in [Attempts -> [password : Attempts \cup {None},
                            code : {None, "fresh", "spent"}]]
  /\ crashed \in {None, "null", "terminate"}

\* Login attempts that have not ended, and restores that own the account.
Live   == {f \in Attempts : pc[f] # "off"}
Claims == {r \in Restorers : pc[r] = "harvest"}

\* Apple's libraries are not re-entrant on the auth path.  What keeps the
\* threads in them few is the state alone, which logout() resets while they
\* run on: there is at most one, and one more for each DELETE /login.
ReentryBounded ==
  Cardinality(Live \cup Claims) <= logouts + (IF state \in Busy THEN 1 ELSE 0)

\* A code accepted by POST /login/2fa finds a handler parked to receive it.
CodeFindsHandler ==
  state = "Awaiting2FA" => \E f \in Attempts : pc[f] = "parked"

\* A settled state has its tokens or its error, and no secret is left.
FieldsAgree ==
  /\ state = "Authenticated" => tokens
  /\ state = "Failed" => error
  /\ state \in {"Authenticated", "Failed"} => password = None /\ twofa_code = None

\* What GET /me says is so, although each thread sets the state for itself: a
\* settled one, and that somebody waits for a code (auth.cpp:278, :317-374).
SnapshotConsistent == FieldsAgree /\ CodeFindsHandler

\* As long as nobody has logged out, an attempt gives Apple the password of
\* its own POST /login, never that of another or a wiped one ...
OwnPassword ==
  logouts = 0 => \A f \in Live : sent[f].password = f

\* ... and no restore takes the runtime away from under it.
NoNullDereference == crashed = "null" => logouts > 0

\* An attempt is alone until the first logout (auth.cpp:66, :137, :160).
AttemptUndisturbed == OwnPassword /\ NoNullDereference

\* Once authenticated, the session ends only by a new login or by a logout: no
\* late restore or attempt undoes it.  (After a logout one may.)
SessionKept ==
  [][state = "Authenticated" /\ logouts' = 0 /\ state' # state =>
       \E f \in Attempts : pc[f] = "off" /\ pc'[f] = "begin"]_vars

\* A code accepted by POST /login/2fa is lost by nothing before a logout
\* begins: no restore, late attempt or second login clears it, and it goes to
\* the attempt that asked for it, together with that attempt's own password
\* (auth.cpp:160-179, :278-293, :317-374).
CodeDelivered ==
  [][twofa_code = "fresh" /\ twofa_code' # "fresh" /\ ~aborted /\ logouts' = 0 =>
       \E f \in Attempts :
         pc[f] = "parked" /\ sent'[f] = [password |-> f, code |-> "fresh"]]_vars

Service == INSTANCE LoginService
             WITH Restores <- Restorers,
                  session <- tokens,
                  working <- Live \cup Claims,
                  waiting <- {f \in Attempts : pc[f] = "parked"},
                  leaving <- pc[Ipc] \in {"joinable", "detach", "clear"},
                  ended <- crashed # None

\* The account keeps the promise of LoginService, although what holds its
\* threads apart is a word that each of them writes (auth.cpp:66-374).
ServiceImplemented == Service!Spec
-----------------------------------------------------------------------------
(* What comments and docs say, and the code does not do.                   *)

\* auth.hpp:11: one concurrent login flow at a time.
OneFlow == Cardinality(Live) <= 1

\* README.md:57: POST /login/2fa says 202 if another code is needed, so that
\* each code is given to Apple once.
CodeUsedOnce == \A f \in Attempts : sent[f].code # "spent"
=============================================================================
