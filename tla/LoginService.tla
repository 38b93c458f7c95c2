---------------------------- MODULE LoginService ----------------------------
(***************************************************************************)
(* What the account promises its clients.  A login or a restore begins     *)
(* only when nobody is signing in, and two restores never work at a time.  *)
(* A code is accepted when somebody waits for it.  A session comes from a  *)
(* login or a restore that succeeds, and an outcome only from one that is  *)
(* at work.  A logout forgets the session, but nobody who is at work: they *)
(* may still succeed or fail after it.  Before the first logout the        *)
(* account does not die of what its threads do to each other.              *)
(***************************************************************************)
EXTENDS Integers

CONSTANTS Attempts, Restores

VARIABLES
  state,     \* what GET /me says
  session,   \* there are tokens
  working,   \* the logins and restores at work
  waiting,   \* the logins among them that wait for a code
  leaving,   \* a logout is being served
  logouts,
  ended      \* the process has died of it

work == <<working, waiting>>
vars == <<state, session, work, leaving, logouts, ended>>

Init ==
  /\ state = "LoggedOut" /\ ~session
  /\ working = {} /\ waiting = {}
  /\ ~leaving /\ logouts = 0 /\ ~ended

Busy == state \in {"InProgress", "Awaiting2FA"}

Begin(w) ==
  /\ ~ended /\ ~Busy /\ w \notin working
  /\ working' = working \cup {w}
  /\ state' = "InProgress" /\ ~session'
  /\ UNCHANGED <<waiting, leaving, logouts, ended>>

Login == \E f \in Attempts : Begin(f)

Restore == \E r \in Restores :
  Begin(r) /\ state = "LoggedOut" /\ working \cap Restores = {}
-----------------------------------------------------------------------------
(* One that is at work.                                                    *)

\* Who waits for a code does nothing else.
Free(w) == ~ended /\ w \in working \ waiting

AskCode == \E f \in Attempts :
  /\ Free(f) /\ waiting' = waiting \cup {f}
  /\ state' = "Awaiting2FA"
  /\ UNCHANGED <<session, working, leaving, logouts, ended>>

SubmitCode ==
  /\ ~ended /\ ~leaving
  /\ state = "Awaiting2FA" /\ waiting # {}
  /\ state' = "InProgress"
  /\ UNCHANGED <<session, work, leaving, logouts, ended>>

\* With the code, or without one.
Proceed == \E f \in Attempts \cap working :
  /\ ~ended /\ waiting' = waiting \ {f}
  /\ state' = "InProgress"
  /\ UNCHANGED <<session, working, leaving, logouts, ended>>

Finish(w, outcome) ==
  /\ Free(w) /\ working' = working \ {w}
  /\ state' = outcome
  /\ session' = (outcome = "Authenticated" \/ session)
  /\ UNCHANGED <<waiting, leaving, logouts, ended>>

Succeed == \E w \in Attempts \cup Restores : Finish(w, "Authenticated")

Fail ==
  \/ \E f \in Attempts : Finish(f, "Failed")
  \/ \E r \in Restores : Finish(r, "LoggedOut")
-----------------------------------------------------------------------------
Leave ==
  /\ ~ended /\ ~leaving /\ leaving'
  /\ UNCHANGED <<state, session, work, logouts, ended>>

LoggedOut ==
  /\ ~ended /\ leaving /\ ~leaving'
  /\ state' = "LoggedOut" /\ ~session'
  /\ logouts' = logouts + 1
  /\ UNCHANGED <<work, ended>>

\* Answered with an error, and without effect.
StayIn ==
  /\ ~ended /\ leaving /\ ~leaving'
  /\ UNCHANGED <<state, session, work, logouts, ended>>

Die ==
  /\ ~ended /\ ended'
  /\ leaving \/ logouts > 0
  /\ UNCHANGED <<state, session, work, leaving, logouts>>

Next ==
  \/ Login \/ Restore \/ AskCode \/ SubmitCode \/ Proceed \/ Succeed \/ Fail
  \/ Leave \/ LoggedOut \/ StayIn \/ Die

Spec == Init /\ [][Next]_vars
=============================================================================
