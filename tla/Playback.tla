------------------------------ MODULE Playback ------------------------------
(***************************************************************************)
(* GET /playback: fetch_playback_json() of src/daemon/apple/playback.cpp.  *)
(*                                                                         *)
(* The IPC thread hands Apple a request with a response preprocessor, and  *)
(* waits in PurchaseRequest::run().  The preprocessor retains the response *)
(* dictionary, and stores it in a capture that lives as long as the        *)
(* thread, so one capture serves every request.  Apple copies the          *)
(* preprocessor and never destroys it: it may run on a thread of Apple's,  *)
(* several times, and after run() has returned.                            *)
(*                                                                         *)
(* A dictionary is known by the request whose response it is.  cap.mu is   *)
(* held for one action at a time.  The module has no Next of its own:      *)
(* Daemon puts its actions between those of the IPC loop.                  *)
(***************************************************************************)
EXTENDS Integers

CONSTANTS
  Calls,     \* bound: the GET /playback requests the model looks at
  None,
  MaxFires   \* bound: how often Apple runs one request's preprocessor

ASSUME PlaybackAssumption ==
  /\ None \notin Calls \cup {"items", "error"}
  /\ "items" \notin Calls /\ "error" \notin Calls
  /\ MaxFires \in Nat

VARIABLES
  ipc,      \* where the IPC thread is
  call,     \* the request fetch_playback_json() serves, or None
  made,     \* requests whose preprocessor Apple has
  cf_dict,  \* cap.cf_dict: None, or whose dictionary it is
  dict,     \* the local it is moved to
  refs,     \* this program's CFRetains of each dictionary not yet released
  storing,  \* preprocessors between their CFRetain and cap.mu
  fires,    \* preprocessors started
  stray,    \* other requests that stored while the current one ran
  body      \* None, or what the answer is made of

captureVars == <<made, cf_dict, refs, storing, fires, stray>>
fetchVars   == <<call, dict, body>>
playVars    == <<captureVars, fetchVars>>

PlaybackTypeOK ==
  /\ call \in Calls \cup {None}
  /\ made \subseteq Calls
  /\ cf_dict \in Calls \cup {None}
  /\ dict \in Calls \cup {None}
  /\ refs \in [Calls -> Nat]
  /\ storing \in [Calls -> Nat]
  /\ fires \in [Calls -> 0 .. MaxFires]
  /\ stray \subseteq Calls
  /\ body \in Calls \cup {None, "items", "error"}

PlaybackInit ==
  /\ call = None /\ dict = None /\ body = None
  /\ made = {} /\ cf_dict = None /\ stray = {}
  /\ refs = [c \in Calls |-> 0]
  /\ storing = [c \in Calls |-> 0]
  /\ fires = [c \in Calls |-> 0]

\* CFRelease, guarded by the test for null.
Release(d) == IF d = None THEN refs ELSE [refs EXCEPT ![d] = @ - 1]
-----------------------------------------------------------------------------
(* Apple runs the preprocessor of request c.                               *)

Preprocess(c) ==
  /\ c \in made /\ fires[c] < MaxFires
  /\ fires' = [fires EXCEPT ![c] = @ + 1]
  /\ refs' = [refs EXCEPT ![c] = @ + 1]
  /\ storing' = [storing EXCEPT ![c] = @ + 1]
  /\ UNCHANGED <<ipc, made, cf_dict, stray, fetchVars>>

\* What the preprocessor finds in the capture it releases first.
Forgotten == refs
Replaced == Release(cf_dict)

Store(c) ==
  /\ storing[c] > 0
  /\ storing' = [storing EXCEPT ![c] = @ - 1]
  /\ refs' = Replaced
  /\ cf_dict' = c
  /\ stray' = IF ipc \in {"run", "take"} THEN stray \cup ({c} \ {call})
              ELSE stray
  /\ UNCHANGED <<ipc, made, fires, fetchVars>>
-----------------------------------------------------------------------------
(* fetch_playback_json() in the IPC thread.                                *)

\* What a late preprocessor has left in the capture goes.
LeftOver == cf_dict
Cleared == None

Reset ==
  /\ ipc = "reset"
  /\ refs' = IF Cleared = cf_dict THEN refs ELSE Release(cf_dict)
  /\ cf_dict' = Cleared
  /\ stray' = {}
  /\ made' = made \cup {call}
  /\ ipc' = "run"
  /\ UNCHANGED <<storing, fires, fetchVars>>

\* PurchaseRequest::run() returns, if Apple ever answers.
RunReturns ==
  /\ ipc = "run"
  /\ ipc' = "take"
  /\ UNCHANGED playVars

\* The capture gives up its reference to the local guard.
StillShared == cf_dict
Moved == None

Take ==
  /\ ipc = "take"
  /\ dict' = cf_dict
  /\ cf_dict' = Moved
  /\ ipc' = "convert"
  /\ UNCHANGED <<call, body, made, refs, storing, fires, stray>>

\* The captured dictionary, or else the items of the response; an exception
\* or a response with neither is an error.  The guard releases in any case.
Convert ==
  /\ ipc = "convert"
  /\ body' \in {IF dict # None THEN dict ELSE "items", "error"}
  /\ refs' = Release(dict)
  /\ dict' = None
  /\ ipc' = "reply"
  /\ UNCHANGED <<call, made, cf_dict, storing, fires, stray>>

Fetch == Reset \/ Take \/ Convert

Preprocessor == \E c \in Calls : Preprocess(c) \/ Store(c)
-----------------------------------------------------------------------------
(* Properties.                                                             *)

Count(p) == IF p THEN 1 ELSE 0

\* Every CFRetain has one owner that will release it: the capture, the
\* guard of the IPC thread, or a preprocessor on its way to the capture.  No
\* dictionary leaks and none is released under its reader, however often and
\* late Apple runs the preprocessors (playback.cpp:245-318).
RefsOwned == \A c \in Calls :
  refs[c] = Count(cf_dict = c) + Count(dict = c) + storing[c]
=============================================================================
