--------------------------- MODULE RequestService ----------------------------
(***************************************************************************)
(* What a worker process promises whoever sends it requests.  They are     *)
(* served one after the other, and each has one answer.  Apple's runtime   *)
(* comes up at most once, and stays up for good with or without FairPlay's *)
(* part; a request that needs it is served only then.  A report that calls *)
(* it up is true, and stays true; what it says of decryption or of an      *)
(* error never turns out wrong.  A playback request that is served is      *)
(* answered with its own dictionary, with that of an earlier request whose *)
(* response came only now, or without one.                                 *)
(***************************************************************************)
CONSTANTS Calls, None

VARIABLES
  runtime,   \* "starting", "up" or "failed"
  decrypts,  \* it is up and has FairPlay's part
  serving,   \* the kind of request, or where the worker is between two
  call,      \* the playback request, or None
  asked,     \* the playback requests so far
  late,      \* earlier requests whose responses came during this one
  said,      \* what a report says, and
  shown      \* what a playback request is answered with, until it is sent

request == <<call, asked, late>>
answer  == <<said, shown>>
vars == <<runtime, decrypts, serving, request, answer>>

Init ==
  /\ runtime \in {"starting", "failed"} /\ ~decrypts
  /\ serving = "nothing"
  /\ call = None /\ asked = {} /\ late = {} /\ said = {} /\ shown = None

ComeUp ==
  /\ runtime = "starting" /\ runtime' = "up" /\ decrypts' \in BOOLEAN
  /\ UNCHANGED <<serving, request, answer>>

Fail ==
  /\ runtime = "starting" /\ runtime' = "failed"
  /\ UNCHANGED <<decrypts, serving, request, answer>>
-----------------------------------------------------------------------------
Serve(kind) ==
  /\ serving = "nothing" /\ serving' = kind
  /\ UNCHANGED <<runtime, decrypts, answer>>

Accept ==
  /\ \/ Serve("report")
     \/ Serve("account") /\ runtime = "up"
     \/ Serve("decrypt") /\ decrypts
  /\ UNCHANGED request

AcceptPlayback ==
  /\ Serve("playback") /\ runtime = "up"
  /\ \E c \in Calls \ asked : call' = c /\ asked' = asked \cup {c}
  /\ UNCHANGED late

\* A response of an earlier request.
ComeLate ==
  /\ serving = "playback"
  /\ \E c \in asked \ {call} : late' = late \cup {c}
  /\ UNCHANGED <<runtime, decrypts, serving, call, asked, answer>>

Answer(kind) ==
  /\ serving = kind /\ serving' = "answering"
  /\ UNCHANGED <<runtime, decrypts, request>>

\* Refused, too.
AnswerPlainly ==
  /\ Answer("nothing") \/ Answer("account") \/ Answer("decrypt")
  /\ UNCHANGED answer

Report ==
  /\ Answer("report")
  /\ said' \subseteq {"up", "directories", "decrypts", "error"}
  /\ "up" \in said' =>
       /\ runtime = "up" /\ "directories" \in said'
       /\ decrypts <=> "decrypts" \in said'
  /\ "decrypts" \in said' => decrypts \/ runtime = "starting"
  /\ "error" \in said' => runtime = "failed"
  /\ UNCHANGED shown

AnswerPlayback ==
  /\ Answer("playback")
  /\ shown' \in {call, "items", "error"} \cup late
  /\ UNCHANGED said

Deliver ==
  /\ serving = "answering" /\ serving' \in {"nothing", "ended"}
  /\ call' = None /\ late' = {} /\ said' = {} /\ shown' = None
  /\ UNCHANGED <<runtime, decrypts, asked>>

End == Serve("ended") /\ UNCHANGED request

Next ==
  \/ ComeUp \/ Fail \/ Accept \/ AcceptPlayback \/ ComeLate
  \/ AnswerPlainly \/ Report \/ AnswerPlayback \/ Deliver \/ End

Spec == Init /\ [][Next]_vars
=============================================================================
