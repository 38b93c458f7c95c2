--------------------------- MODULE DecryptService ---------------------------
(***************************************************************************)
(* What decrypt_samples() promises the handler that calls it.  Batches are *)
(* served one after the other.  A sample is decrypted only while its batch *)
(* is being served, and only with a key context that is known for the      *)
(* batch's track.  A batch succeeds only when none of its samples is left, *)
(* and the context of a track whose batch failed is no longer known.       *)
(***************************************************************************)
EXTENDS Naturals

CONSTANTS Tracks, MaxSamples

VARIABLES
  serving,   \* a batch is being served
  track,     \* its track
  known,     \* tracks with a key context
  left       \* its samples that are not decrypted yet

vars == <<serving, track, known, left>>

Init == ~serving /\ track \in Tracks /\ known = {} /\ left = {}

Accept ==
  /\ ~serving /\ serving'
  /\ track' \in Tracks
  /\ \E n \in 1 .. MaxSamples : left' = 0 .. n - 1
  /\ UNCHANGED known

\* Others may be forgotten to make room.
Learn ==
  /\ serving
  /\ track \in known' /\ known' \subseteq known \cup {track}
  /\ UNCHANGED <<serving, track, left>>

DecryptOne ==
  /\ serving /\ track \in known
  /\ \E i \in left : left' = left \ {i}
  /\ UNCHANGED <<serving, track, known>>

Succeed ==
  /\ serving /\ ~serving' /\ left = {}
  /\ UNCHANGED <<track, known, left>>

Fail ==
  /\ serving /\ ~serving'
  /\ known' = known \ {track}
  /\ left' = {}
  /\ UNCHANGED track

Next == Accept \/ Learn \/ DecryptOne \/ Succeed \/ Fail

Spec == Init /\ [][Next]_vars
=============================================================================
