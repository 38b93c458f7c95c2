---------------------------- MODULE MCSupervisor ----------------------------
(* Small instances of Supervisor for TLC.                                   *)
EXTENDS Supervisor, TLC

\* Callers and process ids are interchangeable.
Symmetric == Permutations(Callers) \cup Permutations(Pids)
=============================================================================
