------------------------------- MODULE MCNeon -------------------------------
(* Small instances of Neon. *)
EXTENDS Neon
=============================================================================
