------------------------------ MODULE MCDecrypt ------------------------------
(* Small instances of Decrypt for TLC.  No symmetry: the run also checks     *)
(* liveness properties.                                                      *)
EXTENDS Decrypt
=============================================================================
