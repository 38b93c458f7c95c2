----------------------------- MODULE MCBatchPath ----------------------------
(* A small instance of BatchPath: narrow integers, short payloads. *)
EXTENDS BatchPath
=============================================================================
