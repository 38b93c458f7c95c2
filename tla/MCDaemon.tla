------------------------------ MODULE MCDaemon ------------------------------
(* A small instance of Daemon, and one of the decoders it uses. *)
EXTENDS Daemon, Codec

\* What the decoders promise for every input within the bounds; TLC
\* evaluates it before it explores the daemon.
ASSUME CodecExact == JsonScannerExact /\ Base64Exact /\ FramesExact
=============================================================================
