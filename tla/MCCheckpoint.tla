--------------------------- MODULE MCCheckpoint ----------------------------
(* Small instances of Checkpoint for TLC. *)
EXTENDS Checkpoint, TLC

CONSTANTS s1, s2, op, sink

\* A source and a sink.
Line == sink :> {s1}
=============================================================================
