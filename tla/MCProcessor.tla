---------------------------- MODULE MCProcessor ----------------------------
(* Small instances of Processor for TLC. *)
EXTENDS Processor
CONSTANTS r1, p1, p2, primary, secondary
=============================================================================
