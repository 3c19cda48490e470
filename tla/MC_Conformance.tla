--------------------------- MODULE MC_Conformance ---------------------------
(* A small instance of Conformance: the probe and one other client. *)
EXTENDS Conformance
=============================================================================
