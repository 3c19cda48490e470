-------------------------- MODULE MC_StdioSession --------------------------
(* A small instance of StdioSession. *)
EXTENDS StdioSession
=============================================================================
