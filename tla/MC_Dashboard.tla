---------------------------- MODULE MC_Dashboard ----------------------------
(* A small instance of Dashboard: four keys, so up to two questions. *)
EXTENDS Dashboard
=============================================================================
