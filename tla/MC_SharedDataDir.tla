-------------------------- MODULE MC_SharedDataDir --------------------------
(* A small instance of SharedDataDir: one thread in each process.          *)
EXTENDS SharedDataDir
=============================================================================
