--------------------------- MODULE MC_NetopsStore ---------------------------
(* A small instance of NetopsStore: threads, accounts and slots are alike. *)
EXTENDS NetopsStore, TLC

MCSymmetry == Permutations(Workers) \cup Permutations(Accounts) \cup Permutations(Slots)
=============================================================================
