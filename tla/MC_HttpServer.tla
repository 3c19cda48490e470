---------------------------- MODULE MC_HttpServer ----------------------------
(* A small instance of HttpServer: exchanges are alike. *)
EXTENDS HttpServer, TLC

MCSymmetry == Permutations(Exchanges)
=============================================================================
