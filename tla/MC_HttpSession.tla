---------------------------- MODULE MC_HttpSession ----------------------------
(* A small instance of HttpSession. *)
EXTENDS HttpSession
=============================================================================
