---------------------------- MODULE MC_OpenAIAgent ----------------------------
(* A small instance of OpenAIAgent: two questions, two rounds, two calls.  *)
EXTENDS OpenAIAgent
=============================================================================
