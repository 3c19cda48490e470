-------------------------------- MODULE MC_Host --------------------------------
(* A small instance of Host: two servers that may offer the same tool.     *)
EXTENDS Host
=============================================================================
