----------------------------- MODULE MCPiClient -----------------------------
(* Model-checking instance of PiClient.  No symmetry: the run checks       *)
(* liveness.                                                               *)
EXTENDS PiClient
=============================================================================
