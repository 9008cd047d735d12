--------------------------- MODULE MCPiSupervisor ---------------------------
(* Model-checking instance of PiSupervisor.  No symmetry: the run checks   *)
(* liveness.                                                               *)
EXTENDS PiSupervisor
=============================================================================
