-------------------------- MODULE MCTargetLifecycle -------------------------
(* Model-checking instance of TargetLifecycle: two goroutines, which are   *)
(* interchangeable.                                                        *)
EXTENDS TargetLifecycle, TLC

WorkerSymmetry == Permutations(Workers)
=============================================================================
