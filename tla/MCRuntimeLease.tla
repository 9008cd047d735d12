--------------------------- MODULE MCRuntimeLease ---------------------------
(* Model-checking instance of RuntimeLease: the invocations of one kind    *)
(* are interchangeable, and so are the owners.                             *)
EXTENDS RuntimeLease, TLC

Symmetry == Permutations(Connects) \cup Permutations(Calls)
              \cup Permutations(Teardowns) \cup Permutations(Owners)
=============================================================================
