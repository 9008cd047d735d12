--------------------------- MODULE MCHelperClient ---------------------------
(* Model-checking instance of HelperClient.  Behaviours make two requests, *)
(* of any two kinds but two streams, or two plain calls and the shutdown,  *)
(* which fill the table; or a Bash request alone.                          *)
EXTENDS HelperClient

OneCall == {CHOOSE c \in Calls : TRUE}
MCMixes ==
  {m \in SUBSET (OneCall \cup Streams \cup {Bye}) : Cardinality(m) = 2 /\ m # Streams}
    \cup {Calls \cup {Bye}}
MCBash == {Bashes}
=============================================================================
