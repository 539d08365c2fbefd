---------------------------- MODULE MCCalcServer ----------------------------
(***************************************************************************)
(* A few clients against a server with very few descriptors.               *)
(***************************************************************************)
EXTENDS CalcServer, TLC

MCIntMin == -2

Set == Expr(<<Word("a"), Op("="), Num(1)>>)
Bad == Expr(<<BadNum>>)

SessionRequests == {Set, Shutdown}
TurnRequests == {Set, Bad, Quit, Shutdown}

OneEach == [c \in Clients |-> 1]
\* One of the clients sends two lines.
OneMore == [c \in Clients |-> IF c = (CHOOSE d \in Clients : TRUE) THEN 2 ELSE 1]

Symmetry == Permutations(Clients)
=============================================================================
