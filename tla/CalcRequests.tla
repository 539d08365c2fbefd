---------------------------- MODULE CalcRequests ----------------------------
(***************************************************************************)
(* The lines a server reads from a client, as chat_with_client tells them  *)
(* apart: the two commands, and everything else, which is an expression.   *)
(***************************************************************************)
EXTENDS Calc

CONSTANTS
  Clients,    \* the clients
  Requests    \* the lines they may send

Quit == [cmd |-> "quit", expr |-> <<>>]
Shutdown == [cmd |-> "shutdown", expr |-> <<>>]
Expr(e) == [cmd |-> "eval", expr |-> e]
Request == [cmd : {"quit", "shutdown", "eval"}, expr : Seq(Token)]

ASSUME RequestsAssumption == Requests \subseteq Request
=============================================================================
