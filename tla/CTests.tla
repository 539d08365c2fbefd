-------------------------------- MODULE CTests --------------------------------
(***************************************************************************)
(* The tests of cTests.c that call one function of the postfix calculator   *)
(* at a time.  Those of skipws, consumeInt, consumeOp and eval, which read  *)
(* strings, are left to the model of the whole calculator.                 *)
(*                                                                         *)
(* Of the string given to tokenType only the first character is read.       *)
(***************************************************************************)
EXTENDS Integers, Sequences

\* long has 64 bits; the numbers in these tests need 24.
P == INSTANCE PostfixChars WITH
  IntMin <- -(2^24), IntMax <- 2^24 - 1, MaxStack <- 20, Inputs <- {}

\* A call returns a value, and leaves the fixture's stack behind, or exits.
Gave(v, stack) == [st |-> "ok", val |-> v, objs |-> stack]
Exited(stack) == [st |-> "exit", val |-> 0, objs |-> stack]
AsInt(b) == IF b THEN 1 ELSE 0

TokenType(c) == IF P!IsDigit(c) THEN 1 ELSE IF P!IsOp(c) THEN 0 ELSE -1
AddPositive(l, r, stack) ==
  IF l < 0 \/ r < 0 THEN Exited(stack) ELSE Gave(l + r, stack)
StackPush(v, stack) ==
  IF Len(stack) >= 20 THEN Exited(stack) ELSE Gave(0, Append(stack, v))
StackPop(stack) ==
  IF stack = <<>> THEN Exited(stack)
  ELSE Gave(stack[Len(stack)], SubSeq(stack, 1, Len(stack) - 1))

CallC(call, stack) ==
  CASE call[1] = "isSpace"     -> Gave(AsInt(P!IsSpace(call[2])), stack)
    [] call[1] = "isDigit"     -> Gave(AsInt(P!IsDigit(call[2])), stack)
    [] call[1] = "tokenType"   -> Gave(TokenType(call[2]), stack)
    [] call[1] = "evalOp"      -> Gave(P!EvalOp(call[2], call[3], call[4]), stack)
    [] call[1] = "addPositive" -> AddPositive(call[2], call[3], stack)
    [] call[1] = "stackPush"   -> StackPush(call[2], stack)
    [] call[1] = "stackPop"    -> StackPop(stack)
    [] call[1] = "count"       -> Gave(Len(stack), stack)
    [] call[1] = "values"      -> Gave(stack[call[2] + 1], stack)

-----------------------------------------------------------------------------
\* Statements: ASSERT(want == call), a call, expectedExit = 1, and a call inside
\* of sigsetjmp(exitBuf, 1) that is followed by FAIL.

Asserts(at, call, want) == [kind |-> "assert", line |-> at, call |-> call, want |-> {want}]
Refutes(at, call, bad) == [kind |-> "assert", line |-> at, call |-> call, want |-> {-1, 0, 1} \ {bad}]
Calls(call) == [kind |-> "call", line |-> 0, call |-> call, want |-> {}]
Expect == [kind |-> "expect", line |-> 0, call |-> <<"exit">>, want |-> {}]
Exits(call) == [kind |-> "exits", line |-> 0, call |-> call, want |-> {}]

\* One ASSERT a line, from the given line on.
EachOf(first, name, cases) ==
  [i \in DOMAIN cases |-> Asserts(first + i - 1, <<name, cases[i][1]>>, cases[i][2])]

AddPositiveTest == <<
  Asserts(128, <<"addPositive", 1, 1>>, 2),
  Asserts(129, <<"addPositive", 15, 8>>, 23),
  Asserts(130, <<"addPositive", 96, 200>>, 296)>>

AddPositiveInvalid == <<
  Expect, Exits(<<"addPositive", -1, 1>>), Exits(<<"addPositive", 1, -1>>)>>

IsSpaceTest == EachOf(160, "isSpace", <<
  <<32, 1>>, <<9, 1>>, <<48, 0>>, <<51, 0>>, <<43, 0>>, <<97, 0>>, <<42, 0>>,
  <<10, 1>>, <<9, 1>>, <<32, 1>>, <<13, 1>>, <<10, 1>> >>)

IsDigitTest == EachOf(175, "isDigit",
  [i \in 1 .. 10 |-> <<47 + i, 1>>] \o << <<32, 0>>, <<9, 0>>, <<97, 0>> >>)

\* 2 1 + - * /, not an operator: 1, then + a ? .
TokenTypeTest ==
  EachOf(202, "tokenType", <<<<50, 1>>, <<49, 1>>, <<43, 0>>, <<45, 0>>, <<42, 0>>, <<47, 0>> >>)
    \o <<Refutes(208, <<"tokenType", 49>>, 0)>>
    \o EachOf(209, "tokenType", <<<<43, 0>>, <<97, -1>>, <<63, -1>>, <<46, -1>> >>)

PushOne(at, n, v) == <<
  Calls(<<"stackPush", v>>),
  Asserts(at, <<"count">>, n), Asserts(at + 1, <<"values", n - 1>>, v)>>
PushTest ==
  <<Asserts(247, <<"count">>, 0)>> \o PushOne(249, 1, 123) \o PushOne(252, 2, 456)
    \o PushOne(255, 3, 789) \o PushOne(258, 4, 4)

PushFull ==
  [i \in 1 .. 20 |-> Calls(<<"stackPush", i>>)] \o <<Expect, Exits(<<"stackPush", 999>>)>>

PopTest ==
  [i \in 1 .. 5 |-> Calls(<<"stackPush", i>>)]
    \o [i \in 1 .. 5 |-> Asserts(285 + i, <<"stackPop">>, 6 - i)]
    \o <<Asserts(291, <<"count">>, 0)>>

EvalOpTest == <<
  Asserts(295, <<"evalOp", 43, 1, 2>>, 3),
  Asserts(296, <<"evalOp", 42, 56, 90>>, 5040),
  Asserts(297, <<"evalOp", 45, 3, 13>>, -10),
  Asserts(298, <<"evalOp", 42, 11, 7>>, 77),
  Asserts(299, <<"evalOp", 47, 17, 5>>, 3),
  Asserts(300, <<"evalOp", 43, 0, 0>>, 0),
  Asserts(301, <<"evalOp", 47, 30, 1000>>, 0),
  Asserts(302, <<"evalOp", 47, 99542, 57>>, 1746),
  Asserts(303, <<"evalOp", 45, 51, 5888551>>, -5888500)>>

CSuite == <<
  AddPositiveTest, AddPositiveInvalid, IsSpaceTest, IsDigitTest, TokenTypeTest,
  PushTest, PushFull, PopTest, EvalOpTest>>
=============================================================================
