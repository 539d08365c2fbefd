------------------------------- MODULE CalcTest -------------------------------
(***************************************************************************)
(* The tests of calcTest.c: the lines they evaluate, and what they expect.  *)
(* Two consecutive ASSERTs, for success and for the result, are one entry  *)
(* with the line of the first.                                             *)
(***************************************************************************)
EXTENDS Calc

CalcAsserts(at, expr, want) ==
  [kind |-> "assert", line |-> at, call |-> <<"calc_eval", expr>>, want |-> want]
Gives(at, expr, v) == CalcAsserts(at, expr, Ok(v))
Fails(at, expr) == CalcAsserts(at, expr, No)

A == Word("a")
B == Word("b")
C == Word("c")
D == Word("d")
E == Word("e")
Is == Op("=")
Plus == Op("+")
Times == Op("*")
Over == Op("/")
Minus == Dash

EvalLiteral == <<Gives(46, <<Num(42)>>, 42), Gives(49, <<Num(1024)>>, 1024)>>

Assignment == <<
  Gives(57, <<A, Is, Num(4)>>, 4), Gives(61, <<A>>, 4),
  Gives(65, <<B, Is, A>>, 4), Gives(69, <<C, Is, B>>, 4)>>

Computation == <<
  Gives(77, <<Num(33), Plus, Num(15)>>, 48),
  Gives(81, <<Num(33), Minus, Num(15)>>, 18),
  Gives(85, <<Num(33), Times, Num(15)>>, 495),
  Gives(89, <<Num(33), Over, Num(15)>>, 2),
  Gives(93, <<Num(33), Times, Num(0)>>, 0),
  Gives(97, <<Num(87), Over, Num(15)>>, 5),
  Gives(101, <<Num(33), Minus, Num(34)>>, -1),
  Gives(105, <<Num(-33), Plus, Num(34)>>, 1),
  Gives(109, <<Num(-40), Times, Num(-1)>>, 40),
  Gives(113, <<Num(-5), Minus, Num(-35)>>, 30)>>

ComputationAndAssignment == <<
  Gives(121, <<A, Is, Num(33), Plus, Num(15)>>, 48), Gives(124, <<A>>, 48),
  Gives(128, <<B, Is, Num(33), Minus, Num(15)>>, 18), Gives(131, <<B>>, 18),
  Gives(135, <<C, Is, Num(33), Times, Num(15)>>, 495), Gives(138, <<C>>, 495),
  Gives(142, <<D, Is, Num(33), Over, Num(15)>>, 2), Gives(145, <<D>>, 2),
  Gives(149, <<E, Is, A, Plus, B>>, 66),
  Gives(152, <<E, Is, D, Times, C>>, 990),
  Gives(155, <<E, Is, B, Minus, C>>, -477)>>

Update == <<
  Gives(164, <<A, Is, Num(2)>>, 2), Gives(167, <<A, Is, A, Plus, Num(1)>>, 3),
  Gives(169, <<B, Is, A, Times, Num(10)>>, 30), Gives(171, <<B, Is, A, Plus, B>>, 33)>>

InvalidExpr == <<
  Fails(179, <<Plus, Num(4)>>), Fails(181, <<Num(4), Plus>>), Fails(183, <<A>>),
  Fails(185, <<Num(4), Over, Num(0)>>), Fails(187, <<Num(1), Num(-1)>>),
  Fails(189, <<Junk, Over, Num(4)>>)>>

CalcSuite == <<
  EvalLiteral, Assignment, Computation, ComputationAndAssignment, Update, InvalidExpr>>
=============================================================================
