-------------------------------- MODULE CInts --------------------------------
(***************************************************************************)
(* Signed C integers of any width, as the x86-64 builds of the repository   *)
(* compute with them: int in csf_assign06/calc.cpp, long in csf_assign02.   *)
(***************************************************************************)
EXTENDS Integers

CONSTANTS
  IntMin,     \* INT_MIN, LONG_MIN
  IntMax      \* INT_MAX, LONG_MAX

ASSUME IntAssumption ==
  /\ IntMax \in Nat \ {0}
  /\ IntMin = -IntMax - 1        \* two's complement

CInt == IntMin .. IntMax

\* add, sub and imul wrap around.
Wrap(x) == IntMin + ((x - IntMin) % (IntMax - IntMin + 1))

AbsVal(x) == IF x < 0 THEN -x ELSE x

\* C division truncates towards zero.
Quotient(l, r) ==
  LET q == AbsVal(l) \div AbsVal(r)
  IN  IF (l < 0) = (r < 0) THEN q ELSE -q

\* idiv raises an exception when there is no quotient or it does not fit.
Overflows(l, r) == l = IntMin /\ r = -1
Traps(l, r) == r = 0 \/ Overflows(l, r)
=============================================================================
