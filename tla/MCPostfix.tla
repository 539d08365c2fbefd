------------------------------ MODULE MCPostfix ------------------------------
(***************************************************************************)
(* All short strings over a few characters of every class, and some longer  *)
(* ones, on a stack of two three-bit numbers.                               *)
(***************************************************************************)
EXTENDS PostfixAsm

MCIntMin == -4
Alphabet == {32, 45, 47, 52, 55, 63}      \* space - / 4 7 ?  (7 wraps to -1)
MaxLen == 5

Longer == {
  <<49, 9, 50, 13, 43, 10>>,              \* the white space there is
  <<51, 32, 50, 42, 49, 45, 32, 49, 43>>, \* 3 2*1- 1+
  <<52, 32, 48, 32, 49, 45, 47>>,         \* 4 0 1-/  traps
  <<51, 32, 48, 47>>,                     \* 3 0/     traps
  <<49, 50, 51, 52>>,                     \* a number that wraps twice
  <<49, 44, -1>>, <<-1>> }                \* characters that are negative

MCInputs == UNION {[1 .. n -> Alphabet] : n \in 0 .. MaxLen} \cup Longer

=============================================================================
