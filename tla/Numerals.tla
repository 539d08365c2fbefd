------------------------------ MODULE Numerals ------------------------------
(***************************************************************************)
(* Numbers written with digits, the most significant first.                 *)
(***************************************************************************)
EXTENDS Integers, Sequences

\* The number that the digits stand for: Horner's rule.
Numeral(base, digits) ==
  LET value[i \in 0 .. Len(digits)] == IF i = 0 THEN 0 ELSE base * value[i - 1] + digits[i]
  IN  value[Len(digits)]
=============================================================================
