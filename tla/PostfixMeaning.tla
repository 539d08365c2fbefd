--------------------------- MODULE PostfixMeaning ---------------------------
(***************************************************************************)
(* What an expression in postfix means: read from left to right, a number   *)
(* stands for itself, an operator for its value on the last two.  The first *)
(* character at which this fails decides how.  The calculators' loops,      *)
(* pointers and calls are not here.                                         *)
(***************************************************************************)
EXTENDS PostfixChars

\* The values so far, and the number that is being read, if any.
Start == [vals |-> <<>>, reading |-> FALSE, num |-> 0, end |-> Running]

Failed(m, o) == [m EXCEPT !.end = o]

\* The digits so far are a number now.
Flush(m) ==
  IF m.end # Running \/ ~m.reading THEN m
  ELSE IF Len(m.vals) = MaxStack THEN Failed(m, Fatal("Stack is full"))
  ELSE [vals |-> Append(m.vals, Wrap(m.num)), reading |-> FALSE, num |-> 0, end |-> Running]

Operate(m, c) ==
  LET n == Len(m.vals)
      l == m.vals[n - 1]
      r == m.vals[n]
  IN  IF n < 2 THEN Failed(m, Fatal("Stack is empty"))
      ELSE IF OpTraps(c, l, r) THEN Failed(m, Trapped)
      ELSE [m EXCEPT !.vals = Append(SubSeq(@, 1, n - 2), EvalOp(c, l, r))]

\* Another digit, or a character that ends a number.
ReadDigit(m, c) == [m EXCEPT !.reading = TRUE, !.num = 10 * @ + DigitValue(c)]
ReadOther(m, c) ==
  IF m.end # Running \/ IsSpace(c) THEN m
  ELSE IF IsOp(c) THEN Operate(m, c)
  ELSE Failed(m, Fatal("Unknown token"))

ReadChar(m, c) ==
  IF m.end # Running THEN m
  ELSE IF IsDigit(c) THEN ReadDigit(m, c)
  ELSE ReadOther(Flush(m), c)

\* How far one is after each character.
Reading(str) ==
  LET read[k \in 0 .. Len(str)] == IF k = 0 THEN Start ELSE ReadChar(read[k - 1], str[k])
  IN  read

Meaning(str) ==
  LET m == Flush(Reading(str)[Len(str)])
  IN  IF m.end # Running THEN m.end
      ELSE IF Len(m.vals) # 1 THEN Fatal("Stack misaligned")
      ELSE Value(m.vals[1])
=============================================================================
