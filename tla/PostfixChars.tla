---------------------------- MODULE PostfixChars ----------------------------
(***************************************************************************)
(* What the C and the assembly version of the postfix calculator            *)
(* (csf_assign02) have in common: strings, character classes and the        *)
(* arithmetic of evalOp.  Characters are their codes, as in the code.       *)
(***************************************************************************)
EXTENDS CInts, Sequences

CONSTANTS
  MaxStack,   \* MAX_STACK
  Inputs      \* the strings eval may be called with

Char == -128 .. 127 \ {0}

ASSUME PostfixAssumption ==
  /\ MaxStack \in Nat \ {0}
  /\ Inputs \subseteq Seq(Char)

Null == 0
\* The character that pointer i points to: a string ends with NUL.
At(str, i) == IF i \in 1 .. Len(str) THEN str[i] ELSE 0

IsSpace(c) == c \in {9, 10, 13, 32}
IsDigit(c) == c > 47 /\ c < 58
IsOp(c) == c \in {42, 43, 45, 47}
DigitValue(c) == c - 48

\* One round of consumeInt's loop.
AddDigit(n, c) == Wrap(Wrap(10 * n) + DigitValue(c))

\* Whether evalOp ends the process: idiv raises SIGFPE.
OpTraps(op, l, r) == op = 47 /\ Traps(l, r)

EvalOp(op, l, r) ==
  CASE op = 43 -> Wrap(l + r)
    [] op = 45 -> Wrap(l - r)
    [] op = 42 -> Wrap(l * r)
    [] op = 47 -> Quotient(l, r)
    [] OTHER   -> -1

\* How an evaluation ends: with a value, with a message, or with a signal.
Running == [end |-> "no", val |-> 0]
Value(v) == [end |-> "value", val |-> v]
Fatal(msg) == [end |-> msg, val |-> 0]
Messages == {"Stack is full", "Stack is empty", "Unknown token", "Stack misaligned"}
Trapped == Fatal("SIGFPE")
Outcome == [end : {"no", "value", "SIGFPE"} \cup Messages, val : CInt]
=============================================================================
