-------------------------------- MODULE Calc --------------------------------
(***************************************************************************)
(* The expression evaluator of the calculator (csf_assign06/calc.cpp) as   *)
(* pure operators: what evalExpr returns for a line, and the variable map  *)
(* it leaves behind.  A line is the sequence of its whitespace separated   *)
(* tokens, which is how `ss >> var1 >> op >> var2' reads it.               *)
(*                                                                         *)
(* A token is abstracted to what the evaluator can tell apart:             *)
(*   word   only letters: a variable name                                  *)
(*   num    only digits and '-', and std::stoi finds a number in it        *)
(*   dash   the one character '-': an operator, yet isNumeric accepts it   *)
(*   badnum isNumeric accepts it, std::stoi throws ("--5", out of range)   *)
(*   op     one other character                                            *)
(*   junk   anything longer that is neither alphabetic nor numeric         *)
(***************************************************************************)
EXTENDS CInts, Sequences

CONSTANT
  Names       \* the variable names in use

ASSUME CalcAssumption == Names \subseteq STRING

Word(n) == [cls |-> "word", name |-> n, val |-> 0]
Num(v) == [cls |-> "num", name |-> "", val |-> v]
Op(sym) == [cls |-> "op", name |-> sym, val |-> 0]
Dash == [cls |-> "dash", name |-> "-", val |-> 0]
BadNum == [cls |-> "badnum", name |-> "--1", val |-> 0]
Junk == [cls |-> "junk", name |-> "+5", val |-> 0]

Token ==
  {Word(n) : n \in Names} \cup {Num(v) : v \in CInt}
    \cup {Op(sym) : sym \in {"+", "*", "/", "=", "%"}} \cup {Dash, BadNum, Junk}

(***************************************************************************)
(* Outcomes of an evaluation: a value, the failure the callers turn into   *)
(* "Error", or the end of the whole process.                               *)
(***************************************************************************)
Ok(v) == [st |-> "ok", val |-> v]
No == [st |-> "no", val |-> 0]
Abort == [st |-> "abort", val |-> 0]
Outcome == [st : {"ok", "no", "abort"}, val : CInt]

\* The map<string,int>: a function from the names assigned so far.
Store == UNION {[D -> CInt] : D \in SUBSET Names}
EmptyStore == [n \in {} |-> 0]
Put(vars, n, v) == [m \in DOMAIN vars \cup {n} |-> IF m = n THEN v ELSE vars[m]]

IsAlphabetic(tok) == tok.cls = "word"
IsNumeric(tok) == tok.cls \in {"num", "dash", "badnum"}

\* std::stoi; an exception leaves evalExpr, then the C frames above it: the
\* process is terminated, with the mutex still held.
Stoi(tok) == IF tok.cls = "num" THEN Ok(tok.val) ELSE Abort

GetVal(vars, tok) ==
  IF IsAlphabetic(tok) /\ tok.name \in DOMAIN vars THEN Ok(vars[tok.name])
  ELSE IF IsNumeric(tok) THEN Stoi(tok)
  ELSE No

\* idivl traps when the quotient does not fit: SIGFPE ends the process.
Divide(l, r) ==
  IF r = 0 THEN No
  ELSE IF Overflows(l, r) THEN Abort
  ELSE Ok(Quotient(l, r))

\* Seeded fault: sums and differences that do not wrap around.
EvalOpUnbounded(l, op, r) ==
  CASE op = Op("+") -> Ok(l + r)
    [] op = Dash    -> Ok(l - r)
    [] op = Op("*") -> Ok(Wrap(l * r))
    [] op = Op("/") -> Divide(l, r)
    [] OTHER        -> No

EvalOp(l, op, r) ==
  CASE op = Op("+") -> Ok(Wrap(l + r))
    [] op = Dash    -> Ok(Wrap(l - r))
    [] op = Op("*") -> Ok(Wrap(l * r))
    [] op = Op("/") -> Divide(l, r)
    [] OTHER        -> No

(***************************************************************************)
(* evalOpr: one operand, or two operands and a one character operator.     *)
(* Tokens after the third are never looked at.  EvalOp fails on every      *)
(* token that is not one of the four operators, so the length check on op  *)
(* needs no clause of its own.                                             *)
(***************************************************************************)
IsBinary(e) == Len(e) >= 3

SecondOperand(vars, e, l) ==
  LET r == GetVal(vars, e[3])
  IN  IF r.st = "ok" THEN EvalOp(l, e[2], r.val) ELSE r

EvalOpr(vars, e) ==
  IF Len(e) \in {0, 2} THEN No
  ELSE LET l == GetVal(vars, e[1])
       IN  IF l.st = "ok" /\ IsBinary(e) THEN SecondOperand(vars, e, l.val) ELSE l

\* evalExpr: `var = rest' first, and the whole line when that is not it or
\* rest has no value.
IsAssignment(e) == Len(e) >= 2 /\ IsAlphabetic(e[1]) /\ e[2] = Op("=")
Rest(e) == SubSeq(e, 3, Len(e))

EvalExpr(vars, e) ==
  LET r == EvalOpr(vars, Rest(e))
      w == EvalOpr(vars, e)
  IN  IF IsAssignment(e) /\ r.st # "no"
      THEN [out  |-> r,
            vars |-> IF r.st = "ok" THEN Put(vars, e[1].name, r.val) ELSE vars]
      ELSE [out |-> w, vars |-> vars]
=============================================================================
