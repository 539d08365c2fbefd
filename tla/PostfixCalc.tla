----------------------------- MODULE PostfixCalc -----------------------------
(***************************************************************************)
(* eval of csf_assign02/cPostfixCalcEval.c with the functions it calls:     *)
(* one step per call, and one per round of the loops of skipws and          *)
(* consumeInt.                                                             *)
(***************************************************************************)
EXTENDS PostfixChars

VARIABLES
  input,      \* the string
  pc,         \* what eval does next
  s,          \* the pointer into the string, or Null
  dat,        \* the number under way
  op, right, left,
  stack,      \* long stack[MAX_STACK], not initialised
  count,
  end         \* how the evaluation has ended

vars == <<input, pc, s, dat, op, right, left, stack, count, end>>

Slots == 0 .. MaxStack - 1
C == At(input, s)
Runs(p) == end = Running /\ pc = p
Stop(o) == end' = o /\ UNCHANGED <<input, pc, s, dat, op, right, left, stack, count>>

Init ==
  /\ input \in Inputs
  /\ pc = "skipws"
  /\ s = 1
  /\ dat = 0 /\ op = 0 /\ right = 0 /\ left = 0
  /\ stack \in [Slots -> CInt]
  /\ count = 0
  /\ end = Running

SkipSpace ==
  /\ Runs("skipws")
  /\ C # 0 /\ IsSpace(C)
  /\ s' = s + 1
  /\ UNCHANGED <<input, pc, dat, op, right, left, stack, count, end>>

SkipDone ==
  /\ Runs("skipws")
  /\ C = 0 \/ ~IsSpace(C)
  /\ s' = IF C = 0 THEN Null ELSE s
  /\ pc' = "loop"
  /\ UNCHANGED <<input, dat, op, right, left, stack, count, end>>

TokenInt ==
  /\ Runs("loop")
  /\ s # Null
  /\ IsDigit(C)
  /\ pc' = "consumeInt"
  /\ UNCHANGED <<input, s, dat, op, right, left, stack, count, end>>

\* consumeOp
TokenOp ==
  /\ Runs("loop")
  /\ s # Null
  /\ IsOp(C)
  /\ op' = C
  /\ s' = s + 1
  /\ pc' = "right"
  /\ UNCHANGED <<input, dat, right, left, stack, count, end>>

TokenUnknown ==
  /\ Runs("loop")
  /\ s # Null
  /\ ~IsDigit(C) /\ ~IsOp(C)
  /\ Stop(Fatal("Unknown token"))

ConsumeDigit ==
  /\ Runs("consumeInt")
  /\ IsDigit(C)
  /\ dat' = AddDigit(dat, C)
  /\ s' = s + 1
  /\ UNCHANGED <<input, pc, op, right, left, stack, count, end>>

ConsumeDone ==
  /\ Runs("consumeInt")
  /\ ~IsDigit(C)
  /\ pc' = "push"
  /\ UNCHANGED <<input, s, dat, op, right, left, stack, count, end>>

\* stackPush of a number, or of evalOp's result; the locals of the loop's body
\* end with it.
Push ==
  /\ Runs("push")
  /\ IF count >= MaxStack
       THEN Stop(Fatal("Stack is full"))
       ELSE /\ stack' = [stack EXCEPT ![count] = dat]
            /\ count' = count + 1
            /\ dat' = 0
            /\ pc' = "skipws"
            /\ UNCHANGED <<input, s, op, right, left, end>>

PopRight ==
  /\ Runs("right")
  /\ IF count <= 0
       THEN Stop(Fatal("Stack is empty"))
       ELSE /\ count' = count - 1
            /\ right' = stack[count - 1]
            /\ pc' = "left"
            /\ UNCHANGED <<input, s, dat, op, left, stack, end>>

PopLeft ==
  /\ Runs("left")
  /\ IF count <= 0
       THEN Stop(Fatal("Stack is empty"))
       ELSE /\ count' = count - 1
            /\ left' = stack[count - 1]
            /\ pc' = "evalOp"
            /\ UNCHANGED <<input, s, dat, op, right, stack, end>>

Apply ==
  /\ Runs("evalOp")
  /\ IF OpTraps(op, left, right)
       THEN Stop(Trapped)
       ELSE /\ dat' = EvalOp(op, left, right)
            /\ op' = 0 /\ right' = 0 /\ left' = 0
            /\ pc' = "push"
            /\ UNCHANGED <<input, s, stack, count, end>>

\* The end of the string: exactly one value is left, and it is popped.
Result ==
  /\ Runs("loop")
  /\ s = Null
  /\ IF count # 1
       THEN Stop(Fatal("Stack misaligned"))
       ELSE /\ count' = 0
            /\ end' = Value(stack[0])
            /\ UNCHANGED <<input, pc, s, dat, op, right, left, stack>>

Next ==
  \/ SkipSpace \/ SkipDone
  \/ TokenInt \/ TokenOp \/ TokenUnknown
  \/ ConsumeDigit \/ ConsumeDone
  \/ Push \/ PopRight \/ PopLeft \/ Apply
  \/ Result

Spec == Init /\ [][Next]_vars
=============================================================================
