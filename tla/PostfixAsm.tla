----------------------------- MODULE PostfixAsm -----------------------------
(***************************************************************************)
(* The assembly version of eval (csf_assign02/asmPostfixCalcEval.S and      *)
(* asmPostfixCalcFuncs.S).  Its locals are 8-byte words of one frame, which *)
(* the functions it calls write through pointers; program points are named *)
(* after the labels.  Of a register only what is read again is kept.        *)
(***************************************************************************)
EXTENDS PostfixMeaning

CONSTANT
  Garbage     \* what words of the stack that were never written may hold

ASSUME GarbageAssumption == Garbage \subseteq CInt

\* The frame, as word offsets from %rbp: eval lays it out at 0, 8, 16, 176, 184
\* and 192, for a stack of 20.
S == 0
Count == 1
Stack == 2
Tmp == Stack + MaxStack
Right == Tmp + 1
Left == Tmp + 2
Pad == Tmp + 3
Frame == 0 .. Pad

VARIABLES
  input,
  label,      \* the program point
  frame,
  ptr,        \* 0(%rbp) of skipws or consumeInt
  r12,        \* consumeInt's number
  rdx,        \* stackPush's val
  end

avars == <<input, label, frame, ptr, r12, rdx, end>>

CharAt(p) == At(input, p)
Runs(l) == end = Running /\ label = l
Goto(l) == label' = l
Stop(o) == end' = o /\ UNCHANGED <<input, label, frame, ptr, r12, rdx>>

\* eval's prologue up to the first call of skipws.
Init ==
  /\ input \in Inputs
  /\ label = "LskipLoop"
  /\ \E junk \in [Frame -> Garbage] : frame = [junk EXCEPT ![S] = 1, ![Count] = 0]
  /\ ptr = 1
  /\ r12 = 0 /\ rdx = 0
  /\ end = Running

\* skipws
LskipTop ==
  /\ Runs("LskipLoop")
  /\ CharAt(ptr) # 0 /\ IsSpace(CharAt(ptr))
  /\ ptr' = ptr + 1
  /\ UNCHANGED <<input, label, frame, r12, rdx, end>>

LskipExit ==
  /\ Runs("LskipLoop")
  /\ CharAt(ptr) = 0 \/ ~IsSpace(CharAt(ptr))
  /\ Goto("LskipAfterLoop")
  /\ UNCHANGED <<input, frame, ptr, r12, rdx, end>>

\* The character is tested again, and eval keeps what is returned.
LskipAfterLoop ==
  /\ Runs("LskipAfterLoop")
  /\ frame' = [frame EXCEPT ![S] = IF CharAt(ptr) = 0 THEN Null ELSE ptr]
  /\ Goto("LloopTop")
  /\ UNCHANGED <<input, ptr, r12, rdx, end>>

\* tokenType is called and its answer compared.
LloopTop ==
  /\ Runs("LloopTop")
  /\ LET c == CharAt(frame[S])
     IN  Goto(IF frame[S] = Null THEN "Ldone"
              ELSE IF IsDigit(c) THEN "LtokenInt"
              ELSE IF IsOp(c) THEN "LtokenOp"
              ELSE "LtokenBad")
  /\ UNCHANGED <<input, frame, ptr, r12, rdx, end>>

\* Seeded fault: consumeInt starts from the last number it read.
LtokenIntKeepsNumber ==
  /\ Runs("LtokenInt")
  /\ frame' = [frame EXCEPT ![Tmp] = 0]
  /\ ptr' = frame[S]
  /\ Goto("LconsumeIntLoop")
  /\ UNCHANGED <<input, r12, rdx, end>>

LtokenInt ==
  /\ Runs("LtokenInt")
  /\ frame' = [frame EXCEPT ![Tmp] = 0]
  /\ ptr' = frame[S]
  /\ r12' = 0
  /\ Goto("LconsumeIntLoop")
  /\ UNCHANGED <<input, rdx, end>>

\* Seeded fault: the string pointer is not incremented.
LconsumeIntStuck ==
  /\ Runs("LconsumeIntLoop")
  /\ IsDigit(CharAt(ptr))
  /\ r12' = AddDigit(r12, CharAt(ptr))
  /\ UNCHANGED <<input, label, frame, ptr, rdx, end>>

LconsumeIntLoopTop ==
  /\ Runs("LconsumeIntLoop")
  /\ IsDigit(CharAt(ptr))
  /\ r12' = AddDigit(r12, CharAt(ptr))
  /\ ptr' = ptr + 1
  /\ UNCHANGED <<input, label, frame, rdx, end>>

\* The number goes through memory into the argument of stackPush.
LconsumeIntAfterLoop ==
  /\ Runs("LconsumeIntLoop")
  /\ ~IsDigit(CharAt(ptr))
  /\ frame' = [frame EXCEPT ![Tmp] = r12, ![S] = ptr]
  /\ rdx' = r12
  /\ Goto("stackPush")
  /\ UNCHANGED <<input, ptr, r12, end>>

\* Seeded fault: jle instead of jl, which lets a value into the next local.
PushPastEnd ==
  /\ Runs("stackPush")
  /\ frame[Count] <= MaxStack
  /\ frame' = [frame EXCEPT ![Stack + frame[Count]] = rdx, ![Count] = frame[Count] + 1]
  /\ Goto("LloopBottom")
  /\ UNCHANGED <<input, ptr, r12, rdx, end>>

\* stackPush, from either call.
LdonePush ==
  /\ Runs("stackPush")
  /\ frame[Count] < MaxStack
  /\ frame' = [frame EXCEPT ![Stack + frame[Count]] = rdx, ![Count] = frame[Count] + 1]
  /\ Goto("LloopBottom")
  /\ UNCHANGED <<input, ptr, r12, rdx, end>>

LpushErr ==
  /\ Runs("stackPush")
  /\ frame[Count] >= MaxStack
  /\ Stop(Fatal("Stack is full"))

\* consumeOp stores an int; the high half of the word is not read.
LtokenOp ==
  /\ Runs("LtokenOp")
  /\ frame' = [frame EXCEPT ![Tmp] = CharAt(frame[S]), ![S] = frame[S] + 1]
  /\ Goto("popRight")
  /\ UNCHANGED <<input, ptr, r12, rdx, end>>

\* stackPop returns the value, which eval stores in word w.
PopInto(w) ==
  /\ frame[Count] > 0
  /\ frame' = [frame EXCEPT ![Count] = frame[Count] - 1,
                            ![w] = frame[Stack + frame[Count] - 1]]

PopRight ==
  /\ Runs("popRight")
  /\ PopInto(Right)
  /\ Goto("popLeft")
  /\ UNCHANGED <<input, ptr, r12, rdx, end>>

PopLeft ==
  /\ Runs("popLeft")
  /\ PopInto(Left)
  /\ Goto("evalOp")
  /\ UNCHANGED <<input, ptr, r12, rdx, end>>

LpopErr ==
  /\ Runs("popRight") \/ Runs("popLeft")
  /\ frame[Count] <= 0
  /\ Stop(Fatal("Stack is empty"))

\* Seeded fault: dividend and divisor, minuend and subtrahend swapped.
CallEvalOpSwapped ==
  /\ Runs("evalOp")
  /\ IF OpTraps(frame[Tmp], frame[Right], frame[Left])
       THEN Stop(Trapped)
       ELSE /\ rdx' = EvalOp(frame[Tmp], frame[Right], frame[Left])
            /\ Goto("stackPush")
            /\ UNCHANGED <<input, frame, ptr, r12, end>>

CallEvalOp ==
  /\ Runs("evalOp")
  /\ IF OpTraps(frame[Tmp], frame[Left], frame[Right])
       THEN Stop(Trapped)
       ELSE /\ rdx' = EvalOp(frame[Tmp], frame[Left], frame[Right])
            /\ Goto("stackPush")
            /\ UNCHANGED <<input, frame, ptr, r12, end>>

LloopBottom ==
  /\ Runs("LloopBottom")
  /\ ptr' = frame[S]
  /\ Goto("LskipLoop")
  /\ UNCHANGED <<input, frame, r12, rdx, end>>

LtokenBad ==
  /\ Runs("LtokenBad")
  /\ Stop(Fatal("Unknown token"))

Ldone ==
  /\ Runs("Ldone")
  /\ IF frame[Count] # 1
       THEN Stop(Fatal("Stack misaligned"))
       ELSE /\ end' = Value(frame[Stack])
            /\ frame' = [frame EXCEPT ![Count] = 0]
            /\ UNCHANGED <<input, label, ptr, r12, rdx>>

Step ==
  \/ LskipTop \/ LskipExit \/ LskipAfterLoop
  \/ LloopTop
  \/ LtokenInt \/ LconsumeIntLoopTop \/ LconsumeIntAfterLoop
  \/ LtokenOp \/ PopRight \/ PopLeft \/ LpopErr \/ CallEvalOp
  \/ LdonePush \/ LpushErr
  \/ LloopBottom \/ LtokenBad \/ Ldone

Next == Step \/ (end # Running /\ UNCHANGED avars)

Spec == Init /\ [][Next]_avars
FairSpec == Spec /\ WF_avars(Step)

-----------------------------------------------------------------------------

Labels ==
  {"LskipLoop", "LskipAfterLoop", "LloopTop", "LtokenInt", "LconsumeIntLoop",
   "stackPush", "LtokenOp", "popRight", "popLeft", "evalOp", "LloopBottom",
   "LtokenBad", "Ldone"}

\* Each word of the frame keeps to its use: no push reaches the word after the
\* stack, and no pointer runs past the NUL of the string.
Positions(str) == 1 .. Len(str) + 1
Use(str, w) ==
  CASE w = S     -> Positions(str) \cup {Null}
    [] w = Count -> 0 .. MaxStack
    [] w = Tmp   -> CInt \cup Char
    [] OTHER     -> CInt
FrameOK(str, f) == f \in [Frame -> Int] /\ \A w \in Frame : f[w] \in Use(str, w)

TypeOK ==
  /\ input \in Inputs
  /\ label \in Labels
  /\ FrameOK(input, frame)
  /\ ptr \in Positions(input)
  /\ r12 \in CInt /\ rdx \in CInt
  /\ end \in Outcome

\* What was found out about the token still holds when it is consumed, and NULL
\* is not followed.
Tokens ==
  LET c == CharAt(frame[S])
  IN  /\ label = "LskipAfterLoop" => CharAt(ptr) = 0 \/ ~IsSpace(CharAt(ptr))
      /\ label = "LtokenInt" => IsDigit(c)
      /\ label = "LtokenOp"  => IsOp(c)
      /\ label = "LtokenBad" => ~IsDigit(c) /\ ~IsOp(c)
      /\ label = "Ldone"     => frame[S] = Null
      /\ frame[S] = Null     => label \in {"LloopTop", "Ldone"}

IInv == TypeOK /\ Tokens

\* Which of the assembly's places hold the C variables.
StackOf(f) == [i \in 0 .. MaxStack - 1 |-> f[Stack + i]]
InSkip == label \in {"LloopBottom", "LskipLoop", "LskipAfterLoop"}
InC == INSTANCE PostfixCalc WITH
  pc <- CASE InSkip -> "skipws"
          [] label \in {"LtokenInt", "LconsumeIntLoop"} -> "consumeInt"
          [] label = "stackPush" -> "push"
          [] label = "popRight"  -> "right"
          [] label = "popLeft"   -> "left"
          [] label = "evalOp"    -> "evalOp"
          [] OTHER -> "loop",
  s <- IF label \in {"LskipLoop", "LskipAfterLoop", "LconsumeIntLoop"} THEN ptr ELSE frame[S],
  dat <- CASE label = "LconsumeIntLoop" -> r12
           [] label = "stackPush" -> rdx
           [] OTHER -> 0,
  op <- IF label \in {"popRight", "popLeft", "evalOp"} THEN frame[Tmp] ELSE 0,
  right <- IF label \in {"popLeft", "evalOp"} THEN frame[Right] ELSE 0,
  left <- IF label = "evalOp" THEN frame[Left] ELSE 0,
  stack <- StackOf(frame),
  count <- frame[Count]

\* The assembly functions are `behaviorally identical to the C functions'
\* (cPostfixCalc.h:4-5): every run of one is a run of the other.
RefinesC == InC!Spec

\* However it gets there, the calculator ends with the value of the expression,
\* or with the message for the first thing that is wrong with it
\* (cTests.c testEval, testEvalInvalid; sysTests.sh).
EvaluatesPostfix == end # Running => end = Meaning(input)

\* Every string is dealt with in the end: each loop moves the pointer on.
Terminates == <>(end # Running)
=============================================================================
