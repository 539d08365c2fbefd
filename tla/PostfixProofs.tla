---------------------------- MODULE PostfixProofs ----------------------------
(***************************************************************************)
(* The assembly version of the postfix calculator stays in its frame and    *)
(* does what the C version does, for every string, stack size and width of *)
(* a long.                                                                  *)
(***************************************************************************)
EXTENDS PostfixAsm, SequenceTheorems, WellFoundedInduction, TLAPS

\* The words of the frame are distinct, and the stack lies between Count and Tmp.
LEMMA Layout ==
  /\ MaxStack \in Nat /\ MaxStack > 0
  /\ S = 0 /\ Count = 1 /\ Stack = 2 /\ Tmp = MaxStack + 2
  /\ Right = MaxStack + 3 /\ Left = MaxStack + 4
  /\ Frame = 0 .. MaxStack + 5
BY PostfixAssumption DEF S, Count, Stack, Tmp, Right, Left, Pad, Frame

\* A wrapped result is a long (cPostfixCalcFuncs.c, addition to multiplication).
LEMMA WrapType ==
  ASSUME NEW x \in Int
  PROVE  Wrap(x) \in CInt
<1>1. IntMax - IntMin + 1 \in Nat \ {0} /\ IntMin \in Int /\ IntMax \in Int
  BY IntAssumption
<1>2. (x - IntMin) % (IntMax - IntMin + 1) \in 0 .. (IntMax - IntMin)
  BY <1>1
<1> QED BY <1>1, <1>2 DEF Wrap, CInt

\* A quotient of magnitudes is at most the dividend, and at most half of it
\* unless the divisor is one.
LEMMA DivBound ==
  ASSUME NEW a \in Nat, NEW b \in Nat, b > 0
  PROVE  /\ a \div b \in Nat
         /\ a \div b <= a
         /\ b > 1 => 2 * (a \div b) <= a
<1> DEFINE q == a \div b
<1>1. q \in Int /\ b * q <= a /\ a < b * q + b
  OBVIOUS
<1> QED BY <1>1

\* A division that does not trap has a long for its quotient.
LEMMA QuotientType ==
  ASSUME NEW l \in CInt, NEW r \in CInt, ~Traps(l, r)
  PROVE  Quotient(l, r) \in CInt
<1> DEFINE a == AbsVal(l)
           b == AbsVal(r)
           q == a \div b
<1>1. IntMax \in Nat /\ IntMax > 0 /\ IntMin = -IntMax - 1
  BY IntAssumption
<1>2. l \in IntMin .. IntMax /\ r \in IntMin .. IntMax
  BY DEF CInt
<1>3. /\ a \in Nat /\ a <= IntMax + 1 /\ (a = IntMax + 1 => l = IntMin)
      /\ b \in Nat /\ b > 0 /\ (b = 1 => r = 1 \/ r = -1)
  BY <1>1, <1>2 DEF AbsVal, Traps, Overflows
<1>4. q \in Nat /\ q <= a /\ (b > 1 => 2 * q <= a)
  BY <1>3, DivBound
<1>5. Quotient(l, r) = IF (l < 0) = (r < 0) THEN q ELSE -q
  BY DEF Quotient
<1> HIDE DEF q, a, b
<1>6. CASE q <= IntMax
  BY <1>1, <1>4, <1>5, <1>6 DEF CInt
<1>7. CASE q > IntMax
  <2>1. q = IntMax + 1 /\ a = IntMax + 1
    BY <1>1, <1>3, <1>4, <1>7
  <2>2. b = 1
    BY <2>1, <1>1, <1>3, <1>4
  <2>3. l = IntMin /\ r = 1
    BY <2>1, <2>2, <1>3 DEF Traps, Overflows
  <2>4. Quotient(l, r) = -q
    BY <2>3, <1>1, <1>5
  <2> QED BY <2>1, <2>4, <1>1 DEF CInt
<1> QED BY <1>1, <1>4, <1>6, <1>7

\* Zero and minus one are longs.
LEMMA SmallLongs == 0 \in CInt /\ -1 \in CInt /\ \A v \in CInt : v \in Int
BY IntAssumption DEF CInt

\* Only a pointer before the NUL points to a character, and characters have codes
\* (skipws, line 154).
LEMMA InString ==
  ASSUME NEW str \in Inputs, NEW i \in Int
  PROVE  /\ At(str, i) \in Int
         /\ At(str, i) # 0 => i \in 1 .. Len(str) /\ At(str, i) \in Char
<1>1. str \in Seq(Char)
  BY PostfixAssumption
<1>2. i \in 1 .. Len(str) => str[i] \in Char
  BY <1>1
<1>3. \A c \in Char : c \in Int
  BY DEF Char
<1> QED BY <1>2, <1>3 DEF At

\* consumeInt keeps its number a long (lines 245-248).
LEMMA AddDigitType ==
  ASSUME NEW n \in CInt, NEW c \in Int
  PROVE  AddDigit(n, c) \in CInt
<1>1. 10 * n \in Int
  BY SmallLongs
<1>2. Wrap(10 * n) \in CInt
  BY <1>1, WrapType
<1>3. Wrap(10 * n) + DigitValue(c) \in Int
  BY <1>2, SmallLongs DEF DigitValue
<1> QED BY <1>3, WrapType DEF AddDigit

\* evalOp returns a long unless idiv raises its exception (lines 365-392).
LEMMA EvalOpType ==
  ASSUME NEW l \in CInt, NEW r \in CInt, NEW op, ~OpTraps(op, l, r)
  PROVE  EvalOp(op, l, r) \in CInt
<1>1. l + r \in Int /\ l - r \in Int /\ l * r \in Int
  BY SmallLongs
<1>2. Wrap(l + r) \in CInt /\ Wrap(l - r) \in CInt /\ Wrap(l * r) \in CInt
  BY <1>1, WrapType
<1>3. op = 47 => Quotient(l, r) \in CInt
  BY QuotientType DEF OpTraps
<1> QED BY <1>2, <1>3, SmallLongs DEF EvalOp

\* What an evaluation ends with.
LEMMA Ends ==
  /\ Running \in Outcome /\ Trapped \in Outcome
  /\ \A m \in Messages : Fatal(m) \in Outcome
  /\ \A v \in CInt : Value(v) \in Outcome
BY SmallLongs DEF Running, Trapped, Fatal, Value, Outcome

-----------------------------------------------------------------------------

\* The words that hold neither the pointer, the count nor the operator are longs.
LEMMA LongWords ==
  ASSUME NEW str
  PROVE
  /\ S \in Frame /\ Count \in Frame /\ Tmp \in Frame
  /\ \A i \in 0 .. MaxStack - 1 : Stack + i \in Frame /\ Use(str, Stack + i) = CInt
  /\ Right \in Frame /\ Use(str, Right) = CInt
  /\ Left \in Frame /\ Use(str, Left) = CInt
  /\ Use(str, S) = Positions(str) \cup {Null}
  /\ \A n \in 0 .. MaxStack : n \in Int /\ n \in Use(str, Count)
  /\ \A n \in Use(str, Count) : n \in 0 .. MaxStack
  /\ Use(str, Tmp) = CInt \cup Char
BY Layout DEF Use

\* Writing a word with what it is for keeps the frame in order, and the others as
\* they were.
LEMMA Write ==
  \A str, f, w, v, g :
    /\ FrameOK(str, f)
    /\ w \in Frame /\ v \in Int /\ v \in Use(str, w)
    /\ g = [f EXCEPT ![w] = v]
    => FrameOK(str, g) /\ g[w] = v /\ \A x \in Frame : x # w => g[x] = f[x]
BY DEF FrameOK

LEMMA InitInv == Init => IInv
<1> SUFFICES ASSUME Init PROVE IInv
  OBVIOUS
<1>1. PICK junk \in [Frame -> Garbage] : frame = [junk EXCEPT ![S] = 1, ![Count] = 0]
  BY DEF Init
<1>2. junk \in [Frame -> CInt] /\ \A w \in Frame : junk[w] \in Int
  BY GarbageAssumption, SmallLongs
<1>3. /\ frame \in [Frame -> Int] /\ frame[S] = 1 /\ frame[Count] = 0
      /\ \A w \in Frame \ {S, Count} : frame[w] \in CInt
  BY <1>1, <1>2, Layout, SmallLongs
<1>4. Len(input) \in Nat
  BY PostfixAssumption DEF Init
<1>5. FrameOK(input, frame)
  BY <1>3, <1>4, Layout DEF FrameOK, Use, Positions
<1>6. TypeOK
  BY <1>4, <1>5, SmallLongs, Ends DEF Init, TypeOK, Labels, Positions
<1> QED BY <1>3, <1>6 DEF IInv, Tokens, Init, Null

LEMMA Inductive == Spec => []IInv
<1>1. ASSUME IInv, [Next]_avars PROVE IInv'
  <2>1. TypeOK /\ Tokens
    BY <1>1 DEF IInv
  <2>2. /\ Len(input) \in Nat /\ input \in Inputs
        /\ frame[S] \in Positions(input) \cup {Null} /\ frame[S] \in Int
        /\ frame[Count] \in 0 .. MaxStack /\ frame[Count] \in Int
        /\ FrameOK(input, frame) /\ ptr \in Positions(input) /\ ptr \in Int
        /\ frame[S] # Null => frame[S] \in Positions(input)
    BY <2>1, PostfixAssumption, LongWords DEF TypeOK, FrameOK, Positions
  <2>3. /\ CharAt(ptr) \in Int /\ CharAt(frame[S]) \in Int
        /\ CharAt(ptr) # 0 => ptr + 1 \in Positions(input)
        /\ CharAt(frame[S]) # 0 =>
             /\ frame[S] \in Positions(input) /\ frame[S] + 1 \in Positions(input)
             /\ CharAt(frame[S]) \in Char
    <3>1. \A i \in Int : i \in 1 .. Len(input) =>
             i \in Positions(input) /\ i + 1 \in Positions(input)
      BY <2>2 DEF Positions
    <3>2. \A i \in Int :
             /\ At(input, i) \in Int
             /\ At(input, i) # 0 => i \in 1 .. Len(input) /\ At(input, i) \in Char
      BY <2>2, InString
    <3>3. \A i \in Int : At(input, i) # 0 =>
             /\ i \in Positions(input) /\ i + 1 \in Positions(input)
             /\ At(input, i) \in Char
      BY <3>1, <3>2, Zenon
    <3> QED BY <2>2, <3>2, <3>3, Zenon DEF CharAt
  <2>4. input' = input
    BY <1>1 DEF Next, Step, avars, Stop, LskipTop, LskipExit, LskipAfterLoop, LloopTop,
         LtokenInt, LconsumeIntLoopTop, LconsumeIntAfterLoop, LtokenOp, PopRight, PopLeft,
         LpopErr, CallEvalOp, LdonePush, LpushErr, LloopBottom, LtokenBad, Ldone
  <2>5. \A w, v : w \in Frame /\ v \in Int /\ v \in Use(input, w) =>
           FrameOK(input, [frame EXCEPT ![w] = v])
    BY <2>2, Write
  <2> USE <2>4
  <2> DEFINE Kept == FrameOK(input, frame') /\ frame'[S] # Null
  <2>7. CASE LskipTop
    BY <2>1, <2>3, <2>7 DEF LskipTop, Runs, IInv, TypeOK, Tokens, CharAt
  <2>8. CASE LskipExit
    BY <2>1, <2>8 DEF LskipExit, Runs, Goto, IInv, TypeOK, Tokens, CharAt, Labels
  <2>9. CASE LskipAfterLoop
    <3>0. PICK v : v = IF CharAt(ptr) = 0 THEN Null ELSE ptr
      OBVIOUS
    <3>1. v \in Int /\ v \in Positions(input) \cup {Null}
      BY <2>2, <3>0 DEF Null
    <3>2. frame' = [frame EXCEPT ![S] = v]
      BY <2>9, <3>0 DEF LskipAfterLoop
    <3>3. FrameOK(input, frame')
      BY <2>5, <3>1, <3>2, LongWords
    <3> QED BY <2>1, <2>9, <3>3 DEF LskipAfterLoop, Goto, IInv, TypeOK, Tokens, Labels
  <2>10. CASE LloopTop
    BY <2>1, <2>10 DEF LloopTop, Goto, IInv, TypeOK, Tokens, CharAt, Labels
  <2>11. CASE LtokenInt
    <3>1. frame[S] # Null /\ frame[S] \in Positions(input)
      BY <2>1, <2>2, <2>11 DEF LtokenInt, Tokens, Runs
    <3>2. Kept
      BY SMTT(30), <2>2, <2>5, <2>11, <3>1, LongWords, Layout, SmallLongs DEF LtokenInt, FrameOK
    <3> QED BY <2>1, <2>11, <3>1, <3>2, SmallLongs
         DEF LtokenInt, Goto, IInv, TypeOK, Tokens, Labels
  <2>12. CASE LconsumeIntLoopTop
    <3>1. r12' \in CInt /\ ptr' \in Positions(input)
      BY <2>1, <2>3, <2>12, AddDigitType DEF LconsumeIntLoopTop, TypeOK, IsDigit
    <3> QED BY <2>1, <2>12, <3>1
         DEF LconsumeIntLoopTop, Runs, IInv, TypeOK, Tokens, CharAt
  <2>13. CASE LconsumeIntAfterLoop
    <3>0. PICK f : f = [frame EXCEPT ![Tmp] = r12]
      OBVIOUS
    <3>1. FrameOK(input, f)
      BY <2>1, <2>5, <3>0, LongWords, SmallLongs DEF TypeOK
    <3>2. frame' = [f EXCEPT ![S] = ptr]
      BY <2>13, <3>0 DEF LconsumeIntAfterLoop
    <3>3. ptr \in Int /\ ptr \in Use(input, S) /\ ptr # Null
      BY <2>2, LongWords DEF Positions, Null
    <3>4. Kept
      BY <3>1, <3>2, <3>3, LongWords DEF FrameOK
    <3> QED BY <2>1, <2>2, <2>13, <3>4
         DEF LconsumeIntAfterLoop, Goto, IInv, TypeOK, Tokens, Labels
  <2>14. CASE LtokenOp
    <3>0. PICK c, f : c = CharAt(frame[S]) /\ f = [frame EXCEPT ![Tmp] = c]
      OBVIOUS
    <3>1. c \in Int /\ c \in Char /\ frame[S] + 1 \in Positions(input)
      BY <2>1, <2>3, <2>14, <3>0 DEF LtokenOp, Runs, Tokens, IsOp
    <3>2. frame' = [f EXCEPT ![S] = frame[S] + 1]
      BY <2>14, <3>0 DEF LtokenOp
    <3>3. FrameOK(input, f)
      BY <2>5, <3>0, <3>1, LongWords
    <3>4. frame[S] + 1 \in Int /\ frame[S] + 1 \in Use(input, S) /\ frame[S] + 1 # Null
      BY <2>2, <3>1, LongWords DEF Positions, Null
    <3>5. Kept
      BY <3>2, <3>3, <3>4, LongWords DEF FrameOK
    <3> QED BY <2>1, <2>14, <3>5 DEF LtokenOp, Goto, IInv, TypeOK, Tokens, Labels
  <2>15. ASSUME NEW w \in Frame, Use(input, w) = CInt, w # S, PopInto(w)
         PROVE  FrameOK(input, frame') /\ frame'[S] = frame[S]
    <3>0. PICK v, f : /\ v = frame[Stack + (frame[Count] - 1)]
                      /\ f = [frame EXCEPT ![Count] = frame[Count] - 1]
      OBVIOUS
    <3>1. frame[Count] - 1 \in 0 .. MaxStack - 1 /\ frame[Count] - 1 \in 0 .. MaxStack
      BY <2>2, <2>15, Layout DEF PopInto
    <3>2. v \in CInt /\ v \in Int
      BY <2>2, <3>0, <3>1, LongWords, SmallLongs DEF FrameOK
    <3>3. FrameOK(input, f)
      BY <2>5, <3>0, <3>1, LongWords
    <3>4. f[S] = frame[S]
      BY <2>2, <3>0, Layout DEF FrameOK
    <3>5. Stack + frame[Count] - 1 = Stack + (frame[Count] - 1)
      BY <2>2, Layout
    <3>6. frame' = [f EXCEPT ![w] = v]
      BY <2>15, <3>0, <3>5 DEF PopInto
    <3> QED BY <2>15, <3>2, <3>3, <3>4, <3>6, LongWords DEF FrameOK
  <2>16. CASE PopRight \/ PopLeft
    <3>1. Left # S /\ Right # S
      BY Layout
    <3>2. FrameOK(input, frame') /\ frame'[S] = frame[S]
      BY <2>15, <2>16, <3>1, LongWords DEF PopRight, PopLeft
    <3> QED BY <2>1, <2>16, <3>2
         DEF PopRight, PopLeft, Runs, Goto, IInv, TypeOK, Tokens, Labels
  <2>17. CASE LpopErr \/ LpushErr \/ LtokenBad
    BY <2>1, <2>17, Ends
       DEF LpopErr, LpushErr, LtokenBad, Stop, IInv, TypeOK, Tokens, CharAt, Messages
  <2>18. CASE CallEvalOp
    <3> DEFINE o == frame[Tmp]
               l == frame[Left]
               r == frame[Right]
    <3>1. l \in CInt /\ r \in CInt
      BY <2>2, LongWords DEF FrameOK
    <3>2. ~OpTraps(o, l, r) => EvalOp(o, l, r) \in CInt
      BY <3>1, EvalOpType
    <3>3. CASE OpTraps(o, l, r)
      BY <2>1, <2>18, <3>3, Ends DEF CallEvalOp, Stop, IInv, TypeOK, Tokens, CharAt
    <3>4. CASE ~OpTraps(o, l, r)
      BY <2>1, <2>18, <3>2, <3>4
         DEF CallEvalOp, Runs, Goto, IInv, TypeOK, Tokens, CharAt, Labels
    <3> QED BY <3>3, <3>4
  <2>19. CASE LdonePush
    <3>0. PICK f : f = [frame EXCEPT ![Stack + frame[Count]] = rdx]
      OBVIOUS
    <3>1. frame[Count] \in 0 .. MaxStack - 1 /\ frame[Count] + 1 \in 0 .. MaxStack
      BY <2>2, <2>19, Layout DEF LdonePush
    <3>2. FrameOK(input, f)
      BY <2>1, <2>5, <3>0, <3>1, LongWords, SmallLongs DEF TypeOK
    <3>3. f[S] = frame[S]
      BY <2>2, <3>0, <3>1, Layout DEF FrameOK
    <3>4. frame' = [f EXCEPT ![Count] = frame[Count] + 1]
      BY <2>19, <3>0 DEF LdonePush
    <3>5. FrameOK(input, frame') /\ frame'[S] = f[S]
      <4>1. S # Count
        BY Layout
      <4>2. frame[Count] + 1 \in Int /\ frame[Count] + 1 \in Use(input, Count)
        BY <2>2, <3>1, LongWords
      <4> QED BY <3>2, <3>4, <4>1, <4>2, LongWords DEF FrameOK
    <3> QED BY <2>1, <2>19, <3>3, <3>5
         DEF LdonePush, Runs, Goto, IInv, TypeOK, Tokens, Labels
  <2>20. CASE LloopBottom
    BY <2>1, <2>2, <2>20 DEF LloopBottom, Runs, Goto, IInv, TypeOK, Tokens, CharAt, Labels
  <2>21. CASE Ldone
    <3>1. Value(frame[Stack]) \in Outcome
      <4>1. Stack \in Frame /\ Use(input, Stack) = CInt
        BY Layout DEF Use
      <4> QED BY <2>2, <4>1, Ends DEF FrameOK
    <3>2. 0 \in 0 .. MaxStack
      BY Layout
    <3>3. frame[Count] = 1 => FrameOK(input, frame') /\ frame'[S] = frame[S]
      <4>1. FrameOK(input, [frame EXCEPT ![Count] = 0])
        BY <2>5, <3>2, LongWords
      <4>2. [frame EXCEPT ![Count] = 0][S] = frame[S]
        BY <2>2, Layout DEF FrameOK
      <4> QED BY <2>21, <4>1, <4>2 DEF Ldone
    <3>4. Fatal("Stack misaligned") \in Outcome
      BY Ends DEF Messages
    <3>5. CASE frame[Count] # 1
      <4>1. Stop(Fatal("Stack misaligned"))
        BY <2>21, <3>5 DEF Ldone
      <4> QED BY <2>1, <3>4, <4>1 DEF Stop, IInv, TypeOK, Tokens, CharAt
    <3>6. CASE frame[Count] = 1
      BY <2>1, <2>21, <3>1, <3>3, <3>6
         DEF Ldone, Runs, IInv, TypeOK, Tokens, CharAt
    <3> QED BY <3>5, <3>6
  <2>22. CASE UNCHANGED avars
    BY <2>1, <2>22 DEF avars, IInv, TypeOK, Tokens, CharAt
  <2> QED BY <1>1, <2>7, <2>8, <2>9, <2>10, <2>11, <2>12, <2>13, <2>14, <2>16, <2>17, <2>18,
             <2>19, <2>20, <2>21, <2>22 DEF Next, Step
<1> QED BY <1>1, InitInv, PTL DEF Spec

\* The assembly version's state keeps its types, and each word of the frame its
\* use: at most MAX_STACK values, none outside the stack.
THEOREM TypeCorrect == Spec => []TypeOK
BY Inductive, PTL DEF IInv

-----------------------------------------------------------------------------

\* The C version is instantiated with the same strings, stack size and integers.
LEMMA SameOperators ==
  /\ InC!Null = Null /\ InC!Running = Running /\ InC!Trapped = Trapped
  /\ InC!Slots = 0 .. MaxStack - 1 /\ InC!CInt = CInt
  /\ \A str, i : InC!At(str, i) = At(str, i)
  /\ \A c : InC!IsSpace(c) = IsSpace(c) /\ InC!IsDigit(c) = IsDigit(c) /\ InC!IsOp(c) = IsOp(c)
  /\ \A n, c : InC!AddDigit(n, c) = AddDigit(n, c)
  /\ \A op, l, r : /\ InC!OpTraps(op, l, r) = OpTraps(op, l, r)
                   /\ InC!EvalOp(op, l, r) = EvalOp(op, l, r)
  /\ \A m : InC!Fatal(m) = Fatal(m)
  /\ \A v : InC!Value(v) = Value(v)
BY DEF InC!Null, Null, InC!Running, Running, InC!Trapped, Trapped, InC!Slots, InC!CInt, CInt,
       InC!At, At, InC!IsSpace, IsSpace, InC!IsDigit, IsDigit, InC!IsOp, IsOp,
       InC!AddDigit, AddDigit, InC!DigitValue, DigitValue, InC!Wrap, Wrap,
       InC!OpTraps, OpTraps, InC!Traps, Traps, InC!Overflows, Overflows,
       InC!EvalOp, EvalOp, InC!Quotient, Quotient, InC!AbsVal, AbsVal,
       InC!Fatal, Fatal, InC!Value, Value

\* The other locals are not part of the stack.
LEMMA SameStack ==
  ASSUME NEW f, NEW g, \A w \in Frame \ {S, Count, Tmp, Right, Left} : g[w] = f[w]
  PROVE  StackOf(g) = StackOf(f)
<1>1. \A i \in 0 .. MaxStack - 1 : Stack + i \in Frame \ {S, Count, Tmp, Right, Left}
  BY Layout
<1> QED BY <1>1 DEF StackOf

\* A push writes one of the stack's elements.
LEMMA StackWrite ==
  ASSUME NEW f \in [Frame -> Int], NEW i \in 0 .. MaxStack - 1, NEW v, NEW g,
         \A w \in Frame \ {Count, Stack + i} : g[w] = f[w], g[Stack + i] = v
  PROVE  StackOf(g) = [StackOf(f) EXCEPT ![i] = v]
<1>1. \A j \in 0 .. MaxStack - 1 :
        /\ Stack + j \in Frame /\ Stack + j # Count
        /\ j # i => Stack + j # Stack + i
  BY Layout
<1>2. \A j \in 0 .. MaxStack - 1 : g[Stack + j] = IF j = i THEN v ELSE f[Stack + j]
  BY <1>1
<1> QED BY <1>2 DEF StackOf

\* A pop takes the topmost of the stack's elements and leaves them where they are.
LEMMA PopMoves ==
  ASSUME IInv, NEW w \in {Right, Left}, PopInto(w)
  PROVE  /\ StackOf(frame') = StackOf(frame) /\ frame'[S] = frame[S]
         /\ frame'[Tmp] = frame[Tmp] /\ frame'[Count] = frame[Count] - 1
         /\ frame[Count] > 0 /\ frame'[w] = StackOf(frame)[frame[Count] - 1]
         /\ w = Left => frame'[Right] = frame[Right]
<1>1. frame \in [Frame -> Int]
  BY DEF IInv, TypeOK, FrameOK
<1>2. S \in Frame /\ Count \in Frame /\ Tmp \in Frame /\ Right \in Frame /\ Left \in Frame
  BY Layout
<1>3. StackOf(frame') = StackOf(frame)
  BY <1>1, SameStack DEF PopInto
<1>4. frame[Count] - 1 \in 0 .. MaxStack - 1
  <2>1. frame[Count] \in Use(input, Count)
    BY <1>2 DEF IInv, TypeOK, FrameOK
  <2>2. frame[Count] \in 0 .. MaxStack
    BY <2>1, LongWords
  <2> QED BY <2>2, Layout DEF PopInto
<1>5. StackOf(frame)[frame[Count] - 1] = frame[Stack + frame[Count] - 1]
  BY <1>1, <1>2, <1>4, Layout DEF StackOf
<1> QED BY <1>1, <1>2, <1>3, <1>5, Layout DEF PopInto

LEMMA InitRefines == Init => InC!Init
<1> SUFFICES ASSUME Init PROVE InC!Init
  OBVIOUS
<1>1. IInv /\ FrameOK(input, frame) /\ frame[Count] = 0
  <2>1. frame[Count] = 0
    <3>1. PICK junk \in [Frame -> Garbage] : frame = [junk EXCEPT ![S] = 1, ![Count] = 0]
      BY DEF Init
    <3> QED BY <3>1, Layout
  <2> QED BY <2>1, InitInv DEF IInv, TypeOK
<1>2. StackOf(frame) \in [0 .. MaxStack - 1 -> CInt]
  BY <1>1, LongWords DEF StackOf, FrameOK
<1> QED BY <1>1, <1>2, SameOperators DEF Init, InC!Init, InSkip

LEMMA StepRefines == IInv /\ [Next]_avars => [InC!Next]_InC!vars
<1> SUFFICES ASSUME IInv, [Next]_avars PROVE InC!Next \/ UNCHANGED InC!vars
  OBVIOUS
<1>1. /\ frame \in [Frame -> Int] /\ ptr # Null /\ Null = 0
      /\ frame[S] = Null => label \in {"LloopTop", "Ldone"}
  BY DEF IInv, TypeOK, FrameOK, Tokens, Positions, Null
<1>2. S \in Frame /\ Count \in Frame /\ Tmp \in Frame /\ Right \in Frame /\ Left \in Frame
  BY Layout
<1> USE SameOperators
<1>3. CASE LskipTop
  <2>1. InC!SkipSpace
    BY <1>3 DEF LskipTop, Runs, CharAt, InSkip, InC!SkipSpace, InC!Runs, InC!C
  <2> QED BY <2>1 DEF InC!Next
<1>4. CASE LskipExit
  BY <1>4 DEF LskipExit, Runs, Goto, InSkip, InC!vars
<1>5. CASE LskipAfterLoop
  <2>1. StackOf(frame') = StackOf(frame)
    BY <1>1, <1>5, SameStack DEF LskipAfterLoop
  <2>2. InC!SkipDone
    BY <1>1, <1>2, <1>5, <2>1, Layout
       DEF IInv, Tokens, LskipAfterLoop, Runs, Goto, CharAt, InSkip, InC!SkipDone, InC!Runs, InC!C
  <2> QED BY <2>2 DEF InC!Next
<1>6. CASE LloopTop
  <2>1. CASE label' # "LtokenInt"
    BY <1>6, <2>1 DEF LloopTop, Runs, Goto, InSkip, InC!vars
  <2>2. CASE label' = "LtokenInt"
    <3>1. frame[S] # Null /\ IsDigit(CharAt(frame[S])) /\ UNCHANGED <<input, frame, ptr, r12, rdx, end>>
      BY <1>6, <2>2 DEF LloopTop, Goto
    <3>2. InC!TokenInt
      BY <1>6, <2>2, <3>1 DEF LloopTop, Runs, CharAt, InSkip, InC!TokenInt, InC!Runs, InC!C
    <3> QED BY <3>2 DEF InC!Next
  <2> QED BY <2>1, <2>2
<1>7. CASE LtokenInt
  <2>1. StackOf(frame') = StackOf(frame)
    BY <1>1, <1>7, SameStack DEF LtokenInt
  <2>2. frame'[Count] = frame[Count]
    BY <1>1, <1>2, <1>7, Layout DEF LtokenInt
  <2> QED BY <1>7, <2>1, <2>2 DEF LtokenInt, Runs, Goto, InSkip, InC!vars
<1>8. CASE LconsumeIntLoopTop
  <2>1. InC!ConsumeDigit
    BY <1>8 DEF LconsumeIntLoopTop, Runs, CharAt, InSkip, InC!ConsumeDigit, InC!Runs, InC!C
  <2> QED BY <2>1 DEF InC!Next
<1>9. CASE LconsumeIntAfterLoop
  <2>1. StackOf(frame') = StackOf(frame)
    BY <1>1, <1>9, SameStack DEF LconsumeIntAfterLoop
  <2>2. frame'[Count] = frame[Count] /\ frame'[S] = ptr
    BY <1>1, <1>2, <1>9, Layout DEF LconsumeIntAfterLoop
  <2>3. InC!ConsumeDone
    BY <1>9, <2>1, <2>2
       DEF LconsumeIntAfterLoop, Runs, Goto, CharAt, InSkip, InC!ConsumeDone, InC!Runs, InC!C
  <2> QED BY <2>3 DEF InC!Next
<1>10. CASE LtokenOp
  <2>1. StackOf(frame') = StackOf(frame)
    BY <1>1, <1>10, SameStack DEF LtokenOp
  <2>2. /\ frame'[Count] = frame[Count] /\ frame'[S] = frame[S] + 1
        /\ frame'[Tmp] = CharAt(frame[S])
    BY <1>1, <1>2, <1>10, Layout DEF LtokenOp
  <2>3. frame[S] # Null /\ IsOp(CharAt(frame[S]))
    BY <1>1, <1>10 DEF IInv, Tokens, LtokenOp, Runs
  <2>4. InC!TokenOp
    BY <1>10, <2>1, <2>2, <2>3
       DEF LtokenOp, Runs, Goto, CharAt, InSkip, InC!TokenOp, InC!Runs, InC!C
  <2> QED BY <2>4 DEF InC!Next
<1>12. CASE PopRight
  <2>1. /\ StackOf(frame') = StackOf(frame) /\ frame'[S] = frame[S]
        /\ frame'[Tmp] = frame[Tmp] /\ frame'[Count] = frame[Count] - 1
        /\ ~(frame[Count] <= 0) /\ frame'[Right] = StackOf(frame)[frame[Count] - 1]
    BY <1>1, <1>2, <1>12, PopMoves DEF PopRight
  <2>2. InC!PopRight
    BY <1>12, <2>1 DEF PopRight, Runs, Goto, InSkip, InC!PopRight, InC!Runs
  <2> QED BY <2>2 DEF InC!Next
<1>13. CASE PopLeft
  <2>1. /\ StackOf(frame') = StackOf(frame) /\ frame'[S] = frame[S]
        /\ frame'[Tmp] = frame[Tmp] /\ frame'[Count] = frame[Count] - 1
        /\ ~(frame[Count] <= 0) /\ frame'[Left] = StackOf(frame)[frame[Count] - 1]
        /\ frame'[Right] = frame[Right]
    BY <1>1, <1>2, <1>13, PopMoves DEF PopLeft
  <2>2. InC!PopLeft
    BY <1>13, <2>1 DEF PopLeft, Runs, Goto, InSkip, InC!PopLeft, InC!Runs
  <2> QED BY <2>2 DEF InC!Next
<1>14. CASE LpopErr
  <2>1. InC!PopRight \/ InC!PopLeft
    BY <1>14 DEF LpopErr, Runs, Stop, InSkip, InC!PopRight, InC!PopLeft, InC!Runs, InC!Stop
  <2> QED BY <2>1 DEF InC!Next
<1>15. CASE CallEvalOp
  <2>1. InC!Apply
    BY <1>15 DEF CallEvalOp, Runs, Goto, Stop, InSkip, InC!Apply, InC!Runs, InC!Stop
  <2> QED BY <2>1 DEF InC!Next
<1>16. CASE LdonePush
  <2>1. frame[Count] \in 0 .. MaxStack - 1
    BY <1>2, <1>16, Layout, LongWords DEF LdonePush, IInv, TypeOK, FrameOK
  <2>2. Stack + frame[Count] \in Frame \ {S, Count}
    BY <2>1, Layout
  <2>3. StackOf(frame') = [StackOf(frame) EXCEPT ![frame[Count]] = rdx]
    BY <1>1, <1>16, <2>1, <2>2, StackWrite DEF LdonePush
  <2>4. frame'[Count] = frame[Count] + 1 /\ frame'[S] = frame[S]
    BY <1>1, <1>2, <1>16, <2>2, Layout DEF LdonePush
  <2>5. ~(frame[Count] >= MaxStack)
    BY <2>1, Layout
  <2>6. InC!Push
    BY <1>16, <2>3, <2>4, <2>5 DEF LdonePush, Runs, Goto, InSkip, InC!Push, InC!Runs
  <2> QED BY <2>6 DEF InC!Next
<1>17. CASE LpushErr
  <2>1. InC!Push
    BY <1>17 DEF LpushErr, Runs, Stop, InSkip, InC!Push, InC!Runs, InC!Stop
  <2> QED BY <2>1 DEF InC!Next
<1>18. CASE LloopBottom
  BY <1>18 DEF LloopBottom, Runs, Goto, InSkip, InC!vars
<1>19. CASE LtokenBad
  <2>1. frame[S] # Null /\ ~IsDigit(CharAt(frame[S])) /\ ~IsOp(CharAt(frame[S]))
    BY <1>1, <1>19 DEF IInv, Tokens, LtokenBad, Runs
  <2>2. InC!TokenUnknown
    BY <1>19, <2>1
       DEF LtokenBad, Runs, Stop, CharAt, InSkip, InC!TokenUnknown, InC!Runs, InC!Stop, InC!C
  <2> QED BY <2>2 DEF InC!Next
<1>20. CASE Ldone
  <2>1. frame[S] = Null
    BY <1>20 DEF IInv, Tokens, Ldone, Runs
  <2>2. CASE frame[Count] # 1
    <3>1. InC!Result
      BY <1>20, <2>1, <2>2 DEF Ldone, Runs, Stop, InSkip, InC!Result, InC!Runs, InC!Stop
    <3> QED BY <3>1 DEF InC!Next
  <2>3. CASE frame[Count] = 1
    <3>1. StackOf(frame') = StackOf(frame)
      BY <1>1, <1>20, <2>3, SameStack DEF Ldone
    <3>2. frame'[Count] = 0 /\ frame'[S] = frame[S]
      BY <1>1, <1>2, <1>20, <2>3, Layout DEF Ldone
    <3>3. StackOf(frame)[0] = frame[Stack]
      BY Layout DEF StackOf
    <3>4. InC!Result
      BY <1>20, <2>1, <2>3, <3>1, <3>2, <3>3 DEF Ldone, Runs, InSkip, InC!Result, InC!Runs
    <3> QED BY <3>4 DEF InC!Next
  <2> QED BY <2>2, <2>3
<1>21. CASE UNCHANGED avars
  BY <1>21 DEF avars, InSkip, InC!vars
<1> QED BY <1>3, <1>4, <1>5, <1>6, <1>7, <1>8, <1>9, <1>10, <1>12, <1>13, <1>14, <1>15, <1>16,
           <1>17, <1>18, <1>19, <1>20, <1>21 DEF Next, Step

\* Every run of the assembly version is a run of the C version: `behaviorally
\* identical' (cPostfixCalc.h:4-5).
THEOREM Implements == Spec => RefinesC
BY InitRefines, StepRefines, Inductive, PTL DEF Spec, RefinesC, InC!Spec
-----------------------------------------------------------------------------
(* What an expression means.  Its reading is a recursive function: that     *)
(* there is one takes induction on the number of characters, which goes by  *)
(* the first place where something fails.                                   *)

\* A set of numbers has a least one.
LEMMA LeastNumber ==
  ASSUME NEW T, T \subseteq Nat, T # {}
  PROVE  \E x \in T : \A y \in T : x <= y
<1> DEFINE Less == {ss \in Nat \X Nat : ss[1] < ss[2]}
<1>1. IsWellFoundedOn(Less, Nat)
  <2>1. OpToRel(<, Nat) = Less
    BY Zenon DEF OpToRel
  <2> QED BY <2>1, NatLessThanWellFounded, Zenon
<1>2. PICK x \in T : \A y \in T : <<y, x>> \notin Less
  <2> HIDE DEF Less
  <2> QED BY <1>1, WFMin
<1>3. ASSUME NEW y \in T PROVE x <= y
  <2>1. ~ (y < x)
    <3>1. SUFFICES ASSUME y < x PROVE <<y, x>> \in Less
      BY <1>2
    <3>2. <<y, x>> \in Nat \X Nat /\ <<y, x>>[1] < <<y, x>>[2]
      BY <3>1
    <3> QED BY <3>2, Zenon
  <2> QED BY <2>1
<1> QED BY <1>3

\* What holds of 0 and goes from each number to the next holds up to any number.
LEMMA UpTo ==
  ASSUME NEW n \in Nat, NEW T, 0 \in T, \A i \in 1 .. n : i - 1 \in T => i \in T
  PROVE  0 .. n \subseteq T
<1> DEFINE Bad == {i \in 0 .. n : i \notin T}
<1>1. SUFFICES ASSUME Bad # {} PROVE FALSE
  OBVIOUS
<1>2. Bad \subseteq Nat
  OBVIOUS
<1>3. PICK k \in Bad : \A m \in Bad : k <= m
  <2> HIDE DEF Bad
  <2> QED BY <1>1, <1>2, LeastNumber
<1>4. k \in 0 .. n /\ k \notin T /\ k # 0
  OBVIOUS
<1>5. k \in 1 .. n /\ k - 1 \in 0 .. n /\ ~(k <= k - 1)
  BY <1>4
<1>6. k - 1 \notin Bad
  <2> HIDE DEF Bad
  <2> QED BY <1>3, <1>5, Zenon
<1> QED BY <1>4, <1>5, <1>6

\* A factor keeps the order.
LEMMA TimesKeeps ==
  ASSUME NEW x \in Int, NEW y \in Int, NEW n \in Nat, x <= y
  PROVE  n * x <= n * y
OBVIOUS

\* Quotient and remainder
LEMMA Division ==
  ASSUME NEW k \in Int, NEW n \in Nat \ {0}
  PROVE  k \div n \in Int /\ k % n \in 0 .. n - 1 /\ k = n * (k \div n) + (k % n)
OBVIOUS

\* which are the only ones.
LEMMA DivisionOnly ==
  ASSUME NEW w \in Nat, NEW x1 \in 0 .. w - 1, NEW x2 \in 0 .. w - 1,
         NEW y1 \in Int, NEW y2 \in Int, w * y1 + x1 = w * y2 + x2
  PROVE  x1 = x2 /\ y1 = y2
<1>1. ASSUME NEW a \in Int, NEW b \in Int, a < b PROVE w * a + w <= w * b
  <2>1. w * (a + 1) <= w * b
    BY <1>1, TimesKeeps
  <2> QED BY <2>1
<1>2. w * y1 \in Int /\ w * y2 \in Int
  OBVIOUS
<1>3. ~(y1 < y2) /\ ~(y2 < y1)
  BY <1>1, <1>2
<1> QED BY <1>3

\* Quotient and remainder are those that Division names.
LEMMA QuotientIs ==
  ASSUME NEW n \in Nat \ {0}, NEW q \in Int, NEW s \in 0 .. n - 1, NEW x, x = n * q + s
  PROVE  x \div n = q /\ x % n = s
<1>1. n * q \in Int /\ x \in Int
  OBVIOUS
<1>2. PICK d \in Int, m \in 0 .. n - 1 : d = x \div n /\ m = x % n /\ x = n * d + m
  BY <1>1, Division
<1>3. d = q /\ m = s
  BY <1>2, DivisionOnly
<1> QED BY <1>2, <1>3

\* A function that starts with z and goes on by step.
Follows(g, n, z, step) == g[0] = z /\ \A i \in 1 .. n : g[i] = step[<<i, g[i - 1]>>]

\* There is one, whatever the step.
LEMMA RecursionExists ==
  ASSUME NEW n \in Nat, NEW V, NEW z \in V, NEW step \in [(1 .. n) \X V -> V]
  PROVE  \E g \in [0 .. n -> V] : Follows(g, n, z, step)
<1> DEFINE Ok(k) == \E g \in [0 .. k -> V] :
                      g = [i \in 0 .. k |-> IF i = 0 THEN z ELSE step[<<i, g[i - 1]>>]]
           T == {k \in 0 .. n : Ok(k)}
<1>1. Ok(0)
  <2> DEFINE g == [i \in 0 .. 0 |-> z]
  <2>1. g \in [0 .. 0 -> V]
    OBVIOUS
  <2>2. g = [i \in 0 .. 0 |-> IF i = 0 THEN z ELSE step[<<i, g[i - 1]>>]]
    OBVIOUS
  <2> QED BY <2>1, <2>2
<1>2. ASSUME NEW k \in 1 .. n, Ok(k - 1) PROVE Ok(k)
  <2>1. PICK g \in [0 .. k - 1 -> V] :
          g = [i \in 0 .. k - 1 |-> IF i = 0 THEN z ELSE step[<<i, g[i - 1]>>]]
    BY <1>2
  <2> DEFINE h == [i \in 0 .. k |-> IF i = 0 THEN z ELSE step[<<i, g[i - 1]>>]]
  <2>2. \A i \in 0 .. k - 1 : h[i] = g[i]
    <3>1. TAKE i \in 0 .. k - 1
    <3>2. i \in 0 .. k
      OBVIOUS
    <3>3. h[i] = IF i = 0 THEN z ELSE step[<<i, g[i - 1]>>]
      BY <3>2
    <3>4. g[i] = IF i = 0 THEN z ELSE step[<<i, g[i - 1]>>]
      BY <2>1
    <3> QED BY <3>3, <3>4
  <2>3. ASSUME NEW i \in 0 .. k PROVE h[i] \in V
    <3>1. CASE i = 0
      BY <3>1
    <3>2. CASE i # 0
      <4>1. i \in 1 .. n /\ i - 1 \in 0 .. k - 1
        BY <3>2
      <4>2. <<i, g[i - 1]>> \in (1 .. n) \X V
        BY <4>1
      <4>3. h[i] = step[<<i, g[i - 1]>>]
        BY <3>2
      <4> HIDE DEF h
      <4> QED BY <4>2, <4>3
    <3> QED BY <3>1, <3>2
  <2>4. h \in [0 .. k -> V]
    <3>1. h = [i \in 0 .. k |-> h[i]]
      OBVIOUS
    <3> HIDE DEF h
    <3> QED BY <2>3, <3>1
  <2>5. \A i \in 0 .. k : (IF i = 0 THEN z ELSE step[<<i, g[i - 1]>>])
                            = (IF i = 0 THEN z ELSE step[<<i, h[i - 1]>>])
    <3>1. TAKE i \in 0 .. k
    <3>2. CASE i = 0
      BY <3>2
    <3>3. CASE i # 0
      <4>1. i - 1 \in 0 .. k - 1
        BY <3>3
      <4>2. h[i - 1] = g[i - 1]
        BY <2>2, <4>1
      <4> HIDE DEF h
      <4> QED BY <3>3, <4>2
    <3> QED BY <3>2, <3>3
  <2>6. h = [i \in 0 .. k |-> IF i = 0 THEN z ELSE step[<<i, h[i - 1]>>]]
    BY <2>5, Zenon
  <2> HIDE DEF h
  <2> QED BY <2>4, <2>6
<1>3. 0 \in T /\ \A i \in 1 .. n : i - 1 \in T => i \in T
  <2> HIDE DEF Ok
  <2>1. 0 \in 0 .. n /\ \A i \in 1 .. n : i \in 0 .. n
    OBVIOUS
  <2> QED BY <1>1, <1>2, <2>1
<1>4. 0 .. n \subseteq T
  <2> HIDE DEF T
  <2> QED BY <1>3, UpTo
<1>5. n \in 0 .. n
  OBVIOUS
<1>6. Ok(n)
  <2> HIDE DEF Ok
  <2> QED BY <1>4, <1>5
<1>7. PICK g \in [0 .. n -> V] : g = [i \in 0 .. n |-> IF i = 0 THEN z ELSE step[<<i, g[i - 1]>>]]
  BY <1>6
<1>8. \A i \in 0 .. n : g[i] = IF i = 0 THEN z ELSE step[<<i, g[i - 1]>>]
  BY <1>7
<1>9. g[0] = z /\ \A i \in 1 .. n : g[i] = step[<<i, g[i - 1]>>]
  <2>1. 0 \in 0 .. n /\ \A i \in 1 .. n : i \in 0 .. n /\ i # 0
    OBVIOUS
  <2> QED BY <1>8, <2>1
<1> QED BY <1>9 DEF Follows


\* What has been read is values, and a number that is zero unless there are digits.
States == {m \in [vals : Seq(CInt), reading : BOOLEAN, num : Nat, end : Outcome] :
             ~m.reading => m.num = 0}

LEMMA StartType == Start \in States
BY Ends DEF Start, States

\* A wrapped number differs from the number by a multiple of the range, so that it
\* may be wrapped again after a sum.
LEMMA WrapBy ==
  ASSUME NEW x \in Int
  PROVE  \E q \in Int : Wrap(x) = x - (IntMax - IntMin + 1) * q
<1>1. IntMax - IntMin + 1 \in Nat \ {0} /\ IntMin \in Int
  BY IntAssumption
<1>2. PICK w \in Nat \ {0} : w = IntMax - IntMin + 1
  BY <1>1
<1>3. x - IntMin = w * ((x - IntMin) \div w) + ((x - IntMin) % w) /\ (x - IntMin) \div w \in Int
  BY <1>1, Division
<1>4. PICK q \in Int, m \in Int : x - IntMin = w * q + m /\ Wrap(x) = IntMin + m
  BY <1>1, <1>2, <1>3 DEF Wrap
<1>5. Wrap(x) = x - w * q
  BY <1>1, <1>4
<1> QED BY <1>2, <1>5

LEMMA WrapAgain ==
  ASSUME NEW x \in Int, NEW q \in Int
  PROVE  Wrap(x - (IntMax - IntMin + 1) * q) = Wrap(x)
<1>1. IntMax - IntMin + 1 \in Nat \ {0} /\ IntMin \in Int
  BY IntAssumption
<1>2. PICK w \in Nat \ {0} : w = IntMax - IntMin + 1
  BY <1>1
<1>3. PICK d \in Int, m \in Nat :
        m \in 0 .. w - 1 /\ x - IntMin = w * d + m /\ m = (x - IntMin) % w
  <2>1. PICK y \in Int : y = x - IntMin
    BY <1>1
  <2>2. y \div w \in Int /\ y % w \in 0 .. w - 1 /\ y = w * (y \div w) + (y % w)
    BY <2>1, Division
  <2>3. PICK d \in Int, m \in 0 .. w - 1 : d = y \div w /\ m = y % w
    BY <2>2
  <2>4. y = w * d + m /\ m \in Nat
    BY <2>2, <2>3
  <2> QED BY <2>1, <2>3, <2>4, Zenon
<1>4. (x - w * q) - IntMin = w * (d - q) + m /\ d - q \in Int
  BY <1>1, <1>3
<1>5. ((x - w * q) - IntMin) % w = m
  <2>1. PICK z, e \in Int : z = (x - w * q) - IntMin /\ e = d - q /\ z = w * e + m
    BY <1>4
  <2>2. m \in 0 .. w - 1 /\ z = w * e + m
    BY <1>3, <2>1
  <2>3. z % w = m
    BY <2>2, QuotientIs, Zenon
  <2> QED BY <2>1, <2>3
<1> QED BY <1>2, <1>3, <1>5 DEF Wrap

\* consumeInt wraps in every round; the value is the number's, wrapped once.
LEMMA DigitsWrap ==
  ASSUME NEW n \in Int, NEW c \in Int
  PROVE  AddDigit(Wrap(n), c) = Wrap(10 * n + DigitValue(c))
<1> DEFINE w == IntMax - IntMin + 1
<1>1. w \in Int
  BY IntAssumption
<1>2. PICK q \in Int : Wrap(n) = n - w * q
  BY WrapBy
<1>3. 10 * Wrap(n) = 10 * n - w * (10 * q) /\ 10 * Wrap(n) \in Int
  <2> HIDE DEF w
  <2> QED BY <1>1, <1>2
<1>4. PICK e \in Int : Wrap(10 * Wrap(n)) = 10 * Wrap(n) - w * e
  BY <1>3, WrapBy
<1>5. Wrap(10 * Wrap(n)) + DigitValue(c) = (10 * n + DigitValue(c)) - w * (10 * q + e)
  <2>1. PICK v \in Int : v = w
    BY <1>1
  <2>2. v * (10 * q + e) = v * (10 * q) + v * e
    OBVIOUS
  <2>3. DigitValue(c) \in Int /\ v * (10 * q) \in Int /\ v * e \in Int
    BY DEF DigitValue
  <2> HIDE DEF w
  <2>4. Wrap(10 * Wrap(n)) = (10 * n - v * (10 * q)) - v * e
    BY <1>3, <1>4, <2>1
  <2>5. w * (10 * q + e) = v * (10 * q) + v * e
    BY <2>1, <2>2
  <2> QED BY <2>3, <2>4, <2>5
<1>6. 10 * n + DigitValue(c) \in Int /\ 10 * q + e \in Int
  BY DEF DigitValue
<1> HIDE DEF w
<1>7. Wrap((10 * n + DigitValue(c)) - w * (10 * q + e)) = Wrap(10 * n + DigitValue(c))
  BY <1>6, WrapAgain DEF w
<1> QED BY <1>5, <1>7 DEF AddDigit

\* Zero is a long already.
LEMMA WrapZero == Wrap(0) = 0
<1>1. /\ IntMax - IntMin + 1 \in Nat \ {0} /\ IntMin \in Int /\ IntMax \in Int
      /\ 0 - IntMin \in 0 .. (IntMax - IntMin)
  BY IntAssumption
<1>2. PICK w \in Nat \ {0} : w = IntMax - IntMin + 1
  BY <1>1
<1>3. PICK y \in 0 .. w - 1 : y = 0 - IntMin
  <2>1. 0 - IntMin \in 0 .. w - 1
    BY <1>1, <1>2
  <2> QED BY <2>1, Zenon
<1>4. y % w = y
  <2>1. y = w * 0 + y /\ 0 \in Int
    OBVIOUS
  <2> QED BY <2>1, QuotientIs
<1> QED BY <1>1, <1>2, <1>3, <1>4 DEF Wrap

\* After a flush no number is under way, unless it failed; a second one has nothing
\* to do.
LEMMA FlushType ==
  ASSUME NEW m \in States
  PROVE  /\ Flush(m) \in States
         /\ Flush(m).end = Running => ~Flush(m).reading
         /\ m.end # Running => Flush(m) = m
         /\ ~m.reading => Flush(m) = m
         /\ Flush(m).end # Running => Flush(m).end \in {m.end, Fatal("Stack is full")}
<1>1. CASE m.end # Running \/ ~m.reading
  BY <1>1 DEF Flush
<1>2. CASE m.end = Running /\ m.reading /\ Len(m.vals) = MaxStack
  <2>1. Flush(m) = Failed(m, Fatal("Stack is full"))
    BY <1>2 DEF Flush
  <2>2. Fatal("Stack is full") \in Outcome /\ Fatal("Stack is full") # Running
    BY Ends DEF Messages, Fatal, Running
  <2> QED BY <1>2, <2>1, <2>2 DEF States, Failed
<1>3. CASE m.end = Running /\ m.reading /\ Len(m.vals) # MaxStack
  <2>1. Flush(m) = [vals |-> Append(m.vals, Wrap(m.num)), reading |-> FALSE, num |-> 0, end |-> Running]
    BY <1>3 DEF Flush
  <2>2. Wrap(m.num) \in CInt
    BY WrapType DEF States
  <2>3. m.vals \in Seq(CInt)
    BY DEF States
  <2>4. Append(m.vals, Wrap(m.num)) \in Seq(CInt)
    BY <2>2, <2>3
  <2> QED BY <1>3, <2>1, <2>4, Ends DEF States
<1> QED BY <1>1, <1>2, <1>3

\* An operator leaves no number under way.
LEMMA OperateType ==
  ASSUME NEW m \in States, NEW c
  PROVE  Operate(m, c) \in States /\ Operate(m, c).reading = m.reading
<1> DEFINE n == Len(m.vals)
           l == m.vals[n - 1]
           r == m.vals[n]
<1>1. n \in Nat /\ m.vals \in Seq(CInt)
  BY DEF States
<1>2. CASE n < 2
  <2>1. Operate(m, c) = Failed(m, Fatal("Stack is empty")) /\ Fatal("Stack is empty") \in Outcome
    BY <1>2, Ends DEF Operate, Messages
  <2> QED BY <2>1 DEF Failed, States
<1>3. CASE n >= 2 /\ OpTraps(c, l, r)
  <2>0. ~(n < 2)
    BY <1>1, <1>3
  <2>1. Operate(m, c) = Failed(m, Trapped) /\ Trapped \in Outcome
    BY <2>0, <1>3, Ends, Zenon DEF Operate
  <2> QED BY <2>1 DEF Failed, States
<1>4. CASE n >= 2 /\ ~OpTraps(c, l, r)
  <2>1. l \in CInt /\ r \in CInt
    <3>1. n - 1 \in 1 .. n /\ n \in 1 .. n
      BY <1>1, <1>4
    <3> QED BY <1>1, <3>1
  <2>2. EvalOp(c, l, r) \in CInt
    BY <1>4, <2>1, EvalOpType
  <2>3. SubSeq(m.vals, 1, n - 2) \in Seq(CInt)
    BY <1>1, <1>4
  <2>4. Append(SubSeq(m.vals, 1, n - 2), EvalOp(c, l, r)) \in Seq(CInt)
    BY <2>2, <2>3
  <2>0. ~(n < 2)
    BY <1>1, <1>4
  <2>5. Operate(m, c) = [m EXCEPT !.vals = Append(SubSeq(m.vals, 1, n - 2), EvalOp(c, l, r))]
    BY <2>0, <1>4, Zenon DEF Operate
  <2> QED BY <2>4, <2>5 DEF States
<1> QED BY <1>1, <1>2, <1>3, <1>4

LEMMA ReadCharType ==
  ASSUME NEW m \in States, NEW c \in Int
  PROVE  ReadChar(m, c) \in States
<1>1. CASE m.end # Running
  BY <1>1 DEF ReadChar
<1>2. CASE m.end = Running /\ IsDigit(c)
  <2>1. m.num \in Nat /\ DigitValue(c) \in Nat
    BY <1>2 DEF IsDigit, DigitValue, States
  <2>2. 10 * m.num + DigitValue(c) \in Nat
    BY <2>1
  <2>3. ReadChar(m, c) = [m EXCEPT !.reading = TRUE, !.num = 10 * m.num + DigitValue(c)]
    BY <1>2 DEF ReadChar, ReadDigit
  <2> QED BY <2>2, <2>3 DEF States
<1>3. CASE m.end = Running /\ ~IsDigit(c)
  <2>1. PICK f \in States : f = Flush(m)
    BY FlushType
  <2>2. ReadChar(m, c) = ReadOther(f, c)
    BY <1>3, <2>1 DEF ReadChar
  <2>3. Fatal("Unknown token") \in Outcome
    BY Ends DEF Messages
  <2>4. Failed(f, Fatal("Unknown token")) \in States
    BY <2>3 DEF Failed, States
  <2> QED BY <2>2, <2>4, OperateType DEF ReadOther
<1> QED BY <1>1, <1>2, <1>3

\* The reading of a string goes from each character to the next.
LEMMA ReadingSteps ==
  ASSUME NEW str \in Inputs
  PROVE  /\ Len(str) \in Nat
         /\ Reading(str) \in [0 .. Len(str) -> States]
         /\ Reading(str)[0] = Start
         /\ \A k \in 1 .. Len(str) : Reading(str)[k] = ReadChar(Reading(str)[k - 1], str[k])
<1> DEFINE n == Len(str)
           Is(h) == h = [k \in 0 .. n |-> IF k = 0 THEN Start ELSE ReadChar(h[k - 1], str[k])]
           step == [p \in (1 .. n) \X States |-> ReadChar(p[2], str[p[1]])]
<1>1. n \in Nat /\ \A k \in 1 .. n : str[k] \in Int
  <2>1. str \in Seq(Char) /\ \A c \in Char : c \in Int
    BY PostfixAssumption DEF Char
  <2> QED BY <2>1
<1>2. step \in [(1 .. n) \X States -> States]
  <2>1. ASSUME NEW p \in (1 .. n) \X States PROVE ReadChar(p[2], str[p[1]]) \in States
    <3>1. p[1] \in 1 .. n /\ p[2] \in States
      OBVIOUS
    <3> QED BY <1>1, <3>1, ReadCharType
  <2> QED BY <2>1
<1>3. \A k \in 1 .. n, m \in States : step[<<k, m>>] = ReadChar(m, str[k])
  <2>1. TAKE k \in 1 .. n, m \in States
  <2>2. <<k, m>> \in (1 .. n) \X States /\ <<k, m>>[1] = k /\ <<k, m>>[2] = m
    OBVIOUS
  <2> QED BY <2>2
<1> HIDE DEF step, n
<1>4. PICK g \in [0 .. n -> States] : g[0] = Start /\ \A k \in 1 .. n : g[k] = step[<<k, g[k - 1]>>]
  <2>1. \E g \in [0 .. n -> States] : Follows(g, n, Start, step)
    BY <1>1, <1>2, StartType, RecursionExists
  <2> QED BY <2>1 DEF Follows
<1>5. Is(g)
  <2>1. \A k \in 0 .. n : g[k] = (IF k = 0 THEN Start ELSE ReadChar(g[k - 1], str[k]))
    <3>1. TAKE k \in 0 .. n
    <3>2. CASE k = 0
      BY <1>4, <3>2
    <3>3. CASE k # 0
      <4>1. k \in 1 .. n /\ k - 1 \in 0 .. n
        BY <1>1, <3>3
      <4>2. g[k - 1] \in States
        BY <4>1
      <4> QED BY <1>3, <1>4, <3>3, <4>1, <4>2
    <3> QED BY <3>2, <3>3
  <2> QED BY <2>1
<1>6. Is(Reading(str))
  <2>1. Reading(str) = CHOOSE h : Is(h)
    BY DEF Reading, n
  <2> HIDE DEF Is
  <2> QED BY <1>5, <2>1
<1>7. \A k \in 0 .. n : Reading(str)[k] = IF k = 0 THEN Start ELSE ReadChar(Reading(str)[k - 1], str[k])
  BY <1>6
<1>8. Reading(str) = g
  <2> DEFINE Agree == {k \in 0 .. n : Reading(str)[k] = g[k]}
  <2>1. 0 \in Agree
    <3>1. 0 \in 0 .. n
      BY <1>1
    <3> QED BY <1>4, <1>7, <3>1
  <2>2. ASSUME NEW k \in 1 .. n, k - 1 \in Agree PROVE k \in Agree
    <3>1. k \in 0 .. n /\ k # 0 /\ k - 1 \in 0 .. n
      BY <1>1
    <3>2. g[k - 1] \in States /\ Reading(str)[k - 1] = g[k - 1]
      BY <2>2, <3>1
    <3> QED BY <1>3, <1>4, <1>7, <3>1, <3>2
  <2>3. 0 .. n \subseteq Agree
    <3> HIDE DEF Agree
    <3> QED BY <1>1, <2>1, <2>2, UpTo
  <2>4. \A k \in 0 .. n : Reading(str)[k] = g[k]
    BY <2>3
  <2>5. Reading(str) = [k \in 0 .. n |-> IF k = 0 THEN Start ELSE ReadChar(Reading(str)[k - 1], str[k])]
    BY <1>6
  <2>6. Reading(str) = [k \in 0 .. n |-> Reading(str)[k]]
    BY <2>5
  <2> QED BY <2>4, <2>6
<1>9. \A k \in 1 .. n : Reading(str)[k] = ReadChar(Reading(str)[k - 1], str[k])
  <2>1. \A k \in 1 .. n : k \in 0 .. n /\ k # 0
    BY <1>1
  <2> QED BY <1>7, <2>1
<1> QED BY <1>1, <1>4, <1>8, <1>9 DEF n
-----------------------------------------------------------------------------
(* How the calculator's steps go along with the reading.                    *)

\* The meaning of what is before position p, which the calculator has dealt with
\* when it is between two tokens; a digit there begins a number.
Here(str, p) == Flush(Reading(str)[p - 1])
Fresh(str, p) == IsDigit(At(str, p)) => ~Reading(str)[p - 1].reading

\* The stack of the frame is these values, or these and some more.
Holds(f, vals, more) ==
  /\ Len(vals) = f[Count] + more
  /\ \A i \in 1 .. f[Count] : vals[i] = StackOf(f)[i - 1]

Between(str, f, p) ==
  LET m == Here(str, p)
  IN  m.end = Running /\ Holds(f, m.vals, 0) /\ Fresh(str, p)

\* Within a number, whose digits so far have been wrapped in each round.
WithinNumber(str, f, p, n) ==
  LET m == Reading(str)[p - 1]
  IN  /\ m.end = Running /\ Holds(f, m.vals, 0)
      /\ n = Wrap(m.num)
      /\ m.reading \/ IsDigit(At(str, p))

\* The value to be pushed completes the stack, if there is room.
ToPush(str, f, p, v) ==
  LET m == Here(str, p)
  IN  /\ Fresh(str, p)
      /\ f[Count] >= MaxStack => m.end = Fatal("Stack is full")
      /\ f[Count] < MaxStack =>
           m.end = Running /\ Holds(f, m.vals, 1) /\ m.vals[f[Count] + 1] = v

\* The operator before p has been read; so many of its operands are popped.
Popped(str, f, p, more) ==
  LET m == Here(str, p - 1)
  IN  /\ p - 1 \in 1 .. Len(str) /\ IsOp(At(str, p - 1))
      /\ f[Tmp] = At(str, p - 1)
      /\ m.end = Running /\ Holds(f, m.vals, more) /\ Len(m.vals) <= MaxStack

\* At each program point, what has been read of the string means what the frame and
\* the registers hold; and what the end says is what the whole string means.
Means(str, l, f, p, n, v) ==
  LET q == f[S]
      m == Here(str, q - 1)
  IN  /\ l \in {"LskipLoop", "LskipAfterLoop"} => Between(str, f, p)
      /\ l = "LloopBottom" => Between(str, f, q)
      /\ l \in {"LloopTop", "LtokenInt", "LtokenBad"} =>
           /\ Between(str, f, IF q = Null THEN Len(str) + 1 ELSE q)
           /\ q # Null => At(str, q) # 0 /\ ~IsSpace(At(str, q))
      /\ l = "LtokenOp" => Between(str, f, q)
      /\ l = "Ldone" => Between(str, f, Len(str) + 1)
      /\ l = "LconsumeIntLoop" => WithinNumber(str, f, p, n)
      /\ l = "stackPush" => ToPush(str, f, q, v)
      /\ l = "popRight" => Popped(str, f, q, 0)
      /\ l = "popLeft" => Popped(str, f, q, 1) /\ f[Right] = m.vals[f[Count] + 1]
      /\ l = "evalOp" =>
           /\ Popped(str, f, q, 2)
           /\ f[Left] = m.vals[f[Count] + 1] /\ f[Right] = m.vals[f[Count] + 2]

Meant ==
  /\ end = Running => Means(input, label, frame, ptr, r12, rdx)
  /\ EvaluatesPostfix

LEMMA ReadAt ==
  ASSUME NEW str \in Inputs, NEW p \in 1 .. Len(str)
  PROVE  /\ At(str, p) \in Int /\ At(str, p) # 0
         /\ Reading(str)[p - 1] \in States /\ Reading(str)[p] \in States
         /\ Reading(str)[p] = ReadChar(Reading(str)[p - 1], At(str, p))
         /\ Here(str, p + 1) = Flush(Reading(str)[p])
         /\ Fresh(str, p + 1) = (IsDigit(At(str, p + 1)) => ~Reading(str)[p].reading)
<1>1. Len(str) \in Nat /\ str \in Seq(Char) /\ (\A c \in Char : c \in Int /\ c # 0)
  BY ReadingSteps, PostfixAssumption DEF Char
<1>2. p - 1 \in 0 .. Len(str) /\ p \in 0 .. Len(str) /\ (p + 1) - 1 = p /\ At(str, p) = str[p]
  BY <1>1 DEF At
<1>3. str[p] \in Char
  BY <1>1
<1>4. Reading(str)[p - 1] \in States /\ Reading(str)[p] \in States
  BY <1>2, ReadingSteps
<1>5. Reading(str)[p] = ReadChar(Reading(str)[p - 1], At(str, p))
  BY <1>2, ReadingSteps
<1> QED BY <1>1, <1>2, <1>3, <1>4, <1>5 DEF Here, Fresh

LEMMA HereType ==
  ASSUME NEW str \in Inputs, NEW p \in Positions(str)
  PROVE  Len(str) \in Nat /\ Reading(str)[p - 1] \in States /\ Here(str, p) \in States
<1>1. Len(str) \in Nat /\ Reading(str) \in [0 .. Len(str) -> States]
  BY ReadingSteps
<1>2. p - 1 \in 0 .. Len(str)
  BY <1>1 DEF Positions
<1> QED BY <1>1, <1>2, FlushType DEF Here

\* The NUL is where the string ends, and nowhere else.
LEMMA NulAtEnd ==
  ASSUME NEW str \in Inputs, NEW p \in Positions(str)
  PROVE  /\ At(str, p) # 0 => p \in 1 .. Len(str)
         /\ At(str, p) = 0 => p = Len(str) + 1
<1>1. Len(str) \in Nat
  BY ReadingSteps
<1>2. p \in Int /\ (p \in 1 .. Len(str) \/ p = Len(str) + 1)
  BY <1>1 DEF Positions
<1>3. At(str, p) # 0 => p \in 1 .. Len(str)
  BY <1>2, InString
<1>4. p \in 1 .. Len(str) => At(str, p) # 0
  BY ReadAt
<1> QED BY <1>2, <1>3, <1>4

\* White space ends a number and is nothing else (skipws).
LEMMA ReadSpace ==
  ASSUME NEW str \in Inputs, NEW p \in 1 .. Len(str), IsSpace(At(str, p)),
         Here(str, p).end = Running
  PROVE  Here(str, p + 1) = Here(str, p) /\ Fresh(str, p + 1)
<1> DEFINE c == At(str, p)
           a == Reading(str)[p - 1]
<1>1. ~IsDigit(c)
  BY DEF IsSpace, IsDigit
<1>2. a \in States /\ Flush(a).end = Running /\ a.end = Running
  <2>1. a \in States /\ Flush(a).end = Running
    BY ReadAt DEF Here
  <2>2. a.end # Running => Flush(a) = a
    BY <2>1, FlushType
  <2> QED BY <2>1, <2>2
<1>3. Reading(str)[p] = Flush(a)
  BY <1>1, <1>2, ReadAt DEF ReadChar, ReadOther
<1>4. Flush(a) \in States /\ ~Flush(a).reading
  BY <1>2, FlushType
<1>5. Flush(Flush(a)) = Flush(a)
  BY <1>4, FlushType
<1> QED BY <1>3, <1>4, <1>5, ReadAt DEF Here

\* A digit goes on with the number or begins one (consumeInt).
LEMMA ReadsDigit ==
  ASSUME NEW str \in Inputs, NEW p \in 1 .. Len(str), IsDigit(At(str, p)),
         Reading(str)[p - 1].end = Running
  PROVE  Reading(str)[p] = ReadDigit(Reading(str)[p - 1], At(str, p))
BY ReadAt DEF ReadChar

LEMMA NumberBegins ==
  ASSUME NEW str \in Inputs, NEW p \in 1 .. Len(str), IsDigit(At(str, p)), Fresh(str, p)
  PROVE  Here(str, p) = Reading(str)[p - 1] /\ Wrap(Reading(str)[p - 1].num) = 0
<1>1. Reading(str)[p - 1] \in States /\ ~Reading(str)[p - 1].reading
  BY ReadAt DEF Fresh
<1>2. Here(str, p) = Reading(str)[p - 1]
  BY <1>1, FlushType DEF Here
<1>3. Reading(str)[p - 1].num = 0
  BY <1>1 DEF States
<1> QED BY <1>2, <1>3, WrapZero

\* An operator takes its operands from the values before it.
LEMMA ReadOp ==
  ASSUME NEW str \in Inputs, NEW p \in 1 .. Len(str), IsOp(At(str, p)),
         Here(str, p).end = Running
  PROVE  /\ Here(str, p + 1) = Operate(Here(str, p), At(str, p))
         /\ Fresh(str, p + 1)
<1> DEFINE c == At(str, p)
           a == Reading(str)[p - 1]
<1>1. ~IsDigit(c) /\ ~IsSpace(c)
  BY DEF IsOp, IsDigit, IsSpace
<1>2. a \in States /\ Flush(a).end = Running /\ a.end = Running
  <2>1. a \in States /\ Flush(a).end = Running
    BY ReadAt DEF Here
  <2>2. a.end # Running => Flush(a) = a
    BY <2>1, FlushType
  <2> QED BY <2>1, <2>2
<1>3. Reading(str)[p] = Operate(Flush(a), c)
  BY <1>1, <1>2, ReadAt DEF ReadChar, ReadOther
<1>4. Flush(a) \in States /\ ~Flush(a).reading
  BY <1>2, FlushType
<1>5. Operate(Flush(a), c) \in States /\ ~Operate(Flush(a), c).reading
  BY <1>4, OperateType
<1>6. Flush(Operate(Flush(a), c)) = Operate(Flush(a), c)
  BY <1>5, FlushType
<1> QED BY <1>3, <1>5, <1>6, ReadAt DEF Here

\* Any other character is an error.
LEMMA ReadUnknown ==
  ASSUME NEW str \in Inputs, NEW p \in 1 .. Len(str), Here(str, p).end = Running,
         ~IsSpace(At(str, p)), ~IsDigit(At(str, p)), ~IsOp(At(str, p))
  PROVE  Here(str, p + 1).end = Fatal("Unknown token") /\ Fresh(str, p + 1)
<1> DEFINE c == At(str, p)
           a == Reading(str)[p - 1]
           b == Failed(Flush(a), Fatal("Unknown token"))
<1>2. a \in States /\ Flush(a).end = Running /\ a.end = Running
  <2>1. a \in States /\ Flush(a).end = Running
    BY ReadAt DEF Here
  <2>2. a.end # Running => Flush(a) = a
    BY <2>1, FlushType
  <2> QED BY <2>1, <2>2
<1>3. Reading(str)[p] = b
  <2>1. Reading(str)[p] = ReadChar(a, c)
    BY ReadAt
  <2>2. ReadChar(a, c) = ReadOther(Flush(a), c)
    BY <1>2, Zenon DEF ReadChar
  <2>3. ReadOther(Flush(a), c) = b
    BY <1>2, Zenon DEF ReadOther
  <2> QED BY <2>1, <2>2, <2>3
<1>4. Flush(a) \in States /\ ~Flush(a).reading
  BY <1>2, FlushType
<1>5. b.end = Fatal("Unknown token") /\ ~b.reading /\ b \in States
  BY <1>4, Ends DEF Failed, States, Messages
<1>6. Flush(b) = b
  BY <1>5, FlushType
<1> QED BY <1>3, <1>5, <1>6, ReadAt DEF Here

\* What is wrong first decides: nothing after it is read (fatalError, SIGFPE).
LEMMA FirstError ==
  ASSUME NEW str \in Inputs, NEW p \in Positions(str), Here(str, p).end # Running, Fresh(str, p)
  PROVE  Meaning(str) = Here(str, p).end
<1> DEFINE n == Len(str)
           R == Reading(str)
<1>1. n \in Nat /\ R \in [0 .. n -> States]
  BY ReadingSteps
<1>2. ASSUME NEW k \in 0 .. n, R[k].end # Running PROVE Meaning(str) = R[k].end
  <2> DEFINE Still == {j \in 0 .. n : j >= k => R[j] = R[k]}
  <2>1. 0 \in Still
    BY <1>1
  <2>2. ASSUME NEW j \in 1 .. n, j - 1 \in Still PROVE j \in Still
    <3>1. CASE j - 1 >= k
      <4>1. R[j - 1] = R[k]
        BY <2>2, <3>1
      <4>2. R[j] = ReadChar(R[j - 1], At(str, j))
        BY ReadAt
      <4>3. R[j] = R[k]
        BY <1>2, <4>1, <4>2 DEF ReadChar
      <4>4. j \in 0 .. n
        BY <1>1
      <4> HIDE DEF R
      <4> QED BY <4>3, <4>4
    <3>2. CASE ~(j - 1 >= k)
      <4>1. j >= k => j = k
        BY <3>2
      <4>2. j \in 0 .. n
        BY <1>1
      <4> HIDE DEF R
      <4> QED BY <4>1, <4>2
    <3> QED BY <3>1, <3>2
  <2>3. 0 .. n \subseteq Still
    <3> HIDE DEF Still
    <3> QED BY <1>1, <2>1, <2>2, UpTo
  <2>4. R[n] = R[k]
    <3>1. n \in 0 .. n /\ n >= k
      BY <1>1
    <3> HIDE DEF R
    <3> QED BY <2>3, <3>1
  <2>5. Flush(R[n]) = R[k]
    <3>1. R[k] \in States
      BY <1>1
    <3> QED BY <1>2, <2>4, <3>1, FlushType
  <2> QED BY <1>2, <2>5 DEF Meaning
<1>3. p - 1 \in 0 .. n /\ Here(str, p) = Flush(R[p - 1]) /\ R[p - 1] \in States
  BY <1>1, HereType DEF Here, Positions
<1>4. CASE R[p - 1].end # Running
  <2>1. Here(str, p) = R[p - 1]
    BY <1>3, <1>4, FlushType
  <2> QED BY <1>2, <1>3, <1>4, <2>1
<1>5. CASE R[p - 1].end = Running /\ p \in 1 .. n
  <2>1. R[p - 1].reading
    BY <1>3, <1>5, FlushType
  <2>2. ~IsDigit(At(str, p))
    BY <2>1 DEF Fresh
  <2>3. R[p] = Flush(R[p - 1])
    <3>1. R[p] = ReadChar(R[p - 1], At(str, p))
      BY <1>5, ReadAt
    <3>2. ReadChar(R[p - 1], At(str, p)) = ReadOther(Flush(R[p - 1]), At(str, p))
      BY <1>5, <2>2, Zenon DEF ReadChar
    <3>3. ReadOther(Flush(R[p - 1]), At(str, p)) = Flush(R[p - 1])
      BY <1>3, Zenon DEF ReadOther
    <3> QED BY <3>1, <3>2, <3>3
  <2>4. p \in 0 .. n
    BY <1>1, <1>5
  <2> HIDE DEF R
  <2> QED BY <1>2, <1>3, <2>3, <2>4
<1>6. CASE p = n + 1
  <2>1. p - 1 = n
    BY <1>1, <1>6
  <2> QED BY <1>3, <2>1 DEF Meaning
<1>7. p \in 1 .. n \/ p = n + 1
  BY <1>1 DEF Positions
<1> QED BY <1>4, <1>5, <1>6, <1>7

\* What is left when nothing was wrong (eval).
LEMMA NoError ==
  ASSUME NEW str \in Inputs, Here(str, Len(str) + 1).end = Running
  PROVE  Meaning(str) = IF Len(Here(str, Len(str) + 1).vals) # 1 THEN Fatal("Stack misaligned")
                        ELSE Value(Here(str, Len(str) + 1).vals[1])
<1>1. Len(str) \in Nat
  BY ReadingSteps
<1>2. Here(str, Len(str) + 1) = Flush(Reading(str)[Len(str)])
  <2>1. (Len(str) + 1) - 1 = Len(str)
    BY <1>1
  <2> QED BY <2>1 DEF Here
<1> QED BY <1>2 DEF Meaning

-----------------------------------------------------------------------------
(* That the calculator says what the expression means.                      *)

\* Only the stack and the count decide what the stack holds.
LEMMA HoldsStill ==
  ASSUME NEW f, NEW g, StackOf(g) = StackOf(f), g[Count] = f[Count], NEW vals, NEW more
  PROVE  Holds(g, vals, more) = Holds(f, vals, more)
BY DEF Holds

\* A value that is popped is still one of the values.
LEMMA HoldsPopped ==
  ASSUME NEW f, NEW g, f[Count] \in Nat, f[Count] > 0, g[Count] = f[Count] - 1,
         StackOf(g) = StackOf(f), NEW more \in Nat, NEW vals, Holds(f, vals, more)
  PROVE  /\ Holds(g, vals, more + 1)
         /\ vals[g[Count] + 1] = StackOf(f)[f[Count] - 1]
         /\ g[Count] + 2 = f[Count] + 1
<1>1. PICK c \in Nat : c = f[Count] /\ c > 0 /\ g[Count] = c - 1
  OBVIOUS
<1>2. Len(vals) = c + more /\ \A i \in 1 .. c : vals[i] = StackOf(f)[i - 1]
  BY <1>1 DEF Holds
<1>3. \A i \in 1 .. c - 1 : vals[i] = StackOf(g)[i - 1]
  BY <1>2
<1>4. Len(vals) = (c - 1) + (more + 1)
  BY <1>2
<1>5. c \in 1 .. c /\ g[Count] + 1 = c /\ g[Count] + 2 = c + 1
  BY <1>1
<1>6. vals[c] = StackOf(f)[c - 1]
  BY <1>2, <1>5
<1> QED BY <1>1, <1>3, <1>4, <1>5, <1>6 DEF Holds

\* The value that is pushed is the next one.
LEMMA HoldsPushed ==
  ASSUME NEW f, NEW g, NEW v, f[Count] \in 0 .. MaxStack - 1, g[Count] = f[Count] + 1,
         StackOf(g) = [StackOf(f) EXCEPT ![f[Count]] = v],
         NEW vals, Holds(f, vals, 1), vals[f[Count] + 1] = v
  PROVE  Holds(g, vals, 0)
<1>1. MaxStack \in Nat
  BY Layout
<1>2. PICK c \in Nat : c = f[Count] /\ c \in 0 .. MaxStack - 1 /\ g[Count] = c + 1
  BY <1>1
<1>3. Len(vals) = (c + 1) + 0 /\ \A i \in 1 .. c : vals[i] = StackOf(f)[i - 1]
  BY <1>2 DEF Holds
<1>4. \A j \in 0 .. c : j \in 0 .. MaxStack - 1
  BY <1>1, <1>2
<1>5. \A j \in 0 .. c : StackOf(g)[j] = IF j = c THEN v ELSE StackOf(f)[j]
  <2>1. \A j \in 0 .. MaxStack - 1 : StackOf(g)[j] = IF j = c THEN v ELSE StackOf(f)[j]
    <3>1. StackOf(f) = [i \in 0 .. MaxStack - 1 |-> StackOf(f)[i]]
      BY DEF StackOf
    <3>2. PICK st : st = StackOf(f) /\ st = [i \in 0 .. MaxStack - 1 |-> st[i]]
      BY <3>1
    <3>3. StackOf(g) = [st EXCEPT ![c] = v]
      BY <1>2, <3>2
    <3> QED BY <3>2, <3>3
  <2> QED BY <1>4, <2>1
<1>6. ASSUME NEW i \in 1 .. c + 1 PROVE vals[i] = StackOf(g)[i - 1]
  <2>1. CASE i = c + 1
    <3>1. i - 1 = c /\ c \in 0 .. c
      BY <2>1
    <3> QED BY <1>2, <1>5, <2>1, <3>1
  <2>2. CASE i # c + 1
    <3>1. i \in 1 .. c /\ i - 1 \in 0 .. c /\ i - 1 # c
      BY <2>2
    <3> QED BY <1>3, <1>5, <3>1
  <2> QED BY <2>1, <2>2
<1> QED BY <1>2, <1>3, <1>6 DEF Holds

LEMMA InitMeant == Init => Meant
<1> SUFFICES ASSUME Init PROVE Meant
  OBVIOUS
<1>1. input \in Inputs /\ frame[S] = 1 /\ frame[Count] = 0 /\ ptr = 1
      /\ label = "LskipLoop" /\ end = Running
  <2>1. PICK junk \in [Frame -> Garbage] : frame = [junk EXCEPT ![S] = 1, ![Count] = 0]
    BY DEF Init
  <2> QED BY <2>1, Layout DEF Init
<1>2. Reading(input)[0] = Start /\ Reading(input)[1 - 1] = Start
  <2>1. 1 - 1 = 0
    OBVIOUS
  <2> QED BY <1>1, <2>1, ReadingSteps
<1>3. Start.end = Running /\ Start.vals = <<>> /\ ~Start.reading
  BY DEF Start
<1>4. Here(input, 1) = Start
  BY <1>2, <1>3, StartType, FlushType DEF Here
<1>5. Between(input, frame, 1)
  BY <1>1, <1>2, <1>3, <1>4 DEF Between, Holds, Fresh
<1>6. Means(input, label, frame, ptr, r12, rdx)
  BY <1>1, <1>5 DEF Means
<1> QED BY <1>1, <1>6 DEF Meant, EvaluatesPostfix

LEMMA StepMeant == IInv /\ Meant /\ [Next]_avars => Meant'
<1> SUFFICES ASSUME IInv, Meant, [Next]_avars PROVE Meant'
  OBVIOUS
<1> DEFINE q == frame[S]
           M == Means(input, label', frame', ptr', r12', rdx')
<1>1. /\ frame \in [Frame -> Int] /\ Null = 0
      /\ input \in Inputs /\ ptr \in Positions(input) /\ ptr \in Int /\ ptr # Null
      /\ frame[Count] \in 0 .. MaxStack /\ MaxStack \in Nat
      /\ q \in Int /\ (q # Null => q \in Positions(input))
      /\ r12 \in CInt /\ rdx \in CInt
  <2>1. TypeOK /\ input \in Inputs
    BY DEF IInv, TypeOK
  <2>2. /\ frame[S] \in Use(input, S) /\ frame[Count] \in Use(input, Count)
        /\ frame \in [Frame -> Int]
    BY <2>1, Layout DEF TypeOK, FrameOK
  <2> QED BY <2>1, <2>2, LongWords, Layout DEF TypeOK, Positions, Null
<1>2. /\ S \in Frame /\ Count \in Frame /\ Tmp \in Frame /\ Right \in Frame /\ Left \in Frame
      /\ S # Count /\ S # Tmp /\ Count # Tmp /\ Count # Right /\ Count # Left
  BY Layout
<1>3. input' = input
  BY DEF Next, Step, avars, Stop, LskipTop, LskipExit, LskipAfterLoop, LloopTop,
         LtokenInt, LconsumeIntLoopTop, LconsumeIntAfterLoop, LtokenOp, PopRight, PopLeft,
         LpopErr, CallEvalOp, LdonePush, LpushErr, LloopBottom, LtokenBad, Ldone
<1>4. end = Running => Means(input, label, frame, ptr, r12, rdx)
  BY DEF Meant
<1>5. ASSUME end' = Running, M PROVE Meant'
  BY <1>3, <1>5 DEF Meant, EvaluatesPostfix
<1>6. ASSUME end' # Running, end' = Meaning(input) PROVE Meant'
  BY <1>3, <1>6 DEF Meant, EvaluatesPostfix
<1>7. /\ q = Null => label \in {"LloopTop", "Ldone"}
      /\ label = "LskipAfterLoop" => At(input, ptr) = 0 \/ ~IsSpace(At(input, ptr))
  BY DEF IInv, Tokens, CharAt
<1> HIDE DEF M
<1>8. CASE LskipTop
  <2>1. /\ Between(input, frame, ptr) /\ At(input, ptr) # 0 /\ IsSpace(At(input, ptr))
        /\ end' = Running /\ label' = "LskipLoop" /\ frame' = frame /\ ptr' = ptr + 1
    BY <1>4, <1>8 DEF LskipTop, Runs, CharAt, Means
  <2>2. ptr \in 1 .. Len(input) /\ Here(input, ptr).end = Running
    BY <1>1, <2>1, NulAtEnd DEF Between
  <2>3. Here(input, ptr + 1) = Here(input, ptr) /\ Fresh(input, ptr + 1)
    BY <1>1, <2>1, <2>2, ReadSpace
  <2>4. Between(input, frame, ptr + 1)
    BY <2>1, <2>3 DEF Between
  <2>5. M
    BY <2>1, <2>4 DEF M, Means
  <2> QED BY <1>5, <2>1, <2>5
<1>9. CASE LskipExit
  <2>1. /\ Between(input, frame, ptr)
        /\ end' = Running /\ label' = "LskipAfterLoop" /\ frame' = frame /\ ptr' = ptr
    BY <1>4, <1>9 DEF LskipExit, Runs, Goto, Means
  <2>2. M
    BY <2>1 DEF M, Means
  <2> QED BY <1>5, <2>1, <2>2
<1>10. CASE LskipAfterLoop
  <2>1. /\ Between(input, frame, ptr)
        /\ end' = Running /\ label' = "LloopTop"
        /\ At(input, ptr) = 0 \/ ~IsSpace(At(input, ptr))
    BY <1>4, <1>7, <1>10 DEF LskipAfterLoop, Runs, Goto, Means
  <2>2. /\ StackOf(frame') = StackOf(frame) /\ frame'[Count] = frame[Count]
        /\ frame'[S] = IF At(input, ptr) = 0 THEN Null ELSE ptr
    BY <1>1, <1>2, <1>10, SameStack DEF LskipAfterLoop, CharAt
  <2>3. Between(input, frame', ptr)
    BY <2>1, <2>2, HoldsStill DEF Between
  <2>4. At(input, ptr) = 0 => ptr = Len(input) + 1
    BY <1>1, NulAtEnd
  <2>5. M
    BY <1>1, <2>1, <2>2, <2>3, <2>4 DEF M, Means
  <2> QED BY <1>5, <2>1, <2>5
<1>11. CASE LloopTop
  <2>1. /\ Between(input, frame, IF q = Null THEN Len(input) + 1 ELSE q)
        /\ q # Null => At(input, q) # 0 /\ ~IsSpace(At(input, q))
        /\ end' = Running /\ frame' = frame
        /\ label' = IF q = Null THEN "Ldone" ELSE IF IsDigit(At(input, q)) THEN "LtokenInt"
                    ELSE IF IsOp(At(input, q)) THEN "LtokenOp" ELSE "LtokenBad"
    BY <1>4, <1>11 DEF LloopTop, Runs, Goto, Means, CharAt
  <2>2. CASE q = Null
    <3>1. label' = "Ldone" /\ Between(input, frame', Len(input) + 1)
      BY <2>1, <2>2
    <3>2. M
      BY <3>1 DEF M, Means
    <3> QED BY <1>5, <2>1, <3>2
  <2>3. CASE q # Null
    <3>1. label' \in {"LtokenInt", "LtokenOp", "LtokenBad"} /\ Between(input, frame', q)
          /\ At(input, q) # 0 /\ ~IsSpace(At(input, q)) /\ frame'[S] = q
      BY <2>1, <2>3
    <3>2. M
      BY <2>3, <3>1 DEF M, Means
    <3> QED BY <1>5, <2>1, <3>2
  <2> QED BY <2>2, <2>3
<1>12. CASE LtokenInt
  <2>1. /\ q # Null /\ q \in Positions(input) /\ Between(input, frame, q)
        /\ At(input, q) # 0 /\ IsDigit(At(input, q))
        /\ end' = Running /\ label' = "LconsumeIntLoop" /\ ptr' = q /\ r12' = 0
    BY <1>1, <1>4, <1>7, <1>12 DEF LtokenInt, Runs, Goto, Means, IInv, Tokens, CharAt
  <2>2. StackOf(frame') = StackOf(frame) /\ frame'[Count] = frame[Count]
    BY <1>1, <1>2, <1>12, SameStack DEF LtokenInt
  <2>3. q \in 1 .. Len(input)
    BY <1>1, <2>1, NulAtEnd
  <2>4. Here(input, q) = Reading(input)[q - 1] /\ Wrap(Reading(input)[q - 1].num) = 0
    BY <1>1, <2>1, <2>3, NumberBegins DEF Between
  <2>5. WithinNumber(input, frame', q, 0)
    BY <2>1, <2>2, <2>4, HoldsStill DEF Between, WithinNumber
  <2>6. M
    BY <2>1, <2>5 DEF M, Means
  <2> QED BY <1>5, <2>1, <2>6
<1>13. CASE LconsumeIntLoopTop
  <2> DEFINE m == Reading(input)[ptr - 1]
             c == At(input, ptr)
  <2>1. /\ WithinNumber(input, frame, ptr, r12) /\ IsDigit(c)
        /\ end' = Running /\ label' = "LconsumeIntLoop" /\ frame' = frame
        /\ ptr' = ptr + 1 /\ r12' = AddDigit(r12, c)
    BY <1>4, <1>13 DEF LconsumeIntLoopTop, Runs, Means, CharAt
  <2>2. ptr \in 1 .. Len(input) /\ c \in Int
    <3>1. c # 0
      BY <2>1 DEF IsDigit
    <3> QED BY <1>1, <3>1, NulAtEnd, ReadAt
  <2>3. /\ m.end = Running /\ Holds(frame, m.vals, 0) /\ r12 = Wrap(m.num)
        /\ m \in States
    BY <1>1, <2>1, <2>2, ReadAt DEF WithinNumber
  <2>4. Reading(input)[ptr] = ReadDigit(m, c)
    BY <1>1, <2>1, <2>2, <2>3, ReadsDigit
  <2>5. ReadDigit(m, c).end = Running /\ ReadDigit(m, c).vals = m.vals
        /\ ReadDigit(m, c).reading /\ ReadDigit(m, c).num = 10 * m.num + DigitValue(c)
        /\ m.num \in Int
    BY <2>3 DEF ReadDigit, States
  <2>6. r12' = Wrap(10 * m.num + DigitValue(c))
    BY <2>1, <2>2, <2>3, <2>5, DigitsWrap
  <2>7. (ptr + 1) - 1 = ptr
    BY <1>1
  <2>8. WithinNumber(input, frame, ptr + 1, r12')
    <3> HIDE DEF m, c
    <3> QED BY <2>3, <2>4, <2>5, <2>6, <2>7 DEF WithinNumber
  <2>9. M
    BY <2>1, <2>8 DEF M, Means
  <2> QED BY <1>5, <2>1, <2>9
<1>14. CASE LconsumeIntAfterLoop
  <2> DEFINE m == Reading(input)[ptr - 1]
  <2>1. /\ WithinNumber(input, frame, ptr, r12) /\ ~IsDigit(At(input, ptr))
        /\ end' = Running /\ label' = "stackPush" /\ rdx' = r12
    BY <1>4, <1>14 DEF LconsumeIntAfterLoop, Runs, Goto, Means, CharAt
  <2>2. /\ StackOf(frame') = StackOf(frame) /\ frame'[Count] = frame[Count]
        /\ frame'[S] = ptr
    BY <1>1, <1>2, <1>14, SameStack DEF LconsumeIntAfterLoop
  <2>3. /\ m.end = Running /\ Holds(frame, m.vals, 0) /\ r12 = Wrap(m.num)
        /\ m.reading /\ m \in States
    BY <1>1, <2>1, HereType DEF WithinNumber
  <2>4. Len(m.vals) = frame[Count] /\ m.vals \in Seq(CInt)
    BY <1>1, <2>3 DEF Holds, States
  <2>0. Fresh(input, ptr)
    BY <2>1 DEF Fresh
  <2>5. CASE frame[Count] >= MaxStack
    <3>1. Len(m.vals) = MaxStack
      BY <1>1, <2>4, <2>5
    <3>2. Here(input, ptr) = Failed(m, Fatal("Stack is full"))
      BY <2>3, <3>1 DEF Here, Flush
    <3>3. Here(input, ptr).end = Fatal("Stack is full")
      BY <2>3, <3>2 DEF Failed, States
    <3>4. ToPush(input, frame', ptr, r12)
      <4>1. ~(frame'[Count] < MaxStack)
        BY <1>1, <2>2, <2>5
      <4> QED BY <2>0, <3>3, <4>1 DEF ToPush
    <3> QED BY <2>1, <2>2, <3>4, <1>5 DEF M, Means
  <2>6. CASE frame[Count] < MaxStack
    <3>1. Len(m.vals) # MaxStack
      BY <1>1, <2>4, <2>6
    <3> DEFINE vals == Append(m.vals, r12)
    <3>2. Here(input, ptr) = [vals |-> vals, reading |-> FALSE, num |-> 0, end |-> Running]
      BY <2>3, <3>1 DEF Here, Flush
    <3>3. Here(input, ptr).end = Running /\ Here(input, ptr).vals = vals
      BY <3>2
    <3>4. /\ Len(vals) = frame[Count] + 1 /\ vals[frame[Count] + 1] = r12
          /\ \A i \in 1 .. frame[Count] : vals[i] = m.vals[i]
      BY <1>1, <2>4
    <3> HIDE DEF vals
    <3>5. Holds(frame, vals, 1)
      BY <2>3, <3>4 DEF Holds
    <3>6. Holds(frame', vals, 1)
      BY <2>2, <3>5, HoldsStill
    <3>7. ToPush(input, frame', ptr, r12)
      <4>1. ~(frame'[Count] >= MaxStack)
        BY <1>1, <2>2, <2>6
      <4> HIDE DEF m
      <4> QED BY <2>0, <2>2, <3>3, <3>4, <3>6, <4>1 DEF ToPush
    <3> QED BY <2>1, <2>2, <3>7, <1>5 DEF M, Means
  <2> QED BY <1>1, <2>5, <2>6
<1>15. CASE LtokenOp
  <2>1. /\ q # Null /\ q \in Positions(input) /\ Between(input, frame, q)
        /\ IsOp(At(input, q)) /\ end' = Running /\ label' = "popRight"
    BY <1>1, <1>4, <1>7, <1>15 DEF LtokenOp, Runs, Goto, Means, IInv, Tokens, CharAt
  <2>2. /\ StackOf(frame') = StackOf(frame) /\ frame'[Count] = frame[Count]
        /\ frame'[S] = q + 1 /\ frame'[Tmp] = At(input, q)
    <3>1. StackOf(frame') = StackOf(frame)
      BY <1>1, <1>15, SameStack DEF LtokenOp
    <3> QED BY <1>1, <1>2, <1>15, <3>1 DEF LtokenOp, CharAt
  <2>3. q \in 1 .. Len(input) /\ (q + 1) - 1 = q
    <3>1. At(input, q) # 0
      BY <2>1 DEF IsOp
    <3> QED BY <1>1, <2>1, <3>1, NulAtEnd
  <2>4. Len(Here(input, q).vals) <= MaxStack
    BY <1>1, <2>1 DEF Between, Holds
  <2>5. Popped(input, frame', q + 1, 0)
    BY <2>1, <2>2, <2>3, <2>4, HoldsStill DEF Between, Popped
  <2>6. M
    BY <2>1, <2>2, <2>5 DEF M, Means
  <2> QED BY <1>5, <2>1, <2>6
<1>16. CASE PopRight
  <2> DEFINE vals == Here(input, q - 1).vals
  <2>1. /\ Popped(input, frame, q, 0) /\ end' = Running /\ label' = "popLeft"
        /\ PopInto(Right)
    BY <1>4, <1>16 DEF PopRight, Runs, Goto, Means
  <2>2. /\ StackOf(frame') = StackOf(frame) /\ frame'[S] = frame[S]
        /\ frame'[Tmp] = frame[Tmp] /\ frame'[Count] = frame[Count] - 1
        /\ frame[Count] > 0 /\ frame'[Right] = StackOf(frame)[frame[Count] - 1]
    BY <2>1, PopMoves
  <2>3. frame[Count] \in Nat /\ Holds(frame, vals, 0)
    BY <1>1, <2>1 DEF Popped
  <2>4. Holds(frame', vals, 1) /\ vals[frame'[Count] + 1] = frame'[Right]
    <3> HIDE DEF vals
    <3>1. 0 \in Nat /\ 0 + 1 = 1
      OBVIOUS
    <3> QED BY <2>2, <2>3, <3>1, HoldsPopped
  <2>5. Popped(input, frame', q, 1)
    BY <2>1, <2>2, <2>4 DEF Popped
  <2>6. M
    BY <2>1, <2>2, <2>4, <2>5 DEF M, Means
  <2> QED BY <1>5, <2>1, <2>6
<1>17. CASE PopLeft
  <2> DEFINE vals == Here(input, q - 1).vals
  <2>1. /\ Popped(input, frame, q, 1) /\ end' = Running /\ label' = "evalOp"
        /\ PopInto(Left) /\ frame[Right] = vals[frame[Count] + 1]
    BY <1>4, <1>17 DEF PopLeft, Runs, Goto, Means
  <2>2. /\ StackOf(frame') = StackOf(frame) /\ frame'[S] = frame[S]
        /\ frame'[Tmp] = frame[Tmp] /\ frame'[Count] = frame[Count] - 1
        /\ frame[Count] > 0 /\ frame'[Left] = StackOf(frame)[frame[Count] - 1]
        /\ frame'[Right] = frame[Right]
    BY <2>1, PopMoves
  <2>3. frame[Count] \in Nat /\ Holds(frame, vals, 1)
    BY <1>1, <2>1 DEF Popped
  <2>4. /\ Holds(frame', vals, 2) /\ vals[frame'[Count] + 1] = frame'[Left]
        /\ frame'[Count] + 2 = frame[Count] + 1
    <3> HIDE DEF vals
    <3>1. 1 \in Nat /\ 1 + 1 = 2
      OBVIOUS
    <3> QED BY <2>2, <2>3, <3>1, HoldsPopped
  <2>5. Popped(input, frame', q, 2)
    BY <2>1, <2>2, <2>4 DEF Popped
  <2>6. frame'[Right] = vals[frame'[Count] + 2]
    BY <2>1, <2>2, <2>4
  <2>7. M
    BY <2>1, <2>2, <2>4, <2>5, <2>6 DEF M, Means
  <2> QED BY <1>5, <2>1, <2>7
<1>18. ASSUME NEW more \in Nat, Popped(input, frame, q, more)
       PROVE  /\ q \in Positions(input) /\ q - 1 \in 1 .. Len(input) /\ Fresh(input, q)
              /\ Here(input, q - 1) \in States /\ Here(input, q - 1).end = Running
              /\ Here(input, q) = Operate(Here(input, q - 1), frame[Tmp])
              /\ Len(Here(input, q - 1).vals) = frame[Count] + more
  <2>1. /\ q - 1 \in 1 .. Len(input) /\ IsOp(At(input, q - 1)) /\ Here(input, q - 1).end = Running
        /\ frame[Tmp] = At(input, q - 1) /\ Len(Here(input, q - 1).vals) = frame[Count] + more
    BY <1>18 DEF Popped, Holds
  <2>2. (q - 1) + 1 = q /\ q \in Positions(input) /\ q - 1 \in Positions(input)
    <3>1. Len(input) \in Nat
      BY <1>1, ReadingSteps
    <3> QED BY <1>1, <2>1, <3>1 DEF Positions
  <2>3. Here(input, q - 1) \in States
    BY <1>1, <2>2, HereType
  <2>4. /\ Here(input, (q - 1) + 1) = Operate(Here(input, q - 1), At(input, q - 1))
        /\ Fresh(input, (q - 1) + 1)
    BY <1>1, <2>1, ReadOp
  <2> QED BY <2>1, <2>2, <2>3, <2>4
<1>19. CASE LpopErr
  <2>1. /\ end' = Fatal("Stack is empty") /\ frame[Count] = 0
        /\ Popped(input, frame, q, 0) \/ Popped(input, frame, q, 1)
    <3>1. end = Running /\ label \in {"popRight", "popLeft"} /\ frame[Count] <= 0
          /\ end' = Fatal("Stack is empty")
      BY <1>19 DEF LpopErr, Runs, Stop
    <3>2. Means(input, label, frame, ptr, r12, rdx)
      BY <1>4, <3>1
    <3>3. Popped(input, frame, q, 0) \/ Popped(input, frame, q, 1)
      BY <3>1, <3>2 DEF Means
    <3>4. frame[Count] = 0
      <4>1. PICK c \in 0 .. MaxStack : c = frame[Count]
        BY <1>1
      <4>2. c <= 0
        BY <3>1, <4>1
      <4> QED BY <4>1, <4>2
    <3> QED BY <3>1, <3>3, <3>4
  <2>2. PICK more \in {0, 1} : Popped(input, frame, q, more)
    BY <2>1
  <2>3. /\ q \in Positions(input) /\ Fresh(input, q) /\ Here(input, q - 1) \in States
        /\ Here(input, q) = Operate(Here(input, q - 1), frame[Tmp])
        /\ Len(Here(input, q - 1).vals) < 2
    <3>1. more \in Nat /\ more < 2
      BY <2>2
    <3>2. /\ q \in Positions(input) /\ Fresh(input, q) /\ Here(input, q - 1) \in States
          /\ Here(input, q) = Operate(Here(input, q - 1), frame[Tmp])
          /\ Len(Here(input, q - 1).vals) = frame[Count] + more
      BY <1>18, <2>2, <3>1
    <3>3. Len(Here(input, q - 1).vals) < 2
      <4>1. 0 + more < 2
        BY <3>1
      <4> QED BY <2>1, <3>2, <4>1
    <3> QED BY <3>2, <3>3
  <2>4. Here(input, q) = Failed(Here(input, q - 1), Fatal("Stack is empty"))
    BY <2>3 DEF Operate
  <2>5. Here(input, q).end = Fatal("Stack is empty") /\ Fatal("Stack is empty") # Running
    BY <2>3, <2>4 DEF Failed, States, Fatal, Running
  <2> QED BY <1>1, <1>6, <2>1, <2>3, <2>5, FirstError
<1>20. CASE CallEvalOp
  <2> DEFINE m == Here(input, q - 1)
             n == Len(m.vals)
             l == frame[Left]
             r == frame[Right]
             o == frame[Tmp]
  <2>1. /\ Popped(input, frame, q, 2) /\ end = Running
        /\ l = m.vals[frame[Count] + 1] /\ r = m.vals[frame[Count] + 2]
    BY <1>4, <1>20 DEF CallEvalOp, Runs, Means
  <2>2. /\ q \in Positions(input) /\ Fresh(input, q) /\ m \in States /\ m.end = Running
        /\ Here(input, q) = Operate(m, o) /\ n = frame[Count] + 2
    <3>1. 2 \in Nat
      OBVIOUS
    <3> QED BY <1>18, <2>1, <3>1
  <2>3. /\ n \in Nat /\ ~(n < 2) /\ n - 2 = frame[Count] /\ n - 1 = frame[Count] + 1
        /\ n = frame[Count] + 2 /\ n <= MaxStack
        /\ Holds(frame, m.vals, 2) /\ m.vals \in Seq(CInt)
    <3>1. Holds(frame, m.vals, 2) /\ n <= MaxStack
      BY <1>1, <2>1, <2>2, Zenon DEF Popped, States
    <3>2. frame[Count] \in Nat
      BY <1>1, <2>1, <2>2 DEF Popped, States
    <3>3. m.vals \in Seq(CInt)
      BY <2>2, Zenon DEF States
    <3> QED BY <2>2, <3>1, <3>2, <3>3
  <2>4. m.vals[n - 1] = l /\ m.vals[n] = r
    BY <2>1, <2>3
  <2>5. CASE OpTraps(o, l, r)
    <3>1. end' = Trapped /\ Trapped # Running
      BY <1>20, <2>5 DEF CallEvalOp, Stop, Trapped, Fatal, Running
    <3>2. Operate(m, o) = Failed(m, Trapped)
      BY <2>3, <2>4, <2>5, Zenon DEF Operate
    <3>3. Here(input, q).end = Trapped
      BY <2>2, <3>2 DEF Failed, States
    <3> QED BY <1>1, <1>6, <2>2, <3>1, <3>3, FirstError
  <2>6. CASE ~OpTraps(o, l, r)
    <3> DEFINE v == EvalOp(o, l, r)
               vals == Append(SubSeq(m.vals, 1, n - 2), v)
    <3>1. end' = Running /\ label' = "stackPush" /\ frame' = frame /\ rdx' = v
      BY <1>20, <2>1, <2>6 DEF CallEvalOp, Goto
    <3>2. Operate(m, o) = [m EXCEPT !.vals = vals]
      BY <2>3, <2>4, <2>6, Zenon DEF Operate
    <3>3. Here(input, q).end = Running /\ Here(input, q).vals = vals
      BY <2>2, <3>2 DEF States
    <3>4. /\ Len(vals) = frame[Count] + 1 /\ vals[frame[Count] + 1] = v
          /\ \A i \in 1 .. frame[Count] : vals[i] = m.vals[i]
      <4>1. PICK c \in Nat : c = frame[Count] /\ n - 2 = c /\ c <= n
        BY <1>1, <2>3
      <4>2. PICK w \in Seq(CInt) : w = m.vals /\ Len(w) = n
        BY <2>3
      <4>3. /\ SubSeq(w, 1, c) \in Seq(CInt) /\ Len(SubSeq(w, 1, c)) = c
            /\ \A i \in 1 .. c : SubSeq(w, 1, c)[i] = w[i]
        BY <4>1, <4>2
      <4>4. vals = Append(SubSeq(w, 1, c), v)
        BY <4>1, <4>2
      <4> HIDE DEF vals, v
      <4>5. Len(vals) = c + 1 /\ vals[c + 1] = v /\ \A i \in 1 .. c : vals[i] = w[i]
        BY <4>3, <4>4
      <4> QED BY <4>1, <4>2, <4>5
    <3> HIDE DEF vals, v
    <3>5. Holds(frame, vals, 1)
      BY <2>3, <3>4 DEF Holds
    <3>6. ~(frame[Count] >= MaxStack)
      BY <1>1, <2>3
    <3>7. ToPush(input, frame, q, v)
      BY <2>2, <3>3, <3>4, <3>5, <3>6 DEF ToPush
    <3>8. M
      BY <3>1, <3>7 DEF M, Means
    <3> QED BY <1>5, <3>1, <3>8
  <2> QED BY <2>5, <2>6
<1>21. CASE LdonePush
  <2> DEFINE m == Here(input, q)
  <2>1. /\ ToPush(input, frame, q, rdx) /\ end' = Running /\ label' = "LloopBottom"
        /\ frame[Count] < MaxStack
    BY <1>4, <1>21 DEF LdonePush, Runs, Goto, Means
  <2>2. /\ m.end = Running /\ Fresh(input, q)
        /\ Holds(frame, m.vals, 1) /\ m.vals[frame[Count] + 1] = rdx
    BY <2>1 DEF ToPush
  <2>3. frame[Count] \in 0 .. MaxStack - 1
    BY <1>1, <2>1
  <2>4. Stack + frame[Count] \in Frame \ {S, Count}
    BY <2>3, Layout
  <2>5. StackOf(frame') = [StackOf(frame) EXCEPT ![frame[Count]] = rdx]
    BY <1>1, <1>21, <2>3, <2>4, StackWrite DEF LdonePush
  <2>6. frame'[Count] = frame[Count] + 1 /\ frame'[S] = frame[S]
    BY <1>1, <1>2, <1>21, <2>4, Layout DEF LdonePush
  <2>7. Holds(frame', m.vals, 0)
    <3> HIDE DEF m
    <3> QED BY <2>2, <2>3, <2>5, <2>6, HoldsPushed
  <2>8. Between(input, frame', q)
    BY <2>2, <2>7 DEF Between
  <2>9. M
    BY <2>1, <2>6, <2>8 DEF M, Means
  <2> QED BY <1>5, <2>1, <2>9
<1>22. CASE LpushErr
  <2>1. /\ ToPush(input, frame, q, rdx) /\ end' = Fatal("Stack is full")
        /\ frame[Count] >= MaxStack /\ q \in Positions(input)
    BY <1>1, <1>4, <1>7, <1>22 DEF LpushErr, Runs, Stop, Means
  <2>2. Here(input, q).end = Fatal("Stack is full") /\ Fresh(input, q) /\ end' # Running
    BY <2>1 DEF ToPush, Fatal, Running
  <2> QED BY <1>1, <1>6, <2>1, <2>2, FirstError
<1>23. CASE LloopBottom
  <2>1. /\ Between(input, frame, q)
        /\ end' = Running /\ label' = "LskipLoop" /\ frame' = frame /\ ptr' = q
    BY <1>4, <1>23 DEF LloopBottom, Runs, Goto, Means
  <2>2. M
    BY <2>1 DEF M, Means
  <2> QED BY <1>5, <2>1, <2>2
<1>24. CASE LtokenBad
  <2>1. /\ q # Null /\ q \in Positions(input) /\ Between(input, frame, q)
        /\ At(input, q) # 0 /\ ~IsSpace(At(input, q))
        /\ ~IsDigit(At(input, q)) /\ ~IsOp(At(input, q))
        /\ end' = Fatal("Unknown token")
    BY <1>1, <1>4, <1>7, <1>24 DEF LtokenBad, Runs, Stop, Means, IInv, Tokens, CharAt
  <2>2. q \in 1 .. Len(input) /\ Here(input, q).end = Running
    BY <1>1, <2>1, NulAtEnd DEF Between
  <2>3. Here(input, q + 1).end = Fatal("Unknown token") /\ Fresh(input, q + 1)
    BY <1>1, <2>1, <2>2, ReadUnknown
  <2>4. q + 1 \in Positions(input) /\ end' # Running
    <3>1. Len(input) \in Nat
      BY <1>1, ReadingSteps
    <3>2. q + 1 \in Positions(input)
      BY <2>2, <3>1 DEF Positions
    <3> QED BY <2>1, <3>2 DEF Fatal, Running
  <2> QED BY <1>1, <1>6, <2>1, <2>3, <2>4, FirstError
<1>25. CASE Ldone
  <2> DEFINE m == Here(input, Len(input) + 1)
  <2>1. m.end = Running /\ Holds(frame, m.vals, 0)
    BY <1>4, <1>25 DEF Ldone, Runs, Means, Between
  <2>2. Len(m.vals) = frame[Count]
    BY <1>1, <2>1 DEF Holds
  <2>3. Meaning(input) = IF Len(m.vals) # 1 THEN Fatal("Stack misaligned") ELSE Value(m.vals[1])
    BY <1>1, <2>1, NoError
  <2>4. CASE frame[Count] # 1
    <3>1. end' = Fatal("Stack misaligned") /\ end' # Running
      <4>1. end' = Fatal("Stack misaligned")
        BY <1>25, <2>4 DEF Ldone, Stop
      <4> QED BY <4>1 DEF Fatal, Running
    <3> QED BY <1>6, <2>2, <2>3, <2>4, <3>1
  <2>5. CASE frame[Count] = 1
    <3>1. end' = Value(frame[Stack]) /\ end' # Running
      BY <1>25, <2>5 DEF Ldone, Value, Running
    <3>2. m.vals[1] = frame[Stack]
      <4>1. 1 \in 1 .. frame[Count] /\ 1 - 1 = 0 /\ 0 \in 0 .. MaxStack - 1 /\ Stack + 0 = Stack
        BY <2>5, Layout
      <4>2. m.vals[1] = StackOf(frame)[1 - 1]
        BY <2>1, <4>1 DEF Holds
      <4> QED BY <4>1, <4>2 DEF StackOf
    <3> QED BY <1>6, <2>2, <2>3, <2>5, <3>1, <3>2
  <2> QED BY <2>4, <2>5
<1>26. CASE UNCHANGED avars
  BY <1>26 DEF avars, Meant, EvaluatesPostfix
<1> QED BY <1>8, <1>9, <1>10, <1>11, <1>12, <1>13, <1>14, <1>15, <1>16, <1>17, <1>19, <1>20,
           <1>21, <1>22, <1>23, <1>24, <1>25, <1>26 DEF Next, Step

\* However it gets there, the calculator ends with the value of the expression, or
\* with the message for the first thing that is wrong with it, for every string,
\* stack size and width of a long (testEval, testEvalInvalid of cTests.c).
THEOREM EndsWithMeaning == Spec => []EvaluatesPostfix
<1>1. IInv /\ Meant /\ [Next]_avars => Meant'
  BY StepMeant
<1>2. Meant => EvaluatesPostfix
  BY DEF Meant
<1> QED BY <1>1, <1>2, Inductive, InitMeant, PTL DEF Spec
=============================================================================
