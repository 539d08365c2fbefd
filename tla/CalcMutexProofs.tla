-------------------------- MODULE CalcMutexProofs --------------------------
(***************************************************************************)
(* evalExpr under the mutex, for any threads, lines and int width: type    *)
(* correctness, mutual exclusion, linearizability, and that no increment   *)
(* of a variable is lost.                                                  *)
(***************************************************************************)
EXTENDS MCCalcMutex, SequenceTheorems, TLAPS

-----------------------------------------------------------------------------
(* Numbers.                                                                 *)

\* A wrapped result is an int (calc.cpp:136, 139, 142).
LEMMA WrapType ==
  ASSUME NEW x \in Int
  PROVE  Wrap(x) \in CInt
<1>1. IntMax - IntMin + 1 \in Nat \ {0} /\ IntMin \in Int /\ IntMax \in Int
  BY IntAssumption
<1>2. (x - IntMin) % (IntMax - IntMin + 1) \in 0 .. (IntMax - IntMin)
  BY <1>1
<1> QED BY <1>1, <1>2 DEF Wrap, CInt

\* unless the divisor is one.
LEMMA DivBound ==
  ASSUME NEW a \in Nat, NEW b \in Nat, b > 0
  PROVE  /\ a \div b \in Nat
         /\ a \div b <= a
         /\ b > 1 => 2 * (a \div b) <= a
<1> DEFINE q == a \div b
<1>1. q \in Int /\ b * q <= a /\ a < b * q + b
  OBVIOUS
<1> QED BY <1>1

\* A division that does not trap has an int for its quotient (calc.cpp:145).
LEMMA QuotientType ==
  ASSUME NEW l \in CInt, NEW r \in CInt, ~Traps(l, r)
  PROVE  Quotient(l, r) \in CInt
<1> DEFINE a == AbsVal(l)
           b == AbsVal(r)
           q == a \div b
<1>1. IntMax \in Nat /\ IntMax > 0 /\ IntMin = -IntMax - 1
  BY IntAssumption
<1>2. l \in IntMin .. IntMax /\ r \in IntMin .. IntMax
  BY DEF CInt
<1>3. /\ a \in Nat /\ a <= IntMax + 1 /\ (a = IntMax + 1 => l = IntMin)
      /\ b \in Nat /\ b > 0 /\ (b = 1 => r = 1 \/ r = -1)
  BY <1>1, <1>2 DEF AbsVal, Traps, Overflows
<1>4. q \in Nat /\ q <= a /\ (b > 1 => 2 * q <= a)
  BY <1>3, DivBound
<1>5. Quotient(l, r) = IF (l < 0) = (r < 0) THEN q ELSE -q
  BY DEF Quotient
<1> HIDE DEF q, a, b
<1>6. CASE q <= IntMax
  BY <1>1, <1>4, <1>5, <1>6 DEF CInt
<1>7. CASE q > IntMax
  <2>1. q = IntMax + 1 /\ a = IntMax + 1
    BY <1>1, <1>3, <1>4, <1>7
  <2>2. b = 1
    BY <2>1, <1>1, <1>3, <1>4
  <2>3. l = IntMin /\ r = 1
    BY <2>1, <2>2, <1>3 DEF Traps, Overflows
  <2>4. Quotient(l, r) = -q
    BY <2>3, <1>1, <1>5
  <2> QED BY <2>1, <2>4, <1>1 DEF CInt
<1> QED BY <1>1, <1>4, <1>6, <1>7

-----------------------------------------------------------------------------
(* The evaluator.                                                           *)

\* Division either fails, ends the process, or yields an int.
LEMMA DivideType ==
  ASSUME NEW l \in CInt, NEW r \in CInt
  PROVE  Divide(l, r) \in Outcome
<1>1. 0 \in CInt
  BY IntAssumption DEF CInt
<1>2. CASE r # 0 /\ ~Overflows(l, r)
  BY <1>2, QuotientType DEF Divide, Outcome, Ok, Traps
<1>3. CASE r = 0 \/ Overflows(l, r)
  BY <1>1, <1>3 DEF Divide, Outcome, No, Abort
<1> QED BY <1>2, <1>3

\* evalOp yields an outcome for every operator token (calc.cpp:131-150).
LEMMA EvalOpType ==
  ASSUME NEW l \in CInt, NEW r \in CInt, NEW op \in Token
  PROVE  EvalOp(l, op, r) \in Outcome
<1>1. l \in Int /\ r \in Int /\ 0 \in CInt
  BY IntAssumption DEF CInt
<1>2. l + r \in Int /\ l - r \in Int /\ l * r \in Int
  BY <1>1
<1>3. Ok(Wrap(l + r)) \in Outcome /\ Ok(Wrap(l - r)) \in Outcome
        /\ Ok(Wrap(l * r)) \in Outcome /\ No \in Outcome
  BY <1>1, <1>2, WrapType DEF Ok, No, Outcome
<1>4. Divide(l, r) \in Outcome
  BY DivideType
<1> HIDE DEF Outcome, Ok, No, Divide, Wrap
<1> QED BY <1>3, <1>4 DEF EvalOp

\* A token of a line is a name or a number in range.
LEMMA TokenType ==
  ASSUME NEW tok \in Token
  PROVE  /\ tok.val \in CInt
         /\ tok.cls = "word" => tok.name \in Names
<1>1. 0 \in CInt
  BY IntAssumption DEF CInt
<1>2. CASE \E n \in Names : tok = Word(n)
  BY <1>1, <1>2 DEF Word
<1>3. CASE \E v \in CInt : tok = Num(v)
  <2>1. PICK v \in CInt : tok = Num(v)
    BY <1>3
  <2>2. tok.val = v /\ tok.cls = "num"
    BY <2>1 DEF Num
  <2> QED BY <2>2
<1>4. CASE \E sym \in {"+", "*", "/", "=", "%"} : tok = Op(sym)
  BY <1>1, <1>4 DEF Op
<1>5. CASE tok \in {Dash, BadNum, Junk}
  BY <1>1, <1>5 DEF Dash, BadNum, Junk
<1> QED BY <1>2, <1>3, <1>4, <1>5 DEF Token

\* getVal yields an outcome (calc.cpp:176-190).
LEMMA GetValType ==
  ASSUME NEW store \in Store, NEW tok \in Token
  PROVE  GetVal(store, tok) \in Outcome
<1>1. tok.val \in CInt /\ 0 \in CInt
  BY TokenType, IntAssumption DEF CInt
<1>2. ASSUME tok.name \in DOMAIN store
      PROVE  store[tok.name] \in CInt
  BY <1>2 DEF Store
<1> QED BY <1>1, <1>2 DEF GetVal, Stoi, Outcome, Ok, No, Abort

\* Assigning an int to a name keeps the store a store (calc.cpp:86).
LEMMA PutType ==
  ASSUME NEW store \in Store, NEW n \in Names, NEW v \in CInt
  PROVE  Put(store, n, v) \in Store
<1>1. PICK D \in SUBSET Names : store \in [D -> CInt]
  BY DEF Store
<1>2. Put(store, n, v) \in [D \cup {n} -> CInt]
  BY <1>1 DEF Put
<1>3. D \cup {n} \in SUBSET Names
  OBVIOUS
<1> QED BY <1>2, <1>3 DEF Store

\* The rest of an assignment is a line again (calc.cpp:81).
LEMMA RestType ==
  ASSUME NEW e \in Seq(Token)
  PROVE  Rest(e) \in Seq(Token)
BY SubSeqProperties DEF Rest

\* An outcome that is ok is determined by its value.
LEMMA OkOutcome ==
  ASSUME NEW o \in Outcome, o.st = "ok"
  PROVE  o = Ok(o.val) /\ o.val \in CInt
BY DEF Outcome, Ok

-----------------------------------------------------------------------------
(* evalExpr under the mutex.                                                *)

\* A token of a line, where it has one.
LEMMA ArgType ==
  ASSUME TypeOK, NEW t \in Threads
  PROVE  /\ Arg(t) \in Seq(Token)
         /\ Len(Arg(t)) \in Nat
         /\ \A i \in 1 .. Len(Arg(t)) : Arg(t)[i] \in Token
<1>1. Arg(t) \in Seq(Token)
  BY RestType DEF TypeOK, Arg
<1> QED BY <1>1

\* What the two getVal calls and evalOp yield is an outcome.
LEMMA OperandTypes ==
  ASSUME TypeOK, NEW t \in Threads
  PROVE  /\ Len(Arg(t)) \notin {0, 2} => GetVal(vars, Arg(t)[1]) \in Outcome
         /\ IsBinary(Arg(t)) => SecondOperand(vars, Arg(t), val1[t]) \in Outcome
<1>1. vars \in Store /\ val1[t] \in CInt
  BY DEF TypeOK
<1>2. Len(Arg(t)) \in Nat /\ \A i \in 1 .. Len(Arg(t)) : Arg(t)[i] \in Token
  BY ArgType
<1>3. ASSUME Len(Arg(t)) \notin {0, 2}
      PROVE  GetVal(vars, Arg(t)[1]) \in Outcome
  <2>1. Arg(t)[1] \in Token
    BY <1>2, <1>3
  <2> QED BY <1>1, <2>1, GetValType
<1>4. ASSUME IsBinary(Arg(t))
      PROVE  SecondOperand(vars, Arg(t), val1[t]) \in Outcome
  <2>1. Arg(t)[2] \in Token /\ Arg(t)[3] \in Token
    BY <1>2, <1>4 DEF IsBinary
  <2>2. GetVal(vars, Arg(t)[3]) \in Outcome
    BY <1>1, <2>1, GetValType
  <2>3. CASE GetVal(vars, Arg(t)[3]).st = "ok"
    <3>1. GetVal(vars, Arg(t)[3]).val \in CInt
      BY <2>2, <2>3, OkOutcome
    <3> QED BY <1>1, <2>1, <2>3, <3>1, EvalOpType DEF SecondOperand
  <2>4. CASE GetVal(vars, Arg(t)[3]).st # "ok"
    BY <2>2, <2>4 DEF SecondOperand
  <2> QED BY <2>3, <2>4
<1> QED BY <1>3, <1>4

\* Leaving evalOpr keeps the types of pc, ret and alive.
LEMMA LeaveType ==
  ASSUME TypeOK, NEW t \in Threads, NEW o \in Outcome, Leave(t, o)
  PROVE  /\ alive' \in BOOLEAN
         /\ pc' \in [Threads -> Points]
         /\ ret' \in [Threads -> Outcome]
BY DEF TypeOK, Leave, Points, Critical

-----------------------------------------------------------------------------

LEMMA TypeInit == Init => TypeOK
<1> SUFFICES ASSUME Init PROVE TypeOK
  OBVIOUS
<1>1. 0 \in CInt /\ No \in Outcome
  BY IntAssumption DEF CInt, No, Outcome
<1>2. EmptyStore \in Store
  <2>1. EmptyStore \in [{} -> CInt] /\ {} \in SUBSET Names
    BY DEF EmptyStore
  <2> QED BY <2>1 DEF Store
<1>3. 0 \in 0 .. MaxCalls
  BY MutexAssumption
<1> QED BY <1>1, <1>2, <1>3 DEF Init, TypeOK, Points, Critical

\* In a line that is being assigned from, the first token is a variable.
LEMMA TargetType ==
  ASSUME TypeOK, NEW t \in Threads, IsAssignment(line[t])
  PROVE  line[t][1].name \in Names
<1>1. line[t] \in Seq(Token) /\ Len(line[t]) >= 2
  BY DEF TypeOK, IsAssignment
<1>2. line[t][1] \in Token
  BY <1>1
<1> QED BY <1>2, TokenType DEF IsAssignment, IsAlphabetic

LEMMA TypeStep ==
  TypeOK /\ RestOfAssignment /\ SoFar /\ [Next]_mvars => TypeOK'
<1> SUFFICES ASSUME TypeOK, RestOfAssignment, SoFar, [Next]_mvars
             PROVE  TypeOK'
  OBVIOUS
<1> USE DEF Points, Critical
<1>1. ASSUME NEW t \in Threads, NEW e \in Lines, Call(t, e)
      PROVE  TypeOK'
  <2>1. e \in Seq(Token) /\ calls[t] + 1 \in 0 .. MaxCalls
    BY <1>1, MutexAssumption DEF Call, TypeOK
  <2> QED BY <1>1, <2>1 DEF Call, TypeOK
<1>2. ASSUME NEW t \in Threads, Lock(t)
      PROVE  TypeOK'
  <2>1. (~IsAssignment(line[t])) \in BOOLEAN
    BY DEF IsAssignment
  <2> QED BY <1>2, <2>1, Zenon DEF Lock, TypeOK
<1>3. ASSUME NEW t \in Threads, First(t)
      PROVE  TypeOK'
  <2>1. /\ alive' \in BOOLEAN /\ pc' \in [Threads -> Points]
        /\ ret' \in [Threads -> Outcome] /\ val1' \in [Threads -> CInt]
    <3>1. CASE Len(Arg(t)) \in {0, 2} /\ Leave(t, No) /\ UNCHANGED val1
      <4>1. No \in Outcome
        BY IntAssumption DEF No, Outcome, CInt
      <4> QED BY <3>1, <4>1, LeaveType DEF TypeOK
    <3>2. CASE /\ Len(Arg(t)) \notin {0, 2}
               /\ Leave(t, GetVal(vars, Arg(t)[1])) /\ UNCHANGED val1
      BY <3>2, OperandTypes, LeaveType DEF TypeOK
    <3>3. CASE /\ IsBinary(Arg(t)) /\ GetVal(vars, Arg(t)[1]).st = "ok"
               /\ val1' = [val1 EXCEPT ![t] = GetVal(vars, Arg(t)[1]).val]
               /\ pc' = [pc EXCEPT ![t] = "second"] /\ UNCHANGED <<alive, ret>>
      <4>1. GetVal(vars, Arg(t)[1]) \in Outcome
        BY <3>3, ArgType, OperandTypes DEF IsBinary
      <4>2. GetVal(vars, Arg(t)[1]).val \in CInt
        BY <3>3, <4>1, OkOutcome
      <4> QED BY <3>3, <4>2 DEF TypeOK
    <3> QED BY <1>3, <3>1, <3>2, <3>3 DEF First
  <2> QED BY <1>3, <2>1 DEF First, TypeOK
<1>4. ASSUME NEW t \in Threads, Second(t)
      PROVE  TypeOK'
  <2>1. SecondOperand(vars, Arg(t), val1[t]) \in Outcome
    BY <1>4, OperandTypes DEF Second, SoFar, SoFarAt
  <2>2. /\ alive' \in BOOLEAN /\ pc' \in [Threads -> Points]
        /\ ret' \in [Threads -> Outcome]
    BY <1>4, <2>1, LeaveType DEF Second
  <2> QED BY <1>4, <2>2 DEF Second, TypeOK
<1>5. ASSUME NEW t \in Threads, Assign(t)
      PROVE  TypeOK'
  <2>1. line[t][1].name \in Names
    BY <1>5, TargetType DEF Assign, RestOfAssignment, InCritical
  <2>2. ret[t].val \in CInt
    BY DEF TypeOK, Outcome
  <2>3. vars' \in Store
    BY <1>5, <2>1, <2>2, PutType DEF Assign, TypeOK
  <2> QED BY <1>5, <2>3 DEF Assign, TypeOK
<1>6. ASSUME NEW t \in Threads, Fallback(t) \/ Finish(t)
      PROVE  TypeOK'
  BY <1>6 DEF Fallback, Finish, TypeOK
<1>7. ASSUME NEW t \in Threads, Unlock(t)
      PROVE  TypeOK'
  <2>1. 0 \in CInt /\ No \in Outcome /\ <<>> \in Seq(Token)
    BY IntAssumption DEF CInt, No, Outcome
  <2> QED BY <1>7, <2>1 DEF Unlock, Forget, TypeOK
<1>8. CASE UNCHANGED mvars
  BY <1>8 DEF mvars, TypeOK
<1> QED BY <1>1, <1>2, <1>3, <1>4, <1>5, <1>6, <1>7, <1>8 DEF Next, Step

LEMMA MutexStep ==
  TypeOK /\ MutualExclusion /\ [Next]_mvars => MutualExclusion'
<1> SUFFICES ASSUME TypeOK, MutualExclusion, [Next]_mvars
             PROVE  MutualExclusion'
  OBVIOUS
<1> USE DEF Points, Critical, InCritical
<1>0. \A t \in Threads : lock' = t => lock' # Free
  BY MutexAssumption
<1>1. ASSUME NEW t \in Threads, NEW e \in Lines, Call(t, e)
      PROVE  MutualExclusion'
  BY <1>1 DEF Call, TypeOK, MutualExclusion
<1>2. ASSUME NEW t \in Threads, Lock(t)
      PROVE  MutualExclusion'
  <2>1. \A u \in Threads : ~InCritical(u)
    BY <1>2, MutexAssumption DEF Lock, MutualExclusion
  <2> QED BY <1>2, <2>1 DEF Lock, TypeOK, MutualExclusion
<1>3. ASSUME NEW t \in Threads,
             First(t) \/ Second(t) \/ Assign(t) \/ Fallback(t) \/ Finish(t)
      PROVE  MutualExclusion'
  <2>1. InCritical(t) /\ lock' = lock
    BY <1>3 DEF First, Second, Assign, Fallback, Finish
  <2>2. \A u \in Threads : InCritical(u)' <=> InCritical(u)
    <3>1. \/ UNCHANGED pc
          \/ \E p \in Critical : pc' = [pc EXCEPT ![t] = p]
      BY <1>3 DEF First, Second, Assign, Fallback, Finish, Leave
    <3> QED BY <2>1, <3>1 DEF TypeOK
  <2> QED BY <2>1, <2>2 DEF MutualExclusion
<1>4. ASSUME NEW t \in Threads, Unlock(t)
      PROVE  MutualExclusion'
  <2>1. lock = t /\ \A u \in Threads : u # t => ~InCritical(u)
    BY <1>4 DEF Unlock, MutualExclusion
  <2> QED BY <1>4, <2>1, MutexAssumption DEF Unlock, TypeOK, MutualExclusion
<1>5. CASE UNCHANGED mvars
  BY <1>5 DEF mvars, MutualExclusion
<1> QED BY <1>1, <1>2, <1>3, <1>4, <1>5 DEF Next, Step

LEMMA RestStep ==
  TypeOK /\ RestOfAssignment /\ [Next]_mvars => RestOfAssignment'
<1> SUFFICES ASSUME TypeOK, RestOfAssignment, [Next]_mvars,
                    NEW u \in Threads, InCritical(u)', ~whole'[u]
             PROVE  IsAssignment(line'[u])
  BY DEF RestOfAssignment
<1> USE DEF Points, Critical, InCritical
<1>1. ASSUME NEW t \in Threads, NEW e \in Lines, Call(t, e)
      PROVE  IsAssignment(line'[u])
  BY <1>1 DEF Call, TypeOK, RestOfAssignment
<1>2. ASSUME NEW t \in Threads, Lock(t)
      PROVE  IsAssignment(line'[u])
  <2>1. CASE u = t
    <3>1. whole'[t] = ~IsAssignment(line[t])
      BY <1>2, Zenon DEF Lock, TypeOK
    <3> QED BY <1>2, <2>1, <3>1, Zenon DEF Lock
  <2>2. CASE u # t
    BY <1>2, <2>2 DEF Lock, TypeOK, RestOfAssignment
  <2> QED BY <2>1, <2>2
<1>3. ASSUME NEW t \in Threads,
             First(t) \/ Second(t) \/ Assign(t) \/ Fallback(t) \/ Finish(t)
      PROVE  IsAssignment(line'[u])
  <2>1. line' = line /\ ~whole[u]
    BY <1>3 DEF First, Second, Assign, Fallback, Finish, TypeOK
  <2>2. InCritical(u)
    BY <1>3 DEF First, Second, Assign, Fallback, Finish, Leave, TypeOK
  <2> QED BY <2>1, <2>2 DEF RestOfAssignment
<1>4. ASSUME NEW t \in Threads, Unlock(t)
      PROVE  IsAssignment(line'[u])
  BY <1>4 DEF Unlock, Forget, TypeOK, RestOfAssignment
<1>5. CASE UNCHANGED mvars
  BY <1>5 DEF mvars, RestOfAssignment
<1> QED BY <1>1, <1>2, <1>3, <1>4, <1>5 DEF Next, Step

\* What a thread has found so far depends on the variables and on its own
\* frame alone.
LEMMA SoFarFrame ==
  ASSUME NEW u \in Threads, SoFarAt(u), vars' = vars, line'[u] = line[u],
         whole'[u] = whole[u], val1'[u] = val1[u], ret'[u] = ret[u], pc'[u] = pc[u]
  PROVE  SoFarAt(u)'
<1>1. Arg(u)' = Arg(u)
  BY DEF Arg
<1> QED BY <1>1 DEF SoFarAt

\* Leaving evalOpr with the outcome it is to have.
LEMMA SoFarLeave ==
  ASSUME TypeOK, NEW u \in Threads, SoFarAt(u), pc[u] \in {"opr", "second"},
         NEW o, o = EvalOpr(vars, Arg(u)), Leave(u, o),
         vars' = vars, line' = line, whole' = whole, val1' = val1
  PROVE  SoFarAt(u)'
<1>1. CASE o.st = "abort"
  <2>1. pc' = pc /\ ret' = ret
    BY <1>1 DEF Leave
  <2> QED BY <2>1, SoFarFrame
<1>2. CASE o.st # "abort"
  <2>1. ret'[u] = o /\ pc'[u] = "ret"
    BY <1>2 DEF Leave, TypeOK
  <2>2. Arg(u)' = Arg(u)
    BY DEF Arg
  <2> QED BY <1>2, <2>1, <2>2 DEF SoFarAt
<1> QED BY <1>1, <1>2

LEMMA SoFarStep ==
  IInv /\ [Next]_mvars => SoFar'
<1> SUFFICES ASSUME TypeOK, MutualExclusion, RestOfAssignment, SoFar, [Next]_mvars,
                    NEW u \in Threads
             PROVE  SoFarAt(u)'
  BY DEF SoFar, IInv
<1> USE DEF Points, Critical, InCritical
<1>0. SoFarAt(u)
  BY DEF SoFar
<1>1. ASSUME NEW t \in Threads, Step(t) \/ \E e \in Lines : Call(t, e),
             u # t, vars' = vars
      PROVE  SoFarAt(u)'
  <2>1. /\ line'[u] = line[u] /\ whole'[u] = whole[u] /\ val1'[u] = val1[u]
        /\ ret'[u] = ret[u] /\ pc'[u] = pc[u]
    BY <1>1 DEF Step, Call, Lock, First, Second, Assign, Fallback, Finish, Unlock,
                Forget, Leave, TypeOK
  <2> QED BY <1>0, <1>1, <2>1, SoFarFrame
<1>2. ASSUME NEW e \in Lines, Call(u, e)
      PROVE  SoFarAt(u)'
  BY <1>2 DEF Call, TypeOK, SoFarAt
<1>3. ASSUME Lock(u)
      PROVE  SoFarAt(u)'
  <2>1. pc'[u] = "opr" /\ line' = line /\ whole'[u] = ~IsAssignment(line[u])
    BY <1>3, Zenon DEF Lock, TypeOK
  <2> QED BY <2>1, Zenon DEF SoFarAt
<1>4. ASSUME First(u)
      PROVE  SoFarAt(u)'
  <2> DEFINE l == GetVal(vars, Arg(u)[1])
  <2>1. pc[u] = "opr" /\ vars' = vars /\ line' = line /\ whole' = whole
    BY <1>4 DEF First
  <2>2. CASE Len(Arg(u)) \in {0, 2} /\ Leave(u, No) /\ UNCHANGED val1
    <3>1. No = EvalOpr(vars, Arg(u))
      BY <2>2 DEF EvalOpr
    <3> QED BY <1>0, <2>1, <2>2, <3>1, SoFarLeave
  <2>3. CASE /\ Len(Arg(u)) \notin {0, 2} /\ ~(IsBinary(Arg(u)) /\ l.st = "ok")
             /\ Leave(u, l) /\ UNCHANGED val1
    <3>1. l = EvalOpr(vars, Arg(u))
      BY <2>3 DEF EvalOpr
    <3> QED BY <1>0, <2>1, <2>3, <3>1, SoFarLeave
  <2>4. CASE /\ IsBinary(Arg(u)) /\ l.st = "ok"
             /\ val1' = [val1 EXCEPT ![u] = l.val]
             /\ pc' = [pc EXCEPT ![u] = "second"]
    <3>1. l \in Outcome
      BY <2>4, ArgType, OperandTypes DEF IsBinary
    <3>2. l = Ok(l.val)
      BY <2>4, <3>1, OkOutcome
    <3>3. val1'[u] = l.val /\ pc'[u] = "second"
      BY <2>4 DEF TypeOK
    <3>4. Arg(u)' = Arg(u)
      BY <2>1 DEF Arg
    <3> QED BY <1>0, <2>1, <2>4, <3>2, <3>3, <3>4 DEF SoFarAt
  <2> QED BY <1>4, <2>2, <2>3, <2>4 DEF First
<1>5. ASSUME Second(u)
      PROVE  SoFarAt(u)'
  <2>1. /\ pc[u] = "second" /\ Leave(u, SecondOperand(vars, Arg(u), val1[u]))
        /\ vars' = vars /\ line' = line /\ whole' = whole /\ val1' = val1
    BY <1>5 DEF Second
  <2>2. IsBinary(Arg(u)) /\ GetVal(vars, Arg(u)[1]) = Ok(val1[u])
    BY <1>0, <2>1 DEF SoFarAt
  <2>3. Len(Arg(u)) \notin {0, 2}
    BY <2>2, ArgType DEF IsBinary
  <2>4. Ok(val1[u]).st = "ok" /\ Ok(val1[u]).val = val1[u]
    BY DEF Ok
  <2>5. SecondOperand(vars, Arg(u), val1[u]) = EvalOpr(vars, Arg(u))
    BY <2>2, <2>3, <2>4 DEF EvalOpr
  <2> QED BY <1>0, <2>1, <2>5, SoFarLeave
<1>6. ASSUME NEW t \in Threads, Assign(t)
      PROVE  SoFarAt(u)'
  <2>1. CASE u = t
    BY <1>6, <2>1 DEF Assign, TypeOK, SoFarAt
  <2>2. CASE u # t
    <3>1. ~InCritical(u) /\ pc'[u] = pc[u]
      BY <1>6, <2>2 DEF Assign, TypeOK, MutualExclusion
    <3> QED BY <3>1 DEF SoFarAt
  <2> QED BY <2>1, <2>2
<1>7. ASSUME Fallback(u)
      PROVE  SoFarAt(u)'
  <2>1. pc[u] = "ret" /\ ~whole[u] /\ ret[u].st # "ok"
    BY <1>7 DEF Fallback
  <2>2. ret[u] = EvalOpr(vars, Rest(line[u])) /\ ret[u].st # "abort"
    BY <1>0, <2>1 DEF SoFarAt, Arg
  <2>3. EvalOpr(vars, Rest(line[u])).st = "no"
    BY <2>1, <2>2 DEF TypeOK, Outcome
  <2>4. pc'[u] = "opr" /\ vars' = vars /\ line' = line
    BY <1>7 DEF Fallback, TypeOK
  <2> QED BY <2>3, <2>4 DEF SoFarAt
<1>8. ASSUME Finish(u) \/ Unlock(u)
      PROVE  SoFarAt(u)'
  BY <1>8 DEF Finish, Unlock, TypeOK, SoFarAt
<1>9. CASE UNCHANGED mvars
  BY <1>0, <1>9, SoFarFrame DEF mvars
<1>10. ASSUME NEW t \in Threads, Step(t), ~Assign(t)
       PROVE  vars' = vars
  BY <1>10 DEF Step, Lock, First, Second, Fallback, Finish, Unlock
<1>11. ASSUME NEW t \in Threads, NEW e \in Lines, Call(t, e)
       PROVE  vars' = vars
  BY <1>11 DEF Call
<1> QED BY <1>1, <1>2, <1>3, <1>4, <1>5, <1>6, <1>7, <1>8, <1>9, <1>10, <1>11
        DEF Next, Step

THEOREM Inductive == Spec => []IInv
<1>1. Init => IInv
  <2>1. Init => TypeOK
    BY TypeInit
  <2>2. Init => MutualExclusion /\ RestOfAssignment /\ SoFar
    BY MutexAssumption
    DEF Init, MutualExclusion, RestOfAssignment, SoFar, SoFarAt, InCritical, Critical
  <2> QED BY <2>1, <2>2 DEF IInv
<1>2. IInv /\ [Next]_mvars => IInv'
  BY TypeStep, MutexStep, RestStep, SoFarStep DEF IInv
<1> QED BY <1>1, <1>2, PTL DEF Spec

\* The types of evalExpr's state are kept; in particular results stay within
\* the int range, whatever its width.
THEOREM TypeCorrect == Spec => []TypeOK
BY Inductive, PTL DEF IInv

\* The critical section of evalExpr (calc.cpp:73-96) is exclusive, and the
\* mutex is held exactly while a thread is in it.
THEOREM Exclusion == Spec => []MutualExclusion
BY Inductive, PTL DEF IInv

\* What a thread has read of the variables still holds when it uses it.
THEOREM NothingStale == Spec => []SoFar
BY Inductive, PTL DEF IInv

-----------------------------------------------------------------------------
(* Linearizability: each step is a step of AtomicCalc, or none.             *)

\* The instance's evaluator is the evaluator.
LEMMA SameEval ==
  /\ Abstract!No = No /\ Abstract!EmptyStore = EmptyStore
  /\ \A s, e : Abstract!EvalExpr(s, e) = EvalExpr(s, e)
<1>1. /\ Abstract!No = No /\ Abstract!Abort = Abort /\ Abstract!EmptyStore = EmptyStore
     /\ Abstract!Dash = Dash /\ (\A v : Abstract!Ok(v) = Ok(v))
     /\ \A s : Abstract!Op(s) = Op(s)
  BY DEF No, Abort, EmptyStore, Dash, Ok, Op,
       Abstract!No, Abstract!Abort, Abstract!EmptyStore, Abstract!Dash, Abstract!Ok, Abstract!Op
<1>2. \A s, tok : Abstract!GetVal(s, tok) = GetVal(s, tok)
  BY <1>1 DEF GetVal, IsAlphabetic, IsNumeric, Stoi,
       Abstract!GetVal, Abstract!IsAlphabetic, Abstract!IsNumeric, Abstract!Stoi
<1>3. \A x : Abstract!Wrap(x) = Wrap(x)
  BY DEF Wrap,
       Abstract!Wrap
<1>4. \A l, r : Abstract!Divide(l, r) = Divide(l, r)
  BY <1>1 DEF Divide, Quotient, AbsVal, Overflows,
       Abstract!Divide, Abstract!Quotient, Abstract!AbsVal, Abstract!Overflows
<1>5. \A l, op, r : Abstract!EvalOp(l, op, r) = EvalOp(l, op, r)
  BY <1>1, <1>3, <1>4 DEF EvalOp,
       Abstract!EvalOp
<1>6. \A s, e : Abstract!EvalOpr(s, e) = EvalOpr(s, e)
  BY <1>1, <1>2, <1>5 DEF EvalOpr, SecondOperand, IsBinary,
       Abstract!EvalOpr, Abstract!SecondOperand, Abstract!IsBinary
<1>7. \A s, e : Abstract!EvalExpr(s, e) = EvalExpr(s, e)
  BY <1>1, <1>6 DEF EvalExpr, IsAssignment, IsAlphabetic, Rest, Put,
       Abstract!EvalExpr, Abstract!IsAssignment, Abstract!IsAlphabetic, Abstract!Rest, Abstract!Put
<1> QED BY <1>1, <1>7

LEMMA AbstractInit == Init => Abstract!Init
BY SameEval DEF Init, Abstract!Init, AbstractState

\* A step that leaves what AtomicCalc sees as it was.
LEMMA Unseen ==
  ASSUME TypeOK, NEW t \in Threads,
         pc[t] \in {"lock", "opr", "second", "ret"},
         pc'[t] \in {"lock", "opr", "second", "ret"},
         pc' = [pc EXCEPT ![t] = pc'[t]],
         \A u \in Threads : u # t => ret'[u] = ret[u],
         vars' = vars, alive' = alive, line' = line
  PROVE  UNCHANGED Abstract!avars
<1>1. \A u \in Threads : AbstractState(u)' = AbstractState(u)
  BY DEF AbstractState, TypeOK
<1>2. \A u \in Threads : (IF pc'[u] = "unlock" THEN ret'[u] ELSE No)
                           = (IF pc[u] = "unlock" THEN ret[u] ELSE No)
  BY DEF TypeOK
<1> QED BY <1>1, <1>2 DEF Abstract!avars

\* The end of evalExpr's work on a line: Assign, or Finish on the whole line.
LEMMA EvalStep ==
  ASSUME TypeOK, NEW t \in Threads, alive, pc[t] = "ret", alive' = alive, line' = line,
         ret' = ret, pc' = [pc EXCEPT ![t] = "unlock"],
         EvalExpr(vars, line[t]) = [out |-> ret[t], vars |-> vars'], ret[t].st # "abort"
  PROVE  Abstract!Eval(t)
<1> DEFINE state == [u \in Threads |-> AbstractState(u)]
           ans == [u \in Threads |-> IF pc[u] = "unlock" THEN ret[u] ELSE No]
<1>1. state[t] = "called"
  BY DEF AbstractState
<1>2. state' = [state EXCEPT ![t] = "done"]
  BY DEF AbstractState, TypeOK
<1>3. ans' = [ans EXCEPT ![t] = ret[t]]
  BY DEF TypeOK
<1>4. Abstract!EvalExpr(vars, line[t]) = [out |-> ret[t], vars |-> vars']
  BY SameEval
<1> HIDE DEF state, ans
<1>5. /\ Abstract!EvalExpr(vars, line[t]).out = ret[t]
      /\ Abstract!EvalExpr(vars, line[t]).vars = vars'
  BY <1>4
<1> QED BY <1>1, <1>2, <1>3, <1>5 DEF Abstract!Eval, state, ans

\* An evaluation that ends the process.
LEMMA DieStep ==
  ASSUME TypeOK, NEW t \in Threads, alive, pc[t] \in {"opr", "second"}, alive' = FALSE,
         line' = line, ret' = ret, pc' = pc, vars' = vars,
         EvalOpr(vars, Arg(t)).st = "abort", RestOfAssignment, SoFarAt(t)
  PROVE  Abstract!Die(t)
<1>1. EvalExpr(vars, line[t]).out.st = "abort"
  <2>1. CASE whole[t]
    BY <2>1 DEF EvalExpr, SoFarAt, Arg
  <2>2. CASE ~whole[t]
    BY <2>2 DEF EvalExpr, RestOfAssignment, InCritical, Critical, Arg
  <2> QED BY <2>1, <2>2 DEF TypeOK
<1>2. AbstractState(t) = "called"
  BY DEF AbstractState
<1>3. \A u \in Threads : AbstractState(u)' = AbstractState(u)
  BY DEF AbstractState
<1> QED BY <1>1, <1>2, <1>3, SameEval DEF Abstract!Die

\* evalOpr is left with the outcome that it is to have.
LEMMA LeaveStep ==
  ASSUME TypeOK, NEW t \in Threads, alive, pc[t] \in {"opr", "second"},
         Leave(t, EvalOpr(vars, Arg(t))), RestOfAssignment, SoFarAt(t),
         vars' = vars, line' = line
  PROVE  Abstract!Die(t) \/ UNCHANGED Abstract!avars
<1> DEFINE o == EvalOpr(vars, Arg(t))
<1>1. CASE o.st = "abort"
  BY <1>1, DieStep DEF Leave
<1>2. CASE o.st # "abort"
  <2>1. /\ ret' = [ret EXCEPT ![t] = o] /\ pc' = [pc EXCEPT ![t] = "ret"]
        /\ alive' = alive
    BY <1>2 DEF Leave
  <2>2. pc'[t] = "ret" /\ \A u \in Threads : u # t => ret'[u] = ret[u]
    BY <2>1 DEF TypeOK
  <2> QED BY <2>1, <2>2, Unseen
<1> QED BY <1>1, <1>2

LEMMA AbstractStep ==
  IInv /\ [Next]_mvars => [Abstract!Next]_(Abstract!avars)
<1> SUFFICES ASSUME TypeOK, MutualExclusion, RestOfAssignment, SoFar, [Next]_mvars
             PROVE  Abstract!Next \/ UNCHANGED Abstract!avars
  BY DEF IInv
<1>1. ASSUME NEW t \in Threads, NEW e \in Lines, Call(t, e)
      PROVE  Abstract!Call(t, e)
  <2>1. AbstractState(t) = "idle" /\ AbstractState(t)' = "called"
    BY <1>1 DEF Call, AbstractState, TypeOK
  <2>2. \A u \in Threads : u # t => AbstractState(u)' = AbstractState(u)
    BY <1>1 DEF Call, AbstractState, TypeOK
  <2>3. \A u \in Threads : pc'[u] = "unlock" <=> pc[u] = "unlock"
    BY <1>1 DEF Call, TypeOK
  <2> QED BY <1>1, <2>1, <2>2, <2>3 DEF Call, Abstract!Call
<1>2. ASSUME NEW t \in Threads, Lock(t)
      PROVE  UNCHANGED Abstract!avars
  <2>1. pc[t] = "lock" /\ pc'[t] = "opr" /\ pc' = [pc EXCEPT ![t] = "opr"]
        /\ ret' = ret /\ vars' = vars /\ alive' = alive /\ line' = line
    BY <1>2 DEF Lock, TypeOK
  <2> QED BY <2>1, Unseen
<1>3. ASSUME NEW t \in Threads, First(t)
      PROVE  Abstract!Die(t) \/ UNCHANGED Abstract!avars
  <2> DEFINE l == GetVal(vars, Arg(t)[1])
  <2>1. alive /\ pc[t] = "opr" /\ vars' = vars /\ line' = line /\ SoFarAt(t)
    BY <1>3 DEF First, SoFar
  <2>2. CASE Len(Arg(t)) \in {0, 2} /\ Leave(t, No)
    <3>1. No = EvalOpr(vars, Arg(t))
      BY <2>2 DEF EvalOpr
    <3> QED BY <2>1, <2>2, <3>1, LeaveStep
  <2>3. CASE /\ Len(Arg(t)) \notin {0, 2} /\ ~(IsBinary(Arg(t)) /\ l.st = "ok")
             /\ Leave(t, l)
    <3>1. l = EvalOpr(vars, Arg(t))
      BY <2>3 DEF EvalOpr
    <3> QED BY <2>1, <2>3, <3>1, LeaveStep
  <2>4. CASE pc' = [pc EXCEPT ![t] = "second"] /\ UNCHANGED <<alive, ret>>
    <3>1. pc'[t] = "second"
      BY <2>4 DEF TypeOK
    <3> QED BY <2>1, <2>4, <3>1, Unseen
  <2> QED BY <1>3, <2>2, <2>3, <2>4 DEF First
<1>4. ASSUME NEW t \in Threads, Second(t)
      PROVE  Abstract!Die(t) \/ UNCHANGED Abstract!avars
  <2>1. /\ alive /\ pc[t] = "second" /\ Leave(t, SecondOperand(vars, Arg(t), val1[t]))
        /\ vars' = vars /\ line' = line /\ SoFarAt(t)
    BY <1>4 DEF Second, SoFar
  <2>2. SecondOperand(vars, Arg(t), val1[t]) = EvalOpr(vars, Arg(t))
    <3>1. IsBinary(Arg(t)) /\ GetVal(vars, Arg(t)[1]) = Ok(val1[t])
      BY <2>1 DEF SoFarAt
    <3>2. Len(Arg(t)) \notin {0, 2}
      BY <3>1, ArgType DEF IsBinary
    <3>3. Ok(val1[t]).st = "ok" /\ Ok(val1[t]).val = val1[t]
      BY DEF Ok
    <3> QED BY <3>1, <3>2, <3>3 DEF EvalOpr
  <2> QED BY <2>1, <2>2, LeaveStep
<1>5. ASSUME NEW t \in Threads, Assign(t)
      PROVE  Abstract!Eval(t)
  <2>1. /\ alive /\ pc[t] = "ret" /\ ~whole[t] /\ ret[t].st = "ok"
        /\ vars' = Put(vars, line[t][1].name, ret[t].val)
        /\ pc' = [pc EXCEPT ![t] = "unlock"]
        /\ alive' = alive /\ line' = line /\ ret' = ret
    BY <1>5 DEF Assign
  <2>2. ret[t] = EvalOpr(vars, Rest(line[t])) /\ IsAssignment(line[t])
    BY <2>1 DEF SoFar, SoFarAt, Arg, RestOfAssignment, InCritical, Critical
  <2>3. EvalExpr(vars, line[t]) = [out |-> ret[t], vars |-> vars']
    BY <2>1, <2>2 DEF EvalExpr
  <2> QED BY <2>1, <2>3, EvalStep
<1>6. ASSUME NEW t \in Threads, Fallback(t)
      PROVE  UNCHANGED Abstract!avars
  <2>1. pc[t] = "ret" /\ pc'[t] = "opr" /\ pc' = [pc EXCEPT ![t] = "opr"]
        /\ ret' = ret /\ vars' = vars /\ alive' = alive /\ line' = line
    BY <1>6 DEF Fallback, TypeOK
  <2> QED BY <2>1, Unseen
<1>7. ASSUME NEW t \in Threads, Finish(t)
      PROVE  Abstract!Eval(t)
  <2>1. /\ alive /\ pc[t] = "ret" /\ whole[t] /\ vars' = vars
        /\ pc' = [pc EXCEPT ![t] = "unlock"]
        /\ alive' = alive /\ line' = line /\ ret' = ret
    BY <1>7 DEF Finish
  <2>2. /\ ret[t] = EvalOpr(vars, line[t]) /\ ret[t].st # "abort"
        /\ IsAssignment(line[t]) => EvalOpr(vars, Rest(line[t])).st = "no"
    BY <2>1 DEF SoFar, SoFarAt, Arg
  <2>3. EvalExpr(vars, line[t]) = [out |-> ret[t], vars |-> vars']
    BY <2>1, <2>2 DEF EvalExpr
  <2> QED BY <2>1, <2>2, <2>3, EvalStep
<1>8. ASSUME NEW t \in Threads, Unlock(t)
      PROVE  Abstract!Return(t)
  <2>1. AbstractState(t) = "done" /\ AbstractState(t)' = "idle" /\ pc'[t] = "idle"
    BY <1>8 DEF Unlock, AbstractState, TypeOK
  <2>2. \A u \in Threads : u # t => /\ AbstractState(u)' = AbstractState(u)
                                    /\ ret'[u] = ret[u] /\ pc'[u] = pc[u]
    BY <1>8 DEF Unlock, Forget, AbstractState, TypeOK
  <2> QED BY <1>8, <2>1, <2>2, SameEval DEF Unlock, Forget, Abstract!Return
<1>9. CASE UNCHANGED mvars
  BY <1>9 DEF mvars, Abstract!avars, AbstractState
<1> QED BY <1>1, <1>2, <1>3, <1>4, <1>5, <1>6, <1>7, <1>8, <1>9
        DEF Next, Step, Abstract!Next

\* Concurrent calls of calc_eval are linearizable, for any number of threads,
\* any lines and any int width.
THEOREM Linearizable == Spec => RefinesAtomic
<1>1. IInv /\ [Next]_mvars => [Abstract!Next]_(Abstract!avars)
  BY AbstractStep
<1> QED BY <1>1, AbstractInit, Inductive, PTL DEF Spec, RefinesAtomic, Abstract!Spec

-----------------------------------------------------------------------------
(* No increment is lost.                                                    *)

\* A larger factor, a larger product.
LEMMA TimesKeeps ==
  ASSUME NEW x \in Int, NEW y \in Int, NEW n \in Nat, x <= y
  PROVE  n * x <= n * y
OBVIOUS

\* Quotient and remainder.
LEMMA DivMod ==
  ASSUME NEW k \in Nat, NEW n \in Nat \ {0}
  PROVE  k \div n \in Nat /\ k % n \in 0 .. n - 1 /\ k = n * (k \div n) + (k % n)
OBVIOUS

\* There is one quotient with a remainder below the divisor.
LEMMA OneQuotient ==
  ASSUME NEW a \in Nat, NEW r \in Nat, NEW b \in Nat \ {0}, r < b
  PROVE  (b * a + r) \div b = a /\ (b * a + r) % b = r
<1>1. PICK k \in Nat : k = b * a + r
  <2>1. b * a \in Nat
    OBVIOUS
  <2> QED BY <2>1
<1>2. k \div b \in Nat /\ (k % b) \in 0 .. b - 1 /\ k = b * (k \div b) + (k % b)
  BY DivMod
<1>3. PICK q \in Nat, s \in 0 .. b - 1 : q = k \div b /\ s = k % b /\ k = b * q + s
  BY <1>2
<1>4. PICK u \in Nat, v \in Nat : u = b * a /\ v = b * q
  <2>1. b * a \in Nat /\ b * q \in Nat
    OBVIOUS
  <2> QED BY <2>1
<1>5. ~ (a < q)
  <2>1. SUFFICES ASSUME a < q PROVE FALSE
    OBVIOUS
  <2>2. b * (a + 1) <= b * q /\ b * (a + 1) = b * a + b
    BY <2>1, TimesKeeps
  <2> QED BY <1>1, <1>3, <1>4, <2>2
<1>6. ~ (q < a)
  <2>1. SUFFICES ASSUME q < a PROVE FALSE
    OBVIOUS
  <2>2. b * (q + 1) <= b * a /\ b * (q + 1) = b * q + b
    BY <2>1, TimesKeeps
  <2> QED BY <1>1, <1>3, <1>4, <2>2
<1>7. q = a
  BY <1>5, <1>6
<1>8. s = r
  BY <1>1, <1>3, <1>4, <1>7
<1> QED BY <1>1, <1>3, <1>7, <1>8

\* The remainder of the next number
LEMMA NextRemainder ==
  ASSUME NEW k \in Nat, NEW s \in Nat \ {0}
  PROVE  ((k % s) + 1) % s = (k + 1) % s
<1>1. PICK q \in Nat, r \in Nat : r < s /\ r = k % s /\ k = s * q + r
  <2>1. k \div s \in Nat /\ k % s \in 0 .. s - 1 /\ k = s * (k \div s) + (k % s)
    BY DivMod
  <2> QED BY <2>1
<1>2. CASE r + 1 < s
  <2>1. PICK e \in Nat : e = r + 1 /\ e < s
    BY <1>1, <1>2
  <2>2. (s * q + e) % s = e /\ (s * 0 + e) % s = e
    BY <2>1, OneQuotient
  <2>3. k + 1 = s * q + e /\ s * 0 + e = e
    <3>1. PICK u \in Nat : u = s * q
      <4>1. s * q \in Nat
        OBVIOUS
      <4> QED BY <4>1
    <3>2. s * 0 = 0
      OBVIOUS
    <3> QED BY <1>1, <2>1, <3>1, <3>2
  <2> QED BY <1>1, <2>1, <2>2, <2>3
<1>3. CASE ~ (r + 1 < s)
  <2>1. PICK o \in Nat, d \in Nat : o = 0 /\ d = 1 /\ o < s
    OBVIOUS
  <2>2. PICK h \in Nat : h = q + 1
    OBVIOUS
  <2>3. (s * h + o) % s = o /\ (s * d + o) % s = o
    BY <2>1, OneQuotient
  <2>4. r + 1 = s * d + o
    <3>1. s * d = s
      BY <2>1
    <3> QED BY <1>1, <1>3, <2>1, <3>1
  <2>5. k + 1 = s * h + o
    <3>1. s * h = s * q + s
      BY <2>2
    <3>2. PICK u \in Nat : u = s * q
      <4>1. s * q \in Nat
        OBVIOUS
      <4> QED BY <4>1
    <3> QED BY <1>1, <1>3, <2>1, <3>1, <3>2
  <2> QED BY <1>1, <2>1, <2>3, <2>4, <2>5
<1> QED BY <1>2, <1>3

\* Wrapping leaves 0 alone.
LEMMA WrapZero == Wrap(0) = 0
<1>1. PICK s \in Nat \ {0}, m \in Nat : s = IntMax - IntMin + 1 /\ m = 0 - IntMin /\ m < s
  <2>1. IntMax - IntMin + 1 \in Nat \ {0} /\ 0 - IntMin \in Nat /\ 0 - IntMin < IntMax - IntMin + 1
    BY IntAssumption
  <2> QED BY <2>1
<1>2. PICK o \in Nat : o = 0
  OBVIOUS
<1>3. (s * o + m) % s = m
  BY <1>1, OneQuotient
<1>4. s * o + m = m
  BY <1>2
<1>5. IntMin \in Int /\ IntMin + m = 0
  BY <1>1, IntAssumption
<1> QED BY <1>1, <1>3, <1>4, <1>5 DEF Wrap

\* One more before wrapping is one more after it.
LEMMA WrapAgain ==
  ASSUME NEW x \in Nat
  PROVE  Wrap(Wrap(x) + 1) = Wrap(x + 1)
<1>1. PICK s \in Nat \ {0}, m \in Nat : s = IntMax - IntMin + 1 /\ IntMin = 0 - m
  <2>1. IntMax - IntMin + 1 \in Nat \ {0} /\ 0 - IntMin \in Nat /\ IntMin = 0 - (0 - IntMin)
    BY IntAssumption
  <2> QED BY <2>1
<1>2. \A y \in Int : y - IntMin = y + m /\ IntMin + y - IntMin = y
  BY <1>1
<1>3. PICK k \in Nat : k = x + m
  OBVIOUS
<1>4. ((k % s) + 1) % s = (k + 1) % s
  BY NextRemainder
<1>5. (k % s) \in Int /\ Wrap(x) = IntMin + (k % s)
  BY <1>1, <1>2, <1>3 DEF Wrap
<1>6. IntMin \in Int
  BY <1>1
<1>7. (Wrap(x) + 1) - IntMin = (k % s) + 1 /\ Wrap(x) + 1 \in Int
  BY <1>5, <1>6
<1>8. (x + 1) - IntMin = k + 1
  BY <1>2, <1>3, <1>6
<1> QED BY <1>1, <1>4, <1>7, <1>8 DEF Wrap

\* What is evaluated of an increment (calc.cpp:80-85)
LEMMA RestOfInc ==
  /\ Len(Rest(Inc)) = 3 /\ Rest(Inc)[1] = Word("a") /\ Rest(Inc)[2] = Op("+")
  /\ Rest(Inc)[3] = Num(1)
<1> DEFINE S == {Word("a"), Op("="), Op("+"), Num(1)}
<1>1. Len(Inc) = 5 /\ Inc[3] = Word("a") /\ Inc[4] = Op("+") /\ Inc[5] = Num(1)
  BY DEF Inc
<1>2. \A i \in 3 .. 5 : Inc[i] \in S
  <2>1. \A i \in 3 .. 5 : i = 3 \/ i = 4 \/ i = 5
    OBVIOUS
  <2> QED BY <1>1, <2>1
<1> HIDE DEF S
<1>3. /\ Len(SubSeq(Inc, 3, 5)) = IF 3 <= 5 THEN 5 - 3 + 1 ELSE 0
      /\ \A i \in 1 .. 5 - 3 + 1 : SubSeq(Inc, 3, 5)[i] = Inc[3 + i - 1]
  BY <1>2, SubSeqProperties
<1>4. /\ 1 \in 1 .. 5 - 3 + 1 /\ 2 \in 1 .. 5 - 3 + 1 /\ 3 \in 1 .. 5 - 3 + 1
      /\ 3 + 1 - 1 = 3 /\ 3 + 2 - 1 = 4 /\ 3 + 3 - 1 = 5 /\ 3 <= 5 /\ 5 - 3 + 1 = 3
  OBVIOUS
<1> QED BY <1>1, <1>3, <1>4 DEF Rest

\* of a reset
LEMMA RestOfReset == Len(Rest(Reset)) = 1 /\ Rest(Reset)[1] = Num(0)
<1>1. Len(Reset) = 3 /\ Reset[3] = Num(0)
  BY DEF Reset
<1>2. \A i \in 3 .. 3 : Reset[i] \in {Num(0)}
  <2>1. \A i \in 3 .. 3 : i = 3
    OBVIOUS
  <2> QED BY <1>1, <2>1
<1>3. /\ Len(SubSeq(Reset, 3, 3)) = IF 3 <= 3 THEN 3 - 3 + 1 ELSE 0
      /\ \A i \in 1 .. 3 - 3 + 1 : SubSeq(Reset, 3, 3)[i] = Reset[3 + i - 1]
  BY <1>2, SubSeqProperties
<1>4. 1 \in 1 .. 3 - 3 + 1 /\ 3 + 1 - 1 = 3 /\ 3 <= 3 /\ 3 - 3 + 1 = 1
  OBVIOUS
<1> QED BY <1>1, <1>3, <1>4 DEF Rest

\* Words, numbers and operators are told apart.
LEMMA TokensApart ==
  /\ Word("a").cls = "word" /\ Word("a").name = "a"
  /\ \A v : Num(v).cls = "num" /\ Num(v).val = v
  /\ \A v : Ok(v).st = "ok" /\ Ok(v).val = v
  /\ No.st # "ok" /\ Abort.st # "ok"
BY DEF Word, Num, Ok, No, Abort

\* A thread evaluates one of the lines.
Asked == \A t \in Threads : line[t] \in Lines \cup {<<>>}

\* It does so until it is through (calc.cpp:70-97).
LEMMA AskedStep ==
  ASSUME TypeOK, Asked, [Next]_mvars
  PROVE  Asked'
<1>1. CASE UNCHANGED mvars
  BY <1>1 DEF mvars, Asked
<1>2. ASSUME NEW t \in Threads, NEW e \in Lines, Call(t, e)
      PROVE  Asked'
  BY <1>2 DEF Call, Asked, TypeOK
<1>3. ASSUME NEW t \in Threads, Unlock(t)
      PROVE  Asked'
  BY <1>3 DEF Unlock, Forget, Asked, TypeOK
<1>4. ASSUME NEW t \in Threads, Step(t), ~Unlock(t)
      PROVE  line' = line
  BY <1>4 DEF Step, Lock, First, Second, Assign, Fallback, Finish
<1> QED BY <1>1, <1>2, <1>3, <1>4 DEF Next, Asked

\* Only an assignment takes a thread from the result of rest to the unlocking
\* (calc.cpp:86-88).
LEMMA OnlyAssigns ==
  ASSUME TypeOK, NEW t \in Threads, StoredBy(t), Next
  PROVE  Assign(t)
<1>1. pc[t] = "ret" /\ pc'[t] = "unlock" /\ ~whole[t]
  BY DEF StoredBy
<1>2. ASSUME NEW u \in Threads, u # t, Step(u) \/ \E e \in Lines : Call(u, e)
      PROVE  pc'[t] = pc[t]
  BY <1>2 DEF Step, Call, Lock, First, Second, Assign, Fallback, Finish, Unlock, Leave, TypeOK
<1>3. ~ (\E e \in Lines : Call(t, e))
  BY <1>1 DEF Call
<1>4. Step(t) => Assign(t)
  BY <1>1 DEF Step, Lock, First, Second, Fallback, Finish, Unlock, TypeOK
<1>5. ~ UNCHANGED mvars
  BY <1>1 DEF mvars
<1> QED BY <1>1, <1>2, <1>3, <1>4, <1>5 DEF Next

\* a holds what was counted, modulo the width of an int.
LEMMA CountStep ==
  ASSUME IInv, Asked, count \in Nat, StrictCount, OnlyCounted, [MCNext]_<<mvars, count>>
  PROVE  count' \in Nat /\ StrictCount'
<1>1. CASE UNCHANGED <<mvars, count>>
  BY <1>1 DEF mvars, StrictCount
<1>2. ASSUME NEW t \in Threads, Assign(t), MCNext
      PROVE  count' \in Nat /\ StrictCount'
  <2>1. /\ pc[t] = "ret" /\ ~whole[t] /\ ret[t].st = "ok" /\ pc' = [pc EXCEPT ![t] = "unlock"]
        /\ vars' = Put(vars, line[t][1].name, ret[t].val)
    BY <1>2 DEF Assign
  <2>2. /\ ret[t] = EvalOpr(vars, Rest(line[t])) /\ IsAssignment(line[t]) /\ vars \in Store
    BY <2>1 DEF IInv, TypeOK, SoFar, SoFarAt, Arg, RestOfAssignment, InCritical, Critical
  <2>3. \A u \in Threads : StoredBy(u) <=> u = t
    BY <2>1 DEF StoredBy, IInv, TypeOK
  <2>4. CASE line[t] = Inc
    <3>1. count' = count + 1
      BY <1>2, <2>3, <2>4 DEF MCNext
    <3>2. line[t][1].name = "a"
      BY <2>4 DEF Inc, Word
    <3>5. GetVal(vars, Word("a")) = (IF "a" \in DOMAIN vars THEN Ok(vars["a"]) ELSE No)
      BY TokensApart DEF GetVal, IsAlphabetic, IsNumeric
    <3>6. GetVal(vars, Num(1)) = Ok(1)
      BY TokensApart DEF GetVal, IsAlphabetic, IsNumeric, Stoi
    <3>7. \A l : EvalOp(l, Op("+"), 1) = Ok(Wrap(l + 1))
      BY DEF EvalOp, Op, Dash
    <3>8. /\ Len(Rest(line[t])) = 3 /\ Rest(line[t])[1] = Word("a") /\ Rest(line[t])[2] = Op("+")
          /\ Rest(line[t])[3] = Num(1)
      BY <2>4, RestOfInc
    <3>9. \A l : SecondOperand(vars, Rest(line[t]), l) = Ok(Wrap(l + 1))
      BY <3>6, <3>7, <3>8, TokensApart DEF SecondOperand
    <3>3. "a" \in DOMAIN vars /\ ret[t] = Ok(Wrap(vars["a"] + 1))
      <4>1. EvalOpr(vars, Rest(line[t])) = LET l == GetVal(vars, Word("a"))
                                           IN  IF l.st = "ok" THEN Ok(Wrap(l.val + 1)) ELSE l
        BY <3>8, <3>9 DEF EvalOpr, IsBinary
      <4> QED BY <2>1, <2>2, <3>5, <4>1, TokensApart
    <3>4. vars'["a"] = Wrap(Wrap(count) + 1)
      BY <2>1, <3>2, <3>3 DEF StrictCount, Put, Ok
    <3> QED BY <3>1, <3>4, WrapAgain DEF StrictCount
  <2>5. CASE line[t] = Reset
    <3>1. count' = 0
      BY <1>2, <2>3, <2>5 DEF MCNext, Inc, Reset
    <3>2. line[t][1].name = "a"
      BY <2>5 DEF Reset, Word
    <3>3. ret[t] = Ok(0)
      <4>1. GetVal(vars, Num(0)) = Ok(0)
        BY TokensApart DEF GetVal, IsAlphabetic, IsNumeric, Stoi
      <4>2. Len(Rest(line[t])) = 1 /\ Rest(line[t])[1] = Num(0)
        BY <2>5, RestOfReset
      <4>3. EvalOpr(vars, Rest(line[t])) = Ok(0)
        BY <4>1, <4>2 DEF EvalOpr, IsBinary
      <4> QED BY <2>2, <4>3
    <3>4. vars'["a"] = 0
      BY <2>1, <3>2, <3>3 DEF Put, Ok
    <3> QED BY <3>1, <3>4, WrapZero DEF StrictCount
  <2>6. CASE line[t] \notin {Inc, Reset}
    <3>1. count' = count
      BY <1>2, <2>3, <2>6 DEF MCNext
    <3>2. line[t] \in Lines
      BY <2>2 DEF Asked, IsAssignment
    <3>3. line[t][1].name # "a"
      BY <2>1, <2>2, <2>6, <3>2 DEF OnlyCounted
    <3>4. "a" \in DOMAIN vars' => "a" \in DOMAIN vars /\ vars'["a"] = vars["a"]
      BY <2>1, <3>3 DEF Put
    <3> QED BY <3>1, <3>4 DEF StrictCount
  <2> QED BY <2>4, <2>5, <2>6
<1>3. ASSUME MCNext, \A t \in Threads : ~Assign(t)
      PROVE  count' \in Nat /\ StrictCount'
  <2>1. vars' = vars
    BY <1>3 DEF MCNext, Next, Step, Call, Lock, First, Second, Fallback, Finish, Unlock, mvars
  <2>2. \A t \in Threads : ~StoredBy(t)
    BY <1>3, OnlyAssigns DEF MCNext, IInv
  <2>3. count' = count
    BY <1>3, <2>2 DEF MCNext
  <2> QED BY <2>1, <2>3 DEF StrictCount
<1> QED BY <1>1, <1>2, <1>3

\* What is known of the count
Counted == count \in Nat /\ StrictCount /\ Asked

\* No increment is lost, whatever the threads, the width of an int and the other lines
\* (calc.cpp:72-88; what test_server_concurrent_stress.sh looks for at the end).
THEOREM NoIncrementLost ==
  ASSUME OnlyCounted
  PROVE  MCSpec => []StrictCount
<1>1. MCInit => Counted
  BY DEF MCInit, Init, StrictCount, EmptyStore, Asked, Counted
<1>2. MCInit => Init
  BY DEF MCInit
<1>3. [MCNext]_<<mvars, count>> => [Next]_mvars
  BY DEF MCNext
<1>4. IInv /\ Counted /\ [MCNext]_<<mvars, count>> => Counted'
  BY <1>3, AskedStep, CountStep DEF IInv, Counted
<1>5. Counted => StrictCount
  BY DEF Counted
<1> QED BY <1>1, <1>2, <1>3, <1>4, <1>5, Inductive, PTL DEF MCSpec, Spec
=============================================================================
