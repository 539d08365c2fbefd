-------------------------- MODULE CalcServerProofs --------------------------
(***************************************************************************)
(* CalcServer for any clients, requests and descriptor limit: who owns      *)
(* descriptors, connections and semaphore slots, and that every step is one *)
(* of CalcService or none.                                                 *)
(***************************************************************************)
EXTENDS CalcServer, FiniteSetTheorems, SequenceTheorems, WellFoundedInduction, TLAPS

-----------------------------------------------------------------------------
(* Numbers.                                                                 *)

\* set (cache.c:119-167), the lowest free descriptor (calcServer.c:76).
LEMMA LeastNumber ==
  ASSUME NEW S, S \subseteq Nat, S # {}
  PROVE  \E x \in S : \A y \in S : x <= y
<1> DEFINE Less == {ss \in Nat \X Nat : ss[1] < ss[2]}
<1>1. IsWellFoundedOn(Less, Nat)
  <2>1. OpToRel(<, Nat) = Less
    BY Zenon DEF OpToRel
  <2> QED BY <2>1, NatLessThanWellFounded, Zenon
<1>2. PICK x \in S : \A y \in S : <<y, x>> \notin Less
  <2> HIDE DEF Less
  <2> QED BY <1>1, WFMin
<1>3. ASSUME NEW y \in S PROVE x <= y
  <2>1. ~ (y < x)
    <3>1. SUFFICES ASSUME y < x PROVE <<y, x>> \in Less
      BY <1>2
    <3>2. <<y, x>> \in Nat \X Nat /\ <<y, x>>[1] < <<y, x>>[2]
      BY <3>1
    <3> QED BY <3>2, Zenon
  <2> QED BY <2>1
<1> QED BY <1>3

\* A wrapped result is an int (calc.cpp:136, 139, 142).
LEMMA WrapType ==
  ASSUME NEW x \in Int
  PROVE  Wrap(x) \in CInt
<1>1. IntMax - IntMin + 1 \in Nat \ {0} /\ IntMin \in Int /\ IntMax \in Int
  BY IntAssumption
<1>2. (x - IntMin) % (IntMax - IntMin + 1) \in 0 .. (IntMax - IntMin)
  BY <1>1
<1> QED BY <1>1, <1>2 DEF Wrap, CInt

\* unless the divisor is one.
LEMMA DivBound ==
  ASSUME NEW a \in Nat, NEW b \in Nat, b > 0
  PROVE  /\ a \div b \in Nat
         /\ a \div b <= a
         /\ b > 1 => 2 * (a \div b) <= a
<1> DEFINE q == a \div b
<1>1. q \in Int /\ b * q <= a /\ a < b * q + b
  OBVIOUS
<1> QED BY <1>1

\* A division that does not trap has an int for its quotient (calc.cpp:145).
LEMMA QuotientType ==
  ASSUME NEW l \in CInt, NEW r \in CInt, ~Traps(l, r)
  PROVE  Quotient(l, r) \in CInt
<1> DEFINE a == AbsVal(l)
           b == AbsVal(r)
           q == a \div b
<1>1. IntMax \in Nat /\ IntMax > 0 /\ IntMin = -IntMax - 1
  BY IntAssumption
<1>2. l \in IntMin .. IntMax /\ r \in IntMin .. IntMax
  BY DEF CInt
<1>3. /\ a \in Nat /\ a <= IntMax + 1 /\ (a = IntMax + 1 => l = IntMin)
      /\ b \in Nat /\ b > 0 /\ (b = 1 => r = 1 \/ r = -1)
  BY <1>1, <1>2 DEF AbsVal, Traps, Overflows
<1>4. q \in Nat /\ q <= a /\ (b > 1 => 2 * q <= a)
  BY <1>3, DivBound
<1>5. Quotient(l, r) = IF (l < 0) = (r < 0) THEN q ELSE -q
  BY DEF Quotient
<1> HIDE DEF q, a, b
<1>6. CASE q <= IntMax
  BY <1>1, <1>4, <1>5, <1>6 DEF CInt
<1>7. CASE q > IntMax
  <2>1. q = IntMax + 1 /\ a = IntMax + 1
    BY <1>1, <1>3, <1>4, <1>7
  <2>2. b = 1
    BY <2>1, <1>1, <1>3, <1>4
  <2>3. l = IntMin /\ r = 1
    BY <2>1, <2>2, <1>3 DEF Traps, Overflows
  <2>4. Quotient(l, r) = -q
    BY <2>3, <1>1, <1>5
  <2> QED BY <2>1, <2>4, <1>1 DEF CInt
<1> QED BY <1>1, <1>4, <1>6, <1>7

-----------------------------------------------------------------------------
(* The evaluator.                                                           *)

\* Division either fails, ends the process, or yields an int.
LEMMA DivideType ==
  ASSUME NEW l \in CInt, NEW r \in CInt
  PROVE  Divide(l, r) \in Outcome
<1>1. 0 \in CInt
  BY IntAssumption DEF CInt
<1>2. CASE r # 0 /\ ~Overflows(l, r)
  BY <1>2, QuotientType DEF Divide, Outcome, Ok, Traps
<1>3. CASE r = 0 \/ Overflows(l, r)
  BY <1>1, <1>3 DEF Divide, Outcome, No, Abort
<1> QED BY <1>2, <1>3

\* evalOp yields an outcome for every operator token (calc.cpp:131-150).
LEMMA EvalOpType ==
  ASSUME NEW l \in CInt, NEW r \in CInt, NEW op \in Token
  PROVE  EvalOp(l, op, r) \in Outcome
<1>1. l \in Int /\ r \in Int /\ 0 \in CInt
  BY IntAssumption DEF CInt
<1>2. l + r \in Int /\ l - r \in Int /\ l * r \in Int
  BY <1>1
<1>3. Ok(Wrap(l + r)) \in Outcome /\ Ok(Wrap(l - r)) \in Outcome
        /\ Ok(Wrap(l * r)) \in Outcome /\ No \in Outcome
  BY <1>1, <1>2, WrapType DEF Ok, No, Outcome
<1>4. Divide(l, r) \in Outcome
  BY DivideType
<1> HIDE DEF Outcome, Ok, No, Divide, Wrap
<1> QED BY <1>3, <1>4 DEF EvalOp

\* A token of a line is a name or a number in range.
LEMMA TokenType ==
  ASSUME NEW tok \in Token
  PROVE  /\ tok.val \in CInt
         /\ tok.cls = "word" => tok.name \in Names
<1>1. 0 \in CInt
  BY IntAssumption DEF CInt
<1>2. CASE \E n \in Names : tok = Word(n)
  BY <1>1, <1>2 DEF Word
<1>3. CASE \E v \in CInt : tok = Num(v)
  <2>1. PICK v \in CInt : tok = Num(v)
    BY <1>3
  <2>2. tok.val = v /\ tok.cls = "num"
    BY <2>1 DEF Num
  <2> QED BY <2>2
<1>4. CASE \E sym \in {"+", "*", "/", "=", "%"} : tok = Op(sym)
  BY <1>1, <1>4 DEF Op
<1>5. CASE tok \in {Dash, BadNum, Junk}
  BY <1>1, <1>5 DEF Dash, BadNum, Junk
<1> QED BY <1>2, <1>3, <1>4, <1>5 DEF Token

\* getVal yields an outcome (calc.cpp:176-190).
LEMMA GetValType ==
  ASSUME NEW store \in Store, NEW tok \in Token
  PROVE  GetVal(store, tok) \in Outcome
<1>1. tok.val \in CInt /\ 0 \in CInt
  BY TokenType, IntAssumption DEF CInt
<1>2. ASSUME tok.name \in DOMAIN store
      PROVE  store[tok.name] \in CInt
  BY <1>2 DEF Store
<1> QED BY <1>1, <1>2 DEF GetVal, Stoi, Outcome, Ok, No, Abort

\* Assigning an int to a name keeps the store a store (calc.cpp:86).
LEMMA PutType ==
  ASSUME NEW store \in Store, NEW n \in Names, NEW v \in CInt
  PROVE  Put(store, n, v) \in Store
<1>1. PICK D \in SUBSET Names : store \in [D -> CInt]
  BY DEF Store
<1>2. Put(store, n, v) \in [D \cup {n} -> CInt]
  BY <1>1 DEF Put
<1>3. D \cup {n} \in SUBSET Names
  OBVIOUS
<1> QED BY <1>2, <1>3 DEF Store

\* The rest of an assignment is a line again (calc.cpp:81).
LEMMA RestType ==
  ASSUME NEW e \in Seq(Token)
  PROVE  Rest(e) \in Seq(Token)
BY SubSeqProperties DEF Rest

\* An outcome that is ok is determined by its value.
LEMMA OkOutcome ==
  ASSUME NEW o \in Outcome, o.st = "ok"
  PROVE  o = Ok(o.val) /\ o.val \in CInt
BY DEF Outcome, Ok

\* evalOpr yields an outcome for every line (calc.cpp:100-127).
LEMMA EvalOprType ==
  ASSUME NEW store \in Store, NEW e \in Seq(Token)
  PROVE  EvalOpr(store, e) \in Outcome
<1>1. Len(e) \in Nat /\ \A i \in 1 .. Len(e) : e[i] \in Token
  OBVIOUS
<1>2. CASE Len(e) \in {0, 2}
  <2>1. No \in Outcome
    BY IntAssumption DEF No, Outcome, CInt
  <2> QED BY <1>2, <2>1 DEF EvalOpr
<1>3. CASE Len(e) \notin {0, 2}
  <2> DEFINE l == GetVal(store, e[1])
  <2>1. l \in Outcome
    BY <1>1, <1>3, GetValType
  <2>2. ASSUME l.st = "ok", IsBinary(e)
        PROVE  SecondOperand(store, e, l.val) \in Outcome
    <3> DEFINE r == GetVal(store, e[3])
    <3>1. e[2] \in Token /\ e[3] \in Token
      BY <1>1, <2>2 DEF IsBinary
    <3>2. r \in Outcome
      BY <3>1, GetValType
    <3>3. l.val \in CInt
      BY <2>1, <2>2, OkOutcome
    <3>4. r.st = "ok" => EvalOp(l.val, e[2], r.val) \in Outcome
      BY <3>1, <3>2, <3>3, OkOutcome, EvalOpType
    <3> QED BY <3>2, <3>4 DEF SecondOperand
  <2>3. EvalOpr(store, e) = IF l.st = "ok" /\ IsBinary(e) THEN SecondOperand(store, e, l.val) ELSE l
    BY <1>3 DEF EvalOpr
  <2> QED BY <2>1, <2>2, <2>3
<1> QED BY <1>2, <1>3

\* evalExpr yields an outcome, and leaves a store (calc.cpp:59-98).
LEMMA EvalExprType ==
  ASSUME NEW store \in Store, NEW e \in Seq(Token)
  PROVE  EvalExpr(store, e).out \in Outcome /\ EvalExpr(store, e).vars \in Store
<1> DEFINE r == EvalOpr(store, Rest(e))
           w == EvalOpr(store, e)
<1>1. r \in Outcome /\ w \in Outcome
  BY RestType, EvalOprType
<1>2. ASSUME IsAssignment(e), r.st = "ok"
      PROVE  Put(store, e[1].name, r.val) \in Store
  <2>1. e[1] \in Token /\ e[1].cls = "word"
    BY <1>2 DEF IsAssignment, IsAlphabetic
  <2>2. e[1].name \in Names
    BY <2>1, TokenType
  <2>3. r.val \in CInt
    BY <1>1, <1>2, OkOutcome
  <2> HIDE DEF r
  <2> QED BY <2>2, <2>3, PutType
<1> HIDE DEF r, w
<1> QED BY <1>1, <1>2 DEF EvalExpr, r, w

-----------------------------------------------------------------------------
(* The server.                                                              *)

Queued(c) == \E n \in 1 .. Len(backlog) : backlog[n] = c

\* What ties the main thread's table, the queue of connections and the threads
\* together, beyond Ownership.
Links ==
  /\ \A c \in Clients : UsesSocket(c) => fd[c] \in Fds
  /\ \A d \in Fds : table[d] # None /\ pcW[table[d]] = "none" => fd[table[d]] = d
  /\ pcM = "clear" => pos \in Fds /\ table[pos] # None /\ pcW[table[pos]] # "none"
  /\ pcM = "accepting" \/ (pcM = "accept" /\ Listen \in rdy) => backlog # <<>>
  /\ \A c \in Clients : Queued(c) \/ peer[c] = "out" => heap[c] = "none" /\ pcW[c] = "none"
  /\ \A c \in Clients : Queued(c) => peer[c] # "out"
  /\ \A m, n \in 1 .. Len(backlog) : backlog[m] = backlog[n] => m = n

IInv == TypeOK /\ Ownership /\ Links /\ SlotAccounting

ThreadPoints == {"none", "start", "inc", "inc2", "read", "eval", "reply", "flag",
                 "close", "free", "dec", "dec2", "post", "done"}

\* The constants, as the proofs use them.
LEMMA Constants ==
  /\ MaxFd \in Nat /\ MaxFd > 1 /\ MaxSend \in [Clients -> Nat]
  /\ Fds \subseteq Nat /\ Listen \in Nat /\ Listen \notin Fds
  /\ None \notin Clients /\ IsFiniteSet(Clients)
  /\ Requests \subseteq Request
BY ServerAssumption, RequestsAssumption DEF Fds, Listen

\* The outcomes and the requests that the actions write are of their type.
LEMMA Literals ==
  /\ No \in Outcome /\ \A v \in CInt : Ok(v) \in Outcome
  /\ Quit \in Request /\ EmptyStore \in Store
<1>1. 0 \in CInt
  BY IntAssumption DEF CInt
<1>2. EmptyStore \in [{} -> CInt] /\ {} \in SUBSET Names
  BY DEF EmptyStore
<1>3. EmptyStore \in Store
  BY <1>2 DEF Store
<1> QED BY <1>1, <1>3 DEF No, Ok, Outcome, Quit, Request

\* At first nothing is connected.
LEMMA InitInv == Init => IInv
<1> SUFFICES ASSUME Init PROVE IInv
  OBVIOUS
<1> USE DEF Init
<1>1. TypeOK
  <2>1. pos \in 0 .. MaxFd /\ sem \in 0 .. MaxFd /\ sends \in [Clients -> Nat]
    BY Constants
  <2>2. maxfd \in Fds \cup {Listen} /\ rdy \subseteq Fds \cup {Listen}
    OBVIOUS
  <2>3. /\ table \in [Fds -> Clients \cup {None}] /\ owner \in [Fds -> Clients \cup {None}]
        /\ fd \in [Clients -> Fds \cup {0}]
    OBVIOUS
  <2>4. /\ req \in [Clients -> Request] /\ res \in [Clients -> Outcome] /\ vars \in Store
    BY Literals
  <2>5. backlog \in Seq(Clients) /\ inbox \in [Clients -> Seq(Request)]
    OBVIOUS
  <2>6. reg \in [Clients -> Int] /\ cnt \in Int
    OBVIOUS
  <2>7. shutdown \in BOOLEAN
    BY Zenon
  <2> QED BY <2>1, <2>2, <2>3, <2>4, <2>5, <2>6, <2>7 DEF TypeOK
<1>2. Ownership
  BY Constants DEF Ownership, UsesSocket
<1>3. Links
  BY Constants DEF Links, UsesSocket, Queued
<1>4. SlotAccounting
  <2>1. {c \in Clients : Holding(c)} = {}
    BY DEF Holding
  <2>2. Cardinality({}) = 0
    BY FS_EmptySet
  <2>3. sem + 0 = MaxFd
    BY Constants
  <2> QED BY <2>1, <2>2, <2>3 DEF SlotAccounting
<1> QED BY <1>1, <1>2, <1>3, <1>4 DEF IInv

-----------------------------------------------------------------------------
(* The threads.                                                             *)

\* A thread that works on its connection works on the socket it was given.
LEMMA SocketRight ==
  ASSUME IInv, NEW c \in Clients, UsesSocket(c)
  PROVE  Socket(c) = c /\ fd[c] \in Fds /\ Socket(c) # None
BY Constants DEF IInv, Ownership, Links, Socket

\* The slots, when one thread moves on and holds what it held.
LEMMA SlotsSame ==
  ASSUME IInv, NEW c \in Clients, NEW q \in ThreadPoints,
         pcW' = [pcW EXCEPT ![c] = q], sem' = sem,
         Holding(c) <=> q \notin {"none", "start", "done"}
  PROVE  SlotAccounting'
<1>1. pcW \in [Clients -> ThreadPoints]
  BY DEF IInv, TypeOK, ThreadPoints
<1>2. {x \in Clients : Holding(x)}' = {x \in Clients : Holding(x)}
  BY <1>1 DEF Holding
<1> QED BY <1>2 DEF IInv, SlotAccounting

\* One thread moves on and the rest of what IInv speaks of stays: it may come to
\* use its socket only if it did before.
LEMMA ThreadMoves ==
  ASSUME IInv, NEW c \in Clients, NEW q \in ThreadPoints \ {"none"},
         pcW' = [pcW EXCEPT ![c] = q], pcW[c] # "none",
         q \in {"start", "inc", "inc2", "read", "eval", "reply", "flag", "close", "free"}
           => UsesSocket(c),
         UNCHANGED <<mainvars, connvars, owner, backlog>>,
         \A x \in Clients : peer'[x] = "out" => peer[x] = "out"
  PROVE  Ownership' /\ Links'
<1>1. pcW \in [Clients -> ThreadPoints]
  BY DEF IInv, TypeOK, ThreadPoints
<1>2. \A x \in Clients : pcW'[x] = IF x = c THEN q ELSE pcW[x]
  BY <1>1
<1>3. \A d \in Fds : table[d] # None => table[d] \in Clients
  BY DEF IInv, TypeOK
<1>4. \A x \in Clients : UsesSocket(x)' => UsesSocket(x)
  BY <1>2 DEF UsesSocket
<1>5. Ownership'
  BY <1>2, <1>3, <1>4 DEF IInv, Ownership, mainvars, connvars, UsesSocket
<1>6. Links'
  <2>1. \A x \in Clients : Queued(x)' <=> Queued(x)
    BY DEF Queued
  <2> QED BY <1>2, <1>3, <1>4, <2>1 DEF IInv, Links, mainvars, connvars
<1> QED BY <1>5, <1>6

\* The set of threads that hold a slot, when one more does.
LEMMA SlotTaken ==
  ASSUME IInv, NEW c \in Clients, NEW q \in ThreadPoints \ {"none", "start", "done"},
         pcW' = [pcW EXCEPT ![c] = q], ~Holding(c), sem' = sem - 1
  PROVE  SlotAccounting'
<1> DEFINE H == {x \in Clients : Holding(x)}
<1>1. H' = H \cup {c}
  BY DEF IInv, TypeOK, Holding
<1>2. IsFiniteSet(H) /\ c \notin H
  BY Constants, FS_Subset
<1>3. Cardinality(H') = Cardinality(H) + 1 /\ Cardinality(H) \in Nat
  BY <1>1, <1>2, FS_AddElement, FS_CardinalityType
<1>4. sem \in Nat /\ MaxFd \in Nat /\ sem + Cardinality(H) = MaxFd
  BY Constants DEF IInv, TypeOK, SlotAccounting
<1> HIDE DEF H
<1>5. (sem - 1) + Cardinality(H') = MaxFd
  BY <1>3, <1>4
<1> QED BY <1>5 DEF SlotAccounting, H

\* The same, when one thread gives its slot back.
LEMMA SlotReturned ==
  ASSUME IInv, NEW c \in Clients, NEW q \in {"none", "start", "done"},
         pcW' = [pcW EXCEPT ![c] = q], Holding(c), sem' = sem + 1
  PROVE  SlotAccounting' /\ sem + 1 \in 0 .. MaxFd
<1> DEFINE H == {x \in Clients : Holding(x)}
<1>1. H' = H \ {c}
  BY DEF IInv, TypeOK, Holding
<1>2. IsFiniteSet(H) /\ c \in H
  BY Constants, FS_Subset
<1>3. /\ Cardinality(H') = Cardinality(H) - 1
      /\ Cardinality(H) \in Nat /\ Cardinality(H') \in Nat
  BY <1>1, <1>2, FS_RemoveElement, FS_CardinalityType
<1>4. sem \in Nat /\ MaxFd \in Nat /\ sem + Cardinality(H) = MaxFd
  BY Constants DEF IInv, TypeOK, SlotAccounting
<1> HIDE DEF H
<1>5. (sem + 1) + Cardinality(H') = MaxFd /\ sem + 1 \in 0 .. MaxFd
  BY <1>3, <1>4
<1> QED BY <1>5 DEF SlotAccounting, H

\* P(&semaphore)
LEMMA StartKeeps == ASSUME IInv, NEW c \in Clients, Start(c) PROVE IInv'
<1>1. pcW' = [pcW EXCEPT ![c] = "inc"] /\ pcW[c] = "start" /\ sem' = sem - 1 /\ sem > 0
  BY DEF Start, WorkerAt, GoTo
<1>2. TypeOK'
  <2>1. sem' \in 0 .. MaxFd
    BY <1>1, Constants DEF IInv, TypeOK
  <2> QED BY <1>1, <2>1
          DEF Start, OnlyThread, mainvars, connvars, calcvars, netvars, IInv, TypeOK
<1>3. Ownership' /\ Links'
  BY <1>1, ThreadMoves DEF Start, OnlyThread, netvars, ThreadPoints, UsesSocket
<1>4. SlotAccounting'
  BY <1>1, SlotTaken DEF ThreadPoints, Holding
<1> QED BY <1>2, <1>3, <1>4 DEF IInv

\* cnt++ and cnt--
LEMMA LoadCntKeeps == ASSUME IInv, NEW c \in Clients, LoadCnt(c) PROVE IInv'
<1>1. PICK q \in {"inc2", "dec2"} :
        /\ pcW' = [pcW EXCEPT ![c] = q]
        /\ \/ pcW[c] = "inc" /\ q = "inc2"
           \/ pcW[c] = "dec" /\ q = "dec2"
  BY DEF LoadCnt, WorkerAt, GoTo
<1>2. TypeOK'
  BY <1>1 DEF LoadCnt, OnlyThread, mainvars, globals, connvars, calcvars, netvars,
              IInv, TypeOK
<1>3. Ownership' /\ Links'
  BY <1>1, ThreadMoves DEF LoadCnt, OnlyThread, netvars, ThreadPoints, UsesSocket
<1>4. SlotAccounting'
  BY <1>1, SlotsSame DEF LoadCnt, globals, ThreadPoints, Holding
<1> QED BY <1>2, <1>3, <1>4 DEF IInv

\* A thread writes the count it has computed.
LEMMA StoreCntKeeps == ASSUME IInv, NEW c \in Clients, StoreCnt(c) PROVE IInv'
<1>1. PICK q \in {"read", "post"} :
        /\ pcW' = [pcW EXCEPT ![c] = q]
        /\ \/ pcW[c] = "inc2" /\ q = "read"
           \/ pcW[c] = "dec2" /\ q = "post"
        /\ cnt' \in {reg[c] + 1, reg[c] - 1}
  BY DEF StoreCnt, WorkerAt, GoTo
<1>2. TypeOK'
  <2>1. cnt' \in Int
    BY <1>1 DEF IInv, TypeOK
  <2> QED BY <1>1, <2>1
          DEF StoreCnt, OnlyThread, mainvars, connvars, calcvars, netvars, IInv, TypeOK
<1>3. Ownership' /\ Links'
  BY <1>1, ThreadMoves DEF StoreCnt, OnlyThread, netvars, ThreadPoints, UsesSocket
<1>4. SlotAccounting'
  BY <1>1, SlotsSame DEF StoreCnt, ThreadPoints, Holding
<1> QED BY <1>2, <1>3, <1>4 DEF IInv

\* rio_readlineb, with a line
LEMMA ReadLineKeeps == ASSUME IInv, NEW c \in Clients, ReadLine(c) PROVE IInv'
<1> DEFINE r == Head(inbox[c])
<1>1. pcW[c] = "read"
  BY DEF ReadLine, WorkerAt
<1>2. Socket(c) = c
  BY <1>1, SocketRight DEF UsesSocket
<1>3. inbox[c] \in Seq(Request) /\ inbox[c] # <<>>
  BY <1>2 DEF ReadLine, IInv, TypeOK
<1>4. r \in Request /\ Tail(inbox[c]) \in Seq(Request)
  BY <1>3, HeadTailProperties
<1>5. PICK q \in {"close", "flag", "eval"} : pcW' = [pcW EXCEPT ![c] = q]
  <2>1. r.cmd \in {"quit", "shutdown", "eval"}
    BY <1>4 DEF Request
  <2>2. GoTo(c, CASE r.cmd = "quit" -> "close" [] r.cmd = "shutdown" -> "flag" [] r.cmd = "eval" -> "eval")
    BY Zenon, <1>2 DEF ReadLine
  <2>3. GoTo(c, "close") \/ GoTo(c, "flag") \/ GoTo(c, "eval")
    <3> HIDE DEF r
    <3> QED BY <2>1, <2>2
  <2> QED BY <2>3 DEF GoTo
<1>6. inbox' = [inbox EXCEPT ![c] = Tail(@)] /\ req' = [req EXCEPT ![c] = r]
  BY <1>2 DEF ReadLine
<1>7. TypeOK'
  <2>1. inbox' \in [Clients -> Seq(Request)] /\ req' \in [Clients -> Request]
    <3> HIDE DEF r
    <3> QED BY <1>4, <1>6 DEF IInv, TypeOK
  <2>2. pcW' \in [Clients -> {"none", "start", "inc", "inc2", "read", "eval", "reply",
                              "flag", "close", "free", "dec", "dec2", "post", "done"}]
    <3> HIDE DEF r
    <3> QED BY <1>5 DEF IInv, TypeOK
  <2> QED BY <2>1, <2>2 DEF ReadLine, mainvars, globals, connvars, calcvars, IInv, TypeOK
<1>8. Ownership' /\ Links'
  BY <1>1, <1>5, ThreadMoves DEF ReadLine, ThreadPoints, UsesSocket
<1>9. SlotAccounting'
  BY <1>1, <1>5, SlotsSame DEF ReadLine, globals, ThreadPoints, Holding
<1> QED BY <1>7, <1>8, <1>9 DEF IInv

\* rio_readlineb, at the end of input
LEMMA ReadEndKeeps == ASSUME IInv, NEW c \in Clients, ReadEnd(c) PROVE IInv'
<1>1. pcW' = [pcW EXCEPT ![c] = "close"] /\ pcW[c] = "read"
  BY DEF ReadEnd, WorkerAt, GoTo
<1>2. TypeOK'
  BY <1>1 DEF ReadEnd, OnlyThread, mainvars, globals, connvars, calcvars, netvars,
              IInv, TypeOK
<1>3. Ownership' /\ Links'
  BY <1>1, ThreadMoves DEF ReadEnd, OnlyThread, netvars, ThreadPoints, UsesSocket
<1>4. SlotAccounting'
  BY <1>1, SlotsSame DEF ReadEnd, globals, ThreadPoints, Holding
<1> QED BY <1>2, <1>3, <1>4 DEF IInv

\* calc_eval
LEMMA EvaluateKeeps == ASSUME IInv, NEW c \in Clients, Evaluate(c) PROVE IInv'
<1>1. pcW' = [pcW EXCEPT ![c] = "reply"] /\ pcW[c] = "eval"
  BY DEF Evaluate, WorkerAt, GoTo
<1>2. res' \in [Clients -> Outcome] /\ vars' \in Store
  <2>1. res \in [Clients -> Outcome] /\ vars \in Store /\ req[c].expr \in Seq(Token)
    BY DEF IInv, TypeOK, Request
  <2>2. EvalExpr(vars, req[c].expr).out \in Outcome
        /\ EvalExpr(vars, req[c].expr).vars \in Store
    BY <2>1, EvalExprType
  <2>3. \/ /\ res' = [res EXCEPT ![c] = EvalExpr(vars, req[c].expr).out]
           /\ vars' = EvalExpr(vars, req[c].expr).vars
        \/ (\E o \in {No} \cup {Ok(v) : v \in CInt} : res' = [res EXCEPT ![c] = o])
           /\ UNCHANGED vars
    BY DEF Evaluate
  <2> QED BY <2>1, <2>2, <2>3, Literals
<1>3. TypeOK'
  BY <1>1, <1>2, Literals
  DEF Evaluate, mainvars, globals, connvars, netvars, IInv, TypeOK
<1>4. Ownership' /\ Links'
  BY <1>1, ThreadMoves DEF Evaluate, netvars, ThreadPoints, UsesSocket
<1>5. SlotAccounting'
  BY <1>1, SlotsSame DEF Evaluate, globals, ThreadPoints, Holding
<1> QED BY <1>3, <1>4, <1>5 DEF IInv

\* rio_writen
LEMMA ReplyKeeps == ASSUME IInv, NEW c \in Clients, Reply(c) PROVE IInv'
<1>1. pcW' = [pcW EXCEPT ![c] = "read"] /\ pcW[c] = "reply"
  BY DEF Reply, WorkerAt, GoTo
<1>2. Socket(c) = c /\ Socket(c) # None
  BY <1>1, SocketRight DEF UsesSocket
<1>3. \/ peer' = peer
      \/ \E p \in {"gone", "reset"} : peer' = [peer EXCEPT ![c] = p]
  BY <1>2 DEF Reply
<1>4. peer \in [Clients -> {"out", "up", "gone", "reset"}]
  BY DEF IInv, TypeOK
<1>5. peer' \in [Clients -> {"out", "up", "gone", "reset"}]
      /\ \A x \in Clients : peer'[x] = "out" => peer[x] = "out"
  BY <1>3, <1>4
<1>6. TypeOK'
  BY <1>1, <1>5, Literals
  DEF Reply, mainvars, globals, connvars, calcvars, IInv, TypeOK
<1>7. Ownership' /\ Links'
  BY <1>1, <1>5, ThreadMoves DEF Reply, ThreadPoints, UsesSocket
<1>8. SlotAccounting'
  BY <1>1, SlotsSame DEF Reply, globals, ThreadPoints, Holding
<1> QED BY <1>6, <1>7, <1>8 DEF IInv

\* shutdown_volatile = 1
LEMMA FlagKeeps == ASSUME IInv, NEW c \in Clients, Flag(c) PROVE IInv'
<1>1. pcW' = [pcW EXCEPT ![c] = "close"] /\ pcW[c] = "flag"
  BY DEF Flag, WorkerAt, GoTo
<1>2. TypeOK'
  BY <1>1, Literals
  DEF Flag, OnlyThread, mainvars, connvars, calcvars, netvars, IInv, TypeOK
<1>3. Ownership' /\ Links'
  BY <1>1, ThreadMoves DEF Flag, OnlyThread, netvars, ThreadPoints, UsesSocket
<1>4. SlotAccounting'
  BY <1>1, SlotsSame DEF Flag, ThreadPoints, Holding
<1> QED BY <1>2, <1>3, <1>4 DEF IInv

\* close(info->clientfd): no other connection loses its descriptor.
LEMMA CloseKeeps == ASSUME IInv, NEW c \in Clients, Close(c) PROVE IInv'
<1>1. pcW' = [pcW EXCEPT ![c] = "free"] /\ pcW[c] = "close"
  BY DEF Close, WorkerAt, GoTo
<1>2. Socket(c) = c /\ fd[c] \in Fds /\ owner[fd[c]] = c
  BY <1>1, SocketRight DEF UsesSocket, Socket
<1>3. /\ owner' = [owner EXCEPT ![fd[c]] = None]
      /\ peer' = [peer EXCEPT ![c] = "gone"]
      /\ inbox' = [inbox EXCEPT ![c] = <<>>]
  BY <1>2 DEF Close
<1>4. TypeOK'
  BY <1>1, <1>2, <1>3 DEF Close, mainvars, globals, connvars, calcvars, IInv, TypeOK
<1>5. \A x \in Clients : pcW'[x] = IF x = c THEN "free" ELSE pcW[x]
  BY <1>1 DEF IInv, TypeOK
<1>6. \A d \in Fds : owner'[d] = IF d = fd[c] THEN None ELSE owner[d]
  BY <1>3 DEF IInv, TypeOK
<1>7. \A x \in Clients : UsesSocket(x)' <=> UsesSocket(x) /\ x # c
  BY <1>1, <1>5 DEF UsesSocket
<1>8. \A x \in Clients : UsesSocket(x) /\ x # c => fd[x] # fd[c]
  BY <1>2 DEF IInv, Ownership
<1>9. UNCHANGED <<pcM, pos, rdy, table, fd, heap, backlog>>
  BY DEF Close, mainvars, connvars
<1>10. Ownership'
  <2>1. \A x \in Clients : UsesSocket(x)' => owner'[fd'[x]] = x
    BY <1>6, <1>7, <1>8, <1>9 DEF IInv, Ownership, Links
  <2>2. \A x \in Clients : UsesSocket(x)' \/ pcW'[x] = "free" => heap'[x] = "live"
    BY <1>1, <1>5, <1>7, <1>9 DEF IInv, Ownership, UsesSocket
  <2>3. \A d \in Fds : table[d] # None =>
          \/ pcW'[table[d]] = "none" /\ owner'[d] = table[d] /\ heap[table[d]] = "live"
          \/ pcM = "clear" /\ pos = d
    <3>1. \A d \in Fds : table[d] # None => table[d] \in Clients
      BY DEF IInv, TypeOK
    <3> QED BY <1>1, <1>2, <1>5, <1>6, <3>1 DEF IInv, Ownership
  <2> QED BY <1>9, <2>1, <2>2, <2>3 DEF Ownership
<1>11. Links'
  <2>1. \A x \in Clients : Queued(x)' <=> Queued(x)
    BY <1>9 DEF Queued
  <2>2. \A x \in Clients : peer'[x] = "out" => peer[x] = "out"
    BY <1>3 DEF IInv, TypeOK
  <2>3. \A d \in Fds : table[d] # None => table[d] \in Clients
    BY DEF IInv, TypeOK
  <2> QED BY <1>1, <1>5, <1>7, <1>9, <2>1, <2>2, <2>3 DEF IInv, Links
<1>12. SlotAccounting'
  BY <1>1, SlotsSame DEF Close, globals, ThreadPoints, Holding
<1> QED BY <1>4, <1>10, <1>11, <1>12 DEF IInv

\* free(info)
LEMMA FreeInfoKeeps == ASSUME IInv, NEW c \in Clients, FreeInfo(c) PROVE IInv'
<1>1. /\ pcW' = [pcW EXCEPT ![c] = "dec"] /\ pcW[c] = "free"
      /\ heap' = [heap EXCEPT ![c] = "freed"] /\ fd' = [fd EXCEPT ![c] = 0]
  BY DEF FreeInfo, WorkerAt, GoTo
<1>2. TypeOK'
  BY <1>1 DEF FreeInfo, mainvars, globals, calcvars, netvars, IInv, TypeOK
<1>3. \A x \in Clients : /\ pcW'[x] = IF x = c THEN "dec" ELSE pcW[x]
                         /\ heap'[x] = IF x = c THEN "freed" ELSE heap[x]
                         /\ fd'[x] = IF x = c THEN 0 ELSE fd[x]
  BY <1>1 DEF IInv, TypeOK
<1>4. \A x \in Clients : UsesSocket(x)' <=> UsesSocket(x) /\ x # c
  BY <1>1, <1>3 DEF UsesSocket
<1>5. UNCHANGED <<pcM, pos, rdy, table, owner, backlog, peer>>
  BY DEF FreeInfo, mainvars, netvars
<1>6. \A d \in Fds : table[d] # None => table[d] \in Clients
  BY DEF IInv, TypeOK
<1>7. Ownership'
  BY <1>1, <1>3, <1>4, <1>5, <1>6 DEF IInv, Ownership
<1>8. Links'
  <2>1. \A x \in Clients : Queued(x)' <=> Queued(x)
    BY <1>5 DEF Queued
  <2> QED BY <1>1, <1>3, <1>4, <1>5, <1>6, <2>1 DEF IInv, Links
<1>9. SlotAccounting'
  BY <1>1, SlotsSame DEF FreeInfo, globals, ThreadPoints, Holding
<1> QED BY <1>2, <1>7, <1>8, <1>9 DEF IInv

\* V(&semaphore)
LEMMA PostKeeps == ASSUME IInv, NEW c \in Clients, Post(c) PROVE IInv'
<1>1. pcW' = [pcW EXCEPT ![c] = "done"] /\ pcW[c] = "post" /\ sem' = sem + 1
  BY DEF Post, WorkerAt, GoTo
<1>2. SlotAccounting' /\ sem' \in 0 .. MaxFd
  BY <1>1, SlotReturned DEF ThreadPoints, Holding
<1>3. TypeOK'
  BY <1>1, <1>2 DEF Post, OnlyThread, mainvars, connvars, calcvars, netvars, IInv, TypeOK
<1>4. Ownership' /\ Links'
  BY <1>1, ThreadMoves DEF Post, OnlyThread, netvars, ThreadPoints, UsesSocket
<1> QED BY <1>2, <1>3, <1>4 DEF IInv

\* The end of the process leaves the state as it is.
LEMMA EndKeeps ==
  ASSUME IInv, NEW how \in {"normal", "failed", "killed"}, EndProcess(how)
  PROVE  IInv'
<1>1. /\ UNCHANGED <<pcM, pos, rdy, maxfd, table, shutdown, cnt, sem, fd, heap, pcW, reg>>
      /\ UNCHANGED <<req, res, vars, calc, owner, backlog, peer, inbox, sends>>
      /\ ended' = how
  BY DEF EndProcess, mainvars, globals, connvars, threadvars, calcvars, netvars
<1>2. TypeOK'
  BY <1>1 DEF IInv, TypeOK
<1>3. Ownership' /\ Links' /\ SlotAccounting'
  BY <1>1 DEF IInv, Ownership, Links, SlotAccounting, UsesSocket, Holding, Queued
<1> QED BY <1>2, <1>3 DEF IInv

\* Every step of a thread keeps the invariant.
LEMMA WorkerKeeps == ASSUME IInv, NEW c \in Clients, Worker(c) PROVE IInv'
<1>1. CASE EvaluateAborts(c) \/ ReplyKills(c)
  BY <1>1, EndKeeps DEF EvaluateAborts, ReplyKills
<1> QED BY <1>1, StartKeeps, LoadCntKeeps, StoreCntKeeps, ReadLineKeeps, ReadEndKeeps,
           EvaluateKeeps, ReplyKeeps, FlagKeeps, CloseKeeps, FreeInfoKeeps, PostKeeps
        DEF Worker

-----------------------------------------------------------------------------
(* The clients.                                                             *)

\* connect: a connection waits to be accepted.
LEMMA ConnectKeeps == ASSUME IInv, NEW c \in Clients, Connect(c) PROVE IInv'
<1>1. /\ UNCHANGED <<pcM, pos, rdy, maxfd, table, shutdown, cnt, sem, fd, heap, pcW, reg>>
      /\ UNCHANGED <<req, res, vars, calc, owner, inbox, sends, ended>>
      /\ peer' = [peer EXCEPT ![c] = "up"] /\ peer[c] = "out"
      /\ backlog' = Append(backlog, c)
  BY DEF Connect, OnlyClient, mainvars, globals, connvars, threadvars, calcvars
<1>2. /\ backlog \in Seq(Clients) /\ Len(backlog) \in Nat
      /\ backlog' \in Seq(Clients) /\ backlog' # <<>> /\ Len(backlog') = Len(backlog) + 1
      /\ \A n \in 1 .. Len(backlog) : backlog'[n] = backlog[n]
      /\ backlog'[Len(backlog) + 1] = c
  <2>1. backlog \in Seq(Clients)
    BY DEF IInv, TypeOK
  <2> QED BY <1>1, <2>1, AppendProperties
<1>3. TypeOK'
  BY <1>1, <1>2 DEF IInv, TypeOK
<1>4. Ownership' /\ SlotAccounting'
  BY <1>1 DEF IInv, Ownership, SlotAccounting, UsesSocket, Holding
<1>5. \A x \in Clients : Queued(x)' <=> Queued(x) \/ x = c
  BY <1>2 DEF Queued
<1>6. \A x \in Clients : peer'[x] = IF x = c THEN "up" ELSE peer[x]
  BY <1>1 DEF IInv, TypeOK
<1>7. \A m, n \in 1 .. Len(backlog') : backlog'[m] = backlog'[n] => m = n
  <2>1. \A n \in 1 .. Len(backlog) : backlog[n] # c
    BY <1>1 DEF IInv, Links, Queued
  <2> QED BY <1>2, <2>1 DEF IInv, Links
<1>8. Links'
  BY <1>1, <1>2, <1>5, <1>6, <1>7 DEF IInv, Links, UsesSocket
<1> QED BY <1>3, <1>4, <1>8 DEF IInv

\* What a client sends, and its going away, concern the kernel's data alone.
LEMMA ClientKeeps ==
  ASSUME IInv, NEW c \in Clients, Client(c)
  PROVE  IInv'
<1>1. CASE Connect(c)
  BY <1>1, ConnectKeeps
<1>2. ASSUME TypeOK', UNCHANGED <<owner, backlog>>, OnlyClient,
             \A x \in Clients : peer'[x] = "out" => peer[x] = "out"
      PROVE  IInv'
  <2>1. UNCHANGED <<pcM, pos, rdy, maxfd, table, shutdown, cnt, sem, fd, heap, pcW,
                    owner, backlog>>
    BY <1>2 DEF OnlyClient, mainvars, globals, connvars, threadvars
  <2>2. Ownership' /\ SlotAccounting'
    BY <2>1 DEF IInv, Ownership, SlotAccounting, UsesSocket, Holding
  <2>3. Links'
    BY <1>2, <2>1 DEF IInv, Links, UsesSocket, Queued
  <2> QED BY <1>2, <2>2, <2>3 DEF IInv
<1>3. ASSUME NEW r \in Requests, Send(c, r)
      PROVE  IInv'
  <2>1. r \in Request /\ inbox[c] \in Seq(Request)
    BY Constants DEF IInv, TypeOK
  <2>2. Append(inbox[c], r) \in Seq(Request)
    BY <2>1, AppendProperties
  <2>3. sends[c] + 1 \in Nat
    BY <1>3, Constants DEF Send, IInv, TypeOK
  <2>4. TypeOK'
    BY <1>3, <2>2, <2>3
    DEF Send, OnlyClient, mainvars, globals, connvars, threadvars, calcvars, IInv, TypeOK
  <2> QED BY <1>2, <1>3, <2>4 DEF Send
<1>4. CASE HangUp(c)
  <2>1. PICK p \in {"gone", "reset"} : peer' = [peer EXCEPT ![c] = p]
    BY <1>4 DEF HangUp
  <2>2. TypeOK' /\ \A x \in Clients : peer'[x] = "out" => peer[x] = "out"
    BY <1>4, <2>1
    DEF HangUp, OnlyClient, mainvars, globals, connvars, threadvars, calcvars, IInv, TypeOK
  <2> QED BY <1>2, <1>4, <2>2 DEF HangUp
<1> QED BY <1>1, <1>3, <1>4 DEF Client

-----------------------------------------------------------------------------
(* The main thread.                                                         *)

\* A step of the main thread within its loop: what it does not write is intact.
LEMMA OnlyMainKeeps ==
  ASSUME IInv, OnlyMain, UNCHANGED table,
         TypeOK', pcM # "clear", pcM' # "clear",
         pcM' = "accepting" \/ (pcM' = "accept" /\ Listen \in rdy') => backlog # <<>>
  PROVE  IInv'
<1>1. UNCHANGED <<table, shutdown, cnt, sem, fd, heap, pcW, owner, backlog, peer>>
  BY DEF OnlyMain, globals, connvars, threadvars, netvars
<1>2. Ownership' /\ SlotAccounting'
  BY <1>1 DEF IInv, Ownership, SlotAccounting, UsesSocket, Holding
<1>3. Links'
  BY <1>1 DEF IInv, Links, UsesSocket, Queued
<1> QED BY <1>2, <1>3 DEF IInv

\* The test of the outer loop.
LEMMA TestShutdownKeeps == ASSUME IInv, TestShutdown PROVE IInv'
<1>1. TypeOK'
  BY DEF TestShutdown, OnlyMain, globals, connvars, threadvars, calcvars, netvars,
         IInv, TypeOK
<1> QED BY <1>1, OnlyMainKeeps DEF TestShutdown, MainAt

\* The test of the count, on the way out.
LEMMA TestCntKeeps == ASSUME IInv, TestCnt PROVE IInv'
<1>1. TypeOK'
  BY DEF TestCnt, OnlyMain, globals, connvars, threadvars, calcvars, netvars, IInv, TypeOK
<1> QED BY <1>1, OnlyMainKeeps DEF TestCnt, MainAt

\* select: a listening socket is ready when a connection waits.
LEMMA SelectKeeps == ASSUME IInv, Select PROVE IInv'
<1>1. Watched \subseteq Fds /\ Listen \notin Watched
  BY Constants DEF Watched
<1>2. rdy' \subseteq Fds \cup {Listen} /\ (Listen \in rdy' => backlog # <<>>)
  BY <1>1 DEF Select
<1>3. pcM' \in {"test", "accept"} /\ pcM = "select"
  BY DEF Select, MainAt
<1>4. TypeOK'
  BY <1>2, <1>3
  DEF Select, OnlyMain, globals, connvars, threadvars, calcvars, netvars, IInv, TypeOK
<1> QED BY <1>2, <1>3, <1>4, OnlyMainKeeps DEF Select

\* The decision whether to accept.
LEMMA DecideAcceptKeeps == ASSUME IInv, DecideAccept PROVE IInv'
<1>1. pcM' \in {"accepting", "scan"} /\ pcM = "accept"
      /\ (pcM' = "accepting" => backlog # <<>>)
  BY DEF DecideAccept, MainAt, IInv, Links
<1>2. TypeOK'
  BY <1>1, Constants
  DEF DecideAccept, OnlyMain, globals, connvars, threadvars, calcvars, netvars, IInv, TypeOK
<1> QED BY <1>1, <1>2, OnlyMainKeeps DEF DecideAccept

\* The end of the scan: no descriptor is left to serve.
LEMMA ScanDoneKeeps == ASSUME IInv, ScanDone PROVE IInv'
<1>1. TypeOK'
  BY Constants DEF ScanDone, OnlyMain, globals, connvars, threadvars, calcvars, netvars,
                   IInv, TypeOK
<1> QED BY <1>1, OnlyMainKeeps DEF ScanDone, MainAt

\* The scan finds a connection that has no thread.
LEMMA NextRight ==
  ASSUME IInv, pcM = "scan", Servable # {}
  PROVE  /\ NextFd \in Fds /\ table[NextFd] \in Clients
         /\ pcW[table[NextFd]] = "none" /\ heap[table[NextFd]] = "live"
         /\ owner[NextFd] = table[NextFd] /\ fd[table[NextFd]] = NextFd
<1>1. Servable \subseteq Nat
  BY Constants DEF Servable, Watched
<1>2. NextFd \in Servable
  BY <1>1, LeastNumber DEF NextFd
<1>3. NextFd \in Fds /\ table[NextFd] # None
  BY <1>2 DEF Servable, Watched
<1>4. table[NextFd] \in Clients
  BY <1>3 DEF IInv, TypeOK
<1> QED BY <1>3, <1>4 DEF IInv, Ownership, Links

\* pthread_create
LEMMA SpawnKeeps == ASSUME IInv, Spawn PROVE IInv'
<1> DEFINE d == NextFd
           c == table[d]
<1>1. pcM = "scan" /\ Servable # {}
  BY DEF Spawn, MainAt
<1>2. /\ d \in Fds /\ c \in Clients /\ pcW[c] = "none" /\ heap[c] = "live"
      /\ owner[d] = c /\ fd[c] = d
  BY <1>1, NextRight
<1>3. /\ pcW' = [pcW EXCEPT ![c] = "start"] /\ pos' = d /\ pcM' = "clear"
      /\ UNCHANGED <<rdy, maxfd, table, shutdown, cnt, sem, fd, heap, reg, req, res>>
      /\ UNCHANGED <<vars, calc, owner, backlog, peer, inbox, sends, ended>>
  BY DEF Spawn, globals, connvars, calcvars, netvars
<1> HIDE DEF d
<1>4. TypeOK'
  <2>1. d \in 0 .. MaxFd
    BY <1>2, Constants DEF Fds
  <2> QED BY <1>2, <1>3, <2>1 DEF IInv, TypeOK
<1>5. \A x \in Clients : pcW'[x] = IF x = c THEN "start" ELSE pcW[x]
  BY <1>3 DEF IInv, TypeOK
<1>6. \A x \in Clients : UsesSocket(x)' <=> UsesSocket(x) \/ x = c
  BY <1>5 DEF UsesSocket
<1>7. \A e \in Fds : table[e] # None => table[e] \in Clients
  BY DEF IInv, TypeOK
<1>8. \A e \in Fds : table[e] = c => e = d
  BY <1>2, Constants DEF IInv, Links
<1>9. Ownership'
  BY <1>1, <1>2, <1>3, <1>5, <1>6, <1>7, <1>8 DEF IInv, Ownership
<1>10. Links'
  <2>1. \A x \in Clients : Queued(x)' <=> Queued(x)
    BY <1>3 DEF Queued
  <2>2. table[d] # None
    BY <1>2, Constants
  <2> QED BY <1>2, <1>3, <1>5, <1>6, <1>7, <1>8, <2>1, <2>2 DEF IInv, Links
<1>11. SlotAccounting'
  BY <1>2, <1>3, SlotsSame DEF Holding, ThreadPoints
<1> QED BY <1>4, <1>9, <1>10, <1>11 DEF IInv

\* client_conn[fd] = NULL
LEMMA ClearKeeps == ASSUME IInv, Clear PROVE IInv'
<1>1. /\ pcM = "clear" /\ pcM' = "scan" /\ pos' = pos + 1
      /\ table' = [table EXCEPT ![pos] = None]
      /\ UNCHANGED <<rdy, maxfd, shutdown, cnt, sem, fd, heap, pcW, reg, req, res>>
      /\ UNCHANGED <<vars, calc, owner, backlog, peer, inbox, sends, ended>>
  BY DEF Clear, MainAt, OnlyMain, globals, connvars, threadvars, calcvars, netvars
<1>2. pos \in Fds
  BY <1>1 DEF IInv, Links
<1>3. TypeOK'
  <2>1. pos + 1 \in 0 .. MaxFd
    BY <1>2, Constants DEF Fds
  <2> QED BY <1>1, <1>2, <2>1 DEF IInv, TypeOK
<1>4. \A d \in Fds : table'[d] = IF d = pos THEN None ELSE table[d]
  BY <1>1, <1>2 DEF IInv, TypeOK
<1>5. Ownership'
  BY <1>1, <1>4 DEF IInv, Ownership, UsesSocket
<1>6. Links'
  BY <1>1, <1>4 DEF IInv, Links, UsesSocket, Queued
<1>7. SlotAccounting'
  BY <1>1 DEF IInv, SlotAccounting, Holding
<1> QED BY <1>3, <1>5, <1>6, <1>7 DEF IInv

\* Accept: the descriptor was free, and so was its place in client_conn.
LEMMA AcceptKeeps == ASSUME IInv, AcceptClient PROVE IInv'
<1> DEFINE c == Head(backlog)
           d == CHOOSE x \in FreeFds : \A y \in FreeFds : x <= y
<1>1. /\ pcM = "accepting" /\ pcM' = "scan"
      /\ owner' = [owner EXCEPT ![d] = c] /\ fd' = [fd EXCEPT ![c] = d]
      /\ heap' = [heap EXCEPT ![c] = "live"] /\ table' = [table EXCEPT ![d] = c]
      /\ maxfd' = IF d > maxfd THEN d ELSE maxfd
      /\ backlog' = Tail(backlog)
      /\ UNCHANGED <<pos, rdy, shutdown, cnt, sem, pcW, reg, req, res>>
      /\ UNCHANGED <<vars, calc, peer, inbox, sends, ended>>
  BY DEF AcceptClient, MainAt, globals, threadvars, calcvars
<1>2. /\ backlog \in Seq(Clients) /\ backlog # <<>>
  BY <1>1 DEF IInv, TypeOK, Links
<1>3. /\ c \in Clients /\ backlog' \in Seq(Clients)
      /\ Len(backlog) \in Nat /\ Len(backlog) > 0 /\ c = backlog[1]
      /\ Len(backlog') = Len(backlog) - 1
      /\ \A n \in 1 .. Len(backlog') : backlog'[n] = backlog[n + 1]
  BY <1>1, <1>2, HeadTailProperties
<1>4. d \in Fds /\ owner[d] = None
  <2>1. FreeFds # {} /\ FreeFds \subseteq Nat
    BY Constants DEF AcceptClient, FreeFds
  <2>2. d \in FreeFds
    BY <2>1, LeastNumber
  <2> QED BY <2>2 DEF FreeFds
<1> HIDE DEF c, d
<1>5. Queued(c) /\ heap[c] = "none" /\ pcW[c] = "none" /\ peer[c] # "out"
  BY <1>3 DEF IInv, Links, Queued
<1>6. \A x \in Clients : Queued(x)' => Queued(x) /\ x # c
  BY <1>3 DEF IInv, Links, Queued
<1>7. /\ \A e \in Fds : owner'[e] = IF e = d THEN c ELSE owner[e]
      /\ \A e \in Fds : table'[e] = IF e = d THEN c ELSE table[e]
      /\ \A x \in Clients : fd'[x] = IF x = c THEN d ELSE fd[x]
      /\ \A x \in Clients : heap'[x] = IF x = c THEN "live" ELSE heap[x]
  BY <1>1, <1>3, <1>4 DEF IInv, TypeOK
<1>8. \A x \in Clients : UsesSocket(x)' <=> UsesSocket(x)
  BY <1>1 DEF UsesSocket
<1>9. \A e \in Fds : table[e] # None =>
        /\ table[e] \in Clients /\ table[e] # c
        /\ pcW[table[e]] = "none" /\ owner[e] = table[e] /\ heap[table[e]] = "live"
  BY <1>1, <1>5 DEF IInv, TypeOK, Ownership
<1>10. TypeOK'
  <2>1. maxfd' \in Fds \cup {Listen}
    BY <1>1, <1>4 DEF IInv, TypeOK
  <2> QED BY <1>1, <1>3, <1>4, <2>1 DEF IInv, TypeOK
<1>11. Ownership'
  <2>1. \A x \in Clients : UsesSocket(x)' => owner'[fd'[x]] = x
    <3>1. \A x \in Clients : UsesSocket(x) => x # c /\ owner[fd[x]] = x /\ fd[x] \in Fds
      BY <1>5 DEF IInv, Ownership, Links, UsesSocket
    <3>2. \A x \in Clients : UsesSocket(x) => fd[x] # d /\ fd'[x] = fd[x]
      BY <1>4, <1>7, <3>1, Constants
    <3> QED BY <1>7, <1>8, <3>1, <3>2
  <2>2. \A x \in Clients : UsesSocket(x)' \/ pcW'[x] = "free" => heap'[x] = "live"
    BY <1>1, <1>7, <1>8 DEF IInv, Ownership
  <2>3. \A e \in Fds : table'[e] # None =>
          pcW'[table'[e]] = "none" /\ owner'[e] = table'[e] /\ heap'[table'[e]] = "live"
    BY <1>1, <1>3, <1>5, <1>7, <1>9
  <2> QED BY <2>1, <2>2, <2>3 DEF Ownership
<1>12. Links'
  <2>1. \A x \in Clients : UsesSocket(x)' => fd'[x] \in Fds
    BY <1>4, <1>7, <1>8 DEF IInv, Links
  <2>2. \A e \in Fds : table'[e] # None => fd'[table'[e]] = e
    BY <1>3, <1>7, <1>9 DEF IInv, Links
  <2>3. \A x \in Clients : Queued(x)' \/ peer'[x] = "out" =>
          heap'[x] = "none" /\ pcW'[x] = "none" /\ (Queued(x)' => peer'[x] # "out")
    BY <1>1, <1>5, <1>6, <1>7 DEF IInv, Links
  <2>4. \A m, n \in 1 .. Len(backlog') : backlog'[m] = backlog'[n] => m = n
    BY <1>3 DEF IInv, Links
  <2> QED BY <1>1, <2>1, <2>2, <2>3, <2>4 DEF Links
<1>13. SlotAccounting'
  BY <1>1 DEF IInv, SlotAccounting, Holding
<1> QED BY <1>10, <1>11, <1>12, <1>13 DEF IInv

\* calc_destroy
LEMMA DestroyKeeps == ASSUME IInv, Destroy PROVE IInv'
<1>1. /\ pcM = "destroy" /\ pcM' = "return" /\ calc' = "destroyed"
      /\ UNCHANGED <<pos, rdy, maxfd, table, shutdown, cnt, sem, fd, heap, pcW, reg>>
      /\ UNCHANGED <<req, res, vars, owner, backlog, peer, inbox, sends, ended>>
  BY DEF Destroy, MainAt, globals, connvars, threadvars, netvars
<1>2. TypeOK'
  BY <1>1 DEF IInv, TypeOK
<1>3. Ownership' /\ Links' /\ SlotAccounting'
  BY <1>1 DEF IInv, Ownership, Links, SlotAccounting, UsesSocket, Holding, Queued
<1> QED BY <1>2, <1>3 DEF IInv

\* Every step of main keeps the invariant.
LEMMA MainKeeps == ASSUME IInv, Main PROVE IInv'
<1>1. CASE SelectFails \/ AcceptFails \/ SpawnFails \/ Exit
  BY <1>1, EndKeeps DEF SelectFails, AcceptFails, SpawnFails, Exit
<1> QED BY <1>1, TestShutdownKeeps, TestCntKeeps, SelectKeeps, DecideAcceptKeeps,
           AcceptKeeps, SpawnKeeps, ClearKeeps, ScanDoneKeeps, DestroyKeeps
        DEF Main

-----------------------------------------------------------------------------

\* And so does a step in which nothing changes.
LEMMA StutterKeeps == ASSUME IInv, UNCHANGED allvars PROVE IInv'
<1>1. /\ UNCHANGED <<pcM, pos, rdy, maxfd, table, shutdown, cnt, sem, fd, heap, pcW, reg>>
      /\ UNCHANGED <<req, res, vars, calc, owner, backlog, peer, inbox, sends, ended>>
  BY DEF allvars, mainvars, globals, connvars, threadvars, calcvars, netvars
<1>2. TypeOK'
  BY <1>1 DEF IInv, TypeOK
<1>3. Ownership' /\ Links' /\ SlotAccounting'
  BY <1>1 DEF IInv, Ownership, Links, SlotAccounting, UsesSocket, Holding, Queued
<1> QED BY <1>2, <1>3 DEF IInv

\* Every step keeps the invariant.
LEMMA NextInv == IInv /\ [Next]_allvars => IInv'
BY MainKeeps, WorkerKeeps, ClientKeeps, StutterKeeps DEF Next

\* The invariant holds always.
LEMMA Inductive == Spec => []IInv
BY InitInv, NextInv, PTL DEF Spec

\* The types of the server's state are kept; above all the semaphore never
\* exceeds MAX_FD, although threads come and go (calcServer.c:46, 170, 183).
THEOREM TypeCorrect == Spec => []TypeOK
BY Inductive, PTL DEF IInv

\* Descriptors and client structures have one owner at a time, for any number of
\* clients: reuse of a descriptor never mixes two sessions up.
THEOREM OneOwner == Spec => []Ownership
BY Inductive, PTL DEF IInv

\* No slot is lost or made.
THEOREM SlotsAccounted == Spec => []SlotAccounting
BY Inductive, PTL DEF IInv

\* A connection gets one thread, once.
THEOREM OneThread == Spec => SpawnedOnce
<1>1. ASSUME IInv, [Next]_allvars, NEW c \in Clients, pcW'[c] = "start"
      PROVE  pcW[c] \in {"none", "start"}
  <2>1. pcW \in [Clients -> ThreadPoints]
    BY <1>1 DEF IInv, TypeOK, ThreadPoints
  <2>2. ASSUME NEW x \in Clients, NEW q \in ThreadPoints \ {"start"},
               pcW' = [pcW EXCEPT ![x] = q]
        PROVE  pcW[c] = "start"
    BY <1>1, <2>1, <2>2
  <2>3. CASE UNCHANGED pcW
    BY <1>1, <2>3
  <2>4. CASE Spawn
    <3>1. pcW' = [pcW EXCEPT ![table[NextFd]] = "start"]
          /\ table[NextFd] \in Clients /\ pcW[table[NextFd]] = "none"
      BY <1>1, <2>4, NextRight DEF Spawn, MainAt
    <3> QED BY <1>1, <2>1, <3>1
  <2>5. ASSUME NEW x \in Clients, Worker(x)
        PROVE  pcW[c] = "start" \/ UNCHANGED pcW
    <3> USE DEF ThreadPoints, GoTo, WorkerAt
    <3>1. CASE Start(x)
      BY <2>2, <3>1 DEF Start
    <3>2. CASE LoadCnt(x)
      BY <2>2, <3>2 DEF LoadCnt
    <3>3. CASE StoreCnt(x)
      BY <2>2, <3>3 DEF StoreCnt
    <3>4. CASE ReadLine(x)
      <4>1. pcW[x] = "read"
        BY <3>4 DEF ReadLine
      <4>2. Socket(x) = x
        BY <1>1, <4>1, SocketRight DEF UsesSocket
      <4>3. Head(inbox[x]) \in Request
        BY <1>1, <3>4, <4>2, HeadTailProperties DEF ReadLine, IInv, TypeOK
      <4>4. PICK q \in {"close", "flag", "eval"} : pcW' = [pcW EXCEPT ![x] = q]
        BY <3>4, <4>2, <4>3 DEF ReadLine, Request
      <4> QED BY <2>2, <4>4
    <3>5. CASE ReadEnd(x) \/ Flag(x)
      BY <2>2, <3>5 DEF ReadEnd, Flag
    <3>6. CASE Evaluate(x) \/ Reply(x)
      BY <2>2, <3>6 DEF Evaluate, Reply
    <3>7. CASE Close(x) \/ FreeInfo(x) \/ Post(x)
      BY <2>2, <3>7 DEF Close, FreeInfo, Post
    <3>8. CASE EvaluateAborts(x) \/ ReplyKills(x)
      BY <3>8 DEF EvaluateAborts, ReplyKills, EndProcess, threadvars
    <3> QED BY <2>5, <3>1, <3>2, <3>3, <3>4, <3>5, <3>6, <3>7, <3>8 DEF Worker
  <2>6. ASSUME NEW x \in Clients, Client(x)
        PROVE  UNCHANGED pcW
    BY <2>6 DEF Client, Connect, HangUp, Send, OnlyClient, threadvars
  <2>7. ASSUME Main, ~Spawn
        PROVE  UNCHANGED pcW
    BY <2>7 DEF Main, TestShutdown, TestCnt, Select, SelectFails, DecideAccept, AcceptClient, AcceptFails,
                SpawnFails, Clear, ScanDone, Destroy, Exit, OnlyMain, EndProcess, threadvars
  <2>8. CASE UNCHANGED allvars
    BY <2>3, <2>8 DEF allvars, threadvars
  <2>9. CASE Next
    BY <2>3, <2>4, <2>5, <2>6, <2>7, <2>8, <2>9 DEF Next
  <2> QED BY <1>1, <2>8, <2>9
<1>2. IInv /\ [Next]_allvars =>
        [\A c \in Clients : pcW'[c] = "start" => pcW[c] \in {"none", "start"}]_allvars
  BY <1>1
<1> QED BY <1>2, Inductive, PTL DEF Spec, SpawnedOnce

-----------------------------------------------------------------------------
(* The refinement: each step is a step of CalcService, or none.             *)

\* Nobody winds up unless a client asked for it, and the line a thread is about
\* to act on is of the kind that ReadLine found.
Asked ==
  /\ calc = "destroyed" \/ pcM \in {"testcnt", "destroy", "return"} => shutdown
  /\ \A c \in Clients : pcW[c] = "flag" => req[c].cmd = "shutdown"
  /\ \A c \in Clients : pcW[c] = "eval" => req[c].cmd = "eval"

\* Nothing is asked at first.
LEMMA InitAsked == Init => Asked
BY DEF Init, Asked

\* A thread that goes elsewhere than to its line.
LEMMA ThreadAsked ==
  ASSUME IInv, Asked, NEW c \in Clients, NEW q \in ThreadPoints \ {"flag", "eval"},
         pcW' = [pcW EXCEPT ![c] = q], UNCHANGED <<mainvars, calc>>,
         shutdown' \in {shutdown, TRUE},
         \A x \in Clients : x # c => req'[x] = req[x]
  PROVE  Asked'
<1>1. \A x \in Clients : pcW'[x] = IF x = c THEN q ELSE pcW[x]
  BY DEF IInv, TypeOK
<1> QED BY <1>1 DEF Asked, mainvars

\* The line that rio_readlineb gives is the first that has arrived; what it is
\* decides where the thread goes.
LEMMA ReadLineFacts ==
  ASSUME IInv, NEW c \in Clients, ReadLine(c)
  PROVE  /\ Running /\ pcW[c] = "read"
         /\ inbox[c] \in Seq(Request) /\ inbox[c] # <<>> /\ Head(inbox[c]) \in Request
         /\ inbox' = [inbox EXCEPT ![c] = Tail(@)]
         /\ req' = [req EXCEPT ![c] = Head(inbox[c])]
         /\ \E q \in {"close", "flag", "eval"} :
              /\ pcW' = [pcW EXCEPT ![c] = q]
              /\ q = "flag" => Head(inbox[c]).cmd = "shutdown"
              /\ q = "eval" => Head(inbox[c]).cmd = "eval"
<1>1. Running /\ pcW[c] = "read"
  BY DEF ReadLine, WorkerAt
<1>2. Socket(c) = c
  BY <1>1, SocketRight DEF UsesSocket
<1>3. inbox[c] \in Seq(Request) /\ inbox[c] # <<>>
  BY <1>2 DEF ReadLine, IInv, TypeOK
<1>4. Head(inbox[c]) \in Request
  BY <1>3, HeadTailProperties
<1>5. inbox' = [inbox EXCEPT ![c] = Tail(@)] /\ req' = [req EXCEPT ![c] = Head(inbox[c])]
  BY <1>2 DEF ReadLine
<1>6. Head(inbox[c]).cmd \in {"quit", "shutdown", "eval"}
  BY <1>4 DEF Request
<1>7. pcW' = [pcW EXCEPT ![c] = CASE Head(inbox[c]).cmd = "quit" -> "close"
                                  [] Head(inbox[c]).cmd = "shutdown" -> "flag"
                                  [] Head(inbox[c]).cmd = "eval" -> "eval"]
  BY <1>2 DEF ReadLine, GoTo
<1>8. \E q \in {"close", "flag", "eval"} :
        /\ pcW' = [pcW EXCEPT ![c] = q]
        /\ q = "flag" => Head(inbox[c]).cmd = "shutdown"
        /\ q = "eval" => Head(inbox[c]).cmd = "eval"
  BY <1>6, <1>7
<1> QED BY <1>1, <1>3, <1>4, <1>5, <1>8

\* No step of a thread forgets who has asked for what.
LEMMA WorkerAsked == ASSUME IInv, Asked, NEW c \in Clients, Worker(c) PROVE Asked'
<1> USE DEF WorkerAt, GoTo, ThreadPoints, OnlyThread, calcvars
<1>1. CASE Start(c) \/ Post(c)
  BY <1>1, ThreadAsked DEF Start, Post
<1>2. CASE LoadCnt(c) \/ StoreCnt(c)
  <2>1. PICK q \in {"inc2", "dec2", "read", "post"} : pcW' = [pcW EXCEPT ![c] = q]
    BY <1>2 DEF LoadCnt, StoreCnt
  <2> QED BY <1>2, <2>1, ThreadAsked DEF LoadCnt, StoreCnt, globals
<1>3. CASE ReadLine(c)
  <2>1. PICK q \in {"close", "flag", "eval"} :
          /\ pcW' = [pcW EXCEPT ![c] = q]
          /\ q = "flag" => Head(inbox[c]).cmd = "shutdown"
          /\ q = "eval" => Head(inbox[c]).cmd = "eval"
    BY <1>3, ReadLineFacts
  <2>2. req' = [req EXCEPT ![c] = Head(inbox[c])]
    BY <1>3, ReadLineFacts
  <2>3. \A x \in Clients : /\ pcW'[x] = IF x = c THEN q ELSE pcW[x]
                           /\ req'[x] = IF x = c THEN Head(inbox[c]) ELSE req[x]
    BY <2>1, <2>2 DEF IInv, TypeOK
  <2>4. UNCHANGED <<pcM, calc, shutdown>>
    BY <1>3 DEF ReadLine, mainvars, globals
  <2> QED BY <2>1, <2>3, <2>4 DEF Asked
<1>4. CASE ReadEnd(c) \/ Reply(c)
  BY <1>4, ThreadAsked DEF ReadEnd, Reply, globals
<1>5. CASE Evaluate(c) \/ Flag(c)
  <2>1. \A x \in Clients : x # c => req'[x] = req[x]
    BY <1>5 DEF Evaluate, Flag, IInv, TypeOK
  <2> QED BY <1>5, <2>1, ThreadAsked DEF Evaluate, Flag, globals
<1>6. CASE Close(c) \/ FreeInfo(c)
  BY <1>6, ThreadAsked DEF Close, FreeInfo, globals
<1>7. CASE EvaluateAborts(c) \/ ReplyKills(c)
  BY <1>7 DEF EvaluateAborts, ReplyKills, EndProcess, Asked, mainvars, globals, threadvars
<1> QED BY <1>1, <1>2, <1>3, <1>4, <1>5, <1>6, <1>7 DEF Worker

\* Nor does a step of main.
LEMMA MainAsked == ASSUME IInv, Asked, Main PROVE Asked'
<1> USE DEF MainAt, OnlyMain, Asked, globals, calcvars, threadvars
<1>1. CASE TestShutdown \/ TestCnt \/ Select \/ DecideAccept
  BY <1>1 DEF TestShutdown, TestCnt, Select, DecideAccept
<1>2. CASE AcceptClient \/ Clear \/ ScanDone \/ Destroy
  BY <1>2 DEF AcceptClient, Clear, ScanDone, Destroy
<1>3. CASE Spawn
  <2>1. pcW' = [pcW EXCEPT ![table[NextFd]] = "start"] /\ table[NextFd] \in Clients
    BY <1>3, NextRight DEF Spawn
  <2>2. \A x \in Clients : pcW'[x] \in {"start", pcW[x]}
    BY <2>1 DEF IInv, TypeOK
  <2> QED BY <1>3, <2>2 DEF Spawn
<1>4. CASE SelectFails \/ AcceptFails \/ SpawnFails \/ Exit
  BY <1>4 DEF SelectFails, AcceptFails, SpawnFails, Exit, EndProcess, mainvars
<1> QED BY <1>1, <1>2, <1>3, <1>4 DEF Main

\* Nor does any step.
LEMMA AskedStep == IInv /\ Asked /\ [Next]_allvars => Asked'
<1> SUFFICES ASSUME IInv, Asked, [Next]_allvars PROVE Asked'
  OBVIOUS
<1>1. ASSUME NEW c \in Clients, Client(c) PROVE Asked'
  BY <1>1 DEF Client, Connect, Send, HangUp, OnlyClient, Asked, mainvars, globals,
              threadvars, calcvars
<1>2. CASE UNCHANGED allvars
  BY <1>2 DEF allvars, Asked, mainvars, globals, threadvars, calcvars
<1> QED BY <1>1, <1>2, MainAsked, WorkerAsked DEF Next

-----------------------------------------------------------------------------
\* The service's evaluator is the evaluator.
LEMMA SameEval ==
  /\ Service!No = No /\ Service!EmptyStore = EmptyStore /\ Service!Outcome = Outcome
  /\ \A s, e : Service!EvalExpr(s, e) = EvalExpr(s, e)
<1>1. /\ Service!No = No /\ Service!Abort = Abort /\ Service!EmptyStore = EmptyStore
      /\ Service!Dash = Dash /\ (\A v : Service!Ok(v) = Ok(v))
      /\ \A s : Service!Op(s) = Op(s)
  BY DEF No, Abort, EmptyStore, Dash, Ok, Op,
         Service!No, Service!Abort, Service!EmptyStore, Service!Dash, Service!Ok, Service!Op
<1>2. \A s, tok : Service!GetVal(s, tok) = GetVal(s, tok)
  BY <1>1 DEF GetVal, IsAlphabetic, IsNumeric, Stoi,
              Service!GetVal, Service!IsAlphabetic, Service!IsNumeric, Service!Stoi
<1>3. \A x : Service!Wrap(x) = Wrap(x)
  BY DEF Wrap, Service!Wrap
<1>4. \A l, r : Service!Divide(l, r) = Divide(l, r)
  BY <1>1 DEF Divide, Quotient, AbsVal, Overflows,
              Service!Divide, Service!Quotient, Service!AbsVal, Service!Overflows
<1>5. \A l, op, r : Service!EvalOp(l, op, r) = EvalOp(l, op, r)
  BY <1>1, <1>3, <1>4 DEF EvalOp, Service!EvalOp
<1>6. \A s, e : Service!EvalOpr(s, e) = EvalOpr(s, e)
  BY <1>1, <1>2, <1>5 DEF EvalOpr, SecondOperand, IsBinary,
                          Service!EvalOpr, Service!SecondOperand, Service!IsBinary
<1>7. \A s, e : Service!EvalExpr(s, e) = EvalExpr(s, e)
  BY <1>1, <1>6 DEF EvalExpr, IsAssignment, IsAlphabetic, Rest, Put,
                    Service!EvalExpr, Service!IsAssignment, Service!IsAlphabetic, Service!Rest,
                    Service!Put
<1>8. Service!Outcome = Outcome
  BY DEF Outcome, CInt, Service!Outcome, Service!CInt
<1> QED BY <1>1, <1>7, <1>8

\* A sequence behind its first element.
LEMMA ConsFacts ==
  ASSUME NEW S, NEW r \in S, NEW s \in Seq(S)
  PROVE  <<r>> \o s # <<>> /\ Head(<<r>> \o s) = r /\ Tail(<<r>> \o s) = s
<1> DEFINE w == <<r>> \o s
<1>1. <<r>> \in Seq(S) /\ Len(<<r>>) = 1 /\ <<r>>[1] = r /\ Len(s) \in Nat
  OBVIOUS
<1>2. /\ w \in Seq(S) /\ Len(w) = 1 + Len(s)
      /\ \A i \in 1 .. 1 + Len(s) : w[i] = IF i <= 1 THEN <<r>>[i] ELSE s[i - 1]
  BY <1>1, ConcatProperties
<1> HIDE DEF w
<1>3. w # <<>>
  BY <1>1, <1>2
<1>4. Head(w) = r
  BY <1>1, <1>2
<1>5. /\ Tail(w) \in Seq(S) /\ Len(Tail(w)) = Len(s)
      /\ \A i \in 1 .. Len(Tail(w)) : Tail(w)[i] = s[i]
  <2>1. /\ Tail(w) \in Seq(S) /\ Len(Tail(w)) = Len(w) - 1
        /\ \A i \in 1 .. Len(Tail(w)) : Tail(w)[i] = w[i + 1]
    BY <1>2, <1>3, HeadTailProperties
  <2> QED BY <2>1, <1>1, <1>2
<1>6. Tail(w) = s
  BY <1>5, SeqEqual
<1> QED BY <1>3, <1>4, <1>6 DEF w

\* What is appended behind a first element is appended to the rest.
LEMMA ConsAppend ==
  ASSUME NEW S, NEW r \in S, NEW s \in Seq(S), NEW x \in S
  PROVE  Append(<<r>> \o s, x) = <<r>> \o Append(s, x)
<1>1. <<r>> \in Seq(S) /\ <<x>> \in Seq(S)
  OBVIOUS
<1>2. <<r>> \o s \in Seq(S)
  BY <1>1, ConcatProperties
<1>3. Append(<<r>> \o s, x) = (<<r>> \o s) \o <<x>> /\ Append(s, x) = s \o <<x>>
  BY <1>2, AppendIsConcat
<1>4. (<<r>> \o s) \o <<x>> = <<r>> \o (s \o <<x>>)
  BY <1>1, ConcatAssociative
<1> QED BY <1>3, <1>4

\* What CalcService sees of a client's lines.
Waiting(c) == IF SessionOn(c) THEN Taken(c) \o inbox[c] ELSE <<>>

\* The line being worked on comes first.
LEMMA WaitingFacts ==
  ASSUME IInv, NEW c \in Clients
  PROVE  /\ inbox[c] \in Seq(Request) /\ req[c] \in Request
         /\ pcW[c] \in {"none", "start", "inc", "inc2", "read", "reply"} => Waiting(c) = inbox[c]
         /\ pcW[c] \in {"eval", "flag"} =>
              /\ Waiting(c) # <<>> /\ Head(Waiting(c)) = req[c] /\ Tail(Waiting(c)) = inbox[c]
         /\ pcW[c] \in {"close", "free", "dec", "dec2", "post", "done"} => Waiting(c) = <<>>
         /\ SessionOn(c) => \A r \in Requests :
              Append(Waiting(c), r) = Taken(c) \o Append(inbox[c], r)
<1>1. inbox[c] \in Seq(Request) /\ req[c] \in Request
  BY DEF IInv, TypeOK
<1>2. <<>> \o inbox[c] = inbox[c]
  BY <1>1, ConcatEmptySeq
<1>3. ASSUME NEW r \in Requests
      PROVE  <<>> \o Append(inbox[c], r) = Append(inbox[c], r)
  <2>1. Append(inbox[c], r) \in Seq(Request)
    BY <1>1, Constants, AppendProperties
  <2> QED BY <2>1, ConcatEmptySeq
<1>4. /\ <<req[c]>> \o inbox[c] # <<>> /\ Head(<<req[c]>> \o inbox[c]) = req[c]
      /\ Tail(<<req[c]>> \o inbox[c]) = inbox[c]
  BY <1>1, ConsFacts
<1>5. ASSUME SessionOn(c), NEW r \in Requests
      PROVE  Append(Waiting(c), r) = Taken(c) \o Append(inbox[c], r)
  <2>1. r \in Request
    BY Constants
  <2>2. Append(<<req[c]>> \o inbox[c], r) = <<req[c]>> \o Append(inbox[c], r)
    BY <1>1, <2>1, ConsAppend
  <2> QED BY <1>2, <1>3, <1>5, <2>2 DEF Waiting, Taken
<1> QED BY <1>1, <1>2, <1>4, <1>5 DEF Waiting, Taken, SessionOn

\* Initially the service has done nothing.
LEMMA InitService == Init => Service!Init
<1> SUFFICES ASSUME Init PROVE Service!Init
  OBVIOUS
<1>1. \A c \in Clients : SessionOn(c) /\ Taken(c) \o inbox[c] = <<>>
  BY DEF Init, SessionOn, Taken
<1> QED BY <1>1, SameEval DEF Init, Service!Init, Running

\* A step of which the service sees nothing.
LEMMA Unseen ==
  ASSUME UNCHANGED <<vars, res, shutdown, calc, ended>>,
         \A x \in Clients : SessionOn(x)' = SessionOn(x) /\ Waiting(x)' = Waiting(x)
  PROVE  UNCHANGED Service!svars
BY DEF Service!svars, Waiting, Running

\* A thread moves on, and the session's line and those behind it stay.
LEMMA ThreadUnseen ==
  ASSUME IInv, NEW c \in Clients, NEW q \in ThreadPoints, pcW' = [pcW EXCEPT ![c] = q],
         UNCHANGED <<vars, res, shutdown, calc, ended>>,
         \A x \in Clients : x # c => req'[x] = req[x] /\ inbox'[x] = inbox[x],
         SessionOn(c)' = SessionOn(c), Waiting(c)' = Waiting(c)
  PROVE  UNCHANGED Service!svars
<1>1. \A x \in Clients : x # c => pcW'[x] = pcW[x]
  BY DEF IInv, TypeOK
<1>2. \A x \in Clients : SessionOn(x)' = SessionOn(x) /\ Waiting(x)' = Waiting(x)
  BY <1>1 DEF SessionOn, Waiting, Taken
<1> QED BY <1>2, Unseen

\* The state of the service after a step of one thread.
LEMMA ThreadSeen ==
  ASSUME IInv, NEW c \in Clients, NEW q \in ThreadPoints, pcW' = [pcW EXCEPT ![c] = q],
         \A x \in Clients : x # c => req'[x] = req[x] /\ inbox'[x] = inbox[x]
  PROVE  /\ [x \in Clients |-> Waiting(x)]' = [[x \in Clients |-> Waiting(x)] EXCEPT ![c] = Waiting(c)']
         /\ [x \in Clients |-> SessionOn(x)]' = [[x \in Clients |-> SessionOn(x)] EXCEPT ![c] = SessionOn(c)']
<1>1. \A x \in Clients : x # c => pcW'[x] = pcW[x]
  BY DEF IInv, TypeOK
<1>2. \A x \in Clients : x # c => SessionOn(x)' = SessionOn(x) /\ Waiting(x)' = Waiting(x)
  BY <1>1 DEF SessionOn, Waiting, Taken
<1> QED BY <1>2

\* A sequence is its first element and the rest.
LEMMA HeadAndRest ==
  ASSUME NEW S, NEW s \in Seq(S), s # <<>>
  PROVE  <<Head(s)>> \o Tail(s) = s
<1> DEFINE w == <<Head(s)>> \o Tail(s)
<1>1. /\ Head(s) \in S /\ Head(s) = s[1]
      /\ Tail(s) \in Seq(S) /\ Len(Tail(s)) = Len(s) - 1
      /\ \A i \in 1 .. Len(Tail(s)) : Tail(s)[i] = s[i + 1]
  BY HeadTailProperties
<1>2. /\ <<Head(s)>> \in Seq(S) /\ Len(<<Head(s)>>) = 1 /\ <<Head(s)>>[1] = s[1]
      /\ Len(s) \in Nat /\ Len(s) > 0
  BY <1>1
<1>3. /\ w \in Seq(S) /\ Len(w) = Len(s)
      /\ \A i \in 1 .. Len(s) : w[i] = IF i <= 1 THEN <<Head(s)>>[i] ELSE Tail(s)[i - 1]
  BY <1>1, <1>2, ConcatProperties
<1> HIDE DEF w
<1>4. \A i \in 1 .. Len(s) : w[i] = s[i]
  BY <1>1, <1>2, <1>3
<1>5. w = s
  BY <1>3, <1>4, SeqEqual
<1> QED BY <1>5 DEF w

\* What a step of the server may do to the state that CalcService sees.
Step == [Service!Next]_(Service!svars)

\* A session ends with the thread's step.
LEMMA SessionEnds ==
  ASSUME IInv, NEW c \in Clients, Running,
         pcW' = [pcW EXCEPT ![c] = "close"],
         UNCHANGED <<vars, res, shutdown, calc, ended>>,
         \A x \in Clients : x # c => req'[x] = req[x] /\ inbox'[x] = inbox[x]
  PROVE  Service!End(c)
<1>1. pcW'[c] = "close"
  BY DEF IInv, TypeOK
<1>2. Waiting(c)' = <<>> /\ SessionOn(c)' = FALSE
  BY <1>1 DEF Waiting, SessionOn
<1>3. "close" \in ThreadPoints
  BY DEF ThreadPoints
<1>4. /\ [x \in Clients |-> Waiting(x)]' = [[x \in Clients |-> Waiting(x)] EXCEPT ![c] = <<>>]
      /\ [x \in Clients |-> SessionOn(x)]' = [[x \in Clients |-> SessionOn(x)] EXCEPT ![c] = FALSE]
  BY <1>2, <1>3, ThreadSeen
<1> QED BY <1>4 DEF Service!End, Waiting, Running

\* rio_readlineb, with a line: quit ends the session, another line is taken
\* without anything to be seen.
LEMMA ReadLineRefines == ASSUME IInv, NEW c \in Clients, ReadLine(c) PROVE Step
<1> DEFINE r == Head(inbox[c])
<1>1. /\ Running /\ pcW[c] = "read"
      /\ inbox[c] \in Seq(Request) /\ inbox[c] # <<>> /\ r \in Request
      /\ inbox' = [inbox EXCEPT ![c] = Tail(@)]
      /\ req' = [req EXCEPT ![c] = r]
  BY ReadLineFacts
<1>2. PICK q \in {"close", "flag", "eval"} : pcW' = [pcW EXCEPT ![c] = q]
  BY ReadLineFacts
<1>3. UNCHANGED <<vars, res, shutdown, calc, ended>>
  BY DEF ReadLine, calcvars, globals
<1>4. \A x \in Clients : /\ pcW'[x] = IF x = c THEN q ELSE pcW[x]
                         /\ req'[x] = IF x = c THEN r ELSE req[x]
                         /\ inbox'[x] = IF x = c THEN Tail(inbox[c]) ELSE inbox[x]
  BY <1>1, <1>2 DEF IInv, TypeOK
<1>5. CASE q = "close"
  <2>1. Service!End(c)
    BY <1>1, <1>2, <1>3, <1>4, <1>5, SessionEnds
  <2> QED BY <2>1 DEF Step, Service!Next
<1>6. CASE q \in {"flag", "eval"}
  <2>1. <<r>> \o Tail(inbox[c]) = inbox[c]
    BY <1>1, HeadAndRest
  <2>2. Waiting(c)' = inbox[c] /\ SessionOn(c)'
    BY <1>4, <1>6, <2>1 DEF Waiting, SessionOn, Taken
  <2>3. Waiting(c) = inbox[c] /\ SessionOn(c)
    BY <1>1, WaitingFacts DEF SessionOn
  <2>4. q \in ThreadPoints /\ SessionOn(c)' = SessionOn(c) /\ Waiting(c)' = Waiting(c)
    BY <2>2, <2>3 DEF ThreadPoints, SessionOn
  <2>5. UNCHANGED Service!svars
    BY <1>2, <1>3, <1>4, <2>4, ThreadUnseen
  <2> QED BY <2>5 DEF Step
<1> QED BY <1>2, <1>5, <1>6

\* rio_readlineb, at the end of input
LEMMA ReadEndRefines == ASSUME IInv, NEW c \in Clients, ReadEnd(c) PROVE Step
<1>1. /\ Running /\ pcW' = [pcW EXCEPT ![c] = "close"]
      /\ UNCHANGED <<vars, res, shutdown, calc, ended, req, inbox>>
  BY DEF ReadEnd, WorkerAt, GoTo, OnlyThread, globals, calcvars, netvars
<1>2. Service!End(c)
  BY <1>1, SessionEnds
<1> QED BY <1>2 DEF Step, Service!Next

\* The line that a thread works on is the first one waiting, and leaves with it.
LEMMA LineLeaves ==
  ASSUME IInv, NEW c \in Clients, pcW[c] = "eval", pcW' = [pcW EXCEPT ![c] = "reply"],
         req' = [req EXCEPT ![c] = Quit], inbox' = inbox
  PROVE  /\ Waiting(c) # <<>> /\ Head(Waiting(c)) = req[c] /\ SessionOn(c)
         /\ [x \in Clients |-> Waiting(x)]'
              = [[x \in Clients |-> Waiting(x)] EXCEPT ![c] = Tail(@)]
         /\ [x \in Clients |-> SessionOn(x)]' = [x \in Clients |-> SessionOn(x)]
<1>1. \A x \in Clients : x # c => req'[x] = req[x]
  BY DEF IInv, TypeOK
<1>2. /\ Waiting(c) # <<>> /\ Head(Waiting(c)) = req[c] /\ Tail(Waiting(c)) = inbox[c]
  BY WaitingFacts
<1>3. pcW'[c] = "reply" /\ <<>> \o inbox[c] = inbox[c]
  <2>1. inbox[c] \in Seq(Request)
    BY DEF IInv, TypeOK
  <2> QED BY <2>1, ConcatEmptySeq DEF IInv, TypeOK
<1>4. SessionOn(c)' = TRUE /\ SessionOn(c) = TRUE /\ Waiting(c)' = inbox[c]
  BY <1>3 DEF SessionOn, Waiting, Taken
<1>5. "reply" \in ThreadPoints
  BY DEF ThreadPoints
<1>6. /\ [x \in Clients |-> Waiting(x)]' = [[x \in Clients |-> Waiting(x)] EXCEPT ![c] = Waiting(c)']
      /\ [x \in Clients |-> SessionOn(x)]' = [[x \in Clients |-> SessionOn(x)] EXCEPT ![c] = SessionOn(c)']
  BY <1>1, <1>5, ThreadSeen
<1> QED BY <1>2, <1>4, <1>6

\* calc_eval: the answer to the first line, unless the calculator is gone.
LEMMA EvaluateRefines == ASSUME IInv, Asked, NEW c \in Clients, Evaluate(c) PROVE Step
<1>1. /\ Running /\ pcW[c] = "eval" /\ pcW' = [pcW EXCEPT ![c] = "reply"]
      /\ req' = [req EXCEPT ![c] = Quit]
      /\ UNCHANGED <<inbox, shutdown, calc, ended>>
  BY DEF Evaluate, WorkerAt, GoTo, globals, netvars
<1>2. req[c].cmd = "eval"
  BY <1>1 DEF Asked
<1>3. /\ Waiting(c) # <<>> /\ Head(Waiting(c)) = req[c] /\ SessionOn(c)
      /\ [x \in Clients |-> Waiting(x)]'
           = [[x \in Clients |-> Waiting(x)] EXCEPT ![c] = Tail(@)]
      /\ [x \in Clients |-> SessionOn(x)]' = [x \in Clients |-> SessionOn(x)]
  BY <1>1, LineLeaves
<1>4. Service!Pending(c)
  BY <1>1, <1>3 DEF Service!Pending, Waiting
<1>5. CASE calc = "live"
  <2>1. LET e == EvalExpr(vars, req[c].expr)
        IN  e.out.st # "abort" /\ res' = [res EXCEPT ![c] = e.out] /\ vars' = e.vars
    BY <1>5 DEF Evaluate
  <2>2. LET e == Service!EvalExpr(vars, Head(Waiting(c)).expr)
        IN  e.out.st # "abort" /\ res' = [res EXCEPT ![c] = e.out] /\ vars' = e.vars
    BY <1>3, <2>1, SameEval
  <2>3. Service!Answer(c)
    BY <1>1, <1>2, <1>3, <1>4, <1>5, <2>2 DEF Service!Answer, Waiting, Running
  <2> QED BY <2>3 DEF Step, Service!Next
<1>6. CASE calc = "destroyed"
  <2>1. (\E o \in {No} \cup {Ok(v) : v \in CInt} : res' = [res EXCEPT ![c] = o]) /\ vars' = vars
    BY <1>6 DEF Evaluate
  <2>2. \E o \in Service!Outcome : res' = [res EXCEPT ![c] = o]
    BY <2>1, SameEval, Literals
  <2>3. Service!AnswerAfterEnd(c)
    BY <1>1, <1>3, <1>4, <1>6, <2>1, <2>2 DEF Service!AnswerAfterEnd, Waiting, Running
  <2> QED BY <2>3 DEF Step, Service!Next
<1> QED BY <1>5, <1>6 DEF IInv, TypeOK

\* rio_writen
LEMMA ReplyRefines == ASSUME IInv, NEW c \in Clients, Reply(c) PROVE Step
<1>1. /\ Running /\ pcW[c] = "reply" /\ pcW' = [pcW EXCEPT ![c] = "read"]
      /\ res' = [res EXCEPT ![c] = No]
      /\ UNCHANGED <<vars, inbox, req, shutdown, calc, ended>>
  BY DEF Reply, WorkerAt, GoTo, globals, calcvars
<1>2. pcW'[c] = "read"
  BY <1>1 DEF IInv, TypeOK
<1>3. SessionOn(c)' = SessionOn(c) /\ Waiting(c)' = Waiting(c)
  BY <1>1, <1>2 DEF SessionOn, Waiting, Taken
<1>4. "read" \in ThreadPoints
  BY DEF ThreadPoints
<1>5. /\ [x \in Clients |-> Waiting(x)]' = [[x \in Clients |-> Waiting(x)] EXCEPT ![c] = Waiting(c)']
      /\ [x \in Clients |-> SessionOn(x)]' = [[x \in Clients |-> SessionOn(x)] EXCEPT ![c] = SessionOn(c)']
  BY <1>1, <1>4, ThreadSeen
<1>6. /\ [x \in Clients |-> Waiting(x)]' = [x \in Clients |-> Waiting(x)]
      /\ [x \in Clients |-> SessionOn(x)]' = [x \in Clients |-> SessionOn(x)]
  BY <1>3, <1>5
<1>7. Service!Written(c)
  BY <1>1, <1>6, SameEval DEF Service!Written, Waiting, Running
<1> QED BY <1>7 DEF Step, Service!Next

\* shutdown_volatile = 1
LEMMA FlagRefines == ASSUME IInv, Asked, NEW c \in Clients, Flag(c) PROVE Step
<1>1. /\ Running /\ pcW[c] = "flag" /\ pcW' = [pcW EXCEPT ![c] = "close"]
      /\ req' = [req EXCEPT ![c] = Quit] /\ shutdown' = TRUE
      /\ UNCHANGED <<vars, res, inbox, calc, ended>>
  BY DEF Flag, WorkerAt, GoTo, OnlyThread, calcvars, netvars
<1>2. req[c].cmd = "shutdown"
  BY <1>1 DEF Asked
<1>3. Waiting(c) # <<>> /\ Head(Waiting(c)) = req[c]
  BY <1>1, WaitingFacts
<1>4. pcW'[c] = "close" /\ \A x \in Clients : x # c => req'[x] = req[x]
  BY <1>1 DEF IInv, TypeOK
<1>5. SessionOn(c) = TRUE /\ SessionOn(c)' = FALSE /\ Waiting(c)' = <<>>
  BY <1>1, <1>4 DEF SessionOn, Waiting
<1>6. "close" \in ThreadPoints
  BY DEF ThreadPoints
<1>7. /\ [x \in Clients |-> Waiting(x)]' = [[x \in Clients |-> Waiting(x)] EXCEPT ![c] = Waiting(c)']
      /\ [x \in Clients |-> SessionOn(x)]' = [[x \in Clients |-> SessionOn(x)] EXCEPT ![c] = SessionOn(c)']
  BY <1>1, <1>4, <1>6, ThreadSeen
<1>8. Service!Pending(c)
  BY <1>1, <1>3, <1>5 DEF Service!Pending, Waiting
<1>9. Service!Stop(c)
  BY <1>1, <1>2, <1>3, <1>5, <1>7, <1>8 DEF Service!Stop, Waiting, Running
<1> QED BY <1>9 DEF Step, Service!Next

\* The process ends.
LEMMA EndRefines ==
  ASSUME NEW how \in {"normal", "failed", "killed"}, Running, EndProcess(how)
  PROVE  Step
<1>1. /\ ~Running' 
      /\ UNCHANGED <<vars, res, shutdown, calc, pcW, req, inbox>>
  BY DEF EndProcess, Running, globals, threadvars, calcvars, netvars
<1>2. \A x \in Clients : SessionOn(x)' = SessionOn(x) /\ Waiting(x)' = Waiting(x)
  BY <1>1 DEF SessionOn, Waiting, Taken
<1>3. Service!Fail
  BY <1>1, <1>2 DEF Service!Fail, Waiting
<1> QED BY <1>3 DEF Step, Service!Next

\* Every step of a thread is a step of the service, or changes nothing that it shows.
LEMMA WorkerRefines == ASSUME IInv, Asked, NEW c \in Clients, Worker(c) PROVE Step
<1> USE DEF WorkerAt, GoTo, ThreadPoints, OnlyThread, calcvars, netvars, globals
<1>1. ASSUME NEW q \in {"inc", "inc2", "read", "dec2", "post", "done", "dec"},
             pcW' = [pcW EXCEPT ![c] = q],
             UNCHANGED <<vars, res, shutdown, calc, ended, req, inbox>>,
             \/ pcW[c] \in {"start", "inc", "inc2"} /\ q \in {"inc", "inc2", "read"}
             \/ pcW[c] \in {"free", "dec", "dec2", "post"} /\ q \in {"dec", "dec2", "post", "done"}
      PROVE  Step
  <2>1. pcW'[c] = q
    BY <1>1 DEF IInv, TypeOK
  <2>2. SessionOn(c)' = SessionOn(c) /\ Waiting(c)' = Waiting(c)
    BY <1>1, <2>1 DEF SessionOn, Waiting, Taken
  <2>3. UNCHANGED Service!svars
    BY <1>1, <2>2, ThreadUnseen
  <2> QED BY <2>3 DEF Step
<1>2. CASE Start(c)
  BY <1>1, <1>2 DEF Start
<1>3. CASE LoadCnt(c)
  BY <1>1, <1>3 DEF LoadCnt
<1>4. CASE StoreCnt(c)
  BY <1>1, <1>4 DEF StoreCnt
<1>5. CASE Post(c)
  BY <1>1, <1>5 DEF Post
<1>6. CASE FreeInfo(c)
  BY <1>1, <1>6 DEF FreeInfo
<1>7. CASE Close(c)
  <2>1. pcW[c] = "close" /\ pcW' = [pcW EXCEPT ![c] = "free"]
    BY <1>7 DEF Close
  <2>2. inbox' = [inbox EXCEPT ![c] = <<>>]
    BY <1>7, <2>1, SocketRight DEF Close, UsesSocket
  <2>3. pcW'[c] = "free" /\ \A x \in Clients : x # c => inbox'[x] = inbox[x]
    BY <2>1, <2>2 DEF IInv, TypeOK
  <2>4. SessionOn(c)' = SessionOn(c) /\ Waiting(c)' = Waiting(c)
    BY <2>1, <2>3 DEF SessionOn, Waiting
  <2>5. UNCHANGED <<vars, res, shutdown, calc, ended, req>>
    BY <1>7 DEF Close
  <2>6. UNCHANGED Service!svars
    BY <2>1, <2>3, <2>4, <2>5, ThreadUnseen
  <2> QED BY <2>6 DEF Step
<1>8. CASE EvaluateAborts(c) \/ ReplyKills(c)
  BY <1>8, EndRefines DEF EvaluateAborts, ReplyKills
<1> QED BY <1>2, <1>3, <1>4, <1>5, <1>6, <1>7, <1>8,
           ReadLineRefines, ReadEndRefines, EvaluateRefines, ReplyRefines, FlagRefines DEF Worker

\* A line sent while the session is on waits behind the others; one sent to a
\* session that is over is never looked at.
LEMMA ClientRefines == ASSUME IInv, NEW c \in Clients, Client(c) PROVE Step
<1>1. CASE Connect(c) \/ HangUp(c)
  <2>1. UNCHANGED <<vars, res, shutdown, calc, ended, pcW, req, inbox>>
    BY <1>1 DEF Connect, HangUp, OnlyClient, globals, threadvars, calcvars
  <2>2. \A x \in Clients : SessionOn(x)' = SessionOn(x) /\ Waiting(x)' = Waiting(x)
    BY <2>1 DEF SessionOn, Waiting, Taken
  <2>3. UNCHANGED Service!svars
    BY <2>1, <2>2, Unseen
  <2> QED BY <2>3 DEF Step
<1>2. ASSUME NEW r \in Requests, Send(c, r) PROVE Step
  <2>1. /\ UNCHANGED <<vars, res, shutdown, calc, ended, pcW, req>>
        /\ inbox' = [inbox EXCEPT ![c] = Append(@, r)]
    BY <1>2 DEF Send, OnlyClient, globals, threadvars, calcvars
  <2>2. \A x \in Clients : inbox'[x] = IF x = c THEN Append(inbox[c], r) ELSE inbox[x]
    BY <2>1 DEF IInv, TypeOK
  <2>3. \A x \in Clients : SessionOn(x)' = SessionOn(x)
    BY <2>1 DEF SessionOn
  <2>4. CASE ~SessionOn(c)
    <3>1. \A x \in Clients : Waiting(x)' = Waiting(x)
      BY <2>1, <2>2, <2>3, <2>4 DEF Waiting, Taken
    <3>2. UNCHANGED Service!svars
      BY <2>1, <2>3, <3>1, Unseen
    <3> QED BY <3>2 DEF Step
  <2>5. CASE SessionOn(c)
    <3>1. Append(Waiting(c), r) = Taken(c) \o Append(inbox[c], r)
      BY <2>5, WaitingFacts
    <3>2. Waiting(c)' = Append(Waiting(c), r)
      BY <2>1, <2>2, <2>3, <2>5, <3>1 DEF Waiting, Taken
    <3>3. \A x \in Clients : x # c => Waiting(x)' = Waiting(x)
      BY <2>1, <2>2, <2>3 DEF Waiting, Taken
    <3>4. [x \in Clients |-> Waiting(x)]' = [[x \in Clients |-> Waiting(x)] EXCEPT ![c] = Append(@, r)]
      BY <3>2, <3>3
    <3>5. Service!Send(c, r)
      BY <2>1, <2>3, <2>5, <3>4 DEF Service!Send, Waiting, Running
    <3> QED BY <3>5 DEF Step, Service!Next
  <2> QED BY <2>4, <2>5
<1> QED BY <1>1, <1>2 DEF Client

\* The main thread shows itself only by destroying the calculator, which a
\* client must have asked for, and by ending the process.
LEMMA MainRefines == ASSUME IInv, Asked, Main PROVE Step
<1> USE DEF MainAt, OnlyMain, globals, calcvars, threadvars, netvars
<1>1. ASSUME UNCHANGED <<vars, res, shutdown, calc, ended, pcW, req, inbox>> PROVE Step
  <2>1. \A x \in Clients : SessionOn(x)' = SessionOn(x) /\ Waiting(x)' = Waiting(x)
    BY <1>1 DEF SessionOn, Waiting, Taken
  <2>2. UNCHANGED Service!svars
    BY <1>1, <2>1, Unseen
  <2> QED BY <2>2 DEF Step
<1>2. CASE TestShutdown \/ TestCnt \/ Select \/ DecideAccept \/ Clear \/ ScanDone
  BY <1>1, <1>2 DEF TestShutdown, TestCnt, Select, DecideAccept, Clear, ScanDone
<1>3. CASE AcceptClient
  BY <1>1, <1>3 DEF AcceptClient
<1>4. CASE Spawn
  <2>1. PICK c \in Clients : pcW[c] = "none" /\ pcW' = [pcW EXCEPT ![c] = "start"]
    BY <1>4, NextRight DEF Spawn
  <2>2. UNCHANGED <<vars, res, shutdown, calc, ended, req, inbox>>
    BY <1>4 DEF Spawn
  <2>3. pcW'[c] = "start" /\ "start" \in ThreadPoints
    BY <2>1 DEF IInv, TypeOK, ThreadPoints
  <2>4. SessionOn(c)' = SessionOn(c) /\ Waiting(c)' = Waiting(c)
    BY <2>1, <2>2, <2>3 DEF SessionOn, Waiting, Taken
  <2>5. UNCHANGED Service!svars
    BY <2>1, <2>2, <2>3, <2>4, ThreadUnseen
  <2> QED BY <2>5 DEF Step
<1>5. CASE Destroy
  <2>1. /\ Running /\ shutdown /\ calc' = "destroyed"
        /\ UNCHANGED <<vars, res, shutdown, ended, pcW, req, inbox>>
    BY <1>5 DEF Destroy, Asked
  <2>2. \A x \in Clients : SessionOn(x)' = SessionOn(x) /\ Waiting(x)' = Waiting(x)
    BY <2>1 DEF SessionOn, Waiting, Taken
  <2>3. Service!WindUp
    BY <2>1, <2>2 DEF Service!WindUp, Waiting, Running
  <2> QED BY <2>3 DEF Step, Service!Next
<1>6. CASE SelectFails \/ AcceptFails \/ SpawnFails \/ Exit
  BY <1>6, EndRefines DEF SelectFails, AcceptFails, SpawnFails, Exit
<1> QED BY <1>2, <1>3, <1>4, <1>5, <1>6 DEF Main

\* And so is every step of the server.
LEMMA StepRefines == IInv /\ Asked /\ [Next]_allvars => Step
<1> SUFFICES ASSUME IInv, Asked, [Next]_allvars PROVE Step
  OBVIOUS
<1>1. CASE UNCHANGED allvars
  <2>1. UNCHANGED <<vars, res, shutdown, calc, ended, pcW, req, inbox>>
    BY <1>1 DEF allvars, globals, threadvars, calcvars, netvars
  <2>2. \A x \in Clients : SessionOn(x)' = SessionOn(x) /\ Waiting(x)' = Waiting(x)
    BY <2>1 DEF SessionOn, Waiting, Taken
  <2>3. UNCHANGED Service!svars
    BY <2>1, <2>2, Unseen
  <2> QED BY <2>3 DEF Step
<1> QED BY <1>1, MainRefines, WorkerRefines, ClientRefines DEF Next

\* Whatever the clients send and whenever they hang up, in whatever order the
\* threads and the accept loop run, the server is a CalcService: a client's lines
\* are evaluated in their order, each once and as one step on the shared
\* variables, nothing is taken after quit or shutdown, and the calculator goes
\* only after a client has asked for it (calcServer.c:50-107, 111-184).
THEOREM ImplementsService == Spec => RefinesService
<1>1. Init => IInv /\ Asked
  BY InitInv, InitAsked
<1>2. IInv /\ Asked /\ [Next]_allvars => (IInv /\ Asked)'
  BY AskedStep, NextInv
<1> QED BY <1>1, <1>2, InitService, StepRefines, PTL DEF Spec, RefinesService, Service!Spec, Step
=============================================================================
