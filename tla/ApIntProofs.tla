---------------------------- MODULE ApIntProofs ----------------------------
(***************************************************************************)
(* Proofs about ApInt: what the variables hold, that each number keeps its *)
(* one representation, that the calls compute the integers of BigIntegers, *)
(* and that what they answer is right, for any width of a limb and         *)
(* numbers of any length.                                                  *)
(*                                                                         *)
(* The loops of apint.c go from the lowest limb, with a carry or a borrow; *)
(* what a number is worth is Horner's rule from the highest.  The proofs   *)
(* go by what the limbs from each place on are worth (Tops), with the      *)
(* carry out of the limbs below as one more.  Nothing here is by induction *)
(* over data: where a loop's fact goes from one place to the next, UpTo    *)
(* carries it to the end, for there is no first place where it fails       *)
(* (LeastNumber).                                                          *)
(***************************************************************************)
EXTENDS ApInt, SequenceTheorems, FiniteSetTheorems, FunctionTheorems, WellFoundedInduction, TLAPS

-----------------------------------------------------------------------------
(* Numbers.                                                                 *)

\* A set of numbers has a least one.
LEMMA LeastNumber ==
  ASSUME NEW S, S \subseteq Nat, S # {}
  PROVE  \E x \in S : \A y \in S : x <= y
<1> DEFINE Less == {ss \in Nat \X Nat : ss[1] < ss[2]}
<1>1. IsWellFoundedOn(Less, Nat)
  <2>1. OpToRel(<, Nat) = Less
    BY Zenon DEF OpToRel
  <2> QED BY <2>1, NatLessThanWellFounded, Zenon
<1>2. PICK x \in S : \A y \in S : <<y, x>> \notin Less
  <2> HIDE DEF Less
  <2> QED BY <1>1, WFMin
<1>3. ASSUME NEW y \in S PROVE x <= y
  <2>1. ~ (y < x)
    <3>1. SUFFICES ASSUME y < x PROVE <<y, x>> \in Less
      BY <1>2
    <3>2. <<y, x>> \in Nat \X Nat /\ <<y, x>>[1] < <<y, x>>[2]
      BY <3>1
    <3> QED BY <3>2, Zenon
  <2> QED BY <2>1
<1> QED BY <1>3

\* What holds of 0 and goes from each number to the next holds up to any number.
LEMMA UpTo ==
  ASSUME NEW n \in Nat, NEW S, 0 \in S, \A i \in 1 .. n : i - 1 \in S => i \in S
  PROVE  0 .. n \subseteq S
<1> DEFINE Bad == {i \in 0 .. n : i \notin S}
<1>1. SUFFICES ASSUME Bad # {} PROVE FALSE
  OBVIOUS
<1>2. Bad \subseteq Nat
  OBVIOUS
<1>3. PICK k \in Bad : \A m \in Bad : k <= m
  <2> HIDE DEF Bad
  <2> QED BY <1>1, <1>2, LeastNumber
<1>4. k \in 0 .. n /\ k \notin S /\ k # 0
  OBVIOUS
<1>5. k \in 1 .. n /\ k - 1 \in 0 .. n /\ ~(k <= k - 1)
  BY <1>4
<1>6. k - 1 \notin Bad
  <2> HIDE DEF Bad
  <2> QED BY <1>3, <1>5, Zenon
<1> QED BY <1>4, <1>5, <1>6

\* A factor keeps the order.
LEMMA TimesKeeps ==
  ASSUME NEW x \in Int, NEW y \in Int, NEW n \in Nat, x <= y
  PROVE  n * x <= n * y
OBVIOUS

\* Quotient and remainder
LEMMA Division ==
  ASSUME NEW k \in Int, NEW n \in Nat \ {0}
  PROVE  k \div n \in Int /\ k % n \in 0 .. n - 1 /\ k = n * (k \div n) + (k % n)
OBVIOUS

\* which are the only ones.
LEMMA DivisionOnly ==
  ASSUME NEW w \in Nat, NEW x1 \in 0 .. w - 1, NEW x2 \in 0 .. w - 1,
         NEW y1 \in Int, NEW y2 \in Int, w * y1 + x1 = w * y2 + x2
  PROVE  x1 = x2 /\ y1 = y2
<1>1. ASSUME NEW a \in Int, NEW b \in Int, a < b PROVE w * a + w <= w * b
  <2>1. w * (a + 1) <= w * b
    BY <1>1, TimesKeeps
  <2> QED BY <2>1
<1>2. w * y1 \in Int /\ w * y2 \in Int
  OBVIOUS
<1>3. ~(y1 < y2) /\ ~(y2 < y1)
  BY <1>1, <1>2
<1> QED BY <1>3

\* Quotient and remainder are those that Division names.
LEMMA QuotientIs ==
  ASSUME NEW n \in Nat \ {0}, NEW q \in Int, NEW s \in 0 .. n - 1, NEW x, x = n * q + s
  PROVE  x \div n = q /\ x % n = s
<1>1. n * q \in Int /\ x \in Int
  OBVIOUS
<1>2. PICK d \in Int, m \in 0 .. n - 1 : d = x \div n /\ m = x % n /\ x = n * d + m
  BY <1>1, Division
<1>3. d = q /\ m = s
  BY <1>2, DivisionOnly
<1> QED BY <1>2, <1>3

\* A set of n elements has 2^n subsets.
LEMMA PowerIsCount ==
  ASSUME NEW n \in Nat, NEW S, IsFiniteSet(S), Cardinality(S) = n
  PROVE  IsFiniteSet(SUBSET S) /\ Cardinality(SUBSET S) = 2^n
BY FS_SUBSET

\* There is always the empty one.
LEMMA PowerPositive ==
  ASSUME NEW n \in Nat
  PROVE  2^n \in Nat \ {0}
<1>1. IsFiniteSet(1 .. n) /\ Cardinality(1 .. n) = n
  BY FS_Interval
<1>2. IsFiniteSet(SUBSET (1 .. n)) /\ Cardinality(SUBSET (1 .. n)) = 2^n
  BY <1>1, PowerIsCount
<1>3. Cardinality(SUBSET (1 .. n)) \in Nat
  BY <1>2, FS_CardinalityType
<1>4. Cardinality(SUBSET (1 .. n)) # 0
  BY <1>2, FS_EmptySet
<1> QED BY <1>2, <1>3, <1>4

\* A subset of a sum is one of each part.
LEMMA PowerSum ==
  ASSUME NEW m \in Nat, NEW n \in Nat
  PROVE  2^(m + n) = 2^m * 2^n
<1> DEFINE A == 1 .. m
           B == m + 1 .. m + n
           C == 1 .. m + n
           F == [p \in (SUBSET A) \X (SUBSET B) |-> p[1] \cup p[2]]
<1>1. /\ IsFiniteSet(A) /\ Cardinality(A) = m
      /\ IsFiniteSet(B) /\ Cardinality(B) = n
      /\ IsFiniteSet(C) /\ Cardinality(C) = m + n
  <2>1. 1 \in Int /\ m + 1 \in Int /\ m + n \in Int
    OBVIOUS
  <2>2. IsFiniteSet(A) /\ Cardinality(A) = m
    BY <2>1, FS_Interval
  <2>3. IsFiniteSet(B) /\ Cardinality(B) = n
    <3>1. /\ IsFiniteSet(m + 1 .. m + n)
          /\ Cardinality(m + 1 .. m + n) = IF m + 1 > m + n THEN 0 ELSE (m + n) - (m + 1) + 1
      BY <2>1, FS_Interval, Zenon
    <3>2. (IF m + 1 > m + n THEN 0 ELSE (m + n) - (m + 1) + 1) = n
      OBVIOUS
    <3> QED BY <3>1, <3>2
  <2>4. IsFiniteSet(C) /\ Cardinality(C) = m + n
    <3>1. /\ IsFiniteSet(1 .. m + n)
          /\ Cardinality(1 .. m + n) = IF 1 > m + n THEN 0 ELSE (m + n) - 1 + 1
      BY <2>1, FS_Interval, Zenon
    <3>2. (IF 1 > m + n THEN 0 ELSE (m + n) - 1 + 1) = m + n
      OBVIOUS
    <3> QED BY <3>1, <3>2
  <2> QED BY <2>2, <2>3, <2>4
<1>2. A \cap B = {} /\ A \cup B = C
  OBVIOUS
<1> HIDE DEF A, B, C
<1>3. F \in Bijection((SUBSET A) \X (SUBSET B), SUBSET C)
  <2>1. F \in [(SUBSET A) \X (SUBSET B) -> SUBSET C]
    BY <1>2
  <2>2. \A p, q \in (SUBSET A) \X (SUBSET B) : F[p] = F[q] => p = q
    <3>1. SUFFICES ASSUME NEW p \in (SUBSET A) \X (SUBSET B), NEW q \in (SUBSET A) \X (SUBSET B),
                          p[1] \cup p[2] = q[1] \cup q[2]
                   PROVE  p = q
      OBVIOUS
    <3>2. PICK a \in SUBSET A, b \in SUBSET B : p = <<a, b>>
      OBVIOUS
    <3>3. PICK c \in SUBSET A, d \in SUBSET B : q = <<c, d>>
      OBVIOUS
    <3>4. a \cup b = c \cup d
      BY <3>1, <3>2, <3>3
    <3>5. a = c /\ b = d
      BY <1>2, <3>4
    <3> QED BY <3>2, <3>3, <3>5
  <2>3. \A t \in SUBSET C : \E p \in (SUBSET A) \X (SUBSET B) : F[p] = t
    <3>1. TAKE t \in SUBSET C
    <3>2. <<t \cap A, t \cap B>> \in (SUBSET A) \X (SUBSET B)
      OBVIOUS
    <3>3. F[<<t \cap A, t \cap B>>] = t
      BY <1>2, <3>2
    <3> QED BY <3>2, <3>3
  <2> HIDE DEF F
  <2> QED BY <2>1, <2>2, <2>3, Fun_IsBij
<1>4. ExistsBijection((SUBSET A) \X (SUBSET B), SUBSET C)
  BY <1>3 DEF ExistsBijection
<1>5. /\ IsFiniteSet((SUBSET A) \X (SUBSET B))
      /\ Cardinality((SUBSET A) \X (SUBSET B)) = 2^m * 2^n
  <2>1. /\ IsFiniteSet(SUBSET A) /\ Cardinality(SUBSET A) = 2^m
        /\ IsFiniteSet(SUBSET B) /\ Cardinality(SUBSET B) = 2^n
    BY <1>1, PowerIsCount
  <2> QED BY ZenonT(30), <2>1, FS_Product
<1>6. Cardinality(SUBSET C) = Cardinality((SUBSET A) \X (SUBSET B))
  BY <1>4, <1>5, FS_Bijection
<1>7. Cardinality(SUBSET C) = 2^(m + n)
  <2>1. m + n \in Nat
    OBVIOUS
  <2> QED BY <1>1, <2>1, PowerIsCount
<1> QED BY <1>5, <1>6, <1>7

-----------------------------------------------------------------------------
(* Recursive functions on numbers, and numerals.                            *)

\* A function that starts with z and goes on by step.
Follows(g, n, z, step) == g[0] = z /\ \A i \in 1 .. n : g[i] = step[<<i, g[i - 1]>>]

\* There is one, whatever the step.
LEMMA RecursionExists ==
  ASSUME NEW n \in Nat, NEW V, NEW z \in V, NEW step \in [(1 .. n) \X V -> V]
  PROVE  \E g \in [0 .. n -> V] : Follows(g, n, z, step)
<1> DEFINE Ok(k) == \E g \in [0 .. k -> V] :
                      g = [i \in 0 .. k |-> IF i = 0 THEN z ELSE step[<<i, g[i - 1]>>]]
           S == {k \in 0 .. n : Ok(k)}
<1>1. Ok(0)
  <2> DEFINE g == [i \in 0 .. 0 |-> z]
  <2>1. g \in [0 .. 0 -> V]
    OBVIOUS
  <2>2. g = [i \in 0 .. 0 |-> IF i = 0 THEN z ELSE step[<<i, g[i - 1]>>]]
    OBVIOUS
  <2> QED BY <2>1, <2>2
<1>2. ASSUME NEW k \in 1 .. n, Ok(k - 1) PROVE Ok(k)
  <2>1. PICK g \in [0 .. k - 1 -> V] :
          g = [i \in 0 .. k - 1 |-> IF i = 0 THEN z ELSE step[<<i, g[i - 1]>>]]
    BY <1>2
  <2> DEFINE h == [i \in 0 .. k |-> IF i = 0 THEN z ELSE step[<<i, g[i - 1]>>]]
  <2>2. \A i \in 0 .. k - 1 : h[i] = g[i]
    <3>1. TAKE i \in 0 .. k - 1
    <3>2. i \in 0 .. k
      OBVIOUS
    <3>3. h[i] = IF i = 0 THEN z ELSE step[<<i, g[i - 1]>>]
      BY <3>2
    <3>4. g[i] = IF i = 0 THEN z ELSE step[<<i, g[i - 1]>>]
      BY <2>1
    <3> QED BY <3>3, <3>4
  <2>3. ASSUME NEW i \in 0 .. k PROVE h[i] \in V
    <3>1. CASE i = 0
      BY <3>1
    <3>2. CASE i # 0
      <4>1. i \in 1 .. n /\ i - 1 \in 0 .. k - 1
        BY <3>2
      <4>2. <<i, g[i - 1]>> \in (1 .. n) \X V
        BY <4>1
      <4>3. h[i] = step[<<i, g[i - 1]>>]
        BY <3>2
      <4> HIDE DEF h
      <4> QED BY <4>2, <4>3
    <3> QED BY <3>1, <3>2
  <2>4. h \in [0 .. k -> V]
    <3>1. h = [i \in 0 .. k |-> h[i]]
      OBVIOUS
    <3> HIDE DEF h
    <3> QED BY <2>3, <3>1
  <2>5. \A i \in 0 .. k : (IF i = 0 THEN z ELSE step[<<i, g[i - 1]>>])
                            = (IF i = 0 THEN z ELSE step[<<i, h[i - 1]>>])
    <3>1. TAKE i \in 0 .. k
    <3>2. CASE i = 0
      BY <3>2
    <3>3. CASE i # 0
      <4>1. i - 1 \in 0 .. k - 1
        BY <3>3
      <4>2. h[i - 1] = g[i - 1]
        BY <2>2, <4>1
      <4> HIDE DEF h
      <4> QED BY <3>3, <4>2
    <3> QED BY <3>2, <3>3
  <2>6. h = [i \in 0 .. k |-> IF i = 0 THEN z ELSE step[<<i, h[i - 1]>>]]
    BY <2>5, Zenon
  <2> HIDE DEF h
  <2> QED BY <2>4, <2>6
<1>3. 0 \in S /\ \A i \in 1 .. n : i - 1 \in S => i \in S
  <2> HIDE DEF Ok
  <2>1. 0 \in 0 .. n /\ \A i \in 1 .. n : i \in 0 .. n
    OBVIOUS
  <2> QED BY <1>1, <1>2, <2>1
<1>4. 0 .. n \subseteq S
  <2> HIDE DEF S
  <2> QED BY <1>3, UpTo
<1>5. n \in 0 .. n
  OBVIOUS
<1>6. Ok(n)
  <2> HIDE DEF Ok
  <2> QED BY <1>4, <1>5
<1>7. PICK g \in [0 .. n -> V] : g = [i \in 0 .. n |-> IF i = 0 THEN z ELSE step[<<i, g[i - 1]>>]]
  BY <1>6
<1>8. \A i \in 0 .. n : g[i] = IF i = 0 THEN z ELSE step[<<i, g[i - 1]>>]
  BY <1>7
<1>9. g[0] = z /\ \A i \in 1 .. n : g[i] = step[<<i, g[i - 1]>>]
  <2>1. 0 \in 0 .. n /\ \A i \in 1 .. n : i \in 0 .. n /\ i # 0
    OBVIOUS
  <2> QED BY <1>8, <2>1
<1> QED BY <1>9 DEF Follows

\* Horner's rule, step by step.
LEMMA NumeralSteps ==
  ASSUME NEW base \in Nat, NEW digits \in Seq(Nat)
  PROVE  \E g \in [0 .. Len(digits) -> Nat] :
           /\ g[0] = 0 /\ \A i \in 1 .. Len(digits) : g[i] = base * g[i - 1] + digits[i]
           /\ Numeral(base, digits) = g[Len(digits)]
<1> DEFINE n == Len(digits)
           Is(g) == g = [i \in 0 .. n |-> IF i = 0 THEN 0 ELSE base * g[i - 1] + digits[i]]
           value == CHOOSE g : Is(g)
           step == [p \in (1 .. n) \X Nat |-> base * p[2] + digits[p[1]]]
<1>1. n \in Nat /\ \A i \in 1 .. n : digits[i] \in Nat
  OBVIOUS
<1>2. step \in [(1 .. n) \X Nat -> Nat]
  <2>1. ASSUME NEW p \in (1 .. n) \X Nat PROVE base * p[2] + digits[p[1]] \in Nat
    <3>1. p[1] \in 1 .. n /\ p[2] \in Nat
      OBVIOUS
    <3>2. digits[p[1]] \in Nat /\ base * p[2] \in Nat
      BY <1>1, <3>1
    <3> QED BY <3>2
  <2> QED BY <2>1
<1>3. \A i \in 1 .. n, v \in Nat : step[<<i, v>>] = base * v + digits[i]
  <2>1. TAKE i \in 1 .. n, v \in Nat
  <2>2. <<i, v>> \in (1 .. n) \X Nat /\ <<i, v>>[1] = i /\ <<i, v>>[2] = v
    OBVIOUS
  <2> QED BY <2>2
<1> HIDE DEF step, n
<1>4. PICK g \in [0 .. n -> Nat] : g[0] = 0 /\ \A i \in 1 .. n : g[i] = step[<<i, g[i - 1]>>]
  <2>1. 0 \in Nat
    OBVIOUS
  <2>2. \E g \in [0 .. n -> Nat] : Follows(g, n, 0, step)
    BY <1>1, <1>2, <2>1, RecursionExists
  <2> QED BY <2>2 DEF Follows
<1>5. Is(g)
  <2>1. \A i \in 0 .. n : g[i] = (IF i = 0 THEN 0 ELSE base * g[i - 1] + digits[i])
    <3>1. TAKE i \in 0 .. n
    <3>2. CASE i = 0
      BY <1>4, <3>2
    <3>3. CASE i # 0
      <4>1. i \in 1 .. n /\ i - 1 \in 0 .. n
        BY <1>1, <3>3
      <4>2. g[i - 1] \in Nat
        BY <4>1
      <4> QED BY <1>3, <1>4, <3>3, <4>1, <4>2
    <3> QED BY <3>2, <3>3
  <2>2. g = [i \in 0 .. n |-> g[i]]
    OBVIOUS
  <2> QED BY <2>1, <2>2, Zenon
<1>6. Is(value)
  <2> HIDE DEF Is
  <2> QED BY <1>5, Zenon
<1>7. Numeral(base, digits) = value[n]
  BY Zenon DEF Numeral, n
<1> HIDE DEF value
<1>8. value[0] = 0 /\ \A i \in 1 .. n : value[i] = base * value[i - 1] + digits[i]
  <2>1. \A i \in 0 .. n : value[i] = IF i = 0 THEN 0 ELSE base * value[i - 1] + digits[i]
    BY <1>6
  <2>2. 0 \in 0 .. n /\ \A i \in 1 .. n : i \in 0 .. n /\ i # 0
    BY <1>1
  <2> QED BY <2>1, <2>2
<1>9. 0 .. n \subseteq {i \in 0 .. n : value[i] \in Nat}
  <2> DEFINE S == {i \in 0 .. n : value[i] \in Nat}
  <2>1. 0 \in S
    BY <1>1, <1>8
  <2>2. ASSUME NEW i \in 1 .. n, i - 1 \in S PROVE i \in S
    <3>1. value[i - 1] \in Nat /\ digits[i] \in Nat /\ i \in 0 .. n
      BY <1>1, <2>2
    <3>2. base * value[i - 1] + digits[i] \in Nat
      <4>1. PICK v \in Nat, d \in Nat : v = value[i - 1] /\ d = digits[i]
        BY <3>1
      <4>2. base * v \in Nat
        OBVIOUS
      <4>3. base * v + d \in Nat
        BY <4>2
      <4> QED BY <4>1, <4>3
    <3> QED BY <1>8, <3>1, <3>2
  <2> HIDE DEF S
  <2>3. 0 .. n \subseteq S
    BY <1>1, <2>1, <2>2, UpTo
  <2> QED BY <2>3 DEF S
<1>10. value \in [0 .. n -> Nat]
  <2>1. value = [i \in 0 .. n |-> value[i]]
    BY <1>6
  <2> QED BY <1>9, <2>1
<1> QED BY <1>7, <1>8, <1>10 DEF n

\* Whatever goes by its steps gives the same number.
LEMMA NumeralIs ==
  ASSUME NEW base \in Nat, NEW digits \in Seq(Nat), NEW g, g[0] = 0,
         \A i \in 1 .. Len(digits) : g[i] = base * g[i - 1] + digits[i]
  PROVE  \A k \in 0 .. Len(digits) : Numeral(base, SubSeq(digits, 1, k)) = g[k]
<1> DEFINE n == Len(digits)
<1>1. n \in Nat
  OBVIOUS
<1>2. SUFFICES ASSUME NEW k \in 0 .. n PROVE Numeral(base, SubSeq(digits, 1, k)) = g[k]
  OBVIOUS
<1> DEFINE first == SubSeq(digits, 1, k)
<1>3. first \in Seq(Nat) /\ Len(first) = k /\ \A i \in 1 .. k : first[i] = digits[i]
  OBVIOUS
<1> HIDE DEF first
<1>4. PICK f \in [0 .. k -> Nat] :
        /\ f[0] = 0 /\ \A i \in 1 .. k : f[i] = base * f[i - 1] + first[i]
        /\ Numeral(base, first) = f[k]
  BY <1>3, NumeralSteps
<1> DEFINE S == {i \in 0 .. k : f[i] = g[i]}
<1>5. 0 \in S
  BY <1>1, <1>4
<1>6. ASSUME NEW i \in 1 .. k, i - 1 \in S PROVE i \in S
  <2>1. f[i - 1] = g[i - 1] /\ i \in 1 .. n /\ i \in 0 .. k
    BY <1>1, <1>6
  <2>2. f[i] = base * f[i - 1] + digits[i]
    BY <1>3, <1>4
  <2>3. g[i] = base * g[i - 1] + digits[i]
    BY <2>1
  <2> QED BY <2>1, <2>2, <2>3
<1>7. k \in Nat /\ k \in 0 .. k
  BY <1>1
<1> HIDE DEF S
<1>8. 0 .. k \subseteq S
  BY <1>5, <1>6, <1>7, UpTo
<1>9. f[k] = g[k]
  BY <1>7, <1>8 DEF S
<1> QED BY <1>4, <1>9 DEF first

\* What digits stand for is a number.
LEMMA NumeralType ==
  ASSUME NEW base \in Nat, NEW digits \in Seq(Nat)
  PROVE  Numeral(base, digits) \in Nat
<1>1. PICK g \in [0 .. Len(digits) -> Nat] :
        /\ g[0] = 0 /\ \A i \in 1 .. Len(digits) : g[i] = base * g[i - 1] + digits[i]
        /\ Numeral(base, digits) = g[Len(digits)]
  BY NumeralSteps
<1> QED BY <1>1

\* and if it goes by them to the end, the number of them all.
LEMMA NumeralEnds ==
  ASSUME NEW base \in Nat, NEW digits \in Seq(Nat), NEW g, g[0] = 0,
         \A i \in 1 .. Len(digits) : g[i] = base * g[i - 1] + digits[i]
  PROVE  Numeral(base, digits) = g[Len(digits)]
<1>1. Len(digits) \in 0 .. Len(digits) /\ SubSeq(digits, 1, Len(digits)) = digits
  OBVIOUS
<1>2. \A k \in 0 .. Len(digits) : Numeral(base, SubSeq(digits, 1, k)) = g[k]
  BY NumeralIs
<1> QED BY <1>1, <1>2

\* No digits have one value.
LEMMA PowerZero == 2^0 = 1
<1>1. 0 \in Nat
  OBVIOUS
<1>2. IsFiniteSet({}) /\ Cardinality({}) = 0 /\ SUBSET {} = {{}}
  BY FS_EmptySet
<1>3. Cardinality(SUBSET {}) = 2^0
  BY <1>1, <1>2, PowerIsCount
<1>4. Cardinality({{}}) = 1
  BY FS_Singleton
<1> QED BY <1>2, <1>3, <1>4

\* One more digit's worth.
LEMMA PowerNext ==
  ASSUME NEW bits \in Nat, NEW k \in Nat
  PROVE  /\ 2^(bits * k) \in Nat \ {0} /\ 2^bits \in Nat \ {0}
         /\ bits * (k + 1) = bits + bits * k
         /\ 2^(bits * (k + 1)) = 2^bits * 2^(bits * k)
<1>1. bits * k \in Nat /\ bits * (k + 1) = bits + bits * k
  OBVIOUS
<1>2. 2^(bits + bits * k) = 2^bits * 2^(bits * k)
  BY <1>1, PowerSum
<1>3. 2^(bits * k) \in Nat \ {0} /\ 2^bits \in Nat \ {0}
  BY <1>1, PowerPositive
<1> QED BY <1>1, <1>2, <1>3

\* A number of n digits is below the base to the n.
LEMMA NumeralBelow ==
  ASSUME NEW bits \in Nat, NEW digits \in Seq(0 .. 2^bits - 1)
  PROVE  Numeral(2^bits, digits) < 2^(bits * Len(digits))
<1> DEFINE n == Len(digits)
           P(k) == 2^(bits * k)
<1>1. PICK B \in Nat \ {0} : B = 2^bits
  BY PowerPositive
<1>2. digits \in Seq(Nat) /\ n \in Nat /\ \A i \in 1 .. n : digits[i] \in 0 .. B - 1
  BY <1>1
<1> HIDE DEF n
<1>3. PICK g \in [0 .. n -> Nat] :
        /\ g[0] = 0 /\ \A i \in 1 .. n : g[i] = B * g[i - 1] + digits[i]
        /\ Numeral(B, digits) = g[n]
  BY <1>2, NumeralSteps DEF n
<1>4. \A k \in Nat : P(k) \in Nat \ {0} /\ P(k + 1) = B * P(k)
  BY <1>1, PowerNext
<1> DEFINE S == {k \in 0 .. n : g[k] < P(k)}
<1> HIDE DEF P
<1>5. 0 \in S
  BY <1>2, <1>3, <1>4
<1>6. ASSUME NEW k \in 1 .. n, k - 1 \in S PROVE k \in S
  <2>1. k - 1 \in Nat /\ (k - 1) + 1 = k /\ g[k - 1] < P(k - 1) /\ k \in 0 .. n
    BY <1>2, <1>6
  <2>2. PICK h \in Nat, p \in Nat, d \in 0 .. B - 1 : h = g[k - 1] /\ p = P(k - 1) /\ d = digits[k]
    <3>1. k - 1 \in 0 .. n
      BY <1>2
    <3> QED BY <1>2, <1>3, <1>4, <2>1, <3>1
  <2>3. h + 1 <= p
    BY <2>1, <2>2
  <2>4. B * (h + 1) <= B * p
    BY <2>3, TimesKeeps
  <2>5. B * h \in Nat /\ B * p \in Nat /\ B * (h + 1) = B * h + B
    OBVIOUS
  <2>6. B * h + d < B * p
    BY <2>4, <2>5
  <2>7. P(k) = B * p /\ g[k] = B * h + d
    BY <1>3, <1>4, <2>1, <2>2
  <2> QED BY <2>1, <2>6, <2>7
<1> HIDE DEF S
<1>7. 0 .. n \subseteq S
  BY <1>2, <1>5, <1>6, UpTo
<1>8. g[n] < P(n)
  BY <1>2, <1>7 DEF S
<1> QED BY <1>1, <1>3, <1>8 DEF P, n

\* Digits after digits.
LEMMA NumeralConcat ==
  ASSUME NEW bits \in Nat, NEW s \in Seq(Nat), NEW t \in Seq(Nat)
  PROVE  Numeral(2^bits, s \o t) = Numeral(2^bits, s) * 2^(bits * Len(t)) + Numeral(2^bits, t)
<1> DEFINE m == Len(s)
           n == Len(t)
           st == s \o t
           P(k) == 2^(bits * k)
<1>1. PICK B \in Nat \ {0} : B = 2^bits
  BY PowerPositive
<1>2. /\ m \in Nat /\ n \in Nat /\ st \in Seq(Nat) /\ Len(st) = m + n
      /\ \A i \in 1 .. m : st[i] = s[i] /\ s[i] \in Nat
      /\ \A i \in m + 1 .. m + n : st[i] = t[i - m] /\ t[i - m] \in Nat
  OBVIOUS
<1>3. PICK g \in [0 .. m -> Nat] :
        /\ g[0] = 0 /\ \A i \in 1 .. m : g[i] = B * g[i - 1] + s[i]
        /\ Numeral(B, s) = g[m]
  BY NumeralSteps
<1>4. PICK f \in [0 .. n -> Nat] :
        /\ f[0] = 0 /\ \A i \in 1 .. n : f[i] = B * f[i - 1] + t[i]
        /\ Numeral(B, t) = f[n]
  BY NumeralSteps
<1>5. \A k \in Nat : P(k) \in Nat \ {0} /\ P(k + 1) = B * P(k)
  BY <1>1, PowerNext
<1>6. P(0) = 1
  <2>1. bits * 0 = 0
    OBVIOUS
  <2> QED BY <2>1, PowerZero
<1> HIDE DEF m, n, st, P
<1>7. PICK h \in Nat : h = g[m]
  BY <1>2, <1>3
<1> DEFINE v == [i \in 0 .. m + n |-> IF i <= m THEN g[i] ELSE h * P(i - m) + f[i - m]]
<1>8. v[0] = 0 /\ v[m + n] = h * P(n) + f[n] /\ \A i \in 0 .. n : v[m + i] = h * P(i) + f[i]
  <2>1. v[0] = 0
    BY <1>2, <1>3
  <2>2. ASSUME NEW i \in 0 .. n PROVE v[m + i] = h * P(i) + f[i]
    <3>1. m + i \in 0 .. m + n /\ (m + i) - m = i
      BY <1>2
    <3>2. CASE i = 0
      BY <1>2, <1>4, <1>6, <1>7, <3>1, <3>2
    <3>3. CASE i # 0
      <4>1. ~(m + i <= m)
        BY <1>2, <3>3
      <4> QED BY <3>1, <4>1
    <3> QED BY <3>2, <3>3
  <2>3. n \in 0 .. n
    BY <1>2
  <2> HIDE DEF v
  <2> QED BY <2>1, <2>2, <2>3
<1>9. ASSUME NEW i \in 1 .. m + n PROVE v[i] = B * v[i - 1] + st[i]
  <2>1. CASE i <= m
    <3>1. i \in 0 .. m + n /\ i - 1 \in 0 .. m + n /\ i - 1 <= m /\ i \in 1 .. m
      BY <1>2, <2>1
    <3>2. v[i] = g[i] /\ v[i - 1] = g[i - 1]
      BY <2>1, <3>1
    <3> HIDE DEF v
    <3> QED BY <1>2, <1>3, <3>1, <3>2
  <2>2. CASE ~(i <= m)
    <3>1. PICK j \in 1 .. n : i = m + j
      <4>1. i - m \in 1 .. n /\ i = m + (i - m)
        BY <1>2, <2>2
      <4> QED BY <4>1
    <3>2. j \in 0 .. n /\ j - 1 \in 0 .. n /\ i - 1 = m + (j - 1) /\ i \in m + 1 .. m + n /\ i - m = j
          /\ j - 1 \in Nat /\ (j - 1) + 1 = j
      BY <1>2, <3>1
    <3> HIDE DEF v
    <3>3. v[i] = h * P(j) + f[j] /\ v[i - 1] = h * P(j - 1) + f[j - 1]
      BY <1>8, <3>1, <3>2
    <3>4. PICK p \in Nat, e \in Nat, d \in Nat : p = P(j - 1) /\ e = f[j - 1] /\ d = t[j]
      BY <1>2, <1>4, <1>5, <3>2
    <3>5. P(j) = B * p /\ f[j] = B * e + d /\ st[i] = d
      BY <1>2, <1>4, <1>5, <3>2, <3>4
    <3>6. v[i] = h * (B * p) + (B * e + d) /\ v[i - 1] = h * p + e
      BY <3>3, <3>4, <3>5
    <3>7. h * (B * p) + (B * e + d) = B * (h * p + e) + d
      <4>1. h * (B * p) = B * (h * p) /\ h * p \in Nat
        OBVIOUS
      <4>2. PICK w \in Nat : w = h * p
        BY <4>1
      <4>3. B * (w + e) = B * w + B * e /\ B * w \in Nat /\ B * e \in Nat
        OBVIOUS
      <4> QED BY <4>1, <4>2, <4>3
    <3> QED BY <3>5, <3>6, <3>7
  <2> QED BY <2>1, <2>2
<1> HIDE DEF v
<1>10. Numeral(B, st) = v[m + n]
  <2>1. v[0] = 0 /\ \A i \in 1 .. Len(st) : v[i] = B * v[i - 1] + st[i]
    BY <1>2, <1>8, <1>9
  <2>2. st \in Seq(Nat) /\ B \in Nat /\ Len(st) = m + n
    BY <1>2
  <2>3. Numeral(B, st) = v[Len(st)]
    BY <2>1, <2>2, NumeralEnds
  <2> QED BY <2>2, <2>3
<1> QED BY <1>1, <1>3, <1>4, <1>7, <1>8, <1>10 DEF m, n, st, P

\* Leading zeros make no difference.
LEMMA LeadingZeros ==
  ASSUME NEW base \in Nat, NEW digits \in Seq(Nat), NEW k \in 0 .. Len(digits),
         \A i \in 1 .. k : digits[i] = 0
  PROVE  Numeral(base, SubSeq(digits, k + 1, Len(digits))) = Numeral(base, digits)
<1> DEFINE n == Len(digits)
           rest == SubSeq(digits, k + 1, n)
<1>1. n \in Nat /\ rest \in Seq(Nat) /\ Len(rest) = n - k
      /\ \A i \in 1 .. n - k : rest[i] = digits[k + i]
  OBVIOUS
<1> HIDE DEF n, rest
<1>2. PICK g \in [0 .. n -> Nat] :
        /\ g[0] = 0 /\ \A i \in 1 .. n : g[i] = base * g[i - 1] + digits[i]
        /\ Numeral(base, digits) = g[n]
  BY NumeralSteps DEF n
<1> DEFINE S == {i \in 0 .. k : g[i] = 0}
<1>3. k \in Nat /\ k <= n
  BY <1>1 DEF n
<1>4. 0 .. k \subseteq S
  <2>1. 0 \in S
    BY <1>2, <1>3
  <2>2. ASSUME NEW i \in 1 .. k, i - 1 \in S PROVE i \in S
    <3>1. g[i] = base * g[i - 1] + digits[i] /\ g[i - 1] = 0 /\ digits[i] = 0 /\ i \in 0 .. k
      <4>1. i \in 1 .. n /\ i \in 0 .. k
        BY <1>1, <1>3
      <4> QED BY <1>2, <2>2, <4>1
    <3>2. base * 0 + 0 = 0
      OBVIOUS
    <3> QED BY <3>1, <3>2
  <2> HIDE DEF S
  <2> QED BY <1>3, <2>1, <2>2, UpTo
<1> DEFINE f == [i \in 0 .. n - k |-> g[k + i]]
<1>5. f[0] = 0 /\ \A i \in 1 .. n - k : f[i] = base * f[i - 1] + rest[i]
  <2>1. k \in 0 .. k /\ 0 \in 0 .. n - k /\ k + 0 = k
    BY <1>1, <1>3
  <2>2. f[0] = 0
    BY <1>4, <2>1
  <2>3. ASSUME NEW i \in 1 .. n - k PROVE f[i] = base * f[i - 1] + rest[i]
    <3>1. i \in 0 .. n - k /\ i - 1 \in 0 .. n - k /\ k + i \in 1 .. n /\ k + (i - 1) = (k + i) - 1
      BY <1>1, <1>3
    <3>2. f[i] = g[k + i] /\ f[i - 1] = g[(k + i) - 1]
      BY <3>1
    <3> HIDE DEF f
    <3> QED BY <1>1, <1>2, <3>1, <3>2
  <2> HIDE DEF f
  <2> QED BY <2>2, <2>3
<1>6. Numeral(base, rest) = f[n - k]
  <2> HIDE DEF f
  <2>1. f[0] = 0 /\ \A i \in 1 .. Len(rest) : f[i] = base * f[i - 1] + rest[i]
    BY <1>1, <1>5
  <2>2. Numeral(base, rest) = f[Len(rest)]
    BY <1>1, <2>1, NumeralEnds
  <2> QED BY <1>1, <2>2
<1>7. f[n - k] = g[n]
  BY <1>1, <1>3
<1> QED BY <1>2, <1>6, <1>7 DEF n, rest

\* A number whose first digit is not 0 is not 0.
LEMMA NumeralPositive ==
  ASSUME NEW base \in Nat \ {0}, NEW digits \in Seq(Nat), Len(digits) >= 1, digits[1] # 0
  PROVE  Numeral(base, digits) > 0
<1> DEFINE n == Len(digits)
<1>1. n \in Nat /\ n >= 1 /\ \A i \in 1 .. n : digits[i] \in Nat
  OBVIOUS
<1> HIDE DEF n
<1>2. PICK g \in [0 .. n -> Nat] :
        /\ g[0] = 0 /\ \A i \in 1 .. n : g[i] = base * g[i - 1] + digits[i]
        /\ Numeral(base, digits) = g[n]
  BY NumeralSteps DEF n
<1> DEFINE S == {i \in 0 .. n : i # 0 => g[i] > 0}
<1>3. 0 \in S
  BY <1>1
<1>4. ASSUME NEW i \in 1 .. n, i - 1 \in S PROVE i \in S
  <2>1. PICK h \in Nat, d \in Nat : h = g[i - 1] /\ d = digits[i]
    <3>1. i - 1 \in 0 .. n
      BY <1>1
    <3> QED BY <1>1, <1>2, <3>1
  <2>2. g[i] = base * h + d
    BY <1>2, <2>1
  <2>3. i \in 0 .. n /\ base * h \in Nat
    OBVIOUS
  <2>4. CASE i = 1
    BY <2>1, <2>2, <2>3, <2>4
  <2>5. CASE i # 1
    <3>1. h >= 1
      BY <1>4, <2>1, <2>5
    <3>2. base * 1 <= base * h
      BY <3>1, TimesKeeps
    <3> QED BY <2>2, <2>3, <3>2
  <2> QED BY <2>4, <2>5
<1> HIDE DEF S
<1>5. 0 .. n \subseteq S
  BY <1>1, <1>3, <1>4, UpTo
<1>6. g[n] > 0
  BY <1>1, <1>5 DEF S
<1> QED BY <1>2, <1>6

-----------------------------------------------------------------------------
(* Limbs, which stand the other way round.                                  *)

\* What a limb can hold.
LEMMA WidthType ==
  /\ W \in Nat \ {0} /\ Base \in Nat \ {0, 1} /\ HexBase \in Nat \ {0}
  /\ 0 \in Limb /\ Limb \subseteq Nat /\ Base = 2^W
<1>1. HexBits \in Nat \ {0} /\ LimbDigits \in Nat \ {0}
  BY ApIntAssumption
<1>2. W \in Nat \ {0}
  <2>1. PICK h \in Nat, l \in Nat : h = HexBits - 1 /\ l = LimbDigits - 1
    BY <1>1
  <2>2. (h + 1) * (l + 1) = h * l + h + l + 1 /\ h * l \in Nat
    OBVIOUS
  <2>3. HexBits = h + 1 /\ LimbDigits = l + 1
    BY <1>1, <2>1
  <2> QED BY <2>2, <2>3 DEF W
<1>3. Base \in Nat \ {0, 1}
  <2>1. W - 1 \in Nat /\ 1 + (W - 1) = W /\ 1 \in Nat
    BY <1>2
  <2>2. 2^(1 + (W - 1)) = 2^1 * 2^(W - 1)
    BY <2>1, PowerSum
  <2>3. PICK p \in Nat \ {0} : p = 2^(W - 1)
    BY <2>1, PowerPositive
  <2>4. 2^1 = 2
    <3>1. IsFiniteSet({1}) /\ Cardinality({1}) = 1 /\ SUBSET {1} = {{}, {1}}
      BY FS_Singleton
    <3>2. Cardinality(SUBSET {1}) = 2^1
      BY <3>1, PowerIsCount
    <3>3. Cardinality({{}, {1}}) = 2
      <4>1. IsFiniteSet({{}}) /\ Cardinality({{}}) = 1 /\ {1} \notin {{}}
        BY FS_Singleton
      <4>2. Cardinality({{}} \cup {{1}}) = 2
        <5>1. /\ IsFiniteSet({{}} \cup {{1}})
              /\ Cardinality({{}} \cup {{1}}) = IF {1} \in {{}} THEN Cardinality({{}}) ELSE Cardinality({{}}) + 1
          BY <4>1, FS_AddElement, Zenon
        <5> QED BY <4>1, <5>1
      <4>3. {{}} \cup {{1}} = {{}, {1}}
        OBVIOUS
      <4> QED BY <4>2, <4>3
    <3> QED BY <3>1, <3>2, <3>3
  <2>5. 2^W = 2 * p
    BY <2>1, <2>2, <2>3, <2>4
  <2> QED BY <2>3, <2>5 DEF Base
<1>4. HexBase \in Nat \ {0}
  BY <1>1, PowerPositive DEF HexBase
<1> QED BY <1>2, <1>3, <1>4 DEF Base, Limb

\* SequencesExt's Reverse
LEMMA ReverseIs ==
  ASSUME NEW S, NEW s \in Seq(S)
  PROVE  /\ Reverse(s) \in Seq(S) /\ Len(Reverse(s)) = Len(s)
         /\ \A i \in 1 .. Len(s) : Reverse(s)[i] = s[(Len(s) - i) + 1]
BY DEF Reverse

\* g[i] is what the limbs from the i-th on stand for.
Tops(g, data) ==
  /\ g[Len(data) + 1] = 0
  /\ \A i \in 1 .. Len(data) : g[i] = Base * g[i + 1] + data[i]

\* The lowest of these is the whole,
LEMMA MagnitudeIs ==
  ASSUME NEW data \in Seq(Nat), NEW g, Tops(g, data)
  PROVE  Magnitude(data) = g[1]
<1> DEFINE n == Len(data)
           up == Reverse(data)
           f == [i \in 0 .. n |-> g[n + 1 - i]]
<1>1. n \in Nat /\ up \in Seq(Nat) /\ Len(up) = n /\ \A i \in 1 .. n : up[i] = data[(n - i) + 1]
  BY ReverseIs
<1>2. Base \in Nat
  BY WidthType
<1> HIDE DEF n, up
<1>3. f[0] = 0 /\ f[n] = g[1]
  <2>1. 0 \in 0 .. n /\ n \in 0 .. n /\ n + 1 - 0 = n + 1 /\ n + 1 - n = 1
    BY <1>1
  <2>2. g[n + 1] = 0
    BY DEF Tops, n
  <2> QED BY <2>1, <2>2
<1>4. \A i \in 1 .. Len(up) : f[i] = Base * f[i - 1] + up[i]
  <2>1. TAKE i \in 1 .. Len(up)
  <2>2. i \in 1 .. n /\ i \in 0 .. n /\ i - 1 \in 0 .. n /\ (n - i) + 1 \in 1 .. n
    BY <1>1
  <2>3. PICK j \in 1 .. n : j = (n - i) + 1 /\ n + 1 - i = j /\ n + 1 - (i - 1) = j + 1
    BY <1>1, <2>2
  <2>4. g[j] = Base * g[j + 1] + data[j]
    BY <2>3 DEF Tops, n
  <2>5. f[i] = g[j] /\ f[i - 1] = g[j + 1] /\ up[i] = data[j]
    BY <1>1, <2>2, <2>3
  <2> HIDE DEF f
  <2> QED BY <2>4, <2>5
<1> HIDE DEF f
<1>5. Numeral(Base, up) = f[Len(up)]
  BY <1>1, <1>2, <1>3, <1>4, NumeralEnds
<1> QED BY <1>1, <1>3, <1>5 DEF Magnitude, up

\* and there are such.
LEMMA MagnitudeSteps ==
  ASSUME NEW data \in Seq(Nat)
  PROVE  \E g \in [1 .. Len(data) + 1 -> Nat] : Tops(g, data) /\ Magnitude(data) = g[1]
<1> DEFINE n == Len(data)
           up == Reverse(data)
<1>1. n \in Nat /\ up \in Seq(Nat) /\ Len(up) = n /\ \A i \in 1 .. n : up[i] = data[(n - i) + 1]
  BY ReverseIs
<1>2. Base \in Nat
  BY WidthType
<1> HIDE DEF n, up
<1>3. PICK f \in [0 .. n -> Nat] : f[0] = 0 /\ \A i \in 1 .. n : f[i] = Base * f[i - 1] + up[i]
  <2>1. \E f \in [0 .. Len(up) -> Nat] :
          /\ f[0] = 0 /\ \A i \in 1 .. Len(up) : f[i] = Base * f[i - 1] + up[i]
          /\ Numeral(Base, up) = f[Len(up)]
    BY <1>1, <1>2, NumeralSteps
  <2> QED BY <1>1, <2>1
<1> DEFINE g == [i \in 1 .. n + 1 |-> f[n + 1 - i]]
<1>4. g \in [1 .. n + 1 -> Nat]
  <2>1. \A i \in 1 .. n + 1 : n + 1 - i \in 0 .. n
    BY <1>1
  <2>2. \A i \in 1 .. n + 1 : f[n + 1 - i] \in Nat
    BY <1>3, <2>1
  <2> QED BY <2>2
<1>5. g[n + 1] = 0
  <2>1. n + 1 \in 1 .. n + 1 /\ n + 1 - (n + 1) = 0
    BY <1>1
  <2> QED BY <1>3, <2>1
<1>6. \A i \in 1 .. n : g[i] = Base * g[i + 1] + data[i]
  <2>1. TAKE i \in 1 .. n
  <2>2. PICK j \in 1 .. n : j = (n - i) + 1 /\ n + 1 - i = j /\ n + 1 - (i + 1) = j - 1 /\ (n - j) + 1 = i
    <3>1. /\ (n - i) + 1 \in 1 .. n
          /\ n + 1 - i = (n - i) + 1 /\ n + 1 - (i + 1) = ((n - i) + 1) - 1
          /\ (n - ((n - i) + 1)) + 1 = i
      BY <1>1
    <3> QED BY <3>1
  <2>3. i \in 1 .. n + 1 /\ i + 1 \in 1 .. n + 1
    BY <1>1
  <2>4. g[i] = f[j] /\ g[i + 1] = f[j - 1]
    BY <2>2, <2>3
  <2>5. f[j] = Base * f[j - 1] + up[j] /\ up[j] = data[i]
    BY <1>1, <1>3, <2>2
  <2> HIDE DEF g
  <2> QED BY <2>4, <2>5
<1> HIDE DEF g
<1>7. Tops(g, data)
  BY <1>5, <1>6 DEF Tops, n
<1>8. Magnitude(data) = g[1]
  BY <1>7, MagnitudeIs
<1> QED BY <1>4, <1>7, <1>8 DEF n

\* Where the quotient is a natural number.
LEMMA NatDivision ==
  ASSUME NEW k \in Nat, NEW n \in Nat \ {0}
  PROVE  k \div n \in Nat /\ k % n \in 0 .. n - 1 /\ k = n * (k \div n) + (k % n)
<1>1. PICK d \in Int, m \in 0 .. n - 1 : d = k \div n /\ m = k % n /\ k = n * d + m
  BY Division
<1>2. d \in Nat
  <2>1. SUFFICES ASSUME d <= -1 PROVE FALSE
    OBVIOUS
  <2>2. n * d <= n * (-1)
    BY <2>1, TimesKeeps
  <2>3. n * (-1) = -n
    OBVIOUS
  <2> QED BY <1>1, <2>2, <2>3
<1> QED BY <1>1, <1>2

\* The remainder of a number that is between 0 and n, or n above or below.
LEMMA NearRemainder ==
  ASSUME NEW n \in Nat \ {0}, NEW x \in Int
  PROVE  /\ x \in 0 .. n - 1 => x % n = x
         /\ x - n \in 0 .. n - 1 => x % n = x - n
         /\ x + n \in 0 .. n - 1 => x % n = x + n
<1>1. PICK d \in Int, m \in 0 .. n - 1 : d = x \div n /\ m = x % n /\ x = n * d + m
  BY Division
<1>2. /\ d >= 2 => n * 2 <= n * d
      /\ d >= 1 => n * 1 <= n * d
      /\ d >= 0 => n * 0 <= n * d
      /\ d <= 0 => n * d <= n * 0
      /\ d <= -1 => n * d <= n * (-1)
      /\ d <= -2 => n * d <= n * (-2)
  BY TimesKeeps
<1>3. PICK w \in Int : w = n * d
  OBVIOUS
<1>4. /\ d >= 2 => 2 * n <= w
      /\ d >= 1 => n <= w
      /\ d >= 0 => 0 <= w
      /\ d <= 0 => w <= 0
      /\ d <= -1 => w <= -n
      /\ d <= -2 => w <= -(2 * n)
  BY <1>2, <1>3
<1>5. (d = 0 => w = 0) /\ (d = 1 => w = n) /\ (d = -1 => w = -n)
  BY <1>3
<1>6. x = w + m
  BY <1>1, <1>3
<1>7. (x \in 0 .. n - 1 => m = x) /\ (x - n \in 0 .. n - 1 => m = x - n) /\ (x + n \in 0 .. n - 1 => m = x + n)
  BY <1>4, <1>5, <1>6
<1> QED BY <1>1, <1>7

\* A sum of two limbs wraps at most once,
LEMMA WrapsUp ==
  ASSUME NEW n \in Nat \ {0}, NEW x \in Int, x \in 0 .. 2 * n - 1
  PROVE  (x < n => x % n = x) /\ (x >= n => x % n = x - n)
<1>1. (x < n => x \in 0 .. n - 1) /\ (x >= n => x - n \in 0 .. n - 1)
  OBVIOUS
<1>2. (x \in 0 .. n - 1 => x % n = x) /\ (x - n \in 0 .. n - 1 => x % n = x - n)
  BY NearRemainder
<1> QED BY <1>1, <1>2

\* and so does a difference.
LEMMA WrapsDown ==
  ASSUME NEW n \in Nat \ {0}, NEW x \in Int, x \in -n .. n - 1
  PROVE  (x >= 0 => x % n = x) /\ (x < 0 => x % n = x + n)
<1>1. (x >= 0 => x \in 0 .. n - 1) /\ (x < 0 => x + n \in 0 .. n - 1)
  OBVIOUS
<1>2. (x \in 0 .. n - 1 => x % n = x) /\ (x + n \in 0 .. n - 1 => x % n = x + n)
  BY NearRemainder
<1> QED BY <1>1, <1>2

\* One limb of a sum: what does not fit is carried.
LEMMA AddRound ==
  ASSUME NEW s \in Limb, NEW d \in Limb, NEW carry \in {0, 1}
  PROVE  /\ CarryOut(s, d, carry) \in {0, 1} /\ (s + carry + d) % Base \in Limb
         /\ s + carry + d = Base * CarryOut(s, d, carry) + ((s + carry + d) % Base)
<1>1. PICK B \in Nat \ {0, 1} : B = Base /\ s \in 0 .. B - 1 /\ d \in 0 .. B - 1
  BY WidthType DEF Limb
<1> DEFINE t == (s + carry) % B
<1>2. (s + carry < B => t = s + carry) /\ (s + carry >= B => t = 0 /\ s = B - 1 /\ carry = 1)
  <2>1. s + carry \in Int /\ s + carry \in 0 .. 2 * B - 1 /\ B \in Nat \ {0}
    BY <1>1
  <2>2. (s + carry < B => (s + carry) % B = s + carry) /\ (s + carry >= B => (s + carry) % B = (s + carry) - B)
    BY <2>1, WrapsUp
  <2> QED BY <1>1, <2>1, <2>2
<1> HIDE DEF t
<1>3. t \in 0 .. B - 1
  BY <1>1, <1>2
<1>4. /\ t + d < B => (t + d) % B = t + d
      /\ t + d >= B => (t + d) % B = (t + d) - B
  <2>1. t + d \in Int /\ t + d \in 0 .. 2 * B - 1 /\ B \in Nat \ {0}
    BY <1>1, <1>3
  <2>2. (t + d < B => (t + d) % B = t + d) /\ (t + d >= B => (t + d) % B = (t + d) - B)
    BY <2>1, WrapsUp
  <2> QED BY <2>2, Zenon
<1>5. /\ s + carry + d < B => (s + carry + d) % B = s + carry + d
      /\ s + carry + d >= B => (s + carry + d) % B = (s + carry + d) - B
  <2>1. s + carry + d \in Int /\ s + carry + d \in 0 .. 2 * B - 1 /\ B \in Nat \ {0}
    BY <1>1
  <2>2. (s + carry + d < B => (s + carry + d) % B = s + carry + d) /\ (s + carry + d >= B => (s + carry + d) % B = (s + carry + d) - B)
    BY <2>1, WrapsUp
  <2> QED BY <2>2, Zenon
<1>6. CarryOut(s, d, carry) = (IF t < s THEN 1 ELSE 0) + (IF (t + d) % B < t THEN 1 ELSE 0)
  BY <1>1 DEF CarryOut, t
<1>7. CarryOut(s, d, carry) = IF s + carry + d < B THEN 0 ELSE 1
  <2>1. CASE s + carry >= B
    BY <1>1, <1>2, <1>4, <1>6, <2>1
  <2>2. CASE s + carry < B
    BY <1>1, <1>2, <1>4, <1>6, <2>2
  <2> QED BY <1>1, <2>1, <2>2
<1>8. B * 0 = 0 /\ B * 1 = B
  OBVIOUS
<1>9. (s + carry + d) % B \in 0 .. B - 1
  BY <1>1, <1>5
<1>10. s + carry + d = B * CarryOut(s, d, carry) + ((s + carry + d) % B)
  BY <1>1, <1>5, <1>7, <1>8
<1> QED BY <1>1, <1>7, <1>9, <1>10 DEF Limb

\* One limb of a difference: what is missing is borrowed.
LEMMA SubRound ==
  ASSUME NEW s \in Limb, NEW d \in Limb, NEW borrow \in {0, 1}
  PROVE  /\ BorrowOut(s, d, borrow) \in {0, 1} /\ (s - borrow - d) % Base \in Limb
         /\ s - borrow - d = ((s - borrow - d) % Base) - Base * BorrowOut(s, d, borrow)
         /\ s > d => BorrowOut(s, d, borrow) = 0
         /\ s = d => BorrowOut(s, d, borrow) = borrow
<1>1. PICK B \in Nat \ {0, 1} : B = Base /\ s \in 0 .. B - 1 /\ d \in 0 .. B - 1
  BY WidthType DEF Limb
<1> DEFINE t == (s - borrow) % B
<1>2. (s - borrow >= 0 => t = s - borrow) /\ (s - borrow < 0 => t = B - 1 /\ s = 0 /\ borrow = 1)
  <2>1. s - borrow \in Int /\ s - borrow \in -B .. B - 1 /\ B \in Nat \ {0}
    BY <1>1
  <2>2. (s - borrow >= 0 => (s - borrow) % B = s - borrow) /\ (s - borrow < 0 => (s - borrow) % B = s - borrow + B)
    BY <2>1, WrapsDown
  <2> QED BY <1>1, <2>1, <2>2
<1> HIDE DEF t
<1>3. t \in 0 .. B - 1
  BY <1>1, <1>2
<1>4. /\ t - d >= 0 => (t - d) % B = t - d
      /\ t - d < 0 => (t - d) % B = t - d + B
  <2>1. t - d \in Int /\ t - d \in -B .. B - 1 /\ B \in Nat \ {0}
    BY <1>1, <1>3
  <2>2. (t - d >= 0 => (t - d) % B = t - d) /\ (t - d < 0 => (t - d) % B = t - d + B)
    BY <2>1, WrapsDown
  <2> QED BY <1>1, <2>1, <2>2
<1>5. /\ s - borrow - d >= 0 => (s - borrow - d) % B = s - borrow - d
      /\ s - borrow - d < 0 => (s - borrow - d) % B = s - borrow - d + B
  <2>1. s - borrow - d \in Int /\ s - borrow - d \in -B .. B - 1 /\ B \in Nat \ {0}
    BY <1>1
  <2>2. (s - borrow - d >= 0 => (s - borrow - d) % B = s - borrow - d) /\ (s - borrow - d < 0 => (s - borrow - d) % B = s - borrow - d + B)
    BY <2>1, WrapsDown
  <2> QED BY <1>1, <2>1, <2>2
<1>6. BorrowOut(s, d, borrow) = (IF t > s THEN 1 ELSE 0) + (IF (t - d) % B > t THEN 1 ELSE 0)
  BY <1>1 DEF BorrowOut, t
<1>7. BorrowOut(s, d, borrow) = IF s - borrow - d >= 0 THEN 0 ELSE 1
  <2>1. CASE s - borrow >= 0
    BY <1>1, <1>2, <1>4, <1>6, <2>1
  <2>2. CASE s - borrow < 0
    BY <1>1, <1>2, <1>4, <1>6, <2>2
  <2> QED BY <1>1, <2>1, <2>2
<1>8. B * 0 = 0 /\ B * 1 = B
  OBVIOUS
<1>9. (s - borrow - d) % B \in 0 .. B - 1
  BY <1>1, <1>5
<1>10. s - borrow - d = ((s - borrow - d) % B) - B * BorrowOut(s, d, borrow)
  BY <1>1, <1>5, <1>7, <1>8
<1>11. (s > d => BorrowOut(s, d, borrow) = 0) /\ (s = d => BorrowOut(s, d, borrow) = borrow)
  BY <1>1, <1>7
<1> QED BY <1>1, <1>7, <1>9, <1>10, <1>11 DEF Limb

-----------------------------------------------------------------------------
(* Magnitudes.                                                              *)

\* A function on 1 .. n is a sequence.
LEMMA LengthOf ==
  ASSUME NEW S, NEW n \in Nat, NEW f \in [1 .. n -> S]
  PROVE  f \in Seq(S) /\ Len(f) = n
OBVIOUS

\* Limbs stand for a number.
LEMMA MagnitudeType ==
  ASSUME NEW data \in Seq(Limb)
  PROVE  data \in Seq(Nat) /\ Magnitude(data) \in Nat
<1>1. data \in Seq(Nat)
  <2>1. Limb \subseteq Nat
    BY WidthType
  <2>2. data = [i \in 1 .. Len(data) |-> data[i]] /\ Len(data) \in Nat
    OBVIOUS
  <2>3. \A i \in 1 .. Len(data) : data[i] \in Limb
    OBVIOUS
  <2>4. \A i \in 1 .. Len(data) : data[i] \in Nat
    BY <2>1, <2>3
  <2>5. data \in [1 .. Len(data) -> Nat]
    BY <2>2, <2>4
  <2> QED BY <2>2, <2>5, LengthOf
<1>2. \E g \in [1 .. Len(data) + 1 -> Nat] : Tops(g, data) /\ Magnitude(data) = g[1]
  BY <1>1, MagnitudeSteps
<1>3. 1 \in 1 .. Len(data) + 1
  OBVIOUS
<1> QED BY <1>1, <1>2, <1>3

\* Zeros for limbs that are missing make no difference.
LEMMA Resizing ==
  ASSUME NEW data \in Seq(Limb), NEW n \in Nat, n >= Len(data)
  PROVE  /\ Resized(data, n) \in [1 .. n -> Limb] /\ Resized(data, n) \in Seq(Limb)
         /\ Len(Resized(data, n)) = n
         /\ \A i \in 1 .. n : Resized(data, n)[i] = IF i <= Len(data) THEN data[i] ELSE 0
         /\ Magnitude(Resized(data, n)) = Magnitude(data)
<1> DEFINE m == Len(data)
           new == Resized(data, n)
<1>1. m \in Nat /\ n >= m /\ \A i \in 1 .. m : data[i] \in Limb
  OBVIOUS
<1>2. \A i \in 1 .. n : new[i] = IF i <= m THEN data[i] ELSE 0
  BY DEF Resized
<1>3. new \in [1 .. n -> Limb]
  <2>1. \A i \in 1 .. n : (IF i <= m THEN data[i] ELSE 0) \in Limb
    <3>1. TAKE i \in 1 .. n
    <3>2. i <= m => i \in 1 .. m
      BY <1>1
    <3> HIDE DEF m
    <3> QED BY <1>1, <3>2, WidthType
  <2> QED BY <2>1 DEF Resized
<1>4. new \in Seq(Limb) /\ Len(new) = n
  BY <1>3, LengthOf
<1>5. new \in Seq(Nat) /\ data \in Seq(Nat)
  BY <1>4, MagnitudeType
<1> HIDE DEF new
<1>6. PICK g \in [1 .. m + 1 -> Nat] : Tops(g, data) /\ Magnitude(data) = g[1]
  BY <1>5, MagnitudeSteps
<1> HIDE DEF m
<1>7. g[m + 1] = 0 /\ \A i \in 1 .. m : g[i] = Base * g[i + 1] + data[i]
  BY <1>6 DEF Tops, m
<1> DEFINE f == [i \in 1 .. n + 1 |-> IF i <= m THEN g[i] ELSE 0]
<1>8. f[n + 1] = 0
  BY <1>1
<1>9. ASSUME NEW i \in 1 .. n PROVE f[i] = Base * f[i + 1] + new[i]
  <2>1. i \in 1 .. n + 1 /\ i + 1 \in 1 .. n + 1
    OBVIOUS
  <2>2. CASE i < m
    <3>1. f[i] = g[i] /\ f[i + 1] = g[i + 1] /\ i \in 1 .. m /\ new[i] = data[i]
      BY <1>1, <1>2, <2>1, <2>2
    <3> HIDE DEF f
    <3> QED BY <1>7, <3>1
  <2>3. CASE i = m
    <3>1. f[i] = g[i] /\ f[i + 1] = 0 /\ i \in 1 .. m /\ new[i] = data[i] /\ g[i + 1] = 0
      BY <1>1, <1>2, <1>7, <2>1, <2>3
    <3> HIDE DEF f
    <3> QED BY <1>7, <3>1
  <2>4. CASE i > m
    <3>1. f[i] = 0 /\ f[i + 1] = 0 /\ new[i] = 0
      BY <1>1, <1>2, <2>1, <2>4
    <3> HIDE DEF f
    <3> QED BY <3>1, WidthType
  <2> QED BY <1>1, <2>2, <2>3, <2>4
<1>10. f[1] = g[1]
  <2>1. CASE m = 0
    BY <1>7, <2>1
  <2>2. CASE m # 0
    BY <1>1, <2>2
  <2> QED BY <2>1, <2>2
<1> HIDE DEF f
<1>11. Tops(f, new)
  BY <1>4, <1>8, <1>9 DEF Tops
<1>12. Magnitude(new) = f[1]
  BY <1>5, <1>11, MagnitudeIs
<1>13. Magnitude(new) = Magnitude(data)
  BY <1>6, <1>10, <1>12
<1> QED BY <1>2, <1>3, <1>4, <1>13 DEF new, m

\* What goes from each round to the next by a rule on flags.
LEMMA FlagsGoOn ==
  ASSUME NEW n \in Nat, NEW rule \in [(1 .. n) \X {0, 1} -> {0, 1}]
  PROVE  \E g \in [0 .. n -> {0, 1}] :
           /\ g[0] = 0 /\ \A i \in 1 .. n : g[i] = rule[<<i, g[i - 1]>>]
           /\ g = [i \in 0 .. n |-> IF i = 0 THEN 0 ELSE rule[<<i, g[i - 1]>>]]
<1>1. 0 \in {0, 1}
  OBVIOUS
<1>2. \E g \in [0 .. n -> {0, 1}] : Follows(g, n, 0, rule)
  BY <1>1, RecursionExists
<1>3. PICK g \in [0 .. n -> {0, 1}] : g[0] = 0 /\ \A i \in 1 .. n : g[i] = rule[<<i, g[i - 1]>>]
  BY <1>2 DEF Follows
<1>4. \A i \in 0 .. n : g[i] = IF i = 0 THEN 0 ELSE rule[<<i, g[i - 1]>>]
  <2>1. TAKE i \in 0 .. n
  <2>2. CASE i = 0
    BY <1>3, <2>2
  <2>3. CASE i # 0
    <3>1. i \in 1 .. n
      BY <2>3
    <3> QED BY <1>3, <2>3, <3>1
  <2> QED BY <2>2, <2>3
<1>5. g = [i \in 0 .. n |-> g[i]]
  OBVIOUS
<1>6. g = [i \in 0 .. n |-> IF i = 0 THEN 0 ELSE rule[<<i, g[i - 1]>>]]
  BY <1>4, <1>5, Zenon
<1> QED BY <1>3, <1>6

\* The rounds of apint_add, up to a last carry.
Added(n, s, d, carry, sum, all) ==
  /\ s \in [1 .. n -> Limb] /\ d \in [1 .. n -> Limb]
  /\ carry \in [0 .. n -> {0, 1}] /\ sum \in [1 .. n -> Limb]
  /\ carry[0] = 0 /\ \A i \in 1 .. n : carry[i] = CarryOut(s[i], d[i], carry[i - 1])
  /\ \A i \in 1 .. n : sum[i] = (s[i] + carry[i - 1] + d[i]) % Base
  /\ carry[n] # 0 => all = Append(sum, carry[n])
  /\ carry[n] = 0 => all = sum

\* What is carried into a limb and what the limbs above it stand for add up.
LEMMA SumOfLimbs ==
  ASSUME NEW n \in Nat \ {0}, NEW s, NEW d, NEW carry, NEW sum, NEW all,
         Added(n, s, d, carry, sum, all)
  PROVE  /\ all \in Seq(Limb) /\ Len(all) \in {n, n + 1}
         /\ Magnitude(all) = Magnitude(s) + Magnitude(d)
         /\ s[n] # 0 \/ d[n] # 0 \/ n = 1 => (all[Len(all)] = 0 => Len(all) = 1)
<1>0. /\ s \in [1 .. n -> Limb] /\ d \in [1 .. n -> Limb]
      /\ carry \in [0 .. n -> {0, 1}] /\ sum \in [1 .. n -> Limb]
  BY DEF Added
<1>a. carry[0] = 0
  BY DEF Added
<1>b. \A i \in 1 .. n : carry[i] = CarryOut(s[i], d[i], carry[i - 1])
  BY DEF Added
<1>c. \A i \in 1 .. n : sum[i] = (s[i] + carry[i - 1] + d[i]) % Base
  BY DEF Added
<1>d. (carry[n] # 0 => all = Append(sum, carry[n])) /\ (carry[n] = 0 => all = sum)
  BY DEF Added
<1>1. PICK B \in Nat \ {0, 1} : B = Base
  BY WidthType
<1>2. /\ s \in Seq(Nat) /\ Len(s) = n /\ d \in Seq(Nat) /\ Len(d) = n
      /\ \A i \in 1 .. n : s[i] \in Limb /\ d[i] \in Limb /\ s[i] \in Nat /\ d[i] \in Nat
  <2>1. s \in Seq(Limb) /\ Len(s) = n /\ d \in Seq(Limb) /\ Len(d) = n
    BY <1>0, LengthOf
  <2>2. Limb \subseteq Nat
    BY WidthType
  <2> HIDE DEF Limb
  <2> QED BY <2>1, <2>2, MagnitudeType
<1>3. PICK S \in [1 .. n + 1 -> Nat] :
        S[n + 1] = 0 /\ (\A i \in 1 .. n : S[i] = B * S[i + 1] + s[i]) /\ Magnitude(s) = S[1]
  <2>1. \E g \in [1 .. Len(s) + 1 -> Nat] : Tops(g, s) /\ Magnitude(s) = g[1]
    BY <1>2, MagnitudeSteps
  <2>2. PICK g \in [1 .. n + 1 -> Nat] : Tops(g, s) /\ Magnitude(s) = g[1]
    BY <1>2, <2>1
  <2>3. g[n + 1] = 0 /\ \A i \in 1 .. n : g[i] = B * g[i + 1] + s[i]
    BY <1>1, <1>2, <2>2 DEF Tops
  <2> QED BY <2>2, <2>3
<1>4. PICK D \in [1 .. n + 1 -> Nat] :
        D[n + 1] = 0 /\ (\A i \in 1 .. n : D[i] = B * D[i + 1] + d[i]) /\ Magnitude(d) = D[1]
  <2>1. \E g \in [1 .. Len(d) + 1 -> Nat] : Tops(g, d) /\ Magnitude(d) = g[1]
    BY <1>2, MagnitudeSteps
  <2>2. PICK g \in [1 .. n + 1 -> Nat] : Tops(g, d) /\ Magnitude(d) = g[1]
    BY <1>2, <2>1
  <2>3. g[n + 1] = 0 /\ \A i \in 1 .. n : g[i] = B * g[i + 1] + d[i]
    BY <1>1, <1>2, <2>2 DEF Tops
  <2> QED BY <2>2, <2>3
<1>5. ASSUME NEW i \in 1 .. n
      PROVE  /\ sum[i] \in Limb /\ sum[i] \in Nat
             /\ s[i] + carry[i - 1] + d[i] = B * carry[i] + sum[i]
  <2>1. s[i] \in Limb /\ d[i] \in Limb /\ carry[i - 1] \in {0, 1}
    <3>1. i - 1 \in 0 .. n
      OBVIOUS
    <3> QED BY <1>0, <1>2, <3>1
  <2>2. /\ (s[i] + carry[i - 1] + d[i]) % Base \in Limb
        /\ s[i] + carry[i - 1] + d[i]
             = Base * CarryOut(s[i], d[i], carry[i - 1]) + ((s[i] + carry[i - 1] + d[i]) % Base)
    BY <2>1, AddRound
  <2>3. sum[i] = (s[i] + carry[i - 1] + d[i]) % Base
    BY <1>c
  <2>4. Limb \subseteq Nat
    BY WidthType
  <2> QED BY <1>1, <1>b, <2>2, <2>3, <2>4, Zenon
<1>7. sum \in Seq(Limb) /\ Len(sum) = n
  BY <1>0, LengthOf
<1>8. carry[n] \in {0, 1} /\ n \in 1 .. n /\ n + 1 \in 1 .. n + 1 /\ 1 \in 1 .. n + 1
  BY <1>0
<1>9. carry[n] \in Limb
  BY <1>8, WidthType DEF Limb
<1>10. /\ all \in Seq(Limb) /\ Len(all) = IF carry[n] # 0 THEN n + 1 ELSE n
       /\ \A i \in 1 .. n : all[i] = sum[i]
       /\ carry[n] # 0 => all[n + 1] = carry[n]
  <2> HIDE DEF Limb
  <2>1. CASE carry[n] = 0
    BY <1>7, <1>d, <2>1
  <2>2. CASE carry[n] # 0
    <3>1. all = Append(sum, carry[n])
      BY <1>d, <2>2
    <3>2. /\ Append(sum, carry[n]) \in Seq(Limb) /\ Len(Append(sum, carry[n])) = n + 1
          /\ \A i \in 1 .. n : Append(sum, carry[n])[i] = sum[i]
          /\ Append(sum, carry[n])[n + 1] = carry[n]
      BY <1>7, <1>9
    <3> QED BY <2>2, <3>1, <3>2
  <2> QED BY <2>1, <2>2
<1> DEFINE f == [i \in 1 .. n + 2 |-> IF i <= n + 1 THEN S[i] + D[i] + carry[i - 1] ELSE 0]
<1>11. /\ f[1] = S[1] + D[1] /\ f[n + 1] = carry[n] /\ f[n + 2] = 0
       /\ \A i \in 1 .. n : f[i] = S[i] + D[i] + carry[i - 1]
       /\ \A i \in 1 .. n : f[i + 1] = S[i + 1] + D[i + 1] + carry[i]
  <2>1. \A i \in 1 .. n + 1 : f[i] = S[i] + D[i] + carry[i - 1]
    OBVIOUS
  <2>2. f[n + 2] = 0
    OBVIOUS
  <2>3. f[1] = S[1] + D[1] + carry[0] /\ f[n + 1] = S[n + 1] + D[n + 1] + carry[n]
    BY <1>8, <2>1
  <2>4. \A i \in 1 .. n : i \in 1 .. n + 1 /\ i + 1 \in 1 .. n + 1 /\ (i + 1) - 1 = i
    OBVIOUS
  <2>5. S[1] \in Nat /\ D[1] \in Nat
    BY <1>8
  <2> HIDE DEF f
  <2>6. f[1] = S[1] + D[1]
    BY <1>a, <2>3, <2>5
  <2>7. f[n + 1] = carry[n]
    <3>1. PICK c \in Nat : c = carry[n]
      BY <1>8
    <3>2. S[n + 1] = 0 /\ D[n + 1] = 0 /\ f[n + 1] = S[n + 1] + D[n + 1] + c
      BY <1>3, <1>4, <2>3, <3>1
    <3> QED BY <3>1, <3>2
  <2>8. \A i \in 1 .. n : f[i] = S[i] + D[i] + carry[i - 1]
    BY <2>1, <2>4
  <2>9. ASSUME NEW i \in 1 .. n PROVE f[i + 1] = S[i + 1] + D[i + 1] + carry[i]
    <3>1. i + 1 \in 1 .. n + 1 /\ (i + 1) - 1 = i
      BY <2>4
    <3>2. f[i + 1] = S[i + 1] + D[i + 1] + carry[(i + 1) - 1]
      BY <2>1, <3>1
    <3> QED BY <3>1, <3>2, Zenon
  <2> QED BY <2>2, <2>6, <2>7, <2>8, <2>9
<1> HIDE DEF f
<1>12. ASSUME NEW i \in 1 .. n PROVE f[i] = B * f[i + 1] + sum[i]
  <2>0. i \in 1 .. n + 1 /\ i + 1 \in 1 .. n + 1 /\ i - 1 \in 0 .. n /\ i \in 0 .. n
    OBVIOUS
  <2>1. PICK x \in Nat, y \in Nat, c \in Nat, o \in Nat :
          x = S[i + 1] /\ y = D[i + 1] /\ c = carry[i - 1] /\ o = carry[i]
    <3>1. S[i + 1] \in Nat /\ D[i + 1] \in Nat
      BY <2>0
    <3>2. carry[i - 1] \in {0, 1} /\ carry[i] \in {0, 1}
      BY <1>0, <2>0
    <3>3. carry[i - 1] \in Nat /\ carry[i] \in Nat
      BY <3>2
    <3> QED BY <3>1, <3>3
  <2>2. PICK u \in Nat, v \in Nat, r \in Nat : u = s[i] /\ v = d[i] /\ r = sum[i]
    BY <1>2, <1>5
  <2>3. u + c + v = B * o + r
    BY <1>5, <2>1, <2>2
  <2>4. f[i] = (B * x + u) + (B * y + v) + c
    BY <1>3, <1>4, <1>11, <2>1, <2>2
  <2>5. f[i + 1] = x + y + o
    BY <1>11, <2>1
  <2>6. B * (x + y + o) = B * x + B * y + B * o /\ B * x \in Nat /\ B * y \in Nat /\ B * o \in Nat
    OBVIOUS
  <2>7. (B * x + u) + (B * y + v) + c = B * (x + y + o) + r
    BY <2>3, <2>6
  <2> QED BY <2>2, <2>4, <2>5, <2>7
<1>13. Tops(f, all)
  <2>1. CASE carry[n] = 0
    <3>1. Len(all) = n /\ f[n + 1] = 0
      BY <1>10, <1>11, <2>1
    <3> QED BY <1>1, <1>10, <1>12, <3>1 DEF Tops
  <2>2. CASE carry[n] # 0
    <3>1. Len(all) = n + 1 /\ f[(n + 1) + 1] = 0 /\ f[n + 1] = all[n + 1] /\ f[n + 1] = 1
      <4>1. (n + 1) + 1 = n + 2
        OBVIOUS
      <4> QED BY <1>8, <1>10, <1>11, <2>2, <4>1
    <3>2. B * 0 + 1 = 1
      OBVIOUS
    <3>3. f[n + 1] = B * f[(n + 1) + 1] + all[n + 1]
      BY <3>1, <3>2
    <3>4. \A i \in 1 .. n : f[i] = B * f[i + 1] + all[i]
      BY <1>10, <1>12
    <3>5. \A i \in 1 .. n + 1 : i \in 1 .. n \/ i = n + 1
      OBVIOUS
    <3>6. \A i \in 1 .. n + 1 : f[i] = B * f[i + 1] + all[i]
      BY <3>3, <3>4, <3>5
    <3> QED BY <1>1, <3>1, <3>6 DEF Tops
  <2> QED BY <2>1, <2>2
<1>14. Magnitude(all) = f[1]
  BY <1>10, <1>13, MagnitudeIs, MagnitudeType
<1>15. ASSUME s[n] # 0 \/ d[n] # 0 \/ n = 1, all[Len(all)] = 0 PROVE Len(all) = 1
  <2>1. carry[n] = 0 /\ Len(all) = n /\ sum[n] = 0
    BY <1>8, <1>10, <1>15
  <2>2. PICK u \in Nat, v \in Nat, c \in Nat : u = s[n] /\ v = d[n] /\ c = carry[n - 1]
    <3>1. n - 1 \in 0 .. n
      OBVIOUS
    <3>2. carry[n - 1] \in {0, 1}
      BY <1>0, <3>1
    <3>3. carry[n - 1] \in Nat
      BY <3>2
    <3> QED BY <1>2, <1>8, <3>3
  <2>3. u + c + v = B * 0 + 0
    BY <1>5, <1>8, <2>1, <2>2
  <2>4. u = 0 /\ v = 0
    BY <2>3
  <2> QED BY <1>15, <2>1, <2>2, <2>4
<1> QED BY <1>3, <1>4, <1>10, <1>11, <1>14, <1>15

\* The rounds of apint_sub.
Subtracted(n, s, d, borrow, rest) ==
  /\ s \in [1 .. n -> Limb] /\ d \in [1 .. n -> Limb]
  /\ borrow \in [0 .. n -> {0, 1}] /\ rest \in [1 .. n -> Limb]
  /\ borrow[0] = 0 /\ \A i \in 1 .. n : borrow[i] = BorrowOut(s[i], d[i], borrow[i - 1])
  /\ \A i \in 1 .. n : rest[i] = (s[i] - borrow[i - 1] - d[i]) % Base

\* The limbs of a difference, if nothing is borrowed from beyond them.
LEMMA DifferenceOfLimbs ==
  ASSUME NEW n \in Nat \ {0}, NEW s, NEW d, NEW borrow, NEW rest,
         Subtracted(n, s, d, borrow, rest), borrow[n] = 0
  PROVE  Magnitude(rest) = Magnitude(s) - Magnitude(d)
<1>0. /\ s \in [1 .. n -> Limb] /\ d \in [1 .. n -> Limb]
      /\ borrow \in [0 .. n -> {0, 1}] /\ rest \in [1 .. n -> Limb]
  BY DEF Subtracted
<1>a. borrow[0] = 0
  BY DEF Subtracted
<1>b. \A i \in 1 .. n : borrow[i] = BorrowOut(s[i], d[i], borrow[i - 1])
  BY DEF Subtracted
<1>c. \A i \in 1 .. n : rest[i] = (s[i] - borrow[i - 1] - d[i]) % Base
  BY DEF Subtracted
<1>1. PICK B \in Nat \ {0, 1} : B = Base
  BY WidthType
<1>2. /\ s \in Seq(Nat) /\ Len(s) = n /\ d \in Seq(Nat) /\ Len(d) = n
      /\ \A i \in 1 .. n : s[i] \in Limb /\ d[i] \in Limb /\ s[i] \in Nat /\ d[i] \in Nat
  <2>1. s \in Seq(Limb) /\ Len(s) = n /\ d \in Seq(Limb) /\ Len(d) = n
    BY <1>0, LengthOf
  <2>2. Limb \subseteq Nat
    BY WidthType
  <2> HIDE DEF Limb
  <2> QED BY <2>1, <2>2, MagnitudeType
<1>3. PICK S \in [1 .. n + 1 -> Nat] :
        S[n + 1] = 0 /\ (\A i \in 1 .. n : S[i] = B * S[i + 1] + s[i]) /\ Magnitude(s) = S[1]
  <2>1. \E g \in [1 .. Len(s) + 1 -> Nat] : Tops(g, s) /\ Magnitude(s) = g[1]
    BY <1>2, MagnitudeSteps
  <2>2. PICK g \in [1 .. n + 1 -> Nat] : Tops(g, s) /\ Magnitude(s) = g[1]
    BY <1>2, <2>1
  <2>3. g[n + 1] = 0 /\ \A i \in 1 .. n : g[i] = B * g[i + 1] + s[i]
    BY <1>1, <1>2, <2>2 DEF Tops
  <2> QED BY <2>2, <2>3
<1>4. PICK D \in [1 .. n + 1 -> Nat] :
        D[n + 1] = 0 /\ (\A i \in 1 .. n : D[i] = B * D[i + 1] + d[i]) /\ Magnitude(d) = D[1]
  <2>1. \E g \in [1 .. Len(d) + 1 -> Nat] : Tops(g, d) /\ Magnitude(d) = g[1]
    BY <1>2, MagnitudeSteps
  <2>2. PICK g \in [1 .. n + 1 -> Nat] : Tops(g, d) /\ Magnitude(d) = g[1]
    BY <1>2, <2>1
  <2>3. g[n + 1] = 0 /\ \A i \in 1 .. n : g[i] = B * g[i + 1] + d[i]
    BY <1>1, <1>2, <2>2 DEF Tops
  <2> QED BY <2>2, <2>3
<1>5. ASSUME NEW i \in 1 .. n
      PROVE  /\ rest[i] \in Limb /\ rest[i] \in Nat
             /\ s[i] - borrow[i - 1] - d[i] = rest[i] - B * borrow[i]
  <2>1. s[i] \in Limb /\ d[i] \in Limb /\ borrow[i - 1] \in {0, 1}
    <3>1. i - 1 \in 0 .. n
      OBVIOUS
    <3> QED BY <1>0, <1>2, <3>1
  <2>2. /\ (s[i] - borrow[i - 1] - d[i]) % Base \in Limb
        /\ s[i] - borrow[i - 1] - d[i]
             = ((s[i] - borrow[i - 1] - d[i]) % Base) - Base * BorrowOut(s[i], d[i], borrow[i - 1])
    BY <2>1, SubRound
  <2>3. rest[i] = (s[i] - borrow[i - 1] - d[i]) % Base
    BY <1>c
  <2>4. Limb \subseteq Nat
    BY WidthType
  <2> QED BY <1>1, <1>b, <2>2, <2>3, <2>4, Zenon
<1>7. rest \in Seq(Limb) /\ Len(rest) = n
  BY <1>0, LengthOf
<1>8. n \in 1 .. n /\ n + 1 \in 1 .. n + 1 /\ 1 \in 1 .. n + 1
  OBVIOUS
<1> DEFINE f == [i \in 1 .. n + 1 |-> S[i] - D[i] - borrow[i - 1]]
<1>11. /\ f[1] = S[1] - D[1] /\ f[n + 1] = 0
       /\ \A i \in 1 .. n : f[i] = S[i] - D[i] - borrow[i - 1]
       /\ \A i \in 1 .. n : f[i + 1] = S[i + 1] - D[i + 1] - borrow[i]
  <2>1. \A i \in 1 .. n + 1 : f[i] = S[i] - D[i] - borrow[i - 1]
    OBVIOUS
  <2>2. f[1] = S[1] - D[1] - borrow[0] /\ f[n + 1] = S[n + 1] - D[n + 1] - borrow[n]
    BY <1>8, <2>1
  <2>3. \A i \in 1 .. n : i \in 1 .. n + 1 /\ i + 1 \in 1 .. n + 1 /\ (i + 1) - 1 = i
    OBVIOUS
  <2>4. S[1] \in Nat /\ D[1] \in Nat
    BY <1>8
  <2> HIDE DEF f
  <2>6. f[1] = S[1] - D[1]
    BY <1>a, <2>2, <2>4
  <2>7. f[n + 1] = 0
    BY <1>3, <1>4, <2>2
  <2>8. \A i \in 1 .. n : f[i] = S[i] - D[i] - borrow[i - 1]
    BY <2>1, <2>3
  <2>9. ASSUME NEW i \in 1 .. n PROVE f[i + 1] = S[i + 1] - D[i + 1] - borrow[i]
    <3>1. i + 1 \in 1 .. n + 1 /\ (i + 1) - 1 = i
      BY <2>3
    <3>2. f[i + 1] = S[i + 1] - D[i + 1] - borrow[(i + 1) - 1]
      BY <2>1, <3>1
    <3> QED BY <3>1, <3>2, Zenon
  <2> QED BY <2>6, <2>7, <2>8, <2>9
<1> HIDE DEF f
<1>12. ASSUME NEW i \in 1 .. n PROVE f[i] = B * f[i + 1] + rest[i]
  <2>0. i \in 1 .. n + 1 /\ i + 1 \in 1 .. n + 1 /\ i - 1 \in 0 .. n /\ i \in 0 .. n
    OBVIOUS
  <2>1. PICK x \in Nat, y \in Nat, c \in Nat, o \in Nat :
          x = S[i + 1] /\ y = D[i + 1] /\ c = borrow[i - 1] /\ o = borrow[i]
    <3>1. S[i + 1] \in Nat /\ D[i + 1] \in Nat
      BY <2>0
    <3>2. borrow[i - 1] \in {0, 1} /\ borrow[i] \in {0, 1}
      BY <1>0, <2>0
    <3>3. borrow[i - 1] \in Nat /\ borrow[i] \in Nat
      BY <3>2
    <3> QED BY <3>1, <3>3
  <2>2. PICK u \in Nat, v \in Nat, r \in Nat : u = s[i] /\ v = d[i] /\ r = rest[i]
    BY <1>2, <1>5
  <2>3. u - c - v = r - B * o
    BY <1>5, <2>1, <2>2
  <2>4. f[i] = (B * x + u) - (B * y + v) - c
    BY <1>3, <1>4, <1>11, <2>1, <2>2
  <2>5. f[i + 1] = x - y - o
    BY <1>11, <2>1
  <2>6. B * (x - y - o) = B * x - B * y - B * o /\ B * x \in Nat /\ B * y \in Nat /\ B * o \in Nat
    OBVIOUS
  <2>7. (B * x + u) - (B * y + v) - c = B * (x - y - o) + r
    BY <2>3, <2>6
  <2> QED BY <2>2, <2>4, <2>5, <2>7
<1>13. Tops(f, rest)
  BY <1>1, <1>7, <1>11, <1>12 DEF Tops
<1>14. Magnitude(rest) = f[1]
  BY <1>7, <1>13, MagnitudeIs, MagnitudeType
<1> QED BY <1>3, <1>4, <1>11, <1>14

\* Nothing is, if the limbs are those of no smaller number.
LEMMA NoLastBorrow ==
  ASSUME NEW n \in Nat, NEW s, NEW d, NEW borrow, NEW rest, Subtracted(n, s, d, borrow, rest),
         s = d \/ \E k \in 1 .. n : s[k] > d[k] /\ \A i \in k + 1 .. n : s[i] = d[i]
  PROVE  borrow[n] = 0
<1>0. /\ s \in [1 .. n -> Limb] /\ d \in [1 .. n -> Limb] /\ borrow \in [0 .. n -> {0, 1}]
  BY DEF Subtracted
<1>a. borrow[0] = 0
  BY DEF Subtracted
<1>b. \A i \in 1 .. n : borrow[i] = BorrowOut(s[i], d[i], borrow[i - 1])
  BY DEF Subtracted
<1>1. PICK k \in 0 .. n : borrow[k] = 0 /\ \A i \in k + 1 .. n : s[i] = d[i]
  <2>1. CASE s = d
    <3>1. 0 \in 0 .. n
      OBVIOUS
    <3> QED BY <1>a, <2>1, <3>1
  <2>2. ASSUME NEW k \in 1 .. n, s[k] > d[k], \A i \in k + 1 .. n : s[i] = d[i]
        PROVE  k \in 0 .. n /\ borrow[k] = 0
    <3>1. s[k] \in Limb /\ d[k] \in Limb /\ borrow[k - 1] \in {0, 1} /\ k \in 0 .. n
      BY <1>0
    <3>2. BorrowOut(s[k], d[k], borrow[k - 1]) = 0
      BY <2>2, <3>1, SubRound
    <3> QED BY <1>b, <3>1, <3>2
  <2> QED BY <2>1, <2>2
<1> DEFINE S == {i \in 0 .. n : i >= k => borrow[i] = 0}
<1>2. 0 \in S
  BY <1>1, <1>a
<1>3. ASSUME NEW i \in 1 .. n, i - 1 \in S PROVE i \in S
  <2>1. i \in 0 .. n
    OBVIOUS
  <2>2. CASE i <= k
    BY <1>1, <2>1, <2>2
  <2>3. CASE i > k
    <3>1. borrow[i - 1] = 0 /\ i \in k + 1 .. n
      BY <1>3, <2>3
    <3>2. s[i] \in Limb /\ d[i] \in Limb /\ s[i] = d[i]
      BY <1>0, <1>1, <3>1
    <3>3. BorrowOut(s[i], d[i], 0) = 0
      BY <3>2, SubRound
    <3> QED BY <1>b, <2>1, <3>1, <3>2, <3>3
  <2> QED BY <2>2, <2>3
<1> HIDE DEF S
<1>4. 0 .. n \subseteq S
  BY <1>2, <1>3, UpTo
<1>5. n \in 0 .. n /\ n >= k
  OBVIOUS
<1> QED BY <1>4, <1>5 DEF S

-----------------------------------------------------------------------------
(* Numbers.                                                                 *)

\* A limb at least, and a sign that is a flag
Numbers == [data : Seq(Limb) \ {<<>>}, sign : {0, 1}]

\* No zero limb at the top, except that of zero.
Topped(data) == data[Len(data)] = 0 => Len(data) = 1

\* What Canonical says of a number.
Proper(ap) == ap \in Numbers /\ Topped(ap.data) /\ (IsZero(ap) => ap.sign = 0)

\* The fields of a number, and what changing its sign gives.
LEMMA NumbersAre ==
  /\ \A ap \in Numbers : ap.data \in Seq(Limb) /\ Len(ap.data) \in Nat \ {0} /\ ap.sign \in {0, 1}
                         /\ ap = Number(ap.data, ap.sign)
                         /\ [ap EXCEPT !.sign = 1 - @] = Number(ap.data, 1 - ap.sign)
                         /\ [ap EXCEPT !.sign = 0] = Number(ap.data, 0)
  /\ \A data \in Seq(Limb), sign \in {0, 1} :
       Len(data) # 0 => Number(data, sign) \in Numbers
  /\ \A data, sign : Number(data, sign).data = data /\ Number(data, sign).sign = sign
<1>1. ASSUME NEW ap \in Numbers
      PROVE  /\ ap.data \in Seq(Limb) /\ Len(ap.data) \in Nat \ {0} /\ ap.sign \in {0, 1}
             /\ ap = Number(ap.data, ap.sign)
             /\ [ap EXCEPT !.sign = 1 - @] = Number(ap.data, 1 - ap.sign)
             /\ [ap EXCEPT !.sign = 0] = Number(ap.data, 0)
  <2>1. ap.data \in Seq(Limb) /\ ap.data # <<>> /\ ap.sign \in {0, 1}
    BY DEF Numbers
  <2>2. Len(ap.data) \in Nat \ {0}
    <3> HIDE DEF Limb
    <3> QED BY <2>1
  <2>3. ap = [data |-> ap.data, sign |-> ap.sign]
    BY DEF Numbers
  <2> QED BY <2>1, <2>2, <2>3 DEF Number
<1>2. ASSUME NEW data \in Seq(Limb), NEW sign \in {0, 1}, Len(data) # 0 PROVE Number(data, sign) \in Numbers
  <2>1. data # <<>>
    BY <1>2
  <2> QED BY <2>1 DEF Number, Numbers
<1>3. \A data, sign : Number(data, sign).data = data /\ Number(data, sign).sign = sign
  BY DEF Number
<1> QED BY <1>1, <1>2, <1>3

\* apint_add for numbers of one sign.
LEMMA AddMagnitudesRight ==
  ASSUME NEW a \in Numbers, NEW b \in Numbers
  PROVE  /\ AddMagnitudes(a, b) \in Numbers /\ AddMagnitudes(a, b).sign = a.sign
         /\ Magnitude(AddMagnitudes(a, b).data) = Magnitude(a.data) + Magnitude(b.data)
         /\ Topped(a.data) /\ Topped(b.data) => Topped(AddMagnitudes(a, b).data)
<1> DEFINE n == MaxLenOf(a, b)
           s == Resized(a.data, n)
           d == Resized(b.data, n)
           Is(carry) == carry = [i \in 0 .. n |-> IF i = 0 THEN 0 ELSE CarryOut(s[i], d[i], carry[i - 1])]
           carry == CHOOSE c : Is(c)
           sum == [i \in 1 .. n |-> (s[i] + carry[i - 1] + d[i]) % Base]
           all == IF carry[n] # 0 THEN Append(sum, carry[n]) ELSE sum
           rule == [p \in (1 .. n) \X {0, 1} |-> CarryOut(s[p[1]], d[p[1]], p[2])]
<1>1. AddMagnitudes(a, b) = Number(all, a.sign)
  BY Zenon DEF AddMagnitudes
<1>2. /\ a.data \in Seq(Limb) /\ Len(a.data) \in Nat \ {0} /\ a.sign \in {0, 1}
      /\ b.data \in Seq(Limb) /\ Len(b.data) \in Nat \ {0}
  BY NumbersAre
<1>3. n \in Nat \ {0} /\ n >= Len(a.data) /\ n >= Len(b.data) /\ (n = Len(a.data) \/ n = Len(b.data))
  BY <1>2 DEF MaxLenOf
<1> HIDE DEF n
<1>4. /\ s \in [1 .. n -> Limb] /\ Magnitude(s) = Magnitude(a.data)
      /\ \A i \in 1 .. n : s[i] = IF i <= Len(a.data) THEN a.data[i] ELSE 0
  BY <1>2, <1>3, Resizing
<1>5. /\ d \in [1 .. n -> Limb] /\ Magnitude(d) = Magnitude(b.data)
      /\ \A i \in 1 .. n : d[i] = IF i <= Len(b.data) THEN b.data[i] ELSE 0
  BY <1>2, <1>3, Resizing
<1> HIDE DEF s, d
<1>6. rule \in [(1 .. n) \X {0, 1} -> {0, 1}]
  <2>1. ASSUME NEW p \in (1 .. n) \X {0, 1} PROVE CarryOut(s[p[1]], d[p[1]], p[2]) \in {0, 1}
    <3>1. s[p[1]] \in Limb /\ d[p[1]] \in Limb /\ p[2] \in {0, 1}
      BY <1>4, <1>5
    <3> QED BY <3>1, AddRound
  <2> QED BY <2>1
<1>7. \A i \in 1 .. n, c \in {0, 1} : rule[<<i, c>>] = CarryOut(s[i], d[i], c)
  <2>1. TAKE i \in 1 .. n, c \in {0, 1}
  <2>2. <<i, c>> \in (1 .. n) \X {0, 1} /\ <<i, c>>[1] = i /\ <<i, c>>[2] = c
    OBVIOUS
  <2> QED BY <2>2
<1> HIDE DEF rule
<1>8. PICK g \in [0 .. n -> {0, 1}] :
        /\ g[0] = 0 /\ \A i \in 1 .. n : g[i] = rule[<<i, g[i - 1]>>]
  BY <1>3, <1>6, FlagsGoOn
<1>9. Is(g)
  <2>1. \A i \in 0 .. n : g[i] = IF i = 0 THEN 0 ELSE CarryOut(s[i], d[i], g[i - 1])
    <3>1. TAKE i \in 0 .. n
    <3>2. CASE i = 0
      BY <1>8, <3>2
    <3>3. CASE i # 0
      <4>1. i \in 1 .. n /\ i - 1 \in 0 .. n
        BY <1>3, <3>3
      <4>2. g[i - 1] \in {0, 1}
        BY <4>1
      <4> QED BY <1>7, <1>8, <3>3, <4>1, <4>2
    <3> QED BY <3>2, <3>3
  <2>2. g = [i \in 0 .. n |-> g[i]]
    OBVIOUS
  <2> QED BY <2>1, <2>2, Zenon
<1>10. Is(carry)
  <2> HIDE DEF Is
  <2> QED BY <1>9, Zenon
<1> HIDE DEF carry
<1>11. /\ carry[0] = 0 /\ carry = [i \in 0 .. n |-> carry[i]]
       /\ \A i \in 1 .. n : carry[i] = CarryOut(s[i], d[i], carry[i - 1])
  <2>1. \A i \in 0 .. n : carry[i] = IF i = 0 THEN 0 ELSE CarryOut(s[i], d[i], carry[i - 1])
    BY <1>10
  <2>2. 0 \in 0 .. n /\ \A i \in 1 .. n : i \in 0 .. n /\ i # 0
    BY <1>3
  <2>3. carry = [i \in 0 .. n |-> carry[i]]
    BY <1>10
  <2> QED BY <2>1, <2>2, <2>3
<1> DEFINE S == {i \in 0 .. n : carry[i] \in {0, 1}}
<1>12. 0 .. n \subseteq S
  <2>1. 0 \in S
    BY <1>3, <1>11
  <2>2. ASSUME NEW i \in 1 .. n, i - 1 \in S PROVE i \in S
    <3>1. s[i] \in Limb /\ d[i] \in Limb /\ carry[i - 1] \in {0, 1} /\ i \in 0 .. n
      BY <1>4, <1>5, <2>2
    <3>2. CarryOut(s[i], d[i], carry[i - 1]) \in {0, 1}
      BY <3>1, AddRound
    <3> QED BY <1>11, <3>1, <3>2
  <2>3. n \in Nat
    BY <1>3
  <2> HIDE DEF S
  <2> QED BY <2>1, <2>2, <2>3, UpTo
<1>13. carry \in [0 .. n -> {0, 1}]
  BY <1>11, <1>12
<1>14. /\ all \in Seq(Limb) /\ Len(all) \in {n, n + 1}
       /\ Magnitude(all) = Magnitude(s) + Magnitude(d)
       /\ s[n] # 0 \/ d[n] # 0 \/ n = 1 => (all[Len(all)] = 0 => Len(all) = 1)
  <2>1. \A i \in 1 .. n : sum[i] = (s[i] + carry[i - 1] + d[i]) % Base
    OBVIOUS
  <2>2. ASSUME NEW i \in 1 .. n PROVE (s[i] + carry[i - 1] + d[i]) % Base \in Limb
    <3>1. s[i] \in Limb /\ d[i] \in Limb /\ carry[i - 1] \in {0, 1}
      <4>1. i - 1 \in 0 .. n
        BY <1>3
      <4> QED BY <1>4, <1>5, <1>13, <4>1
    <3> QED BY <3>1, AddRound
  <2>3. sum \in [1 .. n -> Limb]
    BY <2>2
  <2>4. (carry[n] # 0 => all = Append(sum, carry[n])) /\ (carry[n] = 0 => all = sum)
    OBVIOUS
  <2> HIDE DEF all, sum
  <2>5. \A i \in 1 .. n : carry[i] = CarryOut(s[i], d[i], carry[i - 1])
    BY <1>11
  <2>6. carry[0] = 0
    BY <1>11
  <2>7. Added(n, s, d, carry, sum, all)
    BY <1>4, <1>5, <1>13, <2>1, <2>3, <2>4, <2>5, <2>6 DEF Added
  <2> QED BY <1>3, <2>7, SumOfLimbs
<1> HIDE DEF all
<1>15. Len(all) # 0
  BY <1>3, <1>14
<1>16. Topped(a.data) /\ Topped(b.data) => Topped(all)
  <2>1. SUFFICES ASSUME Topped(a.data), Topped(b.data), n # 1 PROVE s[n] # 0 \/ d[n] # 0
    BY <1>14 DEF Topped
  <2>2. n \in 1 .. n
    BY <1>3
  <2>3. CASE n = Len(a.data)
    <3>1. s[n] = a.data[n] /\ a.data[n] # 0
      BY <1>3, <1>4, <2>1, <2>2, <2>3 DEF Topped
    <3> QED BY <3>1
  <2>4. CASE n = Len(b.data)
    <3>1. d[n] = b.data[n] /\ b.data[n] # 0
      BY <1>3, <1>5, <2>1, <2>2, <2>4 DEF Topped
    <3> QED BY <3>1
  <2> QED BY <1>3, <2>3, <2>4
<1>17. /\ Number(all, a.sign) \in Numbers /\ Number(all, a.sign).data = all
       /\ Number(all, a.sign).sign = a.sign
  BY <1>2, <1>14, <1>15, NumbersAre
<1> QED BY <1>1, <1>4, <1>5, <1>14, <1>16, <1>17, Zenon

\* The limbs of a are greater: the highest that differ decide.
Above(a, b) ==
  LET n == MaxLenOf(a, b)
      s == Resized(a.data, n)
      d == Resized(b.data, n)
  IN  \E k \in 1 .. n : s[k] > d[k] /\ \A i \in k + 1 .. n : s[i] = d[i]

\* A set of numbers up to n has a greatest one.
LEMMA GreatestNumber ==
  ASSUME NEW n \in Nat, NEW S, S \subseteq 1 .. n, S # {}
  PROVE  \E x \in S : \A y \in S : y <= x
<1> DEFINE T == {m \in Nat : \E x \in S : m = n - x}
<1>1. T \subseteq Nat
  OBVIOUS
<1>2. \A x \in S : n - x \in T
  OBVIOUS
<1>3. T # {}
  <2> HIDE DEF T
  <2> QED BY <1>2
<1>4. PICK m \in T : \A k \in T : m <= k
  <2> HIDE DEF T
  <2> QED BY <1>1, <1>3, LeastNumber
<1>5. PICK x \in S : m = n - x
  OBVIOUS
<1>6. ASSUME NEW y \in S PROVE y <= x
  <2>1. m <= n - y
    <3> HIDE DEF T
    <3> QED BY <1>2, <1>4
  <2>2. x \in Nat /\ y \in Nat
    OBVIOUS
  <2> QED BY <1>5, <2>1, <2>2
<1> QED BY <1>6

\* The longer of two numbers
LEMMA MaxLenIs ==
  ASSUME NEW a \in Numbers, NEW b \in Numbers
  PROVE  /\ MaxLenOf(a, b) \in Nat \ {0} /\ MaxLenOf(a, b) = MaxLenOf(b, a)
         /\ MaxLenOf(a, b) >= Len(a.data) /\ MaxLenOf(a, b) >= Len(b.data)
         /\ Len(a.data) >= Len(b.data) => MaxLenOf(a, b) = Len(a.data)
<1>1. Len(a.data) \in Nat \ {0} /\ Len(b.data) \in Nat \ {0}
  BY NumbersAre
<1> QED BY <1>1 DEF MaxLenOf

\* A longer number is greater.
LEMMA LongerAbove ==
  ASSUME NEW a \in Numbers, NEW b \in Numbers, Topped(a.data), Len(a.data) > Len(b.data)
  PROVE  Above(a, b)
<1> DEFINE n == MaxLenOf(a, b)
           s == Resized(a.data, n)
           d == Resized(b.data, n)
<1>1. /\ a.data \in Seq(Limb) /\ Len(a.data) \in Nat \ {0}
      /\ b.data \in Seq(Limb) /\ Len(b.data) \in Nat \ {0}
  BY NumbersAre
<1>2. n = Len(a.data) /\ n \in Nat \ {0}
  BY <1>1, MaxLenIs
<1> HIDE DEF n
<1>3. s[n] = a.data[n] /\ d[n] = 0
  <2>1. n \in 1 .. n
    BY <1>2
  <2> QED BY <1>1, <1>2, <2>1 DEF Resized
<1>4. a.data[n] # 0 /\ a.data[n] \in Limb
  <2>1. n \in 1 .. Len(a.data)
    BY <1>2
  <2> HIDE DEF Limb
  <2>2. a.data[n] \in Limb
    BY <1>1, <2>1
  <2> QED BY <1>1, <1>2, <2>2 DEF Topped
<1>5. a.data[n] > 0
  <2>1. a.data[n] \in Nat
    BY <1>4, WidthType
  <2> QED BY <1>4, <2>1
<1> HIDE DEF s, d
<1>6. n \in 1 .. n /\ s[n] > d[n] /\ \A i \in n + 1 .. n : s[i] = d[i]
  BY <1>2, <1>3, <1>5
<1> QED BY <1>6 DEF Above, n, s, d

\* Among numbers of one length the limbs decide.
LEMMA SameLengthAbove ==
  ASSUME NEW a \in Numbers, NEW b \in Numbers, Len(a.data) = Len(b.data),
         NEW k \in 1 .. Len(a.data), a.data[k] > b.data[k],
         \A i \in k + 1 .. Len(a.data) : a.data[i] = b.data[i]
  PROVE  Above(a, b)
<1> DEFINE n == MaxLenOf(a, b)
           s == Resized(a.data, n)
           d == Resized(b.data, n)
<1>1. /\ a.data \in Seq(Limb) /\ Len(a.data) \in Nat \ {0}
      /\ b.data \in Seq(Limb) /\ Len(b.data) \in Nat \ {0}
  BY NumbersAre
<1>2. n = Len(a.data) /\ n \in Nat \ {0}
  BY <1>1, MaxLenIs
<1> HIDE DEF n
<1>3. \A i \in 1 .. n : s[i] = a.data[i] /\ d[i] = b.data[i]
  BY <1>1, <1>2 DEF Resized
<1> HIDE DEF s, d
<1>4. \A i \in k + 1 .. n : i \in 1 .. n
  BY <1>2
<1>5. k \in 1 .. n /\ s[k] > d[k] /\ \A i \in k + 1 .. n : s[i] = d[i]
  BY <1>2, <1>3, <1>4
<1> QED BY <1>5 DEF Above, n, s, d

\* The sign of the difference of two positive numbers is that of two negative
\* ones, flipped.
Flip(ap) == IF ap.sign = 1 THEN -1 ELSE 1

\* apint_compare for numbers of one sign, which have one representation each.
LEMMA CompareSameSign ==
  ASSUME NEW l, NEW r, Proper(l), Proper(r), l.sign = r.sign
  PROVE  \/ l.data = r.data /\ Compare(l, r) = 0
         \/ Above(l, r) /\ Compare(l, r) = Flip(l)
         \/ Above(r, l) /\ Compare(l, r) = 0 - Flip(l)
<1> DEFINE n == Len(l.data)
           flip == IF l.sign = 1 THEN -1 ELSE 1
           differ == {i \in 1 .. n : l.data[i] # r.data[i]}
           top == CHOOSE i \in differ : \A j \in differ : j <= i
<1>1. /\ l \in Numbers /\ r \in Numbers /\ Topped(l.data) /\ Topped(r.data)
  BY DEF Proper
<1>2. /\ l.data \in Seq(Limb) /\ n \in Nat \ {0}
      /\ r.data \in Seq(Limb) /\ Len(r.data) \in Nat \ {0}
  BY <1>1, NumbersAre
<1>3. Compare(l, r) =
        IF Len(l.data) # Len(r.data) THEN flip * Sgn(Len(l.data) - Len(r.data))
        ELSE IF differ = {} THEN 0
        ELSE flip * Sgn(l.data[top] - r.data[top])
  <2>1. Compare(l, r) =
          IF l.sign # r.sign THEN r.sign - l.sign
          ELSE IF Len(l.data) # Len(r.data) THEN flip * Sgn(Len(l.data) - Len(r.data))
          ELSE IF differ = {} THEN 0
          ELSE flip * Sgn(l.data[top] - r.data[top])
    BY Zenon DEF Compare
  <2> HIDE DEF flip, differ, top
  <2> QED BY <2>1, Zenon
<1>4. flip \in {-1, 1} /\ flip * 1 = flip /\ flip * (-1) = 0 - flip /\ flip = Flip(l)
  BY DEF Flip
<1> HIDE DEF flip
<1>5. CASE Len(l.data) > Len(r.data)
  <2>1. Sgn(Len(l.data) - Len(r.data)) = 1
    <3>1. PICK x \in Nat, y \in Nat : x = Len(l.data) /\ y = Len(r.data) /\ x > y
      BY <1>2, <1>5
    <3>2. \A i, j \in Nat : i > j => Sgn(i - j) = 1
      BY DEF Sgn
    <3> QED BY <3>1, <3>2
  <2>2. Above(l, r)
    BY <1>1, <1>5, LongerAbove
  <2>3. Len(l.data) # Len(r.data)
    BY <1>2, <1>5
  <2> QED BY <1>3, <1>4, <2>1, <2>2, <2>3
<1>6. CASE Len(l.data) < Len(r.data)
  <2>1. Sgn(Len(l.data) - Len(r.data)) = -1
    <3>1. PICK x \in Nat, y \in Nat : x = Len(l.data) /\ y = Len(r.data) /\ x < y
      BY <1>2, <1>6
    <3>2. \A i, j \in Nat : i < j => Sgn(i - j) = -1
      BY DEF Sgn
    <3> QED BY <3>1, <3>2
  <2>2. Above(r, l)
    <3>1. Len(r.data) > Len(l.data)
      BY <1>2, <1>6
    <3> QED BY <1>1, <3>1, LongerAbove
  <2>3. Len(l.data) # Len(r.data)
    BY <1>2, <1>6
  <2> QED BY <1>3, <1>4, <2>1, <2>2, <2>3
<1>7. CASE Len(l.data) = Len(r.data)
  <2>1. CASE differ = {}
    <3>1. \A i \in 1 .. n : l.data[i] = r.data[i]
      BY <2>1
    <3>2. l.data = r.data
      <4> HIDE DEF Limb, differ
      <4>1. l.data = [i \in 1 .. n |-> l.data[i]] /\ r.data = [i \in 1 .. n |-> r.data[i]]
        BY <1>2, <1>7
      <4> QED BY <3>1, <4>1, Zenon
    <3> QED BY <1>3, <1>7, <2>1, <3>2
  <2>2. CASE differ # {}
    <3>1. \E i \in differ : \A j \in differ : j <= i
      <4>1. n \in Nat /\ differ \subseteq 1 .. n
        BY <1>2
      <4> HIDE DEF differ
      <4> QED BY <2>2, <4>1, GreatestNumber
    <3>2. top \in differ /\ \A j \in differ : j <= top
      <4> HIDE DEF differ
      <4> QED BY <3>1, Zenon
    <3> HIDE DEF top
    <3>3. top \in 1 .. n /\ l.data[top] # r.data[top]
      BY <3>2
    <3>4. \A i \in top + 1 .. n : l.data[i] = r.data[i]
      <4>1. TAKE i \in top + 1 .. n
      <4>2. i \in 1 .. n /\ ~(i <= top)
        BY <1>2, <3>3
      <4>3. i \notin differ
        <5> HIDE DEF differ
        <5> QED BY <3>2, <4>2
      <4> QED BY <4>2, <4>3
    <3>5. PICK x \in Nat, y \in Nat : x = l.data[top] /\ y = r.data[top]
      <4>1. l.data[top] \in Limb /\ r.data[top] \in Limb
        <5> HIDE DEF Limb
        <5> QED BY <1>2, <1>7, <3>3
      <4> QED BY <4>1, WidthType
    <3>6. Compare(l, r) = flip * Sgn(x - y)
      BY <1>3, <1>7, <2>2, <3>5
    <3>7. CASE x > y
      <4>1. Above(l, r)
        BY <1>1, <1>7, <3>3, <3>4, <3>5, <3>7, SameLengthAbove
      <4>2. Sgn(x - y) = 1
        BY <3>7 DEF Sgn
      <4> QED BY <1>4, <3>6, <4>1, <4>2
    <3>8. CASE x < y
      <4>1. Above(r, l)
        <5>1. y > x /\ \A i \in top + 1 .. Len(r.data) : r.data[i] = l.data[i]
          BY <1>7, <3>4, <3>8
        <5> QED BY <1>1, <1>7, <3>3, <3>5, <5>1, SameLengthAbove
      <4>2. Sgn(x - y) = -1
        BY <3>8 DEF Sgn
      <4> QED BY <1>4, <3>6, <4>1, <4>2
    <3> QED BY <3>3, <3>5, <3>7, <3>8
  <2> QED BY <2>1, <2>2
<1> QED BY <1>2, <1>5, <1>6, <1>7

\* So apint_sub never takes away the greater magnitude.
LEMMA SwapsRight ==
  ASSUME NEW a, NEW b, Proper(a), Proper(b), a.sign = b.sign
  PROVE  IF Swaps(a, b) THEN Above(b, a) ELSE a.data = b.data \/ Above(a, b)
<1>1. a.sign \in {0, 1}
  BY NumbersAre DEF Proper
<1>2. CASE a.sign = 1
  <2>1. \/ a.data = b.data /\ Compare(a, b) = 0
        \/ Above(a, b) /\ Compare(a, b) = -1
        \/ Above(b, a) /\ Compare(a, b) = 1
    <3>1. Flip(a) = -1
      BY <1>2, Zenon DEF Flip
    <3>3. 0 - (-1) = 1
      OBVIOUS
    <3>2. \/ a.data = b.data /\ Compare(a, b) = 0
          \/ Above(a, b) /\ Compare(a, b) = Flip(a)
          \/ Above(b, a) /\ Compare(a, b) = 0 - Flip(a)
      BY CompareSameSign
    <3> QED BY <3>1, <3>2, <3>3
  <2> QED BY <1>2, <2>1 DEF Swaps
<1>3. CASE a.sign = 0
  <2>1. \/ b.data = a.data /\ Compare(b, a) = 0
        \/ Above(b, a) /\ Compare(b, a) = 1
        \/ Above(a, b) /\ Compare(b, a) = -1
    <3>1. Flip(b) = 1
      BY <1>3 DEF Flip
    <3>2. \/ b.data = a.data /\ Compare(b, a) = 0
          \/ Above(b, a) /\ Compare(b, a) = Flip(b)
          \/ Above(a, b) /\ Compare(b, a) = 0 - Flip(b)
      BY CompareSameSign
    <3> QED BY <3>1, <3>2
  <2> QED BY <1>3, <2>1 DEF Swaps
<1> QED BY <1>1, <1>2, <1>3

\* apint_sub up to the reduction of the length.
LEMMA DifferencesRight ==
  ASSUME NEW a \in Numbers, NEW b \in Numbers
  PROVE  /\ Differences(a, b) \in Seq(Limb) /\ Len(Differences(a, b)) = MaxLenOf(a, b)
         /\ a.data = b.data \/ Above(a, b) =>
              Magnitude(Differences(a, b)) = Magnitude(a.data) - Magnitude(b.data)
<1> DEFINE n == MaxLenOf(a, b)
           s == Resized(a.data, n)
           d == Resized(b.data, n)
           Is(borrow) == borrow = [i \in 0 .. n |-> IF i = 0 THEN 0 ELSE BorrowOut(s[i], d[i], borrow[i - 1])]
           borrow == CHOOSE c : Is(c)
           rest == [i \in 1 .. n |-> (s[i] - borrow[i - 1] - d[i]) % Base]
           rule == [p \in (1 .. n) \X {0, 1} |-> BorrowOut(s[p[1]], d[p[1]], p[2])]
<1>1. Differences(a, b) = rest
  BY Zenon DEF Differences
<1>2. /\ a.data \in Seq(Limb) /\ b.data \in Seq(Limb)
      /\ n \in Nat \ {0} /\ n >= Len(a.data) /\ n >= Len(b.data)
  BY NumbersAre, MaxLenIs
<1>3. a.data = b.data \/ Above(a, b) => s = d \/ \E k \in 1 .. n : s[k] > d[k] /\ \A i \in k + 1 .. n : s[i] = d[i]
  BY DEF Above
<1> HIDE DEF n
<1>4. s \in [1 .. n -> Limb] /\ Magnitude(s) = Magnitude(a.data)
  BY <1>2, Resizing
<1>5. d \in [1 .. n -> Limb] /\ Magnitude(d) = Magnitude(b.data)
  BY <1>2, Resizing
<1> HIDE DEF s, d
<1>6. rule \in [(1 .. n) \X {0, 1} -> {0, 1}]
  <2>1. ASSUME NEW p \in (1 .. n) \X {0, 1} PROVE BorrowOut(s[p[1]], d[p[1]], p[2]) \in {0, 1}
    <3>1. s[p[1]] \in Limb /\ d[p[1]] \in Limb /\ p[2] \in {0, 1}
      BY <1>4, <1>5
    <3> QED BY <3>1, SubRound
  <2> QED BY <2>1
<1>7. \A i \in 1 .. n, c \in {0, 1} : rule[<<i, c>>] = BorrowOut(s[i], d[i], c)
  <2>1. TAKE i \in 1 .. n, c \in {0, 1}
  <2>2. <<i, c>> \in (1 .. n) \X {0, 1} /\ <<i, c>>[1] = i /\ <<i, c>>[2] = c
    OBVIOUS
  <2> QED BY <2>2
<1> HIDE DEF rule
<1>8. PICK g \in [0 .. n -> {0, 1}] :
        /\ g[0] = 0 /\ \A i \in 1 .. n : g[i] = rule[<<i, g[i - 1]>>]
  BY <1>2, <1>6, FlagsGoOn
<1>9. Is(g)
  <2>1. \A i \in 0 .. n : g[i] = IF i = 0 THEN 0 ELSE BorrowOut(s[i], d[i], g[i - 1])
    <3>1. TAKE i \in 0 .. n
    <3>2. CASE i = 0
      BY <1>8, <3>2
    <3>3. CASE i # 0
      <4>1. i \in 1 .. n /\ i - 1 \in 0 .. n
        BY <1>2, <3>3
      <4>2. g[i - 1] \in {0, 1}
        BY <4>1
      <4> QED BY <1>7, <1>8, <3>3, <4>1, <4>2
    <3> QED BY <3>2, <3>3
  <2>2. g = [i \in 0 .. n |-> g[i]]
    OBVIOUS
  <2> QED BY <2>1, <2>2, Zenon
<1>10. Is(borrow)
  <2> HIDE DEF Is
  <2> QED BY <1>9, Zenon
<1> HIDE DEF borrow
<1>11. /\ borrow[0] = 0 /\ borrow = [i \in 0 .. n |-> borrow[i]]
       /\ \A i \in 1 .. n : borrow[i] = BorrowOut(s[i], d[i], borrow[i - 1])
  <2>1. \A i \in 0 .. n : borrow[i] = IF i = 0 THEN 0 ELSE BorrowOut(s[i], d[i], borrow[i - 1])
    BY <1>10
  <2>2. 0 \in 0 .. n /\ \A i \in 1 .. n : i \in 0 .. n /\ i # 0
    BY <1>2
  <2>3. borrow = [i \in 0 .. n |-> borrow[i]]
    BY <1>10
  <2> QED BY <2>1, <2>2, <2>3
<1> DEFINE S == {i \in 0 .. n : borrow[i] \in {0, 1}}
<1>12. 0 .. n \subseteq S
  <2>1. 0 \in S
    BY <1>2, <1>11
  <2>2. ASSUME NEW i \in 1 .. n, i - 1 \in S PROVE i \in S
    <3>1. s[i] \in Limb /\ d[i] \in Limb /\ borrow[i - 1] \in {0, 1} /\ i \in 0 .. n
      BY <1>4, <1>5, <2>2
    <3>2. BorrowOut(s[i], d[i], borrow[i - 1]) \in {0, 1}
      BY <3>1, SubRound
    <3> QED BY <1>11, <3>1, <3>2
  <2>3. n \in Nat
    BY <1>2
  <2> HIDE DEF S
  <2> QED BY <2>1, <2>2, <2>3, UpTo
<1>13. borrow \in [0 .. n -> {0, 1}]
  BY <1>11, <1>12
<1>14. \A i \in 1 .. n : rest[i] = (s[i] - borrow[i - 1] - d[i]) % Base
  OBVIOUS
<1>15. rest \in [1 .. n -> Limb]
  <2>1. ASSUME NEW i \in 1 .. n PROVE (s[i] - borrow[i - 1] - d[i]) % Base \in Limb
    <3>1. i - 1 \in 0 .. n
      BY <1>2
    <3>2. s[i] \in Limb /\ d[i] \in Limb /\ borrow[i - 1] \in {0, 1}
      BY <1>4, <1>5, <1>13, <3>1
    <3> QED BY <3>2, SubRound
  <2> QED BY <2>1
<1> HIDE DEF rest
<1>16. Subtracted(n, s, d, borrow, rest)
  <2>1. \A i \in 1 .. n : borrow[i] = BorrowOut(s[i], d[i], borrow[i - 1])
    BY <1>11
  <2>2. borrow[0] = 0
    BY <1>11
  <2> QED BY <1>4, <1>5, <1>13, <1>14, <1>15, <2>1, <2>2 DEF Subtracted
<1>17. rest \in Seq(Limb) /\ Len(rest) = n
  BY <1>2, <1>15, LengthOf
<1>18. ASSUME a.data = b.data \/ Above(a, b) PROVE Magnitude(rest) = Magnitude(a.data) - Magnitude(b.data)
  <2>1. s = d \/ \E k \in 1 .. n : s[k] > d[k] /\ \A i \in k + 1 .. n : s[i] = d[i]
    BY <1>3, <1>18
  <2>2. borrow[n] = 0
    BY <1>2, <1>16, <2>1, NoLastBorrow
  <2>3. Magnitude(rest) = Magnitude(s) - Magnitude(d)
    BY <1>2, <1>16, <2>2, DifferenceOfLimbs
  <2> QED BY <1>4, <1>5, <2>3
<1> QED BY <1>1, <1>17, <1>18 DEF n

\* No zero limb above the lowest is below one that is not zero.
NoGap(data) == \A i, j \in 2 .. Len(data) : i < j /\ data[i] = 0 => data[j] = 0

\* Where that is so, the limbs that the loop drops are leading zeros.
LEMMA ShortenedRight ==
  ASSUME NEW data \in Seq(Limb), Len(data) # 0
  PROVE  /\ Shortened(data) \in Seq(Limb) /\ Len(Shortened(data)) \in 1 .. Len(data)
         /\ NoGap(data) => Topped(Shortened(data)) /\ Magnitude(Shortened(data)) = Magnitude(data)
<1> DEFINE n == Len(data)
           zeros == {i \in 2 .. n : data[i] = 0}
           k == n - Cardinality(zeros)
<1>1. n \in Nat \ {0} /\ \A i \in 1 .. n : data[i] \in Limb
  <2> HIDE DEF Limb
  <2> QED OBVIOUS
<1>2. Shortened(data) = SubSeq(data, 1, k)
  BY DEF Shortened
<1> HIDE DEF n
<1>3. IsFiniteSet(2 .. n) /\ Cardinality(2 .. n) = n - 1
  <2>0. 2 \in Int /\ n \in Int
    BY <1>1
  <2>1. IsFiniteSet(2 .. n) /\ Cardinality(2 .. n) = IF 2 > n THEN 0 ELSE n - 2 + 1
    BY <2>0, FS_Interval
  <2>2. (IF 2 > n THEN 0 ELSE n - 2 + 1) = n - 1
    BY <1>1
  <2> QED BY <2>1, <2>2
<1>4. IsFiniteSet(zeros) /\ Cardinality(zeros) \in Nat /\ Cardinality(zeros) <= n - 1
  <2>1. zeros \subseteq 2 .. n
    OBVIOUS
  <2>2. IsFiniteSet(zeros) /\ Cardinality(zeros) <= Cardinality(2 .. n)
    BY <1>3, <2>1, FS_Subset
  <2>3. Cardinality(zeros) \in Nat
    BY <2>2, FS_CardinalityType
  <2> HIDE DEF zeros
  <2> QED BY <1>3, <2>2, <2>3
<1>5. k \in 1 .. n
  <2> HIDE DEF zeros
  <2> QED BY <1>1, <1>4
<1> DEFINE short == SubSeq(data, 1, k)
<1> HIDE DEF k
<1>6. short \in Seq(Limb) /\ Len(short) = k /\ \A i \in 1 .. k : short[i] = data[i]
  <2> HIDE DEF Limb
  <2> QED BY <1>5 DEF n
<1>7. ASSUME NoGap(data)
      PROVE  (k > 1 => data[k] # 0) /\ \A i \in k + 1 .. n : data[i] = 0
  <2>1. CASE zeros = {}
    <3>1. Cardinality(zeros) = 0
      BY <2>1, FS_EmptySet
    <3>2. k = n
      BY <1>1, <3>1 DEF k
    <3>3. k > 1 => k \in 2 .. n
      BY <1>1, <3>2
    <3> QED BY <1>1, <2>1, <3>2, <3>3
  <2>2. CASE zeros # {}
    <3>1. PICK z \in zeros : \A y \in zeros : z <= y
      <4>1. zeros \subseteq Nat
        OBVIOUS
      <4> HIDE DEF zeros
      <4> QED BY <2>2, <4>1, LeastNumber
    <3>2. z \in 2 .. n /\ data[z] = 0
      OBVIOUS
    <3>3. zeros = z .. n
      <4>1. ASSUME NEW y \in zeros PROVE y \in z .. n
        <5>1. z <= y
          <6> HIDE DEF zeros
          <6> QED BY <3>1
        <5> QED BY <3>2, <5>1
      <4>2. ASSUME NEW y \in z .. n PROVE y \in zeros
        <5>1. y \in 2 .. n /\ (y = z \/ z < y)
          BY <3>2
        <5>2. data[y] = 0
          BY <1>7, <3>2, <5>1 DEF NoGap, n
        <5> QED BY <5>1, <5>2
      <4> HIDE DEF zeros
      <4> QED BY <4>1, <4>2
    <3>4. Cardinality(zeros) = n - z + 1
      <4>1. Cardinality(z .. n) = IF z > n THEN 0 ELSE n - z + 1
        BY <1>1, <3>2, FS_Interval
      <4>2. ~(z > n)
        <5>1. z \in Int /\ n \in Int /\ z <= n
          BY <1>1, <3>2
        <5> QED BY <5>1
      <4> QED BY <3>3, <4>1, <4>2, Zenon
    <3>5. k = z - 1
      BY <1>1, <3>2, <3>4 DEF k
    <3>6. \A i \in k + 1 .. n : data[i] = 0
      <4>1. \A i \in k + 1 .. n : i \in z .. n
        BY <3>2, <3>5
      <4> QED BY <3>3, <4>1
    <3>7. ASSUME k > 1 PROVE data[k] # 0
      <4>1. k \in 2 .. n /\ k \notin z .. n
        <5>1. z \in Nat /\ z >= 2 /\ z <= n
          BY <1>1, <3>2
        <5>2. ~(z <= k)
          BY <3>5, <5>1
        <5> QED BY <1>1, <3>5, <3>7, <5>1, <5>2
      <4>2. k \notin zeros
        <5> HIDE DEF zeros
        <5> QED BY <3>3, <4>1
      <4> QED BY <4>1, <4>2
    <3> QED BY <3>6, <3>7
  <2> QED BY <2>1, <2>2
<1>8. ASSUME NoGap(data) PROVE Topped(short) /\ Magnitude(short) = Magnitude(data)
  <2>1. Topped(short)
    <3>1. k \in 1 .. k /\ short[k] = data[k]
      BY <1>5, <1>6
    <3> QED BY <1>5, <1>6, <1>7, <1>8, <3>1 DEF Topped
  <2>2. Resized(short, n) = data
    <3>1. data = [i \in 1 .. n |-> data[i]]
      <4> HIDE DEF Limb
      <4> QED BY DEF n
    <3>2. \A i \in 1 .. n : (IF i <= k THEN short[i] ELSE 0) = data[i]
      <4>1. TAKE i \in 1 .. n
      <4>2. (i <= k => i \in 1 .. k) /\ (~(i <= k) => i \in k + 1 .. n)
        BY <1>5
      <4> HIDE DEF short
      <4> QED BY <1>6, <1>7, <1>8, <4>2
    <3>3. Resized(short, n) = [i \in 1 .. n |-> IF i <= k THEN short[i] ELSE 0]
      BY <1>6 DEF Resized
    <3> HIDE DEF short
    <3> QED BY <3>1, <3>2, <3>3
  <2> HIDE DEF short
  <2>3. Magnitude(Resized(short, n)) = Magnitude(short)
    <3>1. n \in Nat /\ n >= Len(short)
      BY <1>1, <1>5, <1>6
    <3> QED BY <1>6, <3>1, Resizing
  <2> QED BY <2>1, <2>2, <2>3
<1> HIDE DEF short
<1>9. Shortened(data) = short
  BY <1>2 DEF short
<1> QED BY <1>5, <1>6, <1>8, <1>9 DEF n

\* Zero is the number without a limb that is not.
LEMMA MagnitudeZero ==
  ASSUME NEW data \in Seq(Limb), Len(data) # 0
  PROVE  /\ (\A i \in 1 .. Len(data) : data[i] = 0) => Magnitude(data) = 0
         /\ data[Len(data)] # 0 => Magnitude(data) > 0
<1>1. data \in Seq(Nat) /\ Len(data) \in Nat \ {0} /\ Base \in Nat \ {0}
  BY MagnitudeType, WidthType
<1>2. ASSUME \A i \in 1 .. Len(data) : data[i] = 0 PROVE Magnitude(data) = 0
  <2> DEFINE g == [i \in 1 .. Len(data) + 1 |-> 0]
  <2>1. Base * 0 + 0 = 0
    BY <1>1
  <2>2. Tops(g, data)
    BY <1>1, <1>2, <2>1 DEF Tops
  <2>3. Magnitude(data) = g[1]
    <3> HIDE DEF g
    <3> QED BY <1>1, <2>2, MagnitudeIs
  <2> QED BY <1>1, <2>3
<1>3. ASSUME data[Len(data)] # 0 PROVE Magnitude(data) > 0
  <2> DEFINE up == Reverse(data)
  <2>1. up \in Seq(Nat) /\ Len(up) = Len(data) /\ \A i \in 1 .. Len(data) : up[i] = data[(Len(data) - i) + 1]
    BY <1>1, ReverseIs
  <2> HIDE DEF up
  <2>2. 1 \in 1 .. Len(data) /\ (Len(data) - 1) + 1 = Len(data)
    BY <1>1
  <2>3. up[1] # 0 /\ Len(up) >= 1
    BY <1>1, <1>3, <2>1, <2>2
  <2>4. Numeral(Base, up) > 0
    BY <1>1, <2>1, <2>3, NumeralPositive
  <2> QED BY <2>4 DEF Magnitude, up
<1> QED BY <1>2, <1>3

\* which in its one representation is all that is 0.
LEMMA ProperZero ==
  ASSUME NEW ap, Proper(ap)
  PROVE  /\ Magnitude(ap.data) \in Nat /\ (IsZero(ap) <=> Magnitude(ap.data) = 0)
         /\ ~IsZero(ap) => ap.data[Len(ap.data)] # 0
<1>1. /\ ap \in Numbers /\ Topped(ap.data) /\ ap.data \in Seq(Limb) /\ Len(ap.data) \in Nat \ {0}
  BY NumbersAre DEF Proper
<1>2. Magnitude(ap.data) \in Nat
  BY <1>1, MagnitudeType
<1>3. ~IsZero(ap) => ap.data[Len(ap.data)] # 0
  <2>1. SUFFICES ASSUME ap.data[Len(ap.data)] = 0 PROVE IsZero(ap)
    OBVIOUS
  <2>2. Len(ap.data) = 1
    BY <1>1, <2>1 DEF Topped
  <2>3. \A i \in 1 .. 1 : i = 1
    OBVIOUS
  <2> QED BY <2>1, <2>2, <2>3 DEF IsZero
<1>4. (IsZero(ap) => Magnitude(ap.data) = 0) /\ (~IsZero(ap) => Magnitude(ap.data) > 0)
  BY <1>1, <1>3, MagnitudeZero DEF IsZero
<1> QED BY <1>2, <1>3, <1>4

\* apint_negate
LEMMA NegRight ==
  /\ \A ap \in Numbers : Neg(ap) \in Numbers /\ Neg(ap).data = ap.data
  /\ \A ap : Proper(ap) =>
       /\ Proper(Neg(ap)) /\ ValueOf(ap) \in Int /\ ValueOf(Neg(ap)) = 0 - ValueOf(ap)
       /\ ap.sign = 1 => Neg(ap).sign = 0
       /\ ap.sign = 0 /\ ~IsZero(ap) => Neg(ap).sign = 1
<1>1. ASSUME NEW ap \in Numbers
      PROVE  /\ Neg(ap) \in Numbers /\ Neg(ap).data = ap.data
             /\ Neg(ap).sign = IF IsZero(ap) THEN ap.sign ELSE 1 - ap.sign
  <2>1. /\ ap.data \in Seq(Limb) /\ Len(ap.data) # 0 /\ ap.sign \in {0, 1}
        /\ [ap EXCEPT !.sign = 1 - @] = Number(ap.data, 1 - ap.sign)
    BY NumbersAre
  <2>2. 1 - ap.sign \in {0, 1}
    BY <2>1
  <2>3. /\ Number(ap.data, 1 - ap.sign) \in Numbers
        /\ Number(ap.data, 1 - ap.sign).data = ap.data
        /\ Number(ap.data, 1 - ap.sign).sign = 1 - ap.sign
    BY <2>1, <2>2, NumbersAre
  <2> QED BY <2>1, <2>3 DEF Neg
<1>2. ASSUME NEW ap, Proper(ap)
      PROVE  /\ Proper(Neg(ap)) /\ ValueOf(ap) \in Int /\ ValueOf(Neg(ap)) = 0 - ValueOf(ap)
             /\ ap.sign = 1 => Neg(ap).sign = 0
             /\ ap.sign = 0 /\ ~IsZero(ap) => Neg(ap).sign = 1
  <2>1. /\ ap \in Numbers /\ Topped(ap.data) /\ (IsZero(ap) => ap.sign = 0) /\ ap.sign \in {0, 1}
    BY <1>2, NumbersAre DEF Proper
  <2>2. PICK m \in Nat : m = Magnitude(ap.data) /\ (IsZero(ap) => m = 0)
    BY <1>2, ProperZero
  <2>3. /\ Neg(ap) \in Numbers /\ Neg(ap).data = ap.data
        /\ Neg(ap).sign = IF IsZero(ap) THEN ap.sign ELSE 1 - ap.sign
    BY <1>1, <2>1
  <2>4. ValueOf(ap) = IF ap.sign = 1 THEN -m ELSE m
    BY <2>2 DEF ValueOf
  <2>5. ValueOf(Neg(ap)) = IF Neg(ap).sign = 1 THEN -m ELSE m
    BY <2>2, <2>3 DEF ValueOf
  <2>6. IsZero(Neg(ap)) <=> IsZero(ap)
    BY <2>3 DEF IsZero
  <2>7. Proper(Neg(ap))
    BY <2>1, <2>3, <2>6 DEF Proper
  <2>8. ValueOf(ap) \in Int
    BY <2>4
  <2>9. ValueOf(Neg(ap)) = 0 - ValueOf(ap)
    <3>1. CASE IsZero(ap)
      BY <2>1, <2>2, <2>3, <2>4, <2>5, <3>1
    <3>2. CASE ~IsZero(ap) /\ ap.sign = 1
      <4>1. Neg(ap).sign = 0
        BY <2>3, <3>2
      <4> QED BY <2>4, <2>5, <3>2, <4>1
    <3>3. CASE ~IsZero(ap) /\ ap.sign = 0
      <4>1. Neg(ap).sign = 1
        BY <2>3, <3>3
      <4> QED BY <2>4, <2>5, <3>3, <4>1
    <3> QED BY <2>1, <3>1, <3>2, <3>3
  <2>10. (ap.sign = 1 => Neg(ap).sign = 0) /\ (ap.sign = 0 /\ ~IsZero(ap) => Neg(ap).sign = 1)
    BY <2>1, <2>3
  <2> QED BY <2>7, <2>8, <2>9, <2>10
<1> QED BY <1>1, <1>2

\* The rest of apint_sub, for numbers of one sign.
LEMMA SubMagnitudesRight ==
  ASSUME NEW a \in Numbers, NEW b \in Numbers
  PROVE  /\ SubMagnitudes(a, b) \in Numbers
         /\ NoGap(Differences(a, b)) /\ (a.data = b.data \/ Above(a, b)) /\ a.sign = b.sign =>
              Proper(SubMagnitudes(a, b)) /\ ValueOf(SubMagnitudes(a, b)) = ValueOf(a) - ValueOf(b)
<1> DEFINE rest == Differences(a, b)
           short == Shortened(rest)
           ap == Number(short, a.sign)
           p == SubMagnitudes(a, b)
<1>1. rest \in Seq(Limb) /\ Len(rest) # 0
      /\ (a.data = b.data \/ Above(a, b) => Magnitude(rest) = Magnitude(a.data) - Magnitude(b.data))
  <2>1. MaxLenOf(a, b) # 0
    BY MaxLenIs
  <2> QED BY <2>1, DifferencesRight
<1>2. p = IF IsZero(ap) THEN [ap EXCEPT !.sign = 0] ELSE ap
  BY Zenon DEF SubMagnitudes
<1> HIDE DEF rest
<1>3. /\ short \in Seq(Limb) /\ Len(short) # 0
      /\ NoGap(rest) => Topped(short) /\ Magnitude(short) = Magnitude(rest)
  <2>1. /\ short \in Seq(Limb) /\ Len(short) \in 1 .. Len(rest)
        /\ NoGap(rest) => Topped(short) /\ Magnitude(short) = Magnitude(rest)
    BY <1>1, ShortenedRight
  <2>2. Len(short) # 0
    BY <2>1
  <2> QED BY <2>1, <2>2
<1> HIDE DEF short
<1>4. a.sign \in {0, 1}
  BY NumbersAre
<1>5. /\ ap \in Numbers /\ ap.data = short /\ ap.sign = a.sign
      /\ Number(short, 0) \in Numbers /\ Number(short, 0).data = short /\ Number(short, 0).sign = 0
  <2>1. 0 \in {0, 1}
    OBVIOUS
  <2> QED BY <1>3, <1>4, <2>1, NumbersAre
<1> HIDE DEF ap
<1>6. [ap EXCEPT !.sign = 0] = Number(short, 0)
  BY <1>5, NumbersAre
<1>7. p \in Numbers /\ p.data = short /\ p.sign = IF IsZero(ap) THEN 0 ELSE a.sign
  BY <1>2, <1>5, <1>6
<1> HIDE DEF p
<1>8. ASSUME NoGap(rest), a.data = b.data \/ Above(a, b), a.sign = b.sign
      PROVE  Proper(p) /\ ValueOf(p) = ValueOf(a) - ValueOf(b)
  <2>1. IsZero(p) <=> IsZero(ap)
    BY <1>5, <1>7 DEF IsZero
  <2>2. Proper(p)
    BY <1>3, <1>7, <1>8, <2>1 DEF Proper
  <2>3. PICK x \in Nat, y \in Nat : x = Magnitude(a.data) /\ y = Magnitude(b.data)
    BY NumbersAre, MagnitudeType
  <2>4. Magnitude(p.data) = x - y
    BY <1>1, <1>3, <1>7, <1>8, <2>3
  <2>5. ValueOf(a) = (IF a.sign = 1 THEN -x ELSE x) /\ ValueOf(b) = (IF a.sign = 1 THEN -y ELSE y)
    BY <1>8, <2>3 DEF ValueOf
  <2>6. ValueOf(p) = IF p.sign = 1 THEN -(x - y) ELSE x - y
    BY <2>4 DEF ValueOf
  <2>7. CASE IsZero(p)
    <3>1. x - y = 0
      BY <2>2, <2>4, <2>7, ProperZero
    <3> QED BY <1>4, <2>2, <2>5, <2>6, <3>1
  <2>8. CASE ~IsZero(p)
    <3>1. p.sign = a.sign
      BY <1>7, <2>1, <2>8
    <3> QED BY <1>4, <2>2, <2>5, <2>6, <3>1
  <2> QED BY <2>7, <2>8
<1> QED BY <1>7, <1>8 DEF p, rest

\* apint_sub for numbers of one sign.
LEMMA SubSameSignRight ==
  ASSUME NEW a \in Numbers, NEW b \in Numbers
  PROVE  /\ SubSameSign(a, b) \in Numbers
         /\ Proper(a) /\ Proper(b) /\ a.sign = b.sign /\ ~LosesTop(a, b) =>
              Proper(SubSameSign(a, b)) /\ ValueOf(SubSameSign(a, b)) = ValueOf(a) - ValueOf(b)
<1>1. SubSameSign(a, b) \in Numbers
  BY SubMagnitudesRight, NegRight DEF SubSameSign
<1>2. ASSUME Proper(a), Proper(b), a.sign = b.sign, ~LosesTop(a, b)
      PROVE  Proper(SubSameSign(a, b)) /\ ValueOf(SubSameSign(a, b)) = ValueOf(a) - ValueOf(b)
  <2>1. PICK x \in Int, y \in Int : x = ValueOf(a) /\ y = ValueOf(b)
    BY <1>2, NegRight
  <2>2. CASE Swaps(a, b)
    <3>1. Above(b, a)
      BY <1>2, <2>2, SwapsRight
    <3>2. NoGap(Differences(b, a))
      BY <1>2, <2>2 DEF LosesTop, NoGap
    <3>3. Proper(SubMagnitudes(b, a)) /\ ValueOf(SubMagnitudes(b, a)) = y - x
      BY <1>2, <2>1, <3>1, <3>2, SubMagnitudesRight
    <3>4. Proper(Neg(SubMagnitudes(b, a))) /\ ValueOf(Neg(SubMagnitudes(b, a))) = 0 - (y - x)
      BY <3>3, NegRight
    <3>5. 0 - (y - x) = x - y
      OBVIOUS
    <3>6. SubSameSign(a, b) = Neg(SubMagnitudes(b, a))
      BY <2>2 DEF SubSameSign
    <3> QED BY <2>1, <3>4, <3>5, <3>6
  <2>3. CASE ~Swaps(a, b)
    <3>1. a.data = b.data \/ Above(a, b)
      BY <1>2, <2>3, SwapsRight
    <3>2. NoGap(Differences(a, b))
      BY <1>2, <2>3 DEF LosesTop, NoGap
    <3>3. SubSameSign(a, b) = SubMagnitudes(a, b)
      BY <2>3 DEF SubSameSign
    <3> QED BY <1>2, <3>1, <3>2, <3>3, SubMagnitudesRight
  <2> QED BY <2>2, <2>3
<1> QED BY <1>1, <1>2

\* apint_add
LEMMA AddRight ==
  ASSUME NEW a \in Numbers, NEW b \in Numbers
  PROVE  /\ AddNumbers(a, b) \in Numbers
         /\ Proper(a) /\ Proper(b) /\ ~AddLosesTop(a, b) =>
              Proper(AddNumbers(a, b)) /\ ValueOf(AddNumbers(a, b)) = ValueOf(a) + ValueOf(b)
<1>1. a.sign \in {0, 1} /\ b.sign \in {0, 1}
  BY NumbersAre
<1>2. AddNumbers(a, b) \in Numbers
  BY AddMagnitudesRight, SubSameSignRight, NegRight DEF AddNumbers
<1>3. ASSUME Proper(a), Proper(b), ~AddLosesTop(a, b)
      PROVE  Proper(AddNumbers(a, b)) /\ ValueOf(AddNumbers(a, b)) = ValueOf(a) + ValueOf(b)
  <2>1. PICK x \in Int, y \in Int : x = ValueOf(a) /\ y = ValueOf(b)
    BY <1>3, NegRight
  <2>2. CASE a.sign = b.sign
    <3> DEFINE p == AddMagnitudes(a, b)
    <3>1. PICK m \in Nat, n \in Nat :
            /\ m = Magnitude(a.data) /\ n = Magnitude(b.data)
            /\ (IsZero(a) <=> m = 0)
      BY <1>3, ProperZero
    <3>2. /\ p \in Numbers /\ p.sign = a.sign /\ Magnitude(p.data) = m + n /\ Topped(p.data)
      BY <1>3, <3>1, AddMagnitudesRight DEF Proper
    <3>3. p = AddNumbers(a, b)
      BY <2>2 DEF AddNumbers
    <3> HIDE DEF p
    <3>4. IsZero(p) => p.sign = 0
      <4>1. SUFFICES ASSUME IsZero(p) PROVE a.sign = 0
        BY <3>2
      <4>2. p.data \in Seq(Limb) /\ Len(p.data) # 0
        BY <3>2, NumbersAre
      <4>3. Magnitude(p.data) = 0
        BY <4>1, <4>2, MagnitudeZero DEF IsZero
      <4>4. m = 0
        BY <3>2, <4>3
      <4> QED BY <1>3, <3>1, <4>4 DEF Proper
    <3>5. Proper(p)
      BY <3>2, <3>4 DEF Proper
    <3>6. /\ x = (IF a.sign = 1 THEN -m ELSE m) /\ y = (IF a.sign = 1 THEN -n ELSE n)
          /\ ValueOf(p) = (IF a.sign = 1 THEN -(m + n) ELSE m + n)
      BY <2>1, <2>2, <3>1, <3>2 DEF ValueOf
    <3>7. ValueOf(p) = x + y
      BY <1>1, <3>6
    <3> QED BY <2>1, <3>3, <3>5, <3>7
  <2>3. CASE a.sign = 1 /\ b.sign = 0
    <3>1. Proper(Neg(a)) /\ Neg(a) \in Numbers /\ Neg(a).sign = 0 /\ ValueOf(Neg(a)) = 0 - x
      BY <1>3, <2>1, <2>3, NegRight
    <3>2. AddNumbers(a, b) = SubSameSign(b, Neg(a)) /\ ~LosesTop(b, Neg(a))
      BY <1>3, <2>3 DEF AddNumbers, AddLosesTop
    <3>3. Proper(SubSameSign(b, Neg(a))) /\ ValueOf(SubSameSign(b, Neg(a))) = y - (0 - x)
      BY <1>3, <2>1, <2>3, <3>1, <3>2, SubSameSignRight
    <3>4. y - (0 - x) = x + y
      OBVIOUS
    <3> QED BY <2>1, <3>2, <3>3, <3>4
  <2>4. CASE a.sign = 0 /\ b.sign = 1
    <3>1. Proper(Neg(b)) /\ Neg(b) \in Numbers /\ Neg(b).sign = 0 /\ ValueOf(Neg(b)) = 0 - y
      BY <1>3, <2>1, <2>4, NegRight
    <3>2. AddNumbers(a, b) = SubSameSign(a, Neg(b)) /\ ~LosesTop(a, Neg(b))
      BY <1>3, <2>4 DEF AddNumbers, AddLosesTop
    <3>3. Proper(SubSameSign(a, Neg(b))) /\ ValueOf(SubSameSign(a, Neg(b))) = x - (0 - y)
      BY <1>3, <2>1, <2>4, <3>1, <3>2, SubSameSignRight
    <3>4. x - (0 - y) = x + y
      OBVIOUS
    <3> QED BY <2>1, <3>2, <3>3, <3>4
  <2> QED BY <1>1, <2>2, <2>3, <2>4
<1> QED BY <1>2, <1>3

\* apint_sub
LEMMA SubRight ==
  ASSUME NEW a \in Numbers, NEW b \in Numbers
  PROVE  /\ SubNumbers(a, b) \in Numbers
         /\ Proper(a) /\ Proper(b) /\ ~SubLosesTop(a, b) =>
              Proper(SubNumbers(a, b)) /\ ValueOf(SubNumbers(a, b)) = ValueOf(a) - ValueOf(b)
<1>1. SubNumbers(a, b) \in Numbers
  BY AddRight, SubSameSignRight, NegRight DEF SubNumbers
<1>2. ASSUME Proper(a), Proper(b), ~SubLosesTop(a, b)
      PROVE  Proper(SubNumbers(a, b)) /\ ValueOf(SubNumbers(a, b)) = ValueOf(a) - ValueOf(b)
  <2>1. PICK x \in Int, y \in Int : x = ValueOf(a) /\ y = ValueOf(b)
    BY <1>2, NegRight
  <2>2. CASE a.sign = b.sign
    <3>1. SubNumbers(a, b) = SubSameSign(a, b) /\ ~LosesTop(a, b)
      BY <1>2, <2>2 DEF SubNumbers, SubLosesTop
    <3> QED BY <1>2, <2>2, <3>1, SubSameSignRight
  <2>3. CASE a.sign # b.sign
    <3>1. Proper(Neg(b)) /\ Neg(b) \in Numbers /\ ValueOf(Neg(b)) = 0 - y
      BY <1>2, <2>1, NegRight
    <3>2. SubNumbers(a, b) = AddNumbers(a, Neg(b)) /\ ~AddLosesTop(a, Neg(b))
      BY <1>2, <2>3 DEF SubNumbers, SubLosesTop
    <3>3. Proper(AddNumbers(a, Neg(b))) /\ ValueOf(AddNumbers(a, Neg(b))) = x + (0 - y)
      BY <1>2, <2>1, <3>1, <3>2, AddRight
    <3>4. x + (0 - y) = x - y
      OBVIOUS
    <3> QED BY <2>1, <3>2, <3>3, <3>4
  <2> QED BY <2>2, <2>3
<1> QED BY <1>1, <1>2

-----------------------------------------------------------------------------
(* Shifts.                                                                  *)

\* One limb of a shift: the bits that leave it, and those that stay.
LEMMA ShiftRound ==
  ASSUME NEW x \in Limb, NEW shift \in 1 .. W
  PROVE  LET q == 2^shift
             out == x \div 2^(W - shift)
             stay == (x * q) % Base
         IN  /\ q \in Nat \ {0} /\ out \in 0 .. q - 1 /\ stay \in 0 .. Base - q
             /\ x * q = Base * out + stay
             /\ out \in Limb
<1>1. W \in Nat \ {0} /\ Base = 2^W /\ Base \in Nat \ {0, 1}
  BY WidthType
<1>2. shift \in Nat /\ W - shift \in Nat /\ shift + (W - shift) = W
  BY <1>1
<1>3. PICK q \in Nat \ {0} : q = 2^shift
  BY <1>2, PowerPositive
<1>4. PICK h \in Nat \ {0} : h = 2^(W - shift)
  BY <1>2, PowerPositive
<1>5. PICK B \in Nat \ {0, 1} : B = Base /\ B = q * h
  <2>1. 2^(shift + (W - shift)) = 2^shift * 2^(W - shift)
    BY <1>2, PowerSum
  <2> QED BY <1>1, <1>2, <1>3, <1>4, <2>1
<1>6. x \in 0 .. B - 1
  BY <1>5 DEF Limb
<1>7. PICK d \in Nat, m \in 0 .. h - 1 : d = x \div h /\ m = x % h /\ x = h * d + m
  <2>1. x \in Nat
    BY <1>6
  <2>2. x \div h \in Nat /\ x % h \in 0 .. h - 1 /\ x = h * (x \div h) + (x % h)
    BY <2>1, NatDivision
  <2> QED BY <2>2
<1>8. PICK w \in Nat : w = h * d
  OBVIOUS
<1>9. d < q
  <2>1. SUFFICES ASSUME q <= d PROVE FALSE
    OBVIOUS
  <2>2. h * q <= h * d
    BY <2>1, TimesKeeps
  <2>3. h * q = B
    BY <1>5
  <2> QED BY <1>6, <1>7, <1>8, <2>2, <2>3
<1>10. PICK s \in Nat : s = q * m
  OBVIOUS
<1>11. s <= B - q
  <2>1. q * m <= q * (h - 1)
    BY TimesKeeps
  <2>2. q * (h - 1) = q * h - q
    OBVIOUS
  <2> QED BY <1>5, <1>10, <2>1, <2>2
<1>12. x * q = B * d + s
  <2>1. (h * d + m) * q = q * h * d + q * m
    OBVIOUS
  <2>2. q * h * d = B * d
    BY <1>5
  <2> QED BY <1>7, <1>10, <2>1, <2>2
<1>13. (x * q) % B = s
  <2>1. s \in 0 .. B - 1
    BY <1>11
  <2>2. PICK y \in Nat : y = x * q
    BY <1>6
  <2>3. y = B * d + s
    BY <1>12, <2>2
  <2>4. y % B = s
    BY <2>1, <2>3, QuotientIs
  <2> QED BY <2>2, <2>4
<1>14. q <= B
  BY <1>11
<1>15. d \in 0 .. q - 1 /\ s \in 0 .. B - q /\ d \in 0 .. B - 1
  BY <1>9, <1>11, <1>14
<1>16. x \div 2^(W - shift) = d /\ (x * q) % Base = s
  BY <1>4, <1>5, <1>7, <1>13
<1>17. d \in Limb
  BY <1>5, <1>15 DEF Limb
<1> QED BY <1>3, <1>5, <1>12, <1>15, <1>16, <1>17

\* The part of apint_lshift_n that shifts by at most a limb.
LEMMA ShiftInsideRight ==
  ASSUME NEW data \in Seq(Limb), Len(data) # 0, NEW shift \in 1 .. W
  PROVE  /\ ShiftInside(data, shift) \in Seq(Limb)
         /\ Len(ShiftInside(data, shift)) \in {Len(data), Len(data) + 1}
         /\ Magnitude(ShiftInside(data, shift)) = Magnitude(data) * 2^shift
         /\ Topped(data) => Topped(ShiftInside(data, shift))
<1> DEFINE n == Len(data)
           Carry(i) == IF i = 0 THEN 0 ELSE data[i] \div 2^(W - shift)
           low == [i \in 1 .. n |-> ((data[i] * 2^shift) % Base) + Carry(i - 1)]
           all == IF Carry(n) # 0 THEN Append(low, Carry(n)) ELSE low
<1>1. ShiftInside(data, shift) = all
  BY Zenon DEF ShiftInside
<1>2. data \in Seq(Nat) /\ n \in Nat \ {0} /\ \A i \in 1 .. n : data[i] \in Limb
  <2>1. data \in Seq(Nat)
    BY MagnitudeType
  <2> HIDE DEF Limb
  <2> QED BY <2>1
<1> HIDE DEF n
<1>3. PICK B \in Nat \ {0, 1}, q \in Nat \ {0} : B = Base /\ q = 2^shift
  <2>1. shift \in Nat
    BY WidthType
  <2>2. 2^shift \in Nat \ {0}
    BY <2>1, PowerPositive
  <2> QED BY <2>2, WidthType
<1> DEFINE Stay(i) == (data[i] * q) % Base
<1>4. ASSUME NEW i \in 1 .. n
      PROVE  /\ Carry(i) \in 0 .. q - 1 /\ Stay(i) \in 0 .. B - q /\ Carry(i) \in Limb
             /\ data[i] * q = B * Carry(i) + Stay(i)
  <2>1. data[i] \in Limb /\ Carry(i) = data[i] \div 2^(W - shift)
    BY <1>2
  <2> QED BY <1>3, <2>1, ShiftRound
<1>5. Carry(0) = 0 /\ \A i \in 0 .. n : Carry(i) \in 0 .. q - 1
  <2>1. Carry(0) = 0
    OBVIOUS
  <2>2. \A i \in 0 .. n : i = 0 \/ i \in 1 .. n
    BY <1>2
  <2>3. 0 \in 0 .. q - 1
    OBVIOUS
  <2> HIDE DEF Carry
  <2> QED BY <1>4, <2>1, <2>2, <2>3
<1>6. low = [i \in 1 .. n |-> Stay(i) + Carry(i - 1)]
  BY <1>3
<1> HIDE DEF Carry, Stay
<1>7. ASSUME NEW i \in 1 .. n PROVE Stay(i) + Carry(i - 1) \in 0 .. B - 1
  <2>1. i - 1 \in 0 .. n
    BY <1>2
  <2>2. PICK s \in 0 .. B - q, c \in 0 .. q - 1 : s = Stay(i) /\ c = Carry(i - 1)
    BY <1>4, <1>5, <2>1
  <2> QED BY <2>2
<1>8. low \in [1 .. n -> Limb] /\ \A i \in 1 .. n : low[i] = Stay(i) + Carry(i - 1)
  <2>1. 0 .. B - 1 = Limb
    BY <1>3 DEF Limb
  <2> QED BY <1>6, <1>7, <2>1
<1> HIDE DEF low
<1>9. low \in Seq(Limb) /\ Len(low) = n
  BY <1>2, <1>8, LengthOf
<1>10. n \in 1 .. n /\ n \in 0 .. n /\ Carry(n) \in Limb
  <2>1. n \in 1 .. n /\ n \in 0 .. n
    BY <1>2
  <2> QED BY <1>4, <2>1
<1>11. /\ all \in Seq(Limb) /\ Len(all) = IF Carry(n) # 0 THEN n + 1 ELSE n
       /\ \A i \in 1 .. n : all[i] = low[i]
       /\ Carry(n) # 0 => all[n + 1] = Carry(n)
  <2> HIDE DEF Limb
  <2>1. CASE Carry(n) = 0
    BY <1>9, <2>1
  <2>2. CASE Carry(n) # 0
    <3>1. all = Append(low, Carry(n))
      BY <2>2
    <3>2. /\ Append(low, Carry(n)) \in Seq(Limb) /\ Len(Append(low, Carry(n))) = n + 1
          /\ \A i \in 1 .. n : Append(low, Carry(n))[i] = low[i]
          /\ Append(low, Carry(n))[n + 1] = Carry(n)
      BY <1>2, <1>9, <1>10
    <3> HIDE DEF all
    <3> QED BY <2>2, <3>1, <3>2
  <2> QED BY <2>1, <2>2
<1> HIDE DEF all
<1>12. PICK X \in [1 .. n + 1 -> Nat] :
         X[n + 1] = 0 /\ (\A i \in 1 .. n : X[i] = B * X[i + 1] + data[i]) /\ Magnitude(data) = X[1]
  <2>1. \E g \in [1 .. Len(data) + 1 -> Nat] : Tops(g, data) /\ Magnitude(data) = g[1]
    BY <1>2, MagnitudeSteps
  <2>2. PICK g \in [1 .. n + 1 -> Nat] : Tops(g, data) /\ Magnitude(data) = g[1]
    BY <2>1 DEF n
  <2>3. g[n + 1] = 0 /\ \A i \in 1 .. n : g[i] = B * g[i + 1] + data[i]
    BY <1>3, <2>2 DEF Tops, n
  <2> QED BY <2>2, <2>3
<1> DEFINE f == [i \in 1 .. n + 2 |-> IF i <= n + 1 THEN X[i] * q + Carry(i - 1) ELSE 0]
<1>13. /\ \A i \in 1 .. n : f[i] = X[i] * q + Carry(i - 1) /\ f[i + 1] = X[i + 1] * q + Carry(i)
       /\ f[1] = X[1] * q /\ f[n + 1] = Carry(n) /\ f[n + 2] = 0
  <2>1. \A i \in 1 .. n + 1 : f[i] = X[i] * q + Carry(i - 1)
    BY <1>2
  <2>2. f[n + 2] = 0
    BY <1>2
  <2> HIDE DEF f
  <2>3. ASSUME NEW i \in 1 .. n PROVE f[i] = X[i] * q + Carry(i - 1) /\ f[i + 1] = X[i + 1] * q + Carry(i)
    <3>1. i \in 1 .. n + 1 /\ i + 1 \in 1 .. n + 1 /\ (i + 1) - 1 = i
      BY <1>2
    <3>2. f[i + 1] = X[i + 1] * q + Carry((i + 1) - 1)
      BY <2>1, <3>1
    <3> QED BY <2>1, <3>1, <3>2, Zenon
  <2>4. f[1] = X[1] * q
    <3>1. 1 \in 1 .. n + 1 /\ 1 - 1 = 0
      BY <1>2
    <3>2. f[1] = X[1] * q + Carry(1 - 1)
      BY <2>1, <3>1
    <3>3. Carry(1 - 1) = 0
      BY <1>5, <3>1, Zenon
    <3>4. X[1] * q \in Nat
      BY <3>1
    <3> QED BY <3>2, <3>3, <3>4
  <2>5. f[n + 1] = Carry(n)
    <3>1. n + 1 \in 1 .. n + 1 /\ (n + 1) - 1 = n
      BY <1>2
    <3>2. f[n + 1] = X[n + 1] * q + Carry((n + 1) - 1)
      BY <2>1, <3>1
    <3>3. Carry((n + 1) - 1) = Carry(n)
      BY <3>1, Zenon
    <3>4. PICK c \in Nat : c = Carry(n)
      BY <1>5, <1>10
    <3>5. 0 * q + c = c
      OBVIOUS
    <3> QED BY <1>12, <3>2, <3>3, <3>4, <3>5
  <2> QED BY <2>2, <2>3, <2>4, <2>5
<1> HIDE DEF f
<1>14. ASSUME NEW i \in 1 .. n PROVE f[i] = B * f[i + 1] + low[i]
  <2>1. i \in 1 .. n + 1 /\ i + 1 \in 1 .. n + 1 /\ i - 1 \in 0 .. n /\ i \in 0 .. n
    BY <1>2
  <2>2. PICK x \in Nat, c \in Nat, o \in Nat, r \in Nat, u \in Nat :
          x = X[i + 1] /\ c = Carry(i - 1) /\ o = Carry(i) /\ r = Stay(i) /\ u = data[i]
    <3>1. X[i + 1] \in Nat
      BY <2>1
    <3>2. Carry(i - 1) \in Nat /\ Carry(i) \in Nat
      BY <1>5, <2>1
    <3>3. Stay(i) \in Nat
      BY <1>4
    <3>4. data[i] \in Nat
      BY <1>2, WidthType
    <3> QED BY <3>1, <3>2, <3>3, <3>4
  <2>3. u * q = B * o + r
    BY <1>4, <2>2
  <2>4. f[i] = (B * x + u) * q + c
    BY <1>12, <1>13, <2>2
  <2>5. f[i + 1] = x * q + o /\ low[i] = r + c
    BY <1>8, <1>13, <2>2
  <2>6. (B * x + u) * q + c = B * (x * q + o) + (r + c)
    <3>1. (B * x + u) * q = B * x * q + u * q
      OBVIOUS
    <3>2. PICK y \in Nat : y = x * q
      OBVIOUS
    <3>3. B * x * q = B * y
      BY <3>2
    <3>4. B * (y + o) = B * y + B * o
      OBVIOUS
    <3>5. PICK by \in Nat, bo \in Nat, uq \in Nat : by = B * y /\ bo = B * o /\ uq = u * q
      OBVIOUS
    <3>6. uq = bo + r /\ (B * x + u) * q = by + uq /\ B * (x * q + o) = by + bo
      BY <2>3, <3>1, <3>2, <3>3, <3>4, <3>5
    <3> QED BY <3>6
  <2> QED BY <2>4, <2>5, <2>6
<1>15. Tops(f, all)
  <2>1. CASE Carry(n) = 0
    <3>1. Len(all) = n /\ f[n + 1] = 0
      BY <1>11, <1>13, <2>1
    <3> QED BY <1>3, <1>11, <1>14, <3>1 DEF Tops
  <2>2. CASE Carry(n) # 0
    <3>1. PICK c \in Nat : c = Carry(n)
      BY <1>5, <1>10
    <3>2. (n + 1) + 1 = n + 2
      BY <1>2
    <3>3. Len(all) = n + 1 /\ f[(n + 1) + 1] = 0 /\ f[n + 1] = c /\ all[n + 1] = c
      BY <1>11, <1>13, <2>2, <3>1, <3>2
    <3>4. B * 0 + c = c
      OBVIOUS
    <3>5. f[n + 1] = B * f[(n + 1) + 1] + all[n + 1]
      BY <3>3, <3>4
    <3>6. \A i \in 1 .. n : f[i] = B * f[i + 1] + all[i]
      BY <1>11, <1>14
    <3>7. \A i \in 1 .. n + 1 : i \in 1 .. n \/ i = n + 1
      BY <1>2
    <3>8. \A i \in 1 .. n + 1 : f[i] = B * f[i + 1] + all[i]
      BY <3>5, <3>6, <3>7
    <3> QED BY <1>3, <3>3, <3>8 DEF Tops
  <2> QED BY <2>1, <2>2
<1>16. Magnitude(all) = Magnitude(data) * q
  <2>1. Magnitude(all) = f[1]
    BY <1>11, <1>15, MagnitudeIs, MagnitudeType
  <2> QED BY <1>12, <1>13, <2>1
<1>17. ASSUME Topped(data) PROVE Topped(all)
  <2>1. SUFFICES ASSUME all[Len(all)] = 0, n # 1 PROVE FALSE
    <3>1. CASE Carry(n) = 0
      BY <1>11, <2>1, <3>1 DEF Topped
    <3>2. CASE Carry(n) # 0
      BY <1>11, <3>2 DEF Topped
    <3> QED BY <3>1, <3>2
  <2>2. Carry(n) = 0 /\ low[n] = 0
    BY <1>10, <1>11, <2>1
  <2>3. data[n] # 0 /\ data[n] \in Nat
    BY <1>2, <1>10, <1>17, <2>1, WidthType DEF Topped, n
  <2>4. PICK u \in Nat \ {0}, r \in Nat, c \in Nat : u = data[n] /\ r = Stay(n) /\ c = Carry(n - 1)
    <3>1. n - 1 \in 0 .. n
      BY <1>2
    <3>2. Carry(n - 1) \in Nat
      BY <1>5, <3>1
    <3>3. Stay(n) \in Nat
      BY <1>4, <1>10
    <3> QED BY <2>3, <3>2, <3>3
  <2>5. r + c = 0
    BY <1>8, <1>10, <2>2, <2>4
  <2>6. u * q = B * 0 + r
    BY <1>4, <1>10, <2>2, <2>4
  <2>7. q * 1 <= q * u
    BY TimesKeeps
  <2> QED BY <2>5, <2>6, <2>7
<1> QED BY <1>1, <1>3, <1>11, <1>16, <1>17 DEF n

\* The part that shifts by whole limbs.
LEMMA ShiftLimbsRight ==
  ASSUME NEW data \in Seq(Limb), Len(data) # 0, NEW pow \in Nat, NEW junk \in [Gap(data, pow) -> Garbage]
  PROVE  /\ ShiftLimbs(data, pow, junk) \in Seq(Limb)
         /\ Len(ShiftLimbs(data, pow, junk)) = Len(data) + pow
         /\ Topped(data) /\ (pow = 0 \/ data[Len(data)] # 0) => Topped(ShiftLimbs(data, pow, junk))
         /\ Gap(data, pow) = {} =>
              Magnitude(ShiftLimbs(data, pow, junk)) = Magnitude(data) * 2^(W * pow)
<1> DEFINE n == Len(data)
           limb(i) == IF i > pow THEN data[i - pow] ELSE IF i <= n THEN 0 ELSE junk[i]
           all == [i \in 1 .. n + pow |-> limb(i)]
           P(k) == 2^(W * k)
<1>1. ShiftLimbs(data, pow, junk) = all
  BY DEF ShiftLimbs
<1>2. data \in Seq(Nat) /\ n \in Nat \ {0} /\ \A i \in 1 .. n : data[i] \in Limb
  <2>1. data \in Seq(Nat)
    BY MagnitudeType
  <2> HIDE DEF Limb
  <2> QED BY <2>1
<1>3. PICK B \in Nat \ {0, 1} : B = Base /\ \A k \in Nat : P(k) \in Nat \ {0} /\ P(k + 1) = B * P(k)
  <2>1. W \in Nat /\ Base \in Nat \ {0, 1} /\ Base = 2^W
    BY WidthType
  <2>2. \A k \in Nat : P(k) \in Nat \ {0} /\ P(k + 1) = 2^W * P(k)
    BY <2>1, PowerNext
  <2> QED BY <2>1, <2>2
<1>4. P(0) = 1
  <2>1. W * 0 = 0
    BY WidthType
  <2> QED BY <2>1, PowerZero
<1> HIDE DEF n, P
<1>5. ASSUME NEW i \in 1 .. n + pow PROVE limb(i) \in Limb
  <2>1. CASE i > pow
    <3>1. i - pow \in 1 .. n
      BY <1>2, <2>1
    <3> QED BY <1>2, <2>1, <3>1
  <2>2. CASE i <= pow /\ i <= n
    BY <2>2, WidthType
  <2>3. CASE i <= pow /\ i > n
    <3>1. i \in Gap(data, pow)
      BY <1>2, <2>3 DEF Gap, n
    <3>2. junk[i] \in Garbage /\ Garbage \subseteq Limb
      BY <3>1, ApIntAssumption
    <3>3. limb(i) = junk[i]
      BY <1>2, <2>3
    <3> HIDE DEF limb, Limb
    <3> QED BY <3>2, <3>3
  <2> QED BY <1>2, <2>1, <2>2, <2>3
<1>6. all \in [1 .. n + pow -> Limb] /\ n + pow \in Nat /\ \A i \in 1 .. n + pow : all[i] = limb(i)
  <2> HIDE DEF limb
  <2> QED BY <1>2, <1>5
<1>7. all \in Seq(Limb) /\ Len(all) = n + pow
  BY <1>6, LengthOf
<1> HIDE DEF all
<1>8. \A i \in 1 .. n : all[i + pow] = data[i]
  <2>1. TAKE i \in 1 .. n
  <2>2. i + pow \in 1 .. n + pow /\ i + pow > pow /\ (i + pow) - pow = i
    BY <1>2
  <2> QED BY <1>6, <2>2
<1>9. ASSUME Topped(data), pow = 0 \/ data[n] # 0 PROVE Topped(all)
  <2>1. n \in 1 .. n
    BY <1>2
  <2>2. all[n + pow] = data[n]
    BY <1>8, <2>1
  <2>3. pow = 0 => n + pow = n
    BY <1>2
  <2> QED BY <1>7, <1>9, <2>2, <2>3 DEF Topped, n
<1>10. ASSUME Gap(data, pow) = {} PROVE Magnitude(all) = Magnitude(data) * P(pow)
  <2>1. \A i \in 1 .. pow : all[i] = 0
    <3>1. TAKE i \in 1 .. pow
    <3>2. i <= n
      <4>1. i \notin Gap(data, pow)
        BY <1>10
      <4> QED BY <1>2, <4>1 DEF Gap, n
    <3>3. i \in 1 .. n + pow /\ ~(i > pow)
      BY <1>2
    <3> QED BY <1>6, <3>2, <3>3
  <2>2. PICK X \in [1 .. n + 1 -> Nat] :
          X[n + 1] = 0 /\ (\A i \in 1 .. n : X[i] = B * X[i + 1] + data[i]) /\ Magnitude(data) = X[1]
    <3>1. \E g \in [1 .. Len(data) + 1 -> Nat] : Tops(g, data) /\ Magnitude(data) = g[1]
      BY <1>2, MagnitudeSteps
    <3>2. PICK g \in [1 .. n + 1 -> Nat] : Tops(g, data) /\ Magnitude(data) = g[1]
      BY <3>1 DEF n
    <3>3. g[n + 1] = 0 /\ \A i \in 1 .. n : g[i] = B * g[i + 1] + data[i]
      BY <1>3, <3>2 DEF Tops, n
    <3> QED BY <3>2, <3>3
  <2>3. PICK x \in Nat : x = X[1]
    <3>1. 1 \in 1 .. n + 1
      BY <1>2
    <3> QED BY <3>1
  <2> DEFINE f == [i \in 1 .. n + pow + 1 |-> IF i > pow THEN X[i - pow] ELSE x * P((pow + 1) - i)]
  <2>4. \A i \in pow + 1 .. n + pow + 1 : f[i] = X[i - pow]
    BY <1>2
  <2>5. \A i \in 1 .. pow + 1 : f[i] = x * P((pow + 1) - i)
    <3>1. TAKE i \in 1 .. pow + 1
    <3>2. CASE i = pow + 1
      <4>1. i - pow = 1 /\ (pow + 1) - i = 0 /\ i \in pow + 1 .. n + pow + 1
        BY <1>2, <3>2
      <4>2. f[i] = X[1] /\ P((pow + 1) - i) = 1
        <5> HIDE DEF f
        <5>1. f[i] = X[i - pow]
          BY <2>4, <4>1
        <5>2. X[i - pow] = X[1] /\ P((pow + 1) - i) = P(0)
          BY <4>1, Zenon
        <5> QED BY <1>4, <5>1, <5>2
      <4>3. x * 1 = x
        OBVIOUS
      <4> HIDE DEF f
      <4> QED BY <2>3, <4>2, <4>3
    <3>3. CASE i # pow + 1
      <4>1. i \in 1 .. n + pow + 1 /\ ~(i > pow)
        BY <1>2, <3>3
      <4> QED BY <4>1
    <3> QED BY <3>2, <3>3
  <2> HIDE DEF f
  <2>6. f[(n + pow) + 1] = 0
    <3>1. (n + pow) + 1 \in pow + 1 .. n + pow + 1 /\ ((n + pow) + 1) - pow = n + 1
      BY <1>2
    <3>2. f[(n + pow) + 1] = X[((n + pow) + 1) - pow]
      BY <2>4, <3>1
    <3>3. X[((n + pow) + 1) - pow] = X[n + 1]
      BY <3>1, Zenon
    <3> QED BY <2>2, <3>2, <3>3
  <2>7. ASSUME NEW i \in 1 .. n + pow PROVE f[i] = B * f[i + 1] + all[i]
    <3>1. CASE i > pow
      <4>1. PICK j \in 1 .. n : j = i - pow /\ i = j + pow /\ (i + 1) - pow = j + 1
        <5>1. i - pow \in 1 .. n /\ i = (i - pow) + pow /\ (i + 1) - pow = (i - pow) + 1
          BY <1>2, <3>1
        <5> QED BY <5>1
      <4>2. i \in pow + 1 .. n + pow + 1 /\ i + 1 \in pow + 1 .. n + pow + 1
        BY <1>2, <3>1
      <4>3. f[i] = X[i - pow] /\ f[i + 1] = X[(i + 1) - pow]
        BY <2>4, <4>2
      <4>4. X[i - pow] = X[j] /\ X[(i + 1) - pow] = X[j + 1] /\ all[i] = data[j]
        BY <1>8, <4>1, Zenon
      <4>5. X[j] = B * X[j + 1] + data[j]
        BY <2>2
      <4> QED BY <4>3, <4>4, <4>5, Zenon
    <3>2. CASE i <= pow
      <4>1. PICK k \in Nat : k = pow - i
        BY <3>2
      <4>2. /\ i \in 1 .. pow /\ i \in 1 .. pow + 1 /\ i + 1 \in 1 .. pow + 1
            /\ (pow + 1) - i = k + 1 /\ (pow + 1) - (i + 1) = k
        BY <3>2, <4>1
      <4>3. f[i] = x * P((pow + 1) - i) /\ f[i + 1] = x * P((pow + 1) - (i + 1))
        BY <2>5, <4>2
      <4>4. P((pow + 1) - i) = P(k + 1) /\ P((pow + 1) - (i + 1)) = P(k)
        BY <4>2, Zenon
      <4>5. PICK p \in Nat : p = P(k) /\ P(k + 1) = B * p
        BY <1>3
      <4>6. f[i] = x * (B * p) /\ f[i + 1] = x * p /\ all[i] = 0
        BY <2>1, <4>2, <4>3, <4>4, <4>5
      <4>7. x * (B * p) = B * (x * p) + 0
        OBVIOUS
      <4> QED BY <4>6, <4>7
    <3> QED BY <3>1, <3>2
  <2>8. Tops(f, all)
    BY <1>3, <1>7, <2>6, <2>7 DEF Tops
  <2>9. Magnitude(all) = f[1]
    BY <1>7, <2>8, MagnitudeIs, MagnitudeType
  <2>10. f[1] = x * P(pow)
    <3>1. 1 \in 1 .. pow + 1 /\ (pow + 1) - 1 = pow
      OBVIOUS
    <3>2. f[1] = x * P((pow + 1) - 1)
      BY <2>5, <3>1
    <3> QED BY <3>1, <3>2, Zenon
  <2> QED BY <2>2, <2>3, <2>9, <2>10
<1> QED BY <1>1, <1>7, <1>9, <1>10 DEF n, P

\* apint_lshift_n
LEMMA ShiftRight ==
  ASSUME NEW ap \in Numbers, NEW n \in Nat, NEW r \in Shifted(ap, n)
  PROVE  /\ r \in Numbers
         /\ Proper(ap) /\ ~LeavesGap(ap, n) => Proper(r) /\ ValueOf(r) = ValueOf(ap) * 2^n
<1>1. /\ ap.data \in Seq(Limb) /\ Len(ap.data) # 0 /\ ap.sign \in {0, 1}
      /\ W \in Nat \ {0} /\ ap = Number(ap.data, ap.sign)
  BY NumbersAre, WidthType
<1>2. CASE n = 0
  <2>1. r = ap
    BY <1>2 DEF Shifted
  <2>2. ASSUME Proper(ap) PROVE ValueOf(ap) = ValueOf(ap) * 2^n
    <3>1. PICK v \in Int : v = ValueOf(ap)
      BY <2>2, NegRight
    <3>2. v * 1 = v
      OBVIOUS
    <3> QED BY <1>2, <3>1, <3>2, PowerZero
  <2> QED BY <2>1, <2>2
<1>3. CASE n # 0
  <2> DEFINE shift == ((n - 1) % W) + 1
             pow == (n - 1) \div W
             data == ShiftInside(ap.data, shift)
  <2>1. PICK k \in Nat : k = n - 1
    BY <1>3
  <2>2. /\ k \div W \in Nat /\ k % W \in 0 .. W - 1 /\ k = W * (k \div W) + (k % W)
    BY <1>1, NatDivision
  <2>3. /\ shift \in 1 .. W /\ pow \in Nat /\ n = shift + W * pow
        /\ n <= W => pow = 0
    <3>1. PICK d \in Nat, m \in 0 .. W - 1 : d = pow /\ shift = m + 1 /\ n - 1 = W * d + m
      BY <2>1, <2>2
    <3>2. PICK w \in Nat : w = W * d
      BY <1>1
    <3>3. d >= 1 => W * 1 <= W * d
      BY <1>1, TimesKeeps
    <3>4. n <= W => d = 0
      BY <1>1, <3>1, <3>2, <3>3
    <3>5. n = (m + 1) + W * d
      BY <3>1, <3>2
    <3>6. m + 1 \in 1 .. W
      BY <1>1
    <3> QED BY <3>1, <3>4, <3>5, <3>6
  <2>4. data = Inside(ap, n) /\ pow = Pow(n)
    BY DEF Inside, Pow
  <2>5. r \in {Number(ShiftLimbs(data, pow, junk), ap.sign) : junk \in [Gap(data, pow) -> Garbage]}
    BY <1>3, <2>4, Zenon DEF Shifted
  <2> HIDE DEF shift, pow
  <2>6. /\ data \in Seq(Limb) /\ Len(data) # 0
        /\ Magnitude(data) = Magnitude(ap.data) * 2^shift
        /\ Topped(ap.data) => Topped(data)
    <3>1. Len(data) \in {Len(ap.data), Len(ap.data) + 1}
      BY <1>1, <2>3, ShiftInsideRight
    <3>2. Len(data) # 0
      BY <1>1, <3>1
    <3> QED BY <1>1, <2>3, <3>2, ShiftInsideRight
  <2> HIDE DEF data
  <2>7. PICK junk \in [Gap(data, pow) -> Garbage] : r = Number(ShiftLimbs(data, pow, junk), ap.sign)
    BY <2>5, Zenon
  <2> DEFINE all == ShiftLimbs(data, pow, junk)
  <2>8. /\ all \in Seq(Limb) /\ Len(all) = Len(data) + pow
        /\ Topped(data) /\ (pow = 0 \/ data[Len(data)] # 0) => Topped(all)
        /\ Gap(data, pow) = {} => Magnitude(all) = Magnitude(data) * 2^(W * pow)
    BY <2>3, <2>6, ShiftLimbsRight
  <2> HIDE DEF all
  <2>9. Len(all) # 0
    BY <2>3, <2>6, <2>8
  <2>10. r \in Numbers /\ r.data = all /\ r.sign = ap.sign
    BY <1>1, <2>7, <2>8, <2>9, NumbersAre DEF all
  <2>11. ASSUME Proper(ap), ~LeavesGap(ap, n) PROVE Proper(r) /\ ValueOf(r) = ValueOf(ap) * 2^n
    <3>1. PICK m \in Nat : m = Magnitude(ap.data) /\ (IsZero(ap) <=> m = 0)
      BY <2>11, ProperZero
    <3>2. PICK q \in Nat \ {0} : q = 2^shift
      BY <2>3, PowerPositive, WidthType
    <3>3. W * pow \in Nat
      BY <1>1, <2>3
    <3>4. PICK p \in Nat \ {0} : p = 2^(W * pow)
      BY <3>3, PowerPositive
    <3>5. 2^n = q * p
      <4>1. shift \in Nat
        BY <1>1, <2>3
      <4>2. 2^(shift + W * pow) = 2^shift * 2^(W * pow)
        BY <3>3, <4>1, PowerSum
      <4> QED BY <2>3, <3>2, <3>4, <4>2
    <3>6. Gap(data, pow) = {}
      <4>1. CASE n <= W
        <5>1. pow = 0
          BY <2>3, <4>1
        <5> QED BY <5>1 DEF Gap
      <4>2. CASE ~(n <= W)
        <5>1. n > W
          BY <1>1, <4>2
        <5> QED BY <2>4, <2>11, <5>1 DEF LeavesGap
      <4> QED BY <4>1, <4>2
    <3>7. pow = 0 \/ data[Len(data)] # 0
      <4>1. CASE n <= W
        BY <2>3, <4>1
      <4>2. CASE ~(n <= W)
        <5>1. n > W
          BY <1>1, <4>2
        <5>2. ~IsZero(ap)
          BY <2>11, <5>1 DEF LeavesGap
        <5>3. SUFFICES ASSUME data[Len(data)] = 0 PROVE FALSE
          OBVIOUS
        <5>4. Len(data) = 1
          BY <2>6, <2>11, <5>3 DEF Proper, Topped
        <5>5. \A i \in 1 .. Len(data) : data[i] = 0
          <6>1. \A i \in 1 .. 1 : i = 1
            OBVIOUS
          <6> QED BY <5>3, <5>4, <6>1
        <5>6. Magnitude(data) = 0
          BY <2>6, <5>5, MagnitudeZero
        <5>7. m * q = 0 /\ m \in Nat \ {0}
          BY <2>6, <3>1, <3>2, <5>2, <5>6
        <5>8. q * 1 <= q * m
          BY <5>7, TimesKeeps
        <5> QED BY <5>7, <5>8
      <4> QED BY <4>1, <4>2
    <3>8. Magnitude(all) = (m * q) * p /\ Topped(all)
      BY <2>6, <2>8, <2>11, <3>1, <3>2, <3>4, <3>6, <3>7 DEF Proper
    <3>9. (m * q) * p = m * (q * p) /\ q * p \in Nat \ {0}
      <4>1. PICK pp \in Nat : pp = p - 1
        OBVIOUS
      <4>2. q * p = q * pp + q /\ q * pp \in Nat
        BY <4>1
      <4> QED BY <4>2
    <3>10. PICK z \in Nat \ {0} : z = q * p
      BY <3>9
    <3>11. Magnitude(all) = m * z /\ 2^n = z
      BY <3>5, <3>8, <3>9, <3>10
    <3>12. IsZero(r) => ap.sign = 0
      <4>1. SUFFICES ASSUME IsZero(r), m # 0 PROVE FALSE
        BY <2>11, <3>1 DEF Proper
      <4>2. m * z = 0
        BY <2>8, <2>9, <2>10, <3>11, <4>1, MagnitudeZero DEF IsZero
      <4>3. m * 1 <= m * z
        BY TimesKeeps
      <4> QED BY <4>1, <4>2, <4>3
    <3>13. Proper(r)
      BY <2>10, <3>8, <3>12 DEF Proper
    <3>14. ValueOf(r) = (IF ap.sign = 1 THEN -(m * z) ELSE m * z)
      BY <2>10, <3>11 DEF ValueOf
    <3>15. ValueOf(ap) = (IF ap.sign = 1 THEN -m ELSE m)
      BY <3>1 DEF ValueOf
    <3>16. -(m * z) = (-m) * z
      OBVIOUS
    <3>17. ValueOf(r) = ValueOf(ap) * z
      BY <1>1, <3>14, <3>15, <3>16
    <3> QED BY <3>11, <3>13, <3>17
  <2> QED BY <2>10, <2>11
<1> QED BY <1>2, <1>3

-----------------------------------------------------------------------------
(* Where numbers come from.                                                 *)

\* What a hexadecimal digit is worth
Digit == 0 .. HexBase - 1

\* What is left of a numeral without its leading zeros is the same number.
LEMMA StrippedRight ==
  ASSUME NEW digits \in Seq(Digit) \ {<<>>}
  PROVE  /\ Stripped(digits) \in Seq(Digit) /\ Len(Stripped(digits)) \in 1 .. Len(digits)
         /\ Stripped(digits)[1] = 0 => Len(Stripped(digits)) = 1
         /\ Numeral(HexBase, Stripped(digits)) = Numeral(HexBase, digits)
<1> DEFINE n == Len(digits)
           Is(k) == (digits[k] # 0 \/ k = n) /\ \A j \in 1 .. k - 1 : digits[j] = 0
           first == CHOOSE k \in 1 .. n : Is(k)
<1>1. n \in Nat \ {0} /\ \A i \in 1 .. n : digits[i] \in Digit
  OBVIOUS
<1>2. \E k \in 1 .. n : Is(k)
  <2> DEFINE S == {k \in 1 .. n : digits[k] # 0 \/ k = n}
  <2>1. S \subseteq Nat /\ n \in S
    BY <1>1
  <2>2. PICK k \in S : \A y \in S : k <= y
    <3> HIDE DEF S
    <3> QED BY <2>1, LeastNumber
  <2>3. k \in 1 .. n /\ (digits[k] # 0 \/ k = n)
    OBVIOUS
  <2>4. ASSUME NEW j \in 1 .. k - 1 PROVE digits[j] = 0
    <3>1. j \in 1 .. n /\ ~(k <= j)
      BY <1>1, <2>3
    <3>2. j \notin S
      BY <2>2, <3>1
    <3> QED BY <3>1, <3>2
  <2> QED BY <2>3, <2>4
<1>3. PICK k \in 1 .. n : k = first /\ Is(k)
  <2> HIDE DEF Is
  <2> QED BY <1>2
<1> HIDE DEF first
<1>4. Stripped(digits) = SubSeq(digits, k, n)
  BY <1>3, Zenon DEF Stripped, first
<1>5. /\ SubSeq(digits, k, n) \in Seq(Digit) /\ Len(SubSeq(digits, k, n)) = (n - k) + 1
      /\ SubSeq(digits, k, n)[1] = digits[k]
  <2> HIDE DEF Digit
  <2>1. k \in Nat /\ 1 <= k /\ k <= n
    BY <1>1
  <2> QED BY <2>1
<1>6. Numeral(HexBase, SubSeq(digits, k, n)) = Numeral(HexBase, digits)
  <2>1. /\ HexBase \in Nat /\ digits \in Seq(Nat) /\ k - 1 \in 0 .. Len(digits)
        /\ \A i \in 1 .. k - 1 : digits[i] = 0
    <3>1. HexBase \in Nat
      BY WidthType
    <3>2. digits \in Seq(Nat)
      BY <3>1 DEF Digit
    <3>3. k - 1 \in 0 .. Len(digits)
      BY <1>1
    <3> QED BY <1>3, <3>1, <3>2, <3>3
  <2>2. Numeral(HexBase, SubSeq(digits, (k - 1) + 1, Len(digits))) = Numeral(HexBase, digits)
    BY <2>1, LeadingZeros
  <2>3. (k - 1) + 1 = k
    OBVIOUS
  <2> QED BY <2>2, <2>3
<1>7. (n - k) + 1 \in 1 .. n /\ (digits[k] = 0 => (n - k) + 1 = 1)
  BY <1>1, <1>3
<1> QED BY <1>4, <1>5, <1>6, <1>7

\* How many limbs n digits need, and how many digits are left for the top one.
LEMMA LimbsNeeded ==
  ASSUME NEW h \in Nat \ {0}, NEW l \in Nat \ {0}, NEW n \in Nat \ {0}
  PROVE  \E q \in Nat : /\ (n * h + (h * l) - 1) \div (h * l) = q + 1
                        /\ ((n - 1) % l) + 1 = n - l * q
                        /\ n - l * q \in 1 .. l
<1>1. PICK q \in Int, r \in 0 .. l - 1 : r = (n - 1) % l /\ n - 1 = l * q + r
  <2>1. n - 1 \in Int
    OBVIOUS
  <2>2. /\ (n - 1) \div l \in Int /\ (n - 1) % l \in 0 .. l - 1
        /\ n - 1 = l * ((n - 1) \div l) + ((n - 1) % l)
    BY <2>1, Division
  <2> QED BY <2>2
<1>2. q \in Nat
  <2>1. SUFFICES ASSUME q <= 0 - 1 PROVE FALSE
    BY <1>1
  <2>2. l * q <= l * (0 - 1)
    <3>1. 0 - 1 \in Int
      OBVIOUS
    <3> QED BY <2>1, <3>1, TimesKeeps
  <2>3. l * (0 - 1) = 0 - l /\ l * q \in Int
    OBVIOUS
  <2> QED BY <1>1, <2>2, <2>3
<1>3. PICK w \in Nat \ {0}, e \in Nat, lq \in Nat :
        w = h * l /\ e = h * r /\ lq = l * q
  <2>1. h * l \in Nat \ {0}
    <3>1. h * 1 <= h * l
      BY TimesKeeps
    <3> QED BY <3>1
  <2>2. h * r \in Nat /\ l * q \in Nat
    BY <1>2
  <2> QED BY <2>1, <2>2
<1>4. e + h <= w
  <2>1. h * (r + 1) <= h * l
    BY TimesKeeps
  <2>2. h * (r + 1) = e + h
    BY <1>3
  <2> QED BY <1>3, <2>1, <2>2
<1>5. n * h = (w * q + e) + h
  <2>1. n = (l * q + r) + 1
    BY <1>1, <1>2
  <2>2. ((l * q + r) + 1) * h = ((h * l) * q + h * r) + h
    BY <1>2
  <2> QED BY <1>3, <2>1, <2>2
<1>6. n * h + w - 1 = w * (q + 1) + ((e + h) - 1) /\ (e + h) - 1 \in 0 .. w - 1
  <2>1. w * q \in Nat /\ w * (q + 1) = w * q + w
    BY <1>2
  <2> QED BY <1>4, <1>5, <2>1
<1>7. (n * h + w - 1) \div w = q + 1
  <2> DEFINE x == n * h + w - 1
  <2>1. PICK p \in Int, s \in 0 .. w - 1 : p = q + 1 /\ s = (e + h) - 1
    BY <1>2, <1>6
  <2>2. x = w * p + s
    BY <1>6, <2>1
  <2> HIDE DEF x
  <2>3. x \div w = p
    BY <2>2, QuotientIs
  <2> QED BY <2>1, <2>3 DEF x
<1>8. r + 1 = n - l * q /\ n - l * q \in 1 .. l
  BY <1>1, <1>3
<1> QED BY <1>1, <1>2, <1>3, <1>7, <1>8

\* A limb's worth of digits, or fewer, fits a limb.
LEMMA LimbOfRight ==
  ASSUME NEW digits \in Seq(Digit), Len(digits) <= LimbDigits
  PROVE  LimbOf(digits) \in Limb
<1>1. HexBits \in Nat /\ LimbDigits \in Nat
  BY ApIntAssumption
<1>2. PICK n \in Nat, k \in Nat : n = Len(digits) /\ n + k = LimbDigits
  <2>1. LimbDigits - Len(digits) \in Nat /\ Len(digits) \in Nat
        /\ Len(digits) + (LimbDigits - Len(digits)) = LimbDigits
    BY <1>1
  <2> QED BY <2>1
<1>3. Numeral(2^HexBits, digits) < 2^(HexBits * Len(digits)) /\ Numeral(2^HexBits, digits) \in Nat
  <2>1. digits \in Seq(0 .. 2^HexBits - 1)
    BY DEF Digit, HexBase
  <2>2. digits \in Seq(Nat) /\ 2^HexBits \in Nat
    <3>1. 2^HexBits \in Nat
      BY <1>1, PowerPositive
    <3> QED BY <2>1, <3>1
  <2> QED BY <1>1, <2>1, <2>2, NumeralBelow, NumeralType
<1>4. 2^(HexBits * n) <= 2^W
  <2>1. HexBits * n \in Nat /\ HexBits * k \in Nat /\ HexBits * n + HexBits * k = W
    <3>1. HexBits * (n + k) = HexBits * n + HexBits * k
      BY <1>1
    <3> QED BY <1>1, <1>2, <3>1 DEF W
  <2>2. 2^W = 2^(HexBits * n) * 2^(HexBits * k)
    BY <2>1, PowerSum
  <2>3. PICK x \in Nat \ {0}, y \in Nat \ {0} : x = 2^(HexBits * n) /\ y = 2^(HexBits * k)
    BY <2>1, PowerPositive
  <2>4. x * 1 <= x * y
    BY TimesKeeps
  <2> QED BY <2>2, <2>3, <2>4
<1>5. PICK v \in Nat, p \in Nat : v = LimbOf(digits) /\ p = 2^(HexBits * n) /\ v < p
  <2>1. HexBits * n \in Nat
    BY <1>1
  <2>2. 2^(HexBits * n) \in Nat
    BY <2>1, PowerPositive
  <2> QED BY <1>2, <1>3, <2>2 DEF LimbOf, HexBase
<1>6. Base \in Nat /\ Base = 2^W
  BY WidthType
<1>7. v \in 0 .. Base - 1
  BY <1>4, <1>5, <1>6
<1> QED BY <1>5, <1>7 DEF Limb

\* apint_create_from_u64
LEMMA FromU64Right ==
  ASSUME NEW n \in Limb
  PROVE  Proper(FromU64(n)) /\ Len(FromU64(n).data) = 1 /\ ValueOf(FromU64(n)) = n
<1>1. /\ <<n>> \in Seq(Limb) /\ Len(<<n>>) = 1 /\ <<n>>[1] = n
      /\ FromU64(n).data = <<n>> /\ FromU64(n).sign = 0 /\ FromU64(n) = Number(<<n>>, 0)
  BY DEF FromU64, Number
<1>2. FromU64(n) \in Numbers
  <2>1. Len(<<n>>) # 0 /\ 0 \in {0, 1}
    BY <1>1
  <2> QED BY <1>1, <2>1, NumbersAre
<1>3. Magnitude(<<n>>) = n
  <2> DEFINE g == [i \in 1 .. 2 |-> IF i = 1 THEN n ELSE 0]
  <2>1. Base \in Nat /\ n \in Nat
    BY WidthType
  <2>2. g[1] = n /\ g[2] = 0
    OBVIOUS
  <2>3. <<n>> \in Seq(Nat)
    BY <2>1
  <2>4. g[Len(<<n>>) + 1] = 0
    BY <1>1, <2>2
  <2>5. \A i \in 1 .. Len(<<n>>) : g[i] = Base * g[i + 1] + <<n>>[i]
    <3>1. n = Base * 0 + n
      BY <2>1
    <3>2. g[1] = Base * g[1 + 1] + <<n>>[1]
      BY <1>1, <2>2, <3>1
    <3> HIDE DEF g
    <3>3. \A i \in 1 .. Len(<<n>>) : i = 1
      BY <1>1
    <3> QED BY <3>2, <3>3
  <2> HIDE DEF g
  <2>6. Tops(g, <<n>>)
    BY <2>4, <2>5 DEF Tops
  <2> QED BY <2>2, <2>3, <2>6, MagnitudeIs
<1> QED BY <1>1, <1>2, <1>3 DEF Proper, Topped, ValueOf

\* What is before a cut, and what is between it and the next one.
LEMMA CutJoin ==
  ASSUME NEW S, NEW s \in Seq(S), NEW x \in Nat, NEW y \in Nat, x <= y, y <= Len(s)
  PROVE  /\ SubSeq(s, 1, x) \in Seq(S) /\ SubSeq(s, x + 1, y) \in Seq(S)
         /\ Len(SubSeq(s, x + 1, y)) = y - x
         /\ SubSeq(s, 1, y) = SubSeq(s, 1, x) \o SubSeq(s, x + 1, y)
<1> DEFINE u == SubSeq(s, 1, x)
           c == SubSeq(s, x + 1, y)
           b == SubSeq(s, 1, y)
<1>1. u \in Seq(S) /\ Len(u) = x /\ \A j \in 1 .. x : u[j] = s[j]
  OBVIOUS
<1>2. b \in Seq(S) /\ Len(b) = y /\ \A j \in 1 .. y : b[j] = s[j]
  OBVIOUS
<1>3. c \in Seq(S) /\ Len(c) = y - x
  <2>1. \A j \in x + 1 .. y : s[j] \in S
    OBVIOUS
  <2>2. Len(c) = IF x + 1 <= y THEN (y - (x + 1)) + 1 ELSE 0
    OBVIOUS
  <2>3. c \in Seq(S)
    OBVIOUS
  <2> QED BY <2>2, <2>3
<1>4. \A j \in 1 .. y - x : c[j] = s[x + j]
  <2>1. TAKE j \in 1 .. y - x
  <2>2. (x + 1) + j - 1 = x + j /\ j \in 1 .. Len(c)
    BY <1>3
  <2> QED BY <2>2
<1> HIDE DEF u, c, b
<1>5. u \o c \in Seq(S) /\ Len(u \o c) = y
  BY <1>1, <1>3
<1>6. ASSUME NEW j \in 1 .. y PROVE (u \o c)[j] = b[j]
  <2>1. CASE j <= x
    <3>1. j \in 1 .. x
      BY <2>1
    <3> QED BY <1>1, <1>2, <1>3, <3>1
  <2>2. CASE ~(j <= x)
    <3>1. j - x \in 1 .. y - x /\ x + (j - x) = j
      BY <2>2
    <3>2. (u \o c)[j] = c[j - x]
      BY <1>1, <1>3, <2>2
    <3>3. c[j - x] = s[x + (j - x)]
      BY <1>4, <3>1
    <3> QED BY <1>2, <3>1, <3>2, <3>3
  <2> QED BY <2>1, <2>2
<1>7. b = u \o c
  <2> DEFINE uc == u \o c
  <2>1. uc \in Seq(S) /\ Len(uc) = y
    BY <1>5
  <2> HIDE DEF uc
  <2>2. b = [j \in 1 .. Len(b) |-> b[j]] /\ uc = [j \in 1 .. Len(uc) |-> uc[j]]
    BY <1>2, <2>1
  <2>3. b = [j \in 1 .. y |-> b[j]] /\ u \o c = [j \in 1 .. y |-> (u \o c)[j]]
    BY <1>2, <2>1, <2>2, Zenon DEF uc
  <2> QED BY <1>6, <2>3, Zenon
<1> QED BY <1>1, <1>3, <1>7 DEF u, c, b

\* apint_create_from_hex cuts the digits into limbs from the right. Where it cuts,
Cuts(s, q) == [i \in 0 .. q + 1 |-> IF i = q + 1 THEN 0 ELSE Len(s) - LimbDigits * i]

\* and that the limbs are what is between the cuts.
CutsInto(s, q, data) ==
  \A i \in 1 .. q + 1 : data[i] = LimbOf(SubSeq(s, Cuts(s, q)[i] + 1, Cuts(s, q)[i - 1]))

\* Those limbs are worth what the digits are, and the top one is not 0.
LEMMA ChunksRight ==
  ASSUME NEW s \in Seq(Digit), NEW q \in Nat, Len(s) - LimbDigits * q \in 1 .. LimbDigits,
         s[1] = 0 => Len(s) = 1, NEW data \in Seq(Limb), Len(data) = q + 1,
         CutsInto(s, q, data)
  PROVE  Topped(data) /\ Magnitude(data) = Numeral(HexBase, s)
<1> DEFINE n == Len(s)
           cut == Cuts(s, q)
           Upper(i) == SubSeq(s, 1, cut[i])
           Chunk(i) == SubSeq(s, cut[i] + 1, cut[i - 1])
           g == [i \in 1 .. q + 2 |-> Numeral(HexBase, Upper(i - 1))]
<1>1. /\ cut = [i \in 0 .. q + 1 |-> IF i = q + 1 THEN 0 ELSE Len(s) - LimbDigits * i]
      /\ \A i \in 1 .. q + 1 : data[i] = LimbOf(SubSeq(s, cut[i] + 1, cut[i - 1]))
  BY DEF Cuts, CutsInto
<1> HIDE DEF cut
<1>2. /\ HexBits \in Nat /\ LimbDigits \in Nat \ {0} /\ HexBase = 2^HexBits /\ HexBase \in Nat \ {0}
      /\ Base = 2^(HexBits * LimbDigits) /\ Digit \subseteq Nat
  BY ApIntAssumption, WidthType DEF HexBase, W, Digit
<1>3. n \in Nat /\ n >= 1 /\ s \in Seq(Nat) /\ \A i \in 1 .. n : s[i] \in Digit
  <2>1. LimbDigits * q \in Nat
    BY <1>2
  <2>2. s \in Seq(Nat)
    BY <1>2 DEF Digit
  <2> QED BY <2>1, <2>2
<1> HIDE DEF n
<1>4. /\ cut[0] = n /\ cut[q + 1] = 0
      /\ \A i \in 0 .. q + 1 : cut[i] \in 0 .. n
      /\ \A i \in 1 .. q : cut[i] + LimbDigits = cut[i - 1]
      /\ cut[q] \in 1 .. LimbDigits /\ cut[q] <= n
  <2>1. \A i \in 0 .. q : LimbDigits * i \in Nat /\ LimbDigits * i <= LimbDigits * q
    <3>1. TAKE i \in 0 .. q
    <3> QED BY <1>2, TimesKeeps
  <2>2. LimbDigits * 0 = 0
    BY <1>2
  <2>3. \A i \in 0 .. q : cut[i] = n - LimbDigits * i /\ cut[i] \in 1 .. n
    <3>1. TAKE i \in 0 .. q
    <3>2. i \in 0 .. q + 1 /\ i # q + 1 /\ i \in Int
      OBVIOUS
    <3>3. cut[i] = n - LimbDigits * i
      BY <1>1, <3>2 DEF n
    <3>4. PICK e \in Nat, f \in Nat : e = LimbDigits * i /\ f = LimbDigits * q /\ e <= f
      <4>1. 0 .. q \subseteq Nat /\ q \in 0 .. q
        OBVIOUS
      <4> QED BY <2>1, <4>1
    <3>5. n - f >= 1 /\ n \in Nat
      BY <1>2, <1>3, <3>4 DEF n
    <3>6. n - e \in 1 .. n
      BY <3>4, <3>5
    <3> QED BY <3>3, <3>4, <3>6
  <2>4. cut[q + 1] = 0
    BY <1>1
  <2>5. 0 \in 0 .. q /\ q \in 0 .. q
    OBVIOUS
  <2>6. \A i \in 1 .. q : cut[i] + LimbDigits = cut[i - 1]
    <3>1. TAKE i \in 1 .. q
    <3>2. i \in 0 .. q /\ i - 1 \in 0 .. q /\ LimbDigits * (i - 1) = LimbDigits * i - LimbDigits
      BY <1>2
    <3>3. cut[i] = n - LimbDigits * i /\ cut[i - 1] = n - LimbDigits * (i - 1)
      BY <2>3, <3>2
    <3>4. LimbDigits * i \in Nat
      BY <1>2
    <3> QED BY <1>2, <1>3, <3>2, <3>3, <3>4
  <2>7. \A i \in 0 .. q + 1 : cut[i] \in 0 .. n
    <3>1. TAKE i \in 0 .. q + 1
    <3>2. i \in 0 .. q \/ i = q + 1
      OBVIOUS
    <3> QED BY <1>3, <2>3, <2>4, <3>2
  <2>8. cut[0] = n
    <3>1. cut[0] = n - LimbDigits * 0
      BY <2>3, <2>5
    <3> QED BY <1>3, <2>2, <3>1
  <2>9. cut[q] \in 1 .. LimbDigits /\ cut[q] <= n
    <3>1. cut[q] = n - LimbDigits * q /\ cut[q] \in 1 .. n
      BY <2>3, <2>5
    <3>2. n - LimbDigits * q \in 1 .. LimbDigits
      BY DEF n
    <3> QED BY <1>3, <3>1, <3>2
  <2> QED BY <2>4, <2>6, <2>7, <2>8, <2>9
<1>5. ASSUME NEW i \in 1 .. q + 1
      PROVE  /\ cut[i] \in 0 .. n /\ cut[i - 1] \in 0 .. n /\ cut[i] <= cut[i - 1]
             /\ i <= q => cut[i - 1] - cut[i] = LimbDigits
  <2>1. i \in 0 .. q + 1 /\ i - 1 \in 0 .. q + 1
    OBVIOUS
  <2>2. CASE i <= q
    <3>1. i \in 1 .. q
      BY <2>2
    <3>2. cut[i] + LimbDigits = cut[i - 1] /\ cut[i] \in 0 .. n /\ cut[i - 1] \in 0 .. n
      BY <1>4, <2>1, <3>1
    <3> QED BY <1>2, <1>3, <3>2
  <2>3. CASE ~(i <= q)
    <3>1. i = q + 1 /\ i - 1 = q
      BY <2>3
    <3> QED BY <1>3, <1>4, <2>1, <3>1
  <2> QED BY <2>2, <2>3
<1> HIDE DEF g, Upper, Chunk
<1>6. \A i \in 1 .. q + 1 : data[i] = LimbOf(Chunk(i))
  BY <1>1 DEF Chunk
<1>7. ASSUME NEW i \in 1 .. q + 1
      PROVE  /\ Upper(i) \in Seq(Nat) /\ Chunk(i) \in Seq(Nat)
             /\ Len(Chunk(i)) = cut[i - 1] - cut[i]
             /\ Upper(i - 1) = Upper(i) \o Chunk(i)
  <2>1. PICK x \in 0 .. n, y \in 0 .. n : x = cut[i] /\ y = cut[i - 1] /\ x <= y
    BY <1>5
  <2>2. x \in Nat /\ y \in Nat /\ x <= y /\ y <= Len(s) /\ s \in Seq(Nat)
    BY <1>3, <2>1 DEF n
  <2>3. /\ SubSeq(s, 1, x) \in Seq(Nat) /\ SubSeq(s, x + 1, y) \in Seq(Nat)
        /\ Len(SubSeq(s, x + 1, y)) = y - x
        /\ SubSeq(s, 1, y) = SubSeq(s, 1, x) \o SubSeq(s, x + 1, y)
    BY SMTT(30), <2>2, CutJoin
  <2> QED BY <2>1, <2>3 DEF Upper, Chunk
<1>8. \A i \in 1 .. q + 1 : g[i] = Numeral(HexBase, Upper(i - 1)) /\ g[i + 1] = Numeral(HexBase, Upper(i))
  BY DEF g
<1>9. g[q + 2] = 0
  <2>1. Upper(q + 1) = << >>
    BY <1>4 DEF Upper
  <2> DEFINE none == << >>
  <2>2. none \in Seq(Nat) /\ Len(none) = 0 /\ HexBase \in Nat
    BY <1>2
  <2> HIDE DEF none
  <2>3. Numeral(HexBase, none) = 0
    <3>1. PICK f \in [0 .. Len(none) -> Nat] :
            /\ f[0] = 0 /\ \A i \in 1 .. Len(none) : f[i] = HexBase * f[i - 1] + none[i]
            /\ Numeral(HexBase, none) = f[Len(none)]
      BY <2>2, NumeralSteps
    <3> QED BY <2>2, <3>1
  <2>4. q + 1 \in 1 .. q + 1 /\ (q + 1) + 1 = q + 2
    OBVIOUS
  <2> QED BY <1>8, <2>1, <2>3, <2>4 DEF none
<1>10. \A i \in 1 .. q + 1 : g[i] = Base * g[i + 1] + data[i]
  <2>1. TAKE i \in 1 .. q + 1
  <2>2. PICK u \in Nat, c \in Nat : u = Numeral(HexBase, Upper(i)) /\ c = Numeral(HexBase, Chunk(i))
    BY <1>2, <1>7, NumeralType
  <2>3. Numeral(HexBase, Upper(i - 1)) = u * 2^(HexBits * Len(Chunk(i))) + c
    <3>1. Numeral(2^HexBits, Upper(i) \o Chunk(i))
            = Numeral(2^HexBits, Upper(i)) * 2^(HexBits * Len(Chunk(i))) + Numeral(2^HexBits, Chunk(i))
      <4>1. HexBits \in Nat /\ Upper(i) \in Seq(Nat) /\ Chunk(i) \in Seq(Nat)
        BY <1>2, <1>7
      <4> QED BY <4>1, NumeralConcat
    <3>2. HexBase = 2^HexBits /\ Upper(i - 1) = Upper(i) \o Chunk(i)
      BY <1>2, <1>7
    <3> QED BY <2>2, <3>1, <3>2, Zenon
  <2>4. data[i] = c
    BY <1>6, <2>2 DEF LimbOf
  <2>5. CASE i <= q
    <3>1. Len(Chunk(i)) = LimbDigits
      BY <1>5, <1>7, <2>5
    <3>2. g[i] = u * Base + c
      BY <1>2, <1>8, <2>3, <3>1
    <3>3. u * Base = Base * u
      BY <1>2
    <3> QED BY <1>8, <2>2, <2>4, <3>2, <3>3
  <2>6. CASE ~(i <= q)
    <3>1. i = q + 1 /\ i + 1 = q + 2
      BY <2>6
    <3>2. u = 0
      BY <1>8, <1>9, <2>2, <3>1
    <3>3. 2^(HexBits * Len(Chunk(i))) \in Nat
      <4>1. Len(Chunk(i)) \in Nat
        BY <1>7
      <4>2. HexBits * Len(Chunk(i)) \in Nat
        BY <1>2, <4>1
      <4> QED BY <4>2, PowerPositive
    <3>4. g[i] = c
      <4>1. PICK p \in Nat : p = 2^(HexBits * Len(Chunk(i)))
        BY <3>3
      <4>2. g[i] = u * p + c
        BY <1>8, <2>3, <4>1
      <4>3. 0 * p + c = c
        OBVIOUS
      <4> QED BY <3>2, <4>2, <4>3
    <3>5. c = Base * 0 + c
      BY <1>2
    <3> QED BY <1>9, <2>4, <3>1, <3>4, <3>5
  <2> QED BY <2>5, <2>6
<1>11. Magnitude(data) = g[1]
  <2>1. Tops(g, data)
    <3>1. Len(data) + 1 = q + 2
      OBVIOUS
    <3> QED BY <1>9, <1>10, <3>1 DEF Tops
  <2>2. data \in Seq(Nat)
    BY MagnitudeType
  <2> QED BY <2>1, <2>2, MagnitudeIs
<1>12. g[1] = Numeral(HexBase, s)
  <2>1. Upper(0) = s
    BY <1>3, <1>4 DEF Upper, n
  <2>2. 1 \in 1 .. q + 1 /\ 1 - 1 = 0
    OBVIOUS
  <2> QED BY <1>8, <2>1, <2>2
<1>13. Topped(data)
  <2>1. CASE s[1] = 0
    <3>1. n = 1
      BY <2>1 DEF n
    <3>2. q = 0
      <4>1. SUFFICES ASSUME q >= 1 PROVE FALSE
        OBVIOUS
      <4>2. LimbDigits * 1 <= LimbDigits * q /\ LimbDigits * q \in Nat
        BY <1>2, <4>1, TimesKeeps
      <4> QED BY <1>2, <3>1, <4>2 DEF n
    <3> QED BY <3>2 DEF Topped
  <2>2. CASE s[1] # 0
    <3> DEFINE i == q + 1
    <3>1. i \in 1 .. q + 1 /\ i - 1 = q
      OBVIOUS
    <3>2. Chunk(i) = SubSeq(s, 1, cut[q])
      BY <1>4, <3>1 DEF Chunk
    <3>3. PICK k \in Nat : k = cut[q] /\ k >= 1 /\ k <= n
      BY <1>2, <1>4
    <3>4. Len(SubSeq(s, 1, k)) = k /\ SubSeq(s, 1, k)[1] = s[1] /\ SubSeq(s, 1, k) \in Seq(Nat)
      BY <1>3, <3>3 DEF n
    <3>5. Numeral(HexBase, SubSeq(s, 1, k)) > 0
      BY <1>2, <2>2, <3>3, <3>4, NumeralPositive
    <3>6. data[i] = Numeral(HexBase, SubSeq(s, 1, k))
      BY <1>6, <3>1, <3>2, <3>3 DEF LimbOf
    <3>7. data[i] # 0
      <4> HIDE DEF i
      <4> QED BY <3>5, <3>6
    <3> QED BY <3>7 DEF Topped
  <2> QED BY <2>1, <2>2
<1> QED BY <1>11, <1>12, <1>13

\* Every number that apint_create_from_hex makes is in its one representation,
\* and is the one that the digits stand for.
LEMMA FromHexRight ==
  ASSUME NEW hex \in [minus : BOOLEAN, digits : Seq(Digit) \ {<<>>}]
  PROVE  /\ Proper(FromHex(hex))
         /\ ValueOf(FromHex(hex)) = IF hex.minus THEN 0 - Numeral(HexBase, hex.digits)
                                    ELSE Numeral(HexBase, hex.digits)
<1> DEFINE s == Stripped(hex.digits)
           n == Len(s)
           len == (n * HexBits + W - 1) \div W
           Source(i) == IF i = len THEN 0 ELSE n - LimbDigits * i
           Bytes(i) == IF i = len THEN ((n - 1) % LimbDigits) + 1 ELSE LimbDigits
           Chunk(i) == SubSeq(s, Source(i) + 1, Source(i) + Bytes(i))
           data == [i \in 1 .. len |-> LimbOf(Chunk(i))]
           ap == Number(data, IF hex.minus THEN 1 ELSE 0)
<1>1. FromHex(hex) = IF IsZero(ap) THEN [ap EXCEPT !.sign = 0] ELSE ap
  BY Zenon DEF FromHex
<1>2. /\ s \in Seq(Digit) /\ n \in Nat \ {0} /\ (s[1] = 0 => n = 1)
      /\ Numeral(HexBase, s) = Numeral(HexBase, hex.digits)
  <2>1. hex.digits \in Seq(Digit) \ {<<>>}
    OBVIOUS
  <2>2. /\ Stripped(hex.digits) \in Seq(Digit) /\ Len(Stripped(hex.digits)) \in 1 .. Len(hex.digits)
        /\ Stripped(hex.digits)[1] = 0 => Len(Stripped(hex.digits)) = 1
        /\ Numeral(HexBase, Stripped(hex.digits)) = Numeral(HexBase, hex.digits)
    BY <2>1, StrippedRight
  <2> QED BY <2>2
<1> HIDE DEF s
<1>3. HexBits \in Nat \ {0} /\ LimbDigits \in Nat \ {0} /\ W = HexBits * LimbDigits
  BY ApIntAssumption DEF W
<1>4. PICK q \in Nat : /\ len = q + 1 /\ ((n - 1) % LimbDigits) + 1 = n - LimbDigits * q
                       /\ n - LimbDigits * q \in 1 .. LimbDigits
  <2> HIDE DEF n
  <2>1. PICK q \in Nat : /\ (n * HexBits + (HexBits * LimbDigits) - 1) \div (HexBits * LimbDigits) = q + 1
                         /\ ((n - 1) % LimbDigits) + 1 = n - LimbDigits * q
                         /\ n - LimbDigits * q \in 1 .. LimbDigits
    BY <1>2, <1>3, LimbsNeeded
  <2>2. len = q + 1
    BY <1>3, <2>1, Zenon
  <2> QED BY <2>1, <2>2
<1> HIDE DEF len
<1> DEFINE cut == [i \in 0 .. q + 1 |-> IF i = q + 1 THEN 0 ELSE n - LimbDigits * i]
<1>5. ASSUME NEW i \in 1 .. q + 1 PROVE Chunk(i) = SubSeq(s, cut[i] + 1, cut[i - 1])
  <2>1. i \in 0 .. q + 1 /\ i - 1 \in 0 .. q + 1 /\ i - 1 # q + 1
    OBVIOUS
  <2>2. cut[i] = Source(i) /\ cut[i - 1] = n - LimbDigits * (i - 1)
    BY <1>4, <2>1
  <2>3. LimbDigits * (i - 1) = LimbDigits * i - LimbDigits /\ LimbDigits * i \in Nat
    BY <1>3
  <2>4. cut[i - 1] = Source(i) + Bytes(i)
    <3>1. CASE i = q + 1
      <4>1. i - 1 = q /\ Source(i) = 0 /\ Bytes(i) = n - LimbDigits * q
        BY <1>4, <3>1
      <4>2. n - LimbDigits * q \in Int
        BY <1>4
      <4> HIDE DEF Source, Bytes, cut
      <4> QED BY <2>2, <4>1, <4>2
    <3>2. CASE i # q + 1
      <4>1. Source(i) = n - LimbDigits * i /\ Bytes(i) = LimbDigits
        BY <1>4, <3>2
      <4> HIDE DEF Source, Bytes, cut
      <4> QED BY <1>2, <1>3, <2>2, <2>3, <4>1
    <3> QED BY <3>1, <3>2
  <2> HIDE DEF Source, Bytes, cut
  <2> QED BY <2>2, <2>4
<1>6. /\ \A i \in 0 .. q : cut[i] = n - LimbDigits * i
      /\ cut[q + 1] = 0
  <2>1. \A i \in 0 .. q : i \in 0 .. q + 1 /\ i # q + 1
    OBVIOUS
  <2> QED BY <2>1
<1> HIDE DEF Source, Bytes
<1>7. \A i \in 1 .. q + 1 : Chunk(i) \in Seq(Digit) /\ Len(Chunk(i)) <= LimbDigits
  <2>1. TAKE i \in 1 .. q + 1
  <2>2. \E x \in Nat, y \in Nat : x = cut[i] /\ y = cut[i - 1] /\ x <= y /\ y <= n /\ y - x <= LimbDigits
    <3>1. PICK e \in Nat, f \in Nat : e = LimbDigits * q /\ f = LimbDigits * (i - 1) /\ f <= e
      <4>1. LimbDigits * (i - 1) <= LimbDigits * q
        BY <1>3, TimesKeeps
      <4> QED BY <1>3, <4>1
    <3>2. LimbDigits * i = f + LimbDigits /\ n - e \in 1 .. LimbDigits
      BY <1>3, <1>4, <3>1
    <3>3. cut[i - 1] = n - f
      BY <1>6, <3>1
    <3>4. CASE i = q + 1
      <4>1. cut[i] = 0 /\ e = f
        BY <1>6, <3>1, <3>4
      <4> HIDE DEF cut
      <4>2. n - f \in Nat /\ 0 \in Nat /\ 0 <= n - f /\ n - f <= n /\ (n - f) - 0 <= LimbDigits
        BY <1>2, <3>2, <4>1
      <4> QED BY <3>3, <4>1, <4>2
    <3>5. CASE i # q + 1
      <4>1. cut[i] = n - (f + LimbDigits)
        BY <1>6, <3>2, <3>5
      <4>2. f + LimbDigits <= e
        <5>1. i <= q
          BY <3>5
        <5>2. LimbDigits * i <= LimbDigits * q
          BY <1>3, <5>1, TimesKeeps
        <5> QED BY <3>1, <3>2, <5>2
      <4> HIDE DEF cut
      <4>3. /\ n - f \in Nat /\ n - (f + LimbDigits) \in Nat /\ n - (f + LimbDigits) <= n - f
            /\ n - f <= n /\ (n - f) - (n - (f + LimbDigits)) <= LimbDigits
        BY <1>2, <1>3, <3>2, <4>2
      <4> QED BY <3>3, <4>1, <4>3
    <3> QED BY <3>4, <3>5
  <2>3. PICK x \in Nat, y \in Nat : x = cut[i] /\ y = cut[i - 1] /\ x <= y /\ y <= n /\ y - x <= LimbDigits
    BY <2>2
  <2> HIDE DEF cut
  <2>4. SubSeq(s, x + 1, y) \in Seq(Digit) /\ Len(SubSeq(s, x + 1, y)) = y - x
    BY SMTT(30), <1>2, <2>3, CutJoin
  <2> HIDE DEF Chunk
  <2> QED BY <1>5, <2>3, <2>4
<1> HIDE DEF Chunk
<1>8. data \in Seq(Limb) /\ Len(data) = q + 1 /\ \A i \in 1 .. q + 1 : data[i] = LimbOf(Chunk(i))
  <2>1. \A i \in 1 .. q + 1 : LimbOf(Chunk(i)) \in Limb
    BY <1>7, LimbOfRight
  <2>2. data \in [1 .. q + 1 -> Limb]
    BY <1>4, <2>1
  <2>3. q + 1 \in Nat
    OBVIOUS
  <2>4. \A i \in 1 .. q + 1 : data[i] = LimbOf(Chunk(i))
    BY <1>4
  <2> HIDE DEF data
  <2> QED BY <2>2, <2>3, <2>4, LengthOf
<1> HIDE DEF data
<1>9. Topped(data) /\ Magnitude(data) = Numeral(HexBase, s)
  <2>1. \A i \in 1 .. q + 1 : data[i] = LimbOf(SubSeq(s, cut[i] + 1, cut[i - 1]))
    <3> HIDE DEF cut
    <3> QED BY <1>5, <1>8
  <2>2. s \in Seq(Digit) /\ Len(s) - LimbDigits * q \in 1 .. LimbDigits /\ (s[1] = 0 => Len(s) = 1)
    BY <1>2, <1>4
  <2>3. cut = Cuts(s, q)
    BY DEF Cuts
  <2>4. CutsInto(s, q, data)
    <3> HIDE DEF cut
    <3> QED BY <2>1, <2>3 DEF CutsInto
  <2> HIDE DEF cut
  <2> QED BY <1>8, <2>2, <2>4, ChunksRight
<1> DEFINE sign == IF hex.minus THEN 1 ELSE 0
<1>10. /\ ap.data = data /\ ap.sign = sign /\ sign \in {0, 1} /\ ap \in Numbers
       /\ Number(data, 0) \in Numbers /\ [ap EXCEPT !.sign = 0] = Number(data, 0)
       /\ Number(data, 0).data = data /\ Number(data, 0).sign = 0
  <2>1. data \in Seq(Limb) /\ Len(data) # 0
    BY <1>8
  <2>2. sign \in {0, 1} /\ 0 \in {0, 1}
    OBVIOUS
  <2> HIDE DEF sign
  <2>3. ap = Number(data, sign)
    BY DEF sign
  <2>4. Number(data, sign) \in Numbers /\ Number(data, 0) \in Numbers
    BY <2>1, <2>2, NumbersAre
  <2>5. /\ Number(data, sign).data = data /\ Number(data, sign).sign = sign
        /\ Number(data, 0).data = data /\ Number(data, 0).sign = 0
    BY NumbersAre
  <2>6. [Number(data, sign) EXCEPT !.sign = 0] = Number(data, 0)
    BY DEF Number
  <2> HIDE DEF ap
  <2> QED BY <2>2, <2>3, <2>4, <2>5, <2>6
<1>11. Magnitude(data) \in Nat
  BY <1>8, MagnitudeType
<1>12. CASE IsZero(ap)
  <2>1. FromHex(hex) = Number(data, 0)
    BY <1>1, <1>10, <1>12
  <2>2. Magnitude(data) = 0
    <3>1. \A i \in 1 .. Len(data) : data[i] = 0
      <4> HIDE DEF ap
      <4> QED BY <1>10, <1>12 DEF IsZero
    <3> QED BY <1>8, <3>1, MagnitudeZero
  <2>3. Proper(Number(data, 0))
    BY <1>9, <1>10 DEF Proper
  <2>4. ValueOf(Number(data, 0)) = 0
    BY <1>10, <2>2 DEF ValueOf
  <2> QED BY <1>2, <1>9, <2>1, <2>2, <2>3, <2>4
<1>13. CASE ~IsZero(ap)
  <2>1. FromHex(hex) = ap
    BY <1>1, <1>13
  <2> HIDE DEF ap
  <2>2. Proper(ap)
    BY <1>9, <1>10, <1>13 DEF Proper
  <2>3. ValueOf(ap) = IF hex.minus THEN 0 - Magnitude(data) ELSE Magnitude(data)
    <3>1. CASE hex.minus
      BY <1>10, <1>11, <3>1 DEF ValueOf
    <3>2. CASE ~hex.minus
      BY <1>10, <1>11, <3>2 DEF ValueOf
    <3> QED BY <3>1, <3>2
  <2> QED BY <1>2, <1>9, <2>1, <2>2, <2>3
<1> QED BY <1>12, <1>13

-----------------------------------------------------------------------------
(* The caller's variables.                                                  *)

\* What they hold, and how long it is.
Variables == reg \in [Reg -> {Null} \cup Numbers]
Small == \A r \in Reg : Held(r) => Len(reg[r].data) <= MaxLen

\* A number is not what an unused variable holds.
LEMMA NotNull ==
  Null \notin Numbers /\ Null \notin Int
BY ApIntAssumption DEF Numbers

\* What a call gives is a number, for any numbers.
LEMMA PutKeeps ==
  ASSUME Variables, Small, NEW r \in Reg, NEW ap \in Numbers, Put(r, ap)
  PROVE  Variables' /\ Small'
<1>1. reg' = [reg EXCEPT ![r] = ap] /\ Len(ap.data) <= MaxLen
  BY DEF Put
<1>2. Variables'
  BY <1>1 DEF Variables
<1>3. Small'
  <2>1. SUFFICES ASSUME NEW q \in Reg, reg'[q] # Null PROVE Len(reg'[q].data) <= MaxLen
    BY DEF Small, Held
  <2>2. CASE q = r
    BY <1>1, <2>2 DEF Variables
  <2>3. CASE q # r
    BY <1>1, <2>1, <2>3 DEF Variables, Small, Held
  <2> QED BY <2>2, <2>3
<1> QED BY <1>2, <1>3

\* What a variable holds if it holds anything
LEMMA HeldNumber ==
  ASSUME Variables, NEW r \in Reg, Held(r)
  PROVE  reg[r] \in Numbers
BY DEF Variables, Held

\* The caller's arguments
LEMMA ArgumentsAre ==
  /\ \A n \in U64s : n \in Limb
  /\ \A hex \in Hexes : hex \in [minus : BOOLEAN, digits : Seq(Digit) \ {<<>>}]
  /\ \A n \in Shifts : n \in Nat
BY ApIntAssumption DEF Digit

\* Every step keeps numbers in the variables, none of them too long.
LEMMA VariablesStep ==
  ASSUME Variables, Small, [Next]_reg
  PROVE  Variables' /\ Small'
<1>1. CASE UNCHANGED reg
  BY <1>1 DEF Variables, Small, Held
<1>2. ASSUME NEW r \in Reg, CreateFromU64(r) PROVE Variables' /\ Small'
  <2>1. PICK n \in U64s : Put(r, FromU64(n))
    BY <1>2 DEF CreateFromU64
  <2>2. FromU64(n) \in Numbers
    <3>1. n \in Limb
      BY ArgumentsAre
    <3>2. Proper(FromU64(n))
      BY <3>1, FromU64Right
    <3> QED BY <3>2 DEF Proper
  <2> QED BY <2>1, <2>2, PutKeeps
<1>3. ASSUME NEW r \in Reg, CreateFromHex(r) PROVE Variables' /\ Small'
  <2>1. PICK hex \in Hexes : Put(r, FromHex(hex))
    BY <1>3 DEF CreateFromHex
  <2>2. FromHex(hex) \in Numbers
    <3>1. hex \in [minus : BOOLEAN, digits : Seq(Digit) \ {<<>>}]
      BY ArgumentsAre
    <3>2. Proper(FromHex(hex))
      BY <3>1, FromHexRight
    <3> QED BY <3>2 DEF Proper
  <2> QED BY <2>1, <2>2, PutKeeps
<1>4. ASSUME NEW r \in Reg, Destroy(r) PROVE Variables' /\ Small'
  <2>1. reg' = [reg EXCEPT ![r] = Null]
    BY <1>4 DEF Destroy
  <2> QED BY <2>1 DEF Variables, Small, Held
<1>5. ASSUME NEW r \in Reg, NEW x \in Reg, Negate(r, x) PROVE Variables' /\ Small'
  <2>1. Held(x) /\ Put(r, Neg(reg[x]))
    BY <1>5 DEF Negate
  <2>2. Neg(reg[x]) \in Numbers
    BY <2>1, HeldNumber, NegRight
  <2> QED BY <2>1, <2>2, PutKeeps
<1>6. ASSUME NEW r \in Reg, NEW x \in Reg, LshiftN(r, x) PROVE Variables' /\ Small'
  <2>1. Held(x) /\ \E n \in Shifts : \E ap \in Shifted(reg[x], n) : Put(r, ap)
    BY <1>6 DEF LshiftN
  <2>2. PICK n \in Shifts : \E ap \in Shifted(reg[x], n) : Put(r, ap)
    BY <2>1
  <2>3. PICK ap \in Shifted(reg[x], n) : Put(r, ap)
    BY <2>2
  <2>4. reg[x] \in Numbers /\ n \in Nat
    BY <2>1, HeldNumber, ArgumentsAre
  <2>5. ap \in Numbers
    BY <2>4, ShiftRight
  <2> QED BY <2>3, <2>5, PutKeeps
<1>7. ASSUME NEW r \in Reg, NEW x \in Reg, NEW y \in Reg, Add(r, x, y) PROVE Variables' /\ Small'
  <2>1. Held(x) /\ Held(y) /\ Put(r, AddNumbers(reg[x], reg[y]))
    BY <1>7 DEF Add
  <2>2. reg[x] \in Numbers /\ reg[y] \in Numbers
    BY <2>1, HeldNumber
  <2>3. AddNumbers(reg[x], reg[y]) \in Numbers
    BY <2>2, AddRight
  <2> QED BY <2>1, <2>3, PutKeeps
<1>8. ASSUME NEW r \in Reg, NEW x \in Reg, NEW y \in Reg, Sub(r, x, y) PROVE Variables' /\ Small'
  <2>1. Held(x) /\ Held(y) /\ Put(r, SubNumbers(reg[x], reg[y]))
    BY <1>8 DEF Sub
  <2>2. reg[x] \in Numbers /\ reg[y] \in Numbers
    BY <2>1, HeldNumber
  <2>3. SubNumbers(reg[x], reg[y]) \in Numbers
    BY <2>2, SubRight
  <2> QED BY <2>1, <2>3, PutKeeps
<1> QED BY <1>1, <1>2, <1>3, <1>4, <1>5, <1>6, <1>7, <1>8, Zenon DEF Next

\* Whatever the caller does, Avoid or not, a number has at least one limb and at
\* most MaxLen, every limb fits its word, and the sign is a flag.
THEOREM TypeCorrect == Spec => []TypeOK
<1>1. Init => Variables /\ Small
  BY DEF Init, Variables, Small, Held
<1>2. (Variables /\ Small) /\ [Next]_reg => (Variables /\ Small)'
  BY VariablesStep
<1>3. Variables /\ Small => TypeOK
  <2>1. SUFFICES ASSUME Variables, Small PROVE TypeOK
    OBVIOUS
  <2> DEFINE Datas == UNION {[1 .. n -> Limb] : n \in 1 .. MaxLen}
  <2>2. ASSUME NEW r \in Reg, reg[r] # Null PROVE reg[r] \in [data : Datas, sign : {0, 1}]
    <3>1. reg[r] \in Numbers /\ Len(reg[r].data) <= MaxLen
      BY <2>1, <2>2 DEF Variables, Small, Held
    <3>2. PICK data \in Seq(Limb), sign \in {0, 1} : reg[r] = [data |-> data, sign |-> sign] /\ data # <<>>
      BY <3>1 DEF Numbers
    <3>3. Len(data) \in 1 .. MaxLen
      <4>1. Len(data) <= MaxLen
        BY <3>1, <3>2
      <4> QED BY <3>2, <4>1, ApIntAssumption
    <3>4. data \in [1 .. Len(data) -> Limb]
      OBVIOUS
    <3>5. data \in Datas
      BY <3>3, <3>4, Zenon
    <3> HIDE DEF Datas
    <3> QED BY <3>2, <3>5
  <2> HIDE DEF Datas
  <2>3. reg \in [Reg -> {Null} \cup [data : Datas, sign : {0, 1}]]
    BY <2>1, <2>2 DEF Variables
  <2> QED BY <2>3 DEF TypeOK, Datas
<1> QED BY <1>1, <1>2, <1>3, PTL DEF Spec

-----------------------------------------------------------------------------
(* A caller that stays away from what goes wrong.                           *)

\* The caller makes neither call that goes wrong.
Careful == Avoid = {"sub", "shift"}

\* Every variable's number is in its one representation.
AllProper == \A r \in Reg : Held(r) => Proper(reg[r])

\* The integers that the variables hold
Vals == [r \in Reg |-> IF Held(r) THEN ValueOf(reg[r]) ELSE Null]

\* Keeping a number in its one representation assigns its integer.
LEMMA PutRight ==
  ASSUME Variables, AllProper, NEW r \in Reg, NEW ap, Proper(ap), Put(r, ap)
  PROVE  AllProper' /\ Vals' = [Vals EXCEPT ![r] = ValueOf(ap)]
<1>1. reg' = [reg EXCEPT ![r] = ap] /\ ap # Null
  <2>1. ap \in Numbers
    BY DEF Proper
  <2> QED BY <2>1, NotNull DEF Put
<1>2. AllProper'
  BY <1>1 DEF AllProper, Held, Variables
<1>3. \A q \in Reg : Vals'[q] = [Vals EXCEPT ![r] = ValueOf(ap)][q]
  BY <1>1 DEF Vals, Held, Variables
<1>4. Vals' = [Vals EXCEPT ![r] = ValueOf(ap)]
  BY <1>3 DEF Vals
<1> QED BY <1>2, <1>4

\* What a variable holds, and that the integer says so.
LEMMA HeldProper ==
  ASSUME Variables, AllProper, NEW r \in Reg, Held(r)
  PROVE  /\ Proper(reg[r]) /\ reg[r] \in Numbers /\ ValueOf(reg[r]) \in Int
         /\ Vals[r] = ValueOf(reg[r]) /\ Vals[r] # Null
<1>1. Proper(reg[r]) /\ reg[r] \in Numbers
  BY DEF AllProper, Proper
<1>2. ValueOf(reg[r]) \in Int
  BY <1>1, NegRight
<1>3. Vals[r] = ValueOf(reg[r])
  BY DEF Vals
<1> QED BY <1>1, <1>2, <1>3, NotNull

\* Each call keeps the representation and does to the integers what BigIntegers says.
LEMMA CarefulStep ==
  ASSUME Careful, Variables, AllProper, [Next]_reg
  PROVE  AllProper' /\ [Abstract!Next]_Vals
<1>1. CASE UNCHANGED reg
  BY <1>1 DEF AllProper, Vals, Held
<1>2. ASSUME NEW r \in Reg, CreateFromU64(r) PROVE AllProper' /\ Abstract!CreateFromU64(r)
  <2>1. PICK n \in U64s : Put(r, FromU64(n))
    BY <1>2 DEF CreateFromU64
  <2>2. Proper(FromU64(n)) /\ ValueOf(FromU64(n)) = n
    BY ArgumentsAre, FromU64Right
  <2>3. AllProper' /\ Vals' = [Vals EXCEPT ![r] = n]
    BY <2>1, <2>2, PutRight
  <2> QED BY <2>3 DEF Abstract!CreateFromU64, Abstract!Assign, Vals
<1>3. ASSUME NEW r \in Reg, CreateFromHex(r) PROVE AllProper' /\ Abstract!CreateFromHex(r)
  <2>1. PICK hex \in Hexes : Put(r, FromHex(hex))
    BY <1>3 DEF CreateFromHex
  <2>2. hex \in [minus : BOOLEAN, digits : Seq(Digit) \ {<<>>}]
    BY ArgumentsAre
  <2>3. /\ Proper(FromHex(hex))
        /\ ValueOf(FromHex(hex)) = IF hex.minus THEN 0 - Numeral(HexBase, hex.digits)
                                   ELSE Numeral(HexBase, hex.digits)
    BY <2>2, FromHexRight
  <2>4. ValueOf(FromHex(hex)) = Abstract!Signed(hex.minus, Abstract!NumberOf(hex.digits))
    <3>1. Numeral(HexBase, hex.digits) \in Nat
      <4>1. HexBase \in Nat
        BY WidthType
      <4>2. hex.digits \in Seq(Nat)
        BY <2>2, <4>1 DEF Digit
      <4> QED BY <4>1, <4>2, NumeralType
    <3>2. PICK m \in Nat : m = Numeral(HexBase, hex.digits)
      BY <3>1
    <3>3. Abstract!NumberOf(hex.digits) = m
      BY <3>2, Zenon DEF Abstract!NumberOf, Abstract!Numeral, Numeral
    <3>4. ValueOf(FromHex(hex)) = IF hex.minus THEN 0 - m ELSE m
      BY <2>3, <3>2, Zenon
    <3>5. Abstract!Signed(hex.minus, m) = IF hex.minus THEN -m ELSE m
      BY Zenon DEF Abstract!Signed
    <3>6. 0 - m = -m
      OBVIOUS
    <3> QED BY <3>3, <3>4, <3>5, <3>6, Zenon
  <2>5. AllProper' /\ Vals' = [Vals EXCEPT ![r] = ValueOf(FromHex(hex))]
    BY <2>1, <2>3, PutRight
  <2> QED BY <2>4, <2>5, Zenon DEF Abstract!CreateFromHex, Abstract!Assign, Vals
<1>4. ASSUME NEW r \in Reg, Destroy(r) PROVE AllProper' /\ Abstract!Destroy(r)
  <2>1. Held(r) /\ reg' = [reg EXCEPT ![r] = Null]
    BY <1>4 DEF Destroy
  <2>2. AllProper'
    BY <2>1 DEF AllProper, Held, Variables
  <2>3. \A q \in Reg : Vals'[q] = [Vals EXCEPT ![r] = Null][q]
    BY <2>1 DEF Vals, Held, Variables
  <2>4. Vals' = [Vals EXCEPT ![r] = Null]
    BY <2>3 DEF Vals
  <2>5. Vals[r] # Null
    BY <2>1, HeldProper
  <2> QED BY <2>2, <2>4, <2>5 DEF Abstract!Destroy, Abstract!Held, Abstract!Assign, Vals
<1>5. ASSUME NEW r \in Reg, NEW x \in Reg, Negate(r, x) PROVE AllProper' /\ Abstract!Negate(r, x)
  <2>1. Held(x) /\ Put(r, Neg(reg[x]))
    BY <1>5 DEF Negate
  <2>2. Proper(reg[x]) /\ ValueOf(reg[x]) \in Int /\ Vals[x] = ValueOf(reg[x]) /\ Vals[x] # Null
    BY <2>1, HeldProper
  <2>3. Proper(Neg(reg[x])) /\ ValueOf(Neg(reg[x])) = 0 - ValueOf(reg[x])
    BY <2>2, NegRight
  <2>4. AllProper' /\ Vals' = [Vals EXCEPT ![r] = ValueOf(Neg(reg[x]))]
    BY <2>1, <2>3, PutRight
  <2>5. ValueOf(Neg(reg[x])) = -Vals[x]
    BY <2>2, <2>3
  <2> QED BY <2>2, <2>4, <2>5, Zenon DEF Abstract!Negate, Abstract!Held, Abstract!Assign, Vals
<1>6. ASSUME NEW r \in Reg, NEW x \in Reg, LshiftN(r, x) PROVE AllProper' /\ Abstract!LshiftN(r, x)
  <2>1. Held(x) /\ \E n \in Shifts : /\ ~LeavesGap(reg[x], n)
                                     /\ \E ap \in Shifted(reg[x], n) : Put(r, ap)
    BY <1>6 DEF LshiftN, Careful
  <2>2. PICK n \in Shifts : ~LeavesGap(reg[x], n) /\ \E ap \in Shifted(reg[x], n) : Put(r, ap)
    BY <2>1
  <2>3. PICK ap \in Shifted(reg[x], n) : Put(r, ap)
    BY <2>2
  <2>4. Proper(reg[x]) /\ reg[x] \in Numbers /\ Vals[x] = ValueOf(reg[x]) /\ Vals[x] # Null
    BY <2>1, HeldProper
  <2>5. Proper(ap) /\ ValueOf(ap) = Vals[x] * 2 ^ n
    <3>1. n \in Nat
      BY ArgumentsAre
    <3>2. Proper(ap) /\ ValueOf(ap) = ValueOf(reg[x]) * 2 ^ n
      BY <2>2, <2>4, <3>1, ShiftRight
    <3> QED BY <2>4, <3>2, Zenon
  <2>6. AllProper' /\ Vals' = [Vals EXCEPT ![r] = ValueOf(ap)]
    BY <2>3, <2>5, PutRight
  <2>7. Vals' = [Vals EXCEPT ![r] = Vals[x] * 2 ^ n]
    BY <2>5, <2>6, Zenon
  <2> QED BY <2>4, <2>6, <2>7, Zenon DEF Abstract!LshiftN, Abstract!Held, Abstract!Assign, Vals
<1>7. ASSUME NEW r \in Reg, NEW x \in Reg, NEW y \in Reg, Add(r, x, y)
      PROVE  AllProper' /\ Abstract!Add(r, x, y)
  <2>1. Held(x) /\ Held(y) /\ ~AddLosesTop(reg[x], reg[y]) /\ Put(r, AddNumbers(reg[x], reg[y]))
    BY <1>7 DEF Add, Careful
  <2>2. Proper(reg[x]) /\ reg[x] \in Numbers /\ Vals[x] = ValueOf(reg[x]) /\ Vals[x] # Null
    BY <2>1, HeldProper
  <2>3. Proper(reg[y]) /\ reg[y] \in Numbers /\ Vals[y] = ValueOf(reg[y]) /\ Vals[y] # Null
    BY <2>1, HeldProper
  <2>4. /\ Proper(AddNumbers(reg[x], reg[y]))
        /\ ValueOf(AddNumbers(reg[x], reg[y])) = ValueOf(reg[x]) + ValueOf(reg[y])
    BY <2>1, <2>2, <2>3, AddRight
  <2>5. AllProper' /\ Vals' = [Vals EXCEPT ![r] = ValueOf(AddNumbers(reg[x], reg[y]))]
    BY <2>1, <2>4, PutRight
  <2>6. Vals' = [Vals EXCEPT ![r] = Vals[x] + Vals[y]]
    BY <2>2, <2>3, <2>4, <2>5, Zenon
  <2> QED BY <2>2, <2>3, <2>5, <2>6, Zenon DEF Abstract!Add, Abstract!Held, Abstract!Assign, Vals
<1>8. ASSUME NEW r \in Reg, NEW x \in Reg, NEW y \in Reg, Sub(r, x, y)
      PROVE  AllProper' /\ Abstract!Sub(r, x, y)
  <2>1. Held(x) /\ Held(y) /\ ~SubLosesTop(reg[x], reg[y]) /\ Put(r, SubNumbers(reg[x], reg[y]))
    BY <1>8 DEF Sub, Careful
  <2>2. Proper(reg[x]) /\ reg[x] \in Numbers /\ Vals[x] = ValueOf(reg[x]) /\ Vals[x] # Null
    BY <2>1, HeldProper
  <2>3. Proper(reg[y]) /\ reg[y] \in Numbers /\ Vals[y] = ValueOf(reg[y]) /\ Vals[y] # Null
    BY <2>1, HeldProper
  <2>4. /\ Proper(SubNumbers(reg[x], reg[y]))
        /\ ValueOf(SubNumbers(reg[x], reg[y])) = ValueOf(reg[x]) - ValueOf(reg[y])
    BY <2>1, <2>2, <2>3, SubRight
  <2>5. AllProper' /\ Vals' = [Vals EXCEPT ![r] = ValueOf(SubNumbers(reg[x], reg[y]))]
    BY <2>1, <2>4, PutRight
  <2>6. Vals' = [Vals EXCEPT ![r] = Vals[x] - Vals[y]]
    BY <2>2, <2>3, <2>4, <2>5, Zenon
  <2> QED BY <2>2, <2>3, <2>5, <2>6, Zenon DEF Abstract!Sub, Abstract!Held, Abstract!Assign, Vals
<1> QED BY <1>1, <1>2, <1>3, <1>4, <1>5, <1>6, <1>7, <1>8, Zenon DEF Next, Abstract!Next

\* The inductive invariant of a careful caller.
CarefulInv == Variables /\ Small /\ AllProper

\* It holds throughout.
LEMMA CarefulInvariant ==
  ASSUME Careful
  PROVE  Spec => []CarefulInv
<1>1. Init => CarefulInv
  BY DEF Init, CarefulInv, Variables, Small, AllProper, Held
<1>2. CarefulInv /\ [Next]_reg => CarefulInv'
  BY VariablesStep, CarefulStep DEF CarefulInv
<1> QED BY <1>1, <1>2, PTL DEF Spec

\* apint_compare and apint_format_as_hex can rely on it: no call of a careful
\* caller leaves a zero limb at the top or a negative zero.
THEOREM OneRepresentation == ASSUME Careful PROVE Spec => []Canonical
<1>1. CarefulInv => Canonical
  BY DEF CarefulInv, AllProper, Proper, Topped, Canonical
<1>2. Spec => []CarefulInv
  BY CarefulInvariant
<1> QED BY <1>1, <1>2, PTL

\* Every chain of calls leaves in the variables the integers that it should: for
\* any width of a limb, any arguments and any numbers, if the caller is careful.
THEOREM ImplementsIntegers == ASSUME Careful PROVE Spec => RefinesIntegers
<1>1. Spec => []CarefulInv
  BY CarefulInvariant
<1>2. Init => Abstract!Init
  BY DEF Init, Abstract!Init, Held
<1>3. CarefulInv /\ [Next]_reg => [Abstract!Next]_Vals
  BY CarefulStep DEF CarefulInv
<1> QED BY <1>1, <1>2, <1>3, PTL DEF Spec, RefinesIntegers, Abstract!Spec, Vals

-----------------------------------------------------------------------------
(* What apint_compare, apint_highest_bit_set, apint_get_bits and             *)
(* apint_format_as_hex answer.                                              *)

\* Above is what the order of the integers is.
LEMMA AboveGreater ==
  ASSUME NEW a \in Numbers, NEW b \in Numbers, Above(a, b)
  PROVE  Magnitude(a.data) \in Nat /\ Magnitude(b.data) \in Nat /\ Magnitude(a.data) > Magnitude(b.data)
<1> DEFINE n == MaxLenOf(a, b)
           s == Resized(a.data, n)
           d == Resized(b.data, n)
<1>1. /\ n \in Nat \ {0} /\ n >= Len(a.data) /\ n >= Len(b.data)
      /\ a.data \in Seq(Limb) /\ b.data \in Seq(Limb)
  BY MaxLenIs, NumbersAre
<1>2. PICK k \in 1 .. n : s[k] > d[k] /\ \A i \in k + 1 .. n : s[i] = d[i]
  BY DEF Above
<1> HIDE DEF n
<1>3. /\ s \in Seq(Limb) /\ Len(s) = n /\ Magnitude(s) = Magnitude(a.data)
      /\ d \in Seq(Limb) /\ Len(d) = n /\ Magnitude(d) = Magnitude(b.data)
      /\ s \in [1 .. n -> Limb] /\ d \in [1 .. n -> Limb]
  BY <1>1, Resizing
<1> HIDE DEF s, d
<1>4. s \in Seq(Nat) /\ d \in Seq(Nat)
  BY <1>3, MagnitudeType
<1>5. PICK g \in [1 .. n + 1 -> Nat] : Tops(g, s) /\ Magnitude(s) = g[1]
  BY <1>3, <1>4, MagnitudeSteps
<1>6. PICK h \in [1 .. n + 1 -> Nat] : Tops(h, d) /\ Magnitude(d) = h[1]
  BY <1>3, <1>4, MagnitudeSteps
<1>7. PICK B \in Nat \ {0, 1} : B = Base /\ Limb = 0 .. B - 1
  BY WidthType DEF Limb
<1>8. /\ g[n + 1] = 0 /\ h[n + 1] = 0
      /\ \A i \in 1 .. n : g[i] = B * g[i + 1] + s[i] /\ h[i] = B * h[i + 1] + d[i]
  BY <1>3, <1>5, <1>6, <1>7 DEF Tops
<1>9. \A i \in 1 .. n : s[i] \in 0 .. B - 1 /\ d[i] \in 0 .. B - 1
  BY <1>3, <1>7
\* above the place that decides, both are worth the same
<1> DEFINE S == {j \in 0 .. n - k : g[n + 1 - j] = h[n + 1 - j]}
<1>10. g[k + 1] = h[k + 1]
  <2>1. n - k \in Nat /\ n + 1 - (n - k) = k + 1 /\ n + 1 - 0 = n + 1
    BY <1>1
  <2>2. 0 \in S
    BY <1>8, <2>1
  <2>3. ASSUME NEW j \in 1 .. n - k, j - 1 \in S PROVE j \in S
    <3>1. PICK i \in 1 .. n : i = n + 1 - j /\ n + 1 - (j - 1) = i + 1 /\ i \in k + 1 .. n
      <4>1. n + 1 - j \in 1 .. n /\ n + 1 - (j - 1) = (n + 1 - j) + 1 /\ n + 1 - j \in k + 1 .. n
        BY <1>1
      <4> QED BY <4>1
    <3>2. g[i + 1] = h[i + 1] /\ s[i] = d[i]
      BY <1>2, <2>3, <3>1
    <3>3. g[i] = h[i]
      BY <1>8, <3>2
    <3> QED BY <3>1, <3>3
  <2> HIDE DEF S
  <2>4. 0 .. n - k \subseteq S
    BY <2>1, <2>2, <2>3, UpTo
  <2>5. n - k \in S
    BY <2>1, <2>4
  <2> QED BY <2>1, <2>5 DEF S
\* and from there on the first is worth more
<1> DEFINE T == {j \in 0 .. k - 1 : g[k - j] > h[k - j]}
<1>11. g[1] > h[1]
  <2>1. k - 1 \in Nat /\ k - 0 = k /\ k - (k - 1) = 1
    BY <1>1
  <2>2. 0 \in T
    <3>1. PICK x \in Nat, y \in 0 .. B - 1, z \in 0 .. B - 1 :
            x = g[k + 1] /\ x = h[k + 1] /\ y = s[k] /\ z = d[k]
      <4>1. k + 1 \in 1 .. n + 1
        BY <1>1
      <4> QED BY <4>1, <1>5, <1>9, <1>10
    <3>2. g[k] = B * x + y /\ h[k] = B * x + z /\ y > z
      BY <1>2, <1>8, <3>1
    <3>3. B * x \in Nat
      OBVIOUS
    <3>4. g[k] > h[k]
      BY <3>2, <3>3
    <3> QED BY <2>1, <3>4
  <2>3. ASSUME NEW j \in 1 .. k - 1, j - 1 \in T PROVE j \in T
    <3>1. PICK i \in 1 .. n : i = k - j /\ k - (j - 1) = i + 1 /\ i + 1 \in 1 .. n + 1
      <4>1. k - j \in 1 .. n /\ k - (j - 1) = (k - j) + 1 /\ (k - j) + 1 \in 1 .. n + 1
        BY <1>1
      <4> QED BY <4>1
    <3>2. PICK x \in Nat, y \in Nat, u \in 0 .. B - 1, v \in 0 .. B - 1 :
            x = g[i + 1] /\ y = h[i + 1] /\ u = s[i] /\ v = d[i] /\ x > y
      <4>1. g[i + 1] > h[i + 1]
        BY <2>3, <3>1
      <4> QED BY <3>1, <4>1, <1>5, <1>6, <1>9
    <3>3. B * (y + 1) <= B * x /\ B * (y + 1) = B * y + B /\ B * y \in Nat /\ B * x \in Nat
      <4>1. y + 1 <= x /\ y + 1 \in Int /\ x \in Int
        BY <3>2
      <4>2. B * (y + 1) <= B * x
        BY <4>1, TimesKeeps
      <4> QED BY <4>2
    <3>4. g[i] = B * x + u /\ h[i] = B * y + v
      BY <1>8, <3>2
    <3>5. g[i] > h[i]
      BY <3>3, <3>4
    <3> QED BY <3>1, <3>5
  <2> HIDE DEF T
  <2>4. 0 .. k - 1 \subseteq T
    BY <2>1, <2>2, <2>3, UpTo
  <2>5. k - 1 \in T
    BY <2>1, <2>4
  <2> QED BY <2>1, <2>5 DEF T
<1>12. 1 \in 1 .. n + 1
  BY <1>1
<1> QED BY <1>3, <1>5, <1>6, <1>11, <1>12

\* Numbers that stand for the same integer are the same.
LEMMA OneNumber ==
  ASSUME NEW a, NEW b, Proper(a), Proper(b), ValueOf(a) = ValueOf(b)
  PROVE  a = b
<1>1. /\ a \in Numbers /\ b \in Numbers /\ a.sign \in {0, 1} /\ b.sign \in {0, 1}
      /\ a = Number(a.data, a.sign) /\ b = Number(b.data, b.sign)
  BY NumbersAre DEF Proper
<1>2. PICK m \in Nat, k \in Nat : m = Magnitude(a.data) /\ k = Magnitude(b.data)
  BY ProperZero
<1>3. (a.sign = 1 => m # 0) /\ (b.sign = 1 => k # 0)
  BY <1>2, ProperZero DEF Proper
<1>4. ValueOf(a) = (IF a.sign = 1 THEN 0 - m ELSE m) /\ ValueOf(b) = (IF b.sign = 1 THEN 0 - k ELSE k)
  <2>1. -m = 0 - m /\ -k = 0 - k
    OBVIOUS
  <2> QED BY <1>2, <2>1 DEF ValueOf
<1>5. a.sign = b.sign /\ m = k
  <2>1. (IF a.sign = 1 THEN 0 - m ELSE m) = (IF b.sign = 1 THEN 0 - k ELSE k)
    BY <1>4
  <2>2. CASE a.sign = 1
    <3>1. 0 - m < 0
      BY <1>3, <2>2
    <3>2. b.sign = 1
      BY <2>1, <2>2, <3>1
    <3> QED BY <2>1, <2>2, <3>2
  <2>3. CASE a.sign = 0
    <3>1. b.sign # 1
      <4>1. SUFFICES ASSUME b.sign = 1 PROVE FALSE
        OBVIOUS
      <4>2. 0 - k < 0
        BY <1>3, <4>1
      <4> QED BY <2>1, <2>3, <4>1, <4>2
    <3> QED BY <1>1, <2>1, <2>3, <3>1
  <2> QED BY <1>1, <2>2, <2>3
<1>6. ~Above(a, b) /\ ~Above(b, a)
  <2>1. Above(a, b) => m > k
    BY <1>1, <1>2, AboveGreater
  <2>2. Above(b, a) => k > m
    BY <1>1, <1>2, AboveGreater
  <2> QED BY <1>5, <2>1, <2>2
<1>7. a.data = b.data
  BY <1>5, <1>6, CompareSameSign
<1> QED BY <1>1, <1>5, <1>7

\* apint_compare
LEMMA CompareRight ==
  ASSUME NEW a, NEW b, Proper(a), Proper(b)
  PROVE  Compare(a, b) = Sgn(ValueOf(a) - ValueOf(b))
<1>1. /\ a \in Numbers /\ b \in Numbers /\ a.sign \in {0, 1} /\ b.sign \in {0, 1}
  BY NumbersAre DEF Proper
<1>2. PICK m \in Nat, k \in Nat : m = Magnitude(a.data) /\ k = Magnitude(b.data)
  BY ProperZero
<1>3. (a.sign = 1 => m # 0) /\ (b.sign = 1 => k # 0)
  BY <1>2, ProperZero DEF Proper
<1>4. ValueOf(a) = (IF a.sign = 1 THEN 0 - m ELSE m) /\ ValueOf(b) = (IF b.sign = 1 THEN 0 - k ELSE k)
  <2>1. -m = 0 - m /\ -k = 0 - k
    OBVIOUS
  <2> QED BY <1>2, <2>1 DEF ValueOf
<1>5. CASE a.sign # b.sign
  <2>1. Compare(a, b) = b.sign - a.sign
    BY <1>5 DEF Compare
  <2>2. CASE a.sign = 1
    <3>1. b.sign = 0 /\ ValueOf(a) - ValueOf(b) = (0 - m) - k
      BY <1>1, <1>4, <1>5, <2>2
    <3>2. (0 - m) - k < 0 /\ ~((0 - m) - k > 0)
      BY <1>3, <2>2
    <3> QED BY <2>1, <2>2, <3>1, <3>2 DEF Sgn
  <2>3. CASE a.sign = 0
    <3>1. b.sign = 1 /\ ValueOf(a) - ValueOf(b) = m - (0 - k)
      BY <1>1, <1>4, <1>5, <2>3
    <3>2. m - (0 - k) > 0
      BY <1>3, <3>1
    <3> QED BY <2>1, <2>3, <3>1, <3>2 DEF Sgn
  <2> QED BY <1>1, <2>2, <2>3
<1>6. CASE a.sign = b.sign
  <2>1. CASE a.data = b.data /\ Compare(a, b) = 0
    <3>1. ValueOf(a) = ValueOf(b) /\ ValueOf(a) \in Int
      BY <1>1, <1>2, <1>4, <1>6, <2>1
    <3>2. ValueOf(a) - ValueOf(b) = 0
      BY <3>1
    <3> QED BY <2>1, <3>2 DEF Sgn
  <2>2. CASE Above(a, b) /\ Compare(a, b) = Flip(a)
    <3>1. m > k
      BY <1>1, <1>2, <2>2, AboveGreater
    <3>2. ValueOf(a) - ValueOf(b) = IF a.sign = 1 THEN k - m ELSE m - k
      BY <1>4, <1>6
    <3> QED BY <2>2, <3>1, <3>2 DEF Sgn, Flip
  <2>3. CASE Above(b, a) /\ Compare(a, b) = 0 - Flip(a)
    <3>1. k > m
      BY <1>1, <1>2, <2>3, AboveGreater
    <3>2. ValueOf(a) - ValueOf(b) = IF a.sign = 1 THEN k - m ELSE m - k
      BY <1>4, <1>6
    <3> QED BY <2>3, <3>1, <3>2 DEF Sgn, Flip
  <2> QED BY <1>6, <2>1, <2>2, <2>3, CompareSameSign
<1> QED BY <1>5, <1>6

\* The limbs from a place on, and what is left below it.
LEMMA PlaceSplit ==
  ASSUME NEW data \in Seq(Limb), NEW g \in [1 .. Len(data) + 1 -> Nat], Tops(g, data)
  PROVE  \A i \in 0 .. Len(data) :
           /\ 2^(W * i) \in Nat \ {0}
           /\ \E low \in 0 .. 2^(W * i) - 1 : g[1] = 2^(W * i) * g[i + 1] + low
<1> DEFINE n == Len(data)
           P(i) == 2^(W * i)
           S == {i \in 0 .. n : \E low \in 0 .. P(i) - 1 : g[1] = P(i) * g[i + 1] + low}
<1>1. n \in Nat /\ \A i \in 1 .. n : data[i] \in Limb
  OBVIOUS
<1>2. PICK B \in Nat \ {0, 1} : B = Base /\ Limb = 0 .. B - 1 /\ B = 2^W
  BY WidthType DEF Limb
<1>3. \A i \in Nat : P(i) \in Nat \ {0} /\ P(i + 1) = B * P(i)
  BY ZenonT(30), <1>2, WidthType, PowerNext
<1>4. P(0) = 1
  <2>1. W * 0 = 0
    BY WidthType
  <2> QED BY <2>1, PowerZero
<1>5. \A i \in 1 .. n : g[i] = B * g[i + 1] + data[i]
  BY <1>2 DEF Tops
<1> HIDE DEF P, n
<1>6. 0 \in S
  <2>1. PICK x \in Nat : x = g[1] /\ x = g[0 + 1]
    <3>1. 1 \in 1 .. Len(data) + 1 /\ 0 + 1 = 1
      BY <1>1 DEF n
    <3> QED BY <3>1
  <2>2. 0 \in 0 .. P(0) - 1 /\ x = P(0) * x + 0
    BY <1>4
  <2>3. 0 \in 0 .. n
    BY <1>1
  <2>4. \E low \in 0 .. P(0) - 1 : g[1] = P(0) * g[0 + 1] + low
    BY <2>1, <2>2
  <2> QED BY <2>3, <2>4
<1>7. ASSUME NEW i \in 1 .. n, i - 1 \in S PROVE i \in S
  <2>1. i - 1 \in Nat /\ (i - 1) + 1 = i /\ i \in 0 .. n /\ i + 1 \in 1 .. Len(data) + 1
    BY <1>1 DEF n
  <2>2. PICK p \in Nat \ {0}, x \in Nat, c \in 0 .. B - 1 :
          p = P(i - 1) /\ x = g[i + 1] /\ c = data[i] /\ P(i) = B * p /\ g[i] = B * x + c
    <3>1. P(i - 1) \in Nat \ {0} /\ P(i) = B * P(i - 1)
      BY <1>3, <2>1
    <3>2. g[i + 1] \in Nat /\ data[i] \in 0 .. B - 1
      BY <1>1, <1>2, <2>1
    <3>3. g[i] = B * g[i + 1] + data[i]
      BY <1>5
    <3> QED BY <3>1, <3>2, <3>3
  <2>3. PICK low \in 0 .. p - 1 : g[1] = p * (B * x + c) + low
    BY <1>7, <2>1, <2>2
  <2>4. p * (B * x + c) = (B * p) * x + p * c
    <3>1. p * (B * x + c) = p * (B * x) + p * c
      OBVIOUS
    <3>2. p * (B * x) = (B * p) * x
      OBVIOUS
    <3> QED BY <3>1, <3>2
  <2>5. p * c + low \in 0 .. B * p - 1
    <3>1. p * c <= p * (B - 1) /\ p * c \in Nat
      <4>1. c <= B - 1 /\ c \in Int /\ B - 1 \in Int /\ p \in Nat /\ p * c \in Nat
        OBVIOUS
      <4> QED BY <4>1, TimesKeeps
    <3>2. p * (B - 1) = B * p - p /\ B * p \in Nat
      OBVIOUS
    <3> QED BY <3>1, <3>2
  <2>6. g[1] = (B * p) * x + (p * c + low)
    <3>1. (B * p) * x \in Nat /\ p * c \in Nat
      OBVIOUS
    <3> QED BY <2>3, <2>4, <3>1
  <2>7. \E l \in 0 .. P(i) - 1 : g[1] = P(i) * g[i + 1] + l
    BY <2>2, <2>5, <2>6
  <2> QED BY <2>1, <2>7
<1> HIDE DEF S
<1>8. 0 .. n \subseteq S
  BY <1>1, <1>6, <1>7, UpTo
<1>9. ASSUME NEW i \in 0 .. n
      PROVE  P(i) \in Nat \ {0} /\ \E low \in 0 .. P(i) - 1 : g[1] = P(i) * g[i + 1] + low
  <2>1. i \in S /\ i \in Nat
    BY <1>1, <1>8
  <2>2. P(i) \in Nat \ {0}
    BY <1>3, <2>1
  <2>3. \E low \in 0 .. P(i) - 1 : g[1] = P(i) * g[i + 1] + low
    BY <2>1 DEF S
  <2> QED BY <2>2, <2>3
<1> QED BY <1>9 DEF P, n

\* Powers grow.
LEMMA PowersGrow ==
  ASSUME NEW k \in Nat, NEW m \in Nat, k <= m
  PROVE  2^k \in Nat \ {0} /\ 2^m \in Nat \ {0} /\ 2^k <= 2^m
<1>1. m - k \in Nat /\ k + (m - k) = m
  OBVIOUS
<1>2. 2^(k + (m - k)) = 2^k * 2^(m - k)
  BY <1>1, PowerSum
<1>3. PICK a \in Nat \ {0}, b \in Nat \ {0}, c \in Nat \ {0} : a = 2^k /\ b = 2^(m - k) /\ c = 2^m
  BY <1>1, PowerPositive
<1>4. c = a * b
  BY <1>1, <1>2, <1>3
<1>5. a * 1 <= a * b
  <2>1. 1 <= b /\ 1 \in Int /\ b \in Int /\ a \in Nat
    OBVIOUS
  <2> QED BY <2>1, TimesKeeps
<1> QED BY <1>3, <1>4, <1>5

\* A positive number is between two powers of two.
LEMMA BetweenPowers ==
  ASSUME NEW n \in Nat, NEW x \in 1 .. 2^n - 1
  PROVE  \E p \in 0 .. n - 1 : 2^p <= x /\ x < 2^(p + 1)
<1>1. \A m \in Nat : 2^m \in Nat \ {0}
  BY PowerPositive
<1> DEFINE S == {m \in Nat : x < 2^m}
<1>2. n \in S /\ x \in Nat /\ x >= 1
  BY <1>1
<1>3. PICK m \in S : \A k \in S : m <= k
  <2>1. S \subseteq Nat /\ S # {}
    BY <1>2
  <2> HIDE DEF S
  <2> QED BY <2>1, LeastNumber
<1>4. m \in Nat /\ x < 2^m /\ m <= n
  BY <1>2, <1>3
<1>5. m # 0
  <2>1. SUFFICES ASSUME m = 0 PROVE FALSE
    OBVIOUS
  <2>2. x < 2^0
    BY <1>4, <2>1
  <2> QED BY <1>2, <2>2, PowerZero
<1>6. m - 1 \in 0 .. n - 1 /\ m - 1 \in Nat /\ (m - 1) + 1 = m /\ ~(m <= m - 1)
  BY <1>4, <1>5
<1>7. m - 1 \notin S
  <2> HIDE DEF S
  <2> QED BY <1>3, <1>6
<1>8. 2^(m - 1) <= x
  <2>1. ~(x < 2^(m - 1))
    BY <1>6, <1>7
  <2>2. PICK a \in Nat : a = 2^(m - 1)
    BY <1>1, <1>6
  <2> QED BY <1>2, <2>1, <2>2
<1>9. x < 2^((m - 1) + 1)
  BY <1>4, <1>6
<1> QED BY <1>6, <1>8, <1>9

\* The loop of apint_highest_bit_set on the top limb: how often it can be halved.
LEMMA HalvingsRight ==
  ASSUME NEW x \in Limb \ {0}
  PROVE  LET c == Cardinality({k \in 1 .. W : x \div 2^k # 0})
         IN  c \in 0 .. W - 1 /\ 2^c <= x /\ x < 2^(c + 1)
<1> DEFINE halvings == {k \in 1 .. W : x \div 2^k # 0}
<1>1. W \in Nat /\ x \in 1 .. 2^W - 1 /\ x \in Nat
  BY WidthType DEF Limb
<1>2. PICK p \in 0 .. W - 1 : 2^p <= x /\ x < 2^(p + 1)
  BY <1>1, BetweenPowers
<1>3. p \in Nat /\ p + 1 \in Nat
  BY <1>1
<1>4. ASSUME NEW k \in 1 .. W PROVE x \div 2^k # 0 <=> k \in 1 .. p
  <2>1. k \in Nat
    BY <1>1
  <2>2. PICK q \in Nat \ {0} : q = 2^k
    BY <2>1, PowerPositive
  <2>3. PICK d \in Nat, r \in 0 .. q - 1 : d = x \div q /\ x = q * d + r
    <3>1. x \div q \in Nat /\ x % q \in 0 .. q - 1 /\ x = q * (x \div q) + (x % q)
      BY <1>1, NatDivision
    <3> QED BY <3>1, Zenon
  <2>4. CASE k <= p
    <3>1. 2^k <= 2^p /\ 2^p \in Nat
      BY <1>3, <2>1, <2>4, PowersGrow
    <3>2. q <= x
      BY <1>1, <1>2, <2>2, <3>1
    <3>3. d # 0
      <4>1. SUFFICES ASSUME d = 0 PROVE FALSE
        OBVIOUS
      <4>2. q * d = 0
        BY <4>1
      <4> QED BY <2>3, <3>2, <4>2
    <3> QED BY <1>3, <2>2, <2>3, <2>4, <3>3
  <2>5. CASE ~(k <= p)
    <3>1. 2^(p + 1) <= 2^k /\ 2^(p + 1) \in Nat
      BY <1>3, <2>1, <2>5, PowersGrow
    <3>2. x < q
      BY <1>1, <1>2, <2>2, <3>1
    <3>3. x = q * 0 + x /\ x \in 0 .. q - 1
      BY <1>1, <3>2
    <3>4. x \div q = 0
      <4>1. 0 \in Int
        OBVIOUS
      <4> QED BY <3>3, <4>1, QuotientIs
    <3> QED BY <2>2, <2>5, <3>4
  <2> QED BY <2>4, <2>5
<1>5. halvings = 1 .. p
  <2>1. 1 .. p \subseteq 1 .. W
    BY <1>1, <1>3
  <2>2. \A k : k \in halvings <=> k \in 1 .. p
    BY <1>4, <2>1
  <2> HIDE DEF halvings
  <2> QED BY <2>2
<1>6. Cardinality(1 .. p) = p
  BY <1>3, FS_Interval
<1> HIDE DEF halvings
<1>7. Cardinality(halvings) = p
  BY <1>5, <1>6
<1> QED BY <1>2, <1>7 DEF halvings

\* apint_highest_bit_set
LEMMA HighestBitRight ==
  ASSUME NEW ap, Proper(ap)
  PROVE  LET n == Magnitude(ap.data)
             bit == HighestBitSet(ap)
         IN  IF n = 0 THEN bit = -1 ELSE bit \in Nat /\ 2^bit <= n /\ n < 2^(bit + 1)
<1> DEFINE data == ap.data
           len == Len(ap.data)
<1>1. data \in Seq(Limb) /\ len \in Nat \ {0} /\ data \in Seq(Nat)
  BY NumbersAre, MagnitudeType DEF Proper
<1>2. CASE Magnitude(data) = 0
  <2>1. IsZero(ap)
    BY <1>2, ProperZero
  <2> QED BY <1>2, <2>1 DEF HighestBitSet
<1>3. CASE Magnitude(data) # 0
  <2>1. ~IsZero(ap) /\ data[len] # 0
    BY <1>3, ProperZero
  <2>2. PICK x \in Limb \ {0} : x = data[len]
    BY <1>1, <2>1
  <2>3. PICK c \in 0 .. W - 1 : c = Cardinality({k \in 1 .. W : x \div 2^k # 0}) /\ 2^c <= x /\ x < 2^(c + 1)
    BY HalvingsRight
  <2>3a. c \in Nat /\ c + 1 \in Nat
    BY WidthType
  <2>4. PICK t \in Nat : t = W * (len - 1) /\ t = (len - 1) * W /\ W \in Nat
    <3>1. PICK l \in Nat, w \in Nat : l = len - 1 /\ w = W
      <4>1. len - 1 \in Nat /\ W \in Nat
        BY <1>1, WidthType
      <4> QED BY <4>1
    <3>2. w * l = l * w /\ w * l \in Nat
      OBVIOUS
    <3> QED BY <3>1, <3>2
  <2>5. HighestBitSet(ap) = t + c
    BY <2>1, <2>2, <2>3, <2>4 DEF HighestBitSet
  <2>6. PICK g \in [1 .. len + 1 -> Nat] : Tops(g, data) /\ Magnitude(data) = g[1]
    BY <1>1, MagnitudeSteps
  <2>7. g[len] = x
    <3>1. len \in 1 .. len /\ Base \in Nat /\ x \in Nat
      BY <1>1, WidthType
    <3>2. g[len] = Base * g[len + 1] + data[len] /\ g[len + 1] = 0
      BY <2>6, <3>1 DEF Tops
    <3> QED BY <2>2, <3>1, <3>2
  <2>8a. PICK p \in Nat \ {0} : p = 2^t /\ \E low \in 0 .. p - 1 : Magnitude(data) = p * x + low
    <3>1. len - 1 \in 0 .. len /\ (len - 1) + 1 = len
      BY <1>1
    <3>2. 2^(W * (len - 1)) \in Nat \ {0}
          /\ \E low \in 0 .. 2^(W * (len - 1)) - 1 : g[1] = 2^(W * (len - 1)) * g[(len - 1) + 1] + low
      <4> HIDE DEF data, len
      <4>1. \A i \in 0 .. Len(data) :
              /\ 2^(W * i) \in Nat \ {0}
              /\ \E low \in 0 .. 2^(W * i) - 1 : g[1] = 2^(W * i) * g[i + 1] + low
        BY <1>1, <2>6, PlaceSplit DEF len, data
      <4> QED BY <3>1, <4>1 DEF len, data
    <3> QED BY <2>4, <2>6, <2>7, <3>1, <3>2
  <2>8. PICK low \in 0 .. p - 1 : Magnitude(data) = p * x + low
    BY <2>8a
  <2>9. PICK u \in Nat \ {0}, v \in Nat \ {0} :
          u = 2^c /\ v = 2^(c + 1) /\ 2^(t + c) = p * u /\ 2^((t + c) + 1) = p * v
    <3>1. (t + c) + 1 = t + (c + 1)
      BY <2>3a
    <3>2. 2^(t + c) = 2^t * 2^c /\ 2^(t + (c + 1)) = 2^t * 2^(c + 1)
      BY <2>3a, PowerSum
    <3>3. 2^c \in Nat \ {0} /\ 2^(c + 1) \in Nat \ {0}
      BY <2>3a, PowerPositive
    <3> QED BY <2>8a, <3>1, <3>2, <3>3
  <2>10. x \in Nat /\ u <= x /\ x + 1 <= v
    BY <2>3, <2>9, WidthType
  <2>11. p * u <= p * x /\ p * (x + 1) <= p * v
    <3>1. u \in Int /\ x \in Int /\ x + 1 \in Int /\ v \in Int /\ p \in Nat
      BY <2>10
    <3> QED BY <2>10, <3>1, TimesKeeps
  <2>12. p * (x + 1) = p * x + p /\ p * x \in Nat /\ p * u \in Nat /\ p * v \in Nat
    BY <2>10
  <2>13. p * u <= p * x + low /\ p * x + low < p * v
    BY <2>11, <2>12
  <2>14. t + c \in Nat
    BY <2>4
  <2> HIDE DEF data
  <2>15. Magnitude(data) = p * x + low /\ HighestBitSet(ap) = t + c
    BY <2>5, <2>8
  <2> QED BY <1>3, <2>9, <2>13, <2>14, <2>15 DEF data
<1> QED BY <1>2, <1>3

\* apint_get_bits
LEMMA GetBitsRight ==
  ASSUME NEW ap \in Numbers, NEW i \in Nat
  PROVE  GetBits(ap, i) = (Magnitude(ap.data) \div 2^(W * i)) % Base
<1> DEFINE data == ap.data
           len == Len(ap.data)
<1>1. data \in Seq(Limb) /\ len \in Nat \ {0} /\ data \in Seq(Nat)
  BY NumbersAre, MagnitudeType
<1>2. PICK B \in Nat \ {0, 1} : B = Base /\ Limb = 0 .. B - 1
  BY WidthType DEF Limb
<1>3. PICK g \in [1 .. len + 1 -> Nat] : Tops(g, data) /\ Magnitude(data) = g[1]
  BY <1>1, MagnitudeSteps
<1>4. \A k \in 0 .. len :
        /\ 2^(W * k) \in Nat \ {0}
        /\ \E low \in 0 .. 2^(W * k) - 1 : g[1] = 2^(W * k) * g[k + 1] + low
  BY <1>1, <1>3, PlaceSplit
<1>5. CASE i < len
  <2>1. i \in 0 .. len /\ i + 1 \in 1 .. len /\ i + 1 \in 1 .. len + 1 /\ (i + 1) + 1 \in 1 .. len + 1
    BY <1>1, <1>5
  <2>2. PICK p \in Nat \ {0}, x \in Nat, y \in Nat, d \in 0 .. B - 1 :
          p = 2^(W * i) /\ x = g[i + 1] /\ y = g[(i + 1) + 1] /\ d = data[i + 1]
    <3>1. 2^(W * i) \in Nat \ {0}
      BY <1>4, <2>1
    <3>2. g[i + 1] \in Nat /\ g[(i + 1) + 1] \in Nat
      BY <1>3, <2>1
    <3>3. data[i + 1] \in 0 .. B - 1
      BY <1>1, <1>2, <2>1
    <3> QED BY <3>1, <3>2, <3>3
  <2>3. PICK low \in 0 .. p - 1 : Magnitude(data) = p * x + low
    BY <1>3, <1>4, <2>1, <2>2
  <2>4. Magnitude(data) \div p = x
    <3>1. x \in Int
      OBVIOUS
    <3> HIDE DEF data
    <3> QED BY <2>3, <3>1, QuotientIs
  <2>5. x = B * y + d
    <3>1. g[i + 1] = Base * g[(i + 1) + 1] + data[i + 1]
      BY <1>3, <2>1 DEF Tops
    <3> QED BY <1>2, <2>2, <3>1
  <2>6. x % B = d
    <3>1. B \in Nat \ {0} /\ y \in Int
      OBVIOUS
    <3> QED BY <2>5, <3>1, QuotientIs
  <2>7. GetBits(ap, i) = d
    BY <1>5, <2>2 DEF GetBits
  <2> QED BY <1>2, <2>2, <2>4, <2>6, <2>7
<1>6. CASE ~(i < len)
  <2>1. len \in 0 .. len /\ g[len + 1] = 0 /\ len \in Nat
    BY <1>1, <1>3 DEF Tops
  <2>2. PICK p \in Nat \ {0} : p = 2^(W * len)
    BY <1>4, <2>1
  <2>3. PICK low \in 0 .. p - 1 : Magnitude(data) = p * 0 + low
    BY <1>3, <1>4, <2>1, <2>2
  <2>4. PICK q \in Nat \ {0} : q = 2^(W * i) /\ p <= q
    <3>1. PICK w \in Nat : w = W
      BY WidthType
    <3>2. w * len <= w * i /\ w * len \in Nat /\ w * i \in Nat
      <4>1. len <= i /\ len \in Int /\ i \in Int /\ len \in Nat
        BY <1>1, <1>6
      <4>2. w * len <= w * i
        BY <4>1, TimesKeeps
      <4> QED BY <4>1, <4>2
    <3> QED BY <2>2, <3>1, <3>2, PowersGrow
  <2>5. Magnitude(data) = q * 0 + low /\ low \in 0 .. q - 1
    BY <2>3, <2>4
  <2>6. Magnitude(data) \div q = 0
    <3>1. 0 \in Int
      OBVIOUS
    <3> HIDE DEF data
    <3> QED BY <2>5, <3>1, QuotientIs
  <2>7. 0 % B = 0
    <3>1. B \in Nat \ {0} /\ 0 \in Int /\ 0 \in 0 .. B - 1 /\ 0 = B * 0 + 0
      OBVIOUS
    <3> QED BY <3>1, QuotientIs
  <2>8. GetBits(ap, i) = 0
    BY <1>6 DEF GetBits
  <2> QED BY <1>2, <2>4, <2>6, <2>7, <2>8
<1> QED BY <1>5, <1>6

\* The hexadecimal digits of a limb, with leading zeros
LEMMA PaddedRight ==
  ASSUME NEW limb \in Limb
  PROVE  /\ Padded(limb) \in Seq(Digit) /\ Len(Padded(limb)) = LimbDigits
         /\ Numeral(HexBase, Padded(limb)) = limb
<1> DEFINE E(k) == 2^(HexBits * (LimbDigits - k))
           g == [k \in 0 .. LimbDigits |-> limb \div E(k)]
           digits == Padded(limb)
<1>1. /\ HexBits \in Nat /\ LimbDigits \in Nat \ {0} /\ limb \in Nat
      /\ HexBits * LimbDigits = W
  BY ApIntAssumption, WidthType DEF W
<1>2. PICK H \in Nat \ {0} : H = HexBase /\ H = 2^HexBits /\ Digit = 0 .. H - 1
  BY WidthType DEF HexBase, Digit
<1>3. ASSUME NEW k \in 0 .. LimbDigits PROVE E(k) \in Nat \ {0}
  <2>1. LimbDigits - k \in Nat
    BY <1>1
  <2> QED BY <1>1, <2>1, PowerNext
<1>4. ASSUME NEW k \in 1 .. LimbDigits PROVE E(k - 1) = H * E(k)
  <2>1. PICK e \in Nat : LimbDigits - k = e /\ LimbDigits - (k - 1) = e + 1
    <3>1. LimbDigits - k \in Nat /\ LimbDigits - (k - 1) = (LimbDigits - k) + 1
      BY <1>1
    <3> QED BY <3>1
  <2>2. 2^(HexBits * (e + 1)) = 2^HexBits * 2^(HexBits * e)
    BY <1>1, PowerNext
  <2> QED BY <1>2, <2>1, <2>2
<1>5. limb \div E(0) = 0
  <2>1. E(0) = Base /\ limb \in 0 .. Base - 1 /\ Base \in Nat \ {0}
    <3>1. LimbDigits - 0 = LimbDigits
      BY <1>1
    <3> QED BY <1>1, <3>1, WidthType DEF Base, Limb
  <2>2. limb = Base * 0 + limb /\ 0 \in Int
    BY <1>1, <2>1
  <2> HIDE DEF E
  <2> QED BY <2>1, <2>2, QuotientIs
<1>6. limb \div E(LimbDigits) = limb
  <2>1. E(LimbDigits) = 1
    <3>1. LimbDigits - LimbDigits = 0 /\ HexBits * 0 = 0
      BY <1>1
    <3> QED BY <3>1, PowerZero
  <2>2. limb = 1 * limb + 0 /\ 0 \in 0 .. 1 - 1 /\ 1 \in Nat \ {0} /\ limb \in Int
    BY <1>1
  <2>3. limb \div 1 = limb
    BY <2>2, QuotientIs
  <2> HIDE DEF E
  <2> QED BY <2>1, <2>3
<1>7. \A k \in 1 .. LimbDigits : digits[k] = (limb \div E(k)) % H
  BY <1>2 DEF Padded
<1> HIDE DEF E
<1>8. ASSUME NEW k \in 1 .. LimbDigits
      PROVE  digits[k] \in Digit /\ limb \div E(k) = H * (limb \div E(k - 1)) + digits[k]
  <2>1. k \in 0 .. LimbDigits /\ k - 1 \in 0 .. LimbDigits
    BY <1>1
  <2>2. PICK p \in Nat \ {0} : p = E(k) /\ E(k - 1) = H * p /\ H * p \in Nat \ {0}
    <3>1. E(k) \in Nat \ {0} /\ E(k - 1) \in Nat \ {0}
      BY <1>3, <2>1
    <3>2. E(k - 1) = H * E(k)
      BY <1>4
    <3> QED BY <3>1, <3>2
  <2>3. PICK q \in Nat, r \in 0 .. p - 1 : q = limb \div p /\ limb = p * q + r
    <3>1. limb \div p \in Nat /\ limb % p \in 0 .. p - 1 /\ limb = p * (limb \div p) + (limb % p)
      BY <1>1, NatDivision
    <3> QED BY <3>1
  <2>4. PICK u \in Nat, v \in 0 .. H - 1 : u = q \div H /\ v = q % H /\ q = H * u + v
    BY NatDivision
  <2>5. limb = (H * p) * u + (p * v + r)
    <3>1. p * (H * u + v) = p * (H * u) + p * v
      OBVIOUS
    <3>2. p * (H * u) = (H * p) * u
      OBVIOUS
    <3>3. (H * p) * u \in Nat /\ p * v \in Nat
      OBVIOUS
    <3>4. limb = p * (H * u + v) + r
      BY <2>3, <2>4
    <3> QED BY <3>1, <3>2, <3>3, <3>4
  <2>6. p * v + r \in 0 .. H * p - 1
    <3>1. v <= H - 1 /\ v \in Int /\ H - 1 \in Int /\ p \in Nat /\ p * v \in Nat
      OBVIOUS
    <3>2. p * v <= p * (H - 1)
      BY <3>1, TimesKeeps
    <3>3. p * (H - 1) = H * p - p /\ H * p \in Nat
      OBVIOUS
    <3> QED BY <3>1, <3>2, <3>3
  <2>7. limb \div (H * p) = u
    <3>1. PICK m \in Nat \ {0} : m = H * p
      BY <2>2
    <3>2. PICK c \in 0 .. m - 1 : c = p * v + r
      BY <2>6, <3>1
    <3>3. limb = m * u + c /\ u \in Int
      BY <2>5, <3>1, <3>2
    <3>4. limb \div m = u
      BY <3>3, QuotientIs
    <3> QED BY <3>1, <3>4
  <2>8. digits[k] = v
    BY <1>7, <2>2, <2>3, <2>4
  <2> QED BY <1>2, <2>2, <2>3, <2>4, <2>7, <2>8
<1>9. digits \in [1 .. LimbDigits -> Digit]
  <2>1. \A k \in 1 .. LimbDigits : digits[k] \in Digit
    BY <1>8
  <2> QED BY <2>1 DEF Padded
<1>10. digits \in Seq(Digit) /\ Len(digits) = LimbDigits
  BY <1>1, <1>9, LengthOf
<1>11. digits \in Seq(Nat)
  <2>1. Digit \subseteq Nat
    BY <1>2
  <2>2. digits \in [1 .. LimbDigits -> Nat]
    BY <1>9, <2>1
  <2> QED BY <1>1, <2>2, LengthOf
<1> HIDE DEF digits
<1>12. g[0] = 0 /\ g[LimbDigits] = limb
  BY <1>1, <1>5, <1>6
<1>13. \A i \in 1 .. Len(digits) : g[i] = H * g[i - 1] + digits[i]
  <2>1. TAKE i \in 1 .. Len(digits)
  <2>2. i \in 1 .. LimbDigits /\ i \in 0 .. LimbDigits /\ i - 1 \in 0 .. LimbDigits
    BY <1>1, <1>10
  <2>3. g[i] = limb \div E(i) /\ g[i - 1] = limb \div E(i - 1)
    BY <2>2
  <2> QED BY <1>8, <2>2, <2>3
<1> HIDE DEF g
<1>14. Numeral(H, digits) = g[Len(digits)]
  BY <1>11, <1>12, <1>13, NumeralEnds
<1> QED BY <1>2, <1>10, <1>12, <1>14 DEF digits

\* Putting one sequence after the other behind what is there
Flattening(flat, n, seqs) ==
  /\ FlattenSeq(seqs) = flat[n] /\ flat[1] = seqs[1]
  /\ \A i \in 2 .. n : flat[i] = flat[i - 1] \o seqs[i]

\* is what FlattenSeq does, which is a recursive function: it exists, and goes by its steps.
LEMMA FlattenSteps ==
  ASSUME NEW T, NEW n \in Nat \ {0}, NEW seqs \in [1 .. n -> Seq(T)]
  PROVE  \E flat \in [1 .. n -> Seq(T)] : Flattening(flat, n, seqs)
<1> DEFINE V == Seq(T)
           step == [p \in (1 .. n - 1) \X V |-> p[2] \o seqs[p[1] + 1]]
           Is(g) == g = [i \in 1 .. n |-> IF i = 1 THEN seqs[i] ELSE g[i-1] \o seqs[i]]
           flat == CHOOSE g : Is(g)
<1>1. n - 1 \in Nat /\ seqs[1] \in V
  OBVIOUS
<1>2. step \in [(1 .. n - 1) \X V -> V]
  <2>1. ASSUME NEW p \in (1 .. n - 1) \X V PROVE p[2] \o seqs[p[1] + 1] \in V
    <3>1. p[1] + 1 \in 1 .. n /\ p[2] \in Seq(T)
      OBVIOUS
    <3>2. seqs[p[1] + 1] \in Seq(T)
      BY <3>1
    <3> QED BY <3>1, <3>2
  <2> QED BY <2>1
<1>3. PICK h \in [0 .. n - 1 -> V] : h[0] = seqs[1] /\ \A i \in 1 .. n - 1 : h[i] = step[<<i, h[i - 1]>>]
  <2> HIDE DEF V, step
  <2>1. \E h \in [0 .. n - 1 -> V] : Follows(h, n - 1, seqs[1], step)
    BY <1>1, <1>2, RecursionExists
  <2> QED BY <2>1 DEF Follows
<1>4. \A i \in 1 .. n - 1 : h[i] = h[i - 1] \o seqs[i + 1]
  <2>1. TAKE i \in 1 .. n - 1
  <2>2. i - 1 \in 0 .. n - 1
    BY <1>1
  <2>3. <<i, h[i - 1]>> \in (1 .. n - 1) \X V
    BY <1>3, <2>2
  <2> QED BY <1>3, <2>3
<1> HIDE DEF step
<1> DEFINE f == [i \in 1 .. n |-> h[i - 1]]
<1>5. \A i \in 1 .. n : f[i] = IF i = 1 THEN seqs[i] ELSE f[i - 1] \o seqs[i]
  <2>1. TAKE i \in 1 .. n
  <2>2. CASE i = 1
    BY <1>3, <2>2
  <2>3. CASE i # 1
    <3>1. i - 1 \in 1 .. n - 1 /\ i - 1 \in 1 .. n /\ (i - 1) + 1 = i
      BY <2>3
    <3>2. f[i] = h[i - 1] /\ f[i - 1] = h[(i - 1) - 1]
      BY <3>1
    <3>3. h[i - 1] = h[(i - 1) - 1] \o seqs[(i - 1) + 1]
      BY <1>4, <3>1
    <3> QED BY <2>3, <3>1, <3>2, <3>3
  <2> QED BY <2>2, <2>3
<1>6. Is(f)
  <2>1. f = [i \in 1 .. n |-> f[i]]
    OBVIOUS
  <2> HIDE DEF f
  <2>2. [i \in 1 .. n |-> f[i]] = [i \in 1 .. n |-> IF i = 1 THEN seqs[i] ELSE f[i-1] \o seqs[i]]
    BY <1>5, Zenon
  <2> QED BY <2>1, <2>2
<1> HIDE DEF f
<1>7. Is(flat)
  <2>1. \E g : Is(g)
    BY <1>6
  <2> QED BY <2>1, Zenon
<1>8. FlattenSeq(seqs) = flat[n]
  <2>1. Len(seqs) = n /\ n # 0
    BY LengthOf
  <2> QED BY <2>1, Zenon DEF FlattenSeq
<1>9. \A i \in 1 .. n : flat[i] = IF i = 1 THEN seqs[i] ELSE flat[i-1] \o seqs[i]
  <2> HIDE DEF flat
  <2> QED BY <1>7
<1>10. DOMAIN flat = 1 .. n /\ flat = [i \in 1 .. n |-> flat[i]]
  <2>1. flat = [i \in 1 .. n |-> IF i = 1 THEN seqs[i] ELSE flat[i-1] \o seqs[i]]
    BY <1>7
  <2> HIDE DEF flat
  <2> QED BY <2>1
<1> HIDE DEF flat
<1>11. flat[1] = seqs[1] /\ \A i \in 2 .. n : flat[i] = flat[i - 1] \o seqs[i]
  <2>1. flat[1] = seqs[1]
    <3>1. 1 \in 1 .. n
      OBVIOUS
    <3> QED BY <1>9, <3>1
  <2>2. ASSUME NEW i \in 2 .. n PROVE flat[i] = flat[i - 1] \o seqs[i]
    <3>1. i \in 1 .. n /\ i # 1
      OBVIOUS
    <3> QED BY <1>9, <3>1
  <2> QED BY <2>1, <2>2
<1>12. flat \in [1 .. n -> Seq(T)]
  <2> DEFINE S == {j \in 0 .. n - 1 : flat[j + 1] \in Seq(T)}
  <2>1. 0 \in S
    BY <1>1, <1>11
  <2>2. ASSUME NEW j \in 1 .. n - 1, j - 1 \in S PROVE j \in S
    <3>1. j + 1 \in 2 .. n /\ (j + 1) - 1 = j /\ (j - 1) + 1 = j /\ j + 1 \in 1 .. n /\ j \in 0 .. n - 1
      BY <1>1
    <3>2. flat[j] \in Seq(T) /\ seqs[j + 1] \in Seq(T)
      BY <2>2, <3>1
    <3>3. flat[j + 1] = flat[j] \o seqs[j + 1]
      BY <1>11, <3>1
    <3>4. flat[j] \o seqs[j + 1] \in Seq(T)
      BY <3>2
    <3> QED BY <3>1, <3>3, <3>4
  <2> HIDE DEF S
  <2>3. 0 .. n - 1 \subseteq S
    BY <1>1, <2>1, <2>2, UpTo
  <2>4. \A i \in 1 .. n : i - 1 \in 0 .. n - 1 /\ (i - 1) + 1 = i
    OBVIOUS
  <2>5. \A i \in 1 .. n : flat[i] \in Seq(T)
    BY <2>3, <2>4 DEF S
  <2> QED BY <1>10, <2>5
<1> QED BY <1>8, <1>11, <1>12 DEF Flattening

\* Digits are numbers.
LEMMA DigitsAre ==
  ASSUME NEW s \in Seq(Digit)
  PROVE  s \in Seq(Nat)
<1>1. Digit \subseteq Nat
  BY WidthType DEF Digit
<1>2. Len(s) \in Nat /\ s = [i \in 1 .. Len(s) |-> s[i]] /\ \A i \in 1 .. Len(s) : s[i] \in Digit
  OBVIOUS
<1>3. s \in [1 .. Len(s) -> Nat]
  BY <1>1, <1>2
<1> QED BY <1>2, <1>3, LengthOf

\* The digits of a limb behind others
LEMMA PaddedOn ==
  ASSUME NEW s \in Seq(Digit), NEW limb \in Limb
  PROVE  Numeral(HexBase, s \o Padded(limb)) = Base * Numeral(HexBase, s) + limb
<1>1. /\ Padded(limb) \in Seq(Digit) /\ Len(Padded(limb)) = LimbDigits
      /\ Numeral(HexBase, Padded(limb)) = limb
  BY PaddedRight
<1>2. HexBits \in Nat /\ HexBase = 2^HexBits /\ Base = 2^(HexBits * LimbDigits) /\ Digit \subseteq Nat
  BY ApIntAssumption, WidthType DEF W, Base, HexBase, Digit
<1>3. s \in Seq(Nat) /\ Padded(limb) \in Seq(Nat)
  BY <1>1, DigitsAre
<1>4. Numeral(HexBase, s \o Padded(limb)) = Numeral(HexBase, s) * Base + limb
  BY <1>1, <1>2, <1>3, NumeralConcat
<1>5. PICK v \in Nat, b \in Nat : v = Numeral(HexBase, s) /\ b = Base
  BY <1>3, NumeralType, WidthType
<1>6. v * b = b * v
  OBVIOUS
<1> QED BY <1>4, <1>5, <1>6

\* Sequences put end to end
LEMMA JoinsInLine ==
  ASSUME NEW S, NEW x \in Seq(S), NEW y \in Seq(S), NEW z \in Seq(S)
  PROVE  x \o y \in Seq(S) /\ x \o (y \o z) = (x \o y) \o z
<1>1. x \o y \in Seq(S) /\ y \o z \in Seq(S)
  OBVIOUS
<1>2. x \o (y \o z) = (x \o y) \o z
  OBVIOUS
<1> QED BY <1>1, <1>2

\* apint_format_as_hex: the digits are those of the number, the first one is 0
\* for zero only.
LEMMA FormatRight ==
  ASSUME NEW ap, Proper(ap)
  PROVE  /\ FormatAsHex(ap) \in [minus : BOOLEAN, digits : Seq(Digit) \ {<<>>}]
         /\ FormatAsHex(ap).minus = (ap.sign = 1)
         /\ Numeral(HexBase, FormatAsHex(ap).digits) = Magnitude(ap.data)
         /\ FormatAsHex(ap).digits[1] = 0 => Len(FormatAsHex(ap).digits) = 1
<1> DEFINE data == ap.data
           len == Len(ap.data)
           top == Stripped(Padded(data[len]))
           low == [i \in 1 .. len - 1 |-> Padded(data[len - i])]
           rest == FlattenSeq(low)
           digits == top \o rest
<1>1. /\ data \in Seq(Limb) /\ len \in Nat \ {0} /\ data \in Seq(Nat) /\ Topped(data)
      /\ \A i \in 1 .. len : data[i] \in Limb
  <2>1. ap \in Numbers /\ Topped(data)
    BY DEF Proper
  <2>2. data \in Seq(Limb) /\ len \in Nat \ {0}
    BY <2>1, NumbersAre
  <2> HIDE DEF data
  <2>3. data \in Seq(Nat)
    BY <2>2, MagnitudeType
  <2>4. \A i \in 1 .. Len(data) : data[i] \in Limb
    BY <2>2
  <2> QED BY <2>1, <2>2, <2>3, <2>4 DEF data
<1>2. FormatAsHex(ap) = [minus |-> ap.sign = 1, digits |-> digits]
  BY DEF FormatAsHex
<1>3. PICK g \in [1 .. len + 1 -> Nat] : Tops(g, data) /\ Magnitude(data) = g[1]
  BY <1>1, MagnitudeSteps
<1>4. \A i \in 1 .. len : g[i] = Base * g[i + 1] + data[i]
  BY <1>3 DEF Tops
<1>5. g[len] = data[len] /\ data[len] \in Limb /\ data[len] \in Nat
  <2>1. len \in 1 .. len /\ g[len + 1] = 0
    BY <1>1, <1>3 DEF Tops
  <2>2. g[len] = Base * 0 + data[len] /\ data[len] \in Limb
    BY <1>1, <1>4, <2>1
  <2>3. PICK b \in Nat, x \in Nat : b = Base /\ x = data[len]
    BY <2>2, WidthType
  <2>4. g[len] = b * 0 + x
    BY <2>2, <2>3
  <2>5. b * 0 + x = x
    OBVIOUS
  <2> QED BY <2>2, <2>3, <2>4, <2>5
<1>6. /\ top \in Seq(Digit) /\ Len(top) \in Nat \ {0} /\ (top[1] = 0 => Len(top) = 1)
      /\ Numeral(HexBase, top) = g[len]
  <2>1. /\ Padded(data[len]) \in Seq(Digit) /\ Len(Padded(data[len])) = LimbDigits
        /\ Numeral(HexBase, Padded(data[len])) = data[len]
    BY <1>5, PaddedRight
  <2>2. Padded(data[len]) # <<>> /\ LimbDigits \in Nat \ {0}
    <3>1. LimbDigits \in Nat \ {0}
      BY ApIntAssumption
    <3>2. Len(<<>>) = 0
      OBVIOUS
    <3> QED BY <2>1, <3>1, <3>2
  <2>3. Padded(data[len]) \in Seq(Digit) \ {<<>>}
    BY <2>1, <2>2
  <2> HIDE DEF data, len
  <2> QED BY <1>5, <2>1, <2>2, <2>3, StrippedRight
<1>7. ASSUME NEW i \in 1 .. len - 1
      PROVE  low[i] = Padded(data[len - i]) /\ data[len - i] \in Limb /\ low[i] \in Seq(Digit)
             /\ g[len - i] = Base * g[(len - i) + 1] + data[len - i]
  <2>1. len - i \in 1 .. len
    BY <1>1
  <2>2. data[len - i] \in Limb
    BY <1>1, <2>1
  <2>3. Padded(data[len - i]) \in Seq(Digit)
    BY <2>2, PaddedRight
  <2> QED BY <1>4, <2>1, <2>2, <2>3
<1>8. low \in [1 .. len - 1 -> Seq(Digit)]
  <2>1. \A i \in 1 .. len - 1 : Padded(data[len - i]) \in Seq(Digit)
    BY <1>7
  <2> QED BY <2>1
<1> HIDE DEF top, low
<1>9. rest \in Seq(Digit) /\ Numeral(HexBase, digits) = g[1] /\ (len = 1 => digits = top)
  <2>1. CASE len = 1
    <3>1. low \in Seq(Seq(Digit)) /\ Len(low) = 0
      <4>1. len - 1 = 0 /\ 0 \in Nat
        BY <2>1
      <4> QED BY <1>8, <4>1, LengthOf
    <3>2. low = <<>> /\ rest = low
      BY <3>1 DEF FlattenSeq
    <3>3. rest = <<>> /\ rest \in Seq(Digit) /\ digits = top
      <4>1. <<>> \in Seq(Digit) /\ top \o <<>> = top
        BY <1>6
      <4>2. rest = <<>>
        BY <3>2
      <4> HIDE DEF rest
      <4> QED BY <4>1, <4>2
    <3> QED BY <1>6, <2>1, <3>3
  <2>2. CASE len # 1
    <3>1. PICK m \in Nat \ {0} : m = len - 1 /\ len = m + 1
      <4>1. len - 1 \in Nat \ {0} /\ len = (len - 1) + 1
        BY <1>1, <2>2
      <4> QED BY <4>1
    <3>2. PICK flat \in [1 .. m -> Seq(Digit)] :
            /\ rest = flat[m] /\ flat[1] = low[1]
            /\ \A i \in 2 .. m : flat[i] = flat[i - 1] \o low[i]
      <4>1. low \in [1 .. m -> Seq(Digit)]
        BY <1>8, <3>1
      <4>2. \E flat \in [1 .. m -> Seq(Digit)] : Flattening(flat, m, low)
        BY <4>1, FlattenSteps
      <4> QED BY <4>2 DEF Flattening
    <3> DEFINE S == {j \in 0 .. m - 1 : Numeral(HexBase, top \o flat[j + 1]) = g[m - j]}
    <3>3. ASSUME NEW i \in 1 .. m
          PROVE  /\ flat[i] \in Seq(Digit) /\ low[i] \in Seq(Digit)
                 /\ \A s \in Seq(Digit) :
                      Numeral(HexBase, s) = g[(m - i) + 2] => Numeral(HexBase, s \o low[i]) = g[(m - i) + 1]
      <4>1. i \in 1 .. len - 1 /\ len - i = (m - i) + 1 /\ (len - i) + 1 = (m - i) + 2
        BY <3>1
      <4>2. /\ low[i] = Padded(data[len - i]) /\ data[len - i] \in Limb /\ low[i] \in Seq(Digit)
            /\ g[len - i] = Base * g[(len - i) + 1] + data[len - i]
        BY <1>7, <4>1
      <4>3. ASSUME NEW s \in Seq(Digit), Numeral(HexBase, s) = g[(m - i) + 2]
            PROVE  Numeral(HexBase, s \o low[i]) = g[(m - i) + 1]
        <5>1. Numeral(HexBase, s \o Padded(data[len - i])) = Base * Numeral(HexBase, s) + data[len - i]
          BY <4>2, PaddedOn
        <5> HIDE DEF data, len
        <5> QED BY <4>1, <4>2, <4>3, <5>1
      <4> QED BY <4>2, <4>3
    <3>4. 0 \in S
      <4>1. /\ 1 \in 1 .. m /\ (m - 1) + 2 = len /\ (m - 1) + 1 = m
            /\ m - 0 = m /\ 0 \in 0 .. m - 1 /\ 0 + 1 = 1
        <5>1. (m - 1) + 2 = m + 1 /\ 1 \in 1 .. m /\ (m - 1) + 1 = m
          OBVIOUS
        <5>2. m - 0 = m /\ 0 \in 0 .. m - 1 /\ 0 + 1 = 1
          OBVIOUS
        <5> HIDE DEF len
        <5> QED BY <3>1, <5>1, <5>2
      <4>2. Numeral(HexBase, top \o low[1]) = g[m]
        BY <1>6, <3>3, <4>1
      <4> QED BY <3>2, <4>1, <4>2
    <3>5. ASSUME NEW j \in 1 .. m - 1, j - 1 \in S PROVE j \in S
      <4>1. /\ j \in 1 .. m /\ j + 1 \in 1 .. m /\ j + 1 \in 2 .. m /\ (j + 1) - 1 = j /\ (j - 1) + 1 = j
            /\ (m - (j + 1)) + 2 = m - (j - 1) /\ (m - (j + 1)) + 1 = m - j /\ j \in 0 .. m - 1
        OBVIOUS
      <4>2. Numeral(HexBase, top \o flat[j]) = g[m - (j - 1)]
        BY <3>5, <4>1
      <4>3. flat[j] \in Seq(Digit) /\ low[j + 1] \in Seq(Digit) /\ flat[j + 1] = flat[j] \o low[j + 1]
        BY <3>2, <3>3, <4>1
      <4>4. top \o flat[j] \in Seq(Digit) /\ top \o (flat[j] \o low[j + 1]) = (top \o flat[j]) \o low[j + 1]
        <5>1. PICK x \in Seq(Digit), y \in Seq(Digit), z \in Seq(Digit) :
                x = top /\ y = flat[j] /\ z = low[j + 1]
          BY <1>6, <4>3
        <5>2. x \o y \in Seq(Digit) /\ x \o (y \o z) = (x \o y) \o z
          BY SMTT(30), JoinsInLine
        <5> QED BY <5>1, <5>2, Zenon
      <4>5. Numeral(HexBase, (top \o flat[j]) \o low[j + 1]) = g[m - j]
        BY <3>3, <4>1, <4>2, <4>4
      <4>6. Numeral(HexBase, top \o flat[j + 1]) = g[m - j]
        BY <4>3, <4>4, <4>5
      <4> QED BY <4>1, <4>6
    <3> HIDE DEF S
    <3>6. m - 1 \in 0 .. m - 1 /\ m - 1 \in Nat /\ (m - 1) + 1 = m /\ m - (m - 1) = 1 /\ m \in 1 .. m
      OBVIOUS
    <3>7. m - 1 \in S
      BY <3>4, <3>5, <3>6, UpTo
    <3>8. Numeral(HexBase, top \o flat[m]) = g[1]
      BY <3>6, <3>7 DEF S
    <3>9. flat[m] \in Seq(Digit)
      BY <3>6
    <3> QED BY <2>2, <3>2, <3>8, <3>9
  <2> QED BY <2>1, <2>2
<1> HIDE DEF rest
<1>10. digits \in Seq(Digit) /\ Len(digits) = Len(top) + Len(rest) /\ digits[1] = top[1] /\ digits # <<>>
  BY <1>6, <1>9
<1>11. ASSUME top[1] = 0 PROVE len = 1
  <2>1. Len(top) = 1
    BY <1>6, <1>11
  <2>2. top \in Seq(Nat) /\ HexBase \in Nat
    BY <1>6, DigitsAre, WidthType
  <2> DEFINE z == [i \in 0 .. 1 |-> 0]
  <2>3. z[0] = 0 /\ z[1] = 0
    OBVIOUS
  <2>4. \A i \in 1 .. Len(top) : z[i] = HexBase * z[i - 1] + top[i]
    <3>1. \A i \in 1 .. Len(top) : i = 1
      BY <2>1
    <3>2. z[1] = HexBase * z[1 - 1] + top[1]
      BY <1>11, <2>2, <2>3
    <3> HIDE DEF z
    <3> QED BY <3>1, <3>2
  <2> HIDE DEF z
  <2>5. Numeral(HexBase, top) = z[Len(top)]
    BY <2>2, <2>3, <2>4, NumeralEnds
  <2>6. data[len] = 0
    BY <1>5, <1>6, <2>1, <2>3, <2>5
  <2> QED BY <1>1, <2>6 DEF Topped
<1>12. digits[1] = 0 => Len(digits) = 1
  <2>1. SUFFICES ASSUME digits[1] = 0 PROVE Len(digits) = 1
    OBVIOUS
  <2>2. top[1] = 0
    BY <1>10, <2>1
  <2> HIDE DEF digits
  <2> QED BY <1>6, <1>9, <1>11, <2>2
<1>13. (ap.sign = 1) \in BOOLEAN
  OBVIOUS
<1> HIDE DEF digits
<1>14. FormatAsHex(ap).digits = digits /\ FormatAsHex(ap).minus = (ap.sign = 1)
  BY <1>2
<1>15. FormatAsHex(ap) \in [minus : BOOLEAN, digits : Seq(Digit) \ {<<>>}]
  BY <1>2, <1>10
<1> QED BY <1>3, <1>9, <1>12, <1>14, <1>15

\* apint_create_from_hex undoes apint_format_as_hex.
LEMMA HexBack ==
  ASSUME NEW ap, Proper(ap)
  PROVE  FromHex(FormatAsHex(ap)) = ap
<1> DEFINE hex == FormatAsHex(ap)
<1>1. /\ hex \in [minus : BOOLEAN, digits : Seq(Digit) \ {<<>>}]
      /\ hex.minus = (ap.sign = 1) /\ Numeral(HexBase, hex.digits) = Magnitude(ap.data)
  BY FormatRight
<1> HIDE DEF hex
<1>2. /\ Proper(FromHex(hex))
      /\ ValueOf(FromHex(hex)) = IF hex.minus THEN 0 - Numeral(HexBase, hex.digits)
                                 ELSE Numeral(HexBase, hex.digits)
  BY <1>1, FromHexRight
<1>3. PICK m \in Nat : m = Magnitude(ap.data)
  BY ProperZero
<1>4. ValueOf(ap) = IF ap.sign = 1 THEN 0 - m ELSE m
  <2>1. -m = 0 - m
    OBVIOUS
  <2> QED BY <1>3, <2>1 DEF ValueOf
<1>5. ValueOf(FromHex(hex)) = ValueOf(ap)
  BY <1>1, <1>2, <1>3, <1>4
<1>6. FromHex(hex) = ap
  BY <1>2, <1>5, OneNumber
<1> QED BY <1>6 DEF hex

\* What the functions that only look at a number answer is what the integer has: the
\* comparison, the bits, the highest of them, the digits; and the digits give
\* the number back.  For a caller who stays away from what goes wrong.
THEOREM AnswersMatch == ASSUME Careful PROVE Spec => []AnswersRight
<1>1. ASSUME CarefulInv PROVE AnswersRight
  <2>1. SUFFICES ASSUME NEW r \in Reg, Held(r)
        PROVE LET ap == reg[r]
                  v == ValueOf(ap)
                  n == Magnitude(ap.data)
                  hex == FormatAsHex(ap)
                  bit == HighestBitSet(ap)
              IN  /\ \A q \in Reg : Held(q) => Compare(ap, reg[q]) = Sgn(v - ValueOf(reg[q]))
                  /\ IF v = 0 THEN bit = -1 ELSE 2 ^ bit <= n /\ n < 2 ^ (bit + 1)
                  /\ \A i \in 0 .. MaxLen : GetBits(ap, i) = (n \div 2 ^ (W * i)) % Base
                  /\ hex.minus = (v < 0) /\ Abstract!NumberOf(hex.digits) = n
                  /\ hex.digits[1] = 0 => Len(hex.digits) = 1
                  /\ FromHex(hex) = ap
    BY DEF AnswersRight
  <2> DEFINE ap == reg[r]
  <2>2. Proper(ap) /\ ap \in Numbers
    BY <1>1, <2>1, HeldProper DEF CarefulInv
  <2>3. \A q \in Reg : Held(q) => Compare(ap, reg[q]) = Sgn(ValueOf(ap) - ValueOf(reg[q]))
    <3>1. SUFFICES ASSUME NEW q \in Reg, Held(q)
                   PROVE  Compare(ap, reg[q]) = Sgn(ValueOf(ap) - ValueOf(reg[q]))
      OBVIOUS
    <3>2. Proper(reg[q])
      BY <1>1, <3>1, HeldProper DEF CarefulInv
    <3> HIDE DEF ap
    <3> QED BY <2>2, <3>2, CompareRight
  <2> HIDE DEF ap
  <2>4. PICK n \in Nat : n = Magnitude(ap.data) /\ (IsZero(ap) <=> n = 0)
    BY <2>2, ProperZero
  <2>5. ap.sign \in {0, 1} /\ (ap.sign = 1 => n # 0) /\ ValueOf(ap) = IF ap.sign = 1 THEN 0 - n ELSE n
    <3>1. -n = 0 - n
      OBVIOUS
    <3>2. ap.sign \in {0, 1}
      BY <2>2, NumbersAre
    <3>3. n = 0 => ap.sign = 0
      BY <2>2, <2>4 DEF Proper
    <3>4. ValueOf(ap) = IF ap.sign = 1 THEN 0 - n ELSE n
      BY <2>4, <3>1 DEF ValueOf
    <3> QED BY <3>2, <3>3, <3>4
  <2>6. (ValueOf(ap) = 0 <=> n = 0) /\ (ValueOf(ap) < 0 <=> ap.sign = 1)
    BY <2>5
  <2>7. IF ValueOf(ap) = 0 THEN HighestBitSet(ap) = -1
        ELSE 2^HighestBitSet(ap) <= n /\ n < 2^(HighestBitSet(ap) + 1)
    BY <2>2, <2>4, <2>6, HighestBitRight
  <2>8. \A i \in 0 .. MaxLen : GetBits(ap, i) = (n \div 2^(W * i)) % Base
    <3>1. TAKE i \in 0 .. MaxLen
    <3>2. i \in Nat
      OBVIOUS
    <3> QED BY <2>2, <2>4, <3>2, GetBitsRight
  <2> DEFINE hex == FormatAsHex(ap)
  <2>9. /\ hex.minus = (ap.sign = 1) /\ Numeral(HexBase, hex.digits) = n
        /\ hex.digits[1] = 0 => Len(hex.digits) = 1
    BY <2>2, <2>4, FormatRight
  <2>10. FromHex(hex) = ap
    BY <2>2, HexBack
  <2> HIDE DEF hex
  <2>11. Abstract!NumberOf(hex.digits) = n
    BY <2>9, Zenon DEF Abstract!NumberOf, Abstract!Numeral, Numeral
  <2>12. hex.minus = (ValueOf(ap) < 0)
    BY <2>6, <2>9
  <2> QED BY <2>3, <2>4, <2>7, <2>8, <2>9, <2>10, <2>11, <2>12 DEF ap, hex
<1>2. Spec => []CarefulInv
  BY CarefulInvariant
<1> QED BY <1>1, <1>2, PTL
=============================================================================
