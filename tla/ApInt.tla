-------------------------------- MODULE ApInt --------------------------------
(***************************************************************************)
(* csf_assign01/apint.c: a sign and a magnitude in 64-bit limbs, the least  *)
(* significant first.  A limb has LimbDigits hexadecimal digits of HexBits  *)
(* bits here.                                                              *)
(*                                                                         *)
(* Two operations are wrong for some arguments: apint_sub for differences   *)
(* with a zero limb below the top, apint_lshift_n for shifts past the       *)
(* number's own length.  Avoid says from which of them the caller stays     *)
(* away.                                                                   *)
(***************************************************************************)
EXTENDS Numerals, SequencesExt, FiniteSets

CONSTANTS
  HexBits, LimbDigits,
  Reg, Null,            \* the caller's variables; what an unused one holds
  U64s, Hexes, Shifts,  \* the arguments the caller uses
  Garbage,              \* what memory of realloc that was never written may hold
  MaxLen,               \* bound: the caller keeps no number of more limbs
  Avoid

HexBase == 2 ^ HexBits
W == HexBits * LimbDigits
Base == 2 ^ W
Limb == 0 .. Base - 1

ASSUME ApIntAssumption ==
  /\ HexBits \in Nat \ {0} /\ LimbDigits \in Nat \ {0} /\ MaxLen \in Nat \ {0}
  /\ U64s \subseteq Limb /\ Garbage \subseteq Limb
  /\ Hexes \subseteq [minus : BOOLEAN, digits : Seq(0 .. HexBase - 1) \ {<<>>}]
  /\ Shifts \subseteq Nat
  /\ Avoid \subseteq {"sub", "shift"}
  /\ Null \notin Int /\ Null \notin [data : Seq(Limb), sign : {0, 1}]

VARIABLE reg

Number(data, sign) == [data |-> data, sign |-> sign]

\* Without leading zeros, except that zero keeps one.
Stripped(digits) ==
  LET n == Len(digits)
      first == CHOOSE k \in 1 .. n :
                 /\ digits[k] # 0 \/ k = n
                 /\ \A j \in 1 .. k - 1 : digits[j] = 0
  IN  SubSeq(digits, first, n)

IsZero(ap) == \A i \in 1 .. Len(ap.data) : ap.data[i] = 0

FromU64(n) == Number(<<n>>, 0)

\* strtoul of at most LimbDigits digits
LimbOf(digits) == Numeral(HexBase, digits)

FromHex(hex) ==
  LET s == Stripped(hex.digits)
      n == Len(s)
      len == (n * HexBits + W - 1) \div W
      Chunk(i) ==
        LET source == IF i = len THEN 0 ELSE n - LimbDigits * i
            bytes == IF i = len THEN ((n - 1) % LimbDigits) + 1 ELSE LimbDigits
        IN  SubSeq(s, source + 1, source + bytes)
      ap == Number([i \in 1 .. len |-> LimbOf(Chunk(i))], IF hex.minus THEN 1 ELSE 0)
  IN  IF IsZero(ap) THEN [ap EXCEPT !.sign = 0] ELSE ap

GetBits(ap, n) == IF n < Len(ap.data) THEN ap.data[n + 1] ELSE 0

HighestBitSet(ap) ==
  LET len == Len(ap.data)
      halvings == {k \in 1 .. W : ap.data[len] \div 2 ^ k # 0}
  IN  IF IsZero(ap) THEN -1 ELSE (len - 1) * W + Cardinality(halvings)

\* %016lx and %lx
Padded(limb) == [k \in 1 .. LimbDigits |-> (limb \div 2 ^ (HexBits * (LimbDigits - k))) % HexBase]
FormatAsHex(ap) ==
  LET len == Len(ap.data)
  IN  [minus |-> ap.sign = 1,
       digits |-> Stripped(Padded(ap.data[len])) \o
                  FlattenSeq([i \in 1 .. len - 1 |-> Padded(ap.data[len - i])])]

\* Seeded fault: zero gets a sign.
NegateZeroToo(ap) == [ap EXCEPT !.sign = 1 - @]

Neg(ap) == IF IsZero(ap) THEN ap ELSE [ap EXCEPT !.sign = 1 - @]

Sgn(x) == IF x > 0 THEN 1 ELSE IF x < 0 THEN -1 ELSE 0

\* Seeded fault: a longer number is the greater one, whatever its sign.
CompareLengthFirst(l, r) ==
  LET differ == {i \in 1 .. Len(l.data) : l.data[i] # r.data[i]}
      top == CHOOSE i \in differ : \A j \in differ : j <= i
  IN  IF l.sign # r.sign THEN r.sign - l.sign
      ELSE IF Len(l.data) # Len(r.data) THEN Sgn(Len(l.data) - Len(r.data))
      ELSE IF differ = {} THEN 0
      ELSE (IF l.sign = 1 THEN -1 ELSE 1) * Sgn(l.data[top] - r.data[top])

\* Signs, then lengths, then limbs from the top decide.
Compare(l, r) ==
  LET flip == IF l.sign = 1 THEN -1 ELSE 1
      differ == {i \in 1 .. Len(l.data) : l.data[i] # r.data[i]}
      top == CHOOSE i \in differ : \A j \in differ : j <= i
  IN  IF l.sign # r.sign THEN r.sign - l.sign
      ELSE IF Len(l.data) # Len(r.data) THEN flip * Sgn(Len(l.data) - Len(r.data))
      ELSE IF differ = {} THEN 0
      ELSE flip * Sgn(l.data[top] - r.data[top])

\* apint_resize: zeros for the limbs that are missing.
Resized(data, len) == [i \in 1 .. len |-> IF i <= Len(data) THEN data[i] ELSE 0]
MaxLenOf(a, b) == IF Len(a.data) > Len(b.data) THEN Len(a.data) ELSE Len(b.data)

\* Seeded fault: only the addition of the carry is looked at for a carry.
CarryOutHalf(s, d, carry) == IF (s + carry) % Base < s THEN 1 ELSE 0

\* One round of the loop of apint_add: a carry from either addition.
CarryOut(s, d, carry) ==
  LET t == (s + carry) % Base
  IN  (IF t < s THEN 1 ELSE 0) + (IF (t + d) % Base < t THEN 1 ELSE 0)

\* The rest of apint_add, for numbers of one sign.
AddMagnitudes(a, b) ==
  LET n == MaxLenOf(a, b)
      s == Resized(a.data, n)
      d == Resized(b.data, n)
      carry[i \in 0 .. n] == IF i = 0 THEN 0 ELSE CarryOut(s[i], d[i], carry[i - 1])
      sum == [i \in 1 .. n |-> (s[i] + carry[i - 1] + d[i]) % Base]
  IN  Number(IF carry[n] # 0 THEN Append(sum, carry[n]) ELSE sum, a.sign)

BorrowOut(s, d, borrow) ==
  LET t == (s - borrow) % Base
  IN  (IF t > s THEN 1 ELSE 0) + (IF (t - d) % Base > t THEN 1 ELSE 0)

Differences(a, b) ==
  LET n == MaxLenOf(a, b)
      s == Resized(a.data, n)
      d == Resized(b.data, n)
      borrow[i \in 0 .. n] == IF i = 0 THEN 0 ELSE BorrowOut(s[i], d[i], borrow[i - 1])
  IN  [i \in 1 .. n |-> (s[i] - borrow[i - 1] - d[i]) % Base]

\* Seeded fault: the loop goes down to the lowest limb, and zero has none left.
ShortenedToNothing(data) ==
  LET zeros == {i \in 1 .. Len(data) : data[i] = 0}
  IN  SubSeq(data, 1, Len(data) - Cardinality(zeros))

\* len is decremented for every zero limb but the lowest.
Shortened(data) ==
  LET zeros == {i \in 2 .. Len(data) : data[i] = 0}
  IN  SubSeq(data, 1, Len(data) - Cardinality(zeros))

\* The rest of apint_sub, for numbers of one sign with the larger one first.
SubMagnitudes(a, b) ==
  LET ap == Number(Shortened(Differences(a, b)), a.sign)
  IN  IF IsZero(ap) THEN [ap EXCEPT !.sign = 0] ELSE ap

Swaps(a, b) == IF a.sign = 1 THEN Compare(a, b) > 0 ELSE Compare(b, a) > 0
SubSameSign(a, b) == IF Swaps(a, b) THEN Neg(SubMagnitudes(b, a)) ELSE SubMagnitudes(a, b)

\* apint_add and apint_sub call one another; the second call never gets numbers
\* of different signs, except from a negative number less zero.
AddNumbers(a, b) ==
  IF a.sign = b.sign THEN AddMagnitudes(a, b)
  ELSE IF a.sign = 1 THEN SubSameSign(b, Neg(a)) ELSE SubSameSign(a, Neg(b))
SubNumbers(a, b) == IF a.sign # b.sign THEN AddNumbers(a, Neg(b)) ELSE SubSameSign(a, b)

\* apint_lshift_n: within the limbs, then by whole limbs.
ShiftInside(data, shift) ==
  LET n == Len(data)
      Carry(i) == IF i = 0 THEN 0 ELSE data[i] \div 2 ^ (W - shift)
      low == [i \in 1 .. n |-> ((data[i] * 2 ^ shift) % Base) + Carry(i - 1)]
  IN  IF Carry(n) # 0 THEN Append(low, Carry(n)) ELSE low

\* The limbs that the loop neither writes nor clears are what realloc left there.
Gap(data, pow) == {i \in 1 .. pow : i > Len(data)}
ShiftLimbs(data, pow, junk) ==
  [i \in 1 .. Len(data) + pow |->
     IF i > pow THEN data[i - pow] ELSE IF i <= Len(data) THEN 0 ELSE junk[i]]

Inside(ap, n) == ShiftInside(ap.data, ((n - 1) % W) + 1)
Pow(n) == (n - 1) \div W
Shifted(ap, n) ==
  IF n = 0 THEN {ap}
  ELSE LET data == Inside(ap, n)
       IN  {Number(ShiftLimbs(data, Pow(n), junk), ap.sign) :
              junk \in [Gap(data, Pow(n)) -> Garbage]}

-----------------------------------------------------------------------------

\* The arguments for which the two operations go wrong.
LosesTop(a, b) ==
  a.sign = b.sign /\ LET d == IF Swaps(a, b) THEN Differences(b, a) ELSE Differences(a, b)
                     IN  \E i, j \in 2 .. Len(d) : i < j /\ d[i] = 0 /\ d[j] # 0
AddLosesTop(a, b) ==
  a.sign # b.sign /\ IF a.sign = 1 THEN LosesTop(b, Neg(a)) ELSE LosesTop(a, Neg(b))
SubLosesTop(a, b) == IF a.sign = b.sign THEN LosesTop(a, b) ELSE AddLosesTop(a, Neg(b))

LeavesGap(ap, n) ==
  n > W /\ (IsZero(ap) \/ Gap(Inside(ap, n), Pow(n)) # {})

Held(r) == reg[r] # Null
Put(r, ap) == Len(ap.data) <= MaxLen /\ reg' = [reg EXCEPT ![r] = ap]

Init == reg = [r \in Reg |-> Null]

\* The caller calls a function and keeps the result in r.
CreateFromU64(r) == \E n \in U64s : Put(r, FromU64(n))
CreateFromHex(r) == \E hex \in Hexes : Put(r, FromHex(hex))
Negate(r, x) == Held(x) /\ Put(r, Neg(reg[x]))
Add(r, x, y) ==
  /\ Held(x) /\ Held(y)
  /\ "sub" \in Avoid => ~AddLosesTop(reg[x], reg[y])
  /\ Put(r, AddNumbers(reg[x], reg[y]))
Sub(r, x, y) ==
  /\ Held(x) /\ Held(y)
  /\ "sub" \in Avoid => ~SubLosesTop(reg[x], reg[y])
  /\ Put(r, SubNumbers(reg[x], reg[y]))
LshiftN(r, x) ==
  /\ Held(x)
  /\ \E n \in Shifts :
       /\ "shift" \in Avoid => ~LeavesGap(reg[x], n)
       /\ \E ap \in Shifted(reg[x], n) : Put(r, ap)
Destroy(r) == Held(r) /\ reg' = [reg EXCEPT ![r] = Null]

Next ==
  \E r \in Reg :
    \/ CreateFromU64(r) \/ CreateFromHex(r) \/ Destroy(r)
    \/ \E x \in Reg : Negate(r, x) \/ LshiftN(r, x)
    \/ \E x, y \in Reg : Add(r, x, y) \/ Sub(r, x, y)

Spec == Init /\ [][Next]_reg

-----------------------------------------------------------------------------

\* A number has at least one limb and a sign that is a flag, and every limb fits
\* its word: carries go into words of their own.
TypeOK ==
  reg \in [Reg -> {Null} \cup [data : UNION {[1 .. n -> Limb] : n \in 1 .. MaxLen},
                               sign : {0, 1}]]

\* Each number has one representation, which apint_compare (lengths before
\* limbs) and apint_format_as_hex (no leading zeros) rely on: no zero limb at the
\* top, except that zero is one limb, and no negative zero.
Canonical ==
  \A r \in Reg :
    Held(r) => LET len == Len(reg[r].data)
               IN  /\ reg[r].data[len] = 0 => len = 1
                   /\ IsZero(reg[r]) => reg[r].sign = 0

\* The integer that a representation stands for.
Magnitude(data) == Numeral(Base, Reverse(data))
ValueOf(ap) == IF ap.sign = 1 THEN -Magnitude(ap.data) ELSE Magnitude(ap.data)

Abstract == INSTANCE BigIntegers WITH
  val <- [r \in Reg |-> IF Held(r) THEN ValueOf(reg[r]) ELSE Null]

\* The caller's variables hold the right integers throughout, whatever chain of
\* calls they come from, if it stays away from what Avoid names.
RefinesIntegers == Abstract!Spec

\* apint_compare, apint_highest_bit_set, apint_get_bits and
\* apint_format_as_hex answer as the integer has it (apintTests.c does this for some numbers).
AnswersRight ==
  \A r \in Reg : Held(r) =>
    LET ap == reg[r]
        v == ValueOf(ap)
        n == Magnitude(ap.data)
        hex == FormatAsHex(ap)
        bit == HighestBitSet(ap)
    IN  /\ \A q \in Reg : Held(q) => Compare(ap, reg[q]) = Sgn(v - ValueOf(reg[q]))
        /\ IF v = 0 THEN bit = -1 ELSE 2 ^ bit <= n /\ n < 2 ^ (bit + 1)
        /\ \A i \in 0 .. MaxLen : GetBits(ap, i) = (n \div 2 ^ (W * i)) % Base
        /\ hex.minus = (v < 0) /\ Abstract!NumberOf(hex.digits) = n
        /\ hex.digits[1] = 0 => Len(hex.digits) = 1
        /\ FromHex(hex) = ap

\* What the code does not keep: apint_sub is the `method to subtract 2 data
\* values' (apint.c:180), for any two numbers.
SubtractsRight ==
  \A x, y \in Reg :
    Held(x) /\ Held(y) => ValueOf(SubNumbers(reg[x], reg[y])) = ValueOf(reg[x]) - ValueOf(reg[y])
=============================================================================
