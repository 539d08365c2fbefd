---------------------------- MODULE PngliteProofs ----------------------------
(***************************************************************************)
(* pnglite gives back the memory that it takes, whatever the file or the    *)
(* picture and whatever fails; the lines of a picture that it has inflated  *)
(* become the picture, whatever filters they are under; and a picture's     *)
(* file is decoded, whatever its chunks, or refused if it is cut or damaged. *)
(* What an encoder makes of a picture is such a file.                       *)
(***************************************************************************)
EXTENDS PngFiles, SequenceTheorems, WellFoundedInduction, TLAPS

-----------------------------------------------------------------------------
\* Sequences.  What a recursive function on numbers does, it does for the least number
\* at which it does not.

\* A set of numbers has a least one.
LEMMA LeastNumber ==
  ASSUME NEW S, S \subseteq Nat, S # {}
  PROVE  \E x \in S : \A y \in S : x <= y
<1> DEFINE Less == {ss \in Nat \X Nat : ss[1] < ss[2]}
<1>1. IsWellFoundedOn(Less, Nat)
  <2>1. OpToRel(<, Nat) = Less
    BY Zenon DEF OpToRel
  <2> QED BY <2>1, NatLessThanWellFounded, Zenon
<1>2. PICK x \in S : \A y \in S : <<y, x>> \notin Less
  <2> HIDE DEF Less
  <2> QED BY <1>1, WFMin
<1>3. ASSUME NEW y \in S PROVE x <= y
  <2>1. ~ (y < x)
    <3>1. SUFFICES ASSUME y < x PROVE <<y, x>> \in Less
      BY <1>2
    <3>2. <<y, x>> \in Nat \X Nat /\ <<y, x>>[1] < <<y, x>>[2]
      BY <3>1
    <3> QED BY <3>2, Zenon
  <2> QED BY <2>1
<1> QED BY <1>3

\* The sequences put end to end so far, as FlattenSeq computes them, exist.
LEMMA FlattenExists ==
  ASSUME NEW seqs, NEW n \in Nat
  PROVE  \E g : g = [i \in 1 .. n |-> IF i = 1 THEN seqs[i] ELSE g[i-1] \o seqs[i]]
<1> DEFINE Ok(k) == \E g : g = [i \in 1 .. k |-> IF i = 1 THEN seqs[i] ELSE g[i-1] \o seqs[i]]
           Bad == {k \in Nat : ~Ok(k)}
<1>1. Ok(0)
  <2> DEFINE g == [i \in 1 .. 0 |-> seqs[i]]
  <2>1. g = [i \in 1 .. 0 |-> IF i = 1 THEN seqs[i] ELSE g[i-1] \o seqs[i]]
    OBVIOUS
  <2> QED BY <2>1
<1>2. SUFFICES ASSUME Bad # {} PROVE FALSE
  OBVIOUS
<1>3. PICK k \in Bad : \A m \in Bad : k <= m
  <2>1. Bad \subseteq Nat
    OBVIOUS
  <2> HIDE DEF Bad
  <2> QED BY <2>1, <1>2, LeastNumber
<1>4. k \in Nat /\ k > 0 /\ ~Ok(k) /\ k - 1 \in Nat
  <2>1. k \in Nat /\ ~Ok(k)
    OBVIOUS
  <2>2. k # 0
    BY <2>1, <1>1
  <2> HIDE DEF Ok
  <2> QED BY <2>1, <2>2
<1>5. Ok(k - 1)
  <2>1. k - 1 \notin Bad
    <3> HIDE DEF Bad
    <3> QED BY <1>3, <1>4
  <2> HIDE DEF Ok
  <2> QED BY <2>1, <1>4
<1>6. PICK g : g = [i \in 1 .. k - 1 |-> IF i = 1 THEN seqs[i] ELSE g[i-1] \o seqs[i]]
  BY <1>5
<1> DEFINE h == [i \in 1 .. k |-> IF i = 1 THEN seqs[i] ELSE g[i-1] \o seqs[i]]
<1>7. \A i \in 1 .. k - 1 : h[i] = g[i]
  <2>1. TAKE i \in 1 .. k - 1
  <2>2. i \in 1 .. k
    BY <1>4
  <2>3. h[i] = IF i = 1 THEN seqs[i] ELSE g[i-1] \o seqs[i]
    BY <2>2
  <2>4. g[i] = IF i = 1 THEN seqs[i] ELSE g[i-1] \o seqs[i]
    BY <1>6
  <2> QED BY <2>3, <2>4
<1>8. \A i \in 1 .. k : (IF i = 1 THEN seqs[i] ELSE g[i-1] \o seqs[i])
                          = (IF i = 1 THEN seqs[i] ELSE h[i-1] \o seqs[i])
  <2>1. TAKE i \in 1 .. k
  <2>2. CASE i = 1
    BY <2>2
  <2>3. CASE i # 1
    <3>1. i - 1 \in 1 .. k - 1
      BY <2>3, <1>4
    <3>2. h[i-1] = g[i-1]
      BY <3>1, <1>7
    <3> HIDE DEF h
    <3> QED BY <2>3, <3>2
  <2> QED BY <2>2, <2>3
<1>9. h = [i \in 1 .. k |-> IF i = 1 THEN seqs[i] ELSE h[i-1] \o seqs[i]]
  BY <1>8, Zenon
<1>10. Ok(k)
  <2> HIDE DEF h
  <2> QED BY <1>9
<1> QED BY <1>4, <1>10

\* Sequences put end to end are a sequence of what they are sequences of.
LEMMA FlattenType ==
  ASSUME NEW T, NEW seqs \in Seq(Seq(T))
  PROVE  FlattenSeq(seqs) \in Seq(T)
<1> DEFINE n == Len(seqs)
<1>1. n \in Nat /\ \A i \in 1 .. n : seqs[i] \in Seq(T)
  OBVIOUS
<1>2. CASE n = 0
  <2>1. seqs = <<>> /\ FlattenSeq(seqs) = seqs
    BY <1>2 DEF FlattenSeq
  <2>2. <<>> \in Seq(T)
    OBVIOUS
  <2> QED BY <2>1, <2>2, Zenon
<1>3. CASE n # 0
  <2> DEFINE Is(g) == g = [i \in 1 .. n |-> IF i = 1 THEN seqs[i] ELSE g[i-1] \o seqs[i]]
             flat == CHOOSE g : Is(g)
  <2>1. FlattenSeq(seqs) = flat[n]
    BY <1>3, Zenon DEF FlattenSeq
  <2>2. Is(flat)
    <3>1. \E g : Is(g)
      BY <1>1, FlattenExists
    <3> QED BY <3>1, Zenon
  <2>3. \A i \in 1 .. n : flat[i] = IF i = 1 THEN seqs[i] ELSE flat[i-1] \o seqs[i]
    <3> HIDE DEF flat
    <3> QED BY <2>2
  <2> HIDE DEF flat
  <2> DEFINE Bad == {k \in 1 .. n : flat[k] \notin Seq(T)}
  <2>4. Bad = {}
    <3>1. SUFFICES ASSUME Bad # {} PROVE FALSE
      OBVIOUS
    <3>2. Bad \subseteq Nat /\ Bad \subseteq 1 .. n
      BY <1>1
    <3>3. PICK k \in Bad : \A m \in Bad : k <= m
      <4> HIDE DEF Bad
      <4> QED BY <3>1, <3>2, LeastNumber
    <3>4. k \in 1 .. n /\ flat[k] \notin Seq(T)
      OBVIOUS
    <3>5. CASE k = 1
      BY <3>4, <3>5, <2>3, <1>1
    <3>6. CASE k # 1
      <4>1. k - 1 \in 1 .. n /\ k - 1 \notin Bad
        <5>1. k - 1 \in 1 .. n
          BY <3>4, <3>6, <1>1
        <5>2. k - 1 \notin Bad
          <6>1. k \in Int /\ ~ (k <= k - 1)
            BY <3>4, <1>1
          <6> HIDE DEF Bad
          <6> QED BY <6>1, <3>3, Zenon
        <5> QED BY <5>1, <5>2
      <4>2. flat[k-1] \in Seq(T)
        BY <4>1
      <4>3. flat[k] = flat[k-1] \o seqs[k]
        BY <2>3, <3>4, <3>6
      <4>4. seqs[k] \in Seq(T)
        BY <1>1, <3>4
      <4> HIDE DEF Bad
      <4> QED BY <4>2, <4>3, <4>4, <3>4
    <3> QED BY <3>5, <3>6
  <2>5. n \in 1 .. n
    BY <1>1, <1>3
  <2>6. flat[n] \in Seq(T)
    BY <2>4, <2>5
  <2> QED BY <2>1, <2>6
<1> QED BY <1>2, <1>3

\* A set of numbers that has a bound has a greatest one.
LEMMA GreatestNumber ==
  ASSUME NEW n \in Nat, NEW N, N \subseteq 0 .. n, N # {}
  PROVE  \E x \in N : \A y \in N : y <= x
<1> DEFINE Gaps == {n - x : x \in N}
<1>1. Gaps \subseteq Nat /\ Gaps # {}
  <2>1. \A x \in N : n - x \in Nat
    OBVIOUS
  <2>2. PICK x \in N : TRUE
    OBVIOUS
  <2>3. n - x \in Gaps
    BY Zenon
  <2>4. \A gap \in Gaps : gap \in Nat
    BY <2>1, Zenon
  <2> HIDE DEF Gaps
  <2> QED BY <2>3, <2>4
<1>2. PICK gap \in Gaps : \A other \in Gaps : gap <= other
  <2> HIDE DEF Gaps
  <2> QED BY <1>1, LeastNumber
<1>3. PICK x \in N : gap = n - x
  OBVIOUS
<1>4. \A y \in N : n - y \in Gaps
  BY Zenon
<1>5. \A y \in N : n - x <= n - y
  <2> HIDE DEF Gaps
  <2> QED BY <1>2, <1>3, <1>4
<1>6. \A y \in N : n - x \in Int /\ n - y \in Int /\ y \in Int /\ x \in Int
  OBVIOUS
<1> QED BY <1>5, <1>6

\* What file_read leaves of the file (lines 28-40).
LEMMA SkipType ==
  ASSUME NEW seq \in Seq(Unit), NEW n \in Nat
  PROVE  SubSeq(seq, n + 1, Len(seq)) \in Seq(Unit)
<1>1. Len(seq) \in Nat /\ \A i \in n + 1 .. Len(seq) : seq[i] \in Unit
  OBVIOUS
<1> QED BY <1>1, SubSeqProperties

-----------------------------------------------------------------------------
\* Units

\* What is written consists of units.
LEMMA UnitsWritten ==
  /\ Signature \in Datum /\ End \in Datum
  /\ \A n \in Nat : Word(n) \in Datum
  /\ \A t \in ChunkTypes : Type(t) \in Datum
  /\ \A h \in HeaderSet : Header(h) \in Datum
  /\ \A bytes \in Seq(Byte) : Symbol(bytes) \in Datum
  /\ \A t \in ChunkTypes : \A units \in Seq(Datum) : Crc(t, units) \in Unit
  /\ Datum \subseteq Unit /\ Seq(Datum) \subseteq Seq(Unit)
<1>1. Datum \subseteq Unit
  BY DEF Unit
<1>2. Seq(Datum) \subseteq Seq(Unit)
  BY <1>1, SeqMonotonic
<1>3. Signature \in Datum /\ End \in Datum
  BY DEF Datum
<1>4. ASSUME NEW n \in Nat PROVE Word(n) \in Datum
  BY DEF Datum, Word
<1>5. ASSUME NEW t \in ChunkTypes PROVE Type(t) \in Datum
  BY DEF Datum, Type
<1>6. ASSUME NEW h \in HeaderSet PROVE Header(h) \in Datum
  BY DEF Datum, Header
<1>7. ASSUME NEW bytes \in Seq(Byte) PROVE Symbol(bytes) \in Datum
  BY DEF Datum, Symbol
<1>8. ASSUME NEW t \in ChunkTypes, NEW units \in Seq(Datum) PROVE Crc(t, units) \in Unit
  BY DEF Unit, Crc
<1> QED BY <1>1, <1>2, <1>3, <1>4, <1>5, <1>6, <1>7, <1>8

\* What the tag of a unit says of its contents.
LEMMA UnitsRead ==
  ASSUME NEW u \in Unit
  PROVE  /\ u[1] = "word" => u[2] \in Nat
         /\ u[1] = "header" => u[2] \in HeaderSet
         /\ u[1] = "symbol" => u[2] \in Seq(Byte)
<1>1. CASE u \in {Signature, End, Noise}
  BY <1>1 DEF Signature, End, Noise
<1>2. CASE u \in {"word"} \X Nat
  BY <1>2
<1>3. CASE u \in {"type"} \X ChunkTypes
  BY <1>3
<1>4. CASE u \in {"header"} \X HeaderSet
  BY <1>4
<1>5. CASE u \in {"symbol"} \X Seq(Byte)
  BY <1>5
<1>6. CASE u \in {"crc"} \X (ChunkTypes \X Seq(Datum))
  BY <1>6
<1> QED BY <1>1, <1>2, <1>3, <1>4, <1>5, <1>6 DEF Unit, Datum

\* A length that is read is a number (file_read_ul, lines 59-69).
LEMMA LengthsType ==
  ASSUME rest \in Seq(Unit), Len(rest) >= 1
  PROVE  Lengths \subseteq Nat
<1>1. rest[1] \in Unit /\ Len(rest) \in Nat
  OBVIOUS
<1> QED BY <1>1, UnitsRead DEF Lengths

\* file_write adds units to the file, as many as the disk takes.
LEMMA WriteType ==
  ASSUME rest \in Seq(Unit), NEW units \in Seq(Unit), Write(units)
  PROVE  rest' \in Seq(Unit)
<1>1. CASE rest' = rest \o units
  BY <1>1, ConcatProperties
<1>2. CASE \E n \in 0 .. Len(units) - 1 : rest' = IF full THEN rest ELSE rest \o SubSeq(units, 1, n)
  <2>1. PICK n \in 0 .. Len(units) - 1 : rest' = IF full THEN rest ELSE rest \o SubSeq(units, 1, n)
    BY <1>2
  <2>2. Len(units) \in Nat /\ \A i \in 1 .. n : units[i] \in Unit
    BY <2>1
  <2>3. SubSeq(units, 1, n) \in Seq(Unit)
    BY <2>1, <2>2, SubSeqProperties
  <2>4. rest \o SubSeq(units, 1, n) \in Seq(Unit)
    BY <2>3, ConcatProperties
  <2> QED BY <2>1, <2>4
<1> QED BY <1>1, <1>2 DEF Write

\* A number below the number of values is its own remainder.
LEMMA UIntSame ==
  ASSUME NEW n \in Nat, n < UIntSize
  PROVE  UInt(n) = n
<1>1. UIntSize \in Nat \ {0}
  BY ByteAssumption
<1>2. PICK k \in Nat \ {0} : k = UIntSize
  BY <1>1
<1>3. (n % k) = n
  BY <1>2
<1> QED BY <1>2, <1>3 DEF UInt

\* Bytes to a pixel are a number (pnglite.c:123-146).
LEMMA BppType ==
  ASSUME NEW h, h.depth \in Nat
  PROVE  GetBpp(h) \in Nat
<1> DEFINE d == h.depth \div 8
<1>1. GetBpp(h) \in {d, 2 * d, 3 * d, 4 * d, 255}
  BY Zenon DEF GetBpp
<1>2. d \in Nat
  OBVIOUS
<1> HIDE DEF d
<1> QED BY <1>1, <1>2

\* Where no product wraps, the sizes that are allocated are the picture's
\* (pnglite.c:571, image.c:71-74).
LEMMA PlainSizes ==
  ASSUME NEW h, h.width \in Nat, h.height \in Nat, h.depth \in Nat, SizesFit(h)
  PROVE  /\ LineLength(h) = h.width * GetBpp(h)
         /\ PixelLength(h) = LineLength(h) * h.height
         /\ DataLength(h) = LineLength(h) * h.height + h.height
         /\ LineLength(h) \in Nat /\ PixelLength(h) \in Nat /\ DataLength(h) \in Nat
<1>1. PICK w \in Nat, y \in Nat, b \in Nat : w = h.width /\ y = h.height /\ b = GetBpp(h)
  BY BppType
<1>2. \A m, n \in Nat : m * n \in Nat
  OBVIOUS
<1>3. PICK l \in Nat : l = w * b
  BY <1>2
<1>4. PICK a \in Nat : a = l * y
  BY <1>2
<1>5. l < UIntSize /\ a + y < UIntSize
  BY <1>1, <1>3, <1>4 DEF SizesFit
<1>6. LineLength(h) = l
  BY <1>1, <1>3, <1>5, UIntSame DEF LineLength
<1>7. UIntSize \in Nat
  BY ByteAssumption
<1>8. a < UIntSize /\ a + y \in Nat
  BY <1>5, <1>7
<1>9. PixelLength(h) = a /\ DataLength(h) = a + y
  BY <1>1, <1>4, <1>5, <1>6, <1>8, UIntSame DEF PixelLength, DataLength
<1> QED BY <1>1, <1>3, <1>4, <1>6, <1>8, <1>9

\* The sizes that are allocated are numbers (lines 123-146, 571).
LEMMA Sizes ==
  ASSUME NEW h \in HeaderSet
  PROVE  /\ GetBpp(h) \in Nat /\ LineLength(h) \in Nat /\ DataLength(h) \in Nat
         /\ LineLength(h) = h.width * GetBpp(h)
         /\ PixelLength(h) = LineLength(h) * h.height
         /\ DataLength(h) = LineLength(h) * h.height + h.height
<1>1. h.width \in Nat /\ h.height \in Nat /\ h.depth \in Nat /\ SizesFit(h)
  BY DEF HeaderSet
<1> QED BY <1>1, BppType, PlainSizes

\* A factor keeps the order.
LEMMA TimesKeeps ==
  ASSUME NEW x \in Int, NEW y \in Int, NEW n \in Nat, x <= y
  PROVE  n * x <= n * y
OBVIOUS

\* Quotient and remainder.
LEMMA DivMod ==
  ASSUME NEW k \in Nat, NEW n \in Nat \ {0}
  PROVE  k \div n \in Nat /\ k % n \in 0 .. n - 1 /\ k = n * (k \div n) + (k % n)
OBVIOUS

\* Each byte of the filtered picture is a filter or a byte of the picture's
\* (lines 818-824): nothing is read behind the picture.
LEMMA FilteredType ==
  ASSUME NEW p \in Pictures, NEW h,
         h = [width |-> p.width, height |-> p.height, depth |-> p.depth, colour |-> p.colour,
              interlaced |-> FALSE]
  PROVE  LET line == LineLength(h)
         IN  /\ h \in HeaderSet
             /\ [i \in 1 .. DataLength(h) |->
                    LET y == (i - 1) \div (line + 1)
                        x == (i - 1) % (line + 1)
                    IN  IF x = 0 THEN 0 ELSE p.bytes[y * line + x]] \in Seq(Byte)
<1>1. /\ p.width \in Nat /\ p.height \in Nat /\ p.depth = 8 /\ p.colour = "rgba"
      /\ p.bytes \in [1 .. p.width * 4 * p.height -> Byte]
  BY PngliteAssumption
<1>2. h \in HeaderSet
  <2>1. p.depth \in Nat /\ p.colour \in Colours /\ FALSE \in BOOLEAN
    BY <1>1 DEF Colours
  <2>2. SizesFit(p)
    BY PngliteAssumption
  <2>3. GetBpp(h) = GetBpp(p)
    BY DEF GetBpp
  <2>4. SizesFit(h)
    BY <2>2, <2>3 DEF SizesFit
  <2> QED BY <2>1, <2>4, <1>1 DEF HeaderSet
<1>3. h.width = p.width /\ h.height = p.height /\ h.depth = 8 /\ h.colour = "rgba"
  BY <1>1
<1>4. GetBpp(h) = 4
  BY <1>3 DEF GetBpp
<1> DEFINE line == LineLength(h)
           height == p.height
           Y(i) == (i - 1) \div (line + 1)
           X(i) == (i - 1) % (line + 1)
           Value(i) == IF X(i) = 0 THEN 0 ELSE p.bytes[Y(i) * line + X(i)]
<1>5. line \in Nat /\ height \in Nat /\ DataLength(h) = line * height + height /\ DataLength(h) \in Nat
  BY <1>1, <1>2, <1>3, Sizes
<1>6. p.bytes \in [1 .. line * height -> Byte]
  BY <1>1, <1>2, <1>3, <1>4, Sizes
<1>7. 0 \in Byte
  BY ByteAssumption DEF Byte
<1> HIDE DEF line, height
<1>8. ASSUME NEW i \in 1 .. DataLength(h) PROVE Value(i) \in Byte
  <2>1. CASE X(i) = 0
    BY <2>1, <1>7
  <2>2. CASE X(i) # 0
    <3> DEFINE y == Y(i)
               x == X(i)
    <3>1. i - 1 \in Nat /\ i - 1 < line * height + height /\ line + 1 \in Nat \ {0}
      BY <1>5
    <3>2. y \in Nat /\ x \in 0 .. line /\ i - 1 = (line + 1) * y + x
      <4> DEFINE k == i - 1
                 n == line + 1
      <4>1. k \in Nat /\ n \in Nat \ {0} /\ n - 1 = line
        BY <3>1, <1>5
      <4> HIDE DEF k, n
      <4>2. k \div n \in Nat /\ k % n \in 0 .. n - 1 /\ k = n * (k \div n) + (k % n)
        BY <4>1, DivMod
      <4> QED BY <4>1, <4>2 DEF k, n
    <3>3. x \in 1 .. line
      BY <3>2, <2>2
    <3> HIDE DEF x, y
    <3>4. (line + 1) * y = line * y + y /\ (line + 1) * height = line * height + height
      BY <1>5, <3>2
    <3>5. y < height
      <4>1. SUFFICES ASSUME height <= y PROVE FALSE
        BY <1>5, <3>2
      <4>2. (line + 1) * height <= (line + 1) * y
        BY <4>1, <1>5, <3>2, TimesKeeps
      <4>3. PICK a \in Nat : a = line * height
        BY <1>5
      <4>4. PICK b \in Nat : b = (line + 1) * y
        BY <1>5, <3>2
      <4> QED BY <1>5, <3>1, <3>2, <3>4, <4>2, <4>3, <4>4
    <3>6. y * line + x \in 1 .. line * height
      <4>1. line * y <= line * (height - 1)
        BY <3>2, <3>5, <1>5, TimesKeeps
      <4>2. line * (height - 1) = line * height - line /\ y * line = line * y
        BY <1>5, <3>2
      <4>3. PICK a \in Nat : a = line * height
        BY <1>5
      <4>4. PICK b \in Nat : b = line * y
        BY <1>5, <3>2
      <4> QED BY <1>5, <3>2, <3>3, <4>1, <4>2, <4>3, <4>4
    <3>7. Value(i) = p.bytes[y * line + x]
      BY <2>2 DEF x, y
    <3> HIDE DEF Value
    <3> QED BY <3>6, <3>7, <1>6
  <2> QED BY <2>1, <2>2
<1> DEFINE all == [i \in 1 .. DataLength(h) |-> Value(i)]
<1>9. all \in Seq(Byte)
  <2> DEFINE size == DataLength(h)
  <2>1. size \in Nat /\ \A i \in 1 .. size : Value(i) \in Byte
    BY <1>5, <1>8
  <2> HIDE DEF Value, size
  <2>2. [i \in 1 .. size |-> Value(i)] \in Seq(Byte)
    BY <2>1
  <2> QED BY <2>2 DEF size
<1> QED BY <1>2, <1>9 DEF line

\* zlib stays within the room that it is given, and gives bytes.
LEMMA InflateType ==
  ASSUME NEW stream \in StreamSet, stream.state # "none", NEW symbols \in Seq(Unit),
         png_data \in Seq(Byte), Len(stream.out) <= Len(png_data)
  PROVE  LET z == Inflate(stream, symbols).stream
         IN  z \in StreamSet /\ z.state # "none" /\ Len(z.out) <= Len(png_data)
<1> DEFINE room == Len(png_data) - Len(stream.out)
           Plain(n) == \A i \in 1 .. n : symbols[i][1] = "symbol"
           Given(n) == FlattenSeq([i \in 1 .. n |-> symbols[i][2]])
           IsPlain(n) == n \in 0 .. Len(symbols) /\ Plain(n) /\ ~ (n < Len(symbols) /\ Plain(n + 1))
           plain == CHOOSE n \in 0 .. Len(symbols) : Plain(n) /\ ~ (n < Len(symbols) /\ Plain(n + 1))
           fits == {n \in 0 .. plain : Len(Given(n)) <= room}
           last == CHOOSE n \in fits : \A m \in fits : m <= n
           next == IF last < Len(symbols) THEN symbols[last + 1] ELSE Null
           state == IF last < plain THEN "stuck" ELSE IF next = Null THEN "open"
                    ELSE IF next = End THEN "end" ELSE "error"
           more == IF last < plain THEN SubSeq(Given(plain), 1, room) ELSE Given(last)
           out == stream.out \o more
<1>1. stream.out \in Seq(Byte) /\ room \in Nat /\ Len(symbols) \in Nat
  BY DEF StreamSet
<1>2. plain \in 0 .. Len(symbols) /\ Plain(plain)
  <2>1. \E n \in 0 .. Len(symbols) : Plain(n) /\ ~ (n < Len(symbols) /\ Plain(n + 1))
    <3> DEFINE Good == {n \in 0 .. Len(symbols) : Plain(n)}
    <3>1. 0 \in Good /\ Good \subseteq 0 .. Len(symbols)
      BY <1>1
    <3>2. PICK n \in Good : \A m \in Good : m <= n
      <4> HIDE DEF Good
      <4> QED BY <3>1, <1>1, GreatestNumber
    <3>3. n \in 0 .. Len(symbols) /\ Plain(n)
      OBVIOUS
    <3>4. n + 1 \notin Good
      <4>1. ~ (n + 1 <= n)
        BY <3>3, <1>1
      <4> HIDE DEF Good
      <4> QED BY <3>2, <4>1
    <3>5. ~ (n < Len(symbols) /\ Plain(n + 1))
      <4>1. n < Len(symbols) => n + 1 \in 0 .. Len(symbols)
        BY <3>3, <1>1
      <4> HIDE DEF Plain
      <4> QED BY <3>4, <4>1
    <3> HIDE DEF Plain, Good
    <3> QED BY <3>3, <3>5
  <2> HIDE DEF Plain
  <2> QED BY <2>1, Zenon
<1>3. ASSUME NEW n \in 0 .. plain PROVE Given(n) \in Seq(Byte)
  <2>1. plain \in Nat /\ plain <= Len(symbols) /\ n \in Nat /\ n <= plain
    BY <1>1, <1>2
  <2>2. \A i \in 1 .. n : symbols[i] \in Unit /\ symbols[i][1] = "symbol"
    <3>1. TAKE i \in 1 .. n
    <3>2. i \in 1 .. plain /\ i \in 1 .. Len(symbols)
      BY <2>1, <1>1
    <3> QED BY <3>2, <1>2
  <2>3. \A i \in 1 .. n : symbols[i][2] \in Seq(Byte)
    BY <2>2, UnitsRead
  <2>4. [i \in 1 .. n |-> symbols[i][2]] \in Seq(Seq(Byte))
    BY <2>1, <2>3
  <2> QED BY <2>4, FlattenType
<1>4. last \in fits /\ \A m \in fits : m <= last
  <2>1. 0 \in fits
    <3>1. [i \in 1 .. 0 |-> symbols[i][2]] = <<>>
      OBVIOUS
    <3>2. Given(0) = <<>>
      <4>1. FlattenSeq(<<>>) = <<>>
        BY DEF FlattenSeq
      <4> QED BY <3>1, <4>1, Zenon
    <3>3. 0 \in 0 .. plain /\ Len(<<>>) = 0
      BY <1>1, <1>2
    <3> HIDE DEF Given, plain, room
    <3> QED BY <3>2, <3>3, <1>1
  <2>2. fits \subseteq 0 .. plain /\ plain \in Nat
    BY <1>1, <1>2
  <2> HIDE DEF fits, plain
  <2>3. \E n \in fits : \A m \in fits : m <= n
    BY <2>1, <2>2, GreatestNumber
  <2> QED BY <2>3, Zenon
<1> HIDE DEF Given, Plain
<1>5. more \in Seq(Byte) /\ Len(more) <= room
  <2>1. last \in 0 .. plain /\ Len(Given(last)) <= room
    BY <1>4
  <2>2. CASE last < plain
    <3>1. plain \notin fits /\ plain \in 0 .. plain
      <4>1. plain \in Nat /\ last \in Int /\ ~ (plain <= last)
        BY <1>1, <1>2, <2>1, <2>2
      <4> HIDE DEF fits, plain
      <4> QED BY <1>4, <4>1
    <3>2. Given(plain) \in Seq(Byte) /\ ~ (Len(Given(plain)) <= room)
      BY <3>1, <1>3
    <3>3. more = SubSeq(Given(plain), 1, room)
      BY <2>2
    <3> HIDE DEF more, plain, room, last, fits
    <3>4. \A i \in 1 .. room : Given(plain)[i] \in Byte
      BY <3>2, <1>1
    <3> QED BY <3>3, <3>4, <1>1, SubSeqProperties
  <2>3. CASE ~ (last < plain)
    <3>1. more = Given(last) /\ Given(last) \in Seq(Byte)
      BY <2>3, <2>1, <1>3
    <3> HIDE DEF more, last
    <3> QED BY <3>1, <2>1
  <2> QED BY <2>2, <2>3
<1>6. out \in Seq(Byte) /\ Len(out) <= Len(png_data)
  <2> HIDE DEF more
  <2>1. stream.out \o more \in Seq(Byte) /\ Len(stream.out \o more) = Len(stream.out) + Len(more)
    BY <1>1, <1>5, ConcatProperties
  <2>2. Len(stream.out) \in Nat /\ Len(png_data) \in Nat /\ Len(more) \in Nat
    BY <1>1, <1>5
  <2> QED BY <2>1, <2>2, <1>5
<1>7. Stream(state, out) \in StreamSet /\ Stream(state, out).state # "none"
        /\ Stream(state, out).out = out
  <2>1. state \in {"stuck", "open", "end", "error"}
    OBVIOUS
  <2> HIDE DEF state, out
  <2> QED BY <2>1, <1>6 DEF Stream, StreamSet
<1>8. Inflate(stream, symbols).stream \in {stream, Stream(state, out)}
  <2> DEFINE unread == IF next = Null THEN 0 ELSE Len(symbols) - last - 1
  <2>1. Inflate(stream, symbols) =
          IF stream.state # "open" THEN [stream |-> stream, unread |-> Len(symbols)]
          ELSE [stream |-> Stream(state, out), unread |-> unread]
    BY Zenon DEF Inflate, Plain, Given
  <2> HIDE DEF state, out, unread
  <2> QED BY <2>1
<1> HIDE DEF out, state
<1> QED BY <1>6, <1>7, <1>8

-----------------------------------------------------------------------------
\* The invariant

Before == {"open_write", "set_data", "open", "colour"}
Written == {"write_ihdr", "compress", "write_iend"}
InLoop == {"chunk", "inflate_init", "read_idat", "load", "inflate"}
After == {"cleanup", "unfilter", "close"}

Types ==
  /\ pc \in Before \cup Written \cup InLoop \cup After \cup {"write_idats", "exited", "crashed"}
  /\ rest \in Seq(Unit) /\ length \in Nat /\ readbuflen \in Nat /\ pos \in Nat
  /\ hdr \in HeaderSet \cup {Null}
  /\ png_data \in Seq(Byte) \cup {Null}
  /\ readbuf \in Seq(Unit) \cup {Null}
  /\ zs \in StreamSet \cup {Null}

\* What the fields of png_t say is allocated; inflateInit may have refused its stream.
Pixels == IF png_data = Null THEN {} ELSE {"png_data"}
Refusal == IF zs # Null /\ zs.state = "none" THEN {"zs"} ELSE {}
Inflating == IF zs = Null THEN {} ELSE IF zs.state = "none" THEN {"zs"} ELSE {"zs", "inflate"}

\* What is allocated before each step
Blocks ==
  /\ pc \in {"open_write", "open"} => heap = {}
  /\ pc \in {"set_data", "colour"} => heap = {"file"}
  /\ pc \in Written => heap = {"file", "filtered"}
  /\ pc = "write_idats" => heap = {"file", "filtered", "chunk"}
  /\ pc \in InLoop \cup {"cleanup"} => heap = {"file"} \cup Held \cup Pixels \cup Inflating
  /\ pc = "unfilter" => heap = {"file"} \cup Pixels \cup Refusal
  /\ pc = "close" => heap = {"file"} \cup Refusal
  /\ pc = "exited" =>
       heap = Refusal \cup (IF hdr = Null /\ result # "FILE_ERROR" THEN {"file"} ELSE {})

\* Which fields of png_t are set before each step
Fields ==
  /\ pc \in Before \cup Written \cup {"write_idats"} => zs = Null
  /\ pc \in Before \cup Written => readbuf = Null
  /\ pc \in Before => png_data = Null
  /\ pc \in {"open_write", "set_data"} => meant \in Pictures
  /\ pc \in {"open_write", "set_data", "open"} => hdr = Null
  /\ pc \in {"colour"} \cup Written \cup {"write_idats"} \cup InLoop \cup After => hdr # Null
  /\ pc \in {"write_ihdr", "compress", "inflate_init", "read_idat", "load", "inflate"} => png_data # Null
  /\ pc = "write_idats" => readbuf \in Seq(Datum)
  /\ pc \in {"read_idat", "load", "inflate"} => zs # Null
  /\ pc \in {"load", "inflate"} => readbuf # Null

\* What is read fits into its buffer, and what inflate has given into the pixels.
Fits ==
  /\ pc = "load" => length <= readbuflen
  /\ pc \in InLoop /\ zs # Null => /\ zs.state # "none" /\ png_data # Null
                                    /\ Len(zs.out) <= Len(png_data)

Memory ==
  /\ Types /\ Fields /\ Fits
  /\ ~misused /\ Blocks

\* Null is nothing that it is told from.
LEMMA NotNull ==
  /\ Null \notin Seq(Byte) /\ Null \notin Seq(Unit) /\ Null \notin HeaderSet
  /\ Null \notin StreamSet /\ Null \notin Unit
BY PngliteAssumption

-----------------------------------------------------------------------------
\* Each step keeps the invariant

\* Nothing is allocated before the first call (pnglite.h:85-106).
LEMMA MemoryAtFirst == Init => Memory
<1> SUFFICES ASSUME Init PROVE Memory
  OBVIOUS
<1>1. rest \in Seq(Unit) /\ (pc = "open_write" => meant \in Pictures) /\ pc \in {"open", "open_write"}
  <2>1. <<>> \in Seq(Unit)
    OBVIOUS
  <2>2. \A f \in Files : f.units \in Seq(Unit)
    BY PngliteAssumption
  <2> QED BY <2>1, <2>2 DEF Init
<1>2. Types
  BY <1>1 DEF Init, Types, Before
<1>3. Fields /\ Fits /\ ~misused
  BY <1>1 DEF Init, Fields, Fits, Before, Written, InLoop, After
<1>4. Blocks
  <2>1. heap = {}
    BY DEF Init
  <2> QED BY <1>1, <2>1 DEF Blocks, Written, InLoop
<1> QED BY <1>2, <1>3, <1>4 DEF Memory

\* What png_alloc gives is not there twice (lines 108-121).
LEMMA Allocating ==
  ASSUME NEW blocks, Alloc(blocks), ~misused, blocks \cap heap = {}
  PROVE  ~misused' /\ heap' = heap \cup blocks
BY Zenon DEF Alloc

\* What png_free takes was there (lines 115-118).
LEMMA Freeing ==
  ASSUME NEW blocks, Free(blocks), ~misused, blocks \subseteq heap
  PROVE  ~misused' /\ heap' = heap \ blocks
BY Zenon DEF Free

USE DEF At, Go, Stop, Works, Fails, OnlyReads, reading

\* png_set_data and what it calls (lines 199-229, 279-314, 478-508, 808-828)
LEMMA WritingStep ==
  ASSUME Memory, OpenWrite \/ SetData \/ WriteIhdr \/ Compress \/ WriteIdats \/ WriteIend
  PROVE  Memory'
<1> USE DEF Memory
<1>1. CASE OpenWrite
  <2>1. /\ pc = "open_write" /\ heap = {} /\ meant \in Pictures /\ zs = Null /\ readbuf = Null
        /\ png_data = Null /\ hdr = Null /\ ~misused
    BY <1>1 DEF OpenWrite, Fields, Blocks, Before
  <2>2. /\ \/ pc' = "set_data" /\ heap' = {"file"}
           \/ pc' = "exited" /\ result' = "FILE_ERROR" /\ heap' = {}
        /\ ~misused' /\ UNCHANGED <<hdr, reading, meant>>
    BY <1>1, <2>1, Allocating DEF OpenWrite
  <2>3. Types'
    BY <2>2 DEF Types, Before
  <2>4. Fields' /\ Fits'
    BY <2>1, <2>2 DEF Fields, Fits, Before, Written, InLoop, After
  <2>5. Blocks'
    BY <2>1, <2>2 DEF Blocks, Written, InLoop, Refusal
  <2> QED BY <2>2, <2>3, <2>4, <2>5
<1>2. CASE SetData
  <2>1. /\ pc = "set_data" /\ heap = {"file"} /\ meant \in Pictures /\ zs = Null /\ readbuf = Null
        /\ ~misused
    BY <1>2 DEF SetData, Fields, Blocks, Before, Written
  <2>2. /\ \/ pc' = "write_ihdr" /\ heap' = {"file", "filtered"} /\ ~misused'
           \/ pc' = "crashed" /\ ~misused'
        /\ UNCHANGED <<rest, length, readbuf, readbuflen, zs, pos>>
    BY <1>2, <2>1, Allocating DEF SetData
  <2>3. hdr' \in HeaderSet /\ png_data' \in Seq(Byte)
    <3> DEFINE h == [width |-> meant.width, height |-> meant.height, depth |-> meant.depth,
                     colour |-> meant.colour, interlaced |-> FALSE]
    <3>1. meant.depth = 8
      BY <2>1, PngliteAssumption
    <3>2. hdr' = h
      BY <1>2 DEF SetData
    <3> HIDE DEF h
    <3>3. LineLength(hdr') = LineLength(h) /\ DataLength(hdr') = DataLength(h)
      BY <3>2
    <3>4. png_data' = [i \in 1 .. DataLength(h) |->
                         LET y == (i - 1) \div (LineLength(h) + 1)
                             x == (i - 1) % (LineLength(h) + 1)
                         IN  IF x = 0 THEN 0 ELSE meant.bytes[y * LineLength(h) + x]]
      BY <1>2, <3>2, Zenon DEF SetData
    <3> QED BY <2>1, <3>2, <3>4, FilteredType DEF h
  <2>4. Types'
    BY <2>2, <2>3 DEF Types, Written
  <2>5. Fields' /\ Fits'
    BY <2>1, <2>2, <2>3, NotNull DEF Fields, Fits, Before, Written, InLoop, After
  <2>6. Blocks'
    BY <2>2 DEF Blocks, Written, InLoop
  <2> QED BY <2>2, <2>4, <2>5, <2>6
<1>3. CASE WriteIhdr
  <2>1. /\ pc = "write_ihdr" /\ heap = {"file", "filtered"} /\ zs = Null /\ readbuf = Null
        /\ png_data # Null /\ hdr # Null /\ ~misused
    BY <1>3 DEF WriteIhdr, Fields, Blocks, Written
  <2>2. pc' = "compress" /\ UNCHANGED <<hdr, length, png_data, readbuf, readbuflen, zs, pos, heap, misused>>
    BY <1>3 DEF WriteIhdr
  <2>3. rest' \in Seq(Unit)
    <3>1. hdr \in HeaderSet
      BY <2>1 DEF Types
    <3> DEFINE units == <<Signature, Word(13), Header(hdr), Crc("IHDR", <<Header(hdr)>>)>>
    <3>2. Header(hdr) \in Datum
      BY <3>1, UnitsWritten
    <3>3. <<Header(hdr)>> \in Seq(Datum) /\ "IHDR" \in ChunkTypes
      BY <3>2 DEF ChunkTypes
    <3>4. Crc("IHDR", <<Header(hdr)>>) \in Unit
      BY <3>3, UnitsWritten
    <3>5. Signature \in Unit /\ Word(13) \in Unit /\ Header(hdr) \in Unit
      BY <3>2, UnitsWritten
    <3>6. units \in Seq(Unit)
      BY <3>4, <3>5
    <3>7. Write(units)
      BY <1>3 DEF WriteIhdr
    <3> HIDE DEF units
    <3> QED BY <3>6, <3>7, WriteType DEF Types
  <2>4. Types'
    BY <2>2, <2>3 DEF Types, Written
  <2>5. Fields' /\ Fits'
    BY <2>1, <2>2 DEF Fields, Fits, Before, Written, InLoop, After
  <2>6. Blocks'
    BY <2>1, <2>2 DEF Blocks, Written, InLoop
  <2> QED BY <2>1, <2>2, <2>4, <2>5, <2>6
<1>4. CASE Compress
  <2>1. /\ pc = "compress" /\ heap = {"file", "filtered"} /\ zs = Null /\ hdr # Null
        /\ png_data \in Seq(Byte) /\ ~misused
    BY <1>4 DEF Compress, Fields, Blocks, Written, Types
  <2> DEFINE symbols == <<Symbol(<<>>)>> \o [i \in DOMAIN png_data |-> Symbol(<<png_data[i]>>)] \o <<End>>
  <2>2. symbols \in Seq(Datum)
    <3>1. \A i \in DOMAIN png_data : Symbol(<<png_data[i]>>) \in Datum
      <4>1. \A i \in DOMAIN png_data : <<png_data[i]>> \in Seq(Byte)
        BY <2>1
      <4> QED BY <4>1, UnitsWritten
    <3>2. [i \in DOMAIN png_data |-> Symbol(<<png_data[i]>>)] \in Seq(Datum)
      <4>1. Len(png_data) \in Nat /\ DOMAIN png_data = 1 .. Len(png_data)
        BY <2>1
      <4> QED BY <3>1, <4>1
    <3>3. <<Symbol(<<>>)>> \in Seq(Datum) /\ <<End>> \in Seq(Datum)
      <4>1. <<>> \in Seq(Byte)
        OBVIOUS
      <4>2. Symbol(<<>>) \in Datum /\ End \in Datum
        BY <4>1, UnitsWritten
      <4> QED BY <4>2
    <3> QED BY <3>2, <3>3, ConcatProperties
  <2>3. /\ \/ pc' = "write_idats" /\ heap' = {"file", "filtered", "chunk"} /\ ~misused'
              /\ readbuf' \in {symbols, <<>>}
           \/ pc' = "crashed" /\ ~misused' /\ readbuf' = readbuf
        /\ UNCHANGED <<hdr, rest, length, png_data, readbuflen, zs, pos>>
    <3> HIDE DEF symbols
    <3>1. CASE Alloc({"chunk"})
      <4>1. ~misused' /\ heap' = {"file", "filtered", "chunk"}
        BY <2>1, <3>1, Allocating
      <4> QED BY <1>4, <4>1, <2>1 DEF Compress, symbols
    <3>2. CASE ~ Alloc({"chunk"})
      BY <1>4, <3>2, <2>1 DEF Compress
    <3> QED BY <3>1, <3>2
  <2>4. pc' = "write_idats" => readbuf' \in Seq(Datum)
    <3>1. <<>> \in Seq(Datum)
      OBVIOUS
    <3> HIDE DEF symbols
    <3> QED BY <2>2, <2>3, <3>1
  <2> HIDE DEF symbols
  <2>5. Types'
    <3>1. Seq(Datum) \subseteq Seq(Unit)
      BY UnitsWritten
    <3> QED BY <2>3, <2>4, <3>1 DEF Types
  <2>6. Fields' /\ Fits'
    BY <2>1, <2>3, <2>4 DEF Fields, Fits, Before, Written, InLoop, After
  <2>7. Blocks'
    BY <2>3 DEF Blocks, Written, InLoop
  <2> QED BY <2>3, <2>5, <2>6, <2>7
<1>5. CASE WriteIdats
  <2>1. /\ pc = "write_idats" /\ heap = {"file", "filtered", "chunk"} /\ zs = Null /\ hdr # Null
        /\ readbuf \in Seq(Datum) /\ ~misused
    BY <1>5 DEF WriteIdats, Fields, Blocks
  <2>2. /\ pc' = "write_iend" /\ readbuf' = Null
        /\ UNCHANGED <<hdr, length, png_data, readbuflen, zs, pos>>
    BY <1>5 DEF WriteIdats
  <2>3. ~misused' /\ heap' = {"file", "filtered"}
    <3>1. Free({"chunk"})
      BY <1>5 DEF WriteIdats
    <3>2. ~misused' /\ heap' = heap \ {"chunk"}
      BY <2>1, <3>1, Freeing
    <3> QED BY <2>1, <3>2
  <2>4. rest' \in Seq(Unit)
    <3> DEFINE units == <<Word(Len(readbuf)), Type("IDAT")>> \o readbuf \o <<Crc("IDAT", readbuf)>>
    <3>1. Len(readbuf) \in Nat /\ "IDAT" \in ChunkTypes
      BY <2>1 DEF ChunkTypes
    <3>2. Word(Len(readbuf)) \in Unit /\ Type("IDAT") \in Unit /\ Crc("IDAT", readbuf) \in Unit
            /\ readbuf \in Seq(Unit)
      BY <2>1, <3>1, UnitsWritten
    <3>3. <<Word(Len(readbuf)), Type("IDAT")>> \in Seq(Unit) /\ <<Crc("IDAT", readbuf)>> \in Seq(Unit)
      BY <3>2
    <3>4. units \in Seq(Unit)
      BY <3>2, <3>3, ConcatProperties
    <3>5. Write(units)
      BY <1>5 DEF WriteIdats
    <3> HIDE DEF units
    <3> QED BY <3>4, <3>5, WriteType DEF Types
  <2>5. Types'
    BY <2>2, <2>4 DEF Types, Written
  <2>6. Fields' /\ Fits'
    BY <2>1, <2>2 DEF Fields, Fits, Before, Written, InLoop, After
  <2>7. Blocks'
    BY <2>2, <2>3 DEF Blocks, Written, InLoop
  <2> QED BY <2>3, <2>5, <2>6, <2>7
<1>6. CASE WriteIend
  <2>1. /\ pc = "write_iend" /\ heap = {"file", "filtered"} /\ zs = Null /\ readbuf = Null /\ ~misused
    BY <1>6 DEF WriteIend, Fields, Blocks, Written
  <2>2. /\ pc' = "open" /\ png_data' = Null /\ hdr' = Null
        /\ UNCHANGED <<length, readbuf, readbuflen, zs, pos>>
    BY <1>6 DEF WriteIend
  <2>3. ~misused' /\ heap' = {}
    <3>1. Free({"filtered", "file"})
      BY <1>6 DEF WriteIend
    <3>2. ~misused' /\ heap' = heap \ {"filtered", "file"}
      BY <2>1, <3>1, Freeing
    <3> QED BY <2>1, <3>2
  <2>4. rest' \in Seq(Unit)
    <3> DEFINE units == <<Word(0), Type("IEND"), Crc("IEND", <<>>)>>
    <3>1. "IEND" \in ChunkTypes /\ <<>> \in Seq(Datum)
      BY DEF ChunkTypes
    <3>2. Word(0) \in Unit /\ Type("IEND") \in Unit /\ Crc("IEND", <<>>) \in Unit
      BY <3>1, UnitsWritten
    <3>3. units \in Seq(Unit)
      BY <3>2
    <3>4. Write(units)
      BY <1>6 DEF WriteIend
    <3> HIDE DEF units
    <3> QED BY <3>3, <3>4, WriteType DEF Types
  <2>5. Types'
    BY <2>2, <2>4 DEF Types, Before
  <2>6. Fields' /\ Fits'
    BY <2>1, <2>2 DEF Fields, Fits, Before, Written, InLoop, After
  <2>7. Blocks'
    BY <2>2, <2>3 DEF Blocks, Written, InLoop
  <2> QED BY <2>3, <2>5, <2>6, <2>7
<1> QED BY <1>1, <1>2, <1>3, <1>4, <1>5, <1>6

\* A head that is accepted has a header, and png_read_ihdr has no FILE_ERROR
\* (lines 148-197).
LEMMA HeaderRead ==
  ASSUME NEW units \in Seq(Unit)
  PROVE  /\ "NO_ERROR" \in ReadIhdr(units) => Len(units) >= 2 /\ units[2][2] \in HeaderSet
         /\ "FILE_ERROR" \notin ReadIhdr(units)
<1>1. CASE units = <<>>
  BY <1>1 DEF ReadIhdr
<1>2. CASE units # <<>> /\ Head(units) # Word(13)
  BY <1>2 DEF ReadIhdr
<1>3. CASE units # <<>> /\ Head(units) = Word(13) /\ Len(units) < 2
  BY <1>3 DEF ReadIhdr
<1>4. CASE units # <<>> /\ Head(units) = Word(13) /\ ~ (Len(units) < 2)
  <2> DEFINE h == units[2][2]
             unsupported == \/ units[2][1] # "header"
                            \/ h.colour = "indexed" \/ h.depth \notin {8, 16} \/ h.interlaced
             checked == IF unsupported THEN "NOT_SUPPORTED" ELSE "NO_ERROR"
  <2>1. ReadIhdr(units) =
          IF Len(units) = 2 THEN {"CRC_ERROR", checked}
          ELSE IF units[3] = Crc("IHDR", <<units[2]>>) THEN {checked} ELSE {"CRC_ERROR"}
    BY <1>4, Zenon DEF ReadIhdr
  <2>2. Len(units) >= 2 /\ units[2] \in Unit
    BY <1>4
  <2>3. checked = "NO_ERROR" => h \in HeaderSet
    BY <2>2, UnitsRead
  <2>4. checked # "FILE_ERROR"
    OBVIOUS
  <2> HIDE DEF h, checked
  <2> QED BY <2>1, <2>2, <2>3, <2>4 DEF h
<1> QED BY <1>1, <1>2, <1>3, <1>4

\* png_open_file_read and the loop of png_get_data (lines 254-304, 556-597, 770-783)
LEMMA ChunkStep ==
  ASSUME Memory, Open \/ GetData \/ NoChunk \/ Iend \/ SkipChunk \/ Idat \/ InitInflate
  PROVE  Memory'
<1> USE DEF Memory
<1>1. CASE Open
  <2>1. /\ pc = "open" /\ heap = {} /\ zs = Null /\ readbuf = Null /\ png_data = Null /\ hdr = Null
        /\ ~misused
    BY <1>1 DEF Open, Fields, Blocks, Before
  <2> DEFINE results == IF ~Has(1) THEN {"EOF_ERROR"}
                        ELSE IF Head(rest) # Signature THEN {"HEADER_ERROR"} ELSE ReadIhdr(Tail(rest))
  <2>2. /\ \/ /\ result' \in results /\ Alloc({"file"})
              /\ \/ result' = "NO_ERROR" /\ pc' = "colour" /\ hdr' = rest[3][2] /\ Skip(4)
                 \/ pc' = "exited" /\ UNCHANGED <<hdr, rest>>
           \/ result' = "FILE_ERROR" /\ pc' = "exited" /\ UNCHANGED <<heap, misused, hdr, rest>>
        /\ UNCHANGED <<length, png_data, readbuf, readbuflen, zs, pos>>
    BY <1>1, Zenon DEF Open
  <2>3. rest \in Seq(Unit)
    BY DEF Types
  <2>4. "FILE_ERROR" \notin results /\ ("NO_ERROR" \in results => rest[3][2] \in HeaderSet)
    <3>1. CASE ~Has(1)
      BY <3>1
    <3>2. CASE Has(1) /\ Head(rest) # Signature
      BY <3>2
    <3>3. CASE Has(1) /\ Head(rest) = Signature
      <4>1. rest # <<>>
        BY <3>3, <2>3 DEF Has
      <4>2. /\ Tail(rest) \in Seq(Unit) /\ Len(Tail(rest)) = Len(rest) - 1
            /\ \A i \in 1 .. Len(Tail(rest)) : Tail(rest)[i] = rest[i+1]
        BY <4>1, <2>3, HeadTailProperties
      <4>3. results = ReadIhdr(Tail(rest))
        BY <3>3
      <4> HIDE DEF results
      <4>4. /\ "NO_ERROR" \in results => Len(Tail(rest)) >= 2 /\ Tail(rest)[2][2] \in HeaderSet
            /\ "FILE_ERROR" \notin results
        BY <4>2, <4>3, HeaderRead
      <4>5. Len(rest) \in Nat /\ (Len(Tail(rest)) >= 2 => Tail(rest)[2] = rest[3])
        BY <4>2, <2>3
      <4> QED BY <4>4, <4>5
    <3> QED BY <3>1, <3>2, <3>3
  <2> HIDE DEF results
  <2>5. \/ pc' = "colour" /\ hdr' \in HeaderSet /\ rest' \in Seq(Unit) /\ heap' = {"file"} /\ ~misused'
        \/ /\ pc' = "exited" /\ UNCHANGED <<hdr, rest>> /\ ~misused'
           /\ \/ result' # "FILE_ERROR" /\ heap' = {"file"}
              \/ result' = "FILE_ERROR" /\ heap' = {}
    <3>1. CASE Alloc({"file"}) /\ result' \in results
      <4>1. ~misused' /\ heap' = {"file"}
        BY <2>1, <3>1, Allocating
      <4>2. result' # "FILE_ERROR"
        BY <3>1, <2>4
      <4>3. CASE result' = "NO_ERROR" /\ pc' = "colour" /\ hdr' = rest[3][2] /\ Skip(4)
        <5>1. rest' \in Seq(Unit)
          BY <4>3, <2>3, SkipType DEF Skip
        <5> QED BY <4>1, <4>3, <5>1, <3>1, <2>4
      <4>4. CASE pc' = "exited" /\ UNCHANGED <<hdr, rest>>
        BY <4>1, <4>2, <4>4
      <4> QED BY <2>2, <4>1, <4>2, <4>3, <4>4
    <3>2. CASE result' = "FILE_ERROR" /\ pc' = "exited" /\ UNCHANGED <<heap, misused, hdr, rest>>
      BY <3>2, <2>1
    <3> QED BY <2>2, <3>1, <3>2
  <2>6. Types'
    BY <2>2, <2>5 DEF Types, Before
  <2>7. Fields' /\ Fits'
    BY <2>1, <2>2, <2>5, NotNull DEF Fields, Fits, Before, Written, InLoop, After
  <2>8. Blocks'
    BY <2>1, <2>2, <2>5 DEF Blocks, Written, InLoop, Refusal
  <2> QED BY <2>5, <2>6, <2>7, <2>8
<1>2. CASE GetData
  <2>1. /\ pc = "colour" /\ heap = {"file"} /\ zs = Null /\ readbuf = Null /\ png_data = Null
        /\ hdr # Null /\ ~misused
    BY <1>2 DEF GetData, Fields, Blocks, Before
  <2>2. /\ pc' \in {"chunk", "close"}
        /\ UNCHANGED <<rest, length, png_data, readbuf, readbuflen, zs, pos, hdr, heap, misused>>
    BY <1>2 DEF GetData
  <2>3. Types'
    BY <2>2 DEF Types, InLoop, After
  <2>4. Fields' /\ Fits'
    BY <2>1, <2>2 DEF Fields, Fits, Before, Written, InLoop, After
  <2>5. Blocks'
    BY <2>1, <2>2 DEF Blocks, Written, InLoop, Held, Pixels, Inflating, Refusal
  <2> QED BY <2>1, <2>2, <2>3, <2>4, <2>5
<1>3. CASE NoChunk \/ Iend \/ SkipChunk
  <2>1. /\ pc = "chunk" /\ heap = {"file"} \cup Held \cup Pixels \cup Inflating
        /\ hdr # Null /\ ~misused /\ rest \in Seq(Unit)
        /\ zs # Null => zs.state # "none" /\ png_data # Null /\ Len(zs.out) <= Len(png_data)
    BY <1>3 DEF NoChunk, Iend, NextChunk, SkipChunk, Fields, Fits, Blocks, InLoop, Types
  <2>2. /\ pc' \in {"chunk", "cleanup"}
        /\ UNCHANGED <<length, png_data, readbuf, readbuflen, zs, pos, hdr, heap, misused>>
    BY <1>3 DEF NoChunk, Iend, NextChunk, SkipChunk
  <2>3. rest' \in Seq(Unit)
    <3>1. CASE NoChunk
      BY <3>1, <2>1 DEF NoChunk
    <3>2. CASE Iend
      BY <3>2, <2>1, SkipType DEF Iend, Skip
    <3>3. CASE SkipChunk
      <4>1. PICK n \in Lengths : Skip(2 + n + 1)
        BY <3>3 DEF SkipChunk
      <4>2. n \in Nat
        BY <3>3, <2>1, LengthsType DEF SkipChunk, Has
      <4>3. 2 + n + 1 \in Nat
        BY <4>2
      <4> QED BY <4>1, <4>3, <2>1, SkipType DEF Skip
    <3> QED BY <1>3, <3>1, <3>2, <3>3
  <2>4. Types'
    BY <2>2, <2>3 DEF Types, InLoop, After
  <2>5. Fields' /\ Fits'
    BY <2>1, <2>2 DEF Fields, Fits, Before, Written, InLoop, After
  <2>6. Blocks'
    BY <2>1, <2>2 DEF Blocks, Written, InLoop, Held, Pixels, Inflating
  <2> QED BY <2>1, <2>2, <2>4, <2>5, <2>6
<1>4. CASE Idat
  <2>1. /\ pc = "chunk" /\ heap = {"file"} \cup Held \cup Pixels \cup Inflating
        /\ hdr \in HeaderSet /\ ~misused /\ rest \in Seq(Unit)
        /\ zs # Null => zs.state # "none" /\ png_data # Null /\ Len(zs.out) <= Len(png_data)
    BY <1>4 DEF Idat, NextChunk, Fields, Fits, Blocks, InLoop, Types
  <2>2. /\ \/ png_data # Null /\ pc' = "inflate_init" /\ UNCHANGED <<png_data, heap, misused>>
           \/ /\ png_data = Null /\ pc' = "inflate_init" /\ Alloc({"png_data"})
              /\ \E g \in Garbage : png_data' = [i \in 1 .. DataLength(hdr) |-> g]
           \/ png_data = Null /\ pc' = "cleanup" /\ UNCHANGED <<png_data, heap, misused>>
        /\ UNCHANGED <<hdr, readbuf, readbuflen, zs, pos>>
    BY <1>4 DEF Idat
  <2>3. rest' \in Seq(Unit) /\ length' \in Nat
    <3>1. Lengths \subseteq Nat
      BY <1>4, <2>1, LengthsType DEF Idat, NextChunk, Has
    <3>2. length' \in Lengths /\ Skip(2)
      BY <1>4 DEF Idat
    <3> QED BY <3>1, <3>2, <2>1, SkipType DEF Skip
  <2>4. \/ /\ UNCHANGED <<png_data, heap, misused>> /\ pc' \in {"inflate_init", "cleanup"}
           /\ png_data = Null => pc' = "cleanup"
        \/ /\ png_data = Null /\ pc' = "inflate_init" /\ Alloc({"png_data"})
           /\ png_data' \in Seq(Byte) /\ png_data' # Null
    <3>1. CASE png_data = Null /\ pc' = "inflate_init" /\ Alloc({"png_data"})
               /\ \E g \in Garbage : png_data' = [i \in 1 .. DataLength(hdr) |-> g]
      <4>1. PICK g \in Garbage : png_data' = [i \in 1 .. DataLength(hdr) |-> g]
        BY <3>1
      <4>2. g \in Byte /\ DataLength(hdr) \in Nat
        BY <2>1, PngliteAssumption, Sizes
      <4>3. png_data' \in Seq(Byte)
        BY <4>1, <4>2
      <4> QED BY <3>1, <4>3, NotNull
    <3>2. CASE png_data # Null /\ pc' = "inflate_init" /\ UNCHANGED <<png_data, heap, misused>>
      BY <3>2
    <3>3. CASE png_data = Null /\ pc' = "cleanup" /\ UNCHANGED <<png_data, heap, misused>>
      BY <3>3
    <3> QED BY <2>2, <3>1, <3>2, <3>3
  <2>5. ~misused' /\ heap' = {"file"} \cup Held' \cup Pixels' \cup Inflating'
    <3>1. CASE Alloc({"png_data"}) /\ png_data = Null /\ png_data' # Null
      <4>1. {"png_data"} \cap heap = {}
        BY <2>1, <3>1 DEF Held, Pixels, Inflating
      <4>2. ~misused' /\ heap' = heap \cup {"png_data"}
        BY <2>1, <3>1, <4>1, Allocating
      <4> QED BY <2>1, <2>2, <3>1, <4>2 DEF Held, Pixels, Inflating
    <3>2. CASE UNCHANGED <<png_data, heap, misused>>
      BY <2>1, <2>2, <3>2 DEF Held, Pixels, Inflating
    <3> QED BY <2>4, <3>1, <3>2
  <2>6. Types'
    BY <2>2, <2>3, <2>4 DEF Types, InLoop, After
  <2>7. Fields' /\ Fits'
    BY <2>1, <2>2, <2>4, NotNull DEF Fields, Fits, Before, Written, InLoop, After
  <2>8. Blocks'
    BY <2>2, <2>5 DEF Blocks, Written, InLoop
  <2> QED BY <2>5, <2>6, <2>7, <2>8
<1>5. CASE InitInflate
  <2>1. /\ pc = "inflate_init" /\ heap = {"file"} \cup Held \cup Pixels \cup Inflating
        /\ hdr # Null /\ ~misused /\ png_data # Null /\ png_data \in Seq(Byte)
        /\ zs # Null => zs.state # "none" /\ Len(zs.out) <= Len(png_data)
    BY <1>5 DEF InitInflate, Fields, Fits, Blocks, InLoop, Types
  <2>2. /\ \/ zs # Null /\ pc' = "read_idat" /\ UNCHANGED <<zs, heap, misused>>
           \/ zs = Null /\ zs' = Stream("open", <<>>) /\ pc' = "read_idat" /\ Alloc({"zs", "inflate"})
           \/ zs = Null /\ zs' = Stream("none", <<>>) /\ pc' = "cleanup" /\ Alloc({"zs"})
           \/ zs = Null /\ pc' = "cleanup" /\ UNCHANGED <<zs, heap, misused>>
        /\ UNCHANGED <<hdr, rest, length, png_data, readbuf, readbuflen, pos>>
    BY <1>5 DEF InitInflate
  <2>3. ASSUME NEW s \in {"open", "none"}
        PROVE  /\ Stream(s, <<>>) \in StreamSet /\ Stream(s, <<>>) # Null
               /\ Stream(s, <<>>).state = s /\ Len(Stream(s, <<>>).out) = 0
    <3>1. <<>> \in Seq(Byte) /\ Len(<<>>) = 0
      OBVIOUS
    <3>2. Stream(s, <<>>) \in StreamSet
      BY <3>1 DEF Stream, StreamSet
    <3>3. Stream(s, <<>>).state = s /\ Stream(s, <<>>).out = <<>>
      BY DEF Stream
    <3> QED BY <3>1, <3>2, <3>3, NotNull
  <2>4. ~misused' /\ heap' = {"file"} \cup Held' \cup Pixels' \cup Inflating'
    <3>1. CASE UNCHANGED <<zs, heap, misused>>
      BY <2>1, <2>2, <3>1 DEF Held, Pixels, Inflating
    <3>2. CASE zs = Null /\ zs' = Stream("open", <<>>) /\ Alloc({"zs", "inflate"})
      <4>1. {"zs", "inflate"} \cap heap = {}
        BY <2>1, <3>2 DEF Held, Pixels, Inflating
      <4>2. ~misused' /\ heap' = heap \cup {"zs", "inflate"}
        BY <2>1, <3>2, <4>1, Allocating
      <4> QED BY <2>1, <2>2, <2>3, <3>2, <4>2 DEF Held, Pixels, Inflating
    <3>3. CASE zs = Null /\ zs' = Stream("none", <<>>) /\ Alloc({"zs"})
      <4>1. {"zs"} \cap heap = {}
        BY <2>1, <3>3 DEF Held, Pixels, Inflating
      <4>2. ~misused' /\ heap' = heap \cup {"zs"}
        BY <2>1, <3>3, <4>1, Allocating
      <4> QED BY <2>1, <2>2, <2>3, <3>3, <4>2 DEF Held, Pixels, Inflating
    <3> QED BY <2>2, <3>1, <3>2, <3>3
  <2>5. Types'
    BY <2>2, <2>3 DEF Types, InLoop, After
  <2>6. Fields'
    BY <2>1, <2>2, <2>3 DEF Fields, Before, Written, InLoop, After
  <2>7. Fits'
    <3>1. Len(png_data) \in Nat
      BY <2>1
    <3> QED BY <2>1, <2>2, <2>3, <3>1 DEF Fits, InLoop
  <2>8. Blocks'
    BY <2>2, <2>4 DEF Blocks, Written, InLoop
  <2> QED BY <2>4, <2>5, <2>6, <2>7, <2>8
<1> QED BY <1>1, <1>2, <1>3, <1>4, <1>5

\* png_read_idat and png_inflate (lines 420-451, 511-554)
LEMMA DataStep ==
  ASSUME Memory, Buffer \/ Load \/ InflateIdat
  PROVE  Memory'
<1> USE DEF Memory
<1>1. CASE Buffer
  <2>1. /\ pc = "read_idat" /\ heap = {"file"} \cup Held \cup Pixels \cup Inflating
        /\ hdr # Null /\ ~misused /\ png_data # Null /\ zs # Null
        /\ length \in Nat /\ readbuflen \in Nat
        /\ zs.state # "none" /\ Len(zs.out) <= Len(png_data)
    BY <1>1 DEF Buffer, Fields, Fits, Blocks, InLoop, Types
  <2>2. UNCHANGED <<hdr, rest, length, png_data, zs, pos>>
    BY <1>1 DEF Buffer
  <2>3. \/ /\ readbuf # Null /\ readbuflen >= length /\ pc' = "load"
           /\ UNCHANGED <<readbuf, readbuflen, heap, misused>>
        \/ /\ readbuflen' = length /\ misused' = (misused \/ ~ Held \subseteq heap)
           /\ \/ readbuf' = <<>> /\ pc' = "load" /\ heap' = heap \cup {"readbuf"}
              \/ readbuf' = Null /\ pc' = "cleanup" /\ heap' = heap \ Held
    BY <1>1, Zenon DEF Buffer
  <2>4. <<>> \in Seq(Unit) /\ <<>> # Null
    <3>1. <<>> \in Seq(Unit)
      OBVIOUS
    <3> QED BY <3>1, NotNull
  <2>5. ~misused'
    <3>1. Held \subseteq heap
      BY <2>1
    <3> QED BY <2>1, <2>3, <3>1, Zenon
  <2>6. heap' = {"file"} \cup Held' \cup Pixels' \cup Inflating'
    BY <2>1, <2>2, <2>3, <2>4 DEF Held, Pixels, Inflating
  <2>7. Types'
    BY <2>1, <2>2, <2>3, <2>4 DEF Types, InLoop, After
  <2>8. Fields'
    BY <2>1, <2>2, <2>3, <2>4 DEF Fields, Before, Written, InLoop, After
  <2>9. Fits'
    <3>1. pc' = "load" => length' <= readbuflen'
      BY <2>1, <2>2, <2>3
    <3> QED BY <2>1, <2>2, <3>1 DEF Fits, InLoop
  <2>10. Blocks'
    BY <2>3, <2>6 DEF Blocks, Written, InLoop
  <2> QED BY <2>5, <2>7, <2>8, <2>9, <2>10
<1>2. CASE Load
  <2>1. /\ pc = "load" /\ heap = {"file"} \cup Held \cup Pixels \cup Inflating
        /\ hdr # Null /\ ~misused /\ png_data # Null /\ zs # Null /\ readbuf # Null
        /\ length \in Nat /\ readbuflen \in Nat /\ length <= readbuflen /\ rest \in Seq(Unit)
        /\ zs.state # "none" /\ Len(zs.out) <= Len(png_data)
    BY <1>2 DEF Load, Fields, Fits, Blocks, InLoop, Types
  <2>2. UNCHANGED <<hdr, length, png_data, readbuflen, zs, pos, heap>>
    BY <1>2 DEF Load
  <2>3. ~misused'
    <3>1. "readbuf" \in heap /\ ~ (readbuflen < length)
      BY <2>1 DEF Held
    <3>2. misused' = (misused \/ "readbuf" \notin heap \/ readbuflen < length)
      BY <1>2 DEF Load
    <3> QED BY <2>1, <3>1, <3>2, Zenon
  <2>4. \/ pc' = "cleanup" /\ readbuf' = readbuf
        \/ pc' \in {"cleanup", "inflate"} /\ readbuf' \in Seq(Unit)
    <3>1. CASE ~Has(length)
      BY <1>2, <3>1 DEF Load
    <3>2. CASE Has(length)
      <4>1. readbuf' = SubSeq(rest, 1, length) /\ pc' \in {"cleanup", "inflate"}
        BY <1>2, <3>2 DEF Load
      <4>2. \A i \in 1 .. length : rest[i] \in Unit
        BY <2>1, <3>2 DEF Has
      <4>3. SubSeq(rest, 1, length) \in Seq(Unit)
        BY <2>1, <4>2, SubSeqProperties
      <4> QED BY <4>1, <4>3
    <3> QED BY <3>1, <3>2
  <2>5. rest' \in Seq(Unit)
    BY <1>2, <2>1, SkipType DEF Load, Skip
  <2>6. Types'
    BY <2>2, <2>4, <2>5 DEF Types, InLoop, After
  <2>7. Fields' /\ Fits'
    BY <2>1, <2>2, <2>4, NotNull DEF Fields, Fits, Before, Written, InLoop, After
  <2>8. Blocks'
    <3>1. Held' = Held
      BY <2>1, <2>4, NotNull DEF Held
    <3> QED BY <2>1, <2>2, <2>4, <3>1 DEF Blocks, Written, InLoop, Pixels, Inflating
  <2> QED BY <2>3, <2>6, <2>7, <2>8
<1>3. CASE InflateIdat
  <2>1. /\ pc = "inflate" /\ heap = {"file"} \cup Held \cup Pixels \cup Inflating
        /\ hdr # Null /\ ~misused /\ png_data \in Seq(Byte) /\ zs \in StreamSet
        /\ readbuf \in Seq(Unit) /\ zs # Null /\ png_data # Null /\ readbuf # Null
        /\ zs.state # "none" /\ Len(zs.out) <= Len(png_data)
    BY <1>3 DEF InflateIdat, Fields, Fits, Blocks, InLoop, Types
  <2> DEFINE z == Inflate(zs, readbuf).stream
             left == SubSeq(png_data, Len(z.out) + 1, Len(png_data))
  <2>2. /\ zs' = z /\ png_data' = z.out \o left /\ pc' \in {"cleanup", "chunk"}
        /\ UNCHANGED <<hdr, rest, length, readbuf, readbuflen, pos, heap>>
    BY <1>3 DEF InflateIdat
  <2>3. z \in StreamSet /\ z.state # "none" /\ Len(z.out) <= Len(png_data)
    BY <2>1, InflateType
  <2> HIDE DEF z
  <2>4. png_data' \in Seq(Byte) /\ Len(z.out) <= Len(png_data')
    <3>1. z.out \in Seq(Byte)
      BY <2>3 DEF StreamSet
    <3>2. left \in Seq(Byte)
      <4>1. Len(z.out) \in Nat /\ Len(png_data) \in Nat
        BY <2>1, <3>1
      <4>2. \A i \in Len(z.out) + 1 .. Len(png_data) : png_data[i] \in Byte
        BY <2>1, <4>1
      <4> QED BY <4>1, <4>2, SubSeqProperties
    <3> HIDE DEF left
    <3>3. z.out \o left \in Seq(Byte) /\ Len(z.out \o left) = Len(z.out) + Len(left)
      BY <3>1, <3>2, ConcatProperties
    <3>4. Len(left) \in Nat /\ Len(z.out) \in Nat
      BY <3>1, <3>2
    <3> QED BY <2>2, <3>3, <3>4
  <2>5. ~misused'
    <3>1. {"zs", "inflate", "png_data", "readbuf"} \subseteq heap
      BY <2>1 DEF Held, Pixels, Inflating
    <3>2. misused' = (misused \/ ~ {"zs", "inflate", "png_data", "readbuf"} \subseteq heap)
      BY <1>3, Zenon DEF InflateIdat
    <3> QED BY <2>1, <3>1, <3>2, Zenon
  <2>6. zs' # Null /\ png_data' # Null
    BY <2>2, <2>3, <2>4, NotNull
  <2>7. Types'
    BY <2>2, <2>3, <2>4 DEF Types, InLoop, After
  <2>8. Fields' /\ Fits'
    BY <2>1, <2>2, <2>3, <2>4, <2>6 DEF Fields, Fits, Before, Written, InLoop, After
  <2>9. Blocks'
    <3>1. Held' = Held /\ Pixels' = Pixels /\ Inflating' = Inflating
      BY <2>1, <2>2, <2>3, <2>6 DEF Held, Pixels, Inflating
    <3> QED BY <2>1, <2>2, <3>1 DEF Blocks, Written, InLoop
  <2> QED BY <2>5, <2>7, <2>8, <2>9
<1> QED BY <1>1, <1>2, <1>3

\* The end of png_get_data, png_unfilter and png_close_file (lines 321-326, 710-768, 785-806)
LEMMA EndStep ==
  ASSUME Memory, CleanUp \/ UnfilterLines \/ UnfilterDone \/ CloseFile
  PROVE  Memory'
<1> USE DEF Memory
<1>1. CASE CleanUp
  <2>1. pc = "cleanup" /\ heap = {"file"} \cup Held \cup Pixels \cup Inflating /\ hdr # Null /\ ~misused
    BY <1>1 DEF CleanUp, Fields, Blocks, After
  <2> DEFINE freed == Held \cup (IF zs # Null /\ zs.state # "none" THEN {"zs", "inflate"} ELSE {})
                           \cup (IF result # "DONE" /\ png_data # Null THEN {"png_data"} ELSE {})
  <2>2. /\ Free(freed) /\ pc' = IF result = "DONE" THEN "unfilter" ELSE "close"
        /\ UNCHANGED <<result, hdr, reading>>
    BY <1>1, Zenon DEF CleanUp
  <2>3. freed \subseteq heap
    BY <2>1 DEF Pixels, Inflating
  <2>4. heap \ freed = {"file"} \cup (IF result = "DONE" THEN Pixels ELSE {}) \cup Refusal
    BY <2>1 DEF Held, Pixels, Inflating, Refusal
  <2> HIDE DEF freed
  <2>5. ~misused' /\ heap' = heap \ freed
    BY <2>1, <2>2, <2>3, Freeing
  <2>6. Types'
    BY <2>2 DEF Types, After
  <2>7. Fields' /\ Fits'
    BY <2>1, <2>2 DEF Fields, Fits, Before, Written, InLoop, After
  <2>8. Blocks'
    BY <2>2, <2>4, <2>5 DEF Blocks, Written, InLoop, Pixels, Refusal
  <2> QED BY <2>5, <2>6, <2>7, <2>8
<1>2. CASE UnfilterLines
  <2>1. /\ pc = "unfilter" /\ heap = {"file"} \cup Pixels \cup Refusal /\ hdr # Null /\ ~misused
        /\ pos \in Nat
    BY <1>2 DEF UnfilterLines, Fields, Blocks, After, Types
  <2>2. /\ pc' = "unfilter" /\ pos' = pos + 1
        /\ UNCHANGED <<hdr, rest, length, png_data, readbuf, readbuflen, zs, heap>>
    BY <1>2 DEF UnfilterLines
  <2>3. ~misused'
    <3>1. png_data # Null
      BY <1>2, <2>1 DEF UnfilterLines, Lines
    <3>2. "png_data" \in heap
      BY <2>1, <3>1 DEF Pixels
    <3>3. misused' = (misused \/ "png_data" \notin heap)
      BY <1>2 DEF UnfilterLines
    <3> QED BY <2>1, <3>2, <3>3, Zenon
  <2>4. Types'
    BY <2>1, <2>2 DEF Types, After
  <2>5. Fields' /\ Fits'
    BY <2>1, <2>2 DEF Fields, Fits, Before, Written, InLoop, After
  <2>6. Blocks'
    BY <2>1, <2>2 DEF Blocks, Written, InLoop, Pixels, Refusal
  <2> QED BY <2>3, <2>4, <2>5, <2>6
<1>3. CASE UnfilterDone
  <2>1. pc = "unfilter" /\ heap = {"file"} \cup Pixels \cup Refusal /\ hdr # Null /\ ~misused
    BY <1>3 DEF UnfilterDone, Fields, Blocks, After
  <2>2. Free(Pixels) /\ pc' = "close" /\ UNCHANGED <<hdr, reading>>
    BY <1>3 DEF UnfilterDone, Pixels
  <2>3. Pixels \subseteq heap /\ heap \ Pixels = {"file"} \cup Refusal
    BY <2>1 DEF Pixels, Refusal
  <2>4. ~misused' /\ heap' = heap \ Pixels
    BY <2>1, <2>2, <2>3, Freeing
  <2>5. Types'
    BY <2>2 DEF Types, After
  <2>6. Fields' /\ Fits'
    BY <2>1, <2>2 DEF Fields, Fits, Before, Written, InLoop, After
  <2>7. Blocks'
    BY <2>2, <2>3, <2>4 DEF Blocks, Written, InLoop, Refusal
  <2> QED BY <2>4, <2>5, <2>6, <2>7
<1>4. CASE CloseFile
  <2>1. pc = "close" /\ heap = {"file"} \cup Refusal /\ hdr # Null /\ ~misused
    BY <1>4 DEF CloseFile, Fields, Blocks, After
  <2>2. Free({"file"}) /\ pc' = "exited" /\ UNCHANGED <<result, hdr, reading>>
    BY <1>4 DEF CloseFile
  <2>3. {"file"} \subseteq heap /\ heap \ {"file"} = Refusal
    BY <2>1 DEF Refusal
  <2>4. ~misused' /\ heap' = heap \ {"file"}
    BY <2>1, <2>2, <2>3, Freeing
  <2>5. Types'
    BY <2>2 DEF Types
  <2>6. Fields' /\ Fits'
    BY <2>1, <2>2 DEF Fields, Fits, Before, Written, InLoop, After
  <2>7. Blocks'
    BY <2>1, <2>2, <2>3, <2>4 DEF Blocks, Written, InLoop, Refusal
  <2> QED BY <2>4, <2>5, <2>6, <2>7
<1> QED BY <1>1, <1>2, <1>3, <1>4

-----------------------------------------------------------------------------
\* The theorem

\* Every call starts from what the one before has left.
LEMMA MemoryInvariant == Spec => []Memory
<1>1. Memory /\ [Next]_vars => Memory'
  <2>1. Memory /\ UNCHANGED vars => Memory'
    BY DEF Memory, Types, Fields, Fits, Blocks, Held, Pixels, Inflating, Refusal, vars
  <2> QED BY <2>1, WritingStep, ChunkStep, DataStep, EndStep DEF Next
<1> QED BY MemoryAtFirst, <1>1, PTL DEF Spec

\* Whatever the file or the picture, and whichever calls fail: no block is freed twice or
\* used after that, no chunk is longer than its buffer, and at the end nothing stays
\* allocated but the stream that inflateInit refused and the file whose head was not
\* accepted (pnglite.c:254-304, 478-531, 770-834).
THEOREM MemoryIsKept == Spec => []MemoryKept
<1>1. Memory => MemoryKept
  BY DEF Memory, MemoryKept, Blocks, Refusal
<1> QED BY <1>1, MemoryInvariant, PTL

-----------------------------------------------------------------------------
\* Decoding: what a reader of the format may rely on, whatever the file

\* Where a piece of a sequence has its bytes.
LEMMA Piece ==
  ASSUME NEW S, NEW s, NEW m \in Nat, NEW n \in Nat, \A i \in m + 1 .. m + n : s[i] \in S
  PROVE  LET l == SubSeq(s, m + 1, m + n)
         IN  l \in Seq(S) /\ Len(l) = n /\ \A i \in 1 .. n : l[i] = s[m + i]
<1> DEFINE l == SubSeq(s, m + 1, m + n)
<1>1. PICK a \in Int, b \in Int : a = m + 1 /\ b = m + n
  OBVIOUS
<1>2. \A i \in a .. b : s[i] \in S
  BY <1>1
<1>3. /\ SubSeq(s, a, b) \in Seq(S)
      /\ Len(SubSeq(s, a, b)) = IF a <= b THEN b - a + 1 ELSE 0
      /\ \A i \in 1 .. b - a + 1 : SubSeq(s, a, b)[i] = s[a + i - 1]
  BY <1>2, SubSeqProperties
<1>4. l \in Seq(S) /\ Len(l) = n /\ \A i \in 1 .. n : l[i] = s[m + i]
  <2>1. (IF a <= b THEN b - a + 1 ELSE 0) = n /\ b - a + 1 = n
    BY <1>1
  <2>2. \A i \in 1 .. n : a + i - 1 = m + i
    BY <1>1
  <2> QED BY <1>1, <1>3, <2>1, <2>2
<1> QED BY <1>4

\* Taking away and adding the same comes back to a byte.
LEMMA BackToByte ==
  ASSUME NEW c \in Byte, NEW e \in Int
  PROVE  (((c - e) % ByteSize) + e) % ByteSize = c
<1>1. PICK b \in Nat \ {0} : b = ByteSize
  BY ByteAssumption
<1>2. c \in 0 .. b - 1
  BY <1>1 DEF Byte
<1>3. PICK d \in Int : d = c - e
  BY <1>2
<1>4. PICK q \in Int, r \in Int : q = d \div b /\ r = (d % b) /\ r \in 0 .. b - 1 /\ d = b * q + r
  <2>1. (d % b) \in 0 .. b - 1 /\ (d % b) \in Int /\ d \div b \in Int /\ d = b * (d \div b) + (d % b)
    BY <1>1
  <2> QED BY <2>1
<1>5. PICK m \in Int : m = b * q
  BY <1>1, <1>4
<1>6. r + e = c - m
  BY <1>2, <1>3, <1>4, <1>5
<1>7. PICK x \in Int : x = r + e
  BY <1>4
<1>8. (x % b) \in 0 .. b - 1 /\ x \div b \in Int /\ x = b * (x \div b) + (x % b)
  BY <1>7, <1>1
<1>9. (x % b) = c
  <2>1. PICK t \in Int, u \in Int : t = x \div b /\ u = (x % b)
    BY <1>8
  <2>2. u \in 0 .. b - 1 /\ x = b * t + u /\ x = c - b * q
    BY <1>5, <1>6, <1>7, <1>8, <2>1
  <2>3. PICK w \in Int : w = t + q
    OBVIOUS
  <2>4. b * w = c - u
    BY <2>2, <2>3, <1>2
  <2>5. c - u < b /\ 0 - b < c - u
    BY <1>2, <2>2
  <2>6. w = 0
    BY <2>4, <2>5
  <2>7. b * w = 0
    BY <2>6
  <2> QED BY <2>1, <2>2, <2>4, <2>7, <1>2
<1> QED BY <1>1, <1>3, <1>4, <1>7, <1>9

\* What the loops of png_unfilter predict at i of a line o, from the line and the one above.
PredictedAt(f, k, o, prev, i) ==
  Predicted(f, IF i > k THEN o[i - k] ELSE 0, ByteAt(prev, i), ByteAt(prev, i - k))

\* The loop of png_unfilter undoes a filter that takes away what the loop predicts.
LEMMA UnfilterInverts ==
  ASSUME NEW n \in Nat, NEW k \in Nat \ {0}, NEW f \in Filters, NEW line, NEW prev,
         NEW goal \in [1 .. n -> Byte], DOMAIN line = 1 .. n,
         \A i \in 1 .. n : /\ PredictedAt(f, k, goal, prev, i) \in Int
                           /\ line[i] = (goal[i] - PredictedAt(f, k, goal, prev, i)) % ByteSize
  PROVE  Unfiltered(f, k, line, prev) = goal
<1> DEFINE Is(o) == o = [i \in DOMAIN line |->
                          (line[i] + Predicted(f, IF i > k THEN o[i - k] ELSE 0, ByteAt(prev, i),
                                               ByteAt(prev, i - k))) % ByteSize]
           out == CHOOSE o : Is(o)
<1>1. \A i \in 1 .. n : (line[i] + PredictedAt(f, k, goal, prev, i)) % ByteSize = goal[i]
  <2>1. TAKE i \in 1 .. n
  <2>2. PICK e \in Int, c \in Byte : e = PredictedAt(f, k, goal, prev, i) /\ c = goal[i]
    OBVIOUS
  <2>3. line[i] = (c - e) % ByteSize
    BY <2>2
  <2>4. (((c - e) % ByteSize) + e) % ByteSize = c
    BY BackToByte
  <2> QED BY <2>2, <2>3, <2>4
<1>2. Is(goal)
  <2>1. \A i \in DOMAIN line :
          goal[i] = (line[i] + Predicted(f, IF i > k THEN goal[i - k] ELSE 0, ByteAt(prev, i),
                                         ByteAt(prev, i - k))) % ByteSize
    BY <1>1, Zenon DEF PredictedAt
  <2>2. goal = [i \in DOMAIN line |-> goal[i]]
    OBVIOUS
  <2> QED BY <2>1, <2>2, Zenon
<1>3. Is(out)
  BY <1>2, Zenon
<1>4. Unfiltered(f, k, line, prev) = [i \in DOMAIN line |-> out[i]]
  BY Zenon DEF Unfiltered
<1>5. \A i \in 1 .. n : out[i] = (line[i] + PredictedAt(f, k, out, prev, i)) % ByteSize
  <2> HIDE DEF out
  <2>1. \A i \in DOMAIN line :
          out[i] = (line[i] + Predicted(f, IF i > k THEN out[i - k] ELSE 0, ByteAt(prev, i),
                                         ByteAt(prev, i - k))) % ByteSize
    BY <1>3, Zenon
  <2> QED BY <2>1, Zenon DEF PredictedAt
<1> HIDE DEF out, Is
<1>6. \A i \in 1 .. n : out[i] = goal[i]
  <2> DEFINE Bad == {i \in 1 .. n : out[i] # goal[i]}
  <2>1. SUFFICES ASSUME Bad # {} PROVE FALSE
    OBVIOUS
  <2>2. PICK i \in Bad : \A j \in Bad : i <= j
    <3>1. Bad \subseteq Nat
      OBVIOUS
    <3> HIDE DEF Bad
    <3> QED BY <2>1, <3>1, LeastNumber
  <2>3. i \in 1 .. n /\ out[i] # goal[i]
    OBVIOUS
  <2>4. i > k => out[i - k] = goal[i - k]
    <3>1. SUFFICES ASSUME i > k PROVE out[i - k] = goal[i - k]
      OBVIOUS
    <3>2. i - k \in 1 .. n /\ i - k < i /\ i \in Int /\ i - k \in Int
      BY <2>3, <3>1
    <3>3. i - k \notin Bad
      <4> HIDE DEF Bad
      <4> QED BY <2>2, <3>2
    <3> QED BY <3>2, <3>3
  <2>5. PredictedAt(f, k, out, prev, i) = PredictedAt(f, k, goal, prev, i)
    <3>1. (IF i > k THEN out[i - k] ELSE 0) = (IF i > k THEN goal[i - k] ELSE 0)
      BY <2>4
    <3> QED BY <3>1, Zenon DEF PredictedAt
  <2> QED BY <1>1, <1>5, <2>3, <2>5
<1>7. [i \in DOMAIN line |-> out[i]] = goal
  <2>1. goal = [i \in DOMAIN line |-> goal[i]]
    OBVIOUS
  <2>2. \A i \in DOMAIN line : out[i] = goal[i]
    BY <1>6
  <2> QED BY <2>1, <2>2, Zenon
<1> QED BY <1>4, <1>7

\* png_paeth, which compares distances one after the other, takes the neighbour that
\* the format takes, which is the first of the nearest ones.
LEMMA PaethNearest ==
  ASSUME NEW a \in Int, NEW b \in Int, NEW c \in Int
  PROVE  LET Off(x) == LET d == a + b - c - x IN IF d < 0 THEN -d ELSE d
             nearest == {x \in {a, b, c} : \A other \in {a, b, c} : Off(x) <= Off(other)}
         IN  Paeth(a, b, c) = IF a \in nearest THEN a ELSE IF b \in nearest THEN b ELSE c
<1> DEFINE Off(x) == LET d == a + b - c - x IN IF d < 0 THEN -d ELSE d
           nearest == {x \in {a, b, c} : \A other \in {a, b, c} : Off(x) <= Off(other)}
           Distance(x) == IF a + b - c < x THEN x - (a + b - c) ELSE (a + b - c) - x
<1>1. \A x \in Int : Off(x) = Distance(x) /\ Off(x) \in Int
  OBVIOUS
<1>2. a \in nearest <=> Distance(a) <= Distance(b) /\ Distance(a) <= Distance(c)
  BY <1>1
<1>3. b \in nearest <=> Distance(b) <= Distance(a) /\ Distance(b) <= Distance(c)
  BY <1>1
<1>4. Paeth(a, b, c) = IF Distance(a) <= Distance(b) /\ Distance(a) <= Distance(c) THEN a
                       ELSE IF Distance(b) <= Distance(c) THEN b ELSE c
  BY DEF Paeth
<1>5. ASSUME ~(Distance(a) <= Distance(b) /\ Distance(a) <= Distance(c)), Distance(b) <= Distance(c)
      PROVE  Distance(b) <= Distance(a)
  BY <1>5
<1> HIDE DEF nearest, Distance
<1>6. Paeth(a, b, c) = IF a \in nearest THEN a ELSE IF b \in nearest THEN b ELSE c
  BY <1>2, <1>3, <1>4, <1>5, Zenon
<1> QED BY <1>6 DEF nearest

\* The bytes of a pixel, which is how far png_unfilter and the format look to the left
Stride(p) == Format!Channels(p.colour) * (p.depth \div 8)

\* Where a byte of a line in the file is in memory: bytes of 16-bit samples change places.
Place(depth, i) == IF depth = 16 THEN IF i % 2 = 1 THEN i + 1 ELSE i - 1 ELSE i
InMemory(p, y) ==
  IF y = 0 THEN <<>> ELSE [i \in 1 .. Format!LineBytes(p) |-> Format!Line(p, y)[Place(p.depth, i)]]

\* With two bytes to a sample, lines and pixels have an even number of them.
Paired(depth, n, k) == depth = 16 => \E g, h \in Nat : n = 2 * g /\ k = 2 * h

\* What the format has to the left, above, and above to the left
LeftOf(p, y, i) == IF i > Stride(p) THEN Format!Line(p, y)[i - Stride(p)] ELSE 0
AboveOf(p, y, i) == IF y > 1 THEN Format!Line(p, y - 1)[i] ELSE 0
AboveLeftOf(p, y, i) == IF y > 1 /\ i > Stride(p) THEN Format!Line(p, y - 1)[i - Stride(p)] ELSE 0

\* pnglite's sizes are the picture's; with two bytes to a sample they are even.
LEMMA PictureSizes ==
  ASSUME NEW p, Pictured(p)
  PROVE  /\ Stride(p) \in Nat \ {0} /\ Format!LineBytes(p) \in Nat
         /\ GetBpp(Format!HeaderOf(p)) = Stride(p)
         /\ Paired(p.depth, Format!LineBytes(p), Stride(p))
<1>1. 8 \div 8 = 1 /\ 16 \div 8 = 2
  OBVIOUS
<1>2. PICK ch \in {3, 4} : ch = Format!Channels(p.colour)
  BY DEF Pictured, Format!Channels
<1>3. PICK w \in Nat : w = p.width
  BY DEF Pictured
<1>4. PICK d \in {1, 2} : d = p.depth \div 8 /\ (p.depth = 16 => d = 2)
  BY <1>1 DEF Pictured
<1>5. Stride(p) = ch * d /\ Format!LineBytes(p) = (w * ch) * d
  BY <1>2, <1>3, <1>4 DEF Stride, Format!LineBytes
<1>6. w * ch \in Nat
  OBVIOUS
<1>7. GetBpp(Format!HeaderOf(p)) = ch * d
  <2>1. /\ Format!HeaderOf(p).depth = p.depth /\ Format!HeaderOf(p).colour = p.colour
    BY DEF Format!HeaderOf
  <2>2. CASE p.colour = "rgb"
    <3>1. ch = 3
      BY <1>2, <2>2 DEF Format!Channels
    <3>2. GetBpp(Format!HeaderOf(p)) = 3 * (p.depth \div 8)
      BY <2>1, <2>2 DEF GetBpp
    <3> QED BY <1>4, <3>1, <3>2
  <2>3. CASE p.colour = "rgba"
    <3>1. ch = 4
      BY <1>2, <2>3 DEF Format!Channels
    <3>2. GetBpp(Format!HeaderOf(p)) = 4 * (p.depth \div 8)
      BY <2>1, <2>3 DEF GetBpp
    <3> QED BY <1>4, <3>1, <3>2
  <2> QED BY <2>2, <2>3 DEF Pictured
<1>8. (w * ch) * d \in Nat /\ ch * d \in Nat \ {0}
  BY <1>6
<1>9. p.depth = 16 => \E h, k \in Nat : (w * ch) * d = 2 * h /\ ch * d = 2 * k
  <2>1. SUFFICES ASSUME p.depth = 16 PROVE (w * ch) * d = 2 * (w * ch) /\ ch * d = 2 * ch /\ ch \in Nat
    BY <1>6
  <2>2. d = 2
    BY <1>4, <2>1
  <2> QED BY <1>6, <2>2
<1> QED BY <1>5, <1>7, <1>8, <1>9 DEF Paired

\* Bytes change places within their sample, and so with those of the pixel before.
LEMMA PlaceKeeps ==
  ASSUME NEW d \in {8, 16}, NEW n \in Nat, NEW k \in Nat \ {0}, NEW i \in 1 .. n,
         Paired(d, n, k)
  PROVE  /\ Place(d, i) \in 1 .. n /\ (Place(d, i) > k <=> i > k)
         /\ i > k => i - k \in 1 .. n /\ Place(d, i) - k = Place(d, i - k)
<1>1. CASE d = 8
  BY <1>1 DEF Place
<1>2. CASE d = 16
  <2>1. PICK g \in Nat : \E h \in Nat : n = 2 * g /\ k = 2 * h
    BY <1>2 DEF Paired
  <2>2. PICK h \in Nat : n = 2 * g /\ k = 2 * h
    BY <2>1
  <2>3. PICK a \in Int, b \in {0, 1} : i = 2 * a + b /\ b = (i % 2)
    <3>1. i = 2 * (i \div 2) + (i % 2) /\ (i % 2) \in {0, 1} /\ i \div 2 \in Int
      OBVIOUS
    <3> QED BY <3>1
  <2>4. Place(d, i) = IF b = 1 THEN i + 1 ELSE i - 1
    BY <1>2, <2>3 DEF Place
  <2>5. Place(d, i) \in 1 .. n
    BY <2>2, <2>3, <2>4
  <2>6. Place(d, i) > k <=> i > k
    BY <2>2, <2>3, <2>4
  <2>7. ASSUME i > k PROVE i - k \in 1 .. n /\ Place(d, i) - k = Place(d, i - k)
    <3>1. i - k \in 1 .. n /\ i - k = 2 * (a - h) + b
      BY <2>2, <2>3, <2>7
    <3>2. PICK j \in Int : j = i - k
      BY <3>1
    <3>3. (j % 2) = b
      <4>1. j = 2 * (j \div 2) + (j % 2) /\ (j % 2) \in {0, 1} /\ j \div 2 \in Int
        OBVIOUS
      <4>2. PICK x \in Int, y \in {0, 1} : x = j \div 2 /\ y = (j % 2)
        BY <4>1
      <4> QED BY <3>1, <3>2, <4>1, <4>2
    <3>4. Place(d, j) = IF b = 1 THEN j + 1 ELSE j - 1
      BY <1>2, <3>2, <3>3 DEF Place
    <3>5. Place(d, i) - k = Place(d, j)
      <4>1. CASE b = 1
        BY <2>2, <2>4, <3>2, <3>4, <4>1
      <4>2. CASE b = 0
        BY <2>2, <2>4, <3>2, <3>4, <4>2
      <4> QED BY <4>1, <4>2
    <3> QED BY <3>1, <3>2, <3>5
  <2> QED BY <2>5, <2>6, <2>7
<1> QED BY <1>1, <1>2

\* Each line of a picture is so many bytes, behind those of the lines above.
LEMMA LineType ==
  ASSUME NEW p, Pictured(p), NEW y \in 1 .. p.height
  PROVE  /\ Format!Line(p, y) \in [1 .. Format!LineBytes(p) -> Byte]
         /\ Format!Line(p, y) \in Seq(Byte) /\ Len(Format!Line(p, y)) = Format!LineBytes(p)
         /\ \A i \in 1 .. Format!LineBytes(p) :
              Format!Line(p, y)[i] = p.bytes[(y - 1) * Format!LineBytes(p) + i]
<1>1. PICK n \in Nat, h \in Nat : n = Format!LineBytes(p) /\ h = p.height
  BY PictureSizes DEF Pictured
<1>2. p.bytes \in [1 .. n * h -> Byte] /\ n * h \in Nat /\ y \in 1 .. h
  BY <1>1 DEF Pictured
<1>4. PICK s \in Nat : s = (y - 1) * n /\ y * n = s + n /\ s + n <= n * h
  <2>1. (y - 1) * n \in Nat /\ y * n \in Nat /\ y * n = (y - 1) * n + n
    BY <1>2
  <2>2. n * y <= n * h
    BY <1>2, TimesKeeps
  <2>3. n * y = y * n
    BY <1>2
  <2> QED BY <2>1, <2>2, <2>3
<1>5. Format!Line(p, y) = SubSeq(p.bytes, s + 1, s + n)
  BY <1>1, <1>4 DEF Format!Line
<1>6. \A i \in s + 1 .. s + n : p.bytes[i] \in Byte
  BY <1>2, <1>4
<1> DEFINE l == SubSeq(p.bytes, s + 1, s + n)
<1>7. l \in [1 .. n -> Byte] /\ l \in Seq(Byte) /\ Len(l) = n /\ \A i \in 1 .. n : l[i] = p.bytes[s + i]
  <2>1. PICK bytes : bytes = p.bytes
    OBVIOUS
  <2>2. \A i \in s + 1 .. s + n : bytes[i] \in Byte
    BY <1>6, <2>1
  <2> DEFINE k == SubSeq(bytes, s + 1, s + n)
  <2>3. k \in Seq(Byte) /\ Len(k) = n /\ \A i \in 1 .. n : k[i] = bytes[s + i]
    BY <2>2, Piece
  <2>4. k = l
    BY <2>1
  <2> HIDE DEF k, l
  <2>5. k \in [1 .. n -> Byte]
    BY <2>3
  <2> QED BY <2>1, <2>3, <2>4, <2>5
<1> HIDE DEF l
<1> QED BY <1>1, <1>4, <1>5, <1>7 DEF l

\* What the format's filters expect is what pnglite's predict.
LEMMA ExpectedIs ==
  ASSUME NEW p, Pictured(p), NEW y \in 1 .. p.height, NEW f \in Filters,
         NEW i \in 1 .. Format!LineBytes(p)
  PROVE  /\ Format!Expected(f, p, y, i) = Predicted(f, LeftOf(p, y, i), AboveOf(p, y, i), AboveLeftOf(p, y, i))
         /\ Format!Expected(f, p, y, i) \in Int
<1> DEFINE a == IF i > Stride(p) THEN Format!Line(p, y)[i - Stride(p)] ELSE 0
           b == IF y > 1 THEN Format!Line(p, y - 1)[i] ELSE 0
           c == IF y > 1 /\ i > Stride(p) THEN Format!Line(p, y - 1)[i - Stride(p)] ELSE 0
           stride == Format!Channels(p.colour) * (p.depth \div 8)
           Original(row, j) == IF row >= 1 /\ j >= 1 THEN Format!Line(p, row)[j] ELSE 0
           aa == Original(y, i - stride)
           bb == Original(y - 1, i)
           cc == Original(y - 1, i - stride)
           Off(x) == LET d == aa + bb - cc - x IN IF d < 0 THEN -d ELSE d
           nearest == {x \in {aa, bb, cc} : \A other \in {aa, bb, cc} : Off(x) <= Off(other)}
<1>1. PICK s \in Nat \ {0}, n \in Nat, h \in Nat :
        s = Stride(p) /\ n = Format!LineBytes(p) /\ h = p.height /\ stride = s
  BY PictureSizes DEF Pictured, Stride
<1>2. aa = a /\ bb = b /\ cc = c
  <2>1. (i - s >= 1 <=> i > s) /\ (y - 1 >= 1 <=> y > 1) /\ i >= 1 /\ y >= 1
    BY <1>1
  <2>2. stride = s /\ Stride(p) = s
    BY <1>1
  <2> HIDE DEF stride
  <2>3. aa = a
    BY <2>1, <2>2
  <2>4. bb = b
    BY <2>1, <2>2
  <2>5. cc = c
    BY <2>1, <2>2
  <2> QED BY <2>3, <2>4, <2>5
<1>3. \A x \in Byte : x \in Int
  BY ByteAssumption DEF Byte
<1>4. Format!Line(p, y) \in [1 .. n -> Byte] /\ i \in 1 .. n
  BY <1>1, LineType
<1>5. a \in Int
  <2>1. CASE i > s
    <3>1. i - s \in 1 .. n
      BY <1>1, <2>1
    <3>2. Format!Line(p, y)[i - s] \in Byte
      BY <1>4, <3>1
    <3> QED BY <1>1, <1>3, <3>2
  <2>2. CASE ~(i > s)
    BY <1>1, <2>2
  <2> QED BY <2>1, <2>2
<1>6. b \in Int /\ c \in Int
  <2>1. CASE y > 1
    <3>1. y - 1 \in 1 .. p.height
      BY <1>1, <2>1
    <3>2. Format!Line(p, y - 1) \in [1 .. n -> Byte]
      BY <1>1, <3>1, LineType
    <3>3. Format!Line(p, y - 1)[i] \in Byte
      BY <1>4, <3>2
    <3>4. i > s => i - s \in 1 .. n
      BY <1>1
    <3>5. i > s => Format!Line(p, y - 1)[i - s] \in Byte
      BY <3>2, <3>4
    <3> QED BY <1>1, <1>3, <3>3, <3>5
  <2>2. CASE ~(y > 1)
    BY <2>2
  <2> QED BY <2>1, <2>2
<1>7. Format!Expected(f, p, y, i) =
        CASE f = 0 -> 0 [] f = 1 -> aa [] f = 2 -> bb [] f = 3 -> (aa + bb) \div 2
          [] f = 4 -> IF aa \in nearest THEN aa ELSE IF bb \in nearest THEN bb ELSE cc
  BY Zenon DEF Format!Expected
<1> HIDE DEF a, b, c, aa, bb, cc
<1>8. Paeth(aa, bb, cc) = IF aa \in nearest THEN aa ELSE IF bb \in nearest THEN bb ELSE cc
  BY <1>2, <1>5, <1>6, PaethNearest
<1> HIDE DEF nearest
<1>9. Format!Expected(f, p, y, i) = Predicted(f, aa, bb, cc)
  BY <1>7, <1>8, Zenon DEF Predicted
<1>10. Predicted(f, a, b, c) \in Int
  <2>1. Paeth(a, b, c) \in {a, b, c}
    BY DEF Paeth
  <2>2. (a + b) \div 2 \in Int
    BY <1>5, <1>6
  <2>3. f \in {0, 1, 2, 3, 4}
    BY DEF Filters
  <2> QED BY <1>5, <1>6, <2>1, <2>2, <2>3 DEF Predicted
<1>11. a = LeftOf(p, y, i) /\ b = AboveOf(p, y, i) /\ c = AboveLeftOf(p, y, i)
  BY DEF a, b, c, LeftOf, AboveOf, AboveLeftOf
<1> QED BY <1>2, <1>9, <1>10, <1>11

\* A line in memory has the bytes of the picture's line, in the machine's order.
LEMMA MemoryLine ==
  ASSUME NEW p, Pictured(p), NEW y \in 1 .. p.height
  PROVE  /\ InMemory(p, y) \in [1 .. Format!LineBytes(p) -> Byte]
         /\ \A i \in 1 .. Format!LineBytes(p) :
              /\ Place(p.depth, i) \in 1 .. Format!LineBytes(p)
              /\ InMemory(p, y)[i] = Format!Line(p, y)[Place(p.depth, i)]
<1>1. PICK n \in Nat, k \in Nat \ {0}, d \in {8, 16} :
        /\ n = Format!LineBytes(p) /\ k = Stride(p) /\ d = p.depth
        /\ Paired(d, n, k)
  BY PictureSizes DEF Pictured
<1>2. \A i \in 1 .. n : Place(d, i) \in 1 .. n
  BY <1>1, PlaceKeeps
<1>3. y # 0
  BY DEF Pictured
<1>4. InMemory(p, y) = [i \in 1 .. n |-> Format!Line(p, y)[Place(d, i)]]
  BY <1>1, <1>3 DEF InMemory
<1>5. Format!Line(p, y) \in [1 .. n -> Byte]
  BY <1>1, LineType
<1> QED BY <1>1, <1>2, <1>4, <1>5

\* A line of the filtered picture is turned back, whatever its filter, if the line above
\* has been (pnglite.c:610-768).
LEMMA LineRestored ==
  ASSUME NEW p, Pictured(p), NEW y \in 1 .. p.height, NEW f \in Filters,
         NEW line, line \in Seq(Byte), Len(line) = Format!LineBytes(p),
         \A i \in 1 .. Format!LineBytes(p) :
           line[i] = (Format!Line(p, y)[i] - Format!Expected(f, p, y, i)) % ByteSize
  PROVE  UnfilterLine(f, GetBpp(Format!HeaderOf(p)), p.depth, line, InMemory(p, y - 1)) = InMemory(p, y)
<1>1. PICK n \in Nat, k \in Nat \ {0}, d \in {8, 16}, h \in Nat :
        /\ n = Format!LineBytes(p) /\ k = Stride(p) /\ d = p.depth /\ h = p.height
        /\ k = GetBpp(Format!HeaderOf(p))
        /\ Paired(d, n, k)
  BY PictureSizes DEF Pictured
<1> DEFINE prev == InMemory(p, y - 1)
           goal == InMemory(p, y)
           in == IF d = 16 THEN Swapped(line) ELSE line
<1>2. goal \in [1 .. n -> Byte]
  BY <1>1, MemoryLine
<1>3. \A i \in 1 .. n : Place(d, i) \in 1 .. n /\ goal[i] = Format!Line(p, y)[Place(d, i)]
  BY <1>1, MemoryLine
<1>4. DOMAIN in = 1 .. n /\ \A i \in 1 .. n : in[i] = line[Place(d, i)]
  <2>1. CASE d = 16
    <3>1. in = [i \in 1 .. n |-> IF i % 2 = 1 THEN line[i + 1] ELSE line[i - 1]]
      BY <1>1, <2>1 DEF Swapped
    <3>2. \A i \in 1 .. n : (IF i % 2 = 1 THEN line[i + 1] ELSE line[i - 1]) = line[Place(d, i)]
      BY <2>1, Zenon DEF Place
    <3> HIDE DEF in
    <3> QED BY <3>1, <3>2
  <2>2. CASE d = 8
    <3>1. in = line /\ line \in [1 .. n -> Byte]
      BY <1>1, <2>2
    <3>2. \A i \in 1 .. n : Place(d, i) = i
      BY <2>2 DEF Place
    <3> HIDE DEF in
    <3> QED BY <3>1, <3>2
  <2> QED BY <2>1, <2>2
<1>5. /\ \A i \in 1 .. n : ByteAt(prev, i) = IF y > 1 THEN Format!Line(p, y - 1)[Place(d, i)] ELSE 0
      /\ \A i \in Int : i < 1 => ByteAt(prev, i) = 0
  <2>1. CASE y = 1
    <3>1. prev = <<>>
      BY <2>1 DEF InMemory
    <3> HIDE DEF prev
    <3> QED BY <2>1, <3>1 DEF ByteAt
  <2>2. CASE y > 1
    <3>1. y - 1 \in 1 .. p.height
      BY <1>1, <2>2
    <3>2. prev \in [1 .. n -> Byte] /\ \A i \in 1 .. n : prev[i] = Format!Line(p, y - 1)[Place(d, i)]
      BY <1>1, <3>1, MemoryLine
    <3> HIDE DEF prev
    <3> QED BY <2>2, <3>2 DEF ByteAt
  <2> QED BY <1>1, <2>1, <2>2
<1> HIDE DEF goal, in, prev
<1>6. ASSUME NEW i \in 1 .. n
      PROVE  /\ PredictedAt(f, k, goal, prev, i) \in Int
             /\ in[i] = (goal[i] - PredictedAt(f, k, goal, prev, i)) % ByteSize
  <2>1. PICK q \in 1 .. n : /\ q = Place(d, i) /\ (q > k <=> i > k)
                            /\ i > k => i - k \in 1 .. n /\ q - k = Place(d, i - k)
    <3>1. /\ Place(d, i) \in 1 .. n /\ (Place(d, i) > k <=> i > k)
          /\ i > k => i - k \in 1 .. n /\ Place(d, i) - k = Place(d, i - k)
      <4>1. Paired(d, n, k)
        BY <1>1
      <4> QED BY <4>1, PlaceKeeps
    <3> QED BY <3>1
  <2> DEFINE a == LeftOf(p, y, q)
             b == AboveOf(p, y, q)
             c == AboveLeftOf(p, y, q)
  <2>2. Format!Expected(f, p, y, q) = Predicted(f, a, b, c) /\ Predicted(f, a, b, c) \in Int
    BY <1>1, ExpectedIs
  <2>3. a = IF i > k THEN goal[i - k] ELSE 0
    BY <1>1, <1>3, <2>1 DEF LeftOf
  <2>4. b = ByteAt(prev, i)
    BY <1>5, <2>1 DEF AboveOf
  <2>5. c = ByteAt(prev, i - k)
    BY <1>1, <1>5, <2>1 DEF AboveLeftOf
  <2> HIDE DEF a, b, c
  <2>6. PredictedAt(f, k, goal, prev, i) = Predicted(f, a, b, c)
    BY <2>3, <2>4, <2>5, Zenon DEF PredictedAt
  <2>7. in[i] = line[q] /\ goal[i] = Format!Line(p, y)[q]
    BY <1>3, <1>4, <2>1
  <2>8. line[q] = (Format!Line(p, y)[q] - Format!Expected(f, p, y, q)) % ByteSize
    BY <1>1
  <2> QED BY <2>2, <2>6, <2>7, <2>8
<1>7. Unfiltered(f, k, in, prev) = goal
  BY <1>2, <1>4, <1>6, UnfilterInverts
<1> QED BY <1>1, <1>7 DEF UnfilterLine, goal, in, prev

\* Bytes that replace as many others in a sequence
Spliced(s, t, m, n) == SubSeq(s, 1, m) \o t \o SubSeq(s, m + n + 1, Len(s))

\* leave the others as they are.
LEMMA Splice ==
  ASSUME NEW S, NEW s \in Seq(S), NEW t \in Seq(S), NEW m \in Nat, NEW n \in Nat,
         Len(t) = n, m + n <= Len(s)
  PROVE  /\ Spliced(s, t, m, n) \in Seq(S) /\ Len(Spliced(s, t, m, n)) = Len(s)
         /\ \A i \in 1 .. m : Spliced(s, t, m, n)[i] = s[i]
         /\ \A i \in 1 .. n : Spliced(s, t, m, n)[m + i] = t[i]
<1>1. PICK r \in Nat : Len(s) = m + n + r
  <2>1. Len(s) - (m + n) \in Nat /\ Len(s) = m + n + (Len(s) - (m + n))
    OBVIOUS
  <2> QED BY <2>1
<1> DEFINE a == SubSeq(s, 1, m)
           c == SubSeq(s, m + n + 1, Len(s))
<1>2. a \in Seq(S) /\ Len(a) = m /\ \A i \in 1 .. m : a[i] = s[i]
  <2>1. \A i \in 1 .. m : s[i] \in S
    BY <1>1
  <2>2. SubSeq(s, 0 + 1, 0 + m) \in Seq(S) /\ Len(SubSeq(s, 0 + 1, 0 + m)) = m
        /\ \A i \in 1 .. m : SubSeq(s, 0 + 1, 0 + m)[i] = s[0 + i]
    BY <2>1, Piece
  <2> QED BY <2>2
<1>3. c \in Seq(S) /\ Len(c) = r
  <2>1. PICK q \in Nat : q = m + n
    OBVIOUS
  <2>2. \A i \in q + 1 .. q + r : s[i] \in S
    BY <1>1, <2>1
  <2>3. SubSeq(s, q + 1, q + r) \in Seq(S) /\ Len(SubSeq(s, q + 1, q + r)) = r
    BY <2>2, Piece
  <2> QED BY <1>1, <2>1, <2>3
<1> HIDE DEF a, c
<1>4. a \o t \in Seq(S) /\ Len(a \o t) = m + n /\ (\A i \in 1 .. m : (a \o t)[i] = s[i])
      /\ \A i \in 1 .. n : (a \o t)[m + i] = t[i]
  <2>1. a \o t \in Seq(S) /\ Len(a \o t) = m + n
    BY <1>2, ConcatProperties
  <2>2. \A i \in 1 .. m + n : (a \o t)[i] = IF i <= m THEN a[i] ELSE t[i - m]
    BY <1>2, ConcatProperties
  <2>3. \A i \in 1 .. n : m + i \in 1 .. m + n /\ ~(m + i <= m) /\ m + i - m = i
    OBVIOUS
  <2> QED BY <1>2, <2>1, <2>2, <2>3
<1> DEFINE b == a \o t
<1>5. b \o c \in Seq(S) /\ Len(b \o c) = m + n + r
      /\ \A i \in 1 .. m + n : (b \o c)[i] = b[i]
  <2>1. PICK x \in Seq(S), y \in Seq(S) : x = b /\ y = c
    BY <1>3, <1>4
  <2>2. Len(x) = m + n /\ Len(y) = r
    BY <1>3, <1>4, <2>1
  <2>3. /\ x \o y \in Seq(S) /\ Len(x \o y) = Len(x) + Len(y)
        /\ \A i \in 1 .. Len(x) + Len(y) : (x \o y)[i] = IF i <= Len(x) THEN x[i] ELSE y[i - Len(x)]
    BY ConcatProperties
  <2>4. \A i \in 1 .. m + n : i \in 1 .. m + n + r /\ i <= m + n
    OBVIOUS
  <2> HIDE DEF b
  <2> QED BY <2>1, <2>2, <2>3, <2>4
<1>6. \A i \in 1 .. n : m + i \in 1 .. m + n
  OBVIOUS
<1>7. /\ b \o c \in Seq(S) /\ Len(b \o c) = Len(s)
      /\ \A i \in 1 .. m : (b \o c)[i] = s[i]
      /\ \A i \in 1 .. n : (b \o c)[m + i] = t[i]
  <2>1. \A i \in 1 .. m : (b \o c)[i] = s[i]
    BY <1>4, <1>5
  <2>2. \A i \in 1 .. n : (b \o c)[m + i] = t[i]
    BY <1>4, <1>5, <1>6
  <2> QED BY <1>1, <1>5, <2>1, <2>2
<1>8. Spliced(s, t, m, n) = b \o c
  BY Zenon DEF Spliced, a, c
<1> HIDE DEF b
<1> QED BY <1>7, <1>8, Zenon

\* The header of a picture is one whose sizes fit.
LEMMA HeaderFits ==
  ASSUME NEW p, Pictured(p)
  PROVE  Format!HeaderOf(p) \in HeaderSet
<1> DEFINE h == Format!HeaderOf(p)
<1>1. /\ h = [width |-> p.width, height |-> p.height, depth |-> p.depth, colour |-> p.colour,
             interlaced |-> FALSE]
      /\ h.width = p.width /\ h.height = p.height /\ h.depth = p.depth /\ h.colour = p.colour
  BY DEF Format!HeaderOf
<1>2. p.width \in Nat /\ p.height \in Nat /\ p.depth \in Nat /\ p.colour \in Colours
  BY DEF Pictured, Colours
<1> HIDE DEF h
<1>3. GetBpp(h) = GetBpp(p)
  BY <1>1 DEF GetBpp
<1>4. SizesFit(h)
  BY <1>1, <1>3 DEF SizesFit, Pictured
<1>5. h \in HeaderSet
  BY <1>1, <1>2, <1>4 DEF HeaderSet
<1> QED BY <1>5 DEF h

\* The header of a picture gives the sizes of its lines and of its data.
LEMMA HeaderSizes ==
  ASSUME NEW p, Pictured(p)
  PROVE  /\ LineLength(Format!HeaderOf(p)) = Format!LineBytes(p)
         /\ Format!HeaderOf(p).height = p.height /\ Format!HeaderOf(p).depth = p.depth
         /\ DataLength(Format!HeaderOf(p)) = Format!LineBytes(p) * p.height + p.height
<1>1. /\ Format!HeaderOf(p).height = p.height /\ Format!HeaderOf(p).depth = p.depth
      /\ Format!HeaderOf(p).width = p.width
  BY DEF Format!HeaderOf
<1>2. PICK w \in Nat, ch \in Nat, d \in Nat :
        w = p.width /\ ch = Format!Channels(p.colour) /\ d = p.depth \div 8
  <2>1. Format!Channels(p.colour) \in Nat
    BY DEF Format!Channels
  <2>2. p.depth \div 8 \in Nat /\ p.width \in Nat
    BY DEF Pictured
  <2> QED BY <2>1, <2>2
<1>3. GetBpp(Format!HeaderOf(p)) = ch * d
  BY <1>2, PictureSizes DEF Stride
<1>4. LineLength(Format!HeaderOf(p)) = w * (ch * d)
  BY <1>1, <1>2, <1>3, HeaderFits, Sizes
<1>5. Format!LineBytes(p) = (w * ch) * d
  BY <1>2 DEF Format!LineBytes
<1>6. w * (ch * d) = (w * ch) * d
  BY <1>2
<1>7. LineLength(Format!HeaderOf(p)) = Format!LineBytes(p)
  BY <1>4, <1>5, <1>6
<1> QED BY <1>1, <1>7, HeaderFits, Sizes

\* A filtered line is the filter's number and what is left of each byte.
LEMMA FilteredIs ==
  ASSUME NEW p, Pictured(p), NEW y \in 1 .. p.height, NEW f \in Filters
  PROVE  /\ Format!Filtered(p, y, f)[1] = f
         /\ \A i \in 1 .. Format!LineBytes(p) :
              /\ Format!Filtered(p, y, f)[i + 1]
                   = (Format!Line(p, y)[i] - Format!Expected(f, p, y, i)) % ByteSize
              /\ Format!Filtered(p, y, f)[i + 1] \in Byte
<1>1. PICK n \in Nat : n = Format!LineBytes(p)
  BY PictureSizes
<1> DEFINE Left(i) == (Format!Line(p, y)[i] - Format!Expected(f, p, y, i)) % ByteSize
           t == [i \in 1 .. n |-> Left(i)]
<1>2. \A i \in 1 .. n : Left(i) \in Byte
  <2>1. TAKE i \in 1 .. n
  <2>2. Format!Line(p, y)[i] \in Byte /\ Format!Expected(f, p, y, i) \in Int
    BY <1>1, LineType, ExpectedIs
  <2>3. PICK b \in Nat \ {0} : b = ByteSize
    BY ByteAssumption
  <2>4. PICK x \in Int : x = Format!Line(p, y)[i] - Format!Expected(f, p, y, i)
    BY <2>2, <2>3 DEF Byte
  <2>5. (x % b) \in 0 .. b - 1
    BY <2>3
  <2> QED BY <2>3, <2>4, <2>5 DEF Byte
<1>3. Byte \subseteq Int /\ f \in Int
  BY ByteAssumption DEF Byte, Filters
<1>4. t \in Seq(Int) /\ Len(t) = n /\ \A i \in 1 .. n : t[i] = Left(i)
  <2>1. \A i \in 1 .. n : Left(i) \in Int
    BY <1>2, <1>3
  <2> HIDE DEF Left
  <2>2. t \in [1 .. n -> Int] /\ \A i \in 1 .. n : t[i] = Left(i)
    BY <2>1
  <2> HIDE DEF t
  <2> QED BY <2>2
<1>5. <<f>> \in Seq(Int) /\ Len(<<f>>) = 1 /\ <<f>>[1] = f
  BY <1>3
<1> HIDE DEF t
<1> DEFINE s == <<f>>
<1> HIDE DEF s
<1>6. \A i \in 1 .. 1 + n : (s \o t)[i] = IF i <= 1 THEN s[i] ELSE t[i - 1]
  BY <1>4, <1>5, ConcatProperties DEF s
<1>7. Format!Filtered(p, y, f) = s \o t
  BY <1>1, Zenon DEF Format!Filtered, s, t
<1>8. (s \o t)[1] = f
  BY <1>5, <1>6 DEF s
<1>9. \A i \in 1 .. n : (s \o t)[i + 1] = Left(i)
  <2> HIDE DEF Left
  <2>1. TAKE i \in 1 .. n
  <2>2. PICK j \in 1 .. 1 + n : j = i + 1
    OBVIOUS
  <2>3. ~(j <= 1) /\ j - 1 = i
    BY <2>2
  <2>4. (s \o t)[j] = t[i]
    BY <1>6, <2>3
  <2>5. t[i] = Left(i)
    BY <1>4
  <2> QED BY <2>2, <2>4, <2>5
<1> QED BY <1>1, <1>2, <1>7, <1>8, <1>9

\* What pnglite has inflated stands for a picture, and so does the header.
Inflated(p) ==
  /\ Pictured(p) /\ hdr = Format!HeaderOf(p) /\ png_data # Null
  /\ \E filters : Encodes(png_data, p, filters)

\* The first m lines of a picture are in the caller's memory.
Restored(p, m) ==
  /\ data \in Seq(Byte) /\ Len(data) = Format!LineBytes(p) * p.height
  /\ m \in 0 .. p.height
  /\ \A y \in 1 .. m : \A i \in 1 .. Format!LineBytes(p) :
       data[(y - 1) * Format!LineBytes(p) + i] = InMemory(p, y)[i]

\* One more line (pnglite.c:715-768).
LEMMA OneMoreLine ==
  ASSUME NEW p, Inflated(p), Restored(p, pos), UnfilterLines
  PROVE  Restored(p, pos)'
<1>1. PICK n \in Nat, h \in Nat, m \in Nat :
        /\ n = Format!LineBytes(p) /\ h = p.height /\ m = pos /\ m < h
        /\ n = LineLength(hdr) /\ h = hdr.height /\ hdr.depth = p.depth
  <2>1. Pictured(p) /\ hdr = Format!HeaderOf(p) /\ png_data # Null
    BY DEF Inflated
  <2>2. pos < p.height /\ pos \in Nat /\ p.height \in Nat
    <3>1. Lines = p.height
      BY <2>1, HeaderSizes DEF Lines
    <3>2. pos < Lines
      BY DEF UnfilterLines
    <3>3. p.height \in Nat
      BY <2>1 DEF Pictured
    <3>4. pos \in Nat
      BY <3>3 DEF Restored
    <3> QED BY <3>1, <3>2, <3>3, <3>4
  <2> QED BY <2>1, <2>2, HeaderSizes, PictureSizes
<1>2. Pictured(p) /\ m + 1 \in 1 .. p.height
  BY <1>1 DEF Inflated
<1>3. PICK filters : Encodes(png_data, p, filters)
  BY DEF Inflated
<1> DEFINE f == filters[m + 1]
<1>4. f \in Filters
  BY <1>2, <1>3 DEF Encodes
<1>5. PICK o \in Nat, q \in Nat : o = m * (n + 1) /\ q = m * n
  <2>1. m * (n + 1) \in Nat /\ m * n \in Nat
    OBVIOUS
  <2> QED BY <2>1
<1>6. \A i \in 1 .. n + 1 : png_data[o + i] = Format!Filtered(p, m + 1, f)[i]
  <2>1. ((m + 1) - 1) * (n + 1) = o
    <3>1. (m + 1) - 1 = m
      OBVIOUS
    <3> QED BY <1>5, <3>1
  <2>2. \A i \in 1 .. n + 1 : png_data[((m + 1) - 1) * (n + 1) + i] = Format!Filtered(p, m + 1, f)[i]
    <3>1. \A y \in 1 .. p.height : \A i \in 1 .. Format!LineBytes(p) + 1 :
            png_data[(y - 1) * (Format!LineBytes(p) + 1) + i] = Format!Filtered(p, y, filters[y])[i]
      BY <1>3 DEF Encodes
    <3> QED BY <1>1, <1>2, <3>1
  <2> QED BY <2>1, <2>2
<1>7. Filter = f
  <2>1. Filter = png_data[o + 1]
    BY <1>1, <1>5 DEF Filter
  <2>2. Format!Filtered(p, m + 1, f)[1] = f
    BY <1>2, <1>4, FilteredIs
  <2>3. 1 \in 1 .. n + 1
    OBVIOUS
  <2> QED BY <1>6, <2>1, <2>2, <2>3
<1> HIDE DEF f
<1>8. PICK line : /\ line = SubSeq(png_data, (o + 1) + 1, (o + 1) + n)
                  /\ line \in Seq(Byte) /\ Len(line) = n
                  /\ \A i \in 1 .. n : line[i] = (Format!Line(p, m + 1)[i]
                                                    - Format!Expected(f, p, m + 1, i)) % ByteSize
  <2>1. \A i \in 1 .. n : png_data[(o + 1) + i] = Format!Filtered(p, m + 1, f)[i + 1]
    <3>1. \A i \in 1 .. n : i + 1 \in 1 .. n + 1 /\ o + (i + 1) = (o + 1) + i
      OBVIOUS
    <3> QED BY <1>6, <3>1
  <2>2. \A i \in 1 .. n : /\ Format!Filtered(p, m + 1, f)[i + 1] \in Byte
                          /\ Format!Filtered(p, m + 1, f)[i + 1]
                               = (Format!Line(p, m + 1)[i] - Format!Expected(f, p, m + 1, i)) % ByteSize
    <3>1. PICK y \in 1 .. p.height : y = m + 1
      BY <1>2
    <3>2. \A i \in 1 .. Format!LineBytes(p) :
            /\ Format!Filtered(p, y, f)[i + 1]
                 = (Format!Line(p, y)[i] - Format!Expected(f, p, y, i)) % ByteSize
            /\ Format!Filtered(p, y, f)[i + 1] \in Byte
      BY <1>2, <1>4, FilteredIs
    <3> QED BY <1>1, <3>1, <3>2
  <2>0. PICK e \in Nat : e = o + 1
    OBVIOUS
  <2>3. PICK bytes : e = o + 1 /\ bytes = png_data
    BY <2>0
  <2>4. \A i \in e + 1 .. e + n : bytes[i] \in Byte
    <3>1. TAKE i \in e + 1 .. e + n
    <3>2. i - e \in 1 .. n /\ e + (i - e) = i
      OBVIOUS
    <3> QED BY <2>1, <2>2, <2>3, <3>2
  <2> DEFINE l == SubSeq(bytes, e + 1, e + n)
  <2>5. l \in Seq(Byte) /\ Len(l) = n /\ \A i \in 1 .. n : l[i] = bytes[e + i]
    BY <2>4, Piece
  <2>6. l = SubSeq(png_data, (o + 1) + 1, (o + 1) + n)
    BY <2>3
  <2> HIDE DEF l
  <2>7. \A i \in 1 .. n : l[i] = (Format!Line(p, m + 1)[i] - Format!Expected(f, p, m + 1, i)) % ByteSize
    BY <2>1, <2>2, <2>3, <2>5
  <2> QED BY <2>5, <2>6, <2>7
<1>9. PICK prev : prev = (IF m = 0 THEN <<>> ELSE SubSeq(data, (m - 1) * (n + 0) + 0 + 1, (m - 1 + 1) * (n + 0)))
  OBVIOUS
<1>10. prev = InMemory(p, m)
  <2>1. CASE m = 0
    BY <1>9, <2>1 DEF InMemory
  <2>2. CASE m # 0
    <3>1. PICK r \in Nat : r = (m - 1) * n /\ r + n = q
      <4>1. (m - 1) * n \in Nat /\ (m - 1) * n + n = m * n
        BY <2>2
      <4> QED BY <1>5, <4>1
    <3>2. (m - 1) * (n + 0) + 0 + 1 = r + 1 /\ (m - 1 + 1) * (n + 0) = r + n
      <4>1. n + 0 = n /\ m - 1 + 1 = m
        OBVIOUS
      <4> QED BY <1>5, <3>1, <4>1
    <3>3. m \in 1 .. m /\ m \in 1 .. p.height
      BY <1>1, <2>2
    <3>4. InMemory(p, m) \in [1 .. n -> Byte]
      BY <1>1, <1>2, <3>3, MemoryLine
    <3>5. \A i \in 1 .. n : data[r + i] = InMemory(p, m)[i]
      BY <1>1, <3>1, <3>3 DEF Restored
    <3>6. PICK bytes : bytes = data
      OBVIOUS
    <3>7. \A i \in r + 1 .. r + n : bytes[i] \in Byte
      <4>1. TAKE i \in r + 1 .. r + n
      <4>2. i - r \in 1 .. n /\ r + (i - r) = i
        OBVIOUS
      <4> QED BY <3>4, <3>5, <3>6, <4>2
    <3> DEFINE l == SubSeq(bytes, r + 1, r + n)
    <3>8. l \in Seq(Byte) /\ Len(l) = n /\ \A i \in 1 .. n : l[i] = bytes[r + i]
      BY <3>7, Piece
    <3> HIDE DEF l
    <3>9. l = InMemory(p, m)
      <4>1. l \in [1 .. n -> Byte]
        BY <3>8
      <4> QED BY <3>4, <3>5, <3>6, <3>8, <4>1
    <3> QED BY <1>9, <2>2, <3>2, <3>6, <3>9 DEF l
  <2> QED BY <2>1, <2>2
<1>11. UnfilterLine(f, GetBpp(hdr), hdr.depth, line, prev) = InMemory(p, m + 1)
  <2>1. m + 1 - 1 = m
    OBVIOUS
  <2>2. hdr = Format!HeaderOf(p)
    BY DEF Inflated
  <2>3. PICK y \in 1 .. p.height : y = m + 1 /\ y - 1 = m
    BY <1>2, <2>1
  <2>4. \A i \in 1 .. Format!LineBytes(p) :
           line[i] = (Format!Line(p, y)[i] - Format!Expected(f, p, y, i)) % ByteSize
    BY <1>1, <1>8, <2>3
  <2>5. Len(line) = Format!LineBytes(p) /\ line \in Seq(Byte)
    BY <1>1, <1>8
  <2>6. UnfilterLine(f, GetBpp(Format!HeaderOf(p)), p.depth, line, InMemory(p, y - 1)) = InMemory(p, y)
    BY <1>2, <1>4, <2>4, <2>5, LineRestored
  <2> QED BY <1>1, <1>10, <2>2, <2>3, <2>6
<1> DEFINE goal == InMemory(p, m + 1)
<1>12. goal \in [1 .. n -> Byte] /\ goal \in Seq(Byte) /\ Len(goal) = n
  <2>1. goal \in [1 .. n -> Byte]
    BY <1>1, <1>2, MemoryLine
  <2> HIDE DEF goal
  <2> QED BY <2>1
<1>13. data' = SubSeq(data, 1, q) \o goal \o SubSeq(data, q + n + 1, Len(data)) /\ pos' = m + 1
  <2>1. (m + 1) * n + 1 = q + n + 1 /\ m * n = q
    BY <1>5
  <2>2. m * (n + 1) + 1 + 1 = (o + 1) + 1 /\ (m + 1) * (n + 1) = (o + 1) + n
    BY <1>5
  <2>3. /\ pos' = pos + 1
        /\ data' = SubSeq(data, 1, m * n)
                   \o UnfilterLine(f, GetBpp(hdr), hdr.depth, SubSeq(png_data, m * (n + 1) + 1 + 1, (m + 1) * (n + 1)), prev)
                   \o SubSeq(data, (m + 1) * n + 1, Len(data))
    BY <1>1, <1>7, <1>9, Zenon DEF UnfilterLines
  <2> QED BY <1>1, <1>8, <1>11, <2>1, <2>2, <2>3
<1>14. data \in Seq(Byte) /\ Len(data) = n * h /\ q + n <= Len(data)
  <2>1. n * (m + 1) <= n * h
    BY <1>1, TimesKeeps
  <2>2. n * (m + 1) = q + n
    BY <1>5
  <2> QED BY <1>1, <2>1, <2>2 DEF Restored
<1>15. /\ data' \in Seq(Byte) /\ Len(data') = n * h
       /\ \A i \in 1 .. q : data'[i] = data[i]
       /\ \A i \in 1 .. n : data'[q + i] = goal[i]
  <2> HIDE DEF goal
  <2>1. PICK s \in Seq(Byte), t \in Seq(Byte) : s = data /\ t = goal
    BY <1>12, <1>14
  <2>0. Len(t) = n /\ q + n <= Len(s)
    BY <1>12, <1>14, <2>1
  <2> DEFINE w == Spliced(s, t, q, n)
  <2>2. /\ w \in Seq(Byte) /\ Len(w) = Len(s)
        /\ \A i \in 1 .. q : w[i] = s[i]
        /\ \A i \in 1 .. n : w[q + i] = t[i]
    BY <2>0, Splice
  <2>3. data' = w
    BY <1>13, <2>1 DEF Spliced
  <2> HIDE DEF w
  <2> QED BY <1>14, <2>1, <2>2, <2>3
<1>16. ASSUME NEW y \in 1 .. m + 1, NEW i \in 1 .. n
       PROVE  data'[(y - 1) * n + i] = InMemory(p, y)[i]
  <2>1. CASE y = m + 1
    <3>1. (y - 1) * n = q
      BY <1>5, <2>1
    <3> QED BY <1>15, <2>1, <3>1
  <2>2. CASE y # m + 1
    <3>1. y \in 1 .. m
      BY <2>2
    <3>2. PICK z \in Nat : z = (y - 1) * n
      <4>1. y - 1 \in Nat
        OBVIOUS
      <4>2. (y - 1) * n \in Nat
        BY <4>1
      <4> QED BY <4>2
    <3>3. z + n <= q
      <4>1. n * y <= n * m
        BY <3>1, TimesKeeps
      <4>2. n * y = z + n /\ n * m = q
        BY <1>5, <3>2
      <4> QED BY <4>1, <4>2
    <3>4. z + i \in 1 .. q
      BY <3>3
    <3>5. data[z + i] = InMemory(p, y)[i]
      BY <1>1, <3>1, <3>2 DEF Restored
    <3> QED BY <1>15, <3>2, <3>4, <3>5
  <2> QED BY <2>1, <2>2
<1>17. /\ data' \in Seq(Byte) /\ Len(data') = Format!LineBytes(p) * p.height
       /\ pos' \in 0 .. p.height
  <2>1. Format!LineBytes(p) * p.height = n * h
    BY <1>1
  <2>2. pos' = m + 1 /\ p.height = h /\ m + 1 \in 0 .. h
    BY <1>1, <1>13
  <2> QED BY <1>15, <2>1, <2>2
<1>18. \A y \in 1 .. pos' : \A i \in 1 .. Format!LineBytes(p) :
         data'[(y - 1) * Format!LineBytes(p) + i] = InMemory(p, y)[i]
  <2>1. pos' = m + 1 /\ Format!LineBytes(p) = n
    BY <1>1, <1>13
  <2> QED BY <1>16, <2>1
<1> QED BY <1>17, <1>18 DEF Restored

\* All lines together are the picture, in the machine's order.
LEMMA AllLines ==
  ASSUME NEW p, Pictured(p), Restored(p, p.height)
  PROVE  data = Format!Meaning(p)
<1>1. PICK n \in Nat, h \in Nat, d \in {8, 16} : n = Format!LineBytes(p) /\ h = p.height /\ d = p.depth
  BY PictureSizes DEF Pictured
<1>2. PICK size \in Nat : size = n * h
  <2>1. n * h \in Nat
    OBVIOUS
  <2> QED BY <2>1
<1>3. p.bytes \in [1 .. size -> Byte] /\ data \in [1 .. size -> Byte]
  <2>1. data \in Seq(Byte) /\ Len(data) = size
    BY <1>1, <1>2 DEF Restored
  <2> QED BY <1>1, <1>2, <2>1 DEF Pictured
<1>4. Format!Meaning(p) = [j \in 1 .. size |-> p.bytes[Place(d, j)]]
  <2>1. CASE d = 8
    <3>1. \A j \in 1 .. size : Place(d, j) = j
      BY <2>1 DEF Place
    <3>2. Format!Meaning(p) = p.bytes
      BY <1>1, <2>1 DEF Format!Meaning
    <3> QED BY <1>3, <3>1, <3>2
  <2>2. CASE d = 16
    <3>1. Format!Meaning(p) = [i \in DOMAIN p.bytes |-> p.bytes[IF i % 2 = 1 THEN i + 1 ELSE i - 1]]
      <4>1. p.depth # 8
        BY <1>1, <2>2
      <4> QED BY <4>1, Zenon DEF Format!Meaning
    <3>2. \A j : Place(d, j) = IF j % 2 = 1 THEN j + 1 ELSE j - 1
      BY <2>2, Zenon DEF Place
    <3>3. DOMAIN p.bytes = 1 .. size
      BY <1>3
    <3> QED BY <3>1, <3>2, <3>3, Zenon
  <2> QED BY <2>1, <2>2
<1>5. ASSUME NEW j \in 1 .. size PROVE data[j] = p.bytes[Place(d, j)]
  <2>1. n # 0
    <3>1. n = 0 => n * h = 0
      OBVIOUS
    <3> QED BY <1>2, <3>1
  <2>2. PICK x \in Nat, z \in Nat : z < n /\ j - 1 = n * x + z
    <3>1. PICK k \in Nat : k = j - 1
      OBVIOUS
    <3>2. k \div n \in Nat /\ (k % n) \in 0 .. n - 1 /\ k = n * (k \div n) + (k % n)
      BY <2>1, DivMod
    <3> QED BY <3>1, <3>2
  <2>3. x < h
    <3>1. SUFFICES ASSUME h <= x PROVE FALSE
      OBVIOUS
    <3>2. n * h <= n * x
      BY <3>1, TimesKeeps
    <3> QED BY <1>2, <2>2, <3>2
  <2>4. PICK e \in Nat : e = n * x /\ e = (x + 1 - 1) * n
    <3>1. n * x \in Nat /\ n * x = (x + 1 - 1) * n
      OBVIOUS
    <3> QED BY <3>1
  <2>5. PICK y \in 1 .. p.height, i \in 1 .. n : y = x + 1 /\ i = z + 1 /\ j = e + i
    <3>1. x + 1 \in 1 .. h /\ z + 1 \in 1 .. n
      BY <2>2, <2>3
    <3>2. j = e + (z + 1)
      <4>1. j - 1 = e + z
        BY <2>2, <2>4
      <4> QED BY <4>1
    <3> QED BY <1>1, <3>1, <3>2
  <2>6. (y - 1) * n = e
    BY <2>4, <2>5
  <2>7. data[e + i] = InMemory(p, y)[i]
    BY <1>1, <2>5, <2>6 DEF Restored
  <2>8. Place(d, i) \in 1 .. n /\ InMemory(p, y)[i] = Format!Line(p, y)[Place(d, i)]
    BY <1>1, MemoryLine
  <2>9. Format!Line(p, y)[Place(d, i)] = p.bytes[e + Place(d, i)]
    BY <1>1, <2>6, <2>8, LineType
  <2>10. e + Place(d, i) = Place(d, j)
    <3>1. CASE e = 0
      BY <2>5, <2>8, <3>1
    <3>2. CASE e # 0
      <4>1. Paired(d, size, e)
        <5>1. SUFFICES ASSUME d = 16 PROVE \E g, k \in Nat : size = 2 * g /\ e = 2 * k
          BY DEF Paired
        <5>2. PICK g \in Nat : n = 2 * g
          <6>1. Paired(p.depth, n, Stride(p))
            BY <1>1, PictureSizes
          <6> QED BY <1>1, <5>1, <6>1 DEF Paired
        <5>3. g * h \in Nat /\ size = 2 * (g * h)
          BY <1>2, <5>2
        <5>4. g * x \in Nat /\ e = 2 * (g * x)
          BY <2>4, <5>2
        <5> QED BY <5>3, <5>4
      <4>2. j > e => j - e \in 1 .. size /\ Place(d, j) - e = Place(d, j - e)
        BY <3>2, <4>1, PlaceKeeps
      <4>3. Place(d, j) \in 1 .. size
        BY <3>2, <4>1, PlaceKeeps
      <4>4. j > e /\ j - e = i
        BY <2>5
      <4> QED BY <2>8, <4>2, <4>3, <4>4
    <3> QED BY <3>1, <3>2
  <2> QED BY <2>5, <2>7, <2>8, <2>9, <2>10
<1> DEFINE picture == [j \in 1 .. size |-> p.bytes[Place(d, j)]]
<1>6. data = picture
  <2>1. \A j \in 1 .. size : data[j] = picture[j]
    BY <1>5
  <2>2. DOMAIN picture = 1 .. size /\ picture = [j \in 1 .. size |-> picture[j]]
    OBVIOUS
  <2> HIDE DEF picture
  <2> QED BY <1>3, <2>1, <2>2
<1> QED BY <1>4, <1>6, Zenon

\* The caller's memory on the way: of the right size at first, then filled line by line.
\* Only the end of the loop over the lines is a success.
Decoding ==
  /\ pc \in Before \cup Written \cup {"write_idats", "cleanup"} \cup InLoop => pos = 0
  /\ pc \in {"cleanup"} \cup InLoop => data \in Seq(Byte) /\ Len(data) = LineLength(hdr) * hdr.height
  /\ pc = "cleanup" => result # "NO_ERROR"
  /\ pc = "unfilter" => \A p : Inflated(p) => Restored(p, pos)
  /\ pc \in {"close", "exited"} /\ result = "NO_ERROR" => \A p : Inflated(p) => data = Format!Meaning(p)

\* Nothing is decoded before the file is open (pnglite.c:231-277).
LEMMA InitDecoding == Init => Decoding
BY DEF Init, Decoding, InLoop

\* Writing and opening (pnglite.c:199-277, 808-834).
LEMMA OpeningKeepsDecoding ==
  ASSUME Memory, Decoding,
         OpenWrite \/ SetData \/ WriteIhdr \/ Compress \/ WriteIdats \/ WriteIend \/ Open
  PROVE  Decoding'
<1> USE DEF Decoding, Before, Written, InLoop, reading
<1>1. CASE OpenWrite
  BY <1>1 DEF OpenWrite
<1>2. CASE SetData
  BY <1>2 DEF SetData
<1>3. CASE WriteIhdr
  BY <1>3 DEF WriteIhdr
<1>4. CASE Compress
  BY <1>4 DEF Compress
<1>5. CASE WriteIdats
  BY <1>5 DEF WriteIdats
<1>6. CASE WriteIend
  BY <1>6 DEF WriteIend
<1>7. CASE Open
  <2>1. pc = "open" /\ pos' = pos /\ (pc' = "colour" \/ (pc' = "exited" /\ result' # "NO_ERROR"))
    BY <1>7 DEF Open
  <2> QED BY <2>1
<1> QED BY <1>1, <1>2, <1>3, <1>4, <1>5, <1>6, <1>7

\* The loop over the chunks leaves the caller's memory alone (pnglite.c:478-608, 770-806).
LEMMA LoopKeepsDecoding ==
  ASSUME Memory, Decoding,
         NoChunk \/ Iend \/ SkipChunk \/ Idat \/ InitInflate \/ Buffer \/ Load \/ InflateIdat
  PROVE  Decoding'
<1>1. /\ pc \in InLoop /\ UNCHANGED <<hdr, data, pos>>
      /\ pc' \in InLoop \/ (pc' = "cleanup" /\ result' # "NO_ERROR")
  <2> USE DEF InLoop, reading
  <2>1. CASE NoChunk
    BY <2>1 DEF NoChunk
  <2>2. CASE Iend
    BY <2>2 DEF Iend, NextChunk
  <2>3. CASE SkipChunk
    BY <2>3 DEF SkipChunk
  <2>4. CASE Idat
    BY <2>4 DEF Idat, NextChunk
  <2>5. CASE InitInflate
    BY <2>5 DEF InitInflate
  <2>6. CASE Buffer
    BY <2>6 DEF Buffer
  <2>7. CASE Load
    BY <2>7 DEF Load
  <2>8. CASE InflateIdat
    BY <2>8 DEF InflateIdat
  <2> QED BY <2>1, <2>2, <2>3, <2>4, <2>5, <2>6, <2>7, <2>8
<1>2. LineLength(hdr)' = LineLength(hdr)
  BY <1>1 DEF LineLength
<1> QED BY <1>1, <1>2 DEF Decoding, InLoop

\* The caller allocates the picture, its lines are restored one by one, and with the
\* last one it is complete (pnglite.c:715-806, image.c).
LEMMA LinesKeepDecoding ==
  ASSUME Memory, Decoding, GetData \/ CleanUp \/ UnfilterLines \/ UnfilterDone \/ CloseFile
  PROVE  Decoding'
<1>1. CASE GetData
  <2>1. pc = "colour" /\ pos' = pos /\ hdr' = hdr /\ hdr \in HeaderSet
    BY <1>1, NotNull DEF GetData, Memory, Types, Fields
  <2>2. CASE pc' = "close" /\ result' = "refused"
    BY <2>2 DEF Decoding, InLoop, Before, Written
  <2>3. CASE pc' = "chunk" /\ \E g \in Garbage : data' = [i \in 1 .. PixelLength(hdr) |-> g]
    <3>1. PICK g \in Garbage : data' = [i \in 1 .. LineLength(hdr) * hdr.height |-> g]
      BY <2>1, <2>3, Sizes
    <3>2. PICK size \in Nat : size = LineLength(hdr) * hdr.height
      <4>1. LineLength(hdr) \in Nat /\ hdr.height \in Nat
        BY <2>1, Sizes DEF HeaderSet
      <4>2. \A a, b \in Nat : a * b \in Nat
        OBVIOUS
      <4> QED BY <4>1, <4>2
    <3>3. g \in Byte
      BY PngliteAssumption
    <3>4. data' \in Seq(Byte) /\ Len(data') = size
      BY <3>1, <3>2, <3>3
    <3>5. LineLength(hdr)' = LineLength(hdr)
      BY <2>1 DEF LineLength
    <3> QED BY <2>1, <2>3, <3>2, <3>4, <3>5 DEF Decoding, InLoop, Before, Written
  <2> QED BY <1>1, <2>2, <2>3 DEF GetData
<1>2. ASSUME UNCHANGED <<hdr, png_data>> PROVE \A p : Inflated(p)' <=> Inflated(p)
  BY <1>2 DEF Inflated
<1>3. CASE CleanUp
  <2>1. /\ pc = "cleanup" /\ UNCHANGED <<result, hdr, png_data, data, pos>>
        /\ pc' = IF result = "DONE" THEN "unfilter" ELSE "close"
    BY <1>3 DEF CleanUp
  <2>2. pos = 0 /\ result # "NO_ERROR" /\ data \in Seq(Byte) /\ Len(data) = LineLength(hdr) * hdr.height
    BY <2>1 DEF Decoding
  <2>3. ASSUME NEW p, Inflated(p) PROVE Restored(p, pos)'
    <3>1. Pictured(p) /\ hdr = Format!HeaderOf(p)
      BY <2>3 DEF Inflated
    <3>2. LineLength(hdr) = Format!LineBytes(p) /\ hdr.height = p.height /\ p.height \in Nat
      BY <3>1, HeaderSizes DEF Pictured
    <3>3. 0 \in 0 .. p.height /\ 1 .. 0 = {}
      BY <3>2
    <3> QED BY <2>1, <2>2, <3>2, <3>3 DEF Restored
  <2> QED BY <1>2, <2>1, <2>2, <2>3 DEF Decoding, InLoop, Before, Written
<1>4. CASE UnfilterLines
  <2>1. pc = "unfilter" /\ pc' = "unfilter" /\ UNCHANGED <<hdr, png_data>>
    BY <1>4 DEF UnfilterLines
  <2>2. ASSUME NEW p, Inflated(p) PROVE Restored(p, pos)'
    BY <1>4, <2>1, <2>2, OneMoreLine DEF Decoding
  <2> QED BY <1>2, <2>1, <2>2 DEF Decoding, InLoop, Before, Written
<1>5. CASE UnfilterDone
  <2>1. /\ pc = "unfilter" /\ pc' = "close" /\ UNCHANGED <<hdr, png_data, data, pos>>
        /\ pos = Lines \/ result' # "NO_ERROR"
    BY <1>5 DEF UnfilterDone
  <2>2. ASSUME pos = Lines, NEW p, Inflated(p) PROVE data = Format!Meaning(p)
    <3>1. Pictured(p) /\ hdr = Format!HeaderOf(p) /\ png_data # Null
      BY <2>2 DEF Inflated
    <3>2. pos = p.height
      BY <2>2, <3>1, HeaderSizes DEF Lines
    <3>3. Restored(p, p.height)
      BY <2>1, <2>2, <3>2 DEF Decoding
    <3> QED BY <3>1, <3>3, AllLines
  <2> QED BY <1>2, <2>1, <2>2 DEF Decoding, InLoop, Before, Written
<1>6. CASE CloseFile
  <2>1. pc = "close" /\ pc' = "exited" /\ UNCHANGED <<result, hdr, png_data, data, pos>>
    BY <1>6 DEF CloseFile
  <2> QED BY <1>2, <2>1 DEF Decoding, InLoop, Before, Written
<1> QED BY <1>1, <1>3, <1>4, <1>5, <1>6

\* What is decoded follows the steps of png_get_data.
LEMMA DecodingInvariant == Spec => []Decoding
<1>1. Memory /\ Decoding /\ [Next]_vars => Decoding'
  <2>1. Decoding /\ UNCHANGED vars => Decoding'
    BY DEF Decoding, Inflated, Restored, LineLength, vars, reading
  <2> QED BY <2>1, OpeningKeepsDecoding, LoopKeepsDecoding, LinesKeepDecoding DEF Next
<1> QED BY InitDecoding, <1>1, MemoryInvariant, PTL DEF Spec

\* Whatever the file, when sizes fit (SizesFit): when a call succeeds whose header is that of a picture and whose
\* inflated data are the picture's lines, each under any filter, the caller has the picture
\* (pnglite.c:610-806).
THEOREM DecodesPictures ==
  Spec => [](pc = "exited" /\ result = "NO_ERROR" => \A p : Inflated(p) => data = Format!Meaning(p))
<1>1. Decoding => (pc = "exited" /\ result = "NO_ERROR" => \A p : Inflated(p) => data = Format!Meaning(p))
  BY DEF Decoding
<1> QED BY <1>1, DecodingInvariant, PTL

-----------------------------------------------------------------------------
\* Reading a file

\* What there is of a file u, cut short after m units, from s on.
Behind(u, s, m, r) ==
  /\ r \in Seq(Unit) /\ Len(r) = (IF s <= m THEN m - s ELSE 0)
  /\ \A i \in 1 .. Len(r) : r[i] = u[s + i]

\* What file_read and fseek leave of it (pnglite.c:28-40, 770-783).
LEMMA BehindSkip ==
  ASSUME NEW u, NEW s \in Nat, NEW m \in Nat, NEW r, Behind(u, s, m, r), NEW n \in Nat
  PROVE  Behind(u, s + n, m, SubSeq(r, n + 1, Len(r)))
<1>1. r \in Seq(Unit) /\ Len(r) \in Nat /\ Len(r) = (IF s <= m THEN m - s ELSE 0)
  BY DEF Behind
<1>2. CASE n <= Len(r)
  <2>1. PICK k \in Nat : k = Len(r) - n
    BY <1>1, <1>2
  <2>2. \A i \in n + 1 .. n + k : r[i] \in Unit
    BY <1>1, <2>1
  <2> DEFINE l == SubSeq(r, n + 1, n + k)
  <2>3. l \in Seq(Unit) /\ Len(l) = k /\ \A i \in 1 .. k : l[i] = r[n + i]
    BY <2>2, Piece
  <2>4. l = SubSeq(r, n + 1, Len(r))
    <3>1. n + k = Len(r)
      BY <1>1, <2>1
    <3> QED BY <3>1
  <2> HIDE DEF l
  <2>5. k = IF s + n <= m THEN m - (s + n) ELSE 0
    BY <1>1, <1>2, <2>1
  <2>6. \A i \in 1 .. k : l[i] = u[s + n + i]
    <3>1. TAKE i \in 1 .. k
    <3>2. PICK j \in 1 .. Len(r) : j = n + i
      BY <1>1, <2>1
    <3>3. s + j = s + n + i
      BY <3>2
    <3>4. r[j] = u[s + j]
      BY DEF Behind
    <3> QED BY <2>3, <3>2, <3>3, <3>4
  <2>7. Behind(u, s + n, m, l)
    BY <2>3, <2>5, <2>6 DEF Behind
  <2> QED BY <2>4, <2>7
<1>3. CASE ~ (n <= Len(r))
  <2> DEFINE l == SubSeq(r, n + 1, Len(r))
  <2>1. PICK a \in Int, b \in Int : a = n + 1 /\ b = Len(r) /\ ~ (a <= b)
    <3>1. n + 1 \in Int /\ Len(r) \in Int /\ ~ (n + 1 <= Len(r))
      BY <1>1, <1>3
    <3> HIDE DEF l
    <3> QED BY <3>1, Zenon
  <2>2. (IF s + n <= m THEN m - (s + n) ELSE 0) = 0
    BY <1>1, <1>3
  <2>3. l \in Seq(Unit) /\ Len(l) = 0
    <3>1. \A i \in a .. b : r[i] \in Unit
      BY <2>1
    <3>2. SubSeq(r, a, b) \in Seq(Unit) /\ Len(SubSeq(r, a, b)) = IF a <= b THEN b - a + 1 ELSE 0
      BY <3>1, SubSeqProperties
    <3> QED BY <2>1, <3>2
  <2> HIDE DEF l
  <2>4. Behind(u, s + n, m, l)
    <3>1. 1 .. Len(l) = {}
      BY <2>3
    <3> QED BY <2>2, <2>3, <3>1 DEF Behind
  <2> QED BY <2>4, Zenon DEF l
<1> QED BY <1>2, <1>3

\* A unit of what is left
LEMMA BehindUnit ==
  ASSUME NEW u, NEW s \in Nat, NEW m \in Nat, NEW r, Behind(u, s, m, r),
         NEW i \in Nat \ {0}
  PROVE  /\ Len(r) \in Nat /\ (Len(r) >= i <=> s + i <= m)
         /\ s + i <= m => r[i] = u[s + i]
BY DEF Behind

\* A sequence is the function that has its values.
LEMMA SameSequence ==
  ASSUME NEW S, NEW a \in Seq(S), NEW b \in Seq(S), Len(a) = Len(b),
         \A i \in 1 .. Len(a) : a[i] = b[i]
  PROVE  a = b
<1>1. a = [i \in 1 .. Len(a) |-> a[i]] /\ b = [i \in 1 .. Len(b) |-> b[i]]
  OBVIOUS
<1> QED BY <1>1

\* What symbols stand for is bytes.
LEMMA ExpandedType ==
  ASSUME NEW units \in Seq(Unit), NEW q \in 0 .. Len(units),
         \A i \in 1 .. q : units[i][1] = "symbol"
  PROVE  Expanded(units, q) \in Seq(Byte)
<1>1. Len(units) \in Nat /\ q \in Nat /\ q <= Len(units)
  OBVIOUS
<1>2. \A i \in 1 .. q : units[i][2] \in Seq(Byte)
  <2>1. TAKE i \in 1 .. q
  <2>2. units[i] \in Unit
    BY <1>1
  <2> QED BY <2>2, UnitsRead
<1>3. [i \in 1 .. q |-> units[i][2]] \in Seq(Seq(Byte))
  BY <1>1, <1>2
<1> QED BY <1>3, FlattenType DEF Expanded

\* inflate takes all symbols of a chunk when there is room for what they stand for, and
\* its end as well (pnglite.c:420-451).
LEMMA InflateAll ==
  ASSUME NEW stream, stream.state = "open", NEW symbols \in Seq(Unit), NEW q, NEW ended \in BOOLEAN,
         Symbols(symbols, q, ended), NEW room \in Nat, room = Len(png_data) - Len(stream.out),
         Len(Expanded(symbols, q)) <= room
  PROVE  /\ Inflate(stream, symbols).unread = 0
         /\ Inflate(stream, symbols).stream
              = Stream(IF ended THEN "end" ELSE "open", stream.out \o Expanded(symbols, q))
<1> DEFINE Plain(n) == \A i \in 1 .. n : symbols[i][1] = "symbol"
           Bytes(n) == FlattenSeq([i \in 1 .. n |-> symbols[i][2]])
           plain == CHOOSE n \in 0 .. Len(symbols) : Plain(n) /\ ~ (n < Len(symbols) /\ Plain(n + 1))
           fits == {n \in 0 .. plain : Len(Bytes(n)) <= Len(png_data) - Len(stream.out)}
           last == CHOOSE n \in fits : \A m \in fits : m <= n
           next == IF last < Len(symbols) THEN symbols[last + 1] ELSE Null
           state == IF last < plain THEN "stuck" ELSE IF next = Null THEN "open"
                    ELSE IF next = End THEN "end" ELSE "error"
           out == stream.out \o IF last < plain THEN SubSeq(Bytes(plain), 1, Len(png_data) - Len(stream.out))
                                ELSE Bytes(last)
           unread == IF next = Null THEN 0 ELSE Len(symbols) - last - 1
<1>1. PICK n \in Nat : n = Len(symbols) /\ q \in 0 .. n
  BY DEF Symbols
<1>2. Plain(q) /\ ~ (q < n /\ Plain(q + 1))
  <2>1. Plain(q)
    BY DEF Symbols
  <2>2. SUFFICES ASSUME q < n PROVE ~Plain(q + 1)
    BY <2>1
  <2>3. symbols[q + 1] = End /\ q + 1 \in 1 .. q + 1
    BY <1>1, <2>2 DEF Symbols
  <2>4. End[1] # "symbol"
    BY DEF End
  <2> QED BY <2>3, <2>4
<1>3. ASSUME NEW k \in 0 .. n, Plain(k), ~ (k < n /\ Plain(k + 1)) PROVE k = q
  <2>1. CASE k < q
    <3>1. Plain(k + 1)
      <4>1. \A i \in 1 .. k + 1 : i \in 1 .. q
        BY <1>1, <2>1
      <4> QED BY <1>2, <4>1
    <3> HIDE DEF Plain
    <3> QED BY <1>1, <1>3, <2>1, <3>1
  <2>2. CASE q < k
    <3>1. Plain(q + 1)
      <4>1. \A i \in 1 .. q + 1 : i \in 1 .. k
        BY <1>1, <2>2
      <4> QED BY <1>3, <4>1
    <3>2. q < n
      BY <1>1, <2>2
    <3> HIDE DEF Plain
    <3> QED BY <1>2, <3>1, <3>2
  <2> QED BY <1>1, <2>1, <2>2
<1>4. plain = q
  <2> HIDE DEF Plain
  <2> QED BY <1>1, <1>2, <1>3
<1>5. Bytes(q) = Expanded(symbols, q)
  BY Zenon DEF Expanded
<1>6. last = q
  <2>1. q \in fits /\ \A k \in fits : k \in 0 .. q /\ k <= q
    <3> HIDE DEF Bytes, plain
    <3> QED BY <1>1, <1>4, <1>5
  <2>2. \A k \in fits : (\A j \in fits : j <= k) => k = q
    <3>1. \A k \in fits : q <= k /\ k <= q => k = q
      BY <1>1, <2>1
    <3> HIDE DEF fits
    <3> QED BY <2>1, <3>1
  <2> HIDE DEF fits
  <2> QED BY <2>1, <2>2
<1>7. state = (IF ended THEN "end" ELSE "open") /\ unread = 0
  <2> HIDE DEF plain, last
  <2>1. ~ (last < plain)
    BY <1>1, <1>4, <1>6
  <2>2. CASE ended
    <3>1. q < n /\ symbols[q + 1] = End /\ n - q - 1 = 0 /\ q + 1 \in 1 .. n
      BY <1>1, <2>2 DEF Symbols
    <3>2. End # Null
      BY <1>1, <3>1, NotNull
    <3>3. next = End
      BY <1>1, <1>6, <3>1
    <3> HIDE DEF next
    <3> QED BY <1>1, <1>6, <2>1, <2>2, <3>1, <3>2, <3>3
  <2>3. CASE ~ended
    <3>1. q = n /\ ~ (q < n)
      BY <1>1, <2>3 DEF Symbols
    <3>2. next = Null
      BY <1>1, <1>6, <3>1
    <3> HIDE DEF next
    <3> QED BY <2>1, <2>3, <3>2
  <2> QED BY <2>2, <2>3
<1>8. out = stream.out \o Expanded(symbols, q)
  <2> HIDE DEF plain, last, Bytes
  <2>1. ~ (last < plain)
    BY <1>1, <1>4, <1>6
  <2> QED BY <1>5, <1>6, <2>1
<1>9. Inflate(stream, symbols) = [stream |-> Stream(state, out), unread |-> unread]
  <2>1. Inflate(stream, symbols) =
          IF stream.state # "open" THEN [stream |-> stream, unread |-> Len(symbols)]
          ELSE [stream |-> Stream(state, out), unread |-> unread]
    BY Zenon DEF Inflate, Plain, Bytes
  <2> HIDE DEF state, out, unread
  <2> QED BY <2>1
<1> HIDE DEF state, out, unread
<1> QED BY <1>7, <1>8, <1>9

\* The sizes in a layout
LEMMA LaidSizes ==
  ASSUME NEW L, NEW p, Laid(L, p), NEW k \in 1 .. L.n
  PROVE  /\ L.start[k] \in Nat /\ Size(L, k) \in Nat /\ Len(L.units) \in Nat
         /\ L.start[k + 1] = L.start[k] + 3 + Size(L, k)
         /\ L.start[k + 1] \in Nat /\ L.start[k + 1] <= Len(L.units)
         /\ L.given[k] \in Seq(Byte) /\ L.given[k + 1] \in Seq(Byte)
         /\ L.ended[k] \in BOOLEAN /\ L.ended[k + 1] \in BOOLEAN
<1>1. k \in 1 .. L.n + 1 /\ k + 1 \in 1 .. L.n + 1 /\ L.n \in Nat
  <2>1. L.n \in Nat \ {0}
    BY Zenon DEF Laid
  <2> QED BY <2>1
<1>2. L.start[k] \in Nat /\ L.start[k + 1] \in Nat
  BY <1>1 DEF Laid
<1>3. L.start[k] + 3 <= L.start[k + 1] /\ L.start[k + 1] <= Len(L.units)
  BY DEF Laid, ChunkLaid
<1>4. Len(L.units) \in Nat
  <2>1. L.units \in Seq(Unit)
    BY Zenon DEF Laid
  <2> QED BY <2>1
<1>5. L.given[k] \in Seq(Byte) /\ L.given[k + 1] \in Seq(Byte) /\ L.ended[k] \in BOOLEAN
        /\ L.ended[k + 1] \in BOOLEAN
  BY <1>1 DEF Laid
<1>6. Size(L, k) \in Nat /\ L.start[k + 1] = L.start[k] + 3 + Size(L, k)
  <2>1. PICK a \in Nat, b \in Nat : a = L.start[k] /\ b = L.start[k + 1] /\ a + 3 <= b
    BY <1>2, <1>3
  <2>2. Size(L, k) = b - a - 3
    BY <2>1 DEF Size
  <2> QED BY <2>1, <2>2
<1> QED BY <1>2, <1>3, <1>4, <1>5, <1>6

\* The content of a chunk
LEMMA ContentType ==
  ASSUME NEW L, NEW p, Laid(L, p), NEW k \in 1 .. L.n
  PROVE  Content(L, k) \in Seq(Unit) /\ Len(Content(L, k)) = Size(L, k)
<1>1. PICK s \in Nat, n \in Nat, z \in Nat :
        s = L.start[k] /\ n = Size(L, k) /\ z = Len(L.units) /\ s + 3 + n <= z
  BY LaidSizes
<1>2. \A i \in 1 .. n : L.units[s + 2 + i] \in Unit
  <2>1. PICK u \in Seq(Unit) : u = L.units
    BY DEF Laid
  <2>2. Len(u) = z /\ s + 3 + n <= z
    BY <1>1, <2>1
  <2>3. \A i \in 1 .. n : s + 2 + i \in 1 .. z
    BY <2>2
  <2>4. \A i \in 1 .. n : u[s + 2 + i] \in Unit
    BY <2>2, <2>3
  <2> QED BY <2>1, <2>4
<1>3. Content(L, k) = [i \in 1 .. n |-> L.units[s + 2 + i]]
  BY <1>1 DEF Content
<1> DEFINE c == [i \in 1 .. n |-> L.units[s + 2 + i]]
<1>4. c \in Seq(Unit) /\ Len(c) = n
  BY <1>2
<1> QED BY <1>1, <1>3, <1>4

-----------------------------------------------------------------------------
\* What is known of the file, unless it stands for nothing
Known == meant # Null \/ sound

\* At most m units of the file are there; all of them if it is sound.
Cut(L, m) ==
  /\ Laid(L, meant) /\ m \in 0 .. Len(L.units)
  /\ sound => m = Len(L.units) /\ NoneEmpty(L)

\* The chunks before k have been taken.
Taken(L, k) ==
  /\ hdr = Format!HeaderOf(meant)
  /\ \A j \in 1 .. k - 1 : Carries(L, j) => Size(L, j) > 0 /\ zs # Null
  /\ png_data # Null => Len(png_data) = DataLength(hdr)
  /\ IF zs = Null THEN L.given[k] = <<>> /\ ~L.ended[k]
     ELSE /\ zs = Stream(IF L.ended[k] THEN "end" ELSE "open", L.given[k])
          /\ \A i \in 1 .. Len(L.given[k]) : png_data[i] = L.given[k][i]

\* How far the loop is with chunk k
AtChunk(L, m, k) ==
  /\ pc = "chunk" => Behind(L.units, L.start[k], m, rest)
  /\ pc \in {"inflate_init", "read_idat", "load"} =>
       /\ Carries(L, k) /\ length = Size(L, k)
       /\ Behind(L.units, L.start[k] + 2, m, rest)
  /\ pc = "inflate" =>
       Carries(L, k) /\ readbuf = Content(L, k) /\ Behind(L.units, L.start[k + 1], m, rest)

OnTrack(L, m) == Cut(L, m) /\ \E k \in 1 .. L.n : Taken(L, k) /\ AtChunk(L, m, k)

\* What a file that stands for a picture is taken for
Tracked ==
  /\ Known =>
       /\ pc = "open" => \E L, m : Cut(L, m) /\ Behind(L.units, 0, m, rest)
       /\ pc = "colour" => \E L, m : /\ Cut(L, m) /\ Behind(L.units, 4, m, rest)
                                     /\ hdr = Format!HeaderOf(meant)
       /\ pc \in InLoop => \E L, m : OnTrack(L, m)
       /\ pc = "cleanup" => hdr = Format!HeaderOf(meant)
       /\ \/ pc = "cleanup" /\ result = "DONE"
          \/ pc = "unfilter"
          \/ pc \in {"close", "exited"} /\ result = "NO_ERROR"
          => Inflated(meant)
  /\ sound /\ ~failed =>
       /\ pc \in {"open", "colour"} \cup InLoop => result = "NO_ERROR"
       /\ pc = "cleanup" => result = "DONE"
       /\ pc \in {"close", "exited"} => result = "NO_ERROR"

\* A header that is read, and one that is there to be read (pnglite.c:148-197, 231-252).
LEMMA HeaderKnown ==
  ASSUME NEW L, NEW p, Laid(L, p), NEW m \in 0 .. Len(L.units), rest \in Seq(Unit),
         Behind(L.units, 0, m, rest), Has(1), Head(rest) = Signature
  PROVE  /\ "NO_ERROR" \in ReadIhdr(Tail(rest)) => rest[3][2] = Format!HeaderOf(p)
         /\ m = Len(L.units) => ReadIhdr(Tail(rest)) = {"NO_ERROR"}
<1>1. rest # <<>> /\ Len(rest) \in Nat /\ Len(rest) = m /\ m \in Nat /\ Len(L.units) \in Nat
  BY DEF Has, Behind, Laid
<1>2. /\ Tail(rest) \in Seq(Unit) /\ Len(Tail(rest)) = m - 1
      /\ \A i \in 1 .. m - 1 : Tail(rest)[i] = rest[i + 1]
  BY <1>1, HeadTailProperties
<1>3. \A i \in 1 .. m : rest[i] = L.units[i]
  BY <1>1 DEF Behind
<1> DEFINE h == Format!HeaderOf(p)
<1>4. ASSUME m >= 3 PROVE rest[3] = Header(h) /\ rest[3][2] = h
  <2>1. 3 \in 1 .. m
    BY <1>1, <1>4
  <2>2. Header(h)[2] = h
    BY DEF Header
  <2> QED BY <1>3, <2>1, <2>2 DEF Laid
<1>5. ASSUME m = Len(L.units) PROVE ReadIhdr(Tail(rest)) = {"NO_ERROR"}
  <2>1. m >= 4
    <3>1. 1 \in 1 .. L.n
      BY DEF Laid
    <3>2. L.start[1 + 1] <= Len(L.units) /\ L.start[1 + 1] = L.start[1] + 3 + Size(L, 1) /\ Size(L, 1) \in Nat
      BY <3>1, LaidSizes
    <3> QED BY <1>1, <1>5, <3>2 DEF Laid
  <2>2. /\ Tail(rest)[1] = Word(13) /\ Tail(rest)[2] = Header(h)
        /\ Tail(rest)[3] = Crc("IHDR", <<Tail(rest)[2]>>)
    <3>1. 1 \in 1 .. m - 1 /\ 2 \in 1 .. m - 1 /\ 3 \in 1 .. m - 1 /\ 2 \in 1 .. m /\ 3 \in 1 .. m /\ 4 \in 1 .. m
      BY <1>1, <2>1
    <3>2. Tail(rest)[1] = rest[2] /\ Tail(rest)[2] = rest[3] /\ Tail(rest)[3] = rest[4]
      BY <1>2, <3>1
    <3>3. rest[2] = L.units[2] /\ rest[3] = L.units[3] /\ rest[4] = L.units[4]
      BY <1>3, <3>1
    <3> QED BY <3>2, <3>3 DEF Laid
  <2>3. PICK t \in Seq(Unit) : t = Tail(rest)
    BY <1>2
  <2>4. t # <<>> /\ Head(t) = Word(13) /\ Len(t) >= 3 /\ t[2] = Header(h) /\ t[3] = Crc("IHDR", <<t[2]>>)
    <3>1. Len(t) = m - 1 /\ m - 1 >= 3 /\ Len(t) >= 3
      BY <1>1, <1>2, <2>1, <2>3
    <3>2. t # <<>> /\ Head(t) = t[1]
      BY <3>1
    <3> QED BY <2>2, <2>3, <3>1, <3>2
  <2>5. /\ h.colour \in {"rgb", "rgba"} /\ h.depth \in {8, 16} /\ h.interlaced = FALSE
    BY DEF Format!HeaderOf, Laid, Pictured
  <2>6. Header(h)[1] = "header" /\ Header(h)[2] = h
    BY DEF Header
  <2>7. ReadIhdr(t) = {"NO_ERROR"}
    <3> DEFINE g == t[2][2]
               unsupported == \/ t[2][1] # "header"
                              \/ g.colour = "indexed" \/ g.depth \notin {8, 16} \/ g.interlaced
               checked == IF unsupported THEN "NOT_SUPPORTED" ELSE "NO_ERROR"
    <3>1. ReadIhdr(t) =
            IF Len(t) = 2 THEN {"CRC_ERROR", checked}
            ELSE IF t[3] = Crc("IHDR", <<t[2]>>) THEN {checked} ELSE {"CRC_ERROR"}
      <4>1. ~ (Len(t) < 2)
        BY <2>3, <2>4
      <4> QED BY <2>4, <4>1, Zenon DEF ReadIhdr
    <3>2. ~unsupported
      <4> HIDE DEF h
      <4> QED BY <2>4, <2>5, <2>6
    <3>3. ~ (Len(t) = 2)
      BY <2>4
    <3> HIDE DEF unsupported
    <3> QED BY <2>4, <3>1, <3>2, <3>3
  <2> QED BY <2>3, <2>7
<1>6. "NO_ERROR" \in ReadIhdr(Tail(rest)) => m >= 3
  <2>1. "NO_ERROR" \in ReadIhdr(Tail(rest)) => Len(Tail(rest)) >= 2
    BY <1>2, HeaderRead
  <2> QED BY <1>1, <1>2, <2>1
<1> QED BY <1>4, <1>5, <1>6

\* What is known of the file stays so.
LEMMA CutStays ==
  ASSUME UNCHANGED <<meant, sound>>, NEW L, NEW m, Cut(L, m)
  PROVE  Cut(L, m)'
BY DEF Cut

\* Nothing is said of a file that stands for nothing.
LEMMA NothingKnown ==
  ASSUME UNCHANGED <<meant, sound>>, ~Known
  PROVE  Tracked'
BY DEF Tracked, Known

\* The loop goes on.
LEMMA GoesOn ==
  ASSUME Tracked, UNCHANGED <<meant, sound, result>>, failed => failed',
         pc \in {"colour"} \cup InLoop, pc' \in InLoop,
         NEW L, NEW m, Cut(L, m), NEW k \in 1 .. L.n, Taken(L, k)', AtChunk(L, m, k)'
  PROVE  Tracked'
<1>1. Cut(L, m)'
  BY CutStays
<1>2. OnTrack(L, m)'
  BY <1>1 DEF OnTrack
<1> QED BY <1>2 DEF Tracked, InLoop

\* The loop ends with an error, which a sound file does not have.
LEMMA GivesUp ==
  ASSUME UNCHANGED <<meant, sound, hdr>>, pc' = "cleanup", result' # "DONE",
         hdr = Format!HeaderOf(meant), sound => failed'
  PROVE  Tracked'
BY DEF Tracked, InLoop

\* png_open_file_read (pnglite.c:231-277)
LEMMA OpenTracks ==
  ASSUME Memory, Tracked, Known, Open
  PROVE  Tracked'
<1>1. /\ pc = "open" /\ UNCHANGED <<meant, sound>> /\ rest \in Seq(Unit)
      /\ sound /\ ~failed => result = "NO_ERROR"
  BY DEF Open, Memory, Types, Tracked
<1> DEFINE results == IF ~Has(1) THEN {"EOF_ERROR"}
                      ELSE IF Head(rest) # Signature THEN {"HEADER_ERROR"} ELSE ReadIhdr(Tail(rest))
<1>2. \/ /\ result' \in results /\ failed' = failed
         /\ \/ result' = "NO_ERROR" /\ pc' = "colour" /\ hdr' = rest[3][2] /\ Skip(4)
            \/ result' # "NO_ERROR" /\ pc' = "exited"
      \/ result' = "FILE_ERROR" /\ pc' = "exited" /\ failed' = TRUE
  BY Zenon DEF Open
<1>3. PICK L, m : Cut(L, m) /\ Behind(L.units, 0, m, rest)
  BY <1>1 DEF Tracked
<1>4. Laid(L, meant) /\ m \in 0 .. Len(L.units) /\ (sound => m = Len(L.units)) /\ Len(L.units) \in Nat
  BY <1>3 DEF Cut, Laid
<1>5. "NO_ERROR" \in results => Has(1) /\ Head(rest) = Signature /\ "NO_ERROR" \in ReadIhdr(Tail(rest))
  OBVIOUS
<1>6. CASE result' = "NO_ERROR" /\ "NO_ERROR" \in results /\ pc' = "colour" /\ hdr' = rest[3][2] /\ Skip(4)
           /\ failed' = failed
  <2>1. hdr' = Format!HeaderOf(meant)
    <3> HIDE DEF results
    <3> QED BY <1>1, <1>3, <1>4, <1>5, <1>6, HeaderKnown
  <2>2. PICK a \in Nat, b \in Nat : a = 0 /\ b = 4 /\ a + b = 4
    OBVIOUS
  <2>3. Behind(L.units, 4, m, rest')
    <3>1. rest' = SubSeq(rest, b + 1, Len(rest))
      BY <1>6, <2>2 DEF Skip
    <3>2. m \in Nat /\ Behind(L.units, a, m, rest)
      BY <1>3, <1>4, <2>2
    <3>3. Behind(L.units, a + b, m, SubSeq(rest, b + 1, Len(rest)))
      BY <3>2, BehindSkip
    <3> QED BY <2>2, <3>1, <3>3
  <2>4. Cut(L, m)'
    BY <1>1, <1>3, CutStays
  <2>5. pc' = "colour" /\ result' = "NO_ERROR" /\ meant' = meant
    BY <1>1, <1>6
  <2>6. (\E LL, mm : Cut(LL, mm) /\ Behind(LL.units, 4, mm, rest) /\ hdr = Format!HeaderOf(meant))'
    BY <2>1, <2>3, <2>4, <2>5
  <2> QED BY <2>5, <2>6 DEF Tracked, InLoop
<1>7. CASE result' # "NO_ERROR" /\ pc' = "exited" /\ ((result' \in results /\ failed' = failed) \/ failed' = TRUE)
  <2>1. sound => failed'
    <3>1. SUFFICES ASSUME sound, result' \in results PROVE FALSE
      BY <1>7
    <3>2. rest[1] = Signature /\ Has(1)
      <4>1. 1 \in 1 .. L.n
        BY <1>4 DEF Laid
      <4>2. L.start[1 + 1] <= Len(L.units) /\ L.start[1 + 1] \in Nat /\ L.start[1 + 1] = L.start[1] + 3 + Size(L, 1)
            /\ L.start[1] \in Nat /\ Size(L, 1) \in Nat
        BY <1>4, <4>1, LaidSizes
      <4>3. PICK a \in Nat, b \in Nat \ {0} : a = 0 /\ b = 1
        OBVIOUS
      <4>4. Len(rest) >= 1 /\ rest[1] = L.units[0 + 1]
        <5>1. Behind(L.units, a, m, rest) /\ m \in Nat
          BY <1>3, <1>4, <4>3
        <5>2. a + b <= m
          BY <1>4, <3>1, <4>2, <4>3
        <5>3. Len(rest) >= b /\ rest[b] = L.units[a + b]
          BY <5>1, <5>2, BehindUnit
        <5> QED BY <4>3, <5>3
      <4>5. L.units[0 + 1] = Signature
        BY <1>4 DEF Laid
      <4> QED BY <4>4, <4>5 DEF Has
    <3>3. Head(rest) = rest[1]
      <4>1. rest # <<>>
        BY <1>1, <3>2 DEF Has
      <4> QED BY <1>1, <4>1
    <3>4. ReadIhdr(Tail(rest)) = {"NO_ERROR"}
      BY <1>1, <1>3, <1>4, <3>1, <3>2, <3>3, HeaderKnown
    <3>5. results = {"NO_ERROR"}
      BY <3>2, <3>3, <3>4
    <3> HIDE DEF results
    <3> QED BY <1>7, <3>1, <3>5
  <2> QED BY <1>1, <1>7, <2>1 DEF Tracked, InLoop
<1> HIDE DEF results
<1> QED BY <1>2, <1>6, <1>7

\* The caller takes colours, which pictures have (image.c).
LEMMA GetDataTracks ==
  ASSUME Memory, Tracked, Known, GetData
  PROVE  Tracked'
<1>1. /\ pc = "colour" /\ UNCHANGED <<meant, sound, rest, png_data, zs, hdr, failed>> /\ zs = Null
      /\ png_data = Null
  BY DEF GetData, Memory, Fields, Before
<1>2. PICK L, m : Cut(L, m) /\ Behind(L.units, 4, m, rest) /\ hdr = Format!HeaderOf(meant)
  BY <1>1 DEF Tracked
<1>3. Laid(L, meant)
  BY <1>2 DEF Cut
<1>4. hdr.colour \in {"rgb", "rgba"}
  BY <1>2, <1>3 DEF Laid, Pictured, Format!HeaderOf
<1>5. pc' = "chunk" /\ result' = result
  BY <1>4 DEF GetData
<1>6. 1 \in 1 .. L.n /\ L.start[1] = 4 /\ L.given[1] = <<>> /\ ~L.ended[1]
  BY <1>3 DEF Laid
<1>7. Taken(L, 1)'
  <2>1. 1 .. 1 - 1 = {}
    OBVIOUS
  <2> QED BY <1>1, <1>2, <1>6, <2>1 DEF Taken
<1>8. AtChunk(L, m, 1)'
  BY <1>1, <1>2, <1>5, <1>6 DEF AtChunk
<1> QED BY <1>1, <1>2, <1>5, <1>6, <1>7, <1>8, GoesOn DEF InLoop

\* Where the loop is with a file, and what that means for the sizes
LEMMA AtChunkSizes ==
  ASSUME NEW L, NEW m, Cut(L, m), NEW k \in 1 .. L.n
  PROVE  /\ Laid(L, meant) /\ ChunkLaid(L, k) /\ m \in Nat /\ L.n \in Nat
         /\ \E s, z \in Nat : /\ s = L.start[k] /\ z = Size(L, k) /\ L.start[k + 1] = s + 3 + z
                              /\ sound => s + 3 + z <= m
<1>1. Laid(L, meant) /\ m \in 0 .. Len(L.units) /\ (sound => m = Len(L.units)) /\ Len(L.units) \in Nat
  <2>1. Laid(L, meant) /\ m \in 0 .. Len(L.units) /\ (sound => m = Len(L.units))
    BY Zenon DEF Cut
  <2>2. L.units \in Seq(Unit)
    BY <2>1, Zenon DEF Laid
  <2> QED BY <2>1, <2>2
<1>2. ChunkLaid(L, k) /\ L.n \in Nat
  BY <1>1 DEF Laid
<1>3. /\ L.start[k] \in Nat /\ Size(L, k) \in Nat
      /\ L.start[k + 1] = L.start[k] + 3 + Size(L, k) /\ L.start[k + 1] <= Len(L.units)
  BY <1>1, LaidSizes
<1> QED BY <1>1, <1>2, <1>3

\* The same, as numbers
LEMMA AtChunkEnds ==
  ASSUME NEW L, NEW m, Cut(L, m), NEW k \in 1 .. L.n
  PROVE  /\ L.start[k] \in Nat /\ Size(L, k) \in Nat /\ L.start[k + 1] = L.start[k] + 3 + Size(L, k)
         /\ sound => L.start[k] + 3 + Size(L, k) <= m
<1>1. PICK s \in Nat, z \in Nat : /\ s = L.start[k] /\ z = Size(L, k) /\ L.start[k + 1] = s + 3 + z
                                  /\ sound => s + 3 + z <= m
  BY AtChunkSizes
<1> QED BY <1>1

\* A chunk's length and type as they are read (pnglite.c:556-569)
LEMMA ChunkRead ==
  ASSUME rest \in Seq(Unit), Has(2), NEW L, NEW m, Cut(L, m), NEW k \in 1 .. L.n,
         Behind(L.units, L.start[k], m, rest)
  PROVE  /\ Lengths = {Size(L, k)}
         /\ rest[2] = Type("IDAT") <=> Carries(L, k)
         /\ rest[2] = Type("IEND") <=> k = L.n
<1>1. PICK s \in Nat, z \in Nat : s = L.start[k] /\ z = Size(L, k)
  BY AtChunkSizes
<1>2. ChunkLaid(L, k) /\ m \in Nat
  BY AtChunkSizes
<1>3. Len(rest) >= 1 /\ Len(rest) >= 2
  BY DEF Has
<1>4. rest[1] = L.units[s + 1] /\ rest[2] = L.units[s + 2]
  <2>1. Behind(L.units, s, m, rest)
    BY <1>1
  <2>2. \A i \in Nat \ {0} : Len(rest) >= i => rest[i] = L.units[s + i]
    BY <1>2, <2>1, BehindUnit
  <2> QED BY <1>3, <2>2
<1>5. rest[1] = Word(z) /\ Word(z)[1] = "word" /\ Word(z)[2] = z
  BY <1>1, <1>2, <1>4 DEF ChunkLaid, Word
<1>6. Lengths = {z}
  BY <1>5 DEF Lengths
<1> QED BY <1>1, <1>2, <1>4, <1>6 DEF ChunkLaid, Carries

\* The next chunk, or none (pnglite.c:556-597, 770-783)
LEMMA ChunkTracks ==
  ASSUME Memory, Tracked, Known, NoChunk \/ Iend \/ SkipChunk \/ Idat
  PROVE  Tracked'
<1>1. /\ pc = "chunk" /\ UNCHANGED <<meant, sound, hdr, zs, readbuf>> /\ rest \in Seq(Unit)
      /\ zs # Null => png_data # Null
      /\ failed => failed'
      /\ sound /\ ~failed => result = "NO_ERROR"
  BY DEF NoChunk, Iend, SkipChunk, Idat, NextChunk, Memory, Types, Fits, InLoop, Tracked
<1>2. PICK L, m : OnTrack(L, m)
  BY <1>1 DEF Tracked, InLoop
<1>3. PICK k \in 1 .. L.n : Cut(L, m) /\ Taken(L, k) /\ AtChunk(L, m, k)
  BY <1>2 DEF OnTrack
<1>4. PICK s \in Nat, z \in Nat : /\ s = L.start[k] /\ z = Size(L, k) /\ L.start[k + 1] = s + 3 + z
                                  /\ sound => s + 3 + z <= m
  BY <1>3, AtChunkSizes
<1>5. Laid(L, meant) /\ ChunkLaid(L, k) /\ m \in Nat /\ L.n \in Nat /\ k \in Nat
  BY <1>3, AtChunkSizes
<1>6. Behind(L.units, s, m, rest) /\ hdr = Format!HeaderOf(meant)
  BY <1>1, <1>3, <1>4 DEF AtChunk, Taken
<1>7. ASSUME Has(2)
      PROVE  /\ Lengths = {z} /\ (rest[2] = Type("IDAT") <=> Carries(L, k))
             /\ (rest[2] = Type("IEND") <=> k = L.n)
  BY <1>1, <1>3, <1>4, <1>6, <1>7, ChunkRead
<1>8. CASE NoChunk
  <2>1. sound => Has(2)
    <3>1. SUFFICES ASSUME sound PROVE Len(rest) >= 2
      BY DEF Has
    <3>2. s + 2 <= m
      BY <1>4, <1>5, <3>1
    <3>3. 2 \in Nat \ {0}
      OBVIOUS
    <3> QED BY <1>5, <1>6, <3>2, <3>3, BehindUnit
  <2>2. pc' = "cleanup" /\ result' # "DONE" /\ ~Has(2)
    BY <1>8 DEF NoChunk
  <2> QED BY <1>1, <1>6, <2>1, <2>2, GivesUp
<1>9. CASE Iend
  <2>1. Has(2) /\ pc' = "cleanup" /\ result' = "DONE" /\ png_data' = png_data /\ rest[2] = Type("IEND")
    BY <1>9 DEF Iend, NextChunk
  <2>2. k = L.n /\ ~Carries(L, k)
    <3>1. Type("IEND") # Type("IDAT")
      BY DEF Type
    <3> QED BY <1>7, <2>1, <3>1
  <2>3. ASSUME NEW j \in 1 .. L.n, Carries(L, j) PROVE Size(L, j) > 0 /\ zs # Null
    <3>1. j \in 1 .. k - 1
      BY <1>5, <2>2, <2>3
    <3> QED BY <1>3, <2>3, <3>1 DEF Taken
  <2>4. Complete(L, meant)
    <3>1. \A j \in 1 .. L.n : Carries(L, j) => Size(L, j) # 0
      BY <2>3
    <3> QED BY <1>5, <3>1 DEF Laid
  <2>5. zs # Null /\ png_data # Null
    BY <1>1, <2>3, <2>4 DEF Complete
  <2>6. png_data \in Seq(Byte) /\ L.given[k] \in Seq(Byte)
    <3>1. png_data \in Seq(Byte) \cup {Null}
      BY DEF Memory, Types
    <3> QED BY <1>5, <2>5, <3>1, LaidSizes
  <2>7. /\ Len(png_data) = Len(L.given[k]) /\ \A i \in 1 .. Len(L.given[k]) : png_data[i] = L.given[k][i]
    BY <1>3, <1>6, <2>2, <2>4, <2>5 DEF Taken, Complete
  <2>8. png_data = L.given[k]
    BY <2>6, <2>7, SameSequence
  <2>9. Inflated(meant)
    <3>1. Encoded(png_data, meant)
      <4>1. Encoded(L.given[L.n], meant)
        BY <2>4 DEF Complete
      <4> QED BY <2>2, <2>8, <4>1
    <3>2. \E filters : Encodes(png_data, meant, filters)
      BY <3>1 DEF Encoded
    <3> QED BY <1>5, <1>6, <2>2, <2>4, <2>5, <3>2 DEF Inflated, Complete, Laid
  <2>10. Inflated(meant)'
    BY <1>1, <2>1, <2>9 DEF Inflated
  <2> QED BY <1>1, <1>6, <2>1, <2>10 DEF Tracked, InLoop
<1>10. CASE SkipChunk
  <2>1. /\ Has(2) /\ pc' = "chunk" /\ result' = result /\ png_data' = png_data
        /\ rest[2] \notin {Type("IDAT"), Type("IEND")} /\ \E n \in Lengths : Skip(2 + n + 1)
    BY <1>10 DEF SkipChunk
  <2>2. ~Carries(L, k) /\ k # L.n /\ Skip(2 + z + 1)
    BY <1>7, <2>1
  <2>3. k + 1 \in 1 .. L.n
    BY <1>5, <2>2
  <2>4. Behind(L.units, L.start[k + 1], m, rest')
    <3>1. PICK n \in Nat : n = 2 + z + 1 /\ s + n = L.start[k + 1]
      BY <1>4
    <3>2. rest' = SubSeq(rest, n + 1, Len(rest))
      BY <2>2, <3>1 DEF Skip
    <3>3. Behind(L.units, s + n, m, SubSeq(rest, n + 1, Len(rest)))
      BY <1>5, <1>6, BehindSkip
    <3> QED BY <3>1, <3>2, <3>3
  <2>5. L.given[k + 1] = L.given[k] /\ L.ended[k + 1] = L.ended[k]
    BY <1>5, <2>2 DEF ChunkLaid
  <2>6. Taken(L, k + 1)'
    <3>1. \A j \in 1 .. k + 1 - 1 : j = k \/ j \in 1 .. k - 1
      BY <1>5
    <3> QED BY <1>1, <1>3, <2>1, <2>2, <2>5, <3>1 DEF Taken
  <2>7. AtChunk(L, m, k + 1)'
    BY <2>1, <2>4 DEF AtChunk
  <2> QED BY <1>1, <1>3, <2>1, <2>3, <2>6, <2>7, GoesOn DEF InLoop
<1>11. CASE Idat
  <2>1. Has(2) /\ rest[2] = Type("IDAT") /\ Skip(2) /\ length' \in Lengths
    BY <1>11 DEF Idat, NextChunk
  <2>2. Carries(L, k) /\ length' = z
    BY <1>7, <2>1
  <2>3. \/ /\ pc' = "inflate_init" /\ result' = result
           /\ (png_data # Null /\ png_data' = png_data)
                \/ (png_data = Null /\ \E g \in Garbage : png_data' = [i \in 1 .. DataLength(hdr) |-> g])
        \/ pc' = "cleanup" /\ result' = "MEMORY_ERROR" /\ failed'
    BY <1>11 DEF Idat
  <2>4. CASE pc' = "cleanup" /\ result' = "MEMORY_ERROR" /\ failed'
    BY <1>1, <1>6, <2>4, GivesUp
  <2>5. CASE /\ pc' = "inflate_init" /\ result' = result
             /\ (png_data # Null /\ png_data' = png_data)
                  \/ (png_data = Null /\ \E g \in Garbage : png_data' = [i \in 1 .. DataLength(hdr) |-> g])
    <3>1. Behind(L.units, s + 2, m, rest')
      <4>1. PICK n \in Nat : n = 2
        OBVIOUS
      <4>2. rest' = SubSeq(rest, n + 1, Len(rest))
        BY <2>1, <4>1 DEF Skip
      <4>3. Behind(L.units, s + n, m, SubSeq(rest, n + 1, Len(rest)))
        BY <1>5, <1>6, BehindSkip
      <4> QED BY <4>1, <4>2, <4>3
    <3>2. Taken(L, k)'
      <4>1. CASE png_data # Null /\ png_data' = png_data
        BY <1>1, <1>3, <4>1 DEF Taken
      <4>2. CASE png_data = Null /\ \E g \in Garbage : png_data' = [i \in 1 .. DataLength(hdr) |-> g]
        <5>1. PICK g \in Garbage : png_data' = [i \in 1 .. DataLength(hdr) |-> g]
          BY <4>2
        <5>2. DataLength(hdr) \in Nat
          <6>1. hdr \in HeaderSet
            BY <1>1, NotNull DEF Memory, Types, Fields, InLoop
          <6> QED BY <6>1, Sizes
        <5>3. Len(png_data') = DataLength(hdr)
          <6>1. PICK n \in Nat : n = DataLength(hdr)
            BY <5>2
          <6>2. Len([i \in 1 .. n |-> g]) = n
            OBVIOUS
          <6> QED BY <5>1, <6>1, <6>2
        <5>4. zs = Null /\ DataLength(hdr)' = DataLength(hdr)
          BY <1>1, <4>2 DEF DataLength, LineLength
        <5> QED BY <1>1, <1>3, <5>3, <5>4 DEF Taken
      <4> QED BY <2>5, <4>1, <4>2
    <3>3. AtChunk(L, m, k)'
      BY <1>4, <2>2, <2>5, <3>1 DEF AtChunk
    <3> QED BY <1>1, <1>3, <2>5, <3>2, <3>3, GoesOn DEF InLoop
  <2> QED BY <2>3, <2>4, <2>5
<1> QED BY <1>8, <1>9, <1>10, <1>11

\* png_init_inflate (pnglite.c:402-418)
LEMMA InitInflateTracks ==
  ASSUME Memory, Tracked, Known, InitInflate
  PROVE  Tracked'
<1>1. /\ pc = "inflate_init" /\ UNCHANGED <<meant, sound, hdr, png_data, rest, length>>
      /\ failed => failed'
  BY DEF InitInflate
<1>2. \/ zs # Null /\ zs' = zs /\ pc' = "read_idat" /\ result' = result
      \/ zs = Null /\ zs' = Stream("open", <<>>) /\ pc' = "read_idat" /\ result' = result
      \/ pc' = "cleanup" /\ result' # "DONE" /\ failed'
  BY DEF InitInflate
<1>3. PICK L, m : OnTrack(L, m)
  BY <1>1 DEF Tracked, InLoop
<1>4. PICK k \in 1 .. L.n : Cut(L, m) /\ Taken(L, k) /\ AtChunk(L, m, k)
  BY <1>3 DEF OnTrack
<1>5. CASE pc' = "cleanup" /\ result' # "DONE" /\ failed'
  BY <1>1, <1>4, <1>5, GivesUp DEF Taken
<1>6. CASE pc' = "read_idat" /\ result' = result /\ (zs = Null => zs' = Stream("open", <<>>))
           /\ (zs # Null => zs' = zs)
  <2>1. Stream("open", <<>>) # Null
    <3>1. Stream("open", <<>>) \in StreamSet
      BY DEF Stream, StreamSet
    <3> QED BY <3>1, NotNull
  <2>2. AtChunk(L, m, k)'
    BY <1>1, <1>4, <1>6 DEF AtChunk
  <2>3. Taken(L, k)'
    <3>1. CASE zs = Null
      <4>1. zs' = Stream("open", <<>>) /\ zs' # Null /\ L.given[k] = <<>> /\ ~L.ended[k]
        BY <1>4, <1>6, <2>1, <3>1 DEF Taken
      <4>2. 1 .. Len(<<>>) = {}
        OBVIOUS
      <4> QED BY <1>1, <1>4, <4>1, <4>2 DEF Taken, DataLength, LineLength
    <3>2. CASE zs # Null
      BY <1>1, <1>4, <1>6, <3>2 DEF Taken, DataLength, LineLength
    <3> QED BY <3>1, <3>2
  <2> QED BY <1>1, <1>4, <1>6, <2>2, <2>3, GoesOn DEF InLoop
<1> QED BY <1>2, <1>5, <1>6

\* The buffer (pnglite.c:511-535)
LEMMA BufferTracks ==
  ASSUME Memory, Tracked, Known, Buffer
  PROVE  Tracked'
<1>1. /\ pc = "read_idat" /\ UNCHANGED <<meant, sound, hdr, png_data, zs, rest, length>>
      /\ failed => failed'
  BY DEF Buffer
<1>2. \/ pc' = "load" /\ result' = result
      \/ pc' = "cleanup" /\ result' # "DONE" /\ failed'
  BY DEF Buffer
<1>3. PICK L, m : OnTrack(L, m)
  BY <1>1 DEF Tracked, InLoop
<1>4. PICK k \in 1 .. L.n : Cut(L, m) /\ Taken(L, k) /\ AtChunk(L, m, k)
  BY <1>3 DEF OnTrack
<1>5. CASE pc' = "cleanup" /\ result' # "DONE" /\ failed'
  BY <1>1, <1>4, <1>5, GivesUp DEF Taken
<1>6. CASE pc' = "load" /\ result' = result
  <2>1. AtChunk(L, m, k)'
    BY <1>1, <1>4, <1>6 DEF AtChunk
  <2>2. Taken(L, k)'
    BY <1>1, <1>4 DEF Taken, DataLength, LineLength
  <2> QED BY <1>1, <1>4, <1>6, <2>1, <2>2, GoesOn DEF InLoop
<1> QED BY <1>2, <1>5, <1>6

\* The content and the check sum of a chunk (pnglite.c:537-552)
LEMMA LoadTracks ==
  ASSUME Memory, Tracked, Known, Load
  PROVE  Tracked'
<1>1. /\ pc = "load" /\ UNCHANGED <<meant, sound, hdr, png_data, zs, failed>> /\ rest \in Seq(Unit)
      /\ Skip(length + 1)
  BY DEF Load, Memory, Types
<1>2. PICK L, m : OnTrack(L, m)
  BY <1>1 DEF Tracked, InLoop
<1>3. PICK k \in 1 .. L.n : Cut(L, m) /\ Taken(L, k) /\ AtChunk(L, m, k)
  BY <1>2 DEF OnTrack
<1>4. PICK s \in Nat, z \in Nat : /\ s = L.start[k] /\ z = Size(L, k) /\ L.start[k + 1] = s + 3 + z
                                  /\ sound => s + 3 + z <= m
  <2>1. /\ L.start[k] \in Nat /\ Size(L, k) \in Nat /\ L.start[k + 1] = L.start[k] + 3 + Size(L, k)
        /\ sound => L.start[k] + 3 + Size(L, k) <= m
    BY <1>3, Zenon, AtChunkEnds
  <2> QED BY <2>1
<1>5. Laid(L, meant) /\ ChunkLaid(L, k) /\ m \in Nat
  BY <1>3, AtChunkSizes
<1>6. PICK a \in Nat : /\ a = s + 2 /\ Behind(L.units, a, m, rest) /\ length = z /\ Carries(L, k)
                       /\ hdr = Format!HeaderOf(meant)
  <2>1. s + 2 \in Nat
    OBVIOUS
  <2> QED BY <2>1, <1>1, <1>3, <1>4 DEF AtChunk, Taken
<1>7. \A i \in Nat \ {0} : (Len(rest) >= i <=> a + i <= m) /\ (a + i <= m => rest[i] = L.units[a + i])
  <2>1. TAKE i \in Nat \ {0}
  <2>2. Behind(L.units, a, m, rest) /\ m \in Nat
    BY <1>5, <1>6
  <2> QED BY <2>2, BehindUnit
<1>8. CASE ~Has(length)
  <2>1. pc' = "cleanup" /\ result' = "FILE_ERROR"
    BY <1>8 DEF Load
  <2>2. ~sound
    <3>1. SUFFICES ASSUME sound PROVE Has(z)
      BY <1>6, <1>8
    <3>2. a + z <= m
      BY <1>4, <1>5, <1>6, <3>1
    <3>3. Len(rest) >= z
      <4>1. CASE z = 0
        BY <1>1, <4>1
      <4>2. CASE z # 0
        BY <1>7, <3>2, <4>2
      <4> QED BY <4>1, <4>2
    <3> QED BY <3>3 DEF Has
  <2> QED BY <1>1, <1>6, <2>1, <2>2, GivesUp
<1>9. CASE Has(length)
  <2>1. /\ readbuf' = SubSeq(rest, 1, length)
        /\ \/ pc' = "inflate" /\ result' = result
           \/ /\ pc' = "cleanup" /\ result' = "CRC_ERROR"
              /\ Has(length + 1) => rest[length + 1] # Crc("IDAT", readbuf')
    BY <1>9 DEF Load
  <2>2. readbuf' = Content(L, k)
    <3>1. PICK b \in Nat : b = 0
      OBVIOUS
    <3>2. \A i \in b + 1 .. b + z : i \in 1 .. Len(rest) /\ rest[i] \in Unit
      BY <1>1, <1>6, <1>9, <3>1 DEF Has
    <3>3. /\ SubSeq(rest, b + 1, b + z) \in Seq(Unit) /\ Len(SubSeq(rest, b + 1, b + z)) = z
          /\ \A i \in 1 .. z : SubSeq(rest, b + 1, b + z)[i] = rest[b + i]
      BY <3>2, Piece
    <3>4. SubSeq(rest, b + 1, b + z) = readbuf'
      BY <1>6, <2>1, <3>1
    <3>5. PICK c \in Seq(Unit) : c = readbuf' /\ Len(c) = z /\ \A i \in 1 .. z : c[i] = rest[b + i]
      BY <3>3, <3>4
    <3>6. Content(L, k) \in Seq(Unit) /\ Len(Content(L, k)) = z
      BY <1>4, <1>5, ContentType
    <3>7. \A i \in 1 .. z : Content(L, k)[i] = L.units[a + i]
      BY <1>4, <1>6 DEF Content
    <3>8. \A i \in 1 .. z : rest[b + i] = L.units[a + i]
      <4>1. TAKE i \in 1 .. z
      <4>2. i \in Nat \ {0} /\ Len(rest) >= i /\ b + i = i
        BY <1>1, <1>6, <1>9, <3>1 DEF Has
      <4> QED BY <1>7, <4>2
    <3>9. c = Content(L, k)
      BY <3>5, <3>6, <3>7, <3>8, SameSequence
    <3> QED BY <3>5, <3>9
  <2>3. CASE pc' = "cleanup" /\ result' = "CRC_ERROR"
    <3>1. ~sound
      <4>1. SUFFICES ASSUME sound PROVE FALSE
        OBVIOUS
      <4>2. PICK i \in Nat \ {0} : i = z + 1 /\ a + i = L.start[k + 1]
        BY <1>4, <1>6
      <4>3. a + i <= m
        BY <1>4, <1>5, <1>6, <4>1, <4>2
      <4>4. Has(length + 1) /\ rest[length + 1] = L.units[L.start[k + 1]]
        BY <1>6, <1>7, <4>2, <4>3 DEF Has
      <4>5. L.units[L.start[k + 1]] = Crc("IDAT", Content(L, k))
        BY <1>5, <1>6 DEF ChunkLaid
      <4> QED BY <2>1, <2>2, <2>3, <4>4, <4>5
    <3> QED BY <1>1, <1>6, <2>3, <3>1, GivesUp
  <2>4. CASE pc' = "inflate" /\ result' = result
    <3>1. Behind(L.units, L.start[k + 1], m, rest')
      <4>1. PICK n \in Nat : n = z + 1 /\ a + n = L.start[k + 1]
        BY <1>4, <1>6
      <4>2. rest' = SubSeq(rest, n + 1, Len(rest))
        BY <1>1, <1>6, <4>1 DEF Skip
      <4>3. Behind(L.units, a + n, m, SubSeq(rest, n + 1, Len(rest)))
        BY <1>5, <1>6, BehindSkip
      <4> QED BY <4>1, <4>2, <4>3
    <3>2. AtChunk(L, m, k)'
      BY <1>6, <2>2, <2>4, <3>1 DEF AtChunk
    <3>3. Taken(L, k)'
      BY <1>1, <1>3 DEF Taken, DataLength, LineLength
    <3> QED BY <1>1, <1>3, <2>4, <3>2, <3>3, GoesOn DEF InLoop
  <2> QED BY <2>1, <2>3, <2>4
<1> QED BY <1>8, <1>9

\* A chunk of symbols is inflated as a whole (pnglite.c:420-451).
LEMMA InflateTracks ==
  ASSUME Memory, Tracked, Known, InflateIdat
  PROVE  Tracked'
<1>1. /\ pc = "inflate" /\ UNCHANGED <<meant, sound, hdr, rest, failed>>
      /\ png_data \in Seq(Byte) /\ zs # Null /\ png_data # Null
  BY DEF InflateIdat, Memory, Types, Fields, InLoop
<1>2. PICK L, m : OnTrack(L, m)
  BY <1>1 DEF Tracked, InLoop
<1>3. PICK k \in 1 .. L.n : Cut(L, m) /\ Taken(L, k) /\ AtChunk(L, m, k)
  BY <1>2 DEF OnTrack
<1>4. Laid(L, meant) /\ ChunkLaid(L, k) /\ m \in Nat /\ L.n \in Nat /\ k \in Nat
  BY <1>3, AtChunkSizes
<1>5. /\ Carries(L, k) /\ readbuf = Content(L, k) /\ Behind(L.units, L.start[k + 1], m, rest)
      /\ hdr = Format!HeaderOf(meant)
  BY <1>1, <1>3 DEF AtChunk, Taken
<1>6. /\ Content(L, k) \in Seq(Unit) /\ Len(Content(L, k)) = Size(L, k) /\ Size(L, k) \in Nat
      /\ L.given[k] \in Seq(Byte) /\ L.given[k + 1] \in Seq(Byte) /\ L.ended[k + 1] \in BOOLEAN
  BY <1>4, ContentType, LaidSizes
<1>7. /\ zs = Stream("open", L.given[k]) /\ zs.state = "open" /\ zs.out = L.given[k]
      /\ Len(png_data) = DataLength(hdr)
      /\ \A i \in 1 .. Len(L.given[k]) : png_data[i] = L.given[k][i]
  <2>1. ~L.ended[k]
    BY <1>4, <1>5 DEF ChunkLaid
  <2> QED BY <1>1, <1>3, <2>1 DEF Taken, Stream
<1> DEFINE z == Inflate(zs, readbuf)
           left == SubSeq(png_data, Len(z.stream.out) + 1, Len(png_data))
<1>8. /\ zs' = z.stream /\ png_data' = z.stream.out \o left
      /\ IF (readbuf = <<>> /\ zs.state # "end") \/ z.stream.state = "error" \/ z.unread > 0
         THEN pc' = "cleanup" /\ result' = "ZLIB_ERROR" ELSE pc' = "chunk" /\ result' = result
  BY DEF InflateIdat
<1>9. CASE Size(L, k) = 0
  <2>1. readbuf = <<>>
    BY <1>5, <1>6, <1>9
  <2>2. pc' = "cleanup" /\ result' = "ZLIB_ERROR"
    <3> HIDE DEF z
    <3> QED BY <1>7, <1>8, <2>1
  <2>3. ~sound
    BY <1>3, <1>5, <1>9 DEF Cut, NoneEmpty
  <2> QED BY <1>1, <1>5, <2>2, <2>3, GivesUp
<1>10. CASE Size(L, k) # 0
  <2>1. PICK q : /\ Symbols(readbuf, q, L.ended[k + 1])
                 /\ L.given[k + 1] = L.given[k] \o Expanded(readbuf, q)
    BY <1>4, <1>5 DEF ChunkLaid
  <2>2. Expanded(readbuf, q) \in Seq(Byte)
    BY <1>5, <1>6, <2>1, ExpandedType DEF Symbols
  <2>3. Len(L.given[k + 1]) <= Len(png_data)
    BY <1>4, <1>5, <1>7 DEF Laid
  <2>4. PICK x \in Nat, y \in Nat, w \in Nat :
          x = Len(L.given[k]) /\ y = Len(Expanded(readbuf, q)) /\ w = Len(png_data)
    <3>1. Len(L.given[k]) \in Nat
      BY <1>6
    <3>2. Len(Expanded(readbuf, q)) \in Nat
      BY <2>2
    <3>3. Len(png_data) \in Nat
      BY <1>1
    <3> QED BY <3>1, <3>2, <3>3, Zenon
  <2>5. /\ Len(L.given[k + 1]) = x + y /\ x + y <= w
        /\ \A i \in 1 .. x : L.given[k + 1][i] = L.given[k][i]
    BY <1>6, <2>1, <2>2, <2>3, <2>4, ConcatProperties
  <2>6. /\ z.unread = 0
        /\ z.stream = Stream(IF L.ended[k + 1] THEN "end" ELSE "open", L.given[k + 1])
    <3>1. PICK room \in Nat : room = w - x /\ y <= room
      BY <2>5
    <3>2. room = Len(png_data) - Len(zs.out) /\ Len(Expanded(readbuf, q)) <= room
      BY <1>7, <2>4, <3>1
    <3>3. /\ Inflate(zs, readbuf).unread = 0
          /\ Inflate(zs, readbuf).stream
               = Stream(IF L.ended[k + 1] THEN "end" ELSE "open", zs.out \o Expanded(readbuf, q))
      BY <1>5, <1>6, <1>7, <2>1, <3>2, InflateAll
    <3> QED BY <1>7, <2>1, <3>3
  <2> DEFINE state == IF L.ended[k + 1] THEN "end" ELSE "open"
  <2>7. z.stream.out = L.given[k + 1] /\ z.stream.state = state
    <3>1. Stream(state, L.given[k + 1]).out = L.given[k + 1] /\ Stream(state, L.given[k + 1]).state = state
      BY DEF Stream
    <3> HIDE DEF z
    <3> QED BY <2>6, <3>1
  <2>8. readbuf # <<>>
    BY <1>5, <1>6, <1>10
  <2>9. pc' = "chunk" /\ result' = result
    <3>1. ~ (0 > 0) /\ state # "error"
      OBVIOUS
    <3> HIDE DEF z, state
    <3> QED BY <1>8, <2>6, <2>7, <2>8, <3>1
  <2>10. k + 1 \in 1 .. L.n
    <3>1. k # L.n
      <4>1. Type("IEND") # Type("IDAT")
        BY DEF Type
      <4> QED BY <1>4, <1>5, <4>1 DEF ChunkLaid, Carries
    <3> QED BY <1>4, <3>1
  <2>11. AtChunk(L, m, k + 1)'
    BY <1>1, <1>5, <2>9 DEF AtChunk
  <2>12. Taken(L, k + 1)'
    <3>1. PICK g \in Seq(Byte) : g = L.given[k + 1]
      BY <1>6
    <3>2. png_data' = g \o SubSeq(png_data, x + y + 1, w) /\ Len(g) = x + y
      <4> HIDE DEF z
      <4> QED BY <1>8, <2>4, <2>5, <2>7, <3>1
    <3>3. PICK r \in Nat, v \in Nat : v = x + y /\ w = v + r
      <4>1. x + y \in Nat /\ w - (x + y) \in Nat /\ w = (x + y) + (w - (x + y))
        BY <2>5
      <4> QED BY <4>1
    <3>4. \A i \in v + 1 .. v + r : png_data[i] \in Byte
      <4>1. PICK d \in Seq(Byte) : d = png_data
        BY <1>1
      <4>2. Len(d) = v + r
        BY <2>4, <3>3, <4>1
      <4>3. \A i \in v + 1 .. v + r : i \in 1 .. v + r
        OBVIOUS
      <4> QED BY <4>1, <4>2, <4>3
    <3>5. SubSeq(png_data, v + 1, v + r) \in Seq(Byte) /\ Len(SubSeq(png_data, v + 1, v + r)) = r
      BY <3>4, Piece
    <3>6. PICK t \in Seq(Byte) : t = SubSeq(png_data, x + y + 1, w) /\ Len(t) = r
      BY <3>3, <3>5
    <3>7. /\ g \o t \in Seq(Byte) /\ Len(g \o t) = v + r
          /\ \A i \in 1 .. v : (g \o t)[i] = g[i]
      <4>1. Len(g) = v /\ Len(t) = r
        BY <3>2, <3>3, <3>6
      <4>2. /\ g \o t \in Seq(Byte) /\ Len(g \o t) = Len(g) + Len(t)
            /\ \A i \in 1 .. Len(g) + Len(t) : (g \o t)[i] = IF i <= Len(g) THEN g[i] ELSE t[i - Len(g)]
        BY ConcatProperties
      <4>3. \A i \in 1 .. v : i \in 1 .. v + r /\ i <= v
        OBVIOUS
      <4> QED BY <4>1, <4>2, <4>3
    <3>8. Len(png_data') = DataLength(hdr) /\ \A i \in 1 .. Len(g) : png_data'[i] = g[i]
      BY <1>7, <2>4, <3>2, <3>3, <3>6, <3>7
    <3>9. DataLength(hdr)' = DataLength(hdr)
      BY <1>1 DEF DataLength, LineLength
    <3>10. zs' = Stream(state, L.given[k + 1]) /\ zs' # Null
      <4>1. zs' = Stream(state, L.given[k + 1])
        BY <1>8, <2>6
      <4>2. state \in {"open", "end"}
        OBVIOUS
      <4> HIDE DEF state
      <4>3. Stream(state, L.given[k + 1]) \in StreamSet
        BY <1>6, <4>2 DEF Stream, StreamSet
      <4> QED BY <4>1, <4>3, NotNull
    <3>11. \A j \in 1 .. k + 1 - 1 : j = k \/ j \in 1 .. k - 1
      BY <1>4
    <3>12. \A j \in 1 .. k + 1 - 1 : Carries(L, j) => Size(L, j) > 0 /\ zs' # Null
      <4>1. Size(L, k) > 0
        BY <1>6, <1>10
      <4>2. \A j \in 1 .. k - 1 : Carries(L, j) => Size(L, j) > 0
        BY <1>3 DEF Taken
      <4> QED BY <3>10, <3>11, <4>1, <4>2
    <3> QED BY <1>1, <1>5, <3>1, <3>8, <3>9, <3>10, <3>12 DEF Taken
  <2> QED BY <1>1, <1>3, <2>9, <2>10, <2>11, <2>12, GoesOn DEF InLoop
<1> QED BY <1>9, <1>10

\* After the loop (pnglite.c:710-768, 785-806): the lines of a picture are under known filters.
LEMMA EndTracks ==
  ASSUME Memory, Decoding, Tracked, Known, CleanUp \/ UnfilterLines \/ UnfilterDone \/ CloseFile
  PROVE  Tracked'
<1>1. UNCHANGED <<meant, sound, hdr, png_data, failed>>
  BY DEF CleanUp, UnfilterLines, UnfilterDone, CloseFile
<1>2. Inflated(meant)' <=> Inflated(meant)
  BY <1>1 DEF Inflated
<1>3. CASE CleanUp
  <2>1. pc = "cleanup" /\ result' = result /\ pc' = IF result = "DONE" THEN "unfilter" ELSE "close"
    BY <1>3 DEF CleanUp
  <2>2. CASE result = "DONE"
    BY <1>1, <1>2, <2>1, <2>2 DEF Tracked, InLoop
  <2>3. CASE result # "DONE"
    <3>1. result # "NO_ERROR"
      BY <2>1 DEF Decoding
    <3> QED BY <1>1, <1>2, <2>1, <2>3, <3>1 DEF Tracked, InLoop
  <2> QED BY <2>2, <2>3
<1>4. CASE UnfilterLines
  <2>1. pc = "unfilter" /\ pc' = "unfilter" /\ result' = result
    BY <1>4 DEF UnfilterLines
  <2> QED BY <1>1, <1>2, <2>1 DEF Tracked, InLoop
<1>5. CASE UnfilterDone
  <2>1. /\ pc = "unfilter" /\ pc' = "close"
        /\ result' = "NO_ERROR" \/ (pos < Lines /\ Filter \notin Filters)
    BY <1>5 DEF UnfilterDone
  <2>2. Inflated(meant)
    BY <2>1 DEF Tracked
  <2>3. pos < Lines => Filter \in Filters
    <3>1. SUFFICES ASSUME pos < Lines PROVE Filter \in Filters
      OBVIOUS
    <3>2. Pictured(meant) /\ hdr = Format!HeaderOf(meant) /\ png_data # Null
      BY <2>2 DEF Inflated
    <3>3. PICK filters : Encodes(png_data, meant, filters)
      BY <2>2 DEF Inflated
    <3>4. Lines = meant.height /\ LineLength(hdr) = Format!LineBytes(meant)
      BY <3>2, HeaderSizes DEF Lines
    <3>5. PICK y \in 1 .. meant.height : y = pos + 1 /\ y - 1 = pos
      BY <3>1, <3>2, <3>4 DEF Pictured, Memory, Types
    <3>6. 1 \in 1 .. Format!LineBytes(meant) + 1
      BY <3>2, PictureSizes
    <3>7. png_data[(y - 1) * (Format!LineBytes(meant) + 1) + 1] = Format!Filtered(meant, y, filters[y])[1]
      BY <3>3, <3>6 DEF Encodes
    <3>8. filters[y] \in Filters
      BY <3>3 DEF Encodes
    <3>9. Format!Filtered(meant, y, filters[y])[1] = filters[y]
      BY <3>2, <3>8, FilteredIs
    <3> QED BY <3>4, <3>5, <3>7, <3>8, <3>9 DEF Filter
  <2>4. result' = "NO_ERROR"
    BY <2>1, <2>3
  <2> QED BY <1>1, <1>2, <2>1, <2>2, <2>4 DEF Tracked, InLoop
<1>6. CASE CloseFile
  <2>1. pc = "close" /\ pc' = "exited" /\ result' = result
    BY <1>6 DEF CloseFile
  <2> QED BY <1>1, <1>2, <2>1 DEF Tracked, InLoop
<1> QED BY <1>3, <1>4, <1>5, <1>6

-----------------------------------------------------------------------------
\* Writing a picture

\* A sequence behind another, in parts
Joint(S, a, b, m, n) ==
  /\ a \o b \in Seq(S) /\ Len(a \o b) = m + n
  /\ \A i \in 1 .. m : (a \o b)[i] = a[i]
  /\ \A i \in 1 .. n : (a \o b)[m + i] = b[i]

\* Its parts
LEMMA Joining ==
  ASSUME NEW S, NEW a \in Seq(S), NEW b \in Seq(S), NEW m, NEW n, m = Len(a), n = Len(b)
  PROVE  Joint(S, a, b, m, n)
<1>1. m \in Nat /\ n \in Nat /\ Len(a) = m /\ Len(b) = n
  OBVIOUS
<1>2. /\ a \o b \in Seq(S) /\ Len(a \o b) = m + n
      /\ \A i \in 1 .. m + n : (a \o b)[i] = IF i <= m THEN a[i] ELSE b[i - m]
  <2>1. /\ a \o b \in Seq(S) /\ Len(a \o b) = Len(a) + Len(b)
        /\ \A i \in 1 .. Len(a) + Len(b) : (a \o b)[i] = IF i <= Len(a) THEN a[i] ELSE b[i - Len(a)]
    BY ConcatProperties
  <2> QED BY <1>1, <2>1
<1>3. \A i \in 1 .. m : i \in 1 .. m + n /\ i <= m
  BY <1>1
<1>4. \A i \in 1 .. n : m + i \in 1 .. m + n /\ ~ (m + i <= m) /\ m + i - m = i
  BY <1>1
<1>5. \A i \in 1 .. m : (a \o b)[i] = a[i]
  BY <1>2, <1>3
<1>6. \A i \in 1 .. n : (a \o b)[m + i] = b[i]
  BY <1>2, <1>4
<1> QED BY <1>2, <1>5, <1>6 DEF Joint

\* What the disk has of what was written
OnDisk(w) ==
  \E a \in 0 .. Len(w) : Behind(w, 0, a, rest) /\ (~full => a = Len(w))

\* Nobody looks at the result of file_write; when it takes less than it was given, the
\* rest is lost (pnglite.c:42-57).
LEMMA WriteKeeps ==
  ASSUME NEW w \in Seq(Unit), NEW units \in Seq(Unit), OnDisk(w), Write(units)
  PROVE  OnDisk(w \o units)'
<1>1. PICK a \in 0 .. Len(w) : Behind(w, 0, a, rest) /\ (~full => a = Len(w))
  BY DEF OnDisk
<1>2. PICK m \in Nat, n \in Nat : m = Len(w) /\ n = Len(units) /\ a \in 0 .. m
  <2>1. Len(w) \in Nat /\ Len(units) \in Nat
    OBVIOUS
  <2> QED BY <2>1, <1>1
<1> DEFINE v == w \o units
<1>3. /\ v \in Seq(Unit) /\ Len(v) = m + n /\ (\A i \in 1 .. m : v[i] = w[i])
      /\ \A i \in 1 .. n : v[m + i] = units[i]
  <2>1. Joint(Unit, w, units, m, n)
    BY <1>2, Joining
  <2> QED BY <2>1, Zenon DEF Joint
<1>4. rest \in Seq(Unit) /\ Len(rest) = a /\ \A i \in 1 .. a : rest[i] = w[0 + i]
  BY <1>1, <1>2 DEF Behind
<1> HIDE DEF v
<1>5. \A i \in 1 .. a : 0 + i = i /\ i \in 1 .. m
  BY <1>2
<1>6. ASSUME NEW k \in 0 .. n, NEW t \in Seq(Unit), Len(t) = k, \A i \in 1 .. k : t[i] = units[i],
             ~full, rest' = rest \o t, ~full' => k = n
      PROVE  OnDisk(v)'
  <2>1. a = m
    BY <1>1, <1>2, <1>6
  <2>2. /\ rest \o t \in Seq(Unit) /\ Len(rest \o t) = m + k
        /\ (\A i \in 1 .. m : (rest \o t)[i] = rest[i]) /\ \A i \in 1 .. k : (rest \o t)[m + i] = t[i]
    <3>1. PICK x \in Seq(Unit) : x = rest /\ Len(x) = m
      BY <1>4, <2>1
    <3>2. k \in Nat
      BY <1>2
    <3>3. /\ x \o t \in Seq(Unit) /\ Len(x \o t) = m + k
          /\ (\A i \in 1 .. m : (x \o t)[i] = x[i]) /\ \A i \in 1 .. k : (x \o t)[m + i] = t[i]
      <4>1. Len(x) = m /\ Len(t) = k
        BY <1>6, <3>1
      <4>2. /\ x \o t \in Seq(Unit) /\ Len(x \o t) = Len(x) + Len(t)
            /\ \A i \in 1 .. Len(x) + Len(t) : (x \o t)[i] = IF i <= Len(x) THEN x[i] ELSE t[i - Len(x)]
        BY ConcatProperties
      <4>3. \A i \in 1 .. m : i \in 1 .. m + k /\ i <= m
        BY <3>2
      <4>4. \A i \in 1 .. k : m + i \in 1 .. m + k /\ ~ (m + i <= m) /\ m + i - m = i
        BY <3>2
      <4> QED BY <4>1, <4>2, <4>3, <4>4
    <3> QED BY <3>1, <3>3
  <2>3. PICK r \in Seq(Unit) : r = rest'
    BY <1>6, <2>2
  <2>4. \A i \in 1 .. m + k : r[i] = v[0 + i]
    <3>1. TAKE i \in 1 .. m + k
    <3>2. CASE i <= m
      <4>1. i \in 1 .. m /\ 0 + i = i
        BY <3>2
      <4> QED BY <1>3, <1>4, <1>6, <2>1, <2>2, <2>3, <4>1
    <3>3. CASE ~ (i <= m)
      <4>1. PICK j \in 1 .. k : i = m + j /\ j \in 1 .. n /\ 0 + i = m + j
        <5>1. i - m \in 1 .. k /\ i = m + (i - m) /\ i - m \in 1 .. n /\ 0 + i = m + (i - m)
          BY <3>3
        <5> QED BY <5>1
      <4>2. r[m + j] = t[j]
        BY <1>6, <2>2, <2>3, <4>1
      <4>3. t[j] = units[j]
        BY <1>6, <4>1
      <4>4. v[m + j] = units[j]
        BY <1>3, <4>1
      <4> QED BY <4>1, <4>2, <4>3, <4>4
    <3> QED BY <3>2, <3>3
  <2>5. Behind(v, 0, m + k, r)
    <3>1. (IF 0 <= m + k THEN m + k - 0 ELSE 0) = m + k
      OBVIOUS
    <3>2. Len(r) = m + k
      BY <1>6, <2>2, <2>3
    <3> QED BY <2>3, <2>4, <3>1, <3>2 DEF Behind
  <2>6. m + k \in 0 .. Len(v) /\ (~full' => m + k = Len(v))
    BY <1>3, <1>6
  <2> QED BY <2>3, <2>5, <2>6 DEF OnDisk
<1>7. CASE ~full /\ rest' = rest \o units /\ full' = full
  <2>1. n \in 0 .. n
    OBVIOUS
  <2> QED BY <1>2, <1>6, <1>7, <2>1 DEF v
<1>8. CASE \E k \in 0 .. Len(units) - 1 :
             rest' = (IF full THEN rest ELSE rest \o SubSeq(units, 1, k)) /\ full' = TRUE
  <2>1. PICK k \in 0 .. n - 1 :
          rest' = (IF full THEN rest ELSE rest \o SubSeq(units, 1, k)) /\ full' = TRUE
    BY <1>2, <1>8
  <2>2. CASE full
    <3>1. rest' = rest /\ full'
      BY <2>1, <2>2
    <3>2. \A i \in 1 .. a : rest[i] = v[0 + i]
      BY <1>3, <1>4, <1>5
    <3>3. Behind(v, 0, a, rest)
      <4>1. (IF 0 <= a THEN a - 0 ELSE 0) = a
        BY <1>2
      <4> QED BY <1>4, <3>2, <4>1 DEF Behind
    <3>4. a \in 0 .. Len(v)
      BY <1>2, <1>3
    <3> QED BY <3>1, <3>3, <3>4 DEF OnDisk, v
  <2>3. CASE ~full
    <3>1. PICK b \in Nat : b = 0
      OBVIOUS
    <3>2. k \in Nat /\ \A i \in b + 1 .. b + k : units[i] \in Unit
      BY <1>2, <3>1
    <3>3. /\ SubSeq(units, b + 1, b + k) \in Seq(Unit) /\ Len(SubSeq(units, b + 1, b + k)) = k
          /\ \A i \in 1 .. k : SubSeq(units, b + 1, b + k)[i] = units[b + i]
      BY <3>2, Piece
    <3>4. PICK t \in Seq(Unit) : t = SubSeq(units, 1, k) /\ Len(t) = k /\ \A i \in 1 .. k : t[i] = units[i]
      <4>1. b + 1 = 1 /\ b + k = k /\ \A i \in 1 .. k : b + i = i
        BY <3>1
      <4> QED BY <3>3, <4>1
    <3>5. rest' = rest \o t /\ full' = TRUE /\ k \in 0 .. n
      BY <1>2, <2>1, <2>3, <3>4
    <3> QED BY <1>6, <2>3, <3>4, <3>5 DEF v
  <2> QED BY <2>2, <2>3
<1> QED BY <1>7, <1>8 DEF Write

\* A number has one quotient and one remainder.
LEMMA OneQuotient ==
  ASSUME NEW a \in Nat, NEW r \in Nat, NEW b \in Nat \ {0}, r < b
  PROVE  (b * a + r) \div b = a /\ (b * a + r) % b = r
<1>1. PICK k \in Nat : k = b * a + r
  <2>1. b * a \in Nat
    OBVIOUS
  <2> QED BY <2>1
<1>2. k \div b \in Nat /\ (k % b) \in 0 .. b - 1 /\ k = b * (k \div b) + (k % b)
  BY DivMod
<1>3. PICK q \in Nat, s \in 0 .. b - 1 : q = k \div b /\ s = k % b /\ k = b * q + s
  BY <1>2
<1>4. PICK u \in Nat, v \in Nat : u = b * a /\ v = b * q
  <2>1. b * a \in Nat /\ b * q \in Nat
    OBVIOUS
  <2> QED BY <2>1
<1>5. ~ (a < q)
  <2>1. SUFFICES ASSUME a < q PROVE FALSE
    OBVIOUS
  <2>2. b * (a + 1) <= b * q /\ b * (a + 1) = b * a + b
    BY <2>1, TimesKeeps
  <2> QED BY <1>1, <1>3, <1>4, <2>2
<1>6. ~ (q < a)
  <2>1. SUFFICES ASSUME q < a PROVE FALSE
    OBVIOUS
  <2>2. b * (q + 1) <= b * a /\ b * (q + 1) = b * q + b
    BY <2>1, TimesKeeps
  <2> QED BY <1>1, <1>3, <1>4, <2>2
<1>7. q = a
  BY <1>5, <1>6
<1>8. s = r
  BY <1>1, <1>3, <1>4, <1>7
<1> QED BY <1>1, <1>3, <1>7, <1>8

\* What png_set_data makes of a picture: each line with a 0 in front.
Rows(p) ==
  LET line == LineLength(Format!HeaderOf(p))
  IN  [i \in 1 .. DataLength(Format!HeaderOf(p)) |->
         LET y == (i - 1) \div (line + 1)
             x == (i - 1) % (line + 1)
         IN  IF x = 0 THEN 0 ELSE p.bytes[y * line + x]]

\* The pictures that are written can be held by a file.
LEMMA PicturesAre ==
  ASSUME NEW p \in Pictures
  PROVE  /\ Pictured(p) /\ Format!HeaderOf(p) \in HeaderSet /\ Rows(p) \in Seq(Byte)
         /\ DataLength(Format!HeaderOf(p)) \in Nat /\ Len(Rows(p)) = DataLength(Format!HeaderOf(p))
<1>1. /\ p.width \in Nat /\ p.height \in Nat /\ p.depth = 8 /\ p.colour = "rgba"
      /\ p.bytes \in [1 .. p.width * 4 * p.height -> Byte]
  BY PngliteAssumption
<1>2. Pictured(p)
  <2>1. PICK w \in Nat : w = p.width
    BY <1>1
  <2>2. Format!Channels(p.colour) = 4 /\ 8 \div 8 = 1
    BY <1>1 DEF Format!Channels
  <2>3. w * 4 * 1 = w * 4
    OBVIOUS
  <2>4. Format!LineBytes(p) = p.width * 4
    BY <1>1, <2>1, <2>2, <2>3 DEF Format!LineBytes
  <2>5. SizesFit(p)
    BY PngliteAssumption
  <2> QED BY <1>1, <2>4, <2>5 DEF Pictured
<1> DEFINE h == Format!HeaderOf(p)
<1>3. h = [width |-> p.width, height |-> p.height, depth |-> p.depth, colour |-> p.colour,
           interlaced |-> FALSE]
  BY DEF Format!HeaderOf
<1>4. h \in HeaderSet /\ Rows(p) \in Seq(Byte)
  <2> HIDE DEF h
  <2>1. /\ h \in HeaderSet
        /\ [i \in 1 .. DataLength(h) |->
              LET y == (i - 1) \div (LineLength(h) + 1)
                  x == (i - 1) % (LineLength(h) + 1)
              IN  IF x = 0 THEN 0 ELSE p.bytes[y * LineLength(h) + x]] \in Seq(Byte)
    BY <1>3, FilteredType
  <2> QED BY <2>1, Zenon DEF Rows, h
<1>5. DataLength(h) \in Nat
  BY <1>4, Sizes
<1>6. Len(Rows(p)) = DataLength(h)
  <2>1. DOMAIN Rows(p) = 1 .. DataLength(h)
    BY Zenon DEF Rows
  <2>2. PICK b \in Seq(Byte), n \in Nat : b = Rows(p) /\ n = DataLength(h)
    BY <1>4, <1>5
  <2>3. DOMAIN b = 1 .. n
    BY <2>1, <2>2
  <2>4. Len(b) = n
    BY <2>3
  <2> QED BY <2>2, <2>4
<1> QED BY <1>2, <1>4, <1>5, <1>6

\* They are its lines under the filter `none' (pnglite.c:808-828).
LEMMA RowsEncode ==
  ASSUME NEW p \in Pictures
  PROVE  Encodes(Rows(p), p, [y \in 1 .. p.height |-> 0])
<1>1. Pictured(p)
  BY PicturesAre
<1>2. PICK n \in Nat, h \in Nat : /\ n = Format!LineBytes(p) /\ n = LineLength(Format!HeaderOf(p))
                                  /\ h = p.height /\ h = Format!HeaderOf(p).height
  BY <1>1, HeaderSizes, PictureSizes DEF Pictured
<1>3. DataLength(Format!HeaderOf(p)) = n * h + h
  BY <1>1, <1>2, HeaderSizes
<1>4. ASSUME NEW y \in 1 .. h, NEW i \in 1 .. n + 1
      PROVE  Rows(p)[(y - 1) * (n + 1) + i] = Format!Filtered(p, y, 0)[i]
  <2>1. PICK a \in Nat, r \in Nat, b \in Nat \ {0} : a = y - 1 /\ r = i - 1 /\ b = n + 1 /\ r < b
    <3>1. y - 1 \in Nat /\ i - 1 \in Nat /\ n + 1 \in Nat \ {0} /\ i - 1 < n + 1
      OBVIOUS
    <3> QED BY <3>1
  <2>2. PICK k \in Nat : k = b * a + r
    <3>1. b * a \in Nat
      OBVIOUS
    <3> QED BY <3>1
  <2>3. k \div b = a /\ k % b = r
    <3>1. (b * a + r) \div b = a /\ (b * a + r) % b = r
      BY <2>1, OneQuotient
    <3> QED BY <2>2, <3>1
  <2>4. PICK j \in Nat : j = (y - 1) * (n + 1) + i /\ j = k + 1 /\ j - 1 = k
    <3>1. (y - 1) * (n + 1) = b * a
      BY <2>1
    <3>2. k + 1 \in Nat /\ (b * a) + i = k + 1 /\ k + 1 - 1 = k
      <4>1. PICK c \in Nat : c = b * a
        OBVIOUS
      <4> QED BY <2>1, <2>2, <4>1
    <3> QED BY <3>1, <3>2
  <2>5. j \in 1 .. n * h + h
    <3>1. b * a <= b * (h - 1)
      BY <2>1, TimesKeeps
    <3>2. b * (h - 1) = n * h + h - n - 1
      <4>1. b * (h - 1) = (n + 1) * (h - 1) /\ (n + 1) * (h - 1) = n * h + h - n - 1
        BY <2>1
      <4> QED BY <4>1
    <3>3. PICK c \in Nat, d \in Nat : c = b * a /\ d = n * h
      <4>1. b * a \in Nat /\ n * h \in Nat
        OBVIOUS
      <4> QED BY <4>1
    <3> QED BY <2>1, <2>2, <2>4, <3>1, <3>2, <3>3
  <2>6. Rows(p)[j] = IF r = 0 THEN 0 ELSE p.bytes[a * n + r]
    <3> DEFINE Value(jj) == LET yy == (jj - 1) \div (n + 1)
                                xx == (jj - 1) % (n + 1)
                            IN  IF xx = 0 THEN 0 ELSE p.bytes[yy * n + xx]
    <3>1. Rows(p) = [jj \in 1 .. n * h + h |-> Value(jj)]
      BY <1>2, <1>3 DEF Rows
    <3>2. Value(j) = IF r = 0 THEN 0 ELSE p.bytes[a * n + r]
      BY <2>1, <2>3, <2>4
    <3> HIDE DEF Value
    <3> QED BY <2>5, <3>1, <3>2
  <2>7. 0 \in Filters
    BY DEF Filters
  <2>8. CASE r = 0
    <3>1. i = 1
      BY <2>1, <2>8
    <3>2. Format!Filtered(p, y, 0)[1] = 0
      <4>1. y \in 1 .. p.height
        BY <1>2
      <4>2. PICK f \in Filters : f = 0
        BY <2>7
      <4>3. Format!Filtered(p, y, f)[1] = f
        BY <1>1, <4>1, FilteredIs
      <4> QED BY <4>2, <4>3
    <3> QED BY <2>4, <2>6, <2>8, <3>1, <3>2
  <2>9. CASE r # 0
    <3>1. r \in 1 .. n /\ i = r + 1
      BY <2>1, <2>9
    <3>2. Format!Filtered(p, y, 0)[r + 1] = (Format!Line(p, y)[r] - Format!Expected(0, p, y, r)) % ByteSize
      <4>1. y \in 1 .. p.height /\ r \in 1 .. Format!LineBytes(p)
        BY <1>2, <3>1
      <4>2. PICK f \in Filters : f = 0
        BY <2>7
      <4>3. Format!Filtered(p, y, f)[r + 1] = (Format!Line(p, y)[r] - Format!Expected(f, p, y, r)) % ByteSize
        BY <1>1, <4>1, FilteredIs
      <4> QED BY <4>2, <4>3
    <3>3. Format!Expected(0, p, y, r) = 0
      BY Z3 DEF Format!Expected
    <3>4. Format!Line(p, y)[r] = p.bytes[a * n + r] /\ Format!Line(p, y)[r] \in Byte
      <4>1. y \in 1 .. p.height /\ r \in 1 .. Format!LineBytes(p)
        BY <1>2, <3>1
      <4>2. /\ Format!Line(p, y)[r] = p.bytes[(y - 1) * Format!LineBytes(p) + r]
            /\ Format!Line(p, y)[r] \in Byte
        BY <1>1, <4>1, LineType
      <4>3. (y - 1) * Format!LineBytes(p) + r = a * n + r
        BY <1>2, <2>1
      <4> QED BY <4>2, <4>3
    <3>5. PICK c \in Byte : c = Format!Line(p, y)[r]
      BY <3>4
    <3>6. (c - 0) % ByteSize = c
      BY ByteAssumption DEF Byte
    <3> QED BY <2>4, <2>6, <2>9, <3>1, <3>2, <3>3, <3>4, <3>5, <3>6
  <2> QED BY <2>8, <2>9
<1> DEFINE none == [y \in 1 .. h |-> 0]
<1>5. none \in [1 .. h -> Filters] /\ \A y \in 1 .. h : none[y] = 0
  BY DEF Filters
<1>6. none = [y \in 1 .. p.height |-> 0]
  BY <1>2
<1> HIDE DEF none
<1>7. \A y \in 1 .. h : \A i \in 1 .. n + 1 :
        Rows(p)[(y - 1) * (n + 1) + i] = Format!Filtered(p, y, none[y])[i]
  BY <1>4, <1>5
<1>8. Encodes(Rows(p), p, none)
  BY <1>2, <1>5, <1>7 DEF Encodes
<1> QED BY <1>6, <1>8

\* A sequence of one
LEMMA Single ==
  ASSUME NEW S, NEW x, x \in S
  PROVE  <<x>> \in Seq(S) /\ Len(<<x>>) = 1 /\ <<x>>[1] = x
OBVIOUS

\* What compress makes of some bytes
Zipped(b) == <<Symbol(<<>>)>> \o [i \in DOMAIN b |-> Symbol(<<b[i]>>)] \o <<End>>

\* Its symbols, one by one
LEMMA ZippedIs ==
  ASSUME NEW b \in Seq(Byte), NEW n \in Nat, n = Len(b)
  PROVE  /\ Zipped(b) \in Seq(Datum) /\ Len(Zipped(b)) = n + 2
         /\ Zipped(b)[1] = Symbol(<<>>) /\ Zipped(b)[n + 2] = End
         /\ \A i \in 1 .. n : Zipped(b)[i + 1] = Symbol(<<b[i]>>)
<1>1. DOMAIN b = 1 .. n /\ \A i \in 1 .. n : b[i] \in Byte
  OBVIOUS
<1>2. \A x \in Byte : <<x>> \in Seq(Byte)
  OBVIOUS
<1>3. <<>> \in Seq(Byte)
  OBVIOUS
<1>4. Symbol(<<>>) \in Datum /\ End \in Datum /\ \A i \in 1 .. n : Symbol(<<b[i]>>) \in Datum
  BY <1>1, <1>2, <1>3, UnitsWritten
<1>5. PICK y \in Seq(Datum) : /\ y = [i \in DOMAIN b |-> Symbol(<<b[i]>>)] /\ Len(y) = n
                              /\ \A i \in 1 .. n : y[i] = Symbol(<<b[i]>>)
  <2> DEFINE y == [i \in 1 .. n |-> Symbol(<<b[i]>>)]
  <2>1. y \in Seq(Datum) /\ Len(y) = n /\ \A i \in 1 .. n : y[i] = Symbol(<<b[i]>>)
    BY <1>4
  <2>2. y = [i \in DOMAIN b |-> Symbol(<<b[i]>>)]
    BY <1>1
  <2> HIDE DEF y
  <2> QED BY <2>1, <2>2
<1>6. PICK x \in Seq(Datum) : x = <<Symbol(<<>>)>> /\ Len(x) = 1 /\ x[1] = Symbol(<<>>)
  <2>1. PICK v \in Datum : v = Symbol(<<>>)
    BY <1>4
  <2>2. <<v>> \in Seq(Datum) /\ Len(<<v>>) = 1 /\ <<v>>[1] = v
    BY Single
  <2> QED BY <2>1, <2>2
<1>7. PICK e \in Seq(Datum) : e = <<End>> /\ Len(e) = 1 /\ e[1] = End
  <2>1. PICK v \in Datum : v = End
    BY <1>4
  <2>2. <<v>> \in Seq(Datum) /\ Len(<<v>>) = 1 /\ <<v>>[1] = v
    BY Single
  <2> QED BY <2>1, <2>2
<1>8. PICK u \in Seq(Datum) : /\ u = x \o y /\ Len(u) = 1 + n /\ u[1] = Symbol(<<>>)
                              /\ \A i \in 1 .. n : u[1 + i] = Symbol(<<b[i]>>)
  <2>1. /\ x \o y \in Seq(Datum) /\ Len(x \o y) = 1 + n /\ (\A i \in 1 .. 1 : (x \o y)[i] = x[i])
        /\ \A i \in 1 .. n : (x \o y)[1 + i] = y[i]
    <3>1. PICK o \in Nat : o = 1
      OBVIOUS
    <3>2. Len(x) = o /\ Len(y) = n
      BY <1>5, <1>6, <3>1
    <3>3. Joint(Datum, x, y, o, n)
      BY <3>2, Joining
    <3> QED BY <3>1, <3>3, Zenon DEF Joint
  <2>2. 1 \in 1 .. 1
    OBVIOUS
  <2>3. PICK v \in Seq(Datum) : v = x \o y
    BY <2>1
  <2>4. v[1] = Symbol(<<>>) /\ Len(v) = 1 + n
    BY <1>6, <2>1, <2>2, <2>3
  <2>5. \A i \in 1 .. n : v[1 + i] = Symbol(<<b[i]>>)
    BY <1>5, <2>1, <2>3
  <2> QED BY <2>3, <2>4, <2>5
<1>9. /\ u \o e \in Seq(Datum) /\ Len(u \o e) = (1 + n) + 1
      /\ (\A i \in 1 .. 1 + n : (u \o e)[i] = u[i])
      /\ \A i \in 1 .. 1 : (u \o e)[(1 + n) + i] = e[i]
  <2>1. PICK k \in Nat, j \in Nat : k = 1 + n /\ j = 1
    OBVIOUS
  <2>2. Len(u) = k /\ Len(e) = j
    BY <1>7, <1>8, <2>1
  <2>3. Joint(Datum, u, e, k, j)
    BY <2>2, Joining
  <2> QED BY <2>1, <2>3, Zenon DEF Joint
<1>10. PICK z \in Seq(Datum) : z = Zipped(b) /\ z = u \o e
  <2>1. Zipped(b) = u \o e
    BY <1>5, <1>6, <1>7, <1>8 DEF Zipped
  <2> QED BY <1>9, <2>1
<1>11. Len(z) = n + 2 /\ z[1] = Symbol(<<>>) /\ z[n + 2] = End
  <2>1. 1 \in 1 .. 1 + n /\ (1 + n) + 1 = n + 2 /\ 1 \in 1 .. 1
    OBVIOUS
  <2> QED BY <1>7, <1>8, <1>9, <1>10, <2>1
<1>12. \A i \in 1 .. n : z[i + 1] = Symbol(<<b[i]>>)
  <2>1. \A i \in 1 .. n : 1 + i \in 1 .. 1 + n /\ i + 1 = 1 + i
    OBVIOUS
  <2> QED BY <1>8, <1>9, <1>10, <2>1
<1> QED BY <1>10, <1>11, <1>12

\* Each byte put behind what is there is the bytes.
LEMMA FlattenBytes ==
  ASSUME NEW b \in Seq(Byte), NEW s, NEW n \in Nat, n = Len(b), s \in Seq(Seq(Byte)), Len(s) = n + 1,
         s[1] = <<>>, \A i \in 1 .. n : s[i + 1] = <<b[i]>>
  PROVE  FlattenSeq(s) = b
<1> DEFINE Is(g) == g = [i \in 1 .. n + 1 |-> IF i = 1 THEN s[i] ELSE g[i-1] \o s[i]]
           flat == CHOOSE g : Is(g)
<1>1. FlattenSeq(s) = flat[n + 1]
  <2>1. ~ (Len(s) = 0)
    OBVIOUS
  <2>2. FlattenSeq(s) = LET flatten[i \in 1 .. Len(s)] == IF i = 1 THEN s[i] ELSE flatten[i-1] \o s[i]
                        IN  flatten[Len(s)]
    BY <2>1, Zenon DEF FlattenSeq
  <2> QED BY <2>2, Zenon
<1>2. Is(flat)
  <2>1. n + 1 \in Nat
    OBVIOUS
  <2>2. \E g : Is(g)
    BY <2>1, FlattenExists
  <2> QED BY <2>2, Zenon
<1>3. \A i \in 1 .. n + 1 : flat[i] = IF i = 1 THEN s[i] ELSE flat[i-1] \o s[i]
  <2> HIDE DEF flat
  <2> QED BY <1>2
<1> HIDE DEF flat
<1> DEFINE Good(k) == flat[k] \in Seq(Byte) /\ Len(flat[k]) = k - 1 /\ \A i \in 1 .. k - 1 : flat[k][i] = b[i]
           Bad == {k \in 1 .. n + 1 : ~Good(k)}
<1>4. Good(1)
  <2>1. 1 \in 1 .. n + 1 /\ 1 .. 1 - 1 = {} /\ 1 - 1 = 0
    OBVIOUS
  <2>2. flat[1] = <<>>
    BY <1>3, <2>1
  <2> QED BY <2>1, <2>2
<1>5. ASSUME NEW k \in 2 .. n + 1, Good(k - 1) PROVE Good(k)
  <2>1. PICK j \in 1 .. n : j = k - 1 /\ k = j + 1
    <3>1. k - 1 \in 1 .. n /\ k = (k - 1) + 1
      OBVIOUS
    <3> QED BY <3>1
  <2>2. flat[k] = flat[j] \o <<b[j]>>
    <3>1. k \in 1 .. n + 1 /\ k # 1
      OBVIOUS
    <3>2. flat[k] = flat[k-1] \o s[k] /\ s[k] = <<b[j]>>
      BY <1>3, <2>1, <3>1
    <3> QED BY <2>1, <3>2
  <2>3. PICK x \in Seq(Byte), m \in Nat : /\ x = flat[j] /\ m = j - 1 /\ Len(x) = m
                                          /\ \A i \in 1 .. m : x[i] = b[i]
    <3>1. j - 1 \in Nat
      BY <2>1
    <3>2. k - 1 = j
      BY <2>1
    <3> QED BY <1>5, <2>1, <3>1, <3>2
  <2>4. PICK y \in Seq(Byte) : y = <<b[j]>> /\ Len(y) = 1 /\ y[1] = b[j]
    <3>1. PICK v \in Byte : v = b[j]
      OBVIOUS
    <3>2. <<v>> \in Seq(Byte) /\ Len(<<v>>) = 1 /\ <<v>>[1] = v
      BY Single
    <3> QED BY <3>1, <3>2
  <2>5. /\ x \o y \in Seq(Byte) /\ Len(x \o y) = m + 1 /\ (\A i \in 1 .. m : (x \o y)[i] = x[i])
        /\ \A i \in 1 .. 1 : (x \o y)[m + i] = y[i]
    <3>1. PICK o \in Nat : o = 1
      OBVIOUS
    <3>2. Len(x) = m /\ Len(y) = o
      BY <2>3, <2>4, <3>1
    <3>3. Joint(Byte, x, y, m, o)
      BY <3>2, Joining
    <3> QED BY <3>1, <3>3, Zenon DEF Joint
  <2>6. PICK v \in Seq(Byte) : v = flat[k] /\ v = x \o y
    BY <2>2, <2>3, <2>4, <2>5
  <2>7. Len(v) = k - 1
    <3>1. PICK c \in Nat : c = m + 1 /\ c = k - 1
      <4>1. m + 1 \in Nat /\ m + 1 = j /\ j = k - 1
        BY <2>1, <2>3
      <4> QED BY <4>1
    <3>2. Len(x \o y) = c /\ v = x \o y
      BY <2>5, <2>6, <3>1
    <3> QED BY <3>1, <3>2
  <2>8. \A i \in 1 .. k - 1 : v[i] = b[i]
    <3>1. TAKE i \in 1 .. k - 1
    <3>2. i \in 1 .. m \/ i = m + 1
      <4>1. k - 1 = j /\ j = m + 1 /\ j \in Nat /\ m \in Nat
        BY <2>1, <2>3
      <4>2. i \in 1 .. j
        BY <3>1, <4>1
      <4>3. \A l \in 1 .. m + 1 : l \in 1 .. m \/ l = m + 1
        BY <4>1
      <4> QED BY <4>1, <4>2, <4>3
    <3>3. m + 1 = j /\ 1 \in 1 .. 1
      BY <2>1, <2>3
    <3>4. CASE i \in 1 .. m
      BY <2>3, <2>5, <2>6, <3>4
    <3>5. CASE i = m + 1
      BY <2>4, <2>5, <2>6, <3>3, <3>5
    <3> QED BY <3>2, <3>4, <3>5
  <2> QED BY <2>6, <2>7, <2>8
<1>6. Bad = {}
  <2>1. SUFFICES ASSUME Bad # {} PROVE FALSE
    OBVIOUS
  <2>2. Bad \subseteq Nat
    OBVIOUS
  <2>3. PICK k \in Bad : \A m \in Bad : k <= m
    <3> HIDE DEF Bad
    <3> QED BY <2>1, <2>2, LeastNumber
  <2>4. k \in 1 .. n + 1 /\ ~Good(k)
    OBVIOUS
  <2>5. k \in 2 .. n + 1
    <3> HIDE DEF Good
    <3> QED BY <1>4, <2>4
  <2>6. k - 1 \in 1 .. n + 1 /\ k - 1 \notin Bad
    <3>1. k - 1 \in 1 .. n + 1 /\ k \in Int /\ ~ (k <= k - 1)
      BY <2>5
    <3> HIDE DEF Bad
    <3> QED BY <2>3, <3>1
  <2>7. Good(k - 1)
    <3> HIDE DEF Good
    <3> QED BY <2>6
  <2> HIDE DEF Good, Bad
  <2> QED BY <1>5, <2>4, <2>5, <2>7
<1>7. Good(n + 1)
  <2>1. n + 1 \in 1 .. n + 1
    OBVIOUS
  <2> HIDE DEF Good
  <2> QED BY <1>6, <2>1
<1>8. PICK x \in Seq(Byte) : x = flat[n + 1] /\ Len(x) = n /\ \A i \in 1 .. n : x[i] = b[i]
  <2>1. (n + 1) - 1 = n
    OBVIOUS
  <2> QED BY <1>7, <2>1
<1>9. x = b
  BY <1>8, SameSequence
<1> QED BY <1>1, <1>8, <1>9

\* What is compressed stands for the bytes that it was made of (pnglite.c:478-508).
LEMMA ZippedStands ==
  ASSUME NEW b \in Seq(Byte), NEW n \in Nat, n = Len(b)
  PROVE  Symbols(Zipped(b), n + 1, TRUE) /\ Expanded(Zipped(b), n + 1) = b
<1>1. PICK z \in Seq(Datum) : /\ z = Zipped(b) /\ Len(z) = n + 2
                              /\ z[1] = Symbol(<<>>) /\ z[n + 2] = End
                              /\ \A i \in 1 .. n : z[i + 1] = Symbol(<<b[i]>>)
  BY ZippedIs
<1>2. \A i \in 1 .. n + 1 : i = 1 \/ \E j \in 1 .. n : i = j + 1
  <2>1. \A i \in 1 .. n + 1 : i = 1 \/ (i - 1 \in 1 .. n /\ i = (i - 1) + 1)
    OBVIOUS
  <2> QED BY <2>1
<1>3. \A i \in 1 .. n + 1 : z[i][1] = "symbol" /\ z[i][2] \in Seq(Byte)
  <2>1. TAKE i \in 1 .. n + 1
  <2>2. CASE i = 1
    <3>1. <<>> \in Seq(Byte)
      OBVIOUS
    <3>2. Symbol(<<>>)[1] = "symbol" /\ Symbol(<<>>)[2] = <<>>
      BY DEF Symbol
    <3> QED BY <1>1, <2>2, <3>1, <3>2
  <2>3. CASE \E j \in 1 .. n : i = j + 1
    <3>1. PICK j \in 1 .. n : i = j + 1
      BY <2>3
    <3>2. b[j] \in Byte
      OBVIOUS
    <3>3. <<b[j]>> \in Seq(Byte)
      BY <3>2
    <3>4. z[i] = Symbol(<<b[j]>>)
      BY <1>1, <3>1
    <3> QED BY <3>3, <3>4 DEF Symbol
  <2> QED BY <1>2, <2>2, <2>3
<1>4. Symbols(z, n + 1, TRUE)
  <2>1. n + 1 \in 0 .. Len(z) /\ (n + 1) + 1 = Len(z) /\ (n + 1) + 1 = n + 2
    BY <1>1
  <2> QED BY <1>1, <1>3, <2>1 DEF Symbols
<1>5. PICK s : s = [i \in 1 .. n + 1 |-> z[i][2]]
  OBVIOUS
<1>6. s \in Seq(Seq(Byte)) /\ Len(s) = n + 1
  BY <1>3, <1>5
<1>7. s[1] = <<>>
  <2>1. 1 \in 1 .. n + 1 /\ Symbol(<<>>)[2] = <<>>
    BY DEF Symbol
  <2> QED BY <1>1, <1>5, <2>1
<1>8. \A i \in 1 .. n : s[i + 1] = <<b[i]>>
  <2>1. TAKE i \in 1 .. n
  <2>2. i + 1 \in 1 .. n + 1 /\ Symbol(<<b[i]>>)[2] = <<b[i]>>
    BY DEF Symbol
  <2> QED BY <1>1, <1>5, <2>2
<1>9. FlattenSeq(s) = b
  BY <1>6, <1>7, <1>8, FlattenBytes
<1>10. Expanded(z, n + 1) = FlattenSeq(s)
  BY <1>5, Zenon DEF Expanded
<1> QED BY <1>1, <1>4, <1>9, <1>10

\* What png_set_data writes, for compressed data z (pnglite.c:199-229, 279-314, 478-508).
HeadUnits(h) == <<Signature, Word(13), Header(h), Crc("IHDR", <<Header(h)>>)>>
IdatUnits(z) == <<Word(Len(z)), Type("IDAT")>> \o z \o <<Crc("IDAT", z)>>
IendUnits == <<Word(0), Type("IEND"), Crc("IEND", <<>>)>>
WholeFile(h, z) == HeadUnits(h) \o IdatUnits(z) \o IendUnits

\* Units of the head and of the end
LEMMA FixedUnits ==
  /\ \A h \in HeaderSet : HeadUnits(h) \in Seq(Unit) /\ Len(HeadUnits(h)) = 4
  /\ IendUnits \in Seq(Unit) /\ Len(IendUnits) = 3
<1>1. ASSUME NEW h \in HeaderSet PROVE HeadUnits(h) \in Seq(Unit) /\ Len(HeadUnits(h)) = 4
  <2>1. Header(h) \in Datum /\ "IHDR" \in ChunkTypes
    BY UnitsWritten DEF ChunkTypes
  <2>2. <<Header(h)>> \in Seq(Datum)
    BY <2>1
  <2>3. /\ Signature \in Unit /\ Word(13) \in Unit /\ Header(h) \in Unit
        /\ Crc("IHDR", <<Header(h)>>) \in Unit
    BY <2>1, <2>2, UnitsWritten
  <2> QED BY <2>3 DEF HeadUnits
<1>2. IendUnits \in Seq(Unit) /\ Len(IendUnits) = 3
  <2>1. "IEND" \in ChunkTypes /\ <<>> \in Seq(Datum)
    BY DEF ChunkTypes
  <2>2. Word(0) \in Unit /\ Type("IEND") \in Unit /\ Crc("IEND", <<>>) \in Unit
    BY <2>1, UnitsWritten
  <2> QED BY <2>2 DEF IendUnits
<1> QED BY <1>1, <1>2

\* A chunk as it is in a file
ChunkUnits(t, z) == <<Word(Len(z)), Type(t)>> \o z \o <<Crc(t, z)>>
IsChunk(c, t, z, n) ==
  /\ c \in Seq(Unit) /\ Len(c) = n + 3
  /\ c[1] = Word(n) /\ c[2] = Type(t) /\ c[n + 3] = Crc(t, z)
  /\ \A i \in 1 .. n : c[2 + i] = z[i]

\* Its units
LEMMA ChunkPlaced ==
  ASSUME NEW t \in ChunkTypes, NEW z \in Seq(Datum), NEW n \in Nat, n = Len(z)
  PROVE  IsChunk(ChunkUnits(t, z), t, z, n)
<1>1. Word(n) \in Unit /\ Type(t) \in Unit /\ Crc(t, z) \in Unit /\ z \in Seq(Unit)
  BY UnitsWritten
<1>2. PICK a \in Seq(Unit) : /\ a = <<Word(Len(z)), Type(t)>> /\ Len(a) = 2
                             /\ a[1] = Word(n) /\ a[2] = Type(t)
  <2>1. PICK x \in Unit, y \in Unit : x = Word(n) /\ y = Type(t)
    BY <1>1
  <2>2. <<x, y>> \in Seq(Unit) /\ Len(<<x, y>>) = 2 /\ <<x, y>>[1] = x /\ <<x, y>>[2] = y
    OBVIOUS
  <2> QED BY <2>1, <2>2
<1>3. PICK c \in Seq(Unit) : c = <<Crc(t, z)>> /\ Len(c) = 1 /\ c[1] = Crc(t, z)
  <2>1. PICK x \in Unit : x = Crc(t, z)
    BY <1>1
  <2>2. <<x>> \in Seq(Unit) /\ Len(<<x>>) = 1 /\ <<x>>[1] = x
    BY Single
  <2> QED BY <2>1, <2>2
<1>4. PICK o \in Nat, w \in Nat : o = 1 /\ w = 2
  OBVIOUS
<1>5. Joint(Unit, a, z, w, n)
  BY <1>1, <1>2, <1>4, Joining
<1>6. PICK b \in Seq(Unit) : /\ b = a \o z /\ Len(b) = w + n /\ (\A i \in 1 .. w : b[i] = a[i])
                             /\ \A i \in 1 .. n : b[w + i] = z[i]
  BY <1>5, Zenon DEF Joint
<1>7. PICK k \in Nat : k = w + n
  OBVIOUS
<1>8. Joint(Unit, b, c, k, o)
  BY <1>3, <1>4, <1>6, <1>7, Joining
<1>9. PICK d \in Seq(Unit) : /\ d = b \o c /\ Len(d) = k + o /\ (\A i \in 1 .. k : d[i] = b[i])
                             /\ \A i \in 1 .. o : d[k + i] = c[i]
  BY <1>8, Zenon DEF Joint
<1>10. ChunkUnits(t, z) = d
  BY <1>2, <1>3, <1>6, <1>9 DEF ChunkUnits
<1>11. Len(d) = n + 3
  BY <1>4, <1>7, <1>9
<1>12. d[1] = Word(n) /\ d[2] = Type(t)
  <2>1. 1 \in 1 .. w /\ 2 \in 1 .. w /\ 1 \in 1 .. k /\ 2 \in 1 .. k
    BY <1>4, <1>7
  <2> QED BY <1>2, <1>6, <1>9, <2>1
<1>13. d[n + 3] = Crc(t, z)
  <2>1. k + 1 = n + 3 /\ 1 \in 1 .. o
    BY <1>4, <1>7
  <2> QED BY <1>3, <1>9, <2>1
<1>14. \A i \in 1 .. n : d[2 + i] = z[i]
  <2>1. \A i \in 1 .. n : 2 + i = w + i /\ w + i \in 1 .. k
    BY <1>4, <1>7
  <2> QED BY <1>6, <1>9, <2>1
<1> QED BY <1>10, <1>11, <1>12, <1>13, <1>14 DEF IsChunk

\* Units of the data
LEMMA DataUnits ==
  ASSUME NEW z \in Seq(Datum), NEW n \in Nat, n = Len(z)
  PROVE  /\ IdatUnits(z) \in Seq(Unit) /\ Len(IdatUnits(z)) = n + 3
         /\ IdatUnits(z)[1] = Word(n) /\ IdatUnits(z)[2] = Type("IDAT")
         /\ IdatUnits(z)[n + 3] = Crc("IDAT", z)
         /\ \A i \in 1 .. n : IdatUnits(z)[2 + i] = z[i]
<1>1. "IDAT" \in ChunkTypes
  BY DEF ChunkTypes
<1>2. IsChunk(IdatUnits(z), "IDAT", z, n)
  <2>1. IdatUnits(z) = ChunkUnits("IDAT", z)
    BY Zenon DEF IdatUnits, ChunkUnits
  <2> QED BY <1>1, <2>1, ChunkPlaced
<1> QED BY <1>2, Zenon DEF IsChunk

\* Where each unit of a file that is written comes to be
Placed(u, h, z, n) ==
  /\ u \in Seq(Unit) /\ Len(u) = n + 10
  /\ u[1] = Signature /\ u[2] = Word(13) /\ u[3] = Header(h) /\ u[4] = Crc("IHDR", <<Header(h)>>)
  /\ u[5] = Word(n) /\ u[6] = Type("IDAT") /\ u[n + 7] = Crc("IDAT", z)
  /\ \A i \in 1 .. n : u[6 + i] = z[i]
  /\ u[n + 8] = Word(0) /\ u[n + 9] = Type("IEND")

\* The file as png_set_data writes it
LEMMA FilePlaced ==
  ASSUME NEW h \in HeaderSet, NEW z \in Seq(Datum), NEW n \in Nat, n = Len(z)
  PROVE  Placed(WholeFile(h, z), h, z, n)
<1>1. PICK a \in Seq(Unit) : a = HeadUnits(h) /\ Len(a) = 4
  BY FixedUnits
<1>2. PICK b \in Seq(Unit) :
        /\ b = IdatUnits(z) /\ Len(b) = n + 3
        /\ b[1] = Word(n) /\ b[2] = Type("IDAT") /\ b[n + 3] = Crc("IDAT", z)
        /\ \A i \in 1 .. n : b[2 + i] = z[i]
  BY DataUnits
<1>3. PICK c \in Seq(Unit) : c = IendUnits /\ Len(c) = 3
  BY FixedUnits
<1>4. a[1] = Signature /\ a[2] = Word(13) /\ a[3] = Header(h) /\ a[4] = Crc("IHDR", <<Header(h)>>)
  BY <1>1 DEF HeadUnits
<1>5. c[1] = Word(0) /\ c[2] = Type("IEND")
  BY <1>3 DEF IendUnits
<1>6. PICK f \in Nat, m \in Nat, t \in Nat, l \in Nat : f = 4 /\ m = n + 3 /\ t = 3 /\ l = f + m
  <2>1. n + 3 \in Nat /\ 4 + (n + 3) \in Nat /\ 4 \in Nat /\ 3 \in Nat
    OBVIOUS
  <2> QED BY <2>1
<1>7. Joint(Unit, a, b, f, m)
  BY <1>1, <1>2, <1>6, Joining
<1>8. PICK d \in Seq(Unit) : /\ d = a \o b /\ Len(d) = l /\ (\A i \in 1 .. f : d[i] = a[i])
                             /\ \A i \in 1 .. m : d[f + i] = b[i]
  BY <1>6, <1>7, Zenon DEF Joint
<1>9. Joint(Unit, d, c, l, t)
  BY <1>3, <1>6, <1>8, Joining
<1>10. PICK u \in Seq(Unit) : /\ u = d \o c /\ Len(u) = l + t /\ (\A i \in 1 .. l : u[i] = d[i])
                              /\ \A i \in 1 .. t : u[l + i] = c[i]
  BY <1>9, Zenon DEF Joint
<1>11. WholeFile(h, z) = u
  BY <1>1, <1>2, <1>3, <1>8, <1>10 DEF WholeFile
<1>12. Len(u) = n + 10
  BY <1>6, <1>10
<1>13. u[1] = Signature /\ u[2] = Word(13) /\ u[3] = Header(h) /\ u[4] = Crc("IHDR", <<Header(h)>>)
  <2>1. \A i \in 1 .. 4 : i \in 1 .. f /\ i \in 1 .. l
    BY <1>6
  <2>2. 1 \in 1 .. 4 /\ 2 \in 1 .. 4 /\ 3 \in 1 .. 4 /\ 4 \in 1 .. 4
    OBVIOUS
  <2>3. \A i \in 1 .. 4 : u[i] = a[i]
    BY <1>8, <1>10, <2>1
  <2> QED BY <1>4, <2>2, <2>3
<1>14. \A i \in 1 .. m : u[4 + i] = b[i]
  <2>1. \A i \in 1 .. m : 4 + i = f + i /\ f + i \in 1 .. l
    BY <1>6
  <2> QED BY <1>8, <1>10, <2>1
<1>15. u[5] = Word(n) /\ u[6] = Type("IDAT") /\ u[n + 7] = Crc("IDAT", z)
  <2>1. 1 \in 1 .. m /\ 2 \in 1 .. m /\ n + 3 \in 1 .. m
    BY <1>6
  <2>2. 4 + 1 = 5 /\ 4 + 2 = 6 /\ 4 + (n + 3) = n + 7
    OBVIOUS
  <2>3. u[4 + 1] = b[1] /\ u[4 + 2] = b[2] /\ u[4 + (n + 3)] = b[n + 3]
    BY <1>14, <2>1
  <2> QED BY <1>2, <2>2, <2>3
<1>16. \A i \in 1 .. n : u[6 + i] = z[i]
  <2>1. \A i \in 1 .. n : 2 + i \in 1 .. m /\ 4 + (2 + i) = 6 + i
    BY <1>6
  <2> QED BY <1>2, <1>14, <2>1
<1>17. u[n + 8] = Word(0) /\ u[n + 9] = Type("IEND")
  <2>1. l + 1 = n + 8 /\ l + 2 = n + 9 /\ 1 \in 1 .. t /\ 2 \in 1 .. t
    BY <1>6
  <2>2. u[l + 1] = c[1] /\ u[l + 2] = c[2]
    BY <1>10, <2>1
  <2> QED BY <1>5, <2>1, <2>2
<1> QED BY <1>11, <1>12, <1>13, <1>15, <1>16, <1>17 DEF Placed

\* A file of two chunks
Layout(u, n, g, e) ==
  [units |-> u, n |-> 2, start |-> [k \in 1 .. 3 |-> IF k = 1 THEN 4 ELSE IF k = 2 THEN n + 7 ELSE n + 10],
   given |-> [k \in 1 .. 3 |-> IF k = 1 THEN <<>> ELSE g], ended |-> [k \in 1 .. 3 |-> k # 1 /\ e]]

TwoChunks(L, u, n, g, e) ==
  /\ L.units = u /\ L.n = 2
  /\ L.start \in [1 .. 2 + 1 -> Nat] /\ L.given \in [1 .. 2 + 1 -> Seq(Byte)]
  /\ L.ended \in [1 .. 2 + 1 -> BOOLEAN]
  /\ L.start[1] = 4 /\ L.start[2] = n + 7 /\ L.start[3] = n + 10
  /\ L.given[1] = <<>> /\ L.given[2] = g /\ L.given[3] = g
  /\ L.ended[1] = FALSE /\ L.ended[2] = e /\ L.ended[3] = e

\* What its chunks are
LEMMA LayoutIs ==
  ASSUME NEW u, NEW n \in Nat, NEW g \in Seq(Byte), NEW e \in BOOLEAN
  PROVE  TwoChunks(Layout(u, n, g, e), u, n, g, e)
<1>1. 2 + 1 = 3 /\ 1 \in 1 .. 3 /\ 2 \in 1 .. 3 /\ 3 \in 1 .. 3 /\ 2 # 1 /\ 3 # 1 /\ 3 # 2
  OBVIOUS
<1>2. 4 \in Nat /\ n + 7 \in Nat /\ n + 10 \in Nat
  OBVIOUS
<1>3. <<>> \in Seq(Byte)
  OBVIOUS
<1> DEFINE s == [k \in 1 .. 3 |-> IF k = 1 THEN 4 ELSE IF k = 2 THEN n + 7 ELSE n + 10]
           v == [k \in 1 .. 3 |-> IF k = 1 THEN <<>> ELSE g]
           d == [k \in 1 .. 3 |-> k # 1 /\ e]
<1>4. s \in [1 .. 3 -> Nat] /\ s[1] = 4 /\ s[2] = n + 7 /\ s[3] = n + 10
  BY <1>1, <1>2
<1>5. v \in [1 .. 3 -> Seq(Byte)] /\ v[1] = <<>> /\ v[2] = g /\ v[3] = g
  BY <1>1, <1>3
<1>6. d \in [1 .. 3 -> BOOLEAN] /\ d[1] = FALSE /\ d[2] = e /\ d[3] = e
  <2>1. \A k \in 1 .. 3 : (k # 1 /\ e) \in BOOLEAN
    OBVIOUS
  <2>2. d \in [1 .. 3 -> BOOLEAN]
    BY <2>1, Zenon
  <2>3. d[1] = (1 # 1 /\ e) /\ d[2] = (2 # 1 /\ e) /\ d[3] = (3 # 1 /\ e)
    BY <1>1, Zenon
  <2>4. (1 # 1 /\ e) = FALSE /\ (2 # 1 /\ e) = e /\ (3 # 1 /\ e) = e
    BY <1>1
  <2> QED BY <2>2, <2>3, <2>4
<1>7. Layout(u, n, g, e) = [units |-> u, n |-> 2, start |-> s, given |-> v, ended |-> d]
  BY Zenon DEF Layout
<1> HIDE DEF s, v, d
<1> QED BY <1>1, <1>4, <1>5, <1>6, <1>7 DEF TwoChunks

\* A file that png_set_data writes is laid out as the format wants it, with data that
\* stand for the lines of its picture, or, when compress failed, with an empty chunk of
\* data (pnglite.c:199-229, 279-314, 478-508, 808-834).
LEMMA WrittenLaid ==
  ASSUME NEW p \in Pictures, NEW z \in Seq(Datum), NEW n \in Nat, n = Len(z),
         NEW q, NEW e \in BOOLEAN, NEW g \in Seq(Byte), Symbols(z, q, e), Expanded(z, q) = g,
         (n = 0 /\ g = <<>>) \/ (n > 0 /\ g = Rows(p))
  PROVE  \E L : /\ Laid(L, p) /\ L.units = WholeFile(Format!HeaderOf(p), z)
                /\ n > 0 => NoneEmpty(L)
<1>1. PICK h \in HeaderSet : h = Format!HeaderOf(p)
  BY PicturesAre
<1>2. PICK u : u = WholeFile(h, z) /\ Placed(u, h, z, n)
  BY FilePlaced
<1>3. PICK L : /\ L.units = u /\ L.n = 2
               /\ L.start \in [1 .. 2 + 1 -> Nat] /\ L.given \in [1 .. 2 + 1 -> Seq(Byte)]
               /\ L.ended \in [1 .. 2 + 1 -> BOOLEAN]
               /\ L.start[1] = 4 /\ L.start[2] = n + 7 /\ L.start[3] = n + 10
               /\ L.given[1] = <<>> /\ L.given[2] = g /\ L.given[3] = g
               /\ L.ended[1] = FALSE /\ L.ended[2] = e /\ L.ended[3] = e
  <2>1. TwoChunks(Layout(u, n, g, e), u, n, g, e)
    BY LayoutIs
  <2> QED BY <2>1, Zenon DEF TwoChunks
<1>4. PICK l \in Nat : l = DataLength(h) /\ Len(Rows(p)) = l /\ Len(g) <= l /\ Len(<<>>) <= l
  <2>1. DataLength(h) \in Nat /\ Len(Rows(p)) = DataLength(h)
    BY <1>1, PicturesAre
  <2>2. Len(<<>>) = 0
    OBVIOUS
  <2>3. g = <<>> \/ g = Rows(p)
    OBVIOUS
  <2> QED BY <2>1, <2>2, <2>3
<1>5. Size(L, 1) = n /\ Size(L, 2) = 0
  <2>1. 1 + 1 = 2 /\ 2 + 1 = 3 /\ (n + 7) - 4 - 3 = n /\ (n + 10) - (n + 7) - 3 = 0
    OBVIOUS
  <2> QED BY <1>3, <2>1 DEF Size
<1>6. Content(L, 1) = z
  <2>1. \A i \in 1 .. n : 4 + 2 + i = 6 + i
    OBVIOUS
  <2>2. \A i \in 1 .. n : u[4 + 2 + i] = z[i]
    BY <1>2, <2>1 DEF Placed
  <2>3. z = [i \in 1 .. n |-> z[i]]
    OBVIOUS
  <2>4. Content(L, 1) = [i \in 1 .. n |-> u[4 + 2 + i]]
    BY <1>3, <1>5 DEF Content
  <2> QED BY <2>2, <2>3, <2>4
<1>7. Carries(L, 1) /\ ~Carries(L, 2) /\ L.units[L.start[1] + 2] # Type("IEND")
        /\ L.units[L.start[2] + 2] = Type("IEND")
  <2>1. 4 + 2 = 6 /\ (n + 7) + 2 = n + 9
    OBVIOUS
  <2>2. Type("IDAT") # Type("IEND")
    BY DEF Type
  <2>3. L.units[L.start[1] + 2] = Type("IDAT") /\ L.units[L.start[2] + 2] = Type("IEND")
    BY <1>2, <1>3, <2>1 DEF Placed
  <2> QED BY <2>2, <2>3 DEF Carries
<1>8. ChunkLaid(L, 1)
  <2>1. 1 + 1 = 2 /\ 1 # 2 /\ 4 + 1 = 5 /\ 4 + 3 <= n + 7 /\ n + 7 <= n + 10
    OBVIOUS
  <2>2. L.start[1] + 3 <= L.start[1 + 1] /\ L.start[1 + 1] <= Len(L.units)
    BY <1>2, <1>3, <2>1 DEF Placed
  <2>3. L.units[L.start[1] + 1] = Word(Size(L, 1)) /\ L.units[L.start[1 + 1]] = Crc("IDAT", Content(L, 1))
    BY <1>2, <1>3, <1>5, <1>6, <2>1 DEF Placed
  <2>4. L.units[L.start[1] + 2] = Type("IEND") <=> 1 = L.n
    BY <1>3, <1>7, <2>1
  <2>5. Symbols(Content(L, 1), q, L.ended[1 + 1])
    BY <1>3, <1>6, <2>1
  <2>6. L.given[1 + 1] = L.given[1] \o Expanded(Content(L, 1), q)
    <3>1. <<>> \o g = g
      OBVIOUS
    <3> QED BY <1>3, <1>6, <2>1, <3>1
  <2>7. q \in 0 .. Size(L, 1)
    <3>1. q \in 0 .. n
      BY <1>6, <2>5 DEF Symbols
    <3> QED BY <1>5, <3>1
  <2> QED BY <1>3, <1>7, <2>2, <2>3, <2>4, <2>5, <2>6, <2>7 DEF ChunkLaid
<1>9. ChunkLaid(L, 2)
  <2>1. 2 + 1 = 3 /\ (n + 7) + 1 = n + 8 /\ (n + 7) + 3 <= n + 10 /\ n + 10 <= n + 10
    OBVIOUS
  <2>2. L.start[2] + 3 <= L.start[2 + 1] /\ L.start[2 + 1] <= Len(L.units)
    BY <1>2, <1>3, <2>1 DEF Placed
  <2>3. L.units[L.start[2] + 1] = Word(Size(L, 2))
    BY <1>2, <1>3, <1>5, <2>1 DEF Placed
  <2> QED BY <1>3, <1>7, <2>1, <2>2, <2>3 DEF ChunkLaid
<1>10. Complete(L, p) \/ \E k \in 1 .. L.n : Carries(L, k) /\ Size(L, k) = 0
  <2>1. 1 \in 1 .. L.n
    BY <1>3
  <2>2. CASE n = 0
    BY <1>5, <1>7, <2>1, <2>2
  <2>3. CASE n > 0
    <3>1. g = Rows(p) /\ L.given[L.n] = g
      BY <1>3, <2>3
    <3>2. Encoded(L.given[L.n], p)
      <4>1. PICK fs : Encodes(Rows(p), p, fs)
        BY RowsEncode
      <4>2. fs \in [1 .. p.height -> Filters]
        BY <4>1 DEF Encodes
      <4> QED BY <3>1, <4>1, <4>2 DEF Encoded
    <3>3. Len(L.given[L.n]) = DataLength(Format!HeaderOf(p))
      BY <1>1, <1>4, <3>1
    <3> QED BY <1>7, <2>1, <3>2, <3>3 DEF Complete
  <2> QED BY <2>2, <2>3
<1>11. Laid(L, p)
  <2>1. Pictured(p)
    BY PicturesAre
  <2>2. L.units \in Seq(Unit) /\ L.n \in Nat \ {0}
    BY <1>2, <1>3 DEF Placed
  <2>3. /\ L.units[1] = Signature /\ L.units[2] = Word(13) /\ L.units[3] = Header(h)
        /\ L.units[4] = Crc("IHDR", <<L.units[3]>>)
    BY <1>2, <1>3 DEF Placed
  <2>4. \A k \in 1 .. L.n : ChunkLaid(L, k) /\ Len(L.given[k + 1]) <= DataLength(Format!HeaderOf(p))
    <3>1. TAKE k \in 1 .. L.n
    <3>2. k = 1 \/ k = 2
      BY <1>3
    <3>3. 1 + 1 = 2 /\ 2 + 1 = 3
      OBVIOUS
    <3>4. Len(L.given[1 + 1]) <= DataLength(h) /\ Len(L.given[2 + 1]) <= DataLength(h)
      BY <1>3, <1>4, <3>3
    <3> QED BY <1>1, <1>8, <1>9, <3>2, <3>4
  <2> QED BY <1>1, <1>3, <1>10, <2>1, <2>2, <2>3, <2>4 DEF Laid
<1>12. n > 0 => NoneEmpty(L)
  <2>1. SUFFICES ASSUME n > 0, NEW k \in 1 .. L.n, Carries(L, k) PROVE Size(L, k) > 0
    BY DEF NoneEmpty
  <2>2. k = 1 \/ k = 2
    BY <1>3
  <2> QED BY <1>5, <1>7, <2>1, <2>2
<1> QED BY <1>1, <1>2, <1>3, <1>11, <1>12

\* What compress has made of a picture, or has failed to make
Squeezed(z) == \/ z = Zipped(Rows(meant))
               \/ z = <<>> /\ failed

\* How far a picture has been written
Writing ==
  /\ pc \in {"open_write", "set_data", "write_ihdr"} => OnDisk(<<>>)
  /\ pc \in {"open_write", "set_data"} \cup Written \cup {"write_idats"} =>
       sound /\ meant \in Pictures /\ result = "NO_ERROR"
  /\ pc \in Written \cup {"write_idats"} => hdr = Format!HeaderOf(meant)
  /\ pc \in {"write_ihdr", "compress"} => png_data = Rows(meant)
  /\ pc \in {"compress", "write_idats"} => OnDisk(HeadUnits(hdr))
  /\ pc = "write_idats" => Squeezed(readbuf)
  /\ pc = "write_iend" => \E z : Squeezed(z) /\ OnDisk(HeadUnits(hdr) \o IdatUnits(z))

\* The first units of a file are what there is of it when it is cut short.
LEMMA FromTheStart ==
  ASSUME NEW u \in Seq(Unit), NEW m \in 0 .. Len(u)
  PROVE  Behind(u, 0, m, SubSeq(u, 1, m))
<1>1. PICK b \in Nat, k \in Nat : b = 0 /\ k = m /\ k <= Len(u)
  OBVIOUS
<1>2. \A i \in b + 1 .. b + k : u[i] \in Unit
  BY <1>1
<1>3. /\ SubSeq(u, b + 1, b + k) \in Seq(Unit) /\ Len(SubSeq(u, b + 1, b + k)) = k
      /\ \A i \in 1 .. k : SubSeq(u, b + 1, b + k)[i] = u[b + i]
  BY <1>2, Piece
<1>4. PICK r \in Seq(Unit) : r = SubSeq(u, 1, m) /\ Len(r) = m /\ \A i \in 1 .. m : r[i] = u[0 + i]
  <2>1. b + 1 = 1 /\ b + k = m
    BY <1>1
  <2> QED BY <1>1, <1>3, <2>1
<1>5. (IF 0 <= m THEN m - 0 ELSE 0) = m
  BY <1>1
<1>6. Behind(u, 0, m, r)
  BY <1>4, <1>5 DEF Behind
<1> QED BY <1>4, <1>6

\* A disk with nothing on it has all of nothing.
LEMMA NothingOnDisk ==
  ASSUME rest = <<>>
  PROVE  OnDisk(<<>>)
<1>1. PICK u \in Seq(Unit), k \in Nat : u = <<>> /\ Len(u) = k /\ k = 0
  <2>1. <<>> \in Seq(Unit) /\ Len(<<>>) = 0 /\ 0 \in Nat
    OBVIOUS
  <2> QED BY <2>1
<1>2. k \in 0 .. Len(u) /\ rest \in Seq(Unit) /\ Len(rest) = 0 /\ 1 .. Len(rest) = {}
  BY <1>1
<1>3. (IF 0 <= k THEN k - 0 ELSE 0) = 0
  BY <1>1
<1>4. Behind(u, 0, k, rest)
  BY <1>2, <1>3 DEF Behind
<1> QED BY <1>1, <1>2, <1>4 DEF OnDisk

\* The disk keeps what it has.
LEMMA DiskStays ==
  ASSUME UNCHANGED <<rest, full>>, NEW w, OnDisk(w)
  PROVE  OnDisk(w)'
BY DEF OnDisk

\* The lines are put together, with a 0 in front of each (pnglite.c:808-828).
LEMMA SetDataWrites ==
  ASSUME Writing, SetData, pc' = "write_ihdr"
  PROVE  hdr' = Format!HeaderOf(meant) /\ png_data' = Rows(meant)
<1>1. PICK h : h = hdr'
  OBVIOUS
<1>2. h = Format!HeaderOf(meant)
  <2>1. hdr' = [width |-> meant.width, height |-> meant.height, depth |-> meant.depth,
                colour |-> meant.colour, interlaced |-> FALSE]
    BY Zenon DEF SetData
  <2> QED BY <1>1, <2>1 DEF Format!HeaderOf
<1>3. png_data' = [i \in 1 .. DataLength(h) |->
                     LET y == (i - 1) \div (LineLength(h) + 1)
                         x == (i - 1) % (LineLength(h) + 1)
                     IN  IF x = 0 THEN 0 ELSE meant.bytes[y * LineLength(h) + x]]
  BY <1>1, Zenon DEF SetData
<1>4. png_data' = Rows(meant)
  BY <1>2, <1>3, Zenon DEF Rows
<1> QED BY <1>1, <1>2, <1>4

\* While a picture is being written nothing is known of reading it.
LEMMA WritingIsNoReading ==
  ASSUME pc \in {"set_data", "write_ihdr", "compress", "write_idats", "write_iend", "crashed"}
  PROVE  Tracked
BY DEF Tracked, InLoop

\* Nothing is written any more.
LEMMA ReadingIsNoWriting ==
  ASSUME pc \notin {"open_write", "set_data", "write_idats"} \cup Written
  PROVE  Writing
BY DEF Writing, Written

\* What compress makes is data (pnglite.c:478-508).
LEMMA SqueezedType ==
  ASSUME meant \in Pictures, NEW z, Squeezed(z)
  PROVE  z \in Seq(Datum)
<1>1. Rows(meant) \in Seq(Byte) /\ Len(Rows(meant)) \in Nat
  BY PicturesAre
<1>2. Zipped(Rows(meant)) \in Seq(Datum)
  BY <1>1, ZippedIs
<1>3. <<>> \in Seq(Datum)
  OBVIOUS
<1> QED BY <1>2, <1>3 DEF Squeezed

\* What is on the disk when a picture is written is a file of it, or the beginning of one
\* (pnglite.c:808-834).
LEMMA WrittenIsLaid ==
  ASSUME meant \in Pictures, NEW z, Squeezed(z)
  PROVE  \E L : /\ Laid(L, meant) /\ L.units = WholeFile(Format!HeaderOf(meant), z)
                /\ ~failed => NoneEmpty(L)
<1>1. PICK p \in Pictures : p = meant
  OBVIOUS
<1>2. PICK b \in Seq(Byte), n \in Nat : b = Rows(p) /\ n = Len(b)
  BY PicturesAre
<1>3. CASE z = Zipped(b)
  <2>1. PICK y \in Seq(Datum), k \in Nat : y = z /\ Len(y) = k /\ k = n + 2 /\ k > 0
    <3>1. n + 2 \in Nat /\ n + 2 > 0
      OBVIOUS
    <3> QED BY <1>2, <1>3, <3>1, ZippedIs
  <2>2. Symbols(y, n + 1, TRUE) /\ Expanded(y, n + 1) = b
    BY <1>2, <1>3, <2>1, ZippedStands
  <2>3. PICK q \in Nat, e \in BOOLEAN : q = n + 1 /\ e = TRUE
    <3>1. n + 1 \in Nat
      OBVIOUS
    <3> QED BY <3>1
  <2>4. Symbols(y, q, e) /\ Expanded(y, q) = b /\ k = Len(y) /\ k > 0 /\ b = Rows(p)
    BY <1>2, <2>1, <2>2, <2>3
  <2>5. \E L : /\ Laid(L, p) /\ L.units = WholeFile(Format!HeaderOf(p), y)
               /\ k > 0 => NoneEmpty(L)
    BY <2>4, WrittenLaid
  <2> QED BY <1>1, <2>1, <2>5
<1>4. CASE z = <<>> /\ failed
  <2>1. PICK y \in Seq(Datum), k \in Nat : y = z /\ Len(y) = k /\ k = 0
    <3>1. <<>> \in Seq(Datum) /\ Len(<<>>) = 0 /\ 0 \in Nat
      OBVIOUS
    <3> QED BY <1>4, <3>1
  <2>2. PICK q \in Nat, e \in BOOLEAN, g \in Seq(Byte) : q = 0 /\ e = FALSE /\ g = <<>>
    <3>1. <<>> \in Seq(Byte) /\ 0 \in Nat
      OBVIOUS
    <3> QED BY <3>1
  <2>3. Symbols(y, q, e)
    <3>1. q \in 0 .. Len(y) /\ 1 .. q = {} /\ q = Len(y)
      BY <2>1, <2>2
    <3> QED BY <2>2, <3>1 DEF Symbols
  <2>4. Expanded(y, q) = g
    <3>1. PICK s : s = [i \in 1 .. q |-> y[i][2]]
      OBVIOUS
    <3>2. s = <<>>
      BY <2>2, <3>1
    <3>3. Len(s) = 0
      BY <3>2
    <3>4. FlattenSeq(s) = s
      BY <3>3, Zenon DEF FlattenSeq
    <3>5. Expanded(y, q) = FlattenSeq(s)
      BY <3>1, Zenon DEF Expanded
    <3> QED BY <2>2, <3>2, <3>4, <3>5
  <2>5. \E L : /\ Laid(L, p) /\ L.units = WholeFile(Format!HeaderOf(p), y)
               /\ k > 0 => NoneEmpty(L)
    BY <2>1, <2>2, <2>3, <2>4, WrittenLaid
  <2> QED BY <1>1, <1>4, <2>1, <2>5
<1> QED BY <1>1, <1>2, <1>3, <1>4 DEF Squeezed

-----------------------------------------------------------------------------
\* Files that were spoilt

\* How far the loop is with such a file
OffTrack(f, S, s) ==
  /\ NeverLast(f, S) /\ s \in S
  /\ pc \in {"chunk", "inflate"} => Behind(f, s, Len(f), rest)
  /\ pc \in {"inflate_init", "read_idat", "load"} =>
       /\ Len(f) >= s + 2 /\ f[s + 2] = Type("IDAT") /\ length \in LengthsAt(f, s)
       /\ length \in Nat /\ Behind(f, s + 2, Len(f), rest)

\* What a file that was spoilt is taken for
Spoilt ==
  /\ ~sound /\ pc \in {"open", "colour", "cleanup", "close", "exited"} \cup InLoop
  /\ pc = "open" => HeadSpoilt(rest) \/ (\E S : NeverLast(rest, S))
  /\ pc = "colour" => \E f, S : NeverLast(f, S) /\ Behind(f, 4, Len(f), rest)
  /\ pc \in InLoop => \E f, S, s : OffTrack(f, S, s)
  /\ pc = "cleanup" => result \notin {"DONE", "NO_ERROR"}
  /\ pc \in {"close", "exited"} => result # "NO_ERROR"

\* The loop goes on.
LEMMA StaysOff ==
  ASSUME Spoilt, UNCHANGED sound, pc' \in InLoop, NEW f, NEW S, NEW s, OffTrack(f, S, s)'
  PROVE  Spoilt'
BY DEF Spoilt, InLoop

\* The loop ends with an error.
LEMMA EndsOff ==
  ASSUME Spoilt, UNCHANGED sound, pc' = "cleanup", result' \notin {"DONE", "NO_ERROR"}
  PROVE  Spoilt'
BY DEF Spoilt, InLoop

\* A header that is spoilt is not accepted (pnglite.c:148-197, 231-252).
LEMMA HeadRefused ==
  ASSUME rest \in Seq(Unit), HeadSpoilt(rest), Has(1), Head(rest) = Signature
  PROVE  "NO_ERROR" \notin ReadIhdr(Tail(rest))
<1>1. rest # <<>> /\ Len(rest) \in Nat /\ rest[1] = Signature
  BY DEF Has
<1>2. PICK t \in Seq(Unit), m \in Nat : /\ t = Tail(rest) /\ Len(t) = m /\ Len(rest) = m + 1
                                        /\ \A i \in 1 .. m : t[i] = rest[i + 1]
  <2>1. /\ Tail(rest) \in Seq(Unit) /\ Len(Tail(rest)) = Len(rest) - 1
        /\ \A i \in 1 .. Len(rest) - 1 : Tail(rest)[i] = rest[i + 1]
    BY <1>1, HeadTailProperties
  <2>2. Len(rest) - 1 \in Nat /\ Len(rest) = (Len(rest) - 1) + 1
    BY <1>1
  <2> QED BY <2>1, <2>2
<1>3. SUFFICES ASSUME "NO_ERROR" \in ReadIhdr(t) PROVE FALSE
  BY <1>2
<1>4. t # <<>> /\ Head(t) = Word(13) /\ ~ (Len(t) < 2)
  BY <1>3 DEF ReadIhdr
<1> DEFINE h == t[2][2]
           unsupported == \/ t[2][1] # "header"
                          \/ h.colour = "indexed" \/ h.depth \notin {8, 16} \/ h.interlaced
           checked == IF unsupported THEN "NOT_SUPPORTED" ELSE "NO_ERROR"
<1>5. ReadIhdr(t) = IF Len(t) = 2 THEN {"CRC_ERROR", checked}
                    ELSE IF t[3] = Crc("IHDR", <<t[2]>>) THEN {checked} ELSE {"CRC_ERROR"}
  BY <1>4, Zenon DEF ReadIhdr
<1>6. t[2][1] = "header" /\ (Len(t) = 2 \/ t[3] = Crc("IHDR", <<t[2]>>))
  <2>1. checked = "NO_ERROR" => t[2][1] = "header"
    OBVIOUS
  <2> HIDE DEF checked
  <2> QED BY <1>3, <1>5, <2>1
<1>7. t[1] = rest[2] /\ t[2] = rest[3] /\ (Len(t) # 2 => t[3] = rest[4])
  <2>1. m >= 2 /\ (m # 2 => m >= 3)
    BY <1>2, <1>4
  <2>2. 1 \in 1 .. m /\ 2 \in 1 .. m /\ (m # 2 => 3 \in 1 .. m)
    BY <2>1
  <2>3. 1 + 1 = 2 /\ 2 + 1 = 3 /\ 3 + 1 = 4
    OBVIOUS
  <2> QED BY <1>2, <2>2, <2>3
<1>8. t[1] = Word(13)
  BY <1>4
<1>9. ~ (Len(rest) < 3) /\ (Len(rest) >= 4 => Len(t) # 2)
  BY <1>2, <1>4
<1> QED BY <1>1, <1>6, <1>7, <1>8, <1>9 DEF HeadSpoilt

\* png_open_file_read and the caller's memory (pnglite.c:231-277, image.c)
LEMMA OpenStaysOff ==
  ASSUME Memory, Spoilt, Open \/ GetData
  PROVE  Spoilt'
<1>1. CASE Open
  <2>1. pc = "open" /\ sound' = sound /\ rest \in Seq(Unit) /\ ~sound
    BY <1>1 DEF Open, Memory, Types, Spoilt
  <2> DEFINE results == IF ~Has(1) THEN {"EOF_ERROR"}
                        ELSE IF Head(rest) # Signature THEN {"HEADER_ERROR"} ELSE ReadIhdr(Tail(rest))
  <2>2. \/ result' \in results /\ result' = "NO_ERROR" /\ pc' = "colour" /\ Skip(4)
        \/ result' # "NO_ERROR" /\ pc' = "exited"
    BY <1>1, Zenon DEF Open
  <2>3. CASE result' # "NO_ERROR" /\ pc' = "exited"
    BY <2>1, <2>3 DEF Spoilt, InLoop
  <2>4. CASE "NO_ERROR" \in results /\ pc' = "colour" /\ Skip(4)
    <3>1. Has(1) /\ Head(rest) = Signature /\ "NO_ERROR" \in ReadIhdr(Tail(rest))
      BY <2>4
    <3>2. PICK S : NeverLast(rest, S)
      BY <2>1, <3>1, HeadRefused DEF Spoilt
    <3>3. PICK f \in Seq(Unit), a \in Nat, b \in Nat, m \in Nat :
            f = rest /\ a = 0 /\ b = 4 /\ a + b = 4 /\ m = Len(f)
      <4>1. 0 \in Nat /\ 4 \in Nat /\ 0 + 4 = 4 /\ Len(rest) \in Nat
        BY <2>1
      <4> QED BY <2>1, <4>1
    <3>4. Behind(f, a, m, f)
      <4>1. \A i \in 1 .. m : f[i] = f[a + i]
        BY <3>3
      <4>2. m = IF a <= m THEN m - a ELSE 0
        BY <3>3
      <4> QED BY <3>3, <4>1, <4>2 DEF Behind
    <3>5. Behind(f, a + b, m, SubSeq(f, b + 1, Len(f)))
      BY <3>4, BehindSkip
    <3>6. rest' = SubSeq(f, b + 1, Len(f))
      BY <2>4, <3>3 DEF Skip
    <3>7. NeverLast(f, S) /\ Behind(f, 4, Len(f), rest')
      BY <3>2, <3>3, <3>5, <3>6
    <3>8. (\E ff, SS : NeverLast(ff, SS) /\ Behind(ff, 4, Len(ff), rest))'
      BY <3>7
    <3> QED BY <2>1, <2>4, <3>8 DEF Spoilt, InLoop
  <2> HIDE DEF results
  <2> QED BY <2>2, <2>3, <2>4
<1>2. CASE GetData
  <2>1. /\ pc = "colour" /\ UNCHANGED <<sound, rest>> /\ ~sound
        /\ pc' = "chunk" \/ (pc' = "close" /\ result' = "refused")
    BY <1>2 DEF GetData, Spoilt
  <2>2. PICK f, S : NeverLast(f, S) /\ Behind(f, 4, Len(f), rest)
    BY <2>1 DEF Spoilt
  <2>3. CASE pc' = "chunk"
    <3>1. PICK s : s = 4
      OBVIOUS
    <3>2. s \in S /\ Behind(f, s, Len(f), rest')
      BY <2>1, <2>2, <3>1 DEF NeverLast
    <3>3. OffTrack(f, S, s)'
      BY <2>2, <2>3, <3>2 DEF OffTrack
    <3> QED BY <2>1, <2>3, <3>3, StaysOff DEF InLoop
  <2>4. CASE pc' = "close" /\ result' = "refused"
    BY <2>1, <2>4 DEF Spoilt, InLoop
  <2> QED BY <2>1, <2>3, <2>4
<1> QED BY <1>1, <1>2

\* A chunk's length and type as they are read (pnglite.c:556-569)
LEMMA OffRead ==
  ASSUME rest \in Seq(Unit), Has(2), NEW f, NEW S, NeverLast(f, S), NEW s \in S,
         Behind(f, s, Len(f), rest)
  PROVE  /\ Len(f) >= s + 2 /\ rest[2] = f[s + 2] /\ rest[2] # Type("IEND")
         /\ Lengths = LengthsAt(f, s) /\ Lengths \subseteq Nat /\ s \in Nat /\ Len(f) \in Nat
<1>1. PICK m \in Nat : m = Len(f) /\ f \in Seq(Unit) /\ s \in Nat
  BY DEF NeverLast
<1>2. \A i \in Nat \ {0} : (Len(rest) >= i <=> s + i <= m) /\ (s + i <= m => rest[i] = f[s + i])
  <2>1. TAKE i \in Nat \ {0}
  <2>2. Behind(f, s, m, rest)
    BY <1>1
  <2> QED BY <1>1, <2>2, BehindUnit
<1>3. Len(rest) >= 1 /\ Len(rest) >= 2
  BY DEF Has
<1>4. s + 1 <= m /\ s + 2 <= m /\ rest[1] = f[s + 1] /\ rest[2] = f[s + 2]
  BY <1>2, <1>3
<1>5. Len(f) >= s + 2
  BY <1>1, <1>4
<1>6. rest[2] # Type("IEND")
  BY <1>4, <1>5 DEF NeverLast
<1>7. Len(rest) = Len(f) - s
  <2>1. s <= Len(f)
    BY <1>1, <1>4
  <2> QED BY <2>1 DEF Behind
<1>8. Lengths = LengthsAt(f, s)
  BY <1>4, <1>7 DEF Lengths, LengthsAt
<1>9. Lengths \subseteq Nat
  BY <1>3, LengthsType
<1> QED BY <1>1, <1>4, <1>5, <1>6, <1>8, <1>9

\* The next chunk, or none (pnglite.c:556-597, 770-783)
LEMMA ChunkStaysOff ==
  ASSUME Memory, Spoilt, NoChunk \/ Iend \/ SkipChunk \/ Idat
  PROVE  Spoilt'
<1>1. pc = "chunk" /\ sound' = sound /\ rest \in Seq(Unit)
  BY DEF NoChunk, Iend, SkipChunk, Idat, NextChunk, Memory, Types
<1>2. PICK f, S, s : OffTrack(f, S, s)
  BY <1>1 DEF Spoilt, InLoop
<1>3. NeverLast(f, S) /\ s \in S /\ Behind(f, s, Len(f), rest)
  BY <1>1, <1>2 DEF OffTrack
<1>4. CASE NoChunk
  <2>1. pc' = "cleanup" /\ result' = "FILE_ERROR"
    BY <1>4 DEF NoChunk
  <2> QED BY <1>1, <2>1, EndsOff
<1>5. CASE Iend
  <2>1. Has(2) /\ rest[2] = Type("IEND")
    BY <1>5 DEF Iend, NextChunk
  <2> QED BY <1>1, <1>3, <2>1, OffRead
<1>6. CASE SkipChunk
  <2>1. Has(2) /\ rest[2] # Type("IDAT") /\ pc' = "chunk" /\ \E n \in Lengths : Skip(2 + n + 1)
    BY <1>6 DEF SkipChunk
  <2>2. /\ Len(f) >= s + 2 /\ rest[2] = f[s + 2] /\ Lengths = LengthsAt(f, s)
        /\ Lengths \subseteq Nat /\ s \in Nat /\ Len(f) \in Nat
    BY <1>1, <1>3, <2>1, OffRead
  <2>3. PICK n \in Lengths : Skip(2 + n + 1)
    BY <2>1
  <2>4. s + 3 + n \in S
    <3>1. Unchecked(f, s, n) \/ s + 3 + n \in S
      BY <1>3, <2>2, <2>3 DEF NeverLast
    <3>2. ~Unchecked(f, s, n)
      BY <2>1, <2>2 DEF Unchecked
    <3> QED BY <3>1, <3>2
  <2>5. PICK k \in Nat, m \in Nat, r \in Nat : k = 2 + n + 1 /\ m = Len(f) /\ r = s + k /\ r = s + 3 + n
    <3>1. n \in Nat
      BY <2>2
    <3>2. 2 + n + 1 \in Nat /\ s + (2 + n + 1) \in Nat /\ s + (2 + n + 1) = s + 3 + n
      BY <2>2, <3>1
    <3> QED BY <2>2, <3>2
  <2>6. Behind(f, s + k, m, SubSeq(rest, k + 1, Len(rest)))
    BY <1>3, <2>2, <2>5, BehindSkip
  <2>7. rest' = SubSeq(rest, k + 1, Len(rest))
    BY <2>3, <2>5 DEF Skip
  <2>8. Behind(f, r, Len(f), rest')
    BY <2>5, <2>6, <2>7
  <2>9. OffTrack(f, S, r)'
    BY <1>3, <2>1, <2>4, <2>5, <2>8 DEF OffTrack
  <2> QED BY <1>1, <2>1, <2>9, StaysOff DEF InLoop
<1>7. CASE Idat
  <2>1. /\ Has(2) /\ rest[2] = Type("IDAT") /\ length' \in Lengths /\ Skip(2)
        /\ pc' = "inflate_init" \/ (pc' = "cleanup" /\ result' = "MEMORY_ERROR")
    BY <1>7 DEF Idat, NextChunk
  <2>2. /\ Len(f) >= s + 2 /\ rest[2] = f[s + 2] /\ Lengths = LengthsAt(f, s)
        /\ Lengths \subseteq Nat /\ s \in Nat /\ Len(f) \in Nat
    BY <1>1, <1>3, <2>1, OffRead
  <2>3. CASE pc' = "inflate_init"
    <3>1. PICK k \in Nat, m \in Nat : k = 2 /\ m = Len(f)
      BY <2>2
    <3>2. Behind(f, s + k, m, SubSeq(rest, k + 1, Len(rest)))
      BY <1>3, <2>2, <3>1, BehindSkip
    <3>3. rest' = SubSeq(rest, k + 1, Len(rest))
      BY <2>1, <3>1 DEF Skip
    <3>4. Behind(f, s + 2, Len(f), rest')
      BY <3>1, <3>2, <3>3
    <3>5. length' \in LengthsAt(f, s) /\ length' \in Nat
      BY <2>1, <2>2
    <3>6. OffTrack(f, S, s)'
      BY <1>3, <2>1, <2>2, <2>3, <3>4, <3>5 DEF OffTrack
    <3> QED BY <1>1, <2>3, <3>6, StaysOff DEF InLoop
  <2>4. CASE pc' = "cleanup" /\ result' = "MEMORY_ERROR"
    BY <1>1, <2>4, EndsOff
  <2> QED BY <2>1, <2>3, <2>4
<1> QED BY <1>4, <1>5, <1>6, <1>7

\* Memory for a chunk (pnglite.c:400-418, 512-536)
LEMMA PrepareStaysOff ==
  ASSUME Memory, Spoilt, InitInflate \/ Buffer
  PROVE  Spoilt'
<1>1. /\ pc \in {"inflate_init", "read_idat"} /\ UNCHANGED <<sound, rest, length>>
      /\ pc' \in {"read_idat", "load"} \/ (pc' = "cleanup" /\ result' \in {"ZLIB_ERROR", "MEMORY_ERROR"})
  BY DEF InitInflate, Buffer
<1>2. PICK f, S, s : OffTrack(f, S, s)
  BY <1>1 DEF Spoilt, InLoop
<1>3. CASE pc' \in {"read_idat", "load"}
  <2>1. OffTrack(f, S, s)'
    BY <1>1, <1>2, <1>3 DEF OffTrack
  <2> QED BY <1>1, <1>3, <2>1, StaysOff DEF InLoop
<1>4. CASE pc' = "cleanup" /\ result' \in {"ZLIB_ERROR", "MEMORY_ERROR"}
  BY <1>1, <1>4, EndsOff
<1> QED BY <1>1, <1>3, <1>4

\* A chunk of data whose check sum is wrong is not inflated (pnglite.c:537-552).
LEMMA LoadStaysOff ==
  ASSUME Memory, Spoilt, Load
  PROVE  Spoilt'
<1>1. pc = "load" /\ sound' = sound /\ rest \in Seq(Unit) /\ Skip(length + 1)
  BY DEF Load, Memory, Types
<1>2. PICK f, S, s : OffTrack(f, S, s)
  BY <1>1 DEF Spoilt, InLoop
<1>3. /\ NeverLast(f, S) /\ s \in S /\ Len(f) >= s + 2 /\ f[s + 2] = Type("IDAT")
      /\ length \in LengthsAt(f, s) /\ length \in Nat /\ Behind(f, s + 2, Len(f), rest)
  BY <1>1, <1>2 DEF OffTrack
<1>4. PICK n \in Nat, m \in Nat, a \in Nat, k \in Nat :
        n = length /\ m = Len(f) /\ a = s + 2 /\ k = n + 1 /\ s \in Nat
  <2>1. s \in Nat /\ Len(f) \in Nat
    BY <1>3 DEF NeverLast
  <2>2. s + 2 \in Nat /\ length + 1 \in Nat
    BY <1>3, <2>1
  <2> QED BY <1>3, <2>1, <2>2
<1>5. \A i \in Nat \ {0} : (Len(rest) >= i <=> a + i <= m) /\ (a + i <= m => rest[i] = f[a + i])
  <2>1. TAKE i \in Nat \ {0}
  <2>2. Behind(f, a, m, rest)
    BY <1>3, <1>4
  <2> QED BY <1>4, <2>2, BehindUnit
<1>6. Behind(f, a + k, m, rest')
  <2>1. Behind(f, a, m, rest)
    BY <1>3, <1>4
  <2>2. Behind(f, a + k, m, SubSeq(rest, k + 1, Len(rest)))
    BY <1>4, <2>1, BehindSkip
  <2>3. rest' = SubSeq(rest, k + 1, Len(rest))
    BY <1>1, <1>4 DEF Skip
  <2> QED BY <2>2, <2>3
<1>7. CASE pc' = "cleanup" /\ result' \in {"FILE_ERROR", "CRC_ERROR"}
  BY <1>1, <1>7, EndsOff
<1>8. CASE /\ pc' = "inflate" /\ Has(n)
           /\ Has(n + 1) => rest[n + 1] = Crc("IDAT", SubSeq(rest, 1, n))
  <2>1. ~Unchecked(f, s, n)
    <3>1. SUFFICES ASSUME Unchecked(f, s, n) PROVE FALSE
      OBVIOUS
    <3>2. m >= s + 3 + n /\ f[s + 3 + n] # Crc("IDAT", [i \in 1 .. n |-> f[s + 2 + i]])
      BY <1>4, <3>1 DEF Unchecked
    <3>3. Has(n + 1) /\ rest[n + 1] = f[s + 3 + n]
      <4>1. n + 1 \in Nat \ {0} /\ a + (n + 1) <= m /\ a + (n + 1) = s + 3 + n
        BY <1>4, <3>2
      <4> QED BY <1>5, <4>1 DEF Has
    <3>4. SubSeq(rest, 1, n) = [i \in 1 .. n |-> f[s + 2 + i]]
      <4>1. PICK b \in Nat : b = 0 /\ b + 1 = 1 /\ b + n = n
        OBVIOUS
      <4>2. \A i \in b + 1 .. b + n : rest[i] \in Unit
        BY <1>1, <1>8, <4>1 DEF Has
      <4>3. /\ SubSeq(rest, b + 1, b + n) \in Seq(Unit) /\ Len(SubSeq(rest, b + 1, b + n)) = n
            /\ \A i \in 1 .. n : SubSeq(rest, b + 1, b + n)[i] = rest[b + i]
        BY <4>2, Piece
      <4>4. PICK t \in Seq(Unit) : t = SubSeq(rest, 1, n) /\ Len(t) = n /\ \A i \in 1 .. n : t[i] = rest[b + i]
        BY <4>1, <4>3
      <4>5. \A i \in 1 .. n : rest[b + i] = f[s + 2 + i]
        <5>1. TAKE i \in 1 .. n
        <5>2. i \in Nat \ {0} /\ a + i <= m /\ b + i = i /\ a + i = s + 2 + i
          BY <1>4, <3>2, <4>1
        <5> QED BY <1>5, <5>2
      <4>6. t = [i \in 1 .. n |-> t[i]]
        BY <4>4
      <4> QED BY <4>4, <4>5, <4>6
    <3> QED BY <1>8, <3>2, <3>3, <3>4
  <2>2. s + 3 + n \in S
    BY <1>3, <1>4, <2>1 DEF NeverLast
  <2>3. PICK r \in Nat : r = s + 3 + n /\ r = a + k
    <3>1. s + 3 + n \in Nat /\ s + 3 + n = a + k
      BY <1>4
    <3> QED BY <3>1
  <2>4. OffTrack(f, S, r)'
    BY <1>3, <1>4, <1>6, <1>8, <2>2, <2>3 DEF OffTrack
  <2> QED BY <1>1, <1>8, <2>4, StaysOff DEF InLoop
<1>9. \/ pc' = "cleanup" /\ result' \in {"FILE_ERROR", "CRC_ERROR"}
      \/ /\ pc' = "inflate" /\ Has(n)
         /\ Has(n + 1) => rest[n + 1] = Crc("IDAT", SubSeq(rest, 1, n))
  BY <1>4 DEF Load
<1> QED BY <1>7, <1>8, <1>9

\* What was inflated, and the way out (pnglite.c:420-451, 598-608, 715-806)
LEMMA EndStaysOff ==
  ASSUME Memory, Spoilt, InflateIdat \/ CleanUp \/ UnfilterLines \/ UnfilterDone \/ CloseFile
  PROVE  Spoilt'
<1>1. CASE InflateIdat
  <2>1. /\ pc = "inflate" /\ UNCHANGED <<sound, rest>>
        /\ pc' = "chunk" \/ (pc' = "cleanup" /\ result' = "ZLIB_ERROR")
    BY <1>1 DEF InflateIdat
  <2>2. PICK f, S, s : OffTrack(f, S, s)
    BY <2>1 DEF Spoilt, InLoop
  <2>3. CASE pc' = "chunk"
    <3>1. OffTrack(f, S, s)'
      BY <2>1, <2>2, <2>3 DEF OffTrack
    <3> QED BY <2>1, <2>3, <3>1, StaysOff DEF InLoop
  <2>4. CASE pc' = "cleanup" /\ result' = "ZLIB_ERROR"
    BY <2>1, <2>4, EndsOff
  <2> QED BY <2>1, <2>3, <2>4
<1>2. CASE CleanUp
  <2>1. pc = "cleanup" /\ result' = result /\ sound' = sound /\ (result # "DONE" => pc' = "close")
    BY <1>2 DEF CleanUp
  <2> QED BY <2>1 DEF Spoilt, InLoop
<1>3. CASE UnfilterLines \/ UnfilterDone
  BY <1>3 DEF UnfilterLines, UnfilterDone, Spoilt, InLoop
<1>4. CASE CloseFile
  <2>1. pc = "close" /\ pc' = "exited" /\ result' = result /\ sound' = sound
    BY <1>4 DEF CloseFile
  <2> QED BY <2>1 DEF Spoilt, InLoop
<1> QED BY <1>1, <1>2, <1>3, <1>4

-----------------------------------------------------------------------------
\* What is read is what was meant

\* A picture is written (pnglite.c:199-229, 279-314, 478-508, 808-834).
LEMMA WritingTracks ==
  ASSUME Memory, Tracked, Writing,
         OpenWrite \/ SetData \/ WriteIhdr \/ Compress \/ WriteIdats \/ WriteIend
  PROVE  Tracked' /\ Writing'
<1>1. CASE OpenWrite
  <2>1. /\ pc = "open_write" /\ UNCHANGED <<rest, full, meant, sound>>
        /\ \/ pc' = "set_data" /\ result' = result
           \/ pc' = "exited" /\ result' = "FILE_ERROR" /\ failed' = TRUE
    BY <1>1 DEF OpenWrite
  <2>2. OnDisk(<<>>)' /\ sound /\ meant \in Pictures /\ result = "NO_ERROR"
    BY <2>1, DiskStays DEF Writing
  <2>3. CASE pc' = "set_data" /\ result' = result
    BY <2>1, <2>2, <2>3 DEF Tracked, InLoop, Writing, Written
  <2>4. CASE pc' = "exited" /\ result' = "FILE_ERROR" /\ failed' = TRUE
    BY <2>4 DEF Tracked, InLoop, Writing, Written
  <2> QED BY <2>1, <2>3, <2>4
<1>2. CASE SetData
  <2>1. /\ pc = "set_data" /\ UNCHANGED <<rest, full, meant, sound>>
        /\ (pc' = "write_ihdr" /\ result' = result) \/ pc' = "crashed"
    BY <1>2 DEF SetData
  <2>2. OnDisk(<<>>)' /\ sound /\ meant \in Pictures /\ result = "NO_ERROR"
    BY <2>1, DiskStays DEF Writing
  <2>3. CASE pc' = "write_ihdr" /\ result' = result
    <3>1. hdr' = Format!HeaderOf(meant) /\ png_data' = Rows(meant)
      BY <1>2, <2>3, SetDataWrites
    <3>2. Format!HeaderOf(meant)' = Format!HeaderOf(meant) /\ Rows(meant)' = Rows(meant)
      BY <2>1
    <3> QED BY <2>1, <2>2, <2>3, <3>1, <3>2 DEF Tracked, InLoop, Writing, Written
  <2>4. CASE pc' = "crashed"
    BY <2>4 DEF Tracked, InLoop, Writing, Written
  <2> QED BY <2>1, <2>3, <2>4
<1>3. CASE WriteIhdr
  <2>1. /\ pc = "write_ihdr" /\ pc' = "compress"
        /\ UNCHANGED <<hdr, png_data, meant, sound, failed, result>> /\ Write(HeadUnits(hdr))
    BY <1>3 DEF WriteIhdr, HeadUnits
  <2>2. /\ OnDisk(<<>>) /\ sound /\ meant \in Pictures /\ result = "NO_ERROR"
        /\ hdr = Format!HeaderOf(meant) /\ png_data = Rows(meant)
    BY <2>1 DEF Writing, Written
  <2>3. PICK w \in Seq(Unit), v \in Seq(Unit) : w = <<>> /\ v = HeadUnits(hdr)
    <3>1. hdr \in HeaderSet
      BY <2>2, PicturesAre
    <3>2. <<>> \in Seq(Unit)
      OBVIOUS
    <3> QED BY <3>1, <3>2, FixedUnits
  <2>4. OnDisk(w \o v)'
    BY <2>1, <2>2, <2>3, WriteKeeps
  <2>5. w \o v = v
    BY <2>3
  <2>6. OnDisk(HeadUnits(hdr))'
    BY <2>1, <2>3, <2>4, <2>5
  <2> QED BY <2>1, <2>2, <2>6 DEF Tracked, InLoop, Writing, Written
<1>4. CASE Compress
  <2>1. /\ pc = "compress" /\ UNCHANGED <<hdr, rest, full, meant, sound>>
        /\ \/ pc' = "write_idats" /\ result' = result /\ readbuf' = Zipped(png_data)
           \/ pc' = "write_idats" /\ result' = result /\ readbuf' = <<>> /\ failed' = TRUE
           \/ pc' = "crashed"
    BY <1>4 DEF Compress, Zipped
  <2>2. /\ OnDisk(HeadUnits(hdr)) /\ sound /\ meant \in Pictures /\ result = "NO_ERROR"
        /\ hdr = Format!HeaderOf(meant) /\ png_data = Rows(meant)
    BY <2>1 DEF Writing, Written
  <2>3. OnDisk(HeadUnits(hdr))'
    <3>1. PICK w : w = HeadUnits(hdr)
      OBVIOUS
    <3>2. OnDisk(w)'
      BY <2>1, <2>2, <3>1, DiskStays
    <3>3. HeadUnits(hdr)' = w
      BY <2>1, <3>1
    <3> QED BY <3>2, <3>3
  <2>4. CASE pc' = "write_idats" /\ result' = result /\ Squeezed(readbuf)'
    BY <2>1, <2>2, <2>3, <2>4 DEF Tracked, InLoop, Writing, Written
  <2>5. CASE pc' = "crashed"
    BY <2>5 DEF Tracked, InLoop, Writing, Written
  <2>6. readbuf' = Zipped(png_data) \/ (readbuf' = <<>> /\ failed' = TRUE) => Squeezed(readbuf)'
    BY <2>1, <2>2 DEF Squeezed
  <2> QED BY <2>1, <2>4, <2>5, <2>6
<1>5. CASE WriteIdats
  <2>1. /\ pc = "write_idats" /\ pc' = "write_iend"
        /\ UNCHANGED <<hdr, meant, sound, failed, result>> /\ Write(IdatUnits(readbuf))
    BY <1>5 DEF WriteIdats, IdatUnits
  <2>2. /\ OnDisk(HeadUnits(hdr)) /\ sound /\ meant \in Pictures /\ result = "NO_ERROR"
        /\ hdr = Format!HeaderOf(meant) /\ Squeezed(readbuf)
    BY <2>1 DEF Writing, Written
  <2>3. PICK z \in Seq(Datum) : z = readbuf
    BY <2>2, SqueezedType
  <2>4. PICK w \in Seq(Unit), v \in Seq(Unit) : w = HeadUnits(hdr) /\ v = IdatUnits(z)
    <3>1. hdr \in HeaderSet
      BY <2>2, PicturesAre
    <3>2. PICK n \in Nat : n = Len(z)
      OBVIOUS
    <3> QED BY <3>1, <3>2, FixedUnits, DataUnits
  <2>5. OnDisk(w \o v)'
    BY <2>1, <2>2, <2>3, <2>4, WriteKeeps
  <2>6. Squeezed(z)'
    BY <2>1, <2>2, <2>3 DEF Squeezed
  <2>7. (OnDisk(HeadUnits(hdr) \o IdatUnits(z)))'
    BY <2>1, <2>4, <2>5
  <2>8. (\E y : Squeezed(y) /\ OnDisk(HeadUnits(hdr) \o IdatUnits(y)))'
    BY <2>6, <2>7
  <2> QED BY <2>1, <2>2, <2>8 DEF Tracked, InLoop, Writing, Written
<1>6. CASE WriteIend
  <2>1. /\ pc = "write_iend" /\ pc' = "open" /\ UNCHANGED <<meant, failed, result>>
        /\ Write(IendUnits) /\ sound' = (~full' /\ ~failed)
    BY <1>6 DEF WriteIend, IendUnits
  <2>2. /\ meant \in Pictures /\ result = "NO_ERROR" /\ hdr = Format!HeaderOf(meant)
        /\ \E z : Squeezed(z) /\ OnDisk(HeadUnits(hdr) \o IdatUnits(z))
    BY <2>1 DEF Writing, Written
  <2>3. PICK z : Squeezed(z) /\ OnDisk(HeadUnits(hdr) \o IdatUnits(z))
    BY <2>2
  <2>4. z \in Seq(Datum)
    BY <2>2, <2>3, SqueezedType
  <2>5. PICK w \in Seq(Unit), v \in Seq(Unit) : w = HeadUnits(hdr) \o IdatUnits(z) /\ v = IendUnits
    <3>1. hdr \in HeaderSet
      BY <2>2, PicturesAre
    <3>2. PICK n \in Nat : n = Len(z)
      BY <2>4
    <3>3. HeadUnits(hdr) \in Seq(Unit) /\ IdatUnits(z) \in Seq(Unit)
      BY <2>4, <3>1, <3>2, FixedUnits, DataUnits
    <3>4. \A a, b \in Seq(Unit) : a \o b \in Seq(Unit)
      BY ConcatProperties
    <3> QED BY <3>3, <3>4, FixedUnits
  <2>6. PICK u : u = w \o v /\ OnDisk(u)'
    BY <2>1, <2>3, <2>5, WriteKeeps
  <2>7. u = WholeFile(Format!HeaderOf(meant), z)
    BY <2>2, <2>5, <2>6 DEF WholeFile
  <2>8. PICK L : Laid(L, meant) /\ L.units = u /\ (~failed => NoneEmpty(L))
    BY <2>2, <2>3, <2>7, WrittenIsLaid
  <2>9. PICK a : a \in 0 .. Len(u) /\ Behind(u, 0, a, rest)' /\ (~full' => a = Len(u))
    BY <2>6 DEF OnDisk
  <2>10. Cut(L, a)'
    BY <2>1, <2>8, <2>9 DEF Cut
  <2>11. Behind(L.units, 0, a, rest)'
    BY <2>8, <2>9
  <2>12. (\E LL, mm : Cut(LL, mm) /\ Behind(LL.units, 0, mm, rest))'
    BY <2>10, <2>11
  <2> QED BY <2>1, <2>2, <2>12 DEF Tracked, InLoop, Writing, Written
<1> QED BY <1>1, <1>2, <1>3, <1>4, <1>5, <1>6

\* A file is read: nothing is written any more, and if nothing is known of it nothing
\* comes to be known (pnglite.c:231-277, 420-608, 715-806).
LEMMA ReadingTracks ==
  ASSUME Memory, Decoding, Tracked,
         \/ Open \/ GetData \/ NoChunk \/ Iend \/ SkipChunk \/ Idat \/ InitInflate
         \/ Buffer \/ Load \/ InflateIdat \/ CleanUp \/ UnfilterLines \/ UnfilterDone \/ CloseFile
  PROVE  Tracked' /\ Writing'
<1>1. UNCHANGED <<meant, sound>> /\ pc' \in {"colour", "exited"} \cup InLoop \cup After
  <2> USE DEF InLoop, After
  <2>1. CASE Open
    BY <2>1 DEF Open
  <2>2. CASE GetData
    BY <2>2 DEF GetData
  <2>3. CASE NoChunk
    BY <2>3 DEF NoChunk
  <2>4. CASE Iend
    BY <2>4 DEF Iend, NextChunk
  <2>5. CASE SkipChunk
    BY <2>5 DEF SkipChunk
  <2>6. CASE Idat
    BY <2>6 DEF Idat, NextChunk
  <2>7. CASE InitInflate
    BY <2>7 DEF InitInflate
  <2>8. CASE Buffer
    BY <2>8 DEF Buffer
  <2>9. CASE Load
    BY <2>9 DEF Load
  <2>10. CASE InflateIdat
    BY <2>10 DEF InflateIdat
  <2>11. CASE CleanUp
    BY <2>11 DEF CleanUp
  <2>12. CASE UnfilterLines
    BY <2>12 DEF UnfilterLines
  <2>13. CASE UnfilterDone
    BY <2>13 DEF UnfilterDone
  <2>14. CASE CloseFile
    BY <2>14 DEF CloseFile
  <2> QED BY <2>1, <2>2, <2>3, <2>4, <2>5, <2>6, <2>7, <2>8, <2>9, <2>10, <2>11, <2>12, <2>13, <2>14
<1>2. Writing'
  BY <1>1 DEF Writing, Written, InLoop, After
<1>3. Tracked'
  <2>1. CASE ~Known
    BY <1>1, <2>1, NothingKnown
  <2>2. CASE Known
    BY <2>2, OpenTracks, GetDataTracks, ChunkTracks, InitInflateTracks, BufferTracks, LoadTracks,
       InflateTracks, EndTracks
  <2> QED BY <2>1, <2>2
<1> QED BY <1>2, <1>3

\* At first the file is there, or nothing of it is.
LEMMA InitTracks ==
  ASSUME FilesClear, Init
  PROVE  (Tracked /\ Writing) \/ Spoilt
<1>1. result = "NO_ERROR" /\ ~failed
  BY DEF Init
<1>2. CASE \E f \in Files : rest = f.units /\ meant = f.meant /\ sound = f.sound /\ pc = "open"
  <2>1. PICK f \in Files : rest = f.units /\ meant = f.meant /\ sound = f.sound /\ pc = "open"
    BY <1>2
  <2>2. CASE Known /\ \E S : SpoiltAs(f, S)
    BY <2>1, <2>2 DEF SpoiltAs, Spoilt, InLoop
  <2>3. CASE Known => \E L, m : LaidAs(f, L, m)
    <3>1. Known => \E L, m : Cut(L, m) /\ Behind(L.units, 0, m, rest)
      <4>1. SUFFICES ASSUME NEW L, NEW m, LaidAs(f, L, m)
                     PROVE  \E LL, mm : Cut(LL, mm) /\ Behind(LL.units, 0, mm, rest)
        BY <2>3
      <4>2. /\ Laid(L, f.meant) /\ m \in 0 .. Len(L.units) /\ f.units = SubSeq(L.units, 1, m)
            /\ f.sound => m = Len(L.units) /\ NoneEmpty(L)
        BY <4>1, Zenon DEF LaidAs
      <4>3. Cut(L, m)
        BY <2>1, <4>2 DEF Cut
      <4>4. Behind(L.units, 0, m, rest)
        <5>1. PICK u \in Seq(Unit) : u = L.units
          BY <4>2 DEF Laid
        <5>2. Behind(u, 0, m, SubSeq(u, 1, m))
          BY <4>2, <5>1, FromTheStart
        <5> QED BY <2>1, <4>2, <5>1, <5>2
      <4> QED BY <4>3, <4>4
    <3>2. Tracked
      BY <1>1, <2>1, <3>1 DEF Tracked, InLoop
    <3>3. Writing
      BY <2>1 DEF Writing, Written
    <3> QED BY <3>2, <3>3
  <2>4. Known => (\E L, m : LaidAs(f, L, m)) \/ (\E S : SpoiltAs(f, S))
    BY <2>1 DEF FilesClear, Known
  <2> QED BY <2>2, <2>3, <2>4
<1>3. CASE \E p \in Pictures : rest = <<>> /\ meant = p /\ sound = TRUE /\ pc = "open_write"
  <2>1. OnDisk(<<>>) /\ sound /\ meant \in Pictures /\ pc = "open_write"
    BY <1>3, NothingOnDisk
  <2> QED BY <1>1, <2>1 DEF Tracked, InLoop, Writing, Written
<1> QED BY <1>2, <1>3 DEF Init

\* A file that was spoilt is read to the end, or the error, that comes of it.
LEMMA SpoiltStays ==
  ASSUME Memory, Spoilt, Next
  PROVE  Spoilt'
<1>1. ~ (OpenWrite \/ SetData \/ WriteIhdr \/ Compress \/ WriteIdats \/ WriteIend)
  BY DEF Spoilt, InLoop, OpenWrite, SetData, WriteIhdr, Compress, WriteIdats, WriteIend
<1> QED BY <1>1, OpenStaysOff, ChunkStaysOff, PrepareStaysOff, LoadStaysOff, EndStaysOff DEF Next

\* What is known of the file is known in each step.
LEMMA KnownInvariant ==
  ASSUME FilesClear
  PROVE  Spec => []((Tracked /\ Writing) \/ Spoilt)
<1>1. Init => (Tracked /\ Writing) \/ Spoilt
  BY InitTracks
<1>2. Memory /\ Decoding /\ Tracked /\ Writing /\ [Next]_vars => Tracked' /\ Writing'
  <2>1. ASSUME Tracked, Writing, UNCHANGED vars PROVE Tracked' /\ Writing'
    BY <2>1 DEF Tracked, Writing, OnTrack, Cut, Taken, AtChunk, Known, Inflated, Squeezed, OnDisk, vars
  <2> QED BY <2>1, WritingTracks, ReadingTracks DEF Next
<1>3. Memory /\ Spoilt /\ [Next]_vars => Spoilt'
  <2>1. ASSUME Spoilt, UNCHANGED vars PROVE Spoilt'
    BY <2>1 DEF Spoilt, OffTrack, vars
  <2> QED BY <2>1, SpoiltStays
<1> QED BY <1>1, <1>2, <1>3, MemoryInvariant, DecodingInvariant, PTL DEF Spec

\* Whatever chunks the files are divided into, wherever they are cut short or damaged so
\* that a check sum tells, whatever pictures are written and whatever fails on the way: no
\* call gives a picture that is not the one that the file stands for (pnglite.c:148-197,
\* 231-277, 420-608, 715-834).
THEOREM DecodedIsMeant ==
  ASSUME FilesClear
  PROVE  Spec => []NeverWrong
<1>1. Tracked /\ Decoding => NeverWrong
  <2>1. SUFFICES ASSUME Tracked, Decoding, pc = "exited", result = "NO_ERROR", meant # Null
                 PROVE  data = Format!Meaning(meant)
    BY DEF NeverWrong
  <2>2. Inflated(meant)
    BY <2>1 DEF Tracked, Known
  <2> QED BY <2>1, <2>2 DEF Decoding
<1>2. Spoilt => NeverWrong
  BY DEF Spoilt, NeverWrong
<1> QED BY <1>1, <1>2, KnownInvariant, DecodingInvariant, PTL

\* A file that has all chunks of its picture, and one that is written without an error, is
\* decoded unless a call that pnglite depends on fails (pnglite.c:231-277, 420-608, 715-834).
THEOREM SoundIsDecoded ==
  ASSUME FilesClear
  PROVE  Spec => []SoundDecoded
<1>1. Tracked \/ Spoilt => SoundDecoded
  BY DEF Tracked, Spoilt, SoundDecoded
<1> QED BY <1>1, KnownInvariant, PTL

-----------------------------------------------------------------------------
\* The files of an encoder

\* What FlattenSeq computes, step by step
LEMMA FlattenIs ==
  ASSUME NEW T, NEW seqs \in Seq(Seq(T)), NEW n \in Nat \ {0}, n = Len(seqs)
  PROVE  \E g : /\ FlattenSeq(seqs) = g[n]
                /\ \A i \in 1 .. n : g[i] = IF i = 1 THEN seqs[i] ELSE g[i-1] \o seqs[i]
<1> DEFINE Is(g) == g = [i \in 1 .. n |-> IF i = 1 THEN seqs[i] ELSE g[i-1] \o seqs[i]]
           flat == CHOOSE g : Is(g)
<1>1. FlattenSeq(seqs) = flat[n]
  BY Zenon DEF FlattenSeq
<1>2. Is(flat)
  <2>1. \E g : Is(g)
    BY FlattenExists
  <2> QED BY <2>1, Zenon
<1>3. \A i \in 1 .. n : flat[i] = IF i = 1 THEN seqs[i] ELSE flat[i-1] \o seqs[i]
  <2> HIDE DEF flat
  <2> QED BY <1>2
<1> HIDE DEF flat
<1> QED BY <1>1, <1>3

\* One sequence more is put behind the others.
LEMMA FlattenOneMore ==
  ASSUME NEW T, NEW t \in Seq(Seq(T)), NEW u \in Seq(Seq(T)), NEW n \in Nat,
         Len(t) = n, Len(u) = n + 1, \A i \in 1 .. n : u[i] = t[i]
  PROVE  FlattenSeq(u) = FlattenSeq(t) \o u[n + 1]
<1>1. n + 1 \in Nat \ {0} /\ n + 1 \in 1 .. n + 1 /\ u[n + 1] \in Seq(T)
  OBVIOUS
<1>2. PICK g : /\ FlattenSeq(u) = g[n + 1]
               /\ \A i \in 1 .. n + 1 : g[i] = IF i = 1 THEN u[i] ELSE g[i-1] \o u[i]
  BY ZenonT(30), <1>1, FlattenIs
<1>3. CASE n = 0
  <2>1. t = <<>> /\ FlattenSeq(t) = t
    BY <1>3 DEF FlattenSeq
  <2>2. n + 1 = 1 /\ g[n + 1] = u[n + 1]
    BY <1>1, <1>2, <1>3
  <2>3. <<>> \o u[n + 1] = u[n + 1]
    BY <1>1
  <2> QED BY <1>2, <2>1, <2>2, <2>3
<1>4. CASE n # 0
  <2>1. PICK f : /\ FlattenSeq(t) = f[n]
                 /\ \A i \in 1 .. n : f[i] = IF i = 1 THEN t[i] ELSE f[i-1] \o t[i]
    <3>1. n \in Nat \ {0} /\ n = Len(t)
      BY <1>4
    <3> QED BY <3>1, FlattenIs
  <2> DEFINE Bad == {i \in 1 .. n : g[i] # f[i]}
  <2>2. Bad = {}
    <3>1. SUFFICES ASSUME Bad # {} PROVE FALSE
      OBVIOUS
    <3>2. Bad \subseteq Nat
      OBVIOUS
    <3>3. PICK k \in Bad : \A m \in Bad : k <= m
      <4> HIDE DEF Bad
      <4> QED BY <3>1, <3>2, LeastNumber
    <3>4. k \in 1 .. n /\ k \in 1 .. n + 1 /\ g[k] # f[k] /\ u[k] = t[k]
      OBVIOUS
    <3>5. CASE k = 1
      BY <1>2, <2>1, <3>4, <3>5
    <3>6. CASE k # 1
      <4>1. k - 1 \in 1 .. n /\ ~ (k <= k - 1)
        BY <3>4, <3>6
      <4>2. k - 1 \notin Bad
        <5> HIDE DEF Bad
        <5> QED BY <3>3, <4>1
      <4>3. g[k - 1] = f[k - 1]
        BY <4>1, <4>2
      <4> HIDE DEF Bad
      <4> QED BY <1>2, <2>1, <3>4, <3>6, <4>3
    <3> QED BY <3>5, <3>6
  <2>3. g[n] = f[n]
    <3>1. n \in 1 .. n
      BY <1>4
    <3> QED BY <2>2, <3>1
  <2>4. g[n + 1] = g[n] \o u[n + 1]
    <3>1. n + 1 # 1 /\ (n + 1) - 1 = n
      BY <1>4
    <3> QED BY <1>1, <1>2, <3>1
  <2> QED BY <1>2, <2>1, <2>3, <2>4
<1> QED BY <1>3, <1>4

\* The sequences of s put end to end, one after the other
Flat(T, s, n, f) ==
  /\ f \in [0 .. n -> Seq(T)] /\ f[0] = <<>>
  /\ \A k \in 1 .. n : f[k] = f[k - 1] \o s[k]
  /\ \A k \in 0 .. n : FlattenSeq([i \in 1 .. k |-> s[i]]) = f[k]

\* They are there.
LEMMA Flattening ==
  ASSUME NEW T, NEW s, NEW n \in Nat, \A i \in 1 .. n : s[i] \in Seq(T)
  PROVE  \E f : Flat(T, s, n, f)
<1> DEFINE Take(k) == [i \in 1 .. k |-> s[i]]
           f == [k \in 0 .. n |-> FlattenSeq(Take(k))]
<1>1. ASSUME NEW k \in 0 .. n
      PROVE  Take(k) \in Seq(Seq(T)) /\ Len(Take(k)) = k /\ \A i \in 1 .. k : Take(k)[i] = s[i]
  <2>1. k \in Nat /\ \A i \in 1 .. k : i \in 1 .. n
    OBVIOUS
  <2> QED BY <2>1
<1>2. \A k \in 0 .. n : f[k] = FlattenSeq(Take(k)) /\ FlattenSeq(Take(k)) \in Seq(T)
  <2>1. TAKE k \in 0 .. n
  <2>2. FlattenSeq(Take(k)) \in Seq(T)
    <3> HIDE DEF Take
    <3> QED BY <1>1, FlattenType
  <2> HIDE DEF Take
  <2> QED BY <2>2
<1>3. f[0] = <<>>
  <2>1. 0 \in 0 .. n /\ Take(0) = <<>>
    OBVIOUS
  <2>2. FlattenSeq(<<>>) = <<>>
    BY DEF FlattenSeq
  <2> HIDE DEF Take, f
  <2> QED BY <1>2, <2>1, <2>2
<1>4. ASSUME NEW k \in 1 .. n PROVE f[k] = f[k - 1] \o s[k]
  <2>1. PICK m \in Nat : m = k - 1 /\ k = m + 1 /\ m \in 0 .. n /\ k \in 0 .. n
    <3>1. k - 1 \in Nat /\ k = (k - 1) + 1 /\ k - 1 \in 0 .. n /\ k \in 0 .. n
      OBVIOUS
    <3> QED BY <3>1
  <2>2. /\ Take(m) \in Seq(Seq(T)) /\ Len(Take(m)) = m /\ \A i \in 1 .. m : Take(m)[i] = s[i]
        /\ Take(k) \in Seq(Seq(T)) /\ Len(Take(k)) = k /\ \A i \in 1 .. k : Take(k)[i] = s[i]
    <3> HIDE DEF Take
    <3> QED BY <1>1, <2>1
  <2>3. PICK t \in Seq(Seq(T)), u \in Seq(Seq(T)) : t = Take(m) /\ u = Take(k)
    <3> HIDE DEF Take
    <3> QED BY <2>2
  <2>4. Len(t) = m /\ Len(u) = m + 1 /\ (\A i \in 1 .. m : u[i] = t[i]) /\ u[m + 1] = s[k]
    <3> HIDE DEF Take
    <3>1. \A i \in 1 .. m : i \in 1 .. k
      BY <2>1
    <3>2. k \in 1 .. k
      BY <2>1
    <3> QED BY <2>1, <2>2, <2>3, <3>1, <3>2
  <2>5. FlattenSeq(u) = FlattenSeq(t) \o u[m + 1]
    BY <2>4, FlattenOneMore
  <2> HIDE DEF Take, f
  <2> QED BY <1>2, <2>1, <2>3, <2>4, <2>5
<1>5. f \in [0 .. n -> Seq(T)]
  <2> HIDE DEF Take
  <2> QED BY <1>2
<1>6. \A k \in 0 .. n : FlattenSeq([i \in 1 .. k |-> s[i]]) = f[k]
  BY <1>2, Zenon
<1> HIDE DEF f
<1> QED BY <1>3, <1>4, <1>5, <1>6 DEF Flat

\* What is put end to end behind the first a of them
Appended(T, f, a, m, t) ==
  /\ FlattenSeq([i \in 1 .. m |-> t[i]]) \in Seq(T)
  /\ f[a + m] = f[a] \o FlattenSeq([i \in 1 .. m |-> t[i]])

LEMMA FlatBehind ==
  ASSUME NEW T, NEW s, NEW n \in Nat, NEW f, Flat(T, s, n, f),
         \A i \in 1 .. n : s[i] \in Seq(T),
         NEW a \in 0 .. n, NEW m \in Nat, a + m <= n, NEW t,
         \A i \in 1 .. m : t[i] = s[a + i]
  PROVE  Appended(T, f, a, m, t)
<1>1. \A i \in 1 .. m : a + i \in 1 .. n /\ t[i] \in Seq(T)
  OBVIOUS
<1>2. PICK g : Flat(T, t, m, g)
  BY <1>1, Flattening
<1>3. g \in [0 .. m -> Seq(T)] /\ g[0] = <<>> /\ \A k \in 1 .. m : g[k] = g[k - 1] \o t[k]
  BY <1>2, Zenon DEF Flat
<1>4. f \in [0 .. n -> Seq(T)] /\ \A k \in 1 .. n : f[k] = f[k - 1] \o s[k]
  BY Zenon DEF Flat
<1> DEFINE Bad == {k \in 0 .. m : f[a + k] # f[a] \o g[k]}
<1>5. Bad = {}
  <2>1. SUFFICES ASSUME Bad # {} PROVE FALSE
    OBVIOUS
  <2>2. Bad \subseteq Nat
    <3>1. \A k \in 0 .. m : k \in Nat
      OBVIOUS
    <3> QED BY <3>1, Zenon
  <2>3. PICK k \in Bad : \A j \in Bad : k <= j
    <3> HIDE DEF Bad
    <3> QED BY <2>1, <2>2, LeastNumber
  <2>4. k \in 0 .. m /\ f[a + k] # f[a] \o g[k]
    OBVIOUS
  <2>5. CASE k = 0
    <3>1. f[a] \in Seq(T) /\ a + 0 = a
      BY <1>4
    <3>2. f[a] \o <<>> = f[a]
      BY <3>1
    <3> QED BY <1>3, <2>4, <2>5, <3>1, <3>2
  <2>6. CASE k # 0
    <3>1. k - 1 \in 0 .. m /\ ~ (k <= k - 1) /\ k \in 1 .. m
      BY <2>4, <2>6
    <3>2. k - 1 \notin Bad
      <4> HIDE DEF Bad
      <4> QED BY <2>3, <3>1
    <3>3. f[a + (k - 1)] = f[a] \o g[k - 1]
      BY <3>1, <3>2
    <3>4. a + k \in 1 .. n /\ (a + k) - 1 = a + (k - 1)
      BY <3>1
    <3>5. f[a + k] = f[a + (k - 1)] \o s[a + k]
      BY <1>4, <3>4
    <3>6. PICK x \in Seq(T), y \in Seq(T), z \in Seq(T) : x = f[a] /\ y = g[k - 1] /\ z = s[a + k]
      <4>1. f[a] \in Seq(T) /\ g[k - 1] \in Seq(T) /\ s[a + k] \in Seq(T)
        BY <1>3, <1>4, <3>1, <3>4
      <4> QED BY <4>1
    <3>7. (x \o y) \o z = x \o (y \o z)
      BY ConcatAssociative
    <3>8. g[k] = y \o z
      BY <1>3, <3>1, <3>6
    <3> HIDE DEF Bad
    <3> QED BY <2>4, <3>3, <3>5, <3>6, <3>7, <3>8
  <2> QED BY <2>5, <2>6
<1>6. m \in 0 .. m
  OBVIOUS
<1>7. f[a + m] = f[a] \o g[m] /\ g[m] \in Seq(T)
  BY <1>3, <1>5, <1>6
<1>8. FlattenSeq([i \in 1 .. m |-> t[i]]) = g[m]
  BY <1>2, <1>6, Zenon DEF Flat
<1> QED BY <1>7, <1>8 DEF Appended

\* The units of the format are pnglite's.
LEMMA SameUnits ==
  /\ Format!Signature = Signature /\ Format!End = End /\ Format!Noise = Noise
  /\ \A x : Format!Word(x) = Word(x) /\ Format!Type(x) = Type(x) /\ Format!Header(x) = Header(x)
            /\ Format!Symbol(x) = Symbol(x)
  /\ \A t, x : Format!Crc(t, x) = Crc(t, x)
  /\ \A x : Format!FlattenSeq(x) = FlattenSeq(x)
<1>1. /\ Format!Signature = Signature /\ Format!End = End /\ Format!Noise = Noise
      /\ \A x : Format!Word(x) = Word(x) /\ Format!Type(x) = Type(x) /\ Format!Header(x) = Header(x)
                /\ Format!Symbol(x) = Symbol(x)
      /\ \A t, x : Format!Crc(t, x) = Crc(t, x)
  BY Zenon DEF Format!Signature, Format!End, Format!Noise, Format!Word, Format!Type, Format!Header, Format!Symbol, Format!Crc,
    Signature, End, Noise, Word, Type, Header, Symbol, Crc
<1>2. \A x : Format!FlattenSeq(x) = FlattenSeq(x)
  BY Zenon DEF Format!FlattenSeq, FlattenSeq
<1> QED BY <1>1, <1>2

\* A line under a filter is a line of bytes, if the filter's number is one.
LEMMA FilteredLine ==
  ASSUME NEW p, Pictured(p), NEW y \in 1 .. p.height, NEW f \in Filters \cap Byte
  PROVE  /\ Format!Filtered(p, y, f) \in Seq(Byte)
         /\ Len(Format!Filtered(p, y, f)) = Format!LineBytes(p) + 1
<1>1. PICK n \in Nat : n = Format!LineBytes(p)
  BY PictureSizes
<1> DEFINE left == [i \in 1 .. n |-> (Format!Line(p, y)[i] - Format!Expected(f, p, y, i)) % ByteSize]
<1>2. left \in Seq(Byte) /\ Len(left) = n
  <2>1. PICK b \in Nat \ {0} : b = ByteSize
    BY ByteAssumption
  <2>2. \A i \in 1 .. n : left[i] \in Byte
    <3>1. TAKE i \in 1 .. n
    <3>2. PICK x \in Int : x = Format!Line(p, y)[i] - Format!Expected(f, p, y, i)
      <4>1. Format!Line(p, y)[i] \in Byte /\ Format!Expected(f, p, y, i) \in Int
        BY <1>1, LineType, ExpectedIs
      <4> QED BY <2>1, <4>1 DEF Byte
    <3>3. (x % b) \in 0 .. b - 1
      BY <2>1
    <3> QED BY <2>1, <3>2, <3>3 DEF Byte
  <2>3. left = [i \in 1 .. n |-> left[i]]
    OBVIOUS
  <2> HIDE DEF left
  <2> QED BY <2>2, <2>3
<1>3. <<f>> \in Seq(Byte) /\ Len(<<f>>) = 1
  BY Single
<1>4. Format!Filtered(p, y, f) = <<f>> \o left
  BY <1>1, Zenon DEF Format!Filtered
<1> HIDE DEF left
<1>5. <<f>> \o left \in Seq(Byte) /\ Len(<<f>> \o left) = 1 + n
  BY <1>2, <1>3, ConcatProperties
<1> QED BY <1>1, <1>4, <1>5

\* The first m lines of a picture as they are filtered, one behind the other
FirstLines(b, p, filters, m) ==
  LET size == Format!LineBytes(p) + 1
  IN  /\ b \in Seq(Byte) /\ Len(b) = m * size
      /\ \A y \in 1 .. m : \A i \in 1 .. size :
           b[(y - 1) * size + i] = Format!Filtered(p, y, filters[y])[i]

\* One line more
LEMMA OneLineBehind ==
  ASSUME NEW p, Pictured(p), NEW filters \in [1 .. p.height -> Filters \cap Byte],
         NEW m \in Nat, m + 1 <= p.height, NEW b, FirstLines(b, p, filters, m)
  PROVE  FirstLines(b \o Format!Filtered(p, m + 1, filters[m + 1]), p, filters, m + 1)
<1>1. PICK h \in Nat, size \in Nat : h = p.height /\ size = Format!LineBytes(p) + 1
  <2>1. p.height \in Nat /\ Format!LineBytes(p) + 1 \in Nat
    BY PictureSizes DEF Pictured
  <2> QED BY <2>1
<1>2. m + 1 \in 1 .. h /\ filters[m + 1] \in Filters \cap Byte
  BY <1>1
<1>3. PICK l \in Seq(Byte) : l = Format!Filtered(p, m + 1, filters[m + 1]) /\ Len(l) = size
  BY <1>1, <1>2, FilteredLine
<1>4. /\ b \in Seq(Byte) /\ Len(b) = m * size
      /\ \A y \in 1 .. m : \A i \in 1 .. size :
           b[(y - 1) * size + i] = Format!Filtered(p, y, filters[y])[i]
  BY <1>1 DEF FirstLines
<1>5. PICK k \in Nat : k = m * size /\ k + size = (m + 1) * size
  <2>1. m * size \in Nat /\ (m * size) + size = (m + 1) * size
    OBVIOUS
  <2> QED BY <2>1
<1>6. Joint(Byte, b, l, k, size)
  BY <1>3, <1>4, <1>5, Joining
<1>7. PICK c \in Seq(Byte) : /\ c = b \o l /\ Len(c) = k + size /\ (\A i \in 1 .. k : c[i] = b[i])
                             /\ \A i \in 1 .. size : c[k + i] = l[i]
  BY <1>6, Zenon DEF Joint
<1>8. ASSUME NEW y \in 1 .. m + 1, NEW i \in 1 .. size
      PROVE  c[(y - 1) * size + i] = Format!Filtered(p, y, filters[y])[i]
  <2>1. CASE y = m + 1
    <3>1. (y - 1) * size = k
      BY <1>5, <2>1
    <3>2. c[k + i] = l[i]
      BY <1>7
    <3> QED BY <1>3, <2>1, <3>1, <3>2
  <2>2. CASE y # m + 1
    <3>1. y \in 1 .. m
      BY <2>2
    <3>2. PICK j \in Nat : j = (y - 1) * size /\ j + size <= k
      <4>1. (y - 1) * size \in Nat /\ ((y - 1) * size) + size = size * y
        BY <3>1
      <4>2. size * y <= size * m /\ size * m = k
        BY <1>5, <3>1, TimesKeeps
      <4> QED BY <4>1, <4>2
    <3>3. j + i \in 1 .. k
      BY <1>5, <3>2
    <3>4. c[j + i] = b[j + i]
      BY <1>7, <3>3
    <3> QED BY <1>4, <3>1, <3>2, <3>4
  <2> QED BY <2>1, <2>2
<1>9. FirstLines(c, p, filters, m + 1)
  BY <1>1, <1>5, <1>7, <1>8 DEF FirstLines
<1> QED BY <1>3, <1>7, <1>9

\* What each unit of the compressed data is
SymbolsOf(p, filters, q, s) ==
  /\ \A i \in 1 .. q : s[i] \in Seq(Byte) /\ Format!Compressed(p, filters)[i] = Symbol(s[i])
  /\ s[1] = <<>> /\ s[2] \o s[3] = Format!Filtered(p, 1, filters[1])
  /\ \A y \in 2 .. p.height : s[2 + y] = Format!Filtered(p, y, filters[y])
  /\ Format!Compressed(p, filters) \in Seq(Datum) /\ Len(Format!Compressed(p, filters)) = q + 1
  /\ Format!Compressed(p, filters)[q + 1] = End

LEMMA CompressedIs ==
  ASSUME NEW p, Pictured(p), p.width > 0, p.height > 0,
         NEW filters \in [1 .. p.height -> Filters \cap Byte], NEW q \in Nat, q = p.height + 2
  PROVE  \E s : SymbolsOf(p, filters, q, s)
<1>1. PICK h \in Nat \ {0} : h = p.height /\ q = h + 2 /\ 1 \in 1 .. h
  <2>1. p.height \in Nat
    BY DEF Pictured
  <2> QED BY <2>1
<1>2. PICK first \in Seq(Byte) : first = Format!Filtered(p, 1, filters[1]) /\ Len(first) >= 2
  <2>1. filters[1] \in Filters \cap Byte
    BY <1>1
  <2>2. /\ Format!Filtered(p, 1, filters[1]) \in Seq(Byte)
        /\ Len(Format!Filtered(p, 1, filters[1])) = Format!LineBytes(p) + 1
    BY <1>1, <2>1, FilteredLine
  <2>3. Format!LineBytes(p) \in Nat \ {0}
    <3>1. PICK w \in Nat \ {0} : w = p.width
      <4>1. p.width \in Nat
        BY DEF Pictured
      <4> QED BY <4>1
    <3>2. PICK c \in Nat \ {0}, d \in Nat \ {0} : c = Format!Channels(p.colour) /\ d = p.depth \div 8
      <4>1. Format!Channels(p.colour) \in Nat \ {0}
        BY DEF Format!Channels
      <4>2. 8 \div 8 = 1 /\ 16 \div 8 = 2
        OBVIOUS
      <4>3. p.depth \div 8 \in Nat \ {0}
        BY <4>2 DEF Pictured
      <4> QED BY <4>1, <4>3
    <3>3. PICK wc \in Nat \ {0} : wc = w * c
      <4>1. w * c \in Nat \ {0}
        <5>1. w * 1 <= w * c
          BY TimesKeeps
        <5> QED BY <5>1
      <4> QED BY <4>1
    <3>4. wc * d \in Nat \ {0}
      <4>1. wc * 1 <= wc * d
        BY TimesKeeps
      <4> QED BY <4>1
    <3>5. Format!LineBytes(p) = wc * d
      BY <3>1, <3>2, <3>3 DEF Format!LineBytes
    <3> QED BY <3>4, <3>5
  <2> QED BY <2>2, <2>3
<1> DEFINE s == [i \in 1 .. q |-> IF i = 1 THEN <<>> ELSE IF i = 2 THEN SubSeq(first, 1, 2)
                                  ELSE IF i = 3 THEN SubSeq(first, 3, Len(first))
                                  ELSE Format!Filtered(p, i - 2, filters[i - 2])]
           packed == [i \in 1 .. q + 1 |-> IF i = q + 1 THEN End ELSE Symbol(s[i])]
<1>3. /\ SubSeq(first, 1, 2) \in Seq(Byte) /\ SubSeq(first, 3, Len(first)) \in Seq(Byte)
      /\ SubSeq(first, 1, 2) \o SubSeq(first, 3, Len(first)) = first
  <2>1. PICK n \in Nat : n = Len(first)
    OBVIOUS
  <2>2. 1 \in 1 .. n + 1 /\ 3 \in 1 .. n + 1 /\ n \in 2 .. n /\ 2 + 1 = 3 /\ 1 - 1 = 0
    BY <1>2, <2>1
  <2>3. SubSeq(first, 1, 2) \o SubSeq(first, 3, n) = SubSeq(first, 1, n)
    BY <1>2, <2>1, <2>2, ConcatAdjacentSubSeq
  <2>4. SubSeq(first, 1, n) = first
    BY <2>1
  <2>5. SubSeq(first, 1, 2) \in Seq(Byte) /\ SubSeq(first, 3, n) \in Seq(Byte)
    BY <1>2, <2>1
  <2> QED BY <2>1, <2>3, <2>4, <2>5
<1>4. \A y \in 2 .. h : Format!Filtered(p, y, filters[y]) \in Seq(Byte)
  <2>1. TAKE y \in 2 .. h
  <2>2. y \in 1 .. p.height /\ filters[y] \in Filters \cap Byte
    BY <1>1
  <2> QED BY <2>2, FilteredLine
<1>5. \A y \in 2 .. h : s[2 + y] = Format!Filtered(p, y, filters[y])
  <2>1. TAKE y \in 2 .. h
  <2>2. 2 + y \in 1 .. q /\ 2 + y # 1 /\ 2 + y # 2 /\ 2 + y # 3 /\ (2 + y) - 2 = y
    BY <1>1
  <2> QED BY <2>2
<1>6. s[1] = <<>> /\ s[2] = SubSeq(first, 1, 2) /\ s[3] = SubSeq(first, 3, Len(first))
  <2>1. 1 \in 1 .. q /\ 2 \in 1 .. q /\ 3 \in 1 .. q
    BY <1>1
  <2> QED BY <2>1
<1>7. \A i \in 1 .. q : s[i] \in Seq(Byte)
  <2>1. TAKE i \in 1 .. q
  <2>2. CASE i \in {1, 2, 3}
    <3>1. <<>> \in Seq(Byte)
      OBVIOUS
    <3> HIDE DEF s
    <3> QED BY <1>3, <1>6, <2>2, <3>1
  <2>3. CASE i \notin {1, 2, 3}
    <3>1. PICK y \in 2 .. h : i = 2 + y
      <4>1. i - 2 \in 2 .. h /\ i = 2 + (i - 2)
        BY <1>1, <2>3
      <4> QED BY <4>1
    <3> HIDE DEF s
    <3> QED BY <1>4, <1>5, <3>1
  <2> QED BY <2>2, <2>3
<1>8. Format!Compressed(p, filters) = packed
  <2> DEFINE line == Format!Filtered(p, 1, filters[1])
             StoodFor(i) == CASE i = 1 -> <<>> [] i = 2 -> SubSeq(line, 1, 2)
                              [] i = 3 -> SubSeq(line, 3, Len(line))
                              [] OTHER -> Format!Filtered(p, i - 2, filters[i - 2])
  <2>1. Format!Compressed(p, filters)
          = [i \in 1 .. p.height + 3 |-> IF i = p.height + 3 THEN End ELSE Symbol(StoodFor(i))]
    BY Zenon DEF Format!Compressed, Format!End, Format!Symbol, End, Symbol
  <2>2. p.height + 3 = q + 1
    BY <1>1
  <2>3. ASSUME NEW i \in 1 .. q + 1, i # q + 1 PROVE StoodFor(i) = s[i]
    <3>1. i \in 1 .. q
      BY <1>1, <2>3
    <3> QED BY <1>2, <3>1
  <2> HIDE DEF StoodFor, s
  <2> QED BY <2>1, <2>2, <2>3
<1> HIDE DEF s
<1>9. packed \in Seq(Datum) /\ Len(packed) = q + 1 /\ packed[q + 1] = End
      /\ \A i \in 1 .. q : packed[i] = Symbol(s[i])
  <2>1. \A i \in 1 .. q + 1 : packed[i] \in Datum
    <3>1. TAKE i \in 1 .. q + 1
    <3>2. CASE i = q + 1
      BY <3>2, UnitsWritten
    <3>3. CASE i # q + 1
      <4>1. i \in 1 .. q
        BY <3>3
      <4> QED BY <1>7, <3>3, <4>1, UnitsWritten
    <3> QED BY <3>2, <3>3
  <2>2. q + 1 \in 1 .. q + 1 /\ \A i \in 1 .. q : i \in 1 .. q + 1 /\ i # q + 1
    OBVIOUS
  <2>3. packed[q + 1] = End /\ \A i \in 1 .. q : packed[i] = Symbol(s[i])
    BY <2>2
  <2>4. packed = [i \in 1 .. q + 1 |-> packed[i]]
    OBVIOUS
  <2> HIDE DEF packed
  <2>5. packed \in Seq(Datum) /\ Len(packed) = q + 1
    <3>1. PICK n \in Nat : n = q + 1
      OBVIOUS
    <3>2. packed \in [1 .. n -> Datum]
      BY <2>1, <2>4, <3>1
    <3> QED BY <3>1, <3>2
  <2> QED BY <2>3, <2>5
<1> HIDE DEF packed
<1> QED BY <1>1, <1>2, <1>3, <1>5, <1>6, <1>7, <1>8, <1>9 DEF SymbolsOf

\* Compressed data z of q symbols and an end; the bytes that the symbols stand for are in
\* s, and those that the first of them stand for in f.
Packed(z, q, s, f) ==
  /\ z \in Seq(Datum) /\ Len(z) = q + 1 /\ z[q + 1] = End
  /\ \A i \in 1 .. q : s[i] \in Seq(Byte) /\ z[i] = Symbol(s[i])
  /\ Flat(Byte, s, q, f)

\* The compressed data of the format stand for all lines of a picture.
LEMMA CompressedStands ==
  ASSUME NEW p, Pictured(p), p.width > 0, p.height > 0,
         NEW filters \in [1 .. p.height -> Filters \cap Byte], NEW q \in Nat, q = p.height + 2
  PROVE  \E s, f : /\ Packed(Format!Compressed(p, filters), q, s, f)
                   /\ FirstLines(f[q], p, filters, p.height)
<1>1. PICK h \in Nat \ {0} : h = p.height /\ q = h + 2
  <2>1. p.height \in Nat
    BY DEF Pictured
  <2> QED BY <2>1
<1>2. PICK s : /\ \A i \in 1 .. q : s[i] \in Seq(Byte) /\ Format!Compressed(p, filters)[i] = Symbol(s[i])
               /\ s[1] = <<>> /\ s[2] \o s[3] = Format!Filtered(p, 1, filters[1])
               /\ \A y \in 2 .. p.height : s[2 + y] = Format!Filtered(p, y, filters[y])
               /\ Format!Compressed(p, filters) \in Seq(Datum)
               /\ Len(Format!Compressed(p, filters)) = q + 1
               /\ Format!Compressed(p, filters)[q + 1] = End
  <2>1. PICK s : SymbolsOf(p, filters, q, s)
    BY CompressedIs
  <2> QED BY <2>1, Zenon DEF SymbolsOf
<1>3. PICK f : Flat(Byte, s, q, f)
  <2>1. \A i \in 1 .. q : s[i] \in Seq(Byte)
    BY <1>2
  <2> QED BY <2>1, Flattening
<1>4. Packed(Format!Compressed(p, filters), q, s, f)
  BY <1>2, <1>3 DEF Packed
<1>5. f \in [0 .. q -> Seq(Byte)] /\ f[0] = <<>> /\ \A k \in 1 .. q : f[k] = f[k - 1] \o s[k]
  BY <1>3, Zenon DEF Flat
<1>6. f[3] = Format!Filtered(p, 1, filters[1])
  <2>1. /\ 1 \in 1 .. q /\ 2 \in 1 .. q /\ 3 \in 1 .. q
        /\ 1 - 1 = 0 /\ 2 - 1 = 1 /\ 3 - 1 = 2
    BY <1>1
  <2>2. PICK x \in Seq(Byte), y \in Seq(Byte) : x = s[2] /\ y = s[3]
    BY <1>2, <2>1
  <2>3. f[1] = <<>> \o <<>> /\ f[2] = f[1] \o x /\ f[3] = f[2] \o y
    BY <1>2, <1>5, <2>1, <2>2
  <2>4. <<>> \o <<>> = <<>> /\ <<>> \o x = x
    OBVIOUS
  <2> QED BY <1>2, <2>2, <2>3, <2>4
<1>7. FirstLines(f[2 + 1], p, filters, 1)
  <2>1. FirstLines(<<>>, p, filters, 0)
    <3>1. Format!LineBytes(p) \in Nat
      BY PictureSizes
    <3>2. PICK size \in Nat : size = Format!LineBytes(p) + 1
      BY <3>1
    <3>3. <<>> \in Seq(Byte) /\ Len(<<>>) = 0 * size
      OBVIOUS
    <3> QED BY <3>2, <3>3 DEF FirstLines
  <2>2. 0 \in Nat /\ 0 + 1 <= p.height /\ 0 + 1 = 1 /\ 1 \in 1 .. p.height
    BY <1>1
  <2>3. FirstLines(<<>> \o Format!Filtered(p, 0 + 1, filters[0 + 1]), p, filters, 0 + 1)
    BY <2>1, <2>2, OneLineBehind
  <2>4. <<>> \o Format!Filtered(p, 1, filters[1]) = Format!Filtered(p, 1, filters[1])
    <3>1. filters[1] \in Filters \cap Byte
      BY <2>2
    <3>2. Format!Filtered(p, 1, filters[1]) \in Seq(Byte)
      BY <2>2, <3>1, FilteredLine
    <3> QED BY <3>2
  <2>5. 2 + 1 = 3
    OBVIOUS
  <2> QED BY <1>6, <2>2, <2>3, <2>4, <2>5
<1> DEFINE Bad == {y \in 1 .. h : ~ FirstLines(f[2 + y], p, filters, y)}
<1>8. Bad = {}
  <2>1. SUFFICES ASSUME Bad # {} PROVE FALSE
    OBVIOUS
  <2>2. Bad \subseteq Nat
    <3>1. \A y \in 1 .. h : y \in Nat
      OBVIOUS
    <3> QED BY <3>1, Zenon
  <2>3. PICK y \in Bad : \A k \in Bad : y <= k
    <3> HIDE DEF Bad
    <3> QED BY <2>1, <2>2, LeastNumber
  <2>4. y \in 1 .. h /\ ~ FirstLines(f[2 + y], p, filters, y)
    OBVIOUS
  <2>5. y # 1
    BY <1>7, <2>4
  <2>6. PICK m \in Nat : /\ m = y - 1 /\ m \in 1 .. h /\ m + 1 = y /\ m + 1 <= p.height /\ ~ (y <= m)
                         /\ 2 + y \in 1 .. q /\ (2 + y) - 1 = 2 + m /\ y \in 2 .. p.height
    <3>1. /\ y - 1 \in Nat /\ y - 1 \in 1 .. h /\ (y - 1) + 1 = y /\ (y - 1) + 1 <= h /\ ~ (y <= y - 1)
          /\ 2 + y \in 1 .. q /\ (2 + y) - 1 = 2 + (y - 1) /\ y \in 2 .. h
      BY <1>1, <2>4, <2>5
    <3> QED BY <1>1, <3>1
  <2>7. FirstLines(f[2 + m], p, filters, m)
    <3>1. m \notin Bad
      <4> HIDE DEF Bad
      <4> QED BY <2>3, <2>6
    <3> QED BY <2>6, <3>1
  <2> HIDE DEF Bad
  <2>8. FirstLines(f[2 + m] \o Format!Filtered(p, m + 1, filters[m + 1]), p, filters, m + 1)
    BY <2>6, <2>7, OneLineBehind
  <2>9. f[2 + y] = f[2 + m] \o Format!Filtered(p, m + 1, filters[m + 1])
    BY ZenonT(30), <1>2, <1>5, <2>6
  <2> QED BY <2>4, <2>6, <2>8, <2>9
<1>9. FirstLines(f[q], p, filters, p.height)
  <2>1. h \in 1 .. h /\ 2 + h = q
    BY <1>1
  <2> QED BY <1>1, <1>8, <2>1
<1> QED BY <1>4, <1>9

\* How many of the q symbols are among the first k units of compressed data
Upto(k, q) == IF k <= q THEN k ELSE q

\* A part of the data, and what it adds to what the data before it stand for
PartOf(c, a, b, q, f) ==
  /\ c \in Seq(Datum) /\ Len(c) = b - a
  /\ \E m \in 0 .. b - a : /\ Symbols(c, m, b = q + 1)
                           /\ f[Upto(b, q)] = f[a] \o Expanded(c, m)

LEMMA PartStands ==
  ASSUME NEW z, NEW q \in Nat, NEW s, NEW f, Packed(z, q, s, f),
         NEW a \in Nat, NEW b \in Nat, a < b, b <= q + 1
  PROVE  PartOf(SubSeq(z, a + 1, b), a, b, q, f)
<1>1. z \in Seq(Datum) /\ Len(z) = q + 1 /\ z[q + 1] = End /\ Flat(Byte, s, q, f)
      /\ \A i \in 1 .. q : s[i] \in Seq(Byte) /\ z[i] = Symbol(s[i])
  BY Zenon DEF Packed
<1>2. PICK n \in Nat : n = b - a /\ a + n = b
  <2>1. b - a \in Nat /\ a + (b - a) = b
    OBVIOUS
  <2> QED BY <2>1
<1>3. PICK c \in Seq(Datum) : /\ c = SubSeq(z, a + 1, b) /\ Len(c) = n
                              /\ \A i \in 1 .. n : c[i] = z[a + i]
  <2>1. \A i \in a + 1 .. a + n : z[i] \in Datum
    <3>1. \A i \in a + 1 .. a + n : i \in 1 .. q + 1
      BY <1>2
    <3> QED BY <1>1, <3>1
  <2>2. /\ SubSeq(z, a + 1, a + n) \in Seq(Datum) /\ Len(SubSeq(z, a + 1, a + n)) = n
        /\ \A i \in 1 .. n : SubSeq(z, a + 1, a + n)[i] = z[a + i]
    BY <2>1, Piece
  <2> QED BY <1>2, <2>2
<1>4. PICK m \in Nat : /\ m = Upto(b, q) - a /\ a + m = Upto(b, q) /\ a + m <= q /\ m \in 0 .. n
                       /\ b = q + 1 => m + 1 = n
                       /\ b # q + 1 => m = n
  <2>1. CASE b = q + 1
    <3>1. Upto(b, q) = q /\ q - a \in Nat /\ a + (q - a) = q /\ q - a \in 0 .. n /\ (q - a) + 1 = n
      BY <1>2, <2>1 DEF Upto
    <3> QED BY <2>1, <3>1
  <2>2. CASE b # q + 1
    <3>1. Upto(b, q) = b /\ b <= q /\ n \in 0 .. n
      BY <2>2 DEF Upto
    <3> QED BY <1>2, <2>2, <3>1
  <2> QED BY <2>1, <2>2
<1>5. \A i \in 1 .. m : a + i \in 1 .. q /\ i \in 1 .. n
  BY <1>4
<1>6. \A i \in 1 .. m : c[i] = Symbol(s[a + i]) /\ c[i][1] = "symbol" /\ c[i][2] = s[a + i]
  <2>1. TAKE i \in 1 .. m
  <2>2. c[i] = Symbol(s[a + i])
    BY <1>1, <1>3, <1>5
  <2> QED BY <2>2 DEF Symbol
<1>7. Symbols(c, m, b = q + 1)
  <2>1. CASE b = q + 1
    <3>1. c[m + 1] = End
      <4>1. m + 1 \in 1 .. n /\ a + (m + 1) = q + 1
        BY <1>2, <1>4, <2>1
      <4> QED BY <1>1, <1>3, <4>1
    <3> QED BY <1>3, <1>4, <1>6, <2>1, <3>1 DEF Symbols
  <2>2. CASE b # q + 1
    BY <1>3, <1>4, <1>6, <2>2 DEF Symbols
  <2> QED BY <2>1, <2>2
<1>8. f[a + m] = f[a] \o Expanded(c, m)
  <2>1. PICK t : t = [i \in 1 .. m |-> c[i][2]]
    OBVIOUS
  <2>2. \A i \in 1 .. m : t[i] = s[a + i]
    BY <1>6, <2>1
  <2>3. a \in 0 .. q /\ \A i \in 1 .. q : s[i] \in Seq(Byte)
    BY <1>1, <1>4
  <2>4. f[a + m] = f[a] \o FlattenSeq([i \in 1 .. m |-> t[i]])
    <3>1. Appended(Byte, f, a, m, t)
      BY <1>1, <1>4, <2>2, <2>3, FlatBehind
    <3> QED BY <3>1, Zenon DEF Appended
  <2>5. [i \in 1 .. m |-> t[i]] = t
    BY <2>1
  <2>6. Expanded(c, m) = FlattenSeq(t)
    BY <2>1, Zenon DEF Expanded
  <2> QED BY <2>4, <2>5, <2>6
<1> QED BY <1>2, <1>3, <1>4, <1>7, <1>8 DEF PartOf

\* Where a sequence is among those that are put end to end
InPlace(s, n, f, k) ==
  /\ Len(f[k]) = Len(f[k - 1]) + Len(s[k]) /\ Len(f[k]) <= Len(f[n])
  /\ \A i \in 1 .. Len(s[k]) : f[n][Len(f[k - 1]) + i] = s[k][i]

LEMMA FlatInPlace ==
  ASSUME NEW T, NEW s, NEW n \in Nat, NEW f, Flat(T, s, n, f), \A i \in 1 .. n : s[i] \in Seq(T),
         NEW k \in 1 .. n
  PROVE  InPlace(s, n, f, k)
<1>1. f \in [0 .. n -> Seq(T)] /\ \A j \in 1 .. n : f[j] = f[j - 1] \o s[j]
  BY Zenon DEF Flat
<1>2. k \in 0 .. n /\ k - 1 \in 0 .. n /\ n \in 0 .. n
  OBVIOUS
<1>3. PICK x \in Seq(T), y \in Seq(T), w \in Seq(T) : x = f[k - 1] /\ y = s[k] /\ w = f[k] /\ w = x \o y
  <2>1. f[k - 1] \in Seq(T) /\ s[k] \in Seq(T) /\ f[k] \in Seq(T) /\ f[k] = f[k - 1] \o s[k]
    BY <1>1, <1>2
  <2> QED BY <2>1
<1>4. PICK a \in Nat, b \in Nat, d \in Nat : a = Len(x) /\ b = Len(y) /\ d = a + b
  <2>1. Len(x) \in Nat /\ Len(y) \in Nat /\ Len(x) + Len(y) \in Nat
    OBVIOUS
  <2> QED BY <2>1
<1>5. Len(w) = d /\ \A i \in 1 .. b : w[a + i] = y[i]
  <2>1. Joint(T, x, y, a, b)
    BY <1>4, Joining
  <2> QED BY <1>3, <1>4, <2>1, Zenon DEF Joint
<1>6. PICK r \in Seq(T) : f[n] = w \o r
  <2>1. PICK m \in Nat : m = n - k /\ k + m = n
    <3>1. n - k \in Nat /\ k + (n - k) = n
      OBVIOUS
    <3> QED BY <3>1
  <2>2. PICK t : \A i \in 1 .. m : t[i] = s[k + i]
    <3>1. \A i \in 1 .. m : [j \in 1 .. m |-> s[k + j]][i] = s[k + i]
      OBVIOUS
    <3> QED BY <3>1
  <2>3. /\ FlattenSeq([i \in 1 .. m |-> t[i]]) \in Seq(T)
        /\ f[k + m] = f[k] \o FlattenSeq([i \in 1 .. m |-> t[i]])
    <3>1. Appended(T, f, k, m, t)
      <4>1. k \in 0 .. n /\ k + m <= n
        BY <2>1
      <4> QED BY <2>2, <4>1, FlatBehind
    <3> QED BY <3>1, Zenon DEF Appended
  <2> QED BY <1>3, <2>1, <2>3
<1>7. PICK v \in Seq(T), e \in Nat : v = f[n] /\ e = Len(r) /\ Len(v) = d + e /\ \A i \in 1 .. d : v[i] = w[i]
  <2>1. Len(r) \in Nat
    OBVIOUS
  <2>2. PICK e \in Nat : e = Len(r)
    BY <2>1
  <2>3. Joint(T, w, r, d, e)
    BY <1>5, <2>2, Joining
  <2>4. w \o r \in Seq(T) /\ Len(w \o r) = d + e /\ \A i \in 1 .. d : (w \o r)[i] = w[i]
    BY <2>3, Zenon DEF Joint
  <2> QED BY <1>6, <2>2, <2>4
<1>8. \A i \in 1 .. b : v[a + i] = y[i]
  <2>1. \A i \in 1 .. b : a + i \in 1 .. d
    BY <1>4
  <2> QED BY <1>5, <1>7, <2>1
<1>9. d <= d + e
  OBVIOUS
<1> QED BY <1>3, <1>4, <1>5, <1>7, <1>8, <1>9 DEF InPlace

\* How the encoder divides q symbols and the end of the data: the chunks of other types
\* have nothing of them, and some chunk has the first.
LEMMA DividedIs ==
  ASSUME NEW types, NEW ends, NEW q \in Nat, Format!Divided(types, ends, q + 1)
  PROVE  /\ types \in Seq(ChunkTypes) /\ Len(types) \in Nat \ {0}
         /\ ends \in [1 .. Len(types) + 1 -> 0 .. q + 1]
         /\ \E k \in 1 .. Len(types) : types[k] = "IDAT"
<1>1. /\ types \in Seq({"IDAT", "IEND", "tEXt", "tIME"}) /\ types # <<>>
      /\ ends \in [1 .. Len(types) + 1 -> 0 .. q + 1]
      /\ ends[1] = 0 /\ ends[Len(types) + 1] = q + 1
      /\ \A k \in DOMAIN types : ~ (types[k] = "IDAT") => ends[k] = ends[k + 1]
  BY Zenon DEF Format!Divided
<1>2. types \in Seq(ChunkTypes)
  <2>1. \A k \in 1 .. Len(types) : types[k] \in {"IDAT", "IEND", "tEXt", "tIME"}
    BY <1>1
  <2>2. \A k \in 1 .. Len(types) : types[k] \in ChunkTypes
    BY <2>1 DEF ChunkTypes
  <2> QED BY <1>1, <2>2
<1>3. PICK n \in Nat \ {0} : n = Len(types) /\ DOMAIN types = 1 .. n
  <2>1. Len(types) \in Nat /\ Len(types) # 0 /\ DOMAIN types = 1 .. Len(types)
    BY <1>1
  <2> QED BY <2>1
<1> DEFINE Some == {k \in 1 .. n + 1 : ends[k] # 0}
<1>4. Some # {} /\ Some \subseteq Nat
  <2>1. n + 1 \in Some
    BY <1>1, <1>3
  <2>2. \A k \in 1 .. n + 1 : k \in Nat
    OBVIOUS
  <2> QED BY <2>1, <2>2, Zenon
<1>5. PICK k \in Some : \A j \in Some : k <= j
  <2> HIDE DEF Some
  <2> QED BY <1>4, LeastNumber
<1>6. k \in 1 .. n + 1 /\ ends[k] # 0
  OBVIOUS
<1>7. k - 1 \in 1 .. n /\ k - 1 \in 1 .. n + 1 /\ (k - 1) + 1 = k /\ ~ (k <= k - 1)
  BY <1>1, <1>6
<1>8. ends[k - 1] = 0
  <2>1. k - 1 \notin Some
    <3> HIDE DEF Some
    <3> QED BY <1>5, <1>7
  <2> QED BY <1>7, <2>1
<1>9. types[k - 1] = "IDAT"
  BY <1>1, <1>3, <1>6, <1>7, <1>8
<1> QED BY <1>1, <1>2, <1>3, <1>7, <1>9

\* The encoder's file is its head and its chunks.
ChunkAt(z, types, ends, k) ==
  ChunkUnits(types[k], Format!Content(types[k], z, ends[k], ends[k + 1]))
ChunksOf(z, types, ends, n) == [k \in 1 .. n |-> ChunkAt(z, types, ends, k)]

LEMMA FileIs ==
  ASSUME NEW p, NEW filters, NEW types \in Seq(ChunkTypes), NEW ends, NEW n \in Nat, n = Len(types)
  PROVE  Format!File(p, filters, types, ends)
           = HeadUnits(Format!HeaderOf(p))
               \o FlattenSeq(ChunksOf(Format!Compressed(p, filters), types, ends, n))
<1> DEFINE z == Format!Compressed(p, filters)
           h == Format!HeaderOf(p)
<1>1. DOMAIN types = 1 .. n
  OBVIOUS
<1>2. Format!File(p, filters, types, ends)
        = HeadUnits(h) \o FlattenSeq([k \in DOMAIN types |-> ChunkAt(z, types, ends, k)])
  BY Zenon DEF Format!File, Format!Opening, Format!Chunk, Format!Signature, Format!Word, Format!Header, Format!Type,
    Format!Crc, Format!FlattenSeq, FlattenSeq, Signature, Word, Header, Crc, Type, ChunkAt, ChunkUnits, HeadUnits
<1> QED BY <1>1, <1>2, Zenon DEF ChunksOf

\* What a chunk has of the data
ContentOf(c, types, ends, q, f, k) ==
  /\ c \in Seq(Datum)
  /\ types[k] = "IDAT" => ends[k] < ends[k + 1] /\ PartOf(c, ends[k], ends[k + 1], q, f)
  /\ types[k] # "IDAT" => ends[k] = ends[k + 1]

LEMMA ContentIs ==
  ASSUME NEW types, NEW ends, NEW q \in Nat, Format!Divided(types, ends, q + 1),
         NEW z, NEW s, NEW f, Packed(z, q, s, f), NEW k \in 1 .. Len(types)
  PROVE  ContentOf(Format!Content(types[k], z, ends[k], ends[k + 1]), types, ends, q, f, k)
<1>1. /\ ends \in [1 .. Len(types) + 1 -> 0 .. q + 1] /\ Len(types) \in Nat
      /\ types \in Seq(ChunkTypes)
  BY DividedIs
<1>2. DOMAIN types = 1 .. Len(types)
  BY <1>1
<1>3. IF types[k] = "IDAT" THEN ends[k] < ends[k + 1] ELSE ends[k] = ends[k + 1]
  BY <1>2, Zenon DEF Format!Divided
<1>4. PICK a \in Nat, b \in Nat : a = ends[k] /\ b = ends[k + 1] /\ b <= q + 1
  <2>1. k \in 1 .. Len(types) + 1 /\ k + 1 \in 1 .. Len(types) + 1
    BY <1>1
  <2>2. ends[k] \in 0 .. q + 1 /\ ends[k + 1] \in 0 .. q + 1
    BY <1>1, <2>1
  <2> QED BY <2>2
<1>5. CASE types[k] = "IDAT"
  <2>1. Format!Content(types[k], z, ends[k], ends[k + 1]) = SubSeq(z, a + 1, b)
    BY <1>4, <1>5 DEF Format!Content
  <2>2. PartOf(SubSeq(z, a + 1, b), a, b, q, f)
    BY <1>3, <1>4, <1>5, PartStands
  <2>3. SubSeq(z, a + 1, b) \in Seq(Datum)
    BY <2>2, Zenon DEF PartOf
  <2> QED BY <1>3, <1>4, <1>5, <2>1, <2>2, <2>3 DEF ContentOf
<1>6. CASE types[k] # "IDAT"
  <2>1. <<>> \in Seq(Datum)
    OBVIOUS
  <2>2. <<Noise>> \in Seq(Datum)
    <3>1. Noise \in Datum
      BY DEF Datum
    <3> QED BY <3>1, Single
  <2>3. Format!Content(types[k], z, ends[k], ends[k + 1]) \in {<<>>, <<Noise>>}
    BY <1>6, SameUnits DEF Format!Content
  <2> QED BY <1>3, <1>6, <2>1, <2>2, <2>3 DEF ContentOf
<1> QED BY <1>5, <1>6

\* Where the chunks c are in a file: chunk k, of n, from start[k] on
Chained(u, h, n, start, types, c) ==
  /\ u \in Seq(Unit) /\ start \in [1 .. n + 1 -> Nat] /\ start[1] = 4
  /\ u[1] = Signature /\ u[2] = Word(13) /\ u[3] = Header(h) /\ u[4] = Crc("IHDR", <<u[3]>>)
  /\ \A k \in 1 .. n :
       /\ start[k + 1] = start[k] + 3 + Len(c[k]) /\ start[k + 1] <= Len(u)
       /\ u[start[k] + 1] = Word(Len(c[k])) /\ u[start[k] + 2] = Type(types[k])
       /\ u[start[k + 1]] = Crc(types[k], c[k])
       /\ \A i \in 1 .. Len(c[k]) : u[start[k] + 2 + i] = c[k][i]
  /\ start[n + 1] = Len(u)

LEMMA ChainIs ==
  ASSUME NEW h \in HeaderSet, NEW n \in Nat, NEW types \in [1 .. n -> ChunkTypes],
         NEW c \in [1 .. n -> Seq(Datum)], NEW chunks, chunks = [k \in 1 .. n |-> ChunkUnits(types[k], c[k])]
  PROVE  \E start : Chained(HeadUnits(h) \o FlattenSeq(chunks), h, n, start, types, c)
<1>1. \A k \in 1 .. n : IsChunk(chunks[k], types[k], c[k], Len(c[k])) /\ Len(c[k]) \in Nat
  <2>1. TAKE k \in 1 .. n
  <2>2. types[k] \in ChunkTypes /\ c[k] \in Seq(Datum)
    OBVIOUS
  <2>3. Len(c[k]) \in Nat
    BY <2>2
  <2>4. IsChunk(ChunkUnits(types[k], c[k]), types[k], c[k], Len(c[k]))
    BY <2>2, <2>3, ChunkPlaced
  <2> QED BY <2>3, <2>4
<1>2. \A k \in 1 .. n : chunks[k] \in Seq(Unit)
  BY <1>1, Zenon DEF IsChunk
<1>3. PICK f : Flat(Unit, chunks, n, f)
  BY <1>2, Flattening
<1>4. f \in [0 .. n -> Seq(Unit)] /\ f[0] = <<>> /\ FlattenSeq([i \in 1 .. n |-> chunks[i]]) = f[n]
  <2>1. n \in 0 .. n
    OBVIOUS
  <2> QED BY <1>3, <2>1, Zenon DEF Flat
<1>5. PICK v \in Seq(Unit), l \in Nat : v = FlattenSeq(chunks) /\ v = f[n] /\ l = Len(v)
  <2>1. [i \in 1 .. n |-> chunks[i]] = chunks
    OBVIOUS
  <2>2. n \in 0 .. n
    OBVIOUS
  <2>3. FlattenSeq(chunks) = f[n]
    BY <1>4, <2>1, Zenon
  <2>4. f[n] \in Seq(Unit)
    BY <1>4, <2>2
  <2>5. Len(f[n]) \in Nat
    BY <2>4
  <2> QED BY <2>3, <2>4, <2>5
<1>6. PICK a \in Seq(Unit), o \in Nat : a = HeadUnits(h) /\ o = 4 /\ Len(a) = o
  BY FixedUnits
<1>7. Joint(Unit, a, v, o, l)
  BY <1>5, <1>6, Joining
<1>8. PICK u \in Seq(Unit) : /\ u = a \o v /\ Len(u) = o + l /\ (\A i \in 1 .. o : u[i] = a[i])
                             /\ \A i \in 1 .. l : u[o + i] = v[i]
  BY <1>7, Zenon DEF Joint
<1>9. u[1] = Signature /\ u[2] = Word(13) /\ u[3] = Header(h) /\ u[4] = Crc("IHDR", <<u[3]>>)
  <2>1. a[1] = Signature /\ a[2] = Word(13) /\ a[3] = Header(h) /\ a[4] = Crc("IHDR", <<Header(h)>>)
    BY <1>6 DEF HeadUnits
  <2>2. 1 \in 1 .. o /\ 2 \in 1 .. o /\ 3 \in 1 .. o /\ 4 \in 1 .. o
    BY <1>6
  <2> QED BY <1>8, <2>1, <2>2
<1>10. \A k \in 0 .. n : Len(f[k]) \in Nat
  <2>1. TAKE k \in 0 .. n
  <2>2. f[k] \in Seq(Unit)
    BY <1>4
  <2> QED BY <2>2
<1>11. PICK start \in [1 .. n + 1 -> Nat] : \A k \in 1 .. n + 1 : start[k] = o + Len(f[k - 1])
  <2> DEFINE start == [k \in 1 .. n + 1 |-> o + Len(f[k - 1])]
  <2>1. \A k \in 1 .. n + 1 : k - 1 \in 0 .. n
    OBVIOUS
  <2>2. start \in [1 .. n + 1 -> Nat]
    BY <1>10, <2>1
  <2> QED BY <2>2
<1>12. start[1] = 4 /\ start[n + 1] = Len(u)
  <2>1. 1 \in 1 .. n + 1 /\ n + 1 \in 1 .. n + 1 /\ 1 - 1 = 0 /\ (n + 1) - 1 = n
    OBVIOUS
  <2>2. start[1] = o + Len(f[0]) /\ start[n + 1] = o + Len(f[n])
    BY <1>11, <2>1
  <2>3. Len(f[0]) = 0
    BY <1>4
  <2> QED BY <1>5, <1>6, <1>8, <2>2, <2>3
<1>13. ASSUME NEW k \in 1 .. n
       PROVE  /\ start[k + 1] = start[k] + 3 + Len(c[k]) /\ start[k + 1] <= Len(u)
              /\ u[start[k] + 1] = Word(Len(c[k])) /\ u[start[k] + 2] = Type(types[k])
              /\ u[start[k + 1]] = Crc(types[k], c[k])
              /\ \A i \in 1 .. Len(c[k]) : u[start[k] + 2 + i] = c[k][i]
  <2>1. InPlace(chunks, n, f, k)
    BY <1>2, <1>3, FlatInPlace
  <2>2. PICK x \in Nat, m \in Nat : /\ x = Len(f[k - 1]) /\ m = Len(c[k]) /\ m + 3 = Len(chunks[k])
                                    /\ IsChunk(chunks[k], types[k], c[k], m)
    <3>1. k - 1 \in 0 .. n
      OBVIOUS
    <3>2. Len(f[k - 1]) \in Nat /\ Len(c[k]) \in Nat /\ IsChunk(chunks[k], types[k], c[k], Len(c[k]))
      BY <1>1, <1>10, <3>1
    <3>3. Len(c[k]) + 3 = Len(chunks[k])
      BY <3>2, Zenon DEF IsChunk
    <3> QED BY <3>2, <3>3
  <2>3. /\ Len(f[k]) = x + (m + 3) /\ Len(f[k]) <= l
        /\ \A i \in 1 .. m + 3 : v[x + i] = chunks[k][i]
    BY <1>5, <2>1, <2>2 DEF InPlace
  <2>4. \A i \in 1 .. m + 3 : u[(o + x) + i] = chunks[k][i]
    <3>1. TAKE i \in 1 .. m + 3
    <3>2. x + (m + 3) <= l
      BY <2>3
    <3>3. x + i \in 1 .. l /\ o + (x + i) = (o + x) + i
      BY <3>2
    <3> QED BY <1>8, <2>3, <3>3
  <2>5. start[k] = o + x /\ start[k + 1] = (o + x) + (m + 3)
    <3>1. k \in 1 .. n + 1 /\ k + 1 \in 1 .. n + 1 /\ (k + 1) - 1 = k
      OBVIOUS
    <3>2. start[k] = o + Len(f[k - 1]) /\ start[k + 1] = o + Len(f[k])
      BY <1>11, <3>1
    <3>3. o + (x + (m + 3)) = (o + x) + (m + 3)
      OBVIOUS
    <3> QED BY <2>2, <2>3, <3>2, <3>3
  <2>6. start[k + 1] = start[k] + 3 + Len(c[k]) /\ start[k + 1] <= Len(u)
    <3>1. (o + x) + (m + 3) = (o + x) + 3 + m /\ (o + x) + (m + 3) <= o + l
      BY <2>3
    <3> QED BY <1>8, <2>2, <2>5, <3>1
  <2>7. /\ chunks[k][1] = Word(m) /\ chunks[k][2] = Type(types[k]) /\ chunks[k][m + 3] = Crc(types[k], c[k])
        /\ \A i \in 1 .. m : chunks[k][2 + i] = c[k][i]
    BY <2>2, Zenon DEF IsChunk
  <2>8. u[start[k] + 1] = Word(m) /\ u[start[k] + 2] = Type(types[k]) /\ u[start[k + 1]] = Crc(types[k], c[k])
    <3>1. 1 \in 1 .. m + 3 /\ 2 \in 1 .. m + 3 /\ m + 3 \in 1 .. m + 3
      OBVIOUS
    <3> QED BY <2>4, <2>5, <2>7, <3>1
  <2>9. \A i \in 1 .. m : u[start[k] + 2 + i] = c[k][i]
    <3>1. TAKE i \in 1 .. m
    <3>2. 2 + i \in 1 .. m + 3 /\ (o + x) + (2 + i) = (o + x) + 2 + i
      OBVIOUS
    <3> QED BY <2>4, <2>5, <2>7, <3>2
  <2> QED BY <2>2, <2>6, <2>8, <2>9
<1>14. Chained(u, h, n, start, types, c)
  BY <1>9, <1>11, <1>12, <1>13 DEF Chained
<1> QED BY <1>5, <1>6, <1>8, <1>14

\* A layout with the parts that it is given
Parts(u, n, start, given, ended) ==
  [units |-> u, n |-> n, start |-> start, given |-> given, ended |-> ended]

\* What is before each chunk, and what each is
Counted(L, n, ends, q, f) ==
  /\ L.n = n /\ L.ended \in [1 .. n + 1 -> BOOLEAN]
  /\ \A k \in 1 .. n + 1 : L.given[k] = f[Upto(ends[k], q)] /\ (L.ended[k] <=> ends[k] = q + 1)
LaidFor(L, k, types, c) ==
  /\ ChunkLaid(L, k) /\ Size(L, k) = Len(c[k])
  /\ Carries(L, k) <=> types[k] = "IDAT"

\* A chunk of the encoder is laid as the format wants it.
LEMMA EncodedChunk ==
  ASSUME NEW types, NEW ends, NEW q \in Nat, Format!Divided(types, ends, q + 1),
         NEW n \in Nat, n = Len(types), NEW c, NEW f,
         \A k \in 1 .. n : ContentOf(c[k], types, ends, q, f, k),
         NEW h, NEW L, Chained(L.units, h, n, L.start, types, c), Counted(L, n, ends, q, f),
         NEW k \in 1 .. n
  PROVE  LaidFor(L, k, types, c)
<1>1. /\ ends \in [1 .. n + 1 -> 0 .. q + 1] /\ types \in Seq(ChunkTypes)
  BY DividedIs
<1>2. types[k] = "IEND" <=> k = n
  <2>1. DOMAIN types = 1 .. n
    BY <1>1
  <2> QED BY <2>1, Zenon DEF Format!Divided
<1>3. ContentOf(c[k], types, ends, q, f, k)
  OBVIOUS
<1>4. PICK d \in Seq(Datum), m \in Nat : d = c[k] /\ m = Len(d)
  <2>1. c[k] \in Seq(Datum)
    BY <1>3 DEF ContentOf
  <2>2. Len(c[k]) \in Nat
    BY <2>1
  <2> QED BY <2>1, <2>2
<1>5. k \in 1 .. n + 1 /\ k + 1 \in 1 .. n + 1
  OBVIOUS
<1>6. PICK a \in Nat, b \in Nat : a = L.start[k] /\ b = L.start[k + 1]
  BY <1>5 DEF Chained
<1>7. /\ b = a + 3 + m /\ b <= Len(L.units)
      /\ L.units[a + 1] = Word(m) /\ L.units[a + 2] = Type(types[k])
      /\ L.units[b] = Crc(types[k], d)
      /\ \A i \in 1 .. m : L.units[a + 2 + i] = d[i]
  <2>1. /\ L.start[k + 1] = L.start[k] + 3 + Len(c[k]) /\ L.start[k + 1] <= Len(L.units)
        /\ L.units[L.start[k] + 1] = Word(Len(c[k])) /\ L.units[L.start[k] + 2] = Type(types[k])
        /\ L.units[L.start[k + 1]] = Crc(types[k], c[k])
        /\ \A i \in 1 .. Len(c[k]) : L.units[L.start[k] + 2 + i] = c[k][i]
    BY Zenon DEF Chained
  <2> QED BY <1>4, <1>6, <2>1
<1>8. Size(L, k) = m
  <2>1. b - a - 3 = m
    BY <1>7
  <2> QED BY <1>6, <2>1 DEF Size
<1>9. Content(L, k) = d
  <2>1. Content(L, k) = [i \in 1 .. m |-> L.units[a + 2 + i]]
    BY <1>6, <1>8 DEF Content
  <2>2. d = [i \in 1 .. m |-> d[i]]
    BY <1>4
  <2> QED BY <1>7, <2>1, <2>2
<1>10. Carries(L, k) <=> types[k] = "IDAT"
  BY <1>6, <1>7 DEF Carries, Type
<1>11. L.units[a + 2] = Type("IEND") <=> k = L.n
  BY <1>2, <1>7 DEF Type, Counted
<1>12. a + 3 <= b
  BY <1>7
<1>13. PICK x \in Nat, y \in Nat : x = ends[k] /\ y = ends[k + 1] /\ y <= q + 1
  <2>1. ends[k] \in 0 .. q + 1 /\ ends[k + 1] \in 0 .. q + 1
    BY <1>1, <1>5
  <2> QED BY <2>1
<1>14. /\ L.given[k] = f[Upto(x, q)] /\ (L.ended[k] <=> x = q + 1)
       /\ L.given[k + 1] = f[Upto(y, q)] /\ (L.ended[k + 1] <=> y = q + 1)
       /\ L.ended[k] \in BOOLEAN /\ L.ended[k + 1] \in BOOLEAN
  BY <1>5, <1>13 DEF Counted
<1>15. ASSUME types[k] = "IDAT" PROVE ChunkLaid(L, k)
  <2>1. x < y /\ PartOf(d, x, y, q, f)
    BY <1>3, <1>4, <1>13, <1>15 DEF ContentOf
  <2>2. PICK w \in 0 .. y - x : Symbols(d, w, y = q + 1) /\ f[Upto(y, q)] = f[x] \o Expanded(d, w)
    BY <2>1, Zenon DEF PartOf
  <2>3. Upto(x, q) = x /\ x # q + 1
    BY <1>13, <2>1 DEF Upto
  <2>4. w \in 0 .. m
    BY <1>4, <2>2 DEF Symbols
  <2>5. Symbols(d, w, L.ended[k + 1])
    BY <1>14, <2>2 DEF Symbols
  <2>6. L.given[k + 1] = L.given[k] \o Expanded(d, w) /\ ~ L.ended[k]
    BY <1>14, <2>2, <2>3
  <2>7. L.units[b] = Crc("IDAT", d)
    BY <1>7, <1>15
  <2>8. ChunkLaid(L, k)
    <3>1. \E r \in 0 .. Size(L, k) : /\ Symbols(Content(L, k), r, L.ended[k + 1])
                                     /\ L.given[k + 1] = L.given[k] \o Expanded(Content(L, k), r)
      BY <1>8, <1>9, <2>4, <2>5, <2>6
    <3> QED BY <1>6, <1>7, <1>8, <1>9, <1>10, <1>11, <1>12, <1>15, <2>6, <2>7, <3>1 DEF ChunkLaid
  <2> QED BY <2>8
<1>16. ASSUME types[k] # "IDAT" PROVE ChunkLaid(L, k)
  <2>1. x = y
    BY <1>3, <1>13, <1>16 DEF ContentOf
  <2>2. L.given[k + 1] = L.given[k]
    BY <1>14, <2>1
  <2>3. L.ended[k + 1] = L.ended[k]
    <3>1. L.ended[k + 1] <=> L.ended[k]
      BY <1>14, <2>1
    <3> QED BY <1>14, <3>1
  <2> QED BY <1>6, <1>7, <1>8, <1>10, <1>11, <1>12, <1>16, <2>2, <2>3 DEF ChunkLaid
<1>17. ChunkLaid(L, k)
  BY <1>15, <1>16
<1> QED BY <1>4, <1>8, <1>10, <1>17 DEF LaidFor

\* The encoder's file is laid as the format wants it (PngFormat!File).
LEMMA EncoderLaid ==
  ASSUME NEW p, Pictured(p), p.width > 0, p.height > 0,
         NEW filters \in [1 .. p.height -> Filters \cap Byte],
         NEW types, NEW ends, Format!Divided(types, ends, p.height + 3)
  PROVE  \E L : Laid(L, p) /\ NoneEmpty(L) /\ L.units = Format!File(p, filters, types, ends)
<1>1. PICK q \in Nat : q = p.height + 2 /\ p.height + 3 = q + 1
  <2>1. p.height \in Nat
    BY DEF Pictured
  <2> QED BY <2>1
<1>2. Format!Divided(types, ends, q + 1)
  BY <1>1
<1>3. PICK z, s, f : Packed(z, q, s, f) /\ z = Format!Compressed(p, filters) /\ FirstLines(f[q], p, filters, p.height)
  BY <1>1, CompressedStands
<1>4. PICK n \in Nat \ {0} : /\ n = Len(types) /\ types \in [1 .. n -> ChunkTypes]
                            /\ ends \in [1 .. n + 1 -> 0 .. q + 1] /\ types \in Seq(ChunkTypes)
                            /\ \E k \in 1 .. n : types[k] = "IDAT"
  <2>1. /\ types \in Seq(ChunkTypes) /\ Len(types) \in Nat \ {0}
        /\ ends \in [1 .. Len(types) + 1 -> 0 .. q + 1]
        /\ \E k \in 1 .. Len(types) : types[k] = "IDAT"
    BY <1>2, DividedIs
  <2> QED BY <2>1
<1> DEFINE content(k) == Format!Content(types[k], z, ends[k], ends[k + 1])
<1>5. \A k \in 1 .. n : ContentOf(content(k), types, ends, q, f, k)
  <2>1. TAKE k \in 1 .. n
  <2> QED BY <1>2, <1>3, <1>4, ContentIs
<1>6. PICK c \in [1 .. n -> Seq(Datum)] : \A k \in 1 .. n : c[k] = content(k)
  <2> HIDE DEF content
  <2>1. \A k \in 1 .. n : content(k) \in Seq(Datum)
    BY <1>5, Zenon DEF ContentOf
  <2>2. [k \in 1 .. n |-> content(k)] \in [1 .. n -> Seq(Datum)]
    BY <2>1, Zenon
  <2> QED BY <2>2
<1>7. \A k \in 1 .. n : ContentOf(c[k], types, ends, q, f, k)
  <2> HIDE DEF content
  <2> QED BY <1>5, <1>6
<1>8. PICK h \in HeaderSet : h = Format!HeaderOf(p)
  BY HeaderFits
<1> DEFINE chunks == [k \in 1 .. n |-> ChunkUnits(types[k], c[k])]
           u == HeadUnits(h) \o FlattenSeq(chunks)
<1>9. Format!File(p, filters, types, ends) = u
  <2>1. n \in Nat /\ types \in Seq(ChunkTypes) /\ n = Len(types)
    BY <1>4
  <2>2. Format!File(p, filters, types, ends)
          = HeadUnits(Format!HeaderOf(p))
              \o FlattenSeq(ChunksOf(Format!Compressed(p, filters), types, ends, n))
    BY <2>1, FileIs
  <2>3. \A k \in 1 .. n : ChunkAt(Format!Compressed(p, filters), types, ends, k) = ChunkUnits(types[k], c[k])
    BY <1>3, <1>6, Zenon DEF ChunkAt
  <2>4. ChunksOf(Format!Compressed(p, filters), types, ends, n) = chunks
    BY <2>3, Zenon DEF ChunksOf
  <2> HIDE DEF chunks
  <2> QED BY <1>8, <2>2, <2>4
<1>10. PICK start : Chained(u, h, n, start, types, c)
  <2>1. n \in Nat
    OBVIOUS
  <2>2. PICK cs : cs = chunks
    OBVIOUS
  <2>3. \E start : Chained(HeadUnits(h) \o FlattenSeq(cs), h, n, start, types, c)
    BY <1>4, <2>1, <2>2, ChainIs
  <2> HIDE DEF chunks
  <2> QED BY <2>2, <2>3
<1> HIDE DEF chunks, content, u
<1>11. f \in [0 .. q -> Seq(Byte)] /\ f[0] = <<>>
  <2>1. Flat(Byte, s, q, f)
    BY <1>3, Zenon DEF Packed
  <2> QED BY <2>1, Zenon DEF Flat
<1>12. \A k \in 1 .. n + 1 : Upto(ends[k], q) \in 0 .. q
  <2>1. TAKE k \in 1 .. n + 1
  <2>2. ends[k] \in 0 .. q + 1
    BY <1>4
  <2> QED BY <2>2 DEF Upto
<1>13. PICK given \in [1 .. n + 1 -> Seq(Byte)] : \A k \in 1 .. n + 1 : given[k] = f[Upto(ends[k], q)]
  <2>1. [k \in 1 .. n + 1 |-> f[Upto(ends[k], q)]] \in [1 .. n + 1 -> Seq(Byte)]
    BY <1>11, <1>12
  <2> QED BY <2>1
<1>14. PICK ended \in [1 .. n + 1 -> BOOLEAN] : \A k \in 1 .. n + 1 : ended[k] <=> ends[k] = q + 1
  <2>1. \A k \in 1 .. n + 1 : (ends[k] = q + 1) \in BOOLEAN
    OBVIOUS
  <2>2. [k \in 1 .. n + 1 |-> ends[k] = q + 1] \in [1 .. n + 1 -> BOOLEAN]
    BY <2>1, Zenon
  <2>3. \A k \in 1 .. n + 1 : [j \in 1 .. n + 1 |-> ends[j] = q + 1][k] <=> ends[k] = q + 1
    BY Zenon
  <2> QED BY <2>2, <2>3, Zenon
<1>15. PICK L : /\ L.units = u /\ L.n = n /\ L.start = start /\ L.given = given /\ L.ended = ended
  <2>1. PICK L : L = Parts(u, n, start, given, ended)
    OBVIOUS
  <2> QED BY <2>1 DEF Parts
<1>16. \A k \in 1 .. n : LaidFor(L, k, types, c)
  <2>1. TAKE k \in 1 .. n
  <2>2. Chained(L.units, h, n, L.start, types, c)
    BY <1>10, <1>15
  <2>3. Counted(L, n, ends, q, f)
    BY <1>13, <1>14, <1>15 DEF Counted
  <2>4. n \in Nat
    OBVIOUS
  <2> QED BY <1>2, <1>4, <1>7, <2>2, <2>3, <2>4, EncodedChunk
<1>17. PICK l \in Nat : l = DataLength(Format!HeaderOf(p)) /\ Len(f[q]) = l
  <2>1. PICK m \in Nat, y \in Nat : /\ m = Format!LineBytes(p) /\ m = LineLength(Format!HeaderOf(p))
                                    /\ y = p.height /\ y = Format!HeaderOf(p).height
    BY HeaderSizes, PictureSizes DEF Pictured
  <2>2. DataLength(Format!HeaderOf(p)) = (m * y) + y
    BY <2>1, HeaderSizes
  <2>3. Len(f[q]) = y * (m + 1)
    BY <1>3, <2>1 DEF FirstLines
  <2>4. y * (m + 1) = (m * y) + y /\ (m * y) + y \in Nat
    OBVIOUS
  <2> QED BY <2>2, <2>3, <2>4
<1>18. \A k \in 1 .. n + 1 : Len(given[k]) <= l
  <2>1. TAKE k \in 1 .. n + 1
  <2>2. PICK a \in 0 .. q, m \in Nat : a = Upto(ends[k], q) /\ a + m = q
    <3>1. Upto(ends[k], q) \in 0 .. q
      BY <1>12
    <3>2. PICK a \in 0 .. q : a = Upto(ends[k], q)
      BY <3>1
    <3>3. q - a \in Nat /\ a + (q - a) = q
      OBVIOUS
    <3> QED BY <3>2, <3>3
  <2>3. PICK t : \A i \in 1 .. m : t[i] = s[a + i]
    <3>1. \A i \in 1 .. m : [j \in 1 .. m |-> s[a + j]][i] = s[a + i]
      OBVIOUS
    <3> QED BY <3>1
  <2>4. Appended(Byte, f, a, m, t)
    <3>1. Flat(Byte, s, q, f) /\ \A i \in 1 .. q : s[i] \in Seq(Byte)
      BY <1>3, Zenon DEF Packed
    <3>2. a + m <= q
      BY <2>2
    <3> QED BY <2>3, <3>1, <3>2, FlatBehind
  <2>5. PICK x \in Seq(Byte), y \in Seq(Byte) : x = f[a] /\ f[q] = x \o y
    <3>1. /\ FlattenSeq([i \in 1 .. m |-> t[i]]) \in Seq(Byte)
          /\ f[a + m] = f[a] \o FlattenSeq([i \in 1 .. m |-> t[i]])
      BY <2>4, Zenon DEF Appended
    <3>2. f[a] \in Seq(Byte)
      BY <1>11
    <3> QED BY <2>2, <3>1, <3>2
  <2>6. Len(x \o y) = Len(x) + Len(y) /\ Len(x) \in Nat /\ Len(y) \in Nat
    OBVIOUS
  <2>7. Len(x) <= l
    BY <1>17, <2>5, <2>6
  <2> QED BY <1>13, <2>2, <2>5, <2>7
<1>19. types[n] = "IEND" /\ ends[n] = q + 1 /\ ends[1] = 0
  <2>1. /\ \A k \in DOMAIN types : /\ types[k] = "IEND" <=> k = Len(types)
                                   /\ IF types[k] = "IDAT" THEN ends[k] < ends[k + 1] ELSE ends[k] = ends[k + 1]
        /\ ends[1] = 0 /\ ends[Len(types) + 1] = q + 1
    BY <1>2, Zenon DEF Format!Divided
  <2>2. n \in DOMAIN types
    BY <1>4
  <2> QED BY <1>4, <2>1, <2>2
<1>20. n \in 1 .. n + 1 /\ 1 \in 1 .. n + 1 /\ \A k \in 1 .. n : k + 1 \in 1 .. n + 1
  BY <1>4
<1>21. L.given[1] = <<>> /\ ~ L.ended[1]
  <2>1. Upto(0, q) = 0 /\ 0 # q + 1
    BY DEF Upto
  <2>2. given[1] = f[0]
    BY <1>13, <1>19, <1>20, <2>1
  <2>3. ~ ended[1]
    BY <1>14, <1>19, <1>20, <2>1
  <2> QED BY <1>11, <1>15, <2>2, <2>3
<1>22. L.given[n] = f[q]
  <2>1. Upto(q + 1, q) = q
    BY DEF Upto
  <2> QED BY <1>13, <1>15, <1>19, <1>20, <2>1
<1>23. Complete(L, p)
  <2>1. \E k \in 1 .. L.n : Carries(L, k)
    BY <1>4, <1>15, <1>16 DEF LaidFor
  <2>2. Encodes(f[q], p, filters)
    BY <1>3 DEF FirstLines, Encodes
  <2>3. filters \in [1 .. p.height -> Filters]
    OBVIOUS
  <2>4. Encoded(f[q], p)
    BY <2>2, <2>3, Zenon DEF Encoded
  <2> QED BY <1>15, <1>17, <1>22, <2>1, <2>4 DEF Complete
<1>24. /\ u \in Seq(Unit) /\ start \in [1 .. n + 1 -> Nat] /\ start[1] = 4
       /\ u[1] = Signature /\ u[2] = Word(13) /\ u[4] = Crc("IHDR", <<u[3]>>)
       /\ u[3] = Header(h)
  BY <1>10, Zenon DEF Chained
<1>25. \A k \in 1 .. L.n : ChunkLaid(L, k) /\ Len(L.given[k + 1]) <= DataLength(Format!HeaderOf(p))
  <2>1. TAKE k \in 1 .. L.n
  <2>2. k \in 1 .. n /\ k + 1 \in 1 .. n + 1
    BY <1>15, <1>20
  <2>3. ChunkLaid(L, k)
    BY <1>16, <2>2, Zenon DEF LaidFor
  <2> QED BY <1>15, <1>17, <1>18, <2>2, <2>3
<1>26. Laid(L, p)
  BY <1>8, <1>13, <1>14, <1>15, <1>21, <1>23, <1>24, <1>25 DEF Laid
<1>27. NoneEmpty(L)
  <2>1. SUFFICES ASSUME NEW k \in 1 .. n, Carries(L, k) PROVE Size(L, k) > 0
    BY <1>15 DEF NoneEmpty
  <2>2. types[k] = "IDAT" /\ Size(L, k) = Len(c[k])
    BY <1>16, <2>1, Zenon DEF LaidFor
  <2>3. ends[k] < ends[k + 1] /\ PartOf(c[k], ends[k], ends[k + 1], q, f)
    BY <1>7, <2>2, Zenon DEF ContentOf
  <2>4. Len(c[k]) = ends[k + 1] - ends[k]
    BY <2>3, Zenon DEF PartOf
  <2>5. PICK a \in Nat, b \in Nat : a = ends[k] /\ b = ends[k + 1]
    <3>1. k \in 1 .. n + 1 /\ k + 1 \in 1 .. n + 1
      BY <1>20
    <3>2. ends[k] \in 0 .. q + 1 /\ ends[k + 1] \in 0 .. q + 1
      BY <1>4, <3>1
    <3> QED BY <3>2
  <2>6. b - a > 0
    BY <2>3, <2>5
  <2> QED BY <2>2, <2>4, <2>5, <2>6
<1> QED BY <1>9, <1>15, <1>26, <1>27

\* What is known of a file that an encoder wrote, under whatever filters and in whatever
\* chunks, is what the decoder's theorems ask for (PngFormat!File).
THEOREM EncodedFiles == EncoderFiles => FilesClear
<1>1. SUFFICES ASSUME EncoderFiles, NEW f \in Files, f.meant # Null \/ f.sound
               PROVE  (\E L, m : LaidAs(f, L, m)) \/ \E S : SpoiltAs(f, S)
  BY DEF FilesClear
<1>2. CASE \E S : SpoiltAs(f, S)
  BY <1>2
<1>3. CASE \E filters, types, ends, m : EncodedAs(f, filters, types, ends, m)
  <2>1. PICK filters, types, ends, m : EncodedAs(f, filters, types, ends, m)
    BY <1>3
  <2>2. PICK p, file : p = f.meant /\ file = Format!File(p, filters, types, ends)
    OBVIOUS
  <2>3. /\ Pictured(p) /\ p.width > 0 /\ p.height > 0 /\ filters \in [1 .. p.height -> Filters \cap Byte]
        /\ Format!Divided(types, ends, p.height + 3)
        /\ m \in 0 .. Len(file) /\ f.units = SubSeq(file, 1, m) /\ (f.sound => m = Len(file))
    BY <2>1, <2>2, Zenon DEF EncodedAs
  <2>4. PICK L : Laid(L, p) /\ NoneEmpty(L) /\ L.units = file
    BY <2>2, <2>3, EncoderLaid
  <2>5. LaidAs(f, L, m)
    BY <2>2, <2>3, <2>4, Zenon DEF LaidAs
  <2> QED BY <2>5
<1> QED BY <1>1, <1>2, <1>3 DEF EncoderFiles

\* So the reader gives back every picture of an encoder, and never one that is not the
\* encoder's (pnglite.c:231-277, 420-608, 715-834).
THEOREM EncodedAreDecoded ==
  ASSUME EncoderFiles
  PROVE  Spec => [](NeverWrong /\ SoundDecoded)
<1>1. FilesClear
  BY EncodedFiles
<1>2. (Spec => []NeverWrong) /\ (Spec => []SoundDecoded)
  BY <1>1, DecodedIsMeant, SoundIsDecoded
<1> QED BY <1>2, PTL
=============================================================================
