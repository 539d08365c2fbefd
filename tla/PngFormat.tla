------------------------------ MODULE PngFormat ------------------------------
(***************************************************************************)
(* Reference: the PNG files that hold a picture, as the format defines      *)
(* them, independently of pnglite.                                         *)
(***************************************************************************)
EXTENDS PngUnits, Integers, Sequences, SequencesExt

CONSTANT ByteSize

Channels(colour) == IF colour = "rgba" THEN 4 ELSE 3
LineBytes(p) == p.width * Channels(p.colour) * (p.depth \div 8)
Line(p, y) == SubSeq(p.bytes, (y - 1) * LineBytes(p) + 1, y * LineBytes(p))

\* The byte that filter f expects at i of a line: of the three neighbours in the
\* pixel before and the line above, Paeth's filter takes the one nearest to
\* a + b - c, the first of those that are.
Expected(f, p, y, i) ==
  LET stride == Channels(p.colour) * (p.depth \div 8)
      Original(row, j) == IF row >= 1 /\ j >= 1 THEN Line(p, row)[j] ELSE 0
      a == Original(y, i - stride)
      b == Original(y - 1, i)
      c == Original(y - 1, i - stride)
      Off(x) == LET d == a + b - c - x IN IF d < 0 THEN -d ELSE d
      nearest == {x \in {a, b, c} : \A other \in {a, b, c} : Off(x) <= Off(other)}
  IN  CASE f = 0 -> 0 [] f = 1 -> a [] f = 2 -> b [] f = 3 -> (a + b) \div 2
        [] f = 4 -> IF a \in nearest THEN a ELSE IF b \in nearest THEN b ELSE c

\* Line y under filter f, with the filter's number in front.
Filtered(p, y, f) ==
  <<f>> \o [i \in 1 .. LineBytes(p) |-> (Line(p, y)[i] - Expected(f, p, y, i)) % ByteSize]

\* Compressed data: a symbol that stands for nothing (the stream's own header),
\* the first line in two symbols, one for each further line, and the end.
Compressed(p, filters) ==
  LET first == Filtered(p, 1, filters[1])
      StoodFor(i) == CASE i = 1 -> <<>> [] i = 2 -> SubSeq(first, 1, 2)
                       [] i = 3 -> SubSeq(first, 3, Len(first))
                       [] OTHER -> Filtered(p, i - 2, filters[i - 2])
  IN  [i \in 1 .. p.height + 3 |-> IF i = p.height + 3 THEN End ELSE Symbol(StoodFor(i))]

Chunk(t, units) == <<Word(Len(units)), Type(t)>> \o units \o <<Crc(t, units)>>

\* The signature, and width, height, depth, colour and interlacing, of 13 bytes in all
Opening(h) == <<Signature, Word(13), Header(h), Crc("IHDR", <<Header(h)>>)>>
HeaderOf(p) == [width |-> p.width, height |-> p.height, depth |-> p.depth,
                colour |-> p.colour, interlaced |-> FALSE]

\* How n units are divided among chunks of the types in types: a chunk of data, of which
\* there is none that is empty, has those behind the first ends[k] up to the ends[k + 1]th.
\* The last chunk, and no other, is the end of the file.
Divided(types, ends, n) ==
  /\ types \in Seq({"IDAT", "IEND", "tEXt", "tIME"}) /\ types # <<>>
  /\ ends \in [1 .. Len(types) + 1 -> 0 .. n]
  /\ ends[1] = 0 /\ ends[Len(types) + 1] = n
  /\ \A k \in DOMAIN types :
       /\ types[k] = "IEND" <=> k = Len(types)
       /\ IF types[k] = "IDAT" THEN ends[k] < ends[k + 1] ELSE ends[k] = ends[k + 1]

\* The file: its head, and chunks of data and of other types as they are divided.
Content(t, data, from, to) ==
  CASE t = "IDAT" -> SubSeq(data, from + 1, to) [] t = "tEXt" -> <<Noise>> [] OTHER -> <<>>
File(p, filters, types, ends) ==
  LET data == Compressed(p, filters)
  IN  Opening(HeaderOf(p))
        \o FlattenSeq([k \in DOMAIN types |-> Chunk(types[k], Content(types[k], data, ends[k], ends[k + 1]))])

\* What a reader's memory is to hold: 16-bit samples in the machine's order.
Meaning(p) ==
  IF p.depth = 8 THEN p.bytes
  ELSE [i \in DOMAIN p.bytes |-> p.bytes[IF i % 2 = 1 THEN i + 1 ELSE i - 1]]
=============================================================================
