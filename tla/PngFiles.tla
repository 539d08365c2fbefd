------------------------------ MODULE PngFiles ------------------------------
(***************************************************************************)
(* Reference: which sequences of units are a picture's file, as the format  *)
(* defines it, and which ones a reader can tell from one.  PngFormat gives  *)
(* the files of one encoder; here is what all of them have in common.      *)
(***************************************************************************)
EXTENDS Pnglite

\* Pictures that a file may hold: eight or sixteen bits to each of three or four channels,
\* of a size that unsigneds hold
Pictured(p) ==
  /\ p.width \in Nat /\ p.height \in Nat /\ p.depth \in {8, 16} /\ p.colour \in {"rgb", "rgba"}
  /\ p.bytes \in [1 .. Format!LineBytes(p) * p.height -> Byte] /\ SizesFit(p)

\* Bytes that are the lines of a picture, each under some filter
Encodes(bytes, p, filters) ==
  /\ filters \in [1 .. p.height -> Filters]
  /\ \A y \in 1 .. p.height : \A i \in 1 .. Format!LineBytes(p) + 1 :
       bytes[(y - 1) * (Format!LineBytes(p) + 1) + i] = Format!Filtered(p, y, filters[y])[i]
Encoded(bytes, p) == \E filters \in [1 .. p.height -> Filters] : Encodes(bytes, p, filters)

\* The first q units of compressed data are symbols, and the end may follow; what they
\* stand for.
Symbols(units, q, ended) ==
  /\ q \in 0 .. Len(units) /\ \A i \in 1 .. q : units[i][1] = "symbol"
  /\ IF ended THEN q + 1 = Len(units) /\ units[q + 1] = End ELSE q = Len(units)
Expanded(units, q) == FlattenSeq([i \in 1 .. q |-> units[i][2]])

-----------------------------------------------------------------------------
\* A file as chunks: its units, where each of its n chunks starts, and what the
\* compressed data before a chunk stand for and whether they have come to their end.

Size(L, k) == L.start[k + 1] - L.start[k] - 3
Content(L, k) == [i \in 1 .. Size(L, k) |-> L.units[L.start[k] + 2 + i]]
Carries(L, k) == L.units[L.start[k] + 2] = Type("IDAT")

ChunkLaid(L, k) ==
  /\ L.start[k] + 3 <= L.start[k + 1] /\ L.start[k + 1] <= Len(L.units)
  /\ L.units[L.start[k] + 1] = Word(Size(L, k))
  /\ L.units[L.start[k] + 2] = Type("IEND") <=> k = L.n
  /\ IF Carries(L, k)
     THEN /\ ~L.ended[k] /\ L.units[L.start[k + 1]] = Crc("IDAT", Content(L, k))
          /\ \E q \in 0 .. Size(L, k) :
               /\ Symbols(Content(L, k), q, L.ended[k + 1])
               /\ L.given[k + 1] = L.given[k] \o Expanded(Content(L, k), q)
     ELSE L.given[k + 1] = L.given[k] /\ L.ended[k + 1] = L.ended[k]

\* All lines of the picture are in the data, each under some filter.
Complete(L, p) ==
  /\ \E k \in 1 .. L.n : Carries(L, k)
  /\ Len(L.given[L.n]) = DataLength(Format!HeaderOf(p))
  /\ Encoded(L.given[L.n], p)

\* The file of a picture; of what an encoder does without memory it has an empty chunk.
Laid(L, p) ==
  /\ Pictured(p)
  /\ L.units \in Seq(Unit) /\ L.n \in Nat \ {0} /\ L.start \in [1 .. L.n + 1 -> Nat]
  /\ L.given \in [1 .. L.n + 1 -> Seq(Byte)] /\ L.ended \in [1 .. L.n + 1 -> BOOLEAN]
  /\ L.units[1] = Signature /\ L.units[2] = Word(13) /\ L.units[3] = Header(Format!HeaderOf(p))
  /\ L.units[4] = Crc("IHDR", <<L.units[3]>>)
  /\ L.start[1] = 4 /\ L.given[1] = <<>> /\ ~L.ended[1]
  /\ \A k \in 1 .. L.n : ChunkLaid(L, k) /\ Len(L.given[k + 1]) <= DataLength(Format!HeaderOf(p))
  /\ Complete(L, p) \/ \E k \in 1 .. L.n : Carries(L, k) /\ Size(L, k) = 0

NoneEmpty(L) == \A k \in 1 .. L.n : Carries(L, k) => Size(L, k) > 0

\* The first m units of such a file, which is sound if they are all of it
LaidAs(f, L, m) ==
  /\ Laid(L, f.meant) /\ m \in 0 .. Len(L.units) /\ f.units = SubSeq(L.units, 1, m)
  /\ f.sound => m = Len(L.units) /\ NoneEmpty(L)

\* The first m units of what the encoder of PngFormat makes of a picture with at least one
\* pixel, which are sound if they are all of it
EncodedAs(f, filters, types, ends, m) ==
  LET p == f.meant
      file == Format!File(p, filters, types, ends)
  IN  /\ Pictured(p) /\ p.width > 0 /\ p.height > 0 /\ filters \in [1 .. p.height -> Filters \cap Byte]
      /\ Format!Divided(types, ends, p.height + 3)
      /\ m \in 0 .. Len(file) /\ f.units = SubSeq(file, 1, m)
      /\ f.sound => m = Len(file)

-----------------------------------------------------------------------------
\* Files in which a reader does not get from the first chunk to the last

\* The header is not accepted.
HeadSpoilt(u) ==
  \/ Len(u) < 3
  \/ u[1] # Signature \/ u[2] # Word(13) \/ u[3][1] # "header"
  \/ Len(u) >= 4 /\ u[4] # Crc("IHDR", <<u[3]>>)

\* What the length of a chunk behind s may be read as
LengthsAt(u, s) == IF u[s + 1][1] = "word" THEN {u[s + 1][2]} ELSE 0 .. Len(u) - s

\* An IDAT chunk with n units of data whose check sum is wrong
Unchecked(u, s, n) ==
  /\ u[s + 2] = Type("IDAT") /\ Len(u) >= s + 3 + n
  /\ u[s + 3 + n] # Crc("IDAT", [i \in 1 .. n |-> u[s + 2 + i]])

\* The places S that are come to from chunk to chunk, where none of them has the last chunk
NeverLast(u, S) ==
  /\ u \in Seq(Unit) /\ S \subseteq Nat /\ 4 \in S
  /\ \A s \in S : Len(u) >= s + 2 =>
       /\ u[s + 2] # Type("IEND")
       /\ \A n \in LengthsAt(u, s) : Unchecked(u, s, n) \/ s + 3 + n \in S

SpoiltAs(f, S) == ~f.sound /\ (HeadSpoilt(f.units) \/ NeverLast(f.units, S))

-----------------------------------------------------------------------------
\* The files to be read that stand for a picture are as the format wants them, or can be
\* told from those.
FilesClear ==
  \A f \in Files : f.meant # Null \/ f.sound =>
    \/ \E L, m : LaidAs(f, L, m)
    \/ \E S : SpoiltAs(f, S)

\* They are the encoder's, whole or as much as there is, or can be told from those.
EncoderFiles ==
  \A f \in Files : f.meant # Null \/ f.sound =>
    \/ \E filters, types, ends, m : EncodedAs(f, filters, types, ends, m)
    \/ \E S : SpoiltAs(f, S)
=============================================================================
