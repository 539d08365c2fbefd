------------------------------ MODULE Pictures ------------------------------
(***************************************************************************)
(* What the plugins of csf_assign04 promise in their descriptions, on rows  *)
(* of pixels <<red, green, blue, alpha>>.                                  *)
(***************************************************************************)
EXTENDS Integers, Sequences, SequencesExt

CONSTANT Depth   \* values of a colour component

EachPixel(F(_), rows) == [y \in DOMAIN rows |-> [x \in DOMAIN rows[y] |-> F(rows[y][x])]]

\* "mirror image horizontally", "mirror image vertically"
MirroredH(rows) == [y \in DOMAIN rows |-> Reverse(rows[y])]
MirroredV(rows) == Reverse(rows)

\* "swap blue and green color component values"
Swapped(rows) == LET F(p) == <<p[1], p[3], p[2], p[4]>> IN EachPixel(F, rows)

\* "adjust the intensity of all pixels": the greatest value that is not above
\* the factor's multiple.
Exposed(rows, num, den) ==
  LET Most(v) == CHOOSE u \in 0 .. Depth - 1 :
                   /\ u * den <= num * v
                   /\ \A z \in 0 .. Depth - 1 : z * den <= num * v => z <= u
      F(p) == <<Most(p[1]), Most(p[2]), Most(p[3]), p[4]>>
  IN  EachPixel(F, rows)

\* "tile source image in an NxN arrangement": in each direction N beginnings
\* of every Nth one, the first of them longer where N does not divide.
Sampled(s, n) == [k \in 1 .. (Len(s) + n - 1) \div n |-> s[(k - 1) * n + 1]]
Part(s, n, t) == SubSeq(Sampled(s, n), 1, (Len(s) - t) \div n + 1)
Repeated(s, n) == FlattenSeq([t \in 1 .. n |-> IF t > Len(s) THEN <<>> ELSE Part(s, n, t)])
Tiled(rows, n) == Repeated([y \in DOMAIN rows |-> Repeated(rows[y], n)], n)

Meaning(plugin, args, rows) ==
  CASE plugin = "mirrorh" -> MirroredH(rows)
    [] plugin = "mirrorv" -> MirroredV(rows)
    [] plugin = "swapbg" -> Swapped(rows)
    [] plugin = "expose" -> Exposed(rows, args.num, args.den)
    [] plugin = "tile" -> Tiled(rows, args.num)
=============================================================================
