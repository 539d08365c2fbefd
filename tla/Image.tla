-------------------------------- MODULE Image --------------------------------
(***************************************************************************)
(* csf_assign04/image.c and the plugins: packed pixels in row-major order,  *)
(* what a PNG file's pixel data become and the reverse, the arguments and   *)
(* transforms of the five plugins.                                         *)
(*                                                                         *)
(* A colour component has Depth values in place of 256.  An argument is the *)
(* number that atof finds in it, a fraction; atoi truncates it, and wraps    *)
(* what an int does not hold.  Sizes are naturals: pictures are taken to be  *)
(* small enough for their products (image.c:71-74, 127) to fit an unsigned. *)
(***************************************************************************)
EXTENDS Integers, Sequences

CONSTANTS Depth, UintMax, Null

ASSUME ImageAssumption == Depth \in Nat \ {0, 1} /\ UintMax \in Nat \ {0}

Component == 0 .. Depth - 1
Pixel == 0 .. Depth * Depth * Depth * Depth - 1
Indices(width, height) == 0 .. width * height - 1

Pack(r, g, b, a) == r + Depth * (g + Depth * (b + Depth * a))
Unpack(pixel) == [r |-> pixel % Depth, g |-> (pixel \div Depth) % Depth,
                  b |-> (pixel \div (Depth * Depth)) % Depth,
                  a |-> (pixel \div (Depth * Depth * Depth)) % Depth]

Image(width, height, data) == [width |-> width, height |-> height, data |-> data]

\* Bytes per pixel, as pnglite has it.
Bpp(png) == (IF png.colour = "rgba" THEN 4 ELSE 3) * (png.bits \div 8)

\* Seeded fault: a file without alpha channel becomes transparent.
FromPngTransparent(png) ==
  LET Byte(i, c) == png.bytes[i * Bpp(png) + c]
  IN  Image(png.width, png.height,
            [i \in Indices(png.width, png.height) |->
               Pack(Byte(i, 0), Byte(i, 1), Byte(i, 2),
                    IF png.colour = "rgba" THEN Byte(i, 3) ELSE 0)])

\* The translation at the end of img_read_png: the first bytes of each pixel are
\* taken for its components, whatever their width.
FromPng(png) ==
  LET Byte(i, c) == png.bytes[i * Bpp(png) + c]
  IN  Image(png.width, png.height,
            [i \in Indices(png.width, png.height) |->
               Pack(Byte(i, 0), Byte(i, 1), Byte(i, 2),
                    IF png.colour = "rgba" THEN Byte(i, 3) ELSE Depth - 1)])

\* img_write_png
ToPng(img) ==
  [colour |-> "rgba", bits |-> 8, width |-> img.width, height |-> img.height,
   bytes |-> [k \in 0 .. 4 * img.width * img.height - 1 |->
                LET p == Unpack(img.data[k \div 4])
                IN  <<p.r, p.g, p.b, p.a>>[(k % 4) + 1]]]

-----------------------------------------------------------------------------

Plugin == {"expose", "mirrorh", "mirrorv", "swapbg", "tile"}

Atoi(x) == IF x.num < 0 THEN -((-x.num) \div x.den) ELSE x.num \div x.den
Dummy == [num |-> 0, den |-> 1]

\* What parse_arguments may return.  The allocation is looked at, by main, in the
\* plugins without arguments.
ParsedFactor(argv) ==
  IF Len(argv) # 1 THEN Null ELSE IF argv[1].num <= 0 THEN Null ELSE argv[1]
ParsedN(argv) ==
  LET n == Atoi(argv[1]) % (UintMax + 1)    \* 0 as an int and as an unsigned
  IN  IF Len(argv) # 1 THEN Null ELSE IF n = 0 THEN Null ELSE [num |-> n, den |-> 1]
ParsedNothing(argv) == IF argv # <<>> THEN {Null} ELSE {Null, Dummy}

Parsed(plugin, argv) ==
  CASE plugin = "expose" -> {ParsedFactor(argv)}
    [] plugin = "tile" -> {ParsedN(argv)}
    [] OTHER -> ParsedNothing(argv)

\* Seeded fault: bright components are not capped.
ExposeUncapped(pixel, f) ==
  LET p == Unpack(pixel)
      Scaled(v) == (f.num * v) \div f.den
  IN  Pack(Scaled(p.r), Scaled(p.g), Scaled(p.b), p.a)

Expose(pixel, f) ==
  LET p == Unpack(pixel)
      Scaled(v) == IF f.num * v > (Depth - 1) * f.den THEN Depth - 1 ELSE (f.num * v) \div f.den
  IN  Pack(Scaled(p.r), Scaled(p.g), Scaled(p.b), p.a)

SwapBg(pixel) == LET p == Unpack(pixel) IN Pack(p.r, p.b, p.g, p.a)

\* The other plugins move pixels: the assignments that their loops make.
MirrorH(w, h) == {[to |-> w * j + i, from |-> w * j + (w - 1 - i)] : i \in 0 .. w - 1, j \in 0 .. h - 1}
MirrorV(w, h) == {[to |-> w * j + i, from |-> w * (h - 1 - j) + i] : i \in 0 .. w - 1, j \in 0 .. h - 1}

\* Seeded fault: tiles are taken to have the same size.
BeginsEvenly(size, n, t) == t * (size \div n)

\* Where tile t begins on an edge of the given size, and how long it is.
Begins(size, n, t) == t * (size \div n) + (IF t < size % n THEN t ELSE size % n)
Extent(size, n, t) == size \div n + (IF t < size % n THEN 1 ELSE 0)

Tile(w, h, n) ==
  UNION {{[to |-> w * (Begins(h, n, nj) + j) + Begins(w, n, ni) + i, from |-> w * j * n + i * n] :
            i \in 0 .. Extent(w, n, ni) - 1, j \in 0 .. Extent(h, n, nj) - 1} :
         ni, nj \in 0 .. n - 1}

Moves(plugin, args, w, h) ==
  CASE plugin = "mirrorh" -> MirrorH(w, h)
    [] plugin = "mirrorv" -> MirrorV(w, h)
    [] plugin = "tile" -> Tile(w, h, args.num)

\* transform_image, on the zeros of img_create
Transformed(plugin, args, img) ==
  LET Put(i) == {m \in Moves(plugin, args, img.width, img.height) : m.to = i}
      At(i) == CASE plugin = "expose" -> Expose(img.data[i], args)
                 [] plugin = "swapbg" -> SwapBg(img.data[i])
                 [] OTHER -> IF Put(i) = {} THEN 0
                             ELSE img.data[(CHOOSE m \in Put(i) : TRUE).from]
  IN  Image(img.width, img.height, [i \in Indices(img.width, img.height) |-> At(i)])
=============================================================================
