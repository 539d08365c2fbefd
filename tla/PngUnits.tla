------------------------------ MODULE PngUnits ------------------------------
(***************************************************************************)
(* What a PNG file consists of, for pnglite and for the format: a sequence  *)
(* of units, which are words of four bytes, chunk types, the header, check  *)
(* sums, and the symbols of compressed data, each of which stands for some  *)
(* bytes.  A call reads or writes whole units; what a file that ends inside *)
(* a unit still has of it is as good as nothing to the code.               *)
(***************************************************************************)
EXTENDS Naturals, Sequences

Signature == <<"signature">>
Word(n) == <<"word", n>>
Type(t) == <<"type", t>>
Header(h) == <<"header", h>>
Symbol(bytes) == <<"symbol", bytes>>
End == <<"end">>
Noise == <<"noise">>    \* anything else: what damage leaves of a unit

\* crc32 tells apart whatever it is computed from.
Crc(t, units) == <<"crc", <<t, units>>>>
=============================================================================
