------------------------------ MODULE MCPnglite ------------------------------
(***************************************************************************)
(* Pictures of two by two pixels (one of them with 16-bit samples) under    *)
(* every pair of filters, their data in up to three chunks, the files cut   *)
(* short and damaged, and files that no encoder would write.               *)
(***************************************************************************)
EXTENDS PngFiles, TLC

Picture(width, height, depth, colour) ==
  [width |-> width, height |-> height, depth |-> depth, colour |-> colour,
   bytes |-> [i \in 1 .. width * height * Format!Channels(colour) * (depth \div 8) |->
                (3 * i * i + 5 * (i \div 2)) % ByteSize]]

\* Neighbours that are equally near to what Paeth's filter expects
Rgb8 == [Picture(2, 2, 8, "rgb") EXCEPT !.bytes = <<3, 0, 7, 5, 4, 1,  2, 6, 5, 4, 1, 7>>]
Rgb16 == Picture(2, 2, 16, "rgb")
Rgba8 == Picture(1, 3, 8, "rgba")
MCPictures == {Rgba8, Picture(2, 1, 8, "rgba")}

Sound(units, p) == [units |-> units, meant |-> p, sound |-> TRUE]
Damaged(units, p) == [units |-> units, meant |-> p, sound |-> FALSE]

\* Data in chunks that end after the symbols in cuts, with n chunks of text before them and
\* n with the time behind them, and a chunk of text between two of data
Plan(p, filters, cuts, n) ==
  LET ends == Append(cuts, p.height + 3)
      m == n + Len(ends)
  IN  [p |-> p, filters |-> filters,
       types |-> [k \in 1 .. m + n + 1 |-> IF k <= n THEN "tEXt" ELSE IF k <= m THEN "IDAT"
                                           ELSE IF k <= m + n THEN "tIME" ELSE "IEND"],
       ends |-> [k \in 1 .. m + n + 2 |-> IF k <= n + 1 THEN 0 ELSE IF k <= m THEN ends[k - 1 - n]
                                          ELSE p.height + 3]]
Between == [p |-> Rgb8, filters |-> <<3, 4>>, types |-> <<"IDAT", "tEXt", "IDAT", "IEND">>,
            ends |-> <<0, 3, 3, 5, 5>>]
FileOf(plan) == Format!File(plan.p, plan.filters, plan.types, plan.ends)

\* Divisions into chunks in which no chunk is empty
Cuts == {<<>>, <<1>>, <<2>>, <<4>>, <<1, 2>>, <<1, 4>>, <<2, 4>>, <<3, 4>>}

Plans ==
  {Plan(p, <<f, g>>, <<2>>, 0) : p \in {Rgb8, Rgb16}, f \in Filters, g \in Filters}
    \cup {Plan(Rgba8, <<f, 3, g>>, <<>>, 0) : f \in Filters, g \in Filters}
    \cup {Plan(p, <<4, 3>>, cuts, n) : p \in {Rgb8, Rgb16}, cuts \in Cuts, n \in 0 .. 2}
    \cup {Between}
Whole == {Sound(FileOf(plan), plan.p) : plan \in Plans}

BasePlan == Plan(Rgb8, <<1, 2>>, <<2>>, 1)
Base == FileOf(BasePlan)
\* Damage that a check sum stands against: not the types, and not other chunks.
Guarded == {i \in DOMAIN Base : i <= 4 \/ (9 <= i /\ Base[i][1] # "type" /\ i <= 19)}
CutShort == {Damaged(SubSeq(Base, 1, n), Rgb8) : n \in 0 .. Len(Base) - 1}
Hit == {Damaged([Base EXCEPT ![i] = Noise], Rgb8) : i \in {j \in Guarded : Base[j][1] # "word"}}
         \cup {Damaged([Base EXCEPT ![i] = Word(n)], Rgb8) :
                 i \in {j \in Guarded : Base[j][1] = "word"}, n \in {0, 1, 4, 9}}
Lost == {Damaged(SubSeq(Base, 1, i - 1) \o SubSeq(Base, i + 1, Len(Base)), Rgb8) :
           i \in {j \in Guarded : Base[j][1] # "word"}}

\* Files with right check sums that are not as they should be, for which nothing is
\* promised but that the call ends and gives back what it took.
Head13 == Format!Opening(Format!HeaderOf(Rgb8))
IendChunk == Format!Chunk("IEND", <<>>)
Data == Format!Compressed(Rgb8, <<0, 0>>)
With(idats) ==
  [units |-> Head13 \o FlattenSeq([k \in DOMAIN idats |-> Format!Chunk("IDAT", idats[k])]) \o IendChunk,
   meant |-> Null, sound |-> FALSE]
Odd ==
  {With(idats) : idats \in {<<>>, <<<<>>>>, <<SubSeq(Data, 1, 2)>>, <<Data, <<>>>>, <<Data, <<Noise>>>>,
     <<SubSeq(Data, 1, 2), <<Noise>>>>, <<SubSeq(Data, 1, 4) \o <<Symbol(<<1, 1>>), End>>>>,
     <<SubSeq(Data, 1, 4) \o <<Symbol(<<1, 1>>)>>, <<End>>>>,
     <<SubSeq(Data, 1, 4) \o <<Symbol(<<1, 1>>)>>>>,
     <<<<Symbol(<<7>>)>> \o SubSeq(Data, 2, 5)>>, <<<<Symbol(<<0, 1, 2, 3, 4, 5, 6, 7>>)>>>>}}
Refused ==
  {[units |-> Format!Opening(h) \o IendChunk, meant |-> Null, sound |-> FALSE] :
     h \in {[Format!HeaderOf(Rgb8) EXCEPT !.colour = c] : c \in {"grey", "greyalpha", "indexed", "other"}}
             \cup {[Format!HeaderOf(Rgb8) EXCEPT !.depth = 4], [Format!HeaderOf(Rgb8) EXCEPT !.interlaced = TRUE]}}

\* Any unit of a file turned into another, so that the chunks may be looked for where
\* they do not begin, and a file that ends inside its header.
Astray ==
  {[units |-> units, meant |-> Null, sound |-> FALSE] :
     units \in {[Base EXCEPT ![i] = u] : i \in DOMAIN Base,
                                        u \in {Noise, Word(0), Word(2), Type("IDAT"), Type("tEXt")}}
                 \cup {<<Signature, Word(13), Noise>>}}

Clear == Whole \cup CutShort \cup Hit \cup Lost
MCFiles == Clear \cup Odd \cup Refused \cup Astray

-----------------------------------------------------------------------------
\* Where a reader may come to in a file that does not have its chunks one behind the other
Reached(units) ==
  LET Following(s) == {s + 3 + n : n \in {m \in LengthsAt(units, s) : ~Unchecked(units, s, m)}}
      grown[n \in Nat] ==
        IF n = 0 THEN {4}
        ELSE LET places == grown[n - 1]
             IN  places \cup UNION {Following(s) : s \in {t \in places : Len(units) >= t + 2}}
  IN  grown[Len(units)]

\* What the proofs assume of the files, with what there is to be found for each of them
Made(f, plan) == EncodedAs(f, plan.filters, plan.types, plan.ends, Len(f.units))
ASSUME MCPngliteAssumption ==
  /\ \A f \in MCFiles : f.meant # Null \/ f.sound => f \in Clear
  /\ \A plan \in Plans : Made(Sound(FileOf(plan), plan.p), plan)
  /\ \A f \in CutShort : Made(f, BasePlan)
  /\ \A f \in Hit \cup Lost : SpoiltAs(f, Reached(f.units))
=============================================================================
