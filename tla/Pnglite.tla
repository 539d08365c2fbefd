------------------------------- MODULE Pnglite -------------------------------
(***************************************************************************)
(* csf_assign04/pnglite.c as image.c uses it: a file is read (opened, its   *)
(* chunks taken one by one, inflated, unfiltered) or a picture is written   *)
(* and then read back.  zlib and stdio are modelled by what pnglite relies  *)
(* on; each of their calls may fail.                                       *)
(*                                                                         *)
(* heap is what png_alloc and inflateInit have given and nobody has freed;  *)
(* meant is the picture that the file stands for, or Null.                 *)
(***************************************************************************)
EXTENDS PngUnits, Integers, SequencesExt

CONSTANTS
  ByteSize,   \* the values of a byte, in place of 256
  UIntSize,   \* the values of an unsigned, in place of 2^32
  Files,      \* files to read, as [units, meant, sound]
  Pictures,   \* pictures to write
  Garbage,    \* what malloc may leave in a byte
  Null

ASSUME ByteAssumption == ByteSize \in Nat \ {0, 1} /\ UIntSize \in Nat \ {0}

Byte == 0 .. ByteSize - 1

Colours == {"grey", "greyalpha", "rgb", "rgba", "indexed", "other"}

\* png_get_bpp, kept in an unsigned char
GetBpp(h) ==
  CASE h.colour \in {"grey", "indexed"} -> h.depth \div 8
    [] h.colour = "greyalpha" -> 2 * (h.depth \div 8)
    [] h.colour = "rgb" -> 3 * (h.depth \div 8)
    [] h.colour = "rgba" -> 4 * (h.depth \div 8)
    [] OTHER -> 255

\* Sizes are unsigned: of a line, of the caller's pixels (image.c:71-74), and of the
\* lines with their filters (lines 483, 571, 819).
UInt(n) == n % UIntSize
LineLength(h) == UInt(h.width * GetBpp(h))
PixelLength(h) == UInt(LineLength(h) * h.height)
DataLength(h) == UInt(LineLength(h) * h.height + h.height)

\* The bound on sizes: none of the products wraps.  The code does not test it;
\* headers beyond it, for which buffers get lengths that are not the picture's,
\* are not modelled.
SizesFit(h) ==
  /\ h.width * GetBpp(h) < UIntSize
  /\ h.width * GetBpp(h) * h.height + h.height < UIntSize

HeaderSet ==
  {h \in [width : Nat, height : Nat, depth : Nat, colour : Colours, interlaced : BOOLEAN] :
     SizesFit(h)}
\* The last two stand for all that png_process_chunk skips.
ChunkTypes == {"IHDR", "IDAT", "IEND", "tEXt", "tIME"}
Datum ==
  {Signature, End, Noise} \cup ({"word"} \X Nat) \cup ({"type"} \X ChunkTypes)
    \cup ({"header"} \X HeaderSet) \cup ({"symbol"} \X Seq(Byte))
Unit == Datum \cup ({"crc"} \X (ChunkTypes \X Seq(Datum)))

\* zlib's stream: the bytes it has given, and whether it goes on, has come to its
\* end, cannot go on for lack of room ("stuck"), met data that are none, or was refused.
Stream(state, out) == [state |-> state, out |-> out]
StreamSet == [state : {"open", "end", "stuck", "error", "none"}, out : Seq(Byte)]

ASSUME PngliteAssumption ==
  /\ Garbage \subseteq Byte /\ Garbage # {}
  /\ \A f \in Files : f.units \in Seq(Unit)
  /\ \A p \in Pictures :
       /\ p.width \in Nat /\ p.height \in Nat /\ p.depth = 8 /\ p.colour = "rgba"
       /\ p.bytes \in [1 .. p.width * 4 * p.height -> Byte] /\ SizesFit(p)
  /\ Null \notin Seq(Byte) /\ Null \notin Seq(Unit)
  /\ Null \notin HeaderSet /\ Null \notin StreamSet /\ Null \notin Unit

VARIABLES
  pc, result,
  rest,         \* the file from the current position on
  hdr,          \* width, height, depth and colour in png_t
  length,       \* of the current chunk
  png_data, readbuf, readbuflen, zs,    \* of png_t; readbuf by what it holds
  data, pos,    \* the caller's pixels; the line png_unfilter has come to
  full,         \* the disk takes nothing more
  heap, misused,
  meant, sound, failed

reading == <<rest, length, png_data, readbuf, readbuflen, zs, data, pos>>
vars == <<pc, result, hdr, reading, full, heap, misused, meant, sound, failed>>

Init ==
  /\ \/ \E f \in Files : rest = f.units /\ meant = f.meant /\ sound = f.sound /\ pc = "open"
     \/ \E p \in Pictures : rest = <<>> /\ meant = p /\ sound = TRUE /\ pc = "open_write"
  /\ result = "NO_ERROR" /\ hdr = Null /\ length = 0
  /\ png_data = Null /\ readbuf = Null /\ readbuflen = 0 /\ zs = Null
  /\ data = Null /\ pos = 0 /\ full = FALSE
  /\ heap = {} /\ misused = FALSE /\ failed = FALSE

-----------------------------------------------------------------------------
\* The filters: what png_unfilter makes of one line, a sequence of bytes.

\* Bytes before the first pixel of a line, and of the line above the first, are 0.
ByteAt(line, i) == IF i \in DOMAIN line THEN line[i] ELSE 0

\* Seeded fault: a tie between b and c goes to c.
PaethLastTie(a, b, c) ==
  LET p == a + b - c
      Distance(x) == IF p < x THEN x - p ELSE p - x
  IN  CASE Distance(a) <= Distance(b) /\ Distance(a) <= Distance(c) -> a
        [] Distance(b) < Distance(a) /\ Distance(b) < Distance(c) -> b
        [] OTHER -> c

\* png_paeth
Paeth(a, b, c) ==
  LET p == a + b - c
      Distance(x) == IF p < x THEN x - p ELSE p - x
  IN  IF Distance(a) <= Distance(b) /\ Distance(a) <= Distance(c) THEN a
      ELSE IF Distance(b) <= Distance(c) THEN b ELSE c

\* What the filter of a line predicts from the output to the left (a), the line
\* above (b), and the byte above to the left (c).
Predicted(filter, a, b, c) ==
  CASE filter = 0 -> 0 [] filter = 1 -> a [] filter = 2 -> b [] filter = 3 -> (a + b) \div 2
    [] filter = 4 -> Paeth(a, b, c)

\* The loop that the filters have in common.
Unfiltered(filter, stride, in, prev) ==
  LET out[i \in DOMAIN in] ==
        (in[i] + Predicted(filter, IF i > stride THEN out[i - stride] ELSE 0, ByteAt(prev, i),
                           ByteAt(prev, i - stride))) % ByteSize
  IN  [i \in DOMAIN in |-> out[i]]

\* Bytes of 16-bit samples change places: the file has the high byte first, the
\* machine the low one.
Swapped(line) ==
  [i \in 1 .. Len(line) |-> IF i % 2 = 1 THEN line[i + 1] ELSE line[i - 1]]

Filters == 0 .. 4

\* png_unfilter for one line, whose filter is one of Filters.
UnfilterLine(filter, stride, depth, line, prev) ==
  Unfiltered(filter, stride, IF depth = 16 THEN Swapped(line) ELSE line, prev)

-----------------------------------------------------------------------------
At(p) == pc = p
Go(p) == pc' = p /\ UNCHANGED result
\* A result that ends the loop of png_get_data
Stop(r) == pc' = "cleanup" /\ result' = r

Alloc(blocks) == heap' = heap \cup blocks /\ misused' = (misused \/ blocks \cap heap # {})
Free(blocks) == heap' = heap \ blocks /\ misused' = (misused \/ ~ blocks \subseteq heap)
Works == UNCHANGED failed
Fails == failed' = TRUE /\ UNCHANGED <<heap, misused>>
OnlyReads == UNCHANGED <<hdr, full, heap, misused, meant, sound, failed>>

\* file_read, for n units: all of them, or what is left.
Has(n) == Len(rest) >= n
Skip(n) == rest' = SubSeq(rest, n + 1, Len(rest))

-----------------------------------------------------------------------------
\* Writing: png_set_data after png_open_file_write

\* file_write; nobody looks at its result.  Once the disk is full the rest is lost.
Write(units) ==
  \/ ~full /\ rest' = rest \o units /\ UNCHANGED full
  \/ \E n \in 0 .. Len(units) - 1 :
       rest' = (IF full THEN rest ELSE rest \o SubSeq(units, 1, n)) /\ full' = TRUE

\* png_open_file_write
OpenWrite ==
  /\ At("open_write")
  /\ \/ Go("set_data") /\ Alloc({"file"}) /\ Works
     \/ pc' = "exited" /\ result' = "FILE_ERROR" /\ Fails
  /\ UNCHANGED <<hdr, reading, full, meant, sound>>

\* Each line with a 0 in front, for the filter `none'.  Nobody looks at what
\* png_alloc returns, here and for the chunk below.
SetData ==
  /\ At("set_data")
  /\ hdr' = [width |-> meant.width, height |-> meant.height, depth |-> meant.depth,
             colour |-> meant.colour, interlaced |-> FALSE]
  /\ LET line == LineLength(hdr')
     IN  png_data' = [i \in 1 .. DataLength(hdr') |->
                        LET y == (i - 1) \div (line + 1)
                            x == (i - 1) % (line + 1)
                        IN  IF x = 0 THEN 0 ELSE meant.bytes[y * line + x]]
  /\ \/ Go("write_ihdr") /\ Alloc({"filtered"}) /\ Works
     \/ pc' = "crashed" /\ Fails /\ UNCHANGED result
  /\ UNCHANGED <<rest, length, readbuf, readbuflen, zs, data, pos, full, meant, sound>>

WriteIhdr ==
  /\ At("write_ihdr")
  /\ Write(<<Signature, Word(13), Header(hdr), Crc("IHDR", <<Header(hdr)>>)>>)
  /\ Go("compress")
  /\ UNCHANGED <<hdr, length, png_data, readbuf, readbuflen, zs, data, pos, heap, misused,
                 meant, sound, failed>>

\* compress, whose result is not looked at: without memory it gives nothing.
Compress ==
  /\ At("compress")
  /\ \/ /\ Go("write_idats") /\ Alloc({"chunk"})
        /\ \/ Works /\ readbuf' = <<Symbol(<<>>)>> \o [i \in DOMAIN png_data |-> Symbol(<<png_data[i]>>)]
                                    \o <<End>>
           \/ failed' = TRUE /\ readbuf' = <<>>
     \/ pc' = "crashed" /\ Fails /\ UNCHANGED <<readbuf, result>>
  /\ UNCHANGED <<hdr, rest, length, png_data, readbuflen, zs, data, pos, full, meant, sound>>

\* png_write_idats, up to the last chunk
WriteIdats ==
  /\ At("write_idats") /\ Go("write_iend")
  /\ Write(<<Word(Len(readbuf)), Type("IDAT")>> \o readbuf \o <<Crc("IDAT", readbuf)>>)
  /\ Free({"chunk"}) /\ readbuf' = Null
  /\ UNCHANGED <<hdr, length, png_data, readbuflen, zs, data, pos, meant, sound, failed>>

\* The last chunk, and PNG_NO_ERROR in any case; then png_close_file.  What the disk
\* has of the file is then read.
WriteIend ==
  /\ At("write_iend") /\ Go("open")
  /\ Write(<<Word(0), Type("IEND"), Crc("IEND", <<>>)>>)
  /\ Free({"filtered", "file"}) /\ png_data' = Null /\ hdr' = Null
  /\ sound' = (~full' /\ ~failed)
  /\ UNCHANGED <<length, readbuf, readbuflen, zs, data, pos, meant, failed>>

-----------------------------------------------------------------------------
\* Reading: png_open_file_read

\* png_read_ihdr.  A length that cannot be read is whatever the variable held.  Bytes
\* in the header's place that are none do not say what is supported.
ReadIhdr(units) ==
  CASE units = <<>> -> {"CRC_ERROR", "EOF_ERROR"}
    [] Head(units) # Word(13) -> {"CRC_ERROR"}
    [] Len(units) < 2 -> {"EOF_ERROR"}
    [] OTHER ->
       LET h == units[2][2]
           unsupported == \/ units[2][1] # "header"
                          \/ h.colour = "indexed" \/ h.depth \notin {8, 16} \/ h.interlaced
           checked == IF unsupported THEN "NOT_SUPPORTED" ELSE "NO_ERROR"
       IN  IF Len(units) = 2 THEN {"CRC_ERROR", checked}
           ELSE IF units[3] = Crc("IHDR", <<units[2]>>) THEN {checked} ELSE {"CRC_ERROR"}

\* png_open_read.  With an error the file stays open, and png_t holds nothing that
\* is used.
Open ==
  /\ At("open")
  /\ \/ \E r \in IF ~Has(1) THEN {"EOF_ERROR"}
                 ELSE IF Head(rest) # Signature THEN {"HEADER_ERROR"} ELSE ReadIhdr(Tail(rest)) :
          /\ result' = r /\ Alloc({"file"}) /\ Works
          /\ IF r = "NO_ERROR" THEN pc' = "colour" /\ hdr' = rest[3][2] /\ Skip(4)
             ELSE pc' = "exited" /\ UNCHANGED <<hdr, rest>>
     \/ result' = "FILE_ERROR" /\ pc' = "exited" /\ Fails /\ UNCHANGED <<hdr, rest>>
  /\ UNCHANGED <<length, png_data, readbuf, readbuflen, zs, data, pos, full, meant, sound>>

-----------------------------------------------------------------------------
\* png_get_data

\* The caller asks for colours with at least three channels and allocates.
GetData ==
  /\ At("colour")
  /\ IF hdr.colour \in {"rgb", "rgba"}
     THEN \E g \in Garbage : data' = [i \in 1 .. PixelLength(hdr) |-> g] /\ Go("chunk")
     ELSE pc' = "close" /\ result' = "refused" /\ UNCHANGED data
  /\ OnlyReads /\ UNCHANGED <<rest, length, png_data, readbuf, readbuflen, zs, pos>>

\* The length of a chunk; any bytes in its place are the length of one.  Beyond the
\* end of the file all lengths are alike.
Lengths == IF rest[1][1] = "word" THEN {rest[1][2]} ELSE 0 .. Len(rest)
NextChunk(type) == At("chunk") /\ Has(2) /\ rest[2] = Type(type)

\* Seeded fault: the end of the file goes unnoticed.
NoChunkIgnored ==
  /\ At("chunk") /\ ~Has(2)
  /\ Go("chunk")
  /\ OnlyReads /\ UNCHANGED reading

\* The type cannot be read.
NoChunk ==
  /\ At("chunk") /\ ~Has(2)
  /\ Stop("FILE_ERROR")
  /\ OnlyReads /\ UNCHANGED reading

Iend ==
  /\ NextChunk("IEND") /\ Stop("DONE") /\ Skip(2)
  /\ OnlyReads /\ UNCHANGED <<length, png_data, readbuf, readbuflen, zs, data, pos>>

\* fseek goes past the end of the file without an error.
SkipChunk ==
  /\ At("chunk") /\ Has(2) /\ rest[2] \notin {Type("IDAT"), Type("IEND")}
  /\ \E n \in Lengths : Skip(2 + n + 1)
  /\ Go("chunk")
  /\ OnlyReads /\ UNCHANGED <<length, png_data, readbuf, readbuflen, zs, data, pos>>

\* The first one allocates what inflate fills.
Idat ==
  /\ NextChunk("IDAT") /\ Skip(2) /\ length' \in Lengths
  /\ \/ png_data # Null /\ Go("inflate_init") /\ UNCHANGED <<png_data, heap, misused, failed>>
     \/ /\ png_data = Null /\ Go("inflate_init") /\ Alloc({"png_data"}) /\ Works
        /\ \E g \in Garbage : png_data' = [i \in 1 .. DataLength(hdr) |-> g]
     \/ png_data = Null /\ Stop("MEMORY_ERROR") /\ Fails /\ UNCHANGED png_data
  /\ UNCHANGED <<hdr, readbuf, readbuflen, zs, data, pos, full, meant, sound>>

\* png_init_inflate: inflateInit may fail after zs is allocated.
InitInflate ==
  /\ At("inflate_init")
  /\ \/ zs # Null /\ Go("read_idat") /\ UNCHANGED <<zs, heap, misused, failed>>
     \/ /\ zs = Null
        /\ \/ zs' = Stream("open", <<>>) /\ Go("read_idat") /\ Alloc({"zs", "inflate"}) /\ Works
           \/ zs' = Stream("none", <<>>) /\ Stop("ZLIB_ERROR") /\ Alloc({"zs"}) /\ failed' = TRUE
           \/ UNCHANGED zs /\ Stop("MEMORY_ERROR") /\ Fails
  /\ UNCHANGED <<hdr, rest, length, png_data, readbuf, readbuflen, data, pos, full, meant, sound>>

Held == IF readbuf = Null THEN {} ELSE {"readbuf"}

\* Seeded fault: the buffer of the first chunk has to do for all.
FirstBuffer ==
  /\ At("read_idat")
  /\ \/ readbuf # Null /\ Go("load") /\ UNCHANGED <<readbuf, readbuflen, heap, misused, failed>>
     \/ /\ readbuf = Null /\ readbuflen' = length
        /\ \/ readbuf' = <<>> /\ Go("load") /\ Alloc({"readbuf"}) /\ Works
           \/ readbuf' = Null /\ Stop("MEMORY_ERROR") /\ Fails
  /\ UNCHANGED <<hdr, rest, length, png_data, zs, data, pos, full, meant, sound>>

\* The buffer of png_read_idat: replaced by a greater one when the chunk needs it.
Buffer ==
  /\ At("read_idat")
  /\ \/ /\ readbuf # Null /\ readbuflen >= length
        /\ Go("load") /\ UNCHANGED <<readbuf, readbuflen, heap, misused, failed>>
     \/ /\ readbuf = Null \/ readbuflen < length
        /\ readbuflen' = length
        /\ misused' = (misused \/ ~ Held \subseteq heap)
        /\ \/ readbuf' = <<>> /\ Go("load") /\ heap' = heap \cup {"readbuf"} /\ Works
           \/ readbuf' = Null /\ Stop("MEMORY_ERROR") /\ heap' = heap \ Held /\ failed' = TRUE
  /\ UNCHANGED <<hdr, rest, length, png_data, zs, data, pos, full, meant, sound>>

\* Data and check sum.  A check sum that cannot be read is whatever the variable held.
Load ==
  /\ At("load") /\ Skip(length + 1)
  /\ misused' = (misused \/ "readbuf" \notin heap \/ readbuflen < length)
  /\ IF ~Has(length) THEN Stop("FILE_ERROR") /\ UNCHANGED readbuf
     ELSE /\ readbuf' = SubSeq(rest, 1, length)
          /\ \/ (Has(length + 1) => rest[length + 1] = Crc("IDAT", readbuf')) /\ Go("inflate")
             \/ (Has(length + 1) => rest[length + 1] # Crc("IDAT", readbuf')) /\ Stop("CRC_ERROR")
  /\ UNCHANGED <<hdr, length, png_data, readbuflen, zs, data, pos, full, heap, meant, sound, failed>>

\* zlib's inflate on some symbols: what it gives, until it ends, meets noise or has no
\* room, and how many symbols it does not take.
Inflate(stream, symbols) ==
  LET room == Len(png_data) - Len(stream.out)
      Plain(n) == \A i \in 1 .. n : symbols[i][1] = "symbol"
      Given(n) == FlattenSeq([i \in 1 .. n |-> symbols[i][2]])
      plain == CHOOSE n \in 0 .. Len(symbols) : Plain(n) /\ ~ (n < Len(symbols) /\ Plain(n + 1))
      fits == {n \in 0 .. plain : Len(Given(n)) <= room}
      last == CHOOSE n \in fits : \A m \in fits : m <= n
      next == IF last < Len(symbols) THEN symbols[last + 1] ELSE Null
      state == IF last < plain THEN "stuck" ELSE IF next = Null THEN "open"
               ELSE IF next = End THEN "end" ELSE "error"
  IN  IF stream.state # "open" THEN [stream |-> stream, unread |-> Len(symbols)]
      ELSE [stream |-> Stream(state, stream.out \o
                         IF last < plain THEN SubSeq(Given(plain), 1, room) ELSE Given(last)),
            unread |-> IF next = Null THEN 0 ELSE Len(symbols) - last - 1]

\* Seeded fault: a chunk has to complete the stream.
InflateAtOnce ==
  /\ At("inflate")
  /\ LET z == Inflate(zs, readbuf)
     IN  /\ zs' = z.stream /\ png_data' = z.stream.out \o SubSeq(png_data, Len(z.stream.out) + 1, Len(png_data))
         /\ IF z.stream.state # "end" \/ z.unread > 0 THEN Stop("ZLIB_ERROR") ELSE Go("chunk")
  /\ UNCHANGED <<hdr, rest, length, readbuf, readbuflen, data, pos, full, heap, misused, meant, sound, failed>>

\* png_inflate.  Without progress, which is no input to a stream that has not come
\* to its end, zlib has an error too.
InflateIdat ==
  /\ At("inflate")
  /\ LET z == Inflate(zs, readbuf)
         idle == readbuf = <<>> /\ zs.state # "end"
         out == z.stream.out
     IN  /\ zs' = z.stream
         /\ png_data' = out \o SubSeq(png_data, Len(out) + 1, Len(png_data))
         /\ misused' = (misused \/ ~ {"zs", "inflate", "png_data", "readbuf"} \subseteq heap)
         /\ IF idle \/ z.stream.state = "error" \/ z.unread > 0 THEN Stop("ZLIB_ERROR") ELSE Go("chunk")
  /\ UNCHANGED <<hdr, rest, length, readbuf, readbuflen, data, pos, full, heap, meant, sound, failed>>

\* After the loop.  png_end_inflate does not free what inflateInit has refused.
CleanUp ==
  /\ At("cleanup")
  /\ Free(Held \cup (IF zs # Null /\ zs.state # "none" THEN {"zs", "inflate"} ELSE {})
               \cup (IF result # "DONE" /\ png_data # Null THEN {"png_data"} ELSE {}))
  /\ pc' = IF result = "DONE" THEN "unfilter" ELSE "close"
  /\ UNCHANGED <<result, hdr, reading, full, meant, sound, failed>>

\* png_unfilter, a line at a time; without a chunk of data there is none.
Lines == IF png_data = Null THEN 0 ELSE hdr.height
Filter == png_data[pos * (LineLength(hdr) + 1) + 1]

UnfilterLines ==
  LET size == LineLength(hdr)
      Lined(bytes, n, k) == SubSeq(bytes, n * (size + k) + k + 1, (n + 1) * (size + k))
      prev == IF pos = 0 THEN <<>> ELSE Lined(data, pos - 1, 0)
  IN  /\ At("unfilter") /\ pos < Lines /\ Filter \in Filters
      /\ data' = SubSeq(data, 1, pos * size)
                   \o UnfilterLine(Filter, GetBpp(hdr), hdr.depth, Lined(png_data, pos, 1), prev)
                   \o SubSeq(data, (pos + 1) * size + 1, Len(data))
      /\ pos' = pos + 1 /\ Go("unfilter")
      /\ misused' = (misused \/ "png_data" \notin heap)
      /\ UNCHANGED <<hdr, rest, length, png_data, readbuf, readbuflen, zs, full, heap, meant,
                     sound, failed>>

UnfilterDone ==
  /\ At("unfilter") /\ pc' = "close"
  /\ \/ pos = Lines /\ result' = "NO_ERROR"
     \/ pos < Lines /\ Filter \notin Filters /\ result' = "UNKNOWN_FILTER"
  /\ Free(IF png_data = Null THEN {} ELSE {"png_data"})
  /\ UNCHANGED <<hdr, reading, full, meant, sound, failed>>

\* png_close_file
CloseFile ==
  /\ At("close") /\ pc' = "exited" /\ Free({"file"})
  /\ UNCHANGED <<result, hdr, reading, full, meant, sound, failed>>

Next ==
  \/ OpenWrite \/ SetData \/ WriteIhdr \/ Compress \/ WriteIdats \/ WriteIend
  \/ Open \/ GetData \/ NoChunk \/ Iend \/ SkipChunk \/ Idat \/ InitInflate
  \/ Buffer \/ Load \/ InflateIdat \/ CleanUp \/ UnfilterLines \/ UnfilterDone \/ CloseFile

Spec == Init /\ [][Next]_vars /\ WF_vars(Next)

-----------------------------------------------------------------------------

Ended == pc \in {"exited", "crashed"}

\* Blocks are neither freed twice nor used after that, no chunk is longer than the
\* buffer it is read into, and whatever fails, nothing stays allocated but for the
\* stream that inflateInit refused, and the file when its head was not accepted.
MemoryKept ==
  /\ ~misused
  /\ pc = "exited" => heap = (IF zs # Null /\ zs.state = "none" THEN {"zs"} ELSE {})
                             \cup (IF hdr = Null /\ result # "FILE_ERROR" THEN {"file"} ELSE {})

Format == INSTANCE PngFormat

\* A picture that is decoded is the one that the file was made of, whatever its filters
\* and however its data are divided into chunks; also when the file was cut short
\* anywhere, or when data, lengths or check sums were damaged: then there is an error.
NeverWrong ==
  pc = "exited" /\ result = "NO_ERROR" /\ meant # Null => data = Format!Meaning(meant)

\* Every complete file whose sizes an unsigned holds and whose IDAT chunks all have
\* data is decoded, unless a call that pnglite depends on fails; the files of
\* png_set_data are, when nothing failed on the way to the disk.
SoundDecoded == pc = "exited" /\ sound /\ ~failed => result = "NO_ERROR"

\* Every call ends, whatever the file, even though the loop of png_get_data looks at
\* hardly any of the results of its reads.
Returns == <>Ended
=============================================================================
