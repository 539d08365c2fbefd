-------------------------------- MODULE Cache --------------------------------
(***************************************************************************)
(* The cache simulator of csf_assign03 (cache.c, main.c): one action for    *)
(* each way a line of the trace can go through the handlers.  Sets are      *)
(* numbered from 0 and the blocks of a set from 1; the counters are not     *)
(* given a width.                                                           *)
(***************************************************************************)
EXTENDS Integers, FiniteSets

CONSTANTS
  AddrBits,    \* the width of an address, 32 in the code
  Arguments,   \* the triples of numbers given for sets, blocks and bytes
  Addresses,   \* the addresses that occur in the trace
  MaxLines     \* bound: lines of the trace

ASSUME CacheAssumption ==
  /\ AddrBits \in Nat /\ MaxLines \in Nat
  /\ Arguments \subseteq Int \X Int \X Int
  /\ Addresses \subseteq 0 .. 2^AddrBits - 1

VARIABLES
  params,     \* struct SimulationParams
  sets,       \* c->sets, each the array of its blocks
  stats,      \* the counters of struct Cache
  ts          \* c->ts

cvars == <<params, sets, stats, ts>>

\* parse_args: positive powers of two, blocks of at least a word, and write-back
\* only with write-allocate.  The code does not ask that index and offset fit
\* into an address: the conjunct on AddrBits is an assumption about the user.
IsPP2(n) == n > 0 /\ \E k \in 0 .. AddrBits : n = 2^k
Accepted(p) ==
  /\ IsPP2(p.sets) /\ IsPP2(p.blocks) /\ IsPP2(p.bytes)
  /\ p.bytes >= 4
  /\ p.through \/ p.allocate
  /\ p.sets * p.bytes <= 2^AddrBits

Parsed(arg, a, t, l) ==
  [sets |-> arg[1], blocks |-> arg[2], bytes |-> arg[3],
   allocate |-> a, through |-> t, evict_lru |-> l]
Organisations ==
  {p \in {Parsed(arg, a, t, l) : arg \in Arguments, a, t, l \in BOOLEAN} : Accepted(p)}

\* find_pow is only called for powers of two.
FindPow(n) == CHOOSE k \in 0 .. AddrBits : n = 2^k
\* `length' bits of source, from bit `lower' on
Bitmask(source, length, lower) == (source \div 2^lower) % 2^length

OBits == FindPow(params.bytes)
IBits == FindPow(params.sets)

\* Seeded fault: the index bits are left in the tag.
TagWithIndex(adr) == Bitmask(adr, AddrBits - OBits, OBits)
Tag(adr) == Bitmask(adr, AddrBits - IBits - OBits, IBits + OBits)
Index(adr) == Bitmask(adr, IBits, OBits)

Indices == 0 .. params.sets - 1
Slots == 1 .. params.blocks
Block == [tag : Nat, valid : BOOLEAN, dirty : BOOLEAN, load_ts : Nat, access_ts : Nat]
EmptyBlock == [tag |-> 0, valid |-> FALSE, dirty |-> FALSE, load_ts |-> 0, access_ts |-> 0]

NoStats == [loads |-> 0, stores |-> 0, load_hit |-> 0, load_miss |-> 0,
            store_hit |-> 0, store_miss |-> 0, cycles |-> 0]

Init ==
  /\ params \in Organisations
  /\ sets = [i \in Indices |-> [b \in Slots |-> EmptyBlock]]
  /\ stats = NoStats
  /\ ts = 0

First(S) == CHOOSE b \in S : \A x \in S : b <= x

\* Seeded fault: the search stops one block short.
HitsButLast(adr) ==
  LET s == sets[Index(adr)]
  IN  {b \in Slots : b < params.blocks /\ s[b].valid /\ s[b].tag = Tag(adr)}
\* is_hit: the blocks it would answer, of which it takes the first
Hits(adr) ==
  LET s == sets[Index(adr)]
  IN  {b \in Slots : s[b].valid /\ s[b].tag = Tag(adr)}

Stamp(block) == IF params.evict_lru THEN block.access_ts ELSE block.load_ts
\* Seeded fault: the comparison is turned round.
EvictNewest(s) ==
  LET invalid == {b \in Slots : ~s[b].valid}
      most == {b \in Slots : \A x \in Slots : Stamp(s[b]) >= Stamp(s[x])}
  IN  First(IF invalid # {} THEN invalid ELSE most)
\* evict: an invalid block if there is one, else the first of those with the
\* least stamp
Evict(s) ==
  LET invalid == {b \in Slots : ~s[b].valid}
      least == {b \in Slots : \A x \in Slots : Stamp(s[b]) <= Stamp(s[x])}
  IN  First(IF invalid # {} THEN invalid ELSE least)

\* Seeded fault: the time of access is left as it was at first.
LoadedUnstamped(adr, d) ==
  [tag |-> Tag(adr), valid |-> TRUE, dirty |-> d, load_ts |-> ts + 1, access_ts |-> 0]
\* load_block, and the dirty bit handle_store sets on the block it is given
Loaded(adr, d) ==
  [tag |-> Tag(adr), valid |-> TRUE, dirty |-> d, load_ts |-> ts + 1, access_ts |-> ts + 1]

\* Counters go up by one, and cycles by c.
Count(keys, c) ==
  stats' = [k \in DOMAIN stats |->
              IF k = "cycles" THEN stats[k] + c
              ELSE IF k \in keys THEN stats[k] + 1 ELSE stats[k]]

\* A line is read: is_hit stamps a block that it finds.
ReadLine(adr, hit) ==
  /\ ts < MaxLines
  /\ ts' = ts + 1
  /\ hit = (Hits(adr) # {})
  /\ UNCHANGED params

\* Seeded fault: the block is not stamped.
NotTouched(adr, d) ==
  LET i == Index(adr)
      b == First(Hits(adr))
      block == sets[i][b]
  IN  sets' = [sets EXCEPT ![i][b] = [block EXCEPT !.dirty = IF d THEN TRUE ELSE block.dirty]]
Touch(adr, d) ==
  LET i == Index(adr)
      b == First(Hits(adr))
      block == sets[i][b]
  IN  sets' = [sets EXCEPT ![i][b] =
                 [block EXCEPT !.access_ts = ts + 1,
                               !.dirty = IF d THEN TRUE ELSE block.dirty]]

\* handle_write_back, for an access that costs c cycles of its own and leaves
\* the block dirty if d
HandleWriteBack(adr, d, keys, c) ==
  LET i == Index(adr)
      b == Evict(sets[i])
      transfer == (100 * params.bytes) \div 4
      writeBack == ~params.through /\ sets[i][b].dirty
  IN  /\ sets' = [sets EXCEPT ![i][b] = Loaded(adr, d)]
      /\ Count(keys, c + transfer + IF writeBack THEN transfer ELSE 0)

LoadHit(adr) ==
  /\ ReadLine(adr, TRUE)
  /\ Touch(adr, FALSE)
  /\ Count({"loads", "load_hit"}, 1)

LoadMiss(adr) ==
  /\ ReadLine(adr, FALSE)
  /\ HandleWriteBack(adr, FALSE, {"loads", "load_miss"}, 1)

StoreHit(adr) ==
  /\ ReadLine(adr, TRUE)
  /\ Touch(adr, ~params.through)
  /\ Count({"stores", "store_hit"}, IF params.through THEN 101 ELSE 1)

StoreMissAllocate(adr) ==
  /\ ReadLine(adr, FALSE)
  /\ params.allocate
  /\ HandleWriteBack(adr, ~params.through, {"stores", "store_miss"},
                     IF params.through THEN 101 ELSE 1)

StoreMissAround(adr) ==
  /\ ReadLine(adr, FALSE)
  /\ ~params.allocate
  /\ Count({"stores", "store_miss"}, 100)
  /\ UNCHANGED sets

\* A line of another type: main has called is_hit by then.
OtherLine(adr) ==
  /\ \/ ReadLine(adr, TRUE) /\ Touch(adr, FALSE)
     \/ ReadLine(adr, FALSE) /\ UNCHANGED sets
  /\ UNCHANGED stats

Next == \E adr \in Addresses :
  \/ LoadHit(adr) \/ LoadMiss(adr)
  \/ StoreHit(adr) \/ StoreMissAllocate(adr) \/ StoreMissAround(adr)
  \/ OtherLine(adr)

Spec == Init /\ [][Next]_cvars

-----------------------------------------------------------------------------

\* Types of the simulator's state; a tag fits the bits that index and offset
\* leave (main.c:24).
TypeOK ==
  /\ params \in Organisations
  /\ sets \in [Indices -> [Slots -> Block]]
  /\ \A i \in Indices, b \in Slots : sets[i][b].tag < 2^(AddrBits - IBits - OBits)
  /\ stats \in [DOMAIN NoStats -> Nat]
  /\ ts \in 0 .. MaxLines

\* A memory block is in its set at most once, however hits, misses and
\* evictions follow one another: is_hit (cache.c:119) may stop at the first.
UniqueTags ==
  \A i \in Indices : \A b, x \in Slots :
    sets[i][b].valid /\ sets[i][x].valid /\ sets[i][b].tag = sets[i][x].tag => b = x

\* No two blocks of a set were loaded or used at the same time, and none after
\* now, so that the least stamp evict looks for (cache.c:146-159) is one
\* block's alone; and write-through leaves nothing dirty.
Stamps ==
  \A i \in Indices : \A b \in Slots :
    LET block == sets[i][b]
    IN  /\ block.valid => block.load_ts <= block.access_ts /\ block.access_ts <= ts
        /\ block.dirty => block.valid /\ ~params.through
        /\ \A x \in Slots \ {b} : block.valid /\ sets[i][x].valid =>
             /\ block.load_ts # sets[i][x].load_ts
             /\ block.access_ts # sets[i][x].access_ts

\* A block is given up only when its set is full, and then it is the one whose
\* last use (lru) or load (fifo) is furthest back: evict (cache.c:132-167) reads
\* stamps that is_hit and load_block wrote in earlier lines.
GivesUpOldest ==
  [][\A i \in Indices : \A b \in Slots :
       sets[i][b].valid /\ sets'[i][b].tag # sets[i][b].tag =>
         \A x \in Slots \ {b} :
           sets[i][x].valid /\ Stamp(sets[i][b]) < Stamp(sets[i][x])]_cvars
-----------------------------------------------------------------------------
(* The order in which blocks are given up, which the stamps stand for.      *)

\* The memory block that a block of set i holds a copy of.
Held(i, b) == sets[i][b].tag * params.sets + i
Valid(i) == {b \in Slots : sets[i][b].valid}
Unsaved == UNION {{Held(i, b) : b \in {x \in Valid(i) : sets[i][x].dirty}} : i \in Indices}

Ages(i) == [b \in Slots |-> Stamp(sets[i][b])]
Sorts(q, V, age) ==
  /\ q \in [1 .. Cardinality(V) -> V]
  /\ \A m, n \in 1 .. Cardinality(V) : m < n => age[q[m]] < age[q[n]]
Sorted(V, age) == CHOOSE q \in [1 .. Cardinality(V) -> V] : Sorts(q, V, age)
Queue(i) ==
  LET q == Sorted(Valid(i), Ages(i))
  IN  [n \in 1 .. Cardinality(Valid(i)) |-> Held(i, q[n])]
Queues == [i \in Indices |-> Queue(i)]

Policy == INSTANCE CachePolicy WITH
  StartStats <- NoStats,
  WordBytes <- 4,
  queue <- Queues,
  unsaved <- Unsaved

\* Time stamps, dirty bits and cycle counts amount to what CachePolicy says
\* (cache.c:119-221, main.c:20-35).
RefinesPolicy == Policy!Spec
=============================================================================
