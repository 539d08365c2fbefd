----------------------------- MODULE CacheProofs -----------------------------
(***************************************************************************)
(* Proofs about Cache, for every organisation, policy and trace.            *)
(***************************************************************************)
EXTENDS Cache, FiniteSetTheorems, FunctionTheorems, SequenceTheorems, WellFoundedInduction,
        TLAPS

\* What a tag can be: 0, or what main cuts out of an address (main.c:24).
TagValues == {0} \cup {Tag(adr) : adr \in Addresses}

Blocks(T) == [tag : T, valid : BOOLEAN, dirty : BOOLEAN, load_ts : Nat, access_ts : Nat]
Shape ==
  /\ params \in Organisations
  /\ ts \in Nat
  /\ sets \in [Indices -> [Slots -> Blocks(TagValues)]]

IInv == Shape /\ UniqueTags /\ Stamps

-----------------------------------------------------------------------------

\* A set of numbers has a least one: the first hit or the oldest block of a cache
\* set (cache.c:119-167), the lowest free descriptor (calcServer.c:76).
LEMMA LeastNumber ==
  ASSUME NEW S, S \subseteq Nat, S # {}
  PROVE  \E x \in S : \A y \in S : x <= y
<1> DEFINE Less == {ss \in Nat \X Nat : ss[1] < ss[2]}
<1>1. IsWellFoundedOn(Less, Nat)
  <2>1. OpToRel(<, Nat) = Less
    BY Zenon DEF OpToRel
  <2> QED BY <2>1, NatLessThanWellFounded, Zenon
<1>2. PICK x \in S : \A y \in S : <<y, x>> \notin Less
  <2> HIDE DEF Less
  <2> QED BY <1>1, WFMin
<1>3. ASSUME NEW y \in S PROVE x <= y
  <2>1. ~ (y < x)
    <3>1. SUFFICES ASSUME y < x PROVE <<y, x>> \in Less
      BY <1>2
    <3>2. <<y, x>> \in Nat \X Nat /\ <<y, x>>[1] < <<y, x>>[2]
      BY <3>1
    <3> QED BY <3>2, Zenon
  <2> QED BY <2>1
<1> QED BY <1>3

\* The first of some blocks is one of them.
LEMMA FirstIn ==
  ASSUME NEW S, S \subseteq Nat, S # {}
  PROVE  First(S) \in S
BY LeastNumber DEF First

\* What parse_args lets through (cache.c:13).
LEMMA OrganisationType ==
  ASSUME params \in Organisations
  PROVE  /\ params.sets \in Nat \ {0} /\ params.blocks \in Nat \ {0}
         /\ params.bytes \in Nat \ {0}
         /\ params.allocate \in BOOLEAN /\ params.through \in BOOLEAN
         /\ params.evict_lru \in BOOLEAN
         /\ params.through \/ params.allocate
         /\ 2^OBits = params.bytes /\ 2^IBits = params.sets
<1>1. PICK arg \in Arguments, a \in BOOLEAN, t \in BOOLEAN, l \in BOOLEAN :
        params = Parsed(arg, a, t, l) /\ Accepted(params)
  BY DEF Organisations
<1>2. arg \in Int \X Int \X Int
  BY <1>1, CacheAssumption DEF CacheAssumption
<1>3. /\ params.sets \in Int /\ params.blocks \in Int /\ params.bytes \in Int
      /\ params.allocate \in BOOLEAN /\ params.through \in BOOLEAN
      /\ params.evict_lru \in BOOLEAN
  BY <1>1, <1>2 DEF Parsed
<1>4. params.sets > 0 /\ params.blocks > 0 /\ params.bytes > 0
      /\ (params.through \/ params.allocate)
  BY <1>1 DEF Accepted, IsPP2
<1>5. 2^OBits = params.bytes
  BY <1>1, Zenon DEF Accepted, IsPP2, OBits, FindPow
<1>6. 2^IBits = params.sets
  BY <1>1, Zenon DEF Accepted, IsPP2, IBits, FindPow
<1> QED BY <1>3, <1>4, <1>5, <1>6

\* Every address falls into a set of the cache (main.c:25-26).
LEMMA IndexIn ==
  ASSUME params \in Organisations, NEW adr \in Nat
  PROVE  Index(adr) \in Indices
<1>1. Index(adr) = (adr \div params.bytes) % params.sets
  BY OrganisationType DEF Index, Bitmask
<1>2. params.sets \in Nat \ {0} /\ params.bytes \in Nat \ {0}
  BY OrganisationType
<1>3. adr \div params.bytes \in Int
  BY <1>2
<1>4. (adr \div params.bytes) % params.sets \in 0 .. params.sets - 1
  BY <1>2, <1>3
<1> QED BY <1>1, <1>4 DEF Indices

\* Addresses are numbers.
LEMMA AddressType == ASSUME NEW adr \in Addresses PROVE adr \in Nat
BY CacheAssumption DEF CacheAssumption

\* A stamp is a number whatever the policy.
LEMMA StampType ==
  ASSUME Shape, NEW i \in Indices, NEW b \in Slots
  PROVE  Stamp(sets[i][b]) \in Nat
BY OrganisationType DEF Shape, Stamp, Blocks

\* evict finds a block, an invalid one or the one with the least stamp.
LEMMA EvictRight ==
  ASSUME Shape, NEW i \in Indices
  PROVE  LET s == sets[i]
             v == Evict(s)
         IN  /\ v \in Slots
             /\ s[v].valid => \A x \in Slots : s[x].valid /\ Stamp(s[v]) <= Stamp(s[x])
<1> DEFINE s == sets[i]
           invalid == {b \in Slots : ~s[b].valid}
           least == {b \in Slots : \A x \in Slots : Stamp(s[b]) <= Stamp(s[x])}
<1>1. Slots \subseteq Nat /\ 1 \in Slots
  BY OrganisationType DEF Shape, Slots
<1>2. least # {}
  <2> DEFINE stamps == {Stamp(s[b]) : b \in Slots}
  <2>1. stamps \subseteq Nat /\ stamps # {}
    BY <1>1, StampType
  <2>2. PICK m \in stamps : \A n \in stamps : m <= n
    <3> HIDE DEF stamps
    <3> QED BY <2>1, LeastNumber
  <2>3. PICK b \in Slots : m = Stamp(s[b])
    OBVIOUS
  <2> QED BY <2>2, <2>3
<1>3. CASE invalid # {}
  <2>1. Evict(s) = First(invalid)
    BY <1>3 DEF Evict
  <2>2. First(invalid) \in invalid
    <3>1. invalid \subseteq Nat
      BY <1>1
    <3> HIDE DEF invalid
    <3> QED BY <1>3, <3>1, FirstIn
  <2> QED BY <2>1, <2>2
<1>4. CASE invalid = {}
  <2>1. Evict(s) = First(least)
    BY <1>4 DEF Evict
  <2>2. First(least) \in least
    <3>1. least \subseteq Nat
      BY <1>1
    <3> HIDE DEF least
    <3> QED BY <1>2, <3>1, FirstIn
  <2> QED BY <1>4, <2>1, <2>2
<1> QED BY <1>3, <1>4

\* is_hit answers a valid block of the set, with the tag of the address.
LEMMA HitRight ==
  ASSUME Shape, NEW adr \in Addresses, Hits(adr) # {}
  PROVE  LET b == First(Hits(adr))
         IN  b \in Slots /\ sets[Index(adr)][b].valid
<1>1. Hits(adr) \subseteq Nat
  BY OrganisationType DEF Shape, Slots, Hits
<1>2. First(Hits(adr)) \in Hits(adr)
  BY <1>1, FirstIn
<1> QED BY <1>2 DEF Hits

-----------------------------------------------------------------------------
(* The invariant under what a line can do to the blocks.                    *)

\* The organisation, and all that follows from it, is the same after a line.
LEMMA SameOrganisation ==
  ASSUME params' = params
  PROVE  /\ Indices' = Indices /\ Slots' = Slots /\ TagValues' = TagValues
         /\ Organisations' = Organisations
         /\ \A block : Stamp(block)' = Stamp(block)
BY DEF Indices, Slots, TagValues, Tag, OBits, IBits, Stamp, Organisations

\* A line leaves one block of one set changed: it is valid, with the tag of a
\* block that was there or of none, and with stamps that no other block has.
LEMMA ChangeKeeps ==
  ASSUME IInv, params' = params, ts' = ts + 1,
         NEW i \in Indices, NEW v \in Slots, NEW new \in Blocks(TagValues),
         sets' = [sets EXCEPT ![i][v] = new],
         new.valid, new.dirty => ~params.through,
         \A x \in Slots \ {v} : sets[i][x].valid => sets[i][x].tag # new.tag,
         new.access_ts = ts + 1,
         \/ new.load_ts = ts + 1
         \/ sets[i][v].valid /\ new.load_ts = sets[i][v].load_ts
  PROVE  IInv'
<1>1. \A j \in Indices : \A b \in Slots :
        sets'[j][b] = IF j = i /\ b = v THEN new ELSE sets[j][b]
  BY DEF IInv, Shape
<1>2. \A j \in Indices : \A b \in Slots : sets[j][b] \in Blocks(TagValues)
  BY DEF IInv, Shape
<1>3. Indices' = Indices /\ Slots' = Slots /\ TagValues' = TagValues
  BY SameOrganisation
<1>4. Shape'
  <2>1. sets' \in [Indices -> [Slots -> Blocks(TagValues)]]
    BY DEF IInv, Shape
  <2>2. params' \in Organisations'
    BY SameOrganisation DEF IInv, Shape
  <2> QED BY <1>3, <2>1, <2>2 DEF IInv, Shape
<1>5. UniqueTags'
  BY <1>1, <1>3 DEF IInv, UniqueTags
<1>6. ASSUME NEW j \in Indices, NEW b \in Slots
      PROVE  /\ sets'[j][b].valid => /\ sets'[j][b].load_ts <= sets'[j][b].access_ts
                                     /\ sets'[j][b].access_ts <= ts + 1
             /\ sets'[j][b].dirty => sets'[j][b].valid /\ ~params.through
  BY <1>1, <1>2 DEF IInv, Shape, Stamps, Blocks
<1>7. ASSUME NEW j \in Indices, NEW b \in Slots, NEW x \in Slots \ {b},
             sets'[j][b].valid, sets'[j][x].valid
      PROVE  /\ sets'[j][b].load_ts # sets'[j][x].load_ts
             /\ sets'[j][b].access_ts # sets'[j][x].access_ts
  BY <1>1, <1>2, <1>7 DEF IInv, Shape, Stamps, Blocks
<1>8. Stamps'
  BY <1>3, <1>6, <1>7 DEF Stamps
<1> QED BY <1>4, <1>5, <1>8 DEF IInv

\* A hit stamps the block that is_hit answers.
LEMMA TouchKeeps ==
  ASSUME IInv, NEW adr \in Addresses, NEW d \in BOOLEAN, d => ~params.through,
         ReadLine(adr, TRUE), Touch(adr, d)
  PROVE  IInv'
<1> DEFINE i == Index(adr)
           v == First(Hits(adr))
           old == sets[i][v]
           new == [old EXCEPT !.access_ts = ts + 1, !.dirty = IF d THEN TRUE ELSE old.dirty]
<1>1. i \in Indices
  BY IndexIn, AddressType DEF IInv, Shape
<1>2. v \in Slots /\ old.valid
  BY HitRight DEF IInv, ReadLine
<1>3. params' = params /\ ts' = ts + 1 /\ ts + 1 \in Nat
  BY DEF ReadLine, IInv, Shape
<1>4. sets' = [sets EXCEPT ![i][v] = new]
  BY DEF Touch
<1>5. old \in Blocks(TagValues) /\ (old.dirty => ~params.through)
  BY <1>1, <1>2 DEF IInv, Shape, Stamps
<1>6. /\ new \in Blocks(TagValues)
      /\ new.tag = old.tag /\ new.valid = old.valid
      /\ new.load_ts = old.load_ts /\ new.access_ts = ts + 1
      /\ new.dirty => d \/ old.dirty
  <2>1. old \in Blocks(TagValues) /\ ts + 1 \in Nat
    BY <1>3, <1>5
  <2> HIDE DEF i, v, old
  <2>2. new \in Blocks(TagValues)
    BY <2>1 DEF Blocks
  <2>3. /\ new.tag = old.tag /\ new.valid = old.valid
        /\ new.load_ts = old.load_ts /\ new.access_ts = ts + 1
    BY <2>1 DEF Blocks
  <2>4. new.dirty => d \/ old.dirty
    BY <2>1 DEF Blocks
  <2> QED BY <2>2, <2>3, <2>4
<1>7. \A x \in Slots \ {v} : sets[i][x].valid => sets[i][x].tag # new.tag
  <2> HIDE DEF i, v, new
  <2> QED BY <1>1, <1>2, <1>6 DEF IInv, UniqueTags
<1> HIDE DEF i, v, new
<1> QED BY <1>1, <1>2, <1>3, <1>4, <1>5, <1>6, <1>7, ChangeKeeps

\* A miss loads a block whose tag is in no other block of the set.
LEMMA FillKeeps ==
  ASSUME IInv, NEW adr \in Addresses, NEW d \in BOOLEAN, d => ~params.through,
         NEW keys, NEW c, ReadLine(adr, FALSE), HandleWriteBack(adr, d, keys, c)
  PROVE  IInv'
<1> DEFINE i == Index(adr)
           v == Evict(sets[i])
           new == Loaded(adr, d)
<1>1. i \in Indices
  BY IndexIn, AddressType DEF IInv, Shape
<1>2. v \in Slots
  BY <1>1, EvictRight DEF IInv
<1>3. params' = params /\ ts' = ts + 1 /\ ts + 1 \in Nat
  BY DEF ReadLine, IInv, Shape
<1>4. sets' = [sets EXCEPT ![i][v] = new]
  BY DEF HandleWriteBack
<1>5. /\ new \in Blocks(TagValues) /\ new.tag = Tag(adr)
      /\ new.valid /\ new.load_ts = ts + 1 /\ new.access_ts = ts + 1
      /\ new.dirty => ~params.through
  BY <1>3 DEF Loaded, Blocks, TagValues
<1>6. \A x \in Slots \ {v} : sets[i][x].valid => sets[i][x].tag # new.tag
  <2>1. \A x \in Slots : sets[i][x].valid => sets[i][x].tag # Tag(adr)
    BY DEF ReadLine, Hits
  <2> QED BY <1>5, <2>1
<1> HIDE DEF i, v, new
<1> QED BY <1>1, <1>2, <1>3, <1>4, <1>5, <1>6, ChangeKeeps

\* A line that leaves the blocks alone only lets time pass.
LEMMA PassKeeps ==
  ASSUME IInv, params' = params, ts' = ts + 1, UNCHANGED sets
  PROVE  IInv'
<1>1. Indices' = Indices /\ Slots' = Slots /\ TagValues' = TagValues
      /\ params' \in Organisations'
  BY SameOrganisation DEF IInv, Shape
<1>2. \A i \in Indices : \A b \in Slots : sets[i][b] \in Blocks(TagValues)
  BY DEF IInv, Shape
<1>3. Shape'
  BY <1>1 DEF IInv, Shape
<1>4. UniqueTags'
  BY <1>1 DEF IInv, UniqueTags
<1>5. Stamps'
  BY <1>1, <1>2 DEF IInv, Shape, Stamps, Blocks
<1> QED BY <1>3, <1>4, <1>5 DEF IInv

\* A hit changes no tag.
LEMMA TouchSameTag ==
  ASSUME IInv, NEW adr \in Addresses, NEW d, ReadLine(adr, TRUE), Touch(adr, d),
         NEW j \in Indices, NEW b \in Slots
  PROVE  sets'[j][b].tag = sets[j][b].tag
<1> DEFINE i == Index(adr)
           v == First(Hits(adr))
           old == sets[i][v]
           new == [old EXCEPT !.access_ts = ts + 1, !.dirty = IF d THEN TRUE ELSE old.dirty]
<1>1. i \in Indices /\ v \in Slots
  BY IndexIn, AddressType, HitRight DEF IInv, Shape, ReadLine
<1>2. sets' = [sets EXCEPT ![i][v] = new]
  BY DEF Touch
<1>3. old \in Blocks(TagValues)
  BY <1>1 DEF IInv, Shape
<1>4. new.tag = old.tag
  <2> HIDE DEF i, v, old
  <2> QED BY <1>3 DEF Blocks
<1> HIDE DEF i, v, new
<1> QED BY <1>1, <1>2, <1>4 DEF IInv, Shape

-----------------------------------------------------------------------------

\* Every block is empty at first.
LEMMA InitInv == Init => IInv
<1> SUFFICES ASSUME Init PROVE IInv
  OBVIOUS
<1>1. EmptyBlock \in Blocks(TagValues) /\ ~EmptyBlock.valid /\ ~EmptyBlock.dirty
  BY DEF EmptyBlock, Blocks, TagValues
<1>2. \A i \in Indices : \A b \in Slots : sets[i][b] = EmptyBlock
  BY DEF Init
<1>3. Shape
  BY <1>1 DEF Init, Shape
<1>4. UniqueTags /\ Stamps
  BY <1>1, <1>2 DEF UniqueTags, Stamps
<1> QED BY <1>3, <1>4 DEF IInv

\* Every line of the trace keeps the invariant.
LEMMA NextInv == IInv /\ [Next]_cvars => IInv'
<1> SUFFICES ASSUME IInv, [Next]_cvars PROVE IInv'
  OBVIOUS
<1>1. params.through \in BOOLEAN
  BY OrganisationType DEF IInv, Shape
<1>2. CASE Next
  <2>1. PICK adr \in Addresses :
          \/ LoadHit(adr) \/ LoadMiss(adr)
          \/ StoreHit(adr) \/ StoreMissAllocate(adr) \/ StoreMissAround(adr)
          \/ OtherLine(adr)
    BY <1>2 DEF Next
  <2>2. CASE LoadHit(adr)
    BY <2>2, TouchKeeps DEF LoadHit
  <2>3. CASE LoadMiss(adr)
    BY <2>3, FillKeeps DEF LoadMiss
  <2>4. CASE StoreHit(adr)
    BY <1>1, <2>4, TouchKeeps DEF StoreHit
  <2>5. CASE StoreMissAllocate(adr)
    BY <1>1, <2>5, FillKeeps DEF StoreMissAllocate
  <2>6. CASE StoreMissAround(adr)
    BY <2>6, PassKeeps DEF StoreMissAround, ReadLine
  <2>7. CASE OtherLine(adr)
    BY <2>7, TouchKeeps, PassKeeps DEF OtherLine, ReadLine
  <2> QED BY <2>1, <2>2, <2>3, <2>4, <2>5, <2>6, <2>7
<1>3. CASE UNCHANGED cvars
  <2>1. /\ params' = params /\ sets' = sets /\ ts' = ts
    BY <1>3 DEF cvars
  <2>2. Indices' = Indices /\ Slots' = Slots /\ TagValues' = TagValues
        /\ params' \in Organisations'
    BY <2>1, SameOrganisation DEF IInv, Shape
  <2> QED BY <2>1, <2>2 DEF IInv, Shape, UniqueTags, Stamps
<1> QED BY <1>2, <1>3

\* So it holds throughout.
LEMMA Inductive == Spec => []IInv
BY InitInv, NextInv, PTL DEF Spec

\* A memory block is never in its set twice.
THEOREM NoDuplicates == Spec => []UniqueTags
BY Inductive, PTL DEF IInv

\* The order that the stamps put on the blocks of a set is a strict one.
THEOREM StampsOrder == Spec => []Stamps
BY Inductive, PTL DEF IInv

\* Only the block furthest back is ever given up, and only by a full set.
THEOREM OldestGoes == Spec => GivesUpOldest
<1>1. ASSUME IInv, [Next]_cvars,
             NEW i \in Indices, NEW b \in Slots, NEW x \in Slots \ {b},
             sets[i][b].valid, sets'[i][b].tag # sets[i][b].tag
      PROVE  sets[i][x].valid /\ Stamp(sets[i][b]) < Stamp(sets[i][x])
  <2>1. PICK adr \in Addresses : \E d, keys, c :
          ReadLine(adr, FALSE) /\ HandleWriteBack(adr, d, keys, c)
    <3>1. sets' # sets
      BY <1>1
    <3>2. Next
      BY <1>1, <3>1 DEF cvars
    <3>3. PICK adr \in Addresses :
            \/ LoadHit(adr) \/ LoadMiss(adr)
            \/ StoreHit(adr) \/ StoreMissAllocate(adr) \/ StoreMissAround(adr)
            \/ OtherLine(adr)
      BY <3>2 DEF Next
    <3>4. ASSUME NEW d, ReadLine(adr, TRUE), Touch(adr, d) PROVE FALSE
      BY <1>1, <3>4, TouchSameTag
    <3>5. CASE LoadMiss(adr)
      BY <3>5 DEF LoadMiss
    <3>6. CASE StoreMissAllocate(adr)
      BY <3>6 DEF StoreMissAllocate
    <3> QED BY <3>1, <3>3, <3>4, <3>5, <3>6
         DEF LoadHit, StoreHit, StoreMissAround, OtherLine
  <2> DEFINE v == Evict(sets[Index(adr)])
  <2>2. Index(adr) \in Indices
    BY <1>1, IndexIn, AddressType DEF IInv, Shape
  <2>3. v \in Slots
        /\ (sets[Index(adr)][v].valid =>
              \A y \in Slots : /\ sets[Index(adr)][y].valid
                               /\ Stamp(sets[Index(adr)][v]) <= Stamp(sets[Index(adr)][y]))
    BY <1>1, <2>2, EvictRight DEF IInv
  <2>4. \E d : sets' = [sets EXCEPT ![Index(adr)][v] = Loaded(adr, d)]
    BY <2>1 DEF HandleWriteBack
  <2> HIDE DEF v
  <2>5. i = Index(adr) /\ b = v
    BY <1>1, <2>2, <2>3, <2>4 DEF IInv, Shape
  <2>6. Stamp(sets[i][b]) # Stamp(sets[i][x])
    BY <1>1, <2>3, <2>5 DEF IInv, Stamps, Stamp
  <2>7. Stamp(sets[i][b]) \in Nat /\ Stamp(sets[i][x]) \in Nat
    BY <1>1, StampType DEF IInv
  <2> QED BY <1>1, <2>3, <2>5, <2>6, <2>7
<1>2. IInv /\ [Next]_cvars =>
        [\A i \in Indices : \A b \in Slots :
           sets[i][b].valid /\ sets'[i][b].tag # sets[i][b].tag =>
             \A x \in Slots \ {b} :
               sets[i][x].valid /\ Stamp(sets[i][b]) < Stamp(sets[i][x])]_cvars
  BY <1>1
<1> QED BY <1>2, Inductive, PTL DEF Spec, GivesUpOldest

-----------------------------------------------------------------------------
(* Powers of two, as the numbers of subsets.                                *)

\* A set of n elements has 2^n subsets.
LEMMA PowerIsCount ==
  ASSUME NEW n \in Nat, NEW S, IsFiniteSet(S), Cardinality(S) = n
  PROVE  IsFiniteSet(SUBSET S) /\ Cardinality(SUBSET S) = 2^n
BY FS_SUBSET

\* There is always the empty one.
LEMMA PowerPositive ==
  ASSUME NEW n \in Nat
  PROVE  2^n \in Nat \ {0}
<1>1. IsFiniteSet(1 .. n) /\ Cardinality(1 .. n) = n
  BY FS_Interval
<1>2. IsFiniteSet(SUBSET (1 .. n)) /\ Cardinality(SUBSET (1 .. n)) = 2^n
  BY <1>1, PowerIsCount
<1>3. Cardinality(SUBSET (1 .. n)) \in Nat
  BY <1>2, FS_CardinalityType
<1>4. Cardinality(SUBSET (1 .. n)) # 0
  BY <1>2, FS_EmptySet
<1> QED BY <1>2, <1>3, <1>4

\* A subset of a sum is one of each part.
LEMMA PowerSum ==
  ASSUME NEW m \in Nat, NEW n \in Nat
  PROVE  2^(m + n) = 2^m * 2^n
<1> DEFINE A == 1 .. m
           B == m + 1 .. m + n
           C == 1 .. m + n
           F == [p \in (SUBSET A) \X (SUBSET B) |-> p[1] \cup p[2]]
<1>1. /\ IsFiniteSet(A) /\ Cardinality(A) = m
      /\ IsFiniteSet(B) /\ Cardinality(B) = n
      /\ IsFiniteSet(C) /\ Cardinality(C) = m + n
  <2>1. 1 \in Int /\ m + 1 \in Int /\ m + n \in Int
    OBVIOUS
  <2>2. IsFiniteSet(A) /\ Cardinality(A) = m
    BY <2>1, FS_Interval
  <2>3. IsFiniteSet(B) /\ Cardinality(B) = n
    <3>1. /\ IsFiniteSet(m + 1 .. m + n)
          /\ Cardinality(m + 1 .. m + n) = IF m + 1 > m + n THEN 0 ELSE (m + n) - (m + 1) + 1
      BY <2>1, FS_Interval, Zenon
    <3>2. (IF m + 1 > m + n THEN 0 ELSE (m + n) - (m + 1) + 1) = n
      OBVIOUS
    <3> QED BY <3>1, <3>2
  <2>4. IsFiniteSet(C) /\ Cardinality(C) = m + n
    <3>1. /\ IsFiniteSet(1 .. m + n)
          /\ Cardinality(1 .. m + n) = IF 1 > m + n THEN 0 ELSE (m + n) - 1 + 1
      BY <2>1, FS_Interval, Zenon
    <3>2. (IF 1 > m + n THEN 0 ELSE (m + n) - 1 + 1) = m + n
      OBVIOUS
    <3> QED BY <3>1, <3>2
  <2> QED BY <2>2, <2>3, <2>4
<1>2. A \cap B = {} /\ A \cup B = C
  OBVIOUS
<1> HIDE DEF A, B, C
<1>3. F \in Bijection((SUBSET A) \X (SUBSET B), SUBSET C)
  <2>1. F \in [(SUBSET A) \X (SUBSET B) -> SUBSET C]
    BY <1>2
  <2>2. \A p, q \in (SUBSET A) \X (SUBSET B) : F[p] = F[q] => p = q
    <3>1. SUFFICES ASSUME NEW p \in (SUBSET A) \X (SUBSET B), NEW q \in (SUBSET A) \X (SUBSET B),
                          p[1] \cup p[2] = q[1] \cup q[2]
                   PROVE  p = q
      OBVIOUS
    <3>2. PICK a \in SUBSET A, b \in SUBSET B : p = <<a, b>>
      OBVIOUS
    <3>3. PICK c \in SUBSET A, d \in SUBSET B : q = <<c, d>>
      OBVIOUS
    <3>4. a \cup b = c \cup d
      BY <3>1, <3>2, <3>3
    <3>5. a = c /\ b = d
      BY <1>2, <3>4
    <3> QED BY <3>2, <3>3, <3>5
  <2>3. \A t \in SUBSET C : \E p \in (SUBSET A) \X (SUBSET B) : F[p] = t
    <3>1. TAKE t \in SUBSET C
    <3>2. <<t \cap A, t \cap B>> \in (SUBSET A) \X (SUBSET B)
      OBVIOUS
    <3>3. F[<<t \cap A, t \cap B>>] = t
      BY <1>2, <3>2
    <3> QED BY <3>2, <3>3
  <2> HIDE DEF F
  <2> QED BY <2>1, <2>2, <2>3, Fun_IsBij
<1>4. ExistsBijection((SUBSET A) \X (SUBSET B), SUBSET C)
  BY <1>3 DEF ExistsBijection
<1>5. /\ IsFiniteSet((SUBSET A) \X (SUBSET B))
      /\ Cardinality((SUBSET A) \X (SUBSET B)) = 2^m * 2^n
  <2>1. /\ IsFiniteSet(SUBSET A) /\ Cardinality(SUBSET A) = 2^m
        /\ IsFiniteSet(SUBSET B) /\ Cardinality(SUBSET B) = 2^n
    BY <1>1, PowerIsCount
  <2> QED BY <2>1, FS_Product
<1>6. Cardinality(SUBSET C) = Cardinality((SUBSET A) \X (SUBSET B))
  BY <1>4, <1>5, FS_Bijection
<1>7. Cardinality(SUBSET C) = 2^(m + n)
  <2>1. m + n \in Nat
    OBVIOUS
  <2> QED BY <1>1, <2>1, PowerIsCount
<1> QED BY <1>5, <1>6, <1>7

\* More bits, more values.
LEMMA PowerGrows ==
  ASSUME NEW m \in Nat, NEW n \in Nat, m < n
  PROVE  2^m < 2^n
<1>1. PICK k \in Nat : n = m + (1 + k)
  <2>1. n - m - 1 \in Nat /\ n = m + (1 + (n - m - 1))
    OBVIOUS
  <2> QED BY <2>1
<1>2. 2^n = 2^m * 2^(1 + k) /\ 2^(1 + k) = 2 * 2^k
  <2>1. 1 + k \in Nat /\ 2^1 = 2
    OBVIOUS
  <2> QED BY <1>1, <2>1, PowerSum
<1>3. PICK a \in Nat \ {0}, b \in Nat \ {0} : a = 2^m /\ b = 2^k
  BY PowerPositive
<1>4. 2^n = a * (2 * b)
  BY <1>2, <1>3
<1>5. a < a * (2 * b)
  OBVIOUS
<1> QED BY <1>3, <1>4, <1>5

-----------------------------------------------------------------------------
(* The widths of tags and the counters.                                     *)

TagBits == AddrBits - IBits - OBits

\* Index and offset leave the other bits of an address to the tag (cache.c:13).
LEMMA BitsFit ==
  ASSUME params \in Organisations
  PROVE  IBits \in Nat /\ OBits \in Nat /\ TagBits \in Nat
<1>1. Accepted(params)
  BY DEF Organisations
<1>2. IBits \in 0 .. AddrBits /\ OBits \in 0 .. AddrBits
  BY <1>1, Zenon DEF Accepted, IsPP2, IBits, OBits, FindPow
<1>3. 2^IBits * 2^OBits <= 2^AddrBits
  BY <1>1, OrganisationType DEF Accepted
<1>4. AddrBits \in Nat /\ IBits + OBits \in Nat
  BY <1>2, CacheAssumption
<1>5. 2^(IBits + OBits) <= 2^AddrBits
  <2>1. IBits \in Nat /\ OBits \in Nat
    BY <1>2
  <2> QED BY <1>3, <2>1, PowerSum
<1>6. ~(AddrBits < IBits + OBits)
  <2>1. SUFFICES ASSUME AddrBits < IBits + OBits PROVE FALSE
    OBVIOUS
  <2>2. 2^AddrBits < 2^(IBits + OBits)
    BY <1>4, <2>1, PowerGrows
  <2>3. 2^AddrBits \in Nat /\ 2^(IBits + OBits) \in Nat
    BY <1>4, PowerPositive
  <2> QED BY <1>5, <2>2, <2>3
<1> QED BY <1>2, <1>4, <1>6 DEF TagBits

\* main cuts tags to what is left (main.c:24).
LEMMA TagFits ==
  ASSUME params \in Organisations, NEW tag \in TagValues
  PROVE  tag \in Nat /\ tag < 2^TagBits
<1>1. 2^TagBits \in Nat \ {0} /\ 2^(IBits + OBits) \in Nat \ {0}
  BY BitsFit, PowerPositive
<1>2. ASSUME NEW adr \in Addresses PROVE Tag(adr) \in Nat /\ Tag(adr) < 2^TagBits
  <2>1. adr \div 2^(IBits + OBits) \in Nat
    BY <1>1, AddressType
  <2> QED BY <1>1, <2>1 DEF Tag, Bitmask, TagBits
<1> QED BY <1>1, <1>2 DEF TagValues

Counters == stats \in [DOMAIN NoStats -> Nat] /\ ts \in 0 .. MaxLines

\* A counter never goes down.
LEMMA CountKeeps ==
  ASSUME Counters, NEW keys, NEW c \in Nat, Count(keys, c)
  PROVE  stats' \in [DOMAIN NoStats -> Nat]
BY DEF Counters, Count

\* What a line of the trace costs is a number of cycles.
LEMMA NextCounters == IInv /\ Counters /\ [Next]_cvars => Counters'
<1> SUFFICES ASSUME IInv, Counters, [Next]_cvars PROVE Counters'
  OBVIOUS
<1>1. CASE Next
  <2>1. PICK adr \in Addresses :
          \/ LoadHit(adr) \/ LoadMiss(adr)
          \/ StoreHit(adr) \/ StoreMissAllocate(adr) \/ StoreMissAround(adr)
          \/ OtherLine(adr)
    BY <1>1 DEF Next
  <2>2. ts' \in 0 .. MaxLines
    <3>1. \E hit : ReadLine(adr, hit)
      BY <2>1 DEF LoadHit, LoadMiss, StoreHit, StoreMissAllocate, StoreMissAround, OtherLine
    <3> QED BY <3>1, CacheAssumption DEF ReadLine, Counters
  <2>3. ASSUME NEW d, NEW keys, NEW c \in Nat, HandleWriteBack(adr, d, keys, c)
        PROVE  stats' \in [DOMAIN NoStats -> Nat]
    <3> DEFINE transfer == (100 * params.bytes) \div 4
               writeBack == ~params.through /\ sets[Index(adr)][Evict(sets[Index(adr)])].dirty
               cost == c + transfer + IF writeBack THEN transfer ELSE 0
    <3>1. transfer \in Nat
      <4>1. 100 * params.bytes \in Nat
        BY OrganisationType DEF IInv, Shape
      <4> QED BY <4>1
    <3>2. Count(keys, cost)
      BY <2>3 DEF HandleWriteBack
    <3> HIDE DEF transfer, writeBack
    <3>3. cost \in Nat
      BY <3>1
    <3> HIDE DEF cost
    <3> QED BY <3>2, <3>3, CountKeeps
  <2>4. CASE LoadHit(adr) \/ StoreHit(adr) \/ StoreMissAround(adr)
    <3>1. \E keys : \E c \in Nat : Count(keys, c)
      <4>1. CASE LoadHit(adr)
        BY <4>1 DEF LoadHit
      <4>2. CASE StoreHit(adr)
        <5>1. (IF params.through THEN 101 ELSE 1) \in Nat
          OBVIOUS
        <5> QED BY <4>2, <5>1 DEF StoreHit
      <4>3. CASE StoreMissAround(adr)
        BY <4>3 DEF StoreMissAround
      <4> QED BY <2>4, <4>1, <4>2, <4>3
    <3> QED BY <2>2, <3>1, CountKeeps DEF Counters
  <2>5. CASE LoadMiss(adr) \/ StoreMissAllocate(adr)
    <3>1. \E d, keys : \E c \in Nat : HandleWriteBack(adr, d, keys, c)
      <4>1. (IF params.through THEN 101 ELSE 1) \in Nat
        OBVIOUS
      <4> QED BY <2>5, <4>1 DEF LoadMiss, StoreMissAllocate
    <3> QED BY <2>2, <2>3, <3>1 DEF Counters
  <2>6. CASE OtherLine(adr)
    BY <2>2, <2>6 DEF OtherLine, Counters
  <2> QED BY <2>1, <2>4, <2>5, <2>6
<1>2. CASE UNCHANGED cvars
  BY <1>2 DEF cvars, Counters
<1> QED BY <1>1, <1>2

\* The types are kept: a tag fits the bits that index and offset leave, for any
\* width of addresses and any organisation that parse_args lets through.
THEOREM TypeCorrect == Spec => []TypeOK
<1>1. Init => Counters
  BY CacheAssumption DEF Init, Counters, NoStats
<1>2. IInv /\ Counters => TypeOK
  <2> SUFFICES ASSUME IInv, Counters PROVE TypeOK
    OBVIOUS
  <2>1. params \in Organisations
    BY DEF IInv, Shape
  <2>2. \A i \in Indices, b \in Slots : sets[i][b] \in Blocks(TagValues)
    BY DEF IInv, Shape
  <2>3. \A i \in Indices, b \in Slots :
          sets[i][b] \in Block /\ sets[i][b].tag < 2^(AddrBits - IBits - OBits)
    BY <2>1, <2>2, TagFits DEF Blocks, Block, TagBits
  <2>4. sets \in [Indices -> [Slots -> Block]]
    BY <2>3 DEF IInv, Shape
  <2> QED BY <2>1, <2>3, <2>4 DEF TypeOK, Counters
<1>3. Spec => [](IInv /\ Counters)
  <2>1. Init => IInv /\ Counters
    BY <1>1, InitInv
  <2>2. (IInv /\ Counters) /\ [Next]_cvars => (IInv /\ Counters)'
    BY NextInv, NextCounters
  <2> QED BY <2>1, <2>2, PTL DEF Spec
<1> QED BY <1>2, <1>3, PTL
-----------------------------------------------------------------------------
(* Sortings of a set of blocks by their stamps.                             *)

Numbered(V, age) == IsFiniteSet(V) /\ \A v \in V : age[v] \in Nat

\* A sorting has every block of the set, and has it once.
LEMMA SortsOnto ==
  ASSUME NEW V, NEW age, NEW q, Numbered(V, age), Sorts(q, V, age)
  PROVE  /\ Cardinality(V) \in Nat
         /\ \A m, n \in 1 .. Cardinality(V) : q[m] = q[n] => m = n
         /\ \A v \in V : \E n \in 1 .. Cardinality(V) : q[n] = v
<1> DEFINE N == Cardinality(V)
<1>1. N \in Nat
  BY FS_CardinalityType DEF Numbered
<1>2. q \in [1 .. N -> V]
  BY DEF Sorts
<1>3. \A m, n \in 1 .. N : m < n => age[q[m]] < age[q[n]]
  BY DEF Sorts
<1>4. IsFiniteSet(V) /\ \A v \in V : age[v] \in Nat
  BY DEF Numbered
<1> HIDE DEF N
<1>5. \A m, n \in 1 .. N : q[m] = q[n] => m = n
  <2>1. SUFFICES ASSUME NEW m \in 1 .. N, NEW n \in 1 .. N, q[m] = q[n] PROVE m = n
    OBVIOUS
  <2>2. age[q[m]] \in Nat
    BY <1>2, <1>4
  <2>3. ~(m < n) /\ ~(n < m)
    BY <1>3, <2>1, <2>2
  <2> QED BY <1>1, <2>3
<1>6. q \in Surjection(1 .. N, V)
  <2>1. q \in Injection(1 .. N, V)
    BY <1>2, <1>5, Fun_IsInj
  <2>2. Cardinality(1 .. N) = Cardinality(V)
    BY <1>1, FS_Interval DEF N
  <2> QED BY <1>4, <2>1, <2>2, FS_Injection
<1>7. \A v \in V : \E n \in 1 .. N : q[n] = v
  BY <1>6 DEF Surjection
<1> QED BY <1>1, <1>5, <1>7 DEF N

\* There is only one.
LEMMA OneSorting ==
  ASSUME NEW V, NEW age, NEW q, Numbered(V, age), Sorts(q, V, age)
  PROVE  Sorted(V, age) = q
<1> DEFINE N == Cardinality(V)
<1>1. SUFFICES ASSUME NEW p, Sorts(p, V, age) PROVE p = q
  <2>1. q \in [1 .. Cardinality(V) -> V]
    BY DEF Sorts
  <2>2. Sorts(Sorted(V, age), V, age)
    BY <2>1, Zenon DEF Sorted
  <2> QED BY <2>2, <1>1
<1>2. /\ p \in [1 .. N -> V] /\ q \in [1 .. N -> V]
      /\ \A m, n \in 1 .. N : m < n => age[p[m]] < age[p[n]]
      /\ \A m, n \in 1 .. N : m < n => age[q[m]] < age[q[n]]
      /\ \A v \in V : age[v] \in Nat
  BY <1>1 DEF Sorts, Numbered
<1>3. /\ \A m, n \in 1 .. N : p[m] = p[n] => m = n
      /\ \A v \in V : \E n \in 1 .. N : p[n] = v
  BY <1>1, SortsOnto DEF N
<1>4. /\ N \in Nat
      /\ \A m, n \in 1 .. N : q[m] = q[n] => m = n
      /\ \A v \in V : \E n \in 1 .. N : q[n] = v
  BY SortsOnto DEF N
<1> HIDE DEF N
<1> DEFINE D == {n \in 1 .. N : p[n] # q[n]}
<1>5. SUFFICES ASSUME D # {} PROVE FALSE
  <2>1. SUFFICES ASSUME D = {} PROVE p = q
    OBVIOUS
  <2>2. \A n \in 1 .. N : p[n] = q[n]
    BY <2>1
  <2>3. p = [n \in 1 .. N |-> p[n]] /\ q = [n \in 1 .. N |-> q[n]]
    BY <1>2
  <2>4. [n \in 1 .. N |-> p[n]] = [n \in 1 .. N |-> q[n]]
    BY <2>2
  <2> QED BY <2>3, <2>4
<1>6. PICK k \in D : \A n \in D : k <= n
  <2>1. D \subseteq Nat
    OBVIOUS
  <2> HIDE DEF D
  <2> QED BY <1>5, <2>1, LeastNumber
<1>7. k \in 1 .. N /\ p[k] # q[k] /\ \A n \in 1 .. N : n < k => p[n] = q[n]
  BY <1>6
<1>8. PICK m \in 1 .. N : q[m] = p[k]
  BY <1>2, <1>4, <1>7
<1>9. PICK n \in 1 .. N : p[n] = q[k]
  BY <1>2, <1>3, <1>7
<1>10. m > k
  BY <1>3, <1>7, <1>8
<1>11. n > k
  BY <1>4, <1>7, <1>9
<1>12. age[q[k]] < age[p[k]] /\ age[p[k]] < age[q[k]]
  BY <1>2, <1>7, <1>8, <1>9, <1>10, <1>11
<1>13. age[q[k]] \in Nat /\ age[p[k]] \in Nat
  BY <1>2, <1>7
<1> QED BY <1>12, <1>13

\* A block that is younger than all others comes last.
Youngest(b, V, age, age2) ==
  /\ b \notin V /\ age2[b] \in Nat
  /\ \A v \in V : age2[v] = age[v] /\ age[v] < age2[b]
LEMMA SortsAppend ==
  ASSUME NEW V, NEW age, NEW age2, NEW q, NEW b,
         Numbered(V, age), Sorts(q, V, age), Youngest(b, V, age, age2)
  PROVE  /\ Cardinality(V \cup {b}) = Cardinality(V) + 1
         /\ Numbered(V \cup {b}, age2)
         /\ Sorts([n \in 1 .. Cardinality(V) + 1 |-> IF n <= Cardinality(V) THEN q[n] ELSE b],
                  V \cup {b}, age2)
<1> DEFINE N == Cardinality(V)
           r == [n \in 1 .. N + 1 |-> IF n <= N THEN q[n] ELSE b]
<1>1. N \in Nat /\ IsFiniteSet(V)
  BY FS_CardinalityType DEF Numbered
<1>2. Cardinality(V \cup {b}) = N + 1
  BY <1>1, FS_AddElement DEF Youngest
<1>3. /\ q \in [1 .. N -> V]
      /\ \A m, n \in 1 .. N : m < n => age[q[m]] < age[q[n]]
  BY DEF Sorts
<1>4. \A v \in V : age2[v] = age[v] /\ age[v] < age2[b]
  BY DEF Youngest
<1> HIDE DEF N
<1>5. r \in [1 .. N + 1 -> V \cup {b}]
  BY <1>1, <1>3
<1>6. ASSUME NEW m \in 1 .. N + 1, NEW n \in 1 .. N + 1, m < n
      PROVE  age2[r[m]] < age2[r[n]]
  <2>1. m \in 1 .. N /\ r[m] = q[m] /\ q[m] \in V
    BY <1>1, <1>3, <1>6
  <2>2. CASE n \in 1 .. N
    <3>1. r[n] = q[n] /\ q[n] \in V
      BY <1>3, <2>2
    <3>2. age[q[m]] < age[q[n]]
      BY <1>3, <1>6, <2>1, <2>2
    <3> HIDE DEF r
    <3> QED BY <1>4, <2>1, <3>1, <3>2
  <2>3. CASE n = N + 1
    <3>1. r[n] = b
      BY <1>1, <2>3
    <3> HIDE DEF r
    <3> QED BY <1>4, <2>1, <3>1
  <2> QED BY <1>1, <2>2, <2>3
<1> HIDE DEF r
<1>7. Sorts(r, V \cup {b}, age2)
  BY <1>2, <1>5, <1>6 DEF Sorts
<1>8. Numbered(V \cup {b}, age2)
  BY <1>1, <1>4, FS_AddElement DEF Numbered, Youngest
<1> QED BY <1>2, <1>7, <1>8 DEF r, N

\* Without one of its blocks it is still a sorting.
LEMMA SortsWithout ==
  ASSUME NEW V, NEW age, NEW q, Numbered(V, age), Sorts(q, V, age),
         NEW k \in 1 .. Cardinality(V)
  PROVE  /\ Cardinality(V \ {q[k]}) = Cardinality(V) - 1
         /\ Numbered(V \ {q[k]}, age)
         /\ Sorts([n \in 1 .. Cardinality(V) - 1 |-> IF n < k THEN q[n] ELSE q[n + 1]],
                  V \ {q[k]}, age)
<1> DEFINE N == Cardinality(V)
           W == V \ {q[k]}
           r == [n \in 1 .. N - 1 |-> IF n < k THEN q[n] ELSE q[n + 1]]
<1>1. N \in Nat /\ \A m, n \in 1 .. N : q[m] = q[n] => m = n
  BY SortsOnto, Zenon
<1>2. /\ q \in [1 .. N -> V]
      /\ \A m, n \in 1 .. N : m < n => age[q[m]] < age[q[n]]
  BY DEF Sorts
<1>3. IsFiniteSet(W) /\ Cardinality(W) = N - 1
  BY <1>2, FS_RemoveElement DEF Numbered
<1>4. Numbered(W, age)
  BY <1>3 DEF Numbered
<1> HIDE DEF N
<1>5. ASSUME NEW n \in 1 .. N - 1
      PROVE  \E j \in 1 .. N : j = (IF n < k THEN n ELSE n + 1) /\ j # k /\ r[n] = q[j]
  BY <1>1 DEF N
<1>6. r \in [1 .. N - 1 -> W]
  <2>1. \A n \in 1 .. N - 1 : r[n] \in W
    <3> HIDE DEF r
    <3>1. k \in 1 .. N
      BY DEF N
    <3> QED BY <1>1, <1>2, <1>5, <3>1
  <2> QED BY <2>1
<1>7. ASSUME NEW m \in 1 .. N - 1, NEW n \in 1 .. N - 1, m < n
      PROVE  age[r[m]] < age[r[n]]
  <2>1. PICK j \in 1 .. N : j = (IF m < k THEN m ELSE m + 1) /\ r[m] = q[j]
    BY <1>5
  <2>2. PICK l \in 1 .. N : l = (IF n < k THEN n ELSE n + 1) /\ r[n] = q[l]
    BY <1>5
  <2>3. j < l
    BY <1>7, <2>1, <2>2 DEF N
  <2> HIDE DEF r
  <2> QED BY <1>2, <2>1, <2>2, <2>3
<1> HIDE DEF r, W
<1>8. Sorts(r, W, age)
  BY <1>3, <1>6, <1>7 DEF Sorts
<1> QED BY <1>3, <1>4, <1>8 DEF r, W, N

\* A block comes behind the others.
LEMMA AppendIs ==
  ASSUME NEW S, NEW s \in Seq(S), NEW m \in S
  PROVE  Append(s, m) = [n \in 1 .. Len(s) + 1 |-> IF n <= Len(s) THEN s[n] ELSE m]
<1>1. /\ Append(s, m) \in Seq(S) /\ Len(Append(s, m)) = Len(s) + 1
      /\ \A n \in 1 .. Len(s) : Append(s, m)[n] = s[n]
      /\ Append(s, m)[Len(s) + 1] = m
  BY AppendProperties
<1>2. Append(s, m) = [n \in 1 .. Len(s) + 1 |-> Append(s, m)[n]]
  <2> DEFINE r == Append(s, m)
  <2> HIDE DEF r
  <2>1. r \in Seq(S) /\ Len(r) = Len(s) + 1
    BY <1>1 DEF r
  <2>2. r = [n \in 1 .. Len(s) + 1 |-> r[n]]
    BY <2>1
  <2> QED BY <2>2 DEF r
<1>3. \A n \in 1 .. Len(s) + 1 : Append(s, m)[n] = IF n <= Len(s) THEN s[n] ELSE m
  <2>1. Len(s) \in Nat
    OBVIOUS
  <2> QED BY <1>1, <2>1
<1> QED BY <1>2, <1>3

\* What becomes of a queue of N blocks when m comes last and the rest moves up to
\* the place k that gets free
MovedUp(s, k, N, m) ==
  [n \in 1 .. N |-> IF n < k THEN s[n] ELSE IF n < N THEN s[n + 1] ELSE m]

\* It is what taking a block out and appending one gives.
LEMMA MovedLast ==
  ASSUME NEW N \in Nat, NEW S, NEW s \in [1 .. N -> S], NEW k \in 1 .. N, NEW m \in S
  PROVE  Append(SubSeq(s, 1, k - 1) \o SubSeq(s, k + 1, Len(s)), m) = MovedUp(s, k, N, m)
<1>1. s \in Seq(S) /\ Len(s) = N
  OBVIOUS
<1> DEFINE a == SubSeq(s, 1, k - 1)
           b == SubSeq(s, k + 1, N)
<1>2. /\ a \in Seq(S) /\ Len(a) = k - 1 /\ \A n \in 1 .. k - 1 : a[n] = s[n]
  <2>1. 1 \in 1 .. N + 1 /\ k - 1 \in 0 .. N
    OBVIOUS
  <2> QED BY <1>1, <2>1, SubSeqProperties
<1>3. /\ b \in Seq(S) /\ Len(b) = N - k /\ \A n \in 1 .. N - k : b[n] = s[n + k]
  <2>1. k + 1 \in 1 .. N + 1 /\ N \in k .. N
    OBVIOUS
  <2> QED BY <1>1, <2>1, SubSeqProperties
<1> HIDE DEF a, b
<1> DEFINE c == a \o b
<1>4. /\ c \in Seq(S) /\ Len(c) = N - 1
      /\ \A n \in 1 .. N - 1 : c[n] = IF n < k THEN s[n] ELSE s[n + 1]
  <2>1. /\ c \in Seq(S) /\ Len(c) = Len(a) + Len(b)
        /\ \A n \in 1 .. Len(a) + Len(b) : c[n] = IF n <= Len(a) THEN a[n] ELSE b[n - Len(a)]
    BY <1>2, <1>3, ConcatProperties
  <2> HIDE DEF c
  <2>2. Len(c) = N - 1 /\ Len(a) + Len(b) = N - 1
    BY <1>2, <1>3, <2>1
  <2>3. ASSUME NEW n \in 1 .. N - 1 PROVE c[n] = IF n < k THEN s[n] ELSE s[n + 1]
    <3>1. CASE n < k
      <4>1. n \in 1 .. k - 1 /\ n <= Len(a)
        BY <1>2, <3>1
      <4>2. c[n] = a[n]
        BY <2>1, <2>2, <4>1
      <4> QED BY <1>2, <3>1, <4>1, <4>2
    <3>2. CASE n >= k
      <4>1. c[n] = b[n - (k - 1)] /\ n - (k - 1) \in 1 .. N - k
        BY SMTT(30), <1>2, <2>1, <2>2, <3>2
      <4>2. (n - (k - 1)) + k = n + 1
        OBVIOUS
      <4> QED BY <1>3, <3>2, <4>1, <4>2
    <3> QED BY <3>1, <3>2
  <2> QED BY <2>1, <2>2, <2>3
<1> HIDE DEF c
<1>5. Append(c, m) = [n \in 1 .. N |-> IF n < k THEN s[n] ELSE IF n < N THEN s[n + 1] ELSE m]
  <2>1. Append(c, m) = [n \in 1 .. N |-> Append(c, m)[n]]
    BY <1>4, AppendIs
  <2>2. ASSUME NEW n \in 1 .. N
        PROVE  Append(c, m)[n] = IF n < k THEN s[n] ELSE IF n < N THEN s[n + 1] ELSE m
    <3>1. Append(c, m)[n] = IF n <= N - 1 THEN c[n] ELSE m
      BY <1>4, AppendIs
    <3>2. n <= N - 1 => n \in 1 .. N - 1
      OBVIOUS
    <3> QED BY <1>4, <3>1, <3>2
  <2>3. [n \in 1 .. N |-> Append(c, m)[n]]
          = [n \in 1 .. N |-> IF n < k THEN s[n] ELSE IF n < N THEN s[n + 1] ELSE m]
    BY <2>2
  <2> QED BY <2>1, <2>3, Zenon
<1> QED BY <1>1, <1>5 DEF a, b, c, MovedUp

\* The tail of a queue is the queue without its first block.
LEMMA TailMoves ==
  ASSUME NEW S, NEW s \in Seq(S), s # <<>>, NEW m \in S
  PROVE  Append(Tail(s), m) = MovedUp(s, 1, Len(s), m)
<1>1. /\ Tail(s) \in Seq(S) /\ Len(Tail(s)) = Len(s) - 1
      /\ \A n \in 1 .. Len(s) - 1 : Tail(s)[n] = s[n + 1]
  BY HeadTailProperties
<1>2. Len(s) \in Nat
  OBVIOUS
<1>3. Append(Tail(s), m)
        = [n \in 1 .. (Len(s) - 1) + 1 |-> IF n <= Len(s) - 1 THEN Tail(s)[n] ELSE m]
  <2> DEFINE t == Tail(s)
  <2>1. t \in Seq(S) /\ Len(t) = Len(s) - 1
    BY <1>1
  <2> HIDE DEF t
  <2>2. Append(t, m) = [n \in 1 .. Len(t) + 1 |-> IF n <= Len(t) THEN t[n] ELSE m]
    BY <2>1, AppendIs
  <2> QED BY <2>1, <2>2, Zenon DEF t
<1>4. (Len(s) - 1) + 1 = Len(s)
  BY <1>2
<1>5. \A n \in 1 .. Len(s) : (IF n <= Len(s) - 1 THEN Tail(s)[n] ELSE m)
          = (IF n < 1 THEN s[n] ELSE IF n < Len(s) THEN s[n + 1] ELSE m)
  BY <1>1, <1>2
<1> QED BY <1>3, <1>4, <1>5 DEF MovedUp

-----------------------------------------------------------------------------
(* Addresses, and the memory blocks that the tags stand for.                *)

\* A factor keeps an order.
LEMMA TimesKeeps ==
  ASSUME NEW n \in Nat, NEW x \in Int, NEW y \in Int, x <= y
  PROVE  n * x <= n * y
OBVIOUS

\* Quotient and remainder
LEMMA Division ==
  ASSUME NEW k \in Nat, NEW n \in Nat \ {0}
  PROVE  k \div n \in Nat /\ k % n \in 0 .. n - 1 /\ k = n * (k \div n) + (k % n)
<1>1. PICK d \in Int, m \in 0 .. n - 1 : d = k \div n /\ m = k % n /\ k = n * d + m
  OBVIOUS
<1>2. d \in Nat
  <2>1. SUFFICES ASSUME d <= -1 PROVE FALSE
    OBVIOUS
  <2>2. n * d <= n * (-1)
    BY <2>1, TimesKeeps
  <2>3. n * (-1) = -n
    OBVIOUS
  <2> QED BY <1>1, <2>2, <2>3
<1> QED BY <1>1, <1>2

\* which are the only ones.
LEMMA DivisionOnly ==
  ASSUME NEW w \in Nat, NEW x1 \in 0 .. w - 1, NEW x2 \in 0 .. w - 1,
         NEW y1 \in Int, NEW y2 \in Int, w * y1 + x1 = w * y2 + x2
  PROVE  x1 = x2 /\ y1 = y2
<1>1. ASSUME NEW a \in Int, NEW b \in Int, a < b PROVE w * a + w <= w * b
  <2>1. w * (a + 1) <= w * b
    BY <1>1, TimesKeeps
  <2> QED BY <2>1
<1>2. w * y1 \in Int /\ w * y2 \in Int
  OBVIOUS
<1>3. ~(y1 < y2) /\ ~(y2 < y1)
  BY <1>1, <1>2
<1> QED BY <1>3

\* main cuts an address into tag, index and offset and loses nothing: the number
\* of the memory block can be had from tag and index (main.c:24-26).
LEMMA AddressSplit ==
  ASSUME params \in Organisations, NEW adr \in Addresses
  PROVE  /\ adr \div params.bytes \in Nat
         /\ (adr \div params.bytes) % params.sets = Index(adr)
         /\ Index(adr) \in Indices /\ Tag(adr) \in Nat
         /\ adr \div params.bytes = params.sets * Tag(adr) + Index(adr)
<1>1. PICK B \in Nat \ {0}, S \in Nat \ {0} :
        B = params.bytes /\ S = params.sets /\ B = 2^OBits /\ S = 2^IBits
  BY OrganisationType
<1>0. adr \in Nat
  BY AddressType
<1>2. PICK m \in Nat, r \in 0 .. B - 1 : m = adr \div B /\ adr = B * m + r
  BY <1>0, Division
<1>3. PICK t \in Nat, i \in 0 .. S - 1 : t = m \div S /\ i = m % S /\ m = S * t + i
  BY Division
<1>4. Index(adr) = i /\ i \in Indices
  BY <1>1, <1>2, <1>3 DEF Index, Bitmask, Indices
<1>5. PICK P \in Nat \ {0} : P = 2^(IBits + OBits) /\ P = S * B
  <2>1. IBits \in Nat /\ OBits \in Nat
    BY BitsFit
  <2>2. 2^(IBits + OBits) = S * B
    BY <1>1, <2>1, PowerSum
  <2>3. S * B \in Nat \ {0}
    OBVIOUS
  <2> QED BY <2>2, <2>3
<1>6. adr = P * t + (B * i + r) /\ B * i + r \in 0 .. P - 1
  <2>1. adr = B * (S * t + i) + r
    BY <1>2, <1>3
  <2>2. B * (S * t + i) = (S * B) * t + B * i
    OBVIOUS
  <2>3. B * i <= B * (S - 1)
    BY TimesKeeps
  <2>4. B * (S - 1) = S * B - B
    OBVIOUS
  <2>5. B * i \in Nat
    OBVIOUS
  <2>6. PICK x \in Int, y \in Nat, z \in Int : x = (S * B) * t /\ y = B * i /\ z = S * B
    BY <2>5
  <2>7. adr = x + (y + r) /\ y <= z - B /\ P = z /\ P * t = x
    BY <1>5, <2>1, <2>2, <2>3, <2>4, <2>6
  <2> HIDE <1>5, <2>6
  <2>8. adr = x + (y + r) /\ y + r \in 0 .. z - 1
    BY <2>7
  <2> QED BY <2>6, <2>7, <2>8
<1>7. adr \div P = t
  <2>1. PICK d \in Nat, s \in 0 .. P - 1 : d = adr \div P /\ adr = P * d + s
    BY ZenonT(30), <1>0, Division
  <2>2. d = t
    BY <1>6, <2>1, DivisionOnly
  <2> QED BY <2>1, <2>2
<1>8. PICK T \in Nat \ {0} : T = 2^TagBits /\ 2^AddrBits = P * T
  <2>1. TagBits \in Nat /\ IBits \in Nat /\ OBits \in Nat /\ AddrBits \in Nat
    BY BitsFit, CacheAssumption DEF CacheAssumption
  <2>2. AddrBits = (IBits + OBits) + TagBits
    BY <2>1 DEF TagBits
  <2>3. 2^AddrBits = P * 2^TagBits
    <3>1. IBits + OBits \in Nat
      BY <2>1
    <3>2. 2^((IBits + OBits) + TagBits) = 2^(IBits + OBits) * 2^TagBits
      BY <2>1, <3>1, PowerSum
    <3> QED BY <1>5, <2>2, <3>2
  <2> QED BY <2>1, <2>3, PowerPositive
<1>9. t < T
  <2>1. SUFFICES ASSUME T <= t PROVE FALSE
    OBVIOUS
  <2>2. P * T <= P * t
    BY <2>1, TimesKeeps
  <2>3. adr < P * T
    <3>1. adr \in 0 .. 2^AddrBits - 1
      BY CacheAssumption DEF CacheAssumption
    <3>2. P * T \in Nat
      OBVIOUS
    <3> QED BY <1>8, <3>1, <3>2
  <2>4. P * T \in Int /\ P * t \in Int
    OBVIOUS
  <2> QED BY <1>6, <2>2, <2>3, <2>4
<1>10. Tag(adr) = t
  <2>1. Tag(adr) = (adr \div P) % T
    BY <1>5, <1>8 DEF Tag, Bitmask, TagBits
  <2>2. t % T = t
    BY <1>9
  <2> QED BY <1>7, <2>1, <2>2
<1> QED BY <1>1, <1>2, <1>3, <1>4, <1>10

-----------------------------------------------------------------------------
(* The queue of a set, and what a line does to it.                          *)

\* Each set has its blocks in some order of their stamps.
Sortable == \A i \in Indices : \E q : Sorts(q, Valid(i), Ages(i))
RInv == IInv /\ Sortable

\* A set has finitely many blocks, each with a stamp.
LEMMA BlocksNumbered ==
  ASSUME Shape, NEW i \in Indices
  PROVE  Numbered(Valid(i), Ages(i))
<1>1. IsFiniteSet(Slots)
  <2>1. 1 \in Int /\ params.blocks \in Int
    BY OrganisationType DEF Shape
  <2> QED BY <2>1, FS_Interval DEF Slots
<1>2. IsFiniteSet(Valid(i))
  BY <1>1, FS_Subset DEF Valid
<1>3. \A b \in Slots : Ages(i)[b] \in Nat
  BY StampType DEF Ages
<1> QED BY <1>2, <1>3 DEF Numbered, Valid

\* No memory block is held twice, in one set or in two.
LEMMA HeldOnce ==
  ASSUME IInv, NEW i \in Indices, NEW j \in Indices,
         NEW b \in Valid(i), NEW c \in Valid(j), Held(i, b) = Held(j, c)
  PROVE  i = j /\ b = c
<1>1. PICK t \in Nat, u \in Nat : t = sets[i][b].tag /\ u = sets[j][c].tag
  BY TagFits DEF IInv, Shape, Valid, Blocks
<1>2. PICK S \in Nat \ {0} : S = params.sets
  BY OrganisationType DEF IInv, Shape
<1>3. i \in 0 .. S - 1 /\ j \in 0 .. S - 1
  BY <1>2 DEF Indices
<1>4. S * t + i = S * u + j
  <2>1. t * S + i = u * S + j
    BY <1>1, <1>2 DEF Held
  <2>2. t * S = S * t /\ u * S = S * u
    OBVIOUS
  <2> QED BY <2>1, <2>2
<1>5. i = j /\ t = u
  <2>1. t \in Int /\ u \in Int /\ S \in Nat
    OBVIOUS
  <2> QED BY <1>3, <1>4, <2>1, DivisionOnly
<1> QED BY <1>1, <1>5 DEF IInv, UniqueTags, Valid

\* is_hit finds the copy of the memory block that is asked for.
LEMMA HitsHeld ==
  ASSUME IInv, NEW adr \in Addresses, NEW b \in Slots
  PROVE  b \in Hits(adr) <=>
           b \in Valid(Index(adr)) /\ Held(Index(adr), b) = adr \div params.bytes
<1>1. /\ Index(adr) \in Indices /\ Tag(adr) \in Nat
      /\ adr \div params.bytes = params.sets * Tag(adr) + Index(adr)
  BY AddressSplit DEF IInv, Shape
<1>2. PICK t \in Nat, u \in Nat, S \in Nat \ {0} :
        t = sets[Index(adr)][b].tag /\ u = Tag(adr) /\ S = params.sets
  <2>1. sets[Index(adr)][b].tag \in Nat
    BY <1>1, TagFits DEF IInv, Shape, Blocks
  <2>2. params.sets \in Nat \ {0}
    BY OrganisationType DEF IInv, Shape
  <2> QED BY <1>1, <2>1, <2>2
<1>3. PICK i \in 0 .. S - 1 : i = Index(adr)
  BY <1>1, <1>2 DEF Indices
<1>4. t * S + i = S * u + i <=> t = u
  <2>1. SUFFICES ASSUME t * S + i = S * u + i PROVE t = u
    OBVIOUS
  <2>2. S * t + i = S * u + i
    <3>1. t * S = S * t
      OBVIOUS
    <3> QED BY <2>1, <3>1
  <2>3. t \in Int /\ u \in Int /\ S \in Nat
    OBVIOUS
  <2> QED BY <2>2, <2>3, DivisionOnly
<1> QED BY <1>1, <1>2, <1>3, <1>4 DEF Hits, Valid, Held

\* The memory blocks that the blocks of a set s stand for, in the order q
Copies(q, V, s, n, i) == [k \in 1 .. Cardinality(V) |-> s[q[k]].tag * n + i]

\* A queue is had from any sorting, before a line
LEMMA QueueIs ==
  ASSUME Shape, NEW i \in Indices, NEW q, Sorts(q, Valid(i), Ages(i))
  PROVE  Queue(i) = Copies(q, Valid(i), sets[i], params.sets, i)
<1>1. Sorted(Valid(i), Ages(i)) = q
  BY BlocksNumbered, OneSorting
<1> QED BY <1>1, Zenon DEF Queue, Held, Copies

\* and after it.
LEMMA QueueNext ==
  ASSUME NEW i, NEW q, Numbered(Valid(i)', Ages(i)'), Sorts(q, Valid(i)', Ages(i)')
  PROVE  Queue(i)' = Copies(q, Valid(i)', sets'[i], params'.sets, i)
<1>1. Sorted(Valid(i)', Ages(i)') = q
  BY OneSorting
<1> QED BY <1>1, Zenon DEF Queue, Held, Copies

\* The queue of a set that a line leaves alone stays as it is.
LEMMA SameSet ==
  ASSUME params' = params, NEW i \in Indices, sets'[i] = sets[i]
  PROVE  Valid(i)' = Valid(i) /\ Ages(i)' = Ages(i) /\ Queue(i)' = Queue(i)
<1>1. Slots' = Slots /\ \A b : Stamp(sets[i][b])' = Stamp(sets[i][b])
  BY DEF Slots, Stamp
<1>2. Valid(i)' = Valid(i) /\ Ages(i)' = Ages(i)
  BY <1>1 DEF Valid, Ages
<1>3. \A b : Held(i, b)' = Held(i, b)
  BY DEF Held
<1> QED BY <1>2, <1>3 DEF Queue, Held

\* One block of one set is written.
Written(i, v, new) == sets' = [sets EXCEPT ![i][v] = new]
Aged(i, v, new) == [b \in Slots |-> IF b = v THEN Stamp(new) ELSE Ages(i)[b]]
LEMMA OneBlock ==
  ASSUME Shape, params' = params, NEW i \in Indices, NEW v \in Slots, NEW new, new.valid,
         Written(i, v, new)
  PROVE  /\ Valid(i)' = Valid(i) \cup {v}
         /\ Ages(i)' = Aged(i, v, new)
         /\ \A j \in Indices \ {i} : sets'[j] = sets[j]
         /\ \A b \in Slots \ {v} : sets'[i][b] = sets[i][b]
         /\ sets'[i][v] = new
<1>1. /\ \A j \in Indices \ {i} : sets'[j] = sets[j]
      /\ \A b \in Slots \ {v} : sets'[i][b] = sets[i][b]
      /\ sets'[i][v] = new
  BY DEF Shape, Written
<1>2. Slots' = Slots
  BY DEF Slots
<1>3. Valid(i)' = Valid(i) \cup {v}
  BY <1>1, <1>2 DEF Valid
<1>4. Ages(i)' = Aged(i, v, new)
  BY <1>1, <1>2 DEF Ages, Stamp, Aged
<1> QED BY <1>1, <1>3, <1>4

\* The places of a queue, for a sorting q of the blocks of a set.
LEMMA QueuePlaces ==
  ASSUME IInv, NEW i \in Indices, NEW q, Sorts(q, Valid(i), Ages(i))
  PROVE  LET N == Cardinality(Valid(i))
         IN  /\ N \in Nat /\ Len(Queue(i)) = N /\ Queue(i) \in [1 .. N -> Nat]
             /\ q \in [1 .. N -> Valid(i)]
             /\ \A n \in 1 .. N : Queue(i)[n] = Held(i, q[n])
             /\ \A m, n \in 1 .. N : q[m] = q[n] => m = n
             /\ \A m, n \in 1 .. N : Queue(i)[m] = Queue(i)[n] => m = n
             /\ \A b \in Valid(i) : \E n \in 1 .. N : q[n] = b
<1> DEFINE N == Cardinality(Valid(i))
<1>1. Shape
  BY DEF IInv
<1>2. Queue(i) = [n \in 1 .. N |-> Held(i, q[n])]
  BY <1>1, QueueIs DEF Copies, Held
<1>3. /\ N \in Nat
      /\ \A m, n \in 1 .. N : q[m] = q[n] => m = n
      /\ \A b \in Valid(i) : \E n \in 1 .. N : q[n] = b
  BY <1>1, BlocksNumbered, SortsOnto
<1>4. q \in [1 .. N -> Valid(i)]
  BY DEF Sorts
<1>5. \A b \in Valid(i) : Held(i, b) \in Nat
  <2>1. \A b \in Slots : sets[i][b].tag \in Nat
    BY <1>1, TagFits DEF Shape, Blocks
  <2>2. params.sets \in Nat \ {0} /\ i \in Nat
    BY <1>1, OrganisationType DEF Shape, Indices
  <2>3. ASSUME NEW b \in Valid(i) PROVE Held(i, b) \in Nat
    <3>1. PICK t \in Nat, S \in Nat : t = sets[i][b].tag /\ S = params.sets
      BY <2>1, <2>2 DEF Valid
    <3>2. t * S + i \in Nat
      <4>1. PICK u \in Nat : u = t * S
        OBVIOUS
      <4> QED BY <2>2, <4>1
    <3> QED BY <3>1, <3>2 DEF Held
  <2> QED BY <2>3
<1> HIDE DEF N
<1>6. Queue(i) \in [1 .. N -> Nat] /\ \A n \in 1 .. N : Queue(i)[n] = Held(i, q[n])
  BY <1>2, <1>4, <1>5
<1>7. Len(Queue(i)) = N
  BY <1>3, <1>6
<1>8. ASSUME NEW m \in 1 .. N, NEW n \in 1 .. N, Queue(i)[m] = Queue(i)[n] PROVE m = n
  <2>1. q[m] \in Valid(i) /\ q[n] \in Valid(i) /\ Held(i, q[m]) = Held(i, q[n])
    BY <1>4, <1>6, <1>8
  <2>2. q[m] = q[n]
    BY <2>1, HeldOnce
  <2> QED BY <1>3, <2>2
<1> QED BY <1>3, <1>4, <1>6, <1>7, <1>8 DEF N

\* A memory block is in the queue of its set when is_hit finds it.
LEMMA InQueue ==
  ASSUME RInv, NEW adr \in Addresses
  PROVE  adr \div params.bytes \in Policy!ToSet(Queue(Index(adr))) <=> Hits(adr) # {}
<1> DEFINE i == Index(adr)
           m == adr \div params.bytes
           N == Cardinality(Valid(i))
<1>1. i \in Indices
  BY AddressSplit DEF RInv, IInv, Shape
<1>2. PICK q : Sorts(q, Valid(i), Ages(i))
  BY <1>1 DEF RInv, Sortable
<1>3. /\ Queue(i) \in [1 .. N -> Nat]
      /\ q \in [1 .. N -> Valid(i)]
      /\ \A n \in 1 .. N : Queue(i)[n] = Held(i, q[n])
      /\ \A b \in Valid(i) : \E n \in 1 .. N : q[n] = b
  BY <1>1, <1>2, QueuePlaces DEF RInv
<1>4. m \in Policy!ToSet(Queue(i)) <=> \E n \in 1 .. N : Queue(i)[n] = m
  BY <1>3 DEF Policy!ToSet
<1>5. Hits(adr) # {} <=> \E b \in Valid(i) : Held(i, b) = m
  <2>1. \A b \in Slots : b \in Hits(adr) <=> b \in Valid(i) /\ Held(i, b) = m
    BY HitsHeld DEF RInv
  <2>2. Valid(i) \subseteq Slots /\ Hits(adr) \subseteq Slots
    BY DEF Valid, Hits
  <2> HIDE DEF i, m
  <2> QED BY <2>1, <2>2
<1> HIDE DEF i, m, N
<1>6. m \in Policy!ToSet(Queue(i)) <=> Hits(adr) # {}
  BY <1>3, <1>4, <1>5
<1> QED BY <1>6 DEF i, m

\* What a hit leaves of the block that is_hit stamps.
Stamped(i, m, d, v, new) ==
  /\ v \in Valid(i) /\ Held(i, v) = m
  /\ Written(i, v, new)
  /\ sets[i][v] \in Blocks(TagValues)
  /\ new.tag = sets[i][v].tag /\ new.valid
  /\ new.dirty = (d \/ sets[i][v].dirty)
  /\ new.access_ts = ts + 1 /\ new.load_ts = sets[i][v].load_ts
LEMMA TouchBlock ==
  ASSUME IInv, NEW adr \in Addresses, NEW d \in BOOLEAN, ReadLine(adr, TRUE), Touch(adr, d),
         NEW i, i = Index(adr)
  PROVE  /\ params' = params /\ ts' = ts + 1 /\ ts + 1 \in Nat
         /\ \E v, new : Stamped(i, adr \div params.bytes, d, v, new)
<1> DEFINE v == First(Hits(adr))
           old == sets[i][v]
           rec == [old EXCEPT !.access_ts = ts + 1, !.dirty = IF d THEN TRUE ELSE old.dirty]
<1>1. i \in Indices /\ Hits(adr) # {} /\ params' = params /\ ts' = ts + 1 /\ ts + 1 \in Nat
  BY AddressSplit DEF IInv, Shape, ReadLine
<1>2. v \in Hits(adr) /\ Hits(adr) \subseteq Slots
  <2>1. Hits(adr) \subseteq Slots /\ Slots \subseteq Nat
    BY DEF Hits, Slots
  <2> QED BY <1>1, <2>1, FirstIn
<1>3. v \in Valid(i) /\ Held(i, v) = adr \div params.bytes
  BY <1>2, HitsHeld
<1>4. sets' = [sets EXCEPT ![i][v] = rec]
  BY DEF Touch
<1>5. old \in Blocks(TagValues) /\ old.valid
  BY <1>1, <1>3 DEF IInv, Shape, Valid
<1>6. /\ rec.tag = old.tag /\ rec.valid /\ rec.dirty = (d \/ old.dirty)
      /\ rec.access_ts = ts + 1 /\ rec.load_ts = old.load_ts
  <2> HIDE DEF v, old
  <2> QED BY <1>1, <1>5 DEF Blocks
<1>7. Written(i, v, rec)
  BY <1>1, <1>4 DEF Written
<1> HIDE DEF v, rec
<1>8. Stamped(i, adr \div params.bytes, d, v, rec)
  BY <1>1, <1>3, <1>5, <1>6, <1>7 DEF Stamped
<1> QED BY <1>1, <1>8

\* Under lru a block that is used goes to the end of the queue, under fifo it
\* stays where it is (cache.c:119-129).
LEMMA TouchQueue ==
  ASSUME RInv, NEW adr \in Addresses, NEW d \in BOOLEAN, ReadLine(adr, TRUE), Touch(adr, d),
         NEW i \in Indices, i = Index(adr)
  PROVE  /\ Queue(i)' = Policy!Use(Queue(i), adr \div params.bytes)
         /\ \E q : Sorts(q, Valid(i)', Ages(i)')
<1> DEFINE m == adr \div params.bytes
           V == Valid(i)
           N == Cardinality(V)
           s == Queue(i)
           A == Ages(i)
           B == Ages(i)'
           S == params.sets
<1>i. IInv
  BY DEF RInv
<1>0. params' = params /\ ts + 1 \in Nat
  BY <1>i, TouchBlock
<1>1. PICK v, new : Stamped(i, m, d, v, new)
  BY <1>i, TouchBlock
<1>a. /\ v \in V /\ Held(i, v) = m
      /\ Written(i, v, new)
      /\ sets[i][v] \in Blocks(TagValues)
      /\ new.tag = sets[i][v].tag /\ new.valid
      /\ new.access_ts = ts + 1 /\ new.load_ts = sets[i][v].load_ts
  BY <1>1 DEF Stamped
<1>2. Shape /\ V \subseteq Slots /\ v \in Slots
  BY <1>a DEF RInv, IInv, Valid
<1>3. /\ Valid(i)' = V
      /\ B = [b \in Slots |-> IF b = v THEN Stamp(new) ELSE A[b]]
      /\ \A b \in Slots \ {v} : sets'[i][b] = sets[i][b]
      /\ sets'[i][v] = new
  <2>1. /\ Valid(i)' = Valid(i) \cup {v}
        /\ Ages(i)' = Aged(i, v, new)
        /\ \A b \in Slots \ {v} : sets'[i][b] = sets[i][b]
        /\ sets'[i][v] = new
    <3> HIDE DEF m, N, V, s, A, B, S
    <3> QED BY <1>0, <1>a, <1>2, OneBlock
  <2> QED BY <1>a, <2>1 DEF Aged
<1>4. PICK q : Sorts(q, V, A)
  BY <1>a DEF RInv, Sortable
<1>5. /\ N \in Nat /\ Len(s) = N /\ s \in [1 .. N -> Nat]
      /\ q \in [1 .. N -> V]
      /\ \A n \in 1 .. N : s[n] = Held(i, q[n])
      /\ \A l, n \in 1 .. N : q[l] = q[n] => l = n
      /\ \A l, n \in 1 .. N : s[l] = s[n] => l = n
      /\ \A b \in V : \E n \in 1 .. N : q[n] = b
  BY <1>a, <1>4, QueuePlaces DEF RInv
<1>6. PICK k \in 1 .. N : q[k] = v
  BY <1>a, <1>5
<1>7. Policy!Place(s, m) = k /\ s[k] = m
  <2>1. s[k] = m
    BY <1>a, <1>5, <1>6
  <2>2. \A n \in 1 .. N : s[n] = m => n = k
    BY <1>5, <2>1
  <2> HIDE DEF s, m, N
  <2> QED BY <1>5, <2>1, <2>2 DEF Policy!Place
<1>8. Numbered(V, A)
  BY <1>a, <1>2, BlocksNumbered
<1>9. \A b \in V : sets'[i][b].tag = sets[i][b].tag
  BY <1>a, <1>2, <1>3
<1>10. CASE ~params.evict_lru
  <2>1. B = A
    <3>1. Stamp(new) = Stamp(sets[i][v])
      BY <1>a, <1>10 DEF Stamp
    <3>2. A = [b \in Slots |-> Stamp(sets[i][b])]
      BY DEF Ages
    <3>3. \A b \in Slots : (IF b = v THEN Stamp(new) ELSE A[b]) = A[b]
      BY <3>1, <3>2
    <3>4. [b \in Slots |-> IF b = v THEN Stamp(new) ELSE A[b]] = [b \in Slots |-> A[b]]
      BY <3>3
    <3>5. [b \in Slots |-> A[b]] = A
      BY <3>2
    <3> HIDE DEF A, B
    <3> QED BY <1>3, <3>4, <3>5
  <2>2. Sorts(q, Valid(i)', B) /\ Numbered(Valid(i)', B)
    BY <1>3, <1>4, <1>8, <2>1
  <2>3. Queue(i)' = Copies(q, V, sets'[i], S, i)
    BY <1>0, <1>3, <2>2, QueueNext
  <2>4. s = Copies(q, V, sets[i], S, i)
    BY <1>a, <1>2, <1>4, QueueIs
  <2>5. Copies(q, V, sets'[i], S, i) = Copies(q, V, sets[i], S, i)
    <3>1. \A n \in 1 .. N : sets'[i][q[n]].tag * S + i = sets[i][q[n]].tag * S + i
      BY <1>5, <1>9
    <3> QED BY <3>1 DEF Copies
  <2>6. Policy!Use(s, m) = s
    BY <1>10 DEF Policy!Use
  <2> HIDE DEF m, s, V, B
  <2> QED BY <2>2, <2>3, <2>4, <2>5, <2>6 DEF m, s, V, B
<1>11. CASE params.evict_lru
  <2> DEFINE W == V \ {v}
             r == [n \in 1 .. N - 1 |-> IF n < k THEN q[n] ELSE q[n + 1]]
             p == [n \in 1 .. (N - 1) + 1 |-> IF n <= N - 1 THEN r[n] ELSE v]
  <2>1. Cardinality(W) = N - 1 /\ Numbered(W, A) /\ Sorts(r, W, A)
    <3> HIDE DEF V, A
    <3> QED BY <1>4, <1>6, <1>8, SortsWithout
  <2>2. Youngest(v, W, A, B)
    <3>1. A = [b \in Slots |-> sets[i][b].access_ts]
      BY <1>11 DEF Ages, Stamp
    <3>2. B[v] = ts + 1
      BY <1>a, <1>2, <1>3, <1>11 DEF Stamp
    <3>3. ASSUME NEW b \in W PROVE B[b] = A[b] /\ A[b] < ts + 1
      <4>1. B[b] = A[b]
        BY <1>2, <1>3
      <4>2. sets[i][b].access_ts <= ts /\ sets[i][b].access_ts \in Nat /\ ts \in Nat
        BY <1>a, <1>2 DEF RInv, IInv, Shape, Stamps, Valid, Blocks
      <4>3. A[b] = sets[i][b].access_ts
        BY <1>2, <3>1
      <4> HIDE DEF A, B
      <4> QED BY <4>1, <4>2, <4>3
    <3> HIDE DEF A, B
    <3> QED BY <1>0, <3>2, <3>3 DEF Youngest
  <2>3. W \cup {v} = V
    BY <1>a
  <2>4. Numbered(V, B) /\ Sorts(p, V, B)
    <3> HIDE DEF W, A, B, r
    <3>1. /\ Numbered(W \cup {v}, B)
          /\ Sorts([n \in 1 .. Cardinality(W) + 1 |-> IF n <= Cardinality(W) THEN r[n] ELSE v],
                   W \cup {v}, B)
      BY <2>1, <2>2, SortsAppend
    <3> QED BY <2>1, <2>3, <3>1
  <2>5. Queue(i)' = Copies(p, V, sets'[i], S, i)
    <3>1. Numbered(Valid(i)', Ages(i)') /\ Sorts(p, Valid(i)', Ages(i)')
      BY <1>3, <2>4
    <3> HIDE DEF p
    <3> QED BY <1>0, <1>3, <3>1, QueueNext
  <2>6. Policy!Use(s, m)
          = MovedUp(s, k, N, m)
    <3>1. Policy!Use(s, m) = Append(SubSeq(s, 1, k - 1) \o SubSeq(s, k + 1, Len(s)), m)
      BY <1>7, <1>11 DEF Policy!Use, Policy!RemoveAt
    <3>2. m \in Nat
      BY <1>5, <1>7
    <3>3. N \in Nat /\ s \in [1 .. N -> Nat] /\ k \in 1 .. N
      BY <1>5
    <3> HIDE DEF s, m, N
    <3>4. Append(SubSeq(s, 1, k - 1) \o SubSeq(s, k + 1, Len(s)), m)
            = MovedUp(s, k, N, m)
      BY <3>2, <3>3, MovedLast
    <3> QED BY <3>1, <3>4, Zenon
  <2>7. ASSUME NEW n \in 1 .. N
        PROVE  sets'[i][p[n]].tag * S + i = IF n < k THEN s[n] ELSE IF n < N THEN s[n + 1] ELSE m
    <3>1. \A b \in V : sets'[i][b].tag * S + i = Held(i, b)
      BY <1>9 DEF Held
    <3>2. CASE n < k
      <4>1. p[n] = q[n]
        BY <1>5, <3>2
      <4> QED BY <1>5, <3>1, <3>2, <4>1
    <3>3. CASE ~(n < k) /\ n < N
      <4>1. p[n] = q[n + 1] /\ n + 1 \in 1 .. N
        BY <1>5, <3>3
      <4> QED BY <1>5, <3>1, <3>3, <4>1
    <3>4. CASE ~(n < k) /\ ~(n < N)
      <4>1. p[n] = v
        BY <1>5, <3>4
      <4> QED BY <1>a, <3>1, <3>4, <4>1
    <3> QED BY <3>2, <3>3, <3>4
  <2>8. Copies(p, V, sets'[i], S, i) = Policy!Use(s, m)
    BY <2>6, <2>7 DEF Copies, MovedUp
  <2> HIDE DEF m, s, V, B, p
  <2> QED BY <1>3, <2>4, <2>5, <2>8 DEF m, s, V, B
<1> QED BY <1>10, <1>11

\* What a miss puts in place of the block that evict chooses.
Filled(i, m, d, v, new) ==
  /\ v \in Slots
  /\ v \in Valid(i) => Valid(i) = Slots /\ \A x \in Slots : Ages(i)[v] <= Ages(i)[x]
  /\ Written(i, v, new)
  /\ new.tag * params.sets + i = m
  /\ new.valid /\ new.dirty = d /\ new.access_ts = ts + 1 /\ new.load_ts = ts + 1
LEMMA FillBlock ==
  ASSUME IInv, NEW adr \in Addresses, NEW d \in BOOLEAN, NEW keys, NEW c,
         ReadLine(adr, FALSE), HandleWriteBack(adr, d, keys, c), NEW i, i = Index(adr)
  PROVE  /\ params' = params /\ ts' = ts + 1 /\ ts + 1 \in Nat
         /\ \E new : Filled(i, adr \div params.bytes, d, Evict(sets[i]), new)
<1> DEFINE v == Evict(sets[i])
           new == Loaded(adr, d)
<1>1. /\ i \in Indices /\ Shape /\ params' = params /\ ts' = ts + 1 /\ ts + 1 \in Nat
      /\ adr \div params.bytes = params.sets * Tag(adr) + i /\ Tag(adr) \in Nat
  BY AddressSplit DEF IInv, Shape, ReadLine
<1>2. /\ v \in Slots
      /\ sets[i][v].valid =>
           \A x \in Slots : sets[i][x].valid /\ Stamp(sets[i][v]) <= Stamp(sets[i][x])
  BY <1>1, EvictRight
<1>3. v \in Valid(i) => Valid(i) = Slots /\ \A x \in Slots : Ages(i)[v] <= Ages(i)[x]
  <2> HIDE DEF v
  <2> QED BY <1>2 DEF Valid, Ages
<1>4. Written(i, v, new)
  BY DEF HandleWriteBack, Written
<1>5. /\ new.tag = Tag(adr)
      /\ new.valid /\ new.dirty = d /\ new.access_ts = ts + 1 /\ new.load_ts = ts + 1
  BY DEF Loaded
<1>6. new.tag * params.sets + i = adr \div params.bytes
  <2>1. PICK t \in Nat, S \in Nat : t = Tag(adr) /\ S = params.sets
    BY <1>1, OrganisationType DEF Shape
  <2>2. t * S = S * t
    OBVIOUS
  <2> QED BY <1>1, <1>5, <2>1, <2>2
<1> HIDE DEF v, new
<1>7. Filled(i, adr \div params.bytes, d, v, new)
  BY <1>2, <1>3, <1>4, <1>5, <1>6 DEF Filled
<1> QED BY <1>1, <1>7 DEF v

\* A new block comes to the end of the queue, whose head makes room when the set
\* is full (cache.c:132-167).
Loss(i, v) == IF v \in Valid(i) THEN {Held(i, v)} ELSE {}
LEMMA FillQueue ==
  ASSUME RInv, NEW adr \in Addresses, NEW d \in BOOLEAN, NEW keys, NEW c,
         ReadLine(adr, FALSE), HandleWriteBack(adr, d, keys, c),
         NEW i \in Indices, i = Index(adr)
  PROVE  /\ Queue(i)' = Policy!FillIn(Queue(i), adr \div params.bytes)
         /\ \E q : Sorts(q, Valid(i)', Ages(i)')
         /\ Policy!GivenUp(Queue(i)) = Loss(i, Evict(sets[i]))
<1> DEFINE m == adr \div params.bytes
           V == Valid(i)
           N == Cardinality(V)
           s == Queue(i)
           A == Ages(i)
           B == Ages(i)'
           S == params.sets
<1>i. IInv /\ Shape /\ m \in Nat
  BY AddressSplit DEF RInv, IInv, Shape
<1>0. params' = params /\ ts + 1 \in Nat /\ ts \in Nat
  BY <1>i, FillBlock DEF Shape
<1>1. PICK v, new : v = Evict(sets[i]) /\ Filled(i, m, d, v, new)
  BY <1>i, FillBlock
<1>2. /\ v \in Slots
      /\ v \in V => V = Slots /\ \A x \in Slots : A[v] <= A[x]
      /\ Written(i, v, new)
      /\ new.tag * S + i = m
      /\ new.valid /\ new.access_ts = ts + 1 /\ new.load_ts = ts + 1
  BY <1>1 DEF Filled
<1>3. /\ Valid(i)' = V \cup {v}
      /\ B = [b \in Slots |-> IF b = v THEN Stamp(new) ELSE A[b]]
      /\ \A b \in Slots \ {v} : sets'[i][b] = sets[i][b]
      /\ sets'[i][v] = new
  <2>1. /\ Valid(i)' = Valid(i) \cup {v}
        /\ Ages(i)' = Aged(i, v, new)
        /\ \A b \in Slots \ {v} : sets'[i][b] = sets[i][b]
        /\ sets'[i][v] = new
    <3> HIDE DEF m, N, V, s, A, B, S
    <3> QED BY <1>i, <1>0, <1>2, OneBlock
  <2> QED BY <2>1 DEF Aged
<1>4. PICK q : Sorts(q, V, A)
  BY DEF RInv, Sortable
<1>5. /\ N \in Nat /\ Len(s) = N /\ s \in [1 .. N -> Nat]
      /\ q \in [1 .. N -> V]
      /\ \A n \in 1 .. N : s[n] = Held(i, q[n])
      /\ \A l, n \in 1 .. N : q[l] = q[n] => l = n
      /\ \A b \in V : \E n \in 1 .. N : q[n] = b
  BY <1>i, <1>4, QueuePlaces
<1>6. Numbered(V, A) /\ V \subseteq Slots
  BY <1>i, BlocksNumbered DEF Valid
<1>7. Policy!Full(s) <=> v \in V
  <2>1. IsFiniteSet(Slots) /\ Cardinality(Slots) = params.blocks
    <3>1. 1 \in Int /\ params.blocks \in Nat \ {0}
      BY <1>i, OrganisationType DEF Shape
    <3> QED BY <3>1, FS_Interval DEF Slots
  <2>2. N = params.blocks => V = Slots
    BY <1>6, <2>1, FS_Subset
  <2>3. Policy!Full(s) <=> N = params.blocks
    BY <1>5 DEF Policy!Full
  <2> HIDE DEF s
  <2> QED BY <1>2, <2>1, <2>2, <2>3
<1>8. B[v] = ts + 1 /\ \A b \in V \ {v} : B[b] = A[b] /\ A[b] < ts + 1
  <2>1. B[v] = ts + 1
    BY <1>2, <1>3 DEF Stamp
  <2>2. ASSUME NEW b \in V \ {v} PROVE B[b] = A[b] /\ A[b] < ts + 1
    <3>1. b \in Slots /\ B[b] = A[b]
      BY <1>3, <1>6
    <3>2. /\ sets[i][b].load_ts <= sets[i][b].access_ts /\ sets[i][b].access_ts <= ts
          /\ sets[i][b].access_ts \in Nat /\ sets[i][b].load_ts \in Nat
      BY <1>i DEF IInv, Shape, Stamps, Valid, Blocks
    <3>3. A[b] = sets[i][b].access_ts \/ A[b] = sets[i][b].load_ts
      BY <3>1 DEF Ages, Stamp
    <3> HIDE DEF A, B
    <3> QED BY <1>0, <3>1, <3>2, <3>3
  <2> QED BY <2>1, <2>2
<1>9. \A b \in V \ {v} : sets'[i][b].tag * S + i = Held(i, b)
  BY <1>3, <1>6 DEF Held
<1>10. sets'[i][v].tag * S + i = m
  BY <1>2, <1>3
<1>11. CASE v \notin V
  <2> DEFINE p == [n \in 1 .. N + 1 |-> IF n <= N THEN q[n] ELSE v]
  <2>1. /\ Cardinality(V \cup {v}) = N + 1 /\ Numbered(V \cup {v}, B)
        /\ Sorts(p, V \cup {v}, B)
    <3>1. Youngest(v, V, A, B)
      <4> HIDE DEF V, A, B
      <4> QED BY <1>0, <1>8, <1>11 DEF Youngest
    <3> HIDE DEF V, A, B
    <3> QED BY <1>4, <1>6, <3>1, SortsAppend
  <2>2. Queue(i)' = Copies(p, V \cup {v}, sets'[i], S, i)
    <3>1. Numbered(Valid(i)', Ages(i)') /\ Sorts(p, Valid(i)', Ages(i)')
      BY <1>3, <2>1
    <3> HIDE DEF p
    <3> QED BY <1>0, <1>3, <3>1, QueueNext
  <2>3. Policy!FillIn(s, m) = Append(s, m)
    BY <1>7, <1>11 DEF Policy!FillIn
  <2>4. Append(s, m) = [n \in 1 .. N + 1 |-> IF n <= N THEN s[n] ELSE m]
    <3>1. s \in Seq(Nat) /\ Len(s) = N
      BY <1>5
    <3> HIDE DEF s, m, N
    <3>2. Append(s, m) = [n \in 1 .. Len(s) + 1 |-> IF n <= Len(s) THEN s[n] ELSE m]
      BY <1>i, <3>1, AppendIs
    <3> QED BY <3>1, <3>2, Zenon
  <2>5. ASSUME NEW n \in 1 .. N + 1
        PROVE  sets'[i][p[n]].tag * S + i = IF n <= N THEN s[n] ELSE m
    <3>1. CASE n <= N
      <4>1. p[n] = q[n] /\ q[n] \in V \ {v} /\ s[n] = Held(i, q[n])
        BY <1>5, <1>11, <3>1
      <4> QED BY <1>9, <3>1, <4>1
    <3>2. CASE ~(n <= N)
      <4>1. p[n] = v
        BY <1>5, <3>2
      <4> QED BY <1>10, <3>2, <4>1
    <3> QED BY <3>1, <3>2
  <2>6. Copies(p, V \cup {v}, sets'[i], S, i) = Append(s, m)
    <3> HIDE DEF p, s, m, V
    <3> QED BY <2>1, <2>4, <2>5 DEF Copies
  <2>7. Policy!GivenUp(s) = {}
    BY <1>7, <1>11 DEF Policy!GivenUp
  <2>8. Sorts(p, Valid(i)', Ages(i)')
    BY <1>3, <2>1
  <2> HIDE DEF p, s, m, V
  <2> QED BY <1>1, <1>11, <2>2, <2>3, <2>6, <2>7, <2>8 DEF s, m, V, Loss
<1>12. CASE v \in V
  <2>1. PICK k \in 1 .. N : q[k] = v
    BY <1>5, <1>12
  <2>2. k = 1
    <3>1. SUFFICES ASSUME 1 < k PROVE FALSE
      BY <1>5
    <3>2. 1 \in 1 .. N /\ q[1] \in V
      BY <1>5, <3>1
    <3>3. A[q[1]] < A[v]
      BY <1>4, <2>1, <3>1, <3>2 DEF Sorts
    <3>4. A[v] <= A[q[1]]
      BY <1>2, <1>12, <3>2
    <3>5. A[v] \in Nat /\ A[q[1]] \in Nat
      BY <1>6, <1>12, <3>2 DEF Numbered
    <3> HIDE DEF A
    <3> QED BY <3>3, <3>4, <3>5
  <2> DEFINE W == V \ {v}
             r == [n \in 1 .. N - 1 |-> IF n < 1 THEN q[n] ELSE q[n + 1]]
             p == [n \in 1 .. (N - 1) + 1 |-> IF n <= N - 1 THEN r[n] ELSE v]
  <2>3. Cardinality(W) = N - 1 /\ Numbered(W, A) /\ Sorts(r, W, A)
    <3>1. 1 \in 1 .. N /\ q[1] = v
      BY <2>1, <2>2
    <3> HIDE DEF V, A
    <3> QED BY <1>4, <1>6, <3>1, SortsWithout
  <2>4. W \cup {v} = V
    BY <1>12
  <2>5. Numbered(V, B) /\ Sorts(p, V, B)
    <3>1. Youngest(v, W, A, B)
      <4> HIDE DEF V, A, B
      <4> QED BY <1>0, <1>8 DEF Youngest
    <3> HIDE DEF W, A, B, r
    <3>2. /\ Numbered(W \cup {v}, B)
          /\ Sorts([n \in 1 .. Cardinality(W) + 1 |-> IF n <= Cardinality(W) THEN r[n] ELSE v],
                   W \cup {v}, B)
      BY <2>3, <3>1, SortsAppend
    <3> QED BY <2>3, <2>4, <3>2
  <2>6. Valid(i)' = V
    BY <1>3, <2>4
  <2>7. Queue(i)' = Copies(p, V, sets'[i], S, i)
    <3>1. Numbered(Valid(i)', Ages(i)') /\ Sorts(p, Valid(i)', Ages(i)')
      BY <2>5, <2>6
    <3> HIDE DEF p
    <3> QED BY <1>0, <2>6, <3>1, QueueNext
  <2>8. Policy!FillIn(s, m) = MovedUp(s, 1, N, m)
    <3>1. Policy!FillIn(s, m) = Append(Tail(s), m)
      BY <1>7, <1>12 DEF Policy!FillIn
    <3>2. s \in Seq(Nat) /\ Len(s) = N /\ N # 0
      BY <1>5, <2>1
    <3>3. s # <<>>
      BY <3>2
    <3> HIDE DEF s, m, N
    <3>4. Append(Tail(s), m) = MovedUp(s, 1, Len(s), m)
      BY <1>i, <3>2, <3>3, TailMoves
    <3> QED BY <3>1, <3>2, <3>4, Zenon
  <2>9. ASSUME NEW n \in 1 .. N
        PROVE  sets'[i][p[n]].tag * S + i = IF n < 1 THEN s[n] ELSE IF n < N THEN s[n + 1] ELSE m
    <3>1. CASE n < N
      <4>1. p[n] = q[n + 1] /\ n + 1 \in 1 .. N /\ n + 1 # 1
        BY <1>5, <3>1
      <4>2. q[n + 1] \in V \ {v} /\ s[n + 1] = Held(i, q[n + 1])
        BY <1>5, <2>1, <2>2, <4>1
      <4> QED BY <1>9, <3>1, <4>1, <4>2
    <3>2. CASE ~(n < N)
      <4>1. p[n] = v
        BY <1>5, <3>2
      <4> QED BY <1>10, <3>2, <4>1
    <3> QED BY <3>1, <3>2
  <2>10. Copies(p, V, sets'[i], S, i) = Policy!FillIn(s, m)
    BY <2>8, <2>9 DEF Copies, MovedUp
  <2>11. Policy!GivenUp(s) = {Held(i, v)}
    <3>1. Policy!GivenUp(s) = {Head(s)}
      BY <1>7, <1>12 DEF Policy!GivenUp
    <3>2. Head(s) = s[1] /\ s[1] = Held(i, v)
      BY <1>5, <2>1, <2>2
    <3> HIDE DEF s
    <3> QED BY <3>1, <3>2
  <2>12. Sorts(p, Valid(i)', Ages(i)')
    BY <2>5, <2>6
  <2> HIDE DEF p, s, m, V
  <2> QED BY <1>1, <1>12, <2>7, <2>10, <2>11, <2>12 DEF s, m, V, Loss
<1> QED BY <1>11, <1>12

-----------------------------------------------------------------------------
(* What memory has not seen, and what a line costs.                         *)

\* The dirty blocks stand for what is unsaved, before a line
LEMMA UnsavedIs ==
  ASSUME NEW x
  PROVE  x \in Unsaved <=>
           \E j \in Indices : \E b \in Slots :
             sets[j][b].valid /\ sets[j][b].dirty /\ Held(j, b) = x
BY DEF Unsaved, Valid

\* and after it.
LEMMA UnsavedNext ==
  ASSUME NEW x, params' = params
  PROVE  x \in Unsaved' <=>
           \E j \in Indices : \E b \in Slots :
             /\ sets'[j][b].valid /\ sets'[j][b].dirty
             /\ sets'[j][b].tag * params.sets + j = x
<1>1. Indices' = Indices /\ Slots' = Slots
  BY DEF Indices, Slots
<1>2. \A j, b : Held(j, b)' = sets'[j][b].tag * params.sets + j
  BY DEF Held
<1> QED BY <1>1, <1>2 DEF Unsaved, Valid

\* What is unsaved once a block has been written.
LEMMA WrittenUnsaved ==
  ASSUME Shape, params' = params, NEW i \in Indices, NEW v \in Slots, NEW new, new.valid,
         Written(i, v, new), NEW x
  PROVE  x \in Unsaved' <=>
           \/ new.dirty /\ new.tag * params.sets + i = x
           \/ \E j \in Indices : \E b \in Slots :
                /\ ~(j = i /\ b = v)
                /\ sets[j][b].valid /\ sets[j][b].dirty /\ Held(j, b) = x
<1>1. /\ \A j \in Indices : \A b \in Slots : ~(j = i /\ b = v) => sets'[j][b] = sets[j][b]
      /\ sets'[i][v] = new
  BY DEF Shape, Written
<1>2. x \in Unsaved' <=>
        \E j \in Indices : \E b \in Slots :
          /\ sets'[j][b].valid /\ sets'[j][b].dirty
          /\ sets'[j][b].tag * params.sets + j = x
  BY UnsavedNext
<1>3. ASSUME NEW j \in Indices, NEW b \in Slots, ~(j = i /\ b = v)
      PROVE  /\ sets'[j][b].valid = sets[j][b].valid
             /\ sets'[j][b].dirty = sets[j][b].dirty
             /\ sets'[j][b].tag * params.sets + j = Held(j, b)
  BY <1>1, <1>3 DEF Held
<1> QED BY <1>1, <1>2, <1>3

\* A hit loses nothing; a store under write-back is unsaved (cache.c:99-108).
LEMMA TouchUnsaved ==
  ASSUME RInv, NEW adr \in Addresses, NEW d \in BOOLEAN, ReadLine(adr, TRUE), Touch(adr, d),
         NEW i \in Indices, i = Index(adr)
  PROVE  Unsaved' = Unsaved \cup IF d THEN {adr \div params.bytes} ELSE {}
<1> DEFINE m == adr \div params.bytes
<1>1. IInv /\ Shape
  BY DEF RInv, IInv
<1>2. PICK v, new : Stamped(i, m, d, v, new)
  BY <1>1, TouchBlock
<1>3. /\ v \in Slots /\ sets[i][v].valid /\ Held(i, v) = m
      /\ Written(i, v, new) /\ new.valid
      /\ new.dirty = (d \/ sets[i][v].dirty)
      /\ new.tag * params.sets + i = m
  BY <1>2 DEF Stamped, Valid, Held
<1>4. params' = params
  BY DEF ReadLine
<1>5. ASSUME NEW x
      PROVE  x \in Unsaved' <=> x \in Unsaved \/ (d /\ x = m)
  <2>1. x \in Unsaved' <=>
           \/ new.dirty /\ new.tag * params.sets + i = x
           \/ \E j \in Indices : \E b \in Slots :
                /\ ~(j = i /\ b = v)
                /\ sets[j][b].valid /\ sets[j][b].dirty /\ Held(j, b) = x
    BY <1>1, <1>3, <1>4, WrittenUnsaved
  <2>2. x \in Unsaved <=>
           \E j \in Indices : \E b \in Slots :
             sets[j][b].valid /\ sets[j][b].dirty /\ Held(j, b) = x
    BY UnsavedIs
  <2> HIDE DEF m
  <2> QED BY <1>3, <2>1, <2>2
<1> HIDE DEF m
<1> QED BY <1>5 DEF m

\* A miss saves the block it replaces when that is dirty.
LEMMA FillUnsaved ==
  ASSUME RInv, NEW adr \in Addresses, NEW d \in BOOLEAN, NEW keys, NEW c,
         ReadLine(adr, FALSE), HandleWriteBack(adr, d, keys, c),
         NEW i \in Indices, i = Index(adr)
  PROVE  LET v == Evict(sets[i])
             lost == Loss(i, v)
         IN  /\ Unsaved' = (Unsaved \ lost) \cup IF d THEN {adr \div params.bytes} ELSE {}
             /\ sets[i][v].dirty <=> lost \cap Unsaved # {}
<1> DEFINE m == adr \div params.bytes
           lost == Loss(i, Evict(sets[i]))
<1>1. IInv /\ Shape
  BY DEF RInv, IInv
<1>2. PICK v, new : v = Evict(sets[i]) /\ Filled(i, m, d, v, new)
  BY <1>1, FillBlock
<1>3. /\ v \in Slots /\ Written(i, v, new) /\ new.valid /\ new.dirty = d
      /\ new.tag * params.sets + i = m
  BY <1>2 DEF Filled
<1>4. params' = params
  BY DEF ReadLine
<1>5. lost = IF sets[i][v].valid THEN {Held(i, v)} ELSE {}
  BY <1>2, <1>3 DEF Valid, Loss
<1>6. sets[i][v].dirty => sets[i][v].valid
  BY <1>1, <1>3 DEF IInv, Stamps
<1>7. ASSUME NEW j \in Indices, NEW b \in Slots, sets[j][b].valid, Held(j, b) \in lost
      PROVE  j = i /\ b = v
  <2>1. sets[i][v].valid /\ Held(j, b) = Held(i, v)
    BY <1>5, <1>7
  <2>2. b \in Valid(j) /\ v \in Valid(i)
    BY <1>3, <1>7, <2>1 DEF Valid
  <2> QED BY <1>1, <2>1, <2>2, HeldOnce
<1>8. ASSUME NEW x
      PROVE  x \in Unsaved' <=> x \in Unsaved \ lost \/ (d /\ x = m)
  <2>1. x \in Unsaved' <=>
           \/ new.dirty /\ new.tag * params.sets + i = x
           \/ \E j \in Indices : \E b \in Slots :
                /\ ~(j = i /\ b = v)
                /\ sets[j][b].valid /\ sets[j][b].dirty /\ Held(j, b) = x
    BY <1>1, <1>3, <1>4, WrittenUnsaved
  <2>2. x \in Unsaved <=>
           \E j \in Indices : \E b \in Slots :
             sets[j][b].valid /\ sets[j][b].dirty /\ Held(j, b) = x
    BY UnsavedIs
  <2>3. (\E j \in Indices : \E b \in Slots :
                /\ ~(j = i /\ b = v)
                /\ sets[j][b].valid /\ sets[j][b].dirty /\ Held(j, b) = x)
        <=> x \in Unsaved \ lost
    <3>1. ASSUME NEW j \in Indices, NEW b \in Slots, ~(j = i /\ b = v),
                 sets[j][b].valid, sets[j][b].dirty, Held(j, b) = x
          PROVE  x \in Unsaved \ lost
      BY <1>7, <2>2, <3>1
    <3>2. ASSUME x \in Unsaved, x \notin lost
          PROVE  \E j \in Indices : \E b \in Slots :
                   /\ ~(j = i /\ b = v)
                   /\ sets[j][b].valid /\ sets[j][b].dirty /\ Held(j, b) = x
      <4>1. PICK j \in Indices, b \in Slots :
              sets[j][b].valid /\ sets[j][b].dirty /\ Held(j, b) = x
        BY <2>2, <3>2
      <4>2. ~(j = i /\ b = v)
        BY <1>5, <3>2, <4>1
      <4> QED BY <4>1, <4>2
    <3> QED BY <3>1, <3>2
  <2> HIDE DEF m
  <2> QED BY <1>3, <2>1, <2>3
<1>9. sets[i][v].dirty <=> lost \cap Unsaved # {}
  <2>1. ASSUME sets[i][v].dirty PROVE Held(i, v) \in lost \cap Unsaved
    BY <1>3, <1>5, <1>6, <2>1, UnsavedIs
  <2>2. ASSUME NEW x \in lost \cap Unsaved PROVE sets[i][v].dirty
    <3>1. PICK j \in Indices, b \in Slots :
            sets[j][b].valid /\ sets[j][b].dirty /\ Held(j, b) = x
      BY UnsavedIs
    <3> QED BY <1>7, <3>1
  <2> HIDE DEF lost
  <2> QED BY <2>1, <2>2
<1> HIDE DEF m
<1> QED BY <1>2, <1>8, <1>9 DEF m

\* A transfer is made of whole words (cache.c:175).
LEMMA WholeWords ==
  ASSUME params \in Organisations
  PROVE  \E w \in Nat : w = params.bytes \div 4 /\ (100 * params.bytes) \div 4 = 100 * w
<1>1. params.bytes \in Nat /\ params.bytes >= 4 /\ 2^OBits = params.bytes /\ OBits \in Nat
  BY OrganisationType, BitsFit DEF Organisations, Accepted
<1>2. ~(OBits < 2)
  <2>1. SUFFICES ASSUME OBits < 2 PROVE FALSE
    OBVIOUS
  <2>2. 2^OBits < 2^2
    BY <1>1, <2>1, PowerGrows
  <2>3. 2^2 = 4
    <3>1. 1 \in Nat /\ 2^1 = 2
      OBVIOUS
    <3>2. 2^(1 + 1) = 2^1 * 2^1
      BY <3>1, PowerSum
    <3> QED BY <3>1, <3>2
  <2> QED BY <1>1, <2>2, <2>3
<1>3. PICK k \in Nat : OBits = 1 + (1 + k)
  <2>1. OBits - 2 \in Nat /\ OBits = 1 + (1 + (OBits - 2))
    BY <1>1, <1>2
  <2> QED BY <2>1
<1>4. 2^OBits = 2 * (2 * 2^k)
  <2>1. 1 \in Nat /\ 1 + k \in Nat /\ 2^1 = 2
    OBVIOUS
  <2>2. 2^(1 + (1 + k)) = 2^1 * 2^(1 + k)
    BY <2>1, PowerSum
  <2>3. 2^(1 + k) = 2^1 * 2^k
    BY <2>1, PowerSum
  <2> QED BY <1>3, <2>1, <2>2, <2>3
<1>5. PICK w \in Nat : w = 2^k
  BY PowerPositive
<1>6. params.bytes = 4 * w
  BY <1>1, <1>4, <1>5
<1> QED BY <1>6

\* The counters of a line: one for all lines of its kind, one for hits or
\* misses, and the cycles.
LEMMA CountsAccess ==
  ASSUME NEW total, NEW hit, NEW miss, NEW isHit \in BOOLEAN, NEW keys, NEW c,
         NEW served, NEW words,
         total # "cycles", hit # "cycles", miss # "cycles", total # hit, total # miss,
         keys = {total, IF isHit THEN hit ELSE miss},
         stats \in [DOMAIN NoStats -> Nat],
         served \in Nat, words \in Nat, c = served + 100 * words,
         Count(keys, c)
  PROVE  Policy!Accessed(total, hit, miss, isHit, served, words)
<1>1. stats' = [k \in DOMAIN stats |->
                  IF k = "cycles" THEN stats[k] + c
                  ELSE IF k \in keys THEN stats[k] + 1 ELSE stats[k]]
  BY DEF Count
<1>2. ASSUME NEW k \in DOMAIN stats
      PROVE  (IF k = "cycles" THEN stats[k] + c
              ELSE IF k \in keys THEN stats[k] + 1 ELSE stats[k])
             = CASE k = total -> stats[k] + 1
                 [] k = IF isHit THEN hit ELSE miss -> stats[k] + 1
                 [] k = "cycles" -> stats[k] + served + 100 * words
                 [] OTHER -> stats[k]
  <2>1. stats[k] \in Nat
    OBVIOUS
  <2>2. PICK key : key = IF isHit THEN hit ELSE miss
    OBVIOUS
  <2>3. key # "cycles" /\ key # total /\ keys = {total, key}
    BY <2>2
  <2>4. stats[k] + c = stats[k] + served + 100 * words
    BY <2>1
  <2>5. CASE k = total
    BY <2>2, <2>3, <2>5
  <2>6. CASE k = key
    BY <2>2, <2>3, <2>6
  <2>7. CASE k = "cycles"
    BY <2>2, <2>3, <2>4, <2>7
  <2>8. CASE k # total /\ k # key /\ k # "cycles"
    BY <2>2, <2>3, <2>8
  <2> QED BY <2>5, <2>6, <2>7, <2>8
<1> QED BY <1>1, <1>2 DEF Policy!Accessed

-----------------------------------------------------------------------------
(* Lines are steps of CachePolicy.                                          *)

\* One set has changed.
LEMMA OneQueue ==
  ASSUME RInv, params' = params, NEW i \in Indices, NEW new,
         \A j \in Indices \ {i} : sets'[j] = sets[j],
         Queue(i)' = new, \E q : Sorts(q, Valid(i)', Ages(i)')
  PROVE  Queues' = [Queues EXCEPT ![i] = new] /\ Sortable'
<1>1. Indices' = Indices
  BY DEF Indices
<1>2. \A j \in Indices \ {i} :
        Valid(j)' = Valid(j) /\ Ages(j)' = Ages(j) /\ Queue(j)' = Queue(j)
  BY SameSet
<1>3. \A j \in Indices : Queue(j)' = IF j = i THEN new ELSE Queue(j)
  BY <1>2
<1>4. Queues' = [j \in Indices |-> IF j = i THEN new ELSE Queue(j)]
  BY <1>1, <1>3 DEF Queues
<1>5. [Queues EXCEPT ![i] = new] = [j \in Indices |-> IF j = i THEN new ELSE Queue(j)]
  BY DEF Queues
<1>6. \A j \in Indices : \E q : Sorts(q, Valid(j)', Ages(j)')
  <2>1. ASSUME NEW j \in Indices PROVE \E q : Sorts(q, Valid(j)', Ages(j)')
    <3>1. CASE j = i
      BY <3>1
    <3>2. CASE j # i
      BY <1>2, <3>2 DEF RInv, Sortable
    <3> QED BY <3>1, <3>2
  <2> QED BY <2>1
<1> QED BY <1>1, <1>4, <1>5, <1>6 DEF Sortable

\* No set has changed.
LEMMA NoQueue ==
  ASSUME RInv, params' = params, sets' = sets
  PROVE  Queues' = Queues /\ Unsaved' = Unsaved /\ Sortable'
<1>1. Indices' = Indices
  BY DEF Indices
<1>2. \A j \in Indices :
        Valid(j)' = Valid(j) /\ Ages(j)' = Ages(j) /\ Queue(j)' = Queue(j)
  BY SameSet
<1>3. \A x : x \in Unsaved' <=> x \in Unsaved
  BY UnsavedNext, UnsavedIs DEF Held
<1> QED BY <1>1, <1>2, <1>3 DEF Queues, RInv, Sortable

\* A line that hits
LEMMA TouchPolicy ==
  ASSUME RInv, NEW adr \in Addresses, NEW d \in BOOLEAN, ReadLine(adr, TRUE), Touch(adr, d),
         NEW i \in Indices, i = Index(adr)
  PROVE  /\ Queues' = [Queues EXCEPT ![i] = Policy!Use(Queues[i], adr \div params.bytes)]
         /\ adr \div params.bytes \in Policy!ToSet(Queues[i])
         /\ Unsaved' = Unsaved \cup IF d THEN {adr \div params.bytes} ELSE {}
         /\ Sortable'
<1> DEFINE m == adr \div params.bytes
<1>1. IInv /\ Shape /\ params' = params /\ Hits(adr) # {}
  BY DEF RInv, IInv, ReadLine
<1>2. Queue(i)' = Policy!Use(Queue(i), m) /\ \E q : Sorts(q, Valid(i)', Ages(i)')
  BY TouchQueue
<1>3. Queues[i] = Queue(i)
  BY DEF Queues
<1>4. m \in Policy!ToSet(Queue(i))
  BY <1>1, InQueue
<1>5. \A j \in Indices \ {i} : sets'[j] = sets[j]
  BY <1>1 DEF Touch, Shape
<1>6. Unsaved' = Unsaved \cup IF d THEN {m} ELSE {}
  BY TouchUnsaved
<1>7. Queues' = [Queues EXCEPT ![i] = Policy!Use(Queue(i), m)] /\ Sortable'
  BY <1>1, <1>2, <1>5, OneQueue
<1> QED BY <1>3, <1>4, <1>6, <1>7

\* and one that loads a block.
LEMMA FillPolicy ==
  ASSUME RInv, NEW adr \in Addresses, NEW d \in BOOLEAN, NEW keys, NEW c \in Nat,
         ReadLine(adr, FALSE), HandleWriteBack(adr, d, keys, c),
         NEW i \in Indices, i = Index(adr)
  PROVE  LET lost == Policy!GivenUp(Queues[i])
         IN
         /\ Queues' = [Queues EXCEPT ![i] = Policy!FillIn(Queues[i], adr \div params.bytes)]
         /\ adr \div params.bytes \notin Policy!ToSet(Queues[i])
         /\ Unsaved' = (Unsaved \ lost) \cup IF d THEN {adr \div params.bytes} ELSE {}
         /\ \E w \in Nat : /\ w = params.bytes \div 4
                           /\ Count(keys, c + 100 * (Policy!Moved(lost) * w))
         /\ Sortable'
<1> DEFINE m == adr \div params.bytes
           v == Evict(sets[i])
           lost == Policy!GivenUp(Queues[i])
<1>1. IInv /\ Shape /\ params' = params /\ Hits(adr) = {}
  BY DEF RInv, IInv, ReadLine
<1>2. /\ Queue(i)' = Policy!FillIn(Queue(i), m)
      /\ \E q : Sorts(q, Valid(i)', Ages(i)')
      /\ Policy!GivenUp(Queue(i)) = Loss(i, v)
  BY FillQueue
<1>3. Queues[i] = Queue(i)
  BY DEF Queues
<1>4. m \notin Policy!ToSet(Queue(i))
  BY <1>1, InQueue
<1>5. \A j \in Indices \ {i} : sets'[j] = sets[j]
  BY <1>1 DEF HandleWriteBack, Shape
<1>6. lost = Loss(i, v)
  BY <1>2, <1>3
<1>7. /\ Unsaved' = (Unsaved \ lost) \cup IF d THEN {m} ELSE {}
      /\ sets[i][v].dirty <=> lost \cap Unsaved # {}
  <2>1. LET l == Loss(i, Evict(sets[i]))
        IN  /\ Unsaved' = (Unsaved \ l) \cup IF d THEN {adr \div params.bytes} ELSE {}
            /\ sets[i][v].dirty <=> l \cap Unsaved # {}
    BY FillUnsaved
  <2> QED BY <1>6, <2>1
<1>8. Queues' = [Queues EXCEPT ![i] = Policy!FillIn(Queue(i), m)] /\ Sortable'
  BY <1>1, <1>2, <1>5, OneQueue
<1>9. PICK w \in Nat : w = params.bytes \div 4 /\ (100 * params.bytes) \div 4 = 100 * w
  BY <1>1, WholeWords DEF Shape
<1>10. Count(keys, c + 100 * (Policy!Moved(lost) * w))
  <2>1. v \in Slots
    BY <1>1, EvictRight
  <2>2. sets[i][v].dirty => ~params.through
    BY <1>1, <2>1 DEF IInv, Stamps
  <2>3. Count(keys, c + 100 * w + IF ~params.through /\ sets[i][v].dirty THEN 100 * w ELSE 0)
    BY <1>9 DEF HandleWriteBack
  <2>4. CASE sets[i][v].dirty
    <3>1. Policy!Moved(lost) = 2
      BY <1>7, <2>4 DEF Policy!Moved
    <3>2. Count(keys, c + 100 * w + 100 * w)
      BY <2>2, <2>3, <2>4
    <3>3. c + 100 * w + 100 * w = c + 100 * (2 * w)
      OBVIOUS
    <3> QED BY <3>1, <3>2, <3>3, Zenon
  <2>5. CASE ~sets[i][v].dirty
    <3>1. Policy!Moved(lost) = 1
      BY <1>7, <2>5 DEF Policy!Moved
    <3>2. Count(keys, c + 100 * w + 0)
      BY <2>3, <2>5
    <3>3. c + 100 * w + 0 = c + 100 * (1 * w)
      OBVIOUS
    <3> QED BY <3>1, <3>2, <3>3, Zenon
  <2> QED BY <2>4, <2>5
<1> HIDE DEF m, v, lost
<1> QED BY <1>3, <1>4, <1>7, <1>8, <1>9, <1>10 DEF m, lost

Tallied == stats \in [DOMAIN NoStats -> Nat]

\* Loads
LEMMA LoadStep ==
  ASSUME RInv, Tallied, NEW adr \in Addresses, LoadHit(adr) \/ LoadMiss(adr)
  PROVE  Policy!LoadFrom(adr) /\ params' = params /\ Sortable'
<1> DEFINE m == adr \div params.bytes
<1>1. PICK i \in Indices : i = Index(adr) /\ m % params.sets = i
  BY AddressSplit DEF RInv, IInv, Shape
<1> DEFINE q == Queues[i]
           isHit == m \in Policy!ToSet(q)
           lost == IF isHit THEN {} ELSE Policy!GivenUp(q)
           blocks == IF isHit THEN 0 ELSE Policy!Moved(lost)
           words == blocks * (params.bytes \div 4)
<1>2. SUFFICES /\ Queues' = [Queues EXCEPT ![i] = IF isHit THEN Policy!Use(q, m)
                                                  ELSE Policy!FillIn(q, m)]
               /\ Unsaved' = Unsaved \ lost
               /\ Policy!Accessed("loads", "load_hit", "load_miss", isHit, 1, words)
               /\ params' = params /\ Sortable'
  BY <1>1, Zenon DEF Policy!LoadFrom
<1>3. CASE LoadHit(adr)
  <2>1. ReadLine(adr, TRUE) /\ Touch(adr, FALSE) /\ Count({"loads", "load_hit"}, 1)
    BY <1>3 DEF LoadHit
  <2>2. /\ Queues' = [Queues EXCEPT ![i] = Policy!Use(q, m)]
        /\ isHit /\ Unsaved' = Unsaved /\ Sortable'
    BY <1>1, <2>1, TouchPolicy
  <2>3. words = 0
    <3>1. PICK w \in Nat : w = params.bytes \div 4
      BY WholeWords DEF RInv, IInv, Shape
    <3> QED BY <2>2, <3>1
  <2> HIDE DEF words, isHit
  <2>4. Policy!Accessed("loads", "load_hit", "load_miss", isHit, 1, words)
    <3>1. isHit \in BOOLEAN
      BY DEF isHit
    <3>2. {"loads", "load_hit"} = {"loads", IF isHit THEN "load_hit" ELSE "load_miss"}
      BY <2>2
    <3>3. 1 = 1 + 100 * words
      BY <2>3
    <3> QED BY <2>1, <2>3, <3>1, <3>2, <3>3, CountsAccess DEF Tallied
  <2> QED BY <2>1, <2>2, <2>4 DEF ReadLine
<1>4. CASE LoadMiss(adr)
  <2>1. ReadLine(adr, FALSE) /\ HandleWriteBack(adr, FALSE, {"loads", "load_miss"}, 1)
    BY <1>4 DEF LoadMiss
  <2> DEFINE up == Policy!GivenUp(q)
  <2>a. /\ Queues' = [Queues EXCEPT ![i] = Policy!FillIn(q, m)]
        /\ ~isHit /\ Sortable'
        /\ Unsaved' = (Unsaved \ up) \cup IF FALSE THEN {m} ELSE {}
        /\ \E w \in Nat : /\ w = params.bytes \div 4
                          /\ Count({"loads", "load_miss"}, 1 + 100 * (Policy!Moved(up) * w))
    <3>1. FALSE \in BOOLEAN /\ 1 \in Nat
      OBVIOUS
    <3> QED BY ZenonT(30), <1>1, <2>1, <3>1, FillPolicy
  <2>2. PICK w \in Nat :
          /\ Queues' = [Queues EXCEPT ![i] = Policy!FillIn(q, m)]
          /\ ~isHit /\ Unsaved' = Unsaved \ up /\ Sortable'
          /\ w = params.bytes \div 4
          /\ Count({"loads", "load_miss"}, 1 + 100 * (Policy!Moved(up) * w))
    BY <2>a
  <2>3. lost = up /\ words = Policy!Moved(up) * w
    BY <2>2
  <2>4. words \in Nat
    <3>1. Policy!Moved(up) \in {1, 2}
      BY DEF Policy!Moved
    <3> HIDE DEF words, lost, up
    <3> QED BY <2>3, <3>1
  <2> HIDE DEF words, isHit, up
  <2>5. Policy!Accessed("loads", "load_hit", "load_miss", isHit, 1, words)
    <3>1. isHit \in BOOLEAN
      BY DEF isHit
    <3>2. {"loads", "load_miss"} = {"loads", IF isHit THEN "load_hit" ELSE "load_miss"}
      BY <2>2
    <3>3. Count({"loads", "load_miss"}, 1 + 100 * words)
      BY <2>2, <2>3
    <3> QED BY <2>4, <3>1, <3>2, <3>3, CountsAccess DEF Tallied
  <2> QED BY <2>1, <2>2, <2>3, <2>5 DEF ReadLine
<1> QED BY <1>3, <1>4

\* Stores
LEMMA StoreStep ==
  ASSUME RInv, Tallied, NEW adr \in Addresses,
         StoreHit(adr) \/ StoreMissAllocate(adr) \/ StoreMissAround(adr)
  PROVE  Policy!StoreTo(adr) /\ params' = params /\ Sortable'
<1> DEFINE m == adr \div params.bytes
<1>1. PICK i \in Indices : i = Index(adr) /\ m % params.sets = i
  BY AddressSplit DEF RInv, IInv, Shape
<1>2. /\ params.through \in BOOLEAN /\ params.allocate \in BOOLEAN
      /\ params.through \/ params.allocate
  BY OrganisationType DEF RInv, IInv, Shape
<1>3. PICK w \in Nat : w = params.bytes \div 4
  BY WholeWords DEF RInv, IInv, Shape
<1> DEFINE q == Queues[i]
           up == Policy!GivenUp(q)
           isHit == m \in Policy!ToSet(q)
           fills == ~isHit /\ params.allocate
           lost == IF fills THEN up ELSE {}
           blocks == IF fills THEN Policy!Moved(lost) ELSE 0
           thru == IF params.through THEN 1 ELSE 0
           words == blocks * (params.bytes \div 4) + thru
           gained == IF params.through THEN {} ELSE {m}
           served == IF isHit \/ fills THEN 1 ELSE 0
<1>4. SUFFICES /\ Queues' = [Queues EXCEPT ![i] = IF isHit THEN Policy!Use(q, m)
                                                  ELSE IF fills THEN Policy!FillIn(q, m) ELSE q]
               /\ Unsaved' = (Unsaved \ lost) \cup gained
               /\ Policy!Accessed("stores", "store_hit", "store_miss", isHit, served, words)
               /\ params' = params /\ Sortable'
  BY <1>1, Zenon DEF Policy!StoreTo
<1>5. isHit \in BOOLEAN /\ fills \in BOOLEAN /\ served \in Nat /\ thru \in Nat
  BY <1>2
<1>6. CASE StoreHit(adr)
  <2>1. /\ ReadLine(adr, TRUE) /\ Touch(adr, ~params.through)
        /\ Count({"stores", "store_hit"}, IF params.through THEN 101 ELSE 1)
    BY <1>6 DEF StoreHit
  <2>2. PICK d \in BOOLEAN : d = ~params.through
    BY <1>2
  <2>3. /\ Queues' = [Queues EXCEPT ![i] = Policy!Use(q, m)]
        /\ isHit /\ Unsaved' = Unsaved \cup (IF d THEN {m} ELSE {}) /\ Sortable'
    BY <1>1, <2>1, <2>2, TouchPolicy
  <2>4. words = thru /\ lost = {} /\ served = 1 /\ gained = IF d THEN {m} ELSE {}
    <3>1. lost = {} /\ blocks = 0 /\ served = 1
      BY <2>3
    <3>2. gained = IF d THEN {m} ELSE {}
      BY <1>2, <2>2
    <3>3. words = 0 * w + thru
      BY <1>3, <3>1
    <3> HIDE DEF words, thru, lost, served, gained
    <3> QED BY <1>5, <3>1, <3>2, <3>3
  <2>5. (IF params.through THEN 101 ELSE 1) = 1 + 100 * thru
    BY <1>2
  <2> HIDE DEF words, isHit, thru, served, lost, gained
  <2>6. Policy!Accessed("stores", "store_hit", "store_miss", isHit, served, words)
    <3>1. {"stores", "store_hit"} = {"stores", IF isHit THEN "store_hit" ELSE "store_miss"}
      BY <2>3
    <3>2. Count({"stores", "store_hit"}, 1 + 100 * thru)
      BY <2>1, <2>5
    <3> QED BY <1>5, <2>4, <3>1, <3>2, CountsAccess DEF Tallied
  <2> QED BY <2>1, <2>3, <2>4, <2>6 DEF ReadLine
<1>7. CASE StoreMissAllocate(adr)
  <2>1. PICK d \in BOOLEAN, c \in Nat :
          /\ d = ~params.through /\ c = IF params.through THEN 101 ELSE 1
          /\ ReadLine(adr, FALSE) /\ params.allocate
          /\ HandleWriteBack(adr, d, {"stores", "store_miss"}, c)
    <3>1. PICK d \in BOOLEAN : d = ~params.through
      BY <1>2
    <3>2. PICK c \in Nat : c = IF params.through THEN 101 ELSE 1
      OBVIOUS
    <3>3. ReadLine(adr, FALSE) /\ params.allocate
          /\ HandleWriteBack(adr, d, {"stores", "store_miss"}, c)
      BY <1>7, <3>1, <3>2 DEF StoreMissAllocate
    <3> QED BY <3>1, <3>2, <3>3
  <2>2. /\ Queues' = [Queues EXCEPT ![i] = Policy!FillIn(q, m)]
        /\ ~isHit /\ Sortable'
        /\ Unsaved' = (Unsaved \ up) \cup IF d THEN {m} ELSE {}
        /\ \E x \in Nat : /\ x = params.bytes \div 4
                          /\ Count({"stores", "store_miss"}, c + 100 * (Policy!Moved(up) * x))
    <3>1. ReadLine(adr, FALSE) /\ HandleWriteBack(adr, d, {"stores", "store_miss"}, c)
      BY <2>1
    <3>2. LET l == Policy!GivenUp(Queues[i])
          IN
          /\ Queues' = [Queues EXCEPT ![i] = Policy!FillIn(Queues[i], m)]
          /\ m \notin Policy!ToSet(Queues[i])
          /\ Unsaved' = (Unsaved \ l) \cup IF d THEN {m} ELSE {}
          /\ \E x \in Nat : /\ x = params.bytes \div 4
                            /\ Count({"stores", "store_miss"}, c + 100 * (Policy!Moved(l) * x))
          /\ Sortable'
      BY <1>1, <3>1, FillPolicy
    <3> QED BY <3>2
  <2>3. fills /\ lost = up /\ served = 1 /\ gained = IF d THEN {m} ELSE {}
    BY <2>1, <2>2
  <2>4. PICK x \in Nat : x = Policy!Moved(up) * w /\ words = x + thru
    <3>1. Policy!Moved(up) \in {1, 2}
      BY DEF Policy!Moved
    <3>2. words = Policy!Moved(up) * w + thru
      BY <1>3, <2>3
    <3> HIDE DEF words, up, thru
    <3> QED BY <3>1, <3>2
  <2>5. Count({"stores", "store_miss"}, c + 100 * x)
    BY <1>3, <2>2, <2>4
  <2>6. c = 1 + 100 * thru
    BY <1>2, <2>1
  <2> HIDE DEF words, isHit, thru, served, lost, up, gained, fills
  <2>7. Policy!Accessed("stores", "store_hit", "store_miss", isHit, served, words)
    <3>1. {"stores", "store_miss"} = {"stores", IF isHit THEN "store_hit" ELSE "store_miss"}
      BY <2>2
    <3>2. c + 100 * x = served + 100 * words /\ words \in Nat
      BY <1>5, <2>3, <2>4, <2>6
    <3> QED BY <1>5, <2>5, <3>1, <3>2, CountsAccess DEF Tallied
  <2> QED BY <2>1, <2>2, <2>3, <2>7 DEF ReadLine
<1>8. CASE StoreMissAround(adr)
  <2>1. /\ ReadLine(adr, FALSE) /\ ~params.allocate /\ sets' = sets
        /\ Count({"stores", "store_miss"}, 100)
    BY <1>8 DEF StoreMissAround
  <2>2. params' = params /\ Hits(adr) = {}
    BY <2>1 DEF ReadLine
  <2>3. Queues' = Queues /\ Unsaved' = Unsaved /\ Sortable'
    BY <2>1, <2>2, NoQueue
  <2>4. ~isHit
    <3>1. Queues[i] = Queue(i)
      BY DEF Queues
    <3> QED BY <1>1, <2>2, <3>1, InQueue
  <2>5. /\ ~fills /\ lost = {} /\ gained = {} /\ served = 0 /\ thru = 1
        /\ words = 1
    BY <1>2, <1>3, <2>1, <2>4
  <2>6. [Queues EXCEPT ![i] = q] = Queues
    BY DEF Queues
  <2> HIDE DEF words, isHit, thru, served, lost, up, gained, fills
  <2>7. Policy!Accessed("stores", "store_hit", "store_miss", isHit, served, words)
    <3>1. {"stores", "store_miss"} = {"stores", IF isHit THEN "store_hit" ELSE "store_miss"}
      BY <2>4
    <3>2. 100 = served + 100 * words /\ words \in Nat
      BY <2>5
    <3> QED BY <1>5, <2>1, <3>1, <3>2, CountsAccess DEF Tallied
  <2> QED BY <2>2, <2>3, <2>4, <2>5, <2>6, <2>7
<1> QED BY <1>6, <1>7, <1>8

\* Other lines
LEMMA LookStep ==
  ASSUME RInv, NEW adr \in Addresses, OtherLine(adr)
  PROVE  Policy!LookAt(adr) /\ params' = params /\ Sortable'
<1> DEFINE m == adr \div params.bytes
<1>1. PICK i \in Indices : i = Index(adr) /\ m % params.sets = i
  BY AddressSplit DEF RInv, IInv, Shape
<1> DEFINE q == Queues[i]
           isHit == m \in Policy!ToSet(q)
<1>2. SUFFICES /\ Queues' = [Queues EXCEPT ![i] = IF isHit THEN Policy!Use(q, m) ELSE q]
               /\ Unsaved' = Unsaved /\ stats' = stats
               /\ params' = params /\ Sortable'
  BY <1>1, Zenon DEF Policy!LookAt
<1>3. CASE ReadLine(adr, TRUE) /\ Touch(adr, FALSE)
  <2>1. /\ Queues' = [Queues EXCEPT ![i] = Policy!Use(q, m)]
        /\ isHit /\ Unsaved' = Unsaved /\ Sortable'
    BY <1>1, <1>3, TouchPolicy
  <2> HIDE DEF isHit
  <2> QED BY <1>3, <2>1 DEF ReadLine, OtherLine
<1>4. CASE ReadLine(adr, FALSE) /\ sets' = sets
  <2>1. params' = params /\ Hits(adr) = {}
    BY <1>4 DEF ReadLine
  <2>2. Queues' = Queues /\ Unsaved' = Unsaved /\ Sortable'
    BY <1>4, <2>1, NoQueue
  <2>3. ~isHit
    <3>1. Queues[i] = Queue(i)
      BY DEF Queues
    <3> QED BY <1>1, <2>1, <3>1, InQueue
  <2>4. [Queues EXCEPT ![i] = q] = Queues
    BY DEF Queues
  <2> HIDE DEF isHit, q
  <2> QED BY <2>1, <2>2, <2>3, <2>4 DEF OtherLine
<1> QED BY <1>3, <1>4 DEF OtherLine

\* Time stamps, dirty bits and cycle counts amount to the queues of CachePolicy.
THEOREM ImplementsPolicy == Spec => RefinesPolicy
<1>1. Init => Policy!Start /\ Sortable
  <2> SUFFICES ASSUME Init PROVE Policy!Start /\ Sortable
    OBVIOUS
  <2>1. \A i \in Indices : \A b \in Slots : ~sets[i][b].valid
    BY DEF Init, EmptyBlock
  <2>2. \A i \in Indices : Valid(i) = {}
    BY <2>1 DEF Valid
  <2>3. Cardinality({}) = 0
    BY FS_EmptySet
  <2>4. \A i \in Indices : Queue(i) = <<>>
    <3>2. ASSUME NEW i \in Indices PROVE Queue(i) = <<>>
      <4> DEFINE q == Sorted(Valid(i), Ages(i))
                 f == [n \in 1 .. 0 |-> Held(i, q[n])]
      <4>1. Queue(i) = f
        BY <2>2, <2>3, Zenon DEF Queue
      <4>2. f = <<>>
        OBVIOUS
      <4> QED BY <4>1, <4>2
    <3> QED BY <3>2
  <2>5. Sortable
    <3>1. \A age : Sorts(<<>>, {}, age)
      BY <2>3 DEF Sorts
    <3> QED BY <2>2, <3>1 DEF Sortable
  <2>6. Queues = [i \in 0 .. params.sets - 1 |-> <<>>]
    BY <2>4 DEF Queues, Indices
  <2>7. Unsaved = {}
    BY <2>1 DEF Unsaved, Valid
  <2> QED BY <2>5, <2>6, <2>7 DEF Init, Policy!Start
<1>2. /\ RInv /\ Tallied /\ [Next]_cvars
      => /\ Sortable'
         /\ [Policy!Access /\ UNCHANGED params]_<<params, Queues, Unsaved, stats>>
  <2> SUFFICES ASSUME RInv, Tallied, [Next]_cvars
               PROVE  /\ Sortable'
                      /\ [Policy!Access /\ UNCHANGED params]_<<params, Queues, Unsaved, stats>>
    OBVIOUS
  <2>1. CASE Next
    <3>1. PICK adr \in Addresses :
            \/ LoadHit(adr) \/ LoadMiss(adr)
            \/ StoreHit(adr) \/ StoreMissAllocate(adr) \/ StoreMissAround(adr)
            \/ OtherLine(adr)
      BY <2>1 DEF Next
    <3>2. /\ Policy!LoadFrom(adr) \/ Policy!StoreTo(adr) \/ Policy!LookAt(adr)
          /\ params' = params /\ Sortable'
      BY <3>1, LoadStep, StoreStep, LookStep
    <3> QED BY <3>2 DEF Policy!Access
  <2>2. CASE UNCHANGED cvars
    <3>1. params' = params /\ sets' = sets /\ stats' = stats
      BY <2>2 DEF cvars
    <3> QED BY <3>1, NoQueue
  <2> QED BY <2>1, <2>2
<1>3. Spec => [](IInv /\ Counters)
  <2>1. Init => Counters
    BY CacheAssumption DEF Init, Counters, NoStats
  <2>2. IInv /\ Counters /\ [Next]_cvars => Counters'
    BY NextCounters
  <2> QED BY <2>1, <2>2, Inductive, PTL DEF Spec
<1>4. IInv /\ Counters /\ Sortable => RInv /\ Tallied
  BY DEF Counters, Tallied, RInv
<1> QED BY <1>1, <1>2, <1>3, <1>4, PTL DEF Spec, RefinesPolicy, Policy!Spec
=============================================================================
