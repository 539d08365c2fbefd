----------------------------- MODULE CachePolicy -----------------------------
(***************************************************************************)
(* What the cache simulator of csf_assign03 promises.  Memory is made of    *)
(* blocks, a set keeps the blocks it holds in the order in which they will   *)
(* be given up, and cycles follow from what is moved: one for each access    *)
(* the cache serves and 100 for every word to or from memory.               *)
(***************************************************************************)
EXTENDS Integers, SequencesExt

CONSTANTS Organisations, Addresses, StartStats, WordBytes

VARIABLES
  params,     \* the organisation and the policies
  queue,      \* for each set, the memory blocks it holds, next to go first
  unsaved,    \* blocks with a store that memory has not seen
  stats

Start ==
  /\ params \in Organisations
  /\ queue = [i \in 0 .. params.sets - 1 |-> <<>>]
  /\ unsaved = {}
  /\ stats = StartStats

Full(q) == Len(q) = params.blocks
FillIn(q, m) == Append(IF Full(q) THEN Tail(q) ELSE q, m)
GivenUp(q) == IF Full(q) THEN {Head(q)} ELSE {}
Place(q, m) == CHOOSE n \in 1 .. Len(q) : q[n] = m
Use(q, m) == IF params.evict_lru THEN Append(RemoveAt(q, Place(q, m)), m) ELSE q

Accessed(total, hit, miss, isHit, served, words) ==
  stats' = [k \in DOMAIN stats |->
              CASE k = total -> stats[k] + 1
                [] k = IF isHit THEN hit ELSE miss -> stats[k] + 1
                [] k = "cycles" -> stats[k] + served + 100 * words
                [] OTHER -> stats[k]]

\* The blocks that a miss moves: the one it wants, and the one it gives up when
\* memory has not seen it.
Moved(lost) == IF lost \cap unsaved = {} THEN 1 ELSE 2

LoadFrom(a) ==
  LET m == a \div params.bytes
      i == m % params.sets
      q == queue[i]
      isHit == m \in ToSet(q)
      lost == IF isHit THEN {} ELSE GivenUp(q)
      blocks == IF isHit THEN 0 ELSE Moved(lost)
  IN  /\ queue' = [queue EXCEPT ![i] = IF isHit THEN Use(q, m) ELSE FillIn(q, m)]
      /\ unsaved' = unsaved \ lost
      /\ Accessed("loads", "load_hit", "load_miss", isHit, 1,
                  blocks * (params.bytes \div WordBytes))

\* Without write-allocate a store that misses goes to memory alone.
StoreTo(a) ==
  LET m == a \div params.bytes
      i == m % params.sets
      q == queue[i]
      isHit == m \in ToSet(q)
      fills == ~isHit /\ params.allocate
      lost == IF fills THEN GivenUp(q) ELSE {}
      blocks == IF fills THEN Moved(lost) ELSE 0
  IN  /\ queue' = [queue EXCEPT ![i] = IF isHit THEN Use(q, m)
                                       ELSE IF fills THEN FillIn(q, m) ELSE q]
      /\ unsaved' = (unsaved \ lost) \cup (IF params.through THEN {} ELSE {m})
      /\ Accessed("stores", "store_hit", "store_miss", isHit,
                  IF isHit \/ fills THEN 1 ELSE 0,
                  blocks * (params.bytes \div WordBytes)
                    + IF params.through THEN 1 ELSE 0)

\* A line that is neither a load nor a store still uses the block it names.
LookAt(a) ==
  LET m == a \div params.bytes
      i == m % params.sets
      q == queue[i]
  IN  /\ queue' = [queue EXCEPT ![i] = IF m \in ToSet(q) THEN Use(q, m) ELSE q]
      /\ UNCHANGED <<unsaved, stats>>

Access == \E a \in Addresses : LoadFrom(a) \/ StoreTo(a) \/ LookAt(a)

Spec == Start /\ [][Access /\ UNCHANGED params]_<<params, queue, unsaved, stats>>
=============================================================================
