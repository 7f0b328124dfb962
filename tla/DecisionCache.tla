--------------------------- MODULE DecisionCache ---------------------------
(***************************************************************************)
(* The decision cache (ai/decision_cache.c): a fixed table with open        *)
(* addressing, tombstones for removed entries and, when a probe finds no    *)
(* free slot, eviction of the entry used longest ago.                       *)
(*                                                                         *)
(* A query stands for its normalized text; two queries never share a whole *)
(* hash, only their home slot.  Access times are only ever compared, so    *)
(* the model keeps the order of the slots by access time instead of the    *)
(* 64-bit times.  Hit and miss counters are left out.                      *)
(***************************************************************************)
EXTENDS Integers, SequencesExt

CONSTANTS CacheSize,     \* CACHE_SIZE
          CacheQueries,
          CacheActions,
          CacheHome,     \* query -> cache_hash(query) % CACHE_SIZE
          UsedMod,       \* values of stats.entries_used, 2^32
          CacheEmpty, CacheTombstone   \* states of a slot that is not VALID

ASSUME CacheAssumption ==
    /\ CacheSize \in Nat \ {0} /\ UsedMod \in Nat /\ UsedMod > CacheSize
    /\ CacheHome \in [CacheQueries -> 0 .. (CacheSize - 1)]
    /\ CacheEmpty # CacheTombstone
    /\ {CacheEmpty, CacheTombstone} \intersect [query : CacheQueries, action : CacheActions] = {}

VARIABLES entries,       \* entries[]: CacheEmpty, CacheTombstone or a record
          byAge,         \* the valid slots in the order of last_access_time
          used           \* stats.entries_used

cacheVars == <<entries, byAge, used>>

CacheSlots == 0 .. (CacheSize - 1)
CacheEntry(q, a) == [query |-> q, action |-> a]
IsValid(i)  == entries[i] \notin {CacheEmpty, CacheTombstone}
Holding(i, q) == IsValid(i) /\ entries[i].query = q

\* The i-th slot probed for q.
Probe(q, i) == (CacheHome[q] + i) % CacheSize

\* How many slots a probe for q looks at before it stops at an empty one.
Reach(q) == IF \E i \in CacheSlots : entries[Probe(q, i)] = CacheEmpty
            THEN CHOOSE i \in CacheSlots :
                    /\ entries[Probe(q, i)] = CacheEmpty
                    /\ \A j \in 0 .. (i - 1) : entries[Probe(q, j)] # CacheEmpty
            ELSE CacheSize
Probed(q) == {Probe(q, i) : i \in 0 .. (Reach(q) - 1)}

\* cache_lookup answers from one of these slots, and removes or updates it.
FoundAt(q) == {s \in Probed(q) : Holding(s, q)}

\* Probe number of the slot a new query goes to, if its probe meets an empty one:
\* the first tombstone, else that empty slot.
FreeSlots(q) ==
    IF Reach(q) = CacheSize THEN {}
    ELSE LET tombs == {i \in 0 .. (Reach(q) - 1) : entries[Probe(q, i)] = CacheTombstone} IN
         IF tombs = {} THEN {Reach(q)} ELSE {CHOOSE i \in tombs : \A j \in tombs : i <= j}

Young(i) == Append(RemoveFirst(byAge, i), i)

\* Mutant of Evicted: the entry used last.
EvictedNewest == IF byAge = <<>> THEN 0 ELSE byAge[Len(byAge)]

\* The slot of the smallest access time; 0 when no entry is valid.
Evicted == IF byAge = <<>> THEN 0 ELSE Head(byAge)

CacheInit ==
    /\ entries = [i \in CacheSlots |-> CacheEmpty]
    /\ byAge = <<>> /\ used = 0

\* cache_lookup, a hit.
CacheHit(q) ==
    /\ \E s \in FoundAt(q) : byAge' = Young(s)
    /\ UNCHANGED <<entries, used>>

\* cache_insert: update, use a free slot, or evict.
CacheInsert(q, a) ==
    \/ \E s \in FoundAt(q) :
          /\ entries' = [entries EXCEPT ![s] = CacheEntry(q, a)]
          /\ byAge' = Young(s)
          /\ UNCHANGED used
    \/ /\ FoundAt(q) = {}
       /\ \E i \in FreeSlots(q) :
             /\ entries' = [entries EXCEPT ![Probe(q, i)] = CacheEntry(q, a)]
             /\ byAge' = Append(byAge, Probe(q, i))
             /\ used' = (used + 1) % UsedMod
    \/ /\ FoundAt(q) = {} /\ FreeSlots(q) = {}
       /\ entries' = [entries EXCEPT ![Evicted] = CacheEntry(q, a)]
       /\ byAge' = Young(Evicted)
       /\ UNCHANGED used

\* entries_used--, in 32 bits.
OneLess(n) == (n + UsedMod - 1) % UsedMod

\* Mutant of CacheRemove: the slot is emptied, which cuts the probes through it.
CacheRemoveEmpties(q) ==
    \E s \in FoundAt(q) :
        /\ entries' = [entries EXCEPT ![s] = CacheEmpty]
        /\ byAge' = RemoveFirst(byAge, s)
        /\ used' = OneLess(used)

\* cache_remove
CacheRemove(q) ==
    \E s \in FoundAt(q) :
        /\ entries' = [entries EXCEPT ![s] = CacheTombstone]
        /\ byAge' = RemoveFirst(byAge, s)
        /\ used' = OneLess(used)

\* cache_clear
CacheClear ==
    /\ entries' = [i \in CacheSlots |-> CacheEmpty]
    /\ byAge' = <<>> /\ used' = 0

CacheNext ==
    \/ \E q \in CacheQueries : CacheHit(q) \/ CacheRemove(q)
    \/ \E q \in CacheQueries, a \in CacheActions : CacheInsert(q, a)
    \/ CacheClear

CacheSpec == CacheInit /\ [][CacheNext]_cacheVars

-----------------------------------------------------------------------------
(* Properties *)

ValidSlots == {i \in CacheSlots : IsValid(i)}

\* Every slot holds an entry or a mark, and the age order lists the valid ones once.
CacheTypeOK ==
    /\ entries \in [CacheSlots -> [query : CacheQueries, action : CacheActions]
                                  \union {CacheEmpty, CacheTombstone}]
    /\ byAge \in Seq(CacheSlots)
    /\ {byAge[i] : i \in DOMAIN byAge} = ValidSlots /\ Len(byAge) = Cardinality(ValidSlots)
    /\ used \in 0 .. (UsedMod - 1)

\* Every entry is found by the probe of its own query, and no query has two:
\* insertions past tombstones, evictions and removals neither cut a probe
\* nor leave an older answer behind (cache_lookup stops at the first EMPTY).
Reachable ==
    /\ \A i \in ValidSlots : i \in Probed(entries[i].query)
    /\ \A i, j \in ValidSlots : entries[i].query = entries[j].query => i = j

\* The age order names no slot twice.
AgeOnce == \A m, n \in DOMAIN byAge : byAge[m] = byAge[n] => m = n

\* The inductive invariant of the table.
CacheInv == CacheTypeOK /\ Reachable /\ AgeOnce

\* The table is a bounded map that forgets the least recently used query first.
AbsRecent == [i \in DOMAIN byAge |-> entries[byAge[i]].query]
AbsStored == LET held == {entries[i].query : i \in ValidSlots} IN
             [q \in held |-> entries[CHOOSE i \in ValidSlots : entries[i].query = q].action]
Lru == INSTANCE LruCache WITH Queries <- CacheQueries, Actions <- CacheActions,
                              Room <- CacheSize, recent <- AbsRecent, stored <- AbsStored
ImplementsLru == Lru!Spec

\* entries_used counts the valid entries (decision_cache.c: "entries_used stays the
\* same (replaced, not added)").  Not so once tombstones fill the table.
UsedExact == used = Cardinality(ValidSlots)
=============================================================================
