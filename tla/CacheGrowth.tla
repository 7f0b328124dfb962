---------------------------- MODULE CacheGrowth ----------------------------
(***************************************************************************)
(* How the deployed decision cache grows (ai/cache_growth.c and the         *)
(* workload loop of main_x86.c): the patterns loaded at boot, the cache and *)
(* inference lanes that look queries up, the batch of episodic records, and *)
(* the promotion pass at the [STATS] cadence, which counts every record of  *)
(* the batch in a frequency table and stores the answers of repeated        *)
(* queries in the cache, up to a high-water mark.                           *)
(*                                                                         *)
(* A query stands for its normalized text and its key, which always fits   *)
(* the cache; the probe order inside the frequency table is abstracted to  *)
(* whether a new key still finds a slot.  Counts are kept up to the        *)
(* threshold they are compared with.  The episodic store keeps the last    *)
(* StoreKept keys committed and survives a reboot, which is external.      *)
(***************************************************************************)
EXTENDS DecisionCache

CONSTANTS Asked,          \* the queries the lanes ask
          Patterns,       \* pattern query -> its action
          Threshold,      \* CG_PROMOTE_THRESHOLD
          HighWater,      \* CG_PROMOTE_HWM
          FreqCap,        \* CG_FREQ_CAP
          BatchMax,       \* EPI_BATCH_MAX
          StoreKept       \* records the episodic store holds

ASSUME GrowthAssumption ==
    /\ DOMAIN Patterns \subseteq Asked /\ Asked \subseteq CacheQueries
    /\ Patterns \in [DOMAIN Patterns -> CacheActions]
    /\ IsFiniteSet(DOMAIN Patterns) /\ Cardinality(DOMAIN Patterns) <= HighWater
    /\ HighWater \in Nat /\ HighWater < CacheSize
    /\ {Threshold, FreqCap, BatchMax, StoreKept} \subseteq Nat \ {0}

VARIABLES freq,           \* key -> count, for the keys in the table
          batch,          \* g_epi_batch
          growAt,         \* 0: the loop runs; else the record the pass is at
          growPhase,      \* "run", "fold", "promote"
          growth,         \* g_cache_growth_count
          kept,           \* keys in the episodic store, oldest first
          seenBy          \* history: how often each key was recorded, to Threshold

growVars == <<cacheVars, freq, batch, growAt, growPhase, growth, kept, seenBy>>

\* A record: an answer of the model, or a cache echo or a failure, which the pass
\* only counts.
Answer(q, a) == [query |-> q, kind |-> "infer", action |-> a]
Rec(q, kind) == [query |-> q, kind |-> kind]

\* cg_freq_bump: a key that finds no slot is not counted.
Bumped(f, q) ==
    IF q \in DOMAIN f THEN [f EXCEPT ![q] = IF f[q] < Threshold THEN f[q] + 1 ELSE f[q]]
    ELSE IF Cardinality(DOMAIN f) < FreqCap
    THEN [r \in DOMAIN f \union {q} |-> IF r = q THEN 1 ELSE f[r]]
    ELSE f

\* cg_freq_get
FreqOf(q) == IF q \in DOMAIN freq THEN freq[q] ELSE 0

\* The last n of s.
Newest(s, n) == IF Len(s) > n THEN SubSeq(s, Len(s) - n + 1, Len(s)) ELSE s

\* epi_commit: the store takes the batch's keys, the newest stay.
Committed == Newest(kept \o [i \in DOMAIN batch |-> batch[i].query], StoreKept)

\* epi_batch_add: a full batch is committed first, uncounted.
Recorded(r) ==
    /\ IF Len(batch) >= BatchMax
       THEN batch' = <<r>> /\ kept' = Committed
       ELSE batch' = Append(batch, r) /\ UNCHANGED kept
    /\ seenBy' = [seenBy EXCEPT ![r.query] = IF @ < Threshold THEN @ + 1 ELSE @]

GrowInit ==
    /\ CacheInit
    /\ freq = [q \in {} |-> 0] /\ batch = <<>>
    /\ growAt = 0 /\ growPhase = "load" /\ growth = 0
    /\ kept = <<>> /\ seenBy = [q \in CacheQueries |-> 0]

\* cache_load_initial_patterns, cache_load_extended_patterns: one pattern of them.
Load(p) ==
    /\ growPhase = "load" /\ FoundAt(p) = {}
    /\ CacheInsert(p, Patterns[p])
    /\ growPhase' = IF \A r \in DOMAIN Patterns \ {p} : FoundAt(r) # {} THEN "run" ELSE "load"
    /\ UNCHANGED <<freq, batch, growAt, growth, kept, seenBy>>

-----------------------------------------------------------------------------
(* The lanes. *)

\* The cache lane asks for a pattern.
AskCache(p) ==
    /\ growPhase = "run"
    /\ IF FoundAt(p) = {} THEN UNCHANGED cacheVars ELSE CacheHit(p)
    /\ Recorded(Rec(p, IF FoundAt(p) = {} THEN "failed" ELSE "cache"))
    /\ UNCHANGED <<freq, growAt, growPhase, growth>>

\* The inference lane: an answer already promoted is served from the cache,
ServePromoted(q) ==
    /\ growPhase = "run"
    /\ CacheHit(q) /\ Recorded(Rec(q, "cache"))
    /\ UNCHANGED <<freq, growAt, growPhase, growth>>

\* else the model is asked, which may give no answer.
AskModel(q) ==
    /\ growPhase = "run"
    /\ FoundAt(q) = {}
    /\ Recorded(Rec(q, "failed")) \/ \E a \in CacheActions : Recorded(Answer(q, a))
    /\ UNCHANGED <<cacheVars, freq, growAt, growPhase, growth>>

-----------------------------------------------------------------------------
(* The pass. *)

StartPass ==
    /\ growPhase = "run" /\ batch # <<>>
    /\ growPhase' = "fold" /\ growAt' = 1
    /\ UNCHANGED <<cacheVars, freq, batch, growth, kept, seenBy>>

Fold ==
    /\ growPhase = "fold"
    /\ freq' = Bumped(freq, batch[growAt].query)
    /\ IF growAt < Len(batch) THEN growAt' = growAt + 1 /\ UNCHANGED growPhase
       ELSE growAt' = 1 /\ growPhase' = "promote"
    /\ UNCHANGED <<cacheVars, batch, growth, kept, seenBy>>

\* A record the pass may promote.
Promotable(r) == r.kind = "infer" /\ FreqOf(r.query) >= Threshold
Superseded(i) == \E j \in (i + 1) .. Len(batch) : batch[j].query = batch[i].query

\* Is the cache below its high-water mark?
Room == used < HighWater

Promote ==
    /\ growPhase = "promote" /\ growAt <= Len(batch) /\ Room
    /\ LET r == batch[growAt] IN
       IF Promotable(r) /\ ~Superseded(growAt)
       THEN CacheInsert(r.query, r.action)
       ELSE UNCHANGED cacheVars
    /\ growAt' = growAt + 1
    /\ UNCHANGED <<freq, batch, growPhase, growth, kept, seenBy>>

\* g_cache_growth_count
Grown == used - Cardinality(DOMAIN Patterns)

EndPass ==
    /\ growPhase = "promote" /\ (growAt > Len(batch) \/ ~Room)
    /\ growth' = Grown
    /\ kept' = Committed /\ batch' = <<>>
    /\ growPhase' = "run" /\ growAt' = 0
    /\ UNCHANGED <<cacheVars, freq, seenBy>>

\* The counts of the records of a store.
Seed(keys) == LET seed[i \in 0 .. Len(keys)] ==
                     IF i = 0 THEN [q \in {} |-> 0] ELSE Bumped(seed[i - 1], keys[i])
              IN  seed[Len(keys)]

\* The box restarts: batch and cache are lost, the counts come from the store.
Reboot ==
    /\ CacheClear
    /\ freq' = Seed(kept)
    /\ batch' = <<>> /\ growAt' = 0 /\ growPhase' = "load" /\ growth' = 0
    /\ UNCHANGED <<kept, seenBy>>

Learned == Asked \ DOMAIN Patterns

GrowNext ==
    \/ \E p \in DOMAIN Patterns : Load(p) \/ AskCache(p)
    \/ \E q \in Learned : ServePromoted(q) \/ AskModel(q)
    \/ StartPass \/ Fold \/ Promote \/ EndPass \/ Reboot

GrowSpec == GrowInit /\ [][GrowNext]_growVars

-----------------------------------------------------------------------------
(* Properties *)

CgTypeOK ==
    /\ DOMAIN freq \subseteq CacheQueries /\ \A q \in DOMAIN freq : freq[q] \in 1 .. Threshold
    /\ Len(batch) <= BatchMax /\ Len(kept) <= StoreKept
    /\ growPhase \in {"load", "run", "fold", "promote"} /\ growAt \in 0 .. (BatchMax + 1)
    /\ growth \in 0 .. CacheSize

\* Growth never costs a pattern: every pattern is still answered with its own
\* action and empty slots survive, so that eviction never runs (main_x86.c: "Growth is
\* capped at CG_PROMOTE_HWM so EMPTY slots survive").
PatternsStay == growPhase # "load" =>
    /\ \A p \in DOMAIN Patterns : \E s \in FoundAt(p) : entries[s].action = Patterns[p]
    /\ \E i \in CacheSlots : entries[i] = CacheEmpty

\* Only what was asked repeatedly is promoted, whatever table of counts is full and
\* whatever was lost or counted again at a reboot.
RepeatedOnly == \A q \in Learned : FoundAt(q) # {} => seenBy[q] >= Threshold

\* Between passes the telemetry's growth count is the number of promoted queries.
GrowthCounted ==
    growPhase = "run" => growth = Cardinality({q \in Learned : FoundAt(q) # {}})

\* Once the patterns are loaded, growth takes in what was asked often enough and never at
\* the cost of a pattern.
GrowthKeeps == growPhase # "load" => PatternsStay /\ RepeatedOnly /\ GrowthCounted
=============================================================================
