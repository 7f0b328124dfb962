----------------------------- MODULE BeliefStore -----------------------------
(***************************************************************************)
(* The household store of phase7/memory/jarvis_memory: what was heard       *)
(* (spans, each of a cluster of voices), what is believed for it (rows on a *)
(* slot), which spans a row rests on, what the indexes hold and what the    *)
(* audit names (store.py, with the rules of rules.py and people.py).        *)
(*                                                                         *)
(* A write is one transaction; the confidence of the rows it touched is     *)
(* computed in a second one, and the process may stop in between.  A slot   *)
(* stands for a subject with its predicate, an edge slot for two persons    *)
(* with the relation as the value.  What a candidate that fails validation  *)
(* leaves, a line of the audit that names no row, is left out.              *)
(***************************************************************************)
EXTENDS Integers, FiniteSetsExt

CONSTANTS BSpans,        \* spans
          BDay, BVoice,  \* span -> the day it was said, the cluster it is put in
          BClusters, Owner,
          BDates,        \* days a candidate can hold from
          BSlots,        \* slots ...
          MultiSlots,    \* ... on which values accumulate, ...
          EdgeSlots,     \* ... of the edge table
          BValues,
          Households     \* bounds of the model: what is said in each household, which
                         \*   spans a candidate names against itself, and the largest
                         \*   id of its rows

Bounds == [spans : SUBSET BSpans, slots : SUBSET BSlots, values : SUBSET BValues,
           dates : SUBSET BDates, against : SUBSET BSpans, rows : Nat]

ASSUME BeliefAssumption ==
    /\ IsFiniteSet(BSpans) /\ Households \subseteq Bounds
    /\ BDay \in [BSpans -> Nat \ {0}] /\ BDates \subseteq Nat \ {0}
    /\ BVoice \in [BSpans -> BClusters] /\ Owner \in BClusters
    /\ EdgeSlots \subseteq MultiSlots /\ MultiSlots \subseteq BSlots

VARIABLES house,      \* the household, never changed
          speaker,    \* span -> its cluster, for the spans in the store
          n_spans,    \* cluster.n_spans
          beliefs,    \* id -> row
          links,      \* <<id, span, role>>
          audited,    \* ids an audit row names as the loser
          fts,        \* ids in the full-text index
          vectors,    \* ids with an embedding
          todo,       \* ids whose confidence is still to be recomputed
          skipped,    \* history: ids for which that was cut off by a stop
          purged      \* history: ids deleted by a purge

beliefVars == <<house, speaker, n_spans, beliefs, links, audited, fts, vectors, todo, skipped,
                purged>>

Heard == DOMAIN speaker
Kinds == {"inferred", "stated_other", "stated_owner"}
Rank(kind) == CASE kind = "stated_owner" -> 3 [] kind = "stated_other" -> 2 [] OTHER -> 1
Open == 0       \* valid_to of a current row
Nobody == 0     \* superseded_by of a row nothing superseded
Certain == -1   \* confidence 1.0; others are the number of days it is computed from

Current(slot) == {i \in DOMAIN beliefs : beliefs[i].slot = slot /\ beliefs[i].to = Open}
InFts(slot) == slot \notin EdgeSlots
NewId == Max(DOMAIN beliefs \union {0}) + 1

BeliefInit ==
    /\ house \in Households
    /\ speaker = <<>> /\ n_spans = [c \in BClusters |-> 0]
    /\ beliefs = <<>> /\ links = {} /\ audited = {} /\ fts = {} /\ vectors = {}
    /\ todo = {} /\ skipped = {} /\ purged = {}

------------------------------------------------------------------------------
(* What was heard *)

AddSpan(s) ==
    /\ todo = {} /\ s \notin Heard
    /\ speaker' = [t \in Heard \union {s} |-> IF t = s THEN BVoice[s] ELSE speaker[t]]
    /\ n_spans' = [n_spans EXCEPT ![BVoice[s]] = @ + 1]
    /\ UNCHANGED <<house, beliefs, links, audited, fts, vectors, todo, skipped, purged>>

Of(c) == {s \in Heard : speaker[s] = c}

\* A cluster turns out to be one already known: its spans are relabelled and its row goes.  A
\* cluster of the same voice that appears later is a new one of that name.
MergeCluster(src, dst) ==
    /\ todo = {} /\ src # dst
    /\ speaker' = [s \in Heard |-> IF speaker[s] = src THEN dst ELSE speaker[s]]
    /\ n_spans' = [n_spans EXCEPT ![src] = 0, ![dst] = Cardinality(Of(src) \union Of(dst))]
    /\ UNCHANGED <<house, beliefs, links, audited, fts, vectors, todo, skipped, purged>>

------------------------------------------------------------------------------
(* ingest: a candidate that passed validate *)

\* What is stated cites spans of one speaker, whoever that is; what is inferred ends nothing.
\* The spans a candidate names against itself are not looked at; they are some that its author
\* put in the store (bench/harness.py).  On slots of many nothing asks for said_at, on the
\* others nothing asks for ended.
Validated ==
    {c \in [slot : house.slots, value : house.values, kind : Kinds, from : house.dates,
            said_at : BOOLEAN, ended : BOOLEAN, spans : (SUBSET Heard) \ {{}},
            contradicts : SUBSET (Heard \intersect house.against)] :
        /\ c.kind # "inferred" => \E v \in BClusters : c.spans \subseteq Of(v)
        /\ c.ended => c.kind # "inferred"
        /\ IF c.slot \in MultiSlots THEN ~c.said_at ELSE ~c.ended}

\* R3.  A stored row has no said_at: a candidate with one wins a tie.
Fresher(c, e) == c.from > e.from \/ (c.from = e.from /\ c.said_at)

\* Mutant of Cleared: the row is closed before it is looked at.
ClearedLate(gone) == {}

\* Rows that leave the indexes as they are closed: those still current.
Cleared(gone) == {i \in gone : beliefs[i].to = Open}

Unindex(gone, new) ==
    /\ fts' = (fts \ Cleared(gone)) \union new
    /\ vectors' = vectors \ Cleared(gone)

\* The row of a candidate; confidence is computed later.
Row(c, to, by) == [slot |-> c.slot, value |-> c.value, kind |-> c.kind, from |-> c.from,
                   to |-> to, by |-> by, conf |-> Certain]

\* The links of a row with the candidate's spans.
Cited(i, c) == {<<i, s, "support">> : s \in c.spans}
                 \union {<<i, s, "contradict">> : s \in c.contradicts}

\* A row for the candidate, closed if `to` says so, in place of the rows in `closes`.
Write(c, to, by, closes) ==
    /\ NewId <= house.rows
    /\ beliefs' = [i \in DOMAIN beliefs \union {NewId} |->
                     IF i = NewId THEN Row(c, to, by)
                     ELSE IF i \in closes THEN [beliefs[i] EXCEPT !.to = c.from, !.by = NewId]
                     ELSE beliefs[i]]
    /\ links' = links \union Cited(NewId, c)
    /\ audited' = audited \union closes \union (IF to = Open THEN {} ELSE {NewId})
    /\ Unindex(closes, IF to = Open /\ InFts(c.slot) THEN {NewId} ELSE {})
    /\ todo' = {NewId}
    /\ skipped' = skipped \ {NewId}
    /\ UNCHANGED <<house, speaker, n_spans, purged>>

SameValue(c) == {i \in Current(c.slot) : beliefs[i].value = c.value}

\* Evidence for a value held on the slot goes to its row, whose rank it may raise.
Accrue(c) ==
    /\ c.slot \in MultiSlots /\ ~c.ended /\ SameValue(c) # {}
    /\ LET i == Min(SameValue(c)) IN
       /\ links' = links \union Cited(i, c)
       /\ beliefs' = IF Rank(c.kind) > Rank(beliefs[i].kind)
                     THEN [beliefs EXCEPT ![i].kind = c.kind] ELSE beliefs
       /\ todo' = {i}
    /\ UNCHANGED <<house, speaker, n_spans, audited, fts, vectors, skipped, purged>>

\* R4: a speaker says that a value has ended.
EndValue(c) ==
    /\ c.ended /\ SameValue(c) # {}
    /\ LET i == Min(SameValue(c)) IN
       /\ beliefs' = [beliefs EXCEPT ![i].to = c.from]
       /\ audited' = audited \union {i}
       /\ Unindex({i}, {})
    /\ UNCHANGED <<house, speaker, n_spans, links, todo, skipped, purged>>

\* A new value on a slot of many, that a speaker says has ended included.
Coexist(c) ==
    /\ c.slot \in MultiSlots /\ SameValue(c) = {}
    /\ Write(c, Open, Nobody, {})

Outranked(c) == {i \in Current(c.slot) : Rank(beliefs[i].kind) < Rank(c.kind)}
Equals(c)    == {i \in Current(c.slot) : Rank(beliefs[i].kind) = Rank(c.kind)}
LosesTo(c)   == {i \in Equals(c) : ~Fresher(c, beliefs[i])}

\* Older than a row of its rank: written as history, and closes nothing.
History(c) ==
    /\ c.slot \notin MultiSlots /\ LosesTo(c) # {}
    /\ LET w == Min(LosesTo(c)) IN Write(c, beliefs[w].from, w, {})

\* The value of the slot from now on, or a row beside one of higher rank.
Settle(c) ==
    /\ c.slot \notin MultiSlots /\ LosesTo(c) = {}
    /\ Write(c, Open, Nobody, Outranked(c) \union Equals(c))

Ingest(c) == todo = {} /\ (Accrue(c) \/ EndValue(c) \/ Coexist(c) \/ History(c) \/ Settle(c))

\* apply_evidence_rules: spans of the owner on a day contradict the edges to a person.
Contradict(sids) ==
    /\ todo = {} /\ Cardinality({BDay[s] : s \in sids}) = 1
    /\ LET ids == {i \in DOMAIN beliefs : beliefs[i].slot \in EdgeSlots /\ beliefs[i].to = Open} IN
       /\ ids # {}
       /\ links' = links \union (ids \X sids \X {"contradict"})
       /\ todo' = ids
    /\ UNCHANGED <<house, speaker, n_spans, beliefs, audited, fts, vectors, skipped, purged>>

------------------------------------------------------------------------------
(* Confidence, in a transaction of its own for each row *)

On(i, role) == {BDay[s] : s \in {t \in Heard : <<i, t, role>> \in links}}
Net(i) == Cardinality(On(i, "support")) - Cardinality(On(i, "contradict"))

\* R5: what a speaker stated is certain; an inference is worth its days.
Confidence(i) ==
    IF beliefs[i].kind # "inferred" THEN Certain ELSE IF Net(i) > 0 THEN Net(i) ELSE 0

Recompute(i) ==
    /\ i \in todo
    /\ beliefs' = [beliefs EXCEPT ![i].conf = Confidence(i)]
    /\ todo' = todo \ {i}
    /\ skipped' = skipped \ {i}
    /\ UNCHANGED <<house, speaker, n_spans, links, audited, fts, vectors, purged>>

\* The process stops after the transaction and is started again.
StopBetween ==
    /\ todo # {}
    /\ todo' = {} /\ skipped' = skipped \union todo
    /\ UNCHANGED <<house, speaker, n_spans, beliefs, links, audited, fts, vectors, purged>>

------------------------------------------------------------------------------
(* The batch job of the vectors, and the purge *)

\* embed_pending: every current row that has no vector gets one.
EmbedPending ==
    /\ todo = {}
    /\ vectors' = vectors \union {i \in DOMAIN beliefs : /\ beliefs[i].to = Open
                                                         /\ InFts(beliefs[i].slot)}
    /\ UNCHANGED <<house, speaker, n_spans, beliefs, links, audited, fts, todo, skipped, purged>>

Evidence(i) == {s \in BSpans : \E role \in {"support", "contradict"} : <<i, s, role>> \in links}

\* Rows that rest on the spans purged alone.
Doomed(gone) == {i \in DOMAIN beliefs : Evidence(i) # {} /\ Evidence(i) \subseteq gone}

\* R7: the spans of a cluster go, with the rows that rest on them alone.
PurgeCluster(c) ==
    /\ todo = {}
    /\ LET gone == Of(c)
           kept == {i \in DOMAIN beliefs \ Doomed(gone) : Evidence(i) \intersect gone # {}} IN
       /\ speaker' = [s \in Heard \ gone |-> speaker[s]]
       /\ beliefs' = [i \in DOMAIN beliefs \ Doomed(gone) |-> beliefs[i]]
       /\ links' = {l \in links : l[1] \notin Doomed(gone) /\ l[2] \notin gone}
       /\ audited' = audited \union Doomed(gone) \union kept
       /\ Unindex(Doomed(gone), {})
       /\ todo' = kept
       /\ skipped' = skipped \ Doomed(gone)
       /\ purged' = purged \union Doomed(gone)
    /\ n_spans' = [n_spans EXCEPT ![c] = 0] /\ UNCHANGED house

------------------------------------------------------------------------------
BeliefNext ==
    \/ \E s \in house.spans : AddSpan(s)
    \/ \E src, dst \in BClusters : MergeCluster(src, dst)
    \/ \E c \in Validated : Ingest(c)
    \/ \E sids \in SUBSET Of(Owner) : Contradict(sids)
    \/ \E i \in todo : Recompute(i)
    \/ StopBetween
    \/ EmbedPending
    \/ \E c \in BClusters : PurgeCluster(c)

BeliefSpec == BeliefInit /\ [][BeliefNext]_beliefVars

------------------------------------------------------------------------------
(* Properties *)

\* Rows, links and indexes keep their types.
BeliefTypeOK ==
    /\ house \in Households /\ Heard \subseteq BSpans /\ speaker \in [Heard -> BClusters]
    /\ n_spans \in [BClusters -> 0 .. Cardinality(BSpans)]
    /\ DOMAIN beliefs \subseteq 1 .. house.rows
    /\ \A i \in DOMAIN beliefs :
          beliefs[i] \in [slot : BSlots, value : BValues, kind : Kinds, from : BDates,
                         to : BDates \union {Open}, by : 0 .. house.rows,
                         conf : Certain .. Cardinality(BSpans)]
    /\ links \subseteq (1 .. house.rows) \X BSpans \X {"support", "contradict"}
    /\ UNION {audited, fts, vectors, todo, skipped, purged} \subseteq 1 .. house.rows

\* A slot of one value has at most one current row of a rank, and one of many at most one of
\* a value (store.py, "Evidence accrues onto a multi-valued row rather than duplicating it").
OneCurrent ==
    \A i, j \in DOMAIN beliefs :
        /\ i # j /\ beliefs[i].slot = beliefs[j].slot
        /\ beliefs[i].to = Open /\ beliefs[j].to = Open
        => IF beliefs[i].slot \in MultiSlots THEN beliefs[i].value # beliefs[j].value
                                            ELSE beliefs[i].kind # beliefs[j].kind

\* What is no longer current is named by the audit (audit_violations finds nothing), ...
LossAudited == \A i \in DOMAIN beliefs : beliefs[i].to # Open => i \in audited

\* ... and lost to a row of the slot that outranks it, or is of its rank and not older.
LossDeserved ==
    \A i \in DOMAIN beliefs : beliefs[i].by \notin purged \union {Nobody} =>
        /\ beliefs[i].by \in DOMAIN beliefs
        /\ LET w == beliefs[beliefs[i].by] IN
           /\ w.slot = beliefs[i].slot
           /\ \/ Rank(w.kind) > Rank(beliefs[i].kind)
              \/ w.kind = beliefs[i].kind /\ w.from >= beliefs[i].from

\* The indexes hold the current rows and nothing else (_drop_from_index, "deleting a rowid
\* that is not present corrupts the index outright").
IndexExact ==
    /\ fts = {i \in DOMAIN beliefs : beliefs[i].to = Open /\ InFts(beliefs[i].slot)}
    /\ vectors \subseteq fts

\* Every row rests on a span that is in the store, and nothing of a purged one is left
\* (purge_cluster); clusters count their spans.
Grounded ==
    /\ links \subseteq (DOMAIN beliefs) \X Heard \X {"support", "contradict"}
    /\ \A i \in DOMAIN beliefs : Evidence(i) # {}
    /\ \A c \in BClusters : n_spans[c] = Cardinality(Of(c))

\* A row's confidence is the one its spans give, unless the process stopped before it was
\* computed (recompute_confidence).
ConfidenceExact ==
    \A i \in DOMAIN beliefs \ (todo \union skipped) : beliefs[i].conf = Confidence(i)

\* Whatever is heard, believed, contradicted, merged, purged, in whatever order, and wherever
\* the process stops, the store is sound.
BeliefSafe ==
    OneCurrent /\ LossAudited /\ LossDeserved /\ IndexExact /\ Grounded /\ ConfidenceExact

\* schema.py, "an audit row that names a loser by id keeps naming the same row".
NamesStay == purged \intersect DOMAIN beliefs = {}
==============================================================================
