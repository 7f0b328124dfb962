----------------------------- MODULE RecallStore -----------------------------
(***************************************************************************)
(* The durable memory of the control-IN lane: the episodic store             *)
(* (ai/episodic_store.c), the recall index over it (ai/ctrl_epi_index.c) and *)
(* the vectors of its questions (ai/embed_store.c), as main_x86.c writes them *)
(* in ctrl_epi_write and ctrl_embed_store_one and rebuilds them at boot.     *)
(*                                                                         *)
(* The machine may stop at any step; the sector then being written keeps its *)
(* old content, has the new one, or is torn.  A write that reports an error   *)
(* may have reached the disk.  A record is the key of its question, whether   *)
(* g3_candidate_usable holds of it, and the number append gave it.  The       *)
(* vector store never rolls (its index refuses the vector one past the last)  *)
(* and validates each record, so it is the set of vectors put in it.         *)
(***************************************************************************)
EXTENDS Integers, Sequences, FiniteSets, FiniteSetsExt

CONSTANTS Keys,          \* normalised questions
          StoreMax,      \* CTRL_EPI_MAX_ENTRIES, of the store and of its index
          MaxTurns, MaxStops, MaxErrors   \* bounds of the model

ASSUME StoreAssumption == StoreMax \in Nat \ {0} /\ MaxTurns \in Nat

VARIABLES dhdr, dslot,     \* the disk: header sector and record sectors
          rhdr,            \* s->hdr in memory
          rix,             \* g_ctrl_epi_index
          vecs,            \* the vector store
          rs,              \* where PA is
          rrec,            \* the record being written
          last_seq,        \* g_ctrl_last_seq
          past, behind,    \* history: slots from the cursor on that are written and not
                           \*   counted; appends the header on disk does not count
          turns, stops, errors

rsVars == <<dhdr, dslot, rhdr, rix, vecs, rs, rrec, last_seq, past, behind, turns, stops, errors>>

NoRecord   == [key |-> "none", usable |-> FALSE, seq |-> 0]
TornRecord    == [key |-> "torn", usable |-> FALSE, seq |-> 0]
Fresh   == [cursor |-> 0, total |-> 0]
Invalid == [cursor |-> 0, total |-> -1]      \* magic, version or checksum does not match

\* epi_store_count, and the slot of a logical index: oldest first.
Count(h)    == Min({h.total, StoreMax})

\* Mutant of SlotOf: a store that has rolled is read from its first slot.
SlotUnrolled(h, li) == IF h.total >= 0 THEN li ELSE h.cursor

SlotOf(h, li) == IF h.total < StoreMax THEN li ELSE (h.cursor + li) % StoreMax
RecAt(li)    == dslot[SlotOf(rhdr, li)]

RsInit ==
    /\ dhdr = Invalid /\ dslot = [s \in 0 .. (StoreMax - 1) |-> NoRecord]
    /\ rhdr = Fresh /\ rix = <<>> /\ vecs = {}
    /\ rs = "off" /\ rrec = NoRecord /\ last_seq = 0
    /\ past = 0 /\ behind = 0 /\ turns = 0 /\ stops = 0 /\ errors = 0

------------------------------------------------------------------------------
(* Boot. *)

\* epi_store_init: continue from a valid header, else an empty store.
StoreBoot ==
    /\ rs = "off"
    /\ rhdr' = IF dhdr = Invalid THEN Fresh ELSE dhdr
    /\ past' = IF dhdr = Invalid THEN 0 ELSE past
    /\ rix' = <<>> /\ rs' = "initflush"
    /\ UNCHANGED <<dhdr, dslot, vecs, rrec, last_seq, behind, turns, stops, errors>>

InitFlush ==
    /\ rs = "initflush" /\ dhdr' = rhdr
    /\ rs' = "build"
    /\ UNCHANGED <<dslot, rhdr, rix, vecs, rrec, last_seq, past, behind, turns, stops, errors>>

\* g3_candidate_usable, the predicate of ctrl_index_add.
Indexed(r) == r.usable

\* ctrl_index_add: only what recall may use, while there is room.
Added(ix, r, li) ==
    IF Indexed(r) /\ Len(ix) < StoreMax THEN Append(ix, [key |-> r.key, li |-> li]) ELSE ix

\* ctrl_index_build: the recallable records, oldest first.
Built(n) == LET ix[i \in 0 .. n] == IF i = 0 THEN <<>> ELSE Added(ix[i - 1], RecAt(i - 1), i - 1)
            IN  ix[n]

BuildIndex ==
    /\ rs = "build" /\ rs' = "idle"
    /\ rix' = Built(Count(rhdr))
    /\ UNCHANGED <<dhdr, dslot, rhdr, vecs, rrec, last_seq, past, behind, turns, stops, errors>>

------------------------------------------------------------------------------
(* ctrl_epi_write: a turn ends and its record is appended. *)

Turn ==
    /\ rs = "idle" /\ turns < MaxTurns
    /\ \E k \in Keys, u \in BOOLEAN : rrec' = [key |-> k, usable |-> u, seq |-> rhdr.total]
    /\ rs' = "record" /\ turns' = turns + 1
    /\ UNCHANGED <<dhdr, dslot, rhdr, rix, vecs, last_seq, past, behind, stops, errors>>

WriteRecord ==
    /\ rs = "record" /\ rs' = "header"
    /\ dslot' = [dslot EXCEPT ![rhdr.cursor] = rrec]
    /\ past' = Max({past, 1})
    /\ UNCHANGED <<dhdr, rhdr, rix, vecs, rrec, last_seq, behind, turns, stops, errors>>

\* The write reports an error: nothing advances, the turn will not be recalled.
RecordError ==
    /\ rs = "record" /\ rs' = "idle" /\ errors < MaxErrors /\ errors' = errors + 1
    /\ dslot' \in {dslot, [dslot EXCEPT ![rhdr.cursor] = rrec]}
    /\ past' = Max({past, 1})
    /\ UNCHANGED <<dhdr, rhdr, rix, vecs, rrec, last_seq, behind, turns, stops>>

Advanced == [cursor |-> (rhdr.cursor + 1) % StoreMax, total |-> rhdr.total + 1]

\* The header follows, then the index entry.
WriteHeader ==
    /\ rs = "header"
    /\ rhdr' = Advanced /\ dhdr' = Advanced
    /\ rix' = Added(rix, rrec, Count(Advanced) - 1)
    /\ last_seq' = IF Indexed(rrec) THEN Count(Advanced) - 1 ELSE last_seq
    /\ past' = past - 1 /\ behind' = 0
    /\ rs' = IF Indexed(rrec) THEN "embed" ELSE "idle"
    /\ UNCHANGED <<dslot, vecs, rrec, turns, stops, errors>>

\* The header in memory counts the record, the one on disk may not; no index entry.
HeaderError ==
    /\ rs = "header" /\ errors < MaxErrors /\ errors' = errors + 1
    /\ rhdr' = Advanced /\ past' = past - 1
    /\ \/ dhdr' = Advanced /\ behind' = 0
       \/ UNCHANGED dhdr /\ behind' = behind + 1
    /\ rs' = "idle"
    /\ UNCHANGED <<dslot, rix, vecs, rrec, last_seq, turns, stops>>

------------------------------------------------------------------------------
(* Vectors: at the answered exit, and in the backfill of the idle loop. *)

\* embed_store_put: a vector that is already there under this number is never replaced.
Put(seq, key, of) ==
    IF \E v \in vecs : v.seq = seq THEN vecs ELSE vecs \cup {[seq |-> seq, key |-> key, of |-> of]}

\* Embed on write; PB may not answer.
EmbedTurn ==
    /\ rs = "embed" /\ rs' = "idle"
    /\ vecs' \in {vecs, Put(last_seq, rrec.key, rrec.seq)}
    /\ UNCHANGED <<dhdr, dslot, rhdr, rix, rrec, last_seq, past, behind, turns, stops, errors>>

\* The backfill takes an indexed record that has no vector, with the number it carries.
Backfill ==
    /\ rs = "idle"
    /\ \E i \in DOMAIN rix :
         LET r == RecAt(rix[i].li) IN
         /\ r.key = rix[i].key /\ Put(r.seq, r.key, r.seq) # vecs
         /\ vecs' = Put(r.seq, r.key, r.seq)
    /\ UNCHANGED <<dhdr, dslot, rhdr, rix, rs, rrec, last_seq, past, behind, turns, stops, errors>>

------------------------------------------------------------------------------
\* The machine stops: memory is lost, the sector being written is old, new or torn.
Stop ==
    /\ rs # "off" /\ stops < MaxStops /\ stops' = stops + 1
    /\ rs' = "off"
    /\ \/ UNCHANGED <<dhdr, dslot>> /\ past' = past + behind /\ behind' = 0
       \/ /\ rs \in {"initflush"} /\ dhdr' = Invalid
          /\ UNCHANGED dslot /\ past' = 0 /\ behind' = 0
       \/ /\ rs = "record" /\ \E r \in {rrec, TornRecord} : dslot' = [dslot EXCEPT ![rhdr.cursor] = r]
          /\ UNCHANGED dhdr /\ past' = Max({past, 1}) + behind /\ behind' = 0
       \/ /\ rs = "header" /\ \/ dhdr' = Advanced /\ past' = past - 1
                              \/ dhdr' = Invalid /\ past' = 0
          /\ UNCHANGED dslot /\ behind' = 0
    /\ rhdr' = Fresh /\ rix' = <<>> /\ rrec' = NoRecord /\ last_seq' = 0
    /\ UNCHANGED <<vecs, turns, errors>>

\* The bound of the model: the store rests.
Rest == rs = "idle" /\ turns = MaxTurns /\ UNCHANGED rsVars

RsNext == StoreBoot \/ InitFlush \/ BuildIndex \/ Turn \/ WriteRecord \/ RecordError \/ WriteHeader
          \/ HeaderError \/ EmbedTurn \/ Backfill \/ Stop \/ Rest

RsSpec == RsInit /\ [][RsNext]_rsVars

------------------------------------------------------------------------------
(* What the lane recalls. *)

\* ctrl_index_lookup: the newest entry of the key, or -1.
Lookup(k) == Max({rix[i].li : i \in {j \in DOMAIN rix : rix[j].key = k}} \cup {-1})

SameKey(r, k) == r.key = k

\* The exact lane of pa_ctrl_gate: the records it may answer from, at most one.
Recalled(k) ==
    IF Lookup(k) = -1 \/ Lookup(k) >= Count(rhdr) THEN {}
    ELSE {r \in {RecAt(Lookup(k))} : SameKey(r, k) /\ r.usable}

\* ctrl_sem_gather: the vectors it compares a question with, each with the record it
\* then answers from.
Candidates ==
    {c \in {<<RecAt(rix[i].li), v>> : i \in DOMAIN rix, v \in vecs} :
       c[2].seq = c[1].seq /\ SameKey(c[1], c[2].key)}

Slots   == 0 .. (StoreMax - 1)
Turns   == [key : Keys, usable : BOOLEAN, seq : 0 .. MaxTurns]
Records == Turns \cup {NoRecord, TornRecord}
Headers == [cursor : Slots, total : 0 .. MaxTurns]

StoreTypeOK ==
    /\ rhdr \in Headers /\ dhdr \in Headers \cup {Invalid}
    /\ dslot \in [Slots -> Records] /\ rrec \in Records
    /\ rix \in Seq([key : Keys, li : Slots]) /\ Len(rix) <= StoreMax
    /\ vecs \subseteq [seq : 0 .. MaxTurns, key : Keys, of : 0 .. MaxTurns]
    /\ rs \in {"off", "initflush", "build", "idle", "record", "header", "embed"}
    /\ {last_seq, turns} \subseteq 0 .. MaxTurns /\ {past, behind, stops, errors} \subseteq Nat

\* Read by logical index, the store is its history from the oldest record to the newest: a
\* record that was written and never counted shows only at the oldest positions of a store
\* that has rolled, and there is at most one such record for every write that reported an
\* error, and one for the stop in between, however often the machine stops.
HistoryInOrder ==
    rs \in {"build", "idle"} =>
      /\ past <= 1 + errors
      /\ \A li \in 0 .. (Count(rhdr) - 1) :
           \/ SlotOf(rhdr, li) \in {(rhdr.cursor + j) % StoreMax : j \in 0 .. (past - 1)}
           \/ RecAt(li).seq = rhdr.total - Count(rhdr) + li

\* While the store has not rolled, a question that was answered is answered from its newest
\* usable turn, across restarts: a failed turn after it never hides it.
NewestAnswer ==
    (rs = "idle" /\ errors = 0 /\ rhdr.total <= StoreMax) =>
      \A k \in Keys :
        LET good == {li \in 0 .. (Count(rhdr) - 1) : RecAt(li).key = k /\ RecAt(li).usable}
        IN Recalled(k) = IF good = {} THEN {} ELSE {RecAt(Max(good))}

\* Whatever the store has been through (rolled under the index, reset, numbers used again),
\* nothing is recalled for a question but a turn on that question, and no question is
\* compared with the vector of another one.
RightRecall ==
    rs = "idle" => /\ \A k \in Keys : \A r \in Recalled(k) : r.key = k /\ r.usable
                   /\ \A c \in Candidates : c[1].key = c[2].key

\* main_x86.c 566 of the number a vector is stored under: "seq == cnt - 1 because
\* epi_store_append stamps the record's seq".
VectorNumber == \A v \in vecs : v.seq = v.of

\* What is recalled is what was stored, in its place, for the question asked, and the newest.
RecallHonest == HistoryInOrder /\ NewestAnswer /\ RightRecall
=============================================================================
