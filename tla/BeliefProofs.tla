----------------------------- MODULE BeliefProofs -----------------------------
(***************************************************************************)
(* Proofs about BeliefStore for every set of spans, voices, slots, values   *)
(* and days and every household of them: its types, and BeliefSafe.         *)
(***************************************************************************)
EXTENDS BeliefStore, FiniteSetTheorems, NaturalsInduction, TLAPS

Ids   == 1 .. house.rows
Roles == {"support", "contradict"}
RowsOf(n) == [slot : BSlots, value : BValues, kind : Kinds, from : BDates,
            to : BDates \union {Open}, by : 0 .. n, conf : Certain .. Cardinality(BSpans)]

\* What is still to be recomputed is a row, and on a slot of many no row replaces another.
TodoHeld   == todo \subseteq DOMAIN beliefs
ManyNoHeir == \A i \in DOMAIN beliefs : beliefs[i].slot \in MultiSlots => beliefs[i].by = Nobody

BeliefInv == BeliefTypeOK /\ TodoHeld /\ ManyNoHeir /\ BeliefSafe

------------------------------------------------------------------------------
(* Numbers and sets. *)

\* A set of ids that is not empty has a least element and, if it is bounded, a greatest.
LEMMA MinIs ==
    ASSUME NEW S \in SUBSET Nat, S # {}
    PROVE  Min(S) \in S /\ \A m \in S : Min(S) <= m
<1> DEFINE R == OpToRel(<, Nat)
<1>1. \A x, y \in Nat : x < y => <<x, y>> \in R
  BY DEF OpToRel
<1>2. IsWellFoundedOn(R, Nat)
  BY NatLessThanWellFounded
<1> HIDE DEF R
<1>3. \E n \in S : \A m \in S : <<m, n>> \notin R
  BY <1>2, WFMin
<1>4. \A m, n \in Nat : m < n \/ n <= m
  OBVIOUS
<1>5. \E n \in S : \A m \in S : n <= m
  BY <1>1, <1>3, <1>4
<1> QED BY <1>5 DEF Min

LEMMA MaxIs ==
    ASSUME NEW n \in Nat, NEW S \in SUBSET (0 .. n), S # {}
    PROVE  Max(S) \in S /\ \A m \in S : m <= Max(S)
<1> DEFINE T == {k \in 0 .. n : n - k \in S}
<1>1. T \in SUBSET Nat /\ T # {}
  <2>1. PICK m \in S : TRUE
    OBVIOUS
  <2>2. n - m \in 0 .. n /\ n - (n - m) = m
    BY <2>1
  <2> QED BY <2>1, <2>2
<1>2. Min(T) \in T /\ \A k \in T : Min(T) <= k
  <2> HIDE DEF T
  <2> QED BY <1>1, MinIs
<1>3. n - Min(T) \in S
  BY <1>2
<1>4. ASSUME NEW m \in S PROVE m <= n - Min(T)
  <2>1. n - m \in T /\ m \in 0 .. n
    OBVIOUS
  <2>2. Min(T) <= n - m /\ Min(T) \in 0 .. n
    BY <1>2, <2>1
  <2> HIDE DEF T
  <2> QED BY <2>1, <2>2
<1>5. \E x \in S : \A y \in S : x >= y
  <2>1. \A y \in S : n - Min(T) >= y
    <3> SUFFICES ASSUME NEW y \in S PROVE n - Min(T) >= y
      OBVIOUS
    <3> HIDE DEF T
    <3>1. y <= n - Min(T) /\ n - Min(T) \in 0 .. n /\ y \in 0 .. n
      BY <1>3, <1>4
    <3> QED BY <3>1
  <2> QED BY <1>3, <2>1
<1>6. Max(S) \in S /\ \A y \in S : Max(S) >= y
  BY <1>5 DEF Max
<1> QED BY <1>6

\* Spans are counted up to their number, and so are their days.
LEMMA SpanCount ==
    ASSUME NEW T \in SUBSET BSpans
    PROVE  /\ IsFiniteSet(T) /\ Cardinality(T) \in 0 .. Cardinality(BSpans)
           /\ Cardinality(BSpans) \in Nat
BY BeliefAssumption, FS_Subset, FS_CardinalityType

LEMMA DayCount ==
    ASSUME NEW T \in SUBSET BSpans
    PROVE  Cardinality({BDay[s] : s \in T}) \in 0 .. Cardinality(BSpans)
<1> DEFINE f == [s \in T |-> BDay[s]]
           D == {BDay[s] : s \in T}
<1>1. f \in Surjection(T, D)
  BY DEF Surjection
<1>2. IsFiniteSet(T) /\ Cardinality(T) \in 0 .. Cardinality(BSpans)
  BY SpanCount
<1>3. IsFiniteSet(D) /\ Cardinality(D) <= Cardinality(T)
  <2> HIDE DEF f, D
  <2> QED BY <1>1, <1>2, FS_Surjection
<1>4. Cardinality(D) \in Nat
  BY <1>3, FS_CardinalityType
<1>5. Cardinality(D) \in 0 .. Cardinality(BSpans)
  <2> HIDE DEF D
  <2> QED BY <1>2, <1>3, <1>4, SpanCount
<1> QED BY <1>5

------------------------------------------------------------------------------
(* Types and rows. *)

LEMMA HouseIs ==
    ASSUME BeliefTypeOK
    PROVE  /\ house.rows \in Nat /\ house.spans \subseteq BSpans /\ house.slots \subseteq BSlots
           /\ house.values \subseteq BValues /\ house.dates \subseteq BDates
           /\ house.dates \subseteq Nat \ {0}
BY BeliefAssumption DEF BeliefTypeOK, Bounds

LEMMA TypeParts ==
    BeliefTypeOK <=>
    /\ house \in Households /\ Heard \subseteq BSpans /\ speaker \in [Heard -> BClusters]
    /\ n_spans \in [BClusters -> 0 .. Cardinality(BSpans)]
    /\ DOMAIN beliefs \subseteq Ids /\ \A i \in DOMAIN beliefs : beliefs[i] \in RowsOf(house.rows)
    /\ links \subseteq Ids \X BSpans \X Roles
    /\ audited \subseteq Ids /\ fts \subseteq Ids /\ vectors \subseteq Ids
    /\ todo \subseteq Ids /\ skipped \subseteq Ids /\ purged \subseteq Ids
<1>1. \A x : x \in UNION {audited, fts, vectors, todo, skipped, purged} <=>
               \/ x \in audited \/ x \in fts \/ x \in vectors
               \/ x \in todo \/ x \in skipped \/ x \in purged
  OBVIOUS
<1>2. UNION {audited, fts, vectors, todo, skipped, purged} \subseteq Ids <=>
             /\ audited \subseteq Ids /\ fts \subseteq Ids /\ vectors \subseteq Ids
             /\ todo \subseteq Ids /\ skipped \subseteq Ids /\ purged \subseteq Ids
  BY <1>1
<1> QED BY <1>2 DEF BeliefTypeOK, Ids, Roles, RowsOf

\* A new row has a new id.
LEMMA NewIdIs ==
    ASSUME BeliefTypeOK
    PROVE  NewId \in Nat \ {0} /\ NewId \notin DOMAIN beliefs
<1> DEFINE S == DOMAIN beliefs \union {0}
<1>1. house.rows \in Nat /\ S \in SUBSET (0 .. house.rows) /\ S # {}
  BY HouseIs DEF BeliefTypeOK
<1>2. Max(S) \in S /\ \A m \in S : m <= Max(S)
  <2> HIDE DEF S
  <2> QED BY <1>1, MaxIs
<1>3. NewId = Max(S) + 1
  BY DEF NewId
<1>4. DOMAIN beliefs \subseteq S /\ S \subseteq Nat
  BY <1>1
<1>5. Max(S) \in Nat /\ Max(S) + 1 \notin S
  <2> DEFINE m == Max(S)
  <2>1. m \in S /\ (\A k \in S : k <= m) /\ S \subseteq Nat
    BY <1>2, <1>4
  <2> HIDE DEF S, m
  <2>2. m \in Nat /\ m + 1 \notin S
    BY <2>1
  <2> QED BY <2>2 DEF m
<1> QED BY <1>3, <1>4, <1>5

\* What the updates of a row leave of it.
LEMMA RowEnded ==
    ASSUME NEW n, NEW r \in RowsOf(n), NEW t \in BDates
    PROVE  LET x == [r EXCEPT !.to = t] IN
           /\ x \in RowsOf(n) /\ x.to = t /\ x.by = r.by
           /\ x.slot = r.slot /\ x.value = r.value /\ x.kind = r.kind /\ x.from = r.from
           /\ x.conf = r.conf
BY DEF RowsOf

LEMMA RowRaised ==
    ASSUME NEW n, NEW r \in RowsOf(n), NEW k \in Kinds
    PROVE  LET x == [r EXCEPT !.kind = k] IN
           /\ x \in RowsOf(n) /\ x.to = r.to /\ x.by = r.by
           /\ x.slot = r.slot /\ x.value = r.value /\ x.kind = k /\ x.from = r.from
           /\ x.conf = r.conf
BY DEF RowsOf

LEMMA RowComputed ==
    ASSUME NEW n, NEW r \in RowsOf(n), NEW c \in Certain .. Cardinality(BSpans)
    PROVE  LET x == [r EXCEPT !.conf = c] IN
           /\ x \in RowsOf(n) /\ x.to = r.to /\ x.by = r.by
           /\ x.slot = r.slot /\ x.value = r.value /\ x.kind = r.kind /\ x.from = r.from
           /\ x.conf = c
BY DEF RowsOf

\* Days are no marks.
LEMMA Marks == Open \notin BDates /\ Open = 0 /\ Nobody = 0
BY BeliefAssumption DEF Open, Nobody

------------------------------------------------------------------------------
(* Confidence. *)

LEMMA ConfidenceType ==
    ASSUME Heard \subseteq BSpans, NEW i
    PROVE  Confidence(i) \in Certain .. Cardinality(BSpans)
<1>1. \A role : {t \in Heard : <<i, t, role>> \in links} \in SUBSET BSpans
  OBVIOUS
<1>2. /\ Cardinality(On(i, "support")) \in 0 .. Cardinality(BSpans)
      /\ Cardinality(On(i, "contradict")) \in 0 .. Cardinality(BSpans)
  BY <1>1, DayCount DEF On
<1>3. Cardinality(BSpans) \in Nat
  BY SpanCount
<1> QED BY <1>2, <1>3 DEF Confidence, Net, Certain

\* The confidence of a row whose kind and whose spans are what they were.
LEMMA ConfidenceStays ==
    ASSUME NEW i, beliefs'[i].kind = beliefs[i].kind,
           \A role \in Roles : {t \in Heard' : <<i, t, role>> \in links'}
                                 = {t \in Heard : <<i, t, role>> \in links}
    PROVE  Confidence(i)' = Confidence(i)
<1>1. \A role \in Roles : On(i, role)' = On(i, role)
  BY DEF On
<1>2. Net(i)' = Net(i)
  BY <1>1 DEF Net, Roles
<1> QED BY <1>2 DEF Confidence

------------------------------------------------------------------------------
(* What is heard. *)

LEMMA TypePartsNext ==
    BeliefTypeOK' <=>
    /\ house' \in Households /\ Heard' \subseteq BSpans /\ speaker' \in [Heard' -> BClusters]
    /\ n_spans' \in [BClusters -> 0 .. Cardinality(BSpans)]
    /\ DOMAIN beliefs' \subseteq Ids' /\ \A i \in DOMAIN beliefs' : beliefs'[i] \in RowsOf(house'.rows)
    /\ links' \subseteq Ids' \X BSpans \X Roles
    /\ audited' \subseteq Ids' /\ fts' \subseteq Ids' /\ vectors' \subseteq Ids'
    /\ todo' \subseteq Ids' /\ skipped' \subseteq Ids' /\ purged' \subseteq Ids'
<1>1. (BeliefTypeOK <=>
        /\ house \in Households /\ Heard \subseteq BSpans /\ speaker \in [Heard -> BClusters]
        /\ n_spans \in [BClusters -> 0 .. Cardinality(BSpans)]
        /\ DOMAIN beliefs \subseteq Ids /\ \A i \in DOMAIN beliefs : beliefs[i] \in RowsOf(house.rows)
        /\ links \subseteq Ids \X BSpans \X Roles
        /\ audited \subseteq Ids /\ fts \subseteq Ids /\ vectors \subseteq Ids
        /\ todo \subseteq Ids /\ skipped \subseteq Ids /\ purged \subseteq Ids)'
  BY TypeParts, PTL
<1> QED BY <1>1

\* Rows, but for their confidence, audit and index are what they were.
RowsRest ==
    /\ UNCHANGED <<house, audited, fts, purged>> /\ DOMAIN beliefs' = DOMAIN beliefs
    /\ \A i \in DOMAIN beliefs :
          /\ beliefs'[i].slot = beliefs[i].slot /\ beliefs'[i].value = beliefs[i].value
          /\ beliefs'[i].kind = beliefs[i].kind /\ beliefs'[i].from = beliefs[i].from
          /\ beliefs'[i].to = beliefs[i].to /\ beliefs'[i].by = beliefs[i].by

LEMMA RowsStay ==
    ASSUME BeliefInv, RowsRest, vectors' \subseteq fts
    PROVE  ManyNoHeir' /\ OneCurrent' /\ LossAudited' /\ LossDeserved' /\ IndexExact'
<1>1. ManyNoHeir'
  BY DEF RowsRest, BeliefInv, ManyNoHeir
<1>2. OneCurrent'
  BY DEF RowsRest, BeliefInv, BeliefSafe, OneCurrent
<1>3. LossAudited'
  BY DEF RowsRest, BeliefInv, BeliefSafe, LossAudited
<1>4. LossDeserved'
  BY DEF RowsRest, BeliefInv, BeliefSafe, LossDeserved, Rank
<1>5. IndexExact'
  BY DEF RowsRest, BeliefInv, BeliefSafe, IndexExact, InFts
<1> QED BY <1>1, <1>2, <1>3, <1>4, <1>5

\* A link names a row, and a span that is in the store.
LEMMA LinkIs ==
    ASSUME Grounded, NEW i, NEW t, NEW role, <<i, t, role>> \in links
    PROVE  i \in DOMAIN beliefs /\ t \in Heard /\ role \in Roles
BY DEF Grounded, Roles

LEMMA AddSpanKeeps ==
    ASSUME BeliefInv, NEW s \in house.spans, AddSpan(s)
    PROVE  BeliefInv'
<1>1. /\ todo = {} /\ s \notin Heard /\ s \in BSpans /\ BVoice[s] \in BClusters
      /\ speaker' = [t \in Heard \union {s} |-> IF t = s THEN BVoice[s] ELSE speaker[t]]
      /\ n_spans' = [n_spans EXCEPT ![BVoice[s]] = @ + 1]
      /\ UNCHANGED <<house, beliefs, links, audited, fts, vectors, todo, skipped, purged>>
  BY HouseIs, BeliefAssumption DEF BeliefInv, AddSpan
<1>2. /\ Heard \subseteq BSpans /\ speaker \in [Heard -> BClusters]
      /\ n_spans \in [BClusters -> 0 .. Cardinality(BSpans)]
  BY TypeParts DEF BeliefInv
<1>3. Heard' = Heard \union {s} /\ speaker' \in [Heard' -> BClusters] /\ Heard' \subseteq BSpans
  BY <1>1, <1>2 DEF Heard
<1>4. \A c \in BClusters : Of(c)' = IF c = BVoice[s] THEN Of(c) \union {s} ELSE Of(c)
  BY <1>1, <1>3 DEF Of
<1>5. \A c \in BClusters : /\ n_spans'[c] = Cardinality(Of(c)')
                           /\ n_spans'[c] \in 0 .. Cardinality(BSpans)
  <2> SUFFICES ASSUME NEW c \in BClusters
               PROVE  /\ n_spans'[c] = Cardinality(Of(c)')
                      /\ Cardinality(Of(c)') \in 0 .. Cardinality(BSpans)
    OBVIOUS
  <2>1. /\ Of(c) \in SUBSET BSpans /\ IsFiniteSet(Of(c)) /\ Of(c)' \in SUBSET BSpans /\ s \notin Of(c)
        /\ n_spans[c] = Cardinality(Of(c))
    <3>1. n_spans[c] = Cardinality(Of(c))
      BY DEF BeliefInv, BeliefSafe, Grounded
    <3>2. Of(c) \in SUBSET BSpans /\ s \notin Of(c)
      BY <1>1, <1>2 DEF Of
    <3>3. Of(c)' \in SUBSET BSpans
      BY <1>1, <1>4, <3>2
    <3> QED BY <3>1, <3>2, <3>3, SpanCount
  <2>2. Cardinality(Of(c) \union {s}) = Cardinality(Of(c)) + 1
    BY <2>1, FS_AddElement
  <2> QED BY <1>1, <1>2, <1>4, <2>1, <2>2, SpanCount
<1>6. n_spans' \in [BClusters -> 0 .. Cardinality(BSpans)]
  BY <1>1, <1>2, <1>5
<1>7. BeliefTypeOK'
  BY <1>1, <1>3, <1>6, TypeParts, TypePartsNext DEF BeliefInv, Ids
<1>8. TodoHeld'
  BY <1>1 DEF TodoHeld
<1>9. Grounded'
  <2>1. links' \subseteq (DOMAIN beliefs') \X Heard' \X {"support", "contradict"}
    BY <1>1, <1>3 DEF BeliefInv, BeliefSafe, Grounded
  <2>2. \A i \in DOMAIN beliefs' : Evidence(i)' # {}
    BY <1>1 DEF BeliefInv, BeliefSafe, Grounded, Evidence
  <2> QED BY <1>5, <2>1, <2>2 DEF Grounded
<1>10. ConfidenceExact'
  <2> SUFFICES ASSUME NEW i \in DOMAIN beliefs' \ (todo' \union skipped')
               PROVE  beliefs'[i].conf = Confidence(i)'
    BY DEF ConfidenceExact
  <2>1. \A role : <<i, s, role>> \notin links
    BY <1>1, LinkIs DEF BeliefInv, BeliefSafe
  <2>2. Confidence(i)' = Confidence(i)
    BY <1>1, <1>3, <2>1, ConfidenceStays
  <2> QED BY <1>1, <2>2 DEF BeliefInv, BeliefSafe, ConfidenceExact
<1>11. RowsRest /\ vectors' \subseteq fts
  BY <1>1 DEF RowsRest, BeliefInv, BeliefSafe, IndexExact
<1> QED BY <1>7, <1>8, <1>9, <1>10, <1>11, RowsStay DEF BeliefInv, BeliefSafe

LEMMA MergeKeeps ==
    ASSUME BeliefInv, NEW src \in BClusters, NEW dst \in BClusters, MergeCluster(src, dst)
    PROVE  BeliefInv'
<1>1. /\ todo = {} /\ src # dst
      /\ speaker' = [s \in Heard |-> IF speaker[s] = src THEN dst ELSE speaker[s]]
      /\ n_spans' = [n_spans EXCEPT ![src] = 0, ![dst] = Cardinality(Of(src) \union Of(dst))]
      /\ UNCHANGED <<house, beliefs, links, audited, fts, vectors, todo, skipped, purged>>
  BY DEF MergeCluster
<1>2. /\ Heard \subseteq BSpans /\ speaker \in [Heard -> BClusters]
      /\ n_spans \in [BClusters -> 0 .. Cardinality(BSpans)]
  BY TypeParts DEF BeliefInv
<1>3. Heard' = Heard /\ speaker' \in [Heard' -> BClusters]
  BY <1>1, <1>2 DEF Heard
<1>4. \A c \in BClusters : Of(c)' = IF c = src THEN {} ELSE IF c = dst THEN Of(src) \union Of(dst)
                                   ELSE Of(c)
  BY <1>1, <1>3 DEF Of
<1>5. \A c \in BClusters : /\ n_spans'[c] = Cardinality(Of(c)')
                           /\ n_spans'[c] \in 0 .. Cardinality(BSpans)
  <2> SUFFICES ASSUME NEW c \in BClusters
               PROVE  /\ n_spans'[c] = Cardinality(Of(c)')
                      /\ Cardinality(Of(c)') \in 0 .. Cardinality(BSpans)
    OBVIOUS
  <2>1. Of(c)' \in SUBSET BSpans /\ n_spans[c] = Cardinality(Of(c))
    BY <1>2, <1>4 DEF Of, BeliefInv, BeliefSafe, Grounded
  <2>2. n_spans'[c] = IF c = src THEN 0 ELSE IF c = dst THEN Cardinality(Of(src) \union Of(dst))
                      ELSE n_spans[c]
    BY <1>1, <1>2
  <2> QED BY <1>4, <2>1, <2>2, SpanCount, FS_EmptySet
<1>6. n_spans' \in [BClusters -> 0 .. Cardinality(BSpans)]
  BY <1>1, <1>2, <1>5
<1>7. BeliefTypeOK'
  BY <1>1, <1>3, <1>6, TypeParts, TypePartsNext DEF BeliefInv, Ids
<1>8. TodoHeld'
  BY <1>1 DEF TodoHeld
<1>9. Grounded'
  <2>1. links' \subseteq (DOMAIN beliefs') \X Heard' \X {"support", "contradict"}
    BY <1>1, <1>3 DEF BeliefInv, BeliefSafe, Grounded
  <2>2. \A i \in DOMAIN beliefs' : Evidence(i)' # {}
    BY <1>1 DEF BeliefInv, BeliefSafe, Grounded, Evidence
  <2> QED BY <1>5, <2>1, <2>2 DEF Grounded
<1>10. ConfidenceExact'
  <2> SUFFICES ASSUME NEW i \in DOMAIN beliefs' \ (todo' \union skipped')
               PROVE  beliefs'[i].conf = Confidence(i)'
    BY DEF ConfidenceExact
  <2>1. Confidence(i)' = Confidence(i)
    BY <1>1, <1>3, ConfidenceStays
  <2> QED BY <1>1, <2>1 DEF BeliefInv, BeliefSafe, ConfidenceExact
<1>11. RowsRest /\ vectors' \subseteq fts
  BY <1>1 DEF RowsRest, BeliefInv, BeliefSafe, IndexExact
<1> QED BY <1>7, <1>8, <1>9, <1>10, <1>11, RowsStay DEF BeliefInv, BeliefSafe

------------------------------------------------------------------------------
(* Evidence against an edge, confidence, a stop, and the vectors. *)

\* Clusters whose spans stay count them.
LEMMA CountsStay ==
    ASSUME BeliefInv, UNCHANGED <<speaker, n_spans>>
    PROVE  /\ Heard' = Heard /\ Heard' \subseteq BSpans /\ speaker' \in [Heard' -> BClusters]
           /\ n_spans' \in [BClusters -> 0 .. Cardinality(BSpans)]
           /\ \A c \in BClusters : n_spans'[c] = Cardinality(Of(c)')
BY TypeParts DEF BeliefInv, BeliefSafe, Grounded, Of, Heard

LEMMA ContradictKeeps ==
    ASSUME BeliefInv, NEW sids \in SUBSET Of(Owner), Contradict(sids)
    PROVE  BeliefInv'
<1> DEFINE ids == {i \in DOMAIN beliefs : beliefs[i].slot \in EdgeSlots /\ beliefs[i].to = Open}
<1>1. /\ todo = {} /\ links' = links \union (ids \X sids \X {"contradict"}) /\ todo' = ids
      /\ UNCHANGED <<house, speaker, n_spans, beliefs, audited, fts, vectors, skipped, purged>>
  BY DEF Contradict
<1>2. ids \subseteq DOMAIN beliefs /\ DOMAIN beliefs \subseteq Ids
  BY TypeParts DEF BeliefInv
<1> HIDE DEF ids
<1>3. sids \subseteq Heard /\ Heard \subseteq BSpans
  BY TypeParts DEF BeliefInv, Of
<1>4. /\ \A i, t, role : <<i, t, role>> \in links' <=>
             <<i, t, role>> \in links \/ (i \in ids /\ t \in sids /\ role = "contradict")
      /\ links' \subseteq Ids \X BSpans \X Roles
      /\ links' \subseteq (DOMAIN beliefs) \X Heard \X {"support", "contradict"}
  BY <1>1, <1>2, <1>3, TypeParts DEF BeliefInv, BeliefSafe, Grounded, Roles
<1>5. BeliefTypeOK'
  BY <1>1, <1>2, <1>4, CountsStay, TypeParts, TypePartsNext DEF BeliefInv, Ids
<1>6. TodoHeld'
  BY <1>1, <1>2 DEF TodoHeld
<1>7. Grounded'
  <2>1. \A i : Evidence(i) \subseteq Evidence(i)'
    BY <1>4 DEF Evidence
  <2>2. \A i \in DOMAIN beliefs' : Evidence(i)' # {}
    BY <1>1, <2>1 DEF BeliefInv, BeliefSafe, Grounded
  <2> QED BY <1>1, <1>4, <2>2, CountsStay DEF Grounded
<1>8. ConfidenceExact'
  <2> SUFFICES ASSUME NEW i \in DOMAIN beliefs' \ (todo' \union skipped')
               PROVE  beliefs'[i].conf = Confidence(i)'
    BY DEF ConfidenceExact
  <2>1. Confidence(i)' = Confidence(i)
    BY <1>1, <1>4, CountsStay, ConfidenceStays
  <2> QED BY <1>1, <2>1 DEF BeliefInv, BeliefSafe, ConfidenceExact
<1>9. RowsRest /\ vectors' \subseteq fts
  BY <1>1 DEF RowsRest, BeliefInv, BeliefSafe, IndexExact
<1> QED BY <1>5, <1>6, <1>7, <1>8, <1>9, RowsStay DEF BeliefInv, BeliefSafe

LEMMA RecomputeKeeps ==
    ASSUME BeliefInv, NEW i \in todo, Recompute(i)
    PROVE  BeliefInv'
<1>1. /\ beliefs' = [beliefs EXCEPT ![i].conf = Confidence(i)]
      /\ todo' = todo \ {i} /\ skipped' = skipped \ {i}
      /\ UNCHANGED <<house, speaker, n_spans, links, audited, fts, vectors, purged>>
  BY DEF Recompute
<1>2. /\ i \in DOMAIN beliefs /\ \A j \in DOMAIN beliefs : beliefs[j] \in RowsOf(house.rows)
      /\ Confidence(i) \in Certain .. Cardinality(BSpans)
  BY TypeParts, ConfidenceType DEF BeliefInv, TodoHeld
<1>3. /\ DOMAIN beliefs' = DOMAIN beliefs
      /\ \A j \in DOMAIN beliefs :
            beliefs'[j] = IF j = i THEN [beliefs[i] EXCEPT !.conf = Confidence(i)] ELSE beliefs[j]
  BY <1>1, <1>2
<1>4. \A j \in DOMAIN beliefs' :
         /\ beliefs'[j] \in RowsOf(house.rows)
         /\ beliefs'[j].slot = beliefs[j].slot /\ beliefs'[j].value = beliefs[j].value
         /\ beliefs'[j].kind = beliefs[j].kind /\ beliefs'[j].from = beliefs[j].from
         /\ beliefs'[j].to = beliefs[j].to /\ beliefs'[j].by = beliefs[j].by
         /\ beliefs'[j].conf = IF j = i THEN Confidence(i) ELSE beliefs[j].conf
  <2> DEFINE r == beliefs[i]
             x == [r EXCEPT !.conf = Confidence(i)]
  <2>1. /\ x \in RowsOf(house.rows) /\ x.to = r.to /\ x.by = r.by
        /\ x.slot = r.slot /\ x.value = r.value /\ x.kind = r.kind /\ x.from = r.from
        /\ x.conf = Confidence(i)
    <3> HIDE DEF r
    <3>1. r \in RowsOf(house.rows) BY <1>2 DEF r
    <3> QED BY <1>2, <3>1, RowComputed
  <2>2. \A j \in DOMAIN beliefs : beliefs'[j] = IF j = i THEN x ELSE beliefs[j]
    BY <1>3
  <2> HIDE DEF x
  <2> QED BY <1>2, <1>3, <2>1, <2>2
<1>5. BeliefTypeOK'
  BY <1>1, <1>3, <1>4, CountsStay, TypeParts, TypePartsNext DEF BeliefInv, Ids
<1>6. TodoHeld'
  BY <1>1, <1>3 DEF BeliefInv, TodoHeld
<1>7. Grounded'
  <2>1. \A j \in DOMAIN beliefs' : Evidence(j)' # {}
    BY <1>1, <1>3 DEF BeliefInv, BeliefSafe, Grounded, Evidence
  <2> QED BY <1>1, <1>3, <2>1, CountsStay DEF Grounded, BeliefInv, BeliefSafe
<1>8. ConfidenceExact'
  <2> SUFFICES ASSUME NEW j \in DOMAIN beliefs' \ (todo' \union skipped')
               PROVE  beliefs'[j].conf = Confidence(j)'
    BY DEF ConfidenceExact
  <2>1. Confidence(j)' = Confidence(j)
    BY <1>1, <1>4, CountsStay, ConfidenceStays
  <2> QED BY <1>1, <1>3, <1>4, <2>1 DEF BeliefInv, BeliefSafe, ConfidenceExact
<1>9. RowsRest /\ vectors' \subseteq fts
  BY <1>1, <1>3, <1>4 DEF RowsRest, BeliefInv, BeliefSafe, IndexExact
<1> QED BY <1>5, <1>6, <1>7, <1>8, <1>9, RowsStay DEF BeliefInv, BeliefSafe

\* Steps that only move rows to the interrupted ones, or give them vectors.
LEMMA IdleKeeps ==
    ASSUME BeliefInv, StopBetween \/ EmbedPending \/ UNCHANGED beliefVars
    PROVE  BeliefInv'
<1>1. /\ UNCHANGED <<house, speaker, n_spans, beliefs, links, audited, fts, purged>>
      /\ todo' \subseteq todo /\ todo' \union skipped' = todo \union skipped
  BY DEF StopBetween, EmbedPending, beliefVars
<1>2. vectors' \subseteq fts
  BY DEF StopBetween, EmbedPending, beliefVars, BeliefInv, BeliefSafe, IndexExact
<1>3. BeliefTypeOK'
  BY <1>1, <1>2, CountsStay, TypeParts, TypePartsNext DEF BeliefInv, Ids
<1>4. TodoHeld'
  BY <1>1 DEF BeliefInv, TodoHeld
<1>5. Grounded'
  <2>1. \A i \in DOMAIN beliefs' : Evidence(i)' # {}
    BY <1>1 DEF BeliefInv, BeliefSafe, Grounded, Evidence
  <2> QED BY <1>1, <2>1, CountsStay DEF Grounded, BeliefInv, BeliefSafe
<1>6. ConfidenceExact'
  <2> SUFFICES ASSUME NEW i \in DOMAIN beliefs' \ (todo' \union skipped')
               PROVE  beliefs'[i].conf = Confidence(i)'
    BY DEF ConfidenceExact
  <2>1. Confidence(i)' = Confidence(i)
    BY <1>1, CountsStay, ConfidenceStays
  <2> QED BY <1>1, <2>1 DEF BeliefInv, BeliefSafe, ConfidenceExact
<1>7. RowsRest
  BY <1>1 DEF RowsRest
<1> QED BY <1>2, <1>3, <1>4, <1>5, <1>6, <1>7, RowsStay DEF BeliefInv, BeliefSafe

------------------------------------------------------------------------------
(* Candidates. *)

LEMMA CandidateIs ==
    ASSUME BeliefTypeOK, NEW c \in Validated
    PROVE  /\ c.slot \in BSlots /\ c.value \in BValues /\ c.kind \in Kinds /\ c.from \in BDates
           /\ c.spans \subseteq Heard /\ c.spans # {} /\ c.from \in Nat \ {0}
           /\ c.contradicts \subseteq Heard
           /\ IF c.slot \in MultiSlots THEN ~c.said_at ELSE ~c.ended
<1>1. /\ c \in [slot : house.slots, value : house.values, kind : Kinds, from : house.dates,
                said_at : BOOLEAN, ended : BOOLEAN, spans : (SUBSET Heard) \ {{}},
                contradicts : SUBSET (Heard \intersect house.against)]
      /\ IF c.slot \in MultiSlots THEN ~c.said_at ELSE ~c.ended
  BY DEF Validated
<1>2. /\ c.slot \in house.slots /\ c.value \in house.values /\ c.kind \in Kinds
      /\ c.from \in house.dates /\ c.spans \in (SUBSET Heard) \ {{}}
      /\ c.contradicts \in SUBSET (Heard \intersect house.against)
  BY <1>1
<1> QED BY <1>1, <1>2, HouseIs

\* The spans a candidate cites are in the store, and all go to one row.
LEMMA CitedIs ==
    ASSUME BeliefTypeOK, NEW c \in Validated, NEW i
    PROVE  /\ Cited(i, c) \subseteq {i} \X Heard \X {"support", "contradict"}
           /\ \A t \in c.spans : <<i, t, "support">> \in Cited(i, c)
<1>1. c.spans \subseteq Heard /\ c.contradicts \subseteq Heard  BY CandidateIs
<1> QED BY <1>1 DEF Cited

LEMMA RankIs ==
    ASSUME NEW k \in Kinds, NEW l \in Kinds
    PROVE  Rank(k) \in 1 .. 3 /\ (Rank(k) = Rank(l) <=> k = l)
BY DEF Kinds, Rank

\* A row of the store is what its fields say.
LEMMA RowIs ==
    ASSUME BeliefTypeOK, NEW i \in DOMAIN beliefs
    PROVE  /\ beliefs[i] \in RowsOf(house.rows) /\ beliefs[i].kind \in Kinds
           /\ beliefs[i].from \in BDates /\ beliefs[i].from \in Nat \ {0}
           /\ i \in Nat \ {0}
<1>1. beliefs[i] \in RowsOf(house.rows) /\ i \in 1 .. house.rows /\ house.rows \in Nat
  BY TypeParts, HouseIs DEF Ids
<1>2. beliefs[i].kind \in Kinds /\ beliefs[i].from \in BDates
  BY <1>1 DEF RowsOf
<1>3. BDates \subseteq Nat \ {0}
  BY BeliefAssumption
<1>4. i \in Nat \ {0}
  <2> DEFINE n == house.rows
  <2> HIDE DEF n
  <2>1. n \in Nat /\ i \in 1 .. n
    BY <1>1 DEF n
  <2> QED BY <2>1
<1>5. beliefs[i].from \in Nat \ {0}
  BY <1>2, <1>3
<1> QED BY <1>1, <1>2, <1>4, <1>5

\* What Write does to the rows: c is there at id n, and the rows it replaces are closed.
Written(c, to, by, closes, n) ==
    /\ n \in Ids /\ n \notin DOMAIN beliefs
    /\ DOMAIN beliefs' = DOMAIN beliefs \union {n}
    /\ beliefs'[n] = Row(c, to, by)
    /\ \A i \in DOMAIN beliefs' : beliefs'[i] \in RowsOf(house.rows)
    /\ \A i \in DOMAIN beliefs :
          /\ beliefs'[i].slot = beliefs[i].slot /\ beliefs'[i].value = beliefs[i].value
          /\ beliefs'[i].kind = beliefs[i].kind /\ beliefs'[i].from = beliefs[i].from
          /\ beliefs'[i].conf = beliefs[i].conf
          /\ beliefs'[i].to = IF i \in closes THEN c.from ELSE beliefs[i].to
          /\ beliefs'[i].by = IF i \in closes THEN n ELSE beliefs[i].by

LEMMA WriteRows ==
    ASSUME BeliefInv, NEW c, c \in Validated, NEW to, to \in BDates \union {Open},
           NEW by, by \in 0 .. house.rows, NEW closes, closes \subseteq DOMAIN beliefs,
           Write(c, to, by, closes)
    PROVE  Written(c, to, by, closes, NewId)
<1> DEFINE n == NewId
<1>1. /\ n \in Nat \ {0} /\ n \notin DOMAIN beliefs /\ n <= house.rows /\ house.rows \in Nat
      /\ beliefs' = [i \in DOMAIN beliefs \union {n} |->
                       IF i = n THEN Row(c, to, by)
                       ELSE IF i \in closes THEN [beliefs[i] EXCEPT !.to = c.from, !.by = n]
                       ELSE beliefs[i]]
  BY NewIdIs, HouseIs DEF Write, BeliefInv
<1> HIDE DEF n
<1>2. n \in Ids /\ n \in 0 .. house.rows
  <2>1. n \in Nat \ {0} /\ n <= house.rows /\ house.rows \in Nat
    BY <1>1
  <2> QED BY <2>1 DEF Ids
<1>3. DOMAIN beliefs' = DOMAIN beliefs \union {n} /\ beliefs'[n] = Row(c, to, by)
  BY <1>1
<1>4. Row(c, to, by) \in RowsOf(house.rows)
  <2>1. Certain \in Certain .. Cardinality(BSpans)
    BY SpanCount DEF Certain
  <2> QED BY <2>1, CandidateIs DEF Row, RowsOf, BeliefInv
<1>5. \A i \in DOMAIN beliefs :
         /\ beliefs'[i] \in RowsOf(house.rows)
         /\ beliefs'[i].slot = beliefs[i].slot /\ beliefs'[i].value = beliefs[i].value
         /\ beliefs'[i].kind = beliefs[i].kind /\ beliefs'[i].from = beliefs[i].from
         /\ beliefs'[i].conf = beliefs[i].conf
         /\ beliefs'[i].to = IF i \in closes THEN c.from ELSE beliefs[i].to
         /\ beliefs'[i].by = IF i \in closes THEN n ELSE beliefs[i].by
  <2> SUFFICES ASSUME NEW i \in DOMAIN beliefs
               PROVE /\ beliefs'[i] \in RowsOf(house.rows)
                     /\ beliefs'[i].slot = beliefs[i].slot /\ beliefs'[i].value = beliefs[i].value
                     /\ beliefs'[i].kind = beliefs[i].kind /\ beliefs'[i].from = beliefs[i].from
                     /\ beliefs'[i].conf = beliefs[i].conf
                     /\ beliefs'[i].to = IF i \in closes THEN c.from ELSE beliefs[i].to
                     /\ beliefs'[i].by = IF i \in closes THEN n ELSE beliefs[i].by
    OBVIOUS
  <2> DEFINE r == beliefs[i]
             d == c.from
             x == [r EXCEPT !.to = d, !.by = n]
  <2>1. r \in RowsOf(house.rows) /\ d \in BDates
    BY RowIs, CandidateIs DEF BeliefInv
  <2>2. beliefs'[i] = IF i \in closes THEN x ELSE r
    BY <1>1
  <2> HIDE DEF r, d
  <2>3. /\ x \in RowsOf(house.rows) /\ x.to = d /\ x.by = n
        /\ x.slot = r.slot /\ x.value = r.value /\ x.kind = r.kind /\ x.from = r.from
        /\ x.conf = r.conf
    <3> DEFINE m == house.rows
    <3>1. m \in Nat /\ n \in 0 .. m /\ r \in RowsOf(m) /\ d \in BDates
      BY <1>1, <1>2, <2>1
    <3> HIDE DEF m
    <3>2. /\ x \in RowsOf(m) /\ x.to = d /\ x.by = n
          /\ x.slot = r.slot /\ x.value = r.value /\ x.kind = r.kind /\ x.from = r.from
          /\ x.conf = r.conf
      BY <3>1 DEF RowsOf
    <3> QED BY <3>2 DEF m
  <2> HIDE DEF x
  <2>4. /\ beliefs'[i] \in RowsOf(house.rows)
        /\ beliefs'[i].slot = r.slot /\ beliefs'[i].value = r.value
        /\ beliefs'[i].kind = r.kind /\ beliefs'[i].from = r.from /\ beliefs'[i].conf = r.conf
        /\ beliefs'[i].to = IF i \in closes THEN d ELSE r.to
        /\ beliefs'[i].by = IF i \in closes THEN n ELSE r.by
    BY <2>1, <2>2, <2>3
  <2> QED BY <2>4 DEF r, d
<1>6. Written(c, to, by, closes, n)
  BY <1>1, <1>2, <1>3, <1>4, <1>5 DEF Written
<1> QED BY <1>6 DEF n

\* A row whose place is free, or that is history.
FitsIn(c, to, closes) ==
    to = Open => \A j \in Current(c.slot) \ closes :
        IF c.slot \in MultiSlots THEN beliefs[j].value # c.value ELSE beliefs[j].kind # c.kind

\* The rows it replaces lose to it, and it lost to the row it names.
Wins(c, closes) ==
    \A j \in closes : \/ Rank(c.kind) > Rank(beliefs[j].kind)
                      \/ c.kind = beliefs[j].kind /\ c.from >= beliefs[j].from
Loses(c, by) ==
    by = Nobody \/ (/\ by \in DOMAIN beliefs /\ beliefs[by].slot = c.slot
                    /\ beliefs[by].kind = c.kind /\ beliefs[by].from >= c.from)

LEMMA WriteKeeps ==
    ASSUME BeliefInv, todo = {}, NEW c, c \in Validated,
           NEW to, to \in BDates \union {Open}, NEW by, NEW closes, Write(c, to, by, closes),
           closes \subseteq Current(c.slot), FitsIn(c, to, closes), Wins(c, closes), Loses(c, by),
           c.slot \in MultiSlots => closes = {} /\ by = Nobody
    PROVE  BeliefInv'
<1> DEFINE n == NewId
<1>1. /\ BeliefTypeOK /\ closes \subseteq DOMAIN beliefs /\ by \in 0 .. house.rows
      /\ \A i \in closes : beliefs[i].slot = c.slot /\ beliefs[i].to = Open
      /\ DOMAIN beliefs \subseteq Ids /\ house.rows \in Nat
  BY HouseIs, TypeParts DEF BeliefInv, Current, Loses, Ids, Nobody
<1>2. /\ n \in Ids /\ n \notin DOMAIN beliefs
      /\ DOMAIN beliefs' = DOMAIN beliefs \union {n}
      /\ beliefs'[n] = Row(c, to, by)
      /\ \A i \in DOMAIN beliefs' : beliefs'[i] \in RowsOf(house.rows)
      /\ \A i \in DOMAIN beliefs :
            /\ beliefs'[i].slot = beliefs[i].slot /\ beliefs'[i].value = beliefs[i].value
            /\ beliefs'[i].kind = beliefs[i].kind /\ beliefs'[i].from = beliefs[i].from
            /\ beliefs'[i].conf = beliefs[i].conf
            /\ beliefs'[i].to = IF i \in closes THEN c.from ELSE beliefs[i].to
            /\ beliefs'[i].by = IF i \in closes THEN n ELSE beliefs[i].by
  <2>1. Written(c, to, by, closes, n)
    BY <1>1, WriteRows
  <2> HIDE DEF n
  <2> QED BY <2>1 DEF Written
<1>3. /\ links' = links \union Cited(n, c)
      /\ audited' = audited \union closes \union (IF to = Open THEN {} ELSE {n})
      /\ fts' = (fts \ Cleared(closes)) \union (IF to = Open /\ InFts(c.slot) THEN {n} ELSE {})
      /\ vectors' = vectors \ Cleared(closes)
      /\ todo' = {n} /\ skipped' = skipped \ {n}
      /\ UNCHANGED <<house, speaker, n_spans, purged>>
  BY DEF Write, Unindex
<1> HIDE DEF n
<1>4. /\ beliefs'[n].slot = c.slot /\ beliefs'[n].value = c.value /\ beliefs'[n].kind = c.kind
      /\ beliefs'[n].from = c.from /\ beliefs'[n].to = to /\ beliefs'[n].by = by
  BY <1>2 DEF Row
<1>5. Cleared(closes) = closes
  BY <1>1 DEF Cleared
<1>6. /\ c.slot \in BSlots /\ c.kind \in Kinds /\ c.from \in BDates /\ c.from # Open
      /\ c.spans \subseteq Heard /\ c.spans # {} /\ n # Nobody /\ Open \notin BDates
  BY <1>1, <1>2, CandidateIs, Marks DEF Ids
<1>7. /\ \A i, t, role : i # n => (<<i, t, role>> \in links' <=> <<i, t, role>> \in links)
      /\ \A t \in c.spans : <<n, t, "support">> \in links'
      /\ links' \subseteq Ids \X BSpans \X Roles
      /\ links' \subseteq (DOMAIN beliefs') \X Heard \X {"support", "contradict"}
  <2>1. /\ Cited(n, c) \subseteq {n} \X Heard \X {"support", "contradict"}
        /\ \A t \in c.spans : <<n, t, "support">> \in Cited(n, c)
    BY <1>1, CitedIs
  <2>2. \A i, t, role : i # n => <<i, t, role>> \notin Cited(n, c)  BY <2>1
  <2>3. Heard \subseteq BSpans /\ links \subseteq Ids \X BSpans \X Roles  BY <1>1, TypeParts
  <2>4. links \subseteq (DOMAIN beliefs) \X Heard \X {"support", "contradict"}
    BY DEF BeliefInv, BeliefSafe, Grounded
  <2> QED BY <1>2, <1>3, <2>1, <2>2, <2>3, <2>4 DEF Roles
<1>8. BeliefTypeOK'
  <2>1. /\ audited' \subseteq Ids /\ fts' \subseteq Ids /\ vectors' \subseteq Ids
        /\ todo' \subseteq Ids /\ skipped' \subseteq Ids /\ purged' \subseteq Ids
    BY <1>1, <1>2, <1>3, TypeParts
  <2> QED BY <1>1, <1>2, <1>3, <1>7, <2>1, CountsStay, TypeParts, TypePartsNext DEF Ids
<1>9. TodoHeld'
  BY <1>2, <1>3 DEF TodoHeld
<1>10. ManyNoHeir'
  BY <1>1, <1>2, <1>4 DEF BeliefInv, ManyNoHeir
<1>11. OneCurrent'
  <2> SUFFICES ASSUME NEW i \in DOMAIN beliefs', NEW j \in DOMAIN beliefs', i # j,
                      beliefs'[i].slot = beliefs'[j].slot,
                      beliefs'[i].to = Open, beliefs'[j].to = Open
               PROVE  IF beliefs'[i].slot \in MultiSlots
                      THEN beliefs'[i].value # beliefs'[j].value
                      ELSE beliefs'[i].kind # beliefs'[j].kind
    BY DEF OneCurrent
  <2>1. ASSUME NEW k \in DOMAIN beliefs, beliefs'[k].to = Open
        PROVE  k \notin closes /\ beliefs[k].to = Open
    BY <1>2, <1>6, <2>1
  <2>2. ASSUME NEW k \in DOMAIN beliefs, beliefs'[k].to = Open, beliefs'[k].slot = c.slot, to = Open
        PROVE  IF c.slot \in MultiSlots THEN beliefs[k].value # c.value ELSE beliefs[k].kind # c.kind
    BY <1>2, <2>1, <2>2 DEF FitsIn, Current
  <2>3. CASE i = n
    BY <1>2, <1>4, <2>2, <2>3
  <2>4. CASE j = n
    BY <1>2, <1>4, <2>2, <2>4
  <2>5. CASE i # n /\ j # n
    BY <1>2, <2>1, <2>5 DEF BeliefInv, BeliefSafe, OneCurrent
  <2> QED BY <2>3, <2>4, <2>5
<1>12. LossAudited'
  BY <1>2, <1>3, <1>4 DEF BeliefInv, BeliefSafe, LossAudited
<1>13. LossDeserved'
  <2> SUFFICES ASSUME NEW i \in DOMAIN beliefs', beliefs'[i].by \notin purged \union {Nobody}
               PROVE  /\ beliefs'[i].by \in DOMAIN beliefs'
                      /\ beliefs'[beliefs'[i].by].slot = beliefs'[i].slot
                      /\ \/ Rank(beliefs'[beliefs'[i].by].kind) > Rank(beliefs'[i].kind)
                         \/ /\ beliefs'[beliefs'[i].by].kind = beliefs'[i].kind
                            /\ beliefs'[beliefs'[i].by].from >= beliefs'[i].from
    BY <1>3 DEF LossDeserved, Rank
  <2>1. CASE i = n
    BY <1>2, <1>3, <1>4, <2>1 DEF Loses
  <2>2. CASE i \in closes
    <3>1. beliefs'[i].by = n /\ i \in DOMAIN beliefs
      BY <1>1, <1>2, <2>2
    <3> QED BY <1>1, <1>2, <1>4, <2>2, <3>1 DEF Wins
  <2>3. CASE i # n /\ i \notin closes
    <3> DEFINE b == beliefs[i].by
    <3>1. i \in DOMAIN beliefs /\ beliefs'[i].by = b
      BY <1>2, <2>3
    <3>2. /\ b \in DOMAIN beliefs /\ beliefs[b].slot = beliefs[i].slot
          /\ \/ Rank(beliefs[b].kind) > Rank(beliefs[i].kind)
             \/ beliefs[b].kind = beliefs[i].kind /\ beliefs[b].from >= beliefs[i].from
      BY <3>1 DEF BeliefInv, BeliefSafe, LossDeserved
    <3> HIDE DEF b
    <3> QED BY <1>2, <3>1, <3>2
  <2> QED BY <2>1, <2>2, <2>3
<1>14. IndexExact'
  <2>1. \A i : i \in fts' <=> i \in DOMAIN beliefs' /\ beliefs'[i].to = Open /\ InFts(beliefs'[i].slot)
    <3> TAKE i
    <3>1. i \in fts <=> i \in DOMAIN beliefs /\ beliefs[i].to = Open /\ InFts(beliefs[i].slot)
      BY DEF BeliefInv, BeliefSafe, IndexExact
    <3>2. CASE i = n
      BY <1>2, <1>3, <1>4, <1>5, <3>1, <3>2 DEF InFts
    <3>3. CASE i # n
      BY <1>2, <1>3, <1>5, <1>6, <3>1, <3>3 DEF InFts
    <3> QED BY <3>2, <3>3
  <2>2. vectors' \subseteq fts'
    BY <1>3 DEF BeliefInv, BeliefSafe, IndexExact
  <2> QED BY <2>1, <2>2 DEF IndexExact, InFts
<1>15. Grounded'
  <2>1. \A i \in DOMAIN beliefs' : Evidence(i)' # {}
    <3> SUFFICES ASSUME NEW i \in DOMAIN beliefs' PROVE Evidence(i)' # {}
      OBVIOUS
    <3>1. CASE i = n
      <4>1. PICK t \in c.spans : t \in BSpans
        BY <1>6, TypeParts, <1>1
      <4> QED BY <1>7, <3>1, <4>1 DEF Evidence
    <3>2. CASE i # n
      <4>1. Evidence(i)' = Evidence(i)
        BY <1>7, <3>2 DEF Evidence
      <4> QED BY <1>2, <3>2, <4>1 DEF BeliefInv, BeliefSafe, Grounded
    <3> QED BY <3>1, <3>2
  <2> QED BY <1>3, <1>7, <2>1, CountsStay DEF Grounded
<1>16. ConfidenceExact'
  <2> SUFFICES ASSUME NEW i \in DOMAIN beliefs' \ (todo' \union skipped')
               PROVE  beliefs'[i].conf = Confidence(i)'
    BY DEF ConfidenceExact
  <2>1. i \in DOMAIN beliefs /\ i # n /\ i \notin skipped
    BY <1>2, <1>3
  <2>2. Confidence(i)' = Confidence(i)
    BY <1>2, <1>3, <1>7, <2>1, CountsStay, ConfidenceStays
  <2> QED BY <1>2, <2>1, <2>2 DEF BeliefInv, BeliefSafe, ConfidenceExact
<1> QED BY <1>8, <1>9, <1>10, <1>11, <1>12, <1>13, <1>14, <1>15, <1>16 DEF BeliefInv, BeliefSafe

LEMMA CoexistKeeps ==
    ASSUME BeliefInv, todo = {}, NEW c, c \in Validated, Coexist(c)
    PROVE  BeliefInv'
<1>1. c.slot \in MultiSlots /\ SameValue(c) = {} /\ Write(c, Open, Nobody, {})
  BY DEF Coexist
<1>2. FitsIn(c, Open, {})
  BY <1>1 DEF FitsIn, SameValue
<1>3. Wins(c, {}) /\ Loses(c, Nobody)
  BY DEF Wins, Loses
<1>4. {} \subseteq Current(c.slot) /\ Open \in BDates \union {Open}
  OBVIOUS
<1> QED BY <1>1, <1>2, <1>3, <1>4, WriteKeeps

LEMMA HistoryKeeps ==
    ASSUME BeliefInv, todo = {}, NEW c, c \in Validated, History(c)
    PROVE  BeliefInv'
<1> DEFINE w == Min(LosesTo(c))
           t == beliefs[w].from
<1>1. c.slot \notin MultiSlots /\ LosesTo(c) # {} /\ Write(c, t, w, {})
  BY DEF History
<1>2. LosesTo(c) \subseteq DOMAIN beliefs /\ DOMAIN beliefs \subseteq Nat
  BY RowIs DEF LosesTo, Equals, Current, BeliefInv
<1>3. w \in LosesTo(c)
  BY <1>1, <1>2, MinIs
<1>4. /\ w \in DOMAIN beliefs /\ beliefs[w].slot = c.slot /\ ~Fresher(c, beliefs[w])
      /\ Rank(beliefs[w].kind) = Rank(c.kind)
  BY <1>3 DEF LosesTo, Equals, Current
<1>5. /\ beliefs[w].kind \in Kinds /\ c.kind \in Kinds /\ t \in BDates /\ t \in Nat \ {0}
      /\ c.from \in Nat \ {0} /\ t # Open
  BY <1>4, RowIs, CandidateIs, Marks DEF BeliefInv
<1>6. beliefs[w].kind = c.kind /\ t >= c.from
  BY <1>4, <1>5, RankIs DEF Fresher
<1>7. Loses(c, w) /\ FitsIn(c, t, {}) /\ Wins(c, {})
  BY <1>4, <1>5, <1>6 DEF Loses, FitsIn, Wins
<1> HIDE DEF w, t
<1> QED BY <1>1, <1>5, <1>7, WriteKeeps

LEMMA SettleKeeps ==
    ASSUME BeliefInv, todo = {}, NEW c, c \in Validated, Settle(c)
    PROVE  BeliefInv'
<1> DEFINE gone == Outranked(c) \union Equals(c)
<1>1. c.slot \notin MultiSlots /\ LosesTo(c) = {} /\ Write(c, Open, Nobody, gone)
  BY DEF Settle
<1>2. gone \subseteq Current(c.slot)
  BY DEF Outranked, Equals
<1>3. \A j \in Current(c.slot) : /\ beliefs[j].kind \in Kinds /\ beliefs[j].from \in Nat \ {0}
                                 /\ Rank(beliefs[j].kind) \in 1 .. 3
  BY RowIs, RankIs DEF Current, BeliefInv
<1>4. c.kind \in Kinds /\ Rank(c.kind) \in 1 .. 3 /\ c.from \in Nat \ {0}
  BY CandidateIs, RankIs DEF BeliefInv
<1>5. FitsIn(c, Open, gone)
  BY <1>1 DEF FitsIn, Equals
<1>6. Wins(c, gone)
  <2> SUFFICES ASSUME NEW j \in gone
               PROVE  \/ Rank(c.kind) > Rank(beliefs[j].kind)
                      \/ c.kind = beliefs[j].kind /\ c.from >= beliefs[j].from
    BY DEF Wins
  <2>1. CASE j \in Outranked(c)
    BY <1>3, <1>4, <2>1 DEF Outranked
  <2>2. CASE j \in Equals(c)
    <3>1. Rank(c.kind) = Rank(beliefs[j].kind) /\ Fresher(c, beliefs[j]) /\ j \in Current(c.slot)
      BY <1>1, <2>2 DEF LosesTo, Equals
    <3>2. c.kind = beliefs[j].kind
      BY <1>3, <1>4, <3>1, RankIs
    <3> QED BY <1>3, <1>4, <3>1, <3>2 DEF Fresher
  <2> QED BY <2>1, <2>2
<1>7. Loses(c, Nobody) /\ Open \in BDates \union {Open}
  BY DEF Loses
<1> HIDE DEF gone
<1> QED BY <1>1, <1>2, <1>5, <1>6, <1>7, WriteKeeps

LEMMA SameIs ==
    ASSUME BeliefTypeOK, NEW c, SameValue(c) # {}
    PROVE  /\ Min(SameValue(c)) \in DOMAIN beliefs /\ beliefs[Min(SameValue(c))].slot = c.slot
           /\ beliefs[Min(SameValue(c))].to = Open
<1>1. SameValue(c) \in SUBSET Nat
  BY RowIs DEF SameValue, Current
<1>2. Min(SameValue(c)) \in SameValue(c)
  BY <1>1, MinIs
<1> QED BY <1>2 DEF SameValue, Current

LEMMA EndValueKeeps ==
    ASSUME BeliefInv, todo = {}, NEW c, c \in Validated, EndValue(c)
    PROVE  BeliefInv'
<1> DEFINE i == Min(SameValue(c))
<1>1. /\ c.ended /\ SameValue(c) # {}
      /\ beliefs' = [beliefs EXCEPT ![i].to = c.from]
      /\ audited' = audited \union {i}
      /\ fts' = (fts \ Cleared({i})) \union {} /\ vectors' = vectors \ Cleared({i})
      /\ UNCHANGED <<house, speaker, n_spans, links, todo, skipped, purged>>
  BY DEF EndValue, Unindex
<1>2. i \in DOMAIN beliefs /\ beliefs[i].slot = c.slot /\ beliefs[i].to = Open
  BY <1>1, SameIs DEF BeliefInv
<1>3. c.from \in BDates /\ c.from # Open /\ beliefs[i] \in RowsOf(house.rows)
  BY <1>2, CandidateIs, RowIs, Marks DEF BeliefInv
<1> HIDE DEF i
<1>4. /\ DOMAIN beliefs' = DOMAIN beliefs
      /\ \A j \in DOMAIN beliefs :
            /\ beliefs'[j] \in RowsOf(house.rows)
            /\ beliefs'[j].slot = beliefs[j].slot /\ beliefs'[j].value = beliefs[j].value
            /\ beliefs'[j].kind = beliefs[j].kind /\ beliefs'[j].from = beliefs[j].from
            /\ beliefs'[j].to = IF j = i THEN c.from ELSE beliefs[j].to
            /\ beliefs'[j].by = beliefs[j].by /\ beliefs'[j].conf = beliefs[j].conf
  <2> DEFINE r == beliefs[i]
             d == c.from
             x == [r EXCEPT !.to = d]
  <2>1. r \in RowsOf(house.rows) /\ d \in BDates
    BY <1>3
  <2>2. /\ DOMAIN beliefs' = DOMAIN beliefs
        /\ \A j \in DOMAIN beliefs : beliefs'[j] = IF j = i THEN x ELSE beliefs[j]
    BY <1>1, <1>2
  <2> HIDE DEF r, d
  <2>3. /\ x \in RowsOf(house.rows) /\ x.to = d /\ x.by = r.by
        /\ x.slot = r.slot /\ x.value = r.value /\ x.kind = r.kind /\ x.from = r.from
        /\ x.conf = r.conf
    BY <2>1, RowEnded
  <2> HIDE DEF x
  <2> QED BY <1>2, <2>2, <2>3, RowIs DEF r, d, BeliefInv
<1>5. Cleared({i}) = {i}
  BY <1>2 DEF Cleared
<1>6. BeliefTypeOK'
  <2>1. audited' \subseteq Ids /\ fts' \subseteq Ids /\ vectors' \subseteq Ids
    BY <1>1, <1>2, TypeParts DEF BeliefInv
  <2> QED BY <1>1, <1>4, <2>1, CountsStay, TypeParts, TypePartsNext DEF BeliefInv, Ids
<1>7. TodoHeld'
  BY <1>1, <1>4 DEF BeliefInv, TodoHeld
<1>8. ManyNoHeir'
  BY <1>4 DEF BeliefInv, ManyNoHeir
<1>9. OneCurrent'
  BY <1>3, <1>4 DEF BeliefInv, BeliefSafe, OneCurrent
<1>10. LossAudited'
  BY <1>1, <1>4 DEF BeliefInv, BeliefSafe, LossAudited
<1>11. LossDeserved'
  BY <1>1, <1>4 DEF BeliefInv, BeliefSafe, LossDeserved, Rank
<1>12. IndexExact'
  <2>1. \A j : j \in fts' <=> j \in DOMAIN beliefs' /\ beliefs'[j].to = Open /\ InFts(beliefs'[j].slot)
    BY <1>1, <1>3, <1>4, <1>5 DEF BeliefInv, BeliefSafe, IndexExact
  <2>2. vectors' \subseteq fts'
    BY <1>1 DEF BeliefInv, BeliefSafe, IndexExact
  <2> QED BY <2>1, <2>2 DEF IndexExact, InFts
<1>13. Grounded'
  <2>1. \A j \in DOMAIN beliefs' : Evidence(j)' # {}
    BY <1>1, <1>4 DEF BeliefInv, BeliefSafe, Grounded, Evidence
  <2> QED BY <1>1, <1>4, <2>1, CountsStay DEF Grounded, BeliefInv, BeliefSafe
<1>14. ConfidenceExact'
  <2> SUFFICES ASSUME NEW j \in DOMAIN beliefs' \ (todo' \union skipped')
               PROVE  beliefs'[j].conf = Confidence(j)'
    BY DEF ConfidenceExact
  <2>1. Confidence(j)' = Confidence(j)
    BY <1>1, <1>4, CountsStay, ConfidenceStays
  <2> QED BY <1>1, <1>4, <2>1 DEF BeliefInv, BeliefSafe, ConfidenceExact
<1> QED BY <1>6, <1>7, <1>8, <1>9, <1>10, <1>11, <1>12, <1>13, <1>14 DEF BeliefInv, BeliefSafe

LEMMA AccrueKeeps ==
    ASSUME BeliefInv, todo = {}, NEW c, c \in Validated, Accrue(c)
    PROVE  BeliefInv'
<1> DEFINE i == Min(SameValue(c))
<1>1. /\ c.slot \in MultiSlots /\ SameValue(c) # {}
      /\ links' = links \union Cited(i, c)
      /\ beliefs' = IF Rank(c.kind) > Rank(beliefs[i].kind)
                    THEN [beliefs EXCEPT ![i].kind = c.kind] ELSE beliefs
      /\ todo' = {i}
      /\ UNCHANGED <<house, speaker, n_spans, audited, fts, vectors, skipped, purged>>
  BY DEF Accrue
<1>2. i \in DOMAIN beliefs /\ beliefs[i].slot = c.slot
  BY <1>1, SameIs DEF BeliefInv
<1>3. c.kind \in Kinds /\ c.spans \subseteq Heard /\ beliefs[i] \in RowsOf(house.rows)
  BY <1>2, CandidateIs, RowIs DEF BeliefInv
<1> HIDE DEF i
<1>4. /\ DOMAIN beliefs' = DOMAIN beliefs
      /\ \A j \in DOMAIN beliefs :
            /\ beliefs'[j] \in RowsOf(house.rows)
            /\ beliefs'[j].slot = beliefs[j].slot /\ beliefs'[j].value = beliefs[j].value
            /\ j # i => beliefs'[j].kind = beliefs[j].kind
            /\ beliefs'[j].from = beliefs[j].from /\ beliefs'[j].to = beliefs[j].to
            /\ beliefs'[j].by = beliefs[j].by /\ beliefs'[j].conf = beliefs[j].conf
  <2> DEFINE r == beliefs[i]
             k == c.kind
             x == [r EXCEPT !.kind = k]
  <2>1. r \in RowsOf(house.rows) /\ k \in Kinds
    BY <1>3
  <2>2. /\ DOMAIN beliefs' = DOMAIN beliefs
        /\ \A j \in DOMAIN beliefs : beliefs'[j] = beliefs[j] \/ (j = i /\ beliefs'[j] = x)
    BY <1>1, <1>2
  <2> HIDE DEF r, k
  <2>3. /\ x \in RowsOf(house.rows) /\ x.to = r.to /\ x.by = r.by
        /\ x.slot = r.slot /\ x.value = r.value /\ x.from = r.from
        /\ x.conf = r.conf
    BY <2>1, RowRaised
  <2> HIDE DEF x
  <2> QED BY <1>2, <2>2, <2>3, RowIs DEF r, BeliefInv
<1>5. /\ \A j, t, role : j # i => (<<j, t, role>> \in links' <=> <<j, t, role>> \in links)
      /\ links \subseteq links'
      /\ links' \subseteq Ids \X BSpans \X Roles
      /\ links' \subseteq (DOMAIN beliefs') \X Heard \X {"support", "contradict"}
  <2>1. Cited(i, c) \subseteq {i} \X Heard \X {"support", "contradict"}
    BY CitedIs DEF BeliefInv
  <2>2. \A j, t, role : j # i => <<j, t, role>> \notin Cited(i, c)  BY <2>1
  <2>3. Heard \subseteq BSpans /\ links \subseteq Ids \X BSpans \X Roles
        /\ DOMAIN beliefs \subseteq Ids
    BY TypeParts DEF BeliefInv
  <2>4. links \subseteq (DOMAIN beliefs) \X Heard \X {"support", "contradict"}
    BY DEF BeliefInv, BeliefSafe, Grounded
  <2> QED BY <1>1, <1>2, <1>4, <2>1, <2>2, <2>3, <2>4 DEF Roles
<1>6. BeliefTypeOK'
  <2>1. todo' \subseteq Ids
    BY <1>1, <1>2, TypeParts DEF BeliefInv
  <2> QED BY <1>1, <1>4, <1>5, <2>1, CountsStay, TypeParts, TypePartsNext DEF BeliefInv, Ids
<1>7. TodoHeld'
  BY <1>1, <1>2, <1>4 DEF BeliefInv, TodoHeld
<1>8. ManyNoHeir'
  BY <1>4 DEF BeliefInv, ManyNoHeir
<1>9. OneCurrent'
  BY <1>1, <1>2, <1>4 DEF BeliefInv, BeliefSafe, OneCurrent
<1>10. LossAudited'
  BY <1>1, <1>4 DEF BeliefInv, BeliefSafe, LossAudited
<1>11. LossDeserved'
  <2> SUFFICES ASSUME NEW j \in DOMAIN beliefs', beliefs'[j].by \notin purged \union {Nobody}
               PROVE  /\ beliefs'[j].by \in DOMAIN beliefs'
                      /\ beliefs'[beliefs'[j].by].slot = beliefs'[j].slot
                      /\ \/ Rank(beliefs'[beliefs'[j].by].kind) > Rank(beliefs'[j].kind)
                         \/ /\ beliefs'[beliefs'[j].by].kind = beliefs'[j].kind
                            /\ beliefs'[beliefs'[j].by].from >= beliefs'[j].from
    BY <1>1 DEF LossDeserved, Rank
  <2> DEFINE b == beliefs[j].by
  <2>1. /\ j \in DOMAIN beliefs /\ beliefs'[j].by = b
        /\ b \in DOMAIN beliefs /\ beliefs[b].slot = beliefs[j].slot
        /\ \/ Rank(beliefs[b].kind) > Rank(beliefs[j].kind)
           \/ beliefs[b].kind = beliefs[j].kind /\ beliefs[b].from >= beliefs[j].from
    BY <1>4 DEF BeliefInv, BeliefSafe, LossDeserved
  <2>2. beliefs[j].slot \notin MultiSlots
    BY <1>4 DEF BeliefInv, ManyNoHeir
  <2> HIDE DEF b
  <2>3. j # i /\ b # i
    BY <1>1, <1>2, <2>1, <2>2
  <2> QED BY <1>4, <2>1, <2>3
<1>12. IndexExact'
  <2>1. \A j : j \in fts' <=> j \in DOMAIN beliefs' /\ beliefs'[j].to = Open /\ InFts(beliefs'[j].slot)
    BY <1>1, <1>4 DEF BeliefInv, BeliefSafe, IndexExact
  <2>2. vectors' \subseteq fts'
    BY <1>1 DEF BeliefInv, BeliefSafe, IndexExact
  <2> QED BY <2>1, <2>2 DEF IndexExact, InFts
<1>13. Grounded'
  <2>1. \A j : Evidence(j) \subseteq Evidence(j)'
    BY <1>5 DEF Evidence
  <2>2. \A j \in DOMAIN beliefs' : Evidence(j)' # {}
    BY <1>4, <2>1 DEF BeliefInv, BeliefSafe, Grounded
  <2> QED BY <1>1, <1>4, <1>5, <2>2, CountsStay DEF Grounded
<1>14. ConfidenceExact'
  <2> SUFFICES ASSUME NEW j \in DOMAIN beliefs' \ (todo' \union skipped')
               PROVE  beliefs'[j].conf = Confidence(j)'
    BY DEF ConfidenceExact
  <2>1. j # i /\ j \in DOMAIN beliefs \ (todo \union skipped)
    BY <1>1, <1>4
  <2>2. Confidence(j)' = Confidence(j)
    BY <1>1, <1>4, <1>5, <2>1, CountsStay, ConfidenceStays
  <2> QED BY <1>1, <1>4, <2>1, <2>2 DEF BeliefInv, BeliefSafe, ConfidenceExact
<1> QED BY <1>6, <1>7, <1>8, <1>9, <1>10, <1>11, <1>12, <1>13, <1>14 DEF BeliefInv, BeliefSafe

------------------------------------------------------------------------------
(* The purge. *)

LEMMA PurgeKeeps ==
    ASSUME BeliefInv, NEW c \in BClusters, PurgeCluster(c)
    PROVE  BeliefInv'
<1> DEFINE gone == Of(c)
           doomed == Doomed(gone)
           touched == {i \in DOMAIN beliefs \ doomed : Evidence(i) \intersect gone # {}}
<1>1. /\ todo = {} /\ speaker' = [s \in Heard \ gone |-> speaker[s]]
      /\ beliefs' = [i \in DOMAIN beliefs \ doomed |-> beliefs[i]]
      /\ links' = {l \in links : l[1] \notin doomed /\ l[2] \notin gone}
      /\ audited' = audited \union doomed \union touched
      /\ fts' = (fts \ Cleared(doomed)) \union {} /\ vectors' = vectors \ Cleared(doomed)
      /\ todo' = touched /\ skipped' = skipped \ doomed
      /\ purged' = purged \union doomed
      /\ n_spans' = [n_spans EXCEPT ![c] = 0] /\ house' = house
  BY DEF PurgeCluster, Unindex
<1>2. /\ gone \subseteq Heard /\ doomed \subseteq DOMAIN beliefs
      /\ touched \subseteq DOMAIN beliefs \ doomed
      /\ \A i \in DOMAIN beliefs : i \in touched <=> i \notin doomed /\ Evidence(i) \intersect gone # {}
      /\ \A i \in DOMAIN beliefs : i \notin doomed => ~(Evidence(i) \subseteq gone)
  BY DEF Of, Doomed, BeliefInv, BeliefSafe, Grounded
<1>3. Of(c) = gone
  OBVIOUS
<1> HIDE DEF gone, doomed, touched
<1>4. /\ Heard \subseteq BSpans /\ speaker \in [Heard -> BClusters]
      /\ n_spans \in [BClusters -> 0 .. Cardinality(BSpans)] /\ DOMAIN beliefs \subseteq Ids
  BY TypeParts DEF BeliefInv
<1>5. Heard' = Heard \ gone /\ speaker' \in [Heard' -> BClusters] /\ Heard' \subseteq BSpans
  BY <1>1, <1>4 DEF Heard
<1>6. \A d \in BClusters : Of(d)' = IF d = c THEN {} ELSE Of(d)
  <2>1. \A s \in Heard : s \in gone <=> speaker[s] = c
    BY <1>3 DEF Of
  <2>2. \A s \in Heard' : s \in Heard /\ s \notin gone /\ speaker'[s] = speaker[s]
    BY <1>1, <1>5
  <2> QED BY <1>5, <2>1, <2>2 DEF Of
<1>7. \A d \in BClusters : /\ n_spans'[d] = Cardinality(Of(d)')
                           /\ n_spans'[d] \in 0 .. Cardinality(BSpans)
  <2> SUFFICES ASSUME NEW d \in BClusters
               PROVE  /\ n_spans'[d] = Cardinality(Of(d)')
                      /\ Cardinality(Of(d)') \in 0 .. Cardinality(BSpans)
    OBVIOUS
  <2>1. Of(d)' \in SUBSET BSpans /\ n_spans[d] = Cardinality(Of(d))
    BY <1>4, <1>6 DEF Of, BeliefInv, BeliefSafe, Grounded
  <2> QED BY <1>1, <1>4, <1>6, <2>1, SpanCount, FS_EmptySet
<1>8. n_spans' \in [BClusters -> 0 .. Cardinality(BSpans)]
  BY <1>1, <1>4, <1>7
<1>9. /\ DOMAIN beliefs' = DOMAIN beliefs \ doomed
      /\ \A i \in DOMAIN beliefs' : i \in DOMAIN beliefs /\ i \notin doomed /\ beliefs'[i] = beliefs[i]
  BY <1>1
<1>10. \A i, t, role : <<i, t, role>> \in links' <=>
                         <<i, t, role>> \in links /\ i \notin doomed /\ t \notin gone
  BY <1>1
<1>11. /\ links' \subseteq Ids \X BSpans \X Roles
       /\ links' \subseteq (DOMAIN beliefs') \X Heard' \X {"support", "contradict"}
  <2>1. links \subseteq (DOMAIN beliefs) \X Heard \X {"support", "contradict"}
    BY DEF BeliefInv, BeliefSafe, Grounded
  <2>2. links' \subseteq (DOMAIN beliefs') \X Heard' \X {"support", "contradict"}
    BY <1>1, <1>5, <1>9, <2>1
  <2> QED BY <1>4, <1>5, <1>9, <2>2 DEF Roles
<1>12. BeliefTypeOK'
  <2>1. /\ audited' \subseteq Ids /\ fts' \subseteq Ids /\ vectors' \subseteq Ids
        /\ todo' \subseteq Ids /\ skipped' \subseteq Ids /\ purged' \subseteq Ids
    BY <1>1, <1>2, <1>4, TypeParts DEF BeliefInv
  <2> QED BY <1>1, <1>4, <1>5, <1>8, <1>9, <1>11, <2>1, TypeParts, TypePartsNext DEF BeliefInv, Ids
<1>13. TodoHeld'
  BY <1>1, <1>2, <1>9 DEF TodoHeld
<1>14. ManyNoHeir'
  BY <1>9 DEF BeliefInv, ManyNoHeir
<1>15. OneCurrent'
  BY <1>9 DEF BeliefInv, BeliefSafe, OneCurrent
<1>16. LossAudited'
  BY <1>1, <1>9 DEF BeliefInv, BeliefSafe, LossAudited
<1>17. LossDeserved'
  BY <1>1, <1>9 DEF BeliefInv, BeliefSafe, LossDeserved, Rank
<1>18. IndexExact'
  <2>1. \A i : i \in fts' <=> i \in DOMAIN beliefs' /\ beliefs'[i].to = Open /\ InFts(beliefs'[i].slot)
    BY <1>1, <1>2, <1>9 DEF BeliefInv, BeliefSafe, IndexExact, Cleared
  <2>2. vectors' \subseteq fts'
    BY <1>1 DEF BeliefInv, BeliefSafe, IndexExact
  <2> QED BY <2>1, <2>2 DEF IndexExact, InFts
<1>19. Grounded'
  <2>1. \A i \in DOMAIN beliefs' : Evidence(i)' # {}
    <3> SUFFICES ASSUME NEW i \in DOMAIN beliefs' PROVE Evidence(i)' # {}
      OBVIOUS
    <3>1. PICK t \in Evidence(i) : t \notin gone
      BY <1>2, <1>9
    <3>2. t \in Evidence(i)'
      BY <1>9, <1>10, <3>1 DEF Evidence
    <3> QED BY <3>2
  <2> QED BY <1>7, <1>11, <2>1 DEF Grounded
<1>20. ConfidenceExact'
  <2> SUFFICES ASSUME NEW i \in DOMAIN beliefs' \ (todo' \union skipped')
               PROVE  beliefs'[i].conf = Confidence(i)'
    BY DEF ConfidenceExact
  <2>1. i \in DOMAIN beliefs \ (todo \union skipped) /\ i \notin doomed /\ beliefs'[i] = beliefs[i]
    BY <1>1, <1>9
  <2>2. \A t \in Evidence(i) : t \notin gone
    BY <1>1, <1>2, <2>1
  <2>3. \A t \in Heard, role \in Roles : <<i, t, role>> \in links => t \notin gone
    BY <1>4, <2>2 DEF Evidence, Roles
  <2>4. \A role \in Roles : {t \in Heard' : <<i, t, role>> \in links'}
                              = {t \in Heard : <<i, t, role>> \in links}
    BY <1>5, <1>10, <2>1, <2>3
  <2>5. Confidence(i)' = Confidence(i)
    BY <2>1, <2>4, ConfidenceStays
  <2> QED BY <2>1, <2>5 DEF BeliefInv, BeliefSafe, ConfidenceExact
<1> QED BY <1>12, <1>13, <1>14, <1>15, <1>16, <1>17, <1>18, <1>19, <1>20 DEF BeliefInv, BeliefSafe

------------------------------------------------------------------------------
(* The store. *)

LEMMA BeliefInitially == BeliefInit => BeliefInv
<1> SUFFICES ASSUME BeliefInit PROVE BeliefInv
  OBVIOUS
<1>1. /\ house \in Households /\ speaker = <<>> /\ n_spans = [d \in BClusters |-> 0]
      /\ beliefs = <<>> /\ links = {} /\ audited = {} /\ fts = {} /\ vectors = {}
      /\ todo = {} /\ skipped = {} /\ purged = {}
  BY DEF BeliefInit
<1>2. DOMAIN beliefs = {} /\ Heard = {} /\ speaker \in [Heard -> BClusters]
  BY <1>1 DEF Heard
<1>3. n_spans \in [BClusters -> 0 .. Cardinality(BSpans)]
  BY <1>1, SpanCount
<1>4. BeliefTypeOK
  BY <1>1, <1>2, <1>3, TypeParts
<1>5. TodoHeld /\ ManyNoHeir /\ OneCurrent /\ LossAudited /\ LossDeserved /\ IndexExact
      /\ ConfidenceExact
  BY <1>1, <1>2 DEF TodoHeld, ManyNoHeir, OneCurrent, LossAudited, LossDeserved, IndexExact,
                    ConfidenceExact
<1>6. Grounded
  <2>1. \A d \in BClusters : Of(d) = {}
    BY <1>2 DEF Of
  <2> QED BY <1>1, <1>2, <2>1, FS_EmptySet DEF Grounded
<1> QED BY <1>4, <1>5, <1>6 DEF BeliefInv, BeliefSafe

LEMMA BeliefInductive == BeliefInv /\ [BeliefNext]_beliefVars => BeliefInv'
<1> SUFFICES ASSUME BeliefInv, [BeliefNext]_beliefVars PROVE BeliefInv'
  OBVIOUS
<1>1. ASSUME NEW s \in house.spans, AddSpan(s) PROVE BeliefInv'
  BY <1>1, AddSpanKeeps
<1>2. ASSUME NEW src \in BClusters, NEW dst \in BClusters, MergeCluster(src, dst) PROVE BeliefInv'
  BY <1>2, MergeKeeps
<1>3. ASSUME NEW c \in Validated, Ingest(c) PROVE BeliefInv'
  BY <1>3, AccrueKeeps, EndValueKeeps, CoexistKeeps, HistoryKeeps, SettleKeeps DEF Ingest
<1>4. ASSUME NEW sids \in SUBSET Of(Owner), Contradict(sids) PROVE BeliefInv'
  BY <1>4, ContradictKeeps
<1>5. ASSUME NEW i \in todo, Recompute(i) PROVE BeliefInv'
  BY <1>5, RecomputeKeeps
<1>6. CASE StopBetween \/ EmbedPending \/ UNCHANGED beliefVars
  BY <1>6, IdleKeeps
<1>7. ASSUME NEW c \in BClusters, PurgeCluster(c) PROVE BeliefInv'
  BY <1>7, PurgeKeeps
<1> QED BY <1>1, <1>2, <1>3, <1>4, <1>5, <1>6, <1>7 DEF BeliefNext

\* Spans, rows, links, indexes and audit of the household store keep their types (schema.py).
THEOREM BeliefTypeCorrect == BeliefSpec => []BeliefTypeOK
<1>1. BeliefInv => BeliefTypeOK
  BY DEF BeliefInv
<1> QED BY <1>1, BeliefInitially, BeliefInductive, PTL DEF BeliefSpec

\* Whatever is heard, ingested, contradicted, merged and purged, in whatever order, and wherever
\* the process stops between two transactions (store.py): one current row of a rank or a value,
\* every loss audited and deserved, indexes that hold exactly the current rows, no row without a
\* span, and the confidence its spans give.
THEOREM HouseholdIsSound == BeliefSpec => []BeliefSafe
<1>1. BeliefInv => BeliefSafe
  BY DEF BeliefInv
<1> QED BY <1>1, BeliefInitially, BeliefInductive, PTL DEF BeliefSpec
==============================================================================
