----------------------------- MODULE CacheProofs -----------------------------
(***************************************************************************)
(* Proofs about DecisionCache and CacheGrowth for every size of the table,  *)
(* every set of queries and every placement of them, every threshold, table *)
(* of counts, batch and store:                                              *)
(*   - their types;                                                         *)
(*   - Reachable: an entry is found by the probe of its query, and no       *)
(*     query has two;                                                       *)
(*   - ImplementsLru: the table is a bounded map that forgets the least     *)
(*     recently used query first;                                           *)
(*   - GrowthKeeps: growth takes in what was asked often enough, and never  *)
(*     at the cost of a pattern.  What it needs is that a count never       *)
(*     exceeds how often its key was recorded (Counted), through folds,     *)
(*     commits and the counts a reboot takes from the store.                *)
(***************************************************************************)
EXTENDS CacheGrowth, SequenceTheorems, FiniteSetTheorems, NaturalsInduction, TLAPS

------------------------------------------------------------------------------
(* Numbers and sequences. *)

\* A set of naturals that is not empty has a least element.
LEMMA LeastNumber ==
    ASSUME NEW S \in SUBSET Nat, S # {}
    PROVE  \E n \in S : \A m \in S : n <= m
<1> DEFINE R == OpToRel(<, Nat)
<1>1. \A x, y \in Nat : x < y => <<x, y>> \in R
  BY DEF OpToRel
<1>2. IsWellFoundedOn(R, Nat)
  BY NatLessThanWellFounded
<1> HIDE DEF R
<1>3. \E n \in S : \A m \in S : <<m, n>> \notin R
  BY <1>2, WFMin
<1>4. \A m, n \in Nat : m < n \/ n <= m
  OBVIOUS
<1> QED BY <1>1, <1>3, <1>4

\* No element of s occurs twice.
Once(s) == \A m, n \in DOMAIN s : s[m] = s[n] => m = n

\* What RemoveFirst leaves of a sequence that has each element once.
LEMMA DropOne ==
    ASSUME NEW T, NEW s \in Seq(T), Once(s), NEW p \in 1 .. Len(s)
    PROVE /\ RemoveFirst(s, s[p]) \in Seq(T) /\ Len(RemoveFirst(s, s[p])) = Len(s) - 1
           /\ \A n \in 1 .. (Len(s)-1) :
                 RemoveFirst(s, s[p])[n] = IF n < p THEN s[n] ELSE s[n+1]
<1>0. Len(s) \in Nat /\ DOMAIN s = 1 .. Len(s) /\ \A n \in 1 .. Len(s) : s[n] \in T
  BY LenProperties, ElementOfSeq
<1>1. SelectInSeq(s, LAMBDA v : v = s[p]) = p
  <2>1. {i \in 1 .. Len(s) : s[i] = s[p]} = {p}
    BY <1>0 DEF Once
  <2>2. Min({p}) = p
    BY DEF Min
  <2> QED BY <2>1, <2>2 DEF SelectInSeq
<1>2. RemoveFirst(s, s[p]) = SubSeq(s, 1, p-1) \o SubSeq(s, p+1, Len(s))
  BY <1>1 DEF RemoveFirst, RemoveAt
<1>3. /\ SubSeq(s, 1, p-1) \in Seq(T) /\ Len(SubSeq(s, 1, p-1)) = p - 1
      /\ \A n \in 1 .. (p-1) : SubSeq(s, 1, p-1)[n] = s[n]
  BY <1>0, SubSeqProperties
<1>4. /\ SubSeq(s, p+1, Len(s)) \in Seq(T) /\ Len(SubSeq(s, p+1, Len(s))) = Len(s) - p
      /\ \A n \in 1 .. (Len(s) - p) : SubSeq(s, p+1, Len(s))[n] = s[p+n]
  <2>1. p+1 \in Int /\ Len(s) \in Int /\ \A n \in (p+1) .. Len(s) : s[n] \in T
    BY <1>0
  <2>2. /\ SubSeq(s, p+1, Len(s)) \in Seq(T)
        /\ Len(SubSeq(s, p+1, Len(s))) = IF p+1 <= Len(s) THEN Len(s)-(p+1)+1 ELSE 0
        /\ \A n \in 1 .. (Len(s) - (p+1) + 1) : SubSeq(s, p+1, Len(s))[n] = s[(p+1)+n-1]
    BY <2>1, SubSeqProperties
  <2>3. \A n \in 1 .. (Len(s) - p) : (p+1)+n-1 = p+n /\ n \in 1 .. (Len(s) - (p+1) + 1)
    BY <1>0
  <2>4. (IF p+1 <= Len(s) THEN Len(s)-(p+1)+1 ELSE 0) = Len(s) - p
    <3>1. \A k \in Nat : \A m \in 1 .. k : (IF m+1 <= k THEN k-(m+1)+1 ELSE 0) = k - m
      OBVIOUS
    <3> QED BY <1>0, <3>1
  <2> QED BY <2>2, <2>3, <2>4
<1> DEFINE a == SubSeq(s, 1, p-1)
           b == SubSeq(s, p+1, Len(s))
<1> HIDE DEF a, b
<1>5. PICK c : /\ c = a \o b /\ c \in Seq(T) /\ Len(c) = Len(a) + Len(b)
               /\ \A i \in 1 .. Len(a) + Len(b) : c[i] = IF i <= Len(a) THEN a[i] ELSE b[i - Len(a)]
  <2>1. a \in Seq(T) /\ b \in Seq(T)
    BY <1>3, <1>4 DEF a, b
  <2>2. /\ a \o b \in Seq(T) /\ Len(a \o b) = Len(a) + Len(b)
        /\ \A i \in 1 .. Len(a) + Len(b) :
              (a \o b)[i] = IF i <= Len(a) THEN a[i] ELSE b[i - Len(a)]
    BY <2>1, ConcatProperties
  <2> QED BY <2>2, Zenon
<1>6. Len(a) = p - 1 /\ Len(b) = Len(s) - p /\ RemoveFirst(s, s[p]) = c
  BY <1>2, <1>3, <1>4, <1>5 DEF a, b
<1>7. (\A n \in 1 .. (p-1) : a[n] = s[n]) /\ \A n \in 1 .. (Len(s) - p) : b[n] = s[p+n]
  BY <1>3, <1>4 DEF a, b
<1>9. /\ Len(c) = Len(s) - 1
      /\ \A i \in 1 .. (Len(s) - 1) : c[i] = IF i <= p - 1 THEN a[i] ELSE b[i - (p - 1)]
  BY <1>0, <1>5, <1>6
<1>8. ASSUME NEW n \in 1 .. (Len(s)-1) PROVE c[n] = IF n < p THEN s[n] ELSE s[n+1]
  <2>1. CASE n < p
    BY <1>0, <1>9, <1>7, <2>1
  <2>2. CASE n >= p
    <3>1. n - (p-1) \in 1 .. (Len(s) - p) /\ p + (n - (p-1)) = n + 1 /\ ~(n <= p - 1) /\ ~(n < p)
      BY <1>0, <2>2
    <3>2. c[n] = b[n - (p - 1)]
      BY <1>9, <3>1
    <3>3. b[n - (p - 1)] = s[p + (n - (p-1))]
      BY <1>7, <3>1
    <3> QED BY <3>1, <3>2, <3>3
  <2> QED BY <2>1, <2>2, <1>0
<1> QED BY <1>5, <1>6, <1>8, <1>9

\* RemoveFirst leaves a sequence that does not have the element as it is.
LEMMA DropNone ==
    ASSUME NEW T, NEW s \in Seq(T), NEW x, \A n \in 1 .. Len(s) : s[n] # x
    PROVE  RemoveFirst(s, x) = s
BY DEF RemoveFirst

------------------------------------------------------------------------------
(* Tables: what CacheInv says of the slots, of any table. *)

Rows   == [query : CacheQueries, action : CacheActions]
Tables == [CacheSlots -> Rows \union {CacheEmpty, CacheTombstone}]
Held(e) == {i \in CacheSlots : e[i] \notin {CacheEmpty, CacheTombstone}}

\* The probe for q comes to its n-th slot.
Passes(e, q, n) == \A j \in 0 .. (n - 1) : e[Probe(q, j)] # CacheEmpty

Findable(e) == \A i \in Held(e) : \E n \in CacheSlots :
                  Probe(e[i].query, n) = i /\ Passes(e, e[i].query, n)
Single(e)   == \A i, j \in Held(e) : e[i].query = e[j].query => i = j

\* Probes stay in the table and come to every slot of it.
LEMMA ProbeSlots ==
    ASSUME NEW q \in CacheQueries
    PROVE  /\ \A n \in Nat : Probe(q, n) \in CacheSlots
           /\ \A s \in CacheSlots : \E n \in CacheSlots : Probe(q, n) = s
<1> DEFINE h == CacheHome[q]
<1>1. CacheSize \in Nat \ {0} /\ h \in 0 .. (CacheSize - 1)
  BY CacheAssumption
<1> HIDE DEF h
<1>2. \A n \in Nat : Probe(q, n) = (h + n) % CacheSize
  BY DEF Probe, h
<1>3. \A n \in Nat : Probe(q, n) \in CacheSlots
  BY <1>1, <1>2 DEF CacheSlots
<1>4. ASSUME NEW s \in CacheSlots PROVE \E n \in CacheSlots : Probe(q, n) = s
  <2>1. CASE s >= h
    <3>1. s - h \in CacheSlots /\ s \in 0 .. (CacheSize - 1)
      BY <1>1, <2>1 DEF CacheSlots
    <3>2. (h + (s - h)) % CacheSize = s
      BY <1>1, <3>1
    <3> QED BY <1>2, <3>1, <3>2 DEF CacheSlots
  <2>2. CASE s < h
    <3>1. s + CacheSize - h \in CacheSlots /\ s \in 0 .. (CacheSize - 1)
      BY <1>1, <2>2 DEF CacheSlots
    <3>2. (h + (s + CacheSize - h)) % CacheSize = s
      <4>1. h + (s + CacheSize - h) = s + CacheSize
        BY <1>1, <3>1
      <4>2. (s + CacheSize) % CacheSize = s
        BY <1>1, <3>1
      <4> QED BY <4>1, <4>2
    <3> QED BY <1>2, <3>1, <3>2 DEF CacheSlots
  <2> QED BY <1>1, <2>1, <2>2 DEF CacheSlots
<1> QED BY <1>3, <1>4

\* A slot that holds an entry holds a query and an action.
LEMMA HeldRows ==
    ASSUME NEW e \in Tables, NEW i \in Held(e)
    PROVE  i \in CacheSlots /\ e[i] \in Rows /\ e[i].query \in CacheQueries
           /\ e[i].action \in CacheActions
BY DEF Tables, Held, Rows

\* The probe for q comes to slot s, and q is in no other slot.
Fits(e, q, s) ==
    /\ s \in CacheSlots /\ \A i \in Held(e) \ {s} : e[i].query # q
    /\ \E n \in CacheSlots : Probe(q, n) = s /\ Passes(e, q, n)

\* The table with an entry for q at slot s.
PutAt(e, s, q, a) == [e EXCEPT ![s] = CacheEntry(q, a)]

\* An entry for q at a slot its probe comes to, in a table that has q nowhere else.
LEMMA PutKeeps ==
    ASSUME NEW e \in Tables, Findable(e), Single(e),
           NEW q \in CacheQueries, NEW a \in CacheActions, NEW s, Fits(e, q, s)
    PROVE  /\ PutAt(e, s, q, a) \in Tables /\ Held(PutAt(e, s, q, a)) = Held(e) \union {s}
           /\ Findable(PutAt(e, s, q, a)) /\ Single(PutAt(e, s, q, a))
<1> DEFINE f == PutAt(e, s, q, a)
<1> USE DEF Fits
<1>1. /\ CacheEntry(q, a) \in Rows /\ CacheEntry(q, a).query = q
      /\ CacheEntry(q, a) \notin {CacheEmpty, CacheTombstone}
  BY CacheAssumption DEF CacheEntry, Rows
<1>2. f \in Tables /\ f[s] = CacheEntry(q, a) /\ \A i \in CacheSlots \ {s} : f[i] = e[i]
  BY <1>1 DEF Tables, PutAt
<1> HIDE DEF f
<1>3. Held(f) = Held(e) \union {s}
  BY <1>1, <1>2 DEF Held
<1>4. Single(f)
  BY <1>1, <1>2, <1>3 DEF Single, Held
<1>5. ASSUME NEW r \in CacheQueries, NEW m \in CacheSlots, Passes(e, r, m) PROVE Passes(f, r, m)
  <2>1. \A j \in 0 .. (m - 1) : j \in Nat /\ Probe(r, j) \in CacheSlots
    BY ProbeSlots DEF CacheSlots
  <2> QED BY <1>1, <1>2, <1>5, <2>1 DEF Passes
<1>6. ASSUME NEW i \in Held(f)
      PROVE  \E m \in CacheSlots : Probe(f[i].query, m) = i /\ Passes(f, f[i].query, m)
  <2>1. CASE i = s
    BY <1>1, <1>2, <1>5, <2>1
  <2>2. CASE i # s
    <3>1. i \in Held(e) /\ f[i] = e[i]
      BY <1>2, <1>3, <2>2 DEF Held
    <3> QED BY <1>5, <3>1, HeldRows DEF Findable
  <2> QED BY <2>1, <2>2
<1> QED BY <1>2, <1>3, <1>4, <1>6 DEF Findable, f

\* A tombstone where an entry was.
LEMMA DropKeeps ==
    ASSUME NEW e \in Tables, Findable(e), Single(e), NEW s \in Held(e)
    PROVE  LET f == [e EXCEPT ![s] = CacheTombstone] IN
           /\ f \in Tables /\ Held(f) = Held(e) \ {s}
           /\ Findable(f) /\ Single(f)
<1> DEFINE f == [e EXCEPT ![s] = CacheTombstone]
<1>1. s \in CacheSlots /\ CacheTombstone # CacheEmpty
  BY CacheAssumption DEF Held
<1>2. f \in Tables /\ f[s] = CacheTombstone /\ \A i \in CacheSlots \ {s} : f[i] = e[i]
  BY <1>1 DEF Tables
<1> HIDE DEF f
<1>3. Held(f) = Held(e) \ {s}
  BY <1>1, <1>2 DEF Held
<1>4. Single(f)
  BY <1>2, <1>3 DEF Single, Held
<1>5. ASSUME NEW r \in CacheQueries, NEW m \in CacheSlots, Passes(e, r, m) PROVE Passes(f, r, m)
  <2>1. \A j \in 0 .. (m - 1) : j \in Nat /\ Probe(r, j) \in CacheSlots
    BY ProbeSlots DEF CacheSlots
  <2> QED BY <1>1, <1>2, <1>5, <2>1 DEF Passes
<1>6. ASSUME NEW i \in Held(f)
      PROVE  \E m \in CacheSlots : Probe(f[i].query, m) = i /\ Passes(f, f[i].query, m)
  <2>1. i \in Held(e) /\ f[i] = e[i]
    BY <1>2, <1>3 DEF Held
  <2> QED BY <1>5, <2>1, HeldRows DEF Findable
<1> QED BY <1>2, <1>3, <1>4, <1>6 DEF f, Findable

------------------------------------------------------------------------------
(* The slots by age. *)

Listed(w) == {w[i] : i \in DOMAIN w}

\* A list without one of its slots.
LEMMA AgeDrop ==
    ASSUME NEW w \in Seq(CacheSlots), Once(w), NEW s \in Listed(w)
    PROVE  /\ RemoveFirst(w, s) \in Seq(CacheSlots) /\ Once(RemoveFirst(w, s))
           /\ Listed(RemoveFirst(w, s)) = Listed(w) \ {s}
<1>1. PICK k \in Nat : k = Len(w) /\ DOMAIN w = 1 .. k
  BY LenProperties
<1>2. PICK p \in 1 .. k : w[p] = s
  BY <1>1 DEF Listed
<1>3. PICK v : v = RemoveFirst(w, s)
  OBVIOUS
<1>4. /\ v \in Seq(CacheSlots) /\ Len(v) = k - 1
      /\ \A n \in 1 .. (k - 1) : v[n] = IF n < p THEN w[n] ELSE w[n + 1]
  BY <1>1, <1>2, <1>3, DropOne
<1>5. DOMAIN v = 1 .. (k - 1)
  BY <1>4, LenProperties
<1>6. Once(v)
  <2> DEFINE at(n) == IF n < p THEN n ELSE n + 1
  <2>1. \A n \in 1 .. (k - 1) : at(n) \in 1 .. k /\ v[n] = w[at(n)]
    BY <1>4
  <2>2. \A m, n \in 1 .. (k - 1) : at(m) = at(n) => m = n
    OBVIOUS
  <2> HIDE DEF at
  <2>3. ASSUME NEW m \in 1 .. (k - 1), NEW n \in 1 .. (k - 1), v[m] = v[n] PROVE m = n
    <3>1. at(m) \in DOMAIN w /\ at(n) \in DOMAIN w /\ w[at(m)] = w[at(n)]
      BY <1>1, <2>1, <2>3
    <3>2. at(m) = at(n)
      BY <1>1, <3>1 DEF Once
    <3> QED BY <2>2, <3>2
  <2> QED BY <1>5, <2>3 DEF Once
<1>7. Listed(v) \subseteq Listed(w) \ {s}
  <2> SUFFICES ASSUME NEW n \in 1 .. (k - 1) PROVE v[n] \in Listed(w) \ {s}
    BY <1>5 DEF Listed
  <2>1. PICK m \in 1 .. k : m # p /\ v[n] = w[m]
    <3>1. CASE n < p
      BY <1>4, <3>1
    <3>2. CASE n >= p
      BY <1>4, <3>2
    <3> QED BY <3>1, <3>2
  <2> QED BY <1>1, <1>2, <2>1 DEF Listed, Once
<1>8. Listed(w) \ {s} \subseteq Listed(v)
  <2> SUFFICES ASSUME NEW m \in 1 .. k, w[m] # s PROVE w[m] \in Listed(v)
    BY <1>1 DEF Listed
  <2>1. CASE m < p
    <3>1. m \in 1 .. (k - 1) /\ v[m] = w[m]
      BY <1>4, <2>1
    <3> QED BY <1>5, <3>1 DEF Listed
  <2>2. CASE m > p
    <3>1. m - 1 \in 1 .. (k - 1) /\ v[m - 1] = w[m]
      BY <1>4, <2>2
    <3> QED BY <1>5, <3>1 DEF Listed
  <2> QED BY <1>2, <2>1, <2>2
<1> QED BY <1>3, <1>4, <1>6, <1>7, <1>8

\* A list with one slot more.
LEMMA AgeAdd ==
    ASSUME NEW w \in Seq(CacheSlots), Once(w), NEW s \in CacheSlots, s \notin Listed(w)
    PROVE  /\ Append(w, s) \in Seq(CacheSlots) /\ Once(Append(w, s))
           /\ Listed(Append(w, s)) = Listed(w) \union {s}
<1>1. PICK k \in Nat : k = Len(w) /\ DOMAIN w = 1 .. k
  BY LenProperties
<1>2. PICK v : v = Append(w, s)
  OBVIOUS
<1>3. /\ v \in Seq(CacheSlots) /\ DOMAIN v = 1 .. (k + 1) /\ v[k + 1] = s
      /\ \A i \in 1 .. k : v[i] = w[i]
  BY <1>1, <1>2, AppendProperties, LenProperties
<1>4. Once(v)
  BY <1>1, <1>3 DEF Once, Listed
<1>5. Listed(v) = Listed(w) \union {s}
  BY <1>1, <1>3 DEF Listed
<1> QED BY <1>2, <1>3, <1>4, <1>5

\* A list has as many elements as it names.
LEMMA AgeCounts ==
    ASSUME NEW w \in Seq(CacheSlots), Once(w)
    PROVE  Len(w) = Cardinality(Listed(w))
<1>1. Len(w) \in Nat /\ DOMAIN w = 1 .. Len(w) /\ w \in [1 .. Len(w) -> Listed(w)]
  BY LenProperties DEF Listed
<1>2. w \in Bijection(1 .. Len(w), Listed(w))
  BY <1>1 DEF Bijection, Injection, Surjection, Once, Listed, IsInjective
<1> QED BY <1>1, <1>2, FS_CountingElements DEF ExistsBijection

\* A table with the list of its entries by age.
Sane(e, w) ==
    /\ e \in Tables /\ Findable(e) /\ Single(e)
    /\ w \in Seq(CacheSlots) /\ Once(w) /\ Listed(w) = Held(e)

\* A slot is used again.
LEMMA SaneYoung ==
    ASSUME NEW e, NEW w, Sane(e, w), NEW s \in Held(e)
    PROVE  Sane(e, Append(RemoveFirst(w, s), s))
<1>1. PICK v : /\ v = RemoveFirst(w, s) /\ v \in Seq(CacheSlots) /\ Once(v)
               /\ Listed(v) = Held(e) \ {s}
  BY AgeDrop DEF Sane
<1>2. s \in CacheSlots /\ s \notin Listed(v) /\ Listed(v) \union {s} = Held(e)
  BY <1>1 DEF Held
<1>3. /\ Append(v, s) \in Seq(CacheSlots) /\ Once(Append(v, s))
      /\ Listed(Append(v, s)) = Held(e)
  BY <1>1, <1>2, AgeAdd
<1> QED BY <1>1, <1>3 DEF Sane

\* An entry for q is stored where it may be.
LEMMA SanePut ==
    ASSUME NEW e, NEW w, Sane(e, w),
           NEW q \in CacheQueries, NEW a \in CacheActions, NEW s, Fits(e, q, s)
    PROVE  Sane(PutAt(e, s, q, a),
                IF s \in Held(e) THEN Append(RemoveFirst(w, s), s) ELSE Append(w, s))
<1>0. PICK f : f = PutAt(e, s, q, a)
  OBVIOUS
<1>1. f \in Tables /\ Held(f) = Held(e) \union {s} /\ Findable(f) /\ Single(f)
  <2>1. e \in Tables /\ Findable(e) /\ Single(e)
    BY DEF Sane
  <2> QED BY <1>0, <2>1, PutKeeps
<1>2. CASE s \in Held(e)
  <2>1. Sane(e, Append(RemoveFirst(w, s), s))
    BY <1>2, SaneYoung
  <2> QED BY <1>0, <1>1, <1>2, <2>1 DEF Sane
<1>3. CASE s \notin Held(e)
  <2>1. w \in Seq(CacheSlots) /\ Once(w) /\ s \in CacheSlots /\ s \notin Listed(w)
    BY <1>3 DEF Sane, Fits
  <2>2. /\ Append(w, s) \in Seq(CacheSlots) /\ Once(Append(w, s))
        /\ Listed(Append(w, s)) = Listed(w) \union {s}
    BY <2>1, AgeAdd
  <2> QED BY <1>0, <1>1, <1>3, <2>2 DEF Sane
<1> QED BY <1>2, <1>3

\* An entry goes.
LEMMA SaneDrop ==
    ASSUME NEW e, NEW w, Sane(e, w), NEW s \in Held(e)
    PROVE  Sane([e EXCEPT ![s] = CacheTombstone], RemoveFirst(w, s))
<1> DEFINE f == [e EXCEPT ![s] = CacheTombstone]
<1>1. f \in Tables /\ Held(f) = Held(e) \ {s} /\ Findable(f) /\ Single(f)
  BY DropKeeps DEF Sane
<1> HIDE DEF f
<1>2. /\ RemoveFirst(w, s) \in Seq(CacheSlots) /\ Once(RemoveFirst(w, s))
      /\ Listed(RemoveFirst(w, s)) = Held(e) \ {s}
  BY AgeDrop DEF Sane
<1> QED BY <1>1, <1>2 DEF Sane, f

\* The empty table.
LEMMA SaneEmpty == Sane([i \in CacheSlots |-> CacheEmpty], <<>>)
<1> DEFINE e == [i \in CacheSlots |-> CacheEmpty]
<1>1. e \in Tables /\ Held(e) = {}
  BY DEF Tables, Held
<1>2. <<>> \in Seq(CacheSlots) /\ Once(<<>>) /\ Listed(<<>>) = {}
  BY LenProperties DEF Once, Listed
<1> QED BY <1>1, <1>2 DEF Sane, Findable, Single

------------------------------------------------------------------------------
(* Probes. *)

\* A probe goes on until it meets an empty slot.
LEMMA ReachIs ==
    ASSUME NEW q \in CacheQueries
    PROVE  /\ Reach(q) \in 0 .. CacheSize /\ Passes(entries, q, Reach(q))
           /\ Reach(q) < CacheSize => entries[Probe(q, Reach(q))] = CacheEmpty
<1> DEFINE stops == {i \in CacheSlots : entries[Probe(q, i)] = CacheEmpty}
<1>1. CASE stops = {}
  <2>1. Reach(q) = CacheSize
    BY <1>1 DEF Reach
  <2> QED BY <1>1, <2>1, CacheAssumption DEF Passes, CacheSlots
<1>2. CASE stops # {}
  <2>1. PICK n \in stops : \A m \in stops : n <= m
    <3>1. stops \in SUBSET Nat
      BY DEF CacheSlots
    <3> QED BY <1>2, <3>1, LeastNumber
  <2>2. \A j \in 0 .. (n - 1) : j \in CacheSlots /\ ~(n <= j)
    BY <2>1, CacheAssumption DEF CacheSlots
  <2>3. /\ n \in CacheSlots /\ entries[Probe(q, n)] = CacheEmpty
        /\ \A j \in 0 .. (n - 1) : entries[Probe(q, j)] # CacheEmpty
    BY <2>1, <2>2
  <2>4. /\ Reach(q) \in CacheSlots /\ entries[Probe(q, Reach(q))] = CacheEmpty
        /\ \A j \in 0 .. (Reach(q) - 1) : entries[Probe(q, j)] # CacheEmpty
    BY <2>3 DEF Reach
  <2> QED BY <2>4, CacheAssumption DEF Passes, CacheSlots
<1> QED BY <1>1, <1>2

\* A probe looks at the slots it comes to that are not empty.
LEMMA ProbedAre ==
    ASSUME NEW q \in CacheQueries, NEW s
    PROVE  s \in Probed(q) <=>
             \E n \in CacheSlots : /\ s = Probe(q, n) /\ Passes(entries, q, n)
                                   /\ entries[s] # CacheEmpty
<1> DEFINE r == Reach(q)
<1>1. /\ r \in 0 .. CacheSize /\ Passes(entries, q, r)
      /\ r < CacheSize => entries[Probe(q, r)] = CacheEmpty
  BY ReachIs
<1> HIDE DEF r
<1>2. s \in Probed(q) <=> \E n \in 0 .. (r - 1) : s = Probe(q, n)
  BY DEF Probed, r
<1>3. ASSUME NEW n \in 0 .. (r - 1), s = Probe(q, n)
      PROVE  n \in CacheSlots /\ Passes(entries, q, n) /\ entries[s] # CacheEmpty
  BY <1>1, <1>3, CacheAssumption DEF Passes, CacheSlots
<1>4. ASSUME NEW n \in CacheSlots, s = Probe(q, n), Passes(entries, q, n), entries[s] # CacheEmpty
      PROVE  n \in 0 .. (r - 1)
  <2>1. CASE r < n
    <3>1. r \in 0 .. (n - 1)
      BY <1>1, <2>1, CacheAssumption DEF CacheSlots
    <3> QED BY <1>1, <1>4, <2>1, <3>1, CacheAssumption DEF Passes, CacheSlots
  <2>2. CASE r = n
    BY <1>1, <1>4, <2>2, CacheAssumption DEF CacheSlots
  <2>3. CASE r > n
    BY <1>1, <2>3, CacheAssumption DEF CacheSlots
  <2> QED BY <1>1, <2>1, <2>2, <2>3, CacheAssumption DEF CacheSlots
<1> QED BY <1>2, <1>3, <1>4

\* Reachable and CacheInv, said of the table and the list.
LEMMA ReachableIs == entries \in Tables => (Reachable <=> Findable(entries) /\ Single(entries))
<1> SUFFICES ASSUME entries \in Tables
             PROVE  Reachable <=> Findable(entries) /\ Single(entries)
  OBVIOUS
<1>1. ValidSlots = Held(entries)
  BY DEF ValidSlots, IsValid, Held
<1>2. ASSUME NEW i \in Held(entries)
      PROVE  i \in Probed(entries[i].query) <=>
               \E n \in CacheSlots : /\ Probe(entries[i].query, n) = i
                                     /\ Passes(entries, entries[i].query, n)
  <2>1. entries[i].query \in CacheQueries /\ entries[i] # CacheEmpty
    BY HeldRows DEF Held
  <2> QED BY <2>1, ProbedAre
<1> QED BY <1>1, <1>2 DEF Reachable, Findable, Single

LEMMA InvIsSane == CacheInv <=> Sane(entries, byAge) /\ used \in 0 .. (UsedMod - 1)
<1>1. ValidSlots = Held(entries)
  BY DEF ValidSlots, IsValid, Held
<1>2. AgeOnce <=> Once(byAge)
  BY DEF AgeOnce, Once
<1>3. {byAge[i] : i \in DOMAIN byAge} = Listed(byAge)
  BY DEF Listed
<1>4. byAge \in Seq(CacheSlots) /\ Once(byAge) => Len(byAge) = Cardinality(Listed(byAge))
  BY AgeCounts
<1>5. entries \in Tables <=> entries \in [CacheSlots ->
         [query : CacheQueries, action : CacheActions] \union {CacheEmpty, CacheTombstone}]
  BY DEF Tables, Rows
<1> QED BY <1>1, <1>2, <1>3, <1>4, <1>5, ReachableIs DEF CacheInv, CacheTypeOK, Sane

\* A slot in which q is found is the only one that has it.
LEMMA FoundFits ==
    ASSUME Sane(entries, byAge), NEW q \in CacheQueries, NEW s \in FoundAt(q)
    PROVE  s \in Held(entries) /\ entries[s].query = q /\ Fits(entries, q, s)
<1>1. s \in Probed(q) /\ s \in CacheSlots /\ Holding(s, q)
  <2>1. s \in Probed(q) /\ Holding(s, q)
    BY DEF FoundAt
  <2> QED BY <2>1, ProbedAre, ProbeSlots DEF CacheSlots
<1>2. s \in Held(entries) /\ entries[s].query = q
  BY <1>1 DEF Holding, IsValid, Held
<1>3. \A i \in Held(entries) \ {s} : entries[i].query # q
  BY <1>2 DEF Sane, Single
<1>4. \E n \in CacheSlots : Probe(q, n) = s /\ Passes(entries, q, n)
  BY <1>1, ProbedAre
<1> QED BY <1>1, <1>2, <1>3, <1>4 DEF Fits

\* Every entry for q is found.
LEMMA HeldFound ==
    ASSUME Sane(entries, byAge), NEW i \in Held(entries)
    PROVE  i \in FoundAt(entries[i].query)
<1>1. entries[i].query \in CacheQueries /\ entries[i] # CacheEmpty
  BY HeldRows DEF Sane, Held
<1>2. i \in Probed(entries[i].query)
  BY <1>1, ProbedAre DEF Sane, Findable
<1> QED BY <1>2 DEF FoundAt, Holding, IsValid, Held

\* A query that is not found goes to its free slot, or to any slot of a full table.
LEMMA FreeFits ==
    ASSUME Sane(entries, byAge), NEW q \in CacheQueries, FoundAt(q) = {}
    PROVE  /\ \A i \in FreeSlots(q) : /\ Fits(entries, q, Probe(q, i))
                                      /\ Probe(q, i) \notin Held(entries)
           /\ FreeSlots(q) = {} => \A s \in CacheSlots : Fits(entries, q, s)
<1> DEFINE r == Reach(q)
           tombs == {i \in 0 .. (r - 1) : entries[Probe(q, i)] = CacheTombstone}
<1>1. /\ r \in 0 .. CacheSize /\ Passes(entries, q, r)
      /\ r < CacheSize => entries[Probe(q, r)] = CacheEmpty
  BY ReachIs
<1>2. \A i \in Held(entries) : entries[i].query # q
  BY HeldFound
<1>3. FreeSlots(q) = IF r = CacheSize THEN {}
                     ELSE IF tombs = {} THEN {r} ELSE {CHOOSE i \in tombs : \A j \in tombs : i <= j}
  BY DEF FreeSlots
<1> HIDE DEF r
<1>4. ASSUME NEW i \in FreeSlots(q)
      PROVE  /\ i \in CacheSlots /\ i <= r
             /\ entries[Probe(q, i)] \in {CacheEmpty, CacheTombstone}
  <2>1. CASE tombs = {}
    BY <1>1, <1>3, <2>1, CacheAssumption DEF CacheSlots
  <2>2. CASE tombs # {}
    <3>1. \E t \in tombs : \A j \in tombs : t <= j
      <4>1. tombs \in SUBSET Nat
        OBVIOUS
      <4> QED BY <2>2, <4>1, LeastNumber
    <3>2. i \in tombs
      BY <1>3, <2>2, <3>1
    <3> QED BY <1>1, <3>2, CacheAssumption DEF CacheSlots
  <2> QED BY <2>1, <2>2
<1>5. ASSUME NEW i \in FreeSlots(q)
      PROVE  Fits(entries, q, Probe(q, i)) /\ Probe(q, i) \notin Held(entries)
  <2>1. Passes(entries, q, i)
    BY <1>1, <1>4 DEF Passes, CacheSlots
  <2>2. Probe(q, i) \in CacheSlots
    BY <1>4, ProbeSlots DEF CacheSlots
  <2> QED BY <1>2, <1>4, <2>1, <2>2 DEF Fits, Held
<1>6. ASSUME FreeSlots(q) = {}, NEW s \in CacheSlots PROVE Fits(entries, q, s)
  <2>1. r = CacheSize
    BY <1>3, <1>6
  <2>2. \A n \in CacheSlots : Passes(entries, q, n)
    BY <1>1, <2>1, CacheAssumption DEF Passes, CacheSlots
  <2> QED BY <1>2, <2>2, ProbeSlots DEF Fits
<1> QED BY <1>5, <1>6

\* The slot to evict from is a slot of the table, that of an entry if there is any.
LEMMA EvictedIs ==
    ASSUME Sane(entries, byAge)
    PROVE  /\ Evicted \in CacheSlots
           /\ byAge # <<>> => Evicted = byAge[1] /\ Evicted \in Held(entries)
           /\ byAge = <<>> => Held(entries) = {} /\ Young(Evicted) = Append(byAge, Evicted)
<1>1. byAge \in Seq(CacheSlots) /\ Listed(byAge) = Held(entries)
  BY DEF Sane
<1>2. CASE byAge # <<>>
  <2>1. Len(byAge) \in Nat \ {0} /\ DOMAIN byAge = 1 .. Len(byAge)
    BY <1>1, <1>2, LenProperties, EmptySeq
  <2>2. byAge[1] \in CacheSlots /\ byAge[1] \in Listed(byAge)
    BY <1>1, <2>1 DEF Listed, Held
  <2>3. Evicted = byAge[1]
    BY <1>2 DEF Evicted
  <2> QED BY <1>1, <1>2, <2>2, <2>3
<1>3. CASE byAge = <<>>
  <2>1. Evicted = 0 /\ 0 \in CacheSlots
    BY <1>3, CacheAssumption DEF Evicted, CacheSlots
  <2>2. Held(entries) = {}
    BY <1>1, <1>3 DEF Listed
  <2>3. RemoveFirst(byAge, 0) = byAge
    <3>1. byAge \in Seq(CacheSlots) /\ \A n \in 1 .. Len(byAge) : byAge[n] # 0
      BY <1>1, <1>3
    <3> QED BY <3>1, DropNone
  <2> QED BY <1>3, <2>1, <2>2, <2>3 DEF Young
<1> QED BY <1>2, <1>3

\* What a step of the cache does, said of the table and the list.
HitStep(q)    == \E s \in FoundAt(q) : /\ entries' = entries /\ used' = used
                                       /\ byAge' = Append(RemoveFirst(byAge, s), s)
UpdateStep(q, a) == \E s \in FoundAt(q) : /\ entries' = PutAt(entries, s, q, a) /\ used' = used
                                          /\ byAge' = Append(RemoveFirst(byAge, s), s)
AddStep(q, a) ==
    \E s \in CacheSlots \ Held(entries) :
       /\ Fits(entries, q, s) /\ FoundAt(q) = {}
       /\ entries' = PutAt(entries, s, q, a) /\ byAge' = Append(byAge, s)
EvictStep(q, a) ==
    /\ FoundAt(q) = {} /\ FreeSlots(q) = {} /\ byAge # <<>>
    /\ byAge[1] \in Held(entries) /\ Fits(entries, q, byAge[1])
    /\ entries' = PutAt(entries, byAge[1], q, a) /\ used' = used
    /\ byAge' = Append(RemoveFirst(byAge, byAge[1]), byAge[1])
RemoveStep(q) ==
    \E s \in FoundAt(q) : /\ entries' = [entries EXCEPT ![s] = CacheTombstone]
                          /\ byAge' = RemoveFirst(byAge, s) /\ used' = OneLess(used)
ClearStep == entries' = [i \in CacheSlots |-> CacheEmpty] /\ byAge' = <<>> /\ used' = 0

\* cache_insert updates, adds in a free slot and counts one more, or evicts.
LEMMA InsertIs ==
    ASSUME Sane(entries, byAge), NEW q \in CacheQueries, NEW a \in CacheActions, CacheInsert(q, a)
    PROVE  \/ UpdateStep(q, a)
           \/ AddStep(q, a) /\ FreeSlots(q) # {} /\ used' = (used + 1) % UsedMod
           \/ AddStep(q, a) /\ FreeSlots(q) = {} /\ used' = used
           \/ EvictStep(q, a)
<1>1. CASE \E s \in FoundAt(q) :
              /\ entries' = [entries EXCEPT ![s] = CacheEntry(q, a)]
              /\ byAge' = Young(s)
              /\ UNCHANGED used
  BY <1>1 DEF UpdateStep, PutAt, Young
<1>2. CASE /\ FoundAt(q) = {}
           /\ \E i \in FreeSlots(q) :
                 /\ entries' = [entries EXCEPT ![Probe(q, i)] = CacheEntry(q, a)]
                 /\ byAge' = Append(byAge, Probe(q, i))
                 /\ used' = (used + 1) % UsedMod
  <2>1. PICK i \in FreeSlots(q) :
            /\ entries' = [entries EXCEPT ![Probe(q, i)] = CacheEntry(q, a)]
            /\ byAge' = Append(byAge, Probe(q, i))
            /\ used' = (used + 1) % UsedMod
    BY <1>2
  <2>2. Fits(entries, q, Probe(q, i)) /\ Probe(q, i) \notin Held(entries)
    BY <1>2, FreeFits
  <2> QED BY <1>2, <2>1, <2>2 DEF AddStep, Fits, PutAt
<1>3. CASE /\ FoundAt(q) = {} /\ FreeSlots(q) = {}
           /\ entries' = [entries EXCEPT ![Evicted] = CacheEntry(q, a)]
           /\ byAge' = Young(Evicted)
           /\ UNCHANGED used
  <2>1. Evicted \in CacheSlots /\ Fits(entries, q, Evicted)
    BY <1>3, EvictedIs, FreeFits
  <2>2. CASE byAge = <<>>
    BY <1>3, <2>1, <2>2, EvictedIs DEF AddStep, PutAt
  <2>3. CASE byAge # <<>>
    <3>1. Evicted = byAge[1] /\ Evicted \in Held(entries)
      BY <2>3, EvictedIs
    <3>2. entries' = PutAt(entries, byAge[1], q, a) /\ used' = used
      BY <1>3, <3>1 DEF PutAt
    <3>3. byAge' = Append(RemoveFirst(byAge, byAge[1]), byAge[1])
      BY <1>3, <3>1 DEF Young
    <3> QED BY <1>3, <2>1, <2>3, <3>1, <3>2, <3>3 DEF EvictStep
  <2> QED BY <2>2, <2>3
<1> QED BY <1>1, <1>2, <1>3 DEF CacheInsert

\* The number of entries stays in its 32 bits.
LEMMA UsedStays ==
    ASSUME NEW n \in 0 .. (UsedMod - 1)
    PROVE  (n + 1) % UsedMod \in 0 .. (UsedMod - 1) /\ OneLess(n) \in 0 .. (UsedMod - 1)
<1>1. UsedMod \in Nat \ {0} /\ n \in Nat
  BY CacheAssumption
<1>2. OneLess(n) = (n + UsedMod - 1) % UsedMod
  BY DEF OneLess
<1>3. n + 1 \in Nat /\ n + UsedMod - 1 \in Nat
  BY <1>1
<1>4. \A m \in Nat : m % UsedMod \in 0 .. (UsedMod - 1)
  BY <1>1
<1> QED BY <1>2, <1>3, <1>4

\* Each of these steps keeps the table and the list sane.
LEMMA HitSane ==
    ASSUME Sane(entries, byAge), NEW q \in CacheQueries, HitStep(q)
    PROVE  Sane(entries', byAge')
<1>1. PICK s \in FoundAt(q) : entries' = entries /\ byAge' = Append(RemoveFirst(byAge, s), s)
  BY DEF HitStep
<1>2. s \in Held(entries)
  BY FoundFits
<1>3. Sane(entries, Append(RemoveFirst(byAge, s), s))
  BY <1>2, SaneYoung
<1> QED BY <1>1, <1>3

LEMMA RemoveSane ==
    ASSUME Sane(entries, byAge), NEW q \in CacheQueries, RemoveStep(q)
    PROVE  Sane(entries', byAge')
<1>1. PICK s \in FoundAt(q) : /\ entries' = [entries EXCEPT ![s] = CacheTombstone]
                              /\ byAge' = RemoveFirst(byAge, s)
  BY DEF RemoveStep
<1>2. s \in Held(entries)
  BY FoundFits
<1>3. Sane([entries EXCEPT ![s] = CacheTombstone], RemoveFirst(byAge, s))
  BY <1>2, SaneDrop
<1> QED BY <1>1, <1>3

LEMMA StoreSane ==
    ASSUME Sane(entries, byAge), NEW q \in CacheQueries, NEW a \in CacheActions,
           UpdateStep(q, a) \/ AddStep(q, a) \/ EvictStep(q, a)
    PROVE  Sane(entries', byAge')
<1>1. PICK s : /\ Fits(entries, q, s) /\ entries' = PutAt(entries, s, q, a)
               /\ byAge' = IF s \in Held(entries) THEN Append(RemoveFirst(byAge, s), s)
                                                  ELSE Append(byAge, s)
  <2>1. CASE UpdateStep(q, a)
    <3>1. PICK s \in FoundAt(q) : /\ entries' = PutAt(entries, s, q, a)
                                  /\ byAge' = Append(RemoveFirst(byAge, s), s)
      BY <2>1 DEF UpdateStep
    <3>2. s \in Held(entries) /\ Fits(entries, q, s)
      BY FoundFits
    <3> QED BY <3>1, <3>2
  <2>2. CASE AddStep(q, a)
    BY <2>2 DEF AddStep
  <2>3. CASE EvictStep(q, a)
    BY <2>3 DEF EvictStep
  <2> QED BY <2>1, <2>2, <2>3
<1>2. Sane(PutAt(entries, s, q, a),
           IF s \in Held(entries) THEN Append(RemoveFirst(byAge, s), s) ELSE Append(byAge, s))
  BY <1>1, SanePut
<1> QED BY <1>1, <1>2

\* CacheInv of the next state, as the lemmas have it.
LEMMA InvNext ==
    ASSUME Sane(entries', byAge'), used' \in 0 .. (UsedMod - 1)
    PROVE  CacheInv'
<1>1. (CacheInv <=> Sane(entries, byAge) /\ used \in 0 .. (UsedMod - 1))'
  BY InvIsSane, PTL
<1> QED BY <1>1

LEMMA HitInv ==
    ASSUME CacheInv, NEW q \in CacheQueries, CacheHit(q)
    PROVE  CacheInv' /\ HitStep(q)
<1>1. Sane(entries, byAge) /\ used \in 0 .. (UsedMod - 1)
  BY InvIsSane
<1>2. HitStep(q)
  BY DEF CacheHit, HitStep, Young
<1>3. Sane(entries', byAge') /\ used' \in 0 .. (UsedMod - 1)
  BY <1>1, <1>2, HitSane DEF CacheHit
<1> QED BY <1>2, <1>3, InvNext

LEMMA InsertInv ==
    ASSUME CacheInv, NEW q \in CacheQueries, NEW a \in CacheActions, CacheInsert(q, a)
    PROVE  CacheInv'
<1>1. Sane(entries, byAge) /\ used \in 0 .. (UsedMod - 1)
  BY InvIsSane
<1>2. /\ UpdateStep(q, a) \/ AddStep(q, a) \/ EvictStep(q, a)
      /\ used' = used \/ used' = (used + 1) % UsedMod
  BY <1>1, InsertIs DEF UpdateStep, EvictStep
<1>3. Sane(entries', byAge') /\ used' \in 0 .. (UsedMod - 1)
  BY <1>1, <1>2, StoreSane, UsedStays
<1> QED BY <1>3, InvNext

LEMMA RemoveInv ==
    ASSUME CacheInv, NEW q \in CacheQueries, CacheRemove(q)
    PROVE  CacheInv' /\ RemoveStep(q)
<1>1. Sane(entries, byAge) /\ used \in 0 .. (UsedMod - 1)
  BY InvIsSane
<1>2. RemoveStep(q)
  BY DEF CacheRemove, RemoveStep
<1>3. Sane(entries', byAge') /\ used' \in 0 .. (UsedMod - 1)
  BY <1>1, <1>2, RemoveSane, UsedStays DEF RemoveStep
<1> QED BY <1>2, <1>3, InvNext

LEMMA ClearInv ==
    ASSUME CacheClear
    PROVE  CacheInv'
<1>1. entries' = [i \in CacheSlots |-> CacheEmpty] /\ byAge' = <<>> /\ used' = 0
  BY DEF CacheClear
<1>2. Sane(entries', byAge') /\ used' \in 0 .. (UsedMod - 1)
  BY <1>1, SaneEmpty, CacheAssumption
<1> QED BY <1>2, InvNext

LEMMA CacheInitInv == CacheInit => CacheInv
<1>1. CacheInit => Sane(entries, byAge) /\ used \in 0 .. (UsedMod - 1)
  BY SaneEmpty, CacheAssumption DEF CacheInit
<1> QED BY <1>1, InvIsSane

LEMMA CacheRestInv == CacheInv /\ UNCHANGED cacheVars => CacheInv'
<1> SUFFICES ASSUME CacheInv, UNCHANGED cacheVars PROVE CacheInv'
  OBVIOUS
<1>1. Sane(entries', byAge') /\ used' \in 0 .. (UsedMod - 1)
  BY InvIsSane DEF cacheVars
<1> QED BY <1>1, InvNext

LEMMA CacheStepInv == CacheInv /\ [CacheNext]_cacheVars => CacheInv'
<1> SUFFICES ASSUME CacheInv, [CacheNext]_cacheVars PROVE CacheInv'
  OBVIOUS
<1>1. ASSUME NEW q \in CacheQueries, CacheHit(q) PROVE CacheInv'
  BY <1>1, HitInv
<1>2. ASSUME NEW q \in CacheQueries, CacheRemove(q) PROVE CacheInv'
  BY <1>2, RemoveInv
<1>3. ASSUME NEW q \in CacheQueries, NEW a \in CacheActions, CacheInsert(q, a) PROVE CacheInv'
  BY <1>3, InsertInv
<1>4. CASE CacheClear
  BY <1>4, ClearInv
<1>5. CASE UNCHANGED cacheVars
  BY <1>5, CacheRestInv
<1> QED BY <1>1, <1>2, <1>3, <1>4, <1>5 DEF CacheNext

\* The cache keeps its types, and every entry is found by the probe of its own query, whatever
\* was inserted, evicted, removed or cleared before.
THEOREM CacheInvariant == CacheSpec => []CacheInv
<1>1. CacheInit => CacheInv
  BY CacheInitInv
<1>2. CacheInv /\ [CacheNext]_cacheVars => CacheInv'
  BY CacheStepInv
<1> QED BY <1>1, <1>2, PTL DEF CacheSpec

------------------------------------------------------------------------------
(* The cache as a bounded map that forgets the least recently used query. *)

Names(e, w) == [i \in DOMAIN w |-> e[w[i]].query]
Known(e)    == {e[i].query : i \in Held(e)}
Answers(e)  == [q \in Known(e) |-> e[CHOOSE i \in Held(e) : e[i].query = q].action]

LEMMA AnswersAre ==
    ASSUME NEW e, Single(e), NEW i \in Held(e)
    PROVE  e[i].query \in Known(e) /\ Answers(e)[e[i].query] = e[i].action
<1> DEFINE q == e[i].query
           c == CHOOSE j \in Held(e) : e[j].query = q
<1>1. c \in Held(e) /\ e[c].query = q
  OBVIOUS
<1>2. c = i
  BY <1>1 DEF Single
<1>3. q \in Known(e)
  BY DEF Known
<1>4. Answers(e)[q] = e[c].action
  BY <1>3 DEF Answers
<1> QED BY <1>2, <1>3, <1>4

\* The names of the slots by age, each once.
LEMMA NamesAre ==
    ASSUME NEW e, NEW w, Sane(e, w)
    PROVE  /\ Names(e, w) \in Seq(CacheQueries) /\ Once(Names(e, w))
           /\ DOMAIN Names(e, w) = DOMAIN w /\ Len(Names(e, w)) = Len(w)
           /\ \A q : q \in Listed(Names(e, w)) <=> q \in Known(e)
<1>1. PICK k \in Nat : k = Len(w) /\ DOMAIN w = 1 .. k
  BY LenProperties DEF Sane
<1>2. PICK u : u = Names(e, w)
  OBVIOUS
<1>3. DOMAIN u = 1 .. k /\ \A i \in 1 .. k : u[i] = e[w[i]].query /\ w[i] \in Held(e)
  BY <1>1, <1>2 DEF Names, Sane, Listed
<1>4. u \in [1 .. k -> CacheQueries]
  <2>1. u = [i \in 1 .. k |-> e[w[i]].query]
    BY <1>1, <1>2 DEF Names
  <2>2. \A i \in 1 .. k : e[w[i]].query \in CacheQueries
    BY <1>3, HeldRows DEF Sane
  <2> QED BY <2>1, <2>2
<1>5. u \in Seq(CacheQueries) /\ Len(u) = k
  BY <1>3, <1>4, LenProperties, <1>1
<1>6. Once(u)
  BY <1>1, <1>3 DEF Once, Single, Sane
<1>7. \A q : q \in Listed(u) <=> q \in Known(e)
  <2>1. ASSUME NEW q \in Listed(u) PROVE q \in Known(e)
    BY <1>3, <2>1 DEF Listed, Known
  <2>2. ASSUME NEW q \in Known(e) PROVE q \in Listed(u)
    <3>1. PICK i \in Held(e) : q = e[i].query
      BY DEF Known
    <3>2. PICK m \in 1 .. k : w[m] = i
      BY <1>1 DEF Sane, Listed
    <3> QED BY <1>3, <3>1, <3>2 DEF Listed
  <2> QED BY <2>1, <2>2
<1> QED BY <1>1, <1>2, <1>3, <1>5, <1>6, <1>7

\* Two tables that name the same in the slots of a list.
Agree(e, f, S) == \A i \in S : f[i].query = e[i].query

LEMMA NamesDrop ==
    ASSUME NEW e, NEW w, Sane(e, w), NEW s \in Held(e), NEW f, Agree(e, f, Held(e) \ {s})
    PROVE  Names(f, RemoveFirst(w, s)) = RemoveFirst(Names(e, w), e[s].query)
<1>1. PICK k \in Nat : k = Len(w) /\ DOMAIN w = 1 .. k
  BY LenProperties DEF Sane
<1>2. PICK p \in 1 .. k : w[p] = s
  BY <1>1 DEF Listed, Sane
<1>3. PICK u : u = Names(e, w)
  OBVIOUS
<1>4. u \in Seq(CacheQueries) /\ Once(u) /\ Len(u) = k
  BY <1>1, <1>3, NamesAre
<1>5. \A n \in 1 .. k : u[n] = e[w[n]].query
  BY <1>1, <1>3 DEF Names
<1>6. PICK v : v = RemoveFirst(w, s)
  OBVIOUS
<1>7. /\ v \in Seq(CacheSlots) /\ Len(v) = k - 1 /\ Listed(v) = Held(e) \ {s}
      /\ \A n \in 1 .. (k - 1) : v[n] = IF n < p THEN w[n] ELSE w[n + 1]
  BY <1>1, <1>2, <1>6, DropOne, AgeDrop DEF Sane
<1>8. PICK x : x = RemoveFirst(u, u[p])
  OBVIOUS
<1>9. /\ x \in Seq(CacheQueries) /\ Len(x) = k - 1
      /\ \A n \in 1 .. (k - 1) : x[n] = IF n < p THEN u[n] ELSE u[n + 1]
  BY <1>1, <1>4, <1>8, DropOne
<1>10. DOMAIN v = 1 .. (k - 1) /\ DOMAIN x = 1 .. (k - 1) /\ x = [n \in 1 .. (k - 1) |-> x[n]]
  BY <1>7, <1>9, LenProperties
<1>11. ASSUME NEW n \in 1 .. (k - 1) PROVE f[v[n]].query = x[n]
  <2>1. v[n] \in Held(e) \ {s}
    BY <1>7, <1>10 DEF Listed
  <2>2. f[v[n]].query = e[v[n]].query
    BY <2>1 DEF Agree
  <2>3. n \in 1 .. k /\ n + 1 \in 1 .. k
    OBVIOUS
  <2> QED BY <1>5, <1>7, <1>9, <2>2, <2>3
<1>12. Names(f, v) = x
  BY <1>10, <1>11 DEF Names
<1> QED BY <1>2, <1>3, <1>5, <1>6, <1>8, <1>12

LEMMA NamesAdd ==
    ASSUME NEW e, NEW f, NEW w, NEW s, NEW q, w \in Seq(CacheSlots), s \in CacheSlots,
           q \in CacheQueries, f[s].query = q, Agree(e, f, Listed(w)),
           Names(e, w) \in Seq(CacheQueries)
    PROVE  Names(f, Append(w, s)) = Append(Names(e, w), q)
<1>1. PICK k \in Nat : k = Len(w) /\ DOMAIN w = 1 .. k
  BY LenProperties
<1>2. PICK u : u = Names(e, w)
  OBVIOUS
<1>3. DOMAIN u = 1 .. k /\ Len(u) = k /\ \A n \in 1 .. k : u[n] = e[w[n]].query
  BY <1>1, <1>2, LenProperties DEF Names
<1>4. PICK v : v = Append(w, s)
  OBVIOUS
<1>5. DOMAIN v = 1 .. (k + 1) /\ v[k + 1] = s /\ \A i \in 1 .. k : v[i] = w[i]
  BY <1>1, <1>4, AppendProperties, LenProperties
<1>6. PICK x : x = Append(u, q)
  OBVIOUS
<1>7. DOMAIN x = 1 .. (k + 1) /\ x[k + 1] = q /\ \A i \in 1 .. k : x[i] = u[i]
  BY <1>2, <1>3, <1>6, AppendProperties, LenProperties
<1>8. x = [n \in 1 .. (k + 1) |-> x[n]]
  BY <1>2, <1>6, <1>7, AppendProperties, LenProperties
<1>9. \A n \in 1 .. (k + 1) : f[v[n]].query = x[n]
  <2>1. ASSUME NEW n \in 1 .. k PROVE f[v[n]].query = x[n]
    <3>1. v[n] = w[n] /\ x[n] = u[n] /\ u[n] = e[w[n]].query
      BY <1>3, <1>5, <1>7
    <3>2. w[n] \in Listed(w)
      BY <1>1 DEF Listed
    <3> QED BY <3>1, <3>2 DEF Agree
  <2> QED BY <1>5, <1>7, <2>1
<1>10. Names(f, v) = x
  BY <1>5, <1>8, <1>9 DEF Names
<1> QED BY <1>2, <1>4, <1>6, <1>10

\* A slot is used again: its name moves to the end.
LEMMA NamesYoung ==
    ASSUME NEW e, NEW w, NEW s, NEW f, Sane(e, w), s \in Held(e), Agree(e, f, Held(e) \ {s}),
           f[s].query \in CacheQueries
    PROVE  Names(f, Append(RemoveFirst(w, s), s)) =
             Append(RemoveFirst(Names(e, w), e[s].query), f[s].query)
<1>1. PICK v : /\ v = RemoveFirst(w, s) /\ v \in Seq(CacheSlots)
               /\ Listed(v) = Held(e) \ {s}
  BY AgeDrop DEF Sane
<1>2. Names(f, v) = RemoveFirst(Names(e, w), e[s].query)
  BY <1>1, NamesDrop
<1>3. Names(e, v) = RemoveFirst(Names(e, w), e[s].query)
  <2>1. Agree(e, e, Held(e) \ {s})
    BY DEF Agree
  <2> QED BY <1>1, <2>1, NamesDrop
<1>4. Names(e, v) \in Seq(CacheQueries)
  <2>1. PICK k \in Nat : k = Len(v) /\ DOMAIN v = 1 .. k
    BY <1>1, LenProperties
  <2>2. \A n \in 1 .. k : e[v[n]].query \in CacheQueries
    BY <1>1, <2>1, HeldRows DEF Listed, Sane
  <2>3. Names(e, v) \in [1 .. k -> CacheQueries]
    BY <2>1, <2>2 DEF Names
  <2> QED BY <2>1, <2>3
<1>5. Agree(e, f, Listed(v)) /\ s \in CacheSlots
  BY <1>1 DEF Held
<1>6. Names(f, Append(v, s)) = Append(Names(e, v), f[s].query)
  <2>1. PICK q \in CacheQueries : q = f[s].query
    OBVIOUS
  <2>2. Names(f, Append(v, s)) = Append(Names(e, v), q)
    <3>1. /\ v \in Seq(CacheSlots) /\ s \in CacheSlots /\ q \in CacheQueries /\ f[s].query = q
          /\ Agree(e, f, Listed(v)) /\ Names(e, v) \in Seq(CacheQueries)
      BY <1>1, <1>4, <1>5, <2>1
    <3> QED BY <3>1, NamesAdd
  <2> QED BY <2>1, <2>2
<1> QED BY <1>1, <1>3, <1>6

\* The first of a sequence goes.
LEMMA DropHead ==
    ASSUME NEW T, NEW s \in Seq(T), Once(s), s # <<>>
    PROVE  RemoveFirst(s, s[1]) = Tail(s) /\ Head(s) = s[1]
<1>1. Len(s) \in Nat \ {0}
  BY LenProperties, EmptySeq
<1>2. PICK x : x = RemoveFirst(s, s[1])
  OBVIOUS
<1>3. /\ x \in Seq(T) /\ Len(x) = Len(s) - 1
      /\ \A n \in 1 .. (Len(s) - 1) : x[n] = s[n + 1]
  <2>1. 1 \in 1 .. Len(s) /\ \A n \in 1 .. (Len(s) - 1) : ~(n < 1)
    BY <1>1
  <2>2. PICK p \in 1 .. Len(s) : p = 1
    BY <2>1
  <2>3. /\ RemoveFirst(s, s[p]) \in Seq(T) /\ Len(RemoveFirst(s, s[p])) = Len(s) - 1
        /\ \A n \in 1 .. (Len(s) - 1) :
              RemoveFirst(s, s[p])[n] = IF n < p THEN s[n] ELSE s[n + 1]
    BY DropOne
  <2> QED BY <1>2, <2>1, <2>2, <2>3
<1>4. /\ Tail(s) \in Seq(T) /\ Len(Tail(s)) = Len(s) - 1
      /\ \A n \in 1 .. (Len(s) - 1) : Tail(s)[n] = s[n + 1]
  BY <1>1, HeadTailProperties
<1>5. x = Tail(s)
  BY <1>3, <1>4, SeqEqual
<1>6. Head(s) = s[1]
  BY <1>1, HeadTailProperties
<1> QED BY <1>2, <1>5, <1>6

\* What is known after an entry for q was stored, and after one went.
Stores(e, f, s, q, a) ==
    /\ Known(f) = (Known(e) \ (IF s \in Held(e) THEN {e[s].query} ELSE {})) \union {q}
    /\ Answers(f) = [r \in Known(f) |-> IF r = q THEN a ELSE Answers(e)[r]]
    /\ f[s].query = q /\ Agree(e, f, CacheSlots \ {s})
    /\ s \notin Held(e) => q \notin Known(e)

LEMMA AnswersPut ==
    ASSUME NEW e, NEW w, NEW q, NEW a, NEW s, Sane(e, w), q \in CacheQueries, a \in CacheActions,
           Fits(e, q, s), NEW f, f = PutAt(e, s, q, a)
    PROVE  Stores(e, f, s, q, a)
<1>1. f \in Tables /\ Held(f) = Held(e) \union {s} /\ Single(f)
  BY PutKeeps DEF Sane
<1>2. e \in Tables /\ Single(e) /\ s \in CacheSlots /\ \A i \in Held(e) \ {s} : e[i].query # q
  BY DEF Sane, Fits
<1>3. f[s].query = q /\ f[s].action = a /\ \A i \in CacheSlots \ {s} : f[i] = e[i]
  BY <1>2 DEF PutAt, CacheEntry, Tables
<1>4. Held(e) \subseteq CacheSlots
  BY DEF Held
<1>5. Known(f) = (Known(e) \ (IF s \in Held(e) THEN {e[s].query} ELSE {})) \union {q}
  <2>1. ASSUME NEW r \in Known(f)
        PROVE  r \in (Known(e) \ (IF s \in Held(e) THEN {e[s].query} ELSE {})) \union {q}
    <3>1. PICK i \in Held(f) : f[i].query = r
      BY DEF Known
    <3>2. CASE i = s
      BY <1>3, <3>1, <3>2
    <3>3. CASE i # s
      <4>1. i \in Held(e) /\ e[i].query = r
        BY <1>1, <1>3, <1>4, <3>1, <3>3
      <4>2. s \in Held(e) => e[s].query # r
        BY <1>2, <3>3, <4>1 DEF Single
      <4> QED BY <4>1, <4>2 DEF Known
    <3> QED BY <3>2, <3>3
  <2>2. ASSUME NEW r \in Known(e) \ (IF s \in Held(e) THEN {e[s].query} ELSE {})
        PROVE  r \in Known(f)
    <3>1. PICK i \in Held(e) : e[i].query = r
      BY DEF Known
    <3>2. i # s
      BY <3>1
    <3> QED BY <1>1, <1>3, <1>4, <3>1, <3>2 DEF Known
  <2>3. q \in Known(f)
    BY <1>1, <1>3 DEF Known
  <2> QED BY <2>1, <2>2, <2>3
<1>6. ASSUME NEW r \in Known(f) PROVE Answers(f)[r] = IF r = q THEN a ELSE Answers(e)[r]
  <2>1. PICK i \in Held(f) : f[i].query = r
    BY DEF Known
  <2>2. Answers(f)[r] = f[i].action
    BY <1>1, <2>1, AnswersAre
  <2>3. CASE i = s
    BY <1>3, <2>1, <2>2, <2>3
  <2>4. CASE i # s
    <3>1. i \in Held(e) /\ e[i] = f[i]
      BY <1>1, <1>3, <1>4, <2>4
    <3>2. r # q /\ Answers(e)[r] = e[i].action
      BY <1>2, <2>1, <2>4, <3>1, AnswersAre
    <3> QED BY <2>2, <3>1, <3>2
  <2> QED BY <2>3, <2>4
<1>7. Answers(f) = [r \in Known(f) |-> Answers(f)[r]]
  BY DEF Answers
<1>8. Answers(f) = [r \in Known(f) |-> IF r = q THEN a ELSE Answers(e)[r]]
  BY <1>6, <1>7
<1>9. s \notin Held(e) => q \notin Known(e)
  BY <1>2 DEF Known
<1>10. Agree(e, f, CacheSlots \ {s})
  BY <1>3 DEF Agree
<1> QED BY <1>3, <1>5, <1>8, <1>9, <1>10 DEF Stores

LEMMA AnswersDrop ==
    ASSUME NEW e, NEW w, Sane(e, w), NEW s \in Held(e)
    PROVE  LET f == [e EXCEPT ![s] = CacheTombstone] IN
           /\ Known(f) = Known(e) \ {e[s].query}
           /\ Answers(f) = [r \in Known(f) |-> Answers(e)[r]]
           /\ Agree(e, f, CacheSlots \ {s})
<1> DEFINE f == [e EXCEPT ![s] = CacheTombstone]
<1>1. f \in Tables /\ Held(f) = Held(e) \ {s} /\ Single(f)
  BY DropKeeps DEF Sane
<1>2. e \in Tables /\ Single(e) /\ Held(e) \subseteq CacheSlots
  BY DEF Sane, Held
<1>3. \A i \in CacheSlots \ {s} : f[i] = e[i]
  BY <1>2 DEF Tables
<1> HIDE DEF f
<1>4. Known(f) = Known(e) \ {e[s].query}
  <2>1. ASSUME NEW r \in Known(f) PROVE r \in Known(e) \ {e[s].query}
    <3>1. PICK i \in Held(e) \ {s} : f[i].query = r
      BY <1>1 DEF Known
    <3>2. e[i].query = r /\ e[s].query # r
      BY <1>2, <1>3, <3>1 DEF Single
    <3> QED BY <3>1, <3>2 DEF Known
  <2>2. ASSUME NEW r \in Known(e) \ {e[s].query} PROVE r \in Known(f)
    <3>1. PICK i \in Held(e) : e[i].query = r
      BY DEF Known
    <3>2. i \in Held(f) /\ f[i] = e[i]
      BY <1>1, <1>2, <1>3, <3>1
    <3> QED BY <3>1, <3>2 DEF Known
  <2> QED BY <2>1, <2>2
<1>5. ASSUME NEW r \in Known(f) PROVE Answers(f)[r] = Answers(e)[r]
  <2>1. PICK i \in Held(f) : f[i].query = r
    BY DEF Known
  <2>2. i \in Held(e) /\ f[i] = e[i]
    BY <1>1, <1>2, <1>3, <2>1
  <2>3. Answers(f)[r] = f[i].action
    BY <1>1, <2>1, AnswersAre
  <2>4. Answers(e)[r] = e[i].action
    BY <1>2, <2>1, <2>2, AnswersAre
  <2> QED BY <2>2, <2>3, <2>4
<1>6. Answers(f) = [r \in Known(f) |-> Answers(f)[r]]
  BY DEF Answers
<1>7. Agree(e, f, CacheSlots \ {s})
  BY <1>3 DEF Agree
<1> QED BY <1>4, <1>5, <1>6, <1>7 DEF f

\* The mapped variables, as the lemmas have them.
LEMMA AbsIs == /\ AbsRecent = Names(entries, byAge) /\ AbsStored = Answers(entries)
               /\ DOMAIN AbsStored = Known(entries)
<1>1. ValidSlots = Held(entries)
  BY DEF ValidSlots, IsValid, Held
<1>2. AbsRecent = Names(entries, byAge)
  BY DEF AbsRecent, Names
<1>3. AbsStored = Answers(entries)
  BY <1>1 DEF AbsStored, Answers, Known
<1> QED BY <1>2, <1>3 DEF Answers

LEMMA AbsIsNext == AbsRecent' = Names(entries', byAge') /\ AbsStored' = Answers(entries')
<1>1. (AbsRecent = Names(entries, byAge) /\ AbsStored = Answers(entries))'
  BY AbsIs, PTL
<1> QED BY <1>1

\* The specification of the map drops an element the same way.
LEMMA LruDrops ==
    ASSUME NEW s, NEW x
    PROVE  Lru!RemoveFirst(s, x) = RemoveFirst(s, x)
<1>1. \A S : Lru!Min(S) = Min(S)
  BY DEF Lru!Min, Min
<1>2. \A i : Lru!RemoveAt(s, i) = RemoveAt(s, i)
  BY DEF Lru!RemoveAt, RemoveAt
<1>3. Lru!SelectInSeq(s, LAMBDA v : v = x) = SelectInSeq(s, LAMBDA v : v = x)
  BY <1>1 DEF Lru!SelectInSeq, SelectInSeq
<1> QED BY <1>2, <1>3 DEF Lru!RemoveFirst, RemoveFirst

LEMMA HitUses ==
    ASSUME Sane(entries, byAge), NEW q \in CacheQueries, HitStep(q)
    PROVE  Lru!Use(q)
<1>1. PICK s \in FoundAt(q) : entries' = entries /\ byAge' = Append(RemoveFirst(byAge, s), s)
  BY DEF HitStep
<1>2. s \in Held(entries) /\ entries[s].query = q
  BY FoundFits
<1>3. q \in DOMAIN AbsStored
  BY <1>2, AbsIs DEF Known
<1>4. Agree(entries, entries, Held(entries) \ {s})
  BY DEF Agree
<1>5. Names(entries, byAge') = Append(RemoveFirst(Names(entries, byAge), q), q)
  <2>1. entries[s].query \in CacheQueries
    BY <1>2
  <2>2. Names(entries, Append(RemoveFirst(byAge, s), s)) =
           Append(RemoveFirst(Names(entries, byAge), entries[s].query), entries[s].query)
    BY <1>2, <1>4, <2>1, NamesYoung
  <2> QED BY <1>1, <1>2, <2>2
<1>6. AbsRecent' = Append(RemoveFirst(AbsRecent, q), q)
  BY <1>1, <1>5, AbsIs, AbsIsNext
<1>7. AbsStored' = AbsStored
  BY <1>1, AbsIs, AbsIsNext
<1> QED BY <1>3, <1>6, <1>7, LruDrops DEF Lru!Use, Lru!Without

LEMMA UpdateUpdates ==
    ASSUME Sane(entries, byAge), NEW q \in CacheQueries, NEW a \in CacheActions, UpdateStep(q, a)
    PROVE  Lru!Update(q, a)
<1>1. PICK s \in FoundAt(q) : /\ entries' = PutAt(entries, s, q, a)
                              /\ byAge' = Append(RemoveFirst(byAge, s), s)
  BY DEF UpdateStep
<1>2. s \in Held(entries) /\ entries[s].query = q /\ Fits(entries, q, s)
  BY FoundFits
<1>3. q \in Known(entries)
  BY <1>2 DEF Known
<1>4. /\ Known(entries') = (Known(entries) \ {q}) \union {q}
      /\ Answers(entries') = [r \in Known(entries') |-> IF r = q THEN a ELSE Answers(entries)[r]]
      /\ entries'[s].query = q /\ Agree(entries, entries', CacheSlots \ {s})
  <2>1. PICK f : f = PutAt(entries, s, q, a)
    OBVIOUS
  <2>2. Stores(entries, f, s, q, a)
    BY <1>2, <2>1, AnswersPut
  <2> QED BY <1>1, <1>2, <2>1, <2>2 DEF Stores
<1>5. Agree(entries, entries', Held(entries) \ {s})
  BY <1>4 DEF Agree, Held
<1>6. Names(entries', byAge') = Append(RemoveFirst(Names(entries, byAge), q), q)
  <2>1. Names(entries', Append(RemoveFirst(byAge, s), s)) =
           Append(RemoveFirst(Names(entries, byAge), entries[s].query), entries'[s].query)
    <3>1. entries'[s].query \in CacheQueries
      BY <1>4
    <3> QED BY <1>2, <1>5, <3>1, NamesYoung
  <2> QED BY <1>1, <1>2, <1>4, <2>1
<1>7. AbsRecent' = Append(RemoveFirst(AbsRecent, q), q)
  BY <1>6, AbsIs, AbsIsNext
<1>8. AbsStored' = [AbsStored EXCEPT ![q] = a]
  <2>1. Known(entries') = Known(entries)
    BY <1>3, <1>4
  <2>2. [Answers(entries) EXCEPT ![q] = a] =
           [r \in Known(entries) |-> IF r = q THEN a ELSE Answers(entries)[r]]
    BY AbsIs
  <2> QED BY <1>4, <2>1, <2>2, AbsIs, AbsIsNext
<1> QED BY <1>3, <1>7, <1>8, AbsIs, LruDrops DEF Lru!Update, Lru!Without

\* There is room in a table with a slot that holds nothing.
LEMMA RoomFor ==
    ASSUME NEW e, NEW w, Sane(e, w), NEW s \in CacheSlots \ Held(e)
    PROVE  Len(w) < CacheSize
<1>1. Len(w) = Cardinality(Held(e))
  BY AgeCounts DEF Sane
<1>2. IsFiniteSet(CacheSlots) /\ Cardinality(CacheSlots) = CacheSize
  <2>1. 0 \in Int /\ CacheSize - 1 \in Int /\ CacheSize \in Nat
    BY CacheAssumption
  <2>2. IsFiniteSet(0 .. (CacheSize - 1))
        /\ Cardinality(0 .. (CacheSize - 1)) =
             IF 0 > CacheSize - 1 THEN 0 ELSE (CacheSize - 1) - 0 + 1
    BY <2>1, FS_Interval
  <2> QED BY <2>2, CacheAssumption DEF CacheSlots
<1>3. Held(e) \subseteq CacheSlots
  BY DEF Held
<1>4. /\ IsFiniteSet(Held(e)) /\ Cardinality(Held(e)) <= CacheSize
      /\ Cardinality(Held(e)) = CacheSize => Held(e) = CacheSlots
  BY <1>2, <1>3, FS_Subset
<1>5. Cardinality(Held(e)) \in Nat
  BY <1>4, FS_CardinalityType
<1> QED BY <1>1, <1>4, <1>5, CacheAssumption

LEMMA AddAdds ==
    ASSUME Sane(entries, byAge), NEW q \in CacheQueries, NEW a \in CacheActions, AddStep(q, a)
    PROVE  Lru!Add(q, a)
<1>1. PICK s \in CacheSlots \ Held(entries) :
            /\ Fits(entries, q, s)
            /\ entries' = PutAt(entries, s, q, a) /\ byAge' = Append(byAge, s)
  BY DEF AddStep
<1>2. /\ Known(entries') = Known(entries) \union {q}
      /\ Answers(entries') = [r \in Known(entries') |-> IF r = q THEN a ELSE Answers(entries)[r]]
      /\ entries'[s].query = q /\ Agree(entries, entries', CacheSlots \ {s})
      /\ q \notin Known(entries)
  <2>1. Stores(entries, entries', s, q, a)
    BY <1>1, AnswersPut
  <2> QED BY <1>1, <2>1 DEF Stores
<1>3. Len(AbsRecent) < CacheSize
  <2>1. Len(byAge) < CacheSize
    BY <1>1, RoomFor
  <2>2. Len(Names(entries, byAge)) = Len(byAge)
    BY NamesAre
  <2> QED BY <2>1, <2>2, AbsIs
<1>4. Names(entries', byAge') = Append(Names(entries, byAge), q)
  <2>1. /\ byAge \in Seq(CacheSlots) /\ s \in CacheSlots
        /\ Names(entries, byAge) \in Seq(CacheQueries)
        /\ Agree(entries, entries', Listed(byAge))
    <3>1. Listed(byAge) = Held(entries) /\ byAge \in Seq(CacheSlots)
      BY DEF Sane
    <3>2. Agree(entries, entries', Listed(byAge))
      BY <1>1, <1>2, <3>1 DEF Agree, Held
    <3> QED BY <1>1, <3>1, <3>2, NamesAre
  <2>2. Names(entries', Append(byAge, s)) = Append(Names(entries, byAge), q)
    BY <1>2, <2>1, NamesAdd
  <2> QED BY <1>1, <2>2
<1>5. AbsRecent' = Append(AbsRecent, q)
  BY <1>4, AbsIs, AbsIsNext
<1>6. AbsStored' = [r \in DOMAIN AbsStored \union {q} |-> IF r = q THEN a ELSE AbsStored[r]]
  BY <1>2, AbsIs, AbsIsNext
<1> QED BY <1>2, <1>3, <1>5, <1>6, AbsIs DEF Lru!Add

LEMMA EvictReplaces ==
    ASSUME Sane(entries, byAge), NEW q \in CacheQueries, NEW a \in CacheActions, EvictStep(q, a)
    PROVE  Lru!Replace(q, a)
<1>1. PICK s : s = byAge[1]
  OBVIOUS
<1>2. /\ s \in Held(entries) /\ Fits(entries, q, s) /\ byAge # <<>> /\ FoundAt(q) = {}
      /\ entries' = PutAt(entries, s, q, a) /\ byAge' = Append(RemoveFirst(byAge, s), s)
  BY <1>1 DEF EvictStep
<1>3. PICK old : old = entries[s].query
  OBVIOUS
<1>4. /\ Known(entries') = (Known(entries) \ {old}) \union {q}
      /\ Answers(entries') = [r \in Known(entries') |-> IF r = q THEN a ELSE Answers(entries)[r]]
      /\ entries'[s].query = q /\ Agree(entries, entries', CacheSlots \ {s})
  <2>1. Stores(entries, entries', s, q, a)
    BY <1>2, AnswersPut
  <2> QED BY <1>2, <1>3, <2>1 DEF Stores
<1>5. q \notin Known(entries)
  BY <1>2, HeldFound DEF Known
<1>6. Names(entries', byAge') = Append(RemoveFirst(Names(entries, byAge), old), q)
  <2>1. Agree(entries, entries', Held(entries) \ {s})
    BY <1>4 DEF Agree, Held
  <2>2. Names(entries', Append(RemoveFirst(byAge, s), s)) =
           Append(RemoveFirst(Names(entries, byAge), entries[s].query), entries'[s].query)
    <3>1. PICK f : f = entries'
      OBVIOUS
    <3>2. f[s].query \in CacheQueries /\ s \in Held(entries) /\ Agree(entries, f, Held(entries) \ {s})
      BY <1>2, <1>4, <2>1, <3>1
    <3>3. Names(f, Append(RemoveFirst(byAge, s), s)) =
             Append(RemoveFirst(Names(entries, byAge), entries[s].query), f[s].query)
      BY <3>2, NamesYoung
    <3> QED BY <3>1, <3>3
  <2> QED BY <1>2, <1>3, <1>4, <2>2
<1>7. PICK u : u = Names(entries, byAge)
  OBVIOUS
<1>8. /\ u # <<>> /\ Head(u) = old /\ RemoveFirst(u, old) = Tail(u)
  <2>1. /\ u \in Seq(CacheQueries) /\ Once(u) /\ DOMAIN u = DOMAIN byAge /\ Len(u) = Len(byAge)
    BY <1>7, NamesAre
  <2>2. Len(byAge) \in Nat \ {0} /\ DOMAIN byAge = 1 .. Len(byAge)
    BY <1>2, EmptySeq, LenProperties DEF Sane
  <2>3. u # <<>> /\ u[1] = old
    BY <1>1, <1>3, <1>7, <2>1, <2>2 DEF Names
  <2> QED BY <2>1, <2>3, DropHead
<1>9. AbsRecent # <<>> /\ AbsRecent' = Append(Tail(AbsRecent), q) /\ Head(AbsRecent) = old
  BY <1>6, <1>7, <1>8, AbsIs, AbsIsNext
<1>10. AbsStored' = [r \in (DOMAIN AbsStored \ {Head(AbsRecent)}) \union {q} |->
                        IF r = q THEN a ELSE AbsStored[r]]
  BY <1>4, <1>9, AbsIs, AbsIsNext
<1> QED BY <1>5, <1>9, <1>10, AbsIs DEF Lru!Replace

LEMMA RemoveForgets ==
    ASSUME Sane(entries, byAge), NEW q \in CacheQueries, RemoveStep(q)
    PROVE  Lru!Forget(q)
<1>1. PICK s \in FoundAt(q) : /\ entries' = [entries EXCEPT ![s] = CacheTombstone]
                              /\ byAge' = RemoveFirst(byAge, s)
  BY DEF RemoveStep
<1>2. s \in Held(entries) /\ entries[s].query = q
  BY FoundFits
<1>3. /\ Known(entries') = Known(entries) \ {q}
      /\ Answers(entries') = [r \in Known(entries') |-> Answers(entries)[r]]
      /\ Agree(entries, entries', CacheSlots \ {s})
  BY <1>1, <1>2, AnswersDrop
<1>4. q \in DOMAIN AbsStored
  BY <1>2, AbsIs DEF Known
<1>5. Agree(entries, entries', Held(entries) \ {s})
  BY <1>3 DEF Agree, Held
<1>6. AbsRecent' = RemoveFirst(AbsRecent, q)
  BY <1>1, <1>2, <1>5, NamesDrop, AbsIs, AbsIsNext
<1>7. AbsStored' = Restrict(AbsStored, DOMAIN AbsStored \ {q})
  BY <1>3, AbsIs, AbsIsNext DEF Restrict
<1> QED BY <1>4, <1>6, <1>7, LruDrops DEF Lru!Forget, Lru!Without, Lru!Restrict, Restrict

LEMMA EmptyIs ==
    ASSUME NEW e, Held(e) = {}
    PROVE  Names(e, <<>>) = <<>> /\ Answers(e) = [q \in {} |-> q]
<1>1. Known(e) = {} /\ DOMAIN <<>> = {}
  BY DEF Known
<1> QED BY <1>1 DEF Names, Answers

LEMMA ClearForgets ==
    ASSUME CacheClear
    PROVE  Lru!ForgetAll
<1>1. Held(entries') = {} /\ byAge' = <<>>
  BY DEF CacheClear, Held
<1>2. AbsRecent' = <<>> /\ AbsStored' = [q \in {} |-> q]
  BY <1>1, EmptyIs, AbsIsNext
<1> QED BY <1>2 DEF Lru!ForgetAll

\* Each step of the cache is a step of the map, or none.
LEMMA HitRefines ==
    ASSUME CacheInv, NEW q \in CacheQueries, CacheHit(q)
    PROVE  Lru!Next
<1>1. Sane(entries, byAge) /\ HitStep(q)
  BY InvIsSane, HitInv
<1> QED BY <1>1, HitUses DEF Lru!Next

LEMMA InsertRefines ==
    ASSUME CacheInv, NEW q \in CacheQueries, NEW a \in CacheActions, CacheInsert(q, a)
    PROVE  Lru!Next
<1>1. Sane(entries, byAge)
  BY InvIsSane
<1>2. UpdateStep(q, a) \/ AddStep(q, a) \/ EvictStep(q, a)
  BY <1>1, InsertIs
<1>3. Lru!Update(q, a) \/ Lru!Add(q, a) \/ Lru!Replace(q, a)
  BY <1>1, <1>2, UpdateUpdates, AddAdds, EvictReplaces
<1> QED BY <1>3 DEF Lru!Next

LEMMA CacheRefines == CacheInv /\ [CacheNext]_cacheVars => [Lru!Next]_(Lru!vars)
<1> SUFFICES ASSUME CacheInv, [CacheNext]_cacheVars PROVE [Lru!Next]_(Lru!vars)
  OBVIOUS
<1>1. ASSUME NEW q \in CacheQueries, CacheHit(q) PROVE Lru!Next
  BY <1>1, HitRefines
<1>2. ASSUME NEW q \in CacheQueries, CacheRemove(q) PROVE Lru!Next
  <2>1. Sane(entries, byAge) /\ RemoveStep(q)
    BY <1>2, InvIsSane, RemoveInv
  <2> QED BY <2>1, RemoveForgets DEF Lru!Next
<1>3. ASSUME NEW q \in CacheQueries, NEW a \in CacheActions, CacheInsert(q, a) PROVE Lru!Next
  BY <1>3, InsertRefines
<1>4. CASE CacheClear
  BY <1>4, ClearForgets DEF Lru!Next
<1>5. CASE UNCHANGED cacheVars
  BY <1>5, AbsIs, AbsIsNext DEF cacheVars, Lru!vars
<1> QED BY <1>1, <1>2, <1>3, <1>4, <1>5 DEF CacheNext

LEMMA CacheInitRefines == CacheInit => Lru!Init
<1> SUFFICES ASSUME CacheInit PROVE Lru!Init
  OBVIOUS
<1>1. Held(entries) = {} /\ byAge = <<>>
  BY DEF CacheInit, Held
<1>2. AbsRecent = <<>> /\ AbsStored = [q \in {} |-> q]
  BY <1>1, EmptyIs, AbsIs
<1> QED BY <1>2 DEF Lru!Init

\* cache_lookup answers with the action last stored, and cache_insert drops an entry only to
\* make room, the one used longest ago: the table with its tombstones, probes and evictions
\* is a bounded map with that rule.
THEOREM CacheIsLru == CacheSpec => ImplementsLru
<1>1. CacheInit => Lru!Init
  BY CacheInitRefines
<1>2. CacheInv /\ [CacheNext]_cacheVars => [Lru!Next]_(Lru!vars)
  BY CacheRefines
<1> QED BY <1>1, <1>2, CacheInvariant, PTL DEF CacheSpec, ImplementsLru, Lru!Spec

------------------------------------------------------------------------------
(* Growth.  How often a key occurs in a part of a sequence of keys. *)

Places(s, m, n, q) == {j \in m .. n : s[j] = q}
Times(s, m, n, q)  == Cardinality(Places(s, m, n, q))

LEMMA CountType ==
    ASSUME NEW s, NEW m \in Nat, NEW n \in Nat, NEW q
    PROVE  IsFiniteSet(Places(s, m, n, q)) /\ Times(s, m, n, q) \in Nat
<1>1. IsFiniteSet(m .. n) /\ Places(s, m, n, q) \in SUBSET (m .. n)
  BY FS_Interval DEF Places
<1>2. IsFiniteSet(Places(s, m, n, q))
  BY <1>1, FS_Subset
<1> QED BY <1>2, FS_CardinalityType DEF Times

LEMMA CountNone ==
    ASSUME NEW s, NEW m \in Nat, NEW n \in Nat, NEW q, m > n
    PROVE  Times(s, m, n, q) = 0
<1>1. Places(s, m, n, q) = {}
  BY DEF Places
<1> QED BY <1>1, FS_EmptySet DEF Times

\* One key more at the end, and one less at the front.
LEMMA CountMore ==
    ASSUME NEW s, NEW m \in Nat, NEW n \in Nat, NEW q, m <= n + 1
    PROVE  Times(s, m, n + 1, q) = Times(s, m, n, q) + (IF s[n + 1] = q THEN 1 ELSE 0)
<1>1. Places(s, m, n + 1, q) = IF s[n + 1] = q THEN Places(s, m, n, q) \union {n + 1}
                                               ELSE Places(s, m, n, q)
  BY DEF Places
<1>2. IsFiniteSet(Places(s, m, n, q)) /\ Times(s, m, n, q) \in Nat /\ n + 1 \notin Places(s, m, n, q)
  BY CountType DEF Places
<1>3. Cardinality(Places(s, m, n, q) \union {n + 1}) = Cardinality(Places(s, m, n, q)) + 1
  BY <1>2, FS_AddElement
<1> QED BY <1>1, <1>2, <1>3 DEF Times

LEMMA CountLess ==
    ASSUME NEW s, NEW m \in Nat, NEW n \in Nat, NEW q, m <= n
    PROVE  Times(s, m, n, q) = Times(s, m + 1, n, q) + (IF s[m] = q THEN 1 ELSE 0)
<1>1. Places(s, m, n, q) = IF s[m] = q THEN Places(s, m + 1, n, q) \union {m}
                                       ELSE Places(s, m + 1, n, q)
  BY DEF Places
<1>2. m + 1 \in Nat /\ m \notin Places(s, m + 1, n, q)
  BY DEF Places
<1>3. IsFiniteSet(Places(s, m + 1, n, q)) /\ Times(s, m + 1, n, q) \in Nat
  BY <1>2, CountType
<1>4. Cardinality(Places(s, m + 1, n, q) \union {m}) = Cardinality(Places(s, m + 1, n, q)) + 1
  BY <1>2, <1>3, FS_AddElement
<1> QED BY <1>1, <1>3, <1>4 DEF Times

\* Keys that all occur elsewhere, each in a place of its own.
LEMMA CountMoved ==
    ASSUME NEW s, NEW t, NEW m \in Nat, NEW n \in Nat, NEW k \in Nat, NEW q, NEW d \in Int,
           \A i \in m .. n : i + d \in 1 .. k /\ t[i + d] = s[i]
    PROVE  Times(s, m, n, q) <= Times(t, 1, k, q)
<1> DEFINE A == Places(s, m, n, q)
           B == Places(t, 1, k, q)
           f == [i \in A |-> i + d]
<1>1. f \in [A -> B] /\ \A i, j \in A : f[i] = f[j] => i = j
  BY DEF Places
<1>2. f \in Injection(A, B)
  BY <1>1 DEF Injection, IsInjective
<1>3. IsFiniteSet(B)
  BY CountType
<1> HIDE DEF f
<1> QED BY <1>2, <1>3, FS_Injection DEF Times

\* What the store keeps of its keys and the batch's.
LEMMA CountNewest ==
    ASSUME NEW T, NEW a \in Seq(T), NEW b \in Seq(T), NEW m \in Nat \ {0}, NEW q
    PROVE  LET c == Newest(a \o b, m) IN
           /\ c \in Seq(T) /\ Len(c) <= m
           /\ Times(c, 1, Len(c), q) <= Times(a, 1, Len(a), q) + Times(b, 1, Len(b), q)
<1> DEFINE s == a \o b
           c == Newest(s, m)
<1>1. /\ Len(a) \in Nat /\ Len(b) \in Nat /\ s \in Seq(T) /\ Len(s) = Len(a) + Len(b)
      /\ \A i \in 1 .. Len(s) : s[i] = IF i <= Len(a) THEN a[i] ELSE b[i - Len(a)]
      /\ \A i \in 1 .. Len(s) : s[i] \in T
  BY ConcatProperties, LenProperties, ElementOfSeq
<1> HIDE DEF s
<1>2. Times(s, 1, Len(s), q) <= Times(a, 1, Len(a), q) + Times(b, 1, Len(b), q)
  <2> DEFINE k == Len(a)
             A == Places(s, 1, k, q)
             B == Places(s, k + 1, Len(s), q)
  <2>1. Places(s, 1, Len(s), q) = A \union B /\ A \intersect B = {}
    BY <1>1 DEF Places
  <2>2. IsFiniteSet(A) /\ IsFiniteSet(B) /\ Cardinality(A) \in Nat /\ Cardinality(B) \in Nat
    BY <1>1, CountType DEF Times
  <2>3. Cardinality(A \union B) <= Cardinality(A) + Cardinality(B)
    <3> HIDE DEF A, B
    <3>1. Cardinality(A \union B) = Cardinality(A) + Cardinality(B) - Cardinality(A \intersect B)
      BY <2>2, FS_Union
    <3>2. Cardinality(A \intersect B) = 0
      BY <2>1, FS_EmptySet
    <3> QED BY <2>2, <3>1, <3>2
  <2>4. Times(s, 1, k, q) <= Times(a, 1, k, q)
    <3>1. PICK d \in Int : d = 0
      OBVIOUS
    <3>2. \A i \in 1 .. k : i + d \in 1 .. k /\ a[i + d] = s[i]
      BY <1>1, <3>1
    <3>3. 1 \in Nat /\ k \in Nat
      BY <1>1
    <3> HIDE DEF k
    <3> QED BY <3>2, <3>3, CountMoved
  <2>5. Times(s, k + 1, Len(s), q) <= Times(b, 1, Len(b), q)
    <3>1. PICK d \in Int : d = -k
      BY <1>1
    <3>2. \A i \in (k + 1) .. Len(s) : i + d \in 1 .. Len(b) /\ b[i + d] = s[i]
      BY <1>1, <3>1
    <3>3. k + 1 \in Nat /\ Len(s) \in Nat
      BY <1>1
    <3> QED BY <1>1, <3>2, <3>3, CountMoved
  <2>6. /\ Times(s, 1, k, q) = Cardinality(A) /\ Times(s, k + 1, Len(s), q) = Cardinality(B)
        /\ Times(s, 1, Len(s), q) = Cardinality(A \union B)
    BY <2>1 DEF Times
  <2>7. /\ Times(a, 1, k, q) \in Nat /\ Times(b, 1, Len(b), q) \in Nat
        /\ Times(s, 1, Len(s), q) \in Nat
    BY <1>1, CountType
  <2>8. /\ Cardinality(A) <= Times(a, 1, k, q) /\ Cardinality(B) <= Times(b, 1, Len(b), q)
        /\ Times(s, 1, Len(s), q) <= Cardinality(A) + Cardinality(B)
    BY <2>3, <2>4, <2>5, <2>6
  <2> HIDE DEF A, B
  <2> QED BY <2>2, <2>7, <2>8
<1>3. /\ c \in Seq(T) /\ Len(c) <= m /\ Len(c) \in Nat
      /\ Times(c, 1, Len(c), q) <= Times(s, 1, Len(s), q)
  <2>0. Len(s) \in Nat
    BY <1>1
  <2>1. CASE Len(s) > m
    <3> DEFINE d == Len(s) - m
    <3>1. c = SubSeq(s, d + 1, Len(s))
      BY <2>1 DEF Newest
    <3>2. /\ c \in Seq(T) /\ Len(c) = IF d + 1 <= Len(s) THEN Len(s) - (d + 1) + 1 ELSE 0
          /\ \A i \in 1 .. (Len(s) - (d + 1) + 1) : c[i] = s[(d + 1) + i - 1]
      <4>1. d + 1 \in Int /\ Len(s) \in Int /\ \A i \in (d + 1) .. Len(s) : s[i] \in T
        BY <1>1, <2>1
      <4> QED BY <3>1, <4>1, SubSeqProperties
    <3>3. Len(c) = m
      BY <2>0, <2>1, <3>2
    <3>4. \A i \in 1 .. Len(c) : i + d \in 1 .. Len(s) /\ s[i + d] = c[i]
      BY <2>0, <2>1, <3>2, <3>3
    <3>5. d \in Int /\ Len(c) \in Nat
      BY <2>0, <3>3
    <3> HIDE DEF d
    <3>6. Times(c, 1, Len(c), q) <= Times(s, 1, Len(s), q)
      BY <2>0, <3>4, <3>5, CountMoved
    <3> QED BY <3>2, <3>3, <3>6
  <2>2. CASE Len(s) <= m
    <3>1. c = s
      BY <2>0, <2>2 DEF Newest
    <3>2. Times(s, 1, Len(s), q) \in Nat
      BY <2>0, CountType
    <3> HIDE DEF c
    <3>3. s \in Seq(T)
      BY <1>1
    <3> QED BY <2>0, <2>2, <3>1, <3>2, <3>3
  <2> QED BY <2>0, <2>1, <2>2
<1>4. /\ Times(c, 1, Len(c), q) \in Nat /\ Times(s, 1, Len(s), q) \in Nat
      /\ Times(a, 1, Len(a), q) + Times(b, 1, Len(b), q) \in Nat
  BY <1>1, <1>3, CountType
<1>5. Times(c, 1, Len(c), q) <= Times(a, 1, Len(a), q) + Times(b, 1, Len(b), q)
  BY <1>2, <1>3, <1>4
<1> QED BY <1>3, <1>5 DEF s

------------------------------------------------------------------------------
(* The frequency table. *)

Tally(g)     == DOMAIN g \subseteq CacheQueries /\ g \in [DOMAIN g -> 1 .. Threshold]
CountIn(g, q) == IF q \in DOMAIN g THEN g[q] ELSE 0

\* A key counted: one more for it at most, no more for the others.
LEMMA BumpedIs ==
    ASSUME NEW g, Tally(g), NEW q \in CacheQueries
    PROVE  /\ Tally(Bumped(g, q))
           /\ \A r : CountIn(Bumped(g, q), r) <= CountIn(g, r) + (IF r = q THEN 1 ELSE 0)
<1>0. Threshold \in Nat \ {0}
  BY GrowthAssumption
<1>1. CASE q \in DOMAIN g
  <2>1. Bumped(g, q) = [g EXCEPT ![q] = IF g[q] < Threshold THEN g[q] + 1 ELSE g[q]]
    BY <1>1 DEF Bumped
  <2> QED BY <1>0, <1>1, <2>1 DEF Tally, CountIn
<1>2. CASE q \notin DOMAIN g /\ Cardinality(DOMAIN g) < FreqCap
  <2>1. Bumped(g, q) = [r \in DOMAIN g \union {q} |-> IF r = q THEN 1 ELSE g[r]]
    BY <1>2 DEF Bumped
  <2> QED BY <1>0, <1>2, <2>1 DEF Tally, CountIn
<1>3. CASE q \notin DOMAIN g /\ ~(Cardinality(DOMAIN g) < FreqCap)
  <2>1. Bumped(g, q) = g
    BY <1>3 DEF Bumped
  <2> QED BY <1>0, <2>1 DEF Tally, CountIn
<1> QED BY <1>1, <1>2, <1>3

LEMMA TallyNone == Tally([q \in {} |-> 0]) /\ \A r : CountIn([q \in {} |-> 0], r) = 0
BY DEF Tally, CountIn

LEMMA CountInType == ASSUME NEW g, Tally(g), NEW q PROVE CountIn(g, q) \in 0 .. Threshold
BY GrowthAssumption DEF Tally, CountIn

\* The counts made from a store: no key is counted more often than it occurs.
LEMMA SeedIs ==
    ASSUME NEW keys \in Seq(CacheQueries)
    PROVE  Tally(Seed(keys)) /\ \A q : CountIn(Seed(keys), q) <= Times(keys, 1, Len(keys), q)
<1> DEFINE n == Len(keys)
           Def(v, i) == Bumped(v, keys[i])
           f == CHOOSE g : g = [i \in 0 .. n |-> IF i = 0 THEN [q \in {} |-> 0] ELSE Def(g[i - 1], i)]
<1>1. n \in Nat /\ \A i \in 1 .. n : keys[i] \in CacheQueries
  BY LenProperties, ElementOfSeq
<1>2. FiniteNatInductiveDefHypothesis(f, [q \in {} |-> 0], Def, 0, n)
  BY DEF FiniteNatInductiveDefHypothesis
<1>3. FiniteNatInductiveDefConclusion(f, [q \in {} |-> 0], Def, 0, n)
  BY <1>1, <1>2, FiniteNatInductiveDef
<1>4. f = [i \in 0 .. n |-> IF i = 0 THEN [q \in {} |-> 0] ELSE Def(f[i - 1], i)]
  BY <1>3 DEF FiniteNatInductiveDefConclusion
<1>5. Seed(keys) = f[n]
  BY DEF Seed
<1> HIDE DEF f
<1>6. f[0] = [q \in {} |-> 0] /\ \A i \in 1 .. n : f[i] = Bumped(f[i - 1], keys[i])
  BY <1>1, <1>4
<1> HIDE DEF n, Def
<1> DEFINE Good(i) == Tally(f[i]) /\ \A q : CountIn(f[i], q) <= Times(keys, 1, i, q)
<1>7. Good(0)
  BY <1>6, TallyNone, CountNone
<1>8. ASSUME NEW i \in 1 .. n, Good(i - 1) PROVE Good(i)
  <2>1. PICK k \in Nat : k = i - 1 /\ i = k + 1
    BY <1>1
  <2>2. f[i] = Bumped(f[k], keys[i]) /\ Tally(f[k]) /\ keys[i] \in CacheQueries
    BY <1>1, <1>6, <1>8, <2>1
  <2>3. Tally(f[i])
        /\ \A q : CountIn(f[i], q) <= CountIn(f[k], q) + (IF q = keys[i] THEN 1 ELSE 0)
    BY <2>2, BumpedIs
  <2>4. ASSUME NEW q PROVE CountIn(f[i], q) <= Times(keys, 1, i, q)
    <3>1. Times(keys, 1, i, q) = Times(keys, 1, k, q) + (IF keys[i] = q THEN 1 ELSE 0)
      BY <2>1, CountMore
    <3>2. CountIn(f[k], q) <= Times(keys, 1, k, q)
      BY <1>8, <2>1
    <3>3. Times(keys, 1, k, q) \in Nat
      BY <2>1, CountType
    <3>4. CountIn(f[i], q) \in Nat /\ CountIn(f[k], q) \in Nat
      BY <2>2, <2>3, CountInType
    <3>5. CountIn(f[i], q) <= CountIn(f[k], q) + (IF keys[i] = q THEN 1 ELSE 0)
      BY <2>3
    <3> QED BY <3>1, <3>2, <3>3, <3>4, <3>5
  <2> QED BY <2>3, <2>4
<1> HIDE DEF Good
<1>9. \A i \in 0 .. n : Good(i)
  <2> DEFINE bad == {i \in 0 .. n : ~Good(i)}
  <2>1. SUFFICES ASSUME bad # {} PROVE FALSE
    OBVIOUS
  <2>2. PICK i \in bad : \A j \in bad : i <= j
    <3>1. bad \in SUBSET Nat
      OBVIOUS
    <3> QED BY <2>1, <3>1, LeastNumber
  <2>3. i \in 1 .. n
    BY <1>1, <1>7, <2>2
  <2>4. Good(i - 1)
    BY <1>1, <2>2, <2>3
  <2> QED BY <1>8, <2>2, <2>3, <2>4
<1>10. Good(n)
  BY <1>1, <1>9
<1> QED BY <1>5, <1>10 DEF Good, n

------------------------------------------------------------------------------
(* The invariant of growth. *)

\* A record: a lane's echo or failure, or an answer on a query that is not a pattern.
Recs == [query : Asked, kind : {"cache", "failed"}]
        \union [query : Learned, kind : {"infer"}, action : CacheActions]
Keyed(b) == [i \in DOMAIN b |-> b[i].query]

\* The first record of the batch the counts do not have yet.
Uncounted == CASE growPhase = "fold" -> growAt [] growPhase = "promote" -> Len(batch) + 1
               [] OTHER -> 1

Logs ==
    /\ batch \in Seq(Recs) /\ Len(batch) <= BatchMax
    /\ kept \in Seq(CacheQueries) /\ Len(kept) <= StoreKept
    /\ Tally(freq) /\ seenBy \in [CacheQueries -> 0 .. Threshold]

Place ==
    \/ growPhase = "load" /\ growAt = 0 /\ batch = <<>>
    \/ growPhase = "run" /\ growAt = 0
    \/ growPhase = "fold" /\ growAt \in 1 .. Len(batch)
    \/ growPhase = "promote" /\ growAt \in 1 .. (Len(batch) + 1)

\* No key was counted, and none is in the store and the batch, more often than it was recorded.
CountedFor(q) ==
    \/ seenBy[q] = Threshold
    \/ /\ CountIn(freq, q) + Times(Keyed(batch), Uncounted, Len(batch), q) <= seenBy[q]
       /\ Times(kept, 1, Len(kept), q) + Times(Keyed(batch), 1, Len(batch), q) <= seenBy[q]
Counted == \A q \in CacheQueries : CountedFor(q)

\* No tombstones, below the high-water mark, the patterns with their own actions.
Tended(e, u) ==
    /\ \A i \in CacheSlots : e[i] # CacheTombstone
    /\ u = Cardinality(Held(e)) /\ u <= HighWater
    /\ Known(e) \subseteq Asked
    /\ \A p \in DOMAIN Patterns \intersect Known(e) : Answers(e)[p] = Patterns[p]

Stocked ==
    IF growPhase = "load" THEN Known(entries) \subseteq DOMAIN Patterns
                          ELSE DOMAIN Patterns \subseteq Known(entries)

Telemetry ==
    /\ growth \in 0 .. CacheSize
    /\ growPhase = "load" => growth = 0
    /\ growPhase = "run"  => growth = Grown

Repeated == \A q \in Known(entries) \ DOMAIN Patterns : seenBy[q] = Threshold

------------------------------------------------------------------------------
(* The records and their counts, step by step. *)

LEMMA RecsAre ==
    ASSUME NEW r \in Recs
    PROVE  /\ r.query \in Asked /\ r.query \in CacheQueries
           /\ r.kind = "infer" => r.query \in Learned /\ r.action \in CacheActions
BY GrowthAssumption DEF Recs, Learned

LEMMA KeyedIs ==
    ASSUME NEW b \in Seq(Recs)
    PROVE  /\ Keyed(b) \in Seq(CacheQueries) /\ Len(Keyed(b)) = Len(b) /\ Len(b) \in Nat
           /\ \A i \in 1 .. Len(b) : Keyed(b)[i] = b[i].query /\ b[i] \in Recs
<1>1. PICK k \in Nat : k = Len(b) /\ DOMAIN b = 1 .. k
  BY LenProperties
<1>2. \A i \in 1 .. k : b[i] \in Recs /\ b[i].query \in CacheQueries
  BY <1>1, ElementOfSeq, RecsAre
<1>3. PICK u : u = Keyed(b)
  OBVIOUS
<1>4. u = [i \in 1 .. k |-> b[i].query]
  BY <1>1, <1>3 DEF Keyed
<1>5. u \in [1 .. k -> CacheQueries]
  BY <1>2, <1>4
<1>6. u \in Seq(CacheQueries) /\ Len(u) = k
  BY <1>1, <1>5, LenProperties
<1> QED BY <1>1, <1>2, <1>3, <1>4, <1>6

LEMMA KeyedNone == Keyed(<<>>) = <<>> /\ <<>> \in Seq(Recs) /\ Len(<<>>) = 0
BY DEF Keyed

\* A record more.
LEMMA KeyedMore ==
    ASSUME NEW b \in Seq(Recs), NEW r \in Recs, NEW q
    PROVE  Times(Keyed(Append(b, r)), 1, Len(b) + 1, q) =
             Times(Keyed(b), 1, Len(b), q) + (IF r.query = q THEN 1 ELSE 0)
<1>1. PICK k \in Nat : k = Len(b)
  BY LenProperties
<1>2. PICK c : c = Append(b, r)
  OBVIOUS
<1>3. /\ c \in Seq(Recs) /\ Len(c) = k + 1 /\ c[k + 1] = r
      /\ \A i \in 1 .. k : c[i] = b[i]
  BY <1>1, <1>2, AppendProperties
<1>4. PICK u, v : u = Keyed(b) /\ v = Keyed(c)
  OBVIOUS
<1>5. (\A i \in 1 .. k : u[i] = b[i].query) /\ \A i \in 1 .. (k + 1) : v[i] = c[i].query
  BY <1>1, <1>3, <1>4, KeyedIs
<1>6. v[k + 1] = r.query /\ \A i \in 1 .. k : v[i] = u[i]
  BY <1>3, <1>5
<1>7. Times(v, 1, k, q) = Times(u, 1, k, q)
  <2>1. Places(v, 1, k, q) = Places(u, 1, k, q)
    BY <1>6 DEF Places
  <2> QED BY <2>1 DEF Times
<1>8. Times(v, 1, k + 1, q) = Times(v, 1, k, q) + (IF v[k + 1] = q THEN 1 ELSE 0)
  BY CountMore
<1> QED BY <1>1, <1>2, <1>4, <1>6, <1>7, <1>8

\* What the store takes over from the batch.
LEMMA CommittedIs ==
    ASSUME Logs
    PROVE  /\ Committed \in Seq(CacheQueries) /\ Len(Committed) <= StoreKept
           /\ \A q : Times(Committed, 1, Len(Committed), q) <=
                       Times(kept, 1, Len(kept), q) + Times(Keyed(batch), 1, Len(batch), q)
<1>1. /\ Keyed(batch) \in Seq(CacheQueries) /\ Len(Keyed(batch)) = Len(batch)
      /\ kept \in Seq(CacheQueries)
  BY KeyedIs DEF Logs
<1>2. Committed = Newest(kept \o Keyed(batch), StoreKept) /\ StoreKept \in Nat \ {0}
  BY GrowthAssumption DEF Committed, Keyed
<1>3. ASSUME NEW q
      PROVE  /\ Committed \in Seq(CacheQueries) /\ Len(Committed) <= StoreKept
             /\ Times(Committed, 1, Len(Committed), q) <=
                  Times(kept, 1, Len(kept), q) + Times(Keyed(batch), 1, Len(Keyed(batch)), q)
  BY <1>1, <1>2, CountNewest
<1> QED BY <1>1, <1>3

\* The counts, as numbers.
LEMMA CountsType ==
    ASSUME Logs, NEW q \in CacheQueries
    PROVE  /\ CountIn(freq, q) \in 0 .. Threshold /\ seenBy[q] \in 0 .. Threshold
           /\ Threshold \in Nat \ {0} /\ Len(batch) \in Nat /\ Len(kept) \in Nat
           /\ Times(kept, 1, Len(kept), q) \in Nat
           /\ \A n \in Nat : Times(Keyed(batch), n, Len(batch), q) \in Nat
<1>1. Len(batch) \in Nat /\ Len(kept) \in Nat
  BY LenProperties DEF Logs
<1> QED BY <1>1, CountType, CountInType, GrowthAssumption DEF Logs

\* Lanes record what they did.
LEMMA RecordedKeeps ==
    ASSUME Logs, Place, Counted, growPhase = "run", growPhase' = "run", growAt' = growAt,
           freq' = freq, NEW r \in Recs, Recorded(r)
    PROVE  /\ Logs' /\ Place' /\ Counted'
           /\ \A q \in CacheQueries : seenBy[q] = Threshold => seenBy'[q] = Threshold
<1>1. /\ batch \in Seq(Recs) /\ kept \in Seq(CacheQueries) /\ Len(batch) \in Nat
      /\ Len(batch) <= BatchMax /\ BatchMax \in Nat \ {0} /\ Threshold \in Nat \ {0}
      /\ seenBy \in [CacheQueries -> 0 .. Threshold] /\ r.query \in CacheQueries
  BY LenProperties, RecsAre, GrowthAssumption DEF Logs
<1>2. /\ seenBy' \in [CacheQueries -> 0 .. Threshold]
      /\ \A q \in CacheQueries :
            seenBy'[q] = IF q = r.query /\ seenBy[q] < Threshold THEN seenBy[q] + 1 ELSE seenBy[q]
  BY <1>1 DEF Recorded
<1>3. Uncounted = 1 /\ Uncounted' = 1
  BY DEF Uncounted
<1>5. /\ batch' \in Seq(Recs) /\ Len(batch') <= BatchMax
      /\ kept' \in Seq(CacheQueries) /\ Len(kept') <= StoreKept
      /\ \A q \in CacheQueries :
            /\ Times(Keyed(batch'), 1, Len(batch'), q) <=
                 Times(Keyed(batch), 1, Len(batch), q) + (IF r.query = q THEN 1 ELSE 0)
            /\ Times(kept', 1, Len(kept'), q) + Times(Keyed(batch'), 1, Len(batch'), q) <=
                 Times(kept, 1, Len(kept), q) + Times(Keyed(batch), 1, Len(batch), q)
                   + (IF r.query = q THEN 1 ELSE 0)
  <2>1. CASE Len(batch) >= BatchMax
    <3>1. batch' = <<r>> /\ kept' = Committed
      BY <2>1 DEF Recorded
    <3>2. batch' = Append(<<>>, r) /\ batch' \in Seq(Recs) /\ Len(batch') = 1
      BY <3>1
    <3>3. /\ Committed \in Seq(CacheQueries) /\ Len(Committed) <= StoreKept
          /\ \A q : Times(Committed, 1, Len(Committed), q) <=
                      Times(kept, 1, Len(kept), q) + Times(Keyed(batch), 1, Len(batch), q)
      BY CommittedIs
    <3>4. ASSUME NEW q \in CacheQueries
          PROVE  Times(Keyed(batch'), 1, Len(batch'), q) = IF r.query = q THEN 1 ELSE 0
      <4>1. PICK b \in Seq(Recs) : b = <<>> /\ Len(b) = 0 /\ Keyed(b) = <<>>
        BY KeyedNone
      <4>2. Times(Keyed(Append(b, r)), 1, Len(b) + 1, q) =
              Times(Keyed(b), 1, Len(b), q) + (IF r.query = q THEN 1 ELSE 0)
        BY KeyedMore
      <4>3. Times(Keyed(b), 1, 0, q) = 0
        BY CountNone
      <4>4. batch' = Append(b, r) /\ Len(batch') = Len(b) + 1
        BY <3>2, <4>1
      <4> QED BY <4>1, <4>2, <4>3, <4>4
    <3>5. ASSUME NEW q \in CacheQueries
          PROVE  /\ Times(Keyed(batch'), 1, Len(batch'), q) <=
                      Times(Keyed(batch), 1, Len(batch), q) + (IF r.query = q THEN 1 ELSE 0)
                 /\ Times(kept', 1, Len(kept'), q) + Times(Keyed(batch'), 1, Len(batch'), q) <=
                      Times(kept, 1, Len(kept), q) + Times(Keyed(batch), 1, Len(batch), q)
                        + (IF r.query = q THEN 1 ELSE 0)
      <4>1. /\ Times(kept, 1, Len(kept), q) \in Nat
            /\ Times(Keyed(batch), 1, Len(batch), q) \in Nat
        BY CountsType
      <4>2. Times(kept', 1, Len(kept'), q) \in Nat
        BY <3>1, <3>3, LenProperties, CountType
      <4>3. Times(kept', 1, Len(kept'), q) <=
              Times(kept, 1, Len(kept), q) + Times(Keyed(batch), 1, Len(batch), q)
        BY <3>1, <3>3
      <4>4. Times(Keyed(batch'), 1, Len(batch'), q) = IF r.query = q THEN 1 ELSE 0
        BY <3>4
      <4> QED BY <4>1, <4>2, <4>3, <4>4
    <3> QED BY <1>1, <3>1, <3>2, <3>3, <3>5
  <2>2. CASE Len(batch) < BatchMax
    <3>1. batch' = Append(batch, r) /\ kept' = kept
      BY <1>1, <2>2 DEF Recorded
    <3>2. batch' \in Seq(Recs) /\ Len(batch') = Len(batch) + 1
      BY <1>1, <3>1, AppendProperties
    <3>3. ASSUME NEW q \in CacheQueries
          PROVE  Times(Keyed(batch'), 1, Len(batch'), q) =
                   Times(Keyed(batch), 1, Len(batch), q) + (IF r.query = q THEN 1 ELSE 0)
      BY <1>1, <3>1, <3>2, KeyedMore
    <3>4. ASSUME NEW q \in CacheQueries
          PROVE  /\ Times(Keyed(batch'), 1, Len(batch'), q) <=
                      Times(Keyed(batch), 1, Len(batch), q) + (IF r.query = q THEN 1 ELSE 0)
                 /\ Times(kept', 1, Len(kept'), q) + Times(Keyed(batch'), 1, Len(batch'), q) <=
                      Times(kept, 1, Len(kept), q) + Times(Keyed(batch), 1, Len(batch), q)
                        + (IF r.query = q THEN 1 ELSE 0)
      <4>1. /\ Times(kept, 1, Len(kept), q) \in Nat
            /\ Times(Keyed(batch), 1, Len(batch), q) \in Nat
        BY CountsType
      <4>2. Times(kept', 1, Len(kept'), q) = Times(kept, 1, Len(kept), q)
        BY <3>1
      <4>3. Times(Keyed(batch'), 1, Len(batch'), q) =
              Times(Keyed(batch), 1, Len(batch), q) + (IF r.query = q THEN 1 ELSE 0)
        BY <3>3
      <4> QED BY <4>1, <4>2, <4>3
    <3> QED BY <1>1, <2>2, <3>1, <3>2, <3>4 DEF Logs
  <2> QED BY <1>1, <2>1, <2>2
<1>6. Logs'
  BY <1>2, <1>5 DEF Logs
<1>7. Place'
  BY DEF Place
<1>8. ASSUME NEW q \in CacheQueries PROVE CountedFor(q)'
  <2> DEFINE c == Times(Keyed(batch), 1, Len(batch), q)
             k == Times(kept, 1, Len(kept), q)
             d == Times(Keyed(batch'), 1, Len(batch'), q)
             l == Times(kept', 1, Len(kept'), q)
             n == IF r.query = q THEN 1 ELSE 0
  <2>1. c \in Nat /\ k \in Nat /\ CountIn(freq, q) \in Nat /\ seenBy[q] \in 0 .. Threshold
    BY CountsType
  <2>2. d \in Nat /\ l \in Nat
    <3>1. Len(batch') \in Nat /\ Len(kept') \in Nat
      BY <1>5, LenProperties
    <3> QED BY <3>1, CountType
  <2>3. d <= c + n /\ l + d <= k + c + n
    BY <1>5
  <2>4. seenBy[q] = Threshold \/ (CountIn(freq, q) + c <= seenBy[q] /\ k + c <= seenBy[q])
    BY <1>3 DEF Counted, CountedFor
  <2>5. seenBy'[q] = IF n = 1 /\ seenBy[q] < Threshold THEN seenBy[q] + 1 ELSE seenBy[q]
    BY <1>2
  <2>6. n \in {0, 1}
    OBVIOUS
  <2> HIDE DEF c, k, d, l, n
  <2>7. seenBy'[q] = Threshold \/ (CountIn(freq, q) + d <= seenBy'[q] /\ l + d <= seenBy'[q])
    BY <1>1, <2>1, <2>2, <2>3, <2>4, <2>5, <2>6
  <2> QED BY <1>3, <2>7 DEF CountedFor, d, l
<1>9. \A q \in CacheQueries : seenBy[q] = Threshold => seenBy'[q] = Threshold
  BY <1>1, <1>2
<1> QED BY <1>6, <1>7, <1>8, <1>9 DEF Counted

LEMMA StartPassKeeps ==
    ASSUME Logs, Place, Counted, StartPass
    PROVE  Logs' /\ Place' /\ Counted'
<1>1. /\ growPhase = "run" /\ growPhase' = "fold" /\ growAt' = 1 /\ batch # <<>>
      /\ batch' = batch /\ freq' = freq /\ kept' = kept /\ seenBy' = seenBy
  BY DEF StartPass
<1>2. Len(batch) \in Nat \ {0}
  BY <1>1, EmptySeq DEF Logs
<1>3. Uncounted = 1 /\ Uncounted' = 1
  BY <1>1 DEF Uncounted
<1>4. Counted'
  BY <1>1, <1>3 DEF Counted, CountedFor
<1> QED BY <1>1, <1>2, <1>4 DEF Logs, Place

LEMMA FoldKeeps ==
    ASSUME Logs, Place, Counted, Fold
    PROVE  Logs' /\ Place' /\ Counted'
<1>1. /\ growPhase = "fold" /\ freq' = Bumped(freq, batch[growAt].query)
      /\ batch' = batch /\ kept' = kept /\ seenBy' = seenBy
      /\ IF growAt < Len(batch) THEN growAt' = growAt + 1 /\ growPhase' = growPhase
         ELSE growAt' = 1 /\ growPhase' = "promote"
  BY DEF Fold
<1>2. /\ Len(batch) \in Nat /\ growAt \in 1 .. Len(batch) /\ Threshold \in Nat \ {0}
      /\ seenBy \in [CacheQueries -> 0 .. Threshold]
  BY <1>1, LenProperties, GrowthAssumption DEF Logs, Place
<1>3. PICK r \in CacheQueries : r = batch[growAt].query /\ r = Keyed(batch)[growAt]
  BY <1>2, KeyedIs, RecsAre DEF Logs
<1>4. Tally(freq') /\ \A q : CountIn(freq', q) <= CountIn(freq, q) + (IF q = r THEN 1 ELSE 0)
  BY <1>1, <1>3, BumpedIs DEF Logs
<1>5. Uncounted = growAt /\ Uncounted' = growAt + 1
  <2>1. Uncounted = growAt
    BY <1>1 DEF Uncounted
  <2>2. CASE growAt < Len(batch)
    BY <1>1, <2>2 DEF Uncounted
  <2>3. CASE growAt = Len(batch)
    <3>1. growPhase' = "promote" /\ batch' = batch
      BY <1>1, <1>2, <2>3
    <3> QED BY <2>1, <2>3, <3>1 DEF Uncounted
  <2> QED BY <1>2, <2>1, <2>2, <2>3
<1>6. Logs' /\ Place'
  BY <1>1, <1>2, <1>4 DEF Logs, Place
<1>7. ASSUME NEW q \in CacheQueries PROVE CountedFor(q)'
  <2> DEFINE c == Times(Keyed(batch), growAt, Len(batch), q)
             d == Times(Keyed(batch), growAt + 1, Len(batch), q)
             n == IF q = r THEN 1 ELSE 0
  <2>1. c \in Nat /\ d \in Nat /\ CountIn(freq, q) \in Nat /\ CountIn(freq', q) \in Nat
    <3>1. growAt \in Nat /\ growAt + 1 \in Nat
      BY <1>2
    <3>2. c \in Nat /\ d \in Nat
      BY <1>2, <3>1, CountType
    <3>3. CountIn(freq, q) \in 0 .. Threshold /\ CountIn(freq', q) \in 0 .. Threshold
      BY <1>4, CountInType DEF Logs
    <3> QED BY <3>2, <3>3
  <2>2. c = d + n
    BY <1>2, <1>3, CountLess
  <2>3. CountIn(freq', q) <= CountIn(freq, q) + n
    BY <1>4
  <2>4. n \in {0, 1} /\ seenBy[q] \in Nat
    BY <1>2
  <2>5. /\ seenBy[q] # Threshold => CountIn(freq, q) + c <= seenBy[q]
        /\ seenBy[q] # Threshold =>
             Times(kept, 1, Len(kept), q) + Times(Keyed(batch), 1, Len(batch), q) <= seenBy[q]
    BY <1>5 DEF Counted, CountedFor
  <2> HIDE DEF c, d, n
  <2>6. seenBy[q] # Threshold => CountIn(freq', q) + d <= seenBy[q]
    BY <2>1, <2>2, <2>3, <2>4, <2>5
  <2> QED BY <1>1, <1>5, <2>5, <2>6 DEF CountedFor, d
<1> QED BY <1>6, <1>7 DEF Counted

\* Nothing is recorded, and the counts stay.
LEMMA PromoteKeeps ==
    ASSUME Logs, Place, Counted, Promote
    PROVE  Logs' /\ Place' /\ Counted'
<1>1. /\ growPhase = "promote" /\ growPhase' = growPhase /\ growAt <= Len(batch)
      /\ growAt' = growAt + 1
      /\ batch' = batch /\ freq' = freq /\ kept' = kept /\ seenBy' = seenBy
  BY DEF Promote
<1>2. Len(batch) \in Nat
  BY LenProperties DEF Logs
<1>3. Uncounted' = Uncounted
  BY <1>1 DEF Uncounted
<1>4. Counted'
  BY <1>1, <1>3 DEF Counted, CountedFor
<1> QED BY <1>1, <1>2, <1>4 DEF Logs, Place

LEMMA EndPassKeeps ==
    ASSUME Logs, Place, Counted, EndPass
    PROVE  Logs' /\ Place' /\ Counted'
<1>1. /\ growPhase = "promote" /\ growPhase' = "run" /\ growAt' = 0
      /\ batch' = <<>> /\ kept' = Committed /\ freq' = freq /\ seenBy' = seenBy
  BY DEF EndPass
<1>2. /\ Committed \in Seq(CacheQueries) /\ Len(Committed) <= StoreKept
      /\ \A q : Times(Committed, 1, Len(Committed), q) <=
                  Times(kept, 1, Len(kept), q) + Times(Keyed(batch), 1, Len(batch), q)
  BY CommittedIs
<1>3. BatchMax \in Nat /\ Len(batch) \in Nat
  BY LenProperties, GrowthAssumption DEF Logs
<1>4. Logs' /\ Place'
  BY <1>1, <1>2, <1>3, KeyedNone DEF Logs, Place
<1>5. Uncounted = Len(batch) + 1 /\ Uncounted' = 1
  BY <1>1 DEF Uncounted
<1>6. ASSUME NEW q \in CacheQueries PROVE CountedFor(q)'
  <2> DEFINE c == Times(Keyed(batch), 1, Len(batch), q)
             k == Times(kept, 1, Len(kept), q)
             l == Times(Committed, 1, Len(Committed), q)
  <2>1. c \in Nat /\ k \in Nat /\ CountIn(freq, q) \in Nat /\ seenBy[q] \in Nat
    <3>1. CountIn(freq, q) \in 0 .. Threshold /\ seenBy[q] \in 0 .. Threshold /\ k \in Nat
      BY CountsType
    <3>2. c \in Nat
      BY <1>3, CountType
    <3> QED BY <3>1, <3>2
  <2>2. l \in Nat /\ l <= k + c
    BY <1>2, LenProperties, CountType
  <2>3. Times(Keyed(batch'), 1, Len(batch'), q) = 0
    BY <1>1, KeyedNone, CountNone
  <2>4. Times(Keyed(batch), Uncounted, Len(batch), q) = 0
    BY <1>3, <1>5, CountNone
  <2>5. seenBy[q] # Threshold => CountIn(freq, q) <= seenBy[q] /\ k + c <= seenBy[q]
    BY <2>1, <2>4 DEF Counted, CountedFor
  <2> HIDE DEF c, k, l
  <2>6. seenBy[q] # Threshold => CountIn(freq, q) + 0 <= seenBy[q] /\ l + 0 <= seenBy[q]
    BY <2>1, <2>2, <2>5
  <2> QED BY <1>1, <1>5, <2>3, <2>6 DEF CountedFor, l
<1> QED BY <1>4, <1>6 DEF Counted

\* After a reboot the counts are those of the store.
LEMMA RebootKeeps ==
    ASSUME Logs, Place, Counted, Reboot
    PROVE  Logs' /\ Place' /\ Counted'
<1>1. /\ growPhase' = "load" /\ growAt' = 0 /\ batch' = <<>> /\ freq' = Seed(kept)
      /\ kept' = kept /\ seenBy' = seenBy
  BY DEF Reboot
<1>2. Tally(Seed(kept)) /\ \A q : CountIn(Seed(kept), q) <= Times(kept, 1, Len(kept), q)
  BY SeedIs DEF Logs
<1>3. BatchMax \in Nat
  BY GrowthAssumption
<1>4. Logs' /\ Place'
  BY <1>1, <1>2, <1>3, KeyedNone DEF Logs, Place
<1>5. Uncounted' = 1
  BY <1>1 DEF Uncounted
<1>6. ASSUME NEW q \in CacheQueries PROVE CountedFor(q)'
  <2> DEFINE c == Times(Keyed(batch), 1, Len(batch), q)
             k == Times(kept, 1, Len(kept), q)
             s == CountIn(Seed(kept), q)
  <2>1. c \in Nat /\ k \in Nat /\ seenBy[q] \in Nat /\ s \in Nat
    <3>1. seenBy[q] \in 0 .. Threshold /\ k \in Nat /\ Len(batch) \in Nat
      BY CountsType
    <3>2. c \in Nat
      BY <3>1, CountType
    <3>3. s \in 0 .. Threshold
      BY <1>2, CountInType
    <3> QED BY <3>1, <3>2, <3>3
  <2>2. s <= k
    BY <1>2
  <2>3. Times(Keyed(batch'), 1, Len(batch'), q) = 0
    BY <1>1, KeyedNone, CountNone
  <2>4. seenBy[q] # Threshold => k + c <= seenBy[q]
    BY DEF Counted, CountedFor
  <2> HIDE DEF c, k, s
  <2>5. seenBy[q] # Threshold => s + 0 <= seenBy[q] /\ k + 0 <= seenBy[q]
    BY <2>1, <2>2, <2>4
  <2> QED BY <1>1, <1>5, <2>3, <2>5 DEF CountedFor, k, s
<1> QED BY <1>4, <1>6 DEF Counted

LEMMA LoadKeeps ==
    ASSUME Logs, Place, Counted, NEW p, Load(p)
    PROVE  Logs' /\ Place' /\ Counted'
<1>1. /\ growPhase = "load" /\ growPhase' \in {"load", "run"} /\ growAt' = growAt
      /\ batch' = batch /\ freq' = freq /\ kept' = kept /\ seenBy' = seenBy
  BY DEF Load
<1>2. Uncounted = 1 /\ Uncounted' = 1
  BY <1>1 DEF Uncounted
<1>3. Counted'
  BY <1>1, <1>2 DEF Counted, CountedFor
<1> QED BY <1>1, <1>3 DEF Logs, Place

------------------------------------------------------------------------------
(* The table under growth. *)

\* As many queries are known as slots are held.
LEMMA KnownCounts ==
    ASSUME NEW e, NEW w, Sane(e, w)
    PROVE  /\ IsFiniteSet(Held(e)) /\ IsFiniteSet(Known(e))
           /\ Cardinality(Held(e)) \in Nat /\ Cardinality(Known(e)) = Cardinality(Held(e))
<1>1. IsFiniteSet(CacheSlots) /\ Held(e) \in SUBSET CacheSlots
  BY FS_Interval, CacheAssumption DEF CacheSlots, Held
<1>2. IsFiniteSet(Held(e))
  BY <1>1, FS_Subset
<1> DEFINE f == [i \in Held(e) |-> e[i].query]
<1>3. f \in Bijection(Held(e), Known(e))
  <2>1. f \in [Held(e) -> Known(e)] /\ \A i, j \in Held(e) : f[i] = f[j] => i = j
    BY DEF Known, Sane, Single
  <2>2. \A q \in Known(e) : \E i \in Held(e) : f[i] = q
    BY DEF Known
  <2> HIDE DEF f
  <2> QED BY <2>1, <2>2 DEF Bijection, Injection, Surjection, IsInjective
<1>4. IsFiniteSet(Known(e)) /\ Cardinality(Known(e)) = Cardinality(Held(e))
  BY <1>2, <1>3, FS_Bijection DEF ExistsBijection
<1> QED BY <1>2, <1>4, FS_CardinalityType

LEMMA FoundKnown ==
    ASSUME Sane(entries, byAge), NEW q \in CacheQueries
    PROVE  FoundAt(q) # {} <=> q \in Known(entries)
<1>1. ASSUME NEW s \in FoundAt(q) PROVE q \in Known(entries)
  BY FoundFits DEF Known
<1>2. ASSUME q \in Known(entries) PROVE FoundAt(q) # {}
  <2>1. PICK i \in Held(entries) : entries[i].query = q
    BY <1>2 DEF Known
  <2> QED BY <2>1, HeldFound
<1> QED BY <1>1, <1>2

\* A table without tombstones below the high-water mark is not full, ...
LEMMA EmptyThere ==
    ASSUME Sane(entries, byAge), Tended(entries, used)
    PROVE  \E i \in CacheSlots : i \notin Held(entries) /\ entries[i] = CacheEmpty
<1>1. IsFiniteSet(CacheSlots) /\ Cardinality(CacheSlots) = CacheSize
  <2>1. 0 \in Int /\ CacheSize - 1 \in Int /\ CacheSize \in Nat
    BY CacheAssumption
  <2> QED BY <2>1, FS_Interval, CacheAssumption DEF CacheSlots
<1>2. Cardinality(Held(entries)) \in Nat /\ Cardinality(Held(entries)) < CacheSize
  <2>1. Cardinality(Held(entries)) \in Nat /\ Cardinality(Held(entries)) <= HighWater
    BY KnownCounts DEF Tended
  <2>2. HighWater < CacheSize /\ HighWater \in Nat
    BY GrowthAssumption
  <2> QED BY <2>1, <2>2, CacheAssumption
<1>3. Held(entries) \subseteq CacheSlots /\ CacheSize \in Nat
  BY CacheAssumption DEF Held
<1>4. Held(entries) # CacheSlots
  BY <1>1, <1>2, <1>3
<1>5. PICK i \in CacheSlots : i \notin Held(entries)
  BY <1>3, <1>4
<1>6. entries[i] = CacheEmpty
  BY <1>5 DEF Held, Tended
<1> QED BY <1>5, <1>6

\* ... and has a free slot for every query.
LEMMA FreeThere ==
    ASSUME Sane(entries, byAge), Tended(entries, used), NEW q \in CacheQueries
    PROVE  FreeSlots(q) # {}
<1>1. PICK i \in CacheSlots : entries[i] = CacheEmpty
  BY EmptyThere
<1>2. PICK n \in CacheSlots : Probe(q, n) = i
  BY ProbeSlots
<1>3. Reach(q) # CacheSize
  <2>1. SUFFICES ASSUME Reach(q) = CacheSize PROVE FALSE
    OBVIOUS
  <2>2. n \in 0 .. (Reach(q) - 1)
    BY <2>1, CacheAssumption DEF CacheSlots
  <2> QED BY <1>1, <1>2, <2>2, ReachIs DEF Passes
<1> QED BY <1>3 DEF FreeSlots

\* An insertion into such a table adds the query or gives it a new action, and evicts none.
LEMMA InsertTended ==
    ASSUME CacheInv, Tended(entries, used), NEW q \in Asked, NEW a \in CacheActions,
           q \in DOMAIN Patterns => a = Patterns[q], CacheInsert(q, a),
           used < HighWater \/ Known(entries) \union {q} \subseteq DOMAIN Patterns
    PROVE  /\ CacheInv' /\ Tended(entries', used')
           /\ Known(entries') = Known(entries) \union {q}
<1>1. Sane(entries, byAge) /\ used \in 0 .. (UsedMod - 1)
  BY InvIsSane
<1>2. q \in CacheQueries
  BY GrowthAssumption
<1>3. UpdateStep(q, a) \/ (AddStep(q, a) /\ used' = (used + 1) % UsedMod)
  <2>1. FreeSlots(q) # {}
    BY <1>1, <1>2, FreeThere
  <2> QED BY <1>1, <1>2, <2>1, InsertIs DEF EvictStep
<1>4. CacheInv' /\ Sane(entries', byAge')
  <2>1. CacheInv'
    BY <1>2, InsertInv
  <2>2. Sane(entries', byAge')
    BY <1>1, <1>2, <1>3, StoreSane
  <2> QED BY <2>1, <2>2
<1>5. PICK s : /\ Fits(entries, q, s) /\ entries' = PutAt(entries, s, q, a)
               /\ \/ s \in Held(entries) /\ entries[s].query = q /\ used' = used
                  \/ s \notin Held(entries) /\ used' = (used + 1) % UsedMod
  <2>1. CASE UpdateStep(q, a)
    <3>1. PICK s \in FoundAt(q) : entries' = PutAt(entries, s, q, a) /\ used' = used
      BY <2>1 DEF UpdateStep
    <3>2. s \in Held(entries) /\ entries[s].query = q /\ Fits(entries, q, s)
      BY <1>1, <1>2, FoundFits
    <3> QED BY <3>1, <3>2
  <2>2. CASE AddStep(q, a) /\ used' = (used + 1) % UsedMod
    BY <2>2 DEF AddStep
  <2> QED BY <1>3, <2>1, <2>2
<1>6. PICK f : f = PutAt(entries, s, q, a)
  OBVIOUS
<1>7. f \in Tables /\ Held(f) = Held(entries) \union {s} /\ s \in CacheSlots /\ entries \in Tables
  BY <1>1, <1>2, <1>5, <1>6, PutKeeps DEF Sane, Fits
<1>8. /\ Known(f) = (Known(entries) \ (IF s \in Held(entries) THEN {entries[s].query} ELSE {}))
                    \union {q}
      /\ Answers(f) = [r \in Known(f) |-> IF r = q THEN a ELSE Answers(entries)[r]]
  <2>1. Stores(entries, f, s, q, a)
    BY <1>1, <1>2, <1>5, <1>6, AnswersPut
  <2> QED BY <2>1 DEF Stores
<1>9. Known(f) = Known(entries) \union {q}
  BY <1>5, <1>8 DEF Known
<1>10. \A i \in CacheSlots : f[i] # CacheTombstone
  <2>1. CacheEntry(q, a) # CacheTombstone
    <3>1. CacheEntry(q, a) \in [query : CacheQueries, action : CacheActions]
      BY <1>2 DEF CacheEntry
    <3> QED BY <3>1, CacheAssumption
  <2>2. \A i \in CacheSlots : f[i] = IF i = s THEN CacheEntry(q, a) ELSE entries[i]
    BY <1>6, <1>7 DEF PutAt, Tables
  <2> QED BY <2>1, <2>2 DEF Tended
<1>11. used' = Cardinality(Held(f))
  <2>1. IsFiniteSet(Held(entries)) /\ Cardinality(Held(entries)) \in Nat
        /\ used = Cardinality(Held(entries)) /\ used <= HighWater
    BY <1>1, KnownCounts DEF Tended
  <2>2. Cardinality(Held(f)) = IF s \in Held(entries) THEN used ELSE used + 1
    <3>1. Cardinality(Held(entries) \union {s}) =
            IF s \in Held(entries) THEN Cardinality(Held(entries)) ELSE Cardinality(Held(entries)) + 1
      BY <2>1, FS_AddElement
    <3> QED BY <1>7, <2>1, <3>1
  <2>3. (used + 1) % UsedMod = used + 1
    <3>1. used + 1 \in 0 .. (UsedMod - 1) /\ UsedMod \in Nat \ {0}
      BY <2>1, CacheAssumption, GrowthAssumption
    <3> QED BY <3>1
  <2> QED BY <1>5, <2>2, <2>3
<1>12. used' <= HighWater
  <2>1. CASE used < HighWater
    <3>1. used \in Nat /\ (used' = used \/ used' = used + 1)
      <4>1. used = Cardinality(Held(entries)) /\ Cardinality(Held(entries)) \in Nat
            /\ IsFiniteSet(Held(entries))
        BY <1>1, KnownCounts DEF Tended
      <4>2. Cardinality(Held(entries) \union {s}) \in {used, used + 1}
        BY <4>1, FS_AddElement
      <4> QED BY <1>7, <1>11, <4>1, <4>2
    <3> QED BY <2>1, <3>1, GrowthAssumption
  <2>2. CASE Known(entries) \union {q} \subseteq DOMAIN Patterns
    <3>1. Cardinality(Held(f)) = Cardinality(Known(f)) /\ Cardinality(Held(f)) \in Nat
      BY <1>4, <1>5, <1>6, KnownCounts
    <3>2. Known(f) \in SUBSET DOMAIN Patterns
      BY <1>9, <2>2
    <3>3. Cardinality(Known(f)) <= Cardinality(DOMAIN Patterns)
      BY <3>2, FS_Subset, GrowthAssumption
    <3>4. Cardinality(DOMAIN Patterns) <= HighWater /\ Cardinality(DOMAIN Patterns) \in Nat
      BY FS_CardinalityType, GrowthAssumption
    <3> QED BY <1>11, <3>1, <3>3, <3>4, GrowthAssumption
  <2> QED BY <2>1, <2>2
<1>13. \A p \in DOMAIN Patterns \intersect Known(f) : Answers(f)[p] = Patterns[p]
  BY <1>8, <1>9 DEF Tended
<1>14. Known(f) \subseteq Asked
  BY <1>9 DEF Tended
<1> QED BY <1>4, <1>5, <1>6, <1>9, <1>10, <1>11, <1>12, <1>13, <1>14 DEF Tended

\* The table's part of the invariant.
TableInv == CacheInv /\ Tended(entries, used) /\ Stocked /\ Telemetry /\ Repeated

\* A step that leaves the slots and the phase alone.
LEMMA SlotsStay ==
    ASSUME TableInv, CacheInv', entries' = entries, used' = used, growth' = growth,
           growPhase' = growPhase \/ {growPhase, growPhase'} \subseteq {"run", "fold", "promote"},
           growPhase' = "run" => growPhase = "run",
           \A q \in CacheQueries : seenBy[q] = Threshold => seenBy'[q] = Threshold
    PROVE  TableInv'
<1>1. Known(entries) \subseteq CacheQueries
  BY GrowthAssumption DEF TableInv, Tended
<1>2. Tended(entries', used') /\ Stocked' /\ Repeated'
  BY <1>1 DEF TableInv, Stocked, Repeated
<1>3. Telemetry'
  BY DEF TableInv, Telemetry, Grown
<1> QED BY <1>2, <1>3 DEF TableInv

LEMMA LoadTable ==
    ASSUME TableInv, NEW p \in DOMAIN Patterns, Load(p)
    PROVE  TableInv'
<1>1. /\ growPhase = "load" /\ FoundAt(p) = {} /\ CacheInsert(p, Patterns[p])
      /\ growPhase' = IF \A r \in DOMAIN Patterns \ {p} : FoundAt(r) # {} THEN "run" ELSE "load"
      /\ growth' = growth /\ seenBy' = seenBy
  BY DEF Load
<1>2. p \in Asked /\ Patterns[p] \in CacheActions /\ DOMAIN Patterns \subseteq CacheQueries
  BY GrowthAssumption
<1>3. Known(entries) \subseteq DOMAIN Patterns /\ growth = 0
  BY <1>1 DEF TableInv, Stocked, Telemetry
<1>4. CacheInv' /\ Tended(entries', used') /\ Known(entries') = Known(entries) \union {p}
  BY <1>1, <1>2, <1>3, InsertTended DEF TableInv
<1>5. Sane(entries, byAge) /\ Sane(entries', byAge')
  <2>1. (CacheInv <=> Sane(entries, byAge) /\ used \in 0 .. (UsedMod - 1))'
    BY InvIsSane, PTL
  <2> QED BY <1>4, <2>1, InvIsSane DEF TableInv
<1>6. growPhase' = "run" => Known(entries') = DOMAIN Patterns
  BY <1>1, <1>2, <1>3, <1>4, <1>5, FoundKnown
<1>7. growPhase' \in {"load", "run"}
  BY <1>1
<1>8. Stocked' /\ Repeated'
  BY <1>3, <1>4, <1>6, <1>7 DEF Stocked, Repeated
<1>9. Telemetry'
  <2>1. growPhase' = "run" => used' = Cardinality(DOMAIN Patterns) /\ used' \in Nat
    BY <1>4, <1>5, <1>6, KnownCounts DEF Tended
  <2>2. growPhase' = "run" => Grown' = 0
    BY <2>1 DEF Grown
  <2> QED BY <1>1, <1>3, <1>7, <2>2, CacheAssumption DEF Telemetry
<1> QED BY <1>4, <1>8, <1>9 DEF TableInv

\* What the pass stores was recorded often enough.
LEMMA PromoteTable ==
    ASSUME TableInv, Logs, Place, Counted, Promote
    PROVE  TableInv'
<1> DEFINE r == batch[growAt]
<1>1. /\ growPhase = "promote" /\ growPhase' = growPhase /\ growAt <= Len(batch) /\ used < HighWater
      /\ IF Promotable(r) /\ ~Superseded(growAt) THEN CacheInsert(r.query, r.action)
         ELSE UNCHANGED cacheVars
      /\ growth' = growth /\ seenBy' = seenBy
  BY DEF Promote, Room
<1>2. r \in Recs
  BY <1>1, KeyedIs DEF Logs, Place
<1> HIDE DEF r
<1>3. CASE UNCHANGED cacheVars
  <2>1. CacheInv'
    BY <1>3, CacheRestInv DEF TableInv
  <2> QED BY <1>1, <1>3, <2>1, SlotsStay DEF cacheVars
<1>4. CASE Promotable(r) /\ CacheInsert(r.query, r.action)
  <2>1. r.query \in Learned /\ r.action \in CacheActions /\ r.query \in Asked
        /\ r.query \in CacheQueries /\ r.query \notin DOMAIN Patterns
    BY <1>2, <1>4, RecsAre DEF Promotable, Learned
  <2>2. CacheInv' /\ Tended(entries', used') /\ Known(entries') = Known(entries) \union {r.query}
    BY <1>1, <1>4, <2>1, InsertTended DEF TableInv
  <2>3. seenBy[r.query] = Threshold
    <3>1. CountIn(freq, r.query) >= Threshold
      BY <1>4 DEF Promotable, FreqOf, CountIn
    <3>2. /\ CountIn(freq, r.query) \in 0 .. Threshold /\ seenBy[r.query] \in 0 .. Threshold
          /\ Threshold \in Nat /\ Len(batch) \in Nat
      BY <2>1, CountsType
    <3>3. Uncounted = Len(batch) + 1 /\ Times(Keyed(batch), Len(batch) + 1, Len(batch), r.query) = 0
      BY <1>1, <3>2, CountNone DEF Uncounted
    <3> QED BY <2>1, <3>1, <3>2, <3>3 DEF Counted, CountedFor
  <2>4. Stocked' /\ Repeated'
    BY <1>1, <2>2, <2>3 DEF TableInv, Stocked, Repeated
  <2>5. Telemetry'
    BY <1>1 DEF TableInv, Telemetry
  <2> QED BY <2>2, <2>4, <2>5 DEF TableInv
<1> QED BY <1>1, <1>3, <1>4

\* The number of patterns is counted among the entries.
LEMMA GrownIs ==
    ASSUME TableInv, growPhase # "load"
    PROVE  Grown \in 0 .. CacheSize
<1>1. Sane(entries, byAge)
  BY InvIsSane DEF TableInv
<1>2. /\ used = Cardinality(Known(entries)) /\ used \in Nat /\ used <= HighWater
      /\ IsFiniteSet(Known(entries))
  BY <1>1, KnownCounts DEF TableInv, Tended
<1>3. DOMAIN Patterns \in SUBSET Known(entries)
  BY DEF TableInv, Stocked
<1>4. Cardinality(DOMAIN Patterns) <= used /\ Cardinality(DOMAIN Patterns) \in Nat
  BY <1>2, <1>3, FS_Subset, FS_CardinalityType
<1> QED BY <1>2, <1>4, CacheAssumption, GrowthAssumption DEF Grown

LEMMA EndPassTable ==
    ASSUME TableInv, EndPass
    PROVE  TableInv'
<1>1. /\ growPhase = "promote" /\ growPhase' = "run" /\ growth' = Grown /\ seenBy' = seenBy
      /\ UNCHANGED cacheVars
  BY DEF EndPass
<1>2. CacheInv'
  BY <1>1, CacheRestInv DEF TableInv
<1>3. entries' = entries /\ used' = used
  BY <1>1 DEF cacheVars
<1>4. Tended(entries', used') /\ Stocked' /\ Repeated'
  BY <1>1, <1>3 DEF TableInv, Stocked, Repeated
<1>5. Telemetry'
  BY <1>1, <1>3, GrownIs DEF Telemetry, Grown
<1> QED BY <1>2, <1>4, <1>5 DEF TableInv

LEMMA EmptyTended ==
    ASSUME NEW e, e = [i \in CacheSlots |-> CacheEmpty]
    PROVE  Tended(e, 0) /\ Known(e) = {}
<1>1. Held(e) = {} /\ \A i \in CacheSlots : e[i] # CacheTombstone
  BY CacheAssumption DEF Held
<1>2. Known(e) = {}
  BY <1>1 DEF Known
<1> QED BY <1>1, <1>2, FS_EmptySet, GrowthAssumption DEF Tended

LEMMA RebootTable ==
    ASSUME Reboot
    PROVE  TableInv'
<1>1. CacheClear /\ growPhase' = "load" /\ growth' = 0
  BY DEF Reboot
<1>2. CacheInv'
  BY <1>1, ClearInv
<1>3. entries' = [i \in CacheSlots |-> CacheEmpty] /\ used' = 0
  BY <1>1 DEF CacheClear
<1>4. Tended(entries', used') /\ Known(entries') = {}
  BY <1>3, EmptyTended
<1>5. Stocked' /\ Repeated' /\ Telemetry'
  BY <1>1, <1>4, CacheAssumption DEF Stocked, Repeated, Telemetry
<1> QED BY <1>2, <1>4, <1>5 DEF TableInv

\* A lane asks, finds or not, and records it.
LEMMA LaneKeeps ==
    ASSUME TableInv, Logs, Place, Counted, growPhase = "run", growPhase' = growPhase,
           growAt' = growAt, growth' = growth, freq' = freq, NEW q \in CacheQueries,
           CacheHit(q) \/ UNCHANGED cacheVars, NEW r \in Recs, Recorded(r)
    PROVE  TableInv' /\ Logs' /\ Place' /\ Counted'
<1>1. CacheInv' /\ entries' = entries /\ used' = used
  BY HitInv, CacheRestInv DEF TableInv, cacheVars, CacheHit
<1>2. /\ Logs' /\ Place' /\ Counted'
      /\ \A k \in CacheQueries : seenBy[k] = Threshold => seenBy'[k] = Threshold
  BY RecordedKeeps
<1>3. TableInv'
  BY <1>1, <1>2, SlotsStay
<1> QED BY <1>2, <1>3

GrowInv == TableInv /\ Logs /\ Place /\ Counted

LEMMA GrowStep == GrowInv /\ [GrowNext]_growVars => GrowInv'
<1> SUFFICES ASSUME GrowInv, [GrowNext]_growVars PROVE GrowInv'
  OBVIOUS
<1> USE DEF GrowInv
<1>0. Asked \subseteq CacheQueries /\ DOMAIN Patterns \subseteq Asked /\ Learned \subseteq Asked
  BY GrowthAssumption DEF Learned
<1>1. ASSUME NEW p \in DOMAIN Patterns, Load(p) PROVE GrowInv'
  BY <1>1, LoadTable, LoadKeeps
<1>2. ASSUME NEW p \in DOMAIN Patterns, AskCache(p) PROVE GrowInv'
  <2>1. PICK r : r = Rec(p, IF FoundAt(p) = {} THEN "failed" ELSE "cache")
    OBVIOUS
  <2>2. r \in Recs
    BY <1>0, <2>1 DEF Rec, Recs
  <2>3. /\ growPhase = "run" /\ growPhase' = growPhase /\ growAt' = growAt /\ growth' = growth
        /\ freq' = freq /\ Recorded(r) /\ (CacheHit(p) \/ UNCHANGED cacheVars)
    BY <1>2, <2>1 DEF AskCache
  <2> QED BY <1>0, <2>2, <2>3, LaneKeeps
<1>3. ASSUME NEW q \in Learned, ServePromoted(q) PROVE GrowInv'
  <2>1. PICK r : r = Rec(q, "cache")
    OBVIOUS
  <2>2. r \in Recs
    BY <1>0, <2>1 DEF Rec, Recs
  <2>3. /\ growPhase = "run" /\ growPhase' = growPhase /\ growAt' = growAt /\ growth' = growth
        /\ freq' = freq /\ Recorded(r) /\ CacheHit(q)
    BY <1>3, <2>1 DEF ServePromoted
  <2> QED BY <1>0, <2>2, <2>3, LaneKeeps
<1>4. ASSUME NEW q \in Learned, AskModel(q) PROVE GrowInv'
  <2>1. PICK r \in Recs : Recorded(r)
    <3>1. Rec(q, "failed") \in Recs /\ \A a \in CacheActions : Answer(q, a) \in Recs
      BY <1>0 DEF Rec, Answer, Recs
    <3> QED BY <1>4, <3>1 DEF AskModel
  <2>2. /\ growPhase = "run" /\ growPhase' = growPhase /\ growAt' = growAt /\ growth' = growth
        /\ freq' = freq /\ UNCHANGED cacheVars
    BY <1>4 DEF AskModel
  <2> QED BY <1>0, <2>1, <2>2, LaneKeeps
<1>5. CASE StartPass
  <2>1. /\ UNCHANGED cacheVars /\ growth' = growth /\ seenBy' = seenBy
        /\ growPhase = "run" /\ growPhase' = "fold"
    BY <1>5 DEF StartPass
  <2>2. CacheInv'
    BY <2>1, CacheRestInv DEF TableInv
  <2>3. TableInv'
    BY <2>1, <2>2, SlotsStay DEF cacheVars
  <2> QED BY <1>5, <2>3, StartPassKeeps
<1>6. CASE Fold
  <2>1. /\ UNCHANGED cacheVars /\ growth' = growth /\ seenBy' = seenBy
        /\ growPhase = "fold" /\ growPhase' \in {"fold", "promote"}
    BY <1>6 DEF Fold
  <2>2. CacheInv'
    BY <2>1, CacheRestInv DEF TableInv
  <2>3. TableInv'
    BY <2>1, <2>2, SlotsStay DEF cacheVars
  <2> QED BY <1>6, <2>3, FoldKeeps
<1>7. CASE Promote
  BY <1>7, PromoteTable, PromoteKeeps
<1>8. CASE EndPass
  BY <1>8, EndPassTable, EndPassKeeps
<1>9. CASE Reboot
  BY <1>9, RebootTable, RebootKeeps
<1>10. CASE UNCHANGED growVars
  <2>1. /\ UNCHANGED cacheVars /\ growth' = growth /\ seenBy' = seenBy /\ growPhase' = growPhase
        /\ growAt' = growAt /\ batch' = batch /\ freq' = freq /\ kept' = kept
    BY <1>10 DEF growVars
  <2>2. CacheInv'
    BY <2>1, CacheRestInv DEF TableInv
  <2>3. TableInv'
    BY <2>1, <2>2, SlotsStay DEF cacheVars
  <2>4. Logs' /\ Place' /\ Counted'
    BY <2>1 DEF Logs, Place, Counted, CountedFor, Uncounted
  <2> QED BY <2>3, <2>4
<1> QED BY <1>1, <1>2, <1>3, <1>4, <1>5, <1>6, <1>7, <1>8, <1>9, <1>10 DEF GrowNext

LEMMA GrowStart == GrowInit => GrowInv
<1> SUFFICES ASSUME GrowInit PROVE GrowInv
  OBVIOUS
<1>1. /\ CacheInit /\ freq = [q \in {} |-> 0] /\ batch = <<>> /\ growAt = 0 /\ growPhase = "load"
      /\ growth = 0 /\ kept = <<>> /\ seenBy = [q \in CacheQueries |-> 0]
  BY DEF GrowInit
<1>2. CacheInv
  BY <1>1, CacheInitInv
<1>3. Tended(entries, used) /\ Known(entries) = {}
  BY <1>1, EmptyTended DEF CacheInit
<1>4. TableInv
  BY <1>1, <1>2, <1>3, CacheAssumption DEF TableInv, Stocked, Telemetry, Repeated
<1>5. Tally(freq) /\ \A q : CountIn(freq, q) = 0
  BY <1>1, TallyNone
<1>6. Logs /\ Place
  BY <1>1, <1>5, KeyedNone, GrowthAssumption DEF Logs, Place
<1>7. ASSUME NEW q \in CacheQueries PROVE CountedFor(q)
  <2>1. Times(Keyed(batch), 1, Len(batch), q) = 0 /\ Times(kept, 1, Len(kept), q) = 0
    BY <1>1, KeyedNone, CountNone
  <2>2. Uncounted = 1 /\ seenBy[q] = 0 /\ CountIn(freq, q) = 0
    BY <1>1, <1>5 DEF Uncounted
  <2> QED BY <2>1, <2>2 DEF CountedFor
<1> QED BY <1>4, <1>6, <1>7 DEF GrowInv, Counted

\* What the invariant says: the types, and that growth keeps the patterns, takes in only what
\* was recorded often enough, and counts it.
LEMMA GrowthTyped == GrowInv => CgTypeOK
<1> SUFFICES ASSUME GrowInv PROVE CgTypeOK
  OBVIOUS
<1>1. DOMAIN freq \subseteq CacheQueries /\ \A q \in DOMAIN freq : freq[q] \in 1 .. Threshold
  BY DEF GrowInv, Logs, Tally
<1>2. Len(batch) <= BatchMax /\ Len(kept) <= StoreKept /\ Len(batch) \in Nat /\ BatchMax \in Nat
  BY LenProperties, GrowthAssumption DEF GrowInv, Logs
<1>3. growPhase \in {"load", "run", "fold", "promote"} /\ growAt \in 0 .. (BatchMax + 1)
  BY <1>2 DEF GrowInv, Place
<1> QED BY <1>1, <1>2, <1>3 DEF CgTypeOK, GrowInv, TableInv, Telemetry

LEMMA GrowthKept == GrowInv => GrowthKeeps
<1> SUFFICES ASSUME GrowInv, growPhase # "load"
             PROVE  PatternsStay /\ RepeatedOnly /\ GrowthCounted
  BY DEF GrowthKeeps
<1>1. Sane(entries, byAge) /\ Tended(entries, used) /\ DOMAIN Patterns \subseteq Known(entries)
  BY InvIsSane DEF GrowInv, TableInv, Stocked
<1>2. PatternsStay
  <2>1. ASSUME NEW p \in DOMAIN Patterns
        PROVE  \E s \in FoundAt(p) : entries[s].action = Patterns[p]
    <3>1. p \in CacheQueries /\ p \in Known(entries)
      BY <1>1, GrowthAssumption
    <3>2. PICK i \in Held(entries) : entries[i].query = p
      BY <3>1 DEF Known
    <3>3. Answers(entries)[p] = entries[i].action
      BY <1>1, <3>2, AnswersAre DEF Sane
    <3>4. i \in FoundAt(p)
      BY <1>1, <3>2, HeldFound
    <3> QED BY <1>1, <3>1, <3>3, <3>4 DEF Tended
  <2>2. \E i \in CacheSlots : entries[i] = CacheEmpty
    BY <1>1, EmptyThere
  <2> QED BY <2>1, <2>2 DEF PatternsStay
<1>3. RepeatedOnly
  <2>1. ASSUME NEW q \in Learned, FoundAt(q) # {} PROVE seenBy[q] = Threshold
    <3>1. q \in CacheQueries /\ q \notin DOMAIN Patterns
      BY GrowthAssumption DEF Learned
    <3>2. q \in Known(entries)
      BY <1>1, <2>1, <3>1, FoundKnown
    <3> QED BY <3>1, <3>2 DEF GrowInv, TableInv, Repeated
  <2> QED BY <2>1, GrowthAssumption DEF RepeatedOnly
<1>4. GrowthCounted
  <2>1. {q \in Learned : FoundAt(q) # {}} = Known(entries) \ DOMAIN Patterns
    <3>1. Known(entries) \subseteq Asked /\ Asked \subseteq CacheQueries
      BY <1>1, GrowthAssumption DEF Tended
    <3> QED BY <1>1, <3>1, FoundKnown DEF Learned
  <2>2. IsFiniteSet(Known(entries)) /\ used = Cardinality(Known(entries)) /\ used \in Nat
    BY <1>1, KnownCounts DEF Tended
  <2>3. Cardinality(Known(entries) \ DOMAIN Patterns) = used - Cardinality(DOMAIN Patterns)
    <3>1. /\ Cardinality(Known(entries) \ DOMAIN Patterns) =
               Cardinality(Known(entries)) - Cardinality(Known(entries) \intersect DOMAIN Patterns)
      BY <2>2, FS_Difference
    <3>2. Known(entries) \intersect DOMAIN Patterns = DOMAIN Patterns
      BY <1>1
    <3> QED BY <2>2, <3>1, <3>2
  <2> QED BY <2>1, <2>3 DEF GrowthCounted, Grown, GrowInv, TableInv, Telemetry
<1> QED BY <1>2, <1>3, <1>4

\* Every variable of the cache and of its growth keeps its type: growAt stays on a record of
\* the batch (the loops of cache_growth.c), the counts below the threshold they are compared
\* with, the batch and the store within their sizes.
THEOREM GrowthTypeCorrect == GrowSpec => [](CacheTypeOK /\ CgTypeOK)
<1>1. GrowInv => CacheTypeOK /\ CgTypeOK
  BY GrowthTyped DEF GrowInv, TableInv, CacheInv
<1> QED BY <1>1, GrowStart, GrowStep, PTL DEF GrowSpec

\* However queries are asked, answered, committed, counted and promoted, and wherever the box
\* restarts, cache_lookup finds every entry, no pattern is lost to a promotion, only queries
\* recorded Threshold times are promoted, and g_cache_growth_count is how many there are.
THEOREM GrowthIsSound == GrowSpec => [](Reachable /\ GrowthKeeps)
<1>1. GrowInv => Reachable /\ GrowthKeeps
  BY GrowthKept DEF GrowInv, TableInv, CacheInv
<1> QED BY <1>1, GrowStart, GrowStep, PTL DEF GrowSpec
==============================================================================
