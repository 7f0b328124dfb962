-------------------------- MODULE ControlPathProofs --------------------------
(***************************************************************************)
(* Proofs about the path of a control-IN frame: the card's receive ring     *)
(* (RxRing), the mailboxes to the input process (ControlMailbox), the rate   *)
(* limit (TokenBucket) and the gate (ControlGate) of PA, and the card's      *)
(* transmit ring (TxRing), for every size of the rings, every width of the   *)
(* numbers, every deadline, number of windows, capacity, cost and rate; and  *)
(* about MCControlPath, which puts them side by side.                        *)
(***************************************************************************)
EXTENDS MCControlPath, SequenceTheorems, TLAPS

------------------------------------------------------------------------------
(* The gate: the inductive invariant *)

Before  == {"idle", "shield", "veto", "serve", "recall", "send"}
AtWait == {"wait", "drain"}
Leaving == {"exit", "reply", "embed", "tail", "done"}

(* What is set at the exit, or on the way to it, is not set before. *)
FreshInv ==
    /\ g \in Before \cup {"wait"} => ~got /\ empty /\ whose = "none"
    /\ g \notin Leaving =>
         ~local /\ ~gfault /\ contact = "none" /\ stored = "none" /\ vecof = "none" /\ jact = "none"
    /\ g = "drain" => got
    /\ g \notin {"embed", "tail", "done"} => told = "none"
    /\ g \in {"idle", "shield", "veto", "serve", "recall"} => vused = "none"
    /\ local => got /\ whose = "none"
    /\ kind # "none" <=> pre

(* What an exit has said so far. *)
Disposed ==
    /\ g \in {"exit"} => contact = "none" /\ stored = "none"
    /\ g \in {"exit", "reply", "embed", "tail"} => jact = "none"
    /\ g \in {"reply", "embed", "tail"} =>
         /\ contact = IF Acknowledges THEN "ack" ELSE IF ~got /\ ~gfault THEN "miss" ELSE "none"
         /\ stored \in {"lost", IF ~Answered THEN "ERROR" ELSE IF local THEN "LOCAL" ELSE "OK"}
    /\ g \in {"embed", "tail"} => told = Verdict

(* Vectors: the stash is this turn's once the query is classified, and a record that wants a
   vector is this turn's. *)
VectorInv ==
    /\ g \notin {"idle", "shield", "done"} => qvec \in {"none", "this"}
    /\ g \notin {"reply", "embed"} => vecable = "none"
    /\ g \in {"reply", "embed"} => vecable \in {"none", "this"} /\ (vecable # "none" => got)
    /\ VectorOfThisTurn

(* The text taken as this query's own: nobody else's is appended, and its stop reason is in
   the latch. *)
TakenInv == whose # "spoilt" /\ (whose = "this" => stopof = "this")

(* Before the query is sent, nothing of it is with PB. *)
NothingOwn ==
    /\ ~gen.cur
    /\ \A i \in DOMAIN gq : ~gq[i].cur
    /\ \A i \in DOMAIN gring : ~gring[i].cur

(* PB serves in order: what is older than the query comes before it, in the request ring, in
   PB and in the response ring. *)
Served  == gq = <<>> /\ (gen.at = "none" \/ gen.cur)
OwnSeen == whose \in {"this", "bare"} \/ stopof = "this"

InOrder ==
    /\ \A i \in DOMAIN gq : gq[i].cur => i = Len(gq)
    /\ gen.cur => gq = <<>>
    /\ \A i \in DOMAIN gring : gring[i].cur =>
         Served /\ \A j \in DOMAIN gring : i < j => gring[j].cur
    /\ OwnSeen => Served /\ \A j \in DOMAIN gring : gring[j].cur

(* The stop reason of the query is latched, or is ahead of place i in the response ring. *)
Announced(i) ==
    stopof = "this" \/ \E k \in DOMAIN gring : k < i /\ gring[k].type = "stats" /\ gring[k].cur

Marked ==
    /\ gen.at = "send" /\ gen.cur /\ gen.marked => Announced(Len(gring) + 1)
    /\ \A i \in DOMAIN gring :
         gring[i].type = "text" /\ gring[i].cur /\ gring[i].marked => Announced(i)

RingInv ==
    /\ gen.at = "none" => ~gen.cur
    /\ gen.at = "send" => gen.left # 0
    /\ g \in Before => NothingOwn
    /\ g \in AtWait => InOrder /\ Marked

PaInv == FreshInv /\ Disposed /\ VectorInv /\ TakenInv /\ ExitHonest /\ ThisTurn

(* The types, of the rings and of the rest. *)
RingTypes ==
    /\ gq \in Seq(GateRequests) /\ Len(gq) <= GateQueue
    /\ gring \in Seq(GateMessages) /\ Len(gring) <= GateRing
    /\ gen \in Generations

PaTypes ==
    /\ g \in {"idle", "shield", "veto", "serve", "recall", "send", "wait", "drain", "exit", "reply",
              "embed", "tail", "done"}
    /\ cseq \in Numbers
    /\ qvec \in Marks /\ vused \in Marks /\ vecable \in Marks /\ vecof \in Marks /\ stopof \in Marks
    /\ route \in {"none", "SYSFACTS", "DECLINE", "INFER"}
    /\ local \in BOOLEAN /\ pre \in BOOLEAN /\ got \in BOOLEAN /\ gfault \in BOOLEAN
    /\ empty \in BOOLEAN /\ moved \in BOOLEAN /\ pbup \in BOOLEAN
    /\ kind \in {"none", "EXACT", "SEMANTIC"}
    /\ polls \in 0 .. (PollMax - 1) /\ windows \in 0 .. WindowCap
    /\ whose \in Marks \cup {"bare", "spoilt"} /\ stop \in Stops
    /\ told \in {"none", "refused", "degraded", "failed", "truncated", "answered"}
    /\ stored \in {"none", "OK", "LOCAL", "ERROR", "lost"}
    /\ jact \in {"none", "BLOCKED", "OK", "FAIL"} /\ contact \in {"none", "ack", "miss"}

GateInv == PaTypes /\ RingTypes /\ PaInv /\ RingInv

LEMMA GateTypeParts == PaTypes /\ RingTypes => GateTypeOK
<1>1. {qvec, vused, vecable, vecof, stopof} \subseteq Marks
      <=> qvec \in Marks /\ vused \in Marks /\ vecable \in Marks /\ vecof \in Marks /\ stopof \in Marks
  OBVIOUS
<1>2. {local, pre, got, gfault, empty, moved, pbup} \subseteq BOOLEAN
      <=> /\ local \in BOOLEAN /\ pre \in BOOLEAN /\ got \in BOOLEAN /\ gfault \in BOOLEAN
          /\ empty \in BOOLEAN /\ moved \in BOOLEAN /\ pbup \in BOOLEAN
  BY Zenon
<1> QED  BY <1>1, <1>2, Zenon DEF GateTypeOK, PaTypes, RingTypes

(* What PA does to the rings before it sends the query, and after it has answered it. *)
PaMoves ==
    /\ gring' \in {gring, <<>>} /\ gen' = gen
    /\ gq' = gq \/ \E r \in GateRequests : ~r.cur /\ gq' = Asked(r)

(* What follows the first element of a sequence. *)
LEMMA TailFacts ==
    ASSUME NEW S, NEW s \in Seq(S), s # <<>>
    PROVE  /\ Tail(s) \in Seq(S) /\ Len(Tail(s)) = Len(s) - 1 /\ Len(s) \in Nat
           /\ Head(s) = s[1] /\ Head(s) \in S /\ 1 \in DOMAIN s
           /\ \A i \in DOMAIN Tail(s) : i \in Nat /\ i + 1 \in DOMAIN s /\ Tail(s)[i] = s[i + 1]
           /\ \A i \in DOMAIN s : i # 1 => i - 1 \in DOMAIN Tail(s) /\ Tail(s)[i - 1] = s[i]
           /\ \A i \in DOMAIN s : i \in Nat /\ i > 0
  OBVIOUS

(* A sequence with one more element. *)
LEMMA PutFacts ==
    ASSUME NEW S, NEW s \in Seq(S), NEW r \in S
    PROVE  /\ Append(s, r) \in Seq(S) /\ Len(Append(s, r)) = Len(s) + 1 /\ Len(s) \in Nat
           /\ Len(s) + 1 \in DOMAIN Append(s, r) /\ Append(s, r)[Len(s) + 1] = r
           /\ \A i \in DOMAIN s : i \in DOMAIN Append(s, r) /\ Append(s, r)[i] = s[i] /\ i \in Nat
           /\ \A i \in DOMAIN Append(s, r) : \/ i \in DOMAIN s /\ Append(s, r)[i] = s[i]
                                             \/ i = Len(s) + 1
  OBVIOUS

LEMMA NextNumberType == \A n \in Numbers : NextNumber(n) \in Numbers
<1> SUFFICES ASSUME NEW n \in Numbers PROVE NextNumber(n) \in Numbers
  OBVIOUS
<1>1. GateMod \in Nat /\ GateMod > 0 /\ n + 1 \in Nat  BY GateAssumption DEF Numbers
<1>2. (n + 1) % GateMod \in 0 .. (GateMod - 1)  BY <1>1, SMTT(20)
<1> QED  BY <1>2 DEF NextNumber, Numbers

LEMMA GateNumbers ==
    /\ GateMod \in Nat /\ GateQueue \in Nat \ {0} /\ GateRing \in Nat \ {0} /\ Chunks \in Nat \ {0}
    /\ PollMax \in Nat \ {0} /\ WindowCap \in Nat /\ 0 \in Numbers
  BY GateAssumption DEF Numbers

LEMMA Requested ==
    ASSUME NEW k \in {"query", "beat"}, NEW n \in Numbers, NEW m \in BOOLEAN
    PROVE  /\ Request(k, n, m) \in GateRequests /\ Request(k, n, m).cur = m
           /\ Request(k, n, m).kind = k
  BY DEF Request, GateRequests

LEMMA PaMovesKeep ==
    ASSUME RingTypes, PaMoves
    PROVE  RingTypes' /\ (NothingOwn => NothingOwn')
<1>1. /\ gq \in Seq(GateRequests) /\ Len(gq) <= GateQueue /\ GateQueue \in Nat
      /\ gring \in Seq(GateMessages) /\ Len(gring) <= GateRing /\ GateRing \in Nat
      /\ gen \in Generations /\ gen' = gen
  BY GateNumbers DEF RingTypes, PaMoves
<1>2. /\ gring' \in Seq(GateMessages) /\ Len(gring') <= GateRing
      /\ NothingOwn => \A i \in DOMAIN gring' : ~gring'[i].cur
  <2>1. CASE gring' = gring  BY <1>1, <2>1 DEF NothingOwn
  <2>2. CASE gring' = <<>>
    <3>1. gring' \in Seq(GateMessages) /\ Len(gring') = 0 /\ DOMAIN gring' = {}  BY <2>2
    <3> QED  BY <1>1, <3>1
  <2> QED  BY <2>1, <2>2 DEF PaMoves
<1>3. NothingOwn => ~gen'.cur  BY <1>1 DEF NothingOwn
<1>4. CASE gq' = gq  BY <1>1, <1>2, <1>3, <1>4 DEF RingTypes, NothingOwn
<1>5. CASE \E r \in GateRequests : ~r.cur /\ gq' = Asked(r)
  <2>1. PICK r \in GateRequests : ~r.cur /\ gq' = Asked(r)  BY <1>5
  <2>2. gq' = IF Len(gq) < GateQueue THEN Append(gq, r) ELSE gq  BY <2>1 DEF Asked
  <2>3. /\ gq' \in Seq(GateRequests) /\ Len(gq') <= GateQueue
        /\ \A i \in DOMAIN gq' : (i \in DOMAIN gq /\ gq'[i] = gq[i]) \/ gq'[i] = r
    <3>1. CASE Len(gq) < GateQueue
      <4>1. gq' = Append(gq, r)  BY <2>2, <3>1
      <4>2. /\ Append(gq, r) \in Seq(GateRequests) /\ Len(Append(gq, r)) = Len(gq) + 1
            /\ Len(gq) \in Nat /\ Append(gq, r)[Len(gq) + 1] = r
            /\ \A i \in DOMAIN Append(gq, r) : \/ i \in DOMAIN gq /\ Append(gq, r)[i] = gq[i]
                                               \/ i = Len(gq) + 1
        BY <1>1, PutFacts
      <4> QED  BY <1>1, <3>1, <4>1, <4>2
    <3>2. CASE ~(Len(gq) < GateQueue)
      <4>1. gq' = gq  BY <2>2, <3>2
      <4> QED  BY <1>1, <4>1
    <3> QED  BY <3>1, <3>2
  <2> QED  BY <1>1, <1>2, <1>3, <2>1, <2>3 DEF RingTypes, NothingOwn
<1> QED  BY <1>4, <1>5 DEF PaMoves

LEMMA EmbedMoves == Embeds \/ EmbedsNot \/ UNCHANGED pbVars => PaMoves
<1>1. /\ Request("beat", 0, FALSE) \in GateRequests /\ ~Request("beat", 0, FALSE).cur
  BY GateNumbers, Requested
<1> QED  BY <1>1 DEF Embeds, EmbedsNot, pbVars, PaMoves

LEMMA GateInitially == GateInit => GateInv
<1> SUFFICES ASSUME GateInit PROVE GateInv
  OBVIOUS
<1> USE DEF GateInit
<1>1. 0 \in Numbers /\ GateQueue \in Nat /\ GateRing \in Nat /\ Chunks \in Nat /\ PollMax > 0
      /\ PollMax \in Nat /\ WindowCap \in Nat
  BY GateNumbers
<1>2. gq \in Seq(GateRequests) /\ Len(gq) = 0 /\ gring \in Seq(GateMessages) /\ Len(gring) = 0
  OBVIOUS
<1>3. local \in BOOLEAN /\ pre \in BOOLEAN /\ got \in BOOLEAN /\ gfault \in BOOLEAN
      /\ empty \in BOOLEAN /\ moved \in BOOLEAN /\ pbup \in BOOLEAN
  OBVIOUS
<1>4. gen \in Generations /\ ~gen.cur  BY <1>1 DEF NoGen, Generations
<1>5. polls \in 0 .. (PollMax - 1) /\ windows \in 0 .. WindowCap  BY <1>1
<1>6. PaTypes /\ RingTypes
  BY <1>1, <1>2, <1>3, <1>4, <1>5 DEF PaTypes, RingTypes, Stops, Marks
<1>7. FreshInv /\ Disposed /\ VectorInv /\ TakenInv
  BY DEF FreshInv, Disposed, VectorInv, VectorOfThisTurn, TakenInv, Leaving, AtWait
<1>8. RingInv
  <2>1. DOMAIN gq = {} /\ DOMAIN gring = {} /\ gen.at = "none"  BY <1>2 DEF NoGen
  <2> QED  BY <1>4, <2>1 DEF RingInv, NothingOwn, AtWait
<1>9. ExitHonest /\ ThisTurn
  BY DEF ExitHonest, OneStory, ContactHonest, ProvenanceTrue, ThisTurn, AnswerOwn,
         VectorOfThisTurn
<1> QED  BY <1>6, <1>7, <1>8, <1>9 DEF GateInv, PaInv

(* What PA knows of a query rests while PB and its rings move. *)
queryVars == <<g, cseq, paState, got, empty, whose, stopVars, outVars>>

LEMMA PaRests == PaInv /\ UNCHANGED queryVars => PaInv'
  BY DEF PaInv, queryVars, paState, stopVars, outVars, FreshInv, Disposed, VectorInv, TakenInv,
         ExitHonest, ThisTurn, Leaving, Acknowledges, Answered, Verdict, OneStory, ContactHonest,
         ProvenanceTrue, AnswerOwn, VectorOfThisTurn

(* The steps of PB. *)
LEMMA PbKeeps ==
    ASSUME GateInv, UNCHANGED paRests, moved' \in BOOLEAN, RingTypes', RingInv'
    PROVE  GateInv'
<1>1. PaTypes /\ PaInv  BY DEF GateInv
<1>2. PaTypes'  BY <1>1 DEF PaTypes, paRests, paState, stopVars, outVars
<1>3. UNCHANGED queryVars  BY DEF paRests, queryVars
<1>4. PaInv'  BY <1>1, <1>3, PaRests
<1> QED  BY <1>2, <1>4 DEF GateInv

LEMMA PbFacts ==
    ASSUME GateInv
    PROVE  /\ gq \in Seq(GateRequests) /\ Len(gq) <= GateQueue /\ gen \in Generations
           /\ gring \in Seq(GateMessages) /\ Len(gring) <= GateRing /\ Len(gring) \in Nat
           /\ moved \in BOOLEAN
           /\ gen.no \in Numbers /\ gen.cur \in BOOLEAN /\ gen.marked \in BOOLEAN
           /\ gen.empty \in BOOLEAN /\ gen.left \in 0 .. Chunks
           /\ gen.at = "none" => ~gen.cur
           /\ gen.at = "send" => gen.left # 0
           /\ g \in Before => NothingOwn
           /\ g \in AtWait => InOrder /\ Marked
  BY DEF GateInv, RingTypes, PaTypes, RingInv, Generations

LEMMA HeadServed ==
    ASSUME GateInv, gen.at = "none", gq # <<>>, gq' = Tail(gq)
    PROVE  /\ gq' \in Seq(GateRequests) /\ Len(gq') <= GateQueue
           /\ Head(gq).no \in Numbers /\ Head(gq).cur \in BOOLEAN
           /\ g \in Before => ~Head(gq).cur /\ \A i \in DOMAIN gq' : ~gq'[i].cur
           /\ g \in AtWait =>
                /\ \A i \in DOMAIN gq' : gq'[i].cur => i = Len(gq')
                /\ Head(gq).cur => gq' = <<>>
                /\ \A i \in DOMAIN gring : ~gring[i].cur
                /\ ~OwnSeen
<1>1. /\ gq' \in Seq(GateRequests) /\ Len(gq') = Len(gq) - 1 /\ Len(gq) \in Nat
      /\ Head(gq) = gq[1] /\ Head(gq) \in GateRequests /\ 1 \in DOMAIN gq
      /\ \A i \in DOMAIN gq' : i \in Nat /\ i + 1 \in DOMAIN gq /\ gq'[i] = gq[i + 1]
  BY PbFacts, TailFacts
<1>2. Head(gq).no \in Numbers /\ Head(gq).cur \in BOOLEAN  BY <1>1 DEF GateRequests
<1>3. Len(gq') <= GateQueue  BY <1>1, PbFacts, GateNumbers
<1>4. g \in Before => ~Head(gq).cur /\ \A i \in DOMAIN gq' : ~gq'[i].cur
  BY <1>1, PbFacts DEF NothingOwn
<1>5. ASSUME g \in AtWait
      PROVE  /\ \A i \in DOMAIN gq' : gq'[i].cur => i = Len(gq')
             /\ Head(gq).cur => gq' = <<>>
             /\ \A i \in DOMAIN gring : ~gring[i].cur
             /\ ~OwnSeen
  <2>1. InOrder  BY <1>5, PbFacts
  <2>2. \A i \in DOMAIN gq' : gq'[i].cur => i = Len(gq')  BY <1>1, <2>1 DEF InOrder
  <2>3. Head(gq).cur => gq' = <<>>
    <3>1. Head(gq).cur => Len(gq) = 1  BY <1>1, <2>1 DEF InOrder
    <3> QED  BY <1>1, <3>1
  <2> QED  BY <2>1, <2>2, <2>3 DEF InOrder, Served
<1> QED  BY <1>1, <1>2, <1>3, <1>4, <1>5

LEMMA GenerateKeeps == ASSUME GateInv, Generate PROVE GateInv'
<1>1. /\ gen.at = "none" /\ gq # <<>> /\ gq' = Tail(gq) /\ gring' = gring
      /\ gen' = [NoGen EXCEPT !.at = "run", !.no = Head(gq).no, !.cur = Head(gq).cur]
      /\ UNCHANGED <<paRests, moved>>
  BY DEF Generate
<1>2. UNCHANGED <<g, whose, stopof>>  BY <1>1 DEF paRests, stopVars
<1>3. /\ gq' \in Seq(GateRequests) /\ Len(gq') <= GateQueue
      /\ Head(gq).no \in Numbers /\ Head(gq).cur \in BOOLEAN
      /\ g \in Before => ~Head(gq).cur /\ \A i \in DOMAIN gq' : ~gq'[i].cur
      /\ g \in AtWait =>
           /\ \A i \in DOMAIN gq' : gq'[i].cur => i = Len(gq')
           /\ Head(gq).cur => gq' = <<>>
           /\ \A i \in DOMAIN gring : ~gring[i].cur
           /\ ~OwnSeen
  BY <1>1, HeadServed
<1>4. gen' = [at |-> "run", no |-> Head(gq).no, cur |-> Head(gq).cur, marked |-> FALSE,
              empty |-> FALSE, left |-> 0]
  BY <1>1 DEF NoGen
<1>5. gen' \in Generations /\ gen'.at = "run" /\ gen'.cur = Head(gq).cur
  BY <1>3, <1>4, GateNumbers DEF Generations
<1>6. RingTypes'  BY <1>1, <1>3, <1>5, PbFacts DEF RingTypes
<1>7. RingInv'
  <2>1. g' \in Before => NothingOwn'  BY <1>1, <1>2, <1>3, <1>5, PbFacts DEF NothingOwn
  <2>2. g' \in AtWait => InOrder' /\ Marked'
    BY <1>1, <1>2, <1>3, <1>5 DEF InOrder, Served, OwnSeen, Marked
  <2> QED  BY <1>5, <2>1, <2>2 DEF RingInv
<1> QED  BY <1>1, <1>6, <1>7, PbFacts, PbKeeps

(* A message at the end of the response ring, if there is room. *)
LEMMA OfferFacts ==
    ASSUME GateInv, NEW m \in GateMessages, gring' = Offered(m)
    PROVE  /\ gring' \in Seq(GateMessages) /\ Len(gring') <= GateRing /\ Len(gring') \in Nat
           /\ \A i \in DOMAIN gring : i \in DOMAIN gring' /\ gring'[i] = gring[i] /\ i \in Nat
           /\ \A i \in DOMAIN gring' : \/ i \in DOMAIN gring /\ gring'[i] = gring[i]
                                       \/ i = Len(gring) + 1 /\ i = Len(gring') /\ gring'[i] = m
           /\ Room => /\ Len(gring') = Len(gring) + 1 /\ Len(gring') \in DOMAIN gring'
                      /\ gring'[Len(gring')] = m
           /\ ~Room => gring' = gring
<1>1. /\ gring \in Seq(GateMessages) /\ Len(gring) <= GateRing /\ GateRing \in Nat
      /\ gring' = IF Len(gring) < GateRing THEN Append(gring, m) ELSE gring
  BY PbFacts, GateNumbers DEF Offered, Room
<1>2. /\ gring' \in Seq(GateMessages) /\ Len(gring') <= GateRing /\ Len(gring') \in Nat
      /\ \A i \in DOMAIN gring : i \in DOMAIN gring' /\ gring'[i] = gring[i] /\ i \in Nat
      /\ \A i \in DOMAIN gring' : \/ i \in DOMAIN gring /\ gring'[i] = gring[i]
                                  \/ i = Len(gring) + 1 /\ i = Len(gring') /\ gring'[i] = m
  <2>1. CASE Len(gring) < GateRing
    <3>1. gring' = Append(gring, m)  BY <1>1, <2>1
    <3>2. gring' \in Seq(GateMessages) /\ Len(gring') = Len(gring) + 1 /\ Len(gring) \in Nat
      BY <1>1, <3>1, PutFacts
    <3> QED  BY <1>1, <2>1, <3>1, <3>2, PutFacts
  <2>2. CASE ~(Len(gring) < GateRing)
    <3>1. gring' = gring  BY <1>1, <2>2
    <3>2. Len(gring) \in Nat /\ \A i \in DOMAIN gring : i \in Nat  BY <1>1
    <3>3. gring' \in Seq(GateMessages) /\ Len(gring') <= GateRing /\ Len(gring') \in Nat
      BY <1>1, <3>1, <3>2
    <3> QED  BY <3>1, <3>2, <3>3, Zenon
  <2> QED  BY <2>1, <2>2
<1>3. Room => /\ Len(gring') = Len(gring) + 1 /\ Len(gring') \in DOMAIN gring'
              /\ gring'[Len(gring')] = m
  <2> SUFFICES ASSUME Room PROVE /\ Len(gring') = Len(gring) + 1 /\ Len(gring') \in DOMAIN gring'
                                 /\ gring'[Len(gring')] = m
    OBVIOUS
  <2>1. gring' = Append(gring, m)  BY <1>1 DEF Room
  <2> QED  BY <1>1, <2>1, PutFacts
<1>4. ~Room => gring' = gring  BY <1>1 DEF Room
<1> QED  BY <1>2, <1>3, <1>4

LEMMA AnswerAtOnceKeeps == ASSUME GateInv, AnswerAtOnce PROVE GateInv'
<1> DEFINE m == IF Head(gq).kind = "query"
                THEN Message("text", Head(gq).no, Head(gq).cur, FALSE, TRUE, "UNKNOWN")
                ELSE Message("other", 0, FALSE, FALSE, TRUE, "UNKNOWN")
<1>1. /\ gen.at = "none" /\ gq # <<>> /\ gq' = Tail(gq) /\ gring' = Offered(m) /\ gen' = gen
      /\ UNCHANGED <<paRests, moved>>
  BY DEF AnswerAtOnce
<1>2. UNCHANGED <<g, whose, stopof>>  BY <1>1 DEF paRests, stopVars
<1>3. /\ gq' \in Seq(GateRequests) /\ Len(gq') <= GateQueue
      /\ Head(gq).no \in Numbers /\ Head(gq).cur \in BOOLEAN
      /\ g \in Before => ~Head(gq).cur /\ \A i \in DOMAIN gq' : ~gq'[i].cur
      /\ g \in AtWait =>
           /\ \A i \in DOMAIN gq' : gq'[i].cur => i = Len(gq')
           /\ Head(gq).cur => gq' = <<>>
           /\ \A i \in DOMAIN gring : ~gring[i].cur
           /\ ~OwnSeen
  BY <1>1, HeadServed
<1>4. m \in GateMessages /\ ~m.marked /\ (m.cur => Head(gq).cur)
  <2>1. "UNKNOWN" \in Stops  BY DEF Stops
  <2>2. /\ Message("text", Head(gq).no, Head(gq).cur, FALSE, TRUE, "UNKNOWN") \in GateMessages
        /\ ~Message("text", Head(gq).no, Head(gq).cur, FALSE, TRUE, "UNKNOWN").marked
        /\ Message("text", Head(gq).no, Head(gq).cur, FALSE, TRUE, "UNKNOWN").cur = Head(gq).cur
    BY <1>3, <2>1 DEF Message, GateMessages
  <2>3. /\ Message("other", 0, FALSE, FALSE, TRUE, "UNKNOWN") \in GateMessages
        /\ ~Message("other", 0, FALSE, FALSE, TRUE, "UNKNOWN").marked
        /\ ~Message("other", 0, FALSE, FALSE, TRUE, "UNKNOWN").cur
    BY GateNumbers, <2>1 DEF Message, GateMessages
  <2> QED  BY <2>2, <2>3
<1> HIDE DEF m
<1>5. /\ gring' \in Seq(GateMessages) /\ Len(gring') <= GateRing /\ Len(gring') \in Nat
      /\ \A i \in DOMAIN gring' : \/ i \in DOMAIN gring /\ gring'[i] = gring[i]
                                  \/ i = Len(gring) + 1 /\ i = Len(gring') /\ gring'[i] = m
  BY <1>1, <1>4, OfferFacts
<1>6. RingTypes'  BY <1>1, <1>3, <1>5, PbFacts DEF RingTypes
<1>7. ~gen.cur  BY <1>1, PbFacts
<1>8. RingInv'
  <2>1. g' \in Before => NothingOwn'
    BY <1>1, <1>2, <1>3, <1>4, <1>5, <1>7, PbFacts DEF NothingOwn
  <2>2. ASSUME g' \in AtWait PROVE InOrder' /\ Marked'
    <3>1. \A i \in DOMAIN gring' : gring'[i].cur => i = Len(gring') /\ gq' = <<>> /\ ~gring'[i].marked
      BY <1>2, <1>3, <1>4, <1>5, <2>2
    <3>2. \A i, j \in DOMAIN gring' : i < j => i # Len(gring')  BY <1>5
    <3>3. ~OwnSeen'  BY <1>2, <1>3, <2>2 DEF OwnSeen
    <3>4. \A i \in DOMAIN gq' : gq'[i].cur => i = Len(gq')  BY <1>2, <1>3, <2>2
    <3>5. InOrder'  BY <1>1, <1>7, <3>1, <3>2, <3>3, <3>4 DEF InOrder, Served
    <3>6. Marked'  BY <1>1, <1>7, <3>1 DEF Marked
    <3> QED  BY <3>5, <3>6
  <2> QED  BY <1>1, <1>7, <2>1, <2>2 DEF RingInv
<1> QED  BY <1>1, <1>6, <1>8, PbFacts, PbKeeps

LEMMA PbTickKeeps == ASSUME GateInv, PbTick PROVE GateInv'
<1>1. UNCHANGED <<paRests, pbVars>> /\ moved' = TRUE  BY DEF PbTick
<1>2. UNCHANGED <<g, whose, stopof, gq, gring, gen>>  BY <1>1 DEF paRests, stopVars, pbVars
<1>3. RingTypes /\ RingInv  BY DEF GateInv
<1>4. RingTypes' /\ RingInv'
  BY <1>2, <1>3 DEF RingTypes, RingInv, NothingOwn, InOrder, Served, OwnSeen, Marked, Announced
<1> QED  BY <1>1, <1>4, PbKeeps

(* A message of the generation at hand, at the end of the response ring. *)
LEMMA OfferKeeps ==
    ASSUME GateInv, gen.at # "none", UNCHANGED <<paRests, moved, gq>>,
           NEW m \in GateMessages, m.cur = gen.cur, gring' = Offered(m),
           m.type = "text" => (gen.at = "send" /\ m.marked = gen.marked),
           gen' \in Generations,
           gen'.at = "none" => ~gen'.cur, gen'.at = "send" => gen'.left # 0,
           gen'.at # "none" => gen'.cur = gen.cur,
           gen'.at = "send" /\ gen'.marked =>
               Room /\ ((gen.at = "send" /\ gen.marked) \/ m.type = "stats")
    PROVE  GateInv'
<1>1. UNCHANGED <<g, whose, stopof>>  BY DEF paRests, stopVars
<1>2. /\ gring' \in Seq(GateMessages) /\ Len(gring') <= GateRing /\ Len(gring') \in Nat
      /\ \A i \in DOMAIN gring : i \in DOMAIN gring' /\ gring'[i] = gring[i] /\ i \in Nat
      /\ \A i \in DOMAIN gring' : \/ i \in DOMAIN gring /\ gring'[i] = gring[i]
                                  \/ i = Len(gring) + 1 /\ i = Len(gring') /\ gring'[i] = m
      /\ Room => /\ Len(gring') = Len(gring) + 1 /\ Len(gring') \in DOMAIN gring'
                 /\ gring'[Len(gring')] = m
      /\ ~Room => gring' = gring
  BY OfferFacts
<1>3. RingTypes'  BY <1>2, PbFacts DEF RingTypes
<1>4. g' \in Before => NothingOwn'
  <2>1. gen.cur \in BOOLEAN /\ gen'.cur \in BOOLEAN  BY PbFacts DEF Generations
  <2> QED  BY <1>1, <1>2, <2>1, PbFacts DEF NothingOwn
<1>5. ASSUME g' \in AtWait PROVE InOrder' /\ Marked'
  <2>1. InOrder /\ Marked  BY <1>1, <1>5, PbFacts
  <2>2. Served => gen.cur  BY DEF Served
  <2>3. gen.cur => gq = <<>> /\ Served'  BY <2>1 DEF InOrder, Served
  <2>4. \A i \in DOMAIN gq' : gq'[i].cur => i = Len(gq')  BY <2>1 DEF InOrder
  <2>5. gen'.cur => gq' = <<>>  BY <2>3
  <2>6. ASSUME NEW i \in DOMAIN gring', gring'[i].cur
        PROVE  Served' /\ \A j \in DOMAIN gring' : i < j => gring'[j].cur
    <3>1. gen.cur  BY <1>2, <2>1, <2>2, <2>6 DEF InOrder
    <3>2. ASSUME NEW j \in DOMAIN gring', i < j PROVE gring'[j].cur
      <4>1. CASE j = Len(gring) + 1 /\ gring'[j] = m  BY <3>1, <4>1
      <4>2. CASE j \in DOMAIN gring /\ gring'[j] = gring[j]
        <5>1. j <= Len(gring) /\ Len(gring) \in Nat  BY <4>2, PbFacts
        <5>2. i \in DOMAIN gring /\ gring'[i] = gring[i]  BY <1>2, <3>2, <4>2, <5>1
        <5> QED  BY <2>1, <2>6, <3>2, <4>2, <5>2 DEF InOrder
      <4> QED  BY <1>2, <4>1, <4>2
    <3> QED  BY <2>3, <3>1, <3>2
  <2>7. OwnSeen' => Served' /\ \A j \in DOMAIN gring' : gring'[j].cur
    <3>1. OwnSeen' => OwnSeen  BY <1>1 DEF OwnSeen
    <3> QED  BY <1>2, <2>1, <2>2, <2>3, <3>1 DEF InOrder
  <2>8. InOrder'  BY <2>4, <2>5, <2>6, <2>7 DEF InOrder
  <2>9. ASSUME NEW i \in Nat, Announced(i), NEW j \in Nat, i <= j
        PROVE  stopof' = "this" \/ \E k \in DOMAIN gring' : k < j /\ gring'[k].type = "stats" /\ gring'[k].cur
    <3>1. CASE stopof = "this"  BY <1>1, <3>1
    <3>2. CASE \E k \in DOMAIN gring : k < i /\ gring[k].type = "stats" /\ gring[k].cur
      <4>1. PICK k \in DOMAIN gring : k < i /\ gring[k].type = "stats" /\ gring[k].cur  BY <3>2
      <4>2. k \in DOMAIN gring' /\ gring'[k] = gring[k] /\ k \in Nat  BY <1>2
      <4>3. k < j  BY <2>9, <4>1, <4>2
      <4> QED  BY <4>1, <4>2, <4>3
    <3> QED  BY <2>9, <3>1, <3>2 DEF Announced
  <2>10. ASSUME gen'.at = "send", gen'.cur, gen'.marked
         PROVE  stopof' = "this" \/ \E k \in DOMAIN gring' :
                   k < Len(gring') + 1 /\ gring'[k].type = "stats" /\ gring'[k].cur
    <3>1. Room /\ gen.cur /\ Len(gring') = Len(gring) + 1 /\ Len(gring) \in Nat  BY <1>2, <2>10, PbFacts
    <3>2. CASE gen.at = "send" /\ gen.marked
      <4>1. Announced(Len(gring) + 1)  BY <2>1, <3>1, <3>2 DEF Marked
      <4>2. Len(gring) + 1 \in Nat /\ Len(gring') + 1 \in Nat /\ Len(gring) + 1 <= Len(gring') + 1
        BY <3>1
      <4> QED  BY <2>9, <4>1, <4>2
    <3>3. CASE m.type = "stats"
      <4>1. /\ Len(gring') \in DOMAIN gring' /\ Len(gring') < Len(gring') + 1
            /\ gring'[Len(gring')] = m /\ m.cur
        BY <1>2, <3>1
      <4> QED  BY <3>3, <4>1
    <3> QED  BY <2>10, <3>2, <3>3
  <2>11. ASSUME NEW i \in DOMAIN gring', gring'[i].type = "text", gring'[i].cur, gring'[i].marked
         PROVE  stopof' = "this" \/ \E k \in DOMAIN gring' :
                   k < i /\ gring'[k].type = "stats" /\ gring'[k].cur
    <3>1. i \in Nat /\ i <= i  BY <1>2, PbFacts
    <3>2. Announced(i)
      <4>1. CASE i \in DOMAIN gring /\ gring'[i] = gring[i]  BY <2>1, <2>11, <4>1 DEF Marked
      <4>2. CASE i = Len(gring) + 1 /\ gring'[i] = m
        <5>1. gen.at = "send" /\ gen.marked /\ gen.cur  BY <2>11, <4>2
        <5> QED  BY <2>1, <4>2, <5>1 DEF Marked
      <4> QED  BY <1>2, <4>1, <4>2
    <3> QED  BY <2>9, <3>1, <3>2
  <2>12. Marked'  BY <2>10, <2>11 DEF Marked, Announced
  <2> QED  BY <2>8, <2>12
<1>6. RingInv'  BY <1>4, <1>5 DEF RingInv
<1> QED  BY <1>3, <1>6, PbFacts, PbKeeps


LEMMA SendStatsKeeps == ASSUME GateInv, SendStats PROVE GateInv'
<1>1. /\ gen.at = "run" /\ UNCHANGED <<paRests, moved, gq>>
      /\ \E s \in {"CAP", "ENDED"} : gring' = Offered(Message("stats", 0, gen.cur, TRUE, TRUE, s))
      /\ \E n \in 1 .. Chunks, e \in BOOLEAN :
            gen' = [gen EXCEPT !.at = "send", !.marked = Room, !.empty = e, !.left = n]
  BY DEF SendStats
<1>2. PICK s \in {"CAP", "ENDED"} : gring' = Offered(Message("stats", 0, gen.cur, TRUE, TRUE, s))
  BY <1>1
<1>3. PICK n \in 1 .. Chunks, e \in BOOLEAN :
        gen' = [gen EXCEPT !.at = "send", !.marked = Room, !.empty = e, !.left = n]
  BY <1>1
<1> DEFINE m == Message("stats", 0, gen.cur, TRUE, TRUE, s)
<1>4. m \in GateMessages /\ m.cur = gen.cur /\ m.type = "stats"
  BY PbFacts, GateNumbers DEF Message, GateMessages, Stops
<1>5. /\ gen' \in Generations /\ gen'.at = "send" /\ gen'.cur = gen.cur /\ gen'.left # 0
      /\ gen'.marked => Room
  <2>1. Room \in BOOLEAN  BY DEF Room
  <2>2. n \in 0 .. Chunks /\ n # 0  BY GateNumbers
  <2>3. /\ gen.no \in Numbers /\ gen.cur \in BOOLEAN
        /\ gen = [at |-> gen.at, no |-> gen.no, cur |-> gen.cur, marked |-> gen.marked,
                  empty |-> gen.empty, left |-> gen.left]
    BY PbFacts DEF Generations
  <2>4. gen' = [at |-> "send", no |-> gen.no, cur |-> gen.cur, marked |-> Room, empty |-> e, left |-> n]
    BY <1>3, <2>3
  <2> QED  BY <2>1, <2>2, <2>3, <2>4 DEF Generations
<1> HIDE DEF m
<1>6. gring' = Offered(m)  BY <1>2 DEF m
<1> QED  BY <1>1, <1>4, <1>5, <1>6, OfferKeeps

LEMMA SendTextKeeps == ASSUME GateInv, SendText PROVE GateInv'
<1> DEFINE m == Message("text", gen.no, gen.cur, gen.marked, gen.empty, "UNKNOWN")
<1>1. /\ gen.at = "send" /\ Room /\ UNCHANGED <<paRests, moved, gq>>
      /\ gring' = Append(gring, m)
      /\ gen' = IF gen.left = 1 THEN NoGen
                ELSE [gen EXCEPT !.left = gen.left - 1, !.no = NextNumber(gen.no)]
  BY DEF SendText
<1>2. m \in GateMessages /\ m.cur = gen.cur /\ m.type = "text" /\ m.marked = gen.marked
  BY PbFacts DEF Message, GateMessages, Stops
<1> HIDE DEF m
<1>3. gring' = Offered(m)  BY <1>1 DEF Offered
<1>4. /\ NoGen \in Generations /\ NoGen.at = "none" /\ ~NoGen.cur
  BY GateNumbers DEF NoGen, Generations
<1>5. CASE gen.left = 1
  <2>1. gen' = NoGen  BY <1>1, <1>5
  <2> QED  BY <1>1, <1>2, <1>3, <1>4, <2>1, OfferKeeps
<1>7. CASE gen.left \in 2 .. Chunks
  <2>1. gen' = [gen EXCEPT !.left = gen.left - 1, !.no = NextNumber(gen.no)]  BY <1>1, <1>7
  <2>2. gen.left - 1 \in 0 .. Chunks /\ NextNumber(gen.no) \in Numbers
    BY <1>7, PbFacts, GateNumbers, NextNumberType
  <2>3. gen' \in Generations
    BY <2>1, <2>2, PbFacts DEF Generations
  <2>4. /\ gen'.at = "send" /\ gen'.cur = gen.cur /\ gen'.left # 0
        /\ gen'.marked = gen.marked
    BY <1>1, <1>7, <2>1, PbFacts DEF Generations
  <2> QED  BY <1>1, <1>2, <1>3, <2>3, <2>4, OfferKeeps
<1> QED  BY <1>1, <1>5, <1>7, PbFacts, GateNumbers

LEMMA SendCutKeeps == ASSUME GateInv, SendCut PROVE GateInv'
<1>1. /\ gen.at = "send" /\ gen' = NoGen /\ gring' = gring
      /\ UNCHANGED <<paRests, moved, gq>>
  BY DEF SendCut
<1>2. /\ NoGen \in Generations /\ NoGen.at = "none" /\ ~NoGen.cur
  BY GateNumbers DEF NoGen, Generations
<1>3. UNCHANGED <<g, whose, stopof>>  BY <1>1 DEF paRests, stopVars
<1>4. RingTypes'  BY <1>1, <1>2, PbFacts DEF RingTypes
<1>5. RingInv'
  <2>1. g' \in Before => NothingOwn'  BY <1>1, <1>2, <1>3, PbFacts DEF NothingOwn
  <2>2. ASSUME g' \in AtWait PROVE InOrder' /\ Marked'
    <3>1. InOrder /\ Marked  BY <1>3, <2>2, PbFacts
    <3>2. Served => Served'  BY <1>1, <1>2 DEF Served
    <3>3. InOrder'  BY <1>1, <1>2, <1>3, <3>1, <3>2 DEF InOrder, OwnSeen
    <3>4. Marked'  BY <1>1, <1>2, <1>3, <3>1 DEF Marked, Announced
    <3> QED  BY <3>3, <3>4
  <2> QED  BY <1>1, <1>2, <2>1, <2>2 DEF RingInv
<1> QED  BY <1>1, <1>4, <1>5, PbFacts, PbKeeps

LEMMA PbSteps ==
    ASSUME GateInv, Generate \/ AnswerAtOnce \/ PbTick \/ SendStats \/ SendText \/ SendCut
    PROVE  GateInv'
  BY GenerateKeeps, AnswerAtOnceKeeps, PbTickKeeps, SendStatsKeeps, SendTextKeeps, SendCutKeeps


(* A step of PA that is not of the wait: the rings lose what is in them, or get what is another's. *)
LEMMA PaKeeps ==
    ASSUME GateInv, PaMoves, g \in Before \/ g' \in Leaving, g' \notin AtWait,
           g' \in Before => g \in Before, PaTypes', PaInv'
    PROVE  GateInv'
<1>1. RingTypes' /\ (NothingOwn => NothingOwn')
  BY PaMovesKeep DEF GateInv
<1>2. gen' = gen  BY DEF PaMoves
<1>3. RingInv'  BY <1>1, <1>2 DEF GateInv, RingInv
<1> QED  BY <1>1, <1>3 DEF GateInv

LEMMA StillMoves == UNCHANGED pbVars => PaMoves
  BY DEF pbVars, PaMoves

LEMMA PaFacts ==
    ASSUME GateInv
    PROVE  /\ PaTypes /\ FreshInv /\ Disposed /\ VectorInv /\ TakenInv /\ ExitHonest /\ ThisTurn
           /\ cseq \in Numbers /\ NextNumber(cseq) \in Numbers
  BY NextNumberType DEF GateInv, PaInv, PaTypes

(* The steps of PA up to the query. *)
LEMMA PaAsks ==
    ASSUME GateInv,
           \/ OtherLane \/ Accept \/ Refuse \/ Classify \/ Veto \/ ServeLocal \/ Degraded
           \/ OpenWindow \/ RecallExact \/ RecallSemantic \/ RecallNothing
    PROVE  GateInv'
<1> USE DEF paState, waitVars, stopVars, outVars
<1>1. /\ PaTypes /\ FreshInv /\ Disposed /\ VectorInv /\ TakenInv /\ ExitHonest /\ ThisTurn
  BY PaFacts
<1>2. CASE OtherLane
  <2>1. /\ g = "idle" /\ g' = g /\ gring' = <<>> /\ gen' = gen /\ stop' \in Stops \cup {stop}
        /\ stopof' \in {stopof, "earlier"}
        /\ UNCHANGED <<cseq, paState, waitVars, pbup, outVars>>
    BY <1>2 DEF OtherLane, Stops
  <2>2. PaTypes'  BY <1>1, <2>1 DEF PaTypes, Marks
  <2>3. FreshInv' /\ Disposed' /\ TakenInv'
    BY <1>1, <2>1 DEF FreshInv, Disposed, TakenInv, Leaving, Before
  <2>4. VectorInv'  BY <1>1, <2>1 DEF VectorInv, VectorOfThisTurn
  <2>5. ExitHonest' /\ ThisTurn'
    BY <1>1, <2>1 DEF ExitHonest, OneStory, ContactHonest, ProvenanceTrue, ThisTurn, AnswerOwn,
                      VectorOfThisTurn
  <2>6. PaMoves
    <3>1. \A n \in Numbers : /\ Request("query", n, FALSE) \in GateRequests
                              /\ ~Request("query", n, FALSE).cur
      BY Requested
    <3>2. Request("beat", 0, FALSE) \in GateRequests /\ ~Request("beat", 0, FALSE).cur
      BY GateNumbers, Requested
    <3>3. \/ gq' = gq
          \/ \E n \in Numbers : gq' = Asked(Request("query", n, FALSE))
          \/ gq' = Asked(Request("beat", 0, FALSE))
      BY <1>2 DEF OtherLane
    <3> QED  BY <2>1, <3>1, <3>2, <3>3 DEF PaMoves
  <2> QED  BY <2>1, <2>2, <2>3, <2>4, <2>5, <2>6, PaKeeps DEF PaInv, Before, AtWait
<1>3. CASE Accept
  <2>1. /\ g = "idle" /\ g' = "shield" /\ pbup' \in BOOLEAN /\ PaMoves
        /\ UNCHANGED <<cseq, paState, waitVars, stopVars, outVars>>
    BY <1>3, StillMoves DEF Accept
  <2>2. PaTypes'  BY <1>1, <2>1 DEF PaTypes
  <2>3. FreshInv' /\ Disposed' /\ TakenInv'
    BY <1>1, <2>1 DEF FreshInv, Disposed, TakenInv, Leaving, Before
  <2>4. VectorInv'  BY <1>1, <2>1 DEF VectorInv, VectorOfThisTurn
  <2>5. ExitHonest' /\ ThisTurn'
    BY <1>1, <2>1 DEF ExitHonest, OneStory, ContactHonest, ProvenanceTrue, ThisTurn, AnswerOwn,
                      VectorOfThisTurn
  <2> QED  BY <2>1, <2>2, <2>3, <2>4, <2>5, PaKeeps DEF PaInv, Before, AtWait
<1>4. CASE Refuse
  <2>1. /\ g = "shield" /\ g' = "done" /\ jact' = "BLOCKED" /\ told' = "refused" /\ PaMoves
        /\ UNCHANGED <<cseq, paState, waitVars, stopVars, pbup, stored, vecable, vecof, contact>>
    BY <1>4, StillMoves DEF Refuse
  <2>2. PaTypes'  BY <1>1, <2>1 DEF PaTypes
  <2>3. FreshInv' /\ Disposed' /\ TakenInv'
    BY <1>1, <2>1 DEF FreshInv, Disposed, TakenInv, Leaving, Before
  <2>4. VectorInv'  BY <1>1, <2>1 DEF VectorInv, VectorOfThisTurn
  <2>5. ExitHonest' /\ ThisTurn'
    BY <1>1, <2>1 DEF FreshInv, Leaving, ExitHonest, OneStory, ContactHonest, ProvenanceTrue,
                      ThisTurn, AnswerOwn, VectorOfThisTurn
  <2> QED  BY <2>1, <2>2, <2>3, <2>4, <2>5, PaKeeps DEF PaInv, Before, Leaving, AtWait
<1>5. CASE Classify \/ Veto
  <2>1. /\ \/ g = "shield" /\ g' \in {"veto", "serve"} /\ qvec' = "none"
           \/ g = "veto" /\ g' = "serve" /\ qvec' \in {qvec, "this"}
        /\ route' \in {"SYSFACTS", "DECLINE", "INFER", route} /\ PaMoves
        /\ UNCHANGED <<cseq, local, vused, pre, kind, gfault, waitVars, stopVars, pbup, outVars>>
    BY <1>5, StillMoves, EmbedMoves DEF Classify, Veto, Stash, pbVars
  <2>2. PaTypes'  BY <1>1, <2>1 DEF PaTypes, Marks
  <2>3. FreshInv' /\ Disposed' /\ TakenInv'
    BY <1>1, <2>1 DEF FreshInv, Disposed, TakenInv, Leaving, Before
  <2>4. VectorInv'  BY <1>1, <2>1 DEF VectorInv, VectorOfThisTurn
  <2>5. ExitHonest' /\ ThisTurn'
    BY <1>1, <2>1 DEF ExitHonest, OneStory, ContactHonest, ProvenanceTrue, ThisTurn, AnswerOwn,
                      VectorOfThisTurn
  <2> QED  BY <2>1, <2>2, <2>3, <2>4, <2>5, PaKeeps DEF PaInv, Before, Leaving, AtWait
<1>6. CASE ServeLocal
  <2>1. /\ g = "serve" /\ g' = "exit" /\ local' = TRUE /\ got' = TRUE /\ empty' = FALSE
        /\ route' \in {"SYSFACTS", "DECLINE"} /\ PaMoves
        /\ UNCHANGED <<cseq, qvec, vused, pre, kind, gfault, whose, polls, windows, moved,
                       stopVars, pbup, outVars>>
    BY <1>6, StillMoves DEF ServeLocal
  <2>2. PaTypes'
    <3>1. local' \in BOOLEAN /\ got' \in BOOLEAN /\ empty' \in BOOLEAN  BY <2>1
    <3>2. g' \in {"exit"} /\ route' \in {"none", "SYSFACTS", "DECLINE", "INFER"}  BY <2>1
    <3>3. UNCHANGED <<cseq, qvec, vused, vecable, vecof, stopof, pre, gfault, moved, pbup, kind, polls,
                      windows, whose, stop, told, stored, jact, contact>>
      BY <2>1
    <3> QED  BY <1>1, <3>1, <3>2, <3>3 DEF PaTypes
  <2>3. FreshInv' /\ Disposed' /\ TakenInv'
    BY <1>1, <2>1 DEF FreshInv, Disposed, TakenInv, Leaving, Before
  <2>4. VectorInv'  BY <1>1, <2>1 DEF VectorInv, VectorOfThisTurn
  <2>5. ExitHonest' /\ ThisTurn'
    BY <1>1, <2>1 DEF FreshInv, Leaving, ExitHonest, OneStory, ContactHonest, ProvenanceTrue,
                      ThisTurn, AnswerOwn, VectorOfThisTurn
  <2> QED  BY <2>1, <2>2, <2>3, <2>4, <2>5, PaKeeps DEF PaInv, Before, Leaving, AtWait
<1>7. CASE Degraded
  <2>1. /\ g = "serve" /\ g' = "done" /\ stored' = "ERROR" /\ jact' = "FAIL"
        /\ told' = "degraded" /\ vecable' = "none" /\ PaMoves
        /\ UNCHANGED <<cseq, paState, waitVars, stopVars, pbup, vecof, contact>>
    BY <1>7, StillMoves DEF Degraded
  <2>2. PaTypes'  BY <1>1, <2>1 DEF PaTypes, Marks
  <2>3. FreshInv' /\ Disposed' /\ TakenInv'
    BY <1>1, <2>1 DEF FreshInv, Disposed, TakenInv, Leaving, Before
  <2>4. VectorInv'  BY <1>1, <2>1 DEF VectorInv, VectorOfThisTurn
  <2>5. ExitHonest' /\ ThisTurn'
    BY <1>1, <2>1 DEF FreshInv, Leaving, ExitHonest, OneStory, ContactHonest, ProvenanceTrue,
                      ThisTurn, AnswerOwn, VectorOfThisTurn
  <2> QED  BY <2>1, <2>2, <2>3, <2>4, <2>5, PaKeeps DEF PaInv, Before, Leaving, AtWait
<1>8. CASE OpenWindow
  <2>1. /\ g = "serve" /\ g' = "recall" /\ PaMoves
        /\ UNCHANGED <<cseq, paState, waitVars, stopVars, pbup, outVars>>
    BY <1>8 DEF OpenWindow, PaMoves
  <2>2. PaTypes'  BY <1>1, <2>1 DEF PaTypes
  <2>3. FreshInv' /\ Disposed' /\ TakenInv'
    BY <1>1, <2>1 DEF FreshInv, Disposed, TakenInv, Leaving, Before
  <2>4. VectorInv'  BY <1>1, <2>1 DEF VectorInv, VectorOfThisTurn
  <2>5. ExitHonest' /\ ThisTurn'
    BY <1>1, <2>1 DEF ExitHonest, OneStory, ContactHonest, ProvenanceTrue, ThisTurn, AnswerOwn,
                      VectorOfThisTurn
  <2> QED  BY <2>1, <2>2, <2>3, <2>4, <2>5, PaKeeps DEF PaInv, Before, AtWait
<1>9. CASE RecallExact \/ RecallSemantic \/ RecallNothing
  <2>1. /\ g = "recall" /\ g' = "send" /\ PaMoves
        /\ vused' \in {vused, qvec, "this"}
        /\ pre' \in BOOLEAN \cup {pre} /\ kind' \in {"EXACT", "SEMANTIC", "none", kind}
        /\ (kind' # "none" <=> pre')
        /\ UNCHANGED <<cseq, route, local, qvec, gfault, waitVars, stopVars, pbup, outVars>>
    <3>1. kind # "none" <=> pre  BY <1>1 DEF FreshInv
    <3>2. CASE RecallExact  BY <3>2, StillMoves DEF RecallExact
    <3>3. CASE RecallSemantic
      <4>1. PaMoves  BY <3>3, StillMoves, EmbedMoves DEF RecallSemantic
      <4>2. /\ g = "recall" /\ g' = "send" /\ vused' \in {qvec, "this"} /\ pre' \in BOOLEAN
            /\ kind' = IF pre' THEN "SEMANTIC" ELSE "none"
            /\ UNCHANGED <<cseq, route, local, qvec, gfault, waitVars, stopVars, pbup, outVars>>
        BY <3>3 DEF RecallSemantic, KindOf
      <4> QED  BY <4>1, <4>2
    <3>4. CASE RecallNothing
      <4>1. PaMoves  BY <3>4, StillMoves, EmbedMoves DEF RecallNothing
      <4> QED  BY <3>1, <3>4, <4>1 DEF RecallNothing
    <3> QED  BY <1>9, <3>2, <3>3, <3>4
  <2>2. PaTypes'  BY <1>1, <2>1 DEF PaTypes, Marks
  <2>3. FreshInv' /\ Disposed' /\ TakenInv'
    BY <1>1, <2>1 DEF FreshInv, Disposed, TakenInv, Leaving, Before
  <2>4. VectorInv'  BY <1>1, <2>1 DEF VectorInv, VectorOfThisTurn
  <2>5. ExitHonest' /\ ThisTurn'
    BY <1>1, <2>1, <2>4 DEF ExitHonest, OneStory, ContactHonest, ProvenanceTrue, ThisTurn, AnswerOwn,
                            VectorInv
  <2> QED  BY <2>1, <2>2, <2>3, <2>4, <2>5, PaKeeps DEF PaInv, Before, AtWait
<1> QED  BY <1>2, <1>3, <1>4, <1>5, <1>6, <1>7, <1>8, <1>9

(* The query is sent: it is the last in the request ring, and nothing of it is further on. *)
LEMMA SendKeeps == ASSUME GateInv, GateSend PROVE GateInv'
<1> USE DEF paState, waitVars, stopVars, outVars
<1>1. /\ PaTypes /\ FreshInv /\ Disposed /\ VectorInv /\ TakenInv /\ ExitHonest /\ ThisTurn
      /\ NextNumber(cseq) \in Numbers
  BY PaFacts
<1> DEFINE r == Request("query", cseq', TRUE)
<1>2. /\ g = "send" /\ g' = "wait" /\ cseq' = NextNumber(cseq) /\ stop' = "UNKNOWN" /\ stopof' = "none"
      /\ gq' = Asked(r) /\ gring' = gring /\ gen' = gen
      /\ UNCHANGED <<paState, waitVars, pbup, outVars>>
  BY DEF GateSend
<1>3. cseq' \in Numbers  BY <1>1, <1>2
<1>4. r \in GateRequests  BY <1>3 DEF Request, GateRequests
<1> HIDE DEF r
<1>5. /\ gq' \in Seq(GateRequests) /\ Len(gq') <= GateQueue
      /\ \A i \in DOMAIN gq' : (i \in DOMAIN gq /\ gq'[i] = gq[i]) \/ i = Len(gq')
  <2>1. /\ gq \in Seq(GateRequests) /\ Len(gq) <= GateQueue /\ GateQueue \in Nat
        /\ gq' = IF Len(gq) < GateQueue THEN Append(gq, r) ELSE gq
    BY <1>2, PbFacts, GateNumbers DEF Asked
  <2>2. CASE Len(gq) < GateQueue
    <3>1. gq' = Append(gq, r)  BY <2>1, <2>2
    <3>2. /\ gq' \in Seq(GateRequests) /\ Len(gq') = Len(gq) + 1 /\ Len(gq) \in Nat
          /\ \A i \in DOMAIN gq' : (i \in DOMAIN gq /\ gq'[i] = gq[i]) \/ i = Len(gq) + 1
      BY <1>4, <2>1, <3>1, PutFacts
    <3> QED  BY <2>1, <2>2, <3>2
  <2>3. CASE ~(Len(gq) < GateQueue)
    <3>1. gq' = gq  BY <2>1, <2>3
    <3> QED  BY <2>1, <3>1
  <2> QED  BY <2>2, <2>3
<1>6. PaTypes'  BY <1>1, <1>2, <1>3 DEF PaTypes, Stops, Marks
<1>7. RingTypes'  BY <1>2, <1>5, PbFacts DEF RingTypes
<1>8. FreshInv' /\ Disposed' /\ TakenInv'
  BY <1>1, <1>2 DEF FreshInv, Disposed, TakenInv, Leaving, Before
<1>9. VectorInv'  BY <1>1, <1>2 DEF VectorInv, VectorOfThisTurn
<1>10. ExitHonest' /\ ThisTurn'
  BY <1>1, <1>2 DEF ExitHonest, OneStory, ContactHonest, ProvenanceTrue, ThisTurn, AnswerOwn,
                    VectorOfThisTurn
<1>11. RingInv'
  <2>1. NothingOwn /\ whose' = "none"
    BY <1>1, <1>2, PbFacts DEF Before, FreshInv
  <2>2. InOrder'  BY <1>2, <1>5, <2>1 DEF InOrder, NothingOwn, OwnSeen
  <2>3. Marked'  BY <1>2, <2>1 DEF Marked, NothingOwn
  <2>4. g' \notin Before  BY <1>2 DEF Before
  <2> QED  BY <1>2, <2>2, <2>3, <2>4, PbFacts DEF RingInv
<1> QED  BY <1>6, <1>7, <1>8, <1>9, <1>10, <1>11 DEF GateInv, PaInv


(* The first message of the response ring: with this query's own text taken, it is this query's;
   and the stop reason of an own marked text at its head is latched. *)
LEMMA HeadTaken ==
    ASSUME GateInv, g \in AtWait, gring # <<>>
    PROVE  /\ Head(gring) = gring[1] /\ gring[1] \in GateMessages /\ 1 \in DOMAIN gring
           /\ OwnSeen => gring[1].cur
           /\ gring[1].cur /\ gring[1].marked /\ gring[1].type = "text" => stopof = "this"
<1>1. /\ Head(gring) = gring[1] /\ Head(gring) \in GateMessages /\ 1 \in DOMAIN gring
      /\ \A k \in DOMAIN gring : ~(k < 1)
  BY PbFacts, TailFacts
<1>2. InOrder /\ Marked  BY PbFacts
<1>3. OwnSeen => gring[1].cur  BY <1>1, <1>2 DEF InOrder
<1>4. gring[1].cur /\ gring[1].marked /\ gring[1].type = "text" => stopof = "this"
  BY <1>1, <1>2 DEF Marked, Announced
<1> QED  BY <1>1, <1>3, <1>4

(* A message is taken from the response ring. *)
LEMMA TakeKeeps ==
    ASSUME GateInv, g \in AtWait, gring # <<>>, gring' = Tail(gring), UNCHANGED <<gq, gen>>,
           g' \in AtWait \cup {"exit"},
           stopof' = IF gring[1].type = "stats" THEN Owner(gring[1]) ELSE stopof,
           whose' \in {"this", "bare"} => whose' = whose \/ gring[1].cur
    PROVE  RingTypes' /\ RingInv'
<1>1. /\ gring' \in Seq(GateMessages) /\ Len(gring') = Len(gring) - 1 /\ Len(gring) \in Nat
      /\ \A i \in DOMAIN gring' : i \in Nat /\ i + 1 \in DOMAIN gring /\ gring'[i] = gring[i + 1]
      /\ \A i \in DOMAIN gring : i # 1 => i - 1 \in DOMAIN gring' /\ gring'[i - 1] = gring[i]
      /\ \A i \in DOMAIN gring : i \in Nat /\ i > 0
  BY PbFacts, TailFacts
<1>2. /\ gring[1] \in GateMessages /\ 1 \in DOMAIN gring
      /\ OwnSeen => gring[1].cur
  BY HeadTaken
<1>3. Len(gring') <= GateRing  BY <1>1, PbFacts, GateNumbers
<1>4. RingTypes'  BY <1>1, <1>3, PbFacts DEF RingTypes
<1>5. InOrder /\ Marked  BY PbFacts
<1>6. gring[1].cur => Served /\ \A j \in DOMAIN gring : gring[j].cur
  BY <1>1, <1>2, <1>5 DEF InOrder
<1>7. InOrder'
  <2>1. Served => Served'  BY DEF Served
  <2>2. ASSUME NEW i \in DOMAIN gring', gring'[i].cur
        PROVE  Served' /\ \A j \in DOMAIN gring' : i < j => gring'[j].cur
    <3>1. i + 1 \in DOMAIN gring /\ gring[i + 1].cur  BY <1>1, <2>2
    <3>2. Served /\ \A j \in DOMAIN gring : i + 1 < j => gring[j].cur  BY <1>5, <3>1 DEF InOrder
    <3>3. ASSUME NEW j \in DOMAIN gring', i < j PROVE gring'[j].cur
      <4>1. j + 1 \in DOMAIN gring /\ i + 1 < j + 1 /\ gring'[j] = gring[j + 1]  BY <1>1, <3>3
      <4> QED  BY <3>2, <4>1
    <3> QED  BY <2>1, <3>2, <3>3
  <2>3. OwnSeen' => OwnSeen \/ gring[1].cur
    BY DEF OwnSeen, Owner
  <2>4. OwnSeen' => Served' /\ \A j \in DOMAIN gring' : gring'[j].cur
    BY <1>1, <1>2, <1>6, <2>1, <2>3
  <2> QED  BY <1>5, <2>2, <2>4 DEF InOrder
<1>8. ASSUME NEW i \in Nat, Announced(i + 1)
      PROVE  stopof' = "this" \/ \E k \in DOMAIN gring' : k < i /\ gring'[k].type = "stats" /\ gring'[k].cur
  <2>1. CASE stopof = "this"
    BY <1>2, <2>1 DEF OwnSeen, Owner
  <2>2. CASE \E k \in DOMAIN gring : k < i + 1 /\ gring[k].type = "stats" /\ gring[k].cur
    <3>1. PICK k \in DOMAIN gring : k < i + 1 /\ gring[k].type = "stats" /\ gring[k].cur  BY <2>2
    <3>2. CASE k = 1  BY <3>1, <3>2 DEF Owner
    <3>3. CASE k # 1
      <4>1. k - 1 \in DOMAIN gring' /\ gring'[k - 1] = gring[k] /\ k - 1 < i  BY <1>1, <3>1, <3>3
      <4> QED  BY <3>1, <4>1
    <3> QED  BY <3>2, <3>3
  <2> QED  BY <1>8, <2>1, <2>2 DEF Announced
<1>9. Marked'
  <2>1. ASSUME gen'.at = "send", gen'.cur, gen'.marked
        PROVE  stopof' = "this" \/ \E k \in DOMAIN gring' :
                  k < Len(gring') + 1 /\ gring'[k].type = "stats" /\ gring'[k].cur
    <3>1. Announced(Len(gring) + 1)  BY <1>5, <2>1 DEF Marked
    <3>2. Len(gring') + 1 \in Nat /\ Len(gring) + 1 = (Len(gring') + 1) + 1
      BY <1>1, <1>2, PbFacts
    <3> QED  BY <1>8, <3>1, <3>2
  <2>2. ASSUME NEW i \in DOMAIN gring', gring'[i].type = "text", gring'[i].cur, gring'[i].marked
        PROVE  stopof' = "this" \/ \E k \in DOMAIN gring' :
                  k < i /\ gring'[k].type = "stats" /\ gring'[k].cur
    <3>1. i \in Nat /\ i + 1 \in DOMAIN gring /\ gring'[i] = gring[i + 1]  BY <1>1
    <3>2. Announced(i + 1)  BY <1>5, <2>2, <3>1 DEF Marked
    <3> QED  BY <1>8, <3>1, <3>2
  <2> QED  BY <2>1, <2>2 DEF Marked, Announced
<1>10. g' \notin Before  BY DEF Before, AtWait
<1> QED  BY <1>4, <1>7, <1>9, <1>10, PbFacts DEF RingInv

(* The wait for PB. *)
LEMMA PaWaits ==
    ASSUME GateInv,
           GateReceive \/ GatePoll \/ GateExtend \/ GateTimeout \/ GateFault \/ GateDrain \/ GateDrained
    PROVE  GateInv'
<1> USE DEF paState, stopVars, outVars
<1>1. /\ PaTypes /\ FreshInv /\ Disposed /\ VectorInv /\ TakenInv /\ ExitHonest /\ ThisTurn
  BY PaFacts
<1>2. CASE GateReceive \/ GateDrain
  <2> DEFINE m == gring[1]
  <2>1. /\ g \in AtWait /\ gring # <<>> /\ gring' = Tail(gring) /\ UNCHANGED <<gq, gen>>
        /\ UNCHANGED <<cseq, paState, pbup, outVars>>
    BY <1>2 DEF GateReceive, GateDrain, AtWait
  <2>2. /\ Head(gring) = m /\ m \in GateMessages /\ (OwnSeen => m.cur)
        /\ m.cur /\ m.marked /\ m.type = "text" => stopof = "this"
    BY <2>1, HeadTaken
  <2> HIDE DEF m
  <2>3. m.empty \in BOOLEAN /\ m.stop \in Stops /\ m.cur \in BOOLEAN /\ m.marked \in BOOLEAN
    BY <2>2 DEF GateMessages
  <2>4. Owner(m) \in {"this", "earlier"} /\ (Owner(m) = "this" <=> m.cur)  BY <2>3 DEF Owner
  <2>5. /\ g' \in {"wait", "drain", "exit"} /\ empty' \in BOOLEAN /\ got' \in BOOLEAN
        /\ polls' \in {0, polls} /\ windows' \in {0, windows} /\ moved' \in {moved, FALSE}
        /\ g' = "wait" => g = "wait" /\ UNCHANGED <<got, empty, whose>>
        /\ g' # "wait" => got'
        /\ stop' \in Stops
        /\ stopof' = IF m.type = "stats" THEN Owner(m) ELSE stopof
        /\ whose' \in {whose, "bare", Owner(m), "spoilt"}
        /\ whose' \in {"this", "bare"} => whose' = whose \/ m.cur
        /\ TakenInv'
    <3>1. empty \in BOOLEAN /\ got \in BOOLEAN /\ stop \in Stops  BY <1>1 DEF PaTypes
    <3>2. CASE GateReceive
      <4>1. g = "wait" /\ ~got /\ whose = "none"  BY <1>1, <3>2 DEF GateReceive, FreshInv
      <4>2. CASE m.type = "stats" /\ Latch(m) /\ UNCHANGED <<g, waitVars>>
        BY <1>1, <2>3, <2>4, <3>1, <4>1, <4>2 DEF Latch, waitVars, TakenInv
      <4>3. CASE /\ m.type = "text" /\ m.no = cseq
                 /\ got' = TRUE /\ Appended(m) /\ g' = "drain" /\ WaitOver /\ UNCHANGED stopVars
        <5>1. /\ empty' = (empty /\ m.empty)
              /\ whose' = IF m.cur /\ ~m.marked THEN "bare" ELSE Owner(m)
              /\ polls' = 0 /\ windows' = 0 /\ moved' = FALSE /\ stop' = stop /\ stopof' = stopof
          BY <4>1, <4>3 DEF Appended, WaitOver
        <5>2. empty' \in BOOLEAN  BY <2>3, <3>1, <5>1
        <5>3. TakenInv'  BY <2>2, <2>4, <4>3, <5>1 DEF TakenInv
        <5>4. whose' \in {"bare", Owner(m)} /\ (whose' \in {"this", "bare"} => m.cur)
          BY <2>4, <5>1
        <5> QED  BY <3>1, <4>3, <5>1, <5>2, <5>3, <5>4
      <4>4. CASE /\ m.type = "other" \/ (m.type = "text" /\ m.no # cseq)
                 /\ UNCHANGED <<g, waitVars, stopVars>>
        BY <1>1, <3>1, <4>1, <4>4 DEF waitVars, TakenInv
      <4> QED  BY <2>2, <3>2, <4>2, <4>3, <4>4 DEF GateReceive
    <3>3. CASE GateDrain
      <4>1. /\ g = "drain" /\ got /\ UNCHANGED <<got, polls, windows, moved>>
        BY <1>1, <3>3 DEF GateDrain, FreshInv
      <4>2. CASE m.type = "stats" /\ Latch(m) /\ UNCHANGED <<g, empty, whose>>
        <5>1. TakenInv'  BY <1>1, <2>2, <2>4, <4>2 DEF TakenInv, OwnSeen, Latch
        <5> QED  BY <2>3, <3>1, <4>1, <4>2, <5>1 DEF Latch
      <4>3. CASE m.type = "text" /\ Appended(m) /\ UNCHANGED <<g, stopVars>>
        <5>1. /\ empty' = (empty /\ m.empty)
              /\ whose' = IF whose \in {"this", "bare"} /\ ~m.cur THEN "spoilt" ELSE whose
              /\ stop' = stop /\ stopof' = stopof /\ g' = g
          BY <4>1, <4>3 DEF Appended
        <5>2. empty' \in BOOLEAN  BY <2>3, <3>1, <5>1
        <5>3. whose' = whose  BY <2>2, <5>1 DEF OwnSeen
        <5>4. TakenInv'  BY <1>1, <5>1, <5>3 DEF TakenInv
        <5> QED  BY <3>1, <4>1, <4>3, <5>1, <5>2, <5>3, <5>4
      <4>4. CASE m.type = "other" /\ g' = "exit" /\ UNCHANGED <<empty, whose, stopVars>>
        BY <1>1, <3>1, <4>1, <4>4 DEF TakenInv
      <4> QED  BY <2>2, <3>3, <4>2, <4>3, <4>4 DEF GateDrain
    <3> QED  BY <1>2, <3>2, <3>3
  <2>6. RingTypes' /\ RingInv'
    <3>1. g' \in AtWait \cup {"exit"}  BY <2>5 DEF AtWait
    <3> QED  BY <2>1, <2>5, <3>1, TakeKeeps DEF m
  <2>7. PaTypes'
    <3>1. moved \in BOOLEAN /\ polls \in 0 .. (PollMax - 1) /\ windows \in 0 .. WindowCap
          /\ 0 \in 0 .. (PollMax - 1) /\ 0 \in 0 .. WindowCap
      BY <1>1, GateNumbers DEF PaTypes
    <3>2. moved' \in BOOLEAN /\ polls' \in 0 .. (PollMax - 1) /\ windows' \in 0 .. WindowCap
      BY <2>5, <3>1
    <3>3. whose' \in Marks \cup {"bare", "spoilt"} /\ stopof' \in Marks
      BY <1>1, <2>4, <2>5 DEF PaTypes, Marks
    <3> QED  BY <1>1, <2>1, <2>5, <3>2, <3>3 DEF PaTypes
  <2>8. FreshInv' /\ Disposed'
    BY <1>1, <2>1, <2>5 DEF FreshInv, Disposed, Leaving, Before, AtWait
  <2>9. VectorInv'  BY <1>1, <2>1, <2>5 DEF VectorInv, VectorOfThisTurn, AtWait
  <2>10. ExitHonest' /\ ThisTurn'
    BY <1>1, <2>1, <2>5, <2>9 DEF FreshInv, Leaving, AtWait, ExitHonest, OneStory, ContactHonest,
                                 ProvenanceTrue, ThisTurn, AnswerOwn, VectorInv
  <2> QED  BY <2>5, <2>6, <2>7, <2>8, <2>9, <2>10 DEF GateInv, PaInv
<1>3. CASE GatePoll \/ GateExtend
  <2>1. /\ polls' \in 0 .. (PollMax - 1) /\ windows' \in 0 .. WindowCap /\ moved' \in BOOLEAN
    <3>1. moved \in BOOLEAN /\ polls \in 0 .. (PollMax - 1) /\ windows \in 0 .. WindowCap
          /\ PollMax \in Nat \ {0} /\ WindowCap \in Nat
      BY <1>1, GateNumbers DEF PaTypes
    <3>2. CASE GatePoll
      <4>1. polls' = polls + 1 /\ polls + 1 < PollMax /\ windows' = windows /\ moved' = moved
        BY <3>2 DEF GatePoll
      <4>2. polls' \in 0 .. (PollMax - 1)  BY <3>1, <4>1
      <4> QED  BY <3>1, <4>1, <4>2
    <3>3. CASE GateExtend
      <4>1. windows < WindowCap /\ windows' = windows + 1 /\ polls' = 0 /\ moved' = FALSE
        BY <3>3 DEF GateExtend, PbWaitDecide, WindowsUsed
      <4>2. windows' \in 0 .. WindowCap /\ polls' \in 0 .. (PollMax - 1)  BY <3>1, <4>1
      <4> QED  BY <4>1, <4>2
    <3> QED  BY <1>3, <3>2, <3>3
  <2>2. UNCHANGED <<queryVars, pbup, pbVars>>
    BY <1>3 DEF GatePoll, GateExtend, WindowEnds, queryVars
  <2>3. PaInv'  BY <1>1, <2>2, PaRests DEF PaInv
  <2>4. PaTypes'  BY <1>1, <2>1, <2>2 DEF PaTypes, queryVars
  <2>5. RingTypes' /\ RingInv'
    BY <2>2 DEF GateInv, RingTypes, RingInv, NothingOwn, InOrder, Served, OwnSeen, Marked, Announced,
                queryVars, pbVars
  <2> QED  BY <2>3, <2>4, <2>5 DEF GateInv
<1>4. CASE GateTimeout \/ GateFault \/ GateDrained
  <2>1. /\ g \in AtWait /\ g' = "exit" /\ gfault' \in {gfault, TRUE}
        /\ got => gfault' = gfault
        /\ polls' \in {0, polls} /\ windows' \in {0, windows} /\ moved' \in {moved, FALSE}
        /\ UNCHANGED pbVars \/ (gq' = <<>> /\ gring' = <<>> /\ gen' = NoGen)
        /\ UNCHANGED <<cseq, route, local, qvec, vused, pre, kind, got, empty, whose, stopVars, pbup,
                       outVars>>
    <3>1. g = "wait" => ~got  BY <1>1 DEF FreshInv
    <3>2. CASE GateTimeout  BY <3>2 DEF GateTimeout, WindowEnds, WaitOver, AtWait
    <3>3. CASE GateFault  BY <3>1, <3>3 DEF GateFault, WaitOver, AtWait
    <3>4. CASE GateDrained  BY <3>4 DEF GateDrained, waitVars, AtWait
    <3> QED  BY <1>4, <3>2, <3>3, <3>4
  <2>2. PaTypes'
    <3>1. moved \in BOOLEAN /\ polls \in 0 .. (PollMax - 1) /\ windows \in 0 .. WindowCap
          /\ 0 \in 0 .. (PollMax - 1) /\ 0 \in 0 .. WindowCap
      BY <1>1, GateNumbers DEF PaTypes
    <3>2. moved' \in BOOLEAN /\ polls' \in 0 .. (PollMax - 1) /\ windows' \in 0 .. WindowCap
      BY <2>1, <3>1
    <3>3. gfault' \in BOOLEAN
      <4>1. gfault \in BOOLEAN  BY <1>1 DEF PaTypes
      <4> QED  BY <2>1, <4>1
    <3>4. g' \in {"exit"} /\ UNCHANGED <<cseq, route, local, qvec, vused, vecable, vecof, stopof, pre, got,
                  empty, pbup, kind, whose, stop, told, stored, jact, contact>>
      BY <2>1
    <3> QED  BY <1>1, <3>2, <3>3, <3>4 DEF PaTypes
  <2>3. FreshInv' /\ Disposed' /\ TakenInv'
    BY <1>1, <2>1 DEF FreshInv, Disposed, TakenInv, Leaving, Before, AtWait
  <2>4. VectorInv'  BY <1>1, <2>1 DEF VectorInv, VectorOfThisTurn, AtWait
  <2>5. ExitHonest' /\ ThisTurn'
    BY <1>1, <2>1, <2>4 DEF FreshInv, Leaving, AtWait, ExitHonest, OneStory, ContactHonest,
                            ProvenanceTrue, ThisTurn, AnswerOwn, VectorInv
  <2>6. RingTypes' /\ RingInv'
    <3>1. /\ NoGen \in Generations /\ NoGen.at = "none" /\ ~NoGen.cur
      BY GateNumbers DEF NoGen, Generations
    <3>2. CASE UNCHANGED pbVars
      BY <2>1, <3>2, PbFacts DEF RingTypes, RingInv, pbVars, Before, AtWait
    <3>3. CASE gq' = <<>> /\ gring' = <<>> /\ gen' = NoGen
      <4>1. gq' \in Seq(GateRequests) /\ Len(gq') = 0 /\ gring' \in Seq(GateMessages) /\ Len(gring') = 0
        BY <3>3
      <4> QED  BY <2>1, <3>1, <3>3, <4>1, GateNumbers DEF RingTypes, RingInv, Before, AtWait
    <3> QED  BY <2>1, <3>2, <3>3
  <2> QED  BY <2>2, <2>3, <2>4, <2>5, <2>6 DEF GateInv, PaInv
<1> QED  BY <1>2, <1>3, <1>4


(* What an earlier query left in the rings and with PB. *)
LEMMA OlderRequests ==
    ASSUME NEW s \in Seq(GateRequests)
    PROVE  /\ OlderAll(s) \in Seq(GateRequests) /\ Len(OlderAll(s)) = Len(s)
           /\ \A i \in DOMAIN OlderAll(s) : ~OlderAll(s)[i].cur
<1> DEFINE t == OlderAll(s)
<1>1. Len(s) \in Nat /\ DOMAIN s = 1 .. Len(s) /\ \A i \in 1 .. Len(s) : s[i] \in GateRequests
  OBVIOUS
<1>2. t = [i \in 1 .. Len(s) |-> [s[i] EXCEPT !.cur = FALSE]]  BY <1>1 DEF OlderAll
<1>3. ASSUME NEW i \in 1 .. Len(s) PROVE t[i] \in GateRequests /\ ~t[i].cur
  <2>1. t[i] = [s[i] EXCEPT !.cur = FALSE] /\ s[i] \in GateRequests  BY <1>1, <1>2
  <2> HIDE DEF t
  <2> QED  BY <2>1 DEF GateRequests
<1> HIDE DEF t
<1>4. DOMAIN t = 1 .. Len(s) /\ t \in [1 .. Len(s) -> GateRequests]  BY <1>2, <1>3
<1>5. t \in Seq(GateRequests)  BY <1>1, <1>4
<1>6. Len(t) = Len(s)  BY <1>1, <1>4, <1>5
<1> QED  BY <1>3, <1>4, <1>5, <1>6 DEF t

LEMMA OlderMessages ==
    ASSUME NEW s \in Seq(GateMessages)
    PROVE  /\ OlderAll(s) \in Seq(GateMessages) /\ Len(OlderAll(s)) = Len(s)
           /\ \A i \in DOMAIN OlderAll(s) : ~OlderAll(s)[i].cur
<1> DEFINE t == OlderAll(s)
<1>1. Len(s) \in Nat /\ DOMAIN s = 1 .. Len(s) /\ \A i \in 1 .. Len(s) : s[i] \in GateMessages
  OBVIOUS
<1>2. t = [i \in 1 .. Len(s) |-> [s[i] EXCEPT !.cur = FALSE]]  BY <1>1 DEF OlderAll
<1>3. ASSUME NEW i \in 1 .. Len(s) PROVE t[i] \in GateMessages /\ ~t[i].cur
  <2>1. t[i] = [s[i] EXCEPT !.cur = FALSE] /\ s[i] \in GateMessages  BY <1>1, <1>2
  <2> HIDE DEF t
  <2> QED  BY <2>1 DEF GateMessages
<1> HIDE DEF t
<1>4. DOMAIN t = 1 .. Len(s) /\ t \in [1 .. Len(s) -> GateMessages]  BY <1>2, <1>3
<1>5. t \in Seq(GateMessages)  BY <1>1, <1>4
<1>6. Len(t) = Len(s)  BY <1>1, <1>4, <1>5
<1> QED  BY <1>3, <1>4, <1>5, <1>6 DEF t

(* The exits. *)
LEMMA PaEnds ==
    ASSUME GateInv, ExitStore \/ ExitReply \/ ExitEmbed \/ ExitTail
    PROVE  GateInv'
<1> USE DEF paState, waitVars, stopVars, outVars
<1>1. /\ PaTypes /\ FreshInv /\ Disposed /\ VectorInv /\ TakenInv /\ ExitHonest /\ ThisTurn
  BY PaFacts
<1>2. CASE ExitStore
  <2>1. /\ g = "exit" /\ g' = "reply" /\ PaMoves
        /\ contact' = IF Acknowledges THEN "ack" ELSE IF ~got /\ ~gfault THEN "miss" ELSE "none"
        /\ \/ /\ stored' = IF ~Answered THEN "ERROR" ELSE IF local THEN "LOCAL" ELSE "OK"
              /\ vecable' = IF stored' = "OK" THEN "this" ELSE "none"
           \/ stored' = "lost" /\ UNCHANGED vecable
        /\ UNCHANGED <<cseq, paState, waitVars, stopVars, pbup, told, jact, vecof>>
    BY <1>2, StillMoves DEF ExitStore
  <2>2. PaTypes'  BY <1>1, <2>1 DEF PaTypes, Marks
  <2>3. FreshInv' /\ TakenInv'  BY <1>1, <2>1 DEF FreshInv, TakenInv, Leaving, Before
  <2>4. Disposed'  BY <1>1, <2>1 DEF Disposed, Acknowledges, Answered
  <2>5. VectorInv'  BY <1>1, <2>1 DEF VectorInv, VectorOfThisTurn, Answered
  <2>6. ExitHonest' /\ ThisTurn'
    BY <1>1, <2>1, <2>5 DEF FreshInv, Leaving, Acknowledges, ExitHonest, OneStory, ContactHonest,
                            ProvenanceTrue, ThisTurn, AnswerOwn, VectorInv
  <2> QED  BY <2>1, <2>2, <2>3, <2>4, <2>5, <2>6, PaKeeps DEF PaInv, Before, Leaving, AtWait
<1>3. CASE ExitReply
  <2>1. /\ g = "reply" /\ told' = Verdict /\ g' = IF got /\ vecable # "none" THEN "embed" ELSE "tail"
        /\ PaMoves
        /\ UNCHANGED <<cseq, paState, waitVars, stopVars, pbup, stored, jact, vecable, vecof, contact>>
    BY <1>3, StillMoves DEF ExitReply
  <2>2. Verdict \in {"failed", "truncated", "answered"}  BY DEF Verdict
  <2>3. PaTypes'  BY <1>1, <2>1, <2>2 DEF PaTypes
  <2>4. FreshInv' /\ TakenInv'  BY <1>1, <2>1 DEF FreshInv, TakenInv, Leaving, Before
  <2>5. Disposed'  BY <1>1, <2>1 DEF Disposed, Acknowledges, Answered, Verdict
  <2>6. VectorInv'  BY <1>1, <2>1 DEF VectorInv, VectorOfThisTurn
  <2>7. AnswerOwn'
    BY <1>1, <2>1 DEF AnswerOwn, TakenInv, FreshInv, Leaving, Verdict, PaTypes, Stops
  <2>8. ExitHonest' /\ ThisTurn'
    BY <1>1, <2>1, <2>6, <2>7 DEF ExitHonest, OneStory, ContactHonest, ProvenanceTrue, ThisTurn,
                                  VectorInv
  <2> QED  BY <2>1, <2>3, <2>4, <2>5, <2>6, <2>8, PaKeeps DEF PaInv, Before, Leaving, AtWait
<1>4. CASE ExitEmbed
  <2>1. /\ g = "embed" /\ g' = "tail" /\ vecable' = "none" /\ PaMoves
        /\ vecof' \in {"none", qvec, vecable}
        /\ UNCHANGED <<cseq, paState, waitVars, stopVars, pbup, told, stored, jact, contact>>
    BY <1>4, StillMoves, EmbedMoves DEF ExitEmbed
  <2>2. PaTypes'  BY <1>1, <2>1 DEF PaTypes, Marks
  <2>3. FreshInv' /\ TakenInv'  BY <1>1, <2>1 DEF FreshInv, TakenInv, Leaving, Before
  <2>4. Disposed'  BY <1>1, <2>1 DEF Disposed, Acknowledges, Answered, Verdict
  <2>5. VectorInv'  BY <1>1, <2>1 DEF VectorInv, VectorOfThisTurn
  <2>6. AnswerOwn'
    BY <1>1, <2>1 DEF AnswerOwn, Disposed, TakenInv, FreshInv, Leaving, Verdict, PaTypes, Stops
  <2>7. ExitHonest' /\ ThisTurn'
    BY <1>1, <2>1, <2>5, <2>6 DEF ExitHonest, OneStory, ContactHonest, ProvenanceTrue, ThisTurn,
                                  VectorInv
  <2> QED  BY <2>1, <2>2, <2>3, <2>4, <2>5, <2>7, PaKeeps DEF PaInv, Before, Leaving, AtWait
<1>5. CASE ExitTail
  <2>1. /\ g = "tail" /\ g' = "done" /\ jact' = (IF Answered THEN "OK" ELSE "FAIL") /\ PaMoves
        /\ UNCHANGED <<cseq, paState, waitVars, stopVars, pbup, told, stored, vecable, vecof, contact>>
    BY <1>5, StillMoves DEF ExitTail
  <2>2. PaTypes'  BY <1>1, <2>1 DEF PaTypes
  <2>3. FreshInv' /\ Disposed' /\ TakenInv'
    BY <1>1, <2>1 DEF FreshInv, Disposed, TakenInv, Leaving, Before
  <2>4. VectorInv'  BY <1>1, <2>1 DEF VectorInv, VectorOfThisTurn
  <2>5. OneStory' /\ ContactHonest'
    BY <1>1, <2>1 DEF Disposed, OneStory, Answered, Verdict, Acknowledges, ExitHonest, ContactHonest
  <2>6. ExitHonest' /\ ThisTurn'
    BY <1>1, <2>1, <2>4, <2>5 DEF ExitHonest, ProvenanceTrue, ThisTurn, AnswerOwn, VectorInv
  <2> QED  BY <2>1, <2>2, <2>3, <2>4, <2>6, PaKeeps DEF PaInv, Before, Leaving, AtWait
<1> QED  BY <1>2, <1>3, <1>4, <1>5

LEMMA ReturnKeeps == ASSUME GateInv, Return PROVE GateInv'
<1>1. /\ PaTypes /\ FreshInv /\ Disposed /\ VectorInv /\ TakenInv /\ ExitHonest /\ ThisTurn
  BY PaFacts
<1>2. /\ g = "done" /\ g' = "idle"
      /\ told' = "none" /\ stored' = "none" /\ jact' = "none" /\ vecof' = "none" /\ contact' = "none"
      /\ local' = FALSE /\ vused' = "none" /\ pre' = FALSE /\ kind' = "none" /\ route' = "none"
      /\ got' = FALSE /\ gfault' = FALSE /\ empty' = TRUE /\ whose' = "none"
      /\ qvec' = Older(qvec) /\ vecable' = Older(vecable) /\ stopof' = Older(stopof)
      /\ gq' = OlderAll(gq) /\ gring' = OlderAll(gring) /\ gen' = [gen EXCEPT !.cur = FALSE]
      /\ UNCHANGED <<cseq, polls, windows, moved, stop, pbup>>
  BY DEF Return
<1>3. \A k \in Marks : Older(k) \in Marks  BY DEF Older, Marks
<1>4. PaTypes'
  <2>1. qvec' \in Marks /\ vecable' \in Marks /\ stopof' \in Marks  BY <1>1, <1>2, <1>3 DEF PaTypes
  <2>2. /\ local' \in BOOLEAN /\ pre' \in BOOLEAN /\ got' \in BOOLEAN /\ gfault' \in BOOLEAN
        /\ empty' \in BOOLEAN
    BY <1>2
  <2>3. "none" \in Marks  BY DEF Marks
  <2> QED  BY <1>1, <1>2, <2>1, <2>2, <2>3 DEF PaTypes
<1>5. FreshInv' /\ Disposed' /\ TakenInv'
  BY <1>2 DEF FreshInv, Disposed, TakenInv, Leaving, Before
<1>6. VectorInv'  BY <1>1, <1>2 DEF VectorInv, VectorOfThisTurn, Older
<1>7. ExitHonest' /\ ThisTurn'
  BY <1>2, <1>6 DEF ExitHonest, OneStory, ContactHonest, ProvenanceTrue, ThisTurn, AnswerOwn, VectorInv
<1>8. RingTypes' /\ RingInv'
  <2>1. /\ gq' \in Seq(GateRequests) /\ Len(gq') <= GateQueue /\ \A i \in DOMAIN gq' : ~gq'[i].cur
    BY <1>2, PbFacts, OlderRequests
  <2>2. /\ gring' \in Seq(GateMessages) /\ Len(gring') <= GateRing
        /\ \A i \in DOMAIN gring' : ~gring'[i].cur
    BY <1>2, PbFacts, OlderMessages
  <2>3. gen' \in Generations /\ ~gen'.cur /\ gen'.at = gen.at /\ gen'.left = gen.left
    BY <1>2, PbFacts DEF Generations
  <2>4. NothingOwn'  BY <2>1, <2>2, <2>3 DEF NothingOwn
  <2> QED  BY <1>2, <2>1, <2>2, <2>3, <2>4, PbFacts DEF RingTypes, RingInv, AtWait
<1> QED  BY <1>4, <1>5, <1>6, <1>7, <1>8 DEF GateInv, PaInv

LEMMA GateInductive == GateInv /\ [GateNext]_gateVars => GateInv'
<1> SUFFICES ASSUME GateInv, [GateNext]_gateVars PROVE GateInv'
  OBVIOUS
<1>1. CASE GateNext
  BY <1>1, PaAsks, SendKeeps, PaWaits, PaEnds, ReturnKeeps, PbSteps DEF GateNext, GateStep
<1>2. CASE UNCHANGED gateVars
  <2>1. UNCHANGED <<queryVars, polls, windows, moved, pbup, gq, gring, gen>>
    BY <1>2 DEF gateVars, waitVars, pbVars, queryVars
  <2>2. PaInv'  BY <2>1, PaRests DEF GateInv
  <2>3. PaTypes'  BY <2>1 DEF GateInv, PaTypes, queryVars, paState, stopVars, outVars
  <2>4. RingTypes' /\ RingInv'
    BY <2>1 DEF GateInv, RingTypes, RingInv, NothingOwn, InOrder, Served, OwnSeen, Marked, Announced,
                queryVars, stopVars
  <2> QED  BY <2>2, <2>3, <2>4 DEF GateInv
<1> QED  BY <1>1, <1>2

(* Rings, locals and globals of the gate keep their types. *)
THEOREM GateTypeCorrect == GateSpec => []GateTypeOK
<1>1. GateInv => GateTypeOK  BY GateTypeParts DEF GateInv
<1> QED  BY GateInitially, GateInductive, <1>1, PTL DEF GateSpec

(* Every exit of a query tells the operator, the store, the audit and the hang detector the
   same story, whenever PB answers, faults or falls silent, and however many queries it has
   been given that PA no longer waits for. *)
THEOREM ExitsAreHonest == GateSpec => []ExitHonest
<1>1. GateInv => ExitHonest  BY DEF GateInv, PaInv
<1> QED  BY GateInitially, GateInductive, <1>1, PTL DEF GateSpec

(* An answer that begins with this query's own text holds nobody else's, although the chunks PB
   still sends for earlier queries carry numbers like its own and the rest of a reply is taken
   whatever its number; its mark of truncation is of this query's own generation, although the
   stop reason is one latch that every lane and every late answer writes; and a vector that is
   compared or stored is of this query. *)
THEOREM TurnsDoNotMix == GateSpec => []ThisTurn
<1>1. GateInv => ThisTurn  BY DEF GateInv, PaInv
<1> QED  BY GateInitially, GateInductive, <1>1, PTL DEF GateSpec

------------------------------------------------------------------------------
(* The rate limit *)

USE DEF Clock

(* The word that is added never exceeds what the elapsed time is worth. *)
LEMMA ModLess == ASSUME NEW x \in Nat PROVE x % ClockMod \in 0 .. x
<1>1. ClockMod \in Nat /\ ClockMod > 0  BY BucketAssumption
<1> QED  BY <1>1, SMTT(20)

LEMMA ElapsedType == RlTypeOK => Elapsed \in Clock
  BY BucketAssumption DEF RlTypeOK, Elapsed

LEMMA TimesNat == \A a, b \in Nat : a * b \in Nat
  BY SMTT(20)

LEMMA AddedBound == RlTypeOK => Added \in 0 .. (Elapsed * Refill) /\ Elapsed * Refill \in Nat
<1> SUFFICES ASSUME RlTypeOK PROVE Added \in 0 .. (Elapsed * Refill) /\ Elapsed * Refill \in Nat
  OBVIOUS
<1>1. Elapsed \in Nat /\ Refill \in Nat  BY ElapsedType, BucketAssumption
<1>2. Elapsed * Refill \in Nat  BY <1>1, TimesNat
<1> QED  BY <1>2, ModLess DEF Added

LEMMA RefilledBound ==
    RlTypeOK => Refilled \in 0 .. Capacity /\ Refilled <= AtMost(Capacity, tokens + Elapsed * Refill)
<1> SUFFICES ASSUME RlTypeOK
             PROVE  Refilled \in 0 .. Capacity /\ Refilled <= AtMost(Capacity, tokens + Elapsed * Refill)
  OBVIOUS
<1>1. Added \in 0 .. (Elapsed * Refill) /\ Elapsed * Refill \in Nat  BY AddedBound
<1>2. Capacity \in Nat /\ tokens \in 0 .. Capacity  BY BucketAssumption DEF RlTypeOK
<1> DEFINE worth == Elapsed * Refill
<1> HIDE DEF worth
<1>3. Added \in 0 .. worth /\ worth \in Nat  BY <1>1 DEF worth
<1>4. Refilled \in 0 .. Capacity /\ Refilled <= AtMost(Capacity, tokens + worth)
  BY <1>2, <1>3 DEF Refilled, AtMost
<1> QED  BY <1>4 DEF worth

Inv == RlTypeOK /\ NeverAhead

(* The types, the allowance and the bound, together. *)
LEMMA BucketInductive == ASSUME Inv, [RlNext]_rlVars PROVE Inv'
<1>1. CASE Frame
  <2>1. Refilled \in 0 .. Capacity /\ Refilled <= credit
    <3> DEFINE worth == Elapsed * Refill
    <3>1. worth \in Nat  BY AddedBound DEF Inv
    <3>2. /\ Refilled \in 0 .. Capacity /\ Refilled <= AtMost(Capacity, tokens + worth)
          /\ AtMost(Capacity, tokens + worth) <= credit
      BY RefilledBound DEF Inv, NeverAhead
    <3> HIDE DEF worth
    <3> QED  BY <3>1, <3>2, BucketAssumption DEF AtMost, Inv, RlTypeOK
  <2>2. Elapsed' = 0  BY <1>1 DEF Frame, Elapsed, Inv, RlTypeOK
  <2>3. Elapsed' * Refill = 0  BY <2>2, BucketAssumption
  <2> QED  BY <1>1, <2>1, <2>3, BucketAssumption DEF Frame, Inv, RlTypeOK, NeverAhead, AtMost
<1>2. ASSUME NEW d \in Clock, Elapse(d) PROVE Inv'
  <2>1. RlTypeOK'  BY <1>2, BucketAssumption DEF Elapse, Inv, RlTypeOK, AtMost
  <2>2. Elapsed' \in Nat /\ Elapsed \in Nat /\ Elapsed' <= Elapsed + d
    BY <1>2, BucketAssumption DEF Elapse, Elapsed, Inv, RlTypeOK
  <2>3. Elapsed' * Refill <= Elapsed * Refill + d * Refill
    BY <2>2, BucketAssumption, SMTT(30)
  <2>4. Elapsed' * Refill \in Nat /\ Elapsed * Refill \in Nat /\ d * Refill \in Nat
    BY <2>2, BucketAssumption, TimesNat
  <2> DEFINE new == Elapsed' * Refill  old == Elapsed * Refill  gain == d * Refill
  <2> HIDE DEF new, old, gain
  <2>5. new \in Nat /\ old \in Nat /\ gain \in Nat /\ new <= old + gain
    BY <2>3, <2>4 DEF new, old, gain
  <2>6. AtMost(Capacity, tokens + old) <= credit /\ credit <= Capacity
    BY DEF Inv, NeverAhead, old
  <2>7. tokens' = tokens /\ credit' = AtMost(Capacity, credit + gain)
    BY <1>2 DEF Elapse, gain
  <2>8. AtMost(Capacity, tokens' + new) <= credit' /\ credit' <= Capacity
    BY <2>5, <2>6, <2>7, BucketAssumption DEF AtMost, Inv, RlTypeOK
  <2> QED  BY <2>1, <2>8 DEF Inv, NeverAhead, new
<1>3. CASE UNCHANGED rlVars
  BY <1>3 DEF Inv, RlTypeOK, NeverAhead, Elapsed, AtMost, rlVars
<1> QED  BY <1>1, <1>2, <1>3 DEF RlNext

LEMMA BucketInitially == RlInit => Inv
<1> SUFFICES ASSUME RlInit PROVE Inv
  OBVIOUS
<1>1. RlTypeOK  BY BucketAssumption DEF RlInit, RlTypeOK
<1>2. Elapsed * Refill \in Nat  BY <1>1, AddedBound
<1> QED  BY <1>1, <1>2, BucketAssumption DEF RlInit, Inv, NeverAhead, AtMost

(* The types of the bucket. *)
THEOREM BucketTypeCorrect == RlSpec => []RlTypeOK
<1>1. Inv => RlTypeOK  BY DEF Inv
<1> QED  BY BucketInitially, BucketInductive, <1>1, PTL DEF RlSpec

(* The bucket is never ahead of an ideal one on an unbounded clock. *)
THEOREM BucketInvariance == RlSpec => []NeverAhead
<1>1. Inv => NeverAhead  BY DEF Inv
<1> QED  BY BucketInitially, BucketInductive, <1>1, PTL DEF RlSpec

(* No interval sees more frames than the capacity and its refill, whatever the clock's *)
(* width: control_ratelimit.c's "never grants a whole token early".                   *)
THEOREM BucketBound == RlSpec => []RateBound
<1>1. Inv => RateBound
  <2> SUFFICES ASSUME Inv PROVE RateBound
    OBVIOUS
  <2>1. Elapsed * Refill \in Nat  BY AddedBound DEF Inv
  <2> DEFINE worth == Elapsed * Refill
  <2> HIDE DEF worth
  <2>2. worth \in Nat /\ AtMost(Capacity, tokens + worth) <= credit
    BY <2>1 DEF Inv, NeverAhead, worth
  <2> QED  BY <2>2, BucketAssumption DEF Inv, AtMost, RateBound, RlTypeOK
<1> QED  BY BucketInitially, BucketInductive, <1>1, PTL DEF RlSpec

------------------------------------------------------------------------------
(* The receive ring. *)

LEMMA RxSucc1 ==
    ASSUME NEW x \in RxSlots
    PROVE  RxSucc(x) \in RxSlots /\ RxSucc(x) = IF x + 1 = RxSize THEN 0 ELSE x + 1
BY RxAssumption, SMTT(20) DEF RxSlots, RxSucc

\* How far t is ahead of h on the ring.
LEMMA RxAhead ==
    ASSUME NEW h \in RxSlots, NEW t \in RxSlots
    PROVE  (t - h) % RxSize = IF h <= t THEN t - h ELSE (t - h) + RxSize
<1>1. RxSize \in Nat /\ RxSize > 1 /\ h \in 0 .. (RxSize - 1) /\ t \in 0 .. (RxSize - 1)
  BY RxAssumption DEF RxSlots
<1>2. CASE h <= t
  <2>1. t - h \in 0 .. (RxSize - 1) BY <1>1, <1>2
  <2> QED BY <1>1, <1>2, <2>1
<1>3. CASE h > t
  <2> DEFINE d == t - h
  <2>1. d \in Int /\ d + RxSize \in 0 .. (RxSize - 1) /\ d < 0 BY <1>1, <1>3
  <2>2. d % RxSize = d + RxSize
    <3> HIDE DEF d
    <3> QED BY <1>1, <2>1, SMTT(20)
  <2> QED BY <1>1, <1>3, <2>2
<1> QED BY <1>1, <1>2, <1>3

\* The descriptor i places after h.
RxAfter(h, i) == IF h + i < RxSize THEN h + i ELSE h + i - RxSize

LEMMA RxAfterIs ==
    ASSUME NEW h \in RxSlots, NEW i \in 1 .. RxSize
    PROVE  (h + i - 1) % RxSize = RxAfter(h, i - 1) /\ RxAfter(h, i - 1) \in RxSlots
<1> DEFINE x == h + i - 1
<1>1. RxSize \in Nat /\ RxSize > 1 /\ h \in 0 .. (RxSize - 1) /\ x \in 0 .. (2 * RxSize - 1)
      /\ x = h + (i - 1)
  BY RxAssumption DEF RxSlots
<1> HIDE DEF x
<1>2. x % RxSize = IF x < RxSize THEN x ELSE x - RxSize
  <2> DEFINE m == x % RxSize
  <2>1. x < RxSize => m = x BY <1>1, SMTT(20)
  <2>2. x >= RxSize => m = x - RxSize
    <3> DEFINE r == x - RxSize
    <3>1. x >= RxSize => r \in 0 .. (RxSize - 1) BY <1>1
    <3>2. x = r + RxSize /\ r \in Int BY <1>1
    <3>3. r \in 0 .. (RxSize - 1) => (r + RxSize) % RxSize = r
      <4> HIDE DEF r
      <4> QED BY <1>1, <3>2, SMTT(20)
    <3> QED BY <3>1, <3>2, <3>3
  <2> HIDE DEF m
  <2>3. m = IF x < RxSize THEN x ELSE x - RxSize BY <1>1, <2>1, <2>2
  <2> QED BY <2>3 DEF m
<1>3. h + (i - 1) = x BY <1>1
<1>4. RxAfter(h, i - 1) = IF x < RxSize THEN x ELSE x - RxSize BY <1>1, <1>3 DEF RxAfter
<1>5. RxAfter(h, i - 1) \in RxSlots BY <1>1, <1>4 DEF RxSlots
<1> QED BY <1>2, <1>4, <1>5 DEF x

\* The descriptor before the cursor.
LEMMA RearmAtIs ==
    ASSUME rx_cur \in RxSlots
    PROVE  RearmAt \in RxSlots /\ RxSucc(RearmAt) = rx_cur
           /\ RearmAt = IF rx_cur = 0 THEN RxSize - 1 ELSE rx_cur - 1
<1>1. RxSize \in Nat /\ RxSize > 1 /\ rx_cur \in 0 .. (RxSize - 1) BY RxAssumption DEF RxSlots
<1>2. 1 \in RxSlots /\ rx_cur \in RxSlots BY <1>1 DEF RxSlots
<1>3. RearmAt = IF 1 <= rx_cur THEN rx_cur - 1 ELSE (rx_cur - 1) + RxSize
  BY <1>2, RxAhead DEF RearmAt
<1>4. RearmAt \in RxSlots /\ RearmAt = IF rx_cur = 0 THEN RxSize - 1 ELSE rx_cur - 1
  BY <1>1, <1>3 DEF RxSlots
<1>5. RxSucc(RearmAt) = rx_cur BY <1>1, <1>4, RxSucc1
<1> QED BY <1>4, <1>5

-------------------------------------------------------------------------------
Looping == {"loop", "copy", "clear", "rearm"}

\* Descriptor d lies between the cursor and the head register.
Between(d) == IF rx_cur <= rdh THEN rx_cur <= d /\ d < rdh ELSE rx_cur <= d \/ d < rdh

\* Before the ring is armed nothing has happened on it; after, every descriptor has a buffer and
\* the tail register is one behind the cursor, or two while a descriptor is handed back.
ArmedRing ==
    /\ rx_at \notin Looping => rdt = 0 /\ rdh = 0 /\ rx_cur = 0
    /\ rx_at \in Looping => rx_addr = RxSlots
    /\ rx_at \in {"loop", "copy", "clear"} => RxSucc(rdt) = rx_cur
    /\ rx_at = "rearm" => RxSucc(RxSucc(rdt)) = rx_cur /\ RxSucc(rdh) # rx_cur

\* The reported descriptors are those from the cursor up to the head register.
ReportedRing ==
    /\ \A d \in RxSlots : rx_ring[d] # "free" <=> Between(d)
    /\ rx_at \in {"copy", "clear"} => rx_ring[rx_cur] = "done"

\* The card writes at the head register, which it owns, and what it has written is of one frame.
CardAtWork ==
    /\ card.at = "idle" => card = CardIdle
    /\ card.at # "idle" =>
          rdh # rdt /\ card.frame \in Packets /\ rx_bufs[rdh].front = card.frame
    /\ card.at = "back" => rx_bufs[rdh].back = card.frame

\* A buffer reported good holds one frame, and the copy of it is of that frame.
WholeFrames ==
    /\ \A d \in RxSlots : rx_ring[d] = "done" =>
          rx_bufs[d].front \in Packets /\ rx_bufs[d].back = rx_bufs[d].front
    /\ rx_at \in {"copy", "clear"} => rx_copy.front = rx_bufs[rx_cur].front
    /\ rx_at = "clear" => rx_copy.back = rx_bufs[rx_cur].back

RxInv == RxTypeOK /\ ArmedRing /\ ReportedRing /\ CardAtWork /\ WholeFrames

LEMMA RxInitially == RxInit => RxInv
<1> SUFFICES ASSUME RxInit PROVE RxInv OBVIOUS
<1>1. RxSize \in Nat /\ RxSize > 1 /\ 0 \in RxSlots BY RxAssumption DEF RxSlots
<1>2. Body(NoPacket) \in RxBodies BY DEF Body, RxBodies
<1>3. RxTypeOK BY <1>1, <1>2, RxAssumption DEF RxInit, RxTypeOK, CardIdle
<1>4. ArmedRing BY DEF RxInit, ArmedRing, Looping
<1>5. ReportedRing BY <1>1 DEF RxInit, ReportedRing, Between, RxSlots
<1>6. CardAtWork BY DEF RxInit, CardAtWork, CardIdle
<1>7. WholeFrames BY DEF RxInit, WholeFrames
<1> QED BY <1>3, <1>4, <1>5, <1>6, <1>7 DEF RxInv

\* The ring's geometry in plain arithmetic.
LEMMA RxGeometry ==
    ASSUME RxInv
    PROVE  /\ RxSize \in Nat /\ RxSize > 1
           /\ rx_cur \in 0 .. (RxSize - 1) /\ rdh \in 0 .. (RxSize - 1) /\ rdt \in 0 .. (RxSize - 1)
           /\ RxSucc(rdh) = IF rdh + 1 = RxSize THEN 0 ELSE rdh + 1
           /\ RxSucc(rdt) = IF rdt + 1 = RxSize THEN 0 ELSE rdt + 1
           /\ RxSucc(rx_cur) = IF rx_cur + 1 = RxSize THEN 0 ELSE rx_cur + 1
           /\ RxSucc(RxSucc(rdt)) =
                IF RxSucc(rdt) + 1 = RxSize THEN 0 ELSE RxSucc(rdt) + 1
           /\ RxSucc(rdh) \in RxSlots /\ RxSucc(rx_cur) \in RxSlots
           /\ RxSlots = 0 .. (RxSize - 1)
<1>1. rx_cur \in RxSlots /\ rdh \in RxSlots /\ rdt \in RxSlots BY DEF RxInv, RxTypeOK
<1>2. RxSucc(rdt) \in RxSlots BY <1>1, RxSucc1
<1> QED BY <1>1, <1>2, RxSucc1, RxAssumption DEF RxSlots

\* What is waiting and what the card may fill.
LEMMA WaitingIs ==
    ASSUME RxInv
    PROVE  /\ Waiting = IF rx_cur <= rdh THEN rdh - rx_cur ELSE (rdh - rx_cur) + RxSize
           /\ CardsOwn = IF rdh <= rdt THEN rdt - rdh ELSE (rdt - rdh) + RxSize
           /\ Waiting \in 0 .. (RxSize - 1)
<1>1. rx_cur \in RxSlots /\ rdh \in RxSlots /\ rdt \in RxSlots BY DEF RxInv, RxTypeOK
<1>2. Waiting = IF rx_cur <= rdh THEN rdh - rx_cur ELSE (rdh - rx_cur) + RxSize
  BY <1>1, RxAhead DEF Waiting
<1>3. CardsOwn = IF rdh <= rdt THEN rdt - rdh ELSE (rdt - rdh) + RxSize
  BY <1>1, RxAhead DEF CardsOwn
<1>4. Waiting \in 0 .. (RxSize - 1) BY <1>1, <1>2, RxAssumption DEF RxSlots
<1> QED BY <1>2, <1>3, <1>4

LEMMA BootSteps == ASSUME RxInv, Wire \/ Arm PROVE RxInv'
<1>1. RxSize \in Nat /\ RxSize > 1 /\ RxSize - 1 \in RxSlots BY RxAssumption DEF RxSlots
<1>2. /\ rdt = 0 /\ rdh = 0 /\ rx_cur = 0 /\ rx_at \in {"wire", "arm"}
      /\ UNCHANGED <<rx_ring, rx_bufs, rdh, rx_cur, rx_copy, card, rx_taken>>
  BY DEF RxInv, ArmedRing, Looping, Wire, Arm
<1>3. RxTypeOK'
  <2>1. CASE Wire BY <2>1 DEF RxInv, RxTypeOK, Wire
  <2>2. CASE Arm BY <2>2, <1>1 DEF RxInv, RxTypeOK, Arm
  <2> QED BY <2>1, <2>2
<1>4. 0 \in RxSlots /\ RxSucc(RxSize - 1) = 0 BY <1>1, RxSucc1 DEF RxSlots
<1>5. ArmedRing'
  <2>1. CASE Wire BY <1>2, <2>1 DEF RxInv, ArmedRing, Wire, Looping
  <2>2. CASE Arm
    <3>1. rx_at' \in {"loop", "inert"} /\ rx_addr' = rx_addr
          /\ (rx_at' = "loop" => rdt' = RxSize - 1 /\ rx_addr = RxSlots)
          /\ (rx_at' = "inert" => rdt' = rdt)
      BY <2>2 DEF Arm
    <3> QED BY <1>2, <1>4, <3>1 DEF ArmedRing, Looping
  <2> QED BY <2>1, <2>2
<1>6. ReportedRing' /\ WholeFrames'
  <2>1. rx_at' \in {"arm", "loop", "inert"} BY DEF Wire, Arm
  <2> QED BY <1>2, <2>1 DEF RxInv, ReportedRing, WholeFrames, Between
<1>7. card = CardIdle BY <1>2, <1>1, RxAssumption DEF RxInv, CardAtWork, RxTypeOK
<1>8. CardAtWork' BY <1>2, <1>7 DEF CardAtWork, CardIdle
<1> QED BY <1>3, <1>5, <1>6, <1>8 DEF RxInv

LEMMA CopySteps == ASSUME RxInv, CopyFront \/ CopyBack PROVE RxInv'
<1>1. /\ UNCHANGED <<rx_ring, rx_addr, rx_bufs, rdh, rdt, rx_cur, card, rx_taken>>
      /\ rx_cur \in RxSlots /\ rx_bufs[rx_cur] \in RxBodies /\ rx_copy \in RxBodies
  BY DEF RxInv, RxTypeOK, CopyFront, CopyBack
<1>2. /\ rx_at \in Looping /\ rx_at' \in {"copy", "clear"}
      /\ rx_at \in {"loop", "copy"}
  BY DEF CopyFront, CopyBack, Looping
<1>3. rx_copy' \in RxBodies
  BY <1>1 DEF CopyFront, CopyBack, RxBodies
<1>4. RxTypeOK' BY <1>1, <1>2, <1>3 DEF RxInv, RxTypeOK
<1>5. ArmedRing' BY <1>1, <1>2 DEF RxInv, ArmedRing, Looping
<1>6. rx_ring[rx_cur] = "done" BY DEF RxInv, ReportedRing, CopyFront, CopyBack
<1>7. ReportedRing' BY <1>1, <1>6 DEF RxInv, ReportedRing, Between
<1>8. CardAtWork' BY <1>1 DEF RxInv, CardAtWork, CardIdle
<1>9. WholeFrames'
  <2>1. rx_copy'.front = rx_bufs[rx_cur].front
    BY <1>1 DEF RxInv, WholeFrames, CopyFront, CopyBack, RxBodies
  <2>2. rx_at' = "clear" => rx_copy'.back = rx_bufs[rx_cur].back
    BY <1>1 DEF CopyFront, CopyBack, RxBodies
  <2> QED BY <1>1, <2>1, <2>2 DEF RxInv, WholeFrames
<1> QED BY <1>4, <1>5, <1>7, <1>8, <1>9 DEF RxInv

\* The descriptor at the cursor is reported, so the ring is not empty.
LEMMA ClearStep ==
    ASSUME RxInv, NEW what \in Packets \union {Damaged, NoPacket}, Clear(what),
           rx_at \in {"loop", "clear"}, rx_ring[rx_cur] # "free"
    PROVE  RxInv'
<1>1. /\ rx_ring' = [rx_ring EXCEPT ![rx_cur] = "free"]
      /\ rx_cur' = RxSucc(rx_cur) /\ rx_taken' = what /\ rx_at' = "rearm"
      /\ UNCHANGED <<rx_addr, rx_bufs, rdh, rdt, rx_copy, card>>
  BY DEF Clear
<1>2. rx_cur \in RxSlots /\ RxSucc(rx_cur) \in RxSlots BY RxSucc1 DEF RxInv, RxTypeOK
<1>3. RxTypeOK' BY <1>1, <1>2 DEF RxInv, RxTypeOK
<1>4. rx_cur # rdh /\ Between(rx_cur)
  BY <1>2, RxGeometry DEF RxInv, ReportedRing, Between
<1>5. ArmedRing'
  <2>1. RxSucc(rdt) = rx_cur /\ rx_addr = RxSlots BY DEF RxInv, ArmedRing, Looping
  <2>2. RxSucc(rdh) # RxSucc(rx_cur) BY <1>4, RxGeometry
  <2> QED BY <1>1, <2>1, <2>2 DEF ArmedRing, Looping
<1>6. ReportedRing'
  <2>1. \A d \in RxSlots : Between(d)' <=> Between(d) /\ d # rx_cur
    BY <1>1, <1>4, RxGeometry DEF Between
  <2>2. \A d \in RxSlots : rx_ring'[d] # "free" <=> rx_ring[d] # "free" /\ d # rx_cur
    BY <1>1 DEF RxInv, RxTypeOK
  <2>3. \A d \in RxSlots : rx_ring[d] # "free" <=> Between(d) BY DEF RxInv, ReportedRing
  <2>4. \A d \in RxSlots : rx_ring'[d] # "free" <=> Between(d)' BY <2>1, <2>2, <2>3
  <2> QED BY <1>1, <2>4 DEF ReportedRing
<1>7. CardAtWork' BY <1>1 DEF RxInv, CardAtWork, CardIdle
<1>8. WholeFrames'
  <2>1. \A d \in RxSlots : rx_ring'[d] = "done" => rx_ring[d] = "done"
    BY <1>1 DEF RxInv, RxTypeOK
  <2> QED BY <1>1, <2>1 DEF RxInv, WholeFrames
<1> QED BY <1>3, <1>5, <1>6, <1>7, <1>8 DEF RxInv

LEMMA TakeSteps == ASSUME RxInv, TakeFrame \/ DropDamaged PROVE RxInv'
<1>1. CASE TakeFrame
  <2>1. rx_copy.front \in Packets \union {Damaged, NoPacket} BY DEF RxInv, RxTypeOK, RxBodies
  <2>2. rx_at = "clear" /\ Clear(rx_copy.front) BY <1>1 DEF TakeFrame
  <2>3. rx_ring[rx_cur] # "free" BY <2>2 DEF RxInv, ReportedRing
  <2> QED BY <2>1, <2>2, <2>3, ClearStep
<1>2. CASE DropDamaged
  <2>1. rx_at = "loop" /\ rx_ring[rx_cur] # "free" /\ Clear(Damaged) BY <1>2 DEF DropDamaged
  <2> QED BY <2>1, ClearStep
<1> QED BY <1>1, <1>2

LEMMA RearmStep == ASSUME RxInv, Rearm PROVE RxInv'
<1>1. /\ rx_at = "rearm" /\ rdt' = RearmAt /\ rx_at' = "loop"
      /\ UNCHANGED <<rx_ring, rx_addr, rx_bufs, rdh, rx_cur, rx_copy, card, rx_taken>>
  BY DEF Rearm
<1>2. rx_cur \in RxSlots BY DEF RxInv, RxTypeOK
<1>3. RearmAt \in RxSlots /\ RxSucc(RearmAt) = rx_cur
      /\ RearmAt = IF rx_cur = 0 THEN RxSize - 1 ELSE rx_cur - 1
  BY <1>2, RearmAtIs
<1>4. RxTypeOK' BY <1>1, <1>3 DEF RxInv, RxTypeOK
<1>5. ArmedRing' BY <1>1, <1>3 DEF RxInv, ArmedRing, Looping
<1>6. ReportedRing' /\ WholeFrames'
  BY <1>1 DEF RxInv, ReportedRing, WholeFrames, Between
<1>7. CardAtWork'
  <2>1. RxSucc(RxSucc(rdt)) = rx_cur BY <1>1 DEF RxInv, ArmedRing
  <2>2. ASSUME card.at # "idle" PROVE rdh # RearmAt
    <3>1. RxSucc(rdh) # rx_cur BY <1>1 DEF RxInv, ArmedRing
    <3> QED BY <1>3, <3>1
  <2> QED BY <1>1, <2>2 DEF RxInv, CardAtWork, CardIdle
<1> QED BY <1>4, <1>5, <1>6, <1>7 DEF RxInv

\* While the card is at work the ring is armed, and the descriptor it writes is not reported.
LEMMA CardsDescriptor ==
    ASSUME RxInv
    PROVE  /\ rdh \in RxSlots /\ rx_ring[rdh] = "free" /\ ~Between(rdh)
           /\ rdh # rdt => rx_at \in Looping /\ RxSucc(rdh) # rx_cur
<1>1. rdh \in RxSlots /\ ~Between(rdh) BY RxGeometry DEF Between
<1>2. rx_ring[rdh] = "free" BY <1>1 DEF RxInv, ReportedRing
<1>3. ASSUME rdh # rdt PROVE rx_at \in Looping /\ RxSucc(rdh) # rx_cur
  <2>1. rx_at \in Looping BY <1>3 DEF RxInv, ArmedRing
  <2>2. CASE rx_at = "rearm" BY <2>1, <2>2 DEF RxInv, ArmedRing
  <2>3. CASE rx_at \in {"loop", "copy", "clear"}
    <3>1. RxSucc(rdt) = rx_cur BY <2>3 DEF RxInv, ArmedRing
    <3> QED BY <1>3, <2>1, <3>1, RxGeometry
  <2> QED BY <2>1, <2>2, <2>3 DEF Looping
<1> QED BY <1>1, <1>2, <1>3

LEMMA FillSteps ==
    ASSUME RxInv, (\E f \in Packets : CardBegins(f)) \/ CardGoesOn PROVE RxInv'
<1> DEFINE Filled ==
         /\ UNCHANGED <<rx_ring, rx_addr, rdh, rdt, rx_cur, rx_copy, rx_at, rx_taken>>
         /\ rdh # rdt /\ card'.at \in {"front", "back"} /\ card'.frame \in Packets
         /\ card' \in [at : {"idle", "front", "back"}, frame : Packets \union {NoPacket}]
         /\ rx_bufs' \in [RxSlots -> RxBodies]
         /\ rx_bufs'[rdh].front = card'.frame
         /\ card'.at = "back" => rx_bufs'[rdh].back = card'.frame
         /\ \A d \in RxSlots \ {rdh} : rx_bufs'[d] = rx_bufs[d]
<1>1. Filled
  <2>1. ASSUME NEW f \in Packets, CardBegins(f) PROVE Filled
    <3>1. card' = [at |-> "front", frame |-> f] /\ rdh # rdt
          /\ rx_bufs' = [rx_bufs EXCEPT ![rdh].front = f]
          /\ UNCHANGED <<rx_ring, rx_addr, rdh, rdt, rx_cur, rx_copy, rx_at, rx_taken>>
      BY <2>1 DEF CardBegins
    <3>2. rx_bufs \in [RxSlots -> RxBodies] /\ rdh \in RxSlots BY DEF RxInv, RxTypeOK
    <3>3. [rx_bufs[rdh] EXCEPT !.front = f] \in RxBodies
          /\ [rx_bufs[rdh] EXCEPT !.front = f].front = f
      BY <3>2 DEF RxBodies
    <3>4. rx_bufs' = [rx_bufs EXCEPT ![rdh] = [rx_bufs[rdh] EXCEPT !.front = f]]
      BY <3>1
    <3>5. /\ rx_bufs' \in [RxSlots -> RxBodies] /\ rx_bufs'[rdh].front = f
          /\ \A d \in RxSlots \ {rdh} : rx_bufs'[d] = rx_bufs[d]
      BY ONLY <3>2, <3>3, <3>4
    <3>6. /\ card'.at = "front" /\ card'.frame = f
          /\ card' \in [at : {"idle", "front", "back"}, frame : Packets \union {NoPacket}]
      BY <3>1
    <3> QED BY <3>1, <3>5, <3>6
  <2>2. CASE CardGoesOn BY <2>2 DEF CardGoesOn, RxInv, RxTypeOK, RxBodies, CardAtWork
  <2> QED BY <2>1, <2>2
<1>2. RxTypeOK' BY <1>1 DEF RxInv, RxTypeOK
<1>3. ArmedRing' /\ ReportedRing'
  BY <1>1 DEF RxInv, ArmedRing, Looping, ReportedRing, Between
<1>4. CardAtWork' BY <1>1 DEF CardAtWork
<1>5. rx_ring[rdh] = "free" BY CardsDescriptor
<1>6. rx_at \in {"copy", "clear"} => rx_cur # rdh /\ rx_cur \in RxSlots
  BY <1>5 DEF RxInv, ReportedRing, RxTypeOK
<1>7. WholeFrames'
  <2>1. \A d \in RxSlots : rx_ring'[d] = "done" => rx_bufs'[d] = rx_bufs[d]
    BY <1>1, <1>5
  <2>2. rx_at \in {"copy", "clear"} => rx_bufs'[rx_cur] = rx_bufs[rx_cur] BY <1>1, <1>6
  <2> QED BY <1>1, <2>1, <2>2 DEF RxInv, WholeFrames
<1> QED BY <1>2, <1>3, <1>4, <1>7 DEF RxInv

LEMMA ReportStep ==
    ASSUME RxInv, NEW status \in {"done", "damaged"}, CardReports(status) PROVE RxInv'
<1>1. /\ card.at = "back" /\ rx_ring' = [rx_ring EXCEPT ![rdh] = status]
      /\ rdh' = RxSucc(rdh) /\ card' = CardIdle
      /\ UNCHANGED <<rx_addr, rx_bufs, rdt, rx_cur, rx_copy, rx_at, rx_taken>>
  BY DEF CardReports
<1>2. /\ rdh # rdt /\ card.frame \in Packets
      /\ rx_bufs[rdh].front = card.frame /\ rx_bufs[rdh].back = card.frame
  BY <1>1 DEF RxInv, CardAtWork
<1>3. rdh \in RxSlots /\ RxSucc(rdh) \in RxSlots /\ rx_at \in Looping
      /\ RxSucc(rdh) # rx_cur /\ rx_ring[rdh] = "free"
  BY <1>2, CardsDescriptor, RxGeometry
<1>4. CardIdle \in [at : {"idle", "front", "back"}, frame : Packets \union {NoPacket}]
  BY DEF CardIdle
<1>5. RxTypeOK' BY <1>1, <1>3, <1>4 DEF RxInv, RxTypeOK
<1>6. ArmedRing'
  <2>1. rx_at = "rearm" => RxSucc(RxSucc(rdh)) # rx_cur
    <3>1. SUFFICES ASSUME rx_at = "rearm", RxSucc(RxSucc(rdh)) = rx_cur PROVE FALSE
      OBVIOUS
    <3>2. RxSucc(RxSucc(rdt)) = rx_cur BY <3>1 DEF RxInv, ArmedRing
    <3>3. RxSucc(RxSucc(rdh)) = IF RxSucc(rdh) + 1 = RxSize THEN 0 ELSE RxSucc(rdh) + 1
      BY <1>3, RxSucc1
    <3> QED BY <1>2, <3>1, <3>2, <3>3, RxGeometry, SMTT(30)
  <2> QED BY <1>1, <1>3, <2>1 DEF RxInv, ArmedRing, Looping
<1>7. ReportedRing'
  <2>1. \A d \in RxSlots : Between(d)' <=> Between(d) \/ d = rdh
    BY <1>1, <1>3, RxGeometry DEF Between
  <2>2. \A d \in RxSlots : rx_ring'[d] # "free" <=> rx_ring[d] # "free" \/ d = rdh
    BY <1>1 DEF RxInv, RxTypeOK
  <2>3. \A d \in RxSlots : rx_ring[d] # "free" <=> Between(d) BY DEF RxInv, ReportedRing
  <2>4. \A d \in RxSlots : rx_ring'[d] # "free" <=> Between(d)' BY <2>1, <2>2, <2>3
  <2>5. rx_at \in {"copy", "clear"} => rx_ring'[rx_cur] = "done"
    BY <1>1, <1>3 DEF RxInv, ReportedRing, RxTypeOK
  <2> QED BY <1>1, <2>4, <2>5 DEF ReportedRing
<1>8. CardAtWork' BY <1>1 DEF CardAtWork, CardIdle
<1>9. WholeFrames'
  <2>1. \A d \in RxSlots : rx_ring'[d] = "done" => rx_ring[d] = "done" \/ d = rdh
    BY <1>1 DEF RxInv, RxTypeOK
  <2> QED BY <1>1, <1>2, <2>1 DEF RxInv, WholeFrames
<1> QED BY <1>5, <1>6, <1>7, <1>8, <1>9 DEF RxInv

LEMMA RxInductive == ASSUME RxInv, [RxNext]_rxVars PROVE RxInv'
<1>1. CASE UNCHANGED rxVars
  BY <1>1 DEF rxVars, RxInv, RxTypeOK, ArmedRing, Looping, ReportedRing, Between, CardAtWork,
              CardIdle, WholeFrames
<1>2. CASE Inert \/ NothingYet BY <1>1, <1>2 DEF Inert, NothingYet
<1>3. CASE \E status \in {"done", "damaged"} : CardReports(status) BY <1>3, ReportStep
<1> QED BY <1>1, <1>2, <1>3, BootSteps, CopySteps, TakeSteps, RearmStep, FillSteps
        DEF RxNext, Card, RxPa

LEMMA RxImplies == ASSUME RxInv PROVE RxSafe
<1>1. ASSUME card # CardIdle
      PROVE  rdh \in rx_addr /\ (rx_at \in {"copy", "clear"} => rdh # rx_cur)
  <2>1. rdh # rdt BY <1>1 DEF RxInv, CardAtWork
  <2>2. rdh \in RxSlots /\ rx_at \in Looping /\ rx_ring[rdh] = "free" BY <2>1, CardsDescriptor
  <2> QED BY <2>2 DEF RxInv, ArmedRing, ReportedRing
<1>2. rx_at = "clear" => rx_copy.front = rx_copy.back
  BY DEF RxInv, WholeFrames, ReportedRing, RxTypeOK
<1>4. /\ RxSize \in Nat /\ RxSize > 1
      /\ rx_cur \in 0 .. (RxSize - 1) /\ rdh \in 0 .. (RxSize - 1) /\ rdt \in 0 .. (RxSize - 1)
  BY RxGeometry
<1>3. rx_at \in {"loop", "copy", "clear", "rearm"} =>
          CardsOwn + Waiting = RxSize - IF rx_at = "rearm" THEN 2 ELSE 1
  <2>1. CASE rx_at \in {"loop", "copy", "clear"}
    <3>1. RxSucc(rdt) = rx_cur BY <2>1 DEF RxInv, ArmedRing
    <3>2. rdt = IF rx_cur = 0 THEN RxSize - 1 ELSE rx_cur - 1 BY <3>1, RxGeometry
    <3>3. CardsOwn + Waiting = RxSize - 1 BY <1>4, <3>2, WaitingIs
    <3> QED BY <2>1, <3>3
  <2>2. CASE rx_at = "rearm"
    <3>1. RxSucc(RxSucc(rdt)) = rx_cur /\ RxSucc(rdh) # rx_cur
      BY <2>2 DEF RxInv, ArmedRing
    <3>2. rdt = IF rx_cur = 0 THEN RxSize - 2 ELSE IF rx_cur = 1 THEN RxSize - 1 ELSE rx_cur - 2
      BY <3>1, RxGeometry
    <3>3. ~(rdh = rx_cur - 1) /\ ~(rx_cur = 0 /\ rdh = RxSize - 1) BY <3>1, RxGeometry
    <3>4. CardsOwn + Waiting = RxSize - 2 BY <1>4, <3>2, <3>3, WaitingIs
    <3> QED BY <2>2, <3>4
  <2> QED BY <2>1, <2>2
<1> QED BY <1>1, <1>2, <1>3 DEF RxSafe

\* The registers, descriptors and buffers of the receive ring keep their types (nic_i211.c).
THEOREM RxTypeCorrect == RxSpec => []RxTypeOK
<1>1. RxInv => RxTypeOK BY DEF RxInv
<1> QED BY RxInitially, RxInductive, <1>1, PTL DEF RxSpec

\* The card writes only into buffers it owns, PA copies whole frames out of buffers the card has
\* handed over, and the ring never runs dry, whatever its size (i211_nic_recv, nic_i211.c).
THEOREM ReceptionIsSafe == RxSpec => []RxSafe
BY RxInitially, RxInductive, RxImplies, PTL DEF RxSpec

-------------------------------------------------------------------------------
(* The ring is a FIFO *)

\* What the driver takes from descriptor d, and how many descriptors there are from h up to t.
FrameAt(d)       == IF rx_ring[d] = "done" THEN rx_bufs[d].front ELSE Damaged
RxSpan(h, t)   == IF h <= t THEN t - h ELSE (t - h) + RxSize
RxFrames       == Packets \union {Damaged}

\* Reported is a sequence of that length and those frames.
ReportedIsSeq ==
    /\ Reported \in Seq(RxFrames)
    /\ Len(Reported) = RxSpan(rx_cur, rdh)
    /\ Len(Reported) \in 0 .. (RxSize - 1)
    /\ \A i \in 1 .. Len(Reported) : Reported[i] = FrameAt(RxAfter(rx_cur, i - 1))

LEMMA ReportedIs == RxInv => ReportedIsSeq
<1> SUFFICES ASSUME RxInv PROVE ReportedIsSeq OBVIOUS
<1> DEFINE n == Waiting
<1>1. /\ n = RxSpan(rx_cur, rdh) /\ n \in 0 .. (RxSize - 1)
      /\ rx_cur \in RxSlots
  BY WaitingIs DEF RxSpan, RxInv, RxTypeOK
<1>2. RxSize \in Nat /\ RxSize > 1 BY RxAssumption
<1>3. Reported = [i \in 1 .. n |-> FrameAt((rx_cur + i - 1) % RxSize)]
  BY DEF Reported, FrameAt
<1> HIDE DEF n
<1>4. \A i \in 1 .. n : i \in 1 .. RxSize BY <1>1, <1>2
<1>5. \A i \in 1 .. n : /\ (rx_cur + i - 1) % RxSize = RxAfter(rx_cur, i - 1)
                        /\ RxAfter(rx_cur, i - 1) \in RxSlots
  BY <1>1, <1>4, RxAfterIs
<1>6. \A d \in RxSlots : FrameAt(d) \in RxFrames
  BY DEF FrameAt, RxFrames, RxInv, WholeFrames
<1>7. \A i \in 1 .. n : Reported[i] = FrameAt(RxAfter(rx_cur, i - 1)) /\ Reported[i] \in RxFrames
  BY <1>3, <1>5, <1>6
<1>8. Reported \in [1 .. n -> RxFrames] BY <1>3, <1>7
<1>9. Reported \in Seq(RxFrames) /\ Len(Reported) = n BY <1>1, <1>8
<1> QED BY <1>1, <1>7, <1>9 DEF ReportedIsSeq

LEMMA CursorMoves ==
    ASSUME NEW h \in RxSlots, NEW t \in RxSlots, h # t
    PROVE  /\ RxSpan(h, t) > 0 /\ RxSpan(RxSucc(h), t) = RxSpan(h, t) - 1
           /\ RxAfter(h, 0) = h
           /\ \A i \in 1 .. (RxSpan(h, t) - 1) :
                 RxAfter(RxSucc(h), i - 1) = RxAfter(h, (i + 1) - 1)
<1>1. RxSucc(h) = IF h + 1 = RxSize THEN 0 ELSE h + 1 BY RxSucc1
<1> QED BY <1>1, RxAssumption DEF RxSpan, RxAfter, RxSlots

LEMMA HeadRegisterMoves ==
    ASSUME NEW h \in RxSlots, NEW t \in RxSlots, RxSucc(t) # h
    PROVE  /\ RxSpan(h, t) < RxSize - 1 /\ RxSpan(h, RxSucc(t)) = RxSpan(h, t) + 1
           /\ RxAfter(h, (RxSpan(h, t) + 1) - 1) = t
           /\ \A i \in 1 .. RxSpan(h, t) :
                 RxAfter(h, i - 1) # t /\ RxAfter(h, i - 1) \in RxSlots
<1>1. RxSucc(t) = IF t + 1 = RxSize THEN 0 ELSE t + 1 BY RxSucc1
<1> QED BY <1>1, RxAssumption DEF RxSpan, RxAfter, RxSlots

\* Every descriptor counted from the cursor is reported, so it is not the card's.
LEMMA ReportedApart ==
    ASSUME RxInv, NEW i \in 1 .. RxSpan(rx_cur, rdh)
    PROVE  RxAfter(rx_cur, i - 1) \in RxSlots /\ RxAfter(rx_cur, i - 1) # rdh
<1>1. rx_cur \in RxSlots /\ rdh \in RxSlots BY DEF RxInv, RxTypeOK
<1> QED BY <1>1, RxAssumption DEF RxSpan, RxAfter, RxSlots

\* Clearing the descriptor at the cursor takes the oldest frame.
LEMMA ClearGets ==
    ASSUME RxInv, ReportedIsSeq, ReportedIsSeq', rx_ring[rx_cur] # "free",
           NEW what, Clear(what), what = FrameAt(rx_cur)
    PROVE  Receptions!Get
<1> DEFINE h == rx_cur
<1>1. /\ h \in RxSlots /\ rdh \in RxSlots /\ rx_cur' = RxSucc(h) /\ rx_taken' = FrameAt(h)
      /\ rx_ring' = [rx_ring EXCEPT ![h] = "free"] /\ UNCHANGED <<rdh, rx_bufs>>
      /\ rx_ring \in [RxSlots -> {"free", "done", "damaged"}]
  BY DEF Clear, RxInv, RxTypeOK
<1>2. h # rdh BY RxGeometry DEF RxInv, ReportedRing, Between
<1>3. Len(Reported) > 0 /\ Len(Reported') = Len(Reported) - 1
  BY <1>1, <1>2, CursorMoves DEF ReportedIsSeq
<1>4. Reported # <<>> /\ Head(Reported) = FrameAt(h)
  <2>1. Reported # <<>> /\ 1 \in 1 .. Len(Reported) BY <1>3, EmptySeq DEF ReportedIsSeq
  <2>2. Head(Reported) = Reported[1] BY <2>1, HeadTailProperties DEF ReportedIsSeq
  <2>3. RxAfter(h, 1 - 1) = h BY <1>1, <1>2, CursorMoves
  <2> QED BY <2>1, <2>2, <2>3 DEF ReportedIsSeq
<1>5. /\ Tail(Reported) \in Seq(RxFrames) /\ Len(Tail(Reported)) = Len(Reported) - 1
      /\ \A i \in 1 .. (Len(Reported) - 1) : Tail(Reported)[i] = Reported[i + 1]
  BY <1>4, HeadTailProperties DEF ReportedIsSeq
<1>6. ASSUME NEW i \in 1 .. Len(Reported') PROVE Reported'[i] = Tail(Reported)[i]
  <2>1. i + 1 \in 1 .. Len(Reported) /\ i \in 1 .. (Len(Reported) - 1)
    BY <1>3 DEF ReportedIsSeq
  <2> DEFINE d == RxAfter(h, (i + 1) - 1)
  <2>2. RxAfter(rx_cur', i - 1) = d BY <1>1, <1>2, <2>1, CursorMoves DEF ReportedIsSeq
  <2>3. Reported'[i] = IF rx_ring'[d] = "done" THEN rx_bufs'[d].front ELSE Damaged
    BY <2>2 DEF ReportedIsSeq, FrameAt
  <2>4. Reported[i + 1] = IF rx_ring[d] = "done" THEN rx_bufs[d].front ELSE Damaged
    BY <2>1 DEF ReportedIsSeq, FrameAt
  <2>5. d # h
    <3>1. i \in 1 .. (RxSpan(h, rdh) - 1) BY <2>1 DEF ReportedIsSeq
    <3> QED BY <1>1, <3>1, RxAssumption DEF RxAfter, RxSpan, RxSlots
  <2>6. rx_ring'[d] = rx_ring[d] /\ rx_bufs'[d] = rx_bufs[d]
    <3> HIDE DEF d
    <3> QED BY <1>1, <2>5
  <2> QED BY <1>5, <2>1, <2>3, <2>4, <2>6
<1>7. Reported' = Tail(Reported) BY <1>3, <1>5, <1>6, SeqEqual DEF ReportedIsSeq
<1> QED BY <1>1, <1>4, <1>7 DEF Receptions!Get

\* A frame the card reports is appended.
LEMMA ReportPuts ==
    ASSUME RxInv, ReportedIsSeq, ReportedIsSeq',
           NEW status \in {"done", "damaged"}, CardReports(status)
    PROVE  \E f \in RxFrames : Receptions!Put(f)
<1> DEFINE n == Len(Reported)
           f == IF status = "done" THEN card.frame ELSE Damaged
<1>1. /\ rx_ring' = [rx_ring EXCEPT ![rdh] = status] /\ rdh' = RxSucc(rdh)
      /\ UNCHANGED <<rx_bufs, rx_cur, rx_taken>>
      /\ rdh \in RxSlots /\ rx_cur \in RxSlots /\ n \in Nat
      /\ rx_ring \in [RxSlots -> {"free", "done", "damaged"}]
  BY DEF CardReports, RxInv, RxTypeOK, ReportedIsSeq
<1>2. card.frame \in Packets /\ rx_bufs[rdh].front = card.frame /\ rdh # rdt
  BY DEF CardReports, RxInv, CardAtWork
<1>3. RxSucc(rdh) # rx_cur BY <1>2, CardsDescriptor
<1>4. /\ Len(Reported') = n + 1 /\ n < RxSize - 1
      /\ RxAfter(rx_cur, (n + 1) - 1) = rdh
  BY <1>1, <1>3, HeadRegisterMoves DEF ReportedIsSeq
<1>5. f \in RxFrames BY <1>2 DEF RxFrames
<1>6. rx_ring'[rdh] = status /\ rx_bufs'[rdh].front = card.frame BY <1>1, <1>2
<1> HIDE DEF f
<1>7. /\ Append(Reported, f) \in Seq(RxFrames) /\ Len(Append(Reported, f)) = n + 1
      /\ \A i \in 1 .. n : Append(Reported, f)[i] = Reported[i]
      /\ Append(Reported, f)[n + 1] = f
  BY <1>5, AppendProperties DEF ReportedIsSeq
<1>8. ASSUME NEW i \in 1 .. n PROVE Reported'[i] = Append(Reported, f)[i]
  <2> DEFINE d == RxAfter(rx_cur, i - 1)
  <2>1. d # rdh /\ d \in RxSlots BY ReportedApart DEF ReportedIsSeq
  <2>2. i \in 1 .. Len(Reported') BY <1>1, <1>4
  <2>3. Reported'[i] = IF rx_ring'[d] = "done" THEN rx_bufs'[d].front ELSE Damaged
    BY <1>1, <2>2 DEF ReportedIsSeq, FrameAt
  <2>4. Reported[i] = IF rx_ring[d] = "done" THEN rx_bufs[d].front ELSE Damaged
    BY DEF ReportedIsSeq, FrameAt
  <2> HIDE DEF d
  <2> QED BY <1>1, <1>7, <2>1, <2>3, <2>4
<1>9. Reported'[n + 1] = f
  <2>1. n + 1 \in 1 .. Len(Reported') BY <1>1, <1>4
  <2>2. Reported'[n + 1] = IF rx_ring'[rdh] = "done" THEN rx_bufs'[rdh].front ELSE Damaged
    BY <1>1, <1>4, <2>1 DEF ReportedIsSeq, FrameAt
  <2> QED BY <1>6, <2>2 DEF f
<1>10. \A i \in 1 .. (n + 1) : Reported'[i] = Append(Reported, f)[i]
  BY <1>1, <1>7, <1>8, <1>9
<1>11. Reported' = Append(Reported, f) BY <1>4, <1>7, <1>10, SeqEqual DEF ReportedIsSeq
<1> QED BY <1>1, <1>4, <1>5, <1>11 DEF Receptions!Put

\* Every other step leaves the reported frames alone.
LEMMA RxNextRefines ==
    RxInv /\ RxInv' /\ [RxNext]_rxVars => [Receptions!Next]_(Receptions!vars)
<1> SUFFICES ASSUME RxInv, RxInv', [RxNext]_rxVars
             PROVE  Receptions!Next \/ UNCHANGED <<Reported, rx_taken>>
  BY DEF Receptions!vars
<1>1. ReportedIsSeq /\ ReportedIsSeq'
  <2>1. (RxInv => ReportedIsSeq)' BY ReportedIs, PTL
  <2> QED BY <2>1, ReportedIs
<1>2. ASSUME UNCHANGED <<rx_ring, rx_bufs, rx_cur, rdh, rx_taken>>
      PROVE  UNCHANGED <<Reported, rx_taken>>
  BY <1>2 DEF Reported, Waiting
<1>3. CASE Wire \/ Arm \/ Inert \/ NothingYet \/ CopyFront \/ CopyBack \/ Rearm \/ UNCHANGED rxVars
  BY <1>2, <1>3 DEF Wire, Arm, Inert, NothingYet, CopyFront, CopyBack, Rearm, rxVars
<1>4. CASE TakeFrame
  <2>1. /\ rx_at = "clear" /\ Clear(rx_copy.front) /\ rx_ring[rx_cur] = "done"
        /\ rx_copy.front = FrameAt(rx_cur)
    BY <1>4 DEF TakeFrame, RxInv, ReportedRing, WholeFrames, FrameAt
  <2>2. Receptions!Get BY <1>1, <2>1, ClearGets
  <2> QED BY <2>2 DEF Receptions!Next
<1>5. CASE DropDamaged
  <2>1. Clear(Damaged) /\ rx_ring[rx_cur] = "damaged" /\ Damaged = FrameAt(rx_cur)
    BY <1>5 DEF DropDamaged, FrameAt
  <2>2. Receptions!Get BY <1>1, <2>1, ClearGets
  <2> QED BY <2>2 DEF Receptions!Next
<1>6. CASE \E status \in {"done", "damaged"} : CardReports(status)
  <2>1. \E f \in RxFrames : Receptions!Put(f) BY <1>1, <1>6, ReportPuts
  <2> QED BY <2>1 DEF Receptions!Next, RxFrames
<1>7. CASE (\E f \in Packets : CardBegins(f)) \/ CardGoesOn
  <2>1. /\ UNCHANGED <<rx_ring, rx_cur, rdh, rx_taken>>
        /\ \A d \in RxSlots \ {rdh} : rx_bufs'[d] = rx_bufs[d]
    BY <1>7 DEF CardBegins, CardGoesOn, RxInv, RxTypeOK
  <2>2. /\ Len(Reported') = Len(Reported) /\ Len(Reported) \in Nat
        /\ Len(Reported) = RxSpan(rx_cur, rdh)
    BY <1>1, <2>1 DEF ReportedIsSeq, RxSpan
  <2>3. ASSUME NEW i \in 1 .. Len(Reported) PROVE Reported'[i] = Reported[i]
    <3> DEFINE d == RxAfter(rx_cur, i - 1)
    <3>1. d # rdh /\ d \in RxSlots BY <2>2, ReportedApart
    <3>2. Reported'[i] = IF rx_ring'[d] = "done" THEN rx_bufs'[d].front ELSE Damaged
      BY <1>1, <2>1, <2>2 DEF ReportedIsSeq, FrameAt
    <3>3. Reported[i] = IF rx_ring[d] = "done" THEN rx_bufs[d].front ELSE Damaged
      BY <1>1 DEF ReportedIsSeq, FrameAt
    <3> HIDE DEF d
    <3> QED BY <2>1, <3>1, <3>2, <3>3
  <2>4. Reported' = Reported BY <1>1, <2>2, <2>3, SeqEqual DEF ReportedIsSeq
  <2> QED BY <2>1, <2>4
<1> QED BY <1>3, <1>4, <1>5, <1>6, <1>7 DEF RxNext, Card, RxPa

\* For every ring size and whatever the card receives, good or damaged, PA takes each frame once
\* and in the order the card reported them (i211_nic_recv, nic_i211.c).
THEOREM ReceptionRefinement == RxSpec => ReceptionsFifo
<1>1. RxInit => Receptions!Init
  <2> SUFFICES ASSUME RxInit PROVE Receptions!Init OBVIOUS
  <2>1. ReportedIsSeq BY RxInitially, ReportedIs
  <2>2. Len(Reported) = 0 BY <2>1 DEF RxInit, ReportedIsSeq, RxSpan
  <2>3. Reported = <<>> BY <2>1, <2>2, EmptySeq DEF ReportedIsSeq
  <2> QED BY <2>3 DEF RxInit, Receptions!Init
<1> QED BY <1>1, RxInitially, RxInductive, RxNextRefines, PTL
        DEF RxSpec, Receptions!Spec, ReceptionsFifo

------------------------------------------------------------------------------
(* The transmit ring. *)

\* The slot j places after slot 0, once round at most.
TxPlace(j) == IF j < TxSize THEN j ELSE j - TxSize

LEMMA TxPlaceIs ==
    ASSUME NEW j \in 0 .. (2 * TxSize - 1)
    PROVE  j % TxSize = TxPlace(j) /\ TxPlace(j) \in TxSlots
<1>1. TxSize \in Nat /\ TxSize > 1 /\ j \in Int BY TxAssumption
<1>2. CASE j < TxSize
  <2>1. j % TxSize = j BY <1>1, <1>2, SMTT(20)
  <2> QED BY <1>1, <1>2, <2>1 DEF TxPlace, TxSlots
<1>3. CASE j >= TxSize
  <2> DEFINE r == j - TxSize
  <2>1. r \in 0 .. (TxSize - 1) /\ j = r + TxSize BY <1>1, <1>3
  <2>2. (r + TxSize) % TxSize = r
    <3> HIDE DEF r
    <3> QED BY <1>1, <2>1, SMTT(20)
  <2> QED BY <1>1, <1>3, <2>1, <2>2 DEF TxPlace, TxSlots
<1> QED BY <1>1, <1>2, <1>3

LEMMA TxPredIs ==
    ASSUME NEW x \in TxSlots
    PROVE  TxPred(x) = IF x = 0 THEN TxSize - 1 ELSE x - 1
<1>1. TxSize \in Nat /\ TxSize > 1 /\ x \in 0 .. (TxSize - 1) BY TxAssumption DEF TxSlots
<1>2. CASE x = 0
  <2>1. (-1) % TxSize = TxSize - 1 BY <1>1, SMTT(20)
  <2> QED BY <1>1, <1>2, <2>1 DEF TxPred
<1>3. CASE x # 0
  <2>1. (x - 1) % TxSize = x - 1 BY <1>1, <1>3, SMTT(20)
  <2> QED BY <1>3, <2>1 DEF TxPred
<1> QED BY <1>2, <1>3

\* The slots of the frames from slot h on: each follows the one before, and none comes twice
\* within one round.
TxFrom(h, k) == (h + k - 1) % TxSize

LEMMA TxFromIs ==
    ASSUME NEW h \in TxSlots
    PROVE  /\ \A k \in 1 .. (TxSize + 1) : TxFrom(h, k) = TxPlace(h + k - 1) /\ TxFrom(h, k) \in TxSlots
           /\ TxFrom(h, 1) = h /\ TxFrom(h, TxSize + 1) = h
           /\ \A k \in 1 .. TxSize : TxSucc(TxFrom(h, k)) = TxFrom(h, k + 1)
           /\ \A k \in 1 .. TxSize : TxPred(TxFrom(h, k + 1)) = TxFrom(h, k)
           /\ \A i, k \in 1 .. TxSize : i # k => TxFrom(h, i) # TxFrom(h, k)
           /\ TxSucc(h) \in TxSlots /\ TxSucc(h) = TxPlace(h + 1)
           /\ \A k \in 1 .. TxSize : TxFrom(TxSucc(h), k) = TxFrom(h, k + 1)
<1>1. TxSize \in Nat /\ TxSize > 1 /\ h \in 0 .. (TxSize - 1) BY TxAssumption DEF TxSlots
<1>2. ASSUME NEW k \in 1 .. (TxSize + 1)
      PROVE  TxFrom(h, k) = TxPlace(h + k - 1) /\ TxFrom(h, k) \in TxSlots
  <2>1. h + k - 1 \in 0 .. (2 * TxSize - 1) BY <1>1
  <2> QED BY <2>1, TxPlaceIs DEF TxFrom
<1>3. TxFrom(h, 1) = h /\ TxFrom(h, TxSize + 1) = h
  BY <1>1, <1>2 DEF TxPlace
<1>4. ASSUME NEW x \in TxSlots PROVE TxSucc(x) = TxPlace(x + 1) /\ TxSucc(x) \in TxSlots
  <2>1. x + 1 \in 0 .. (2 * TxSize - 1) BY <1>1 DEF TxSlots
  <2> QED BY <2>1, TxPlaceIs DEF TxSucc
<1>5. ASSUME NEW k \in 1 .. TxSize
      PROVE  /\ TxSucc(TxFrom(h, k)) = TxFrom(h, k + 1)
             /\ TxPred(TxFrom(h, k + 1)) = TxFrom(h, k)
  <2>1. k \in 1 .. (TxSize + 1) /\ k + 1 \in 1 .. (TxSize + 1) BY <1>1
  <2>2. /\ TxFrom(h, k) = TxPlace(h + k - 1) /\ TxFrom(h, k) \in TxSlots
        /\ TxFrom(h, k + 1) = TxPlace(h + (k + 1) - 1) /\ TxFrom(h, k + 1) \in TxSlots
    BY <1>2, <2>1
  <2>3. TxSucc(TxFrom(h, k)) = TxPlace(TxFrom(h, k) + 1) BY <1>4, <2>2
  <2>4. TxPred(TxFrom(h, k + 1)) = IF TxFrom(h, k + 1) = 0 THEN TxSize - 1 ELSE TxFrom(h, k + 1) - 1
    BY <2>2, TxPredIs
  <2> QED BY <1>1, <2>2, <2>3, <2>4 DEF TxPlace
<1>6. ASSUME NEW i \in 1 .. TxSize, NEW k \in 1 .. TxSize, i # k
      PROVE  TxFrom(h, i) # TxFrom(h, k)
  <2>1. i \in 1 .. (TxSize + 1) /\ k \in 1 .. (TxSize + 1) BY <1>1
  <2>2. TxFrom(h, i) = TxPlace(h + i - 1) /\ TxFrom(h, k) = TxPlace(h + k - 1) BY <1>2, <2>1
  <2> QED BY <1>1, <1>6, <2>2 DEF TxPlace
<1>7. TxSucc(h) \in TxSlots /\ TxSucc(h) = TxPlace(h + 1) BY <1>4
<1>8. ASSUME NEW k \in 1 .. TxSize PROVE TxFrom(TxSucc(h), k) = TxFrom(h, k + 1)
  <2>1. TxSucc(h) \in 0 .. (TxSize - 1) BY <1>7 DEF TxSlots
  <2>2. TxSucc(h) + k - 1 \in 0 .. (2 * TxSize - 1) BY <1>1, <2>1
  <2>3. TxFrom(TxSucc(h), k) = TxPlace(TxSucc(h) + k - 1) BY <2>2, TxPlaceIs DEF TxFrom
  <2>4. k + 1 \in 1 .. (TxSize + 1) /\ h + (k + 1) - 1 = h + k BY <1>1
  <2>5. TxFrom(h, k + 1) = TxPlace(h + k) BY <1>2, <2>4
  <2> QED BY <1>1, <1>7, <2>3, <2>5 DEF TxPlace
<1> QED BY <1>2, <1>3, <1>5, <1>6, <1>7, <1>8

LEMMA PartsOf ==
    ASSUME NEW f \in TxFrames
    PROVE  Parts(f) \in 1 .. 2 /\ f.no \in 0 .. (TxNumbers - 1)
BY DEF Parts, TxFrames

\* What lies between head and tail are the descriptors of the frames that have not left.
Handed ==
    /\ tdt = TxFrom(tdh, Len(due) + 1)
    /\ \A k \in 1 .. Len(due) : tx_len[TxFrom(tdh, k)] = Parts(due[k].frame)

\* The cursor is at the tail, but for the doorbell.
AtTail ==
    /\ tx_at # "bell" => tx_head = tdt
    /\ tx_at = "bell" => tx_head = TxSucc(tdt) /\ tx_len[tdt] = Parts(tx_frame)

\* Only the frame sent last can have the buffer, and only until the next is copied.
OwnLast ==
    \A k \in 1 .. Len(due) : due[k].own =>
        k = Len(due) /\ due[k].frame = tx_frame /\ tx_at \in {"boot", "poll", "loop"}

\* What has been copied into the buffer is of the frame being sent.
BufferFilled ==
    /\ tx_at = "copy" => tx_buf[1] = tx_frame
    /\ tx_at # "copy" /\ hellos > 0 => \A i \in 1 .. Parts(tx_frame) : tx_buf[i] = tx_frame

\* What the card has read of a frame that has the buffer is of that frame.
HeadRead ==
    due # <<>> /\ due[1].own =>
        /\ Len(fetched) <= Parts(due[1].frame)
        /\ \A i \in 1 .. Len(fetched) : fetched[i] = due[1].frame

\* A descriptor just filled is not done before it is sent.
DoneTrue ==
    /\ tx_at = "bell" => tdt \notin tx_done
    /\ tx_at = "poll" /\ due # <<>> => TxPred(tx_head) \notin tx_done

\* The boot burst comes first.
HelloFirst == tx_at # "boot" \/ due # <<>> => hellos > 0

TxInv ==
    /\ TxTypeOK /\ HelloFirst /\ Handed /\ AtTail /\ OwnLast /\ BufferFilled /\ HeadRead /\ DoneTrue

LEMMA TxInitially == TxInit => TxInv
<1> SUFFICES ASSUME TxInit PROVE TxInv OBVIOUS
<1>1. 0 \in TxSlots /\ NoFrameYet \in TxFrames
  BY TxAssumption DEF TxSlots, NoFrameYet, TxFrames
<1>2. /\ Len(<<>>) = 0 /\ <<>> \in Seq(TxFrames) /\ <<>> \in Seq(TxHanded) /\ 1 .. 0 = {}
  BY EmptySeq
<1>3. TxTypeOK
  <2>1. /\ tx_len = [i \in TxSlots |-> 0] /\ tx_done = {} /\ tx_buf = [i \in 1 .. 2 |-> NoFrameYet]
        /\ tx_head = 0 /\ tdh = 0 /\ tdt = 0 /\ fetched = <<>>
        /\ tx_at = "boot" /\ tx_frame = NoFrameYet /\ hellos = 0
        /\ any_dd = FALSE /\ net_ready = FALSE /\ due = <<>>
    BY DEF TxInit
  <2>2. /\ tx_len \in [TxSlots -> 0 .. 2] /\ tx_buf \in [1 .. 2 -> TxFrames] BY <1>1, <2>1
  <2>3. 0 \in 0 .. Hellos /\ 0 < TxSize BY TxAssumption
  <2> QED BY <1>1, <1>2, <2>1, <2>2, <2>3 DEF TxTypeOK
<1>4. Handed
  <2>1. TxFrom(0, 1) = 0 BY <1>1, TxFromIs
  <2> QED BY <1>2, <2>1 DEF TxInit, Handed
<1>5. AtTail /\ OwnLast /\ BufferFilled /\ HeadRead /\ DoneTrue /\ HelloFirst
  BY <1>2 DEF TxInit, AtTail, OwnLast, BufferFilled, HeadRead, DoneTrue, HelloFirst
<1> QED BY <1>3, <1>4, <1>5 DEF TxInv

LEMMA DisownedIs ==
    ASSUME NEW s \in Seq(TxHanded)
    PROVE  /\ Disowned(s) \in Seq(TxHanded) /\ Len(Disowned(s)) = Len(s)
           /\ \A k \in 1 .. Len(s) : Disowned(s)[k].frame = s[k].frame /\ ~Disowned(s)[k].own
<1> DEFINE t == Disowned(s)
<1>1. Len(s) \in Nat /\ DOMAIN s = 1 .. Len(s) /\ \A k \in 1 .. Len(s) : s[k] \in TxHanded
  OBVIOUS
<1>2. t = [k \in 1 .. Len(s) |-> [s[k] EXCEPT !.own = FALSE]] BY <1>1 DEF Disowned
<1>3. ASSUME NEW k \in 1 .. Len(s) PROVE t[k] \in TxHanded /\ ~t[k].own /\ t[k].frame = s[k].frame
  <2>1. t[k] = [s[k] EXCEPT !.own = FALSE] /\ s[k] \in TxHanded BY <1>1, <1>2
  <2> HIDE DEF t
  <2> QED BY <2>1 DEF TxHanded
<1> HIDE DEF t
<1>4. DOMAIN t = 1 .. Len(s) /\ t \in [1 .. Len(s) -> TxHanded] BY <1>2, <1>3
<1>5. t \in Seq(TxHanded) BY <1>1, <1>4
<1>6. Len(t) = Len(s) BY <1>1, <1>4, <1>5
<1> QED BY <1>3, <1>5, <1>6 DEF t

LEMMA SendCopyKeeps ==
    ASSUME TxInv, NEW what \in {"hello", "telemetry", "reply"}, SendCopy(what),
           tx_at \in {"boot", "loop"}, hellos' \in 0 .. Hellos, hellos' > 0
    PROVE  TxInv'
<1> DEFINE f == [kind |-> what, no |-> (tx_frame.no + 1) % TxNumbers]
<1>1. /\ tx_frame' = f /\ tx_buf' = [tx_buf EXCEPT ![1] = f] /\ tx_at' = "copy"
      /\ due' = Disowned(due)
      /\ UNCHANGED <<tx_len, tx_done, tx_head, tdt, tdh, fetched, any_dd, net_ready>>
  BY DEF SendCopy, txCard
<1>2. f \in TxFrames
  <2>1. tx_frame.no + 1 \in Int /\ TxNumbers \in Nat \ {0}
    BY TxAssumption, PartsOf DEF TxInv, TxTypeOK
  <2>2. (tx_frame.no + 1) % TxNumbers \in 0 .. (TxNumbers - 1)
    <3> DEFINE n == tx_frame.no + 1
    <3>1. n \in Int BY <2>1
    <3> HIDE DEF n
    <3>2. n % TxNumbers \in 0 .. (TxNumbers - 1) BY <2>1, <3>1, SMTT(20)
    <3> QED BY <3>2 DEF n
  <2> QED BY <2>2 DEF TxFrames
<1> HIDE DEF f
<1>3. /\ due' \in Seq(TxHanded) /\ Len(due') = Len(due)
      /\ \A k \in 1 .. Len(due) : due'[k].frame = due[k].frame /\ ~due'[k].own
  BY <1>1, DisownedIs DEF TxInv, TxTypeOK
<1>4. TxTypeOK' BY <1>1, <1>2, <1>3 DEF TxInv, TxTypeOK
<1>5. Handed' BY <1>1, <1>3 DEF TxInv, Handed
<1>6. AtTail' /\ DoneTrue' /\ HelloFirst' BY <1>1 DEF TxInv, AtTail, DoneTrue, HelloFirst
<1>7. OwnLast' BY <1>3 DEF OwnLast
<1>8. HeadRead'
  <2>1. due' # <<>> => 1 \in 1 .. Len(due) BY <1>3
  <2> QED BY <1>3, <2>1 DEF HeadRead
<1>9. BufferFilled' BY <1>1 DEF TxInv, TxTypeOK, BufferFilled
<1> QED BY <1>4, <1>5, <1>6, <1>7, <1>8, <1>9 DEF TxInv

LEMMA CallKeeps == ASSUME TxInv, SendHello \/ SendFromLoop PROVE TxInv'
<1>1. CASE SendHello
  <2>1. /\ tx_at = "boot" /\ SendCopy("hello") /\ hellos' = hellos + 1 /\ hellos < Hellos
    BY <1>1 DEF SendHello
  <2>2. hellos' \in 0 .. Hellos /\ hellos' > 0
    BY <2>1, TxAssumption DEF TxInv, TxTypeOK
  <2> QED BY <2>1, <2>2, SendCopyKeeps
<1>2. CASE SendFromLoop
  <2>1. PICK what \in {"telemetry", "reply"} : SendCopy(what) BY <1>2 DEF SendFromLoop
  <2>2. tx_at = "loop" /\ hellos' = hellos BY <1>2 DEF SendFromLoop
  <2>3. hellos' \in 0 .. Hellos /\ hellos' > 0 BY <2>2 DEF TxInv, TxTypeOK, HelloFirst
  <2> QED BY <2>1, <2>2, <2>3, SendCopyKeeps
<1> QED BY <1>1, <1>2

LEMMA CopyRestKeeps == ASSUME TxInv, SendCopyRest PROVE TxInv'
<1>1. /\ tx_at = "copy" /\ tx_at' = "fill"
      /\ tx_buf' = IF Parts(tx_frame) = 2 THEN [tx_buf EXCEPT ![2] = tx_frame] ELSE tx_buf
      /\ UNCHANGED <<tx_len, tx_done, tx_head, tdt, tdh, fetched, tx_frame, hellos, any_dd,
                     net_ready, due>>
  BY DEF SendCopyRest, txCard, txBoot
<1>2. Parts(tx_frame) \in 1 .. 2 /\ tx_frame \in TxFrames /\ tx_buf \in [1 .. 2 -> TxFrames]
  BY PartsOf DEF TxInv, TxTypeOK
<1>3. tx_buf' \in [1 .. 2 -> TxFrames] BY <1>1, <1>2
<1>4. TxTypeOK' /\ HelloFirst' BY <1>1, <1>3 DEF TxInv, TxTypeOK, HelloFirst
<1>5. Handed' /\ AtTail' /\ OwnLast' /\ HeadRead' /\ DoneTrue'
  BY <1>1 DEF TxInv, Handed, AtTail, OwnLast, HeadRead, DoneTrue
<1>6. BufferFilled'
  <2>1. tx_buf[1] = tx_frame BY <1>1 DEF TxInv, BufferFilled
  <2>2. \A i \in 1 .. Parts(tx_frame) : tx_buf'[i] = tx_frame BY <1>1, <1>2, <2>1
  <2> QED BY <1>1, <2>2 DEF BufferFilled
<1> QED BY <1>4, <1>5, <1>6 DEF TxInv

LEMMA FillKeeps == ASSUME TxInv, Fill PROVE TxInv'
<1>1. /\ tx_at = "fill" /\ tx_at' = "bell"
      /\ tx_len' = [tx_len EXCEPT ![tx_head] = Parts(tx_frame)]
      /\ tx_done' = tx_done \ {tx_head} /\ tx_head' = TxSucc(tx_head)
      /\ UNCHANGED <<tx_buf, tdt, tdh, fetched, tx_frame, hellos, any_dd, net_ready, due>>
  BY DEF Fill, txCard, txBoot
<1>2. /\ Parts(tx_frame) \in 0 .. 2 /\ TxSucc(tx_head) \in TxSlots /\ tx_head \in TxSlots
      /\ tx_len \in [TxSlots -> 0 .. 2]
  BY PartsOf, TxFromIs DEF TxInv, TxTypeOK
<1>3. TxTypeOK' /\ HelloFirst' BY <1>1, <1>2 DEF TxInv, TxTypeOK, HelloFirst
<1>4. tx_head = tdt BY <1>1 DEF TxInv, AtTail
<1>5. Handed'
  <2>1. /\ tdh \in TxSlots /\ Len(due) \in Nat /\ Len(due) < TxSize /\ TxSize \in Nat
        /\ tdt = TxFrom(tdh, Len(due) + 1)
        /\ \A k \in 1 .. Len(due) : tx_len[TxFrom(tdh, k)] = Parts(due[k].frame)
    BY TxAssumption DEF TxInv, TxTypeOK, Handed
  <2>2. ASSUME NEW k \in 1 .. Len(due) PROVE tx_len'[TxFrom(tdh, k)] = Parts(due[k].frame)
    <3>1. k \in 1 .. TxSize /\ Len(due) + 1 \in 1 .. TxSize /\ k # Len(due) + 1 BY <2>1
    <3>2. TxFrom(tdh, k) # tx_head BY <1>4, <2>1, <3>1, TxFromIs
    <3>3. k \in 1 .. (TxSize + 1) BY <2>1, <3>1
    <3>4. TxFrom(tdh, k) \in TxSlots BY <2>1, <3>3, TxFromIs
    <3> QED BY <1>1, <1>2, <2>1, <3>2, <3>4
  <2> QED BY <1>1, <2>1, <2>2 DEF Handed
<1>6. AtTail' /\ DoneTrue' BY <1>1, <1>2, <1>4 DEF AtTail, DoneTrue
<1>7. OwnLast' /\ HeadRead' /\ BufferFilled'
  BY <1>1 DEF TxInv, OwnLast, HeadRead, BufferFilled
<1> QED BY <1>3, <1>5, <1>6, <1>7 DEF TxInv

LEMMA DoorbellKeeps == ASSUME TxInv, Doorbell PROVE TxInv'
<1> DEFINE e == [frame |-> tx_frame, own |-> due # <<>> \/ fetched = <<>>]
<1>1. /\ tx_at = "bell" /\ tx_at' \in {"poll", "loop"} /\ tdt' = tx_head
      /\ due' = IF tx_head = tdh THEN <<>> ELSE Append(due, e)
      /\ UNCHANGED <<tx_len, tx_done, tx_buf, tx_head, tdh, fetched, tx_frame, hellos, any_dd,
                     net_ready>>
  BY DEF Doorbell, txCard, txBoot
<1>2. e \in TxHanded /\ e.frame = tx_frame /\ e.own = (due # <<>> \/ fetched = <<>>)
  BY DEF TxInv, TxTypeOK, TxHanded
<1> HIDE DEF e
<1>3. /\ tdh \in TxSlots /\ due \in Seq(TxHanded) /\ Len(due) \in Nat /\ Len(due) < TxSize /\ TxSize \in Nat
      /\ tdt = TxFrom(tdh, Len(due) + 1) /\ tx_head = TxSucc(tdt) /\ tx_len[tdt] = Parts(tx_frame)
      /\ \A k \in 1 .. Len(due) : tx_len[TxFrom(tdh, k)] = Parts(due[k].frame)
      /\ \A k \in 1 .. Len(due) : ~due[k].own
      /\ tdt \notin tx_done
  BY <1>1, TxAssumption DEF TxInv, TxTypeOK, Handed, AtTail, OwnLast, DoneTrue
<1>4. Len(due) + 1 \in 1 .. TxSize BY <1>3
<1>5. /\ tx_head = TxFrom(tdh, Len(due) + 2) /\ TxPred(tx_head) = tdt /\ TxFrom(tdh, 1) = tdh
  <2>1. (Len(due) + 1) + 1 = Len(due) + 2 BY <1>3
  <2> QED BY <1>3, <1>4, <2>1, TxFromIs
<1>6. BufferFilled' /\ HelloFirst' /\ AtTail'
  BY <1>1 DEF TxInv, BufferFilled, HelloFirst, AtTail
<1>7. DoneTrue' BY <1>1, <1>3, <1>5 DEF DoneTrue
<1>8. CASE tx_head = tdh
  <2>1. due' = <<>> /\ Len(due') = 0 /\ due' \in Seq(TxHanded) /\ 1 .. 0 = {} BY <1>1, <1>8, EmptySeq
  <2>2. 0 < TxSize BY <1>3
  <2>3. TxTypeOK' BY <1>1, <2>1, <2>2 DEF TxInv, TxTypeOK
  <2>4. Handed' /\ OwnLast' /\ HeadRead'
    BY <1>1, <1>5, <1>8, <2>1 DEF Handed, OwnLast, HeadRead
  <2> QED BY <1>6, <1>7, <2>3, <2>4 DEF TxInv
<1>9. CASE tx_head # tdh
  <2>1. /\ due' \in Seq(TxHanded) /\ Len(due') = Len(due) + 1 /\ due'[Len(due) + 1] = e
        /\ \A k \in 1 .. Len(due) : due'[k] = due[k]
    BY <1>1, <1>2, <1>3, <1>9, AppendProperties
  <2>2. Len(due') < TxSize
    <3>1. Len(due) + 1 # TxSize
      <4>1. TxFrom(tdh, TxSize + 1) = tdh BY <1>3, TxFromIs
      <4>2. Len(due) + 1 = TxSize => Len(due) + 2 = TxSize + 1 BY <1>3
      <4> QED BY <1>5, <1>9, <4>1, <4>2
    <3> QED BY <1>3, <2>1, <3>1
  <2>3. TxTypeOK' BY <1>1, <2>1, <2>2 DEF TxInv, TxTypeOK
  <2>4. \A k \in 1 .. Len(due') : k = Len(due) + 1 \/ k \in 1 .. Len(due) BY <1>3, <2>1
  <2>5. Handed'
    <3>1. Len(due') + 1 = Len(due) + 2 BY <1>3, <2>1
    <3>2. \A k \in 1 .. Len(due') : tx_len[TxFrom(tdh, k)] = Parts(due'[k].frame)
      BY <1>2, <1>3, <2>1, <2>4
    <3> QED BY <1>1, <1>5, <3>1, <3>2 DEF Handed
  <2>6. OwnLast' BY <1>1, <1>2, <1>3, <2>1, <2>4 DEF OwnLast
  <2>7. HeadRead'
    <3>1. CASE due = <<>>
      <4>1. Len(due) = 0 BY <3>1, EmptySeq
      <4>2. due'[1] = e BY <1>3, <2>1, <4>1
      <4>5. e.own => fetched = <<>> BY <1>2, <3>1, Zenon
      <4>3. Parts(tx_frame) \in 1 .. 2 BY PartsOf DEF TxInv, TxTypeOK
      <4>4. fetched = <<>> => Len(fetched) = 0 BY EmptySeq
      <4> QED BY <1>1, <1>2, <4>2, <4>3, <4>4, <4>5 DEF HeadRead
    <3>2. CASE due # <<>>
      <4>1. 1 \in 1 .. Len(due) BY <1>3, <3>2
      <4> QED BY <1>3, <2>1, <4>1 DEF HeadRead
    <3> QED BY <3>1, <3>2
  <2> QED BY <1>6, <1>7, <2>3, <2>5, <2>6, <2>7 DEF TxInv
<1> QED BY <1>8, <1>9

LEMMA BootKeeps == ASSUME TxInv, PollDone \/ BurstOver PROVE TxInv'
<1>1. /\ UNCHANGED <<tx_len, tx_done, tx_buf, tx_head, tdt, tdh, fetched, tx_frame, hellos, due>>
      /\ any_dd' \in BOOLEAN /\ net_ready' \in BOOLEAN
  BY DEF PollDone, BurstOver, txCard, TxInv, TxTypeOK
<1>2. tx_at \in {"poll", "boot"} /\ tx_at' \in {"boot", "loop"}
  BY DEF PollDone, BurstOver
<1>3. tx_at' = "loop" => hellos > 0
  BY TxAssumption DEF PollDone, BurstOver
<1>4. TxTypeOK' /\ HelloFirst' BY <1>1, <1>2, <1>3 DEF TxInv, TxTypeOK, HelloFirst
<1>5. Handed' /\ AtTail' /\ OwnLast' /\ BufferFilled' /\ HeadRead' /\ DoneTrue'
  BY <1>1, <1>2 DEF TxInv, Handed, AtTail, OwnLast, BufferFilled, HeadRead, DoneTrue
<1> QED BY <1>4, <1>5 DEF TxInv

LEMMA FetchKeeps == ASSUME TxInv, Fetch PROVE TxInv'
<1>1. /\ tdh # tdt /\ Len(fetched) < tx_len[tdh]
      /\ fetched' = Append(fetched, tx_buf[Len(fetched) + 1])
      /\ UNCHANGED <<tx_len, tx_done, tx_buf, tx_head, tdt, tdh, tx_at, tx_frame, hellos,
                     any_dd, net_ready, due>>
  BY DEF Fetch, txBoot
<1> DEFINE n == Len(fetched)
           x == tx_buf[n + 1]
<1>2. n \in Nat /\ tx_len[tdh] \in 0 .. 2 /\ n < tx_len[tdh]
  BY <1>1, LenProperties DEF TxInv, TxTypeOK
<1>3. n + 1 \in 1 .. 2 /\ x \in TxFrames BY <1>2 DEF TxInv, TxTypeOK
<1>4. /\ Append(fetched, x) \in Seq(TxFrames) /\ Len(Append(fetched, x)) = n + 1
      /\ \A i \in 1 .. n : Append(fetched, x)[i] = fetched[i]
      /\ Append(fetched, x)[n + 1] = x
  BY <1>3, AppendProperties DEF TxInv, TxTypeOK
<1>5. fetched' = Append(fetched, x) BY <1>1
<1>6. TxTypeOK' /\ HelloFirst'
  BY <1>1, <1>3, <1>4, <1>5 DEF TxInv, TxTypeOK, HelloFirst
<1>7. Handed' /\ AtTail' /\ OwnLast' /\ BufferFilled' /\ DoneTrue'
  BY <1>1 DEF TxInv, Handed, AtTail, OwnLast, BufferFilled, DoneTrue
<1>8. HeadRead'
  <2> SUFFICES ASSUME due # <<>>, due[1].own
               PROVE  /\ Len(fetched') <= Parts(due[1].frame)
                      /\ \A i \in 1 .. Len(fetched') : fetched'[i] = due[1].frame
    BY <1>1 DEF HeadRead
  <2>1. 1 \in 1 .. Len(due) /\ Len(due) \in Nat /\ due[1] \in TxHanded
    BY DEF TxInv, TxTypeOK
  <2>2. due[1].frame = tx_frame /\ tx_at \in {"boot", "poll", "loop"} /\ due[1].frame \in TxFrames
    BY <2>1 DEF TxInv, OwnLast, TxHanded
  <2>3. tx_len[tdh] = Parts(tx_frame) /\ Parts(tx_frame) \in 1 .. 2
    <3>1. TxFrom(tdh, 1) = tdh BY TxFromIs DEF TxInv, TxTypeOK
    <3> QED BY <2>1, <2>2, <3>1, PartsOf DEF TxInv, Handed
  <2>4. hellos > 0 BY DEF TxInv, HelloFirst
  <2>5. x = tx_frame BY <1>2, <2>2, <2>3, <2>4 DEF TxInv, BufferFilled
  <2>6. \A i \in 1 .. n : fetched[i] = tx_frame BY <2>2 DEF TxInv, HeadRead
  <2> QED BY <1>2, <1>4, <1>5, <2>2, <2>3, <2>5, <2>6
<1> QED BY <1>6, <1>7, <1>8 DEF TxInv

LEMMA TransmitKeeps == ASSUME TxInv, Transmit PROVE TxInv'
<1> DEFINE h == TxSucc(tdh)
           n == Len(due)
<1>1. /\ tdh # tdt /\ fetched' = <<>> /\ tx_done' = tx_done \union {tdh} /\ tdh' = h
      /\ due' = Tail(due)
      /\ UNCHANGED <<tx_len, tx_buf, tx_head, tdt, tx_at, tx_frame, hellos, any_dd, net_ready>>
  BY DEF Transmit, txBoot
<1>2. /\ tdh \in TxSlots /\ due \in Seq(TxHanded) /\ n \in Nat /\ n < TxSize /\ TxSize \in Nat
      /\ tdt = TxFrom(tdh, n + 1)
      /\ \A k \in 1 .. n : tx_len[TxFrom(tdh, k)] = Parts(due[k].frame)
  BY TxAssumption DEF TxInv, TxTypeOK, Handed
<1>3. TxFrom(tdh, 1) = tdh /\ h \in TxSlots BY <1>2, TxFromIs
<1>4. due # <<>> /\ n >= 1
  <2>1. n # 0 BY <1>1, <1>2, <1>3
  <2>2. due = <<>> => n = 0 BY EmptySeq
  <2> QED BY <1>2, <2>1, <2>2
<1>5. /\ due' \in Seq(TxHanded) /\ Len(due') = n - 1
      /\ \A k \in 1 .. (n - 1) : due'[k] = due[k + 1]
  BY <1>1, <1>2, <1>4, HeadTailProperties
<1>6. \A k \in 1 .. n : TxFrom(h, k) = TxFrom(tdh, k + 1)
  <2>1. \A k \in 1 .. n : k \in 1 .. TxSize BY <1>2
  <2> QED BY <1>2, <2>1, TxFromIs
<1> HIDE DEF h, n
<1>7. TxTypeOK' /\ HelloFirst'
  <2>1. Len(<<>>) = 0 /\ <<>> \in Seq(TxFrames) BY EmptySeq
  <2>2. Len(due') < TxSize BY <1>2, <1>5
  <2>3. tx_done' \subseteq TxSlots BY <1>1, <1>2 DEF TxInv, TxTypeOK
  <2>4. TxTypeOK' BY <1>1, <1>3, <1>5, <2>1, <2>2, <2>3 DEF TxInv, TxTypeOK
  <2> QED BY <1>1, <1>4, <2>4 DEF TxInv, HelloFirst
<1>8. Handed'
  <2>1. tdt' = TxFrom(h, Len(due') + 1)
    <3>1. Len(due') + 1 = n /\ n \in 1 .. n BY <1>2, <1>4, <1>5
    <3> QED BY <1>1, <1>2, <1>6, <3>1
  <2>2. ASSUME NEW k \in 1 .. Len(due') PROVE tx_len'[TxFrom(h, k)] = Parts(due'[k].frame)
    <3>1. k \in 1 .. (n - 1) /\ k \in 1 .. n /\ k + 1 \in 1 .. n BY <1>2, <1>5, <2>2
    <3> QED BY <1>1, <1>2, <1>5, <1>6, <3>1
  <2> QED BY <1>1, <2>1, <2>2 DEF Handed
<1>9. AtTail' /\ BufferFilled' BY <1>1 DEF TxInv, AtTail, BufferFilled
<1>10. OwnLast'
  <2> SUFFICES ASSUME NEW k \in 1 .. Len(due'), due'[k].own
               PROVE  /\ k = Len(due') /\ due'[k].frame = tx_frame
                      /\ tx_at \in {"boot", "poll", "loop"}
    BY <1>1 DEF OwnLast
  <2>1. k \in 1 .. (n - 1) /\ k + 1 \in 1 .. n BY <1>2, <1>5
  <2>2. k + 1 = n /\ due[k + 1].frame = tx_frame /\ tx_at \in {"boot", "poll", "loop"}
    BY <1>5, <2>1 DEF TxInv, OwnLast, n
  <2> QED BY <1>2, <1>5, <2>1, <2>2
<1>11. HeadRead'
  <2> SUFFICES ASSUME due' # <<>>, due'[1].own
               PROVE  /\ Len(fetched') <= Parts(due'[1].frame)
                      /\ \A i \in 1 .. Len(fetched') : fetched'[i] = due'[1].frame
    BY DEF HeadRead
  <2>1. Len(fetched') = 0 /\ 1 .. 0 = {} BY <1>1, EmptySeq
  <2>2. 1 \in 1 .. Len(due') BY <1>5
  <2>3. due'[1] \in TxHanded BY <1>5, <2>2
  <2>4. due'[1].frame \in TxFrames BY <2>3 DEF TxHanded
  <2> QED BY <2>1, <2>4, PartsOf
<1>12. DoneTrue'
  <2>1. tx_at = "bell" => tdt' \notin tx_done' BY <1>1 DEF TxInv, DoneTrue
  <2>2. ASSUME tx_at = "poll", due' # <<>> PROVE TxPred(tx_head) \notin tx_done'
    <3>1. Len(due') # 0 BY <1>5, <2>2, EmptySeq
    <3>2. n >= 2 BY <1>2, <1>4, <1>5, <3>1
    <3>3. tx_head = TxFrom(tdh, n + 1) /\ n \in 1 .. TxSize /\ 1 \in 1 .. TxSize
      BY <1>2, <1>4, <2>2 DEF TxInv, AtTail
    <3>4. TxPred(tx_head) = TxFrom(tdh, n) BY <1>2, <3>3, TxFromIs
    <3>5. TxFrom(tdh, n) # TxFrom(tdh, 1) BY <1>2, <3>2, <3>3, TxFromIs
    <3>6. TxPred(tx_head) \notin tx_done BY <1>4, <2>2 DEF TxInv, DoneTrue
    <3> QED BY <1>1, <1>3, <3>4, <3>5, <3>6
  <2> QED BY <1>1, <2>1, <2>2 DEF DoneTrue
<1> QED BY <1>7, <1>8, <1>9, <1>10, <1>11, <1>12 DEF TxInv

LEMMA TxInductive == ASSUME TxInv, [TxNext]_txVars PROVE TxInv'
<1>1. CASE UNCHANGED txVars
  BY <1>1 DEF txVars, txCard, txBoot, TxInv, TxTypeOK, HelloFirst, Handed, AtTail, OwnLast,
              BufferFilled, HeadRead, DoneTrue
<1>2. CASE Mute BY <1>1, <1>2 DEF Mute
<1> QED BY <1>1, <1>2, CallKeeps, CopyRestKeeps, FillKeeps, DoorbellKeeps, BootKeeps, FetchKeeps,
           TransmitKeeps DEF TxNext, TxPa, TxCard

LEMMA TxImplies == ASSUME TxInv PROVE SentWhole
<1>1. \A k \in Nat : TxSlot(k) = TxFrom(tdh, k) BY DEF TxSlot, TxFrom
<1>2. Len(due) \in Nat BY DEF TxInv, TxTypeOK
<1>3. /\ tdt = TxSlot(Len(due) + 1)
      /\ \A k \in 1 .. Len(due) : tx_len[TxSlot(k)] = Parts(due[k].frame)
  BY <1>1, <1>2 DEF TxInv, Handed
<1>4. ASSUME due # <<>>, due[1].own, Len(fetched) >= tx_len[tdh]
      PROVE  fetched = Whole(due[1].frame)
  <2> DEFINE f == due[1].frame
  <2>1. 1 \in 1 .. Len(due) /\ due[1] \in TxHanded BY <1>2, <1>4 DEF TxInv, TxTypeOK
  <2>2. f \in TxFrames /\ Parts(f) \in 1 .. 2 BY <2>1, PartsOf DEF TxHanded
  <2>3. tx_len[tdh] = Parts(f)
    <3>1. TxFrom(tdh, 1) = tdh BY TxFromIs DEF TxInv, TxTypeOK
    <3> QED BY <2>1, <3>1 DEF TxInv, Handed
  <2>4. Len(fetched) \in Nat /\ Len(fetched) <= Parts(f)
        /\ \A i \in 1 .. Len(fetched) : fetched[i] = f
    BY <1>4, LenProperties DEF TxInv, TxTypeOK, HeadRead
  <2> HIDE DEF f
  <2>5. Len(fetched) = Parts(f) BY <1>4, <2>2, <2>3, <2>4
  <2>6. /\ Whole(f) \in Seq(TxFrames) /\ Len(Whole(f)) = Parts(f)
        /\ \A i \in 1 .. Parts(f) : Whole(f)[i] = f
    <3>1. Whole(f) \in [1 .. Parts(f) -> TxFrames] BY <2>2 DEF Whole
    <3> QED BY <2>2, <3>1 DEF Whole
  <2>7. \A i \in 1 .. Len(fetched) : fetched[i] = Whole(f)[i] BY <2>4, <2>5, <2>6
  <2> QED BY <2>5, <2>6, <2>7, SeqEqual DEF TxInv, TxTypeOK, f
<1>5. tx_at = "poll" /\ TxPred(tx_head) \in tx_done => due = <<>> BY DEF TxInv, DoneTrue
<1> QED BY <1>3, <1>4, <1>5 DEF SentWhole

\* The transmit ring's registers, descriptors and buffer keep their types (nic_i211.c).
THEOREM TxTypeCorrect == TxSpec => []TxTypeOK
<1>1. TxInv => TxTypeOK BY DEF TxInv
<1> QED BY TxInitially, TxInductive, <1>1, PTL DEF TxSpec

\* For every ring size, however far PA runs ahead of the card and however often the tail comes
\* round to the head: the descriptors between head and tail are those of the frames that have
\* not left, a frame leaves whole if the buffer was its own from the doorbell to then, and a
\* done descriptor tells the boot burst the truth (i211_send_phys and i211_net_init, nic_i211.c).
THEOREM FramesLeaveWhole == TxSpec => []SentWhole
BY TxInitially, TxInductive, TxImplies, PTL DEF TxSpec

------------------------------------------------------------------------------
(* The mailboxes. *)

(* The number before s. *)
Prev(s) == (s + FrameMod - 1) % FrameMod

LEMMA NextFact ==
    ASSUME NEW s \in Seq32
    PROVE  /\ NextSeq(s) = IF s + 1 = FrameMod THEN 0 ELSE s + 1
           /\ NextSeq(s) \in Seq32 /\ NextSeq(s) # s
<1>1. FrameMod \in Nat /\ FrameMod > 2 /\ s \in 0 .. (FrameMod - 1)
  BY MailboxAssumption DEF Seq32
<1>2. CASE s + 1 = FrameMod
  <2>1. FrameMod % FrameMod = 0  BY <1>1, SMTT(20)
  <2> QED  BY <1>1, <1>2, <2>1 DEF NextSeq, Seq32
<1>3. CASE s + 1 # FrameMod
  <2>1. s + 1 \in 0 .. (FrameMod - 1)  BY <1>1, <1>3
  <2>2. (s + 1) % FrameMod = s + 1  BY <1>1, <2>1, SMTT(20)
  <2> QED  BY <1>1, <1>3, <2>2 DEF NextSeq, Seq32
<1> QED  BY <1>2, <1>3

LEMMA PrevFact ==
    ASSUME NEW s \in Seq32
    PROVE  /\ Prev(s) = IF s = 0 THEN FrameMod - 1 ELSE s - 1
           /\ Prev(s) \in Seq32 /\ Prev(s) # s
           /\ NextSeq(Prev(s)) = s
<1>1. FrameMod \in Nat /\ FrameMod > 2 /\ s \in 0 .. (FrameMod - 1)
  BY MailboxAssumption DEF Seq32
<1>2. Prev(s) = IF s = 0 THEN FrameMod - 1 ELSE s - 1
  <2>1. CASE s = 0
    <3>1. (FrameMod - 1) % FrameMod = FrameMod - 1  BY <1>1, SMTT(20)
    <3> QED  BY <1>1, <2>1, <3>1 DEF Prev
  <2>2. CASE s # 0
    <3> DEFINE r == s - 1
    <3>1. r \in 0 .. (FrameMod - 1) /\ s + FrameMod - 1 = r + FrameMod  BY <1>1, <2>2
    <3>2. (r + FrameMod) % FrameMod = r
      <4> HIDE DEF r
      <4> QED  BY <1>1, <3>1, SMTT(20)
    <3> QED  BY <2>2, <3>1, <3>2 DEF Prev
  <2> QED  BY <2>1, <2>2
<1>3. Prev(s) \in Seq32 /\ Prev(s) # s  BY <1>1, <1>2 DEF Seq32
<1> QED  BY <1>1, <1>2, <1>3, NextFact

LEMMA PrevOfNext == ASSUME NEW s \in Seq32 PROVE Prev(NextSeq(s)) = s
<1>1. FrameMod \in Nat /\ FrameMod > 2 /\ s \in 0 .. (FrameMod - 1)
  BY MailboxAssumption DEF Seq32
<1> QED  BY <1>1, NextFact, PrevFact

------------------------------------------------------------------------------
(* The inductive invariant *)

(* A frame is with the input process, or its answer has not been taken yet. *)
FrameOut == inflight \/ pa = "signal"

(* What the verdict of the input process on a frame may be. *)
Earned(status) ==
    /\ status = "PARSE" <=> fwd.kind = "garbled"
    /\ status = "OK" => cand.jctl = fwd

(* Where the counters stand: nothing outstanding, or a frame not yet looked at, being worked
   on, or answered. *)
Quiet    == last = raw_seq /\ out = raw_seq /\ ip \in {"wait", "check", "dead"}
Unseen   == last = cand_last /\ out = cand_last /\ ip \in {"wait", "check", "dead"}
Working  == /\ last = raw_seq /\ out = cand_last
            /\ ip \in {"head", "body", "judge", "status", "publish", "dead"}

CountersInv ==
    /\ raw_seq = raw.seq /\ out = cand.seq
    /\ IF FrameOut THEN cand_last = Prev(raw_seq) /\ (Unseen \/ Working \/ Quiet)
                      ELSE cand_last = raw_seq /\ Quiet
    /\ pa \in {"verify", "stage", "publish", "signal"} => ~inflight

(* Whose frame is where. *)
FrameInv ==
    /\ FrameOut => raw.head = fwd /\ raw.body = fwd
    /\ pa \in {"stage", "publish"} => raw.body = fwd
    /\ pa = "publish" => raw.head = fwd
    /\ ip \in {"body", "judge"} => loc.head = fwd
    /\ ip = "judge" => loc.body = fwd
    /\ ip \in {"status", "publish"} => Earned(st)
    /\ ip = "publish" => cand.status = st
    /\ (FrameOut /\ out = raw_seq) \/ pa = "verify" => Earned(cand.status)

(* What the windows have counted. *)
LatchInv ==
    /\ ~inflight => miss = 0 /\ ~down
    /\ inflight /\ ~down => miss < InMissThreshold /\ silent = miss * Deadline + age
    /\ inflight /\ ~down /\ pa = "forward" => age < Deadline
    /\ down => silent = Deadline * InMissThreshold /\ pa \in {"forward", "top"}

MbxInv == MbxTypeOK /\ CountersInv /\ FrameInv /\ LatchInv

(* Counting a window keeps silent = miss * Deadline + age within the series. *)
LEMMA WindowsKept ==
    ASSUME NEW m \in Nat, NEW a \in Nat, m < InMissThreshold
    PROVE  /\ m * Deadline \in Nat /\ Deadline * InMissThreshold \in Nat
           /\ (m + 1) * Deadline = m * Deadline + Deadline
           /\ m + 1 = InMissThreshold => m * Deadline + Deadline = Deadline * InMissThreshold
           /\ a < Deadline => m * Deadline + a < Deadline * InMissThreshold
           /\ 0 * Deadline = 0
<1>1. Deadline \in Nat /\ Deadline > 0 /\ InMissThreshold \in Nat /\ InMissThreshold > 0
  BY MailboxAssumption
<1>2. /\ m * Deadline \in Nat /\ Deadline * InMissThreshold \in Nat
      /\ (m + 1) * Deadline = m * Deadline + Deadline /\ 0 * Deadline = 0
  BY <1>1, SMTT(20)
<1>3. ASSUME m + 1 = InMissThreshold PROVE m * Deadline + Deadline = Deadline * InMissThreshold
  BY <1>1, <1>2, <1>3, SMTT(20)
<1>4. m * Deadline + Deadline <= Deadline * InMissThreshold
  <2> DEFINE d == InMissThreshold - (m + 1)
  <2>1. d \in Nat /\ InMissThreshold = m + 1 + d  BY <1>1
  <2> HIDE DEF d
  <2>2. Deadline * d \in Nat  BY <1>1, <2>1, SMTT(20)
  <2>3. Deadline * (m + 1 + d) = m * Deadline + Deadline + Deadline * d
    BY <1>1, <2>1, SMTT(20)
  <2> QED  BY <1>1, <1>2, <2>1, <2>2, <2>3
<1> QED  BY <1>1, <1>2, <1>3, <1>4

LEMMA MbxInitially == MbxInit => MbxInv
<1> SUFFICES ASSUME MbxInit PROVE MbxInv
  OBVIOUS
<1>1. 0 \in Seq32 /\ NoFrame \in Frames /\ Deadline \in Nat /\ InMissThreshold \in Nat
  BY MailboxAssumption DEF Seq32, NoFrame, Frames, Kinds
<1>2. 0 \in 0 .. (Deadline * InMissThreshold)  BY MailboxAssumption, SMTT(20)
<1> DEFINE series == Deadline * InMissThreshold
<1> HIDE DEF series
<1>3. MbxTypeOK
  <2>1. 0 \in 0 .. series  BY <1>2 DEF series
  <2>2. silent \in 0 .. series  BY <2>1 DEF MbxInit
  <2>3. /\ raw \in [seq : Seq32, head : Frames, body : Frames]
        /\ cand \in [seq : Seq32, status : {"OK", "PARSE", "RATELIMIT"}, jctl : Frames]
        /\ loc \in [head : Frames, body : Frames]
    BY <1>1 DEF MbxInit
  <2>4. /\ age \in 0 .. Deadline /\ miss \in 0 .. InMissThreshold
        /\ {raw_seq, cand_last, last, out} \subseteq Seq32
        /\ fwd \in Frames
    BY <1>1 DEF MbxInit
  <2>5. {inflight, down, lane_ok} \subseteq BOOLEAN /\ wake \in BOOLEAN
    BY Zenon DEF MbxInit
  <2> QED  BY <2>2, <2>3, <2>4, <2>5 DEF MbxInit, MbxTypeOK, series
<1>4. CountersInv /\ FrameInv /\ LatchInv
  BY DEF MbxInit, CountersInv, FrameOut, Quiet, FrameInv, LatchInv
<1> QED  BY <1>3, <1>4 DEF MbxInv

------------------------------------------------------------------------------
(* Types *)

LEMMA NumbersKept ==
    /\ {Deadline, InMissThreshold} \subseteq Nat \ {0}
    /\ \A s \in Seq32 : NextSeq(s) \in Seq32
    /\ \A k \in Kinds : NewFrame(k).kind = k
    /\ raw_seq \in Seq32 => \A k \in Kinds : NewFrame(k) \in Frames
<1>1. {Deadline, InMissThreshold} \subseteq Nat \ {0}  BY MailboxAssumption
<1>2. \A s \in Seq32 : NextSeq(s) \in Seq32  BY NextFact
<1> QED  BY <1>1, <1>2 DEF NewFrame, Frames

(* A window that passes is counted at most once more than the series holds. *)
LEMMA MissedType == ASSUME MbxInv, pa = "tick", inflight, age >= Deadline
                    PROVE  miss + 1 \in 0 .. InMissThreshold
<1>1. ~down  BY DEF MbxInv, LatchInv
<1>2. miss < InMissThreshold /\ miss \in Nat  BY <1>1 DEF MbxInv, LatchInv, MbxTypeOK
<1> QED  BY <1>2, NumbersKept

LEMMA PollType == ASSUME MbxInv, Poll PROVE MbxTypeOK'
<1> DEFINE series == Deadline * InMissThreshold
<1>1. series \in Nat  BY WindowsKept, NumbersKept
<1> HIDE DEF series
<1>2. MbxTypeOK /\ silent \in 0 .. series  BY DEF MbxInv, MbxTypeOK, series
<1> USE DEF MbxTypeOK, inVars
<1>3. CASE PaConsume
  <2>1. cand_last' \in Seq32 /\ miss' \in 0 .. InMissThreshold
    BY <1>2, <1>3, NumbersKept DEF PaConsume
  <2>2. inflight' \in BOOLEAN  BY <1>3, Zenon DEF PaConsume
  <2> QED  BY <1>2, <1>3, <2>1, <2>2 DEF PaConsume
<1>4. CASE PaNoCandidate  BY <1>2, <1>4 DEF PaNoCandidate
<1>5. CASE PaClosed  BY <1>2, <1>5 DEF PaClosed, mbxVars, paVars
<1>6. CASE PaVerify
  <2>1. lane_ok' \in BOOLEAN  BY <1>6, Zenon DEF PaVerify
  <2> QED  BY <1>2, <1>6, <2>1 DEF PaVerify
<1>7. CASE PaTick
  <2>1. CASE inflight /\ age >= Deadline
    <3>1. miss' \in 0 .. InMissThreshold  BY <1>7, <2>1, MissedType DEF PaTick, Missed
    <3>2. down' \in BOOLEAN  BY <1>7, <2>1 DEF PaTick, Missed
    <3>3. age' \in 0 .. Deadline  BY <1>7, <2>1, NumbersKept DEF PaTick, Missed
    <3> QED  BY <1>2, <1>7, <2>1, <3>1, <3>2, <3>3 DEF PaTick
  <2>2. CASE ~(inflight /\ age >= Deadline)  BY <1>2, <1>7, <2>2 DEF PaTick
  <2> QED  BY <2>1, <2>2
<1>8. ASSUME NEW k \in Kinds, PaForward(NewFrame(k)) PROVE MbxTypeOK'
  BY <1>2, <1>8, NumbersKept DEF PaForward
<1>9. CASE PaForwardNone
  <2>1. age' \in 0 .. Deadline  BY <1>2, <1>9, NumbersKept DEF PaForwardNone, NextIteration
  <2>2. silent' \in 0 .. series
    BY <1>1, <1>2, <1>9 DEF PaForwardNone, NextIteration, series
  <2> QED  BY <1>2, <1>9, <2>1, <2>2 DEF PaForwardNone, NextIteration, series
<1>10. CASE PaStage  BY <1>2, <1>10 DEF PaStage
<1>11. CASE PaPublish  BY <1>2, <1>11, NumbersKept DEF PaPublish
<1>12. CASE PaSignal
  <2>1. 1 \in 0 .. series  BY NumbersKept, SMTT(20) DEF series
  <2> QED  BY <1>2, <1>12, <2>1, NumbersKept DEF PaSignal, series
<1> QED  BY <1>3, <1>4, <1>5, <1>6, <1>7, <1>8, <1>9, <1>10, <1>11, <1>12 DEF Poll

LEMMA ServeType == ASSUME MbxTypeOK, Serve \/ InDies PROVE MbxTypeOK'
<1> USE DEF MbxTypeOK, paVars
<1>1. CASE InWait  BY <1>1 DEF InWait
<1>2. CASE InCheck  BY <1>2 DEF InCheck
<1>3. CASE InHead  BY <1>3 DEF InHead
<1>4. CASE InBody  BY <1>4 DEF InBody
<1>5. ASSUME NEW allowed \in BOOLEAN, InJudge(allowed) PROVE MbxTypeOK'
  <2>1. st' \in {"OK", "PARSE", "RATELIMIT"}  BY <1>5 DEF InJudge
  <2> QED  BY <1>5, <2>1 DEF InJudge
<1>6. CASE InStatus  BY <1>6 DEF InStatus
<1>7. CASE InPublish  BY <1>7, NumbersKept DEF InPublish
<1>8. CASE InDies  BY <1>8 DEF InDies
<1> QED  BY <1>1, <1>2, <1>3, <1>4, <1>5, <1>6, <1>7, <1>8 DEF Serve

------------------------------------------------------------------------------
(* The counters *)

LEMMA Apart == ASSUME MbxTypeOK PROVE Prev(raw_seq) # raw_seq /\ Prev(raw_seq) \in Seq32
BY PrevFact DEF MbxTypeOK

LEMMA PollCounters == ASSUME MbxInv, Poll PROVE CountersInv'
<1>1. MbxTypeOK /\ CountersInv /\ Prev(raw_seq) # raw_seq  BY Apart DEF MbxInv
<1> USE DEF CountersInv, FrameOut, Quiet, Unseen, Working, inVars
<1>2. CASE PaConsume  BY <1>1, <1>2 DEF PaConsume
<1>3. CASE PaNoCandidate  BY <1>1, <1>3 DEF PaNoCandidate
<1>4. CASE PaClosed  BY <1>1, <1>4 DEF PaClosed, mbxVars, paVars
<1>5. CASE PaVerify  BY <1>1, <1>5 DEF PaVerify
<1>6. CASE PaTick  BY <1>1, <1>6 DEF PaTick
<1>7. ASSUME NEW f \in Frames, PaForward(f) PROVE CountersInv'  BY <1>1, <1>7 DEF PaForward, MbxTypeOK
<1>8. CASE PaForwardNone  BY <1>1, <1>8 DEF PaForwardNone, NextIteration
<1>9. CASE PaStage  BY <1>1, <1>9 DEF PaStage, MbxTypeOK
<1>10. CASE PaPublish
  <2>1. Prev(NextSeq(raw_seq)) = raw_seq  BY <1>1, PrevOfNext DEF MbxTypeOK
  <2> QED  BY <1>1, <1>10, <2>1 DEF PaPublish, MbxTypeOK
<1>11. CASE PaSignal  BY <1>1, <1>11 DEF PaSignal
<1>12. \A k \in Kinds : NewFrame(k) \in Frames  BY <1>1, NumbersKept DEF MbxTypeOK
<1> QED  BY <1>2, <1>3, <1>4, <1>5, <1>6, <1>7, <1>8, <1>9, <1>10, <1>11, <1>12 DEF Poll

LEMMA ServeCounters == ASSUME MbxInv, Serve \/ InDies PROVE CountersInv'
<1>1. MbxTypeOK /\ CountersInv /\ Prev(raw_seq) # raw_seq  BY Apart DEF MbxInv
<1>2. NextSeq(Prev(raw_seq)) = raw_seq  BY <1>1, PrevFact DEF MbxTypeOK
<1> USE DEF CountersInv, FrameOut, Quiet, Unseen, Working, paVars
<1>3. CASE InWait  BY <1>1, <1>3 DEF InWait
<1>4. CASE InCheck  BY <1>1, <1>4 DEF InCheck
<1>5. CASE InHead  BY <1>1, <1>5 DEF InHead
<1>6. CASE InBody  BY <1>1, <1>6 DEF InBody
<1>7. ASSUME NEW allowed \in BOOLEAN, InJudge(allowed) PROVE CountersInv'
  BY <1>1, <1>7 DEF InJudge, MbxTypeOK
<1>8. CASE InStatus  BY <1>1, <1>8 DEF InStatus, MbxTypeOK
<1>9. CASE InPublish  BY <1>1, <1>2, <1>9 DEF InPublish, MbxTypeOK
<1>10. CASE InDies  BY <1>1, <1>10 DEF InDies
<1> QED  BY <1>3, <1>4, <1>5, <1>6, <1>7, <1>8, <1>9, <1>10 DEF Serve

------------------------------------------------------------------------------
(* Whose frame is where *)

LEMMA PollFrame == ASSUME MbxInv, Poll PROVE FrameInv'
<1>1. MbxTypeOK /\ CountersInv /\ FrameInv /\ Prev(raw_seq) # raw_seq  BY Apart DEF MbxInv
<1> USE DEF FrameInv, Earned, FrameOut, inVars
<1>2. CASE PaConsume
  <2>1. FrameOut /\ out = raw_seq
    BY <1>1, <1>2 DEF PaConsume, CountersInv, Quiet, Unseen, Working
  <2> QED  BY <1>1, <1>2, <2>1 DEF PaConsume
<1>3. CASE PaNoCandidate  BY <1>1, <1>3 DEF PaNoCandidate
<1>4. CASE PaClosed  BY <1>1, <1>4 DEF PaClosed, mbxVars, paVars
<1>5. CASE PaVerify  BY <1>1, <1>5 DEF PaVerify
<1>6. CASE PaTick  BY <1>1, <1>6 DEF PaTick
<1>7. ASSUME NEW f \in Frames, PaForward(f) PROVE FrameInv'
  <2>1. ip \in {"wait", "check", "dead"}  BY <1>1, <1>7 DEF PaForward, CountersInv, Quiet
  <2> QED  BY <1>1, <1>7, <2>1 DEF PaForward, MbxTypeOK
<1>8. CASE PaForwardNone  BY <1>1, <1>8 DEF PaForwardNone, NextIteration
<1>9. CASE PaStage
  <2>1. ip \in {"wait", "check", "dead"}  BY <1>1, <1>9 DEF PaStage, CountersInv, Quiet
  <2> QED  BY <1>1, <1>9, <2>1 DEF PaStage, MbxTypeOK, CountersInv
<1>10. CASE PaPublish
  <2>1. out = raw_seq /\ ip \in {"wait", "check", "dead"} /\ NextSeq(raw_seq) # raw_seq
    BY <1>1, <1>10, NextFact DEF PaPublish, CountersInv, Quiet, MbxTypeOK
  <2> QED  BY <1>1, <1>10, <2>1 DEF PaPublish, MbxTypeOK
<1>11. CASE PaSignal  BY <1>1, <1>11 DEF PaSignal
<1>12. \A k \in Kinds : NewFrame(k) \in Frames  BY <1>1, NumbersKept DEF MbxTypeOK
<1> QED  BY <1>2, <1>3, <1>4, <1>5, <1>6, <1>7, <1>8, <1>9, <1>10, <1>11, <1>12 DEF Poll

(* While the input process works on a frame, PA neither writes a mailbox nor verifies. *)
LEMMA AtWork ==
    ASSUME MbxInv, ip \in {"head", "body", "judge", "status", "publish"}
    PROVE  FrameOut /\ out # raw_seq /\ pa # "verify"
<1>1. MbxTypeOK /\ CountersInv /\ Prev(raw_seq) # raw_seq  BY Apart DEF MbxInv
<1> QED  BY <1>1 DEF CountersInv, FrameOut, Quiet, Unseen, Working

LEMMA ServeFrame == ASSUME MbxInv, Serve \/ InDies PROVE FrameInv'
<1>1. MbxTypeOK /\ CountersInv /\ FrameInv  BY DEF MbxInv
<1> USE DEF FrameInv, Earned, FrameOut, paVars
<1>2. CASE InWait  BY <1>1, <1>2 DEF InWait
<1>3. CASE InCheck  BY <1>1, <1>3 DEF InCheck
<1>4. CASE InHead  BY <1>1, <1>4, AtWork DEF InHead, MbxTypeOK
<1>5. CASE InBody  BY <1>1, <1>5, AtWork DEF InBody, MbxTypeOK
<1>6. ASSUME NEW allowed \in BOOLEAN, InJudge(allowed) PROVE FrameInv'
  <2>1. FrameOut /\ out # raw_seq /\ pa # "verify"  BY <1>6, AtWork DEF InJudge
  <2>2. loc.body = fwd  BY <1>1, <1>6 DEF InJudge
  <2>3. cand \in [seq : Seq32, status : {"OK", "PARSE", "RATELIMIT"}, jctl : Frames]
    BY <1>1 DEF MbxTypeOK
  <2>4. CASE fwd.kind = "garbled"
    BY <1>1, <1>6, <2>1, <2>2, <2>4 DEF InJudge
  <2>5. CASE fwd.kind # "garbled" /\ allowed
    <3>1. st' = "OK" /\ cand'.jctl = fwd  BY <1>6, <2>2, <2>3, <2>5 DEF InJudge
    <3> QED  BY <1>1, <1>6, <2>1, <2>5, <3>1 DEF InJudge
  <2>6. CASE fwd.kind # "garbled" /\ ~allowed
    BY <1>1, <1>6, <2>1, <2>2, <2>6 DEF InJudge
  <2> QED  BY <2>4, <2>5, <2>6
<1>7. CASE InStatus  BY <1>1, <1>7, AtWork DEF InStatus, MbxTypeOK
<1>8. CASE InPublish  BY <1>1, <1>8, AtWork DEF InPublish, MbxTypeOK
<1>9. CASE InDies  BY <1>1, <1>9 DEF InDies
<1> QED  BY <1>2, <1>3, <1>4, <1>5, <1>6, <1>7, <1>8, <1>9 DEF Serve

------------------------------------------------------------------------------
(* The windows *)

LEMMA PollLatch == ASSUME MbxInv, Poll PROVE LatchInv'
<1> DEFINE series == Deadline * InMissThreshold
           counted == miss * Deadline
<1>1. MbxTypeOK /\ CountersInv /\ LatchInv  BY DEF MbxInv
<1>2. age \in 0 .. Deadline /\ silent \in 0 .. series /\ miss \in 0 .. InMissThreshold
  BY <1>1 DEF MbxTypeOK
<1> USE DEF LatchInv, inVars
<1>3. CASE PaConsume
  <2>1. ~down  BY <1>1, <1>3 DEF PaConsume, LaneOpen
  <2> QED  BY <1>1, <1>3, <2>1 DEF PaConsume
<1>4. CASE PaNoCandidate
  <2>1. ~down  BY <1>1, <1>4 DEF PaNoCandidate, LaneOpen
  <2> QED  BY <1>1, <1>4, <2>1 DEF PaNoCandidate
<1>5. CASE PaClosed  BY <1>1, <1>5 DEF PaClosed, mbxVars, paVars
<1>6. CASE PaVerify  BY <1>1, <1>6 DEF PaVerify
<1>7. CASE PaTick
  <2>1. ~down  BY <1>1, <1>7 DEF PaTick
  <2>2. CASE inflight /\ age >= Deadline
    <3>0. age = Deadline /\ miss \in Nat  BY <1>2, <2>2, NumbersKept
    <3>1. miss \in Nat /\ miss < InMissThreshold /\ silent = counted + age /\ age = Deadline
      BY <1>1, <2>1, <2>2, <3>0
    <3>2. /\ counted \in Nat /\ (miss + 1) * Deadline = counted + Deadline
          /\ miss + 1 = InMissThreshold => counted + Deadline = series
      BY <3>1, WindowsKept, NumbersKept
    <3>3. /\ miss' = miss + 1 /\ age' = 0 /\ down' = (miss + 1 >= InMissThreshold)
          /\ silent' = silent /\ inflight' = inflight /\ pa' = "forward"
      BY <1>7, <2>2 DEF PaTick, Missed
    <3>4. miss' * Deadline = counted + Deadline  BY <3>2, <3>3
    <3>5. silent' = counted + Deadline /\ counted + Deadline \in Nat
      BY <3>1, <3>2, <3>3, NumbersKept
    <3>6. CASE miss + 1 >= InMissThreshold
      <4>1. miss + 1 = InMissThreshold  BY <3>1, <3>6, NumbersKept
      <4>2. silent' = series  BY <3>2, <3>5, <4>1
      <4> QED  BY <2>2, <3>3, <3>6, <4>2
    <3>7. CASE ~(miss + 1 >= InMissThreshold)
      <4>1. miss' < InMissThreshold  BY <3>1, <3>3, <3>7, NumbersKept
      <4>2. silent' = miss' * Deadline + age'
        <5> HIDE DEF counted
        <5> QED  BY <3>2, <3>3, <3>4, <3>5
      <4>3. age' < Deadline  BY <3>3, NumbersKept
      <4> QED  BY <2>2, <3>3, <3>7, <4>1, <4>2, <4>3
    <3> QED  BY <3>6, <3>7
  <2>3. CASE ~(inflight /\ age >= Deadline)
    BY <1>1, <1>2, <1>7, <2>1, <2>3, NumbersKept DEF PaTick
  <2> QED  BY <2>2, <2>3
<1>8. ASSUME NEW f \in Frames, PaForward(f) PROVE LatchInv'
  BY <1>1, <1>8 DEF PaForward
<1>9. CASE PaForwardNone
  <2>1. CASE ~inflight  BY <1>1, <1>9, <2>1 DEF PaForwardNone, NextIteration
  <2>2. CASE inflight /\ ~down
    <3>1. /\ miss \in Nat /\ miss < InMissThreshold /\ silent = counted + age
          /\ age \in Nat /\ age < Deadline
      BY <1>1, <1>2, <1>9, <2>2, NumbersKept DEF PaForwardNone
    <3>2. counted \in Nat /\ counted + age < series /\ series \in Nat
      BY <3>1, WindowsKept, NumbersKept
    <3>3. age' = age + 1 /\ silent' = silent + 1 /\ UNCHANGED <<miss, down, inflight>> /\ pa' = "top"
      BY <1>9, <2>2, <3>1, <3>2 DEF PaForwardNone, NextIteration
    <3>4. silent' = counted + age'
      <4> HIDE DEF counted
      <4> QED  BY <3>1, <3>2, <3>3
    <3> QED  BY <2>2, <3>1, <3>3, <3>4
  <2>3. CASE down
    <3>1. silent' = silent /\ series \in Nat
      BY <1>1, <1>2, <1>9, <2>3, WindowsKept, NumbersKept DEF PaForwardNone, NextIteration
    <3> QED  BY <1>1, <1>9, <2>3, <3>1 DEF PaForwardNone, NextIteration
  <2> QED  BY <2>1, <2>2, <2>3
<1>10. CASE PaStage  BY <1>1, <1>10 DEF PaStage
<1>11. CASE PaPublish  BY <1>1, <1>11 DEF PaPublish
<1>12. CASE PaSignal
  <2>1. ~inflight /\ miss = 0 /\ ~down  BY <1>1, <1>12 DEF PaSignal, CountersInv
  <2>2. 0 * Deadline + 1 = 1  BY NumbersKept
  <2> QED  BY <1>12, <2>1, <2>2, NumbersKept DEF PaSignal
<1>13. \A k \in Kinds : NewFrame(k) \in Frames  BY <1>1, NumbersKept DEF MbxTypeOK
<1> QED  BY <1>3, <1>4, <1>5, <1>6, <1>7, <1>8, <1>9, <1>10, <1>11, <1>12, <1>13 DEF Poll

LEMMA ServeLatch == ASSUME MbxInv, Serve \/ InDies PROVE LatchInv'
<1>1. LatchInv /\ UNCHANGED paVars
  BY DEF MbxInv, Serve, InWait, InCheck, InHead, InBody, InJudge, InStatus, InPublish, InDies
<1> QED  BY <1>1 DEF LatchInv, paVars

------------------------------------------------------------------------------
(* The theorems *)

LEMMA MbxInductive == ASSUME MbxInv, [MbxNext]_mbxVars PROVE MbxInv'
<1>1. CASE Poll
  BY <1>1, PollType, PollCounters, PollFrame, PollLatch DEF MbxInv
<1>2. CASE Serve \/ InDies
  BY <1>2, ServeType, ServeCounters, ServeFrame, ServeLatch DEF MbxInv
<1>3. CASE UNCHANGED mbxVars
  <2>1. /\ UNCHANGED <<raw, cand, wake, pa, raw_seq, cand_last, inflight, age, miss, down>>
        /\ UNCHANGED <<lane_ok, fwd, silent, ip, last, out, loc, st>>
    BY <1>3 DEF mbxVars, paVars, inVars
  <2>2. MbxTypeOK'  BY <2>1 DEF MbxInv, MbxTypeOK
  <2>3. CountersInv'  BY <2>1 DEF MbxInv, CountersInv, FrameOut, Quiet, Unseen, Working
  <2>4. FrameInv'  BY <2>1 DEF MbxInv, FrameInv, Earned, FrameOut
  <2>5. LatchInv'  BY <2>1 DEF MbxInv, LatchInv
  <2> QED  BY <2>2, <2>3, <2>4, <2>5 DEF MbxInv
<1> QED  BY <1>1, <1>2, <1>3 DEF MbxNext

(* What the invariant says of the properties of ControlMailbox. *)
LEMMA MbxImplies == ASSUME MbxInv PROVE MailboxSafe
<1>1. MbxTypeOK /\ CountersInv /\ FrameInv /\ LatchInv /\ Prev(raw_seq) # raw_seq
  BY Apart DEF MbxInv
<1>2. OwnFrame  BY <1>1 DEF OwnFrame, FrameInv, Earned
<1>3. NobodyReadsWhileWritten
  BY <1>1 DEF NobodyReadsWhileWritten, CountersInv, FrameInv, FrameOut, Quiet
<1>4. InLockstep
  BY <1>1 DEF InLockstep, CountersInv, FrameOut, Quiet, Unseen, Working, Prev
<1>5. LatchOnlySilent  BY <1>1 DEF LatchOnlySilent, LatchInv
<1> QED  BY <1>2, <1>3, <1>4, <1>5 DEF MailboxSafe

(* Both sides keep the types of their mailbox and of their state (control_mailbox.h). *)
THEOREM MailboxTypeCorrect == MbxSpec => []MbxTypeOK
<1>1. MbxInv => MbxTypeOK  BY DEF MbxInv
<1> QED  BY MbxInitially, MbxInductive, <1>1, PTL DEF MbxSpec

(* For every width of the counters and every series of windows: PA verifies the frame it     *)
(* sent with the status that frame earns, no payload is written while it is read, the four   *)
(* counters keep step, and the lane is given up only for a frame that stayed unanswered for  *)
(* the whole series (main_x86.c's poll, ctrl_in_liveness_tick, input_server.c's loop).       *)
THEOREM MailboxIsSafe == MbxSpec => []MailboxSafe
BY MbxInitially, MbxInductive, MbxImplies, PTL DEF MbxSpec

------------------------------------------------------------------------------

(* The parts together: every step is a step of one part and a stutter of the others. *)

LEMMA PartsStep ==
    ASSUME [ControlNext]_controlVars
    PROVE  /\ [RxNext]_rxVars /\ [MbxNext]_mbxVars /\ [RlNext]_rlVars /\ [GateNext]_gateVars
           /\ [TxNext]_txVars
<1>1. CASE ReceivePart(RxNext)  BY <1>1 DEF ReceivePart
<1>2. CASE MailboxPart(MbxNext)  BY <1>2 DEF MailboxPart, NicRests
<1>3. CASE BucketPart(RlNext)  BY <1>3 DEF BucketPart, NicRests
<1>4. CASE GatePart(GateNext)  BY <1>4 DEF GatePart, NicRests
<1>5. CASE TransmitPart(TxNext)  BY <1>5 DEF TransmitPart
<1>6. CASE UNCHANGED controlVars  BY <1>6 DEF controlVars
<1> QED  BY <1>1, <1>2, <1>3, <1>4, <1>5, <1>6 DEF ControlNext

PathInv == RxInv /\ MbxInv /\ Inv /\ GateInv /\ TxInv

LEMMA PathInvariance == ControlSpec => []PathInv
<1>1. ControlInit => PathInv
  BY RxInitially, MbxInitially, BucketInitially, GateInitially, TxInitially
     DEF ControlInit, PathInv
<1>2. PathInv /\ [ControlNext]_controlVars => PathInv'
  BY PartsStep, RxInductive, MbxInductive, BucketInductive, GateInductive, TxInductive
     DEF PathInv
<1> QED  BY <1>1, <1>2, PTL DEF ControlSpec

\* Every variable on the path keeps its type: the rings of the card (nic_i211.c), the mailboxes
\* (control_mailbox.h), the bucket (control_ratelimit.c) and the gate (main_x86.c).
THEOREM ControlTypesCorrect == ControlSpec => []ControlTypes
<1>1. PathInv => ControlTypes
  BY GateTypeParts DEF PathInv, RxInv, MbxInv, Inv, GateInv, TxInv, ControlTypes
<1> QED  BY PathInvariance, <1>1, PTL

\* For every size of the two rings a frame comes in whole, in order of the descriptors and without
\* the ring running dry; and it leaves whole if the buffer was its own from the doorbell to then,
\* whatever else is with the card (i211_nic_recv and i211_send_phys, nic_i211.c).
THEOREM FramesCrossWhole == ControlSpec => []FramesWhole
<1>1. PathInv => FramesWhole
  BY RxImplies, TxImplies DEF PathInv, FramesWhole
<1> QED  BY PathInvariance, <1>1, PTL
=============================================================================
