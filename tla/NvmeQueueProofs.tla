---------------------------- MODULE NvmeQueueProofs ----------------------------
(***************************************************************************)
(* Proofs about NvmeQueue for every queue size, every number of commands   *)
(* given up and every order in which the drive completes: NvTypeOK; LapInv  *)
(* and, from it, that the phase bits tell what is new and that the queue is *)
(* a FIFO.                                                                  *)
(***************************************************************************)
EXTENDS NvmeQueue, SequenceTheorems, FiniteSetTheorems, TLAPS

\* The entry after x.
LEMMA NextSlot ==
    ASSUME NEW x \in CqSlots
    PROVE  /\ (x + 1) % Size \in CqSlots
           /\ (x + 1) % Size = IF x + 1 = Size THEN 0 ELSE x + 1
BY NvmeAssumption DEF CqSlots

\* How far t is ahead of h on the ring.
LEMMA Ahead ==
    ASSUME NEW h \in CqSlots, NEW t \in CqSlots
    PROVE  (t - h) % Size = IF h <= t THEN t - h ELSE (t - h) + Size
<1>1. CASE h <= t
  <2>1. t - h \in 0 .. (Size - 1) BY <1>1, NvmeAssumption DEF CqSlots
  <2> QED BY <1>1, <2>1, NvmeAssumption
<1>2. CASE h > t
  <2>1. (t - h) + Size \in 0 .. (Size - 1) BY <1>2, NvmeAssumption DEF CqSlots
  <2> DEFINE d == t - h
  <2>2. d \in Int /\ d + Size \in 0 .. (Size - 1) /\ d < 0
    BY <1>2, <2>1, NvmeAssumption DEF CqSlots
  <2>3. d % Size = d + Size
    <3> HIDE DEF d
    <3> QED BY <2>2, NvmeAssumption
  <2> QED BY <1>2, <2>3 DEF CqSlots
<1> QED BY <1>1, <1>2 DEF CqSlots

-------------------------------------------------------------------------------
(* Types *)

\* The first state is typed.
LEMMA InitType == NvInit => NvTypeOK
BY NvmeAssumption DEF NvInit, NvTypeOK, CqSlots, Bit, Cids, Ops, Command, Entry, NoRet, Sectors

\* Identifiers stay in range.
LEMMA CidType == ASSUME NvTypeOK PROVE NextCid \in Cids
BY NvmeAssumption DEF NvTypeOK, NextCid, Cids

\* A command submitted leaves driver and drive typed.
LEMMA SubmitType ==
    ASSUME NvTypeOK, NEW op, NEW l, Submit(op, l),
           (op \in {"read", "write"} /\ l \in Lbas) \/ (op = "flush" /\ l = None)
    PROVE  /\ host' \in [at : {"idle", "poll"}, cmd : Command \union {None}, head : CqSlots,
                         phase : Bit, cid : Cids \union {0}]
           /\ host'.cmd \in Command
           /\ drive' \in [held : SUBSET Command, tail : CqSlots, phase : Bit,
                          cache : [Lbas -> Sectors], nand : [Lbas -> Sectors]]
           /\ ret' = NoRet /\ UNCHANGED <<cq, taken, timeouts>>
<1> DEFINE c == [cid |-> NextCid, op |-> op, lba |-> l]
<1>1. c \in Command BY CidType DEF Command
<1>2. /\ host' = [host EXCEPT !.at = "poll", !.cmd = c, !.cid = c.cid]
      /\ drive' = [drive EXCEPT !.held = @ \union {c}]
      /\ ret' = NoRet /\ UNCHANGED <<cq, taken, timeouts>>
  BY DEF Submit
<1>3. c.cid \in Cids BY <1>1 DEF Command
<1> HIDE DEF c
<1> QED BY <1>1, <1>2, <1>3 DEF NvTypeOK

\* The head moves within the queue and the phase stays a bit.
LEMMA AdvanceType ==
    ASSUME NvTypeOK PROVE Advance(host).head \in CqSlots /\ Advance(host).phase \in Bit
BY NextSlot DEF NvTypeOK, Advance, Bit

\* The state after a command that completed.
LEMMA PollType == ASSUME NvTypeOK, Poll PROVE NvTypeOK'
<1> DEFINE c == host.cmd
           ok == StatusOk(cq[host.head])
<1>1. ok \in BOOLEAN BY DEF NvTypeOK, StatusOk, Entry
<1>2. c \in Command /\ buf \in Sectors BY DEF NvTypeOK, Poll
<1>3. /\ host' \in [at : {"idle", "poll"}, cmd : Command \union {None}, head : CqSlots,
                    phase : Bit, cid : Cids \union {0}]
      /\ host'.at = "idle"
  BY AdvanceType DEF Poll, NvTypeOK
<1>4. taken' \in BOOLEAN \union {None} BY <1>1 DEF Poll, StatusOk
<1>5. /\ ret' = [op |-> c.op, lba |-> c.lba, ok |-> ok]
      /\ acked' = IF ok /\ c.op = "write" THEN [acked EXCEPT ![c.lba] = buf] ELSE acked
      /\ flushed' = IF ok /\ c.op = "flush" THEN {l \in Lbas : acked[l] # None} ELSE flushed
      /\ UNCHANGED <<cq, drive, buf, timeouts>>
  BY DEF Poll, Returned
<1>6. c.op \in Ops /\ c.lba \in Lbas \union {None} BY <1>2 DEF Command, Ops
<1> HIDE DEF c, ok
<1>7. /\ ret' \in {NoRet} \union [op : Ops, lba : Lbas \union {None}, ok : BOOLEAN]
  BY <1>1, <1>5, <1>6
<1>8. acked' \in [Lbas -> Sectors \union {None}] /\ flushed' \subseteq Lbas
  BY <1>2, <1>5 DEF NvTypeOK
<1> QED BY <1>3, <1>4, <1>5, <1>7, <1>8 DEF NvTypeOK

\* The state after a completion.
LEMMA DriveType ==
    ASSUME NvTypeOK, NEW c \in drive.held, NEW ok \in BOOLEAN, Complete(c, ok)
    PROVE  NvTypeOK'
<1>1. c \in Command BY DEF NvTypeOK
<1>2. /\ (drive.tail + 1) % Size \in CqSlots
      /\ (IF drive.tail + 1 = Size THEN 1 - drive.phase ELSE drive.phase) \in Bit
  BY NextSlot DEF NvTypeOK, Bit
<1>3. Post(c) \in [held : SUBSET Command, tail : CqSlots, phase : Bit,
                   cache : [Lbas -> Sectors], nand : [Lbas -> Sectors]]
  BY <1>2 DEF Post, NvTypeOK
<1>4. Post(c).cache = drive.cache BY DEF Post, NvTypeOK
<1>5. Execute(c) \in [held : SUBSET Command, tail : CqSlots, phase : Bit,
                      cache : [Lbas -> Sectors], nand : [Lbas -> Sectors]]
  <2> DEFINE k == IF c.op = "write" THEN [Post(c).cache EXCEPT ![c.lba] = buf] ELSE Post(c).cache
             n == IF c.op = "flush" THEN drive.cache ELSE Post(c).nand
  <2>1. k \in [Lbas -> Sectors] BY <1>3 DEF NvTypeOK
  <2>2. n \in [Lbas -> Sectors] BY <1>3 DEF NvTypeOK
  <2>3. Execute(c) = [Post(c) EXCEPT !.cache = k, !.nand = n]
    BY <1>3 DEF Execute
  <2> HIDE DEF k, n
  <2> QED BY <1>3, <2>1, <2>2, <2>3
<1>6. drive' \in [held : SUBSET Command, tail : CqSlots, phase : Bit,
                  cache : [Lbas -> Sectors], nand : [Lbas -> Sectors]]
  BY <1>3, <1>5 DEF Complete
<1>7. cq' \in [CqSlots -> Entry] BY DEF Complete, NvTypeOK, Entry
<1>8. buf' \in Sectors
  <2>1. CASE c.op = "read" /\ ok
    <3>1. c.lba \in Lbas BY <1>1, <2>1 DEF Command
    <3>2. buf' = drive.cache[c.lba] BY <2>1 DEF Complete
    <3> QED BY <3>1, <3>2 DEF NvTypeOK
  <2>2. CASE ~(c.op = "read" /\ ok) BY <2>2 DEF Complete, NvTypeOK
  <2> QED BY <2>1, <2>2
<1> QED BY <1>6, <1>7, <1>8 DEF Complete, NvTypeOK

\* The state after a submission.
LEMMA CallType == ASSUME NvTypeOK, Call PROVE NvTypeOK'
<1> DEFINE P(op, l) ==
           /\ Submit(op, l)
           /\ ((op \in {"read", "write"} /\ l \in Lbas) \/ (op = "flush" /\ l = None))
<1>1. \E op, l : P(op, l)
  <2>1. ASSUME NEW l \in Lbas, NEW d \in Data, Write(l, d) PROVE P("write", l)
    BY <2>1 DEF Write
  <2>2. ASSUME NEW l \in Lbas, Read(l) PROVE P("read", l)
    BY <2>2 DEF Read
  <2>3. ASSUME Flush PROVE P("flush", None)
    BY <2>3 DEF Flush
  <2> HIDE DEF P
  <2> QED BY <2>1, <2>2, <2>3 DEF Call
<1>2. /\ buf' \in Sectors /\ flushed' \subseteq Lbas
      /\ acked' \in [Lbas -> Sectors \union {None}]
  <2>1. CASE \E l1 \in Lbas, d \in Data : Write(l1, d)
    BY <2>1 DEF Write, NvTypeOK, Sectors
  <2>2. CASE UNCHANGED <<buf, acked, flushed>> BY <2>2 DEF NvTypeOK
  <2> QED BY <2>1, <2>2 DEF Call, Read, Flush
<1> QED
  <2>1. PICK op, l : P(op, l) BY <1>1
  <2>2. /\ host' \in [at : {"idle", "poll"}, cmd : Command \union {None}, head : CqSlots,
                       phase : Bit, cid : Cids \union {0}]
        /\ host'.cmd \in Command
        /\ drive' \in [held : SUBSET Command, tail : CqSlots, phase : Bit,
                       cache : [Lbas -> Sectors], nand : [Lbas -> Sectors]]
        /\ ret' = NoRet /\ UNCHANGED <<cq, taken, timeouts>>
    BY <2>1, SubmitType
  <2> HIDE DEF P
  <2> QED BY <2>2, <1>2 DEF NvTypeOK

\* Every step keeps the types.
LEMMA NextType == NvTypeOK /\ [NvNext]_nvVars => NvTypeOK'
<1> SUFFICES ASSUME NvTypeOK, [NvNext]_nvVars PROVE NvTypeOK'
  OBVIOUS
<1>1. CASE Call BY <1>1, CallType
<1>4. CASE Poll BY <1>4, PollType
<1>5. CASE Timeout
  <2>1. host' = [host EXCEPT !.at = "idle", !.cmd = None] /\ ret' = NoRet
        /\ timeouts < MaxTimeouts /\ timeouts' = timeouts + 1
        /\ UNCHANGED <<cq, drive, buf, acked, flushed, taken>>
    BY <1>5 DEF Timeout
  <2>2. timeouts' \in 0 .. MaxTimeouts BY <2>1, NvmeAssumption DEF NvTypeOK
  <2>3. /\ host' \in [at : {"idle", "poll"}, cmd : Command \union {None}, head : CqSlots,
                       phase : Bit, cid : Cids \union {0}]
        /\ host'.at = "idle"
    BY <2>1 DEF NvTypeOK
  <2> QED BY <2>1, <2>2, <2>3 DEF NvTypeOK
<1>6. CASE Drive BY <1>6, DriveType DEF Drive
<1>7. CASE UNCHANGED nvVars BY <1>7 DEF nvVars, NvTypeOK
<1> QED BY <1>1, <1>4, <1>5, <1>6, <1>7 DEF NvNext

\* Types hold for every size of the queue and every number of timeouts.
THEOREM NvmeTypeCorrect == NvSpec => []NvTypeOK
BY InitType, NextType, PTL DEF NvSpec

-------------------------------------------------------------------------------
(* The phase bits *)

\* At the start the drive is on its first turn and has posted nothing.
LEMMA InitLap == NvInit => LapInv
BY NvmeAssumption DEF NvInit, LapInv, CqSlots

\* The driver's turn changes with its head, the drive's with its tail; neither
\* overtakes the other.
LEMMA NextLap == NvTypeOK /\ LapInv /\ [NvNext]_nvVars => LapInv'
<1> SUFFICES ASSUME NvTypeOK, LapInv, [NvNext]_nvVars PROVE LapInv'
  OBVIOUS
<1> DEFINE h == host.head
           t == drive.tail
<1>0. h \in CqSlots /\ t \in CqSlots /\ host.phase \in Bit /\ drive.phase \in Bit
  BY DEF NvTypeOK
<1>1. ASSUME UNCHANGED cq, drive'.tail = t, drive'.phase = drive.phase,
             host'.head = h, host'.phase = host.phase
      PROVE  LapInv'
  BY <1>1 DEF LapInv
<1>2. CASE Call
  <2>1. PICK op, l : Submit(op, l) BY <1>2 DEF Call, Write, Read, Flush
  <2> QED BY <2>1, <1>1 DEF Submit, NvTypeOK
<1>3. CASE Timeout BY <1>3, <1>1 DEF Timeout, NvTypeOK
<1>4. CASE UNCHANGED nvVars BY <1>4, <1>1 DEF nvVars
<1>5. CASE Poll
  <2>1. /\ host'.head = (h + 1) % Size
        /\ host'.phase = (IF h + 1 = Size THEN 1 - host.phase ELSE host.phase)
        /\ UNCHANGED <<cq, drive>> /\ cq[h].phase = host.phase
    BY <1>5 DEF Poll, Advance, NvTypeOK
  <2>2. host'.head = IF h + 1 = Size THEN 0 ELSE h + 1
    BY <2>1, <1>0, NextSlot
  <2>3. CASE host.phase = drive.phase
    <3>1. h < t BY <1>0, <2>1, <2>3 DEF LapInv, CqSlots, Bit
    <3> QED BY <1>0, <2>1, <2>2, <2>3, <3>1, NvmeAssumption DEF LapInv, CqSlots
  <2>4. CASE host.phase # drive.phase
    BY <1>0, <2>1, <2>2, <2>4, NvmeAssumption DEF LapInv, CqSlots, Bit
  <2> QED BY <2>3, <2>4
<1>6. CASE Drive
  <2>1. PICK c \in drive.held, ok \in BOOLEAN : Complete(c, ok) BY <1>6 DEF Drive
  <2>2. /\ drive'.tail = (t + 1) % Size
        /\ drive'.phase = (IF t + 1 = Size THEN 1 - drive.phase ELSE drive.phase)
    BY <2>1 DEF Complete, Execute, Post, NvTypeOK
  <2>3. (t + 1) % Size = IF t + 1 = Size THEN 0 ELSE t + 1
    BY <1>0, NextSlot
  <2>4. /\ UNCHANGED host /\ (t + 1) % Size # h
        /\ cq' = [cq EXCEPT ![t] = [phase |-> drive.phase, ok |-> ok]]
    BY <2>1 DEF Complete, Full
  <2>5. \A s \in CqSlots : cq'[s].phase = IF s = t THEN drive.phase ELSE cq[s].phase
    BY <1>0, <2>4 DEF NvTypeOK
  <2>6. \A s \in CqSlots :
           cq'[s].phase = IF s < drive'.tail THEN drive'.phase ELSE 1 - drive'.phase
    BY <1>0, <2>2, <2>3, <2>5 DEF LapInv, CqSlots, Bit
  <2>7. IF host'.phase = drive'.phase THEN host'.head <= drive'.tail
                                      ELSE drive'.tail < host'.head
    BY <1>0, <2>2, <2>3, <2>4 DEF LapInv, CqSlots, Bit
  <2> QED BY <2>6, <2>7 DEF LapInv
<1> QED BY <1>2, <1>3, <1>4, <1>5, <1>6 DEF NvNext

\* The lap invariant holds throughout.
THEOREM LapInvariance == NvSpec => []LapInv
<1>1. NvTypeOK /\ NvTypeOK' /\ LapInv /\ [NvNext]_nvVars => LapInv'
  BY NextLap
<1> QED BY <1>1, InitLap, NvmeTypeCorrect, PTL DEF NvSpec

\* How many completions are posted.
LEMMA PostedLen ==
    ASSUME NvTypeOK, LapInv
    PROVE  /\ Posted \in Seq(BOOLEAN)
           /\ Len(Posted) = IF host.head <= drive.tail THEN drive.tail - host.head
                            ELSE (drive.tail - host.head) + Size
<1> DEFINE n == (drive.tail - host.head) % Size
<1>1. /\ n = IF host.head <= drive.tail THEN drive.tail - host.head
             ELSE (drive.tail - host.head) + Size
      /\ n \in Nat
  BY Ahead, NvmeAssumption DEF NvTypeOK, CqSlots
<1> HIDE DEF n
<1>2. \A i \in 1 .. n : (host.head + i - 1) % Size \in CqSlots
  BY <1>1, NvmeAssumption DEF NvTypeOK, CqSlots
<1>3. \A i \in 1 .. n : cq[(host.head + i - 1) % Size].ok \in BOOLEAN
  BY <1>2 DEF NvTypeOK, Entry
<1>4. Posted = [i \in 1 .. n |-> cq[(host.head + i - 1) % Size].ok]
  BY DEF Posted, n
<1> QED BY <1>1, <1>3, <1>4

\* The entry at cq_head has the driver's phase exactly if the drive has posted it,
\* for every queue size and over any number of turns.
THEOREM PhaseIsNew == NvSpec => []PhaseTellsNew
<1>1. NvTypeOK /\ LapInv => PhaseTellsNew
  <2> SUFFICES ASSUME NvTypeOK, LapInv PROVE PhaseTellsNew
    OBVIOUS
  <2>1. Posted # <<>> <=> host.head # drive.tail
    <3>1. Posted # <<>> <=> Len(Posted) # 0 BY PostedLen
    <3> QED BY <3>1, PostedLen, NvmeAssumption DEF NvTypeOK, CqSlots
  <2>2. cq[host.head].phase = host.phase <=> host.head # drive.tail
    BY DEF NvTypeOK, LapInv, CqSlots, Bit
  <2> QED BY <2>1, <2>2 DEF PhaseTellsNew
<1> QED BY <1>1, NvmeTypeCorrect, LapInvariance, PTL

-------------------------------------------------------------------------------
(* The queue is a FIFO *)

\* The slot of the i-th posted completion, counted from head h.
SlotOf(h, i) == IF h + i - 1 < Size THEN h + i - 1 ELSE (h + i - 1) - Size

LEMMA SlotOfIs ==
    ASSUME NEW h \in CqSlots, NEW i \in 1 .. Size
    PROVE  (h + i - 1) % Size = SlotOf(h, i) /\ SlotOf(h, i) \in CqSlots
<1> DEFINE x == h + i - 1
<1>1. x \in Nat /\ x < 2 * Size /\ Size \in Nat /\ Size > 1
  BY NvmeAssumption DEF CqSlots
<1>2. x % Size = IF x < Size THEN x ELSE x - Size
  <2> HIDE DEF x
  <2> QED BY <1>1
<1> QED BY <1>1, <1>2 DEF SlotOf, CqSlots

\* The entry after x, and how many entries from h up to t.
NextEntry(x)    == IF x + 1 = Size THEN 0 ELSE x + 1
Span(h, t) == IF h <= t THEN t - h ELSE (t - h) + Size

\* A head that moves on leaves one entry less, each one nearer.
LEMMA HeadMoves ==
    ASSUME NEW h \in CqSlots, NEW t \in CqSlots, h # t
    PROVE  /\ Span(h, t) > 0 /\ Span(NextEntry(h), t) = Span(h, t) - 1
           /\ SlotOf(h, 1) = h
           /\ \A i \in 1 .. (Span(h, t) - 1) : SlotOf(NextEntry(h), i) = SlotOf(h, i + 1)
BY NvmeAssumption DEF Span, NextEntry, SlotOf, CqSlots

\* A tail that moves on adds the entry it leaves.
LEMMA TailMoves ==
    ASSUME NEW h \in CqSlots, NEW t \in CqSlots, NextEntry(t) # h
    PROVE  /\ Span(h, t) < Size - 1 /\ Span(h, NextEntry(t)) = Span(h, t) + 1
           /\ SlotOf(h, Span(h, t) + 1) = t
           /\ \A i \in 1 .. Span(h, t) : SlotOf(h, i) # t /\ SlotOf(h, i) \in CqSlots
BY NvmeAssumption DEF Span, NextEntry, SlotOf, CqSlots

\* Posted is a sequence of that length and those entries.
PostedIsSeq ==
    /\ Posted \in Seq(BOOLEAN)
    /\ Len(Posted) = Span(host.head, drive.tail)
    /\ Len(Posted) \in 0 .. (Size - 1)
    /\ \A i \in 1 .. Len(Posted) : Posted[i] = cq[SlotOf(host.head, i)].ok

LEMMA PostedIs == NvTypeOK /\ LapInv => PostedIsSeq
<1> SUFFICES ASSUME NvTypeOK, LapInv PROVE PostedIsSeq
  OBVIOUS
<1>1. /\ Posted \in Seq(BOOLEAN)
      /\ Len(Posted) = IF host.head <= drive.tail THEN drive.tail - host.head
                       ELSE (drive.tail - host.head) + Size
  BY PostedLen
<1>2. Len(Posted) \in 0 .. (Size - 1)
  BY <1>1, NvmeAssumption DEF NvTypeOK, CqSlots
<1>3. ASSUME NEW i \in 1 .. Len(Posted)
      PROVE  Posted[i] = cq[SlotOf(host.head, i)].ok
  <2> DEFINE n == (drive.tail - host.head) % Size
  <2>0. n = Len(Posted)
    BY <1>1, Ahead DEF NvTypeOK
  <2>1. i \in 1 .. Size /\ i \in 1 .. n BY <1>2, <1>3, <2>0, NvmeAssumption
  <2>2. Posted[i] = cq[(host.head + i - 1) % Size].ok
    BY <2>1 DEF Posted
  <2> QED BY <2>1, <2>2, SlotOfIs DEF NvTypeOK
<1> QED BY <1>1, <1>2, <1>3 DEF PostedIsSeq, Span

\* Taking the entry at cq_head removes the first posted completion.
LEMMA PollGets ==
    ASSUME NvTypeOK, LapInv, PostedIsSeq, PostedIsSeq', Poll
    PROVE  Completions!Get
<1> DEFINE h == host.head
<1>1. /\ h \in CqSlots /\ drive.tail \in CqSlots /\ host.phase \in Bit /\ drive.phase \in Bit
      /\ host'.head = NextEntry(h)
      /\ UNCHANGED <<cq, drive>> /\ cq[h].phase = host.phase /\ taken' = cq[h].ok
  BY NextSlot DEF Poll, Advance, NvTypeOK, NextEntry
<1>2. h # drive.tail
  BY <1>1 DEF LapInv, CqSlots, Bit
<1>3. Len(Posted) > 0 /\ Len(Posted') = Len(Posted) - 1
  BY <1>1, <1>2, HeadMoves DEF PostedIsSeq
<1>4. Posted # <<>> /\ Head(Posted) = cq[h].ok
  <2>1. Posted # <<>> /\ 1 \in 1 .. Len(Posted)
    BY <1>3, EmptySeq DEF PostedIsSeq
  <2>2. Head(Posted) = Posted[1]
    BY <2>1, HeadTailProperties DEF PostedIsSeq
  <2>3. SlotOf(h, 1) = h BY <1>1, <1>2, HeadMoves
  <2> QED BY <2>1, <2>2, <2>3 DEF PostedIsSeq
<1>5. /\ Tail(Posted) \in Seq(BOOLEAN) /\ Len(Tail(Posted)) = Len(Posted) - 1
      /\ \A i \in 1 .. (Len(Posted) - 1) : Tail(Posted)[i] = Posted[i + 1]
  BY <1>4, HeadTailProperties DEF PostedIsSeq
<1>6. ASSUME NEW i \in 1 .. Len(Posted') PROVE Posted'[i] = Tail(Posted)[i]
  <2>1. i + 1 \in 1 .. Len(Posted) /\ i \in 1 .. (Len(Posted) - 1)
    BY <1>3 DEF PostedIsSeq
  <2>2. SlotOf(host'.head, i) = SlotOf(h, i + 1)
    BY <1>1, <1>2, <2>1, HeadMoves DEF PostedIsSeq
  <2>3. Posted'[i] = cq'[SlotOf(host'.head, i)].ok BY DEF PostedIsSeq
  <2>4. Posted[i + 1] = cq[SlotOf(h, i + 1)].ok BY <2>1 DEF PostedIsSeq
  <2> QED BY <1>1, <1>5, <2>1, <2>2, <2>3, <2>4
<1>7. Posted' = Tail(Posted)
  BY <1>3, <1>5, <1>6, SeqEqual DEF PostedIsSeq
<1> QED BY <1>1, <1>4, <1>7 DEF Completions!Get

\* A completion by the drive is appended.
LEMMA DrivePuts ==
    ASSUME NvTypeOK, LapInv, PostedIsSeq, PostedIsSeq',
           NEW c \in drive.held, NEW ok \in BOOLEAN, Complete(c, ok)
    PROVE  Completions!Put(ok)
<1> DEFINE h == host.head
           t == drive.tail
           n == Len(Posted)
<1>1. /\ h \in CqSlots /\ t \in CqSlots /\ n \in Nat
      /\ drive'.tail = NextEntry(t) /\ NextEntry(t) # h
      /\ UNCHANGED <<host, taken>>
      /\ cq' = [cq EXCEPT ![t] = [phase |-> drive.phase, ok |-> ok]]
  BY NextSlot DEF Complete, Full, Execute, Post, NvTypeOK, PostedIsSeq, NextEntry
<1>2. Len(Posted') = n + 1 /\ n < Size - 1
  BY <1>1, TailMoves DEF PostedIsSeq
<1>3. SlotOf(h, n + 1) = t
  BY <1>1, TailMoves DEF PostedIsSeq
<1>4. /\ Append(Posted, ok) \in Seq(BOOLEAN) /\ Len(Append(Posted, ok)) = n + 1
      /\ \A i \in 1 .. n : Append(Posted, ok)[i] = Posted[i]
      /\ Append(Posted, ok)[n + 1] = ok
  BY AppendProperties DEF PostedIsSeq
<1>5. ASSUME NEW i \in 1 .. n PROVE Posted'[i] = Append(Posted, ok)[i]
  <2>1. SlotOf(h, i) # t /\ SlotOf(h, i) \in CqSlots
    BY <1>1, TailMoves DEF PostedIsSeq
  <2>2. cq'[SlotOf(h, i)] = cq[SlotOf(h, i)] BY <1>1, <2>1 DEF NvTypeOK
  <2>3. i \in 1 .. Len(Posted') BY <1>1, <1>2
  <2>4. Posted'[i] = cq'[SlotOf(h, i)].ok BY <1>1, <2>3 DEF PostedIsSeq
  <2>5. Posted[i] = cq[SlotOf(h, i)].ok BY DEF PostedIsSeq
  <2> QED BY <1>4, <2>2, <2>4, <2>5
<1>6. Posted'[n + 1] = ok
  <2>1. n + 1 \in 1 .. Len(Posted') BY <1>1, <1>2
  <2>2. Posted'[n + 1] = cq'[SlotOf(h, n + 1)].ok BY <1>1, <2>1 DEF PostedIsSeq
  <2> QED BY <1>1, <1>3, <2>2 DEF NvTypeOK
<1>7. \A i \in 1 .. (n + 1) : Posted'[i] = Append(Posted, ok)[i]
  BY <1>1, <1>4, <1>5, <1>6
<1>8. Posted' = Append(Posted, ok)
  BY <1>2, <1>4, <1>7, SeqEqual DEF PostedIsSeq
<1> QED BY <1>1, <1>2, <1>8 DEF Completions!Put

\* Every other step leaves the posted completions alone.
LEMMA NvNextRefines ==
    NvTypeOK /\ LapInv /\ NvTypeOK' /\ LapInv' /\ [NvNext]_nvVars
        => [Completions!Next]_(Completions!vars)
<1> SUFFICES ASSUME NvTypeOK, LapInv, NvTypeOK', LapInv', [NvNext]_nvVars
             PROVE  Completions!Next \/ UNCHANGED <<Posted, taken>>
  BY DEF Completions!vars
<1>1. PostedIsSeq /\ PostedIsSeq'
  <2>1. NvTypeOK /\ LapInv => PostedIsSeq BY PostedIs
  <2>2. (NvTypeOK /\ LapInv => PostedIsSeq)' BY PostedIs, PTL
  <2> QED BY <2>1, <2>2
<1>2. ASSUME UNCHANGED <<cq, taken>>, drive'.tail = drive.tail, host'.head = host.head
      PROVE  UNCHANGED <<Posted, taken>>
  BY <1>2 DEF Posted
<1>3. CASE Call
  <2>1. PICK op, l : Submit(op, l) BY <1>3 DEF Call, Write, Read, Flush
  <2> QED BY <2>1, <1>2 DEF Submit, NvTypeOK
<1>4. CASE Timeout BY <1>4, <1>2 DEF Timeout, NvTypeOK
<1>5. CASE UNCHANGED nvVars BY <1>5, <1>2 DEF nvVars
<1>6. CASE Poll BY <1>1, <1>6, PollGets DEF Completions!Next
<1>7. CASE Drive
  <2>1. PICK c \in drive.held, ok \in BOOLEAN : Complete(c, ok) BY <1>7 DEF Drive
  <2> QED BY <1>1, <2>1, DrivePuts DEF Completions!Next
<1> QED BY <1>3, <1>4, <1>5, <1>6, <1>7 DEF NvNext

\* For every queue size, and however many commands were given up, the completion
\* queue loses, repeats and reorders nothing: what goes wrong after a timeout is
\* whose completion the driver takes, never which.
THEOREM QueueRefinement == NvSpec => CompletionsFifo
<1>1. NvInit => Completions!Init
  <2> SUFFICES ASSUME NvInit PROVE Completions!Init
    OBVIOUS
  <2>1. NvTypeOK /\ LapInv BY InitType, InitLap
  <2>2. PostedIsSeq BY <2>1, PostedIs
  <2>3. Len(Posted) = 0 BY <2>2, NvmeAssumption DEF NvInit, PostedIsSeq, Span
  <2>4. Posted = <<>> BY <2>2, <2>3, EmptySeq DEF PostedIsSeq
  <2> QED BY <2>4 DEF NvInit, Completions!Init
<1>2. NvTypeOK /\ LapInv /\ NvTypeOK' /\ LapInv' /\ [NvNext]_nvVars
         => [Completions!Next]_(Completions!vars)
  BY NvNextRefines
<1> QED BY <1>1, <1>2, NvmeTypeCorrect, LapInvariance, PTL
        DEF NvSpec, Completions!Spec, CompletionsFifo

-------------------------------------------------------------------------------
(* Whose completion the driver takes *)

LagInv == IsFiniteSet(drive.held) /\ Lag

\* While no command was given up: the drive holds at most the command the driver waits for,
HeldIsOwn ==
    /\ host.at = "idle" => drive.held = {}
    /\ host.at = "poll" => drive.held \subseteq {host.cmd} /\ ret = NoRet

\* what was acknowledged is in the drive's cache, and on the media if a flush followed,
MediaInv ==
    /\ \A l \in Lbas : acked[l] # None => drive.cache[l] = acked[l]
    /\ \A l \in flushed : acked[l] # None /\ drive.nand[l] = acked[l]

\* a write being done is not acknowledged, and a completion is of the command waited for.
CommandInv ==
    host.at = "poll" =>
        /\ host.cmd.op = "write" => acked[host.cmd.lba] = None /\ host.cmd.lba \notin flushed
        /\ drive.held = {} /\ cq[host.head].ok =>
              /\ host.cmd.op = "write" => drive.cache[host.cmd.lba] = buf
              /\ host.cmd.op = "read" => buf = drive.cache[host.cmd.lba]
              /\ host.cmd.op = "flush" => drive.nand = drive.cache

StepInv == timeouts = 0 => HeldIsOwn /\ MediaInv /\ CommandInv /\ ReadsBack

QueueInv == NvTypeOK /\ LapInv /\ LagInv /\ StepInv

LEMMA QueueInitially == NvInit => QueueInv
<1> SUFFICES ASSUME NvInit PROVE QueueInv OBVIOUS
<1>1. NvTypeOK /\ LapInv BY InitType, InitLap
<1>2. PostedIsSeq BY <1>1, PostedIs
<1>3. Len(Posted) = 0 BY <1>2, NvmeAssumption DEF NvInit, PostedIsSeq, Span
<1>4. drive.held = {} /\ host.at = "idle" /\ timeouts = 0 BY DEF NvInit
<1>5. LagInv BY <1>3, <1>4, FS_EmptySet DEF LagInv, Lag
<1>6. StepInv
  BY DEF NvInit, StepInv, HeldIsOwn, MediaInv, CommandInv, ReadsBack, NoRet
<1> QED BY <1>1, <1>5, <1>6 DEF QueueInv

\* A command is issued, handed to the drive and not yet complete.
LEMMA CallLag ==
    ASSUME QueueInv, NEW op, NEW l, Submit(op, l)
    PROVE  LagInv'
<1> DEFINE c == [cid |-> NextCid, op |-> op, lba |-> l]
<1>1. /\ host.at = "idle" /\ \A h \in drive.held : h.cid # NextCid
      /\ host' = [host EXCEPT !.at = "poll", !.cmd = c, !.cid = c.cid]
      /\ drive' = [drive EXCEPT !.held = @ \union {c}]
      /\ UNCHANGED <<cq, timeouts>>
  BY DEF Submit
<1>2. c.cid = NextCid OBVIOUS
<1>3. c \notin drive.held BY <1>1, <1>2
<1> HIDE DEF c
<1>4. /\ host'.at = "poll" /\ host'.head = host.head
      /\ drive'.held = drive.held \union {c} /\ drive'.tail = drive.tail
  BY <1>1 DEF QueueInv, NvTypeOK
<1>5. Posted' = Posted BY <1>1, <1>4 DEF Posted
<1>6. /\ IsFiniteSet(drive.held \union {c})
      /\ Cardinality(drive.held \union {c}) = Cardinality(drive.held) + 1
      /\ Cardinality(drive.held) \in Nat
  BY <1>3, FS_AddElement, FS_CardinalityType DEF QueueInv, LagInv
<1>7. Len(Posted) \in Nat /\ timeouts \in Nat
  BY PostedIs, NvmeAssumption DEF QueueInv, PostedIsSeq, NvTypeOK
<1> QED BY <1>1, <1>4, <1>5, <1>6, <1>7 DEF QueueInv, LagInv, Lag

\* Over and above: when no command was given up, each is answered before the next.
LEMMA CallStep ==
    ASSUME QueueInv, Call
    PROVE  StepInv'
<1> SUFFICES ASSUME timeouts' = 0 PROVE (HeldIsOwn /\ MediaInv /\ CommandInv /\ ReadsBack)'
  BY DEF StepInv
<1>1. PICK op, l : Submit(op, l) /\ \/ op = "write" /\ l \in Lbas
                                    \/ op = "read" /\ l \in Lbas
                                    \/ op = "flush" /\ l = None
  BY DEF Call, Write, Read, Flush
<1> DEFINE c == [cid |-> NextCid, op |-> op, lba |-> l]
<1>2. /\ host.at = "idle" /\ host' = [host EXCEPT !.at = "poll", !.cmd = c, !.cid = c.cid]
      /\ drive' = [drive EXCEPT !.held = @ \union {c}]
      /\ ret' = NoRet /\ UNCHANGED <<cq, taken, timeouts>>
  BY <1>1 DEF Submit
<1>3. HeldIsOwn /\ MediaInv BY <1>2 DEF QueueInv, StepInv
<1>4. /\ host'.at = "poll" /\ host'.cmd = c /\ drive'.held = {c}
      /\ drive'.cache = drive.cache /\ drive'.nand = drive.nand
  BY <1>2, <1>3 DEF QueueInv, NvTypeOK, HeldIsOwn
<1>5. \/ op = "write" /\ l \in Lbas /\ acked' = [acked EXCEPT ![l] = None] /\ flushed' = flushed \ {l}
      \/ op # "write" /\ UNCHANGED <<acked, flushed>>
  <2>1. CASE \E k \in Lbas, d \in Data : Write(k, d)
    <3>1. PICK k \in Lbas, d \in Data : Write(k, d) BY <2>1
    <3>2. host'.cmd.op = "write" /\ host'.cmd.lba = k
      BY <3>1 DEF Write, Submit, QueueInv, NvTypeOK
    <3>3. op = "write" /\ l = k BY <1>4, <3>2
    <3> QED BY <3>1, <3>3 DEF Write
  <2>2. CASE (\E k \in Lbas : Read(k)) \/ Flush
    <3>1. PICK o, k : /\ o \in {"read", "flush"} /\ Submit(o, k)
                      /\ UNCHANGED <<acked, flushed>>
      BY <2>2 DEF Read, Flush
    <3>2. host'.cmd.op = o BY <3>1 DEF Submit, QueueInv, NvTypeOK
    <3>3. o = op /\ o # "write" BY <1>4, <3>1, <3>2
    <3> QED BY <3>1, <3>3
  <2> QED BY <2>1, <2>2 DEF Call
<1>6. HeldIsOwn' BY <1>2, <1>4 DEF HeldIsOwn
<1>7. MediaInv' BY <1>3, <1>4, <1>5 DEF MediaInv, QueueInv, NvTypeOK
<1>8. CommandInv' BY <1>4, <1>5 DEF CommandInv, QueueInv, NvTypeOK
<1>9. ReadsBack' BY <1>2 DEF ReadsBack, NoRet
<1> QED BY <1>6, <1>7, <1>8, <1>9

\* The driver takes a completion.
LEMMA PollLag == ASSUME QueueInv, PostedIsSeq, PostedIsSeq', Poll PROVE LagInv'
<1>1. /\ host.at = "poll" /\ host'.at = "idle" /\ UNCHANGED <<drive, timeouts>>
      /\ host.head \in CqSlots /\ drive.tail \in CqSlots /\ host.phase \in Bit
      /\ host'.head = NextEntry(host.head) /\ cq[host.head].phase = host.phase
      /\ drive.phase \in Bit
  BY NextSlot DEF Poll, Advance, QueueInv, NvTypeOK, NextEntry
<1>2. host.head # drive.tail BY <1>1 DEF QueueInv, LapInv, CqSlots, Bit
<1>3. Len(Posted') = Len(Posted) - 1 /\ Len(Posted) \in Nat
  BY <1>1, <1>2, HeadMoves DEF PostedIsSeq
<1>4. Cardinality(drive.held) \in Nat /\ timeouts \in Nat
  BY FS_CardinalityType, NvmeAssumption DEF QueueInv, LagInv, NvTypeOK
<1> QED BY <1>1, <1>3, <1>4 DEF QueueInv, LagInv, Lag

\* The driver gives its command up: one more completion is to come.
LEMMA TimeoutLag == ASSUME QueueInv, Timeout PROVE LagInv' /\ StepInv'
<1>1. /\ host.at = "poll" /\ host'.at = "idle" /\ UNCHANGED <<drive, cq>>
      /\ host'.head = host.head /\ timeouts' = timeouts + 1
  BY DEF Timeout, QueueInv, NvTypeOK
<1>2. Posted' = Posted BY <1>1 DEF Posted
<1>3. Cardinality(drive.held) \in Nat /\ timeouts \in Nat
  BY FS_CardinalityType, NvmeAssumption DEF QueueInv, LagInv, NvTypeOK
<1>4. LagInv' BY <1>1, <1>2, <1>3 DEF QueueInv, LagInv, Lag
<1> QED BY <1>1, <1>3, <1>4 DEF StepInv

\* The drive executes a command it holds.
LEMMA DriveLag ==
    ASSUME QueueInv, PostedIsSeq, PostedIsSeq', NEW c \in drive.held, NEW ok \in BOOLEAN,
           Complete(c, ok)
    PROVE  LagInv'
<1>1. /\ UNCHANGED <<host, timeouts>> /\ drive'.held = drive.held \ {c}
      /\ drive'.tail = NextEntry(drive.tail) /\ NextEntry(drive.tail) # host.head
      /\ host.head \in CqSlots /\ drive.tail \in CqSlots
  BY NextSlot DEF Complete, Full, Execute, Post, QueueInv, NvTypeOK, NextEntry
<1>2. Len(Posted') = Len(Posted) + 1 /\ Len(Posted) \in Nat
  BY <1>1, TailMoves DEF PostedIsSeq
<1>3. /\ IsFiniteSet(drive.held \ {c})
      /\ Cardinality(drive.held \ {c}) = Cardinality(drive.held) - 1
      /\ Cardinality(drive.held) \in Nat
  BY FS_RemoveElement, FS_CardinalityType DEF QueueInv, LagInv
<1>4. timeouts \in Nat BY NvmeAssumption DEF QueueInv, NvTypeOK
<1> QED BY <1>1, <1>2, <1>3, <1>4 DEF QueueInv, LagInv, Lag

\* With no command given up, one that the driver waits for is with the drive or posted.
LEMMA OneOut ==
    ASSUME QueueInv, timeouts = 0
    PROVE  /\ host.at = "poll" /\ host.head # drive.tail => drive.held = {}
           /\ host.at = "poll" /\ drive.held # {} => host.head = drive.tail
<1>1. PostedIsSeq BY PostedIs DEF QueueInv
<1>2. host.head # drive.tail => Len(Posted) > 0
  BY <1>1, NvmeAssumption DEF QueueInv, NvTypeOK, CqSlots, PostedIsSeq, Span
<1>3. /\ Cardinality(drive.held) \in Nat /\ Len(Posted) \in Nat
      /\ Cardinality(drive.held) = 0 <=> drive.held = {}
  BY <1>1, FS_CardinalityType, FS_EmptySet DEF QueueInv, LagInv, PostedIsSeq
<1>4. host.at = "poll" => Cardinality(drive.held) + Len(Posted) = 1
  BY DEF QueueInv, LagInv, Lag
<1> QED BY <1>2, <1>3, <1>4

\* A command that returned 0 was done.
LEMMA PollStep == ASSUME QueueInv, Poll PROVE StepInv'
<1> SUFFICES ASSUME timeouts' = 0 PROVE (HeldIsOwn /\ MediaInv /\ CommandInv /\ ReadsBack)'
  BY DEF StepInv
<1> DEFINE c == host.cmd
           ok == cq[host.head].ok
<1>1. /\ host.at = "poll" /\ host'.at = "idle" /\ UNCHANGED <<cq, drive, buf, timeouts>>
      /\ cq[host.head].phase = host.phase /\ c \in Command
      /\ host.head \in CqSlots /\ drive.tail \in CqSlots /\ host.phase \in Bit
      /\ drive.phase \in Bit
  BY DEF Poll, QueueInv, NvTypeOK
<1>2. /\ ret' = [op |-> c.op, lba |-> c.lba, ok |-> ok]
      /\ acked' = IF ok /\ c.op = "write" THEN [acked EXCEPT ![c.lba] = buf] ELSE acked
      /\ flushed' = IF ok /\ c.op = "flush" THEN {l \in Lbas : acked[l] # None} ELSE flushed
  BY DEF Poll, Returned, StatusOk
<1>3. HeldIsOwn /\ MediaInv /\ CommandInv /\ timeouts = 0 BY <1>1 DEF QueueInv, StepInv
<1>4. host.head # drive.tail BY <1>1 DEF QueueInv, LapInv, CqSlots, Bit
<1>5. drive.held = {} BY <1>1, <1>3, <1>4, OneOut
<1>6. /\ ok /\ c.op = "write" => drive.cache[c.lba] = buf
      /\ ok /\ c.op = "read" => buf = drive.cache[c.lba]
      /\ ok /\ c.op = "flush" => drive.nand = drive.cache
      /\ c.op = "write" => acked[c.lba] = None /\ c.lba \notin flushed
  BY <1>1, <1>3, <1>5 DEF CommandInv
<1>7. /\ acked \in [Lbas -> Sectors \union {None}] /\ flushed \subseteq Lbas
      /\ c.op \in {"read", "write"} => c.lba \in Lbas
      /\ c.op \in {"read", "write", "flush"}
  BY <1>1 DEF QueueInv, NvTypeOK, Command
<1> HIDE DEF c, ok
<1>8. HeldIsOwn' BY <1>1, <1>5 DEF HeldIsOwn
<1>9. MediaInv'
  <2>1. CASE ok /\ c.op = "write" BY <1>1, <1>2, <1>3, <1>6, <1>7, <2>1 DEF MediaInv
  <2>2. CASE ok /\ c.op = "flush" BY <1>1, <1>2, <1>3, <1>6, <1>7, <2>2 DEF MediaInv
  <2>3. CASE ~ok \/ c.op = "read" BY <1>1, <1>2, <1>3, <1>7, <2>3 DEF MediaInv
  <2> QED BY <1>7, <2>1, <2>2, <2>3
<1>10. CommandInv' BY <1>1 DEF CommandInv
<1>11. ReadsBack'
  <2> SUFFICES ASSUME ret'.op = "read", ret'.ok, acked'[ret'.lba] # None
               PROVE  buf' = acked'[ret'.lba]
    BY DEF ReadsBack
  <2>1. c.op = "read" /\ ok /\ ret'.lba = c.lba BY <1>2
  <2>2. acked' = acked /\ c.lba \in Lbas BY <1>2, <1>7, <2>1
  <2> QED BY <1>1, <1>3, <1>6, <2>1, <2>2 DEF MediaInv
<1> QED BY <1>8, <1>9, <1>10, <1>11

\* The command the drive executes is the one waited for.
LEMMA DriveStep ==
    ASSUME QueueInv, NEW c \in drive.held, NEW ok \in BOOLEAN, Complete(c, ok)
    PROVE  StepInv'
<1> SUFFICES ASSUME timeouts' = 0 PROVE (HeldIsOwn /\ MediaInv /\ CommandInv /\ ReadsBack)'
  BY DEF StepInv
<1>1. /\ UNCHANGED <<host, ret, acked, flushed, taken, timeouts>>
      /\ drive' = IF ok THEN Execute(c) ELSE Post(c)
      /\ buf' = IF ok /\ c.op = "read" THEN drive.cache[c.lba] ELSE buf
      /\ cq' = [cq EXCEPT ![drive.tail] = [phase |-> drive.phase, ok |-> ok]]
  BY DEF Complete
<1>2. HeldIsOwn /\ MediaInv /\ CommandInv /\ timeouts = 0 BY <1>1 DEF QueueInv, StepInv
<1>3. host.at = "poll" /\ c = host.cmd /\ drive.held = {c} /\ ret = NoRet
  BY <1>2 DEF HeldIsOwn, QueueInv, NvTypeOK
<1>4. host.head = drive.tail BY <1>2, <1>3, OneOut
<1>5. /\ drive'.held = {}
      /\ drive'.cache = IF ok /\ c.op = "write" THEN [drive.cache EXCEPT ![c.lba] = buf]
                        ELSE drive.cache
      /\ drive'.nand = IF ok /\ c.op = "flush" THEN drive.cache ELSE drive.nand
  <2>1. /\ drive \in [held : SUBSET Command, tail : CqSlots, phase : Bit,
                       cache : [Lbas -> Sectors], nand : [Lbas -> Sectors]]
    BY DEF QueueInv, NvTypeOK
  <2>2. Post(c).held = {} /\ Post(c).cache = drive.cache /\ Post(c).nand = drive.nand
    BY <1>3, <2>1 DEF Post
  <2>3. CASE ok BY <1>1, <1>3, <2>1, <2>2, <2>3 DEF Execute, Post
  <2>4. CASE ~ok BY <1>1, <2>2, <2>4
  <2> QED BY <2>3, <2>4
<1>6. /\ c.op \in {"read", "write"} => c.lba \in Lbas
      /\ c.op \in {"read", "write", "flush"}
      /\ drive.cache \in [Lbas -> Sectors] /\ flushed \subseteq Lbas
  BY DEF QueueInv, NvTypeOK, Command
<1>7. c.op = "write" => acked[c.lba] = None /\ c.lba \notin flushed
  BY <1>2, <1>3 DEF CommandInv
<1>8. HeldIsOwn' BY <1>1, <1>3, <1>5 DEF HeldIsOwn
<1>9. MediaInv' BY <1>1, <1>2, <1>5, <1>6, <1>7 DEF MediaInv
<1>10. cq'[host.head].ok = ok BY <1>1, <1>4 DEF QueueInv, NvTypeOK
<1>11. CommandInv' BY <1>1, <1>3, <1>5, <1>6, <1>7, <1>10 DEF CommandInv
<1>12. ReadsBack' BY <1>1, <1>3 DEF ReadsBack, NoRet
<1> QED BY <1>8, <1>9, <1>11, <1>12

LEMMA QueueInductive == ASSUME QueueInv, [NvNext]_nvVars PROVE QueueInv'
<1>1. NvTypeOK' /\ LapInv' BY NextType, NextLap DEF QueueInv
<1>2. PostedIsSeq /\ PostedIsSeq'
  <2>1. NvTypeOK /\ LapInv => PostedIsSeq BY PostedIs
  <2>2. (NvTypeOK /\ LapInv => PostedIsSeq)' BY PostedIs, PTL
  <2> QED BY <1>1, <2>1, <2>2 DEF QueueInv
<1>3. CASE Call
  <2>1. PICK op, l : Submit(op, l) BY <1>3 DEF Call, Write, Read, Flush
  <2> QED BY <1>1, <1>3, <2>1, CallLag, CallStep DEF QueueInv
<1>4. CASE Poll BY <1>1, <1>2, <1>4, PollLag, PollStep DEF QueueInv
<1>5. CASE Timeout BY <1>1, <1>5, TimeoutLag DEF QueueInv
<1>6. CASE Drive
  <2>1. PICK c \in drive.held, ok \in BOOLEAN : Complete(c, ok) BY <1>6 DEF Drive
  <2> QED BY <1>1, <1>2, <2>1, DriveLag, DriveStep DEF QueueInv
<1>7. CASE UNCHANGED nvVars
  <2>1. LagInv' BY <1>7 DEF nvVars, QueueInv, LagInv, Lag, Posted
  <2>2. StepInv'
    BY <1>7 DEF nvVars, QueueInv, StepInv, HeldIsOwn, MediaInv, CommandInv, ReadsBack
  <2> QED BY <1>1, <2>1, <2>2 DEF QueueInv
<1> QED BY <1>3, <1>4, <1>5, <1>6, <1>7 DEF NvNext

\* However many commands the driver has given up, it is behind by exactly those; and as long as
\* it gave up none, a write that returned 0 and was flushed is on the media and is what a read
\* gives back, for every queue size, set of sectors and order of completion (nvme.c, main_x86.c).
THEOREM QueueKeepsStep == NvSpec => []QueueInStep
<1>1. QueueInv => QueueInStep
  BY DEF QueueInv, LagInv, StepInv, MediaInv, QueueInStep, InStep, FlushedIsDurable
<1> QED BY <1>1, QueueInitially, QueueInductive, PTL DEF NvSpec
================================================================================
