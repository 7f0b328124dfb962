----------------------------- MODULE StoresProofs -----------------------------
(***************************************************************************)
(* Proofs about the replay floor (ReplayFloor), for every width of its      *)
(* counters, every reserve and every deployment; about the store of         *)
(* control-IN turns (RecallStore), for every size and any number of turns,  *)
(* errors and stops; and about MCStores, which puts them beside the other   *)
(* stores: what is proved of them, of the decision cache and of its growth  *)
(* (CacheProofs) and of the household store (BeliefProofs) holds there too. *)
(***************************************************************************)
EXTENDS MCStores, CacheProofs, BeliefProofs

------------------------------------------------------------------------------
(* Write counts. *)

\* NextWc stays in range and Newer orders a count and its successor, also where
\* the count wraps.
LEMMA WriteCounts ==
    ASSUME NEW w \in Wcs
    PROVE  /\ NextWc(w) \in Wcs
           /\ Newer(NextWc(w), w) /\ ~Newer(w, NextWc(w))
           /\ NextLba(w) \in Sectors /\ NextLba(NextWc(w)) = Other(NextLba(w))
BY FloorAssumption DEF Wcs, NextWc, Newer, NextLba, Sectors, Other

\* A number below the divisor is its own remainder.
LEMMA ModSmall ==
    ASSUME NEW n \in Nat \ {0}, NEW x \in 0 .. (n - 1)
    PROVE  x % n = x
OBVIOUS

\* A reservation fits its field.
LEMMA ResvType == ASSUME NEW s \in Seqs PROVE NewResv(s) \in 0 .. (SeqRange - 1)
BY FloorAssumption DEF NewResv, Seqs

\* A reservation stays ahead of the frame it is made for.
LEMMA StaysAheadOfFrame ==
    ASSUME SafeDeployment, NEW s \in Seqs
    PROVE  NewResv(s) = s + Reserve /\ NewResv(s) > s
<1>1. SeqRange \in Nat \ {0} /\ s + Reserve \in 0 .. (SeqRange - 1) /\ Reserve > 0
  BY FloorAssumption DEF SafeDeployment, Seqs
<1>2. NewResv(s) = s + Reserve
  BY <1>1, ModSmall DEF NewResv
<1> QED BY <1>1, <1>2, FloorAssumption DEF Seqs

\* The count before the one PA writes next.
LEMMA TopCount ==
    ASSUME wc \in Wcs
    PROVE  Top \in Wcs /\ NextWc(Top) = wc /\ NextLba(wc) = Other(NextLba(Top))
BY FloorAssumption DEF Top, Wcs, NextWc, NextLba, Other

\* There are two sectors.
LEMMA TwoSectors ==
    ASSUME NEW x \in Sectors
    PROVE  Other(x) \in Sectors /\ Other(x) # x /\ Other(Other(x)) = x
BY DEF Sectors, Other

------------------------------------------------------------------------------
(* What a reset may leave. *)

\* The sectors of a disk a reset may leave.
LEMMA ResetSectors ==
    ASSUME NEW d \in AfterReset, NEW x \in Sectors
    PROVE  \/ PowerCuts /\ d[x] \in CutOutcomes(x)
           \/ WarmResets /\ d[x] \in WarmOutcomes(x)
BY DEF AfterReset, AfterCut, AfterWarm, Disk, Sectors

\* They hold contents.
LEMMA ResetType ==
    ASSUME TypeOK, NEW d \in AfterReset
    PROVE  d \in [Sectors -> Contents]
<1>1. Torn \in Contents /\ Record(NewResv(frame), wc) \in Contents
  <2>1. NewResv(frame) \in 0 .. (SeqRange - 1)
    BY FloorAssumption DEF TypeOK, NewResv, Seqs
  <2> QED BY <2>1 DEF TypeOK, Contents
<1>2. \A x \in Sectors : CutOutcomes(x) \subseteq Contents /\ WarmOutcomes(x) \subseteq Contents
  BY <1>1 DEF TypeOK, CutOutcomes, WarmOutcomes, InFlight
<1> QED BY <1>2 DEF AfterReset, AfterCut, AfterWarm, Disk, Sectors

\* When every sector has no more outcomes than before, every disk a reset may
\* leave could be left before.
LEMMA ResetShrinks ==
    ASSUME UNCHANGED resets,
           \A x \in Sectors : /\ PowerCuts => CutOutcomes(x)' \subseteq CutOutcomes(x)
                              /\ WarmResets => WarmOutcomes(x)' \subseteq WarmOutcomes(x)
    PROVE  AfterReset' \subseteq AfterReset
BY DEF PowerCuts, WarmResets, AfterReset, AfterCut, AfterWarm, Disk, Sectors

------------------------------------------------------------------------------
(* Disks that are safe to boot from. *)

\* The record that rules is the one ctrl_floor_select takes.
LEMMA RulingWins ==
    ASSUME NEW d \in [Sectors -> Contents], NEW x \in Sectors,
           NEW f \in 0 .. (SeqRange - 1), NEW w \in Wcs, Rules(d, x, f, w)
    PROVE  Status(d) = "OK" /\ d[Winner(d)] = Record(f, w)
<1>1. Valid(d[x]) /\ d[x].wc = w
  BY DEF Rules, Valid, Record
<1>2. Valid(d[Other(x)]) => /\ Newer(w, d[Other(x)].wc)
                            /\ ~Newer(d[Other(x)].wc, w)
  <2>1. ASSUME Valid(d[Other(x)]) PROVE d[Other(x)].wc \in Wcs
    BY <2>1, TwoSectors DEF Contents, Valid, Zero, Torn, Record
  <2> QED BY <2>1, WriteCounts DEF Rules
<1>3. Winner(d) = x
  BY <1>1, <1>2 DEF Winner, Sectors, Other
<1> QED BY <1>1, <1>3 DEF Rules, Status, Sectors

\* A good disk covers what was accepted and does not close the lane.
LEMMA GoodBoots ==
    ASSUME NEW d \in [Sectors -> Contents], Good(d, Accepted)
    PROVE  /\ Accepted # {} => Status(d) = "OK"
           /\ \A s \in Accepted : Status(d) = "OK" => s <= d[Winner(d)].floor
<1>1. CASE Accepted = {}
  BY <1>1
<1>2. CASE Accepted # {}
  <2>1. PICK x \in Sectors, f \in 0 .. (SeqRange - 1), w \in Wcs :
           Rules(d, x, f, w) /\ \A s \in Accepted : s <= f
    BY <1>2 DEF Good
  <2>2. Status(d) = "OK" /\ d[Winner(d)] = Record(f, w)
    BY <2>1, RulingWins
  <2>3. d[Winner(d)].floor = f
    BY <2>2 DEF Record
  <2> QED BY <2>1, <2>2, <2>3
<1> QED BY <1>1, <1>2

\* A disk on which nothing ruled before and PA's next record does now is good.
LEMMA NewRecordGood ==
    ASSUME TypeOK, SafeDeployment, NEW d \in [Sectors -> Contents], NEW s \in Seqs,
           Holds(d), Due(s), \A a \in Accepted : a <= resv,
           d[NextLba(wc)] = Record(NewResv(s), wc)
    PROVE  Good(d, Accepted)
<1> DEFINE nxt == NextLba(wc)
<1>1. wc \in Wcs /\ nxt \in Sectors /\ NewResv(s) \in 0 .. (SeqRange - 1)
  BY FloorAssumption, WriteCounts DEF TypeOK, NewResv, Seqs
<1>2. \A a \in Accepted : a <= NewResv(s)
  <2>1. NewResv(s) > s /\ s >= resv
    BY StaysAheadOfFrame DEF Due
  <2> QED BY <1>1, <2>1, FloorAssumption DEF TypeOK, Seqs, Accepted
<1>3. Valid(d[Other(nxt)]) => wc = NextWc(d[Other(nxt)].wc)
  BY <1>1, TopCount DEF Holds, Zero, Record, Valid
<1>4. Rules(d, nxt, NewResv(s), wc)
  BY <1>3 DEF Rules
<1> QED BY <1>1, <1>2, <1>4 DEF Good

\* A disk that holds PA's reservation, with nothing newer, is good.
LEMMA HeldRecordGood ==
    ASSUME TypeOK, NEW d \in [Sectors -> Contents], NEW acc,
           Holds(d), Spare(d) \/ ~Valid(d[NextLba(wc)]),
           d[Other(NextLba(wc))] = Zero => acc = {}, \A s \in acc : s <= resv
    PROVE  Good(d, acc)
<1> DEFINE nxt == NextLba(wc)
<1>1. wc \in Wcs /\ nxt \in Sectors /\ resv \in 0 .. (SeqRange - 1)
  BY WriteCounts DEF TypeOK
<1>2. CASE d[Other(nxt)] = Zero /\ acc = {}
  <2>1. ~Valid(d[Other(nxt)]) /\ ~Valid(d[nxt])
    BY <1>2 DEF Spare, Zero, Valid
  <2> QED BY <1>1, <1>2, <2>1 DEF Good, Sectors, Other
<1>3. CASE d[Other(nxt)] = Record(resv, Top)
  <2>1. Top \in Wcs /\ NextLba(Top) \in Sectors /\ nxt = Other(NextLba(Top))
    BY <1>1, TopCount, WriteCounts
  <2>2. NextLba(Top) = Other(nxt) /\ Other(Other(nxt)) = nxt
    BY <2>1, <1>1, TwoSectors
  <2>3. Valid(d[nxt]) => Top = NextWc(d[nxt].wc)
    BY <1>3 DEF Spare
  <2>4. Rules(d, Other(nxt), resv, Top)
    BY <1>3, <2>2, <2>3 DEF Rules
  <2> QED BY <1>1, <2>1, <2>2, <2>4 DEF Good
<1> QED BY <1>2, <1>3 DEF Holds

------------------------------------------------------------------------------
(* Type correctness. *)

\* The record a resume takes is a record.
LEMMA WinnerType ==
    ASSUME NEW d \in [Sectors -> Contents], Status(d) = "OK"
    PROVE  /\ d[Winner(d)].floor \in 0 .. (SeqRange - 1)
           /\ d[Winner(d)].wc \in Wcs
<1>1. Winner(d) \in Sectors /\ Valid(d[Winner(d)])
  BY DEF Winner, Status, Sectors
<1> QED BY <1>1 DEF Contents, Valid, Record, Zero, Torn

\* The values PA starts from fit their fields.
LEMMA StartTypes == 0 \in Seqs /\ 0 \in 0 .. (SeqRange - 1) /\ 1 \in Wcs
BY FloorAssumption DEF Seqs, Wcs

\* The initial state is typed.
LEMMA InitType == Init => TypeOK
<1> SUFFICES ASSUME Init PROVE TypeOK
  OBVIOUS
<1>1. media \in [Sectors -> Contents] /\ cache \in [Sectors -> Contents]
  BY DEF Init, Contents
<1>2. accepts \in [Seqs -> Nat]
  BY DEF Init
<1> QED BY <1>1, <1>2, StartTypes DEF Init, TypeOK

\* Every step keeps the types.
LEMMA NextType == TypeOK /\ [Next]_vars => TypeOK'
<1> SUFFICES ASSUME TypeOK, [Next]_vars PROVE TypeOK'
  OBVIOUS
<1>1. CASE Boot
  <2>1. CASE Status(cache) = "OK"
    BY <1>1, <2>1, StartTypes, WinnerType, WriteCounts DEF Boot, drive, TypeOK
  <2>2. CASE Status(cache) # "OK"
    BY <1>1, <2>2, StartTypes DEF Boot, drive, TypeOK
  <2> QED BY <2>1, <2>2
<1>2. CASE BootReadError
  BY <1>2, StartTypes DEF BootReadError, drive, TypeOK
<1>3. ASSUME NEW s \in Seqs, Receive(s) PROVE TypeOK'
  BY <1>3 DEF Receive, drive, TypeOK
<1>4. CASE WriteDone
  <2>1. Record(NewResv(frame), wc) \in Contents
    BY ResvType DEF TypeOK, Contents
  <2> QED BY <1>4, <2>1 DEF WriteDone, TypeOK
<1>5. CASE FlushDone
  BY <1>5, ResvType, WriteCounts DEF FlushDone, TypeOK
<1>6. CASE PersistFails
  <2>1. {Torn, Record(NewResv(frame), wc)} \subseteq Contents
    BY ResvType DEF TypeOK, Contents
  <2> QED BY <1>6, <2>1 DEF PersistFails, TypeOK
<1>7. ASSUME NEW fresh \in BOOLEAN, Check(fresh) PROVE TypeOK'
  <2>1. frame \in 0 .. (SeqRange - 1)
    BY FloorAssumption DEF TypeOK, Seqs
  <2> QED BY <1>7, <2>1 DEF Check, drive, TypeOK
<1>8. ASSUME NEW x \in Sectors, Destage(x) PROVE TypeOK'
  BY <1>8 DEF Destage, volatile, TypeOK
<1>9. CASE PowerCut
  BY <1>9, ResetType DEF PowerCut, Down, TypeOK, AfterReset
<1>10. CASE WarmReset
  BY <1>10, ResetType DEF WarmReset, Down, TypeOK, AfterReset
<1>11. CASE UNCHANGED vars
  BY <1>11 DEF vars, TypeOK
<1> QED BY <1>1, <1>2, <1>3, <1>4, <1>5, <1>6, <1>7, <1>8, <1>9, <1>10, <1>11 DEF Next

\* Every variable of the floor protocol keeps its type, whatever resets happen.
THEOREM FloorTypeCorrect == Spec => []TypeOK
BY InitType, NextType, PTL DEF Spec

------------------------------------------------------------------------------
(* The inductive invariant. *)

\* A drive without dirty sectors, outside a write, survives a reset as it is.
LEMMA OneDisk ==
    ASSUME cache \in [Sectors -> Contents], pc # "write", PowerCuts => media = cache
    PROVE  \A d \in AfterReset : d = cache
<1>1. \A x \in Sectors : WarmOutcomes(x) = {cache[x]}
  BY DEF WarmOutcomes, InFlight
<1>2. PowerCuts => \A x \in Sectors : CutOutcomes(x) = {cache[x]}
  BY DEF CutOutcomes, InFlight
<1>3. Disk(cache["A"], cache["B"]) = cache
  BY DEF Disk, Sectors
<1> QED BY <1>1, <1>2, <1>3 DEF AfterReset, AfterCut, AfterWarm, Sectors

\* A step that leaves the drive fewer outcomes, boots nothing new and accepts
\* nothing keeps CrashSafe.
LEMMA CrashSafeStable ==
    ASSUME CrashSafe, UNCHANGED accepts, pc' # "off", AfterReset' \subseteq AfterReset
    PROVE  CrashSafe'
BY DEF CrashSafe, Accepted

\* A box never switched on has nothing to lose.
LEMMA InitInv == ASSUME Init PROVE IInv
<1>1. TypeOK
  BY InitType
<1>2. Accepted = {} /\ AcceptedOnce
  BY DEF Init, Accepted, AcceptedOnce
<1>3. media = cache /\ pc = "off" /\ \A x \in Sectors : cache[x] = Zero
  BY DEF Init
<1>4. \A d \in AfterReset : d = cache
  BY <1>1, <1>3, OneDisk DEF TypeOK
<1>5. Good(cache, Accepted)
  BY <1>2, <1>3 DEF Good, Valid, Zero, Sectors
<1> QED BY <1>1, <1>2, <1>3, <1>4, <1>5 DEF IInv, CrashSafe, Booted, Durable, PowerCuts, Pending

\* Boot resumes at or above everything accepted, and finds its next sector.
LEMMA BootInv == ASSUME IInv, SafeDeployment, Boot PROVE IInv'
<1>1. TypeOK /\ TypeOK'
  BY NextType DEF IInv, Next
<1>2. pc = "off" /\ pc' = "idle" /\ UNCHANGED <<media, cache, accepts, resets>>
  BY DEF Boot, drive
<1>3. Accepted' = Accepted
  BY <1>2 DEF Accepted
<1>4. AfterReset' \subseteq AfterReset
  BY <1>2, ResetShrinks DEF CutOutcomes, WarmOutcomes, InFlight
<1>5. CrashSafe'
  BY <1>2, <1>4, CrashSafeStable DEF IInv
<1>6. AcceptedOnce' /\ Durable' /\ Pending'
  BY <1>2 DEF IInv, AcceptedOnce, Durable, PowerCuts, Pending
<1>7. Booted'
  <2>1. CASE Status(cache) = "OK"
    <3>1. ~(~Valid(cache["A"]) /\ ~Valid(cache["B"]))
      BY <2>1 DEF Status
    <3>2. PICK x \in Sectors, f \in 0 .. (SeqRange - 1), w \in Wcs :
             Rules(cache, x, f, w) /\ \A s \in Accepted : s <= f
      BY <1>2, <3>1 DEF IInv, CrashSafe, Good
    <3>3. cache[Winner(cache)] = Record(f, w)
      BY <1>1, <3>2, RulingWins DEF TypeOK
    <3>4. seq_floor' = f /\ resv' = f /\ wc' = NextWc(w)
      BY <2>1, <3>3 DEF Boot, Record
    <3>5. NextLba(wc)' = Other(x) /\ Other(Other(x)) = x /\ Top' = w
      <4>1. NextLba(NextWc(w)) = Other(NextLba(w)) /\ NextLba(w) = x
        BY <3>2, WriteCounts DEF Rules
      <4>2. Top' = w
        BY <3>4, FloorAssumption DEF Top, NextWc, Wcs
      <4> QED BY <3>4, <4>1, <4>2, TwoSectors DEF NextLba
    <3>6. Holds(cache)'
      BY <1>2, <3>2, <3>4, <3>5 DEF Holds, Rules
    <3>7. Spare(cache)'
      BY <1>2, <3>2, <3>5 DEF Spare, Rules, Record, Zero
    <3> QED BY <1>1, <1>3, <3>2, <3>4, <3>6, <3>7 DEF Booted, TypeOK
  <2>2. CASE Status(cache) = "FRESH"
    <3>1. cache["A"] = Zero /\ cache["B"] = Zero
      BY <2>2 DEF Status
    <3>2. Accepted = {}
      <4>1. Good(cache, Accepted)
        BY <1>2 DEF IInv, CrashSafe
      <4>2. \A x \in Sectors : ~Valid(cache[x])
        BY <3>1 DEF Sectors, Valid, Zero
      <4>3. \A x \in Sectors, f \in 0 .. (SeqRange - 1), w \in Wcs : ~Rules(cache, x, f, w)
        BY <4>2 DEF Rules, Valid, Record
      <4> QED BY <4>1, <4>3 DEF Good
    <3>3. seq_floor' = 0 /\ resv' = 0 /\ wc' = 1
      BY <2>2 DEF Boot
    <3>4. Holds(cache)' /\ Spare(cache)'
      BY <1>2, <1>3, <3>1, <3>2, <3>3 DEF Holds, Spare, Other, NextLba, Valid, Zero
    <3> QED BY <1>3, <3>2, <3>3, <3>4 DEF Booted
  <2>3. CASE Status(cache) = "CORRUPT"
    BY <2>3 DEF Boot, Booted
  <2> QED BY <2>1, <2>2, <2>3 DEF Status
<1> QED BY <1>1, <1>5, <1>6, <1>7 DEF IInv

\* A boot that cannot read its floor accepts nothing.
LEMMA BootReadErrorInv == ASSUME IInv, BootReadError PROVE IInv'
<1>1. TypeOK'
  BY NextType DEF IInv, Next
<1>2. pc = "off" /\ pc' = "idle" /\ ~floor_ok' /\ UNCHANGED <<media, cache, accepts, resets>>
  BY DEF BootReadError, drive
<1>3. AfterReset' \subseteq AfterReset
  BY <1>2, ResetShrinks DEF CutOutcomes, WarmOutcomes, InFlight
<1>4. CrashSafe'
  BY <1>2, <1>3, CrashSafeStable DEF IInv
<1>5. AcceptedOnce' /\ Booted' /\ Durable' /\ Pending'
  BY <1>2 DEF IInv, AcceptedOnce, Booted, Durable, PowerCuts, Pending
<1> QED BY <1>1, <1>4, <1>5 DEF IInv

\* While PA may accept frames, its reservation covers everything accepted.
LEMMA ReservationCovers ==
    ASSUME TypeOK, Booted, pc # "off", floor_ok
    PROVE  \A s \in Accepted : s <= resv
BY FloorAssumption DEF Booted, TypeOK, Accepted, Seqs

\* Whatever the drive has of a write that has begun, a reset finds a good disk.
LEMMA ReceiveInv ==
    ASSUME IInv, SafeDeployment, NEW s \in Seqs, Receive(s)
    PROVE  IInv'
<1>1. TypeOK /\ TypeOK'
  BY NextType DEF IInv, Next
<1>2. /\ pc = "idle" /\ floor_ok /\ frame' = s
      /\ UNCHANGED <<media, cache, seq_floor, resv, wc, floor_ok, accepts, resets>>
  BY DEF Receive, drive
<1>3. Accepted' = Accepted
  BY <1>2 DEF Accepted
<1>4. AcceptedOnce' /\ Durable' /\ Booted'
  <2>1. pc' \in {"write", "check"}
    BY DEF Receive
  <2> QED BY <1>2, <2>1 DEF IInv, AcceptedOnce, Durable, PowerCuts, Booted, Holds, Spare, Top, Accepted
<1>5. CASE Due(s)
  <2>1. pc' = "write" /\ Due(frame)'
    BY <1>2, <1>5 DEF Receive, Due
  <2>2. Pending'
    BY <1>2, <2>1 DEF Pending
  <2>3. ASSUME NEW d \in AfterReset' PROVE Good(d, Accepted)
    <3> DEFINE nxt == NextLba(wc)
               cur == Other(NextLba(wc))
               new == Record(NewResv(s), wc)
    <3>1. nxt \in Sectors /\ cur \in Sectors /\ cur # nxt
      BY <1>1, WriteCounts, TwoSectors DEF TypeOK
    <3>2. PowerCuts => media = cache
      BY <1>2 DEF IInv, Durable
    <3>3. d = [x \in Sectors |-> d[x]] /\ \A x \in Sectors :
             d[x] \in {cache[x]} \union (IF x = nxt THEN {Torn, new} ELSE {})
      <4>1. \A x \in Sectors : InFlight(x)' = IF x = nxt THEN {Torn, new} ELSE {}
        BY <1>2, <2>1 DEF InFlight, NewResv, NextLba
      <4>2. \A x \in Sectors : /\ WarmOutcomes(x)' \subseteq {cache[x]} \union InFlight(x)'
                               /\ PowerCuts => CutOutcomes(x)' \subseteq {cache[x]} \union InFlight(x)'
        BY <1>2, <3>2 DEF WarmOutcomes, CutOutcomes
      <4>3. PowerCuts' = PowerCuts /\ WarmResets' = WarmResets
        BY <1>2 DEF PowerCuts, WarmResets
      <4> QED BY <4>1, <4>2, <4>3, <2>3 DEF AfterReset, AfterCut, AfterWarm, Disk, Sectors
    <3>4. d \in [Sectors -> Contents]
      <4>1. new \in Contents
        BY <1>1, ResvType DEF TypeOK, Contents
      <4> QED BY <1>1, <3>3, <4>1 DEF TypeOK, Contents
    <3>5. Holds(cache) /\ Spare(cache) /\ \A a \in Accepted : a <= resv
      BY <1>1, <1>2, ReservationCovers DEF IInv, Booted
    <3>6. Holds(d)
      BY <3>1, <3>3, <3>5 DEF Holds
    <3>7. d[cur] = Zero => Accepted = {}
      BY <3>6 DEF Holds, Zero, Record
    <3>8. CASE d[nxt] = new
      BY <1>1, <1>5, <3>4, <3>5, <3>6, <3>8, NewRecordGood
    <3>9. CASE d[nxt] = Torn
      BY <1>1, <3>4, <3>5, <3>6, <3>7, <3>9, HeldRecordGood DEF Torn, Valid
    <3>10. CASE d[nxt] = cache[nxt]
      <4>1. Spare(d)
        BY <3>1, <3>3, <3>5, <3>10 DEF Spare
      <4> QED BY <1>1, <3>4, <3>5, <3>6, <3>7, <4>1, HeldRecordGood
    <3> QED BY <3>1, <3>3, <3>8, <3>9, <3>10
  <2>4. CrashSafe'
    BY <1>3, <2>1, <2>3 DEF CrashSafe
  <2> QED BY <1>1, <1>4, <2>2, <2>4 DEF IInv
<1>6. CASE ~Due(s)
  <2>1. pc' = "check"
    BY <1>6 DEF Receive
  <2>2. Pending'
    BY <1>1, <1>2, <1>6, <2>1, FloorAssumption DEF Pending, Due, TypeOK, Seqs
  <2>3. AfterReset' \subseteq AfterReset
    BY <1>2, <2>1, ResetShrinks DEF CutOutcomes, WarmOutcomes, InFlight
  <2>4. CrashSafe'
    BY <1>2, <2>1, <2>3, CrashSafeStable DEF IInv
  <2> QED BY <1>1, <1>4, <2>2, <2>4 DEF IInv
<1> QED BY <1>5, <1>6

\* A completed write was among the outcomes of the write in flight.
LEMMA WriteDoneInv == ASSUME IInv, WriteDone PROVE IInv'
<1>1. TypeOK /\ TypeOK'
  BY NextType DEF IInv, Next
<1>2. /\ pc = "write" /\ pc' = "flush"
      /\ cache' = [cache EXCEPT ![NextLba(wc)] = Record(NewResv(frame), wc)]
      /\ UNCHANGED <<media, frame, seq_floor, resv, wc, floor_ok, accepts, resets>>
  BY DEF WriteDone
<1>3. NextLba(wc) \in Sectors /\ Other(NextLba(wc)) \in Sectors
      /\ Other(NextLba(wc)) # NextLba(wc)
  BY <1>1, WriteCounts, TwoSectors DEF TypeOK
<1>4. /\ cache'[NextLba(wc)] = Record(NewResv(frame), wc)
      /\ cache'[Other(NextLba(wc))] = cache[Other(NextLba(wc))]
  BY <1>1, <1>2, <1>3 DEF TypeOK
<1>5. CrashSafe'
  <2>1. \A x \in Sectors : cache'[x] \in {cache[x]} \union InFlight(x) /\ InFlight(x)' = {}
    BY <1>1, <1>2 DEF InFlight, TypeOK
  <2>2. \A x \in Sectors : cache'[x] # media[x] /\ cache[x] = media[x] => Torn \in InFlight(x)
    BY <1>1, <1>2 DEF InFlight, TypeOK
  <2>3. AfterReset' \subseteq AfterReset
    BY <1>2, <2>1, <2>2, ResetShrinks DEF CutOutcomes, WarmOutcomes
  <2> QED BY <1>2, <2>3, CrashSafeStable DEF IInv
<1>6. AcceptedOnce' /\ Durable' /\ Pending'
  BY <1>2, <1>4 DEF IInv, AcceptedOnce, Durable, PowerCuts, Pending, Due, NewResv, NextLba
<1>7. Booted'
  BY <1>2, <1>4 DEF IInv, Booted, Holds, Accepted, Top, NextLba, Other
<1> QED BY <1>1, <1>5, <1>6, <1>7 DEF IInv

\* After the flush the drive holds one good disk, and PA writes the other sector.
LEMMA FlushDoneInv == ASSUME IInv, SafeDeployment, FlushDone PROVE IInv'
<1> DEFINE nxt == NextLba(wc)
<1>1. TypeOK /\ TypeOK'
  BY NextType DEF IInv, Next
<1>2. /\ pc = "flush" /\ pc' = "check" /\ media' = cache
      /\ resv' = NewResv(frame) /\ wc' = NextWc(wc)
      /\ UNCHANGED <<cache, frame, seq_floor, floor_ok, accepts, resets>>
  BY DEF FlushDone
<1>3. floor_ok /\ Due(frame) /\ cache[nxt] = Record(NewResv(frame), wc)
      /\ Holds(cache) /\ seq_floor <= resv /\ \A s \in Accepted : s <= seq_floor
  BY <1>2 DEF IInv, Booted, Pending
<1>4. NewResv(frame) > frame /\ frame >= resv
  BY <1>1, <1>3, StaysAheadOfFrame DEF Due, TypeOK
<1>5. Accepted' = Accepted
  BY <1>2 DEF Accepted
<1>6. Good(cache, Accepted)
  <2>1. \A s \in Accepted : s <= resv
    BY <1>1, <1>2, <1>3, ReservationCovers DEF IInv
  <2> QED BY <1>1, <1>3, <2>1, NewRecordGood DEF TypeOK
<1>7. CrashSafe'
  <2>1. AfterReset' \subseteq {cache}
    <3>1. \A x \in Sectors : /\ CutOutcomes(x)' = {cache[x]}
                             /\ WarmOutcomes(x)' = {cache[x]}
      BY <1>2 DEF CutOutcomes, WarmOutcomes, InFlight
    <3>2. Disk(cache["A"], cache["B"]) = cache
      BY <1>1 DEF Disk, Sectors, TypeOK
    <3> QED BY <3>1, <3>2 DEF AfterReset, AfterCut, AfterWarm, Sectors
  <2> QED BY <1>2, <1>5, <1>6, <2>1 DEF CrashSafe
<1>8. NextLba(wc)' = Other(nxt) /\ Other(Other(nxt)) = nxt /\ Top' = wc
  <2>1. nxt \in Sectors /\ NextLba(NextWc(wc)) = Other(nxt)
    BY <1>1, WriteCounts DEF TypeOK
  <2>2. Top' = wc
    BY <1>1, <1>2, FloorAssumption DEF Top, NextWc, Wcs, TypeOK
  <2> QED BY <1>2, <2>1, <2>2, TwoSectors DEF NextLba
<1>9. Holds(cache)'
  BY <1>2, <1>3, <1>8 DEF Holds
<1>10. Spare(cache)'
  <2>1. Valid(cache[Other(nxt)]) => wc = NextWc(cache[Other(nxt)].wc)
    BY <1>1, <1>3, TopCount DEF Holds, Zero, Record, Valid, TypeOK
  <2> QED BY <1>2, <1>3, <1>8, <2>1 DEF Spare, Record, Zero
<1>11. Booted'
  BY <1>1, <1>2, <1>3, <1>4, <1>5, <1>9, <1>10, FloorAssumption
     DEF Booted, TypeOK, Seqs
<1>12. AcceptedOnce' /\ Durable' /\ Pending'
  BY <1>2, <1>3, <1>4 DEF IInv, AcceptedOnce, Durable, PowerCuts, Pending
<1> QED BY <1>1, <1>7, <1>11, <1>12 DEF IInv

\* A failed persist closes the lane and leaves what a reset could have left.
LEMMA PersistFailsInv == ASSUME IInv, PersistFails PROVE IInv'
<1>1. TypeOK /\ TypeOK'
  BY NextType DEF IInv, Next
<1>2. /\ pc \in {"write", "flush"} /\ pc' = "idle" /\ ~floor_ok'
      /\ UNCHANGED <<media, frame, seq_floor, resv, wc, accepts, resets>>
  BY DEF PersistFails
<1>3. CrashSafe'
  <2>1. \A x \in Sectors : cache'[x] \in {cache[x]} \union InFlight(x) /\ InFlight(x)' = {}
    BY <1>1, <1>2 DEF PersistFails, InFlight, TypeOK
  <2>2. \A x \in Sectors : cache'[x] # media[x] /\ cache[x] = media[x] => Torn \in InFlight(x)
    BY <1>1, <1>2 DEF PersistFails, InFlight, TypeOK
  <2>3. AfterReset' \subseteq AfterReset
    BY <1>2, <2>1, <2>2, ResetShrinks DEF CutOutcomes, WarmOutcomes
  <2> QED BY <1>2, <2>3, CrashSafeStable DEF IInv
<1>4. AcceptedOnce' /\ Booted' /\ Durable' /\ Pending'
  BY <1>2 DEF IInv, AcceptedOnce, Booted, Durable, PowerCuts, Pending
<1> QED BY <1>1, <1>3, <1>4 DEF IInv

\* An accepted frame is above everything accepted before and below the reservation.
LEMMA CheckInv ==
    ASSUME IInv, NEW fresh \in BOOLEAN, Check(fresh)
    PROVE  IInv'
<1>1. TypeOK /\ TypeOK'
  BY NextType DEF IInv, Next
<1>2. /\ pc = "check" /\ pc' = "idle" /\ floor_ok /\ frame < resv
      /\ UNCHANGED <<media, cache, frame, resv, wc, floor_ok, resets>>
  BY DEF Check, drive, IInv, Pending
<1>3. /\ Holds(cache) /\ Spare(cache) /\ seq_floor <= resv
      /\ \A s \in Accepted : s <= seq_floor
  BY <1>2 DEF IInv, Booted
<1>4. Durable' /\ Pending'
  BY <1>2 DEF IInv, Durable, PowerCuts, Pending
<1>5. AfterReset' \subseteq AfterReset
  BY <1>2, ResetShrinks DEF CutOutcomes, WarmOutcomes, InFlight
<1>6. CASE frame > seq_floor /\ fresh
  <2>1. /\ seq_floor' = frame
        /\ accepts' = [accepts EXCEPT ![frame] = accepts[frame] + 1]
    BY <1>6 DEF Check
  <2>2. Accepted' = Accepted \union {frame}
    BY <1>1, <2>1 DEF Accepted, TypeOK
  <2>3. AcceptedOnce'
    <3>1. accepts[frame] = 0
      BY <1>1, <1>3, <1>6, FloorAssumption DEF Accepted, TypeOK, Seqs
    <3> QED BY <1>1, <2>1, <3>1 DEF IInv, AcceptedOnce, TypeOK
  <2>4. \A s \in Accepted' : s <= frame /\ s <= resv
    BY <1>1, <1>2, <1>3, <1>6, <2>2, FloorAssumption DEF TypeOK, Seqs, Accepted
  <2>5. cache[Other(NextLba(wc))] = Record(resv, Top)
    BY <1>1, <1>2, <1>3, <1>6, FloorAssumption DEF Holds, TypeOK, Seqs
  <2>6. Good(cache, Accepted')
    <3>1. cache[Other(NextLba(wc))] # Zero
      BY <2>5 DEF Record, Zero
    <3> QED BY <1>1, <1>3, <2>4, <3>1, HeldRecordGood DEF TypeOK
  <2>7. CrashSafe'
    <3>1. \A d \in AfterReset : d = cache
      BY <1>1, <1>2, OneDisk DEF IInv, Durable, PowerCuts, TypeOK
    <3> QED BY <1>2, <1>5, <2>6, <3>1 DEF CrashSafe
  <2>8. Booted'
    BY <1>1, <1>2, <1>3, <2>1, <2>4, <2>5, FloorAssumption
       DEF Booted, Holds, Spare, Top, TypeOK, Seqs
  <2> QED BY <1>1, <1>4, <2>3, <2>7, <2>8 DEF IInv
<1>7. CASE ~(frame > seq_floor /\ fresh)
  <2>1. UNCHANGED <<seq_floor, accepts, resets>>
    BY <1>7 DEF Check
  <2>2. CrashSafe'
    BY <1>2, <1>5, <2>1, CrashSafeStable DEF IInv
  <2>3. AcceptedOnce' /\ Booted'
    BY <1>2, <2>1 DEF IInv, AcceptedOnce, Booted, Holds, Spare, Top, Accepted
  <2> QED BY <1>1, <1>4, <2>2, <2>3 DEF IInv
<1> QED BY <1>6, <1>7

\* A sector the drive writes back was one the media might hold.
LEMMA DestageInv == ASSUME IInv, NEW x \in Sectors, Destage(x) PROVE IInv'
<1>1. TypeOK /\ TypeOK'
  BY NextType DEF IInv, Next
<1>2. /\ cache[x] # media[x] /\ media' = [media EXCEPT ![x] = cache[x]]
      /\ UNCHANGED <<cache, pc, frame, seq_floor, resv, wc, floor_ok, accepts, resets>>
  BY DEF Destage, volatile
<1>3. \A y \in Sectors : media'[y] \in {media[y], cache[y]}
  BY <1>1, <1>2 DEF TypeOK
<1>4. CrashSafe'
  <2>1. \A y \in Sectors : cache[y] # media'[y] => cache[y] # media[y]
    BY <1>1, <1>2 DEF TypeOK
  <2>2. AfterReset' \subseteq AfterReset
    BY <1>2, <1>3, <2>1, ResetShrinks DEF CutOutcomes, WarmOutcomes, InFlight
  <2> QED BY <1>2, <2>2 DEF IInv, CrashSafe, Accepted
<1>5. AcceptedOnce' /\ Booted' /\ Durable' /\ Pending'
  BY <1>2 DEF IInv, AcceptedOnce, Booted, Durable, PowerCuts, Pending, Holds, Spare, Top,
              Accepted, Due, NewResv
<1> QED BY <1>1, <1>4, <1>5 DEF IInv

\* A reset leaves one of the disks it may leave, all of which are good.
LEMMA ResetInv == ASSUME IInv, SafeDeployment, PowerCut \/ WarmReset PROVE IInv'
<1>1. TypeOK /\ TypeOK'
  BY NextType DEF IInv, Next
<1>2. PICK d \in AfterReset : cache' = d /\ (PowerCuts => media' = d)
  <2>1. ~(PowerCuts /\ WarmResets)
    <3>1. resets \in Deployments /\ resets \subseteq {"power", "warm"}
      BY <1>1, FloorAssumption DEF TypeOK
    <3> QED BY <3>1 DEF PowerCuts, WarmResets, SafeDeployment
  <2> QED BY <2>1 DEF PowerCut, WarmReset, AfterReset
<1>3. pc' = "off" /\ UNCHANGED <<frame, seq_floor, resv, wc, floor_ok, accepts, resets>>
  BY DEF PowerCut, WarmReset, Down
<1>4. (\A e \in AfterReset : e = cache)'
  <2>1. ASSUME NEW e \in AfterReset' PROVE e = cache'
    <3>1. \A x \in Sectors : /\ WarmOutcomes(x)' = {cache'[x]}
                             /\ PowerCuts => CutOutcomes(x)' = {cache'[x]}
      BY <1>2, <1>3 DEF CutOutcomes, WarmOutcomes, InFlight
    <3>2. Disk(cache'["A"], cache'["B"]) = cache'
      BY <1>1 DEF Disk, Sectors, TypeOK
    <3>3. PowerCuts' = PowerCuts /\ WarmResets' = WarmResets
      BY <1>3 DEF PowerCuts, WarmResets
    <3> QED BY <2>1, <3>1, <3>2, <3>3 DEF AfterReset, AfterCut, AfterWarm, Sectors
  <2> QED BY <2>1
<1>5. Good(cache', Accepted) /\ Accepted' = Accepted
  BY <1>2, <1>3 DEF IInv, CrashSafe, Accepted
<1>6. CrashSafe'
  BY <1>4, <1>5 DEF CrashSafe
<1>7. AcceptedOnce' /\ Booted' /\ Durable' /\ Pending'
  BY <1>2, <1>3 DEF IInv, AcceptedOnce, Booted, Durable, PowerCuts, Pending
<1> QED BY <1>1, <1>6, <1>7 DEF IInv
------------------------------------------------------------------------------
(* The theorems. *)

\* Every step of a safely deployed box preserves the invariant.
LEMMA NextInv == ASSUME SafeDeployment PROVE IInv /\ [Next]_vars => IInv'
<1> SUFFICES ASSUME IInv, [Next]_vars PROVE IInv'
  OBVIOUS
<1>1. CASE UNCHANGED vars
  <2>1. TypeOK' /\ AfterReset' \subseteq AfterReset
    BY <1>1, NextType, ResetShrinks
       DEF IInv, vars, CutOutcomes, WarmOutcomes, InFlight
  <2> QED BY <1>1, <2>1 DEF vars, IInv, AcceptedOnce, CrashSafe, Booted, Durable, PowerCuts, Pending,
                           Holds, Spare, Top, Accepted, Due, NewResv
<1> QED BY <1>1, BootInv, BootReadErrorInv, ReceiveInv, WriteDoneInv, FlushDoneInv,
           PersistFailsInv, CheckInv, DestageInv, ResetInv DEF Next

\* The inductive invariant of the floor protocol holds on a box that meets only
\* power losses or only warm resets.
THEOREM FloorInvariance == ASSUME SafeDeployment PROVE Spec => []IInv
BY InitInv, NextInv, PTL DEF Spec

\* No captured frame is accepted a second time after such a reset: accepts of one
\* sequence number never reach two (pa_verify_candidate, control_replay_check).
THEOREM NoReplay == ASSUME SafeDeployment PROVE Spec => []AcceptedOnce
<1>1. IInv => AcceptedOnce
  BY DEF IInv
<1> QED BY <1>1, FloorInvariance, PTL

\* The floor the next boot resumes from covers everything accepted, whenever the
\* reset comes, and such a box never finds its floor corrupt.
THEOREM FloorSurvives ==
    ASSUME SafeDeployment PROVE Spec => []FloorKept
<1>1. ASSUME IInv PROVE FloorKept
  <2>1. \A d \in AfterReset : d \in [Sectors -> Contents] /\ Good(d, Accepted)
    BY <1>1, ResetType DEF IInv, CrashSafe
  <2> QED BY <2>1, GoodBoots DEF FloorKept, Covered, NeverBricked
<1> QED BY <1>1, FloorInvariance, PTL

------------------------------------------------------------------------------
(* The store of control-IN turns: positions and their slots. *)

\* The numbers of the bounds are numbers.
LEMMA Bounded == StoreMax \in Nat /\ StoreMax > 0 /\ MaxTurns \in Nat
BY StoreAssumption

\* Division leaves a remainder below the divisor.
LEMMA DivIs ==
    ASSUME NEW n \in Nat \ {0}, NEW x \in Int
    PROVE  x = n * (x \div n) + (x % n) /\ x \div n \in Int /\ x % n \in 0 .. (n - 1)
OBVIOUS

\* Adding before or after a division, or a whole turn, leaves the same remainder.
LEMMA ModAdd ==
    ASSUME NEW n \in Nat \ {0}, NEW x \in Int, NEW y \in Int
    PROVE  ((x % n) + y) % n = (x + y) % n /\ (x + n) % n = x % n
<1> DEFINE q == x \div n
           r == x % n
           p == (r + y) \div n
           s == (r + y) % n
<1>1. x = n * q + r /\ q \in Int /\ r \in 0 .. (n - 1)
  OBVIOUS
<1>2. r + y = n * p + s /\ p \in Int /\ s \in 0 .. (n - 1)
  <2>1. r + y \in Int
    BY <1>1
  <2> HIDE DEF r
  <2> QED BY <2>1, DivIs
<1>3. \A i \in Int, m \in 0 .. (n - 1) : (n * i + m) % n = m
  OBVIOUS
<1> HIDE DEF q, r, p, s
<1>4. x + y = n * (q + p) + s /\ q + p \in Int
  BY <1>1, <1>2
<1>5. x + n = n * (q + 1) + r /\ q + 1 \in Int
  BY <1>1
<1>6. (x + y) % n = s
  BY <1>2, <1>3, <1>4
<1>7. (x + n) % n = r
  BY <1>1, <1>3, <1>5
<1> QED BY <1>6, <1>7 DEF r, s

\* Numbers closer than n have different remainders.
LEMMA ModApart ==
    ASSUME NEW n \in Nat \ {0}, NEW x \in Int, NEW y \in Int, x < y, y - x < n
    PROVE  x % n # y % n
<1>1. SUFFICES ASSUME x % n = y % n PROVE FALSE
  OBVIOUS
<1> DEFINE qx == x \div n
           qy == y \div n
           r == x % n
<1>2. x = n * qx + r /\ y = n * qy + r /\ qx \in Int /\ qy \in Int /\ r \in Int
  BY <1>1
<1> HIDE DEF qx, qy, r
<1>3. y - x = n * (qy - qx) /\ qy - qx \in Int
  BY <1>2
<1>4. \A k \in Int : k <= 0 => n * k <= 0
  OBVIOUS
<1>5. \A k \in Int : k >= 1 => n * k >= n
  OBVIOUS
<1>6. qy - qx <= 0 \/ qy - qx >= 1
  BY <1>3
<1> QED BY <1>3, <1>4, <1>5, <1>6

\* The greater of two numbers, the smaller of two.
LEMMA OfTwo ==
    ASSUME NEW x \in Int, NEW y \in Int
    PROVE  Max({x, y}) = (IF x < y THEN y ELSE x) /\ Min({x, y}) = (IF x < y THEN x ELSE y)
BY DEF Max, Min

LEMMA CountIs ==
    ASSUME NEW h, h.total \in Nat
    PROVE  Count(h) = IF h.total < StoreMax THEN h.total ELSE StoreMax
<1>1. \A x, y \in Int : Min({x, y}) = IF x < y THEN x ELSE y
  BY OfTwo
<1>2. h.total \in Int /\ StoreMax \in Int
  BY Bounded
<1>3. Min({h.total, StoreMax}) = IF h.total < StoreMax THEN h.total ELSE StoreMax
  <2> DEFINE t == h.total
  <2>1. t \in Int
    BY <1>2
  <2> HIDE DEF t
  <2>2. Min({t, StoreMax}) = IF t < StoreMax THEN t ELSE StoreMax
    BY <1>1, <1>2, <2>1
  <2> QED BY <2>2 DEF t
<1> QED BY <1>3 DEF Count

\* The record of number n is read from slot n % StoreMax.
LEMMA SlotIs ==
    ASSUME NEW h, h.total \in Nat, h.cursor = h.total % StoreMax, NEW li \in 0 .. (Count(h) - 1)
    PROVE  /\ SlotOf(h, li) = (h.total - Count(h) + li) % StoreMax
           /\ h.total - Count(h) + li \in 0 .. (h.total - 1)
           /\ h.total - Count(h) + li >= h.total - StoreMax
<1> DEFINE n == h.total - Count(h) + li
<1>1. n \in 0 .. (h.total - 1) /\ n >= h.total - StoreMax /\ li \in Nat
  BY CountIs, Bounded
<1>2. ASSUME h.total < StoreMax PROVE SlotOf(h, li) = n % StoreMax
  BY <1>1, <1>2, CountIs, Bounded DEF SlotOf
<1>3. ASSUME h.total >= StoreMax PROVE SlotOf(h, li) = n % StoreMax
  <2>1. n = h.total + li - StoreMax /\ h.total + li = n + StoreMax /\ n \in Int
    BY <1>1, <1>3, CountIs, Bounded
  <2>2. SlotOf(h, li) = ((h.total % StoreMax) + li) % StoreMax
    BY <1>3, Bounded DEF SlotOf
  <2>3. ((h.total % StoreMax) + li) % StoreMax = (h.total + li) % StoreMax
    <3> DEFINE t == h.total
    <3>1. t \in Int /\ li \in Int /\ StoreMax \in Nat \ {0}
      BY <1>1, Bounded
    <3> HIDE DEF t
    <3>2. ((t % StoreMax) + li) % StoreMax = (t + li) % StoreMax
      BY <3>1, ModAdd
    <3> QED BY <3>2 DEF t
  <2>4. (n + StoreMax) % StoreMax = n % StoreMax
    BY <2>1, Bounded, ModAdd
  <2>5. SlotOf(h, li) = n % StoreMax
    <3> HIDE DEF n
    <3> QED BY <2>1, <2>2, <2>3, <2>4
  <2> QED BY <2>5
<1>4. SlotOf(h, li) = n % StoreMax
  <2> HIDE DEF n
  <2> QED BY <1>2, <1>3, Bounded
<1> QED BY ONLY <1>1, <1>4

LEMMA ModSlot == ASSUME NEW x \in Int PROVE x % StoreMax \in Slots
BY Bounded DEF Slots

LEMMA RecordIs ==
    ASSUME StoreTypeOK, NEW li \in Nat, li < StoreMax
    PROVE  SlotOf(rhdr, li) \in Slots /\ RecAt(li) \in Records
<1>1. rhdr.cursor \in Int /\ rhdr.cursor + li \in Int
  BY Bounded DEF StoreTypeOK, Headers, Slots
<1>2. SlotOf(rhdr, li) \in Slots
  BY <1>1, ModSlot, Bounded DEF SlotOf, Slots
<1> QED BY <1>2 DEF RecAt, StoreTypeOK

------------------------------------------------------------------------------
(* The recall index. *)

Entries == [key : Keys, li : Slots]

\* The index holds the usable records of the first n slots of d, and nothing else.
Lists(d, ix, n) ==
    /\ \A i \in DOMAIN ix : /\ ix[i].li \in 0 .. (n - 1) /\ d[ix[i].li].usable
                            /\ ix[i].key = d[ix[i].li].key
    /\ \A l \in 0 .. (n - 1) : d[l].usable => \E i \in DOMAIN ix : ix[i].li = l

\* A record that may be recalled is a turn.
LEMMA UsableIs == ASSUME NEW r \in Records, r.usable PROVE r \in Turns /\ r.key \in Keys
BY DEF Records, Turns, NoRecord, TornRecord

LEMMA AddedIs ==
    ASSUME NEW ix \in Seq(Entries), Len(ix) <= StoreMax, NEW r \in Records, NEW li \in Slots
    PROVE  /\ Added(ix, r, li) \in Seq(Entries)
           /\ Len(Added(ix, r, li)) <= StoreMax /\ Len(Added(ix, r, li)) <= Len(ix) + 1
<1>1. Len(ix) \in Nat
  BY LenProperties
<1>2. CASE Indexed(r) /\ Len(ix) < StoreMax
  <2> DEFINE e == [key |-> r.key, li |-> li]
  <2>1. e \in Entries
    BY <1>2, UsableIs DEF Indexed, Entries
  <2>2. Added(ix, r, li) = Append(ix, e)
    BY <1>2 DEF Added
  <2> HIDE DEF e
  <2> QED BY <1>1, <1>2, <2>1, <2>2, Bounded, AppendProperties
<1>3. CASE ~(Indexed(r) /\ Len(ix) < StoreMax)
  BY <1>1, <1>3, Bounded DEF Added
<1> QED BY <1>2, <1>3

\* Adding the record of the next slot to an index that has room.
LEMMA AddedHolds ==
    ASSUME NEW n \in Slots, NEW ix \in Seq(Entries), Len(ix) <= n, NEW r \in Records,
           Lists(dslot, ix, n), dslot[n] = r
    PROVE  Lists(dslot, Added(ix, r, n), n + 1)
<1>1. n \in Nat /\ n < StoreMax /\ Len(ix) \in Nat /\ Len(ix) < StoreMax /\ DOMAIN ix = 1 .. Len(ix)
  BY LenProperties, Bounded DEF Slots
<1>2. CASE r.usable
  <2> DEFINE e == [key |-> r.key, li |-> n]
             jx == Added(ix, r, n)
  <2>1. e \in Entries /\ e.key = r.key /\ e.li = n
    BY <1>2, UsableIs DEF Entries
  <2>2. jx = Append(ix, e)
    BY <1>1, <1>2 DEF Added, Indexed
  <2> HIDE DEF e, jx
  <2>3. /\ DOMAIN jx = 1 .. (Len(ix) + 1) /\ jx[Len(ix) + 1] = e
        /\ \A i \in DOMAIN ix : jx[i] = ix[i]
    BY <1>1, <2>1, <2>2, AppendProperties, LenProperties
  <2>4. ASSUME NEW i \in DOMAIN jx
        PROVE  /\ jx[i].li \in 0 .. n /\ dslot[jx[i].li].usable
               /\ jx[i].key = dslot[jx[i].li].key
    <3>1. CASE i \in DOMAIN ix
      BY <1>1, <2>3, <3>1 DEF Lists
    <3>2. CASE i \notin DOMAIN ix
      <4>1. i = Len(ix) + 1
        BY <1>1, <2>3, <3>2
      <4> QED BY <1>1, <1>2, <2>1, <2>3, <4>1
    <3> QED BY <3>1, <3>2
  <2>5. ASSUME NEW l \in 0 .. n, dslot[l].usable PROVE \E i \in DOMAIN jx : jx[i].li = l
    <3>1. CASE l = n
      BY <1>1, <2>1, <2>3, <3>1
    <3>2. CASE l # n
      <4>1. PICK i \in DOMAIN ix : ix[i].li = l
        BY <1>1, <2>5, <3>2 DEF Lists
      <4> QED BY <1>1, <2>3, <4>1
    <3> QED BY <3>1, <3>2
  <2> QED BY <1>1, <2>4, <2>5 DEF Lists, jx
<1>3. CASE ~r.usable
  <2>1. Added(ix, r, n) = ix
    BY <1>3 DEF Added, Indexed
  <2>2. \A i \in DOMAIN ix : ix[i].li \in 0 .. n
    BY <1>1 DEF Lists
  <2>3. \A l \in 0 .. n : dslot[l].usable => l \in 0 .. (n - 1)
    BY <1>1, <1>3
  <2> QED BY <1>1, <2>1, <2>2, <2>3 DEF Lists
<1> QED BY <1>2, <1>3

LEMMA HoldsNone == ASSUME NEW d PROVE Lists(d, <<>>, 0)
BY DEF Lists

\* What ctrl_index_build builds from the first n positions.
LEMMA BuiltIs ==
    ASSUME StoreTypeOK, NEW n \in 0 .. StoreMax
    PROVE  /\ Built(n) \in Seq(Entries) /\ Len(Built(n)) <= n
           /\ (\A l \in 0 .. (n - 1) : RecAt(l) = dslot[l]) => Lists(dslot, Built(n), n)
<1> DEFINE Def(v, i) == Added(v, RecAt(i - 1), i - 1)
           f == CHOOSE g : g = [i \in 0 .. n |-> IF i = 0 THEN <<>> ELSE Def(g[i - 1], i)]
<1>1. n \in Nat /\ n <= StoreMax
  BY Bounded
<1>2. FiniteNatInductiveDefHypothesis(f, <<>>, Def, 0, n)
  BY DEF FiniteNatInductiveDefHypothesis
<1>3. FiniteNatInductiveDefConclusion(f, <<>>, Def, 0, n)
  BY <1>1, <1>2, FiniteNatInductiveDef
<1>4. f = [i \in 0 .. n |-> IF i = 0 THEN <<>> ELSE Def(f[i - 1], i)]
  BY <1>3 DEF FiniteNatInductiveDefConclusion
<1>5. Built(n) = f[n]
  BY DEF Built
<1> HIDE DEF f
<1>6. f[0] = <<>> /\ \A i \in 1 .. n : f[i] = Added(f[i - 1], RecAt(i - 1), i - 1)
  BY <1>1, <1>4
<1> HIDE DEF Def
<1> DEFINE Upto(i) == /\ f[i] \in Seq(Entries) /\ Len(f[i]) <= i
                      /\ (\A l \in 0 .. (n - 1) : RecAt(l) = dslot[l]) => Lists(dslot, f[i], i)
<1>7. Upto(0)
  BY <1>6, HoldsNone
<1>8. ASSUME NEW i \in 1 .. n, Upto(i - 1) PROVE Upto(i)
  <2>1. PICK k \in Nat : k = i - 1 /\ i = k + 1
    BY <1>1
  <2>2. k \in Slots /\ k < StoreMax /\ k \in 0 .. (n - 1)
    BY <1>1, <2>1, Bounded DEF Slots
  <2>3. f[i] = Added(f[k], RecAt(k), k) /\ f[k] \in Seq(Entries) /\ Len(f[k]) <= k
    BY <1>6, <1>8, <2>1
  <2>4. RecAt(k) \in Records /\ Len(f[k]) \in Nat /\ Len(f[k]) <= StoreMax
    BY <2>2, <2>3, RecordIs, LenProperties, Bounded
  <2>5. f[i] \in Seq(Entries) /\ Len(f[i]) <= Len(f[k]) + 1
    BY <2>2, <2>3, <2>4, AddedIs
  <2>6. Len(f[i]) <= i
    BY <2>1, <2>3, <2>4, <2>5, LenProperties
  <2>7. ASSUME \A l \in 0 .. (n - 1) : RecAt(l) = dslot[l] PROVE Lists(dslot, f[i], i)
    <3>1. Lists(dslot, f[k], k) /\ dslot[k] = RecAt(k)
      BY <1>8, <2>1, <2>2, <2>7
    <3> QED BY <2>1, <2>2, <2>3, <2>4, <3>1, AddedHolds
  <2> QED BY <2>5, <2>6, <2>7
<1> HIDE DEF Upto
<1>9. \A i \in 0 .. n : Upto(i)
  <2> DEFINE bad == {i \in 0 .. n : ~Upto(i)}
  <2>1. SUFFICES ASSUME bad # {} PROVE FALSE
    OBVIOUS
  <2>2. PICK i \in bad : \A j \in bad : i <= j
    <3>1. bad \in SUBSET Nat
      OBVIOUS
    <3> QED BY <2>1, <3>1, LeastNumber
  <2>3. i \in 1 .. n
    BY <1>1, <1>7, <2>2
  <2>4. Upto(i - 1)
    BY <1>1, <2>2, <2>3
  <2> QED BY <1>8, <2>2, <2>3, <2>4
<1>10. Upto(n)
  BY <1>1, <1>9
<1> QED BY <1>5, <1>10 DEF Upto
------------------------------------------------------------------------------
(* The inductive invariant. *)

Flushed == rs \notin {"off", "initflush"}
Writing == rs \in {"record", "header"}
Built2  == rs \in {"idle", "record", "header", "embed"}

\* Header and memory: the cursor is the slot of the next number, the header on disk lags
\* behind the one in memory by the appends that reported an error.
InStep(h) == h.cursor = h.total % StoreMax

HeadersAgree ==
    /\ InStep(rhdr) /\ (dhdr # Invalid => InStep(dhdr) /\ dhdr.total <= turns)
    /\ rhdr.total + (IF Writing THEN 1 ELSE 0) <= turns
    /\ Flushed => dhdr # Invalid /\ rhdr.total = dhdr.total + behind
    /\ ~Flushed => behind = 0
    /\ rs = "initflush" => dhdr \in {rhdr, Invalid}

\* In d, the slots of the numbers below `total`, but for the oldest `past` of a turn of the store,
\* hold the records of these numbers.
InOrder(d, total, over) ==
    \A n \in Nat : n < total /\ n >= total - StoreMax + over => d[n % StoreMax].seq = n

Ordered ==
    /\ behind <= errors /\ past + behind <= 1 + errors
    /\ rs # "off" => InOrder(dslot, rhdr.total, past)
    /\ rs = "off" /\ dhdr # Invalid => InOrder(dslot, dhdr.total, past)

\* The record being written.
AtHand ==
    /\ Writing => rrec \in Turns /\ rrec.seq = rhdr.total
    /\ rs = "header" => past > 0 /\ dslot[rhdr.cursor] = rrec
    /\ rs = "embed" => rrec \in Turns

\* Until the store rolls, the index holds the usable records.
Indexing ==
    /\ Len(rix) <= rhdr.total
    /\ ~Built2 => rix = <<>>
    /\ Built2 /\ errors = 0
       /\ (IF rs = "header" THEN rhdr.total < StoreMax ELSE rhdr.total <= StoreMax)
       => Lists(dslot, rix, rhdr.total)

RecallInv == StoreTypeOK /\ HeadersAgree /\ Ordered /\ AtHand /\ Indexing

LEMMA RecallTypes ==
    StoreTypeOK <=>
    /\ rhdr \in Headers /\ dhdr \in Headers \cup {Invalid}
    /\ dslot \in [Slots -> Records] /\ rrec \in Records
    /\ rix \in Seq(Entries) /\ Len(rix) <= StoreMax
    /\ vecs \subseteq [seq : 0 .. MaxTurns, key : Keys, of : 0 .. MaxTurns]
    /\ rs \in {"off", "initflush", "build", "idle", "record", "header", "embed"}
    /\ last_seq \in 0 .. MaxTurns /\ turns \in 0 .. MaxTurns
    /\ past \in Nat /\ behind \in Nat /\ stops \in Nat /\ errors \in Nat
BY DEF StoreTypeOK, Entries

LEMMA RecallTypesNext ==
    StoreTypeOK' <=>
    /\ rhdr' \in Headers /\ dhdr' \in Headers \cup {Invalid}
    /\ dslot' \in [Slots -> Records] /\ rrec' \in Records
    /\ rix' \in Seq(Entries) /\ Len(rix') <= StoreMax
    /\ vecs' \subseteq [seq : 0 .. MaxTurns, key : Keys, of : 0 .. MaxTurns]
    /\ rs' \in {"off", "initflush", "build", "idle", "record", "header", "embed"}
    /\ last_seq' \in 0 .. MaxTurns /\ turns' \in 0 .. MaxTurns
    /\ past' \in Nat /\ behind' \in Nat /\ stops' \in Nat /\ errors' \in Nat
BY DEF StoreTypeOK, Entries

LEMMA Totals ==
    ASSUME StoreTypeOK
    PROVE  /\ rhdr.total \in 0 .. MaxTurns /\ rhdr.cursor \in Slots
           /\ dhdr # Invalid => dhdr.total \in 0 .. MaxTurns /\ dhdr \in Headers
BY RecallTypes DEF Headers

LEMMA FreshIs == Fresh \in Headers /\ Fresh.total = 0 /\ InStep(Fresh)
<1>1. 0 % StoreMax = 0
  BY Bounded
<1> QED BY <1>1, Bounded DEF Fresh, Headers, Slots, InStep

\* The header after an append counts the number of the turn.
LEMMA AdvancedIs ==
    ASSUME StoreTypeOK, HeadersAgree, Writing
    PROVE  /\ Advanced \in Headers /\ Advanced.total = rhdr.total + 1 /\ InStep(Advanced)
           /\ rhdr.total + 1 <= turns /\ rhdr.total + 1 <= MaxTurns /\ Advanced # Invalid
           /\ Count(Advanced) - 1 \in Slots /\ Count(Advanced) - 1 \in 0 .. MaxTurns
           /\ rhdr.total < StoreMax => Count(Advanced) - 1 = rhdr.total
<1> DEFINE t == rhdr.total
<1>1. t \in Nat /\ rhdr.cursor = t % StoreMax /\ turns \in 0 .. MaxTurns /\ t + 1 <= turns
  BY Totals, RecallTypes DEF HeadersAgree, InStep
<1>2. Advanced.total = t + 1 /\ Advanced.cursor = (rhdr.cursor + 1) % StoreMax
  BY DEF Advanced
<1>3. (rhdr.cursor + 1) % StoreMax = (t + 1) % StoreMax /\ (t + 1) % StoreMax \in Slots
  <2>0. t \in Int /\ t + 1 \in Int /\ 1 \in Int /\ StoreMax \in Nat \ {0}
    BY <1>1, Bounded
  <2> HIDE DEF t
  <2>1. ((t % StoreMax) + 1) % StoreMax = (t + 1) % StoreMax
    BY <2>0, ModAdd
  <2> QED BY <1>1, <2>0, <2>1, ModSlot
<1>4. t + 1 \in 0 .. MaxTurns
  <2> HIDE DEF t
  <2> QED BY <1>1, Bounded
<1>5. Advanced \in Headers
  <2> HIDE DEF t
  <2>1. Advanced = [cursor |-> (t + 1) % StoreMax, total |-> t + 1]
    BY <1>3 DEF Advanced, t
  <2> QED BY <1>3, <1>4, <2>1 DEF Headers
<1>6. InStep(Advanced)
  BY <1>2, <1>3 DEF InStep
<1>7. Advanced # Invalid
  BY <1>1, <1>2 DEF Invalid
<1>8. Count(Advanced) = IF t + 1 < StoreMax THEN t + 1 ELSE StoreMax
  <2>1. Advanced.total \in Nat
    BY <1>1, <1>2
  <2> QED BY <1>2, <2>1, CountIs
<1> QED BY <1>1, <1>2, <1>4, <1>5, <1>6, <1>7, <1>8, Bounded DEF Slots

\* Writing the next slot leaves the numbers that are not a turn of the store older in place.
LEMMA OverwriteKeeps ==
    ASSUME NEW d, NEW e, NEW t \in Nat, NEW p \in Nat, InOrder(d, t, p),
           NEW c, c = t % StoreMax, \A s \in Slots : s # c => e[s] = d[s]
    PROVE  InOrder(e, t, Max({p, 1})) /\ Max({p, 1}) \in Nat /\ Max({p, 1}) >= 1
           /\ Max({p, 1}) >= p /\ (p = 0 => Max({p, 1}) = 1) /\ (p > 0 => Max({p, 1}) = p)
<1>1. Max({p, 1}) = IF p < 1 THEN 1 ELSE p
  BY OfTwo
<1>2. ASSUME NEW n \in Nat, n < t, n >= t - StoreMax + Max({p, 1}) PROVE e[n % StoreMax].seq = n
  <2>1. n >= t - StoreMax + p /\ t - n < StoreMax
    BY <1>1, <1>2, Bounded
  <2>2. n % StoreMax # t % StoreMax
    <3>1. n \in Int /\ t \in Int /\ StoreMax \in Nat \ {0} /\ n < t /\ t - n < StoreMax
      BY <1>2, <2>1, Bounded
    <3> QED BY <3>1, ModApart
  <2>3. e[n % StoreMax] = d[n % StoreMax]
    BY <2>2, ModSlot
  <2>4. d[n % StoreMax].seq = n
    BY <1>2, <2>1 DEF InOrder
  <2> QED BY <2>3, <2>4
<1>3. InOrder(e, t, Max({p, 1}))
  BY <1>2 DEF InOrder
<1> QED BY <1>1, <1>3

\* Counting the record written there makes it the newest.
LEMMA NextInOrder ==
    ASSUME NEW d, NEW t \in Nat, NEW p \in Nat, p > 0, InOrder(d, t, p), d[t % StoreMax].seq = t
    PROVE  InOrder(d, t + 1, p - 1)
<1>1. ASSUME NEW n \in Nat, n < t + 1, n >= (t + 1) - StoreMax + (p - 1)
      PROVE  d[n % StoreMax].seq = n
  <2>1. (n < t /\ n >= t - StoreMax + p) \/ n = t
    BY <1>1, Bounded
  <2>2. ASSUME n < t, n >= t - StoreMax + p PROVE d[n % StoreMax].seq = n
    BY <2>2 DEF InOrder
  <2>3. CASE n = t
    BY <2>3
  <2> QED BY <2>1, <2>2, <2>3
<1> QED BY ONLY <1>1 DEF InOrder

\* A header that lags behind finds the records it does not count in the way.
LEMMA LagInOrder ==
    ASSUME NEW d, NEW t \in Nat, NEW p \in Nat, NEW b \in Nat, NEW u, u = t + b, InOrder(d, u, p)
    PROVE  InOrder(d, t, p + b)
<1>1. ASSUME NEW n \in Nat, n < t, n >= t - StoreMax + (p + b)
      PROVE  d[n % StoreMax].seq = n
  <2>1. n < u /\ n >= u - StoreMax + p
    BY <1>1, Bounded
  <2>2. \A m \in Nat : m < u /\ m >= u - StoreMax + p => d[m % StoreMax].seq = m
    BY DEF InOrder
  <2> QED BY <1>1, <2>1, <2>2
<1> QED BY ONLY <1>1 DEF InOrder

LEMMA NothingInOrder == ASSUME NEW d, NEW p PROVE InOrder(d, 0, p)
BY DEF InOrder

LEMMA HoldsKept ==
    ASSUME NEW d, NEW e, NEW ix, NEW n \in Nat, Lists(d, ix, n), \A s \in 0 .. (n - 1) : e[s] = d[s]
    PROVE  Lists(e, ix, n)
BY DEF Lists

------------------------------------------------------------------------------
(* Each action keeps the invariant: the boot, ... *)

LEMMA BootKeeps == ASSUME RecallInv, StoreBoot PROVE RecallInv'
<1>1. /\ rs = "off" /\ rs' = "initflush" /\ rix' = <<>>
      /\ rhdr' = IF dhdr = Invalid THEN Fresh ELSE dhdr
      /\ past' = IF dhdr = Invalid THEN 0 ELSE past
      /\ UNCHANGED <<dhdr, dslot, vecs, rrec, last_seq, behind, turns, stops, errors>>
  BY DEF StoreBoot
<1>2. rhdr' \in Headers /\ rhdr'.total <= turns /\ InStep(rhdr)' /\ past' \in Nat
      /\ rhdr'.total \in Nat
  BY <1>1, FreshIs, Totals, RecallTypes DEF RecallInv, HeadersAgree, InStep
<1>3. StoreTypeOK'
  BY <1>1, <1>2, RecallTypes, RecallTypesNext, Bounded DEF RecallInv
<1>4. HeadersAgree'
  BY <1>1, <1>2, RecallTypes DEF RecallInv, HeadersAgree, InStep, Flushed, Writing
<1>5. InOrder(dslot, rhdr'.total, past')
  BY <1>1, FreshIs, NothingInOrder DEF RecallInv, Ordered
<1>6. Ordered'
  BY <1>1, <1>5, RecallTypes DEF RecallInv, Ordered, InOrder, HeadersAgree, Flushed
<1>7. AtHand' /\ Indexing'
  BY <1>1, <1>2 DEF AtHand, Indexing, Writing, Built2
<1> QED BY <1>3, <1>4, <1>6, <1>7 DEF RecallInv

LEMMA InitFlushKeeps == ASSUME RecallInv, InitFlush PROVE RecallInv'
<1>1. /\ rs = "initflush" /\ rs' = "build" /\ dhdr' = rhdr
      /\ UNCHANGED <<dslot, rhdr, rix, vecs, rrec, last_seq, past, behind, turns, stops, errors>>
  BY DEF InitFlush
<1>2. rhdr \in Headers /\ rhdr # Invalid /\ rhdr.total \in Nat /\ turns \in Nat
  BY Totals, RecallTypes DEF RecallInv, Invalid
<1>3. StoreTypeOK'
  BY <1>1, <1>2, RecallTypes, RecallTypesNext DEF RecallInv
<1>4. HeadersAgree'
  BY <1>1, <1>2 DEF RecallInv, HeadersAgree, InStep, Flushed, Writing
<1>5. Ordered'
  BY <1>1 DEF RecallInv, Ordered, InOrder
<1>6. AtHand' /\ Indexing'
  BY <1>1, <1>2 DEF RecallInv, AtHand, Indexing, Writing, Built2
<1> QED BY <1>3, <1>4, <1>5, <1>6 DEF RecallInv

LEMMA BuildKeeps == ASSUME RecallInv, BuildIndex PROVE RecallInv'
<1> DEFINE c == Count(rhdr)
<1>1. /\ rs = "build" /\ rs' = "idle" /\ rix' = Built(c)
      /\ UNCHANGED <<dhdr, dslot, rhdr, vecs, rrec, last_seq, past, behind, turns, stops, errors>>
  BY DEF BuildIndex
<1>2. rhdr.total \in Nat /\ c = IF rhdr.total < StoreMax THEN rhdr.total ELSE StoreMax
  BY Totals, CountIs DEF RecallInv
<1>3. c \in 0 .. StoreMax /\ c <= rhdr.total
  BY <1>2, Bounded
<1>4. StoreTypeOK /\ rhdr.cursor = rhdr.total % StoreMax
  BY DEF RecallInv, HeadersAgree, InStep
<1>5. Built(c) \in Seq(Entries) /\ Len(Built(c)) <= c /\ Len(Built(c)) \in Nat
  <2> HIDE DEF c
  <2> QED BY <1>3, <1>4, BuiltIs, LenProperties
<1>6. ASSUME rhdr.total <= StoreMax PROVE Lists(dslot, Built(c), rhdr.total)
  <2>1. c = rhdr.total
    BY <1>2, <1>6, Bounded
  <2>2. ASSUME NEW l \in 0 .. (c - 1) PROVE RecAt(l) = dslot[l]
    <3>1. SlotOf(rhdr, l) = (rhdr.total - c + l) % StoreMax
      BY <1>2, <1>4, SlotIs
    <3>2. rhdr.total - c + l = l /\ l \in 0 .. (StoreMax - 1)
      BY <1>2, <1>6, <2>1, Bounded
    <3>3. l % StoreMax = l
      BY <3>2, Bounded, ModSmall
    <3> QED BY <3>1, <3>2, <3>3 DEF RecAt
  <2> HIDE DEF c
  <2> QED BY <1>3, <1>4, <2>1, <2>2, BuiltIs
<1>7. StoreTypeOK'
  <2> HIDE DEF c
  <2>1. Len(Built(c)) <= StoreMax
    BY <1>3, <1>5, Bounded
  <2> QED BY <1>1, <1>5, <2>1, RecallTypes, RecallTypesNext DEF RecallInv
<1>8. HeadersAgree'
  BY <1>1 DEF RecallInv, HeadersAgree, InStep, Flushed, Writing
<1>9. Ordered' /\ AtHand'
  BY <1>1 DEF RecallInv, Ordered, InOrder, AtHand, Writing
<1>10. Indexing'
  <2>1. Len(rix') <= rhdr'.total
    <3> HIDE DEF c
    <3> QED BY <1>1, <1>2, <1>3, <1>5, Bounded
  <2>2. rhdr.total <= StoreMax => Lists(dslot, rix', rhdr.total)
    BY <1>1, <1>6
  <2> QED BY <1>1, <2>1, <2>2 DEF Indexing, Built2, Lists
<1> QED BY <1>7, <1>8, <1>9, <1>10 DEF RecallInv

------------------------------------------------------------------------------
(* ... a turn and its record, ... *)

LEMMA TurnKeeps == ASSUME RecallInv, Turn PROVE RecallInv'
<1>1. /\ rs = "idle" /\ rs' = "record" /\ turns < MaxTurns /\ turns' = turns + 1
      /\ UNCHANGED <<dhdr, dslot, rhdr, rix, vecs, last_seq, past, behind, stops, errors>>
  BY DEF Turn
<1>2. PICK k \in Keys, u \in BOOLEAN : rrec' = [key |-> k, usable |-> u, seq |-> rhdr.total]
  BY DEF Turn
<1>3. rhdr.total \in 0 .. MaxTurns /\ turns \in 0 .. MaxTurns /\ rhdr.total <= turns
      /\ (dhdr # Invalid => dhdr.total \in 0 .. MaxTurns /\ dhdr.total <= turns)
  BY <1>1, Totals, RecallTypes DEF RecallInv, HeadersAgree, Writing
<1>4. rrec' \in Turns /\ rrec'.seq = rhdr.total
  BY <1>2, <1>3 DEF Turns
<1>5. StoreTypeOK'
  <2>1. rrec' \in Records
    BY <1>4 DEF Records
  <2>2. turns' \in 0 .. MaxTurns
    BY <1>1, <1>3, Bounded
  <2> QED BY <1>1, <2>1, <2>2, RecallTypes, RecallTypesNext DEF RecallInv
<1>6. HeadersAgree'
  BY <1>1, <1>3 DEF RecallInv, HeadersAgree, InStep, Flushed, Writing
<1>7. Ordered' /\ AtHand'
  BY <1>1, <1>4 DEF RecallInv, Ordered, InOrder, AtHand, Writing
<1>8. Indexing'
  BY <1>1 DEF RecallInv, Indexing, Built2, Lists
<1> QED BY <1>5, <1>6, <1>7, <1>8 DEF RecallInv

\* The slot the next record goes to.
Overwritten(r) == [dslot EXCEPT ![rhdr.cursor] = r]

LEMMA SlotWritten ==
    ASSUME RecallInv, NEW r \in Records
    PROVE  /\ Overwritten(r) \in [Slots -> Records] /\ Overwritten(r)[rhdr.cursor] = r
           /\ \A s \in Slots : s # rhdr.cursor => Overwritten(r)[s] = dslot[s]
           /\ rhdr.total < StoreMax =>
                \A s \in 0 .. (rhdr.total - 1) : Overwritten(r)[s] = dslot[s]
<1>1. rhdr.cursor = rhdr.total % StoreMax /\ rhdr.cursor \in Slots /\ rhdr.total \in Nat
      /\ dslot \in [Slots -> Records]
  BY Totals, RecallTypes DEF RecallInv, HeadersAgree, InStep
<1>2. ASSUME rhdr.total < StoreMax, NEW s \in 0 .. (rhdr.total - 1)
      PROVE  Overwritten(r)[s] = dslot[s]
  <2>1. rhdr.total \in 0 .. (StoreMax - 1) /\ s # rhdr.total /\ s \in Slots
    BY <1>1, <1>2, Bounded DEF Slots
  <2>2. rhdr.total % StoreMax = rhdr.total
    BY <2>1, Bounded, ModSmall
  <2> QED BY <1>1, <2>1, <2>2 DEF Overwritten
<1> QED BY <1>1, <1>2 DEF Overwritten

\* Before the write and after it the store is in order.
LEMMA OrderKept ==
    ASSUME RecallInv, rs # "off", NEW r \in Records
    PROVE  /\ InOrder(dslot, rhdr.total, Max({past, 1}))
           /\ InOrder(Overwritten(r), rhdr.total, Max({past, 1}))
           /\ Max({past, 1}) = IF past = 0 THEN 1 ELSE past
<1> DEFINE t == rhdr.total
           c == rhdr.cursor
           e == Overwritten(r)
<1>1. t \in Nat /\ c = t % StoreMax /\ past \in Nat /\ InOrder(dslot, t, past)
  BY Totals, RecallTypes DEF RecallInv, HeadersAgree, InStep, Ordered
<1>2. \A s \in Slots : s # c => e[s] = dslot[s]
  BY SlotWritten
<1> HIDE DEF t, c, e
<1>3. InOrder(e, t, Max({past, 1})) /\ InOrder(dslot, t, Max({past, 1}))
  BY <1>1, <1>2, OverwriteKeeps
<1>4. Max({past, 1}) = IF past = 0 THEN 1 ELSE past
  BY <1>1, OfTwo
<1> QED BY <1>3, <1>4 DEF t, e

LEMMA WriteRecordKeeps == ASSUME RecallInv, WriteRecord PROVE RecallInv'
<1>1. /\ rs = "record" /\ rs' = "header" /\ dslot' = Overwritten(rrec)
      /\ past' = Max({past, 1})
      /\ UNCHANGED <<dhdr, rhdr, rix, vecs, rrec, last_seq, behind, turns, stops, errors>>
  BY DEF WriteRecord, Overwritten
<1>2. rrec \in Records /\ past \in Nat /\ behind \in Nat /\ errors \in Nat /\ rhdr.total \in Nat
  BY RecallTypes, Totals DEF RecallInv
<1>3. /\ dslot' \in [Slots -> Records] /\ dslot'[rhdr.cursor] = rrec
      /\ rhdr.total < StoreMax => \A s \in 0 .. (rhdr.total - 1) : dslot'[s] = dslot[s]
  BY <1>1, <1>2, SlotWritten
<1>4. InOrder(dslot', rhdr.total, past') /\ past' = IF past = 0 THEN 1 ELSE past
  BY <1>1, <1>2, OrderKept
<1>5. StoreTypeOK'
  BY <1>1, <1>2, <1>3, <1>4, RecallTypes, RecallTypesNext DEF RecallInv
<1>6. HeadersAgree'
  BY <1>1 DEF RecallInv, HeadersAgree, InStep, Flushed, Writing
<1>7. Ordered'
  <2>1. past' + behind' <= 1 + errors'
    BY <1>1, <1>2, <1>4 DEF RecallInv, Ordered
  <2>2. InOrder(dslot, rhdr.total, past)'
    BY <1>1, <1>4 DEF InOrder
  <2> QED BY <1>1, <2>1, <2>2 DEF RecallInv, Ordered
<1>8. AtHand'
  BY <1>1, <1>2, <1>3, <1>4 DEF RecallInv, AtHand, Writing
<1>9. Indexing'
  <2>1. ASSUME errors = 0, rhdr.total < StoreMax PROVE Lists(dslot', rix, rhdr.total)
    <3>1. Lists(dslot, rix, rhdr.total)
      BY <1>1, <1>2, <2>1, Bounded DEF RecallInv, Indexing, Built2
    <3> QED BY <1>2, <1>3, <2>1, <3>1, HoldsKept
  <2> QED BY <1>1, <2>1 DEF RecallInv, Indexing, Built2, Lists
<1> QED BY <1>5, <1>6, <1>7, <1>8, <1>9 DEF RecallInv

LEMMA RecordErrorKeeps == ASSUME RecallInv, RecordError PROVE RecallInv'
<1>1. /\ rs = "record" /\ rs' = "idle" /\ errors' = errors + 1
      /\ (dslot' = dslot \/ dslot' = Overwritten(rrec))
      /\ past' = Max({past, 1})
      /\ UNCHANGED <<dhdr, rhdr, rix, vecs, rrec, last_seq, behind, turns, stops>>
  BY DEF RecordError, Overwritten
<1>2. rrec \in Records /\ past \in Nat /\ behind \in Nat /\ errors \in Nat
      /\ dslot \in [Slots -> Records] /\ rhdr.total \in Nat /\ turns \in Nat
  BY <1>1, Totals, RecallTypes DEF RecallInv
<1>3. dslot' \in [Slots -> Records]
  BY <1>1, <1>2, SlotWritten
<1>4. InOrder(dslot', rhdr.total, past') /\ past' = IF past = 0 THEN 1 ELSE past
  BY <1>1, <1>2, OrderKept
<1>5. StoreTypeOK'
  BY <1>1, <1>2, <1>3, <1>4, RecallTypes, RecallTypesNext DEF RecallInv
<1>6. HeadersAgree'
  BY <1>1, <1>2 DEF RecallInv, HeadersAgree, InStep, Flushed, Writing
<1>7. Ordered'
  <2>1. past' + behind' <= 1 + errors' /\ behind' <= errors'
    BY <1>1, <1>2, <1>4 DEF RecallInv, Ordered
  <2>2. InOrder(dslot, rhdr.total, past)'
    BY <1>1, <1>4 DEF InOrder
  <2> QED BY <1>1, <2>1, <2>2 DEF RecallInv, Ordered
<1>8. AtHand'
  BY <1>1 DEF AtHand, Writing
<1>9. Indexing'
  BY <1>1, <1>2 DEF RecallInv, Indexing, Built2
<1> QED BY <1>5, <1>6, <1>7, <1>8, <1>9 DEF RecallInv

\* The header that counts the record leaves the history in order.
LEMMA HeaderInOrder ==
    ASSUME RecallInv, rs = "header"
    PROVE  /\ InOrder(dslot, rhdr.total + 1, past - 1) /\ past - 1 \in Nat
           /\ rhdr.total < StoreMax => dslot[rhdr.total] = rrec
           /\ Advanced \in Headers /\ Advanced.total = rhdr.total + 1 /\ InStep(Advanced)
           /\ rhdr.total + 1 <= turns /\ Advanced # Invalid
<1> DEFINE t == rhdr.total
<1>1. t \in Nat /\ past \in Nat /\ past > 0 /\ InOrder(dslot, t, past)
      /\ rhdr.cursor = t % StoreMax /\ dslot[rhdr.cursor] = rrec /\ rrec.seq = t
  BY Totals, RecallTypes DEF RecallInv, HeadersAgree, InStep, Ordered, AtHand, Writing
<1>2. /\ Advanced \in Headers /\ Advanced.total = rhdr.total + 1 /\ InStep(Advanced)
      /\ rhdr.total + 1 <= turns /\ Advanced # Invalid
  BY AdvancedIs DEF RecallInv, Writing
<1>3. t < StoreMax => dslot[t] = rrec
  <2>1. t < StoreMax => t % StoreMax = t
    <3>1. t < StoreMax => t \in 0 .. (StoreMax - 1)
      BY <1>1, Bounded
    <3> HIDE DEF t
    <3> QED BY <3>1, Bounded, ModSmall
  <2> QED BY <1>1, <2>1
<1>4. InOrder(dslot, t + 1, past - 1)
  <2> HIDE DEF t
  <2>1. dslot[t % StoreMax].seq = t
    BY <1>1
  <2> QED BY <1>1, <2>1, NextInOrder
<1>5. past - 1 \in Nat
  BY <1>1
<1> QED BY <1>2, <1>3, <1>4, <1>5

LEMMA WriteHeaderKeeps == ASSUME RecallInv, WriteHeader PROVE RecallInv'
<1> DEFINE li == Count(Advanced) - 1
           ix == Added(rix, rrec, li)
<1>1. /\ rs = "header" /\ rs' = IF rrec.usable THEN "embed" ELSE "idle"
      /\ rhdr' = Advanced /\ dhdr' = Advanced /\ rix' = ix
      /\ last_seq' = (IF rrec.usable THEN li ELSE last_seq)
      /\ past' = past - 1 /\ behind' = 0
      /\ UNCHANGED <<dslot, vecs, rrec, turns, stops, errors>>
  BY DEF WriteHeader, Indexed
<1>2. /\ InOrder(dslot, rhdr.total + 1, past - 1) /\ past - 1 \in Nat
      /\ rhdr.total < StoreMax => dslot[rhdr.total] = rrec
      /\ Advanced \in Headers /\ Advanced.total = rhdr.total + 1 /\ InStep(Advanced)
      /\ rhdr.total + 1 <= turns /\ Advanced # Invalid
  BY <1>1, HeaderInOrder
<1>3. /\ li \in Slots /\ li \in 0 .. MaxTurns
      /\ rhdr.total < StoreMax => li = rhdr.total
  BY <1>1, AdvancedIs DEF RecallInv, Writing
<1>4. /\ rix \in Seq(Entries) /\ Len(rix) <= StoreMax /\ Len(rix) \in Nat /\ Len(rix) <= rhdr.total
      /\ rrec \in Records /\ rhdr.total \in Nat /\ turns \in 0 .. MaxTurns /\ errors \in Nat
  BY RecallTypes, Totals, LenProperties DEF RecallInv, Indexing
<1> HIDE DEF li
<1>5. ix \in Seq(Entries) /\ Len(ix) <= StoreMax /\ Len(ix) <= Len(rix) + 1 /\ Len(ix) \in Nat
  BY <1>3, <1>4, AddedIs, LenProperties
<1> HIDE DEF ix
<1>6. StoreTypeOK'
  BY <1>1, <1>2, <1>3, <1>5, RecallTypes, RecallTypesNext DEF RecallInv
<1>7. HeadersAgree'
  BY <1>1, <1>2, <1>4 DEF HeadersAgree, InStep, Flushed, Writing
<1>8. Ordered'
  <2>1. past' + behind' <= 1 + errors' /\ behind' <= errors'
    BY <1>1, <1>2, <1>4, RecallTypes DEF RecallInv, Ordered
  <2>2. InOrder(dslot, rhdr.total, past)'
    BY <1>1, <1>2 DEF InOrder
  <2> QED BY <1>1, <2>1, <2>2 DEF Ordered
<1>9. AtHand'
  <2>1. rrec \in Turns
    BY <1>1 DEF RecallInv, AtHand, Writing
  <2> QED BY <1>1, <2>1 DEF AtHand, Writing
<1>10. Indexing'
  <2>1. Len(rix') <= rhdr'.total
    BY <1>1, <1>2, <1>4, <1>5
  <2>2. ASSUME errors = 0, rhdr.total + 1 <= StoreMax PROVE Lists(dslot, ix, rhdr.total + 1)
    <3> DEFINE n == rhdr.total
    <3>1. n < StoreMax /\ n \in Slots /\ li = n /\ Len(rix) <= n
      BY <1>3, <1>4, <2>2, Bounded DEF Slots
    <3>2. Lists(dslot, rix, n) /\ dslot[n] = rrec
      BY <1>1, <1>2, <2>2, <3>1 DEF RecallInv, Indexing, Built2
    <3> HIDE DEF n
    <3>3. Lists(dslot, Added(rix, rrec, n), n + 1)
      BY <1>4, <3>1, <3>2, AddedHolds
    <3> QED BY <3>1, <3>3 DEF n, ix
  <2>3. rhdr'.total = rhdr.total + 1 /\ rs' # "header"
    BY <1>1, <1>2
  <2> QED BY <1>1, <2>1, <2>2, <2>3 DEF Indexing, Built2, Lists
<1> QED BY <1>6, <1>7, <1>8, <1>9, <1>10 DEF RecallInv

LEMMA HeaderErrorKeeps == ASSUME RecallInv, HeaderError PROVE RecallInv'
<1>1. /\ rs = "header" /\ rs' = "idle" /\ errors' = errors + 1
      /\ rhdr' = Advanced /\ past' = past - 1
      /\ (dhdr' = Advanced /\ behind' = 0) \/ (dhdr' = dhdr /\ behind' = behind + 1)
      /\ UNCHANGED <<dslot, rix, vecs, rrec, last_seq, turns, stops>>
  BY DEF HeaderError
<1>2. /\ InOrder(dslot, rhdr.total + 1, past - 1) /\ past - 1 \in Nat
      /\ Advanced \in Headers /\ Advanced.total = rhdr.total + 1 /\ InStep(Advanced)
      /\ rhdr.total + 1 <= turns /\ Advanced # Invalid
  BY <1>1, HeaderInOrder
<1>3. /\ rhdr.total \in Nat /\ turns \in Nat /\ errors \in Nat /\ behind \in Nat /\ past \in Nat
      /\ dhdr # Invalid /\ dhdr.total \in Nat /\ rhdr.total = dhdr.total + behind
      /\ InStep(dhdr) /\ dhdr.total <= turns /\ dhdr \in Headers
  BY <1>1, RecallTypes, Totals DEF RecallInv, HeadersAgree, Flushed
<1>4. Len(rix) \in Nat /\ Len(rix) <= rhdr.total
  BY RecallTypes, LenProperties DEF RecallInv, Indexing
<1>5. StoreTypeOK'
  BY <1>1, <1>2, <1>3, RecallTypes, RecallTypesNext DEF RecallInv
<1>6. HeadersAgree'
  BY <1>1, <1>2, <1>3 DEF HeadersAgree, InStep, Flushed, Writing
<1>7. Ordered'
  <2>1. past' + behind' <= 1 + errors' /\ behind' <= errors'
    BY <1>1, <1>2, <1>3 DEF RecallInv, Ordered
  <2>2. InOrder(dslot, rhdr.total, past)'
    BY <1>1, <1>2 DEF InOrder
  <2> QED BY <1>1, <2>1, <2>2 DEF Ordered
<1>8. AtHand'
  BY <1>1 DEF AtHand, Writing
<1>9. Indexing'
  BY <1>1, <1>2, <1>3, <1>4 DEF Indexing, Built2
<1> QED BY <1>5, <1>6, <1>7, <1>8, <1>9 DEF RecallInv

------------------------------------------------------------------------------
(* ... the vectors, a stop, ... *)

Vectors == [seq : 0 .. MaxTurns, key : Keys, of : 0 .. MaxTurns]

LEMMA PutIs ==
    ASSUME vecs \subseteq Vectors, NEW n \in 0 .. MaxTurns, NEW k \in Keys, NEW o \in 0 .. MaxTurns
    PROVE  Put(n, k, o) \subseteq Vectors
BY DEF Put, Vectors

\* What only adds vectors keeps the rest.
LEMMA VectorsKeep ==
    ASSUME RecallInv, vecs' \subseteq Vectors, rs' = "idle", rs \in {"embed", "idle"},
           UNCHANGED <<dhdr, dslot, rhdr, rix, rrec, last_seq, past, behind, turns, stops, errors>>
    PROVE  RecallInv'
<1>1. StoreTypeOK'
  BY RecallTypes, RecallTypesNext DEF RecallInv, Vectors
<1>2. HeadersAgree'
  BY DEF RecallInv, HeadersAgree, InStep, Flushed, Writing
<1>3. Ordered'
  BY DEF RecallInv, Ordered, InOrder
<1>4. AtHand'
  BY DEF AtHand, Writing
<1>5. Indexing'
  BY DEF RecallInv, Indexing, Built2, Lists
<1> QED BY <1>1, <1>2, <1>3, <1>4, <1>5 DEF RecallInv

LEMMA EmbedTurnKeeps == ASSUME RecallInv, EmbedTurn PROVE RecallInv'
<1>1. /\ rs = "embed" /\ rs' = "idle"
      /\ vecs' = vecs \/ vecs' = Put(last_seq, rrec.key, rrec.seq)
      /\ UNCHANGED <<dhdr, dslot, rhdr, rix, rrec, last_seq, past, behind, turns, stops, errors>>
  BY DEF EmbedTurn
<1>2. vecs \subseteq Vectors /\ last_seq \in 0 .. MaxTurns
      /\ rrec.key \in Keys /\ rrec.seq \in 0 .. MaxTurns
  BY <1>1, RecallTypes DEF RecallInv, AtHand, Vectors, Turns
<1>3. vecs' \subseteq Vectors
  BY <1>1, <1>2, PutIs
<1> QED BY <1>1, <1>3, VectorsKeep

LEMMA BackfillKeeps == ASSUME RecallInv, Backfill PROVE RecallInv'
<1>1. PICK i \in DOMAIN rix : /\ RecAt(rix[i].li).key = rix[i].key
                             /\ vecs' = Put(RecAt(rix[i].li).seq, RecAt(rix[i].li).key,
                                            RecAt(rix[i].li).seq)
  BY DEF Backfill
<1>2. /\ rs = "idle" /\ rs' = "idle"
      /\ UNCHANGED <<dhdr, dslot, rhdr, rix, rrec, last_seq, past, behind, turns, stops, errors>>
  BY DEF Backfill
<1>3. rix[i].key \in Keys /\ rix[i].li \in Slots /\ vecs \subseteq Vectors
  <2>1. rix \in Seq(Entries) /\ vecs \subseteq Vectors
    BY RecallTypes DEF RecallInv, Vectors
  <2>2. rix[i] \in Entries
    BY <2>1, ElementOfSeq, LenProperties
  <2> QED BY <2>1, <2>2 DEF Entries
<1>4. RecAt(rix[i].li) \in Records
  BY <1>3, RecordIs, Bounded DEF RecallInv, Slots
<1>5. RecAt(rix[i].li).seq \in 0 .. MaxTurns
  BY <1>4, Bounded DEF Records, Turns, NoRecord, TornRecord
<1>6. vecs' \subseteq Vectors
  BY <1>1, <1>3, <1>5, PutIs
<1> QED BY <1>2, <1>6, VectorsKeep

LEMMA StopKeeps == ASSUME RecallInv, Stop PROVE RecallInv'
<1>1. /\ rs # "off" /\ rs' = "off" /\ stops' = stops + 1
      /\ rhdr' = Fresh /\ rix' = <<>> /\ rrec' = NoRecord /\ last_seq' = 0
      /\ UNCHANGED <<vecs, turns, errors>> /\ behind' = 0
      /\ \/ dhdr' = dhdr /\ dslot' = dslot /\ past' = past + behind
         \/ dhdr' = Invalid /\ dslot' = dslot /\ past' = 0
         \/ /\ dhdr' = dhdr /\ past' = Max({past, 1}) + behind /\ rs = "record"
            /\ dslot' = Overwritten(rrec) \/ dslot' = Overwritten(TornRecord)
         \/ dhdr' = Advanced /\ dslot' = dslot /\ past' = past - 1 /\ rs = "header"
  BY DEF Stop, Overwritten
<1>2. /\ past \in Nat /\ behind \in Nat /\ errors \in Nat /\ stops \in Nat /\ turns \in 0 .. MaxTurns
      /\ rrec \in Records /\ TornRecord \in Records /\ NoRecord \in Records
      /\ dslot \in [Slots -> Records] /\ dhdr \in Headers \cup {Invalid}
      /\ behind <= errors /\ past + behind <= 1 + errors
  BY RecallTypes DEF RecallInv, Records, Ordered
\* What is in order from the header on disk.
<1>3. ASSUME NEW d, NEW p \in Nat, InOrder(d, rhdr.total, p), dhdr # Invalid
      PROVE  InOrder(d, dhdr.total, p + behind)
  <2> DEFINE t == dhdr.total
             u == rhdr.total
  <2>1. t \in Nat /\ u = t + behind
    BY <1>1, <1>2, <1>3, Totals DEF RecallInv, HeadersAgree, Flushed
  <2>2. InOrder(d, u, p)
    BY <1>3
  <2> HIDE DEF t, u
  <2>3. InOrder(d, t, p + behind)
    BY <1>2, <1>3, <2>1, <2>2, LagInOrder
  <2> QED BY <2>3 DEF t
<1>4. InOrder(dslot, rhdr.total, past)
  BY <1>1 DEF RecallInv, Ordered
<1>5. /\ dhdr' \in Headers \cup {Invalid} /\ dslot' \in [Slots -> Records]
      /\ past' \in Nat /\ past' <= 1 + errors
      /\ dhdr' # Invalid => /\ InStep(dhdr') /\ dhdr'.total <= turns
                            /\ InOrder(dslot', dhdr'.total, past')
  <2>1. dhdr # Invalid => InStep(dhdr) /\ dhdr.total <= turns
    BY DEF RecallInv, HeadersAgree
  <2>2. CASE dhdr' = dhdr /\ dslot' = dslot /\ past' = past + behind
    <3>1. dhdr # Invalid => InOrder(dslot, dhdr.total, past + behind)
      BY <1>2, <1>3, <1>4
    <3> QED BY <1>2, <2>1, <2>2, <3>1
  <2>3. CASE dhdr' = Invalid /\ dslot' = dslot /\ past' = 0
    BY <1>2, <2>3
  <2>4. CASE /\ dhdr' = dhdr /\ past' = Max({past, 1}) + behind
             /\ dslot' = Overwritten(rrec) \/ dslot' = Overwritten(TornRecord)
    <3>1. PICK r \in Records : dslot' = Overwritten(r)
      BY <1>2, <2>4
    <3>2. InOrder(Overwritten(r), rhdr.total, Max({past, 1}))
          /\ Max({past, 1}) = IF past = 0 THEN 1 ELSE past
      BY <1>1, OrderKept
    <3>3. Max({past, 1}) \in Nat /\ Max({past, 1}) + behind <= 1 + errors
      BY <1>2, <3>2
    <3>4. dhdr # Invalid => InOrder(Overwritten(r), dhdr.total, Max({past, 1}) + behind)
      BY <1>3, <3>2, <3>3
    <3>5. Overwritten(r) \in [Slots -> Records]
      BY SlotWritten
    <3>6. past' \in Nat /\ past' <= 1 + errors
      BY <1>2, <2>4, <3>3
    <3> QED BY <1>2, <2>1, <2>4, <3>1, <3>4, <3>5, <3>6
  <2>5. CASE dhdr' = Advanced /\ dslot' = dslot /\ past' = past - 1 /\ rs = "header"
    <3>1. /\ InOrder(dslot, rhdr.total + 1, past - 1) /\ past - 1 \in Nat
          /\ Advanced \in Headers /\ Advanced.total = rhdr.total + 1 /\ InStep(Advanced)
          /\ rhdr.total + 1 <= turns /\ Advanced # Invalid
      BY <2>5, HeaderInOrder
    <3> QED BY <1>2, <2>5, <3>1
  <2> QED BY <1>1, <2>2, <2>3, <2>4, <2>5
<1>6. StoreTypeOK'
  <2>1. <<>> \in Seq(Entries) /\ Len(<<>>) = 0
    OBVIOUS
  <2> QED BY <1>1, <1>2, <1>5, <2>1, FreshIs, Bounded, RecallTypes, RecallTypesNext DEF RecallInv
<1>7. HeadersAgree'
  BY <1>1, <1>2, <1>5, FreshIs DEF HeadersAgree, InStep, Flushed, Writing
<1>8. Ordered'
  <2>0. behind' = 0 /\ errors' = errors /\ rs' = "off"
    BY <1>1
  <2>1. past' + behind' <= 1 + errors' /\ behind' <= errors'
    <3> DEFINE p == past'
               b == behind'
               e == errors'
    <3>1. p \in Nat /\ p <= 1 + e /\ e \in Nat /\ b = 0
      BY <1>2, <1>5, <2>0
    <3> HIDE DEF p, b, e
    <3>2. p + b <= 1 + e /\ b <= e
      BY <3>1
    <3> QED BY <3>2 DEF p, b, e
  <2>2. dhdr' # Invalid => InOrder(dslot, dhdr.total, past)'
    BY <1>5 DEF InOrder
  <2> QED BY <2>0, <2>1, <2>2 DEF Ordered
<1>9. AtHand' /\ Indexing'
  BY <1>1, FreshIs DEF AtHand, Indexing, Writing, Built2
<1> QED BY <1>6, <1>7, <1>8, <1>9 DEF RecallInv

LEMMA StoreRests == ASSUME RecallInv, UNCHANGED rsVars PROVE RecallInv'
<1> USE DEF rsVars
<1>1. StoreTypeOK'
  BY RecallTypes, RecallTypesNext DEF RecallInv
<1>2. HeadersAgree' /\ AtHand'
  BY DEF RecallInv, HeadersAgree, AtHand, InStep, Flushed, Writing
<1>3. Ordered'
  BY DEF RecallInv, Ordered, InOrder
<1>4. Indexing'
  BY DEF RecallInv, Indexing, Built2, Lists
<1> QED BY <1>1, <1>2, <1>3, <1>4 DEF RecallInv

LEMMA RecallStep == RecallInv /\ [RsNext]_rsVars => RecallInv'
BY BootKeeps, InitFlushKeeps, BuildKeeps, TurnKeeps, WriteRecordKeeps, RecordErrorKeeps,
   WriteHeaderKeeps, HeaderErrorKeeps, EmbedTurnKeeps, BackfillKeeps, StopKeeps, StoreRests
   DEF RsNext, Rest

LEMMA RecallStart == RsInit => RecallInv
<1> SUFFICES ASSUME RsInit PROVE RecallInv
  OBVIOUS
<1>1. /\ dhdr = Invalid /\ dslot = [s \in Slots |-> NoRecord]
      /\ rhdr = Fresh /\ rix = <<>> /\ vecs = {}
      /\ rs = "off" /\ rrec = NoRecord /\ last_seq = 0
      /\ past = 0 /\ behind = 0 /\ turns = 0 /\ stops = 0 /\ errors = 0
  BY DEF RsInit, Slots
<1>2. StoreTypeOK
  <2>1. <<>> \in Seq(Entries) /\ Len(<<>>) = 0 /\ NoRecord \in Records
    BY DEF Records
  <2> QED BY <1>1, <2>1, FreshIs, Bounded, RecallTypes
<1>3. HeadersAgree /\ AtHand /\ Ordered /\ Indexing
  BY <1>1, FreshIs DEF HeadersAgree, AtHand, Ordered, Indexing, Flushed, Writing, Built2
<1> QED BY <1>2, <1>3 DEF RecallInv

------------------------------------------------------------------------------
(* What the invariant says of what is recalled. *)

\* The greatest of a set of positions that may be empty, and of the set with -1 added.
LEMMA NewestOf ==
    ASSUME NEW n \in Nat, NEW S \in SUBSET (0 .. (n - 1))
    PROVE  /\ S = {} => Max(S \cup {-1}) = -1
           /\ S # {} => Max(S) \in S /\ Max(S \cup {-1}) = Max(S)
<1>1. S = {} => Max(S \cup {-1}) = -1
  <2>1. S = {} => S \cup {-1} = {-1}
    OBVIOUS
  <2>2. Max({-1}) = -1
    BY DEF Max
  <2> QED BY <2>1, <2>2
<1>2. ASSUME S # {} PROVE Max(S) \in S /\ Max(S \cup {-1}) = Max(S)
  <2>1. S \in SUBSET (0 .. n)
    OBVIOUS
  <2>2. Max(S) \in S /\ \A m \in S : m <= Max(S)
    BY <1>2, <2>1, MaxIs
  <2> DEFINE x == Max(S)
             T == S \cup {-1}
  <2>3. x \in T /\ \A m \in T : m <= x
    <3>1. x \in S /\ x \in 0 .. (n - 1) /\ \A m \in S : m <= x
      BY <2>2
    <3> HIDE DEF x
    <3> QED BY <3>1
  <2>4. T \subseteq Int
    OBVIOUS
  <2> HIDE DEF x
  <2>5. \A y \in T : (\A m \in T : y >= m) => y = x
    BY <2>3, <2>4
  <2>6. \E y \in T : \A m \in T : y >= m
    BY <2>3, <2>4
  <2>7. Max(T) = x
    <3>1. Max(T) \in T /\ \A m \in T : Max(T) >= m
      BY <2>6 DEF Max
    <3> QED BY <2>5, <3>1
  <2> QED BY <2>2, <2>7 DEF x
<1> QED BY <1>1, <1>2

LEMMA OrderedHistory == RecallInv => HistoryInOrder
<1> SUFFICES ASSUME RecallInv, rs \in {"build", "idle"} PROVE
             /\ past <= 1 + errors
             /\ \A li \in 0 .. (Count(rhdr) - 1) :
                  \/ SlotOf(rhdr, li) \in {(rhdr.cursor + j) % StoreMax : j \in 0 .. (past - 1)}
                  \/ RecAt(li).seq = rhdr.total - Count(rhdr) + li
  BY DEF HistoryInOrder
<1> DEFINE t == rhdr.total
<1>1. past \in Nat /\ behind \in Nat /\ errors \in Nat /\ t \in Nat
      /\ rhdr.cursor = t % StoreMax /\ InOrder(dslot, t, past) /\ past + behind <= 1 + errors
  BY RecallTypes, Totals DEF RecallInv, Ordered, HeadersAgree, InStep
<1>2. ASSUME NEW li \in 0 .. (Count(rhdr) - 1)
      PROVE  \/ SlotOf(rhdr, li) \in {(rhdr.cursor + j) % StoreMax : j \in 0 .. (past - 1)}
             \/ RecAt(li).seq = t - Count(rhdr) + li
  <2> DEFINE n == t - Count(rhdr) + li
  <2>1. SlotOf(rhdr, li) = n % StoreMax /\ n \in 0 .. (t - 1) /\ n >= t - StoreMax
    BY <1>1, SlotIs
  <2> HIDE DEF n, t
  <2>2. CASE n >= t - StoreMax + past
    <3>1. n \in Nat /\ n < t
      BY <1>1, <2>1
    <3>2. dslot[n % StoreMax].seq = n
      BY <1>1, <2>2, <3>1 DEF InOrder
    <3>3. RecAt(li).seq = n
      BY <2>1, <3>2 DEF RecAt
    <3> QED BY <3>3 DEF n, t
  <2>3. CASE ~(n >= t - StoreMax + past)
    <3> DEFINE j == n - (t - StoreMax)
    <3>1. j \in 0 .. (past - 1) /\ t + j = n + StoreMax
      BY <1>1, <2>1, <2>3, Bounded
    <3> HIDE DEF j
    <3>2. ((t % StoreMax) + j) % StoreMax = (t + j) % StoreMax
      <4>1. t \in Int /\ j \in Int /\ StoreMax \in Nat \ {0}
        BY <1>1, <3>1, Bounded
      <4> QED BY <4>1, ModAdd
    <3>3. (n + StoreMax) % StoreMax = n % StoreMax
      <4>1. n \in Int /\ StoreMax \in Nat \ {0}
        BY <2>1, Bounded
      <4> QED BY <4>1, ModAdd
    <3>4. SlotOf(rhdr, li) = (rhdr.cursor + j) % StoreMax
      BY <1>1, <2>1, <3>1, <3>2, <3>3
    <3> QED BY <3>1, <3>4
  <2> QED BY <2>2, <2>3
<1>3. past <= 1 + errors
  BY <1>1
<1> QED BY <1>2, <1>3

LEMMA AnswersNewest == RecallInv => NewestAnswer
<1> SUFFICES ASSUME RecallInv, rs = "idle", errors = 0, rhdr.total <= StoreMax, NEW k \in Keys
             PROVE
        LET good == {li \in 0 .. (Count(rhdr) - 1) : RecAt(li).key = k /\ RecAt(li).usable}
        IN Recalled(k) = IF good = {} THEN {} ELSE {RecAt(Max(good))}
  BY DEF NewestAnswer
<1> DEFINE n == rhdr.total
           good == {li \in 0 .. (Count(rhdr) - 1) : RecAt(li).key = k /\ RecAt(li).usable}
           found == {rix[i].li : i \in {j \in DOMAIN rix : rix[j].key = k}}
<1>1. n \in Nat /\ n <= StoreMax /\ rhdr.cursor = n % StoreMax /\ Lists(dslot, rix, n)
  BY Totals DEF RecallInv, HeadersAgree, InStep, Indexing, Built2
<1>2. Count(rhdr) = n
  BY <1>1, CountIs, Bounded
<1>3. ASSUME NEW l \in 0 .. (n - 1) PROVE RecAt(l) = dslot[l]
  <2>1. SlotOf(rhdr, l) = (rhdr.total - n + l) % StoreMax
    BY <1>1, <1>2, SlotIs
  <2>2. rhdr.total - n + l = l /\ l \in 0 .. (StoreMax - 1)
    BY <1>1, Bounded
  <2>3. l % StoreMax = l
    BY <2>2, Bounded, ModSmall
  <2> QED BY <2>1, <2>2, <2>3 DEF RecAt
<1> HIDE DEF n
<1>4. found = good
  <2>1. ASSUME NEW i \in DOMAIN rix, rix[i].key = k PROVE rix[i].li \in good
    BY <1>1, <1>2, <1>3, <2>1 DEF Lists
  <2>2. ASSUME NEW l \in good PROVE \E i \in DOMAIN rix : rix[i].key = k /\ rix[i].li = l
    <3>1. l \in 0 .. (n - 1) /\ dslot[l].usable /\ dslot[l].key = k
      BY <1>2, <1>3
    <3>2. PICK i \in DOMAIN rix : rix[i].li = l
      BY <1>1, <3>1 DEF Lists
    <3>3. rix[i].key = k
      BY <1>1, <3>1, <3>2 DEF Lists
    <3> QED BY <3>2, <3>3
  <2> QED BY <2>1, <2>2
<1>5. Lookup(k) = Max(good \cup {-1})
  BY <1>4 DEF Lookup
<1>6. good \in SUBSET (0 .. (n - 1)) /\ \A l \in good : RecAt(l).key = k /\ RecAt(l).usable
  BY <1>2
<1> HIDE DEF good, found
<1>7. CASE good = {}
  <2>1. Lookup(k) = -1
    BY <1>1, <1>5, <1>6, <1>7, NewestOf
  <2> QED BY <1>7, <2>1 DEF Recalled, good
<1>8. CASE good # {}
  <2>1. Max(good) \in good /\ Lookup(k) = Max(good)
    BY <1>1, <1>5, <1>6, <1>8, NewestOf
  <2>2. Lookup(k) \in 0 .. (n - 1) /\ RecAt(Lookup(k)).key = k /\ RecAt(Lookup(k)).usable
    BY <1>6, <2>1
  <2>3. ~(Lookup(k) = -1 \/ Lookup(k) >= Count(rhdr))
    BY <1>1, <1>2, <2>2
  <2>4. Recalled(k) = {RecAt(Lookup(k))}
    BY <2>2, <2>3 DEF Recalled, SameKey
  <2> QED BY <1>8, <2>1, <2>4 DEF good
<1> QED BY <1>7, <1>8

LEMMA RecallsRight == RightRecall
BY DEF RightRecall, Recalled, Candidates, SameKey

\* Header, index, vectors, records on disk and in memory keep their types however often the
\* store rolls, a write fails or the machine stops (episodic_store.c, ctrl_epi_index.c).
THEOREM RecallTypeCorrect == RsSpec => []StoreTypeOK
<1>1. RecallInv => StoreTypeOK
  BY DEF RecallInv
<1> QED BY <1>1, RecallStart, RecallStep, PTL DEF RsSpec

\* For every size of the store, and however often it rolls, a write reports an error and the
\* machine stops within a write: read by logical index the store is its history in order, but
\* for at most one overwritten position for each failed write and one for a stop; until it
\* rolls, a question is answered from its newest usable turn; and nothing is recalled for
\* another question (epi_store_append, epi_store_read, ctrl_index_build, ctrl_sem_gather).
THEOREM RecallIsHonest == RsSpec => []RecallHonest
<1>1. RecallInv => RecallHonest
  BY OrderedHistory, AnswersNewest, RecallsRight DEF RecallHonest
<1> QED BY <1>1, RecallStart, RecallStep, PTL DEF RsSpec

------------------------------------------------------------------------------
(* The stores side by side. *)
\* A step is a step of one part, and of the cache alone or of growth.
CacheAlone ==
    /\ part = "cache" /\ CacheNext
    /\ UNCHANGED <<freq, batch, growAt, growPhase, growth, kept, seenBy>>

LEMMA PartSteps ==
    ASSUME [StoresNext]_storeVars
    PROVE  /\ [Next]_vars /\ [RsNext]_rsVars /\ [BeliefNext]_beliefVars
           /\ CacheAlone \/ (part # "cache" /\ GrowNext) \/ UNCHANGED growVars
           /\ part' = part
<1>1. CASE FloorPart(Next)
  BY <1>1 DEF FloorPart, RecallRests, GrowthRests, HouseRests
<1>2. CASE RecallPart(RsNext)
  BY <1>2 DEF RecallPart, FloorRests, GrowthRests, HouseRests
<1>3. CASE CachePart(CacheNext)
  BY <1>3 DEF CachePart, CacheAlone, FloorRests, RecallRests, HouseRests
<1>4. CASE GrowthPart(GrowNext)
  BY <1>4 DEF GrowthPart, FloorRests, RecallRests, HouseRests
<1>5. CASE HousePart(BeliefNext)
  BY <1>5 DEF HousePart, FloorRests, RecallRests, GrowthRests
<1>6. CASE UNCHANGED storeVars
  BY <1>6 DEF storeVars
<1> QED BY <1>1, <1>2, <1>3, <1>4, <1>5, <1>6 DEF StoresNext

\* The stores are the floor, ...
LEMMA StoresAreFloor == StoresSpec => Spec
<1>1. StoresInit => Init
  BY DEF StoresInit
<1>2. [StoresNext]_storeVars => [Next]_vars
  BY PartSteps
<1> QED BY <1>1, <1>2, PTL DEF StoresSpec, Spec

\* ... the store of turns, ...
LEMMA StoresAreRecall == StoresSpec => RsSpec
<1>1. StoresInit => RsInit
  BY DEF StoresInit
<1>2. [StoresNext]_storeVars => [RsNext]_rsVars
  BY PartSteps
<1> QED BY <1>1, <1>2, PTL DEF StoresSpec, RsSpec

\* ... the household store, ...
LEMMA StoresAreHouse == StoresSpec => BeliefSpec
<1>1. StoresInit => BeliefInit
  BY DEF StoresInit
<1>2. [StoresNext]_storeVars => [BeliefNext]_beliefVars
  BY PartSteps
<1> QED BY <1>1, <1>2, PTL DEF StoresSpec, BeliefSpec

\* ... and the cache, by itself or growing.
Resting ==
    /\ freq = [q \in {} |-> 0] /\ batch = <<>> /\ growAt = 0 /\ growPhase = "load"
    /\ growth = 0 /\ kept = <<>>

TablePart == CacheInv /\ IF part = "cache" THEN Resting ELSE GrowInv

LEMMA TablePartInit == StoresInit => TablePart
<1>1. StoresInit => GrowInit
  BY DEF StoresInit
<1>2. GrowInit => CacheInv /\ Resting /\ GrowInv
  BY GrowStart DEF GrowInit, Resting, GrowInv, TableInv
<1> QED BY <1>1, <1>2 DEF TablePart

LEMMA TablePartStep == TablePart /\ [StoresNext]_storeVars => TablePart'
<1> SUFFICES ASSUME TablePart, [StoresNext]_storeVars PROVE TablePart'
  OBVIOUS
<1>1. (CacheAlone \/ (part # "cache" /\ GrowNext) \/ UNCHANGED growVars) /\ part' = part
  BY PartSteps
<1>2. CASE CacheAlone
  <2>1. CacheInv'
    BY <1>2, CacheStepInv DEF CacheAlone, TablePart
  <2> QED BY <1>1, <1>2, <2>1 DEF TablePart, CacheAlone, Resting
<1>3. CASE part # "cache" /\ GrowNext
  <2>1. GrowInv'
    BY <1>3, GrowStep DEF TablePart
  <2> QED BY <1>1, <1>3, <2>1 DEF TablePart, GrowInv, TableInv
<1>4. CASE UNCHANGED growVars
  <2>1. GrowInv => GrowInv'
    BY <1>4, GrowStep
  <2>2. CacheInv'
    BY <1>4, CacheRestInv DEF growVars, TablePart
  <2> QED BY <1>1, <1>4, <2>1, <2>2 DEF TablePart, growVars, Resting
<1> QED BY <1>1, <1>2, <1>3, <1>4

LEMMA TableInvariant == StoresSpec => []TablePart
BY TablePartInit, TablePartStep, PTL DEF StoresSpec

\* No frame is accepted twice, whatever the other stores do, on a box of one sort of reset
\* (pa_verify_candidate, control_replay_check).
THEOREM StoresAcceptOnce == ASSUME SafeDeployment PROVE StoresSpec => []AcceptedOnce
BY StoresAreFloor, NoReplay, PTL

\* The floor the next boot resumes from covers everything accepted (ctrl_floor_persist_ahead).
THEOREM StoresKeepFloor == ASSUME SafeDeployment PROVE StoresSpec => []FloorKept
BY StoresAreFloor, FloorSurvives, PTL

\* Every entry of the cache is found by the probe of its query, by itself and under growth
\* (cache_lookup), and the promotion pass costs no pattern, takes in only what was recorded
\* often enough, and counts it (the pass of main_x86.c, epi_batch_add).
THEOREM StoresCacheSound == StoresSpec => []CacheSound
<1>1. TablePart => CacheSound
  <2>1. Resting => GrowthKeeps
    BY DEF Resting, GrowthKeeps
  <2> QED BY <2>1, GrowthKept DEF TablePart, CacheInv, CacheSound
<1> QED BY <1>1, TableInvariant, PTL

\* What is recalled is what was stored, in its place, for the question asked, whatever the
\* other stores do (epi_store_read, ctrl_index_lookup, ctrl_sem_gather).
THEOREM StoresRecallHonest == StoresSpec => []RecallHonest
BY StoresAreRecall, RecallIsHonest, PTL

\* Every variable of every store keeps its type, in every deployment, for every table, store,
\* batch and household.
THEOREM StoresTypesCorrect == StoresSpec => []StoreTypes
<1>1. TablePart => CacheTypeOK /\ CgTypeOK
  <2>1. Resting => CgTypeOK
    BY CacheAssumption, GrowthAssumption DEF Resting, CgTypeOK
  <2> QED BY <2>1, GrowthTyped DEF TablePart, CacheInv
<1>2. StoresSpec => []BeliefTypeOK
  BY StoresAreHouse, BeliefTypeCorrect, PTL
<1>3. StoresSpec => []StoreTypeOK
  BY StoresAreRecall, RecallTypeCorrect, PTL
<1>4. StoresSpec => []TypeOK
  BY StoresAreFloor, FloorTypeCorrect, PTL
<1>5. TypeOK /\ StoreTypeOK /\ CacheTypeOK /\ CgTypeOK /\ BeliefTypeOK => StoreTypes
  BY DEF StoreTypes
<1> QED BY <1>1, <1>2, <1>3, <1>4, <1>5, TableInvariant, PTL

\* Beside the other stores too, a slot of one value has one current row, every loss is
\* audited and deserved, and the indexes hold what is current (ingest, purge_cluster).
THEOREM StoresHouseSafe == StoresSpec => []BeliefSafe
BY StoresAreHouse, HouseholdIsSound, PTL

\* A step of growth is a step of the map too: what it inserts, looks up or clears.
LEMMA GrowRefines == GrowInv /\ [GrowNext]_growVars => [Lru!Next]_(Lru!vars)
<1> SUFFICES ASSUME GrowInv, [GrowNext]_growVars PROVE [Lru!Next]_(Lru!vars)
  OBVIOUS
<1>0. CacheInv /\ Asked \subseteq CacheQueries /\ DOMAIN Patterns \subseteq Asked
      /\ Learned \subseteq Asked
  BY GrowthAssumption DEF Learned, GrowInv, TableInv
<1>1. ASSUME UNCHANGED cacheVars PROVE [Lru!Next]_(Lru!vars)
  BY <1>0, <1>1, CacheRefines
<1>2. ASSUME NEW q \in CacheQueries, CacheHit(q) PROVE Lru!Next
  BY <1>0, <1>2, HitRefines
<1>3. ASSUME NEW q \in CacheQueries, NEW a \in CacheActions, CacheInsert(q, a) PROVE Lru!Next
  BY <1>0, <1>3, InsertRefines
<1>4. ASSUME NEW p \in DOMAIN Patterns, Load(p) PROVE Lru!Next
  <2>1. p \in CacheQueries /\ Patterns[p] \in CacheActions
    BY <1>0, GrowthAssumption
  <2> QED BY <1>3, <1>4, <2>1 DEF Load
<1>5. ASSUME NEW p \in DOMAIN Patterns, AskCache(p) PROVE [Lru!Next]_(Lru!vars)
  <2>1. CacheHit(p) \/ UNCHANGED cacheVars
    BY <1>5 DEF AskCache
  <2> QED BY <1>0, <1>1, <1>2, <2>1
<1>6. ASSUME NEW q \in Learned, ServePromoted(q) PROVE Lru!Next
  BY <1>0, <1>2, <1>6 DEF ServePromoted
<1>7. CASE Promote
  <2>1. CASE UNCHANGED cacheVars
    BY <1>1, <2>1
  <2>2. CASE Promotable(batch[growAt]) /\ CacheInsert(batch[growAt].query, batch[growAt].action)
    <3>1. growAt \in 1 .. Len(batch) /\ batch \in Seq(Recs) /\ batch[growAt].kind = "infer"
      BY <1>7, <2>2, LenProperties DEF Promote, Promotable, GrowInv, Logs, Place
    <3>2. batch[growAt].query \in CacheQueries /\ batch[growAt].action \in CacheActions
      BY <3>1, KeyedIs, RecsAre
    <3> QED BY <1>3, <2>2, <3>2
  <2> QED BY <1>7, <2>1, <2>2 DEF Promote
<1>8. CASE Reboot
  <2>1. CacheClear
    BY <1>8 DEF Reboot
  <2> QED BY <2>1, ClearForgets DEF Lru!Next
<1>9. ASSUME UNCHANGED cacheVars \/ StartPass \/ Fold \/ EndPass
             \/ (\E q \in Learned : AskModel(q)) \/ UNCHANGED growVars
      PROVE  UNCHANGED cacheVars
  BY <1>9 DEF StartPass, Fold, EndPass, AskModel, growVars
<1> QED BY <1>1, <1>4, <1>5, <1>6, <1>7, <1>8, <1>9 DEF GrowNext

\* By itself and under growth, the cache is a bounded map that forgets the least recently
\* used query first (cache_insert, cache_lookup).
THEOREM StoresCacheIsLru == StoresSpec => ImplementsLru
<1>1. StoresInit => Lru!Init
  BY CacheInitRefines DEF StoresInit, GrowInit
<1>2. TablePart /\ [StoresNext]_storeVars => [Lru!Next]_(Lru!vars)
  <2> SUFFICES ASSUME TablePart, [StoresNext]_storeVars PROVE [Lru!Next]_(Lru!vars)
    OBVIOUS
  <2>1. CacheAlone \/ (part # "cache" /\ GrowNext) \/ UNCHANGED growVars
    BY PartSteps
  <2>2. CASE CacheAlone
    BY <2>2, CacheRefines DEF CacheAlone, TablePart
  <2>3. CASE part # "cache" /\ GrowNext
    BY <2>3, GrowRefines DEF TablePart
  <2>4. CASE UNCHANGED growVars
    BY <2>4, CacheRefines DEF growVars, TablePart
  <2> QED BY <2>1, <2>2, <2>3, <2>4
<1> QED BY <1>1, <1>2, TableInvariant, PTL DEF StoresSpec, ImplementsLru, Lru!Spec
=============================================================================
