------------------------------ MODULE ReplayFloor ------------------------------
(***************************************************************************)
(* The cross-reboot replay floor of the control-IN lane: the sequence check *)
(* of net/control_replay.c, the double-buffered floor sectors of            *)
(* net/control_floor.c, and the write-ahead protocol that joins them in     *)
(* main_x86.c (pa_verify_candidate, ctrl_floor_persist_ahead, the resume at *)
(* boot).                                                                   *)
(*                                                                         *)
(* The drive is external.  A completed write is in its volatile cache, which *)
(* reads see; a flush, or the drive by itself, moves it to the media.  A    *)
(* sector that was being written, or was dirty, when power is lost holds    *)
(* its old content, its new content, or neither (torn).                     *)
(*                                                                         *)
(* A frame is its sequence number and whether its epoch and its nonce pass. *)
(* Frames that fail to parse or to authenticate change nothing and are left *)
(* out.  accepts is history: how often each sequence number was accepted.   *)
(***************************************************************************)
EXTENDS Integers

CONSTANTS MaxSeq,      \* largest sequence number a sender signs
          Reserve,     \* CTRL_FLOOR_RESERVE
          SeqRange,    \* values of a sequence number, 2^64
          WcMod,       \* values of a write count, 2^32
          Deployments  \* the sets of kinds of reset that boxes meet: "power", "warm"

ASSUME FloorAssumption ==
    /\ {MaxSeq, Reserve} \subseteq Nat \ {0} /\ SeqRange \in Nat /\ SeqRange > MaxSeq
    /\ WcMod \in Nat /\ WcMod > 2 /\ WcMod % 2 = 0
    /\ Deployments \subseteq SUBSET {"power", "warm"}

VARIABLES media, cache,   \* the drive: what survives power loss, what reads return
          pc, frame,      \* PA: where it is, and the frame it verifies
          seq_floor,      \* g_ctrl_replay.seq_floor
          resv, wc,       \* g_ctrl_floor_resv, g_ctrl_floor_wc
          floor_ok,       \* g_ctrl_floor_ok
          accepts,        \* how often each sequence number was accepted
          resets          \* the kinds of reset this box meets

vars == <<media, cache, pc, frame, seq_floor, resv, wc, floor_ok, accepts, resets>>
drive == <<media, cache>>
volatile == <<pc, frame, seq_floor, resv, wc, floor_ok>>

\* May power be lost?  May the box restart with the drive powered?
PowerCuts  == "power" \in resets
WarmResets == "warm" \in resets

Sectors == {"A", "B"}
Seqs == 0 .. MaxSeq
Wcs  == 0 .. (WcMod - 1)

(* A sector: never written, unreadable, or a record with a valid checksum. *)
Zero         == [kind |-> "zero", floor |-> 0, wc |-> 0]
Torn         == [kind |-> "torn", floor |-> 0, wc |-> 0]
Record(f, w) == [kind |-> "valid", floor |-> f, wc |-> w]
Contents     == {Zero, Torn} \union {Record(f, w) : f \in 0 .. (SeqRange - 1), w \in Wcs}
Valid(r)     == r.kind = "valid"

\* Mutant of NextWc: the count is wider than its field.
NextWcUnwrapped(w) == w + 1

\* The write count after w, in 32 bits.
NextWc(w) == IF w + 1 = WcMod THEN 0 ELSE w + 1

\* wc_newer: a is ahead of b by less than half of the counter's range.
Newer(a, b) == LET d == IF a >= b THEN a - b ELSE a - b + WcMod
               IN  d # 0 /\ d < WcMod \div 2

\* ctrl_floor_select, for a disk content d with a valid record.
Winner(d) ==
    IF Valid(d["A"]) /\ (Valid(d["B"]) => Newer(d["A"].wc, d["B"].wc)) THEN "A" ELSE "B"
Status(d) ==
    IF Valid(d["A"]) \/ Valid(d["B"]) THEN "OK"
    ELSE IF d["A"] = Zero /\ d["B"] = Zero THEN "FRESH" ELSE "CORRUPT"

\* ctrl_floor_next_lba
NextLba(w) == IF w % 2 = 1 THEN "B" ELSE "A"

\* ctrl_floor_due
Due(s) == s >= resv
NewResv(s) == (s + Reserve) % SeqRange

Init ==
    /\ media = [x \in Sectors |-> Zero] /\ cache = media
    /\ pc = "off" /\ frame = 0
    /\ seq_floor = 0 /\ resv = 0 /\ wc = 1 /\ floor_ok = FALSE
    /\ accepts = [s \in Seqs |-> 0] /\ resets \in Deployments

------------------------------------------------------------------------------
(* PA. *)

\* Boot: control_replay_init, then the resume from the two floor sectors.
Boot ==
    /\ pc = "off"
    /\ pc' = "idle" /\ frame' = 0
    /\ IF Status(cache) = "OK"
       THEN LET r == cache[Winner(cache)] IN
            /\ seq_floor' = r.floor /\ resv' = r.floor
            /\ wc' = NextWc(r.wc) /\ floor_ok' = TRUE
       ELSE /\ seq_floor' = 0 /\ resv' = 0 /\ wc' = 1
            /\ floor_ok' = (Status(cache) = "FRESH")
    /\ UNCHANGED <<drive, accepts, resets>>

\* A floor sector cannot be read: the lane stays closed for this boot.
BootReadError ==
    /\ pc = "off"
    /\ pc' = "idle" /\ frame' = 0
    /\ seq_floor' = 0 /\ resv' = 0 /\ wc' = 1 /\ floor_ok' = FALSE
    /\ UNCHANGED <<drive, accepts, resets>>

\* pa_verify_candidate on an authentic frame, any number of times, in any order.
\* The floor is persisted before the frame is checked.
Receive(s) ==
    /\ pc = "idle" /\ floor_ok
    /\ frame' = s
    /\ pc' = IF Due(s) THEN "write" ELSE "check"
    /\ UNCHANGED <<drive, seq_floor, resv, wc, floor_ok, accepts, resets>>

\* ctrl_floor_persist_ahead: the write completes,
WriteDone ==
    /\ pc = "write"
    /\ cache' = [cache EXCEPT ![NextLba(wc)] = Record(NewResv(frame), wc)]
    /\ pc' = "flush"
    /\ UNCHANGED <<media, frame, seq_floor, resv, wc, floor_ok, accepts, resets>>

\* Mutant of FlushDone: the write is taken as durable.
FlushSkipped ==
    /\ pc = "flush"
    /\ resv' = NewResv(frame) /\ wc' = NextWc(wc)
    /\ pc' = "check"
    /\ UNCHANGED <<drive, frame, seq_floor, floor_ok, accepts, resets>>

\* and the flush: only now is the reservation advanced.
FlushDone ==
    /\ pc = "flush"
    /\ media' = cache
    /\ resv' = NewResv(frame) /\ wc' = NextWc(wc)
    /\ pc' = "check"
    /\ UNCHANGED <<cache, frame, seq_floor, floor_ok, accepts, resets>>

\* Either step reports an error, whatever the drive did: the frame is dropped and
\* the lane closed until the next boot.
PersistFails ==
    /\ pc \in {"write", "flush"}
    /\ \/ UNCHANGED cache
       \/ /\ pc = "write"
          /\ \E r \in {Torn, Record(NewResv(frame), wc)} :
                cache' = [cache EXCEPT ![NextLba(wc)] = r]
    /\ pc' = "idle" /\ floor_ok' = FALSE
    /\ UNCHANGED <<media, frame, seq_floor, resv, wc, accepts, resets>>

\* Mutant of Check: the sequence floor does not move on an accept.
CheckForgets(fresh) ==
    /\ pc = "check"
    /\ pc' = "idle"
    /\ accepts' = IF frame > seq_floor /\ fresh
                  THEN [accepts EXCEPT ![frame] = accepts[frame] + 1] ELSE accepts
    /\ UNCHANGED <<drive, frame, seq_floor, resv, wc, floor_ok, resets>>

\* control_replay_check; fresh: the epoch is this box's and the nonce is not one
\* of those remembered.
Check(fresh) ==
    /\ pc = "check"
    /\ pc' = "idle"
    /\ IF frame > seq_floor /\ fresh
       THEN /\ seq_floor' = frame
            /\ accepts' = [accepts EXCEPT ![frame] = accepts[frame] + 1]
       ELSE UNCHANGED <<seq_floor, accepts>>
    /\ UNCHANGED <<drive, frame, resv, wc, floor_ok, resets>>

------------------------------------------------------------------------------
(* The drive and its resets (external). *)

\* The drive writes a dirty sector back when it likes.
Destage(x) ==
    /\ cache[x] # media[x]
    /\ media' = [media EXCEPT ![x] = cache[x]]
    /\ UNCHANGED <<cache, volatile, accepts, resets>>

InFlight(x) == IF pc = "write" /\ x = NextLba(wc)
               THEN {Torn, Record(NewResv(frame), wc)} ELSE {}
Disk(a, b) == [x \in Sectors |-> IF x = "A" THEN a ELSE b]
CutOutcomes(x)  == {media[x], cache[x]} \union InFlight(x)
                       \union (IF cache[x] # media[x] THEN {Torn} ELSE {})
WarmOutcomes(x) == {cache[x]} \union InFlight(x)

\* What a power loss, or a warm reset, at this moment may leave to the next boot.
AfterCut   == {Disk(a, b) : a \in CutOutcomes("A"), b \in CutOutcomes("B")}
AfterWarm  == {Disk(a, b) : a \in WarmOutcomes("A"), b \in WarmOutcomes("B")}
AfterReset == (IF PowerCuts THEN AfterCut ELSE {}) \union (IF WarmResets THEN AfterWarm ELSE {})

Down == pc' = "off" /\ UNCHANGED <<frame, seq_floor, resv, wc, floor_ok, accepts, resets>>

PowerCut  == PowerCuts /\ \E d \in AfterCut : media' = d /\ cache' = d /\ Down
WarmReset == WarmResets /\ \E d \in AfterWarm : cache' = d /\ Down /\ UNCHANGED media

------------------------------------------------------------------------------
Next == \/ Boot \/ BootReadError \/ \E s \in Seqs : Receive(s)
        \/ WriteDone \/ FlushDone \/ PersistFails \/ \E fresh \in BOOLEAN : Check(fresh)
        \/ \E x \in Sectors : Destage(x)
        \/ PowerCut \/ WarmReset

Spec == Init /\ [][Next]_vars

------------------------------------------------------------------------------
TypeOK ==
    /\ media \in [Sectors -> Contents] /\ cache \in [Sectors -> Contents]
    /\ pc \in {"off", "idle", "write", "flush", "check"} /\ frame \in Seqs
    /\ seq_floor \in 0 .. (SeqRange - 1) /\ resv \in 0 .. (SeqRange - 1)
    /\ wc \in Wcs /\ floor_ok \in BOOLEAN
    /\ accepts \in [Seqs -> Nat] /\ resets \in Deployments

------------------------------------------------------------------------------
Accepted == {s \in Seqs : accepts[s] > 0}

\* No sequence number is accepted twice, whatever is delivered again after
\* whatever resets.  (main_x86.c: "zero cross-reboot replay window".)
AcceptedOnce == \A s \in Seqs : accepts[s] <= 1

\* Whatever reset comes now, the floor the next boot resumes from covers every
\* sequence number accepted so far.
Covered ==
    \A d \in AfterReset : \A s \in Accepted : Status(d) = "OK" => s <= d[Winner(d)].floor

\* A box that ever accepted a frame finds a valid floor record after any reset:
\* a torn write never closes its lane for good.
NeverBricked == \A d \in AfterReset : Accepted # {} => Status(d) = "OK"

\* Whatever reset comes now, the next boot finds a floor, and one high enough.
FloorKept == Covered /\ NeverBricked

------------------------------------------------------------------------------
(* The inductive invariant, for boxes that meet only one kind of reset each *)
(* and whose sequence numbers stay clear of their wrap.                     *)

SafeDeployment == {"power", "warm"} \notin Deployments /\ MaxSeq + Reserve < SeqRange

Other(x) == IF x = "A" THEN "B" ELSE "A"
Top      == IF wc = 0 THEN WcMod - 1 ELSE wc - 1     \* the count before wc

\* Sector x of disk d holds the record (f, w) the next boot takes; the other
\* sector is unwritten, torn, or the record before it.
Rules(d, x, f, w) ==
    /\ x = NextLba(w) /\ d[x] = Record(f, w)
    /\ Valid(d[Other(x)]) => w = NextWc(d[Other(x)].wc)

\* Disk d is safe to boot from when acc was accepted: it rules, with a floor that
\* covers acc, or it has no record and acc is empty.
Good(d, acc) ==
    \/ acc = {} /\ ~Valid(d["A"]) /\ ~Valid(d["B"])
    \/ \E x \in Sectors, f \in 0 .. (SeqRange - 1), w \in Wcs :
          Rules(d, x, f, w) /\ \A s \in acc : s <= f

\* The sector PA does not write next holds its reservation.
Holds(d) == \/ d[Other(NextLba(wc))] = Zero /\ wc = 1 /\ resv = 0 /\ Accepted = {}
            \/ d[Other(NextLba(wc))] = Record(resv, Top)

\* The sector PA writes next holds nothing, or the record before that one.
Spare(d) == /\ d[Other(NextLba(wc))] = Zero => d[NextLba(wc)] = Zero
            /\ Valid(d[NextLba(wc)]) => Top = NextWc(d[NextLba(wc)].wc)

CrashSafe == /\ \A d \in AfterReset : Good(d, Accepted)
             /\ pc = "off" => Good(cache, Accepted)
Booted    == pc # "off" /\ floor_ok =>
                /\ \A s \in Accepted : s <= seq_floor
                /\ seq_floor <= resv
                /\ Holds(cache)
                /\ pc # "flush" => Spare(cache)
Durable   == PowerCuts /\ (pc = "off" \/ (floor_ok /\ pc # "flush")) => media = cache
Pending   == /\ pc \in {"write", "flush", "check"} => floor_ok
             /\ pc \in {"write", "flush"} => Due(frame)
             /\ pc = "flush" => cache[NextLba(wc)] = Record(NewResv(frame), wc)
             /\ pc = "check" => frame < resv

IInv == TypeOK /\ AcceptedOnce /\ CrashSafe /\ Booted /\ Durable /\ Pending

==============================================================================
