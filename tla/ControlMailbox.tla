---------------------------- MODULE ControlMailbox ----------------------------
(***************************************************************************)
(* The control-IN lane between PA and the input process: the two mailboxes  *)
(* (net/control_mailbox.h), the serve loop of sel4/input_server.c, and PA's *)
(* poll in main_x86.c with its liveness latch.  PA and the input process    *)
(* run on different cores and share no lock: every access to a mailbox is a *)
(* step of its own.                                                         *)
(*                                                                         *)
(* A frame is its kind and the raw sequence number it is forwarded under    *)
(* (which tells the last FrameMod frames apart).  The verdict of the token     *)
(* bucket is any (TokenBucket says which), a failure of the floor's persist *)
(* may come with any frame (ReplayFloor), and what becomes of an accepted   *)
(* query is ControlGate.                                                    *)
(***************************************************************************)
EXTENDS Integers

CONSTANTS FrameMod,         \* values of a mailbox sequence number, 2^32
          Deadline,       \* CTRL_IN_DEADLINE_ITERS
          InMissThreshold \* CTRL_IN_MISS_THRESHOLD

ASSUME MailboxAssumption ==
    /\ FrameMod \in Nat /\ FrameMod > 2
    /\ {Deadline, InMissThreshold} \subseteq Nat \ {0}

VARIABLES raw,        \* PA -> input: seq, head (len and fwd_ms), body (bytes)
          cand,       \* input -> PA: seq, status and jctl_len, jctl
          wake,       \* the pending wake notification of the input process
          pa,         \* where PA is in its poll
          raw_seq,    \* g_ctrl_raw_seq
          cand_last,  \* g_ctrl_cand_last
          inflight,   \* g_ctrl_inflight
          age,        \* q_total - g_ctrl_infl_since, while a frame is in flight
          miss,       \* g_ctrl_in_miss
          down,       \* g_ctrl_in_down
          lane_ok,   \* g_ctrl_floor_ok
          ip,         \* where the input process is, or "dead"
          last, out,  \* its locals: last raw seq consumed, last candidate seq published
          loc,        \* its private snapshot of the frame
          st,         \* its verdict on it
          fwd,        \* history: the frame forwarded last
          silent      \* history: PA's iterations since then

paVars  == <<pa, raw_seq, cand_last, inflight, age, miss, down, lane_ok, fwd, silent>>
inVars  == <<ip, last, out, loc, st>>
mbxVars == <<raw, cand, wake, paVars, inVars>>

Kinds  == {"garbled", "forged", "replayed", "good"}
Seq32  == 0 .. (FrameMod - 1)
Frames == [id : Seq32, kind : Kinds]
NoFrame == [id |-> 0, kind |-> "garbled"]      \* the zeroed page

NextSeq(s) == (s + 1) % FrameMod

MbxInit ==
    /\ raw = [seq |-> 0, head |-> NoFrame, body |-> NoFrame]
    /\ cand = [seq |-> 0, status |-> "OK", jctl |-> NoFrame]
    /\ wake = FALSE
    /\ pa = "top" /\ raw_seq = 0 /\ cand_last = 0
    /\ inflight = FALSE /\ age = 0 /\ miss = 0 /\ down = FALSE /\ lane_ok = TRUE
    /\ ip = "wait" /\ last = 0 /\ out = 0 /\ loc = [head |-> NoFrame, body |-> NoFrame]
    /\ st = "OK"
    /\ fwd = NoFrame /\ silent = 0

------------------------------------------------------------------------------
(* PA: one poll of the lane per iteration of the workload loop. *)

LaneOpen == lane_ok /\ ~down

\* (1) a new candidate: the input process answered.
PaConsume ==
    /\ pa = "top" /\ LaneOpen /\ cand.seq # cand_last
    /\ cand_last' = cand.seq /\ inflight' = FALSE /\ miss' = 0
    /\ pa' = "verify"
    /\ UNCHANGED <<raw, cand, wake, inVars, raw_seq, age, down, lane_ok, fwd, silent>>

\* An iteration begins and there is none.
PaNoCandidate ==
    /\ pa = "top" /\ LaneOpen /\ cand.seq = cand_last
    /\ pa' = "tick"
    /\ UNCHANGED <<raw, cand, wake, inVars, raw_seq, cand_last, inflight, age, miss, down,
                   lane_ok, fwd, silent>>

\* A closed lane stays closed until the next boot; PA's loop goes on without it.
PaClosed == pa = "top" /\ ~LaneOpen /\ UNCHANGED mbxVars

Verdicts(c) == IF c.status # "OK" THEN {c.status}
               ELSE IF c.jctl.kind = "garbled" THEN {"PARSE"}
               ELSE IF c.jctl.kind = "forged" THEN {"AUTH"}
               ELSE IF c.jctl.kind = "replayed" THEN {"REPLAY", "CLOSED"}
               ELSE {"ACCEPT", "CLOSED"}

\* pa_verify_candidate: status, parse, tag, write-ahead floor, replay.  A floor that
\* cannot be persisted drops the frame and closes the lane.
PaVerify ==
    /\ pa = "verify"
    /\ \E v \in Verdicts(cand) : lane_ok' = (v # "CLOSED")
    /\ pa' = "tick"
    /\ UNCHANGED <<raw, cand, wake, inVars, raw_seq, cand_last, inflight, age, miss, down, fwd, silent>>

Missed ==
    /\ miss' = miss + 1 /\ age' = 0
    /\ down' = (miss + 1 >= InMissThreshold)

\* ctrl_in_liveness_tick: a window has passed without an answer.
PaTick ==
    /\ pa = "tick"
    /\ IF inflight /\ age >= Deadline THEN Missed ELSE UNCHANGED <<miss, age, down>>
    /\ pa' = "forward"
    /\ UNCHANGED <<raw, cand, wake, inVars, raw_seq, cand_last, inflight, lane_ok, fwd, silent>>

\* Mutant of NextIteration: the deadline's clock does not run.
NextIterationFrozen ==
    /\ pa' = "top"
    /\ age' = age
    /\ silent' = IF inflight /\ silent < Deadline * InMissThreshold THEN silent + 1 ELSE silent

\* The iteration ends; the next one counts q_total up.
NextIteration ==
    /\ pa' = "top"
    /\ age' = IF inflight /\ age < Deadline THEN age + 1 ELSE age
    /\ silent' = IF inflight /\ silent < Deadline * InMissThreshold THEN silent + 1 ELSE silent

\* (2) nothing in flight and a frame has come: the driver copies it into the raw mailbox.
PaForward(f) ==
    /\ pa = "forward" /\ ~inflight
    /\ raw' = [raw EXCEPT !.body = f] /\ fwd' = f
    /\ pa' = "stage"
    /\ UNCHANGED <<cand, wake, inVars, raw_seq, cand_last, inflight, age, miss, down, lane_ok, silent>>

\* Nothing has come, or the input process is busy and what has come goes to a scratch buffer.
PaForwardNone ==
    /\ pa = "forward"
    /\ NextIteration
    /\ UNCHANGED <<raw, cand, wake, inVars, raw_seq, cand_last, inflight, miss, down, lane_ok, fwd>>

PaStage ==
    /\ pa = "stage"
    /\ raw' = [raw EXCEPT !.head = fwd]
    /\ pa' = "publish"
    /\ UNCHANGED <<cand, wake, inVars, raw_seq, cand_last, inflight, age, miss, down, lane_ok, fwd, silent>>

PaPublish ==
    /\ pa = "publish"
    /\ raw_seq' = NextSeq(raw_seq)
    /\ raw' = [raw EXCEPT !.seq = NextSeq(raw_seq)]
    /\ pa' = "signal"
    /\ UNCHANGED <<cand, wake, inVars, cand_last, inflight, age, miss, down, lane_ok, fwd, silent>>

\* The wake, then the bookkeeping of the frame in flight, and the iteration is over.
PaSignal ==
    /\ pa = "signal"
    /\ wake' = TRUE
    /\ inflight' = TRUE /\ age' = 1 /\ silent' = 1
    /\ pa' = "top"
    /\ UNCHANGED <<raw, cand, inVars, raw_seq, cand_last, miss, down, lane_ok, fwd>>

NewFrame(k) == [id |-> NextSeq(raw_seq), kind |-> k]

Poll == \/ PaConsume \/ PaNoCandidate \/ PaClosed \/ PaVerify \/ PaTick
        \/ \E k \in Kinds : PaForward(NewFrame(k))
        \/ PaForwardNone \/ PaStage \/ PaPublish \/ PaSignal

------------------------------------------------------------------------------
(* The input process. *)

InWait ==
    /\ ip = "wait" /\ wake
    /\ wake' = FALSE /\ ip' = "check"
    /\ UNCHANGED <<raw, cand, paVars, last, out, loc, st>>

\* The drain loop: is there a frame not yet consumed?
InCheck ==
    /\ ip = "check"
    /\ IF raw.seq = last THEN ip' = "wait" /\ UNCHANGED last
                         ELSE ip' = "head" /\ last' = raw.seq
    /\ UNCHANGED <<raw, cand, wake, paVars, out, loc, st>>

InHead ==
    /\ ip = "head"
    /\ loc' = [loc EXCEPT !.head = raw.head] /\ ip' = "body"
    /\ UNCHANGED <<raw, cand, wake, paVars, last, out, st>>

InBody ==
    /\ ip = "body"
    /\ loc' = [loc EXCEPT !.body = raw.body] /\ ip' = "judge"
    /\ UNCHANGED <<raw, cand, wake, paVars, last, out, st>>

\* Parse, then the token bucket; only a frame that passes both is copied to PA.
InJudge(allowed) ==
    /\ ip = "judge"
    /\ ip' = "status"
    /\ st' = IF loc.body.kind = "garbled" THEN "PARSE" ELSE IF allowed THEN "OK" ELSE "RATELIMIT"
    /\ cand' = IF st' = "OK" THEN [cand EXCEPT !.jctl = loc.body] ELSE cand
    /\ UNCHANGED <<raw, wake, paVars, last, out, loc>>

\* Mutant of InStatus: the sequence number is published before the status.
InStatusLate ==
    /\ ip = "status"
    /\ cand' = [cand EXCEPT !.seq = NextSeq(out)]
    /\ ip' = "publish"
    /\ UNCHANGED <<raw, wake, paVars, last, out, loc, st>>

InStatus ==
    /\ ip = "status"
    /\ cand' = [cand EXCEPT !.status = st]
    /\ ip' = "publish"
    /\ UNCHANGED <<raw, wake, paVars, last, out, loc, st>>

\* The release store of the candidate's seq (PA never waits for the ack that follows).
InPublish ==
    /\ ip = "publish"
    /\ out' = NextSeq(out)
    /\ cand' = [cand EXCEPT !.seq = NextSeq(out)]
    /\ ip' = "check"
    /\ UNCHANGED <<raw, wake, paVars, last, loc, st>>

\* A fault at any point ends the process for this boot; nothing restarts it.
InDies ==
    /\ ip # "dead" /\ ip' = "dead"
    /\ UNCHANGED <<raw, cand, wake, paVars, last, out, loc, st>>

Serve == \/ InWait \/ InCheck \/ InHead \/ InBody
         \/ \E allowed \in BOOLEAN : InJudge(allowed)
         \/ InStatus \/ InPublish

------------------------------------------------------------------------------
MbxNext == Poll \/ Serve \/ InDies

MbxFairness == WF_mbxVars(Poll) /\ WF_mbxVars(Serve)

MbxSpec == MbxInit /\ [][MbxNext]_mbxVars /\ MbxFairness

------------------------------------------------------------------------------
MbxTypeOK ==
    /\ raw \in [seq : Seq32, head : Frames, body : Frames]
    /\ cand \in [seq : Seq32, status : {"OK", "PARSE", "RATELIMIT"}, jctl : Frames]
    /\ wake \in BOOLEAN
    /\ pa \in {"top", "verify", "tick", "forward", "stage", "publish", "signal"}
    /\ {raw_seq, cand_last, last, out} \subseteq Seq32
    /\ {inflight, down, lane_ok} \subseteq BOOLEAN
    /\ age \in 0 .. Deadline /\ silent \in 0 .. (Deadline * InMissThreshold)
    /\ miss \in 0 .. InMissThreshold
    /\ ip \in {"wait", "check", "head", "body", "judge", "status", "publish", "dead"}
    /\ loc \in [head : Frames, body : Frames]
    /\ st \in {"OK", "PARSE", "RATELIMIT"}
    /\ fwd \in Frames

\* What PA verifies is the frame it forwarded last, with the status that frame earns:
\* neither a stale payload under a fresh status nor another frame's.  (main_x86.c:7800)
OwnFrame ==
    pa = "verify" =>
        /\ cand.status = "PARSE" <=> fwd.kind = "garbled"
        /\ cand.status = "OK" => cand.jctl = fwd

\* Neither side writes a mailbox payload that the other is reading.  (control_mailbox.h:
\* "the writer never overwrites a payload the reader is still reading")
NobodyReadsWhileWritten ==
    /\ pa \in {"stage", "publish"} => ip \in {"wait", "check", "dead"}
    /\ pa = "verify" => ip \in {"wait", "check", "dead"}
    /\ ip = "judge" => loc.head = loc.body

\* The four counters of the two mailboxes never part by more than the one frame in flight:
\* no frame is skipped, answered twice, or counted without its answer.
InLockstep ==
    /\ raw_seq = raw.seq /\ out = cand.seq
    /\ cand_last = IF inflight \/ pa = "signal" THEN (raw_seq + FrameMod - 1) % FrameMod ELSE raw_seq
    /\ out \in {cand_last, raw_seq}
    /\ out # last => ip \in {"head", "body", "judge", "status", "publish", "dead"}

\* The lane is given up only when one and the same frame went unanswered for the whole
\* series of windows, counted in PA's iterations.
LatchOnlySilent == down => inflight /\ silent = Deadline * InMissThreshold

\* A frame in flight is answered, or the lane is given up or was closed: PA never waits for
\* ever on an input process that died or hangs.
AnsweredOrGivenUp == inflight ~> (~inflight \/ ~LaneOpen)

\* What PA acts on is the frame it sent, the mailboxes are never torn, and the lane neither
\* slips by a frame nor is given up for a frame that is late.
MailboxSafe == OwnFrame /\ NobodyReadsWhileWritten /\ InLockstep /\ LatchOnlySilent
==============================================================================
