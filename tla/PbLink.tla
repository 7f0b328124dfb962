-------------------------------- MODULE PbLink --------------------------------
(***************************************************************************)
(* The PA <-> PB link of phase3/src/sel4: PA's lanes dispatching to PB over *)
(* the two rings (main_x86.c), PB's serve loop (inference_server.c), and    *)
(* the self-heal that watches PB (km2b_miss.c, pb_health.c, pa_restart_pb). *)
(*                                                                         *)
(* PA is single-threaded and has one request outstanding; it gives up on a  *)
(* request after a bounded number of polls.  PA and PB share a core at      *)
(* equal priority, so PB can be preempted between two of its sends.  The    *)
(* rings are the bounded FIFOs ShmemRing implements.                        *)
(*                                                                         *)
(* Fields own and cur are history: cur marks what belongs to the request PA *)
(* is waiting for now.  The lane queries carry no other data.               *)
(* Not in the model: MSG_INFER_STATS and MSG_DEBUG, which every receive     *)
(* loop skips; the embed lane; a box booted without a usable model.         *)
(***************************************************************************)
EXTENDS Naturals, Sequences

CONSTANTS Lanes,          \* the lanes that contact PB, a subset of AllLanes
          Slots,          \* capacity of each ring
          SeqMod,         \* number of values of a sequence number, 2^16
          MaxChunks,      \* most chunks in a reply
          MissThreshold,  \* KM2B_MISS_THRESHOLD
          CrashloopBound, \* KM2B_CRASHLOOP_BOUND
          HealthyReset    \* KM2B_HEALTHY_RESET

AllLanes == {"infer", "heartbeat", "shield", "wake", "ctrl"}

ASSUME LinkAssumption ==
    /\ Lanes \subseteq AllLanes
    /\ {Slots, SeqMod, MaxChunks, MissThreshold, CrashloopBound, HealthyReset}
           \subseteq Nat \ {0}

VARIABLES req, resp,        \* the request and the response ring
          pa,               \* where PA is in its loop, and its outstanding request
          seq, ctrl_seq,    \* next sequence number: workload lanes, control-IN lane
          pb,               \* PB's condition and the request it works on
          fault_ep,         \* a genuine fault is queued on PB's fault endpoint
          miss,             \* g_pb_miss.count
          window, healthy,  \* g_pbh
          pb_dead           \* g_pb_dead

vars == <<req, resp, pa, seq, ctrl_seq, pb, fault_ep, miss, window, healthy, pb_dead>>
ring == <<req, resp>>
health == <<miss, window, healthy, pb_dead>>

RequestType == [infer |-> "QUERY", wake |-> "QUERY", ctrl |-> "QUERY_LONG",
                heartbeat |-> "HEARTBEAT", shield |-> "SHIELD_CHECK"]
AnswerType  == [infer |-> "RESPONSE", wake |-> "RESPONSE", ctrl |-> "RESPONSE",
                heartbeat |-> "HEARTBEAT_ACK", shield |-> "SHIELD_RESULT"]
ReplyTo     == [QUERY |-> "RESPONSE", QUERY_LONG |-> "RESPONSE",
                HEARTBEAT |-> "HEARTBEAT_ACK", SHIELD_CHECK |-> "SHIELD_RESULT"]

QueryLanes  == {"infer", "wake", "ctrl"}   \* may be answered in several chunks
PurgeLanes  == {"wake", "ctrl"}            \* drain the response ring before sending
\* Lanes whose wait polls the fault endpoint.
FaultLanes  == {"infer", "wake", "ctrl"}

\* Where PA goes on after a lane's exchange; an inference that failed jumps to
\* next_query, past the wake block.
After(lane) == CASE lane = "ctrl" -> "lane" [] lane = "wake" -> "next" [] OTHER -> "stats"
AfterFailed(lane) == IF lane = "infer" THEN "next" ELSE After(lane)

SeqNum == 0 .. (SeqMod - 1)
NextSeq(s) == (s + 1) % SeqMod

NoJob   == [type |-> "none", seq |-> 0, cur |-> FALSE, left |-> 0]
At(pc)  == [pc |-> pc, lane |-> "none", seq |-> 0, own |-> FALSE]

Init ==
    /\ req = <<>> /\ resp = <<>>
    /\ pa = At("top")
    /\ seq = 1 % SeqMod /\ ctrl_seq = 0
    /\ pb = [mode |-> "serving", job |-> NoJob]
    /\ fault_ep = FALSE
    /\ miss = 0 /\ window = 0 /\ healthy = 0 /\ pb_dead = FALSE

\* Mutant of Push: no full check.
PushUnchecked(r, m) == Append(r, m)
\* shmem_ipc_send into a full ring returns -1, which every sender but PB's chunk
\* loop ignores.
Push(r, m) == IF Len(r) < Slots THEN Append(r, m) ELSE r
\* What was outstanding before a new request no longer answers the current one.
Stale(r)   == [i \in 1 .. Len(r) |-> [r[i] EXCEPT !.cur = FALSE]]
StaleJob(j) == IF j = NoJob THEN j ELSE [j EXCEPT !.cur = FALSE]

------------------------------------------------------------------------------
(* PA: the dispatch half of a lane. *)

\* PB_DISPATCH_OK
DispatchOk == ~pb_dead

\* Mutant of Route: the control lane without the degraded gate.
RouteUngated ==
    /\ pa.pc = "top"
    /\ pa' = IF "ctrl" \in Lanes THEN [At("purge") EXCEPT !.lane = "ctrl"] ELSE At("lane")
    /\ UNCHANGED <<ring, seq, ctrl_seq, pb, fault_ep, health>>

\* An iteration starts with the control-IN poll; a validated query is routed.
Route ==
    /\ pa.pc = "top"
    /\ pa' = IF "ctrl" \in Lanes /\ DispatchOk
             THEN [At("purge") EXCEPT !.lane = "ctrl"] ELSE At("lane")
    /\ UNCHANGED <<ring, seq, ctrl_seq, pb, fault_ep, health>>

\* No control-IN query, or one that was refused, served locally or degraded.
SkipRoute ==
    /\ pa.pc = "top"
    /\ pa' = At("lane")
    /\ UNCHANGED <<ring, seq, ctrl_seq, pb, fault_ep, health>>

\* The slot of this iteration is one of the lanes that contact PB.
Choose(lane) ==
    /\ pa.pc = "lane"
    /\ lane \in Lanes \intersect {"infer", "heartbeat", "shield"}
    /\ pa' = IF DispatchOk THEN [At("send") EXCEPT !.lane = lane] ELSE At("stats")
    /\ UNCHANGED <<ring, seq, ctrl_seq, pb, fault_ep, health>>

\* A cache slot, or an inference slot served from the cache.
ChooseCache ==
    /\ pa.pc = "lane"
    /\ pa' = At("stats")
    /\ UNCHANGED <<ring, seq, ctrl_seq, pb, fault_ep, health>>

\* The [STATS] block, when a monitor event asks for a wake inference.
Wake ==
    /\ pa.pc = "stats"
    /\ "wake" \in Lanes /\ DispatchOk
    /\ pa' = [At("purge") EXCEPT !.lane = "wake"]
    /\ UNCHANGED <<ring, seq, ctrl_seq, pb, fault_ep, health>>

NoWake ==
    /\ pa.pc = "stats"
    /\ pa' = At("next")
    /\ UNCHANGED <<ring, seq, ctrl_seq, pb, fault_ep, health>>

\* F9: receive until the response ring is empty.
Purge ==
    /\ pa.pc = "purge"
    /\ resp' = <<>>
    /\ pa' = [pa EXCEPT !.pc = "send"]
    /\ UNCHANGED <<req, seq, ctrl_seq, pb, fault_ep, health>>

\* shmem_ipc_send of the request with a fresh sequence number, then seL4_Signal.
Send ==
    /\ pa.pc = "send"
    /\ LET s == IF pa.lane = "ctrl" THEN ctrl_seq ELSE seq IN
       /\ req' = Push(Stale(req), [type |-> RequestType[pa.lane], seq |-> s, cur |-> TRUE])
       /\ pa' = [pa EXCEPT !.pc = "wait", !.seq = s]
    /\ IF pa.lane = "ctrl" THEN ctrl_seq' = NextSeq(ctrl_seq) /\ UNCHANGED seq
                           ELSE seq' = NextSeq(seq) /\ UNCHANGED ctrl_seq
    /\ resp' = Stale(resp)
    /\ pb' = [pb EXCEPT !.job = StaleJob(pb.job)]
    /\ UNCHANGED <<fault_ep, health>>

------------------------------------------------------------------------------
(* PA: the waiting half. *)

\* The control lane alone compares sequence numbers.
Matches(m) == /\ m.type = AnswerType[pa.lane]
              /\ pa.lane = "ctrl" => m.seq = pa.seq

\* The awaited type at the head of the ring.  A query lane goes on to collect
\* the rest of the reply; the inference lane acknowledges at once.
TakeAnswer ==
    /\ pa.pc = "wait" /\ resp # <<>> /\ Matches(Head(resp))
    /\ resp' = Tail(resp)
    /\ pa' = IF pa.lane \in QueryLanes
             THEN [pa EXCEPT !.pc = "drain", !.own = Head(resp).cur]
             ELSE At(After(pa.lane))
    /\ miss' = IF pa.lane \in {"wake", "ctrl"} THEN miss ELSE 0
    /\ UNCHANGED <<req, seq, ctrl_seq, pb, fault_ep, window, healthy, pb_dead>>

\* Anything else is thrown away.
SkipMessage ==
    /\ pa.pc = "wait" /\ resp # <<>> /\ ~Matches(Head(resp))
    /\ resp' = Tail(resp)
    /\ UNCHANGED <<req, pa, seq, ctrl_seq, pb, fault_ep, health>>

\* Mutant of Timeout: the heartbeat lane does not feed the miss counter.
TimeoutUncounted ==
    /\ pa.pc = "wait"
    /\ miss' = IF pa.lane = "heartbeat" THEN miss ELSE miss + 1
    /\ pa' = At(AfterFailed(pa.lane))
    /\ UNCHANGED <<ring, seq, ctrl_seq, pb, fault_ep, window, healthy, pb_dead>>

\* Mutant of Timeout: the request is sent again instead of given up.
TimeoutRetries ==
    /\ pa.pc = "wait"
    /\ pa' = [pa EXCEPT !.pc = "send"]
    /\ UNCHANGED <<ring, seq, ctrl_seq, pb, fault_ep, health>>

\* The poll budget is spent.  The last yield of the budget comes after the last
\* look at the ring and at the fault endpoint, so either may hold something.
Timeout ==
    /\ pa.pc = "wait"
    /\ miss' = miss + 1
    /\ pa' = At(AfterFailed(pa.lane))
    /\ UNCHANGED <<ring, seq, ctrl_seq, pb, fault_ep, window, healthy, pb_dead>>

\* The rest of the reply, whatever its sequence number.
DrainChunk ==
    /\ pa.pc = "drain" /\ resp # <<>> /\ Head(resp).type = "RESPONSE"
    /\ resp' = Tail(resp)
    /\ pa' = [pa EXCEPT !.own = pa.own /\ Head(resp).cur]
    /\ UNCHANGED <<req, seq, ctrl_seq, pb, fault_ep, health>>

\* Mutant of OnHealthy: the reset closes the window and keeps the count.
OnHealthyKeepsCount ==
    IF window = 0 THEN UNCHANGED <<window, healthy>>
    ELSE IF healthy + 1 < HealthyReset THEN healthy' = healthy + 1 /\ UNCHANGED window
    ELSE window' = 0 /\ UNCHANGED healthy

\* pb_health_on_healthy: counts only while a window is open.
OnHealthy ==
    IF window = 0 THEN UNCHANGED <<window, healthy>>
    ELSE IF healthy + 1 < HealthyReset THEN healthy' = healthy + 1 /\ UNCHANGED window
    ELSE window' = 0 /\ healthy' = 0

\* The ring is empty, or its head is of another type and is dropped: the answer
\* is complete.  A non-empty inference answer counts as healthy.
DrainEnd(nonempty) ==
    /\ pa.pc = "drain"
    /\ resp # <<>> => Head(resp).type # "RESPONSE"
    /\ resp' = IF resp = <<>> THEN <<>> ELSE Tail(resp)
    /\ pa' = At(After(pa.lane))
    /\ miss' = IF pa.lane \in {"wake", "ctrl"} THEN 0 ELSE miss
    /\ IF pa.lane = "infer" /\ nonempty THEN OnHealthy ELSE UNCHANGED <<window, healthy>>
    /\ UNCHANGED <<req, seq, ctrl_seq, pb, fault_ep, pb_dead>>

------------------------------------------------------------------------------
(* PA: the self-heal, pa_restart_pb with km2b_do_respawn inside.  The restart *)
(* decision itself always comes out EXECUTE: its trigger is built from system *)
(* facts only.                                                                *)

\* Mutant of RestartBegin: the rings are not reset.
RestartKeepsRings(back) ==
    /\ ~pb_dead
    /\ \E mode \in {"entering", "suspended"} : pb' = [mode |-> mode, job |-> NoJob]
    /\ fault_ep' = FALSE
    /\ pa' = [At("ready") EXCEPT !.lane = back]
    /\ UNCHANGED <<ring, seq, ctrl_seq, health>>

\* Suspend PB, reset both rings, write PB's registers, resume it, drain the
\* fault endpoint; or a register access fails and PB stays suspended.  A PB that
\* faults again before that drain is a PB that stopped unannounced: PbWedge.
RestartBegin(back) ==
    /\ ~pb_dead
    /\ \E mode \in {"entering", "suspended"} : pb' = [mode |-> mode, job |-> NoJob]
    /\ req' = <<>> /\ resp' = <<>>
    /\ fault_ep' = FALSE
    /\ pa' = [At("ready") EXCEPT !.lane = back]
    /\ UNCHANGED <<seq, ctrl_seq, health>>

\* pa_fault_check in a lane's wait: PB faulted, restart it and abandon the query.
\* No miss is counted.
FaultSeen ==
    /\ pa.pc = "wait" /\ pa.lane \in FaultLanes /\ fault_ep
    /\ RestartBegin(AfterFailed(pa.lane))

\* Mutant of HangCheck: the threshold itself does not trip.
HangCheckLate ==
    /\ pa.pc = "next"
    /\ IF miss > MissThreshold /\ ~pb_dead
       THEN RestartBegin("top")
       ELSE /\ pa' = At("top")
            /\ UNCHANGED <<ring, seq, ctrl_seq, pb, fault_ep, health>>

\* next_query: three misses, whatever the lane, with or without a fault queued.
HangCheck ==
    /\ pa.pc = "next"
    /\ IF miss >= MissThreshold /\ ~pb_dead
       THEN RestartBegin("top")
       ELSE /\ pa' = At("top")
            /\ UNCHANGED <<ring, seq, ctrl_seq, pb, fault_ep, health>>

\* pb_health_on_restart, the crash-loop latch, and the miss counter's fresh start.
RestartEnd ==
    /\ window' = window + 1 /\ healthy' = 0
    /\ pb_dead' = (window + 1 >= CrashloopBound)
    /\ miss' = 0
    /\ pa' = At(pa.lane)
    /\ UNCHANGED <<req, seq, ctrl_seq, pb, fault_ep>>

\* wait_for_response(HEARTBEAT_ACK): anything else is thrown away.  Outcome OK.
ReadyRecv ==
    /\ pa.pc = "ready" /\ resp # <<>>
    /\ resp' = Tail(resp)
    /\ IF Head(resp).type = "HEARTBEAT_ACK" THEN RestartEnd
       ELSE UNCHANGED <<req, pa, seq, ctrl_seq, pb, fault_ep, health>>

\* No ACK within the budget: outcome FAIL.
ReadyTimeout ==
    /\ pa.pc = "ready"
    /\ RestartEnd
    /\ UNCHANGED resp

------------------------------------------------------------------------------
(* PB: pb_serve_loop. *)

paside == <<pa, seq, ctrl_seq, health>>

\* Take the next request.  A query's generation fixes the length of its reply.
PbTake ==
    /\ pb.mode = "serving" /\ pb.job = NoJob /\ req # <<>>
    /\ LET m == Head(req) IN
       \E n \in (IF m.type \in {"QUERY", "QUERY_LONG"} THEN 1 .. MaxChunks ELSE {1}) :
          pb' = [pb EXCEPT !.job = [type |-> m.type, seq |-> m.seq, cur |-> m.cur, left |-> n]]
    /\ req' = Tail(req)
    /\ UNCHANGED <<resp, fault_ep, paside>>

\* The job after one more message of its reply: chunks are numbered onwards from
\* the request's sequence number.
JobAfter(j) == IF j.left = 1 THEN NoJob
               ELSE [j EXCEPT !.left = j.left - 1, !.seq = NextSeq(j.seq)]
Reply(j)    == [type |-> ReplyTo[j.type], seq |-> j.seq, cur |-> j.cur]

\* A chunk is retried while the ring is full; an ACK or a SHIELD result is lost.
PbSend ==
    /\ pb.mode = "serving" /\ pb.job # NoJob
    /\ Len(resp) < Slots \/ pb.job.type \in {"HEARTBEAT", "SHIELD_CHECK"}
    /\ resp' = Push(resp, Reply(pb.job))
    /\ pb' = [pb EXCEPT !.job = JobAfter(pb.job)]
    /\ UNCHANGED <<req, fault_ep, paside>>

\* PB_SEND_RETRY_MAX retries spent: the answer is cut short.  An empty answer, sent
\* once and unchecked, is lost the same way.
PbTruncate ==
    /\ pb.mode = "serving" /\ pb.job.type \in {"QUERY", "QUERY_LONG"}
    /\ Len(resp) = Slots
    /\ pb' = [pb EXCEPT !.job = NoJob]
    /\ UNCHANGED <<ring, fault_ep, paside>>

\* pb_restart_entry: re-initialise the worker pool, ACK with sequence number 0.
PbEnter ==
    /\ pb.mode = "entering"
    /\ pb' = [pb EXCEPT !.mode = "serving"]
    /\ resp' = Push(resp, [type |-> "HEARTBEAT_ACK", seq |-> 0, cur |-> FALSE])
    /\ UNCHANGED <<req, fault_ep, paside>>

\* PB crashes: the kernel queues a fault message and the thread stops.
PbFault ==
    /\ pb.mode \in {"entering", "serving"}
    /\ pb' = [pb EXCEPT !.mode = "faulted"]
    /\ fault_ep' = TRUE
    /\ UNCHANGED <<ring, paside>>

\* PB is alive but stuck; nothing announces it.
PbWedge ==
    /\ pb.mode \in {"entering", "serving"}
    /\ pb' = [pb EXCEPT !.mode = "wedged"]
    /\ UNCHANGED <<ring, fault_ep, paside>>

------------------------------------------------------------------------------
Pa == \/ Route \/ SkipRoute \/ ChooseCache \/ Wake \/ NoWake \/ Purge \/ Send
      \/ \E lane \in AllLanes : Choose(lane)
      \/ TakeAnswer \/ SkipMessage \/ Timeout \/ DrainChunk
      \/ \E nonempty \in BOOLEAN : DrainEnd(nonempty)
      \/ FaultSeen \/ HangCheck \/ ReadyRecv \/ ReadyTimeout

Pb == PbTake \/ PbSend \/ PbTruncate \/ PbEnter \/ PbFault \/ PbWedge

Next == Pa \/ Pb

\* PA's loop always runs on, and the generator that picks the slots comes back
\* to the heartbeat.  Nothing is assumed of PB.
Spec == Init /\ [][Next]_vars /\ WF_vars(Pa) /\ SF_vars(Choose("heartbeat"))

------------------------------------------------------------------------------
ReqMsg  == [type : {"QUERY", "QUERY_LONG", "HEARTBEAT", "SHIELD_CHECK"},
            seq : SeqNum, cur : BOOLEAN]
RespMsg == [type : {"RESPONSE", "HEARTBEAT_ACK", "SHIELD_RESULT"},
            seq : SeqNum, cur : BOOLEAN]
PaPc    == {"top", "lane", "stats", "next", "purge", "send", "wait", "drain", "ready"}
PaState == [pc : PaPc, lane : AllLanes \union PaPc \union {"none"}, seq : SeqNum,
            own : BOOLEAN]
Job     == [type : {"QUERY", "QUERY_LONG", "HEARTBEAT", "SHIELD_CHECK"},
            seq : SeqNum, cur : BOOLEAN, left : 1 .. MaxChunks]
PbState == [mode : {"serving", "entering", "suspended", "faulted", "wedged"},
            job : Job \union {NoJob}]

TypeOK ==
    /\ req \in Seq(ReqMsg) /\ Len(req) <= Slots
    /\ resp \in Seq(RespMsg) /\ Len(resp) <= Slots
    /\ pa \in PaState /\ pb \in PbState
    /\ seq \in SeqNum /\ ctrl_seq \in SeqNum
    /\ fault_ep \in BOOLEAN
    /\ miss \in Nat /\ window \in 0 .. CrashloopBound
    /\ healthy \in 0 .. (HealthyReset - 1) /\ pb_dead \in BOOLEAN

(* Safety. *)

\* The crash-loop latch and the window never part: PB is given up exactly when
\* CrashloopBound restarts happened without a window reset, and no progress
\* towards a reset is kept while no window is open.  (pb_health.c, test T2b.)
WindowInv ==
    /\ pb_dead <=> window = CrashloopBound
    /\ window = 0 => healthy = 0

\* Once PB is given up PA has no exchange with it under way and no miss pending,
\* wherever in its iteration the last restart happened.
DeadIdle == pb_dead => pa.pc \in {"top", "lane", "stats", "next"} /\ miss = 0

\* PB is given up exactly at the bound and left alone from then on.
GivenUp == WindowInv /\ DeadIdle

\* No lane sends to a PB that was given up.  (The control lane once did:
\* main_x86.c, the degraded gate of pa_ctrl_gate.)
DeadStopsDispatch == [][pb_dead => Len(req') <= Len(req)]_vars

\* While PA waits for the restarted PB to report ready, nothing of PB's previous
\* life is left: no request it could take, no half-sent reply, and no ACK before
\* it has run its entry point.  So an ACK that ends the wait is PB's own.
CleanSlate ==
    pa.pc = "ready" =>
        /\ req = <<>> /\ pb.job = NoJob
        /\ pb.mode \in {"entering", "suspended"} => resp = <<>>
        /\ \A i \in 1 .. Len(resp) : resp[i].type = "HEARTBEAT_ACK"

\* Timeouts PA may have counted before this point of its iteration: the control
\* lane, one workload lane, the wake lane.
LanesTried ==
    IF pa.pc = "top" \/ pa.lane = "ctrl" THEN 0
    ELSE IF pa.pc = "stats" \/ pa.lane = "wake" THEN 2
    ELSE IF pa.pc = "next" THEN 3 ELSE 1

\* A PB that does not answer costs PA at most MissThreshold + 2 exhausted waits
\* before the hang check restarts it: the check runs once per iteration, and an
\* iteration can wait in three lanes.
MissBound == pa.pc # "ready" => miss <= (MissThreshold - 1) + LanesTried

(* Liveness. *)

\* Whatever stops PB (crash, wedge, failed respawn, death before its ready ACK),
\* PA gets it to serve again or gives it up.
FailureHandled == pb.mode # "serving" ~> (pb.mode = "serving" \/ pb_dead)

\* PA never stays in a lane: every wait, drain and restart ends.
PaNeverStuck == []<>(pa.pc = "top")

(* What comments of the code say of the link. *)

\* main_x86.c, after the control lane's wait: "no other lane's response can
\* interleave", so what the control lane collected answers its own query.
CtrlReplyOwn == pa.pc = "drain" /\ pa.lane = "ctrl" => pa.own

==============================================================================
