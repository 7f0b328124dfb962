----------------------------- MODULE WorkloadProofs -----------------------------
(***************************************************************************)
(* What the workload loop of PA promises for every ring size, threshold, set  *)
(* of lanes, clock and budget.  PbLink: its types, the safety properties the  *)
(* runs check, and that a PB that was given up is never sent another request. *)
(* WatchGate: its types, that a consult is never staged twice or out of       *)
(* order, and that a crossing of a threshold is told once.  The two together   *)
(* are the system of MCWorkload.                                              *)
(***************************************************************************)
EXTENDS MCWorkload, SequenceTheorems, TLAPS

\* Where PA goes on after a restart, and which lanes reach which point.
ControlInv ==
    /\ pa.pc = "ready" => pa.lane \in {"top", "lane", "stats", "next"}
    /\ pa.pc \in {"purge", "send", "wait", "drain"} => pa.lane \in AllLanes
    /\ pa.pc = "drain" => pa.lane \in QueryLanes
    /\ pa.pc \in {"top", "lane", "stats", "next"} => pa.lane = "none"

\* The inductive invariant.
LinkInv == TypeOK /\ ControlInv /\ WindowInv /\ DeadIdle /\ CleanSlate /\ MissBound

------------------------------------------------------------------------------
LEMMA Bounds ==
    /\ Slots \in Nat \ {0} /\ MaxChunks \in Nat \ {0} /\ SeqMod \in Nat \ {0}
    /\ MissThreshold \in Nat \ {0} /\ CrashloopBound \in Nat \ {0}
    /\ HealthyReset \in Nat \ {0}
BY LinkAssumption

LEMMA SeqNumProps == 0 \in SeqNum /\ 1 % SeqMod \in SeqNum /\ \A s \in SeqNum : NextSeq(s) \in SeqNum
BY Bounds DEF SeqNum, NextSeq

(* The operators on rings keep their types and their bound. *)

LEMMA PushProps ==
    ASSUME NEW S, NEW r \in Seq(S), Len(r) <= Slots, NEW m \in S
    PROVE  Push(r, m) \in Seq(S) /\ Len(Push(r, m)) <= Slots
BY Bounds, LenProperties, AppendProperties DEF Push

LEMMA TailProps ==
    ASSUME NEW S, NEW r \in Seq(S), Len(r) <= Slots, r # <<>>
    PROVE  Head(r) \in S /\ Tail(r) \in Seq(S) /\ Len(Tail(r)) <= Slots
BY Bounds, LenProperties, HeadTailProperties

LEMMA AtState == \A pc \in PaPc : At(pc) \in PaState
BY SeqNumProps DEF At, PaState

LEMMA MsgFlags ==
    ASSUME NEW m \in RespMsg
    PROVE  m.cur \in BOOLEAN
BY DEF RespMsg

LEMMA StaleReq ==
    ASSUME NEW r \in Seq(ReqMsg)
    PROVE  Stale(r) \in Seq(ReqMsg) /\ Len(Stale(r)) = Len(r)
<1>1. Len(r) \in Nat /\ DOMAIN Stale(r) = 1 .. Len(r)
  BY LenProperties DEF Stale
<1>2. \A i \in 1 .. Len(r) : r[i] \in ReqMsg
  BY ElementOfSeq
<1>3. \A i \in 1 .. Len(r) : Stale(r)[i] \in ReqMsg
  BY <1>2 DEF Stale, ReqMsg
<1>4. Stale(r) \in [1 .. Len(r) -> ReqMsg]
  BY <1>1, <1>3 DEF Stale
<1>5. Stale(r) \in Seq(ReqMsg)
  BY <1>1, <1>4, IsASeq
<1>. QED BY <1>1, <1>5, LenProperties

LEMMA StaleResp ==
    ASSUME NEW r \in Seq(RespMsg)
    PROVE  Stale(r) \in Seq(RespMsg) /\ Len(Stale(r)) = Len(r)
<1>1. Len(r) \in Nat /\ DOMAIN Stale(r) = 1 .. Len(r)
  BY LenProperties DEF Stale
<1>2. \A i \in 1 .. Len(r) : r[i] \in RespMsg
  BY ElementOfSeq
<1>3. \A i \in 1 .. Len(r) : Stale(r)[i] \in RespMsg
  BY <1>2 DEF Stale, RespMsg
<1>4. Stale(r) \in [1 .. Len(r) -> RespMsg]
  BY <1>1, <1>3 DEF Stale
<1>5. Stale(r) \in Seq(RespMsg)
  BY <1>1, <1>4, IsASeq
<1>. QED BY <1>1, <1>5, LenProperties

------------------------------------------------------------------------------
LEMMA InitLinkInv == Init => LinkInv
<1>. SUFFICES ASSUME Init PROVE LinkInv
  OBVIOUS
<1>. USE Bounds DEF Init
<1>1. TypeOK
  <2>1. req \in Seq(ReqMsg) /\ Len(req) <= Slots /\ resp \in Seq(RespMsg) /\ Len(resp) <= Slots
    BY EmptySeq
  <2>2. pa \in PaState /\ pb \in PbState
    BY SeqNumProps DEF At, NoJob, PaPc, PaState, PbState, Job
  <2>3. seq \in SeqNum /\ ctrl_seq \in SeqNum
    BY SeqNumProps
  <2>4. miss \in Nat /\ window \in 0 .. CrashloopBound /\ healthy \in 0 .. (HealthyReset - 1)
    OBVIOUS
  <2>5. fault_ep \in BOOLEAN /\ pb_dead \in BOOLEAN
    OBVIOUS
  <2>. QED BY <2>1, <2>2, <2>3, <2>4, <2>5 DEF TypeOK
<1>2. ControlInv /\ WindowInv /\ DeadIdle /\ CleanSlate
  BY DEF ControlInv, WindowInv, DeadIdle, CleanSlate, At, NoJob
<1>3. MissBound
  BY DEF MissBound, LanesTried, At
<1>. QED BY <1>1, <1>2, <1>3 DEF LinkInv

(* The actions, in the order of the module. *)

LEMMA DispatchInv ==
    ASSUME LinkInv,
           Route \/ SkipRoute \/ (\E lane \in AllLanes : Choose(lane)) \/ ChooseCache
               \/ Wake \/ NoWake \/ Purge \/ Send
    PROVE  LinkInv'
<1>. USE Bounds DEF LinkInv, ring, health, At, PaPc, AllLanes, DispatchOk, PurgeLanes
<1>1. CASE Route
  <2>. USE <1>1 DEF Route
  <2>1. TypeOK'
    BY SeqNumProps DEF TypeOK, PaState
  <2>2. ControlInv'
    BY DEF TypeOK, PaState, PbState, ControlInv
  <2>3. WindowInv' /\ DeadIdle'
    BY DEF TypeOK, PaState, PbState, WindowInv, DeadIdle
  <2>4. CleanSlate'
    BY DEF TypeOK, PaState, PbState, CleanSlate
  <2>5. MissBound'
    BY SMTT(30) DEF TypeOK, PaState, PbState, MissBound, LanesTried, ControlInv
  <2>. QED BY <2>1, <2>2, <2>3, <2>4, <2>5
<1>2. CASE SkipRoute
  <2>. USE <1>2 DEF SkipRoute
  <2>1. TypeOK'
    BY SeqNumProps DEF TypeOK, PaState
  <2>2. ControlInv'
    BY DEF TypeOK, PaState, PbState, ControlInv
  <2>3. WindowInv' /\ DeadIdle'
    BY DEF TypeOK, PaState, PbState, WindowInv, DeadIdle
  <2>4. CleanSlate'
    BY DEF TypeOK, PaState, PbState, CleanSlate
  <2>5. MissBound'
    BY SMTT(30) DEF TypeOK, PaState, PbState, MissBound, LanesTried, ControlInv
  <2>. QED BY <2>1, <2>2, <2>3, <2>4, <2>5
<1>3. CASE \E lane \in AllLanes : Choose(lane)
  <2>. PICK lane \in AllLanes : Choose(lane)
    BY <1>3
  <2>. USE DEF Choose
  <2>1. TypeOK'
    BY SeqNumProps DEF TypeOK, PaState
  <2>2. ControlInv'
    BY DEF TypeOK, PaState, PbState, ControlInv
  <2>3. WindowInv' /\ DeadIdle'
    BY DEF TypeOK, PaState, PbState, WindowInv, DeadIdle
  <2>4. CleanSlate'
    BY DEF TypeOK, PaState, PbState, CleanSlate
  <2>5. MissBound'
    <3>1. /\ pa.pc = "lane" /\ pa.lane = "none" /\ UNCHANGED miss
          /\ pa' = [At("send") EXCEPT !.lane = lane] \/ pa' = At("stats")
          /\ lane \in {"infer", "heartbeat", "shield"}
      BY DEF ControlInv
    <3>2. LanesTried = 1 /\ LanesTried' \in {1, 2}
      BY <3>1 DEF LanesTried
    <3>. QED BY <3>1, <3>2, SMTT(30) DEF TypeOK, MissBound
  <2>. QED BY <2>1, <2>2, <2>3, <2>4, <2>5
<1>4. CASE ChooseCache
  <2>. USE <1>4 DEF ChooseCache
  <2>1. TypeOK'
    BY SeqNumProps DEF TypeOK, PaState
  <2>2. ControlInv'
    BY DEF TypeOK, PaState, PbState, ControlInv
  <2>3. WindowInv' /\ DeadIdle'
    BY DEF TypeOK, PaState, PbState, WindowInv, DeadIdle
  <2>4. CleanSlate'
    BY DEF TypeOK, PaState, PbState, CleanSlate
  <2>5. MissBound'
    BY SMTT(30) DEF TypeOK, PaState, PbState, MissBound, LanesTried, ControlInv
  <2>. QED BY <2>1, <2>2, <2>3, <2>4, <2>5
<1>5. CASE Wake
  <2>. USE <1>5 DEF Wake
  <2>1. TypeOK'
    BY SeqNumProps DEF TypeOK, PaState
  <2>2. ControlInv'
    BY DEF TypeOK, PaState, PbState, ControlInv
  <2>3. WindowInv' /\ DeadIdle'
    BY DEF TypeOK, PaState, PbState, WindowInv, DeadIdle
  <2>4. CleanSlate'
    BY DEF TypeOK, PaState, PbState, CleanSlate
  <2>5. MissBound'
    BY SMTT(30) DEF TypeOK, PaState, PbState, MissBound, LanesTried, ControlInv
  <2>. QED BY <2>1, <2>2, <2>3, <2>4, <2>5
<1>6. CASE NoWake
  <2>. USE <1>6 DEF NoWake
  <2>1. TypeOK'
    BY SeqNumProps DEF TypeOK, PaState
  <2>2. ControlInv'
    BY DEF TypeOK, PaState, PbState, ControlInv
  <2>3. WindowInv' /\ DeadIdle'
    BY DEF TypeOK, PaState, PbState, WindowInv, DeadIdle
  <2>4. CleanSlate'
    BY DEF TypeOK, PaState, PbState, CleanSlate
  <2>5. MissBound'
    BY SMTT(30) DEF TypeOK, PaState, PbState, MissBound, LanesTried, ControlInv
  <2>. QED BY <2>1, <2>2, <2>3, <2>4, <2>5
<1>7. CASE Purge
  <2>. USE <1>7 DEF Purge
  <2>1. TypeOK'
    <3>1. resp' \in Seq(RespMsg) /\ Len(resp') <= Slots
      BY EmptySeq
    <3>2. pa' \in PaState
      BY DEF TypeOK, PaState
    <3>3. UNCHANGED <<req, seq, ctrl_seq, pb, fault_ep, miss, window, healthy, pb_dead>>
      OBVIOUS
    <3>. HIDE DEF Purge
    <3>. QED BY <3>1, <3>2, <3>3 DEF TypeOK
  <2>2. ControlInv'
    <3>1. pa'.pc = "send" /\ pa'.lane = pa.lane
      BY DEF TypeOK, PaState
    <3>. QED BY <3>1 DEF ControlInv
  <2>3. WindowInv' /\ DeadIdle'
    BY DEF TypeOK, PaState, PbState, WindowInv, DeadIdle
  <2>4. CleanSlate'
    BY DEF TypeOK, PaState, PbState, CleanSlate
  <2>5. MissBound'
    BY SMTT(30) DEF TypeOK, PaState, PbState, MissBound, LanesTried, ControlInv
  <2>. QED BY <2>1, <2>2, <2>3, <2>4, <2>5
<1>8. CASE Send
  <2>. USE <1>8 DEF Send
  <2>1. TypeOK'
    <3>. DEFINE s == IF pa.lane = "ctrl" THEN ctrl_seq ELSE seq
                m == [type |-> RequestType[pa.lane], seq |-> s, cur |-> TRUE]
    <3>1. s \in SeqNum
      BY DEF TypeOK
    <3>2. m \in ReqMsg
      BY <3>1 DEF ControlInv, RequestType, ReqMsg
    <3>3. req' \in Seq(ReqMsg) /\ Len(req') <= Slots
      BY <3>2, StaleReq, PushProps DEF TypeOK
    <3>4. resp' \in Seq(RespMsg) /\ Len(resp') <= Slots
      BY StaleResp DEF TypeOK
    <3>5. pa' \in PaState
      BY <3>1 DEF TypeOK, PaState
    <3>8. pb' \in PbState
      <4>1. pb' = [pb EXCEPT !.job = StaleJob(pb.job)]
        OBVIOUS
      <4>2. StaleJob(pb.job) \in Job \union {NoJob}
        BY DEF TypeOK, PbState, StaleJob, Job
      <4>. QED BY <4>1, <4>2 DEF TypeOK, PbState
    <3>6. seq' \in SeqNum /\ ctrl_seq' \in SeqNum
      BY SeqNumProps DEF TypeOK, PaState
    <3>7. UNCHANGED <<fault_ep, miss, window, healthy, pb_dead>>
      OBVIOUS
    <3>. HIDE DEF s, Send
    <3>. QED BY <3>1, <3>3, <3>4, <3>5, <3>6, <3>7, <3>8 DEF TypeOK
  <2>2. ControlInv'
    BY DEF TypeOK, PaState, PbState, ControlInv
  <2>3. WindowInv' /\ DeadIdle'
    BY DEF TypeOK, PaState, PbState, WindowInv, DeadIdle
  <2>4. CleanSlate'
    BY DEF TypeOK, PaState, PbState, CleanSlate
  <2>5. MissBound'
    BY SMTT(30) DEF TypeOK, PaState, PbState, MissBound, LanesTried, ControlInv
  <2>. QED BY <2>1, <2>2, <2>3, <2>4, <2>5
<1>. QED BY <1>1, <1>2, <1>3, <1>4, <1>5, <1>6, <1>7, <1>8

LEMMA WaitInv ==
    ASSUME LinkInv,
           TakeAnswer \/ SkipMessage \/ Timeout \/ DrainChunk
               \/ \E nonempty \in BOOLEAN : DrainEnd(nonempty)
    PROVE  LinkInv'
<1>. USE Bounds DEF LinkInv, ring, health, At, PaPc, AllLanes, QueryLanes, After, AfterFailed
<1>1. CASE TakeAnswer
  <2>. USE <1>1 DEF TakeAnswer
  <2>1. TypeOK'
    <3>1. resp' \in Seq(RespMsg) /\ Len(resp') <= Slots
      BY TailProps DEF TypeOK
    <3>2. pa' \in PaState
      <4>1. Head(resp).cur \in BOOLEAN
        <5>1. Head(resp) \in RespMsg
          BY TailProps DEF TypeOK
        <5>. QED BY <5>1, MsgFlags
      <4>. DEFINE o == Head(resp).cur
      <4>2. \/ pa' = [pa EXCEPT !.pc = "drain", !.own = o]
            \/ pa' \in {At("stats"), At("lane"), At("next")}
        BY DEF TypeOK, PaState
      <4>3. o \in BOOLEAN
        BY <4>1
      <4>. HIDE DEF o, TakeAnswer
      <4>4. CASE pa' = [pa EXCEPT !.pc = "drain", !.own = o]
        <5>1. PaPc # {} /\ "drain" \in PaPc /\ pa \in PaState
          BY DEF TypeOK
        <5>. HIDE DEF PaPc, AllLanes
        <5>. QED BY <4>3, <4>4, <5>1 DEF PaState
      <4>5. CASE pa' \in {At("stats"), At("lane"), At("next")}
        BY <4>5, AtState
      <4>. QED BY <4>2, <4>4, <4>5
    <3>4. miss' \in Nat
      BY DEF TypeOK
    <3>3. UNCHANGED <<req, seq, ctrl_seq, pb, fault_ep, window, healthy, pb_dead>>
      OBVIOUS
    <3>. HIDE DEF TakeAnswer
    <3>. QED BY <3>1, <3>2, <3>3, <3>4 DEF TypeOK
  <2>2. ControlInv'
    BY DEF TypeOK, PaState, PbState, ControlInv
  <2>3. WindowInv' /\ DeadIdle'
    BY DEF TypeOK, PaState, PbState, WindowInv, DeadIdle
  <2>4. CleanSlate'
    BY DEF TypeOK, PaState, PbState, CleanSlate
  <2>5. MissBound'
    BY SMTT(30) DEF TypeOK, PaState, PbState, MissBound, LanesTried, ControlInv
  <2>. QED BY <2>1, <2>2, <2>3, <2>4, <2>5
<1>2. CASE SkipMessage
  <2>. USE <1>2 DEF SkipMessage
  <2>1. TypeOK'
    <3>1. resp' \in Seq(RespMsg) /\ Len(resp') <= Slots
      BY TailProps DEF TypeOK
    <3>2. UNCHANGED <<req, pa, seq, ctrl_seq, pb, fault_ep, miss, window, healthy, pb_dead>>
      OBVIOUS
    <3>. HIDE DEF SkipMessage
    <3>. QED BY <3>1, <3>2 DEF TypeOK
  <2>2. ControlInv'
    BY DEF TypeOK, PaState, PbState, ControlInv
  <2>3. WindowInv' /\ DeadIdle'
    BY DEF TypeOK, PaState, PbState, WindowInv, DeadIdle
  <2>4. CleanSlate'
    BY DEF TypeOK, PaState, PbState, CleanSlate
  <2>5. MissBound'
    BY SMTT(30) DEF TypeOK, PaState, PbState, MissBound, LanesTried, ControlInv
  <2>. QED BY <2>1, <2>2, <2>3, <2>4, <2>5
<1>3. CASE Timeout
  <2>. USE <1>3 DEF Timeout
  <2>1. TypeOK'
    <3>1. miss' \in Nat
      BY DEF TypeOK
    <3>2. pa' \in PaState
      BY SeqNumProps DEF TypeOK, PaState, ControlInv
    <3>3. UNCHANGED <<req, resp, seq, ctrl_seq, pb, fault_ep, window, healthy, pb_dead>>
      OBVIOUS
    <3>. HIDE DEF Timeout
    <3>. QED BY <3>1, <3>2, <3>3 DEF TypeOK
  <2>2. ControlInv'
    BY DEF TypeOK, PaState, PbState, ControlInv
  <2>3. WindowInv' /\ DeadIdle'
    BY DEF TypeOK, PaState, PbState, WindowInv, DeadIdle
  <2>4. CleanSlate'
    BY DEF TypeOK, PaState, PbState, CleanSlate
  <2>5. MissBound'
    <3>1. /\ pa.lane \in AllLanes /\ miss' = miss + 1
          /\ pa' = At(AfterFailed(pa.lane)) /\ pa.pc = "wait"
      BY DEF ControlInv
    <3>2. pa.lane = "ctrl" => LanesTried = 0 /\ LanesTried' = 1
      BY <3>1 DEF LanesTried
    <3>3. pa.lane \in {"heartbeat", "shield"} => LanesTried = 1 /\ LanesTried' = 2
      BY <3>1 DEF LanesTried
    <3>4. pa.lane \in {"infer", "wake"} => LanesTried \in {1, 2} /\ LanesTried' = 3
      BY <3>1 DEF LanesTried
    <3>5. miss \in Nat /\ miss <= (MissThreshold - 1) + LanesTried
      BY <3>1 DEF TypeOK, MissBound
    <3>6. miss' <= (MissThreshold - 1) + LanesTried'
      <4>. HIDE DEF Timeout, At
      <4>. QED BY <3>1, <3>2, <3>3, <3>4, <3>5
    <3>. QED BY <3>6 DEF MissBound
  <2>. QED BY <2>1, <2>2, <2>3, <2>4, <2>5
<1>4. CASE DrainChunk
  <2>. USE <1>4 DEF DrainChunk
  <2>1. TypeOK'
    <3>1. resp' \in Seq(RespMsg) /\ Len(resp') <= Slots
      BY TailProps DEF TypeOK
    <3>2. pa' \in PaState
      <4>1. Head(resp).cur \in BOOLEAN
        <5>1. Head(resp) \in RespMsg
          BY TailProps DEF TypeOK
        <5>. QED BY <5>1, MsgFlags
      <4>. DEFINE o == pa.own /\ Head(resp).cur
      <4>2. o \in BOOLEAN
        OBVIOUS
      <4>3. pa' = [pa EXCEPT !.own = o]
        OBVIOUS
      <4>. HIDE DEF o, DrainChunk
      <4>. QED BY <4>2, <4>3 DEF TypeOK, PaState
    <3>3. UNCHANGED <<req, seq, ctrl_seq, pb, fault_ep, miss, window, healthy, pb_dead>>
      OBVIOUS
    <3>. HIDE DEF DrainChunk
    <3>. QED BY <3>1, <3>2, <3>3 DEF TypeOK
  <2>2. ControlInv'
    BY DEF TypeOK, PaState, PbState, ControlInv
  <2>3. WindowInv' /\ DeadIdle'
    BY DEF TypeOK, PaState, PbState, WindowInv, DeadIdle
  <2>4. CleanSlate'
    BY DEF TypeOK, PaState, PbState, CleanSlate
  <2>5. MissBound'
    BY SMTT(30) DEF TypeOK, PaState, PbState, MissBound, LanesTried, ControlInv
  <2>. QED BY <2>1, <2>2, <2>3, <2>4, <2>5
<1>5. CASE \E nonempty \in BOOLEAN : DrainEnd(nonempty)
  <2>. PICK nonempty \in BOOLEAN : DrainEnd(nonempty)
    BY <1>5
  <2>. USE DEF DrainEnd
  <2>1. TypeOK'
    <3>1. resp' \in Seq(RespMsg) /\ Len(resp') <= Slots
      BY TailProps, EmptySeq DEF TypeOK
    <3>2. pa' \in PaState
      BY SeqNumProps DEF TypeOK, PaState, ControlInv
    <3>4. miss' \in Nat
      BY DEF TypeOK
    <3>5. window' \in 0 .. CrashloopBound /\ healthy' \in 0 .. (HealthyReset - 1)
      BY SMTT(30) DEF TypeOK, OnHealthy
    <3>3. UNCHANGED <<req, seq, ctrl_seq, pb, fault_ep, pb_dead>>
      OBVIOUS
    <3>. HIDE DEF DrainEnd
    <3>. QED BY <3>1, <3>2, <3>3, <3>4, <3>5 DEF TypeOK
  <2>2. ControlInv'
    BY DEF TypeOK, PaState, PbState, ControlInv
  <2>3. WindowInv' /\ DeadIdle'
    BY DEF TypeOK, PaState, PbState, WindowInv, DeadIdle, OnHealthy
  <2>4. CleanSlate'
    BY DEF TypeOK, PaState, PbState, CleanSlate
  <2>5. MissBound'
    BY SMTT(30) DEF TypeOK, PaState, PbState, MissBound, LanesTried, ControlInv
  <2>. QED BY <2>1, <2>2, <2>3, <2>4, <2>5
<1>. QED BY <1>1, <1>2, <1>3, <1>4, <1>5

(* A restart starts from a clean slate and ends with a fresh miss window. *)

LEMMA RestartBeginInv ==
    ASSUME LinkInv, NEW back \in {"top", "lane", "stats", "next"}, RestartBegin(back)
    PROVE  LinkInv'
<1>. USE Bounds DEF LinkInv, RestartBegin, ring, health, At
<1>1. PICK mode \in {"entering", "suspended"} : pb' = [mode |-> mode, job |-> NoJob]
  OBVIOUS
<1>2. pa' = [At("ready") EXCEPT !.lane = back]
  OBVIOUS
<1>3. TypeOK'
  <2>1. req' \in Seq(ReqMsg) /\ Len(req') <= Slots /\ resp' \in Seq(RespMsg) /\ Len(resp') <= Slots
    BY EmptySeq
  <2>2. pa' \in PaState
    BY <1>2, SeqNumProps DEF PaState, PaPc
  <2>3. pb' \in PbState
    BY <1>1 DEF PbState
  <2>4. UNCHANGED <<seq, ctrl_seq, miss, window, healthy, pb_dead>> /\ fault_ep' = FALSE
    OBVIOUS
  <2>. HIDE DEF RestartBegin
  <2>. QED BY <2>1, <2>2, <2>3, <2>4 DEF TypeOK
<1>4. ControlInv'
  BY <1>2 DEF ControlInv
<1>5. WindowInv' /\ DeadIdle'
  BY <1>2 DEF TypeOK, WindowInv, DeadIdle
<1>6. CleanSlate'
  BY <1>1, <1>2, EmptySeq DEF CleanSlate
<1>7. MissBound'
  BY <1>2 DEF MissBound
<1>. QED BY <1>3, <1>4, <1>5, <1>6, <1>7

LEMMA RestartEndInv ==
    ASSUME LinkInv, pa.pc = "ready", RestartEnd,
           resp' \in Seq(RespMsg), Len(resp') <= Slots
    PROVE  LinkInv'
<1>. USE Bounds DEF LinkInv, RestartEnd
<1>1. pa.lane \in {"top", "lane", "stats", "next"} /\ pa' = At(pa.lane)
  BY DEF ControlInv
<1>2. ~pb_dead /\ window < CrashloopBound
  BY DEF DeadIdle, WindowInv, TypeOK
<1>3. TypeOK'
  <2>1. pa' \in PaState
    BY <1>1, AtState DEF PaPc
  <2>2. window' \in 0 .. CrashloopBound /\ healthy' \in 0 .. (HealthyReset - 1) /\ miss' \in Nat
    BY <1>2 DEF TypeOK
  <2>3. pb_dead' \in BOOLEAN
    OBVIOUS
  <2>4. UNCHANGED <<req, seq, ctrl_seq, pb, fault_ep>>
    OBVIOUS
  <2>. HIDE DEF RestartEnd
  <2>. QED BY <2>1, <2>2, <2>3, <2>4 DEF TypeOK
<1>4. ControlInv' /\ CleanSlate'
  BY <1>1 DEF ControlInv, CleanSlate, At
<1>5. WindowInv'
  <2>1. window' = window + 1 /\ healthy' = 0
    OBVIOUS
  <2>2. pb_dead' <=> window + 1 >= CrashloopBound
    OBVIOUS
  <2>3. window + 1 >= CrashloopBound <=> window + 1 = CrashloopBound
    BY <1>2 DEF TypeOK
  <2>. HIDE DEF RestartEnd
  <2>. QED BY <2>1, <2>2, <2>3 DEF WindowInv
<1>6. DeadIdle'
  BY <1>1 DEF DeadIdle, At
<1>7. MissBound'
  BY <1>1 DEF MissBound, LanesTried, At
<1>. QED BY <1>3, <1>4, <1>5, <1>6, <1>7

LEMMA HealInv ==
    ASSUME LinkInv, FaultSeen \/ HangCheck \/ ReadyRecv \/ ReadyTimeout
    PROVE  LinkInv'
<1>. USE Bounds DEF LinkInv
<1>1. CASE FaultSeen
  <2>1. AfterFailed(pa.lane) \in {"top", "lane", "stats", "next"}
    BY <1>1 DEF FaultSeen, FaultLanes, AfterFailed, After
  <2>. QED BY <1>1, <2>1, RestartBeginInv DEF FaultSeen
<1>2. CASE HangCheck
  <2>1. CASE miss >= MissThreshold /\ ~pb_dead
    BY <1>2, <2>1, RestartBeginInv DEF HangCheck
  <2>2. CASE ~(miss >= MissThreshold /\ ~pb_dead)
    <3>1. pa.pc = "next" /\ pa' = At("top")
      BY <1>2, <2>2 DEF HangCheck
    <3>2. UNCHANGED <<req, resp, seq, ctrl_seq, pb, fault_ep, miss, window, healthy, pb_dead>>
      BY <1>2, <2>2 DEF HangCheck, ring, health
    <3>3. TypeOK'
      BY <3>1, <3>2, AtState DEF TypeOK, PaPc
    <3>4. ControlInv' /\ WindowInv' /\ DeadIdle' /\ CleanSlate'
      BY <3>1, <3>2 DEF ControlInv, WindowInv, DeadIdle, CleanSlate, At
    <3>5. LanesTried' = 0
      BY <3>1 DEF LanesTried, At
    <3>6. miss <= MissThreshold - 1
      BY <2>2 DEF TypeOK, DeadIdle
    <3>7. MissBound'
      BY <3>2, <3>5, <3>6 DEF MissBound
    <3>. QED BY <3>3, <3>4, <3>7
  <2>. QED BY <2>1, <2>2
<1>3. CASE ReadyRecv
  <2>1. resp # <<>> /\ resp' = Tail(resp) /\ pa.pc = "ready"
    BY <1>3 DEF ReadyRecv
  <2>2. Len(resp) \in Nat \ {0} /\ Head(resp) = resp[1]
    BY <2>1, EmptySeq DEF TypeOK
  <2>3. Head(resp).type = "HEARTBEAT_ACK"
    BY <2>1, <2>2 DEF CleanSlate
  <2>. QED BY <1>3, <2>1, <2>3, RestartEndInv, TailProps DEF ReadyRecv, TypeOK
<1>4. CASE ReadyTimeout
  BY <1>4, RestartEndInv DEF ReadyTimeout, TypeOK
<1>. QED BY <1>1, <1>2, <1>3, <1>4

LEMMA PbInv ==
    ASSUME LinkInv, Pb
    PROVE  LinkInv'
<1>. USE Bounds DEF LinkInv, paside, health, ring
<1>1. UNCHANGED <<pa, seq, ctrl_seq, miss, window, healthy, pb_dead>>
  BY DEF Pb, PbTake, PbSend, PbTruncate, PbEnter, PbFault, PbWedge
<1>2. ControlInv' /\ WindowInv' /\ DeadIdle' /\ MissBound'
  <2>1. LanesTried' = LanesTried
    BY <1>1 DEF LanesTried
  <2>. QED BY <1>1, <2>1 DEF ControlInv, WindowInv, DeadIdle, MissBound
<1>3. SUFFICES /\ req' \in Seq(ReqMsg) /\ Len(req') <= Slots
               /\ resp' \in Seq(RespMsg) /\ Len(resp') <= Slots
               /\ pb' \in PbState /\ fault_ep' \in BOOLEAN
               /\ CleanSlate'
  BY <1>1, <1>2 DEF TypeOK
<1>4. CASE PbTake
  <2>1. req # <<>> /\ req' = Tail(req) /\ UNCHANGED <<resp, fault_ep>> /\ pb.mode = "serving"
    BY <1>4 DEF PbTake
  <2>2. Head(req) \in ReqMsg /\ req' \in Seq(ReqMsg) /\ Len(req') <= Slots
    BY <2>1, HeadTailProperties, LenProperties DEF TypeOK
  <2>3. PICK n \in 1 .. MaxChunks :
            pb' = [pb EXCEPT !.job = [type |-> Head(req).type, seq |-> Head(req).seq,
                                      cur |-> Head(req).cur, left |-> n]]
    <3>1. 1 \in 1 .. MaxChunks
      BY Bounds
    <3>2. PICK n \in (IF Head(req).type \in {"QUERY", "QUERY_LONG"} THEN 1 .. MaxChunks ELSE {1}) :
            pb' = [pb EXCEPT !.job = [type |-> Head(req).type, seq |-> Head(req).seq,
                                      cur |-> Head(req).cur, left |-> n]]
      BY <1>4, Zenon DEF PbTake
    <3>3. n \in 1 .. MaxChunks
      BY <3>1, <3>2
    <3>. QED BY <3>2, <3>3
  <2>4. /\ Head(req).type \in {"QUERY", "QUERY_LONG", "HEARTBEAT", "SHIELD_CHECK"}
        /\ Head(req).seq \in SeqNum /\ Head(req).cur \in BOOLEAN
    BY <2>2 DEF ReqMsg
  <2>5. pb' \in PbState
    BY <2>3, <2>4 DEF TypeOK, PbState, Job
  <2>6. CleanSlate'
    BY <1>1, <2>1 DEF CleanSlate
  <2>. QED BY <2>1, <2>2, <2>5, <2>6 DEF TypeOK
<1>5. CASE PbSend
  <2>1. /\ pb.mode = "serving" /\ pb.job # NoJob /\ resp' = Push(resp, Reply(pb.job))
        /\ pb' = [pb EXCEPT !.job = JobAfter(pb.job)] /\ UNCHANGED <<req, fault_ep>>
    BY <1>5 DEF PbSend
  <2>2. pa.pc # "ready"
    BY <2>1 DEF CleanSlate
  <2>3. pb.job \in Job
    BY <2>1 DEF TypeOK, PbState
  <2>4. Reply(pb.job) \in RespMsg
    <3>1. ReplyTo[pb.job.type] \in {"RESPONSE", "HEARTBEAT_ACK", "SHIELD_RESULT"}
      BY <2>3 DEF Job, ReplyTo
    <3>2. pb.job.seq \in SeqNum /\ pb.job.cur \in BOOLEAN /\ (pb.job.left = 1) \in BOOLEAN
      BY <2>3 DEF Job
    <3>. QED BY <3>1, <3>2 DEF Reply, RespMsg
  <2>5. JobAfter(pb.job) \in Job \union {NoJob}
    <3>1. CASE pb.job.left = 1
      BY <3>1 DEF JobAfter
    <3>2. CASE pb.job.left # 1
      <4>1. pb.job.left - 1 \in 1 .. MaxChunks /\ NextSeq(pb.job.seq) \in SeqNum
        BY <2>3, <3>2, SeqNumProps DEF Job
      <4>. QED BY <2>3, <3>2, <4>1 DEF JobAfter, Job
    <3>. QED BY <3>1, <3>2
  <2>6. resp' \in Seq(RespMsg) /\ Len(resp') <= Slots
    BY <2>1, <2>4, PushProps DEF TypeOK
  <2>7. pb' \in PbState
    BY <2>1, <2>5 DEF TypeOK, PbState
  <2>8. CleanSlate'
    BY <1>1, <2>2 DEF CleanSlate
  <2>. QED BY <2>1, <2>6, <2>7, <2>8 DEF TypeOK
<1>6. CASE PbTruncate
  <2>1. pb.mode = "serving" /\ pb' = [pb EXCEPT !.job = NoJob] /\ UNCHANGED <<req, resp, fault_ep>>
    BY <1>6 DEF PbTruncate
  <2>2. pb' \in PbState
    BY <2>1 DEF TypeOK, PbState
  <2>3. CleanSlate'
    BY <1>1, <2>1 DEF CleanSlate, TypeOK, PbState
  <2>. QED BY <2>1, <2>2, <2>3 DEF TypeOK
<1>7. CASE PbEnter
  <2>1. /\ pb.mode = "entering" /\ pb' = [pb EXCEPT !.mode = "serving"]
        /\ resp' = Push(resp, [type |-> "HEARTBEAT_ACK", seq |-> 0, cur |-> FALSE])
        /\ UNCHANGED <<req, fault_ep>>
    BY <1>7 DEF PbEnter
  <2>2. [type |-> "HEARTBEAT_ACK", seq |-> 0, cur |-> FALSE] \in RespMsg
    BY SeqNumProps DEF RespMsg
  <2>3. resp' \in Seq(RespMsg) /\ Len(resp') <= Slots
    BY <2>1, <2>2, PushProps DEF TypeOK
  <2>4. pb' \in PbState
    BY <2>1 DEF TypeOK, PbState
  <2>5. CleanSlate'
    <3>1. SUFFICES ASSUME pa.pc = "ready" PROVE CleanSlate'
      BY <1>1 DEF CleanSlate
    <3>2. resp = <<>> /\ req = <<>> /\ pb.job = NoJob
      BY <2>1, <3>1 DEF CleanSlate
    <3>3. Len(resp') = 1 /\ resp'[1].type = "HEARTBEAT_ACK"
      BY <2>1, <2>2, <3>2, EmptySeq, AppendProperties DEF Push
    <3>4. pb'.mode = "serving" /\ pb'.job = NoJob
      BY <2>1, <3>2 DEF TypeOK, PbState
    <3>. QED BY <2>1, <3>2, <3>3, <3>4 DEF CleanSlate
  <2>. QED BY <2>1, <2>3, <2>4, <2>5 DEF TypeOK
<1>8. CASE PbFault
  <2>1. /\ pb.mode \in {"entering", "serving"} /\ pb' = [pb EXCEPT !.mode = "faulted"]
        /\ fault_ep' = TRUE /\ UNCHANGED <<req, resp>>
    BY <1>8 DEF PbFault
  <2>2. pb' \in PbState
    BY <2>1 DEF TypeOK, PbState
  <2>3. CleanSlate'
    BY <1>1, <2>1 DEF CleanSlate, TypeOK, PbState
  <2>. QED BY <2>1, <2>2, <2>3 DEF TypeOK
<1>9. CASE PbWedge
  <2>1. /\ pb.mode \in {"entering", "serving"} /\ pb' = [pb EXCEPT !.mode = "wedged"]
        /\ UNCHANGED <<req, resp, fault_ep>>
    BY <1>9 DEF PbWedge
  <2>2. pb' \in PbState
    BY <2>1 DEF TypeOK, PbState
  <2>3. CleanSlate'
    BY <1>1, <2>1 DEF CleanSlate, TypeOK, PbState
  <2>. QED BY <2>1, <2>2, <2>3 DEF TypeOK
<1>. QED BY <1>4, <1>5, <1>6, <1>7, <1>8, <1>9 DEF Pb

------------------------------------------------------------------------------
LEMMA NextLinkInv == LinkInv /\ [Next]_vars => LinkInv'
<1>. SUFFICES ASSUME LinkInv, [Next]_vars PROVE LinkInv'
  OBVIOUS
<1>1. CASE Pa
  BY <1>1, DispatchInv, WaitInv, HealInv DEF Pa
<1>2. CASE Pb
  BY <1>2, PbInv
<1>3. CASE UNCHANGED vars
  <2>1. LanesTried' = LanesTried
    BY <1>3 DEF vars, LanesTried
  <2>. QED BY <1>3, <2>1 DEF vars, LinkInv, TypeOK, ControlInv, WindowInv, DeadIdle, CleanSlate,
                             MissBound
<1>. QED BY <1>1, <1>2, <1>3 DEF Next

THEOREM LinkInvariance == Spec => []LinkInv
BY InitLinkInv, NextLinkInv, PTL DEF Spec

\* Types: the rings never exceed their size, and the crash-loop window and the
\* healthy count stay within their bounds.
THEOREM LinkTypeCorrect == Spec => []TypeOK
BY LinkInvariance, PTL DEF LinkInv

\* pb_health.c: PB is given up exactly at the bound, and from then on PA has no
\* exchange with it under way.
THEOREM GivenUpAtBound == Spec => []GivenUp
<1>1. LinkInv => GivenUp
  BY DEF LinkInv, GivenUp
<1> QED BY <1>1, LinkInvariance, PTL

\* km2b_do_respawn: nothing of PB's previous life is left when PA waits for its
\* ready ACK.
THEOREM RespawnIsClean == Spec => []CleanSlate
BY LinkInvariance, PTL DEF LinkInv

\* km2b_miss.c and next_query: at most MissThreshold + 2 exhausted waits before a
\* silent PB is restarted.
THEOREM BoundedDetection == Spec => []MissBound
BY LinkInvariance, PTL DEF LinkInv

\* Once PB is given up no lane sends to it again.
THEOREM NoDispatchToTheDead == Spec => DeadStopsDispatch
<1>1. LinkInv /\ [Next]_vars => [pb_dead => Len(req') <= Len(req)]_vars
  <2>. SUFFICES ASSUME LinkInv, Next, pb_dead PROVE Len(req') <= Len(req)
    BY DEF vars
  <2>1. pa.pc \in {"top", "lane", "stats", "next"}
    BY DEF LinkInv, DeadIdle
  <2>2. Len(req) \in Nat
    BY LenProperties DEF LinkInv, TypeOK
  <2>3. CASE Pa
    <3>1. UNCHANGED req
      BY <2>1, <2>3 DEF Pa, Route, SkipRoute, ChooseCache, Wake, NoWake, Purge, Send, Choose,
                        TakeAnswer, SkipMessage, Timeout, DrainChunk, DrainEnd, FaultSeen,
                        HangCheck, ReadyRecv, ReadyTimeout, ring
    <3>. QED BY <2>2, <3>1
  <2>4. CASE Pb
    <3>1. UNCHANGED req \/ (req # <<>> /\ req' = Tail(req))
      BY <2>4 DEF Pb, PbTake, PbSend, PbTruncate, PbEnter, PbFault, PbWedge, ring
    <3>. QED BY <2>2, <3>1, HeadTailProperties DEF LinkInv, TypeOK
  <2>. QED BY <2>3, <2>4 DEF Next
<1>. QED BY <1>1, LinkInvariance, PTL DEF Spec, DeadStopsDispatch

------------------------------------------------------------------------------
(* WatchGate. *)

Clocks  == 0 .. (ClockMod - 1)
Hours   == 0 .. Bucket(ClockMod - 1)
Budgets(n) == [bucket : Hours, count : 0 .. n]

LEMMA WatchSizes ==
    /\ ClockMod \in Nat \ {0} /\ Hour \in Nat \ {0} /\ Cooldown \in Nat \ {0}
    /\ MaxWindow \in Nat \ {0} /\ InformBudget \in Nat \ {0} /\ WakeBudget \in Nat \ {0}
    /\ Cooldown + MaxWindow <= ClockMod
    /\ 0 \in Clocks
BY WatchAssumption DEF Clocks

\* The hour of a reading of the clock.
LEMMA BucketType == ASSUME NEW t \in Clocks PROVE Bucket(t) \in Hours
<1> DEFINE q == t \div Hour
           r == (ClockMod - 1) \div Hour
<1>1. t \in Nat /\ ClockMod - 1 \in Nat /\ t <= ClockMod - 1 /\ Hour \in Nat \ {0}
  BY WatchSizes DEF Clocks
<1>2. /\ q \in Nat /\ r \in Nat
      /\ q * Hour <= t /\ ClockMod - 1 < (r + 1) * Hour
  BY <1>1, Z3
<1>3. q <= r
  <2> HIDE DEF q, r
  <2>1. q * Hour < (r + 1) * Hour
    BY <1>1, <1>2
  <2> QED BY <1>1, <1>2, <2>1
<1> QED BY <1>2, <1>3 DEF Bucket, Hours

\* A reading of the clock after d more steps, and how long it was since another reading.
LEMMA Later ==
    ASSUME NEW t \in Clocks, NEW u \in Clocks, NEW d \in 0 .. MaxWindow
    PROVE  /\ (t + d) % ClockMod \in Clocks
           /\ (t - u) % ClockMod \in Clocks
           /\ ((t - u) % ClockMod) + d < ClockMod =>
                 (((t + d) % ClockMod) - u) % ClockMod = ((t - u) % ClockMod) + d
<1>1. d < ClockMod /\ d \in Nat
  BY WatchSizes
<1>2. (t + d) % ClockMod = IF t + d < ClockMod THEN t + d ELSE t + d - ClockMod
  BY <1>1, WatchSizes DEF Clocks
<1>3. \A a, b \in Clocks : (a - b) % ClockMod = IF b <= a THEN a - b ELSE (a - b) + ClockMod
  BY WatchSizes DEF Clocks
<1>4. (t + d) % ClockMod \in Clocks
  BY <1>1, <1>2, WatchSizes DEF Clocks
<1>5. (t - u) % ClockMod \in Clocks
  BY <1>3, WatchSizes DEF Clocks
<1>6. ASSUME ((t - u) % ClockMod) + d < ClockMod
      PROVE  (((t + d) % ClockMod) - u) % ClockMod = ((t - u) % ClockMod) + d
  <2>1. (((t + d) % ClockMod) - u) % ClockMod
          = IF u <= (t + d) % ClockMod THEN ((t + d) % ClockMod) - u
                                       ELSE ((t + d) % ClockMod) - u + ClockMod
    BY <1>3, <1>4
  <2> DEFINE v == (t + d) % ClockMod
             x == (t - u) % ClockMod
             y == (v - u) % ClockMod
  <2>2. /\ x = IF u <= t THEN t - u ELSE t - u + ClockMod
        /\ v = IF t + d < ClockMod THEN t + d ELSE t + d - ClockMod
        /\ y = IF u <= v THEN v - u ELSE v - u + ClockMod
        /\ x + d < ClockMod
    BY <1>2, <1>3, <1>6, <2>1
  <2>3. y = x + d
    <3> HIDE DEF v, x, y
    <3> QED BY <1>1, <2>2, WatchSizes DEF Clocks
  <2> QED BY <2>3
<1> QED BY <1>4, <1>5, <1>6

-----------------------------------------------------------------------------

\* A consult belongs to the window that is over, a latched anomaly to the one being sampled.
PhaseInv == (at # "run" => consult = "none") /\ (at = "run" => pending = "none")

\* Until the cooldown has passed, the stamp of the last consult tells the time since.
StampInv ==
    \A w \in WakeTypes :
        /\ consult = w => fired[w] /\ last[w] = clock
        /\ consult # w /\ idle[w] < Cooldown =>
              fired[w] /\ (clock - last[w]) % ClockMod = idle[w]

\* A watcher that is armed was below its threshold since it fired.
ArmedInv == \A w \in Watchers : mon[w].armed => w \in cleared

WatchInv == WatchTypeOK /\ PhaseInv /\ StampInv /\ ArmedInv /\ ConsultsApart /\ ConsultTold

LEMMA WatchInitially == WatchInit => WatchInv
<1> SUFFICES ASSUME WatchInit PROVE WatchInv
  OBVIOUS
<1> USE WatchSizes DEF WatchInit, WakeTypes, Watchers
<1>1. Bucket(0) \in Hours /\ 0 \in Hours
  <2>1. Bucket(0) \in Hours
    BY BucketType
  <2>2. ClockMod - 1 \in Clocks
    BY DEF Clocks
  <2>3. Bucket(ClockMod - 1) \in Hours
    BY <2>2, BucketType
  <2> QED BY <2>1, <2>3 DEF Hours
<1>2. WatchTypeOK
  <2>1. mon \in [Watchers -> [consec : 0 .. 1, armed : BOOLEAN]]
    OBVIOUS
  <2>2. bud \in Budgets(InformBudget) /\ wbud \in Budgets(WakeBudget)
    BY <1>1 DEF Budgets
  <2>3. last \in [WakeTypes -> Clocks] /\ fired \in [WakeTypes -> BOOLEAN] /\ idle \in [WakeTypes -> Nat]
    OBVIOUS
  <2>4. /\ at \in {"run", "err", "heal", "mark", "b5", "wake"} /\ clock \in Clocks
        /\ trig \subseteq Watchers /\ {based, gave_up, b5, alerted} \subseteq BOOLEAN
        /\ pending \in WakeTypes \cup {"none"} /\ consult \in WakeTypes \cup {"none"}
        /\ told \subseteq Watchers \cup {"degraded"} /\ cleared \subseteq Watchers
    OBVIOUS
  <2> QED BY <2>1, <2>2, <2>3, <2>4 DEF WatchTypeOK, Budgets, Hours, Clocks
<1>3. PhaseInv /\ StampInv /\ ArmedInv /\ ConsultsApart /\ ConsultTold
  BY DEF PhaseInv, StampInv, ArmedInv, ConsultsApart, ConsultTold
<1> QED BY <1>2, <1>3 DEF WatchInv

LEMMA WindowEndsInv == ASSUME WatchInv, WindowEnds PROVE WatchInv'
<1> USE DEF WatchInv, WakeTypes, Watchers
<1> PICK d \in 1 .. MaxWindow :
       /\ clock' = (clock + d) % ClockMod
       /\ idle' = [w \in WakeTypes |->
                     IF w = consult THEN d
                     ELSE IF idle[w] + d > Cooldown THEN Cooldown ELSE idle[w] + d]
  BY DEF WindowEnds
<1>1. d \in 0 .. MaxWindow /\ d \in Nat /\ d < ClockMod
  BY WatchSizes
<1>2. clock \in Clocks /\ clock' \in Clocks /\ last \in [WakeTypes -> Clocks]
  BY <1>1, Later DEF WatchTypeOK, Clocks
<1>3. trig' \subseteq Watchers /\ gave_up' \in BOOLEAN
  <2>1. PICK t \in SUBSET WakeTypes : trig' = t \cup {w \in {"mark"} : clock' >= Mark}
    BY DEF WindowEnds
  <2>2. gave_up' \in BOOLEAN
    BY DEF WindowEnds, WatchTypeOK
  <2> QED BY <2>1, <2>2
<1>4. idle' \in [WakeTypes -> Nat]
  BY <1>1, WatchSizes DEF WatchTypeOK
<1>5. WatchTypeOK'
  BY <1>2, <1>3, <1>4 DEF WindowEnds, WatchTypeOK, Clocks, wakeVars
<1>6. StampInv'
  <2> SUFFICES ASSUME NEW w \in WakeTypes, idle'[w] < Cooldown
               PROVE  fired[w] /\ (clock' - last[w]) % ClockMod = idle'[w]
    BY DEF StampInv, WindowEnds, wakeVars
  <2>1. last[w] \in Clocks /\ idle[w] \in Nat
    BY <1>2 DEF WatchTypeOK
  <2>2. CASE w = consult
    <3>1. fired[w] /\ last[w] = clock /\ idle'[w] = d
      BY <2>2 DEF StampInv
    <3>2. (clock - last[w]) % ClockMod = 0
      BY <1>2, <3>1, WatchSizes DEF Clocks
    <3>3. ((clock - last[w]) % ClockMod) + d = idle'[w] /\ idle'[w] < ClockMod
      BY <1>1, <3>1, <3>2
    <3>4. (((clock + d) % ClockMod) - last[w]) % ClockMod = ((clock - last[w]) % ClockMod) + d
      BY ONLY <1>1, <1>2, <2>1, <3>3, Later
    <3>5. clock' = (clock + d) % ClockMod
      OBVIOUS
    <3> QED BY ONLY <3>1, <3>3, <3>4, <3>5
  <2>3. CASE w # consult
    <3>1. idle'[w] = idle[w] + d /\ idle[w] < Cooldown
      BY <1>1, <2>1, <2>3, WatchSizes
    <3>2. fired[w] /\ (clock - last[w]) % ClockMod = idle[w]
      BY <2>3, <3>1 DEF StampInv
    <3>3. idle[w] + d < ClockMod
      BY <1>1, <2>1, <3>1, WatchSizes
    <3>4. (((clock + d) % ClockMod) - last[w]) % ClockMod = ((clock - last[w]) % ClockMod) + d
      BY ONLY <1>1, <1>2, <2>1, <3>2, <3>3, Later
    <3>5. clock' = (clock + d) % ClockMod
      OBVIOUS
    <3> QED BY ONLY <3>1, <3>2, <3>4, <3>5
  <2> QED BY <2>2, <2>3
<1>7. PhaseInv' /\ ArmedInv' /\ ConsultsApart' /\ ConsultTold'
  BY DEF WindowEnds, PhaseInv, ArmedInv, ConsultsApart, ConsultTold, wakeVars
<1> QED BY <1>5, <1>6, <1>7

\* One sample: the monitor stays typed, and armed only past a value below the threshold.
LEMMA SampleKeeps ==
    ASSUME WatchTypeOK, ArmedInv, NEW w \in Watchers, Sample(w)
    PROVE  /\ mon' \in [Watchers -> [consec : 0 .. 1, armed : BOOLEAN]]
           /\ cleared' \subseteq Watchers /\ ArmedInv'
<1>1. mon \in [Watchers -> [consec : 0 .. 1, armed : BOOLEAN]] /\ cleared \subseteq Watchers
  BY DEF WatchTypeOK
<1>2. Debounce[w] \in {1, 2}
  BY DEF Debounce
<1>3. Sampled(w) \in [consec : 0 .. 1, armed : BOOLEAN]
  BY <1>1, <1>2 DEF Sampled, Fires
<1>4. mon' = [mon EXCEPT ![w] = Sampled(w)]
  BY DEF Sample
<1>5. Sampled(w).armed => w \in cleared'
  BY <1>1 DEF Sampled, Sample, ArmedInv
<1>6. \A v \in Watchers \ {w} : v \in cleared => v \in cleared'
  BY DEF Sample
<1>7. cleared' \subseteq Watchers
  BY <1>1 DEF Sample
<1> QED BY <1>1, <1>3, <1>4, <1>5, <1>6, <1>7 DEF ArmedInv

\* One inform: the budget stays typed, and what is latched for a consult is surfaced.
LEMMA InformKeeps ==
    ASSUME WatchTypeOK, ConsultTold, consult = "none",
           NEW w \in Watchers \cup {"degraded"}, Inform(w) \/ NoInform
    PROVE  /\ bud' \in Budgets(InformBudget)
           /\ pending' \in WakeTypes \cup {"none"}
           /\ told' \subseteq Watchers \cup {"degraded"}
           /\ {pending', consult} \subseteq told' \cup {"none"}
<1>1. bud \in Budgets(InformBudget) /\ clock \in Clocks
  BY DEF WatchTypeOK, Budgets, Hours, Clocks
<1>2. Rolled(bud) \in Budgets(InformBudget)
  BY <1>1, BucketType, WatchSizes DEF Rolled, Budgets
<1>3. InformOk => [Rolled(bud) EXCEPT !.count = @ + 1] \in Budgets(InformBudget)
  BY <1>2, WatchSizes DEF InformOk, Budgets
<1> QED BY <1>1, <1>2, <1>3 DEF Inform, NoInform, Stage, WatchTypeOK, ConsultTold

\* A watcher samples, whichever it is: what it leaves alone.
LEMMA SamplingInv ==
    ASSUME WatchInv, at # "run", at' \in {"heal", "mark", "b5", "wake"},
           mon' \in [Watchers -> [consec : 0 .. 1, armed : BOOLEAN]],
           cleared' \subseteq Watchers, ArmedInv',
           NEW w \in Watchers \cup {"degraded"}, Inform(w) \/ NoInform,
           UNCHANGED <<clock, trig, based, gave_up, last, fired, wbud, consult, idle>>,
           b5' \in BOOLEAN, alerted' \in BOOLEAN
    PROVE  WatchInv'
<1>1. consult = "none"
  BY DEF WatchInv, PhaseInv
<1>2. /\ bud' \in Budgets(InformBudget)
      /\ pending' \in WakeTypes \cup {"none"}
      /\ told' \subseteq Watchers \cup {"degraded"}
      /\ {pending', consult} \subseteq told' \cup {"none"}
  BY <1>1, InformKeeps DEF WatchInv
<1>3. WatchTypeOK'
  BY <1>2 DEF WatchInv, WatchTypeOK, Budgets, Hours
<1>4. PhaseInv' /\ ConsultsApart' /\ ConsultTold'
  BY <1>1, <1>2 DEF PhaseInv, ConsultsApart, ConsultTold
<1>5. StampInv'
  BY DEF WatchInv, StampInv
<1> QED BY <1>3, <1>4, <1>5 DEF WatchInv

LEMMA WatchersInv ==
    ASSUME WatchInv, WatchMark \/ WatchDegraded \/ \E w \in WakeTypes : Watch(w)
    PROVE  WatchInv'
<1>1. WatchTypeOK /\ ArmedInv /\ b5 \in BOOLEAN /\ alerted \in BOOLEAN
      /\ mon \in [Watchers -> [consec : 0 .. 1, armed : BOOLEAN]] /\ cleared \subseteq Watchers
  BY DEF WatchInv, WatchTypeOK
<1>2. ASSUME NEW w \in WakeTypes, Watch(w) PROVE WatchInv'
  <2>1. w \in Watchers
    BY DEF WakeTypes, Watchers
  <2>2. at = w /\ at # "run" /\ at' \in {"heal", "mark"} /\ Sample(w)
    BY <1>2 DEF Watch, WakeTypes
  <2>3. /\ Inform(w) \/ NoInform
        /\ UNCHANGED <<clock, trig, based, gave_up, b5, last, fired, wbud, consult, idle, alerted>>
    BY <1>2 DEF Watch
  <2>4. /\ mon' \in [Watchers -> [consec : 0 .. 1, armed : BOOLEAN]]
        /\ cleared' \subseteq Watchers /\ ArmedInv'
    BY <1>1, <2>1, <2>2, SampleKeeps
  <2>5. b5' \in BOOLEAN /\ alerted' \in BOOLEAN
    BY <1>1, <2>3
  <2> QED BY <2>1, <2>2, <2>3, <2>4, <2>5, SamplingInv
<1>3. CASE WatchMark
  <2>1. "mark" \in Watchers
    BY DEF Watchers
  <2>2. /\ at = "mark" /\ at' = "b5"
        /\ Inform("mark") \/ NoInform
        /\ UNCHANGED <<clock, trig, based, gave_up, b5, last, fired, wbud, consult, idle, alerted>>
        /\ Sample("mark") \/ UNCHANGED <<mon, cleared>>
    BY <1>3 DEF WatchMark
  <2>3. /\ mon' \in [Watchers -> [consec : 0 .. 1, armed : BOOLEAN]]
        /\ cleared' \subseteq Watchers /\ ArmedInv'
    <3>1. CASE Sample("mark")
      BY <1>1, <2>1, <3>1, SampleKeeps
    <3>2. CASE UNCHANGED <<mon, cleared>>
      BY <1>1, <3>2 DEF ArmedInv
    <3> QED BY <2>2, <3>1, <3>2
  <2>4. at # "run" /\ b5' \in BOOLEAN /\ alerted' \in BOOLEAN
    BY <1>1, <2>2
  <2> QED BY <2>1, <2>2, <2>3, <2>4, SamplingInv
<1>4. CASE WatchDegraded
  <2>1. /\ at = "b5" /\ at' = "wake"
        /\ Inform("degraded") \/ NoInform
        /\ UNCHANGED <<clock, trig, based, mon, gave_up, last, fired, wbud, consult, idle, cleared>>
    BY <1>4 DEF WatchDegraded
  <2>2. b5' \in BOOLEAN /\ alerted' \in BOOLEAN
    <3>1. b5' \in {b5, Rearm} /\ alerted' \in {alerted, alerted \/ InformOk}
      BY <1>4 DEF WatchDegraded
    <3>2. Rearm \in BOOLEAN /\ InformOk \in BOOLEAN
      BY DEF Rearm, InformOk
    <3>3. (alerted \/ InformOk) \in BOOLEAN
      BY ZenonT(10)
    <3> QED BY <1>1, <3>1, <3>2, <3>3
  <2>3. ArmedInv'
    BY <1>1, <2>1 DEF ArmedInv
  <2> QED BY <1>1, <2>1, <2>2, <2>3, SamplingInv
<1> QED BY <1>2, <1>3, <1>4, Zenon

LEMMA WakeInv == ASSUME WatchInv, WakeDispatch PROVE WatchInv'
<1> USE DEF WatchInv
<1>1. /\ at = "wake" /\ at' = "run" /\ pending' = "none" /\ consult = "none"
      /\ UNCHANGED <<clock, based, mon, gave_up, b5, bud, told, idle, cleared, alerted>>
      /\ trig' = {}
  BY DEF WakeDispatch, PhaseInv
<1>2. wbud \in Budgets(WakeBudget) /\ clock \in Clocks /\ last \in [WakeTypes -> Clocks]
      /\ fired \in [WakeTypes -> BOOLEAN] /\ idle \in [WakeTypes -> Nat]
  BY DEF WatchTypeOK, Budgets, Hours, Clocks
<1>3. Rolled(wbud) \in Budgets(WakeBudget)
  BY <1>2, BucketType, WatchSizes DEF Rolled, Budgets
<1>4. CASE UNCHANGED <<last, fired, consult>> /\ wbud' \in {wbud, Rolled(wbud)}
  <2>1. WatchTypeOK'
    BY <1>1, <1>2, <1>3, <1>4 DEF WatchTypeOK, Budgets, Hours
  <2>2. StampInv'
    BY <1>1, <1>4 DEF StampInv
  <2>3. PhaseInv' /\ ArmedInv' /\ ConsultsApart' /\ ConsultTold'
    BY <1>1, <1>4 DEF PhaseInv, ArmedInv, ConsultsApart, ConsultTold
  <2> QED BY <2>1, <2>2, <2>3
<1>5. CASE /\ pending # "none" /\ ~Cooling(pending)
           /\ Rolled(wbud).count < WakeBudget /\ Consult(pending)
  <2>1. pending \in WakeTypes
    BY <1>5 DEF WatchTypeOK
  <2>2. /\ wbud' = [Rolled(wbud) EXCEPT !.count = @ + 1]
        /\ last' = [last EXCEPT ![pending] = clock] /\ fired' = [fired EXCEPT ![pending] = TRUE]
        /\ consult' = pending
    BY <1>5 DEF Consult
  <2>3. wbud' \in Budgets(WakeBudget)
    BY <1>3, <1>5, <2>2, WatchSizes DEF Budgets
  <2>4. last' \in [WakeTypes -> Clocks] /\ fired' \in [WakeTypes -> BOOLEAN]
    BY <1>2, <2>2
  <2>5. WatchTypeOK'
    BY <1>1, <2>1, <2>2, <2>3, <2>4 DEF WatchTypeOK, Budgets, Hours, Clocks
  <2>6. StampInv'
    <3> SUFFICES ASSUME NEW w \in WakeTypes
                 PROVE  /\ w = pending => fired'[w] /\ last'[w] = clock
                        /\ w # pending /\ idle[w] < Cooldown =>
                              fired'[w] /\ (clock - last'[w]) % ClockMod = idle[w]
      BY <1>1, <2>2 DEF StampInv
    <3>1. CASE w = pending
      BY <1>2, <2>2, <3>1
    <3>2. CASE w # pending
      <4>1. fired'[w] = fired[w] /\ last'[w] = last[w] /\ consult # w
        BY <1>1, <1>2, <2>2, <3>2 DEF WakeTypes
      <4> QED BY <3>2, <4>1 DEF StampInv
    <3> QED BY <3>1, <3>2
  <2>7. idle[pending] >= Cooldown
    <3>1. idle[pending] < Cooldown => Cooling(pending)
      BY <1>1, <2>1 DEF StampInv, Cooling, WakeTypes
    <3> QED BY <1>2, <1>5, <2>1, <3>1, WatchSizes
  <2>8. PhaseInv' /\ ArmedInv' /\ ConsultsApart' /\ ConsultTold'
    BY <1>1, <2>1, <2>2, <2>7 DEF PhaseInv, ArmedInv, ConsultsApart, ConsultTold
  <2> QED BY <2>5, <2>6, <2>8
<1> QED BY <1>4, <1>5 DEF WakeDispatch

LEMMA WatchInductive == ASSUME WatchInv, [WatchNext]_watchVars PROVE WatchInv'
<1>1. CASE WatchNext
  BY <1>1, WindowEndsInv, WatchersInv, WakeInv DEF WatchNext
<1>2. CASE UNCHANGED watchVars
  BY <1>2 DEF watchVars, monVars, wakeVars, seenVars, WatchInv, WatchTypeOK, PhaseInv, StampInv,
              ArmedInv, ConsultsApart, ConsultTold
<1> QED BY <1>1, <1>2

\* Monitors, budgets and the wake gate stay in their types.
THEOREM WatchTypeCorrect == WatchSpec => []WatchTypeOK
<1>1. WatchInv => WatchTypeOK
  BY DEF WatchInv
<1> QED BY <1>1, WatchInitially, WatchInductive, PTL DEF WatchSpec

\* wake.c: two consults of one type lie the cooldown apart in real time although they are
\* compared on a clock that wraps, and PB is asked only about what the operator was told.
THEOREM ConsultsAreHonest == WatchSpec => []ConsultHonest
<1>1. WatchInv => ConsultHonest
  BY DEF WatchInv, ConsultHonest
<1> QED BY <1>1, WatchInitially, WatchInductive, PTL DEF WatchSpec

\* monitors.c: a condition that lasts is told once, until it was gone.
THEOREM OneEventPerCrossing == WatchSpec => OncePerCrossing
<1>1. ASSUME WatchInv, [WatchNext]_watchVars
      PROVE  [\A w \in Watchers : w \in told' \ told => w \in cleared]_watchVars
  <2> SUFFICES ASSUME WatchNext, NEW w \in Watchers, w \in told' \ told PROVE w \in cleared
    BY <1>1
  <2>1. Fires(w)
    BY DEF WatchNext, WindowEnds, WatchMark, WatchDegraded, WakeDispatch, Watch, Inform,
           NoInform, Watchers, WakeTypes
  <2> QED BY <1>1, <2>1 DEF Fires, WatchInv, ArmedInv
<1> QED BY <1>1, WatchInitially, WatchInductive, PTL DEF WatchSpec, OncePerCrossing

------------------------------------------------------------------------------
(* The two parts together: each part's steps are steps or stutters of the other. *)

\* Every variable of the workload loop keeps its type, in the lanes to PB (main_x86.c)
\* and in the watchers and the wake gate that run in between (monitors.c, wake.c).
THEOREM WorkloadTypesCorrect == WorkloadSpec => []WorkloadTypes
<1>1. WorkloadInit => LinkInv /\ WatchInv
  BY InitLinkInv, WatchInitially DEF WorkloadInit
<1>2. ASSUME [WorkloadNext]_workloadVars PROVE [Next]_vars /\ [WatchNext]_watchVars
  BY <1>2 DEF WorkloadNext, LinkPart, WatchPart, workloadVars
<1>3. LinkInv /\ WatchInv /\ [WorkloadNext]_workloadVars => (LinkInv /\ WatchInv)'
  BY <1>2, NextLinkInv, WatchInductive
<1>4. LinkInv /\ WatchInv => WorkloadTypes
  BY DEF LinkInv, WatchInv, WorkloadTypes
<1> QED
  BY <1>1, <1>3, <1>4, PTL DEF WorkloadSpec
==============================================================================
