----------------------------- MODULE MCWorkload -----------------------------
(* The workload loop of PA for TLC: its lanes to PB and what it watches in     *)
(* between.  The two share no variable here (g_pb_dead is one of PbLink's, and *)
(* an input to the watchers): a behaviour is one part's, the other rests.      *)
EXTENDS PbLink, WatchGate

VARIABLE part   \* the part this behaviour is about

workloadVars == <<part, vars, watchVars>>

WorkloadInit == part \in {"link", "watch"} /\ Init /\ WatchInit

LinkPart(A)  == part = "link" /\ A /\ UNCHANGED <<part, watchVars>>
WatchPart(A) == part = "watch" /\ A /\ UNCHANGED <<part, vars>>

WorkloadNext == LinkPart(Next) \/ WatchPart(WatchNext)

WorkloadSpec ==
    /\ WorkloadInit /\ [][WorkloadNext]_workloadVars
    /\ WF_workloadVars(LinkPart(Pa)) /\ SF_workloadVars(LinkPart(Choose("heartbeat")))
    /\ WF_workloadVars(WatchPart(WatchNext))

\* Every variable of the two parts keeps its type.
WorkloadTypes == TypeOK /\ WatchTypeOK
=============================================================================
