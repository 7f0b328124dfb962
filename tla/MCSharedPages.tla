---------------------------- MODULE MCSharedPages ----------------------------
(* Shared memory, for TLC: between PA and PB the rings, the embedding page and *)
(* the two pages of context, between PA and the NVMe drive the queue pair.     *)
(* The parts share no variable: a behaviour is one part's, the others rest, so *)
(* that a run costs the sum of the state spaces and not their product.         *)
EXTENDS ShmemRing, EmbedRegion, ContextSnapshot, ContextPreamble, NvmeQueue, TLC

CONSTANTS m1, m2, t1, t2, p1, p2, l1, l2, d1

MCMessages == {m1, m2}
MCTexts == {t1, t2}
MCPreambles == {p1, p2}
MCLbas == {l1, l2}
MCData == {d1}

\* Neither the queue nor the drive tells one sector from another.
SectorSymmetry == Permutations(MCLbas)

VARIABLE part   \* the part this behaviour is about

pageVars == <<part, vars, erVars, snapVars, preVars, nvVars>>

PagesInit ==
    /\ part \in {"ring", "embed", "snapshot", "preamble", "drive"}
    /\ Init /\ ErInit /\ SnapInit /\ PreInit /\ NvInit

RingPart(A) ==
    part = "ring" /\ A /\ UNCHANGED <<part, erVars, snapVars, preVars, nvVars>>
EmbedPart(A) ==
    part = "embed" /\ A /\ UNCHANGED <<part, vars, snapVars, preVars, nvVars>>
SnapshotPart(A) ==
    part = "snapshot" /\ A /\ UNCHANGED <<part, vars, erVars, preVars, nvVars>>
PreamblePart(A) ==
    part = "preamble" /\ A /\ UNCHANGED <<part, vars, erVars, snapVars, nvVars>>
DrivePart(A) ==
    part = "drive" /\ A /\ UNCHANGED <<part, vars, erVars, snapVars, preVars>>

PagesNext ==
    \/ RingPart(Next) \/ EmbedPart(ErNext) \/ SnapshotPart(SnapNext) \/ PreamblePart(PreNext)
    \/ DrivePart(NvNext)

PagesSpec == PagesInit /\ [][PagesNext]_pageVars

\* Every variable of the parts keeps its type.
PageTypes == TypeOK /\ ErTypeOK /\ SnapTypeOK /\ PreTypeOK /\ NvTypeOK

\* The prompt of an answer that is used was made of one publication of the state, whole, and
\* of the preamble packed for that very query (handle_query reads both as it takes it up).
ContextIntact == NoTornSnapshot /\ OwnPreamble
==============================================================================
