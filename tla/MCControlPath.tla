---------------------------- MODULE MCControlPath ----------------------------
(* The path of a control-IN query for TLC: the receive ring of the card, the   *)
(* mailboxes to the input process, its rate limit, the gate that answers the   *)
(* query, and the transmit ring.  They share no variable: a behaviour is one   *)
(* part's, the others rest.                                                    *)
EXTENDS ControlMailbox, TokenBucket, ControlGate, RxRing, TxRing

CONSTANTS pk1, pk2

MCPackets == {pk1, pk2}

VARIABLE part   \* the part this behaviour is about

controlVars == <<part, mbxVars, rlVars, gateVars, rxVars, txVars>>

ControlInit ==
    /\ part \in {"receive", "mailbox", "bucket", "gate", "transmit"}
    /\ MbxInit /\ RlInit /\ GateInit /\ RxInit /\ TxInit
    /\ part # "bucket" => now = 0

NicRests == UNCHANGED <<rxVars, txVars>>

MailboxPart(A)  == part = "mailbox" /\ A /\ NicRests /\ UNCHANGED <<part, rlVars, gateVars>>
BucketPart(A)   == part = "bucket" /\ A /\ NicRests /\ UNCHANGED <<part, mbxVars, gateVars>>
GatePart(A)     == part = "gate" /\ A /\ NicRests /\ UNCHANGED <<part, mbxVars, rlVars>>
ReceivePart(A)  == part = "receive" /\ A /\ UNCHANGED <<part, mbxVars, rlVars, gateVars, txVars>>
TransmitPart(A) == part = "transmit" /\ A /\ UNCHANGED <<part, mbxVars, rlVars, gateVars, rxVars>>

ControlNext ==
    \/ ReceivePart(RxNext) \/ MailboxPart(MbxNext) \/ BucketPart(RlNext) \/ GatePart(GateNext)
    \/ TransmitPart(TxNext)

ControlSpec ==
    /\ ControlInit /\ [][ControlNext]_controlVars
    /\ WF_controlVars(MailboxPart(Poll)) /\ WF_controlVars(MailboxPart(Serve))
    /\ WF_controlVars(GatePart(GateStep))

\* Every variable of the parts keeps its type.
ControlTypes == MbxTypeOK /\ RlTypeOK /\ GateTypeOK /\ RxTypeOK /\ TxTypeOK

\* A frame crosses the card's rings whole and once, in both directions, as far as the code
\* secures it (nic_i211.c).
FramesWhole == RxSafe /\ SentWhole
==============================================================================
