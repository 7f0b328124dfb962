-------------------------------- MODULE RxRing --------------------------------
(***************************************************************************)
(* The receive ring of phase3/src/drivers/nic_i211.c with the card behind   *)
(* it: how a control-IN frame gets into PA's memory.  PA wires the buffers  *)
(* and arms the ring at boot (main_x86.c) and takes one frame per iteration *)
(* of its loop.  The card owns the descriptors from RDH up to, and without, *)
(* RDT; it fills a buffer in several bursts and then writes the status.     *)
(*                                                                         *)
(* A frame is a value, a buffer its front and its back part.                *)
(***************************************************************************)
EXTENDS Integers, Sequences

CONSTANTS RxSize,      \* I211_RX_RING_SIZE
          Packets,     \* what a frame can say
          Damaged,     \* a frame with an error, or without its end
          NoPacket     \* a buffer nothing was received into

ASSUME RxAssumption ==
    /\ RxSize \in Nat /\ RxSize > 1
    /\ NoPacket \notin Packets /\ Damaged \notin Packets \union {NoPacket}

VARIABLES rx_ring,    \* status of each descriptor: "free", "done" or "damaged"
          rx_addr,    \* descriptors that have a buffer
          rx_bufs,    \* the buffers
          rdh, rdt,   \* head and tail register
          rx_cur,     \* the driver's cursor
          rx_copy,    \* the caller's buffer
          rx_at,      \* where PA is: boot, then i211_nic_recv
          card,       \* what the card is doing at RDH, and with which frame
          rx_taken    \* history: the last frame taken off the ring

rxVars == <<rx_ring, rx_addr, rx_bufs, rdh, rdt, rx_cur, rx_copy, rx_at, card, rx_taken>>

RxSlots == 0 .. (RxSize - 1)
RxSucc(i) == (i + 1) % RxSize
Body(f) == [front |-> f, back |-> f]
CardIdle == [at |-> "idle", frame |-> NoPacket]

\* i211_nic_init leaves the ring empty and the receiver on: RDT = RDH = 0.
RxInit ==
    /\ rx_ring = [i \in RxSlots |-> "free"] /\ rx_addr = {}
    /\ rx_bufs = [i \in RxSlots |-> Body(NoPacket)]
    /\ rdh = 0 /\ rdt = 0 /\ rx_cur = 0
    /\ rx_copy = Body(NoPacket) /\ rx_at = "wire"
    /\ card = CardIdle /\ rx_taken = NoPacket

------------------------------------------------------------------------------
(* PA at boot *)

\* i211_nic_set_rx_buffer for every descriptor whose frame could be allocated.
Wire ==
    /\ rx_at = "wire"
    /\ rx_addr' \in SUBSET RxSlots
    /\ rx_at' = "arm"
    /\ UNCHANGED <<rx_ring, rx_bufs, rdh, rdt, rx_cur, rx_copy, card, rx_taken>>

\* The ring is armed if no descriptor lacks a buffer; else it stays inert.
Arm ==
    /\ rx_at = "arm"
    /\ IF rx_addr = RxSlots THEN rdt' = RxSize - 1 /\ rx_at' = "loop"
                            ELSE rdt' = rdt /\ rx_at' = "inert"
    /\ UNCHANGED <<rx_ring, rx_addr, rx_bufs, rdh, rx_cur, rx_copy, card, rx_taken>>

\* The lane is closed for this boot.
Inert == rx_at = "inert" /\ UNCHANGED rxVars

------------------------------------------------------------------------------
(* PA: i211_nic_recv, from the poll of the lane *)

NothingYet == rx_at = "loop" /\ rx_ring[rx_cur] = "free" /\ UNCHANGED rxVars

CopyFront ==
    /\ rx_at = "loop" /\ rx_ring[rx_cur] = "done"
    /\ rx_copy' = [rx_copy EXCEPT !.front = rx_bufs[rx_cur].front]
    /\ rx_at' = "copy"
    /\ UNCHANGED <<rx_ring, rx_addr, rx_bufs, rdh, rdt, rx_cur, card, rx_taken>>

CopyBack ==
    /\ rx_at = "copy"
    /\ rx_copy' = [rx_copy EXCEPT !.back = rx_bufs[rx_cur].back]
    /\ rx_at' = "clear"
    /\ UNCHANGED <<rx_ring, rx_addr, rx_bufs, rdh, rdt, rx_cur, card, rx_taken>>

\* Mutant of Clear: the status of the descriptor is left as it was.
ClearLeavesDone(what) ==
    /\ rx_cur' = RxSucc(rx_cur)
    /\ rx_taken' = what
    /\ rx_at' = "rearm"
    /\ UNCHANGED <<rx_ring, rx_addr, rx_bufs, rdh, rdt, rx_copy, card>>

\* The descriptor is cleared and the cursor moves on.
Clear(what) ==
    /\ rx_ring' = [rx_ring EXCEPT ![rx_cur] = "free"]
    /\ rx_cur' = RxSucc(rx_cur)
    /\ rx_taken' = what
    /\ rx_at' = "rearm"
    /\ UNCHANGED <<rx_addr, rx_bufs, rdh, rdt, rx_copy, card>>

\* A frame has been copied ...
TakeFrame == rx_at = "clear" /\ Clear(rx_copy.front)

\* ... or is counted as an error and dropped, nothing copied.
DropDamaged == rx_at = "loop" /\ rx_ring[rx_cur] = "damaged" /\ Clear(Damaged)

\* Mutant of RearmAt: the tail goes to the cursor, not to the descriptor freed.
RearmAtCursor == rx_cur

\* The descriptor just freed.
RearmAt == (rx_cur - 1) % RxSize

\* The tail register goes to the descriptor just freed: the ones before it are the card's.
Rearm ==
    /\ rx_at = "rearm"
    /\ rdt' = RearmAt
    /\ rx_at' = "loop"
    /\ UNCHANGED <<rx_ring, rx_addr, rx_bufs, rdh, rx_cur, rx_copy, card, rx_taken>>

------------------------------------------------------------------------------
(* The card (external).  A frame that finds the ring full is lost on the card. *)

CardBegins(f) ==
    /\ card = CardIdle /\ rdh # rdt
    /\ card' = [at |-> "front", frame |-> f]
    /\ rx_bufs' = [rx_bufs EXCEPT ![rdh].front = f]
    /\ UNCHANGED <<rx_ring, rx_addr, rdh, rdt, rx_cur, rx_copy, rx_at, rx_taken>>

CardGoesOn ==
    /\ card.at = "front"
    /\ card' = [card EXCEPT !.at = "back"]
    /\ rx_bufs' = [rx_bufs EXCEPT ![rdh].back = card.frame]
    /\ UNCHANGED <<rx_ring, rx_addr, rdh, rdt, rx_cur, rx_copy, rx_at, rx_taken>>

CardReports(status) ==
    /\ card.at = "back"
    /\ rx_ring' = [rx_ring EXCEPT ![rdh] = status]
    /\ rdh' = RxSucc(rdh)
    /\ card' = CardIdle
    /\ UNCHANGED <<rx_addr, rx_bufs, rdt, rx_cur, rx_copy, rx_at, rx_taken>>

------------------------------------------------------------------------------
Card == \/ \E f \in Packets : CardBegins(f)
        \/ CardGoesOn
        \/ \E status \in {"done", "damaged"} : CardReports(status)
RxPa == Wire \/ Arm \/ Inert \/ NothingYet \/ CopyFront \/ CopyBack \/ TakeFrame \/ DropDamaged \/ Rearm

RxNext == Card \/ RxPa

RxSpec == RxInit /\ [][RxNext]_rxVars

------------------------------------------------------------------------------
(* Properties *)

RxBodies == [front : Packets \union {NoPacket}, back : Packets \union {NoPacket}]

\* Registers, descriptors, buffers and the driver's cursor keep their types.
RxTypeOK ==
    /\ rx_ring \in [RxSlots -> {"free", "done", "damaged"}] /\ rx_addr \subseteq RxSlots
    /\ rx_bufs \in [RxSlots -> RxBodies] /\ rx_copy \in RxBodies
    /\ rdh \in RxSlots /\ rdt \in RxSlots /\ rx_cur \in RxSlots
    /\ rx_at \in {"wire", "arm", "inert", "loop", "copy", "clear", "rearm"}
    /\ card \in [at : {"idle", "front", "back"}, frame : Packets \union {NoPacket}]
    /\ rx_taken \in Packets \union {Damaged, NoPacket}

\* The frames reported and not yet taken off the ring, oldest first.
Waiting == (rdh - rx_cur) % RxSize
Reported ==
    [i \in 1 .. Waiting |->
        LET d == (rx_cur + i - 1) % RxSize IN
        IF rx_ring[d] = "done" THEN rx_bufs[d].front ELSE Damaged]

\* What the card may still fill.
CardsOwn == (rdt - rdh) % RxSize

\* The card writes through no descriptor without a buffer (main_x86.c, "an addr=0
\* descriptor exposed to the NIC would DMA to physical 0") and into no buffer PA is reading;
\* what PA copied is one frame; and of the ring's descriptors all but one are at any moment
\* the card's, reported, or about to be handed back, so that the lane never runs dry
\* ("RDH catches RDT -> the NIC stops, no desync").
RxSafe ==
    /\ card # CardIdle => rdh \in rx_addr
    /\ rx_at \in {"copy", "clear"} => card = CardIdle \/ rdh # rx_cur
    /\ rx_at = "clear" => rx_copy.front = rx_copy.back
    /\ rx_at \in {"loop", "copy", "clear", "rearm"} =>
          CardsOwn + Waiting = RxSize - IF rx_at = "rearm" THEN 2 ELSE 1

\* No frame is lost, taken twice or taken out of order between the card's report and PA.
Receptions == INSTANCE BoundedFifo WITH
    Messages <- Packets \union {Damaged}, Capacity <- RxSize - 1, Nothing <- NoPacket,
    queue <- Reported, received <- rx_taken
ReceptionsFifo == Receptions!Spec
==============================================================================
