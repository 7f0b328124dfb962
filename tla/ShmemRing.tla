------------------------------ MODULE ShmemRing ------------------------------
(***************************************************************************)
(* phase3/src/ipc/shmem_ipc.{h,c}: the lock-free single-producer /         *)
(* single-consumer ring each direction of the PA<->PB link lives in.       *)
(*                                                                         *)
(* A step is one access to the shared page that the other side can see, so *)
(* the producer can be halfway into a slot while the consumer reads.  The  *)
(* release/acquire pairs of the code make every earlier store visible with *)
(* the index that announces it; the model is sequentially consistent.      *)
(*                                                                         *)
(* The free-running uint32 indices are words modulo Modulus.  A message is *)
(* an opaque value; a slot keeps the header copy (type, seq, length), the  *)
(* payload copy and what the CRC was computed over, which is all that the  *)
(* properties tell apart.                                                  *)
(***************************************************************************)
EXTENDS Integers, Sequences

CONSTANTS Slots,       \* header.size, SHMEM_RING_SLOTS
          Modulus,     \* number of values of an index word, 2^32
          IndexLimit,  \* bound: no send starts once write_idx has reached it
          MaxFlips,    \* bound: memory corruptions in a behaviour
          Messages,    \* message values
          Zero         \* what memset leaves in a slot

ASSUME RingAssumption ==
    /\ Slots \in Nat \ {0}
    /\ Modulus \in Nat /\ Slots < Modulus
    /\ IndexLimit \in 0 .. Modulus
    /\ MaxFlips \in Nat
    /\ Zero \notin Messages

VARIABLES write_idx, read_idx,  \* the two shared index words
          slots,                \* slot -> its contents
          prod, cons,           \* each side's program counter and locals
          received,             \* what the last successful receive returned
          flips                 \* corruptions so far

vars == <<write_idx, read_idx, slots, prod, cons, received, flips>>

Contents == Messages \union {Zero}
SlotIdx  == 0 .. (Slots - 1)
Word     == 0 .. (Modulus - 1)

Inc(i)        == (i + 1) % Modulus             \* uint32 increment
Dist(wr, rd)  == (wr - rd) % Modulus           \* uint32 subtraction
Pending       == Dist(write_idx, read_idx)     \* shmem_ipc_pending
SlotAt(rd, k) == ((rd + k) % Modulus) % Slots  \* slot of the k-th message from rd

RingFullLate  == Pending > Slots               \* mutant: one slot late
RingFull      == Pending >= Slots              \* the full check of shmem_ipc_send

ZeroSlot == [hdr |-> Zero, body |-> Zero, crcHdr |-> Zero, crcBody |-> Zero,
             flipped |-> TRUE]

\* shmem_msg_crc over the slot equals slot->crc.  A zeroed slot does not match.
CrcOk(s) == s.crcHdr = s.hdr /\ s.crcBody = s.body /\ ~s.flipped

\* slot->crc = shmem_msg_crc(slot, len)
Sealed(s) == [hdr |-> s.hdr, body |-> s.body, crcHdr |-> s.hdr, crcBody |-> s.body,
              flipped |-> FALSE]

IdleProd == [pc |-> "idle", wr |-> 0, msg |-> Zero]
IdleCons == [pc |-> "idle", rd |-> 0, hdr |-> Zero, body |-> Zero, bad |-> FALSE]

\* shmem_ipc_init: memset, then magic/version/size.
Init ==
    /\ write_idx = 0 /\ read_idx = 0
    /\ slots = [i \in SlotIdx |-> ZeroSlot]
    /\ prod = IdleProd /\ cons = IdleCons
    /\ received = [hdr |-> Zero, body |-> Zero, bad |-> FALSE]
    /\ flips = 0

------------------------------------------------------------------------------
(* shmem_ipc_send.  When the ring is full it returns -1 and changes nothing. *)

\* Load both indices and pass the full check.
SendBegin(m) ==
    /\ prod.pc = "idle"
    /\ write_idx < IndexLimit
    /\ ~RingFull
    /\ prod' = [pc |-> "header", wr |-> write_idx, msg |-> m]
    /\ UNCHANGED <<write_idx, read_idx, slots, cons, received, flips>>

ProdSlot == prod.wr % Slots

SendHeader ==
    /\ prod.pc = "header"
    /\ slots' = [slots EXCEPT ![ProdSlot].hdr = prod.msg]
    /\ prod' = [prod EXCEPT !.pc = "payload"]
    /\ UNCHANGED <<write_idx, read_idx, cons, received, flips>>

SendPayload ==
    /\ prod.pc = "payload"
    /\ slots' = [slots EXCEPT ![ProdSlot].body = prod.msg]
    /\ prod' = [prod EXCEPT !.pc = "crc"]
    /\ UNCHANGED <<write_idx, read_idx, cons, received, flips>>

\* The CRC is computed over what the slot holds now.
SendCrc ==
    /\ prod.pc = "crc"
    /\ slots' = [slots EXCEPT ![ProdSlot] = Sealed(@)]
    /\ prod' = [prod EXCEPT !.pc = "publish"]
    /\ UNCHANGED <<write_idx, read_idx, cons, received, flips>>

\* Release store of wr + 1.
SendPublish ==
    /\ prod.pc = "publish"
    /\ write_idx' = Inc(prod.wr)
    /\ prod' = IdleProd
    /\ UNCHANGED <<read_idx, slots, cons, received, flips>>

------------------------------------------------------------------------------
(* shmem_ipc_recv.  An empty ring returns -1 and changes nothing. *)

RecvBegin ==
    /\ cons.pc = "idle"
    /\ read_idx # write_idx
    /\ cons' = [IdleCons EXCEPT !.pc = "header", !.rd = read_idx]
    /\ UNCHANGED <<write_idx, read_idx, slots, prod, received, flips>>

ConsSlot == cons.rd % Slots

\* local_type, local_seq, local_length.
RecvHeader ==
    /\ cons.pc = "header"
    /\ cons' = [cons EXCEPT !.pc = "check", !.hdr = slots[ConsSlot].hdr]
    /\ UNCHANGED <<write_idx, read_idx, slots, prod, received, flips>>

\* Mutant: a message that fails its CRC is skipped.
RecvCheckSkips ==
    /\ cons.pc = "check"
    /\ LET ok == CrcOk(slots[ConsSlot]) IN
       /\ cons' = IF ok THEN [cons EXCEPT !.pc = "copy"] ELSE IdleCons
       /\ read_idx' = IF ok THEN read_idx ELSE Inc(cons.rd)
    /\ UNCHANGED <<write_idx, slots, prod, received, flips>>

\* SHMEM_ERR_CRC is returned with read_idx unmoved: the message stays at the head.
RecvCheck ==
    /\ cons.pc = "check"
    /\ cons' = IF CrcOk(slots[ConsSlot]) THEN [cons EXCEPT !.pc = "copy"]
                                         ELSE IdleCons
    /\ UNCHANGED <<write_idx, read_idx, slots, prod, received, flips>>

\* memcpy of the payload out of the slot.
RecvCopy ==
    /\ cons.pc = "copy"
    /\ cons' = [cons EXCEPT !.pc = "release", !.body = slots[ConsSlot].body,
                            !.bad = slots[ConsSlot].flipped]
    /\ UNCHANGED <<write_idx, read_idx, slots, prod, received, flips>>

\* Release store of rd + 1, return 0.
RecvRelease ==
    /\ cons.pc = "release"
    /\ read_idx' = Inc(cons.rd)
    /\ received' = [hdr |-> cons.hdr, body |-> cons.body, bad |-> cons.bad]
    /\ cons' = IdleCons
    /\ UNCHANGED <<write_idx, slots, prod, flips>>

------------------------------------------------------------------------------
(* The environment of the ring. *)

\* The slots holding messages that were published and not released.
Occupied == {SlotAt(read_idx, k) : k \in 0 .. (Pending - 1)}

\* A bit flip in a published message, the corruption SEC-020 is about.  One that
\* strikes after the consumer verified the slot is out of any checksum's reach.
Corrupt(i) ==
    /\ flips < MaxFlips
    /\ i \in Occupied
    /\ ~(cons.pc \in {"copy", "release"} /\ i = ConsSlot)
    /\ slots' = [slots EXCEPT ![i].flipped = TRUE]
    /\ flips' = flips + 1
    /\ UNCHANGED <<write_idx, read_idx, prod, cons, received>>

\* km2b_do_respawn runs shmem_ipc_init on both rings.  PA does it, so PA's own
\* side is between calls; PB was suspended first, wherever it was, and resumes
\* at a fresh entry point, so its half-done call is abandoned.
Reinit ==
    /\ prod.pc = "idle" \/ cons.pc = "idle"
    /\ write_idx' = 0 /\ read_idx' = 0
    /\ slots' = [i \in SlotIdx |-> ZeroSlot]
    /\ prod' = IdleProd /\ cons' = IdleCons
    /\ UNCHANGED <<received, flips>>

Producer == \/ \E m \in Messages : SendBegin(m)
            \/ SendHeader \/ SendPayload \/ SendCrc \/ SendPublish
Consumer == RecvBegin \/ RecvHeader \/ RecvCheck \/ RecvCopy \/ RecvRelease

Next == Producer \/ Consumer \/ (\E i \in SlotIdx : Corrupt(i)) \/ Reinit

Spec == Init /\ [][Next]_vars

------------------------------------------------------------------------------
TypeOK ==
    /\ write_idx \in Word /\ read_idx \in Word
    /\ slots \in [SlotIdx -> [hdr : Contents, body : Contents, crcHdr : Contents,
                              crcBody : Contents, flipped : BOOLEAN]]
    /\ prod \in [pc : {"idle", "header", "payload", "crc", "publish"},
                 wr : Word, msg : Contents]
    /\ cons \in [pc : {"idle", "header", "check", "copy", "release"},
                 rd : Word, hdr : Contents, body : Contents, bad : BOOLEAN]
    /\ received \in [hdr : Contents, body : Contents, bad : BOOLEAN]
    /\ flips \in 0 .. MaxFlips

\* The producer is never inside a slot whose message the consumer has not
\* released: the full check of shmem_ipc_send keeps the two sides apart, at the
\* index wrap included.
NoOverwrite == prod.pc # "idle" => ProdSlot \notin Occupied

\* No receive ever returns a torn message (header of one, payload of another)
\* or one whose slot was corrupted: the order "slot, CRC, write_idx" of the
\* producer and "CRC check, copy, read_idx" of the consumer.
DeliveredIntact == received.hdr = received.body /\ ~received.bad

\* The two sides keep out of each other's way, and nobody is handed a torn message.
RingSafe == NoOverwrite /\ DeliveredIntact

\* The messages published and not released, oldest first.
Queued == [k \in 1 .. Pending |-> slots[SlotAt(read_idx, k - 1)].hdr]

\* The ring is the bounded FIFO its users rely on: every accepted message is
\* delivered once, in order, unless a respawn clears the ring.
Fifo == INSTANCE BoundedFifo WITH Capacity <- Slots, Nothing <- Zero,
                                  queue <- Queued, received <- received.hdr

ImplementsFifo == Fifo!Spec

------------------------------------------------------------------------------
(* The inductive invariant behind NoOverwrite, DeliveredIntact and            *)
(* ImplementsFifo.                                                            *)

\* The geometries for which it holds: the slot count divides the index range, or
\* the indices are never run to their wrap.
SafeGeometry == Modulus % Slots = 0 \/ IndexLimit < Modulus

\* Each side's private copy of its own index is the shared one, and a side that
\* is inside a call still has the room, or the message, its check saw.
IndexInv ==
    /\ Pending <= Slots
    /\ prod.pc # "idle" => prod.wr = write_idx /\ Pending < Slots
    /\ cons.pc # "idle" => cons.rd = read_idx /\ Pending > 0

\* Below the wrap the indices are ordinary counters.
BoundInv ==
    IndexLimit < Modulus =>
        /\ read_idx <= write_idx /\ write_idx <= IndexLimit
        /\ prod.pc # "idle" => write_idx < IndexLimit

\* Published messages are whole.
SlotInv == \A i \in Occupied : slots[i].hdr \in Messages /\ slots[i].hdr = slots[i].body

\* What the producer has stored of its message so far.
ProdInv ==
    /\ prod.pc # "idle" => prod.msg \in Messages
    /\ prod.pc \in {"payload", "crc", "publish"} => slots[ProdSlot].hdr = prod.msg
    /\ prod.pc \in {"crc", "publish"} => slots[ProdSlot].body = prod.msg

\* What the consumer holds is what the head slot holds.
ConsInv ==
    /\ cons.pc \in {"check", "copy", "release"} => cons.hdr = slots[ConsSlot].hdr
    /\ cons.pc \in {"copy", "release"} => ~slots[ConsSlot].flipped
    /\ cons.pc = "release" => cons.body = slots[ConsSlot].body /\ ~cons.bad

\* The inductive invariant: it holds in every reachable state and carries the
\* slot ownership argument of shmem_ipc_send and shmem_ipc_recv.
IInv == TypeOK /\ IndexInv /\ BoundInv /\ SlotInv /\ ProdInv /\ ConsInv /\ DeliveredIntact
==============================================================================
