----------------------------- MODULE BoundedFifo -----------------------------
(***************************************************************************)
(* A FIFO of bounded capacity that loses, duplicates, reorders and tears    *)
(* nothing, except that its supervisor may empty it.  It is what one        *)
(* direction of the PA<->PB link promises its two users (ShmemRing), and    *)
(* what the NVMe driver's completion queue is (NvmeQueue).                  *)
(***************************************************************************)
EXTENDS Naturals, Sequences

CONSTANTS Messages,   \* what a slot can carry
          Capacity,   \* most messages accepted and not yet delivered
          Nothing     \* "no message delivered yet"

VARIABLES queue,      \* accepted, not yet delivered, oldest first
          received    \* the last message delivered

vars == <<queue, received>>

Init == queue = <<>> /\ received = Nothing

\* A send that returned 0.  (A refused send, -1, changes nothing.)
Put(m) ==
    /\ Len(queue) < Capacity
    /\ queue' = Append(queue, m)
    /\ UNCHANGED received

\* A receive that returned 0.
Get ==
    /\ queue # <<>>
    /\ received' = Head(queue)
    /\ queue' = Tail(queue)

\* The supervisor re-initialises the ring: what was queued is gone.
Reset == queue' = <<>> /\ UNCHANGED received

Next == (\E m \in Messages : Put(m)) \/ Get \/ Reset

Spec == Init /\ [][Next]_vars
==============================================================================
