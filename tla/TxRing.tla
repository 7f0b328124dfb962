-------------------------------- MODULE TxRing --------------------------------
(***************************************************************************)
(* The transmit ring of phase3/src/drivers/nic_i211.c with the card behind  *)
(* it.  Every frame that leaves the box, the hello of the boot, telemetry   *)
(* and the replies of the control-IN lane (main_x86.c), goes through one    *)
(* DMA buffer: i211_send_phys copies it there, fills the next descriptor    *)
(* and moves the tail register.  The boot polls for the descriptor to be    *)
(* done; the other callers do not, and none looks at the head register.     *)
(*                                                                         *)
(* A frame has a number and one or two parts, of which the first holds its  *)
(* destination; telemetry is shorter than a reply.                          *)
(***************************************************************************)
EXTENDS Integers, Sequences

CONSTANTS TxSize,     \* I211_TX_RING_SIZE
          Hellos,     \* frames of the boot burst
          TxNumbers   \* frames are told apart up to this many

ASSUME TxAssumption ==
    /\ TxSize \in Nat /\ TxSize > 1
    /\ {Hellos, TxNumbers} \subseteq Nat \ {0}

VARIABLES tx_len,      \* length field of each descriptor
          tx_done,     \* descriptors whose DD bit is set
          tx_buf,      \* the buffer, part by part
          tx_head,     \* the driver's cursor
          tdh, tdt,    \* head and tail register
          fetched,     \* what the card has read of the frame at TDH
          tx_at,       \* where PA is: "boot" or "loop", then i211_send_phys
          tx_frame,    \* the frame it sends
          hellos,      \* sent by the boot burst
          any_dd,      \* the burst saw a descriptor done
          net_ready,   \* g_net.ready
          due          \* history: the frames handed over that have not left, and whether the
                       \* buffer has been theirs ever since

txCard == <<tdh, fetched>>
txBoot == <<hellos, any_dd, net_ready>>
txVars == <<tx_len, tx_done, tx_buf, tx_head, tdt, txCard, tx_at, tx_frame, txBoot, due>>

TxSlots == 0 .. (TxSize - 1)
TxSucc(i) == (i + 1) % TxSize
TxPred(i) == (i - 1) % TxSize
TxFrames == [kind : {"hello", "telemetry", "reply"}, no : 0 .. (TxNumbers - 1)]
NoFrameYet == [kind |-> "hello", no |-> 0]
Parts(f) == IF f.kind = "reply" THEN 2 ELSE 1
Whole(f) == [i \in 1 .. Parts(f) |-> f]

TxInit ==
    /\ tx_len = [i \in TxSlots |-> 0] /\ tx_done = {}
    /\ tx_buf = [i \in 1 .. 2 |-> NoFrameYet]
    /\ tx_head = 0 /\ tdh = 0 /\ tdt = 0
    /\ fetched = <<>>
    /\ tx_at = "boot" /\ tx_frame = NoFrameYet
    /\ hellos = 0 /\ any_dd = FALSE /\ net_ready = FALSE
    /\ due = <<>>

------------------------------------------------------------------------------
(* PA: i211_send_phys *)

Disowned(s) == [k \in DOMAIN s |-> [s[k] EXCEPT !.own = FALSE]]

\* The first part of the frame is copied into the buffer, whatever the card still has to read.
SendCopy(kind) ==
    /\ tx_frame' = [kind |-> kind, no |-> (tx_frame.no + 1) % TxNumbers]
    /\ tx_buf' = [tx_buf EXCEPT ![1] = tx_frame']
    /\ tx_at' = "copy"
    /\ due' = Disowned(due)
    /\ UNCHANGED <<tx_len, tx_done, tx_head, tdt, txCard, any_dd, net_ready>>

SendCopyRest ==
    /\ tx_at = "copy"
    /\ tx_buf' = IF Parts(tx_frame) = 2 THEN [tx_buf EXCEPT ![2] = tx_frame] ELSE tx_buf
    /\ tx_at' = "fill"
    /\ UNCHANGED <<tx_len, tx_done, tx_head, tdt, txCard, tx_frame, txBoot, due>>

\* The descriptor at the cursor is filled, whoever owns it.
Fill ==
    /\ tx_at = "fill"
    /\ tx_len' = [tx_len EXCEPT ![tx_head] = Parts(tx_frame)]
    /\ tx_done' = tx_done \ {tx_head}
    /\ tx_head' = TxSucc(tx_head)
    /\ tx_at' = "bell"
    /\ UNCHANGED <<tx_buf, tdt, txCard, tx_frame, txBoot, due>>

\* The tail register: the descriptor is the card's.  When the tail comes round to the head the
\* card sees an empty ring, and what it was given is lost.
Doorbell ==
    /\ tx_at = "bell"
    /\ tdt' = tx_head
    /\ due' = IF tdt' = tdh THEN <<>>
              ELSE Append(due, [frame |-> tx_frame, own |-> due # <<>> \/ fetched = <<>>])
    /\ tx_at' = IF tx_frame.kind = "hello" THEN "poll" ELSE "loop"
    /\ UNCHANGED <<tx_len, tx_done, tx_buf, tx_head, txCard, tx_frame, txBoot>>

------------------------------------------------------------------------------
(* PA: who sends *)

\* The boot burst: a hello, ...
SendHello ==
    /\ tx_at = "boot" /\ hellos < Hellos
    /\ hellos' = hellos + 1
    /\ SendCopy("hello")

\* ... and a bounded poll for its descriptor.
PollDone ==
    /\ tx_at = "poll"
    /\ any_dd' = (any_dd \/ TxPred(tx_head) \in tx_done)
    /\ tx_at' = "boot"
    /\ UNCHANGED <<tx_len, tx_done, tx_buf, tx_head, tdt, txCard, tx_frame, hellos, net_ready,
                   due>>

\* Only a card that has sent something is used later.
BurstOver ==
    /\ tx_at = "boot" /\ hellos = Hellos
    /\ net_ready' = any_dd
    /\ tx_at' = "loop"
    /\ UNCHANGED <<tx_len, tx_done, tx_buf, tx_head, tdt, txCard, tx_frame, hellos, any_dd,
                   due>>

\* The telemetry tick of the loop and the reply of pa_ctrl_gate: sent and forgotten.
SendFromLoop ==
    /\ tx_at = "loop" /\ net_ready
    /\ \E kind \in {"telemetry", "reply"} : SendCopy(kind)
    /\ UNCHANGED hellos

Mute == tx_at = "loop" /\ ~net_ready /\ UNCHANGED txVars

------------------------------------------------------------------------------
(* The card (external): reads the frame at TDH and sends it, however late. *)

Fetch ==
    /\ tdh # tdt
    /\ Len(fetched) < tx_len[tdh]
    /\ fetched' = Append(fetched, tx_buf[Len(fetched) + 1])
    /\ UNCHANGED <<tx_len, tx_done, tx_buf, tx_head, tdt, tdh, tx_at, tx_frame, txBoot,
                   due>>

Transmit ==
    /\ tdh # tdt
    /\ Len(fetched) >= tx_len[tdh]
    /\ fetched' = <<>>
    /\ tx_done' = tx_done \union {tdh}
    /\ tdh' = TxSucc(tdh)
    /\ due' = Tail(due)
    /\ UNCHANGED <<tx_len, tx_buf, tx_head, tdt, tx_at, tx_frame, txBoot>>

------------------------------------------------------------------------------
TxPa == \/ SendHello \/ SendFromLoop \/ SendCopyRest \/ Fill \/ Doorbell
        \/ PollDone \/ BurstOver \/ Mute
TxCard == Fetch \/ Transmit

TxNext == TxPa \/ TxCard

TxSpec == TxInit /\ [][TxNext]_txVars

------------------------------------------------------------------------------
(* Properties *)

TxHanded == [frame : TxFrames, own : BOOLEAN]

\* Registers, descriptors and buffer keep their types.
TxTypeOK ==
    /\ tx_len \in [TxSlots -> 0 .. 2] /\ tx_done \subseteq TxSlots
    /\ tx_buf \in [1 .. 2 -> TxFrames]
    /\ tx_head \in TxSlots /\ tdh \in TxSlots /\ tdt \in TxSlots
    /\ fetched \in Seq(TxFrames) /\ Len(fetched) <= 2
    /\ tx_at \in {"boot", "poll", "loop", "copy", "fill", "bell"} /\ tx_frame \in TxFrames
    /\ hellos \in 0 .. Hellos /\ {any_dd, net_ready} \subseteq BOOLEAN
    /\ due \in Seq(TxHanded) /\ Len(due) < TxSize

\* The slot of the k-th frame that has not left.
TxSlot(k) == (tdh + k - 1) % TxSize

\* PA never asks whether the card has kept up.  Even so, what lies between head and tail are
\* the descriptors of the frames that have not left, in order; a frame leaves whole if the
\* buffer was its own from the doorbell to then, whatever became of the frames before it, so
\* that a crowd damages no frame but its own; and a done descriptor tells the boot burst that
\* this hello, not an earlier one, has left (control_reply.h, "The reply leaves as ONE raw UDP
\* unicast Ethernet frame"; main_x86.c, "fire-and-forget (no DD poll)").
SentWhole ==
    /\ tdt = TxSlot(Len(due) + 1)
    /\ \A k \in 1 .. Len(due) : tx_len[TxSlot(k)] = Parts(due[k].frame)
    /\ due # <<>> /\ due[1].own /\ Len(fetched) >= tx_len[tdh] => fetched = Whole(due[1].frame)
    /\ tx_at = "poll" /\ TxPred(tx_head) \in tx_done => due = <<>>
==============================================================================
