------------------------------ MODULE NvmeQueue ------------------------------
(***************************************************************************)
(* phase3/src/drivers/nvme.c: the I/O queue pair, one command at a time,   *)
(* and the drive behind it.  PA's one bounce buffer (main_x86.c            *)
(* epi_nvme_read, epi_nvme_write) serves every command.                    *)
(*                                                                         *)
(* The driver polls the phase bit of the completion at cq_head and gives   *)
(* up after NVME_TIMEOUT polls; the command stays with the drive, which    *)
(* completes it later, in any order, and moves its data from or to the     *)
(* buffer only then.  The drive keeps writes in a cache until a flush.     *)
(***************************************************************************)
EXTENDS Integers, Sequences, FiniteSets

CONSTANTS Size,         \* entries of the completion queue, NVME_IO_QUEUE_SIZE
          CidMod,       \* command identifiers run from 1 to CidMod (65535)
          Lbas, Data,   \* sectors, sector contents
          Blank,        \* contents of a sector nobody wrote
          None,         \* no such write; no completion taken yet
          MaxTimeouts   \* bound: commands given up

ASSUME NvmeAssumption ==
    /\ Size \in Nat /\ Size > 1
    /\ CidMod \in Nat \ {0}
    /\ MaxTimeouts \in Nat
    /\ Blank \notin Data /\ None \notin Data \union {Blank}

VARIABLES host,     \* the driver: where it is, its command, head, phase, last cid
          cq,       \* completion queue in memory
          drive,    \* the drive: commands it holds, tail, phase, cache, nand
          buf,      \* bounce buffer
          ret,      \* what the last command returned
          acked,    \* history: sector -> contents of its last write, once it returned 0
          flushed,  \* history: sectors whose acked write a flush that returned 0 followed
          taken,    \* history: the last completion taken
          timeouts

nvVars == <<host, cq, drive, buf, ret, acked, flushed, taken, timeouts>>

Sectors == Data \union {Blank}
CqSlots    == 0 .. (Size - 1)
Bit      == {0, 1}
Cids     == 1 .. CidMod
Ops      == {"read", "write", "flush"}
Command  == [cid : Cids, op : {"read", "write"}, lba : Lbas]
                \union [cid : Cids, op : {"flush"}, lba : {None}]
Entry    == [phase : Bit, ok : BOOLEAN]          \* its cid is never read
NoRet    == [op |-> "none", ok |-> FALSE]

\* Queues cleared, both phases 1: the tail of nvme_init.
NvInit ==
    /\ host = [at |-> "idle", cmd |-> None, head |-> 0, phase |-> 1, cid |-> 0]
    /\ cq = [s \in CqSlots |-> [phase |-> 0, ok |-> FALSE]]
    /\ drive = [held |-> {}, tail |-> 0, phase |-> 1,
                cache |-> [l \in Lbas |-> Blank], nand |-> [l \in Lbas |-> Blank]]
    /\ buf = Blank /\ ret = NoRet
    /\ acked = [l \in Lbas |-> None] /\ flushed = {}
    /\ taken = None /\ timeouts = 0

-----------------------------------------------------------------------------
(* The driver *)

NextCid == (host.cid % CidMod) + 1

\* nvme_submit_and_wait, up to the poll loop
Submit(op, l) ==
    LET c == [cid |-> NextCid, op |-> op, lba |-> l] IN
    /\ host.at = "idle"
    /\ \A h \in drive.held : h.cid # c.cid        \* bound: CidMod commands do not pass
    /\ host' = [host EXCEPT !.at = "poll", !.cmd = c, !.cid = c.cid]
    /\ drive' = [drive EXCEPT !.held = @ \union {c}]
    /\ ret' = NoRet
    /\ UNCHANGED <<cq, taken, timeouts>>

\* epi_nvme_write: the data goes to the buffer, then the command to the drive.
Write(l, d) ==
    /\ Submit("write", l)
    /\ buf' = d
    /\ acked' = [acked EXCEPT ![l] = None]
    /\ flushed' = flushed \ {l}

Read(l) == Submit("read", l) /\ UNCHANGED <<buf, acked, flushed>>

Flush == Submit("flush", None) /\ UNCHANGED <<buf, acked, flushed>>

WrapKeepsPhase(h) ==                             \* mutant: phase not toggled
    [head |-> (h.head + 1) % Size, phase |-> h.phase]
Advance(h) ==
    [head |-> (h.head + 1) % Size,
     phase |-> IF h.head + 1 = Size THEN 1 - h.phase ELSE h.phase]

StatusIgnored(e) == TRUE                         \* mutant: every completion is a success
StatusOk(e) == e.ok

\* What a command that returned 0 lets its caller assume.
Returned(c, ok) ==
    /\ ret' = [op |-> c.op, lba |-> c.lba, ok |-> ok]
    /\ acked' = IF ok /\ c.op = "write" THEN [acked EXCEPT ![c.lba] = buf] ELSE acked
    /\ flushed' = IF ok /\ c.op = "flush" THEN {l \in Lbas : acked[l] # None} ELSE flushed

PollIgnoresPhase ==                              \* mutant: whatever is at cq_head
    LET e == cq[host.head] a == Advance(host) IN
    /\ host.at = "poll"
    /\ host' = [host EXCEPT !.at = "idle", !.cmd = None, !.head = a.head, !.phase = a.phase]
    /\ taken' = e.ok
    /\ Returned(host.cmd, StatusOk(e))
    /\ UNCHANGED <<cq, drive, buf, timeouts>>
\* A completion with the right phase ends the wait, whatever command it is of.
Poll ==
    LET e == cq[host.head] a == Advance(host) IN
    /\ host.at = "poll"
    /\ e.phase = host.phase
    /\ host' = [host EXCEPT !.at = "idle", !.cmd = None, !.head = a.head, !.phase = a.phase]
    /\ taken' = e.ok
    /\ Returned(host.cmd, StatusOk(e))
    /\ UNCHANGED <<cq, drive, buf, timeouts>>

Timeout ==
    /\ host.at = "poll"
    /\ cq[host.head].phase # host.phase
    /\ timeouts < MaxTimeouts
    /\ timeouts' = timeouts + 1
    /\ host' = [host EXCEPT !.at = "idle", !.cmd = None]
    /\ ret' = NoRet
    /\ UNCHANGED <<cq, drive, buf, acked, flushed, taken>>

-----------------------------------------------------------------------------
(* The drive (external): executes a command it holds and posts a completion. *)

Full == (drive.tail + 1) % Size = host.head

Post(c) ==
    [drive EXCEPT
        !.held = @ \ {c},
        !.tail = (@ + 1) % Size,
        !.phase = IF drive.tail + 1 = Size THEN 1 - @ ELSE @]

Execute(c) ==
    [Post(c) EXCEPT
        !.cache = IF c.op = "write" THEN [@ EXCEPT ![c.lba] = buf] ELSE @,
        !.nand  = IF c.op = "flush" THEN drive.cache ELSE @]

Complete(c, ok) ==
    /\ c \in drive.held
    /\ ~Full
    /\ drive' = IF ok THEN Execute(c) ELSE Post(c)
    /\ buf' = IF ok /\ c.op = "read" THEN drive.cache[c.lba] ELSE buf
    /\ cq' = [cq EXCEPT ![drive.tail] = [phase |-> drive.phase, ok |-> ok]]
    /\ UNCHANGED <<host, ret, acked, flushed, taken, timeouts>>

-----------------------------------------------------------------------------
Call ==
    \/ \E l \in Lbas, d \in Data : Write(l, d)
    \/ \E l \in Lbas : Read(l)
    \/ Flush
Drive == \E c \in drive.held, ok \in BOOLEAN : Complete(c, ok)

NvNext == Call \/ Poll \/ Timeout \/ Drive

NvSpec == NvInit /\ [][NvNext]_nvVars

-----------------------------------------------------------------------------
(* Properties *)

\* Every field of driver, drive and queue keeps its type.
NvTypeOK ==
    /\ host \in [at : {"idle", "poll"}, cmd : Command \union {None}, head : CqSlots,
                 phase : Bit, cid : Cids \union {0}]
    /\ host.at = "poll" => host.cmd \in Command
    /\ cq \in [CqSlots -> Entry]
    /\ drive \in [held : SUBSET Command, tail : CqSlots, phase : Bit,
                  cache : [Lbas -> Sectors], nand : [Lbas -> Sectors]]
    /\ buf \in Sectors
    /\ acked \in [Lbas -> Sectors \union {None}] /\ flushed \subseteq Lbas
    /\ ret \in {NoRet} \union [op : Ops, lba : Lbas \union {None}, ok : BOOLEAN]
    /\ taken \in BOOLEAN \union {None}
    /\ timeouts \in 0 .. MaxTimeouts

\* The completions posted and not yet taken, oldest first.
Posted == [i \in 1 .. ((drive.tail - host.head) % Size) |->
              cq[(host.head + i - 1) % Size].ok]

\* The phase bits alone tell the driver what the two indices would: the entry
\* at cq_head is new exactly if the drive has posted it, over any number of
\* turns of the ring (nvme.c:125, "Check phase bit").
PhaseTellsNew == cq[host.head].phase = host.phase <=> Posted # <<>>

\* Why: slots below the drive's tail were written on its present turn, the others
\* on the one before, and the driver is less than a turn behind.
LapInv ==
    /\ \A s \in CqSlots :
          cq[s].phase = IF s < drive.tail THEN drive.phase ELSE 1 - drive.phase
    /\ IF host.phase = drive.phase THEN host.head <= drive.tail ELSE drive.tail < host.head

\* No completion is lost, taken twice or taken out of order.
Completions == INSTANCE BoundedFifo WITH
    Messages <- BOOLEAN, Capacity <- Size - 1, Nothing <- None,
    queue <- Posted, received <- taken
CompletionsFifo == Completions!Spec

\* A command is with the drive, in the queue or taken; each command given up
\* leaves one more completion behind that some later command will take.
Lag == Cardinality(drive.held) + Len(Posted) = timeouts + IF host.at = "poll" THEN 1 ELSE 0

\* nvme.c:511-516, main_x86.c:3292-3294, "FLUSH commits it to NAND, so returning
\* 1 means DURABLE": after a write that returned 0 and a flush that returned 0
\* the sector has those contents on the media.
FlushedIsDurable == \A l \in flushed : drive.nand[l] = acked[l]

\* That is so, and a read that returned 0 leaves in the buffer what the last
\* acknowledged write put into the sector, as long as no command was given up.
ReadsBack ==
    ret.op = "read" /\ ret.ok /\ acked[ret.lba] # None => buf = acked[ret.lba]
InStep == timeouts = 0 => FlushedIsDurable /\ ReadsBack

\* The driver is behind by exactly the commands it gave up, and by none until then.
QueueInStep == Lag /\ InStep
==============================================================================
