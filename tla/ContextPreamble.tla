--------------------------- MODULE ContextPreamble ---------------------------
(***************************************************************************)
(* The retrieval preamble in the shared context pool (ai/shared_context.c):   *)
(* PA packs what it recalls for a query, or clears what was there, and sends  *)
(* the query; PB takes the preamble the pool holds when it starts to answer   *)
(* (handle_query of inference_server.c).  There is no lock and the bytes are  *)
(* rewritten in place: every access to the page is a step, and a preamble is  *)
(* in two halves.                                                            *)
(***************************************************************************)
EXTENDS Integers, Sequences

CONSTANTS Preambles,   \* what retrieval may find for a query
          Empty,       \* the bytes of a pool that never held a preamble
          SctxQueue,   \* queries the request ring holds
          QueryMod     \* values of a query's number, 2^16

ASSUME PreambleAssumption ==
    /\ SctxQueue \in Nat \ {0} /\ QueryMod \in Nat /\ QueryMod > SctxQueue + 1
    /\ Empty \notin Preambles

VARIABLES pbytes, plen,      \* the preamble, its length word (0, or 1 for a whole one)
          qa, qno, qpre,     \* PA: where it is, its query's number and preamble
          squeue,            \* the request ring
          qb, qjob, qgot,    \* PB: where it is, its query, what it has read
          srep               \* the replies PA has not read: query number and prompt

preVars  == <<pbytes, plen, qa, qno, qpre, squeue, qb, qjob, qgot, srep>>

PreInit ==
    /\ pbytes = <<Empty, Empty>> /\ plen = 0
    /\ qa = "idle" /\ qno = 0 /\ qpre = Empty
    /\ squeue = <<>> /\ qb = "idle" /\ qjob = 0 /\ qgot = <<Empty, Empty>>
    /\ srep = <<>>

------------------------------------------------------------------------------
(* PA: retrieval packs the preamble, or clears the one before, then the query is sent. *)

Cleared == 0

\* A query PB has not answered is not one of 2^16 queries ago.
Unanswered == {squeue[i] : i \in DOMAIN squeue} \cup (IF qb = "idle" THEN {} ELSE {qjob})
NextNo == (qno + 1) % QueryMod

PackBegin ==
    /\ qa = "idle" /\ NextNo \notin Unanswered
    /\ qno' = NextNo
    /\ \E p \in Preambles \cup {Empty} :
         /\ qpre' = p
         /\ qa' = IF p = Empty THEN "len" ELSE "bytes1"
    /\ UNCHANGED <<pbytes, plen, squeue, qb, qjob, qgot, srep>>

PackBytes(at, i, next) ==
    /\ qa = at /\ qa' = next
    /\ pbytes' = [pbytes EXCEPT ![i] = qpre]
    /\ UNCHANGED <<plen, qno, qpre, squeue, qb, qjob, qgot, srep>>

PackFirst == PackBytes("bytes1", 1, "bytes2")
PackLast  == PackBytes("bytes2", 2, "len")

PackLen ==
    /\ qa = "len" /\ qa' = "send"
    /\ plen' = IF qpre = Empty THEN Cleared ELSE 1
    /\ UNCHANGED <<pbytes, qno, qpre, squeue, qb, qjob, qgot, srep>>

\* The drain before the send, and the send; a full ring drops the query.
SendQuery ==
    /\ qa = "send" /\ qa' = "wait" /\ srep' = <<>>
    /\ squeue' = IF Len(squeue) < SctxQueue THEN Append(squeue, qno) ELSE squeue
    /\ UNCHANGED <<pbytes, plen, qno, qpre, qb, qjob, qgot>>

Mine(r) == r.no = qno

\* A reply with another number is of a query that was given up: discarded.
TakeReply ==
    /\ qa = "wait" /\ srep # <<>>
    /\ IF Mine(Head(srep)) THEN qa' = "answered" /\ UNCHANGED srep
                           ELSE qa' = "wait" /\ srep' = Tail(srep)
    /\ UNCHANGED <<pbytes, plen, qno, qpre, squeue, qb, qjob, qgot>>

\* PA uses the answer, or gives the query up.
NextQuery ==
    /\ qa = "answered" /\ qa' = "idle" /\ srep' = Tail(srep)
    /\ UNCHANGED <<pbytes, plen, qno, qpre, squeue, qb, qjob, qgot>>

GiveUp ==
    /\ qa = "wait" /\ qa' = "idle"
    /\ UNCHANGED <<pbytes, plen, qno, qpre, squeue, qb, qjob, qgot, srep>>

(* PB: the prompt is the preamble the pool holds when the query is taken up. *)

TakeQuery ==
    /\ qb = "idle" /\ squeue # <<>>
    /\ qjob' = Head(squeue) /\ squeue' = Tail(squeue)
    /\ qb' = "len" /\ qgot' = <<Empty, Empty>>
    /\ UNCHANGED <<pbytes, plen, qa, qno, qpre, srep>>

GetLen ==
    /\ qb = "len"
    /\ qb' = IF plen = 0 THEN "answer" ELSE "bytes1"
    /\ UNCHANGED <<pbytes, plen, qa, qno, qpre, squeue, qjob, qgot, srep>>

GetBytes(at, i, next) ==
    /\ qb = at /\ qb' = next
    /\ qgot' = [qgot EXCEPT ![i] = pbytes[i]]
    /\ UNCHANGED <<pbytes, plen, qa, qno, qpre, squeue, qjob, srep>>

GetFirst == GetBytes("bytes1", 1, "bytes2")
GetLast  == GetBytes("bytes2", 2, "answer")

Answer ==
    /\ qb = "answer" /\ qb' = "idle"
    /\ srep' = Append(srep, [no |-> qjob, prompt |-> qgot])
    /\ UNCHANGED <<pbytes, plen, qa, qno, qpre, squeue, qjob, qgot>>

------------------------------------------------------------------------------
PreNext == PackBegin \/ PackFirst \/ PackLast \/ PackLen \/ SendQuery \/ TakeReply
           \/ NextQuery \/ GiveUp \/ TakeQuery \/ GetLen \/ GetFirst \/ GetLast \/ Answer

PreSpec == PreInit /\ [][PreNext]_preVars

------------------------------------------------------------------------------
PreTypeOK ==
    /\ plen \in {0, 1} /\ {qno, qjob} \subseteq 0 .. (QueryMod - 1)
    /\ {pbytes, qgot} \subseteq [1 .. 2 -> Preambles \cup {Empty}]
    /\ squeue \in Seq(0 .. (QueryMod - 1)) /\ Len(squeue) <= SctxQueue
    /\ qpre \in Preambles \cup {Empty}
    /\ srep \in Seq([no : 0 .. (QueryMod - 1), prompt : [1 .. 2 -> Preambles \cup {Empty}]])
    /\ qa \in {"idle", "bytes1", "bytes2", "len", "send", "wait", "answered"}
    /\ qb \in {"idle", "len", "bytes1", "bytes2", "answer"}

\* An answer PA uses was generated from the preamble PA packed for that query, whole, and
\* from none when retrieval found nothing: a query that PB takes up late may read a preamble
\* that is being rewritten for the next one, and its answer is then never used.
OwnPreamble == qa = "answered" => Head(srep).prompt = <<qpre, qpre>>
=============================================================================
