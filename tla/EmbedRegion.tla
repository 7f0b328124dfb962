----------------------------- MODULE EmbedRegion -----------------------------
(***************************************************************************)
(* The embedding transport between PA and PB: a two-page shared region      *)
(* (ipc/embed_region.h), pa_embed_request of main_x86.c and the MSG_EMBED   *)
(* case of inference_server.c.  The rings carry the request and a completion *)
(* that says only "done"; the vector and the header that says whose it is    *)
(* are in the region, which PA and PB access without a lock.                *)
(*                                                                         *)
(* A vector is the text it was made from, in two halves so that a copy can   *)
(* overlap a write.  The rings are FIFO (ShmemRing).                         *)
(***************************************************************************)
EXTENDS Integers, Sequences

CONSTANTS Texts,        \* the texts PA asks about
          NoText,       \* what the page holds before the first answer
          EmbedSeqMod,  \* values of g_embed_seq, 2^16
          EmbedQueue    \* requests the request ring holds

ASSUME EmbedAssumption ==
    /\ EmbedSeqMod \in Nat /\ EmbedQueue \in Nat \ {0} /\ EmbedSeqMod > EmbedQueue + 2
    /\ NoText \notin Texts

VARIABLES hdr,      \* the control page: seq, status, len, ready
          vec,      \* the vector page, its two halves
          ereq,     \* the request ring
          edone,    \* completions in the response ring
          er,       \* where PA is in pa_embed_request
          eseq,     \* g_embed_seq
          etext,    \* the text of the request PA is making
          ecopy,    \* what PA has copied to the caller's buffer
          es,       \* where PB is in MSG_EMBED
          ejob      \* the request it serves, and whether it can embed its text

erPA   == <<er, eseq, etext, ecopy>>
erPB   == <<es, ejob>>
erVars == <<hdr, vec, ereq, edone, erPA, erPB>>

Requests == [seq : 0 .. (EmbedSeqMod - 1), text : Texts]

ErInit ==
    /\ hdr = [seq |-> 0, status |-> "ERR", len |-> 0, ready |-> FALSE]
    /\ vec = <<NoText, NoText>>
    /\ ereq = <<>> /\ edone = 0
    /\ er = "idle" /\ eseq = 0 /\ etext = NoText /\ ecopy = <<NoText, NoText>>
    /\ es = "idle" /\ ejob = [seq |-> 0, text |-> NoText, status |-> "OK"]

------------------------------------------------------------------------------
(* PA: one request at a time. *)

Outstanding == {ereq[i].seq : i \in DOMAIN ereq} \cup (IF es = "idle" THEN {} ELSE {ejob.seq})

\* Mutant of NewSeq: the number does not wrap at 16 bits.
NewSeqWide == eseq + 1

NewSeq == (eseq + 1) % EmbedSeqMod

\* The request that PB serves or will serve is not one of 2^16 requests ago: PA counts
\* three misses and replaces a PB that serves nothing long before (PbLink).
PaAsk ==
    /\ er = "idle" /\ NewSeq \notin Outstanding
    /\ eseq' = NewSeq
    /\ \E t \in Texts : etext' = t
    /\ er' = "clear" /\ ecopy' = <<NoText, NoText>>
    /\ UNCHANGED <<hdr, vec, ereq, edone, erPB>>

PaClear ==
    /\ er = "clear" /\ hdr' = [hdr EXCEPT !.ready = FALSE]
    /\ er' = "drain"
    /\ UNCHANGED <<vec, ereq, edone, eseq, etext, ecopy, erPB>>

\* The stale completions in the response ring.
PaDrain ==
    /\ er = "drain" /\ edone' = 0
    /\ er' = "send"
    /\ UNCHANGED <<hdr, vec, ereq, eseq, etext, ecopy, erPB>>

PaSend ==
    /\ er = "send"
    /\ IF Len(ereq) < EmbedQueue
       THEN ereq' = Append(ereq, [seq |-> eseq, text |-> etext]) /\ er' = "wait"
       ELSE UNCHANGED ereq /\ er' = "idle"
    /\ UNCHANGED <<hdr, vec, edone, eseq, etext, ecopy, erPB>>

\* wait_for_response looks at the type of the message, not at its number.
PaDone ==
    /\ er = "wait" /\ edone > 0 /\ edone' = edone - 1
    /\ er' = "ready"
    /\ UNCHANGED <<hdr, vec, ereq, eseq, etext, ecopy, erPB>>

\* The poll budget is spent: PB is busy, wedged, or only slow.
PaEmbedTimeout ==
    /\ er = "wait" /\ er' = "idle"
    /\ UNCHANGED <<hdr, vec, ereq, edone, eseq, etext, ecopy, erPB>>

\* A field of the header does not say this is the answer: -4 or -5.
PaCheck(at, usable, next) ==
    /\ er = at /\ er' = IF usable THEN next ELSE "idle"
    /\ UNCHANGED <<hdr, vec, ereq, edone, eseq, etext, ecopy, erPB>>

\* Mutant of SeqMatches: the staleness check is dropped.
SeqAny == hdr.seq \in 0 .. (EmbedSeqMod - 1)

SeqMatches == hdr.seq = eseq

PaReady  == PaCheck("ready", hdr.ready, "status")
PaStatus == PaCheck("status", hdr.ready /\ hdr.status = "OK", "seq")
PaSeq    == PaCheck("seq", SeqMatches, "len")
PaLen    == PaCheck("len", hdr.len = 1, "copy1")

\* memcpy of the vector to the caller, in two halves.
PaCopy(at, i, next) ==
    /\ er = at /\ er' = next
    /\ ecopy' = [ecopy EXCEPT ![i] = vec[i]]
    /\ UNCHANGED <<hdr, vec, ereq, edone, eseq, etext, erPB>>

PaCopy1 == PaCopy("copy1", 1, "copy2")
PaCopy2 == PaCopy("copy2", 2, "have")

\* The caller uses the vector and PA goes on.
PaUse ==
    /\ er = "have" /\ er' = "idle"
    /\ UNCHANGED <<hdr, vec, ereq, edone, eseq, etext, ecopy, erPB>>

------------------------------------------------------------------------------
(* PB: one message at a time, the header after the vector, ready last. *)

\* PB can embed the text or it cannot (the embedder is not there, or the text has no token:
\* st = EMBED_STATUS_ERR).  Then it goes straight to the header: the vector page is not written.
PbTake ==
    /\ es = "idle" /\ ereq # <<>>
    /\ \E o \in {"OK", "ERR"} :
          /\ ejob' = [seq |-> Head(ereq).seq, text |-> Head(ereq).text, status |-> o]
          /\ es' = IF o = "OK" THEN "vec1" ELSE "seq"
    /\ ereq' = Tail(ereq)
    /\ UNCHANGED <<hdr, vec, edone, erPA>>

PbVec(at, i, next) ==
    /\ es = at /\ es' = next
    /\ vec' = [vec EXCEPT ![i] = ejob.text]
    /\ UNCHANGED <<hdr, ereq, edone, ejob, erPA>>

PbVec1 == PbVec("vec1", 1, "vec2")
PbVec2 == PbVec("vec2", 2, "seq")

PbSet(at, h, next) ==
    /\ es = at /\ es' = next
    /\ hdr' = h
    /\ UNCHANGED <<vec, ereq, edone, ejob, erPA>>

EchoedSeq == ejob.seq

PbSeq    == PbSet("seq", [hdr EXCEPT !.seq = EchoedSeq], "status")
PbStatus == PbSet("status", [hdr EXCEPT !.status = ejob.status], "len")
PbLen    == PbSet("len", [hdr EXCEPT !.len = IF ejob.status = "OK" THEN 1 ELSE 0], "ready")
PbReady  == PbSet("ready", [hdr EXCEPT !.ready = TRUE], "done")

\* The completion; with the ring full it is lost.
PbDone ==
    /\ es = "done" /\ es' = "idle"
    /\ edone' = IF edone < EmbedQueue THEN edone + 1 ELSE edone
    /\ UNCHANGED <<hdr, vec, ereq, ejob, erPA>>

\* pa_restart_pb: both rings are initialised again and PB starts anew; the page stays.
PbRestart ==
    /\ er = "idle"
    /\ ereq' = <<>> /\ edone' = 0 /\ es' = "idle"
    /\ UNCHANGED <<hdr, vec, ejob, erPA>>

------------------------------------------------------------------------------
ErNext ==
    \/ PaAsk \/ PaClear \/ PaDrain \/ PaSend \/ PaDone \/ PaEmbedTimeout
    \/ PaReady \/ PaStatus \/ PaSeq \/ PaLen \/ PaCopy1 \/ PaCopy2 \/ PaUse
    \/ PbTake \/ PbVec1 \/ PbVec2 \/ PbSeq \/ PbStatus \/ PbLen \/ PbReady \/ PbDone
    \/ PbRestart

ErSpec == ErInit /\ [][ErNext]_erVars

------------------------------------------------------------------------------
ErTypeOK ==
    /\ hdr \in [seq : 0 .. (EmbedSeqMod - 1), status : {"OK", "ERR"}, len : {0, 1}, ready : BOOLEAN]
    /\ {vec, ecopy} \subseteq [1 .. 2 -> Texts \cup {NoText}]
    /\ ereq \in Seq(Requests) /\ Len(ereq) <= EmbedQueue /\ edone \in 0 .. EmbedQueue
    /\ er \in {"idle", "clear", "drain", "send", "wait", "ready", "status", "seq", "len",
              "copy1", "copy2", "have"}
    /\ eseq \in 0 .. (EmbedSeqMod - 1) /\ etext \in Texts \cup {NoText}
    /\ es \in {"idle", "vec1", "vec2", "seq", "status", "len", "ready", "done"}
    /\ ejob \in [seq : 0 .. (EmbedSeqMod - 1), text : Texts \cup {NoText}, status : {"OK", "ERR"}]

\* PB could not embed the text of the request PA is making.
FailedOwn == ejob.seq = eseq /\ ejob.status = "ERR"

\* The vector a caller is given is a whole one, never one that PB was writing, and it is of
\* the text it asked about: a vector of an earlier request, which PB answered late, is given
\* only when PB fails the very request PA is making.  (PA reads the status before the number
\* and PB writes them the other way round: woken by the late completion, PA reads the status
\* of that answer, then PB puts the new number before it.  embed_region.h has PA refuse "a
\* result whose seq belongs to the PREVIOUS request".)
OwnVector == er = "have" => \E t \in Texts : ecopy = <<t, t>> /\ (t = etext \/ FailedOwn)
=============================================================================
