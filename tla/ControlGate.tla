----------------------------- MODULE ControlGate -----------------------------
(***************************************************************************)
(* What becomes of an accepted control-IN query: pa_ctrl_gate of main_x86.c, *)
(* from the query shield over routing, veto, recall and PB to the five exits  *)
(* of ai/ctrl_exit.c, with the episodic write and the embedding that follow.  *)
(*                                                                         *)
(* PA is one thread, PB answers when it likes: also after PA has given up.    *)
(* PB sends the stop reason of a generation and then its text in chunks, each  *)
(* with the next number.  What a query says is what the shield, the router,   *)
(* the veto and the memory make of it, chosen when it is looked at.           *)
(*                                                                         *)
(* Whose a vector, a request, a message or a latch is, is history: "this"      *)
(* turn's or an "earlier" one's (another lane's included).                    *)
(***************************************************************************)
EXTENDS Integers, Sequences

CONSTANTS GateMod,     \* query numbers the model tells apart, of 2^16
          GateQueue,   \* messages the request ring holds
          GateRing,    \* messages the response ring holds
          Chunks,      \* most chunks of one answer
          PollMax,     \* polls of one window, poll_max
          WindowCap    \* windows a wait may be extended by, PB_TICK_WINDOW_CAP; 0 without ticks

ASSUME GateAssumption ==
    /\ {GateMod, GateQueue, GateRing, Chunks, PollMax} \subseteq Nat \ {0}
    /\ WindowCap \in Nat

VARIABLES g,          \* where PA is in the gate
          cseq,       \* the number of the query in hand, from g_ctrl_route_seq
          route,      \* its class
          local,      \* served_locally
          qvec,       \* g_ctrl_qvec_valid and g_ctrl_qvec128: whose vector
          vused,      \* whose vector the semantic lane compared with
          pre, kind,  \* the preamble packed and crk_kind
          got, gfault, empty,     \* got, faulted, roff = 0
          polls, windows, moved,  \* polls, tick_windows, the tick differs from tick_win_start
          whose,      \* history: whose the first chunk is, and what came with it
          stop, stopof,           \* g_infer_last_stop; history: whose it is
          pbup,       \* PB_DISPATCH_OK
          told, stored, jact,     \* the reply, the record and the audit of this query
          vecable,    \* g_ctrl_last_vecable and g_ctrl_last_q: whose
          vecof,      \* whose vector was stored for it
          contact,    \* history: what the last acknowledgement to the hang detector was
          gq, gring,  \* the request ring, and the response ring
          gen         \* PB's generation

paState  == <<route, local, qvec, vused, pre, kind, gfault>>
waitVars == <<got, empty, whose, polls, windows, moved>>
stopVars == <<stop, stopof>>
outVars  == <<told, stored, jact, vecable, vecof, contact>>
pbVars   == <<gq, gring, gen>>
gateVars == <<g, cseq, paState, waitVars, stopVars, pbup, outVars, pbVars>>

Numbers == 0 .. (GateMod - 1)

\* Mutant of NextNumber: the number is not wrapped.
NextNumberWide(n) == n + 1

NextNumber(n) == (n + 1) % GateMod

\* PB generates ("run"), then sends the chunks left; marked: its stop reason was sent.
NoGen == [at |-> "none", no |-> 0, cur |-> FALSE, marked |-> FALSE, empty |-> FALSE, left |-> 0]

GateInit ==
    /\ g = "idle" /\ cseq = 0
    /\ route = "none" /\ local = FALSE /\ qvec = "none" /\ vused = "none"
    /\ pre = FALSE /\ kind = "none" /\ got = FALSE /\ gfault = FALSE /\ empty = TRUE
    /\ polls = 0 /\ windows = 0 /\ moved = FALSE /\ whose = "none"
    /\ stop = "UNKNOWN" /\ stopof = "none" /\ pbup = TRUE
    /\ told = "none" /\ stored = "none" /\ jact = "none"
    /\ vecable = "none" /\ vecof = "none" /\ contact = "none"
    /\ gq = <<>> /\ gring = <<>> /\ gen = NoGen

Request(k, n, mine) == [kind |-> k, no |-> n, cur |-> mine]

\* What the request ring is after a request for PB: it may be full.
Asked(r) == IF Len(gq) < GateQueue THEN Append(gq, r) ELSE gq

\* Nothing of this turn is of the next one.
Older(mark) == IF mark = "this" THEN "earlier" ELSE mark
OlderAll(s) == [i \in DOMAIN s |-> [s[i] EXCEPT !.cur = FALSE]]

------------------------------------------------------------------------------
(* Before PB. *)

\* An accepted query reaches the gate; PB may have been given up.
Accept ==
    /\ g = "idle" /\ g' = "shield"
    /\ pbup' \in BOOLEAN
    /\ UNCHANGED <<cseq, paState, waitVars, stopVars, outVars, pbVars>>

\* Between two queries the other lanes send requests of their own, with numbers of their own,
\* and read the ring; one they gave up on stays with PB.  Inference lanes latch stop reasons.
OtherLane ==
    /\ g = "idle" /\ gring' = <<>>
    /\ UNCHANGED stopVars \/ (stop' \in {"CAP", "ENDED"} /\ stopof' = "earlier")
    /\ \/ UNCHANGED gq
       \/ \E n \in Numbers : gq' = Asked(Request("query", n, FALSE))
       \/ gq' = Asked(Request("beat", 0, FALSE))
    /\ UNCHANGED <<g, cseq, paState, waitVars, pbup, outVars, gen>>

\* Arm 1: audited and answered with the label of the refusal, never stored.
Refuse ==
    /\ g = "shield" /\ g' = "done"
    /\ jact' = "BLOCKED" /\ told' = "refused"
    /\ UNCHANGED <<cseq, paState, waitVars, stopVars, pbup, stored, vecable, vecof, contact, pbVars>>

Stash == "none"

Classify ==
    /\ g = "shield" /\ qvec' = Stash
    /\ route' \in {"SYSFACTS", "DECLINE", "INFER"}
    /\ g' = IF route' = "SYSFACTS" /\ pbup THEN "veto" ELSE "serve"
    /\ UNCHANGED <<cseq, local, vused, pre, kind, gfault, waitVars, stopVars, pbup, outVars, pbVars>>

\* pa_embed_request (EmbedRegion): the ring is drained, and an embedding that is waited for
\* comes after all PB was asked before; one given up may be left with PB.
Embeds      == gq = <<>> /\ gen.at = "none" /\ gring' = <<>> /\ UNCHANGED <<gq, gen>>
EmbedsNot   == gring' = <<>> /\ gq' \in {gq, Asked(Request("beat", 0, FALSE))} /\ UNCHANGED gen

\* The veto embeds the query: it may send it to PB, and it leaves its vector behind.
Veto ==
    /\ g = "veto" /\ g' = "serve"
    /\ \/ UNCHANGED <<qvec, route>> /\ (EmbedsNot \/ UNCHANGED pbVars)
       \/ qvec' = "this" /\ route' \in {"SYSFACTS", "INFER"} /\ Embeds
    /\ UNCHANGED <<cseq, local, vused, pre, kind, gfault, waitVars, stopVars, pbup, outVars>>

\* Answered from PA's own state (or declined, also when the fact is not mapped).
ServeLocal ==
    /\ g = "serve" /\ route # "INFER"
    /\ route' \in (IF route = "SYSFACTS" THEN {"SYSFACTS", "DECLINE"} ELSE {"DECLINE"})
    /\ local' = TRUE /\ got' = TRUE /\ empty' = FALSE /\ g' = "exit"
    /\ UNCHANGED <<cseq, qvec, vused, pre, kind, gfault, whose, polls, windows, moved, stopVars,
                   pbup, outVars, pbVars>>

\* Arm 2: PB was given up.
Degraded ==
    /\ g = "serve" /\ route = "INFER" /\ ~pbup
    /\ stored' = "ERROR" /\ jact' = "FAIL" /\ told' = "degraded" /\ vecable' = "none"
    /\ g' = "done"
    /\ UNCHANGED <<cseq, paState, waitVars, stopVars, pbup, vecof, contact, pbVars>>

\* The duty window is opened (its accounting is left out) and the ring is drained.
OpenWindow ==
    /\ g = "serve" /\ route = "INFER" /\ pbup
    /\ gring' = <<>> /\ g' = "recall"
    /\ UNCHANGED <<cseq, paState, waitVars, stopVars, pbup, outVars, gq, gen>>

------------------------------------------------------------------------------
(* Recall, and the wait for PB. *)

\* The exact lane: a record of this question; its answer may hold no whole sentence.
RecallExact ==
    /\ g = "recall" /\ g' = "send"
    /\ pre' = TRUE /\ kind' = "EXACT"
    /\ UNCHANGED <<cseq, route, local, qvec, vused, gfault, waitVars, stopVars, pbup, outVars, pbVars>>

KindOf(packed) == IF packed THEN "SEMANTIC" ELSE "none"

\* The semantic lane, with the vector of the veto or a new one.
RecallSemantic ==
    /\ g = "recall" /\ g' = "send"
    /\ \/ qvec # "none" /\ vused' = qvec /\ UNCHANGED pbVars
       \/ qvec = "none" /\ vused' = "this" /\ Embeds
    /\ pre' \in BOOLEAN /\ kind' = KindOf(pre')
    /\ UNCHANGED <<cseq, route, local, qvec, gfault, waitVars, stopVars, pbup, outVars>>

\* Nothing recalled: no match, no store, or the embedding failed.
RecallNothing ==
    /\ g = "recall" /\ g' = "send"
    /\ UNCHANGED pbVars \/ (qvec = "none" /\ EmbedsNot)
    /\ UNCHANGED <<cseq, paState, waitVars, stopVars, pbup, outVars>>

\* The query gets the next number, the latch of the stop reason is cleared; a full ring takes
\* no query.
GateSend ==
    /\ g = "send" /\ g' = "wait"
    /\ cseq' = NextNumber(cseq)
    /\ stop' = "UNKNOWN" /\ stopof' = "none"
    /\ gq' = Asked(Request("query", cseq', TRUE))
    /\ UNCHANGED <<paState, waitVars, pbup, outVars, gring, gen>>

\* What the wait counts is not looked at after it.
WaitOver == polls' = 0 /\ windows' = 0 /\ moved' = FALSE

Owner(m) == IF m.cur THEN "this" ELSE "earlier"

\* Mutant of Latch: only the first stop reason after the send is latched.
LatchFirst(m) ==
    IF stop = "UNKNOWN" THEN stop' = m.stop /\ stopof' = Owner(m) ELSE UNCHANGED stopVars

\* A stop reason is latched, whosever it is.
Latch(m) == stop' = m.stop /\ stopof' = Owner(m)

\* Text is appended to the answer; whose it is goes by the first chunk, "bare" if PB could not
\* send the stop reason before it, and "spoilt" if another's text follows this query's own.
Appended(m) ==
    /\ empty' = (empty /\ m.empty)
    /\ whose' = IF ~got THEN IF m.cur /\ ~m.marked THEN "bare" ELSE Owner(m)
                ELSE IF whose \in {"this", "bare"} /\ ~m.cur THEN "spoilt" ELSE whose

\* A message in the wait: the first chunk must carry this query's number.
GateReceive ==
    /\ g = "wait" /\ gring # <<>> /\ gring' = Tail(gring)
    /\ LET m == Head(gring) IN
       \/ m.type = "stats" /\ Latch(m) /\ UNCHANGED <<g, waitVars>>
       \/ /\ m.type = "text" /\ m.no = cseq
          /\ got' = TRUE /\ Appended(m) /\ g' = "drain" /\ WaitOver /\ UNCHANGED stopVars
       \/ /\ m.type = "other" \/ (m.type = "text" /\ m.no # cseq)
          /\ UNCHANGED <<g, waitVars, stopVars>>
    /\ UNCHANGED <<cseq, paState, pbup, outVars, gq, gen>>

\* The ring is empty: one more poll of the window.
GatePoll ==
    /\ g = "wait" /\ gring = <<>>
    /\ polls + 1 < PollMax /\ polls' = polls + 1
    /\ UNCHANGED <<g, cseq, paState, got, empty, whose, windows, moved, stopVars, pbup, outVars, pbVars>>

\* pb_wait_decide: the tick moved, and the wait may be extended once more.
PbWaitDecide == IF moved /\ windows < WindowCap THEN "EXTEND" ELSE "TIMEOUT"

\* Mutant of WindowsUsed: an extension is not counted.
WindowsUsedNot == windows

WindowsUsed == windows + 1

WindowEnds == g = "wait" /\ gring = <<>> /\ polls + 1 >= PollMax

GateExtend ==
    /\ WindowEnds /\ PbWaitDecide = "EXTEND"
    /\ windows' = WindowsUsed /\ polls' = 0 /\ moved' = FALSE
    /\ UNCHANGED <<g, cseq, paState, got, empty, whose, stopVars, pbup, outVars, pbVars>>

GateTimeout ==
    /\ WindowEnds /\ PbWaitDecide = "TIMEOUT" /\ g' = "exit" /\ WaitOver
    /\ UNCHANGED <<cseq, paState, got, empty, whose, stopVars, pbup, outVars, pbVars>>

\* pa_fault_check: PB is replaced and its rings are new.
GateFault ==
    /\ g = "wait" /\ gring = <<>> /\ g' = "exit" /\ WaitOver
    /\ gfault' = TRUE
    /\ gq' = <<>> /\ gring' = <<>> /\ gen' = NoGen
    /\ UNCHANGED <<cseq, route, local, qvec, vused, pre, kind, got, empty, whose, stopVars, pbup,
                   outVars>>

\* The rest of the reply: any text that is in the ring, whatever its number, up to a message
\* of another kind or the end of what is there.
GateDrain ==
    /\ g = "drain" /\ gring # <<>> /\ gring' = Tail(gring)
    /\ LET m == Head(gring) IN
       \/ m.type = "stats" /\ Latch(m) /\ UNCHANGED <<g, empty, whose>>
       \/ m.type = "text" /\ Appended(m) /\ UNCHANGED <<g, stopVars>>
       \/ m.type = "other" /\ g' = "exit" /\ UNCHANGED <<empty, whose, stopVars>>
    /\ UNCHANGED <<cseq, paState, got, polls, windows, moved, pbup, outVars, gq, gen>>

GateDrained ==
    /\ g = "drain" /\ gring = <<>> /\ g' = "exit"
    /\ UNCHANGED <<cseq, paState, waitVars, stopVars, pbup, outVars, pbVars>>

------------------------------------------------------------------------------
(* PB: one request at a time; a generation, its stop reason, its text in chunks. *)

paRests == <<g, cseq, paState, got, empty, whose, polls, windows, stopVars, pbup, outVars>>

Message(t, n, mine, mark, e, s) ==
    [type |-> t, no |-> n, cur |-> mine, marked |-> mark, empty |-> e, stop |-> s]

Room == Len(gring) < GateRing

\* A message that does not fit is dropped.
Offered(m) == IF Room THEN Append(gring, m) ELSE gring

Generate ==
    /\ gen.at = "none" /\ gq # <<>> /\ Head(gq).kind = "query"
    /\ gq' = Tail(gq)
    /\ gen' = [NoGen EXCEPT !.at = "run", !.no = Head(gq).no, !.cur = Head(gq).cur]
    /\ UNCHANGED <<paRests, moved, gring>>

\* Without a model a query is answered with an empty text; what is no query with a message.
AnswerAtOnce ==
    /\ gen.at = "none" /\ gq # <<>>
    /\ gq' = Tail(gq)
    /\ gring' = Offered(IF Head(gq).kind = "query"
                        THEN Message("text", Head(gq).no, Head(gq).cur, FALSE, TRUE, "UNKNOWN")
                        ELSE Message("other", 0, FALSE, FALSE, TRUE, "UNKNOWN"))
    /\ UNCHANGED <<paRests, moved, gen>>

\* pb_tick_bump, as PA sees it when it looks: the count is not what it was.
PbTick ==
    /\ gen.at = "run" /\ g = "wait" /\ ~moved
    /\ moved' = TRUE
    /\ UNCHANGED <<paRests, pbVars>>

\* The text may be empty, one message; the stop reason is skipped when the ring is full.
SendStats ==
    /\ gen.at = "run"
    /\ \E s \in {"CAP", "ENDED"} : gring' = Offered(Message("stats", 0, gen.cur, TRUE, TRUE, s))
    /\ \E n \in 1 .. Chunks, e \in BOOLEAN :
          /\ e => n = 1
          /\ gen' = [gen EXCEPT !.at = "send", !.marked = Room, !.empty = e, !.left = n]
    /\ UNCHANGED <<paRests, moved, gq>>

\* A chunk, and the next number for the next.
SendText ==
    /\ gen.at = "send" /\ Room
    /\ gring' = Append(gring, Message("text", gen.no, gen.cur, gen.marked, gen.empty, "UNKNOWN"))
    /\ gen' = IF gen.left = 1 THEN NoGen
              ELSE [gen EXCEPT !.left = gen.left - 1, !.no = NextNumber(gen.no)]
    /\ UNCHANGED <<paRests, moved, gq>>

\* The ring stays full through all retries: the rest is dropped.
SendCut ==
    /\ gen.at = "send" /\ ~Room
    /\ gen' = NoGen
    /\ UNCHANGED <<paRests, moved, gq, gring>>

------------------------------------------------------------------------------
(* The exits: ctrl_exit_decide, and what the gate does with it. *)

\* Mutant of Verdict: an empty response is an answer.
VerdictEmptyAnswers ==
    IF ~got THEN "failed"
    ELSE IF ~local /\ stop \in {"CAP", "KV_FULL"} THEN "truncated" ELSE "answered"

Verdict ==
    IF ~got \/ empty THEN "failed"
    ELSE IF ~local /\ stop \in {"CAP", "KV_FULL"} THEN "truncated" ELSE "answered"

Answered == got /\ ~empty

Acknowledges == got /\ ~local

\* The hang detector is told, then the record is written; the store may refuse it, and
\* only a record of the model's own answer will be recalled.
ExitStore ==
    /\ g = "exit" /\ g' = "reply"
    /\ contact' = IF Acknowledges THEN "ack" ELSE IF ~got /\ ~gfault THEN "miss" ELSE "none"
    /\ \/ /\ stored' = IF ~Answered THEN "ERROR" ELSE IF local THEN "LOCAL" ELSE "OK"
          /\ vecable' = IF stored' = "OK" THEN "this" ELSE "none"
       \/ stored' = "lost" /\ UNCHANGED vecable
    /\ UNCHANGED <<cseq, paState, waitVars, stopVars, pbup, told, jact, vecof, pbVars>>

ExitReply ==
    /\ g = "reply" /\ told' = Verdict
    /\ g' = IF got /\ vecable # "none" THEN "embed" ELSE "tail"
    /\ UNCHANGED <<cseq, paState, waitVars, stopVars, pbup, stored, jact, vecable, vecof, contact, pbVars>>

\* Embed on write, after the reply: the vector of the veto or a new one; it may fail.
ExitEmbed ==
    /\ g = "embed" /\ g' = "tail"
    /\ \/ qvec # "none" /\ vecof' \in {"none", qvec} /\ UNCHANGED pbVars
       \/ qvec = "none" /\ vecof' \in {"none", vecable} /\ Embeds
       \/ qvec = "none" /\ vecof' = "none" /\ EmbedsNot
    /\ vecable' = "none"
    /\ UNCHANGED <<cseq, paState, waitVars, stopVars, pbup, told, stored, jact, contact>>

ExitTail ==
    /\ g = "tail" /\ g' = "done"
    /\ jact' = IF Answered THEN "OK" ELSE "FAIL"
    /\ UNCHANGED <<cseq, paState, waitVars, stopVars, pbup, told, stored, vecable, vecof, contact, pbVars>>

\* The locals go out of scope; the globals stay, and what they hold is an earlier query's.
Return ==
    /\ g = "done" /\ g' = "idle"
    /\ told' = "none" /\ stored' = "none" /\ jact' = "none" /\ vecof' = "none" /\ contact' = "none"
    /\ local' = FALSE /\ vused' = "none" /\ pre' = FALSE /\ kind' = "none" /\ route' = "none"
    /\ got' = FALSE /\ gfault' = FALSE /\ empty' = TRUE /\ whose' = "none"
    /\ qvec' = Older(qvec) /\ vecable' = Older(vecable) /\ stopof' = Older(stopof)
    /\ gq' = OlderAll(gq) /\ gring' = OlderAll(gring) /\ gen' = [gen EXCEPT !.cur = FALSE]
    /\ UNCHANGED <<cseq, polls, windows, moved, stop, pbup>>

\* What PA does with a query once it has it; PB and its faults are not in it.
GateStep ==
    \/ Refuse \/ Classify \/ Veto \/ ServeLocal \/ Degraded \/ OpenWindow
    \/ RecallExact \/ RecallSemantic \/ RecallNothing \/ GateSend
    \/ GateReceive \/ GatePoll \/ GateExtend \/ GateTimeout \/ GateDrain \/ GateDrained
    \/ ExitStore \/ ExitReply \/ ExitEmbed \/ ExitTail

GateNext ==
    \/ GateStep \/ OtherLane \/ Accept \/ Return \/ GateFault
    \/ Generate \/ AnswerAtOnce \/ PbTick \/ SendStats \/ SendText \/ SendCut

\* PA is a thread that is scheduled; PB need not do anything.
GateFair == WF_gateVars(GateStep)
GateSpec == GateInit /\ [][GateNext]_gateVars /\ GateFair

------------------------------------------------------------------------------
(* Type invariant. *)

Stops == {"UNKNOWN", "CAP", "ENDED"}
Marks == {"none", "this", "earlier"}
GateRequests == [kind : {"query", "beat"}, no : Numbers, cur : BOOLEAN]
GateMessages == [type : {"stats", "text", "other"}, no : Numbers, cur : BOOLEAN,
                 marked : BOOLEAN, empty : BOOLEAN, stop : Stops]
Generations  == [at : {"none", "run", "send"}, no : Numbers, cur : BOOLEAN, marked : BOOLEAN,
                 empty : BOOLEAN, left : 0 .. Chunks]

GateTypeOK ==
    /\ g \in {"idle", "shield", "veto", "serve", "recall", "send", "wait", "drain", "exit", "reply",
              "embed", "tail", "done"}
    /\ cseq \in Numbers /\ {qvec, vused, vecable, vecof, stopof} \subseteq Marks
    /\ route \in {"none", "SYSFACTS", "DECLINE", "INFER"}
    /\ {local, pre, got, gfault, empty, moved, pbup} \subseteq BOOLEAN
    /\ kind \in {"none", "EXACT", "SEMANTIC"}
    /\ polls \in 0 .. (PollMax - 1) /\ windows \in 0 .. WindowCap
    /\ whose \in Marks \cup {"bare", "spoilt"} /\ stop \in Stops
    /\ told \in {"none", "refused", "degraded", "failed", "truncated", "answered"}
    /\ stored \in {"none", "OK", "LOCAL", "ERROR", "lost"}
    /\ jact \in {"none", "BLOCKED", "OK", "FAIL"} /\ contact \in {"none", "ack", "miss"}
    /\ gq \in Seq(GateRequests) /\ Len(gq) <= GateQueue
    /\ gring \in Seq(GateMessages) /\ Len(gring) <= GateRing
    /\ gen \in Generations

(* What an operator is told, what the store keeps and what the audit says of one query are
   the same story: the empty response that was answered, stored as an error and audited as
   a failure is the defect ctrl_exit_decide was written against. *)
OneStory ==
    g = "done" =>
        \/ told = "refused" /\ jact = "BLOCKED" /\ stored = "none"
        \/ told \in {"answered", "truncated"} /\ jact = "OK" /\ stored \in {"OK", "LOCAL", "lost"}
        \/ told \in {"degraded", "failed"} /\ jact = "FAIL" /\ stored \in {"ERROR", "lost"}

(* An answer whose first chunk is this query's own is this query's to its last chunk, however
   many old chunks, numbered like its own, PB had still to send; and its mark of truncation is
   what PB said of the generation of this very query, unless PB could not say it.  The stop
   reason is one global latch, written by every lane and by PB's late answers.  An answer PA
   gives itself holds no text of PB and is never marked.
   (A first chunk that is an old one whose number fits is accepted: run link_own.) *)
AnswerOwn ==
    g \in {"tail", "done"} /\ told \in {"answered", "truncated"} =>
        /\ local => told = "answered" /\ whose = "none"
        /\ whose # "spoilt"
        /\ whose = "this" => stopof = "this" /\ (told = "truncated" <=> stop = "CAP")

(* A vector the semantic lane compares with, or the store keeps under a record, is the vector
   of this turn's query: the stash of the veto outlives the turn it was made for. *)
VectorOfThisTurn == "earlier" \notin {vused, vecof}

(* Only an answer of PB itself resets the hang detector: a wedged PB is not hidden by queries
   PA answers on its own, and a fault that was handled is not counted as a silence too. *)
ContactHonest ==
    /\ contact = "ack" => ~local /\ got
    /\ contact = "miss" => ~gfault /\ ~local
    /\ g = "done" /\ told \in {"answered", "truncated"} /\ ~local => contact = "ack"

(* The provenance written with a record says a memory was used exactly when a preamble was
   packed: a record selected whose answer held no whole sentence is not a recall. *)
ProvenanceTrue == g \in {"reply", "embed", "tail", "done"} => (kind # "none" <=> pre)

(* PA comes back from every query, whatever PB does: a PB that holds a query and makes no
   progress, or generates for ever and ticks in every window, does not hold PA in the wait. *)
QueryEnds == g = "shield" ~> g = "done"

\* The exit of a query tells the operator, the store, the audit and the hang detector the
\* same, and what happened.
ExitHonest == OneStory /\ ContactHonest /\ ProvenanceTrue

\* Nothing an earlier query or another lane left behind is added to an answer that begins with
\* this query's own text, gives it its mark of truncation, or is taken for its vector.
ThisTurn == AnswerOwn /\ VectorOfThisTurn
=============================================================================
