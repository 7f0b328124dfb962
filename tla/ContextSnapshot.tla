--------------------------- MODULE ContextSnapshot ---------------------------
(***************************************************************************)
(* The system state in the shared context pool (ai/shared_context.c): PA     *)
(* publishes it under a sequence lock once per iteration, PB reads it when   *)
(* it starts to answer a query (handle_query of inference_server.c).  Every  *)
(* access to the page is a step.  A snapshot is two of its fields, each the  *)
(* number of the publication it is from.                                     *)
(***************************************************************************)
EXTENDS Integers

CONSTANT Versions    \* publications the sequence word tells apart, 2^31

ASSUME SnapshotAssumption == Versions \in Nat /\ Versions > 1

VARIABLES sseq, sfield,      \* the sequence word and the fields it guards
          sw,                \* PA's step in sctx_publish_state
          sr, sv1, sout,     \* PB's step in sctx_read_state, its v1 and out
          missed             \* history: publications under way since PB took v1

snapVars == <<sseq, sfield, sw, sr, sv1, sout, missed>>

SctxSeqMod == 2 * Versions
Version(s) == s \div 2

SnapInit ==
    /\ sseq = 2 /\ sfield = <<1, 1>> /\ sw = "idle"       \* sctx_init publishes once
    /\ sr = "idle" /\ sv1 = 0 /\ sout = <<0, 0>> /\ missed = 0

------------------------------------------------------------------------------
(* PA publishes the snapshot once per iteration. *)

Bump == sseq' = (sseq + 1) % SctxSeqMod

\* PB is not kept from running for 2^31 publications in the middle of one read.
PublishOdd ==
    /\ sw = "idle" /\ (sr = "idle" \/ missed < Versions - 1)
    /\ Bump /\ sw' = "f1" /\ missed' = IF sr = "idle" THEN 0 ELSE missed + 1
    /\ UNCHANGED <<sfield, sr, sv1, sout>>

PublishField(at, i, next) ==
    /\ sw = at /\ sw' = next
    /\ sfield' = [sfield EXCEPT ![i] = (Version(sseq) + 1) % Versions]
    /\ UNCHANGED <<sseq, sr, sv1, sout, missed>>

PublishFirst == PublishField("f1", 1, "f2")
PublishLast  == PublishField("f2", 2, "even")

PublishEven ==
    /\ sw = "even" /\ Bump /\ sw' = "idle"
    /\ UNCHANGED <<sfield, sr, sv1, sout, missed>>

(* PB reads it: spin while the word is odd, read, and read the word again. *)

ReadBegin ==
    /\ sr = "idle" /\ sseq % 2 = 0
    /\ sv1' = sseq /\ sr' = "r1" /\ missed' = IF sw = "idle" THEN 0 ELSE 1
    /\ UNCHANGED <<sseq, sfield, sw, sout>>

ReadField(at, i, next) ==
    /\ sr = at /\ sr' = next
    /\ sout' = [sout EXCEPT ![i] = sfield[i]]
    /\ UNCHANGED <<sseq, sfield, sw, sv1, missed>>

ReadFirst == ReadField("r1", 1, "r2")
ReadLast  == ReadField("r2", 2, "check")

\* Mutant of Stable: the second load only looks for a writer in progress.
StableEven == sseq % 2 = 0

Stable == sseq = sv1

\* Unchanged: the snapshot is returned.  Changed: the reader starts over.
ReadCheck ==
    /\ sr = "check"
    /\ sr' = IF Stable THEN "have" ELSE "idle"
    /\ UNCHANGED <<sseq, sfield, sw, sv1, sout, missed>>

ReadDone ==
    /\ sr = "have" /\ sr' = "idle" /\ missed' = 0
    /\ UNCHANGED <<sseq, sfield, sw, sv1, sout>>

------------------------------------------------------------------------------
SnapNext == PublishOdd \/ PublishFirst \/ PublishLast \/ PublishEven
            \/ ReadBegin \/ ReadFirst \/ ReadLast \/ ReadCheck \/ ReadDone

SnapSpec == SnapInit /\ [][SnapNext]_snapVars

------------------------------------------------------------------------------
SnapTypeOK ==
    /\ sseq \in 0 .. (SctxSeqMod - 1) /\ sv1 \in 0 .. (SctxSeqMod - 1)
    /\ {sfield, sout} \subseteq [1 .. 2 -> 0 .. (Versions - 1)]
    /\ sw \in {"idle", "f1", "f2", "even"} /\ (sw = "idle") = (sseq % 2 = 0)
    /\ sr \in {"idle", "r1", "r2", "check", "have"} /\ missed \in 0 .. (Versions - 1)

\* What the reader returns is one publication, whole: the one its sequence word names.
NoTornSnapshot == sr = "have" => sout = <<Version(sv1), Version(sv1)>>
=============================================================================
