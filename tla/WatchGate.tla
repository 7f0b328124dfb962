------------------------------ MODULE WatchGate ------------------------------
(***************************************************************************)
(* What the box tells its operator on its own: the monitors of ai/monitors.c *)
(* sampled once per window of the workload loop, the hourly cap on informs of *)
(* ai/behaviors.c, and the wake gate of ai/wake.c, which turns an anomaly into *)
(* one consult of PB.  All of it runs on one thread; what makes it hard is     *)
(* the 32-bit millisecond clock that wraps, and three limiters in a row.       *)
(*                                                                         *)
(* A window is sampled at one reading of the clock, and the consult itself is *)
(* PbLink's wake lane.  The store-wrap watchers are left out: a total only grows. *)
(***************************************************************************)
EXTENDS Integers

CONSTANTS ClockMod,      \* values of jarvis_uptime_ms, 2^32
          Hour,          \* 3600000
          Mark,          \* an uptime milestone
          Cooldown,      \* WAKE_COOLDOWN_MS
          InformBudget,  \* BEHAVIOR_BUDGET_PER_HOUR
          WakeBudget,    \* WAKE_BUDGET_PER_HOUR
          MaxWindow      \* bound of the model: the clock's steps in one window

ASSUME WatchAssumption ==
    /\ {ClockMod, Hour, Mark, Cooldown, InformBudget, WakeBudget, MaxWindow} \subseteq Nat \ {0}
    /\ Mark < ClockMod /\ Cooldown + MaxWindow <= ClockMod /\ Hour < ClockMod

VARIABLES at,        \* where PA is in the window: between two windows, or at a watcher
          clock,
          trig,      \* the watchers whose value is past the threshold in this window
          based,     \* the deltas have a baseline
          mon,       \* monitor_t of each watcher: consec and armed
          gave_up,   \* g_pb_dead
          b5,        \* g_b5_notified
          bud,       \* the inform budget: bucket and count
          pending, last, fired, wbud,    \* wake_gate_t
          told,      \* history: what was surfaced in this window
          consult,   \* history: the consult of this window
          idle,      \* history: clock steps since the last consult of each type, up to Cooldown
          cleared,   \* history: watchers below the threshold since they fired
          alerted    \* history: the degraded notice was surfaced

monVars  == <<trig, based, mon, gave_up, b5>>
wakeVars == <<pending, last, fired, wbud>>
seenVars == <<told, consult, idle, cleared, alerted>>
watchVars == <<at, clock, monVars, bud, wakeVars, seenVars>>

WakeTypes == {"err", "heal"}
Watchers  == {"err", "heal", "mark"}
Debounce  == [w \in Watchers |-> IF w = "err" THEN 2 ELSE 1]
Bucket(t) == t \div Hour

WatchInit ==
    /\ at = "run" /\ clock = 0
    /\ trig = {} /\ based = FALSE
    /\ mon = [w \in Watchers |-> [consec |-> 0, armed |-> TRUE]]
    /\ gave_up = FALSE /\ b5 = FALSE
    /\ bud = [bucket |-> 0, count |-> 0]
    /\ pending = "none" /\ last = [w \in WakeTypes |-> 0] /\ fired = [w \in WakeTypes |-> FALSE]
    /\ wbud = [bucket |-> 0, count |-> 0]
    /\ told = {} /\ consult = "none" /\ idle = [w \in WakeTypes |-> Cooldown]
    /\ cleared = Watchers /\ alerted = FALSE

\* A window of 100 queries ends: time has passed, PB may have been given up, errors and
\* restarts were counted (the first window is the baseline, a dead PB is not restarted).
WindowEnds ==
    /\ at = "run" /\ at' = "err"
    /\ \E d \in 1 .. MaxWindow :
         /\ clock' = (clock + d) % ClockMod
         /\ idle' = [w \in WakeTypes |->
                       IF w = consult THEN d
                       ELSE IF idle[w] + d > Cooldown THEN Cooldown ELSE idle[w] + d]
    /\ gave_up' \in {gave_up, TRUE}
    /\ \E t \in SUBSET WakeTypes :
         /\ based \/ t = {}
         /\ ~(gave_up /\ "heal" \in t)
         /\ trig' = t \cup {w \in {"mark"} : clock' >= Mark}
    /\ based' = TRUE
    /\ told' = {} /\ consult' = "none"
    /\ UNCHANGED <<mon, b5, bud, wakeVars, cleared, alerted>>

------------------------------------------------------------------------------
(* monitor_sample. *)

Fires(w) == w \in trig /\ mon[w].armed /\ mon[w].consec + 1 >= Debounce[w]

\* Mutant of Sampled: firing does not disarm.
SampledArmed(w) ==
    IF w \notin trig \/ Fires(w) THEN [consec |-> 0, armed |-> TRUE]
    ELSE IF mon[w].armed THEN [mon[w] EXCEPT !.consec = @ + 1] ELSE mon[w]

Sampled(w) ==
    IF w \notin trig THEN [consec |-> 0, armed |-> TRUE]
    ELSE IF Fires(w) THEN [consec |-> 0, armed |-> FALSE]
    ELSE IF mon[w].armed THEN [mon[w] EXCEPT !.consec = @ + 1] ELSE mon[w]

Sample(w) ==
    /\ mon' = [mon EXCEPT ![w] = Sampled(w)]
    /\ cleared' = IF w \notin trig THEN cleared \cup {w}
                  ELSE IF Fires(w) THEN cleared \ {w} ELSE cleared

(* behavior_budget_try and mon_notify. *)

Rolled(b) == IF Bucket(clock) # b.bucket THEN [bucket |-> Bucket(clock), count |-> 0] ELSE b

InformOk == Rolled(bud).count < InformBudget

\* wake_gate_stage, for an inform that was surfaced: one slot, templated types only.
Stage(w) == pending' = IF InformOk /\ w \in WakeTypes /\ pending = "none" THEN w ELSE pending

Inform(w) ==
    /\ Stage(w)
    /\ IF InformOk THEN bud' = [Rolled(bud) EXCEPT !.count = @ + 1] /\ told' = told \cup {w}
       ELSE bud' = Rolled(bud) /\ UNCHANGED told

NoInform == UNCHANGED <<pending, bud, told>>

\* The error-rate and self-heal-rate watchers.
Watch(w) ==
    /\ at = w /\ at' = IF w = "err" THEN "heal" ELSE "mark"
    /\ Sample(w)
    /\ IF Fires(w) THEN Inform(w) ELSE NoInform
    /\ UNCHANGED <<clock, trig, based, gave_up, b5, last, fired, wbud, consult, idle, alerted>>

\* The uptime mark posts a digest; a clock that reads 0 is not looked at.
WatchMark ==
    /\ at = "mark" /\ at' = "b5"
    /\ IF clock = 0 THEN NoInform /\ UNCHANGED <<mon, cleared>>
       ELSE /\ Sample("mark")
            /\ IF Fires("mark") THEN Inform("mark") ELSE NoInform
    /\ UNCHANGED <<clock, trig, based, gave_up, b5, last, fired, wbud, consult, idle, alerted>>

\* Mutant of Rearm: a notice the cap held back is not tried again.
RearmNot == TRUE

\* mon_notify clears the flag again when the cap holds the notice back.
Rearm == InformOk

\* The degraded notice, once.
WatchDegraded ==
    /\ at = "b5" /\ at' = "wake"
    /\ IF gave_up /\ ~b5
       THEN /\ Inform("degraded") /\ b5' = Rearm
            /\ alerted' = (alerted \/ InformOk)
       ELSE NoInform /\ UNCHANGED <<b5, alerted>>
    /\ UNCHANGED <<clock, trig, based, mon, gave_up, last, fired, wbud, consult, idle, cleared>>

------------------------------------------------------------------------------
(* The dispatch site: wake_gate_take and wake_gate_try. *)

\* Mutant of Cooling: the difference of the clocks is not taken modulo the word.
CoolingAbsolute(w) == fired[w] /\ clock - last[w] < Cooldown /\ clock >= last[w]

Cooling(w) == fired[w] /\ (clock - last[w]) % ClockMod < Cooldown

Consult(w) ==
    /\ wbud' = [Rolled(wbud) EXCEPT !.count = @ + 1]
    /\ last' = [last EXCEPT ![w] = clock] /\ fired' = [fired EXCEPT ![w] = TRUE]
    /\ consult' = w

WakeDispatch ==
    /\ at = "wake" /\ at' = "run"
    /\ pending' = "none"
    /\ IF pending = "none" \/ Cooling(pending)
       THEN UNCHANGED <<last, fired, wbud, consult>>
       ELSE IF Rolled(wbud).count < WakeBudget THEN Consult(pending)
       ELSE wbud' = Rolled(wbud) /\ UNCHANGED <<last, fired, consult>>
    /\ trig' = {}
    /\ UNCHANGED <<clock, based, mon, gave_up, b5, bud, told, idle, cleared, alerted>>

WatchNext ==
    \/ WindowEnds \/ WatchMark \/ WatchDegraded \/ WakeDispatch
    \/ \E w \in WakeTypes : Watch(w)

\* The workload loop is one thread that runs for ever.
WatchFair == WF_watchVars(WatchNext)
WatchSpec == WatchInit /\ [][WatchNext]_watchVars /\ WatchFair

------------------------------------------------------------------------------
(* Type invariant. *)

WatchTypeOK ==
    /\ at \in {"run", "err", "heal", "mark", "b5", "wake"} /\ clock \in 0 .. (ClockMod - 1)
    /\ trig \subseteq Watchers /\ {based, gave_up, b5, alerted} \subseteq BOOLEAN
    /\ mon \in [Watchers -> [consec : 0 .. 1, armed : BOOLEAN]]
    /\ bud \in [bucket : 0 .. Bucket(ClockMod - 1), count : 0 .. InformBudget]
    /\ wbud \in [bucket : 0 .. Bucket(ClockMod - 1), count : 0 .. WakeBudget]
    /\ pending \in WakeTypes \cup {"none"} /\ consult \in WakeTypes \cup {"none"}
    /\ last \in [WakeTypes -> 0 .. (ClockMod - 1)] /\ fired \in [WakeTypes -> BOOLEAN]
    /\ told \subseteq Watchers \cup {"degraded"} /\ cleared \subseteq Watchers
    /\ idle \in [WakeTypes -> Nat]

(* Two consults of one type lie at least the cooldown apart in real time, the wrap of the
   32-bit clock between them or not. *)
ConsultsApart == consult # "none" => idle[consult] >= Cooldown

(* PB is consulted only about an anomaly the operator was told of in the same window: an
   inform the cap holds back leaves no consult behind. *)
ConsultTold == {pending, consult} \subseteq told \cup {"none"}

(* A watcher that fired does not fire again before its value was below the threshold once:
   a sustained condition is one event. *)
OncePerCrossing ==
    [][\A w \in Watchers : w \in told' \ told => w \in cleared]_watchVars

(* The notice that PB is gone for good reaches the operator however the caps are used up by
   other informs: it is tried again in every window. *)
DegradedTold == gave_up ~> alerted

(* main_x86.c 8945 of the digest of an uptime mark: "fire-once per mark, <=3/boot by
   construction". *)
Digest == "mark" \in told
DigestOnce == [](Digest => [](~Digest => []~Digest))

\* A consult of PB is worth its price: no two of a type in one cooldown, and the operator
\* was told why.
ConsultHonest == ConsultsApart /\ ConsultTold
=============================================================================
