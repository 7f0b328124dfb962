----------------------------- MODULE TokenBucket -----------------------------
(***************************************************************************)
(* The rate limiter of the input process (net/control_ratelimit.c): a token *)
(* bucket in thousandths of a token, on a 32-bit millisecond clock that PA  *)
(* stamps on each frame and that wraps.                                     *)
(*                                                                         *)
(* credit is history: the allowance of an ideal bucket on an unbounded clock *)
(* that is charged for every frame let through.                             *)
(***************************************************************************)
EXTENDS Integers

CONSTANTS Capacity,   \* CONTROL_RL_CAP_MILLI
          Cost,       \* one token, in the same unit
          Refill,     \* CONTROL_RL_REFILL_PER_SEC
          ClockMod    \* values of the clock and of the code's unsigned words, 2^32

ASSUME BucketAssumption ==
    /\ {Capacity, Cost, Refill, ClockMod} \subseteq Nat \ {0}
    /\ Cost <= Capacity

VARIABLES tokens,     \* rl->tokens_milli
          stamp,      \* rl->last_ms
          now,        \* jarvis_uptime_ms(), modulo the width of the stamp
          credit

rlVars == <<tokens, stamp, now, credit>>

Clock == 0 .. (ClockMod - 1)
AtMost(cap, n) == IF n > cap THEN cap ELSE n

RlInit == /\ tokens = Capacity /\ stamp = 0
          /\ now \in Clock /\ credit = Capacity

\* d milliseconds pass between two frames, as many as you like: only what they amount to
\* modulo the clock's range is seen by the code.
Elapse(d) ==
    /\ now' = IF now + d >= ClockMod THEN now + d - ClockMod ELSE now + d
    /\ credit' = AtMost(Capacity, credit + d * Refill)
    /\ UNCHANGED <<tokens, stamp>>

\* Modular subtraction.
Elapsed == IF now >= stamp THEN now - stamp ELSE now - stamp + ClockMod

\* What that time adds, in an unsigned word.
Added == (Elapsed * Refill) % ClockMod

\* The bucket after the time since the last frame, saturated.
Refilled == IF Added > Capacity - tokens THEN Capacity ELSE tokens + Added

\* Mutant of Frame: a frame that is refused leaves the stamp, so its time counts twice.
FrameKeepsStamp ==
    /\ IF Refilled >= Cost
       THEN tokens' = Refilled - Cost /\ credit' = credit - Cost /\ stamp' = now
       ELSE tokens' = Refilled /\ UNCHANGED <<credit, stamp>>
    /\ UNCHANGED now

\* control_ratelimit_allow on a frame that parses.
Frame ==
    /\ IF Refilled >= Cost
       THEN tokens' = Refilled - Cost /\ credit' = credit - Cost
       ELSE tokens' = Refilled /\ UNCHANGED credit
    /\ stamp' = now
    /\ UNCHANGED now

RlNext == Frame \/ \E d \in Clock : Elapse(d)

RlSpec == RlInit /\ [][RlNext]_rlVars

------------------------------------------------------------------------------
RlTypeOK == /\ tokens \in 0 .. Capacity /\ stamp \in Clock /\ now \in Clock
            /\ credit \in Int

\* Never more frames than an ideal bucket lets through: in any interval, at most the
\* capacity and what the interval refills, across every wrap of the clock and however
\* often a refused sender tries again.
RateBound == credit >= 0

\* The bucket never holds, with what it would be given now, more than the ideal one: the
\* inductive form of RateBound.
NeverAhead == AtMost(Capacity, tokens + Elapsed * Refill) <= credit /\ credit <= Capacity
==============================================================================
