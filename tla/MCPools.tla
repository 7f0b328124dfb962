------------------------------- MODULE MCPools -------------------------------
(* The worker pools for TLC: that of PB with three workers and no wake pending *)
(* when one is reset, the same with two workers reset at any moment, and the   *)
(* pthread pool of the host build.  A behaviour is one part's, the others rest. *)
EXTENDS WorkerPool, HostPool

CONSTANTS job1, job2

ASSUME PoolsAssumption == job1 # Nobody

MCJobs == {job1, job2}
MCEnds == {1, 3}

VARIABLES part,   \* the part this behaviour is about
          rctx, rfn, rend, rnext, ractive, rwake, rdone, rpc, rgot, ridx, rk, rrestarts

\* One job: how a dispatch ends does not depend on which it is.
Rough == INSTANCE WorkerPool WITH
    N <- 2, Jobs <- {job1}, PendingAtReset <- TRUE,
    ctx <- rctx, fn <- rfn, end <- rend, next_idx <- rnext, active <- ractive, wake <- rwake,
    done <- rdone, pc <- rpc, got <- rgot, idx <- ridx, k <- rk, restarts <- rrestarts

roughVars == <<rctx, rfn, rend, rnext, ractive, rwake, rdone, rpc, rgot, ridx, rk, rrestarts>>
poolsVars == <<part, vars, roughVars, hostVars>>

PoolsInit == part \in {"sel4", "rough", "host"} /\ Init /\ Rough!Init /\ HostInit

Sel4Part(A)  == part = "sel4" /\ A /\ UNCHANGED <<part, roughVars, hostVars>>
RoughPart(A) == part = "rough" /\ A /\ UNCHANGED <<part, vars, hostVars>>
HostPart(A)  == part = "host" /\ A /\ UNCHANGED <<part, vars, roughVars>>

PoolsNext == Sel4Part(Next) \/ RoughPart(Rough!Next) \/ HostPart(HostNext)

\* The threads are scheduled; a respawn or a spurious wake-up need not come.
PoolsSpec ==
    /\ PoolsInit /\ [][PoolsNext]_poolsVars
    /\ WF_poolsVars(RoughPart(Rough!MainGoesOn))
    /\ \A w \in Rough!Workers : WF_poolsVars(RoughPart(Rough!Worker(w)))
    /\ WF_poolsVars(HostPart(HostCaller))
    /\ \A w \in Crew : WF_poolsVars(HostPart(HostCrew(w)))

\* Every variable of the pools keeps its type.
PoolTypes == TypeOK /\ Rough!TypeOK /\ HostTypeOK

\* Whatever respawns the pool of PB meets, a dispatch ends unless one takes PB away from it
\* (threadpool_sel4.c, the count and the two notifications); whatever wakes the threads of
\* the host pool, a dispatch ends and so does the shutdown (threadpool.c, the two conditions).
DispatchesGoOn == Rough!DispatchEnds /\ HostGoesOn
==============================================================================
