------------------------------ MODULE HostPool ------------------------------
(***************************************************************************)
(* The host thread pool (ai/threadpool.c): one caller, hostN workers, a     *)
(* mutex, two condition variables and a generation number that lets each   *)
(* worker run each dispatch once.                                          *)
(*                                                                         *)
(* What runs under the mutex is one step, up to a wait.  A thread in       *)
(* pthread_cond_wait is asleep until it is signalled, or wakes without     *)
(* reason, and then looks at its condition again.  next_idx is atomic and  *)
(* read outside the mutex.  The serial path, for one thread or an empty    *)
(* range, touches nothing of the pool and is left out; so are the start of *)
(* the threads and the freeing of the pool after the shutdown.             *)
(***************************************************************************)
EXTENDS Integers, FiniteSets

CONSTANTS hostN,       \* n_workers
          HostJobs,    \* function and context of a call
          HostEnds,    \* ranges start at 0 and end here
          NoJob,       \* nothing dispatched yet
          GenMod       \* values of the generation number, 2^32

ASSUME HostAssumption ==
    hostN \in Nat \ {0} /\ HostEnds \subseteq Nat \ {0} /\ NoJob \notin HostJobs
    /\ GenMod \in Nat /\ GenMod > 1

VARIABLES posted,      \* fn, ctx_buf and end of the pool
          nextIdx,     \* next_idx
          activeW,     \* active_workers
          generation, lastGen,   \* of the pool, and what each worker saw last
          shutting,    \* shutting_down
          doing,          \* thread -> where it is
          mine,        \* worker -> its copies of fn, local_ctx and end
          hostIdx,     \* thread -> index it calls the function with
          roused       \* threads asleep on a condition that was signalled

hostVars == <<posted, nextIdx, activeW, generation, lastGen, shutting, doing, mine, hostIdx, roused>>

Caller == 0
Crew   == 1 .. hostN
Hands  == 0 .. hostN

Job(j, n) == [job |-> j, end |-> n]

HostInit ==
    /\ posted = Job(NoJob, 0) /\ nextIdx = 0 /\ activeW = 0
    /\ generation = 0 /\ lastGen = [w \in Crew |-> 0]
    /\ shutting = FALSE
    /\ doing = [t \in Hands |-> IF t = Caller THEN "idle" ELSE "gate"]
    /\ mine = [w \in Crew |-> Job(NoJob, 0)]
    /\ hostIdx = [t \in Hands |-> 0]
    /\ roused = {}

JobOf(t) == IF t = Caller THEN posted ELSE mine[t]
To(t, label) == doing' = [doing EXCEPT ![t] = label]

\* Who sleeps on cv_work, and on cv_done.
AsleepOnWork == {w \in Crew : doing[w] = "asleep"}
AsleepOnDone == {t \in {Caller} : doing[t] = "waiting"}

-----------------------------------------------------------------------------
(* jarvis_parallel_for *)

\* pthread_cond_broadcast(cv_work)
Roused == AsleepOnWork

HostDispatch(j, n) ==
    /\ doing[Caller] = "idle" /\ ~shutting /\ activeW = 0
    /\ posted' = Job(j, n) /\ nextIdx' = 0
    /\ activeW' = hostN
    /\ generation' = (generation + 1) % GenMod
    /\ roused' = roused \union Roused
    /\ To(Caller, "take")
    /\ UNCHANGED <<lastGen, shutting, mine, hostIdx>>

\* The fetch-and-add of next_idx: an index of the range, or none left.
HostTake(t) ==
    /\ doing[t] = "take"
    /\ nextIdx' = nextIdx + 1
    /\ IF nextIdx < JobOf(t).end
       THEN hostIdx' = [hostIdx EXCEPT ![t] = nextIdx] /\ To(t, "call")
       ELSE UNCHANGED hostIdx /\ To(t, IF t = Caller THEN "join" ELSE "leave")
    /\ UNCHANGED <<posted, activeW, generation, lastGen, shutting, mine, roused>>

HostCall(t) ==
    /\ doing[t] = "call"
    /\ hostIdx' = [hostIdx EXCEPT ![t] = 0] /\ To(t, "take")
    /\ UNCHANGED <<posted, nextIdx, activeW, generation, lastGen, shutting, mine, roused>>

\* Mutant of HostJoin: woken, the caller does not look at the count again.
HostJoinOnce ==
    /\ doing[Caller] = "join" \/ (doing[Caller] = "waiting" /\ Caller \in roused)
    /\ To(Caller, IF activeW = 0 \/ doing[Caller] = "waiting" THEN "joined" ELSE "waiting")
    /\ roused' = roused \ {Caller}
    /\ UNCHANGED <<posted, nextIdx, activeW, generation, lastGen, shutting, mine, hostIdx>>

\* The wait for active_workers = 0, first or again.
HostJoin ==
    /\ doing[Caller] = "join" \/ (doing[Caller] = "waiting" /\ Caller \in roused)
    /\ To(Caller, IF activeW = 0 THEN "joined" ELSE "waiting")
    /\ roused' = roused \ {Caller}
    /\ UNCHANGED <<posted, nextIdx, activeW, generation, lastGen, shutting, mine, hostIdx>>

HostReturn ==
    /\ doing[Caller] = "joined" /\ To(Caller, "idle")
    /\ UNCHANGED <<posted, nextIdx, activeW, generation, lastGen, shutting, mine, hostIdx, roused>>

-----------------------------------------------------------------------------
(* worker_main *)

Gated(w) == generation = lastGen[w]

\* Mutant of Claims: the worker does not remember the dispatch it runs.
ClaimsAgain(w) == lastGen

\* What the workers have seen once w has claimed the dispatch.
Claims(w) == [lastGen EXCEPT ![w] = generation]

\* The wait for a new generation, first or again; then the copies.
HostGate(w) ==
    /\ doing[w] = "gate" \/ (doing[w] = "asleep" /\ w \in roused)
    /\ roused' = roused \ {w}
    /\ IF shutting THEN To(w, "gone") /\ UNCHANGED <<lastGen, mine>>
       ELSE IF Gated(w) THEN To(w, "asleep") /\ UNCHANGED <<lastGen, mine>>
       ELSE To(w, "take") /\ lastGen' = Claims(w) /\ mine' = [mine EXCEPT ![w] = posted]
    /\ UNCHANGED <<posted, nextIdx, activeW, generation, shutting, hostIdx>>

\* Mutant of HostLeave: the last one out does not signal.
HostLeaveSilent(w) ==
    /\ doing[w] = "leave"
    /\ activeW' = activeW - 1
    /\ mine' = [mine EXCEPT ![w] = Job(NoJob, 0)]
    /\ To(w, "gate")
    /\ UNCHANGED <<posted, nextIdx, generation, lastGen, shutting, hostIdx, roused>>

\* Off the count; the last one out signals cv_done.  The copies die here.
HostLeave(w) ==
    /\ doing[w] = "leave"
    /\ activeW' = activeW - 1
    /\ roused' = IF activeW = 1 THEN roused \union AsleepOnDone ELSE roused
    /\ mine' = [mine EXCEPT ![w] = Job(NoJob, 0)]
    /\ To(w, "gate")
    /\ UNCHANGED <<posted, nextIdx, generation, lastGen, shutting, hostIdx>>

-----------------------------------------------------------------------------

\* jarvis_threadpool_shutdown, and pthread_join of every worker.
HostShutdown ==
    /\ doing[Caller] = "idle"
    /\ shutting' = TRUE /\ roused' = roused \union Roused
    /\ To(Caller, "reaping")
    /\ UNCHANGED <<posted, nextIdx, activeW, generation, lastGen, mine, hostIdx>>

HostReaped ==
    /\ doing[Caller] = "reaping" /\ \A w \in Crew : doing[w] = "gone"
    /\ To(Caller, "done")
    /\ UNCHANGED <<posted, nextIdx, activeW, generation, lastGen, shutting, mine, hostIdx, roused>>

\* From now on a call runs serially and touches nothing of the pool.
HostSerial == doing[Caller] = "done" /\ UNCHANGED hostVars

\* A wake-up without a signal.
Spurious(t) ==
    /\ t \in AsleepOnWork \union AsleepOnDone /\ t \notin roused
    /\ roused' = roused \union {t}
    /\ UNCHANGED <<posted, nextIdx, activeW, generation, lastGen, shutting, doing, mine, hostIdx>>

HostCrew(w) == HostGate(w) \/ HostLeave(w) \/ HostTake(w) \/ HostCall(w)
HostCaller  == HostJoin \/ HostReturn \/ HostTake(Caller) \/ HostCall(Caller) \/ HostReaped

HostNext ==
    \/ \E j \in HostJobs, n \in HostEnds : HostDispatch(j, n)
    \/ HostCaller \/ HostShutdown \/ HostSerial
    \/ \E w \in Crew : HostCrew(w)
    \/ \E t \in Hands : Spurious(t)

HostFair == WF_hostVars(HostCaller) /\ \A w \in Crew : WF_hostVars(HostCrew(w))
HostSpec == HostInit /\ [][HostNext]_hostVars /\ HostFair

-----------------------------------------------------------------------------
(* Properties *)

CallerLabels == {"idle", "take", "call", "join", "waiting", "joined", "reaping", "done"}
CrewLabels   == {"gate", "asleep", "take", "call", "leave", "gone"}
Posting      == [job : HostJobs \union {NoJob}, end : Nat]

HostTypeOK ==
    /\ posted \in Posting /\ mine \in [Crew -> Posting]
    /\ nextIdx \in Nat /\ activeW \in 0 .. hostN
    /\ generation \in 0 .. (GenMod - 1) /\ lastGen \in [Crew -> 0 .. (GenMod - 1)]
    /\ doing \in [Hands -> CallerLabels \union CrewLabels] /\ doing[Caller] \in CallerLabels
    /\ \A w \in Crew : doing[w] \in CrewLabels
    /\ hostIdx \in [Hands -> Nat]
    /\ roused \subseteq Hands /\ shutting \in BOOLEAN

InCall == doing[Caller] \in {"take", "call", "join", "waiting"}
Busy(w) == doing[w] \in {"take", "call", "leave"}

\* Once jarvis_parallel_for is past its wait, every index has been handed out, no
\* worker is at work, and every worker has run this dispatch: none is left to run it
\* late, nor is one counted twice (worker_main: "claim this dispatch exactly once").
HostJoinExact ==
    doing[Caller] \in {"joined", "idle"} =>
        /\ nextIdx >= posted.end
        /\ \A w \in Crew : ~Busy(w) /\ Gated(w)

\* The count of workers that owe a pass, also when the generation number wraps.
OwedExact ==
    activeW = Cardinality({w \in Crew : Busy(w) \/ ~Gated(w)})

\* The host pool keeps the same promise as the pool of the target.
HostCallOf(t) == [fn |-> JobOf(t).job, ctx |-> JobOf(t).job, idx |-> hostIdx[t]]
HostTask  == IF InCall THEN posted.job ELSE NoJob
HostTodo  == IF InCall THEN nextIdx .. (posted.end - 1) ELSE {}
HostCalls == {HostCallOf(t) : t \in {s \in Hands : doing[s] = "call"}}
HostAbs == INSTANCE ParallelFor WITH
               Jobs <- HostJobs, Ends <- HostEnds, Nobody <- NoJob,
               task <- HostTask, todo <- HostTodo, out <- HostCalls
HostImplementsParallelFor == HostAbs!Spec

\* Every dispatch ends and so does a shutdown: no wake-up is lost between looking at
\* a condition and sleeping on it.
HostCallsEnd  == InCall ~> ~InCall
HostShutsDown == shutting ~> doing[Caller] = "done"

\* The count of active workers is exact, and the join with it.
HostExact == HostJoinExact /\ OwedExact

\* No wake-up is lost: dispatches and the shutdown come to their end.
HostGoesOn == HostCallsEnd /\ HostShutsDown
=============================================================================
