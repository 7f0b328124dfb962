----------------------------- MODULE WorkerPool -----------------------------
(***************************************************************************)
(* phase3/src/ai/threadpool_sel4.c: PB's pool of worker threads, one per   *)
(* further core, and what a respawn does to it: km2b_reset_workers in PA   *)
(* (main_x86.c) and the head of pb_restart_entry (inference_server.c).     *)
(*                                                                         *)
(* A step is one access to the pool's shared fields or one kernel call.    *)
(* The stores to ctx_buf, fn and end of one dispatch are one step.  The    *)
(* generation word is only a memory barrier and the model is sequentially  *)
(* consistent, so it is left out; so is the serial path (ranges below 256, *)
(* no worker), which touches nothing of the pool, and the shutdown, which  *)
(* PB never calls.                                                         *)
(*                                                                         *)
(* A seL4 notification is a bit: a signal wakes the thread blocked on it   *)
(* at once and is otherwise remembered, once.  Suspending a thread blocked *)
(* on a notification leaves the bit alone, so a bit set while its worker   *)
(* was not yet back in its wait survives the reset of the worker.          *)
(***************************************************************************)
EXTENDS Integers, FiniteSets

CONSTANTS N,              \* workers, n_threads - 1
          Jobs,           \* function and context of a call
          Ends,           \* the "end" of a dispatch; every caller starts at 0
          Nobody,         \* no job: a pool never used
          MaxRestarts,    \* bound: respawns in a behaviour
          PendingAtReset  \* may a worker be reset while its wake bit is set?

ASSUME PoolAssumption ==
    /\ N \in Nat \ {0}
    /\ Ends \subseteq Nat \ {0}
    /\ Nobody \notin Jobs
    /\ MaxRestarts \in Nat
    /\ PendingAtReset \in BOOLEAN

VARIABLES ctx, fn, end, next_idx, active,  \* g_pool
          wake, done,  \* pending bits of the notifications
          pc,          \* thread -> where it is
          got,         \* worker -> its locals fn and end
          idx,         \* thread -> index it calls the function with
          k,           \* loop counter of the dispatcher, PA or the restart entry
          restarts

pool == <<ctx, fn, end>>
vars == <<ctx, fn, end, next_idx, active, wake, done, pc, got, idx, k, restarts>>

Main    == 0           \* PB-main, the dispatcher
Workers == 1 .. N
Threads == 0 .. N

FnOf(t)  == IF t = Main THEN fn ELSE got[t].fn
EndOf(t) == IF t = Main THEN end ELSE got[t].end
\* The call thread t makes: ctx_buf is read through a pointer, during the call.
CallOf(t) == [fn |-> FnOf(t), ctx |-> ctx, idx |-> idx[t]]

Fresh == [fn |-> Nobody, end |-> 0]

\* jarvis_sel4_pool_init at boot, the workers started by PA.
Init ==
    /\ ctx = Nobody /\ fn = Nobody /\ end = 0
    /\ next_idx = 0 /\ active = 0
    /\ wake = [w \in Workers |-> FALSE] /\ done = FALSE
    /\ pc = [t \in Threads |-> IF t = Main THEN "idle" ELSE "parking"]
    /\ got = [w \in Workers |-> Fresh]
    /\ idx = [t \in Threads |-> 0]
    /\ k = 1 /\ restarts = 0

InDispatch == pc[Main] \in {"signal", "take", "call", "join", "blocked"}

Goto(t, label) == pc' = [pc EXCEPT ![t] = label]

\* One pass of a loop over the workers, k = 1 .. N, in the dispatcher's thread.
LoopTooFar(here, after) ==                       \* mutant: i <= n
    IF k <= N THEN k' = k + 1 /\ Goto(Main, here) ELSE k' = 1 /\ Goto(Main, after)
Loop(here, after) ==
    IF k < N THEN k' = k + 1 /\ Goto(Main, here) ELSE k' = 1 /\ Goto(Main, after)

-----------------------------------------------------------------------------
(* jarvis_parallel_for *)

Dispatch(j, n) ==
    /\ pc[Main] = "idle"
    /\ ctx' = j /\ fn' = j /\ end' = n
    /\ Goto(Main, "aim")
    /\ UNCHANGED <<next_idx, active, wake, done, got, idx, k, restarts>>

Aim ==
    /\ pc[Main] = "aim"
    /\ next_idx' = 0
    /\ Goto(Main, "arm")
    /\ UNCHANGED <<pool, active, wake, done, got, idx, k, restarts>>

ArmLess ==                                       \* mutant: n_threads off by one
    /\ pc[Main] = "arm"
    /\ active' = N - 1
    /\ Goto(Main, "signal")
    /\ UNCHANGED <<pool, next_idx, wake, done, got, idx, k, restarts>>
Arm ==
    /\ pc[Main] = "arm"
    /\ active' = N
    /\ Goto(Main, "signal")
    /\ UNCHANGED <<pool, next_idx, wake, done, got, idx, k, restarts>>

\* seL4_Signal(wake[k])
Signal ==
    /\ pc[Main] = "signal"
    /\ LET at == IF k < N THEN "signal" ELSE "take" IN
       \/ /\ pc[k] = "parked"
          /\ pc' = [pc EXCEPT ![Main] = at, ![k] = "woken"]
          /\ UNCHANGED wake
       \/ /\ pc[k] # "parked"
          /\ wake' = [wake EXCEPT ![k] = TRUE]
          /\ Goto(Main, at)
    /\ k' = IF k < N THEN k + 1 ELSE 1
    /\ UNCHANGED <<pool, next_idx, active, done, got, idx, restarts>>

\* The fetch-and-add of next_idx, the same loop in every thread.
Take(t) ==
    /\ pc[t] = "take"
    /\ next_idx < EndOf(t)
    /\ idx' = [idx EXCEPT ![t] = next_idx]
    /\ next_idx' = next_idx + 1
    /\ Goto(t, "call")
    /\ UNCHANGED <<pool, active, wake, done, got, k, restarts>>

NoneLeft(t) ==
    /\ pc[t] = "take"
    /\ next_idx >= EndOf(t)
    /\ next_idx' = next_idx + 1
    /\ Goto(t, IF t = Main THEN "join" ELSE "leave")
    /\ UNCHANGED <<pool, active, wake, done, got, idx, k, restarts>>

Finish(t) ==
    /\ pc[t] = "call"
    /\ idx' = [idx EXCEPT ![t] = 0]
    /\ Goto(t, "take")
    /\ UNCHANGED <<pool, next_idx, active, wake, done, got, k, restarts>>

\* seL4_Wait(done)
Join ==
    /\ pc[Main] = "join"
    /\ Goto(Main, IF done THEN "joined" ELSE "blocked")
    /\ done' = FALSE
    /\ UNCHANGED <<pool, next_idx, active, wake, got, idx, k, restarts>>

GoOn ==
    /\ pc[Main] = "joined"
    /\ Goto(Main, "idle")
    /\ UNCHANGED <<pool, next_idx, active, wake, done, got, idx, k, restarts>>

-----------------------------------------------------------------------------
(* jarvis_sel4_worker_entry *)

\* seL4_Wait(wake)
Park(w) ==
    /\ pc[w] = "parking"
    /\ Goto(w, IF wake[w] THEN "woken" ELSE "parked")
    /\ wake' = [wake EXCEPT ![w] = FALSE]
    /\ UNCHANGED <<pool, next_idx, active, done, got, idx, k, restarts>>

Load(w) ==
    /\ pc[w] = "woken"
    /\ got' = [got EXCEPT ![w] = [fn |-> fn, end |-> end]]
    /\ Goto(w, "take")
    /\ UNCHANGED <<pool, next_idx, active, wake, done, idx, k, restarts>>

\* The fetch-and-sub of active; who took it from 1 to 0 signals "done".
LeaveAny(w) ==                                   \* mutant: any worker signals
    /\ pc[w] = "leave"
    /\ active' = active - 1
    /\ got' = [got EXCEPT ![w] = Fresh]
    /\ Goto(w, "last")
    /\ UNCHANGED <<pool, next_idx, wake, done, idx, k, restarts>>
Leave(w) ==
    /\ pc[w] = "leave"
    /\ active' = active - 1
    /\ got' = [got EXCEPT ![w] = Fresh]
    /\ Goto(w, IF active = 1 THEN "last" ELSE "parking")
    /\ UNCHANGED <<pool, next_idx, wake, done, idx, k, restarts>>

\* seL4_Signal(done)
SignalDone(w) ==
    /\ pc[w] = "last"
    /\ \/ /\ pc[Main] = "blocked"
          /\ pc' = [pc EXCEPT ![w] = "parking", ![Main] = "joined"]
          /\ UNCHANGED done
       \/ /\ pc[Main] # "blocked"
          /\ done' = TRUE
          /\ Goto(w, "parking")
    /\ UNCHANGED <<pool, next_idx, active, wake, got, idx, k, restarts>>

-----------------------------------------------------------------------------
(* A respawn.  PA suspends PB-main wherever it is, resets and resumes the  *)
(* workers one after the other, and resumes PB-main in its restart entry.  *)

Suspend ==
    /\ restarts < MaxRestarts
    /\ pc[Main] # "suspended"
    /\ restarts' = restarts + 1
    /\ idx' = [idx EXCEPT ![Main] = 0]
    /\ k' = 1
    /\ Goto(Main, "suspended")
    /\ UNCHANGED <<pool, next_idx, active, wake, done, got>>

\* Suspend, new registers, resume: the worker is at the head of its entry.
ResetWorker ==
    /\ pc[Main] = "suspended"
    /\ PendingAtReset \/ ~wake[k]
    /\ pc' = [pc EXCEPT ![k] = "parking",
                        ![Main] = IF k < N THEN "suspended" ELSE "poll"]
    /\ k' = IF k < N THEN k + 1 ELSE 1
    /\ got' = [got EXCEPT ![k] = Fresh]
    /\ idx' = [idx EXCEPT ![k] = 0]
    /\ UNCHANGED <<pool, next_idx, active, wake, done, restarts>>

\* pb_restart_entry polls the wake bits, then the done bit ...
PollWake ==
    /\ pc[Main] = "poll"
    /\ wake' = [wake EXCEPT ![k] = FALSE]
    /\ Loop("poll", "pollDone")
    /\ UNCHANGED <<pool, next_idx, active, done, got, idx, restarts>>

PollDone ==
    /\ pc[Main] = "pollDone"
    /\ done' = FALSE
    /\ Goto(Main, "init")
    /\ UNCHANGED <<pool, next_idx, active, wake, got, idx, k, restarts>>

\* ... and initialises the pool again.
PoolInit ==
    /\ pc[Main] = "init"
    /\ next_idx' = 0 /\ active' = 0
    /\ Goto(Main, "idle")
    /\ UNCHANGED <<pool, wake, done, got, idx, k, restarts>>

-----------------------------------------------------------------------------
Dispatcher == Aim \/ Arm \/ Signal \/ Join \/ GoOn
Respawn    == ResetWorker \/ PollWake \/ PollDone \/ PoolInit
Loops(t)   == Take(t) \/ NoneLeft(t) \/ Finish(t)
Worker(w)  == Park(w) \/ Load(w) \/ Leave(w) \/ SignalDone(w) \/ Loops(w)
MainGoesOn == Dispatcher \/ Loops(Main) \/ Respawn

Next ==
    \/ \E j \in Jobs, n \in Ends : Dispatch(j, n)
    \/ MainGoesOn
    \/ \E w \in Workers : Worker(w)
    \/ Suspend

Spec == Init /\ [][Next]_vars

\* The functions of the pool are loops over a row of numbers that end, every
\* worker has a core of its own, and PA and PB-main take turns on theirs.
FairSpec ==
    /\ Spec
    /\ WF_vars(MainGoesOn)
    /\ \A w \in Workers : WF_vars(Worker(w))

-----------------------------------------------------------------------------
(* Properties *)

MainLabels   == {"idle", "aim", "arm", "signal", "take", "call", "join", "blocked",
                 "joined", "suspended", "poll", "pollDone", "init"}
WorkerLabels == {"parking", "parked", "woken", "take", "call", "leave", "last"}

\* Every field of the pool, every bit and every local keeps its type.
TypeOK ==
    /\ ctx \in Jobs \union {Nobody} /\ fn \in Jobs \union {Nobody}
    /\ end \in Nat /\ next_idx \in Nat /\ active \in Int
    /\ wake \in [Workers -> BOOLEAN] /\ done \in BOOLEAN
    /\ pc \in [Threads -> MainLabels \union WorkerLabels]
    /\ pc[Main] \in MainLabels /\ \A w \in Workers : pc[w] \in WorkerLabels
    /\ got \in [Workers -> [fn : Jobs \union {Nobody}, end : Nat]]
    /\ idx \in [Threads -> Nat]
    /\ k \in Workers
    /\ restarts \in 0 .. MaxRestarts

Running(w) == pc[w] \in {"woken", "take", "call", "leave"}
ToSignal(w) == pc[Main] = "signal" /\ w >= k

\* Workers that still have to count themselves off for this dispatch.
Owing == {w \in Workers : wake[w] \/ Running(w) \/ ToSignal(w)}

Parked(w) == ~wake[w] /\ pc[w] \in {"parking", "parked"}

\* Between dispatches the pool is quiet: no bit pending, no worker running.
QuietInv ==
    pc[Main] \in {"idle", "aim", "arm", "joined"} =>
        /\ ~done
        /\ \A w \in Workers : Parked(w)

\* active counts the workers that owe, each for one reason only, so that no
\* wake coalesces with another.
CountInv ==
    InDispatch =>
        /\ active = Cardinality(Owing)
        /\ \A w \in Workers : /\ ~(wake[w] /\ Running(w))
                              /\ ToSignal(w) => ~wake[w] /\ ~Running(w)

\* The last worker is the only one to signal "done", and signals it once.
DoneInv ==
    InDispatch =>
        /\ active = 0 <=> done \/ \E w \in Workers : pc[w] = "last"
        /\ done => \A w \in Workers : pc[w] # "last"
        /\ \A v, w \in Workers : pc[v] = "last" /\ pc[w] = "last" => v = w
        /\ pc[Main] = "blocked" => ~done

\* From the first store of a dispatch to its join, function and context are
\* those of one job, and next_idx starts at the head of the range.
JobInv ==
    /\ pc[Main] \in {"aim", "arm"} \/ InDispatch => fn \in Jobs /\ ctx = fn /\ end \in Ends
    /\ pc[Main] = "arm" => next_idx = 0

\* A thread that takes indices takes them for the dispatch under way, and no
\* two threads hold the same index.
IndexInv ==
    InDispatch =>
        /\ \A w \in Workers :
              pc[w] \in {"take", "call", "leave"} => got[w] = [fn |-> fn, end |-> end]
        /\ \A t \in Threads : pc[t] = "call" => idx[t] < next_idx
        /\ \A s, t \in Threads :
              pc[s] = "call" /\ pc[t] = "call" /\ idx[s] = idx[t] => s = t
        /\ pc[Main] \in {"join", "blocked"} => next_idx >= end

\* What PA and the restart entry have undone so far stays undone.
ResetInv ==
    /\ pc[Main] = "suspended" =>
          \A w \in 1 .. (k - 1) : Parked(w)
    /\ pc[Main] \in {"poll", "pollDone", "init"} =>
          \A w \in Workers : Parked(w)
    /\ pc[Main] = "init" => ~done

\* When jarvis_parallel_for gets past its wait for "done", every index has
\* been handed out and no worker is still at work on this or another dispatch
\* (threadpool_sel4.c:5-7, "structurally immune to the cross-dispatch
\* over-decrement race").
JoinExact ==
    pc[Main] = "joined" =>
        /\ next_idx >= end
        /\ \A w \in Workers : ~wake[w] /\ ~Running(w)

\* Loops over the workers start at the first one.
LoopInv == pc[Main] \notin {"signal", "suspended", "poll"} => k = 1

\* The inductive invariant: quiet between dispatches, exact accounting within
\* one, nothing left of the old dispatch after a respawn.
PoolInv ==
    /\ QuietInv /\ CountInv /\ DoneInv /\ JobInv /\ IndexInv /\ ResetInv /\ LoopInv
    /\ JoinExact

\* Within a dispatch every index is worked on with the function of that
\* dispatch and the context it belongs to: a reset worker waits for its wake
\* and does not go on with an orphaned dispatch (main_x86.c:2882-2883, "each
\* worker is reconstructed to re-enter jarvis_sel4_worker_entry cleanly
\* (re-park on its wake").
OwnJob == InDispatch => \A t \in Threads : pc[t] = "call" => FnOf(t) = ctx

\* A dispatch is done when it says so, and does nobody else's work.
PoolSafe == JoinExact /\ OwnJob

\* The pool implements what its caller relies on.
AbsTask == IF InDispatch THEN fn ELSE Nobody
AbsTodo == IF InDispatch THEN next_idx .. (end - 1) ELSE {}
AbsOut  == IF InDispatch THEN {CallOf(t) : t \in {s \in Threads : pc[s] = "call"}}
                         ELSE {}
Abs == INSTANCE ParallelFor WITH task <- AbsTask, todo <- AbsTodo, out <- AbsOut
ImplementsParallelFor == Abs!Spec

\* A dispatch always ends, unless a respawn takes PB-main away from it: no
\* wake-up is lost between counting, signalling and waiting.
DispatchEnds == pc[Main] = "signal" ~> pc[Main] \in {"joined", "suspended"}
=============================================================================
