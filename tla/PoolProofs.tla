------------------------------ MODULE PoolProofs ------------------------------
(***************************************************************************)
(* For every number of workers, every set of jobs and every size of range: *)
(* the types of WorkerPool, and, as long as no worker is reset with its    *)
(* wake pending, that its dispatches are exact, respawns included, and     *)
(* that it implements ParallelFor.  Then the same of HostPool, for every   *)
(* width of its generation number and whatever wakes its threads.  Last,   *)
(* the types of the three pools of MCPools beside each other.              *)
(***************************************************************************)
EXTENDS MCPools, FiniteSetTheorems, TLAPS

LEMMA Sizes ==
    /\ N \in Nat \ {0} /\ MaxRestarts \in Nat /\ Nobody \notin Jobs
    /\ \A n \in Ends : n \in Nat \ {0}
    /\ Main \in Threads /\ Main \notin Workers
    /\ \A w \in Workers : w \in Threads /\ w # Main /\ w \in Nat
    /\ \A t \in Threads : t = Main \/ t \in Workers
    /\ 1 \in Workers
    /\ \A i \in Workers : (i < N => i + 1 \in Workers) /\ i <= N /\ i >= 1
BY PoolAssumption DEF Main, Workers, Threads

LEMMA EndOfNat ==
    ASSUME TypeOK, NEW t \in Threads
    PROVE  EndOf(t) \in Nat
BY Sizes DEF TypeOK, EndOf

-----------------------------------------------------------------------------
(* Every field keeps its type, for every value of the constants. *)

THEOREM PoolTypeCorrect == Spec => []TypeOK
<1>1. ASSUME Init PROVE TypeOK
  <2> USE <1>1, Sizes DEF Init
  <2>1. pc \in [Threads -> MainLabels \union WorkerLabels] /\ pc[Main] \in MainLabels
    BY DEF MainLabels, WorkerLabels
  <2>2. \A w \in Workers : pc[w] \in WorkerLabels
    BY DEF WorkerLabels
  <2>3. got \in [Workers -> [fn : Jobs \union {Nobody}, end : Nat]]
    BY DEF Fresh
  <2>4. wake \in [Workers -> BOOLEAN] /\ idx \in [Threads -> Nat]
    OBVIOUS
  <2>5. k \in Workers /\ restarts \in 0 .. MaxRestarts
    OBVIOUS
  <2>6. end \in Nat /\ next_idx \in Nat /\ active \in Int
    OBVIOUS
  <2>8. done \in BOOLEAN
    OBVIOUS
  <2>7. ctx \in Jobs \union {Nobody} /\ fn \in Jobs \union {Nobody}
    OBVIOUS
  <2> HIDE DEF Init
  <2> QED BY ONLY <2>1, <2>2, <2>3, <2>4, <2>5, <2>6, <2>7, <2>8 DEF TypeOK
<1>2. TypeOK /\ [Next]_vars => TypeOK'
  <2> SUFFICES ASSUME TypeOK, [Next]_vars PROVE TypeOK'
    OBVIOUS
  <2> USE Sizes DEF TypeOK, MainLabels, WorkerLabels, Goto, pool
  <2>1. ASSUME NEW j \in Jobs, NEW n \in Ends, Dispatch(j, n) PROVE TypeOK'
    BY <2>1 DEF Dispatch
  <2>2. CASE Aim
    BY <2>2 DEF Aim
  <2>3. CASE Arm
    BY <2>3 DEF Arm
  <2>4. CASE Signal
    BY <2>4 DEF Signal
  <2>5. CASE Join
    BY <2>5 DEF Join
  <2>6. CASE GoOn
    BY <2>6 DEF GoOn
  <2>7. ASSUME NEW t \in Threads, Loops(t) PROVE TypeOK'
    <3>1. CASE Take(t)
      BY <3>1 DEF Take
    <3>2. CASE NoneLeft(t)
      BY <3>2 DEF NoneLeft
    <3>3. CASE Finish(t)
      BY <3>3 DEF Finish
    <3> QED BY <2>7, <3>1, <3>2, <3>3 DEF Loops
  <2>8. ASSUME NEW w \in Workers, Park(w) PROVE TypeOK'
    BY <2>8 DEF Park
  <2>16. ASSUME NEW w \in Workers, Load(w) PROVE TypeOK'
    BY <2>16 DEF Load
  <2>9. ASSUME NEW w \in Workers, Leave(w) PROVE TypeOK'
    BY <2>9 DEF Leave, Fresh
  <2>10. ASSUME NEW w \in Workers, SignalDone(w) PROVE TypeOK'
    BY <2>10 DEF SignalDone
  <2>11. CASE ResetWorker
    BY <2>11 DEF ResetWorker, Fresh
  <2>12. CASE PollWake
    BY <2>12 DEF PollWake, Loop
  <2>13. CASE PollDone
    BY <2>13 DEF PollDone
  <2>17. CASE PoolInit
    BY <2>17 DEF PoolInit
  <2>14. CASE Suspend
    BY <2>14 DEF Suspend
  <2>15. CASE UNCHANGED vars
    BY <2>15 DEF vars
  <2> QED
    BY <2>1, <2>2, <2>3, <2>4, <2>5, <2>6, <2>7, <2>8, <2>9, <2>10, <2>11, <2>12,
       <2>13, <2>14, <2>15, <2>16, <2>17
    DEF Next, MainGoesOn, Dispatcher, Respawn, Worker
<1> QED BY <1>1, <1>2, PTL DEF Spec
-----------------------------------------------------------------------------
(* The workers that owe, counted. *)

LEMMA OwingProps ==
    /\ Owing \subseteq Workers /\ IsFiniteSet(Owing)
    /\ Cardinality(Owing) \in Nat /\ (Cardinality(Owing) = 0 <=> Owing = {})
    /\ Cardinality(Workers) = N
<1>1. IsFiniteSet(Workers) /\ Cardinality(Workers) = N
  BY FS_Interval, Sizes DEF Workers
<1>2. Owing \subseteq Workers
  BY DEF Owing
<1>3. IsFiniteSet(Owing)
  BY <1>1, <1>2, FS_Subset
<1> QED BY <1>1, <1>2, <1>3, FS_CardinalityType, FS_EmptySet

LEMMA OwingLess ==
    ASSUME NEW w \in Owing
    PROVE  /\ Cardinality(Owing \ {w}) = Cardinality(Owing) - 1
           /\ Cardinality(Owing) = 1 => Owing \ {w} = {}
<1>1. IsFiniteSet(Owing \ {w}) /\ Cardinality(Owing \ {w}) = Cardinality(Owing) - 1
  BY OwingProps, FS_RemoveElement
<1> QED BY <1>1, FS_EmptySet

-----------------------------------------------------------------------------
(* The dispatcher preserves the invariant. *)

LEMMA DispatchInv ==
    ASSUME TypeOK, PoolInv, NEW j \in Jobs, NEW n \in Ends, Dispatch(j, n)
    PROVE  PoolInv'
<1> USE Sizes DEF TypeOK, PoolInv, Dispatch, Goto
<1>1. pc[Main] = "idle" /\ pc'[Main] = "aim" /\ \A w \in Workers : pc'[w] = pc[w]
  OBVIOUS
<1>2. QuietInv' /\ LoopInv'
  BY <1>1 DEF QuietInv, LoopInv, Parked
<1>3. JobInv'
  BY <1>1 DEF JobInv
<1> QED BY <1>1, <1>2, <1>3 DEF CountInv, DoneInv, IndexInv, ResetInv, JoinExact, InDispatch

LEMMA AimInv == ASSUME TypeOK, PoolInv, Aim PROVE PoolInv'
<1> USE Sizes DEF TypeOK, PoolInv, Aim, Goto, pool
<1>1. pc[Main] = "aim" /\ pc'[Main] = "arm" /\ \A w \in Workers : pc'[w] = pc[w]
  OBVIOUS
<1>2. QuietInv' /\ LoopInv'
  BY <1>1 DEF QuietInv, LoopInv, Parked
<1>3. JobInv'
  BY <1>1 DEF JobInv
<1> QED BY <1>1, <1>2, <1>3 DEF CountInv, DoneInv, IndexInv, ResetInv, JoinExact, InDispatch

LEMMA ArmInv == ASSUME TypeOK, PoolInv, Arm PROVE PoolInv'
<1> USE Sizes DEF TypeOK, PoolInv, Arm, Goto, pool
<1>1. pc[Main] = "arm" /\ pc'[Main] = "signal" /\ \A w \in Workers : pc'[w] = pc[w]
  OBVIOUS
<1>2. k = 1 /\ ~done /\ \A w \in Workers : Parked(w)
  BY <1>1 DEF QuietInv, LoopInv
<1>3. Owing' = Workers
  BY <1>1, <1>2 DEF Owing, ToSignal
<1>4. CountInv'
  BY <1>1, <1>2, <1>3, OwingProps DEF CountInv, Parked, Running, ToSignal
<1>5. DoneInv'
  BY <1>1, <1>2 DEF DoneInv, Parked
<1>6. JobInv'
  BY <1>1 DEF JobInv, InDispatch
<1>7. IndexInv'
  BY <1>1, <1>2 DEF IndexInv, Parked
<1> QED BY <1>1, <1>4, <1>5, <1>6, <1>7 DEF QuietInv, ResetInv, LoopInv, JoinExact

LEMMA SignalInv == ASSUME TypeOK, PoolInv, Signal PROVE PoolInv'
<1> USE Sizes DEF TypeOK, PoolInv, Signal, Goto, pool
<1>1. /\ pc[Main] = "signal" /\ k \in Workers
      /\ pc'[Main] = IF k < N THEN "signal" ELSE "take"
      /\ \A w \in Workers \ {k} : pc'[w] = pc[w] /\ wake'[w] = wake[w]
  OBVIOUS
<1>2. ~wake[k] /\ ~Running(k)
  BY <1>1 DEF CountInv, InDispatch, ToSignal
<1>3. \/ pc[k] = "parked" /\ pc'[k] = "woken" /\ ~wake'[k]
      \/ pc[k] # "parked" /\ pc'[k] = pc[k] /\ wake'[k]
  BY <1>1, <1>2
<1>4. \A w \in Workers : ToSignal(w)' <=> ToSignal(w) /\ w # k
  BY <1>1 DEF ToSignal, Workers
<1>5. Owing' = Owing
  BY <1>1, <1>3, <1>4 DEF Owing, Running, ToSignal
<1>6. CountInv'
  BY <1>1, <1>2, <1>3, <1>4, <1>5 DEF CountInv, InDispatch, Running
<1>7. \A w \in Workers : pc'[w] = "last" <=> pc[w] = "last"
  BY <1>1, <1>3
<1>8. DoneInv'
  BY <1>1, <1>7 DEF DoneInv, InDispatch
<1>9. JobInv'
  BY <1>1 DEF JobInv, InDispatch
<1>10. IndexInv'
  <2>1. \A w \in Workers : pc'[w] \in {"take", "call", "leave"} => pc'[w] = pc[w]
    BY <1>1, <1>3
  <2>2. \A t \in Threads : pc'[t] = "call" => pc[t] = "call"
    BY <1>1, <2>1
  <2> QED BY <1>1, <2>1, <2>2 DEF IndexInv, InDispatch
<1>11. LoopInv'
  BY <1>1 DEF LoopInv
<1> QED BY <1>1, <1>6, <1>8, <1>9, <1>10, <1>11 DEF QuietInv, ResetInv, JoinExact

LEMMA JoinInv == ASSUME TypeOK, PoolInv, Join PROVE PoolInv'
<1> USE Sizes DEF TypeOK, PoolInv, Join, Goto, pool
<1>1. /\ pc[Main] = "join" /\ pc'[Main] = IF done THEN "joined" ELSE "blocked"
      /\ \A w \in Workers : pc'[w] = pc[w]
  OBVIOUS
<1>2. InDispatch /\ k = 1
  BY <1>1 DEF InDispatch, LoopInv
<1>3. CASE done
  <2>1. Owing = {} /\ \A w \in Workers : pc[w] # "last"
    BY <1>2, <1>3, OwingProps DEF CountInv, DoneInv
  <2>2. \A w \in Workers : Parked(w)
    BY <2>1 DEF Owing, Running, Parked, WorkerLabels
  <2>3. QuietInv' /\ JoinExact' /\ LoopInv'
    BY <1>1, <1>2, <1>3, <2>2 DEF QuietInv, JoinExact, LoopInv, Parked, Running, IndexInv
  <2> QED
    BY <1>1, <1>3, <2>3 DEF CountInv, DoneInv, JobInv, IndexInv, ResetInv, InDispatch
<1>4. CASE ~done
  <2>1. Owing' = Owing
    BY <1>1, <1>4 DEF Owing, Running, ToSignal
  <2>2. CountInv' /\ DoneInv'
    BY <1>1, <1>2, <1>4, <2>1 DEF CountInv, DoneInv, InDispatch, Running, ToSignal
  <2>3. JobInv' /\ LoopInv'
    BY <1>1, <1>2, <1>4 DEF JobInv, LoopInv, InDispatch
  <2>4. IndexInv'
    BY <1>1, <1>2, <1>4 DEF IndexInv, InDispatch
  <2> QED BY <1>1, <1>4, <2>2, <2>3, <2>4 DEF QuietInv, ResetInv, JoinExact
<1> QED BY <1>3, <1>4

LEMMA GoOnInv == ASSUME TypeOK, PoolInv, GoOn PROVE PoolInv'
<1> USE Sizes DEF TypeOK, PoolInv, GoOn, Goto, pool
<1>1. pc[Main] = "joined" /\ pc'[Main] = "idle" /\ \A w \in Workers : pc'[w] = pc[w]
  OBVIOUS
<1>2. QuietInv' /\ LoopInv'
  BY <1>1 DEF QuietInv, LoopInv, Parked
<1> QED
  BY <1>1, <1>2 DEF CountInv, DoneInv, JobInv, IndexInv, ResetInv, JoinExact, InDispatch

-----------------------------------------------------------------------------
(* So does every thread in the loop over the indices. *)

\* Outside a dispatch only PA's respawn has threads in the loop.
LEMMA LoopState ==
    ASSUME TypeOK, PoolInv, NEW t \in Threads, pc[t] \in {"take", "call", "woken", "leave", "last"}
    PROVE  /\ InDispatch \/ pc[Main] = "suspended"
           /\ pc[Main] = "suspended" => t \in Workers /\ t >= k
<1> USE Sizes DEF TypeOK, PoolInv
<1>1. CASE t = Main
  BY <1>1 DEF InDispatch, MainLabels
<1>2. CASE t \in Workers
  <2>1. ~Parked(t)
    BY DEF Parked
  <2>2. pc[Main] \notin {"idle", "aim", "arm", "joined", "poll", "pollDone", "init"}
    BY <1>2, <2>1 DEF QuietInv, ResetInv
  <2>3. pc[Main] = "suspended" => t >= k
    BY <1>2, <2>1 DEF ResetInv, Workers
  <2> QED BY <1>2, <2>2, <2>3 DEF InDispatch, MainLabels
<1> QED BY <1>1, <1>2

LEMMA TakeInv == ASSUME TypeOK, PoolInv, NEW t \in Threads, Take(t) PROVE PoolInv'
<1> USE Sizes DEF TypeOK, PoolInv, Take, Goto, pool
<1>1. /\ pc[t] = "take" /\ pc'[t] = "call" /\ idx'[t] = next_idx /\ next_idx' = next_idx + 1
      /\ \A s \in Threads \ {t} : pc'[s] = pc[s] /\ idx'[s] = idx[s]
  OBVIOUS
<1>2. InDispatch' <=> InDispatch
  BY <1>1 DEF InDispatch
<1>3. InDispatch \/ (pc[Main] = "suspended" /\ t \in Workers /\ t >= k)
  BY <1>1, LoopState
<1>4. QuietInv' /\ LoopInv' /\ JoinExact'
  BY <1>1, <1>3 DEF QuietInv, LoopInv, JoinExact, InDispatch
<1>5. ResetInv'
  BY <1>1, <1>3 DEF ResetInv, InDispatch, Parked, Workers
<1>6. Owing' = Owing
  BY <1>1 DEF Owing, Running, ToSignal
<1>7. CountInv'
  BY <1>1, <1>2, <1>6 DEF CountInv, Running, ToSignal
<1>8. DoneInv'
  BY <1>1, <1>2 DEF DoneInv
<1>9. JobInv'
  BY <1>1, <1>2, <1>3 DEF JobInv, InDispatch
<1>10. IndexInv'
  BY <1>1, <1>2 DEF IndexInv
<1> QED BY <1>4, <1>5, <1>7, <1>8, <1>9, <1>10

LEMMA NoneLeftInv == ASSUME TypeOK, PoolInv, NEW t \in Threads, NoneLeft(t) PROVE PoolInv'
<1> USE Sizes DEF TypeOK, PoolInv, NoneLeft, Goto, pool
<1>1. /\ pc[t] = "take" /\ pc'[t] = IF t = Main THEN "join" ELSE "leave"
      /\ next_idx' = next_idx + 1 /\ next_idx >= EndOf(t)
      /\ \A s \in Threads \ {t} : pc'[s] = pc[s]
  OBVIOUS
<1>2. InDispatch' <=> InDispatch
  BY <1>1 DEF InDispatch
<1>3. InDispatch \/ (pc[Main] = "suspended" /\ t \in Workers /\ t >= k)
  BY <1>1, LoopState
<1>4. QuietInv' /\ LoopInv' /\ JoinExact'
  BY <1>1, <1>3 DEF QuietInv, LoopInv, JoinExact, InDispatch
<1>5. ResetInv'
  BY <1>1, <1>3 DEF ResetInv, InDispatch, Parked, Workers
<1>6. Owing' = Owing
  BY <1>1 DEF Owing, Running, ToSignal
<1>7. CountInv'
  BY <1>1, <1>2, <1>6 DEF CountInv, Running, ToSignal
<1>8. DoneInv'
  BY <1>1, <1>2 DEF DoneInv
<1>9. JobInv'
  BY <1>1, <1>2, <1>3 DEF JobInv, InDispatch
<1>10. IndexInv'
  BY <1>1, <1>2 DEF IndexInv, EndOf
<1> QED BY <1>4, <1>5, <1>7, <1>8, <1>9, <1>10

LEMMA FinishInv == ASSUME TypeOK, PoolInv, NEW t \in Threads, Finish(t) PROVE PoolInv'
<1> USE Sizes DEF TypeOK, PoolInv, Finish, Goto, pool
<1>1. /\ pc[t] = "call" /\ pc'[t] = "take"
      /\ \A s \in Threads \ {t} : pc'[s] = pc[s] /\ idx'[s] = idx[s]
  OBVIOUS
<1>2. InDispatch' <=> InDispatch
  BY <1>1 DEF InDispatch
<1>3. InDispatch \/ (pc[Main] = "suspended" /\ t \in Workers /\ t >= k)
  BY <1>1, LoopState
<1>4. QuietInv' /\ LoopInv' /\ JoinExact'
  BY <1>1, <1>3 DEF QuietInv, LoopInv, JoinExact, InDispatch
<1>5. ResetInv'
  BY <1>1, <1>3 DEF ResetInv, InDispatch, Parked, Workers
<1>6. Owing' = Owing
  BY <1>1 DEF Owing, Running, ToSignal
<1>7. CountInv'
  BY <1>1, <1>2, <1>6 DEF CountInv, Running, ToSignal
<1>8. DoneInv'
  BY <1>1, <1>2 DEF DoneInv
<1>9. JobInv'
  BY <1>1, <1>2, <1>3 DEF JobInv, InDispatch
<1>10. IndexInv'
  BY <1>1, <1>2 DEF IndexInv
<1> QED BY <1>4, <1>5, <1>7, <1>8, <1>9, <1>10

-----------------------------------------------------------------------------
(* So does a worker on its way in and out of a dispatch. *)

LEMMA ParkInv == ASSUME TypeOK, PoolInv, NEW w \in Workers, Park(w) PROVE PoolInv'
<1> USE Sizes DEF TypeOK, PoolInv, Park, Goto, pool
<1>1. /\ pc[w] = "parking" /\ pc'[w] = IF wake[w] THEN "woken" ELSE "parked"
      /\ ~wake'[w] /\ pc'[Main] = pc[Main]
      /\ \A v \in Workers \ {w} : pc'[v] = pc[v] /\ wake'[v] = wake[v]
  OBVIOUS
<1>2. InDispatch' <=> InDispatch
  BY <1>1 DEF InDispatch
<1>3. \A v \in Workers : Parked(v) => Parked(v)'
  BY <1>1 DEF Parked
<1>4. QuietInv' /\ LoopInv' /\ ResetInv' /\ JobInv'
  BY <1>1, <1>2, <1>3 DEF QuietInv, LoopInv, ResetInv, JobInv, Workers
<1>5. JoinExact'
  BY <1>1, <1>3 DEF JoinExact, QuietInv, Parked, Running
<1>6. Owing' = Owing
  BY <1>1 DEF Owing, Running, ToSignal
<1>7. CountInv'
  BY <1>1, <1>2, <1>6 DEF CountInv, Running, ToSignal
<1>8. DoneInv'
  BY <1>1, <1>2 DEF DoneInv
<1>9. IndexInv'
  <2>1. \A t \in Threads : pc'[t] \in {"take", "call", "leave"} => pc'[t] = pc[t]
    BY <1>1
  <2> QED BY <1>1, <1>2, <2>1 DEF IndexInv
<1> QED BY <1>4, <1>5, <1>7, <1>8, <1>9

LEMMA LoadInv == ASSUME TypeOK, PoolInv, NEW w \in Workers, Load(w) PROVE PoolInv'
<1> USE Sizes DEF TypeOK, PoolInv, Load, Goto, pool
<1>1. /\ pc[w] = "woken" /\ pc'[w] = "take" /\ pc'[Main] = pc[Main]
      /\ got'[w] = [fn |-> fn, end |-> end]
      /\ \A v \in Workers \ {w} : pc'[v] = pc[v] /\ got'[v] = got[v]
  OBVIOUS
<1>2. InDispatch' <=> InDispatch
  BY <1>1 DEF InDispatch
<1>3. InDispatch \/ (pc[Main] = "suspended" /\ w >= k)
  BY <1>1, LoopState
<1>4. QuietInv' /\ LoopInv' /\ JoinExact'
  BY <1>1, <1>3 DEF QuietInv, LoopInv, JoinExact, InDispatch
<1>5. ResetInv' /\ JobInv'
  BY <1>1, <1>2, <1>3 DEF ResetInv, JobInv, InDispatch, Parked, Workers
<1>6. Owing' = Owing
  BY <1>1 DEF Owing, Running, ToSignal
<1>7. CountInv'
  BY <1>1, <1>2, <1>6 DEF CountInv, Running, ToSignal
<1>8. DoneInv'
  BY <1>1, <1>2 DEF DoneInv
<1>9. IndexInv'
  BY <1>1, <1>2 DEF IndexInv
<1> QED BY <1>4, <1>5, <1>7, <1>8, <1>9

LEMMA LeaveInv == ASSUME TypeOK, PoolInv, NEW w \in Workers, Leave(w) PROVE PoolInv'
<1> USE Sizes DEF TypeOK, PoolInv, Leave, Goto, pool
<1>1. /\ pc[w] = "leave" /\ pc'[w] = IF active = 1 THEN "last" ELSE "parking"
      /\ pc'[Main] = pc[Main] /\ active' = active - 1
      /\ \A v \in Workers \ {w} : pc'[v] = pc[v] /\ got'[v] = got[v]
  OBVIOUS
<1>2. InDispatch' <=> InDispatch
  BY <1>1 DEF InDispatch
<1>3. InDispatch \/ (pc[Main] = "suspended" /\ w >= k)
  BY <1>1, LoopState
<1>4. QuietInv' /\ LoopInv' /\ JoinExact'
  BY <1>1, <1>3 DEF QuietInv, LoopInv, JoinExact, InDispatch
<1>5. ResetInv' /\ JobInv'
  BY <1>1, <1>2, <1>3 DEF ResetInv, JobInv, InDispatch, Parked, Workers
<1>6. IndexInv'
  BY <1>1, <1>2 DEF IndexInv
<1>7. ASSUME InDispatch PROVE CountInv' /\ DoneInv'
  <2>1. w \in Owing /\ ~wake[w] /\ ~ToSignal(w)
    BY <1>1, <1>7 DEF Owing, CountInv, Running
  <2>2. Owing' = Owing \ {w}
    BY <1>1, <2>1 DEF Owing, Running, ToSignal
  <2>3. Cardinality(Owing)' = active' /\ active # 0
    BY <1>1, <1>7, <2>1, <2>2, OwingLess, OwingProps DEF CountInv
  <2>4. CountInv'
    BY <1>1, <1>7, <2>1, <2>3 DEF CountInv, Running, ToSignal
  <2>5. ~done /\ \A v \in Workers : pc[v] # "last"
    BY <1>7, <2>3 DEF DoneInv
  <2>6. DoneInv'
    BY <1>1, <2>3, <2>5 DEF DoneInv
  <2> QED BY <2>4, <2>6
<1> QED BY <1>2, <1>4, <1>5, <1>6, <1>7 DEF CountInv, DoneInv

LEMMA SignalDoneInv ==
    ASSUME TypeOK, PoolInv, NEW w \in Workers, SignalDone(w)
    PROVE  PoolInv'
<1> USE Sizes DEF TypeOK, PoolInv, SignalDone, Goto, pool
<1>1. /\ pc[w] = "last" /\ pc'[w] = "parking"
      /\ \A v \in Workers \ {w} : pc'[v] = pc[v]
  OBVIOUS
<1>2. InDispatch \/ (pc[Main] = "suspended" /\ w >= k)
  BY <1>1, LoopState
<1>4. CASE pc[Main] = "blocked"
  <2>1. pc'[Main] = "joined" /\ ~done' /\ InDispatch /\ k = 1
    BY <1>4 DEF InDispatch, DoneInv, LoopInv
  <2>2. Owing = {} /\ \A v \in Workers \ {w} : pc[v] # "last"
    BY <1>1, <2>1, OwingProps DEF CountInv, DoneInv
  <2>3. \A v \in Workers : Parked(v)'
    BY <1>1, <2>2 DEF Owing, Running, Parked, WorkerLabels
  <2>4. QuietInv' /\ JoinExact' /\ LoopInv'
    BY <2>1, <2>3, <1>4 DEF QuietInv, JoinExact, LoopInv, Parked, Running, IndexInv
  <2> QED BY <2>1, <2>4 DEF CountInv, DoneInv, JobInv, IndexInv, ResetInv, InDispatch
<1>5. CASE pc[Main] # "blocked"
  <2>1. pc'[Main] = pc[Main] /\ done'
    BY <1>5
  <2>2. InDispatch' <=> InDispatch
    BY <2>1 DEF InDispatch
  <2>3. QuietInv' /\ LoopInv' /\ JoinExact'
    BY <1>2, <2>1 DEF QuietInv, LoopInv, JoinExact, InDispatch
  <2>4. ResetInv' /\ JobInv'
    BY <1>1, <1>2, <2>1, <2>2 DEF ResetInv, JobInv, InDispatch, Parked, Workers
  <2>5. Owing' = Owing
    BY <1>1, <2>1 DEF Owing, Running, ToSignal
  <2>6. CountInv'
    BY <1>1, <2>1, <2>2, <2>5 DEF CountInv, Running, ToSignal
  <2>7. DoneInv'
    BY <1>1, <1>5, <2>1, <2>2 DEF DoneInv
  <2>8. IndexInv'
    <3>1. \A t \in Threads : pc'[t] \in {"take", "call", "leave"} => pc'[t] = pc[t]
      BY <1>1, <2>1
    <3> QED BY <2>1, <2>2, <3>1 DEF IndexInv
  <2> QED BY <2>3, <2>4, <2>6, <2>7, <2>8
<1> QED BY <1>4, <1>5

-----------------------------------------------------------------------------
(* So does a respawn, when the workers are reset with no wake pending. *)

LEMMA SuspendInv == ASSUME TypeOK, PoolInv, Suspend PROVE PoolInv'
<1> USE Sizes DEF TypeOK, PoolInv, Suspend, Goto, pool
<1>1. pc'[Main] = "suspended" /\ k' = 1
  OBVIOUS
<1> QED
  BY <1>1 DEF QuietInv, CountInv, DoneInv, JobInv, IndexInv, ResetInv, LoopInv, JoinExact,
     InDispatch

LEMMA ResetWorkerInv ==
    ASSUME TypeOK, PoolInv, ~PendingAtReset, ResetWorker
    PROVE  PoolInv'
<1> USE Sizes DEF TypeOK, PoolInv, ResetWorker, pool
<1>1. /\ pc[Main] = "suspended" /\ ~wake[k] /\ pc'[k] = "parking" /\ wake' = wake
      /\ pc'[Main] = IF k < N THEN "suspended" ELSE "poll"
      /\ \A v \in Workers \ {k} : pc'[v] = pc[v]
  OBVIOUS
<1>2. \A w \in 1 .. k : Parked(w)'
  <2> TAKE w \in 1 .. k
  <2>1. w \in Workers /\ (w = k \/ w \in 1 .. (k - 1))
    BY DEF Workers
  <2> QED BY <1>1, <2>1 DEF ResetInv, Parked
<1>3. ResetInv' /\ LoopInv'
  BY <1>1, <1>2 DEF ResetInv, LoopInv, Workers
<1> QED
  BY <1>1, <1>3 DEF QuietInv, CountInv, DoneInv, JobInv, IndexInv, JoinExact, InDispatch

LEMMA PollWakeInv == ASSUME TypeOK, PoolInv, PollWake PROVE PoolInv'
<1> USE Sizes DEF TypeOK, PoolInv, PollWake, Loop, Goto, pool
<1>1. /\ pc[Main] = "poll" /\ pc'[Main] = (IF k < N THEN "poll" ELSE "pollDone")
      /\ \A v \in Workers : pc'[v] = pc[v] /\ (wake'[v] => wake[v])
  OBVIOUS
<1>2. ResetInv' /\ LoopInv'
  BY <1>1 DEF ResetInv, LoopInv, Parked
<1> QED
  BY <1>1, <1>2 DEF QuietInv, CountInv, DoneInv, JobInv, IndexInv, JoinExact, InDispatch

LEMMA PollDoneInv == ASSUME TypeOK, PoolInv, PollDone PROVE PoolInv'
<1> USE Sizes DEF TypeOK, PoolInv, PollDone, Goto, pool
<1>1. /\ pc[Main] = "pollDone" /\ pc'[Main] = "init" /\ ~done'
      /\ \A v \in Workers : pc'[v] = pc[v]
  OBVIOUS
<1>2. ResetInv' /\ LoopInv'
  BY <1>1 DEF ResetInv, LoopInv, Parked
<1> QED
  BY <1>1, <1>2 DEF QuietInv, CountInv, DoneInv, JobInv, IndexInv, JoinExact, InDispatch

LEMMA PoolInitInv == ASSUME TypeOK, PoolInv, PoolInit PROVE PoolInv'
<1> USE Sizes DEF TypeOK, PoolInv, PoolInit, Goto, pool
<1>1. /\ pc[Main] = "init" /\ pc'[Main] = "idle"
      /\ \A v \in Workers : pc'[v] = pc[v]
  OBVIOUS
<1>2. QuietInv' /\ LoopInv'
  BY <1>1 DEF ResetInv, QuietInv, LoopInv, Parked
<1> QED
  BY <1>1, <1>2 DEF CountInv, DoneInv, JobInv, IndexInv, ResetInv, JoinExact, InDispatch

LEMMA InitPoolInv == Init => PoolInv
BY Sizes DEF Init, PoolInv, QuietInv, CountInv, DoneInv, JobInv, IndexInv, ResetInv, LoopInv,
   JoinExact, InDispatch, Parked

LEMMA NextPoolInv ==
    ASSUME ~PendingAtReset
    PROVE  TypeOK /\ PoolInv /\ [Next]_vars => PoolInv'
<1> SUFFICES ASSUME TypeOK, PoolInv, [Next]_vars PROVE PoolInv'
  OBVIOUS
<1>1. ASSUME NEW t \in Threads, Loops(t) PROVE PoolInv'
  BY <1>1, TakeInv, NoneLeftInv, FinishInv DEF Loops
<1>2. CASE \E j \in Jobs, n \in Ends : Dispatch(j, n)
  BY <1>2, DispatchInv
<1>3. CASE Dispatcher
  BY <1>3, AimInv, ArmInv, SignalInv, JoinInv, GoOnInv DEF Dispatcher
<1>4. CASE Respawn
  BY <1>4, ResetWorkerInv, PollWakeInv, PollDoneInv, PoolInitInv DEF Respawn
<1>5. CASE \E w \in Workers : Worker(w)
  BY <1>5, <1>1, Sizes, ParkInv, LoadInv, LeaveInv, SignalDoneInv DEF Worker
<1>6. CASE Suspend
  BY <1>6, SuspendInv
<1>7. CASE UNCHANGED vars
  BY <1>7 DEF vars, PoolInv, QuietInv, CountInv, DoneInv, JobInv, IndexInv, ResetInv, LoopInv,
     JoinExact, InDispatch, Parked, Owing, Running, ToSignal
<1> QED BY <1>1, <1>2, <1>3, <1>4, <1>5, <1>6, <1>7, Sizes DEF Next, MainGoesOn

\* threadpool_sel4.c with respawns that find no wake pending: quiet between
\* dispatches, exact accounting within one.
THEOREM PoolInvariance == ASSUME ~PendingAtReset PROVE Spec => []PoolInv
<1>1. Init => PoolInv
  BY InitPoolInv
<1>2. TypeOK /\ PoolInv /\ [Next]_vars => PoolInv'
  BY NextPoolInv
<1> QED BY <1>1, <1>2, PoolTypeCorrect, PTL DEF Spec

\* The join of a dispatch is exact and its indices are worked on with its own
\* function and context.
THEOREM PoolSafety == ASSUME ~PendingAtReset PROVE Spec => []PoolSafe
<1>1. TypeOK /\ PoolInv => PoolSafe
  <2> SUFFICES ASSUME TypeOK, PoolInv, InDispatch, NEW t \in Threads, pc[t] = "call"
               PROVE  FnOf(t) = ctx
    BY DEF PoolInv, OwnJob, PoolSafe
  <2> QED BY Sizes DEF PoolInv, IndexInv, JobInv, FnOf
<1> QED BY <1>1, PoolInvariance, PoolTypeCorrect, PTL

-----------------------------------------------------------------------------
(* The pool implements ParallelFor. *)

Callers == {s \in Threads : pc[s] = "call"}

\* Whatever leaves the calls and the indices of a dispatch alone.
LEMMA Stutter ==
    ASSUME InDispatch' <=> InDispatch,
           InDispatch => /\ UNCHANGED <<fn, ctx, end>> /\ Callers' = Callers
                         /\ next_idx' = next_idx \/ (next_idx >= end /\ next_idx' >= end)
                         /\ next_idx \in Nat /\ next_idx' \in Nat /\ end \in Nat
                         /\ \A t \in Callers : CallOf(t)' = CallOf(t)
    PROVE  UNCHANGED Abs!vars
<1>1. AbsTask' = AbsTask
  BY DEF AbsTask
<1>2. AbsTodo' = AbsTodo
  BY DEF AbsTodo
<1>3. AbsOut' = AbsOut
  BY DEF AbsOut, Callers
<1> QED BY <1>1, <1>2, <1>3 DEF Abs!vars

LEMMA ArmStarts == ASSUME TypeOK, PoolInv, Arm PROVE Abs!Next
<1> USE Sizes DEF TypeOK, PoolInv, Arm, Goto, pool
<1>1. pc[Main] = "arm" /\ pc'[Main] = "signal" /\ \A w \in Workers : pc'[w] = pc[w]
  OBVIOUS
<1>2. fn \in Jobs /\ end \in Ends /\ next_idx = 0 /\ \A w \in Workers : Parked(w)
  BY <1>1 DEF JobInv, QuietInv
<1>3. Callers' = {}
  BY <1>1, <1>2 DEF Callers, Parked
<1>4. AbsTask = Nobody /\ AbsTask' = fn /\ AbsTodo' = 0 .. (end - 1)
  BY <1>1, <1>2 DEF AbsTask, AbsTodo, InDispatch
<1>5. AbsOut = {} /\ AbsOut' = {}
  BY <1>1, <1>3 DEF AbsOut, InDispatch, Callers
<1>6. Abs!Start(fn, end)
  BY <1>4, <1>5 DEF Abs!Start
<1> QED BY <1>2, <1>6 DEF Abs!Next

LEMMA TakeHandsOut ==
    ASSUME TypeOK, PoolInv, NEW t \in Threads, Take(t)
    PROVE  Abs!Next \/ UNCHANGED Abs!vars
<1> USE Sizes DEF TypeOK, PoolInv, Take, Goto, pool
<1>1. /\ pc[t] = "take" /\ pc'[t] = "call" /\ idx'[t] = next_idx /\ next_idx' = next_idx + 1
      /\ \A s \in Threads \ {t} : pc'[s] = pc[s] /\ idx'[s] = idx[s]
  OBVIOUS
<1>2. InDispatch' <=> InDispatch
  BY <1>1 DEF InDispatch
<1>3. CASE ~InDispatch
  BY <1>2, <1>3, Stutter
<1>4. CASE InDispatch
  <2>1. fn \in Jobs /\ ctx = fn /\ FnOf(t) = fn /\ EndOf(t) = end
    BY <1>1, <1>4 DEF JobInv, IndexInv, FnOf, EndOf
  <2>2. next_idx \in AbsTodo /\ AbsTodo' = AbsTodo \ {next_idx}
    <3>1. AbsTodo = next_idx .. (end - 1) /\ AbsTodo' = (next_idx + 1) .. (end - 1)
      BY <1>1, <1>2, <1>4 DEF AbsTodo
    <3>2. next_idx \in Nat /\ end \in Nat /\ next_idx < end
      BY <2>1
    <3> QED BY ONLY <3>1, <3>2
  <2>3. Callers' = Callers \union {t} /\ t \notin Callers
    BY <1>1 DEF Callers
  <2>4. CallOf(t)' = [fn |-> fn, ctx |-> fn, idx |-> next_idx]
    BY <1>1, <2>1 DEF CallOf, FnOf
  <2>5. \A s \in Callers : CallOf(s)' = CallOf(s)
    BY <1>1, <2>3 DEF CallOf, FnOf, Callers
  <2>6. AbsOut' = AbsOut \union {[fn |-> fn, ctx |-> fn, idx |-> next_idx]}
    BY <1>2, <1>4, <2>3, <2>4, <2>5 DEF AbsOut, Callers
  <2>7. AbsTask = fn /\ AbsTask' = fn
    BY <1>2, <1>4 DEF AbsTask
  <2>8. Abs!HandOut(next_idx)
    BY <2>2, <2>6, <2>7 DEF Abs!HandOut
  <2> QED BY <2>2, <2>8 DEF Abs!Next
<1> QED BY <1>3, <1>4

LEMMA FinishEndsCall ==
    ASSUME TypeOK, PoolInv, NEW t \in Threads, Finish(t)
    PROVE  Abs!Next \/ UNCHANGED Abs!vars
<1> USE Sizes DEF TypeOK, PoolInv, Finish, Goto, pool
<1>1. /\ pc[t] = "call" /\ pc'[t] = "take"
      /\ \A s \in Threads \ {t} : pc'[s] = pc[s] /\ idx'[s] = idx[s]
  OBVIOUS
<1>2. InDispatch' <=> InDispatch
  BY <1>1 DEF InDispatch
<1>3. CASE ~InDispatch
  BY <1>2, <1>3, Stutter
<1>4. CASE InDispatch
  <2>1. AbsTask' = AbsTask /\ AbsTodo' = AbsTodo
    BY <1>2, <1>4 DEF AbsTask, AbsTodo
  <2>2. Callers' = Callers \ {t} /\ t \in Callers
    BY <1>1 DEF Callers
  <2>3. \A s \in Callers \ {t} : CallOf(s)' = CallOf(s) /\ CallOf(s) # CallOf(t)
    <3> TAKE s \in Callers \ {t}
    <3>1. idx[s] # idx[t] /\ idx'[s] = idx[s]
      BY <1>1, <1>4, <2>2 DEF IndexInv, Callers
    <3> QED BY <3>1 DEF CallOf, FnOf
  <2>4. CallOf(t) \in AbsOut /\ AbsOut' = AbsOut \ {CallOf(t)}
    BY <1>2, <1>4, <2>2, <2>3 DEF AbsOut, Callers
  <2>5. Abs!Finish(CallOf(t))
    BY <2>1, <2>4 DEF Abs!Finish
  <2> QED BY <2>4, <2>5 DEF Abs!Next
<1> QED BY <1>3, <1>4

\* The dispatcher gets past its wait: nothing is left to hand out or to finish.
LEMMA JoinedGoesOn ==
    ASSUME TypeOK, PoolInv, PoolInv', pc[Main] \in {"join", "blocked"}, pc'[Main] = "joined",
           \A w \in Workers : pc'[w] = "call" <=> pc[w] = "call"
    PROVE  Abs!Next
<1> USE Sizes DEF TypeOK, PoolInv
<1>1. InDispatch /\ ~InDispatch' /\ next_idx >= end /\ fn \in Jobs
  BY DEF InDispatch, IndexInv, JobInv
<1>2. Callers = {}
  BY DEF Callers, QuietInv, Parked
<1>3. AbsTask # Nobody /\ AbsTask' = Nobody
  BY <1>1 DEF AbsTask
<1>4. AbsTodo = {} /\ AbsTodo' = {}
  BY <1>1 DEF AbsTodo
<1>5. AbsOut = {} /\ AbsOut' = {}
  BY <1>1, <1>2 DEF AbsOut, Callers
<1> QED BY <1>3, <1>4, <1>5 DEF Abs!Next, Abs!GoOn

LEMMA SuspendAbandons ==
    ASSUME TypeOK, PoolInv, Suspend
    PROVE  Abs!Next \/ UNCHANGED Abs!vars
<1> USE Sizes DEF TypeOK, PoolInv, Suspend, Goto, pool
<1>1. pc'[Main] = "suspended"
  OBVIOUS
<1>2. ~InDispatch'
  BY <1>1 DEF InDispatch
<1>3. CASE InDispatch
  BY <1>2, <1>3 DEF JobInv, AbsTask, AbsTodo, AbsOut, Abs!Next, Abs!Abandon
<1>4. CASE ~InDispatch
  BY <1>2, <1>4, Stutter
<1> QED BY <1>3, <1>4

\* What the dispatcher does besides starting and ending a dispatch.
LEMMA DispatcherStutters ==
    ASSUME TypeOK, PoolInv,
           Aim \/ Signal \/ GoOn \/ \E j \in Jobs, n \in Ends : Dispatch(j, n)
    PROVE  UNCHANGED Abs!vars
<1> USE Sizes DEF TypeOK, PoolInv, Goto, pool
<1>1. CASE Signal
  <2>1. pc[Main] = "signal" /\ pc'[Main] \in {"signal", "take"}
    BY <1>1 DEF Signal
  <2>2. InDispatch /\ InDispatch'
    BY <2>1 DEF InDispatch
  <2>3. \A t \in Threads : pc'[t] = "call" <=> pc[t] = "call"
    BY <1>1, <2>1 DEF Signal
  <2>4. Callers' = Callers
    BY <2>3 DEF Callers
  <2> QED BY <1>1, <2>2, <2>4, Stutter DEF Signal, CallOf, FnOf
<1>2. CASE Aim
  BY <1>2, Stutter DEF Aim, InDispatch
<1>3. CASE GoOn
  BY <1>3, Stutter DEF GoOn, InDispatch
<1>4. ASSUME NEW j \in Jobs, NEW n \in Ends, Dispatch(j, n) PROVE UNCHANGED Abs!vars
  BY <1>4, Stutter DEF Dispatch, InDispatch
<1> QED BY <1>1, <1>2, <1>3, <1>4

LEMMA JoinMaps ==
    ASSUME TypeOK, PoolInv, PoolInv', Join
    PROVE  Abs!Next \/ UNCHANGED Abs!vars
<1> USE Sizes DEF TypeOK, Join, Goto, pool
<1>1. /\ pc[Main] = "join" /\ pc'[Main] = IF done THEN "joined" ELSE "blocked"
      /\ \A w \in Workers : pc'[w] = pc[w]
  OBVIOUS
<1>2. CASE done
  BY <1>1, <1>2, JoinedGoesOn
<1>3. CASE ~done
  <2>1. InDispatch /\ InDispatch' /\ Callers' = Callers
    BY <1>1, <1>3 DEF InDispatch, Callers
  <2> QED BY <2>1, Stutter DEF CallOf, FnOf
<1> QED BY <1>2, <1>3

LEMMA NoneLeftStutters ==
    ASSUME TypeOK, PoolInv, NEW t \in Threads, NoneLeft(t)
    PROVE  UNCHANGED Abs!vars
<1> USE Sizes DEF TypeOK, PoolInv, NoneLeft, Goto, pool
<1>1. /\ pc[t] = "take" /\ pc'[t] = IF t = Main THEN "join" ELSE "leave"
      /\ next_idx' = next_idx + 1 /\ next_idx >= EndOf(t)
      /\ \A s \in Threads \ {t} : pc'[s] = pc[s]
  OBVIOUS
<1>2. InDispatch' <=> InDispatch
  BY <1>1 DEF InDispatch
<1>3. Callers' = Callers
  BY <1>1 DEF Callers
<1>4. InDispatch => next_idx >= end
  BY <1>1 DEF IndexInv, EndOf
<1> QED BY <1>1, <1>2, <1>3, <1>4, Stutter DEF CallOf, FnOf

LEMMA WorkerMaps ==
    ASSUME TypeOK, PoolInv, PoolInv', NEW w \in Workers,
           Park(w) \/ Load(w) \/ Leave(w) \/ SignalDone(w)
    PROVE  Abs!Next \/ UNCHANGED Abs!vars
<1> USE Sizes DEF TypeOK, Goto, pool
<1>1. CASE SignalDone(w) /\ pc[Main] = "blocked"
  BY <1>1, JoinedGoesOn DEF SignalDone
<1>2. CASE ~(SignalDone(w) /\ pc[Main] = "blocked")
  <2>1. pc'[Main] = pc[Main] /\ UNCHANGED <<pool, next_idx, idx>>
    BY <1>2 DEF Park, Load, Leave, SignalDone
  <2>2. /\ pc[w] # "call" /\ pc'[w] # "call"
        /\ \A v \in Workers \ {w} : pc'[v] = pc[v] /\ got'[v] = got[v]
    BY <1>2 DEF Park, Load, Leave, SignalDone
  <2>3. InDispatch' <=> InDispatch
    BY <2>1 DEF InDispatch
  <2>4. Callers' = Callers /\ w \notin Callers
    BY <2>1, <2>2 DEF Callers
  <2>5. \A t \in Callers : CallOf(t)' = CallOf(t)
    BY <2>1, <2>2, <2>4 DEF CallOf, FnOf, Callers
  <2> QED BY <2>1, <2>3, <2>4, <2>5, Stutter
<1> QED BY <1>1, <1>2

LEMMA RespawnStutters == ASSUME TypeOK, Respawn PROVE UNCHANGED Abs!vars
<1> USE Sizes DEF TypeOK, Goto, pool
<1>1. pc[Main] \in {"suspended", "poll", "pollDone", "init"}
  BY DEF Respawn, ResetWorker, PollWake, PollDone, PoolInit
<1>2. pc'[Main] \in {"suspended", "poll", "pollDone", "init", "idle"}
  BY DEF Respawn, ResetWorker, PollWake, PollDone, PoolInit, Loop
<1> QED BY <1>1, <1>2, Stutter DEF InDispatch

\* Every behaviour of the pool, respawns that find no wake pending included, is
\* one of ParallelFor.
THEOREM PoolRefinement == ASSUME ~PendingAtReset PROVE Spec => ImplementsParallelFor
<1>1. Init => Abs!Init
  BY Sizes DEF Init, Abs!Init, AbsTask, AbsTodo, AbsOut, InDispatch
<1>2. ASSUME TypeOK, PoolInv, PoolInv', [Next]_vars PROVE Abs!Next \/ UNCHANGED Abs!vars
  <2> USE <1>2
  <2>1. ASSUME NEW t \in Threads, Loops(t) PROVE Abs!Next \/ UNCHANGED Abs!vars
    BY <2>1, TakeHandsOut, NoneLeftStutters, FinishEndsCall DEF Loops
  <2>2. CASE \E j \in Jobs, n \in Ends : Dispatch(j, n)
    BY <2>2, DispatcherStutters
  <2>3. CASE Dispatcher
    BY <2>3, DispatcherStutters, ArmStarts, JoinMaps DEF Dispatcher
  <2>4. CASE Respawn
    BY <2>4, RespawnStutters
  <2>5. CASE \E w \in Workers : Worker(w)
    BY <2>5, <2>1, Sizes, WorkerMaps DEF Worker
  <2>6. CASE Suspend
    BY <2>6, SuspendAbandons
  <2>7. CASE UNCHANGED vars
    BY <2>7 DEF vars, Abs!vars, AbsTask, AbsTodo, AbsOut, InDispatch, CallOf, FnOf
  <2> QED BY <2>1, <2>2, <2>3, <2>4, <2>5, <2>6, <2>7, Sizes DEF Next, MainGoesOn
<1> QED BY <1>1, <1>2, PoolInvariance, PoolTypeCorrect, PTL DEF Spec, ImplementsParallelFor, Abs!Spec

-----------------------------------------------------------------------------
(* The host pool. *)

LEMMA HandSizes ==
    /\ hostN \in Nat \ {0} /\ GenMod \in Nat /\ GenMod > 1 /\ NoJob \notin HostJobs
    /\ \A n \in HostEnds : n \in Nat \ {0}
    /\ Caller \in Hands /\ Caller \notin Crew
    /\ \A w \in Crew : w \in Hands /\ w # Caller
    /\ \A t \in Hands : t = Caller \/ t \in Crew
BY HostAssumption DEF Caller, Crew, Hands

\* The workers that still owe a pass of the present dispatch.
Owers == {w \in Crew : Busy(w) \/ ~Gated(w)}

\* Whoever is at work has claimed the dispatch the caller waits for, and works on copies of it.
ClaimInv == \A w \in Crew : Busy(w) => Gated(w) /\ mine[w] = posted

\* Only within a call does a worker owe anything, and what is called is a job.
CallInv == IF InCall THEN posted.job \in HostJobs ELSE activeW = 0

\* Who is past the loop of indices has found none left.
RangeInv ==
    /\ doing[Caller] \notin {"take", "call"} => nextIdx >= posted.end
    /\ \A w \in Crew : doing[w] = "leave" => nextIdx >= posted.end

\* The indices being worked on are of the range, handed out, and no two alike.
IndicesInv ==
    /\ \A t \in Hands : doing[t] = "call" => hostIdx[t] < nextIdx
    /\ \A s, t \in Hands : /\ doing[s] = "call" /\ doing[t] = "call" /\ s # t
                           => hostIdx[s] # hostIdx[t]

HostInv == HostTypeOK /\ OwedExact /\ ClaimInv /\ CallInv /\ RangeInv /\ IndicesInv

LEMMA OwersProps ==
    /\ Owers \subseteq Crew /\ IsFiniteSet(Owers)
    /\ Cardinality(Owers) \in 0 .. hostN /\ (Cardinality(Owers) = 0 <=> Owers = {})
    /\ Cardinality(Crew) = hostN
    /\ OwedExact <=> activeW = Cardinality(Owers)
<1>1. IsFiniteSet(Crew) /\ Cardinality(Crew) = hostN
  BY FS_Interval, HandSizes DEF Crew
<1>2. Owers \subseteq Crew
  BY DEF Owers
<1>3. IsFiniteSet(Owers) /\ Cardinality(Owers) <= hostN
  BY <1>1, <1>2, FS_Subset
<1>4. OwedExact <=> activeW = Cardinality(Owers)
  BY DEF OwedExact, Owers
<1> QED BY <1>1, <1>2, <1>3, <1>4, FS_CardinalityType, FS_EmptySet, HandSizes

LEMMA OwersLess ==
    ASSUME NEW w \in Owers
    PROVE  Cardinality(Owers \ {w}) = Cardinality(Owers) - 1
BY OwersProps, FS_RemoveElement

\* The number of a dispatch is not the one before it, also at the wrap.
LEMMA NextGeneration ==
    ASSUME NEW g \in 0 .. (GenMod - 1)
    PROVE  (g + 1) % GenMod \in 0 .. (GenMod - 1) /\ (g + 1) % GenMod # g
<1>1. (g + 1) % GenMod = IF g + 1 = GenMod THEN 0 ELSE g + 1
  BY HandSizes
<1> QED BY <1>1, HandSizes

\* A step that leaves the count and the owers alone keeps it exact.
LEMMA OwersSame == ASSUME OwedExact, Owers' = Owers, activeW' = activeW PROVE OwedExact'
BY DEF OwedExact, Owers

-----------------------------------------------------------------------------
(* The caller preserves the invariant. *)

LEMMA HostDispatchInv ==
    ASSUME HostInv, NEW j \in HostJobs, NEW n \in HostEnds, HostDispatch(j, n)
    PROVE  HostInv'
<1> USE HandSizes DEF HostInv, HostTypeOK, HostDispatch, To
<1>1. /\ doing[Caller] = "idle" /\ doing'[Caller] = "take"
      /\ \A w \in Crew : doing'[w] = doing[w]
      /\ posted' = Job(j, n) /\ nextIdx' = 0 /\ activeW' = hostN
      /\ UNCHANGED <<lastGen, mine, hostIdx>>
  OBVIOUS
<1>2. \A w \in Crew : ~Busy(w) /\ Gated(w)
  BY <1>1, OwersProps DEF CallInv, InCall, Owers
<1>3. generation' \in 0 .. (GenMod - 1) /\ generation' # generation
  BY NextGeneration
<1>4. \A w \in Crew : ~Busy(w)' /\ ~Gated(w)'
  BY <1>1, <1>2, <1>3 DEF Busy, Gated
<1>5. OwedExact'
  <2>1. {w \in Crew : Busy(w)' \/ ~Gated(w)'} = Crew
    BY <1>4
  <2> QED BY <1>1, <2>1, OwersProps DEF OwedExact
<1>6. HostTypeOK'
  <2>1. doing' \in [Hands -> CallerLabels \union CrewLabels] /\ doing'[Caller] \in CallerLabels
    BY <1>1 DEF CallerLabels
  <2>2. roused' \subseteq Hands
    BY DEF Roused, AsleepOnWork
  <2> QED BY <1>1, <1>3, <2>1, <2>2 DEF Posting, Job
<1>7. ClaimInv' /\ CallInv' /\ RangeInv'
  BY <1>1, <1>4 DEF ClaimInv, CallInv, RangeInv, InCall, Job, Busy
<1>8. IndicesInv'
  BY <1>1, <1>2 DEF IndicesInv, Busy
<1> QED BY <1>5, <1>6, <1>7, <1>8

LEMMA HostTakeInv == ASSUME HostInv, NEW t \in Hands, HostTake(t) PROVE HostInv'
<1> USE HandSizes DEF HostInv, HostTypeOK, HostTake, To
<1> DEFINE left == nextIdx < posted.end
<1>1. /\ doing[t] = "take" /\ JobOf(t) = posted /\ nextIdx' = nextIdx + 1
      /\ doing'[t] = IF left THEN "call" ELSE IF t = Caller THEN "join" ELSE "leave"
      /\ \A s \in Hands \ {t} : doing'[s] = doing[s] /\ hostIdx'[s] = hostIdx[s]
      /\ left => hostIdx'[t] = nextIdx
      /\ UNCHANGED <<posted, activeW, generation, lastGen, mine>>
  BY DEF JobOf, ClaimInv, Busy
<1>2. posted.end \in Nat /\ nextIdx \in Nat
  BY DEF Posting
<1>3. \A w \in Crew : (Busy(w)' <=> Busy(w)) /\ (Gated(w)' <=> Gated(w))
  BY <1>1 DEF Busy, Gated
<1>4. InCall' <=> InCall
  BY <1>1 DEF InCall
<1>5. OwedExact'
  BY <1>1, <1>3, OwersSame DEF Owers
<1>6. HostTypeOK'
  <2>1. doing' \in [Hands -> CallerLabels \union CrewLabels] /\ doing'[Caller] \in CallerLabels
        /\ \A w \in Crew : doing'[w] \in CrewLabels
    BY <1>1 DEF CallerLabels, CrewLabels
  <2> QED BY <1>1, <2>1
<1>7. ClaimInv' /\ CallInv' /\ RangeInv'
  BY <1>1, <1>2, <1>3, <1>4 DEF ClaimInv, CallInv, RangeInv
<1>8. IndicesInv'
  BY <1>1, <1>2 DEF IndicesInv
<1> QED BY <1>5, <1>6, <1>7, <1>8

LEMMA HostCallInv == ASSUME HostInv, NEW t \in Hands, HostCall(t) PROVE HostInv'
<1> USE HandSizes DEF HostInv, HostTypeOK, HostCall, To
<1>1. /\ doing[t] = "call" /\ doing'[t] = "take"
      /\ \A s \in Hands \ {t} : doing'[s] = doing[s] /\ hostIdx'[s] = hostIdx[s]
      /\ UNCHANGED <<posted, nextIdx, activeW, generation, lastGen, mine>>
  OBVIOUS
<1>3. \A w \in Crew : (Busy(w)' <=> Busy(w)) /\ (Gated(w)' <=> Gated(w))
  BY <1>1 DEF Busy, Gated
<1>4. InCall' <=> InCall
  BY <1>1 DEF InCall
<1>5. OwedExact'
  BY <1>1, <1>3, OwersSame DEF Owers
<1>6. HostTypeOK'
  <2>1. doing' \in [Hands -> CallerLabels \union CrewLabels] /\ doing'[Caller] \in CallerLabels
        /\ \A w \in Crew : doing'[w] \in CrewLabels
    BY <1>1 DEF CallerLabels, CrewLabels
  <2> QED BY <1>1, <2>1
<1>7. ClaimInv' /\ CallInv' /\ RangeInv'
  BY <1>1, <1>3, <1>4 DEF ClaimInv, CallInv, RangeInv
<1>8. IndicesInv'
  BY <1>1 DEF IndicesInv
<1> QED BY <1>5, <1>6, <1>7, <1>8

\* The caller outside its loop of indices: the join, the return, the shutdown.
LEMMA HostCallerInv ==
    ASSUME HostInv, HostJoin \/ HostReturn \/ HostShutdown \/ HostReaped
    PROVE  HostInv'
<1> USE HandSizes DEF HostInv, HostTypeOK, To
<1>1. /\ doing[Caller] \notin {"take", "call"} /\ doing'[Caller] \in CallerLabels \ {"take", "call"}
      /\ doing' = [doing EXCEPT ![Caller] = doing'[Caller]]
      /\ \A w \in Crew : doing'[w] = doing[w]
      /\ UNCHANGED <<posted, nextIdx, activeW, generation, lastGen, mine, hostIdx>>
  BY DEF HostJoin, HostReturn, HostShutdown, HostReaped, CallerLabels
<1>2. \A w \in Crew : (Busy(w)' <=> Busy(w)) /\ (Gated(w)' <=> Gated(w))
  BY <1>1 DEF Busy, Gated
<1>3. OwedExact'
  BY <1>1, <1>2, OwersSame DEF Owers
<1>4. HostTypeOK'
  <2>1. roused' \subseteq Hands /\ shutting' \in BOOLEAN
    BY DEF HostJoin, HostReturn, HostShutdown, HostReaped, Roused, AsleepOnWork
  <2> QED BY <1>1, <2>1
<1>5. CallInv'
  BY <1>1 DEF CallInv, InCall, HostJoin, HostReturn, HostShutdown, HostReaped
<1>6. ClaimInv' /\ RangeInv'
  BY <1>1, <1>2 DEF ClaimInv, RangeInv
<1>7. IndicesInv'
  <2>1. \A t \in Hands : doing'[t] = "call" => doing[t] = "call"
    BY <1>1
  <2> QED BY <1>1, <2>1 DEF IndicesInv
<1> QED BY <1>3, <1>4, <1>5, <1>6, <1>7

-----------------------------------------------------------------------------
(* The workers preserve the invariant. *)

LEMMA HostGateInv == ASSUME HostInv, NEW w \in Crew, HostGate(w) PROVE HostInv'
<1> USE HandSizes DEF HostInv, HostTypeOK, HostGate, To
<1> DEFINE claims == ~shutting /\ ~Gated(w)
<1>1. /\ doing[w] \in {"gate", "asleep"} /\ doing'[w] \in {"gone", "asleep", "take"}
      /\ doing'[w] = "take" <=> claims
      /\ \A s \in Hands \ {w} : doing'[s] = doing[s]
      /\ \A v \in Crew \ {w} : lastGen'[v] = lastGen[v] /\ mine'[v] = mine[v]
      /\ IF claims THEN lastGen'[w] = generation /\ mine'[w] = posted ELSE UNCHANGED <<lastGen, mine>>
      /\ UNCHANGED <<posted, nextIdx, activeW, generation, hostIdx>>
  BY DEF Claims
<1>2. \A v \in Crew \ {w} : (Busy(v)' <=> Busy(v)) /\ (Gated(v)' <=> Gated(v))
  BY <1>1 DEF Busy, Gated
<1>3. ~Busy(w) /\ (Busy(w)' <=> claims) /\ (Gated(w)' <=> claims \/ Gated(w))
  BY <1>1 DEF Busy, Gated
<1>4. OwedExact'
  <2>1. Owers' = Owers
    BY <1>2, <1>3 DEF Owers
  <2> QED BY <1>1, <2>1, OwersSame
<1>5. HostTypeOK'
  <2>1. doing' \in [Hands -> CallerLabels \union CrewLabels] /\ doing'[w] \in CrewLabels
    BY <1>1 DEF CrewLabels
  <2>2. lastGen' \in [Crew -> 0 .. (GenMod - 1)] /\ mine' \in [Crew -> Posting]
    BY DEF Claims
  <2> QED BY <1>1, <2>1, <2>2
<1>6. InCall' <=> InCall
  BY <1>1 DEF InCall
<1>7. ClaimInv' /\ CallInv' /\ RangeInv'
  BY <1>1, <1>2, <1>3, <1>6 DEF ClaimInv, CallInv, RangeInv
<1>8. IndicesInv'
  BY <1>1 DEF IndicesInv
<1> QED BY <1>4, <1>5, <1>7, <1>8

LEMMA HostLeaveInv == ASSUME HostInv, NEW w \in Crew, HostLeave(w) PROVE HostInv'
<1> USE HandSizes DEF HostInv, HostTypeOK, HostLeave, To
<1>1. /\ doing[w] = "leave" /\ doing'[w] = "gate" /\ activeW' = activeW - 1
      /\ \A s \in Hands \ {w} : doing'[s] = doing[s]
      /\ \A v \in Crew \ {w} : mine'[v] = mine[v]
      /\ UNCHANGED <<posted, nextIdx, generation, lastGen, hostIdx>>
  OBVIOUS
<1>2. Busy(w) /\ Gated(w) /\ ~Busy(w)' /\ Gated(w)'
  BY <1>1 DEF Busy, Gated, ClaimInv
<1>3. \A v \in Crew \ {w} : (Busy(v)' <=> Busy(v)) /\ (Gated(v)' <=> Gated(v))
  BY <1>1 DEF Busy, Gated
<1>4. w \in Owers /\ Owers' = Owers \ {w}
  BY <1>2, <1>3 DEF Owers
<1>5. OwedExact' /\ activeW' \in 0 .. hostN
  <2>1. Cardinality(Owers') = Cardinality(Owers) - 1 /\ Cardinality(Owers) \in 0 .. hostN
    BY <1>4, OwersLess, OwersProps
  <2>2. activeW = Cardinality(Owers) /\ Cardinality(Owers) # 0
    BY <1>4, OwersProps
  <2> QED BY <1>1, <2>1, <2>2 DEF OwedExact, Owers
<1>6. HostTypeOK'
  <2>1. doing' \in [Hands -> CallerLabels \union CrewLabels] /\ doing'[w] \in CrewLabels
    BY <1>1 DEF CrewLabels
  <2>2. mine' \in [Crew -> Posting]
    BY DEF Posting, Job
  <2>3. roused' \subseteq Hands
    BY DEF AsleepOnDone
  <2> QED BY <1>1, <1>5, <2>1, <2>2, <2>3
<1>7. CallInv'
  <2>1. InCall
    BY <1>4, OwersProps DEF CallInv
  <2> QED BY <1>1, <2>1 DEF InCall, CallInv
<1>8. ClaimInv' /\ RangeInv'
  BY <1>1, <1>2, <1>3 DEF ClaimInv, RangeInv
<1>9. IndicesInv'
  BY <1>1 DEF IndicesInv
<1> QED BY <1>5, <1>6, <1>7, <1>8, <1>9

-----------------------------------------------------------------------------

LEMMA HostInitially == HostInit => HostInv
<1> SUFFICES ASSUME HostInit PROVE HostInv
  OBVIOUS
<1> USE HandSizes DEF HostInit
<1>1. \A w \in Crew : doing[w] = "gate" /\ ~Busy(w) /\ Gated(w)
  BY DEF Busy, Gated
<1>2. OwedExact
  <2>1. Owers = {}
    BY <1>1 DEF Owers
  <2> QED BY <2>1, OwersProps
<1>3. HostTypeOK
  <2>1. /\ doing \in [Hands -> CallerLabels \union CrewLabels] /\ doing[Caller] \in CallerLabels
        /\ \A w \in Crew : doing[w] \in CrewLabels
    BY <1>1 DEF CallerLabels, CrewLabels
  <2>2. posted \in Posting /\ mine \in [Crew -> Posting]
    BY DEF Posting, Job
  <2>3. activeW \in 0 .. hostN /\ generation \in 0 .. (GenMod - 1)
    OBVIOUS
  <2>4. lastGen \in [Crew -> 0 .. (GenMod - 1)] /\ hostIdx \in [Hands -> Nat]
    BY <2>3
  <2> QED BY <2>1, <2>2, <2>3, <2>4 DEF HostTypeOK
<1>4. ClaimInv /\ CallInv /\ RangeInv /\ IndicesInv
  BY <1>1 DEF ClaimInv, CallInv, RangeInv, IndicesInv, InCall, Job
<1> QED BY <1>2, <1>3, <1>4 DEF HostInv

LEMMA HostInductive == ASSUME HostInv, [HostNext]_hostVars PROVE HostInv'
<1>1. ASSUME NEW j \in HostJobs, NEW n \in HostEnds, HostDispatch(j, n) PROVE HostInv'
  BY <1>1, HostDispatchInv
<1>2. CASE HostCaller
  BY <1>2, HandSizes, HostCallerInv, HostTakeInv, HostCallInv DEF HostCaller
<1>3. CASE HostShutdown
  BY <1>3, HostCallerInv
<1>4. ASSUME NEW w \in Crew, HostCrew(w) PROVE HostInv'
  BY <1>4, HandSizes, HostGateInv, HostLeaveInv, HostTakeInv, HostCallInv DEF HostCrew
<1>5. CASE HostSerial \/ UNCHANGED hostVars \/ \E t \in Hands : Spurious(t)
  <2>1. /\ UNCHANGED <<posted, nextIdx, activeW, generation, lastGen, shutting, doing, mine, hostIdx>>
        /\ roused \subseteq Hands => roused' \subseteq Hands
    BY <1>5 DEF HostSerial, Spurious, hostVars
  <2>2. HostTypeOK'
    BY <2>1 DEF HostInv, HostTypeOK
  <2> QED BY <2>1, <2>2 DEF HostInv, OwedExact, ClaimInv, CallInv, RangeInv, IndicesInv, Busy, Gated, InCall
<1> QED BY <1>1, <1>2, <1>3, <1>4, <1>5 DEF HostNext

\* Fields, copies and counts of the host pool keep their types.
THEOREM HostTypeCorrect == HostSpec => []HostTypeOK
<1>1. HostInv => HostTypeOK
  BY DEF HostInv
<1> QED BY <1>1, HostInitially, HostInductive, PTL DEF HostSpec

\* threadpool.c: the count of active workers is exact, whichever of them is slow to wake and
\* over any number of wraps of the generation number, and the caller goes on only when every
\* index is handed out and every worker has run the dispatch.
THEOREM HostPoolExact == HostSpec => []HostExact
<1>1. ASSUME HostInv PROVE HostExact
  <2>1. ASSUME doing[Caller] \in {"joined", "idle"}
        PROVE  nextIdx >= posted.end /\ \A w \in Crew : ~Busy(w) /\ Gated(w)
    BY <1>1, <2>1, OwersProps DEF HostInv, CallInv, InCall, RangeInv, Owers
  <2> QED BY <1>1, <2>1 DEF HostInv, HostExact, HostJoinExact
<1> QED BY <1>1, HostInitially, HostInductive, PTL DEF HostSpec

-----------------------------------------------------------------------------
(* The host pool implements ParallelFor. *)

HostCallers == {s \in Hands : doing[s] = "call"}

\* Whatever leaves the calls and the indices of a dispatch alone.
LEMMA HostStutter ==
    ASSUME InCall' <=> InCall,
           InCall => /\ posted' = posted /\ posted.end \in Nat
                     /\ nextIdx' = nextIdx \/ (nextIdx >= posted.end /\ nextIdx' >= posted.end)
                     /\ nextIdx \in Nat /\ nextIdx' \in Nat,
           HostCallers' = HostCallers, \A t \in HostCallers : HostCallOf(t)' = HostCallOf(t)
    PROVE  UNCHANGED HostAbs!vars
<1>1. HostTask' = HostTask /\ HostTodo' = HostTodo
  BY DEF HostTask, HostTodo
<1>2. HostCalls' = HostCalls
  BY DEF HostCalls, HostCallers
<1> QED BY <1>1, <1>2 DEF HostAbs!vars

\* Nobody is in a call of the function unless the caller is in jarvis_parallel_for.
LEMMA HostQuiet == ASSUME HostInv, ~InCall PROVE HostCallers = {} /\ HostCalls = {}
<1>1. HostCallers = {}
  BY HandSizes, OwersProps DEF HostInv, CallInv, HostCallers, InCall, Owers, Busy
<1> QED BY <1>1 DEF HostCalls, HostCallers

LEMMA HostDispatchStarts ==
    ASSUME HostInv, NEW j \in HostJobs, NEW n \in HostEnds, HostDispatch(j, n), HostInv'
    PROVE  HostAbs!Next
<1> USE HandSizes DEF HostDispatch, To
<1>1. doing[Caller] = "idle" /\ doing'[Caller] = "take" /\ \A w \in Crew : doing'[w] = doing[w]
  BY DEF HostInv, HostTypeOK
<1>2. ~InCall /\ InCall'
  BY <1>1 DEF InCall
<1>3. HostTask = NoJob /\ HostTask' = j /\ HostTodo' = 0 .. (n - 1)
  BY <1>2 DEF HostTask, HostTodo, Job
<1>4. HostCalls = {} /\ HostCallers' = {}
  BY <1>1, <1>2, HostQuiet DEF HostCallers
<1>5. HostCalls' = {}
  BY <1>4 DEF HostCalls, HostCallers
<1>6. HostAbs!Start(j, n)
  BY <1>3, <1>4, <1>5 DEF HostAbs!Start
<1> QED BY <1>6 DEF HostAbs!Next

LEMMA HostTakeMaps ==
    ASSUME HostInv, NEW t \in Hands, HostTake(t)
    PROVE  HostAbs!Next \/ UNCHANGED HostAbs!vars
<1> USE HandSizes DEF HostTake, To
<1> DEFINE left == nextIdx < posted.end
<1>1. /\ doing[t] = "take" /\ JobOf(t) = posted /\ nextIdx' = nextIdx + 1
      /\ doing'[t] = IF left THEN "call" ELSE IF t = Caller THEN "join" ELSE "leave"
      /\ \A s \in Hands \ {t} : doing'[s] = doing[s] /\ hostIdx'[s] = hostIdx[s]
      /\ left => hostIdx'[t] = nextIdx
      /\ UNCHANGED <<posted, mine>>
  BY DEF HostInv, HostTypeOK, JobOf, ClaimInv, Busy
<1>2. InCall /\ InCall' /\ posted.job \in HostJobs
  BY <1>1, OwersProps DEF HostInv, CallInv, InCall, Owers, Busy
<1>3. posted.end \in Nat /\ nextIdx \in Nat
  BY DEF HostInv, HostTypeOK, Posting
<1>4. \A s \in HostCallers : s # t /\ s \in HostCallers' /\ HostCallOf(s)' = HostCallOf(s)
  BY <1>1 DEF HostCallers, HostCallOf, JobOf
<1>5. CASE ~left
  <2>1. HostCallers' = HostCallers
    BY <1>1, <1>4, <1>5 DEF HostCallers
  <2> QED BY <1>1, <1>2, <1>3, <1>4, <1>5, <2>1, HostStutter
<1>6. CASE left
  <2> DEFINE c == [fn |-> posted.job, ctx |-> posted.job, idx |-> nextIdx]
  <2>1. HostTodo = nextIdx .. (posted.end - 1) /\ HostTodo' = (nextIdx + 1) .. (posted.end - 1)
    BY <1>1, <1>2 DEF HostTodo
  <2>2. nextIdx \in HostTodo /\ HostTodo' = HostTodo \ {nextIdx}
    BY <1>3, <1>6, <2>1
  <2>3. HostCallers' = HostCallers \union {t} /\ HostCallOf(t)' = c
    BY <1>1, <1>4, <1>6 DEF HostCallers, HostCallOf, JobOf
  <2>4. HostCalls' = HostCalls \union {c}
    BY <1>4, <2>3 DEF HostCalls, HostCallers
  <2>5. HostTask = posted.job /\ HostTask' = HostTask
    BY <1>1, <1>2 DEF HostTask
  <2>6. HostAbs!HandOut(nextIdx)
    BY <2>2, <2>4, <2>5 DEF HostAbs!HandOut
  <2> QED BY <2>2, <2>6 DEF HostAbs!Next
<1> QED BY <1>5, <1>6

LEMMA HostCallMaps ==
    ASSUME HostInv, NEW t \in Hands, HostCall(t)
    PROVE  HostAbs!Next
<1> USE HandSizes DEF HostCall, To
<1>1. /\ doing[t] = "call" /\ doing'[t] = "take"
      /\ \A s \in Hands \ {t} : doing'[s] = doing[s] /\ hostIdx'[s] = hostIdx[s]
      /\ UNCHANGED <<posted, nextIdx, mine>>
  BY DEF HostInv, HostTypeOK
<1>2. HostTask' = HostTask /\ HostTodo' = HostTodo
  BY <1>1 DEF HostTask, HostTodo, InCall
<1>3. HostCallers' = HostCallers \ {t} /\ t \in HostCallers
  BY <1>1 DEF HostCallers
<1>4. \A s \in HostCallers \ {t} : HostCallOf(s)' = HostCallOf(s) /\ HostCallOf(s) # HostCallOf(t)
  <2> TAKE s \in HostCallers \ {t}
  <2>1. hostIdx[s] # hostIdx[t] /\ hostIdx'[s] = hostIdx[s]
    BY <1>1 DEF HostInv, IndicesInv, HostCallers
  <2> QED BY <1>1, <2>1 DEF HostCallOf, JobOf
<1>5. HostCallOf(t) \in HostCalls /\ HostCalls' = HostCalls \ {HostCallOf(t)}
  BY <1>3, <1>4 DEF HostCalls, HostCallers
<1>6. HostAbs!Finish(HostCallOf(t))
  BY <1>2, <1>5 DEF HostAbs!Finish
<1> QED BY <1>5, <1>6 DEF HostAbs!Next

LEMMA HostJoinMaps ==
    ASSUME HostInv, HostJoin, HostInv'
    PROVE  HostAbs!Next \/ UNCHANGED HostAbs!vars
<1> USE HandSizes DEF HostJoin, To
<1>1. /\ doing[Caller] \in {"join", "waiting"}
      /\ doing'[Caller] = IF activeW = 0 THEN "joined" ELSE "waiting"
      /\ \A w \in Crew : doing'[w] = doing[w]
      /\ UNCHANGED <<posted, nextIdx, mine, hostIdx>>
  BY DEF HostInv, HostTypeOK
<1>2. HostCallers' = HostCallers
  BY <1>1 DEF HostCallers
<1>3. CASE activeW # 0
  BY <1>1, <1>2, <1>3, HostStutter DEF InCall, HostCallOf, JobOf, HostInv, HostTypeOK, Posting
<1>4. CASE activeW = 0
  <2>1. InCall /\ ~InCall' /\ posted.job \in HostJobs /\ nextIdx >= posted.end
    BY <1>1, <1>4 DEF InCall, HostInv, CallInv, RangeInv
  <2>2. HostTask = posted.job /\ HostTask' = NoJob
    BY <2>1 DEF HostTask
  <2>3. HostTodo = {} /\ HostTodo' = {}
    BY <2>1 DEF HostTodo, HostInv, HostTypeOK, Posting
  <2>4. HostCallers = {}
    BY <1>1, <1>4, OwersProps DEF HostCallers, HostInv, Owers, Busy
  <2>5. HostCalls = {} /\ HostCalls' = {}
    BY <1>2, <2>4 DEF HostCalls, HostCallers
  <2>6. HostAbs!GoOn
    BY <2>1, <2>2, <2>3, <2>5 DEF HostAbs!GoOn
  <2> QED BY <2>6 DEF HostAbs!Next
<1> QED BY <1>3, <1>4

\* What neither hands out an index nor ends a call nor a dispatch.
LEMMA HostRestStutters ==
    ASSUME HostInv,
           \/ HostReturn \/ HostShutdown \/ HostReaped \/ HostSerial \/ UNCHANGED hostVars
           \/ \E w \in Crew : HostGate(w) \/ HostLeave(w)
           \/ \E t \in Hands : Spurious(t)
    PROVE  UNCHANGED HostAbs!vars
<1> USE HandSizes DEF To
<1>1. /\ UNCHANGED <<posted, nextIdx, hostIdx>>
      /\ InCall' <=> InCall
      /\ \A t \in Hands : doing'[t] = "call" <=> doing[t] = "call"
      /\ \A w \in Crew : doing[w] = "call" => mine'[w] = mine[w]
  <2>1. CASE HostReturn \/ HostShutdown \/ HostReaped
    BY <2>1 DEF HostReturn, HostShutdown, HostReaped, HostInv, HostTypeOK, InCall
  <2>2. ASSUME NEW w \in Crew, HostGate(w)
        PROVE /\ UNCHANGED <<posted, nextIdx, hostIdx>>
              /\ InCall' <=> InCall
              /\ \A t \in Hands : doing'[t] = "call" <=> doing[t] = "call"
              /\ \A v \in Crew : doing[v] = "call" => mine'[v] = mine[v]
    BY <2>2 DEF HostGate, HostInv, HostTypeOK, InCall
  <2>3. ASSUME NEW w \in Crew, HostLeave(w)
        PROVE /\ UNCHANGED <<posted, nextIdx, hostIdx>>
              /\ InCall' <=> InCall
              /\ \A t \in Hands : doing'[t] = "call" <=> doing[t] = "call"
              /\ \A v \in Crew : doing[v] = "call" => mine'[v] = mine[v]
    BY <2>3 DEF HostLeave, HostInv, HostTypeOK, InCall
  <2>4. CASE HostSerial \/ UNCHANGED hostVars \/ \E t \in Hands : Spurious(t)
    BY <2>4 DEF HostSerial, Spurious, hostVars, InCall
  <2> QED BY <2>1, <2>2, <2>3, <2>4
<1>2. HostCallers' = HostCallers
  BY <1>1 DEF HostCallers
<1>3. \A t \in HostCallers : HostCallOf(t)' = HostCallOf(t)
  BY <1>1 DEF HostCallers, HostCallOf, JobOf
<1> QED BY <1>1, <1>2, <1>3, HostStutter DEF HostInv, HostTypeOK, Posting

\* threadpool.c keeps the promise of jarvis_parallel_for: every behaviour of the host pool,
\* spurious wake-ups and the shutdown included, is one of ParallelFor.
THEOREM HostPoolRefinement == HostSpec => HostImplementsParallelFor
<1>1. HostInit => HostAbs!Init
  BY HandSizes DEF HostInit, HostAbs!Init, HostTask, HostTodo, HostCalls, InCall
<1>2. ASSUME HostInv, HostInv', [HostNext]_hostVars PROVE HostAbs!Next \/ UNCHANGED HostAbs!vars
  <2> USE <1>2
  <2>1. CASE \E j \in HostJobs, n \in HostEnds : HostDispatch(j, n)
    BY <2>1, HostDispatchStarts
  <2>2. CASE HostCaller
    BY <2>2, HandSizes, HostJoinMaps, HostTakeMaps, HostCallMaps, HostRestStutters DEF HostCaller
  <2>3. CASE \E w \in Crew : HostCrew(w)
    BY <2>3, HandSizes, HostTakeMaps, HostCallMaps, HostRestStutters DEF HostCrew
  <2>4. CASE HostShutdown \/ HostSerial \/ UNCHANGED hostVars \/ \E t \in Hands : Spurious(t)
    BY <2>4, HostRestStutters
  <2> QED BY <2>1, <2>2, <2>3, <2>4 DEF HostNext
<1> QED BY <1>1, <1>2, HostInitially, HostInductive, PTL
        DEF HostSpec, HostImplementsParallelFor, HostAbs!Spec

-----------------------------------------------------------------------------
(* The pools beside each other, as the run has them: the pool of PB with a wake *)
(* pending at a reset is a second instance, with two workers and one job.       *)

LEMMA RoughSizes ==
    /\ 2 \in Nat \ {0} /\ MaxRestarts \in Nat /\ Nobody \notin {job1}
    /\ \A n \in Ends : n \in Nat \ {0}
    /\ Rough!Main \in Rough!Threads /\ Rough!Main \notin Rough!Workers
    /\ \A w \in Rough!Workers : w \in Rough!Threads /\ w # Rough!Main /\ w \in Nat
    /\ \A t \in Rough!Threads : t = Rough!Main \/ t \in Rough!Workers
    /\ 1 \in Rough!Workers
    /\ \A i \in Rough!Workers : (i < 2 => i + 1 \in Rough!Workers) /\ i <= 2 /\ i >= 1
BY PoolAssumption, PoolsAssumption DEF Rough!Main, Rough!Workers, Rough!Threads

LEMMA RoughStarts == Rough!Init => Rough!TypeOK
<1> SUFFICES ASSUME Rough!Init PROVE Rough!TypeOK
  OBVIOUS
<1> USE RoughSizes DEF Rough!Init
<1>1. /\ rpc \in [Rough!Threads -> Rough!MainLabels \union Rough!WorkerLabels]
      /\ rpc[Rough!Main] \in Rough!MainLabels
  BY DEF Rough!MainLabels, Rough!WorkerLabels
<1>2. \A w \in Rough!Workers : rpc[w] \in Rough!WorkerLabels
  BY DEF Rough!WorkerLabels
<1>3. rgot \in [Rough!Workers -> [fn : {job1} \union {Nobody}, end : Nat]]
  BY DEF Rough!Fresh
<1>4. rwake \in [Rough!Workers -> BOOLEAN] /\ ridx \in [Rough!Threads -> Nat]
  OBVIOUS
<1>5. rk \in Rough!Workers /\ rrestarts \in 0 .. MaxRestarts
  OBVIOUS
<1>6. rend \in Nat /\ rnext \in Nat /\ ractive \in Int
  OBVIOUS
<1>8. rdone \in BOOLEAN
  OBVIOUS
<1>7. rctx \in {job1} \union {Nobody} /\ rfn \in {job1} \union {Nobody}
  OBVIOUS
<1> HIDE DEF Rough!Init
<1> QED BY ONLY <1>1, <1>2, <1>3, <1>4, <1>5, <1>6, <1>7, <1>8 DEF Rough!TypeOK

LEMMA RoughGoesOn == Rough!TypeOK /\ [Rough!Next]_roughVars => Rough!TypeOK'
<1> SUFFICES ASSUME Rough!TypeOK, [Rough!Next]_roughVars PROVE Rough!TypeOK'
  OBVIOUS
<1> USE RoughSizes DEF Rough!TypeOK, Rough!MainLabels, Rough!WorkerLabels, Rough!Goto, Rough!pool
<1>1. ASSUME NEW j \in {job1}, NEW n \in Ends, Rough!Dispatch(j, n) PROVE Rough!TypeOK'
  BY <1>1 DEF Rough!Dispatch
<1>2. CASE Rough!Aim
  BY <1>2 DEF Rough!Aim
<1>3. CASE Rough!Arm
  BY <1>3 DEF Rough!Arm
<1>4. CASE Rough!Signal
  BY <1>4 DEF Rough!Signal
<1>5. CASE Rough!Join
  BY <1>5 DEF Rough!Join
<1>6. CASE Rough!GoOn
  BY <1>6 DEF Rough!GoOn
<1>7. ASSUME NEW t \in Rough!Threads, Rough!Loops(t) PROVE Rough!TypeOK'
  <2>1. CASE Rough!Take(t)
    BY <2>1 DEF Rough!Take
  <2>2. CASE Rough!NoneLeft(t)
    BY <2>2 DEF Rough!NoneLeft
  <2>3. CASE Rough!Finish(t)
    BY <2>3 DEF Rough!Finish
  <2> QED BY <1>7, <2>1, <2>2, <2>3 DEF Rough!Loops
<1>8. ASSUME NEW w \in Rough!Workers, Rough!Park(w) PROVE Rough!TypeOK'
  BY <1>8 DEF Rough!Park
<1>16. ASSUME NEW w \in Rough!Workers, Rough!Load(w) PROVE Rough!TypeOK'
  BY <1>16 DEF Rough!Load
<1>9. ASSUME NEW w \in Rough!Workers, Rough!Leave(w) PROVE Rough!TypeOK'
  BY <1>9 DEF Rough!Leave, Rough!Fresh
<1>10. ASSUME NEW w \in Rough!Workers, Rough!SignalDone(w) PROVE Rough!TypeOK'
  BY <1>10 DEF Rough!SignalDone
<1>11. CASE Rough!ResetWorker
  BY <1>11 DEF Rough!ResetWorker, Rough!Fresh
<1>12. CASE Rough!PollWake
  BY <1>12 DEF Rough!PollWake, Rough!Loop
<1>13. CASE Rough!PollDone
  BY <1>13 DEF Rough!PollDone
<1>17. CASE Rough!PoolInit
  BY <1>17 DEF Rough!PoolInit
<1>14. CASE Rough!Suspend
  BY <1>14 DEF Rough!Suspend
<1>15. CASE UNCHANGED roughVars
  BY <1>15 DEF roughVars
<1> QED
  BY <1>1, <1>2, <1>3, <1>4, <1>5, <1>6, <1>7, <1>8, <1>9, <1>10, <1>11, <1>12,
     <1>13, <1>14, <1>15, <1>16, <1>17
  DEF Rough!Next, Rough!MainGoesOn, Rough!Dispatcher, Rough!Respawn, Rough!Worker

RoughTypes == Rough!TypeOK

\* Every variable of the three pools keeps its type, whichever of them runs.
THEOREM PoolsTypesCorrect == PoolsSpec => []PoolTypes
<1>1. PoolsInit => Init /\ RoughTypes /\ HostInv
  BY RoughStarts, HostInitially DEF PoolsInit, RoughTypes
<1>2. [PoolsNext]_poolsVars =>
        [Next]_vars /\ [Rough!Next]_roughVars /\ [HostNext]_hostVars
  BY DEF PoolsNext, poolsVars, Sel4Part, RoughPart, HostPart
<1>3. RoughTypes /\ [Rough!Next]_roughVars => RoughTypes'
  BY RoughGoesOn DEF RoughTypes
<1>4. HostInv /\ [HostNext]_hostVars => HostInv'
  BY HostInductive
<1>5. TypeOK /\ RoughTypes /\ HostInv => PoolTypes
  BY DEF PoolTypes, RoughTypes, HostInv
<1>6. Spec => []TypeOK
  BY PoolTypeCorrect
<1> QED BY <1>1, <1>2, <1>3, <1>4, <1>5, <1>6, PTL DEF PoolsSpec, Spec
=============================================================================
