---------------------------- MODULE ParallelFor ----------------------------
(***************************************************************************)
(* What jarvis_parallel_for promises its caller: every index of the range  *)
(* is handed once to the function of this very call, with its context, by  *)
(* any thread and in any order, and the caller goes on only when all of    *)
(* them have finished.  A restart of PB abandons a call under way.         *)
(* WorkerPool is shown to implement it.                                    *)
(***************************************************************************)
EXTENDS Naturals

CONSTANTS Jobs,   \* function and context of a call
          Ends,   \* sizes of a range
          Nobody  \* "no call under way"

VARIABLES task,   \* the job under way, or Nobody
          todo,   \* its indices not handed out yet
          out     \* function calls under way

vars == <<task, todo, out>>

Init == task = Nobody /\ todo = {} /\ out = {}

Start(j, n) ==
    /\ task = Nobody
    /\ task' = j
    /\ todo' = 0 .. (n - 1)
    /\ UNCHANGED out

HandOut(i) ==
    /\ i \in todo
    /\ todo' = todo \ {i}
    /\ out' = out \union {[fn |-> task, ctx |-> task, idx |-> i]}
    /\ UNCHANGED task

Finish(c) ==
    /\ c \in out
    /\ out' = out \ {c}
    /\ UNCHANGED <<task, todo>>

GoOn ==
    /\ task # Nobody /\ todo = {} /\ out = {}
    /\ task' = Nobody
    /\ UNCHANGED <<todo, out>>

Abandon == task # Nobody /\ task' = Nobody /\ todo' = {} /\ out' = {}

Next ==
    \/ \E j \in Jobs, n \in Ends : Start(j, n)
    \/ \E i \in todo : HandOut(i)
    \/ \E c \in out : Finish(c)
    \/ GoOn
    \/ Abandon

Spec == Init /\ [][Next]_vars
=============================================================================
