------------------------------ MODULE LruCache ------------------------------
(***************************************************************************)
(* What the decision cache promises its users: a map that answers with the *)
(* action last stored for a query, and that forgets a query only when it   *)
(* is told to or to make room for another one, the least recently used     *)
(* first.  DecisionCache is shown to implement it.                         *)
(***************************************************************************)
EXTENDS SequencesExt

CONSTANTS Queries, Actions,
          Room       \* most queries remembered

VARIABLES recent,    \* the queries remembered, the least recently used first
          stored     \* query remembered -> its action

vars == <<recent, stored>>

Init == recent = <<>> /\ stored = [q \in {} |-> q]

Without(q) == RemoveFirst(recent, q)

\* A lookup that hits; one that misses changes nothing.
Use(q) ==
    /\ q \in DOMAIN stored
    /\ recent' = Append(Without(q), q)
    /\ UNCHANGED stored

Update(q, a) ==
    /\ q \in DOMAIN stored
    /\ recent' = Append(Without(q), q)
    /\ stored' = [stored EXCEPT ![q] = a]

Add(q, a) ==
    /\ q \notin DOMAIN stored
    /\ Len(recent) < Room
    /\ recent' = Append(recent, q)
    /\ stored' = [r \in DOMAIN stored \union {q} |-> IF r = q THEN a ELSE stored[r]]

Replace(q, a) ==
    /\ q \notin DOMAIN stored
    /\ recent # <<>>
    /\ recent' = Append(Tail(recent), q)
    /\ stored' = [r \in (DOMAIN stored \ {Head(recent)}) \union {q} |->
                     IF r = q THEN a ELSE stored[r]]

Forget(q) ==
    /\ q \in DOMAIN stored
    /\ recent' = Without(q)
    /\ stored' = Restrict(stored, DOMAIN stored \ {q})

ForgetAll == recent' = <<>> /\ stored' = [q \in {} |-> q]

Next ==
    \/ \E q \in Queries : Use(q) \/ Forget(q)
    \/ \E q \in Queries, a \in Actions : Update(q, a) \/ Add(q, a) \/ Replace(q, a)
    \/ ForgetAll

Spec == Init /\ [][Next]_vars
=============================================================================
