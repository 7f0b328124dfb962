------------------------------ MODULE MCStores ------------------------------
(* What is kept, for TLC: the replay floor under power losses and under warm   *)
(* resets, the store of control-IN turns, the decision cache and its growth    *)
(* from the store, and the household store, once for each sort of slot.  The   *)
(* cache and its growth share the table, the other parts share no variable: a  *)
(* behaviour is one part's, the rest rests.                                    *)
EXTENDS ReplayFloor, RecallStore, CacheGrowth, BeliefStore

CONSTANTS k1, k2, k3, k4, a1, act1, own, guest, home, habit, tie, v1, v2

MCKeys == {k1, k2}

\* The floor, on a box that loses power and on one that restarts with the drive powered.
MCDeployments == {{"power"}, {"warm"}}

\* The cache by itself, and under growth with one query less.
MCQueries  == {k1, k2, k3, k4}
MCAsked    == {k1, k2, k3}
MCHome     == k1 :> 2 @@ k2 :> 2 @@ k3 :> 0 @@ k4 :> 1
MCPatterns == k1 :> act1
MCActions  == {a1, act1}

\* The household store with a slot of one value, for three rows; with one of two values, for
\* two; with an edge, for one row and three spans of two days and two voices, of which the
\* guest's may be named against the edge.
MCClusters == {own, guest}
MCDay    == 1 :> 1 @@ 2 :> 2 @@ 3 :> 1
MCVoice  == 1 :> own @@ 2 :> own @@ 3 :> guest
MCSlots  == {home, habit, tie}
MCMulti  == {habit, tie}
MCEdges  == {tie}
MCValues == {v1, v2}
MCHouseholds ==
    {[spans |-> {1}, slots |-> {home}, values |-> {v1}, dates |-> {1, 2}, against |-> {},
      rows |-> 3],
     [spans |-> {1}, slots |-> {habit}, values |-> {v1, v2}, dates |-> {1}, against |-> {},
      rows |-> 2],
     [spans |-> 1 .. 3, slots |-> {tie}, values |-> {v1}, dates |-> {1}, against |-> {3},
      rows |-> 1]}

VARIABLE part   \* the part this behaviour is about

storeVars == <<part, vars, rsVars, growVars, beliefVars>>

StoresInit ==
    /\ part \in {"floor", "recall", "cache", "growth", "house"}
    /\ Init /\ RsInit /\ GrowInit /\ BeliefInit
    /\ part # "floor" => resets = {"power"}
    /\ part # "house" => house.rows = 1

FloorRests  == UNCHANGED vars
RecallRests == UNCHANGED rsVars
GrowthRests == UNCHANGED growVars
HouseRests  == UNCHANGED beliefVars

FloorPart(A)  == part = "floor" /\ A /\ RecallRests /\ GrowthRests /\ HouseRests /\ UNCHANGED part
RecallPart(A) == part = "recall" /\ A /\ FloorRests /\ GrowthRests /\ HouseRests /\ UNCHANGED part
CachePart(A)  == /\ part = "cache" /\ A /\ FloorRests /\ RecallRests /\ HouseRests
                 /\ UNCHANGED <<part, freq, batch, growAt, growPhase, growth, kept, seenBy>>
GrowthPart(A) == part = "growth" /\ A /\ FloorRests /\ RecallRests /\ HouseRests /\ UNCHANGED part
HousePart(A)  == part = "house" /\ A /\ FloorRests /\ RecallRests /\ GrowthRests /\ UNCHANGED part

StoresNext ==
    \/ FloorPart(Next) \/ RecallPart(RsNext)
    \/ CachePart(CacheNext) \/ GrowthPart(GrowNext) \/ HousePart(BeliefNext)

StoresSpec == StoresInit /\ [][StoresNext]_storeVars

\* Every variable of the parts keeps its type.
StoreTypes == TypeOK /\ StoreTypeOK /\ CacheTypeOK /\ CgTypeOK /\ BeliefTypeOK

\* Every entry is found by the probe of its own query, by itself and under growth
\* (cache_lookup stops at the first EMPTY), and growth takes nothing from the table.
CacheSound == Reachable /\ GrowthKeeps
=============================================================================
