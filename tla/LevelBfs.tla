------------------------------ MODULE LevelBfs ------------------------------
(***************************************************************************)
(* What a breadth-first search may do to the depth array, for the software *)
(* variants of bfs/ and for the accelerator.                               *)
(*                                                                         *)
(* Spec is the discipline every implementation keeps: a vertex gets one    *)
(* label, level+1, and only through an edge from a vertex labelled at an   *)
(* earlier level.  ExactSpec adds that a level ends only when every edge   *)
(* leaving it was followed, which makes the labels the distances.          *)
(***************************************************************************)
EXTENDS Integers, RootedGraph

VARIABLES depth, level, done

Unvisited == -1

bfsVars == <<depth, level, done>>

Init ==
    /\ depth = [v \in Vertices |-> IF v = Root THEN 0 ELSE Unvisited]
    /\ level = 0
    /\ done = FALSE

\* v is labelled through an edge from a vertex of this level or an earlier one.
Visit(v) ==
    /\ ~done
    /\ depth[v] = Unvisited
    /\ \E u \in Vertices : <<u, v>> \in Edge /\ depth[u] \in 0 .. level
    /\ depth' = [depth EXCEPT ![v] = level + 1]
    /\ UNCHANGED <<level, done>>

Advance ==
    /\ ~done
    /\ level' = level + 1
    /\ UNCHANGED <<depth, done>>

Finish ==
    /\ ~done
    /\ done' = TRUE
    /\ UNCHANGED <<depth, level>>

Next == (\E v \in Vertices : Visit(v)) \/ Advance \/ Finish
Spec == Init /\ [][Next]_bfsVars

\* The frontier of a level was followed to the end.
LevelComplete == \A e \in Edge : depth[e[1]] = level => depth[e[2]] # Unvisited
NoFrontier == \A v \in Vertices : depth[v] # level

ExactVisit(v) ==
    /\ \E u \in Vertices : <<u, v>> \in Edge /\ depth[u] = level
    /\ Visit(v)
ExactNext == \/ \E v \in Vertices : ExactVisit(v)
             \/ LevelComplete /\ Advance
             \/ NoFrontier /\ Finish
ExactSpec == Init /\ [][ExactNext]_bfsVars

-----------------------------------------------------------------------------
HasParent(d, v) == \E u \in Vertices : <<u, v>> \in Edge /\ d[u] \in 0 .. d[v] - 1
HasTightParent(d, v) == \E u \in Vertices : <<u, v>> \in Edge /\ d[u] = d[v] - 1

\* Every label is justified by an edge from a smaller one: no label is less
\* than the distance, and only reachable vertices have one.
SoundLabels(d) ==
    /\ d[Root] = 0
    /\ \A v \in Vertices \ {Root} : d[v] # Unvisited => d[v] > 0 /\ HasParent(d, v)

\* The labels are the distances, and the unvisited vertices the unreachable
\* ones: a label comes from the level just before, and no edge skips a level
\* or leaves the labelled vertices.
ExactLabels(d) ==
    /\ SoundLabels(d)
    /\ \A v \in Vertices \ {Root} : d[v] # Unvisited => HasTightParent(d, v)
    /\ \A e \in Edge : d[e[1]] # Unvisited => d[e[2]] \in 0 .. d[e[1]] + 1

Sound == SoundLabels(depth)
ExactWhenDone == done => ExactLabels(depth)
=============================================================================
