------------------------------ MODULE SoftwareBfs ------------------------------
(***************************************************************************)
(* The five software searches of bfs/graph.cpp, against which the          *)
(* accelerator is verified: basicBfs, tdBfs, buBfs, hybridBfs and          *)
(* cacheHybridBfs.  They share the loop over levels and differ in how the  *)
(* frontier of a level is found and in the direction edges are followed:   *)
(* top-down from the vertices of the level, or bottom-up from the          *)
(* unvisited ones.                                                         *)
(*                                                                         *)
(* One step handles one edge.  The counts of bytes and bursts, which only  *)
(* reach the log, are left out.                                            *)
(***************************************************************************)
EXTENDS CsrGraph, RootedGraph, FiniteSets

CONSTANTS Variants,    \* the searches to run
          Thresholds,  \* values of hubVertexThreshold and cacheThreshold
          Alphas,      \* values of alpha, as <<numerator, denominator>>
          Betas        \* values of beta

\* The graph searched is the one of the file; startIdx is Root.
ASSUME FileAssumption == Vertices = Vertex /\ Edge = ToSet(Arcs)

VARIABLES variant, param,             \* what main asks for, setBfsParam
          depth, level, frontier,     \* frontier: the part still to traverse
          frontierSize, nextFrontier,
          edge,                       \* edges of the frontier's head already followed
          topDown, visitedNgbNum, frontierHubVertexNum, pingBuffer,
          pc

config == <<variant, param>>
vars == <<config, depth, level, frontier, frontierSize, nextFrontier, edge, topDown,
          visitedNgbNum, frontierHubVertexNum, pingBuffer, pc>>

Init ==
    /\ variant \in Variants
    /\ param \in [hub : Thresholds, cache : Thresholds, alpha : Alphas, beta : Betas]
    /\ depth = [v \in Vertex |-> IF v = Root THEN 0 ELSE -1]
    /\ level = 0
    /\ frontier = <<>> /\ frontierSize = 0
    /\ nextFrontier = <<Root>>
    /\ edge = 0
    /\ topDown = (variant # "bu")
    /\ visitedNgbNum = 0 /\ frontierHubVertexNum = 0 /\ pingBuffer = {}
    /\ pc = "collect"

\* A vertex with many edges, for the switch of direction and for the cache;
\* getHubVertexNum reports at least one so that the share can be computed.
IsHub(v) == OutDegree(v) >= param.hub
hubs == Cardinality({v \in Vertex : IsHub(v)})
getHubVertexNum == IF hubs = 0 THEN 1 ELSE hubs

\* The members of a set of vertices in increasing order.
InOrder(S) == [k \in 1 .. Cardinality(S) |->
                 CHOOSE v \in S : Cardinality({w \in S : w < v}) = k - 1]

\* (Mutant: the count goes on from the level before.)
CountKept == visitedNgbNum
CountRestarted == IF topDown THEN visitedNgbNum ELSE 0

\* The start of a level: basicBfs has gathered the frontier, the others scan
\* the depths for it.  cacheHybridBfs counts other vertices in a bottom-up level,
\* where the number of hubs is not used.
Collect ==
    LET ofLevel == {v \in Vertex : depth[v] = level}
        toVisit == {v \in Vertex : depth[v] = -1}
        found == IF variant = "basic" THEN nextFrontier
                 ELSE InOrder(IF topDown THEN ofLevel ELSE toVisit)
    IN  /\ pc = "collect"
        /\ frontier' = found /\ frontierSize' = Len(found)
        /\ nextFrontier' = <<>>
        /\ edge' = 0
        /\ visitedNgbNum' = CountRestarted
        /\ frontierHubVertexNum' = Cardinality({v \in ofLevel : IsHub(v)})
        /\ pingBuffer' = IF variant = "cache"
                         THEN {v \in ofLevel : OutDegree(v) >= param.cache} ELSE {}
        /\ pc' = "traverse"
        /\ UNCHANGED <<config, depth, level, topDown>>

\* (Mutant: an edge to a visited vertex is looked at for ever.)
StuckOnVisited(visits) == IF visits THEN edge + 1 ELSE edge
EdgeAfter(visits) == edge + 1

\* Top-down: an unvisited neighbour gets the next level; the cache spares the
\* look at the depth of a hub of this level.
FollowOut ==
    LET v == Head(frontier)
        outNgb == ciao[rpao[v] + edge]
        visits == outNgb \notin pingBuffer /\ depth[outNgb] = -1
    IN  /\ pc = "traverse" /\ topDown
        /\ frontier # <<>> /\ edge < OutDegree(v)
        /\ edge' = EdgeAfter(visits)
        /\ depth' = IF visits THEN [depth EXCEPT ![outNgb] = level + 1] ELSE depth
        /\ nextFrontier' = IF visits /\ variant = "basic"
                           THEN Append(nextFrontier, outNgb) ELSE nextFrontier
        /\ UNCHANGED <<config, level, frontier, frontierSize, topDown, visitedNgbNum,
                       frontierHubVertexNum, pingBuffer, pc>>

OnLevel(inNgb) == inNgb \in pingBuffer \/ depth[inNgb] = level

\* Bottom-up: a neighbour in this level, known from the cache or looked up,
\* settles the vertex.
FollowIn ==
    LET v == Head(frontier)
        hit == OnLevel(ciai[rpai[v] + edge])
    IN  /\ pc = "traverse" /\ ~topDown
        /\ frontier # <<>> /\ edge < InDegree(v)
        /\ edge' = IF hit THEN 0 ELSE edge + 1
        /\ depth' = IF hit THEN [depth EXCEPT ![v] = level + 1] ELSE depth
        /\ frontier' = IF hit THEN Tail(frontier) ELSE frontier
        /\ visitedNgbNum' = IF hit THEN visitedNgbNum + 1 ELSE visitedNgbNum
        /\ UNCHANGED <<config, level, frontierSize, nextFrontier, topDown,
                       frontierHubVertexNum, pingBuffer, pc>>

NextVertex ==
    /\ pc = "traverse" /\ frontier # <<>>
    /\ edge = IF topDown THEN OutDegree(Head(frontier)) ELSE InDegree(Head(frontier))
    /\ frontier' = Tail(frontier) /\ edge' = 0
    /\ UNCHANGED <<config, depth, level, frontierSize, nextFrontier, topDown, visitedNgbNum,
                   frontierHubVertexNum, pingBuffer, pc>>

\* (Mutant: the count of the bottom-up levels ends a top-down one.)
eofOnCount == IF variant = "basic" THEN nextFrontier = <<>>
              ELSE frontierSize = 0 \/ visitedNgbNum = 0

\* A bottom-up level that found nothing ends the search as an empty one does.
eofBfs == IF variant = "basic" THEN nextFrontier = <<>>
          ELSE frontierSize = 0 \/ (~topDown /\ visitedNgbNum = 0)

Switches == variant \in {"hybrid", "cache"}
ManyHubs == frontierHubVertexNum * param.alpha[2] >= param.alpha[1] * getHubVertexNum

EndLevel ==
    /\ pc = "traverse" /\ frontier = <<>>
    /\ level' = level + 1
    /\ topDown' = CASE Switches /\ topDown /\ ManyHubs -> FALSE
                    [] Switches /\ ~topDown /\ visitedNgbNum <= param.beta -> TRUE
                    [] OTHER -> topDown
    /\ pingBuffer' = {}
    /\ pc' = IF eofBfs THEN "dump" ELSE "collect"
    /\ UNCHANGED <<config, depth, frontier, frontierSize, nextFrontier, edge, visitedNgbNum,
                   frontierHubVertexNum>>

\* The depths are written to the file.
Dump ==
    /\ pc = "dump" /\ pc' = "done"
    /\ UNCHANGED <<config, depth, level, frontier, frontierSize, nextFrontier, edge, topDown,
                   visitedNgbNum, frontierHubVertexNum, pingBuffer>>

Next == Collect \/ FollowOut \/ FollowIn \/ NextVertex \/ EndLevel \/ Dump
Spec == Init /\ [][Next]_vars
FairSpec == Spec /\ WF_vars(Next)

-----------------------------------------------------------------------------
\* Every variant follows the discipline of an exact search of the graph of the
\* file, whatever its parameters and the switches they cause: a level is left
\* only when every edge out of it was followed, in either direction, and the
\* search ends only when a level is empty.
Bfs == INSTANCE LevelBfs WITH done <- (pc = "done")
FollowsLevels == Bfs!ExactSpec

\* The depths that are written to the file are the distances from startIdx, and the
\* vertices left at -1 those it does not reach, for each of the five variants.
DepthsExact == pc = "done" => Bfs!ExactLabels(depth)

\* A bottom-up level, of which no vertex is scanned twice, labels exactly the
\* vertices it counts: the count decides when to stop and when to turn back.
CountsVisited ==
    (pc = "traverse" /\ ~topDown) =>
        visitedNgbNum = Cardinality({v \in Vertex : depth[v] = level + 1})

\* Every search ends: no direction switches back and forth for ever.
Terminates == <>(pc = "done")
=============================================================================
