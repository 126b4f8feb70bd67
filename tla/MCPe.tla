-------------------------------- MODULE MCPe --------------------------------
(* Small instances of the processing element for TLC. *)
EXTENDS PeInv

\* 0 -> {1, 2}, 1 -> 3, 2 -> 3: a vertex found twice in one level.
DiamondRpao == [v \in 0 .. 4 |-> CASE v = 0 -> 0 [] v = 1 -> 2 [] v = 2 -> 3 [] OTHER -> 4]
DiamondCiao == [e \in 0 .. 3 |-> CASE e = 0 -> 1 [] e = 1 -> 2 [] OTHER -> 3]

\* 0 -> {1, 2}, 1 -> 3, 2 -> 3, 3 -> 4: five vertices make a partition of two
\* chunks.
KiteRpao == [v \in 0 .. 5 |-> CASE v = 0 -> 0 [] v = 1 -> 2 [] v = 2 -> 3 [] v = 3 -> 4 [] OTHER -> 5]
KiteCiao == [e \in 0 .. 4 |-> CASE e = 0 -> 1 [] e = 1 -> 2 [] e = 4 -> 4 [] OTHER -> 3]

\* Threads in pipeline order, one at a time.
Forward == [t \in Thread |->
    CASE t = Monitor -> 0
      [] t = GetResp -> 1
      [] t[1] = "resp" -> 2 + 2 * t[2]
      [] t = Analysis -> 2 + 2 * PRNUM
      [] t[1] = "issue" -> 3 + 2 * t[2]
      [] t = SendReq -> 5 + 2 * (PRNUM + 4)]

\* Between the memory's threads, every order of the others.
Loose == [t \in Thread |->
    CASE t = Monitor -> 0 [] t = GetResp -> 1 [] t = SendReq -> 3 [] OTHER -> 2]

\* 0 -> 1 -> 0
PairRpao == [v \in 0 .. 2 |-> v]
PairCiao == [e \in 0 .. 1 |-> 1 - e]

\* 0 -> 1 -> 2
ChainRpao == [v \in 0 .. 3 |-> IF v < 2 THEN v ELSE 2]
ChainCiao == [e \in 0 .. 1 |-> e + 1]

\* 0, 1 and 2 are adjacent to the five other vertices.
HubsRpao == [v \in 0 .. 6 |-> IF v <= 3 THEN 5 * v ELSE 15]
HubsCiao == [e \in 0 .. 14 |-> IF e % 5 < e \div 5 THEN e % 5 ELSE (e % 5) + 1]

\* Whether every level so far ended with no burst under creation.
VARIABLE clean

MCInit == Init /\ clean = TRUE
MCNext == Next /\ clean' = (clean /\ (LevelChanges => ~WindowOpen))
MCSpec == MCInit /\ [][MCNext]_<<vars, clean>>
MCFairSpec == MCSpec /\ Fairness

\* The dumped depths are the distances unless a level ended while a burst was
\* under creation: that window is the only way the search goes wrong.
ExactUnlessWindow == clean => DoneMeansExact
=============================================================================
