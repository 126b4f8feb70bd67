---------------------------- MODULE MCProcessor ------------------------------
(* Two cores with a few blocks that collide in every cache.                   *)
EXTENDS ProcessorInv
TwoCores == {1, 2}
Registers == [l \in Level |-> 2]
(* In the proportion of the 4, 16 and 47 cycles of the code, and of its 4, 12, 31. *)
Latency == [L1 |-> 3, L2 |-> 4, L3 |-> 6]
LatencyEach == [L1 |-> 3, L2 |-> 1, L3 |-> 2]
OneSet == [l \in Level |-> 1]
SharedTwoSets == [L1 |-> 1, L2 |-> 1, L3 |-> 2]
OneWay == [l \in Level |-> 1]
TwoWays == [l \in Level |-> 2]

(* Three blocks in one set of two: what was stored is evicted and read again.  *)
WriteBacks ==
  [option |-> "L1L2", translation |-> "None", block_num |-> OneSet, assoc |-> TwoWays,
   block |-> << {0, 1, 2}, {} >>, bubbles |-> << {0, 3}, {} >>, limit |-> <<4, 0>>]
(* A block of both cores. Five bubbles wait for the loads before them, 16 for   *)
(* a fill of the other core.                                                    *)
Sharing ==
  [option |-> "all", translation |-> "None", block_num |-> SharedTwoSets, assoc |-> OneWay,
   block |-> << {0, 2}, {0} >>, bubbles |-> << {0, 5}, {16} >>, limit |-> <<2, 1>>]
(* Every choice of caches.                                                      *)
Choice(option) ==
  [option |-> option, translation |-> "None", block_num |-> SharedTwoSets, assoc |-> OneWay,
   block |-> << {0, 2}, {0} >>, bubbles |-> << {0, 3}, {0} >>, limit |-> <<2, 1>>]
(* More pages than the memory has; the core of an empty trace asks for one, too. *)
Paged(limit) ==
  [option |-> "no", translation |-> "Random", block_num |-> OneSet, assoc |-> OneWay,
   block |-> << {0, 1}, {0} >>, bubbles |-> << {0}, {0} >>, limit |-> limit]
TheSetups == {WriteBacks, Sharing, Paged(<<1, 1>>), Paged(<<1, 0>>)} \cup {Choice(o) : o \in {"no", "L1L2", "L3", "all"}}
ThePages == {-1, 0, 1, 2}
=============================================================================
