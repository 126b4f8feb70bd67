---------------------------- MODULE MCSoftwareBfs ----------------------------
(* A small graph for the software searches. *)
EXTENDS SoftwareBfs

\* Two hubs, 0 and 3, a loop at 2, a double edge, a cycle back to 0, and a
\* vertex, 6, that only points into the rest.
TwoHubs == << <<0, 1>>, <<0, 2>>, <<0, 3>>, <<2, 2>>, <<3, 4>>, <<3, 5>>,
              <<3, 1>>, <<0, 1>>, <<5, 0>>, <<4, 5>>, <<6, 4>> >>

TwoHubsVertices == 0 .. 6
TwoHubsEdges == ToSet(TwoHubs)

AllVariants == {"basic", "td", "bu", "hybrid", "cache"}
SmallThresholds == {1, 3}
\* A fifth is the default of setBfsParam.
SomeAlphas == {<<1, 5>>, <<3, 4>>}
SomeBetas == {0, 1, 5}
=============================================================================
