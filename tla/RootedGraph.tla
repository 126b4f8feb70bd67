----------------------------- MODULE RootedGraph -----------------------------
(* The directed graph that is searched, and the vertex the search starts at. *)
CONSTANTS Vertices,   \* the vertices of the graph
          Edge,       \* its edges, a set of pairs of vertices
          Root        \* the starting vertex

ASSUME BfsAssumption == Edge \subseteq Vertices \X Vertices /\ Root \in Vertices
=============================================================================
