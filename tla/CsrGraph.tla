------------------------------- MODULE CsrGraph -------------------------------
(***************************************************************************)
(* The graph as it is loaded (class Graph) and as compressed sparse rows   *)
(* (class CSR), of bfs/graph.h and bfs/graph.cpp.                          *)
(***************************************************************************)
EXTENDS Integers, SequencesExt

CONSTANTS vNum,      \* number of vertices
          data,      \* the lines of the file: a sequence of pairs of vertices
          isUgraph   \* the file name says that the graph is undirected

Vertex == 0 .. vNum - 1

\* The vertices of the file are numbered from 0 on (getMaxIdx).
ASSUME DataAssumption == vNum \in Nat /\ data \in Seq(Vertex \X Vertex)

\* The arcs of the graph in the order in which the constructor adds them; a
\* line of an undirected graph gives both directions, a loop only one.
Arcs == FlattenSeq([k \in DOMAIN data |->
    IF isUgraph /\ data[k][1] # data[k][2]
    THEN <<data[k], <<data[k][2], data[k][1]>> >> ELSE <<data[k]>>])

\* Each arc is added at the end of the list of one of its ends.
Adjacent(end, other) ==
    LET lists[k \in 0 .. Len(Arcs)] ==
            IF k = 0 THEN [v \in Vertex |-> <<>>]
            ELSE [lists[k - 1] EXCEPT ![Arcs[k][end]] = Append(@, Arcs[k][other])]
    IN  lists[Len(Arcs)]

outVid == Adjacent(1, 2)
inVid == Adjacent(2, 1)

\* Row pointers: the sums of the degrees so far.
RowPointers(lists) ==
    LET row[i \in 0 .. vNum] == IF i = 0 THEN 0 ELSE row[i - 1] + Len(lists[i - 1])
    IN  row

\* Column indexes: the lists of all vertices one after the other, from 0 on.
ColumnIndexes(lists) ==
    LET all == FlattenSeq([k \in 1 .. vNum |-> lists[k - 1]])
    IN  [i \in 0 .. Len(all) - 1 |-> all[i + 1]]

rpao == RowPointers(outVid)
ciao == ColumnIndexes(outVid)
rpai == RowPointers(inVid)
ciai == ColumnIndexes(inVid)

OutDegree(v) == rpao[v + 1] - rpao[v]
InDegree(v) == rpai[v + 1] - rpai[v]
=============================================================================
