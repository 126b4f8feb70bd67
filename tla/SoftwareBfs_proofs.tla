-------------------------- MODULE SoftwareBfs_proofs --------------------------
(* The five software searches compute the distances, proved for every file,  *)
(* starting vertex, threshold and share of hubs.                             *)
(*                                                                           *)
(* The first two parts show that the compressed rows hold the edges of the   *)
(* file, the third what is scanned in a level, and the others that a level   *)
(* is followed to the end in either direction.                               *)
EXTENDS SoftwareBfs, ListTheorems

\* The search that each variant carries out, with what is proved of such
\* searches.
Search == INSTANCE LevelBfs_proofs WITH done <- (pc = "done")

\* The assumption under which those results hold.
LEMMA SearchGraph == Edge \subseteq Vertices \X Vertices /\ Root \in Vertices
  BY BfsAssumption DEF BfsAssumption

-----------------------------------------------------------------------------
(* The arcs of the file *)

\* The arcs are pairs of vertices.
LEMMA ArcsType == Arcs \in Seq(Vertex \X Vertex)
  <1> DEFINE P == Vertex \X Vertex
             lines(k) == IF isUgraph /\ data[k][1] # data[k][2]
                         THEN <<data[k], <<data[k][2], data[k][1]>> >> ELSE <<data[k]>>
             seqs == [k \in DOMAIN data |-> lines(k)]
  <1>1. data \in Seq(P) /\ DOMAIN data = 1 .. Len(data) /\ Len(data) \in Nat
    BY DataAssumption DEF DataAssumption
  <1>2. ASSUME NEW k \in DOMAIN data PROVE lines(k) \in Seq(P)
    <2>1. data[k] \in P
      BY <1>1
    <2>2. <<data[k][2], data[k][1]>> \in P
      BY <2>1
    <2> HIDE DEF P
    <2> QED BY <2>1, <2>2
  <1>3. seqs \in Seq(Seq(P))
    <2> HIDE DEF lines, P
    <2> QED BY <1>1, <1>2
  <1>4. FlattenSeq(seqs) \in Seq(P)
    <2> HIDE DEF seqs, P
    <2> QED BY <1>3, FlatType
  <1> QED
    BY <1>4, Zenon DEF Arcs

-----------------------------------------------------------------------------
(* The compressed rows *)

\* The ends of the arcs that have v at one end, among the first k arcs.
Ends(end, other, k, v) == {Arcs[j][other] : j \in {j \in 1 .. k : Arcs[j][end] = v}}

\* Each vertex gets the list of its neighbours.
LEMMA Neighbours ==
    ASSUME NEW end \in {1, 2}, NEW other \in {1, 2}
    PROVE  /\ Adjacent(end, other) \in [Vertex -> Seq(Vertex)]
           /\ \A v \in Vertex :
                ToSet(Adjacent(end, other)[v]) = Ends(end, other, Len(Arcs), v)
  <1> DEFINE n == Len(Arcs)
             D == [Vertex -> Seq(Vertex)]
             lo == 0
             none == [v \in Vertex |-> <<>>]
             F == [k \in 0 + 1 .. n |->
                     [d \in D |-> [d EXCEPT ![Arcs[k][end]] = Append(@, Arcs[k][other])]]]
             Turns(g) == g = [k \in 0 .. n |->
                                IF k = 0 THEN none
                                ELSE [g[k - 1] EXCEPT ![Arcs[k][end]] = Append(@, Arcs[k][other])]]
             lists == CHOOSE g : Turns(g)
  <1>1. n \in Nat /\ \A k \in 1 .. n : Arcs[k][end] \in Vertex /\ Arcs[k][other] \in Vertex
    <2>1. n \in Nat /\ \A k \in 1 .. n : Arcs[k] \in Vertex \X Vertex
      BY ArcsType
    <2> HIDE DEF n
    <2> QED BY <2>1
  <1>2. none \in D
    OBVIOUS
  <1>3. ASSUME NEW d \in D, NEW k \in 1 .. n
        PROVE  [d EXCEPT ![Arcs[k][end]] = Append(@, Arcs[k][other])] \in D
    <2> DEFINE u == Arcs[k][end]
               w == Arcs[k][other]
    <2>1. u \in Vertex /\ w \in Vertex
      BY <1>1
    <2> HIDE DEF u, w
    <2>2. d[u] \in Seq(Vertex)
      BY <2>1
    <2>3. Append(d[u], w) \in Seq(Vertex)
      BY <2>1, <2>2
    <2>4. [d EXCEPT ![u] = Append(@, w)] \in D
      BY <2>1, <2>3
    <2> QED BY <2>4 DEF u, w
  <1>4. \E g : Turns(g)
    <2>1. LoopOver(D, lo, n, F)
      <3>1. F \in [0 + 1 .. n -> [D -> D]]
        <4>1. 0 + 1 = 1
          OBVIOUS
        <4> HIDE DEF D
        <4> QED BY <1>3, <4>1, Zenon
      <3>2. 0 \in Int /\ n \in Int
        BY <1>1
      <3> HIDE DEF F, n, D
      <3> QED BY <3>1, <3>2, Zenon DEF LoopOver
    <2>2. Computes(D, lo, n, none, F)
      <3> HIDE DEF D, lo, n, F, none
      <3> QED BY <1>2, <2>1, Loop
    <2>3. PICK g \in [0 .. n -> D] : \A k \in 0 .. n : g[k] = IF k = 0 THEN none ELSE F[k][g[k - 1]]
      <3> HIDE DEF F, n, D, none
      <3> QED BY <2>2 DEF Computes
    <2>4. ASSUME NEW k \in 0 .. n, k # 0
          PROVE  F[k][g[k - 1]] = [g[k - 1] EXCEPT ![Arcs[k][end]] = Append(@, Arcs[k][other])]
      <3>1. k \in 0 + 1 .. n /\ k - 1 \in 0 .. n
        BY <1>1, <2>4
      <3>2. g[k - 1] \in D
        BY <2>3, <3>1
      <3> HIDE DEF D
      <3> QED BY <3>1, <3>2
    <2>5. Turns(g)
      <3> HIDE DEF F, D, none, n
      <3> QED BY <2>3, <2>4
    <2> QED BY <2>5
  <1>5. Turns(lists)
    <2> HIDE DEF Turns
    <2> QED BY <1>4
  <1> DEFINE Held(k) == /\ lists[k] \in D
                        /\ \A v \in Vertex : ToSet(lists[k][v]) = Ends(end, other, k, v)
             S == {k \in Nat : k <= n => Held(k)}
  <1>6. 0 \in S
    <2> HIDE DEF lists
    <2>1. lists[0] = none
      BY <1>1, <1>5
    <2>2. \A v \in Vertex : ToSet(none[v]) = {} /\ Ends(end, other, 0, v) = {}
      BY DEF ToSet, Ends
    <2> QED BY <1>2, <2>1, <2>2
  <1>7. ASSUME NEW k \in Nat, k \in S PROVE k + 1 \in S
    <2> HIDE DEF lists
    <2> SUFFICES ASSUME k + 1 <= n PROVE Held(k + 1)
      OBVIOUS
    <2>1. Held(k)
      BY <1>1, <1>7
    <2> DEFINE u == Arcs[k + 1][end]
               w == Arcs[k + 1][other]
               d == lists[k]
    <2>2. u \in Vertex /\ w \in Vertex /\ k + 1 \in 1 .. n
      BY <1>1
    <2>3. lists[k + 1] = [d EXCEPT ![u] = Append(@, w)]
      <3>1. k + 1 \in 0 .. n /\ k + 1 # 0 /\ (k + 1) - 1 = k
        BY <1>1
      <3> HIDE DEF none, n
      <3> QED BY <1>5, <3>1
    <2>4. lists[k + 1] \in D
      BY <1>3, <2>1, <2>2, <2>3
    <2>5. ASSUME NEW v \in Vertex
          PROVE  ToSet(lists[k + 1][v]) = Ends(end, other, k + 1, v)
      <3>1. d \in [Vertex -> Seq(Vertex)] /\ d[v] \in Seq(Vertex) /\ ToSet(d[v]) = Ends(end, other, k, v)
        BY <2>1
      <3>2. lists[k + 1][v] = IF v = u THEN Append(d[v], w) ELSE d[v]
        <4> HIDE DEF d, u, w
        <4> QED BY <2>2, <2>3, <3>1
      <3>3. Ends(end, other, k + 1, v) = Ends(end, other, k, v) \cup IF v = u THEN {w} ELSE {}
        BY DEF Ends
      <3>4. ToSet(Append(d[v], w)) = ToSet(d[v]) \cup {w}
        BY <2>2, <3>1, Appended
      <3> QED BY <3>1, <3>2, <3>3, <3>4
    <2> QED BY <2>4, <2>5
  <1>8. Held(n)
    <2>1. \A k \in Nat : k \in S
      <3> HIDE DEF S
      <3> QED BY <1>6, <1>7, SetInduction
    <2> HIDE DEF Held
    <2> QED BY <1>1, <2>1
  <1>9. Adjacent(end, other) = lists[n]
    BY Zenon DEF Adjacent
  <1> QED
    BY <1>8, <1>9

\* The lists of the vertices, in the order of their numbers.
InTurn(lists) == [k \in 1 .. vNum |-> lists[k - 1]]

\* A row pointer says where the list of its vertex starts.
LEMMA Rows ==
    ASSUME NEW lists \in [Vertex -> Seq(Vertex)]
    PROVE  /\ InTurn(lists) \in Seq(Seq(Vertex)) /\ Len(InTurn(lists)) = vNum
           /\ Starts(RowPointers(lists), InTurn(lists))
  <1> DEFINE seqs == InTurn(lists)
             Turns(g) == g = [i \in 0 .. vNum |-> IF i = 0 THEN 0 ELSE g[i - 1] + Len(lists[i - 1])]
             row == CHOOSE g : Turns(g)
  <1>1. vNum \in Nat
    BY DataAssumption DEF DataAssumption
  <1>2. seqs \in Seq(Seq(Vertex)) /\ Len(seqs) = vNum /\ \A k \in 1 .. vNum : seqs[k] = lists[k - 1]
    <2>1. \A k \in 1 .. vNum : lists[k - 1] \in Seq(Vertex)
      <3>1. \A k \in 1 .. vNum : k - 1 \in Vertex
        BY <1>1 DEF Vertex
      <3> QED BY <3>1
    <2> QED BY <1>1, <2>1 DEF InTurn
  <1> HIDE DEF seqs
  <1>3. PICK start : Starts(start, seqs)
    BY <1>2, HasStarts
  <1>4. /\ start \in [0 .. vNum -> Nat] /\ start[0] = 0
        /\ \A i \in 1 .. vNum : start[i] = start[i - 1] + Len(lists[i - 1])
    BY <1>2, <1>3, Zenon DEF Starts
  <1>5. Turns(start)
    <2>1. \A i \in 0 .. vNum : i = 0 \/ i \in 1 .. vNum
      BY <1>1
    <2>2. \A i \in 0 .. vNum : start[i] = IF i = 0 THEN 0 ELSE start[i - 1] + Len(lists[i - 1])
      BY <1>4, <2>1, Zenon
    <2>3. start = [i \in 0 .. vNum |-> start[i]]
      BY <1>4
    <2> QED BY <2>2, <2>3, Zenon
  <1>6. Turns(row)
    <2> HIDE DEF Turns
    <2> QED BY <1>5
  <1>7. row = start
    <2> HIDE DEF row
    <2> DEFINE S == {i \in Nat : i <= vNum => row[i] = start[i]}
    <2>1. 0 \in S
      BY <1>1, <1>4, <1>6
    <2>2. ASSUME NEW i \in Nat, i \in S PROVE i + 1 \in S
      <3> SUFFICES ASSUME i + 1 <= vNum PROVE row[i + 1] = start[i + 1]
        OBVIOUS
      <3>1. i + 1 \in 0 .. vNum /\ i + 1 \in 1 .. vNum /\ i + 1 # 0 /\ (i + 1) - 1 = i /\ i <= vNum
        BY <1>1
      <3>2. row[i] = start[i]
        BY <2>2, <3>1
      <3>3. row[i + 1] = row[(i + 1) - 1] + Len(lists[(i + 1) - 1])
        BY <1>6, <3>1, Zenon
      <3>4. start[i + 1] = start[(i + 1) - 1] + Len(lists[(i + 1) - 1])
        BY <1>4, <3>1, Zenon
      <3> QED BY <3>1, <3>2, <3>3, <3>4, Zenon
    <2>3. \A i \in Nat : i \in S
      <3> HIDE DEF S
      <3> QED BY <2>1, <2>2, SetInduction
    <2>4. \A i \in 0 .. vNum : row[i] = start[i]
      BY <1>1, <2>3
    <2>5. DOMAIN row = 0 .. vNum /\ row = [i \in DOMAIN row |-> row[i]]
      BY <1>6, Zenon
    <2>6. start = [i \in 0 .. vNum |-> start[i]]
      BY <1>4
    <2> QED BY <2>4, <2>5, <2>6, Zenon
  <1>8. RowPointers(lists) = row
    BY Zenon DEF RowPointers
  <1> QED
    BY <1>2, <1>3, <1>7, <1>8, Zenon DEF seqs

\* The rows give back the lists: the degree of a vertex is the length of its list
\* and its row holds the list.
LEMMA Columns ==
    ASSUME NEW lists \in [Vertex -> Seq(Vertex)], NEW v \in Vertex
    PROVE  /\ RowPointers(lists)[v + 1] - RowPointers(lists)[v] = Len(lists[v])
           /\ \A k \in 0 .. Len(lists[v]) - 1 :
                ColumnIndexes(lists)[RowPointers(lists)[v] + k] = lists[v][k + 1]
  <1> DEFINE seqs == InTurn(lists)
             row == RowPointers(lists)
             all == FlattenSeq(seqs)
  <1>1. vNum \in Nat /\ v \in Nat /\ v + 1 \in 1 .. vNum /\ (v + 1) - 1 = v
    BY DataAssumption DEF DataAssumption, Vertex
  <1>2. seqs \in Seq(Seq(Vertex)) /\ Len(seqs) = vNum /\ Starts(row, seqs)
    BY Rows
  <1>3. seqs[v + 1] = lists[v]
    BY <1>1 DEF InTurn
  <1>4. ColumnIndexes(lists) = [i \in 0 .. Len(all) - 1 |-> all[i + 1]]
    BY Zenon DEF ColumnIndexes, InTurn
  <1> HIDE DEF seqs, row, all
  <1>5. /\ Len(all) = row[vNum]
        /\ \A i \in 1 .. vNum :
             /\ row[i - 1] + Len(seqs[i]) <= row[vNum]
             /\ \A j \in 1 .. Len(seqs[i]) : all[row[i - 1] + j] = seqs[i][j]
    <2>1. Holds(all, row, seqs)
      BY <1>2, Flattened DEF all
    <2> QED BY <1>2, <2>1, Zenon DEF Holds
  <1>6. row[vNum] \in Nat /\ row[v] \in Nat /\ Len(lists[v]) \in Nat /\ Len(all) = row[vNum]
    <2>1. row \in [0 .. vNum -> Nat] /\ vNum \in 0 .. vNum /\ v \in 0 .. vNum
      BY <1>1, <1>2 DEF Starts
    <2>2. Len(lists[v]) \in Nat
      <3>1. lists[v] \in Seq(Vertex)
        OBVIOUS
      <3> QED BY <3>1
    <2>3. row[vNum] \in Nat /\ row[v] \in Nat
      BY <2>1
    <2> QED BY <1>5, <2>2, <2>3, Zenon
  <1>7. row[v] + Len(lists[v]) <= row[vNum]
    BY <1>1, <1>3, <1>5, Zenon
  <1>8. row[v + 1] = row[v] + Len(lists[v])
    BY <1>1, <1>2, <1>3, Zenon DEF Starts
  <1>9. ASSUME NEW k \in 0 .. Len(lists[v]) - 1
        PROVE  ColumnIndexes(lists)[row[v] + k] = lists[v][k + 1]
    <2>1. /\ row[v] + k \in 0 .. Len(all) - 1 /\ k + 1 \in 1 .. Len(lists[v])
          /\ (row[v] + k) + 1 = row[v] + (k + 1)
      <3>1. \A a \in Nat, b \in Nat, c \in Nat : a + b <= c =>
               \A i \in 0 .. b - 1 : /\ a + i \in 0 .. c - 1 /\ i + 1 \in 1 .. b
                                    /\ (a + i) + 1 = a + (i + 1)
        OBVIOUS
      <3> QED BY <1>6, <1>7, <3>1, Zenon
    <2>2. all[row[v] + (k + 1)] = lists[v][k + 1]
      BY <1>1, <1>3, <1>5, <2>1, Zenon
    <2>3. ColumnIndexes(lists)[row[v] + k] = all[(row[v] + k) + 1]
      BY <1>4, <2>1, Zenon
    <2> QED BY <2>1, <2>2, <2>3, Zenon
  <1>10. row[v + 1] - row[v] = Len(lists[v])
    BY <1>6, <1>8
  <1> QED
    BY <1>9, <1>10 DEF row

\* The row of a vertex holds the other ends of its arcs.
LEMMA Row ==
    ASSUME NEW end \in {1, 2}, NEW other \in {1, 2}, NEW v \in Vertex,
           NEW lists, lists = Adjacent(end, other), NEW degree,
           degree = RowPointers(lists)[v + 1] - RowPointers(lists)[v]
    PROVE  /\ degree \in Nat
           /\ {ColumnIndexes(lists)[RowPointers(lists)[v] + k] : k \in 0 .. degree - 1}
                = Ends(end, other, Len(Arcs), v)
  <1> DEFINE l == lists[v]
             col(k) == ColumnIndexes(lists)[RowPointers(lists)[v] + k]
  <1>1. /\ lists \in [Vertex -> Seq(Vertex)]
        /\ ToSet(l) = Ends(end, other, Len(Arcs), v)
    BY Neighbours
  <1>2. l \in Seq(Vertex)
    BY <1>1
  <1>3. degree = Len(l) /\ \A k \in 0 .. Len(l) - 1 : col(k) = l[k + 1]
    BY <1>1, Columns
  <1>4. Len(l) \in Nat /\ DOMAIN l = 1 .. Len(l)
    BY <1>2
  <1> HIDE DEF l, col
  <1>5. ToSet(l) = {col(k) : k \in 0 .. Len(l) - 1}
    <2>1. \A j \in 1 .. Len(l) : j - 1 \in 0 .. Len(l) - 1 /\ (j - 1) + 1 = j
      BY <1>4
    <2>2. \A k \in 0 .. Len(l) - 1 : k + 1 \in 1 .. Len(l)
      BY <1>4
    <2>3. ToSet(l) = {l[j] : j \in 1 .. Len(l)}
      BY <1>4 DEF ToSet
    <2>4. ASSUME NEW j \in 1 .. Len(l) PROVE l[j] \in {col(k) : k \in 0 .. Len(l) - 1}
      <3>1. col(j - 1) = l[j]
        BY <1>3, <2>1
      <3> QED BY <2>1, <3>1
    <2>5. ASSUME NEW k \in 0 .. Len(l) - 1 PROVE col(k) \in {l[j] : j \in 1 .. Len(l)}
      BY <1>3, <2>2
    <2> QED BY <2>3, <2>4, <2>5
  <1> QED
    BY <1>1, <1>3, <1>4, <1>5 DEF col

\* The row of a vertex in the outgoing columns holds the heads of exactly the edges
\* that leave it.
LEMMA OutRow ==
    ASSUME NEW v \in Vertex
    PROVE  /\ OutDegree(v) \in Nat
           /\ {ciao[rpao[v] + k] : k \in 0 .. OutDegree(v) - 1} = {w \in Vertex : <<v, w>> \in Edge}
  <1>1. /\ OutDegree(v) \in Nat
        /\ {ciao[rpao[v] + k] : k \in 0 .. OutDegree(v) - 1} = Ends(1, 2, Len(Arcs), v)
    <2>1. OutDegree(v) = RowPointers(outVid)[v + 1] - RowPointers(outVid)[v]
      BY Zenon DEF OutDegree, rpao
    <2>2. 1 \in {1, 2} /\ 2 \in {1, 2} /\ outVid = Adjacent(1, 2)
      BY DEF outVid
    <2> QED BY <2>1, <2>2, Row DEF rpao, ciao
  <1>2. Ends(1, 2, Len(Arcs), v) = {w \in Vertex : <<v, w>> \in Edge}
    <2>1. Edge = {Arcs[j] : j \in 1 .. Len(Arcs)} /\ \A j \in 1 .. Len(Arcs) : Arcs[j] \in Vertex \X Vertex
      BY ArcsType, FileAssumption DEF FileAssumption, ToSet
    <2>2. \A j \in 1 .. Len(Arcs) : Arcs[j] = <<Arcs[j][1], Arcs[j][2]>> /\ Arcs[j][2] \in Vertex
      BY <2>1
    <2> QED BY <2>1, <2>2 DEF Ends
  <1> QED
    BY <1>1, <1>2

\* The row of a vertex in the ingoing columns holds the tails of the edges that
\* enter it.
LEMMA InRow ==
    ASSUME NEW v \in Vertex
    PROVE  /\ InDegree(v) \in Nat
           /\ {ciai[rpai[v] + k] : k \in 0 .. InDegree(v) - 1} = {u \in Vertex : <<u, v>> \in Edge}
  <1>1. /\ InDegree(v) \in Nat
        /\ {ciai[rpai[v] + k] : k \in 0 .. InDegree(v) - 1} = Ends(2, 1, Len(Arcs), v)
    <2>1. InDegree(v) = RowPointers(inVid)[v + 1] - RowPointers(inVid)[v]
      BY Zenon DEF InDegree, rpai
    <2>2. 1 \in {1, 2} /\ 2 \in {1, 2} /\ inVid = Adjacent(2, 1)
      BY DEF inVid
    <2> QED BY <2>1, <2>2, Row DEF rpai, ciai
  <1>2. Ends(2, 1, Len(Arcs), v) = {u \in Vertex : <<u, v>> \in Edge}
    <2>1. Edge = {Arcs[j] : j \in 1 .. Len(Arcs)} /\ \A j \in 1 .. Len(Arcs) : Arcs[j] \in Vertex \X Vertex
      BY ArcsType, FileAssumption DEF FileAssumption, ToSet
    <2>2. \A j \in 1 .. Len(Arcs) : Arcs[j] = <<Arcs[j][1], Arcs[j][2]>> /\ Arcs[j][1] \in Vertex
      BY <2>1
    <2> QED BY <2>1, <2>2 DEF Ends
  <1> QED
    BY <1>1, <1>2

-----------------------------------------------------------------------------
(* Frontiers *)

\* The first vertex of a frontier and the rest.
LEMMA HeadTail ==
    ASSUME NEW X, NEW s \in Seq(X), s # <<>>
    PROVE  /\ Head(s) \in X /\ Tail(s) \in Seq(X)
           /\ ToSet(s) = {Head(s)} \cup ToSet(Tail(s))
           /\ IsInjective(s) => Head(s) \notin ToSet(Tail(s)) /\ IsInjective(Tail(s))
  <1> DEFINE n == Len(s)
             t == Tail(s)
  <1>1. /\ n \in Nat /\ n > 0 /\ Head(s) = s[1] /\ DOMAIN s = 1 .. n
        /\ t \in Seq(X) /\ DOMAIN t = 1 .. n - 1 /\ \A i \in 1 .. n - 1 : t[i] = s[i + 1]
        /\ s[1] \in X
    OBVIOUS
  <1> HIDE DEF n, t
  <1>2. ToSet(s) = {s[1]} \cup ToSet(t)
    <2>1. \A i \in 1 .. n : i = 1 \/ (i - 1 \in 1 .. n - 1 /\ (i - 1) + 1 = i)
      BY <1>1
    <2>2. \A i \in 1 .. n - 1 : i + 1 \in 1 .. n
      BY <1>1
    <2>3. 1 \in 1 .. n
      BY <1>1
    <2>4. ASSUME NEW i \in 1 .. n PROVE s[i] \in {s[1]} \cup {t[j] : j \in 1 .. n - 1}
      <3>1. CASE i - 1 \in 1 .. n - 1 /\ (i - 1) + 1 = i
        <4>1. s[i] = t[i - 1]
          BY <1>1, <3>1, Zenon
        <4> QED BY <3>1, <4>1, Zenon
      <3> QED BY <2>1, <3>1
    <2>5. ASSUME NEW j \in 1 .. n - 1 PROVE t[j] \in {s[i] : i \in 1 .. n}
      BY <1>1, <2>2
    <2> QED BY <1>1, <2>3, <2>4, <2>5, Zenon DEF ToSet
  <1>3. ASSUME IsInjective(s) PROVE s[1] \notin ToSet(t) /\ IsInjective(t)
    <2>1. \A i \in 1 .. n - 1 : i + 1 \in 1 .. n /\ i + 1 # 1
      BY <1>1
    <2>2. 1 \in 1 .. n
      BY <1>1
    <2>3. ASSUME NEW j \in 1 .. n - 1 PROVE s[1] # t[j]
      BY <1>1, <1>3, <2>1, <2>2 DEF IsInjective
    <2>4. ASSUME NEW i \in 1 .. n - 1, NEW j \in 1 .. n - 1, t[i] = t[j] PROVE i = j
      <3>1. i + 1 = j + 1
        BY <1>1, <1>3, <2>1, <2>4 DEF IsInjective
      <3> QED BY <3>1
    <2> QED BY <1>1, <2>3, <2>4 DEF IsInjective, ToSet
  <1> QED
    BY <1>1, <1>2, <1>3 DEF t

\* Sets of vertices can be counted.
LEMMA VertexFinite ==
    ASSUME NEW S \in SUBSET Vertex
    PROVE  IsFiniteSet(Vertex) /\ IsFiniteSet(S) /\ Cardinality(S) \in Nat
  <1>1. vNum - 1 \in Int /\ 0 \in Int
    BY DataAssumption DEF DataAssumption
  <1>2. IsFiniteSet(Vertex)
    BY <1>1, FS_Interval DEF Vertex
  <1> QED
    BY <1>2, FS_Subset, FS_CardinalityType

\* A scan of the vertices meets each member of the set once.
LEMMA Ordered ==
    ASSUME NEW S \in SUBSET Vertex
    PROVE  /\ InOrder(S) \in Seq(Vertex) /\ Len(InOrder(S)) = Cardinality(S)
           /\ ToSet(InOrder(S)) = S /\ IsInjective(InOrder(S))
  <1> DEFINE n == Cardinality(S)
             below(v) == {w \in S : w < v}
             rank(v) == Cardinality(below(v))
             place == [v \in S |-> rank(v)]
             vertex(k) == CHOOSE v \in S : rank(v) = k - 1
  <1>1. n \in Nat /\ IsFiniteSet(S) /\ \A v \in S : v \in Nat /\ v \in Vertex
    BY VertexFinite DEF Vertex
  <1>2. ASSUME NEW v \in S PROVE rank(v) \in 0 .. n - 1
    <2>1. IsFiniteSet(below(v)) /\ rank(v) <= n /\ (n = rank(v) => S = below(v))
      BY <1>1, FS_Subset
    <2>2. rank(v) \in Nat
      BY <2>1, FS_CardinalityType
    <2>3. v \notin below(v)
      BY <1>1
    <2> QED BY <1>1, <2>1, <2>2, <2>3
  <1>3. ASSUME NEW v \in S, NEW u \in S, u < v PROVE rank(u) < rank(v)
    <2>1. below(u) \subseteq below(v) /\ u \in below(v) /\ u \notin below(u)
      BY <1>1, <1>3
    <2>2. IsFiniteSet(below(v))
      BY <1>1, FS_Subset
    <2> HIDE DEF below
    <2>3. rank(u) <= rank(v) /\ (rank(v) = rank(u) => below(v) = below(u))
      BY <2>1, <2>2, FS_Subset
    <2> QED BY <1>2, <2>1, <2>3
  <1> HIDE DEF below, rank
  <1>4. ASSUME NEW u \in S, NEW v \in S, rank(u) = rank(v) PROVE u = v
    <2>1. u \in Nat /\ v \in Nat /\ rank(u) \in Int
      BY <1>1, <1>2
    <2> QED BY <1>3, <1>4, <2>1
  <1>5. place \in Surjection(S, 0 .. n - 1)
    <2>1. place \in Injection(S, 0 .. n - 1)
      BY <1>2, <1>4 DEF Injection, IsInjective
    <2>2. IsFiniteSet(0 .. n - 1) /\ Cardinality(0 .. n - 1) = n
      <3>1. IsFiniteSet(0 .. n - 1) /\ Cardinality(0 .. n - 1) = IF 0 > n - 1 THEN 0 ELSE (n - 1) - 0 + 1
        BY <1>1, FS_Interval
      <3> QED BY <1>1, <3>1
    <2> QED BY <2>1, <2>2, FS_Injection
  <1>6. ASSUME NEW k \in 1 .. n PROVE vertex(k) \in S /\ rank(vertex(k)) = k - 1
    <2>1. k - 1 \in 0 .. n - 1
      BY <1>1
    <2>2. PICK v \in S : rank(v) = k - 1
      BY <1>5, <2>1 DEF Surjection
    <2> QED BY <2>2
  <1>7. InOrder(S) = [k \in 1 .. n |-> vertex(k)]
    BY Zenon DEF InOrder, rank, below
  <1> HIDE DEF vertex
  <1>8. InOrder(S) \in Seq(Vertex) /\ Len(InOrder(S)) = n
    BY <1>1, <1>6, <1>7
  <1>9. ToSet(InOrder(S)) = S
    <2>1. ToSet(InOrder(S)) = {vertex(k) : k \in 1 .. n}
      BY <1>7 DEF ToSet
    <2>2. ASSUME NEW v \in S PROVE v \in {vertex(k) : k \in 1 .. n}
      <3>1. rank(v) + 1 \in 1 .. n /\ (rank(v) + 1) - 1 = rank(v)
        BY <1>1, <1>2
      <3>2. v = vertex(rank(v) + 1)
        BY <1>4, <1>6, <3>1
      <3> QED BY <3>1, <3>2
    <2> QED BY <1>6, <2>1, <2>2
  <1>10. IsInjective(InOrder(S))
    <2>1. ASSUME NEW i \in 1 .. n, NEW j \in 1 .. n, vertex(i) = vertex(j) PROVE i = j
      <3>1. i - 1 = j - 1
        BY <1>6, <2>1
      <3> QED BY <1>1, <3>1
    <2> QED BY <1>7, <2>1 DEF IsInjective
  <1> QED
    BY <1>8, <1>9, <1>10

-----------------------------------------------------------------------------
(* The inductive invariant of the searches *)

OfDepth(d) == {v \in Vertex : depth[v] = d}

SearchTypes ==
    /\ level \in Nat /\ depth \in [Vertex -> Int]
    /\ \A v \in Vertex : depth[v] \in -1 .. level + 1
    /\ frontier \in Seq(Vertex) /\ nextFrontier \in Seq(Vertex)
    /\ frontierSize \in Nat /\ edge \in Nat /\ visitedNgbNum \in Nat
    /\ topDown \in BOOLEAN /\ (variant = "basic" => topDown)
    /\ pc \in {"collect", "traverse", "dump", "done"}

\* Between two levels nothing is labelled beyond the level to come, and basicBfs
\* has its vertices at hand.
Between ==
    pc = "collect" =>
        /\ OfDepth(level + 1) = {}
        /\ variant = "basic" => ToSet(nextFrontier) = OfDepth(level)

\* An empty frontier, at the start of a level, labels nothing.
Nothing == frontierSize = 0 => frontier = <<>> /\ OfDepth(level + 1) = {}

\* Top-down: a vertex of the level is still to come, or its neighbours are all
\* visited; of the head, those of the edges followed are.
DownDone(u) == \A w \in Vertex : <<u, w>> \in Edge => depth[w] # -1
TopDownLevel ==
    (pc = "traverse" /\ topDown) =>
        /\ ToSet(frontier) \subseteq OfDepth(level)
        /\ \A u \in OfDepth(level) \ ToSet(frontier) : DownDone(u)
        /\ frontier # <<>> =>
             \A k \in 0 .. edge - 1 : depth[ciao[rpao[Head(frontier)] + k]] # -1
        /\ variant = "basic" => ToSet(nextFrontier) = OfDepth(level + 1)

\* Bottom-up: an unvisited vertex is still to come, or no neighbour of it is of the
\* level; of the head, those of the edges followed are not.  What is still to come
\* is unvisited and comes once, so that each label is counted once.
UpDone(w) == \A u \in Vertex : <<u, w>> \in Edge => depth[u] # level
BottomUpLevel ==
    (pc = "traverse" /\ ~topDown) =>
        /\ ToSet(frontier) \subseteq OfDepth(-1) /\ IsInjective(frontier)
        /\ \A w \in OfDepth(-1) \ ToSet(frontier) : UpDone(w)
        /\ frontier # <<>> =>
             \A k \in 0 .. edge - 1 : depth[ciai[rpai[Head(frontier)] + k]] # level
        /\ visitedNgbNum = Cardinality(OfDepth(level + 1))

\* The cache holds vertices of the level, so that it answers as the depths would.
Traversing == pc = "traverse" => Nothing /\ pingBuffer \subseteq OfDepth(level)

\* The search ends before a level without vertices.
Ended == pc \in {"dump", "done"} => OfDepth(level) = {}

SearchInv ==
    SearchTypes /\ Between /\ Traversing /\ TopDownLevel /\ BottomUpLevel /\ Ended

\* The starting vertex alone is labelled, and it is the first frontier.
LEMMA SearchInit == ASSUME Init PROVE SearchInv
  <1>1. /\ Root \in Vertex /\ vNum \in Nat
    BY BfsAssumption, FileAssumption, DataAssumption DEF BfsAssumption, FileAssumption, DataAssumption
  <1>2. /\ depth = [v \in Vertex |-> IF v = Root THEN 0 ELSE -1] /\ level = 0
        /\ frontier = <<>> /\ frontierSize = 0 /\ nextFrontier = <<Root>> /\ edge = 0
        /\ visitedNgbNum = 0 /\ pc = "collect"
    BY DEF Init
  <1>3. topDown = (variant # "bu")
    BY Zenon DEF Init
  <1>4. topDown \in BOOLEAN /\ (variant = "basic" => topDown)
    <2>1. (variant # "bu") \in BOOLEAN
      BY Zenon
    <2>2. variant = "basic" => variant # "bu"
      OBVIOUS
    <2> QED BY <1>3, <2>1, <2>2, Zenon
  <1>5. \A v \in Vertex : depth[v] = IF v = Root THEN 0 ELSE -1
    BY <1>2
  <1>6. SearchTypes
    <2>1. depth \in [Vertex -> Int] /\ \A v \in Vertex : depth[v] \in -1 .. level + 1
      BY <1>2, <1>5
    <2>2. frontier \in Seq(Vertex) /\ nextFrontier \in Seq(Vertex)
      BY <1>1, <1>2
    <2> QED BY <1>2, <1>4, <2>1, <2>2 DEF SearchTypes
  <1>7. Between
    <2>1. OfDepth(level + 1) = {} /\ OfDepth(level) = {Root}
      BY <1>1, <1>2, <1>5 DEF OfDepth
    <2>2. ToSet(nextFrontier) = {Root}
      BY <1>2 DEF ToSet
    <2> QED BY <2>1, <2>2 DEF Between
  <1> QED
    BY <1>2, <1>6, <1>7 DEF SearchInv, Traversing, TopDownLevel, BottomUpLevel, Ended

\* The frontier of a level holds its vertices, or bottom-up the unvisited ones.
LEMMA CollectStep == ASSUME SearchInv, Collect PROVE SearchInv'
  <1> DEFINE ofLevel == OfDepth(level)
             toVisit == OfDepth(-1)
             found == IF variant = "basic" THEN nextFrontier
                      ELSE InOrder(IF topDown THEN ofLevel ELSE toVisit)
  <1>1. SearchTypes /\ Between
    BY DEF SearchInv
  <1>2. /\ pc = "collect" /\ frontier' = found /\ frontierSize' = Len(found)
        /\ nextFrontier' = <<>> /\ edge' = 0 /\ pc' = "traverse"
        /\ variant' = variant /\ depth' = depth /\ level' = level /\ topDown' = topDown
        /\ visitedNgbNum' = IF topDown THEN visitedNgbNum ELSE 0
        /\ pingBuffer' \subseteq ofLevel
    BY Zenon DEF Collect, CountRestarted, OfDepth, config
  <1>3. OfDepth(level + 1) = {} /\ (variant = "basic" => ToSet(nextFrontier) = ofLevel /\ topDown)
    BY <1>1, <1>2, Zenon DEF Between, SearchTypes
  <1>4. /\ found \in Seq(Vertex) /\ Len(found) \in Nat
        /\ topDown => ToSet(found) = ofLevel
        /\ ~topDown => ToSet(found) = toVisit /\ IsInjective(found)
    <2>1. ofLevel \subseteq Vertex /\ toVisit \subseteq Vertex
      BY DEF OfDepth
    <2>2. nextFrontier \in Seq(Vertex)
      BY <1>1 DEF SearchTypes
    <2> HIDE DEF ofLevel, toVisit
    <2>3. found \in Seq(Vertex)
      BY <2>1, <2>2, Ordered
    <2>4. Len(found) \in Nat
      BY <2>3
    <2> QED BY <1>3, <2>1, <2>3, <2>4, Ordered
  <1>5. Len(found) = 0 => found = <<>>
    <2> HIDE DEF found
    <2> QED BY <1>4
  <1>6. \A d : OfDepth(d)' = OfDepth(d)
    BY <1>2 DEF OfDepth
  <1> HIDE DEF ofLevel, toVisit, found
  <1>7. SearchTypes'
    <2>1. visitedNgbNum' \in Nat
      BY <1>1, <1>2 DEF SearchTypes
    <2>2. <<>> \in Seq(Vertex)
      OBVIOUS
    <2> QED BY <1>1, <1>2, <1>4, <2>1, <2>2 DEF SearchTypes
  <1>8. Traversing'
    BY <1>2, <1>3, <1>5, <1>6, Zenon DEF Traversing, Nothing, ofLevel
  <1>9. TopDownLevel'
    <2>1. edge' = 0 /\ 0 .. edge' - 1 = {} /\ ToSet(nextFrontier') = {}
      BY <1>2 DEF ToSet
    <2> QED BY <1>2, <1>3, <1>4, <1>6, <2>1, Zenon DEF TopDownLevel, ofLevel
  <1>10. BottomUpLevel'
    <2>1. edge' = 0 /\ 0 .. edge' - 1 = {} /\ Cardinality({}) = 0
      BY <1>2, FS_EmptySet
    <2> QED BY <1>2, <1>3, <1>4, <1>6, <2>1, Zenon DEF BottomUpLevel, toVisit
  <1> QED
    BY <1>2, <1>7, <1>8, <1>9, <1>10 DEF SearchInv, Between, Ended

\* A label only moves its vertex from the unvisited ones to the next level.
LEMMA Labelled ==
    ASSUME SearchTypes, NEW w \in Vertex, depth[w] = -1,
           depth' = [depth EXCEPT ![w] = level + 1], level' = level
    PROVE  /\ depth' \in [Vertex -> Int] /\ depth'[w] # -1
           /\ \A v \in Vertex : /\ depth'[v] \in -1 .. level + 1
                                /\ depth[v] # -1 => depth'[v] # -1
                                /\ (depth'[v] = level) = (depth[v] = level)
           /\ OfDepth(level)' = OfDepth(level)
           /\ OfDepth(level + 1)' = OfDepth(level + 1) \cup {w}
           /\ OfDepth(-1)' = OfDepth(-1) \ {w}
           /\ w \notin OfDepth(level + 1)
  <1>1. level \in Nat /\ depth \in [Vertex -> Int] /\ \A v \in Vertex : depth[v] \in -1 .. level + 1
    BY DEF SearchTypes
  <1>2. depth' \in [Vertex -> Int] /\ \A v \in Vertex : depth'[v] = IF v = w THEN level + 1 ELSE depth[v]
    BY <1>1
  <1>3. \A v \in Vertex : /\ depth'[v] \in -1 .. level + 1
                          /\ depth[v] # -1 => depth'[v] # -1
                          /\ (depth'[v] = level) = (depth[v] = level)
    BY <1>1, <1>2
  <1>4. OfDepth(level)' = OfDepth(level) /\ w \notin OfDepth(level + 1)
    BY <1>1, <1>2 DEF OfDepth
  <1>5. OfDepth(level + 1)' = OfDepth(level + 1) \cup {w} /\ OfDepth(-1)' = OfDepth(-1) \ {w}
    BY <1>1, <1>2 DEF OfDepth
  <1> QED
    BY <1>1, <1>2, <1>3, <1>4, <1>5

\* An edge followed top-down labels an unvisited neighbour with the next level, and
\* the cache only spares the look at vertices of the level.
LEMMA FollowOutStep ==
    ASSUME SearchInv, FollowOut PROVE SearchInv' /\ [Search!ExactNext]_(Search!bfsVars)
  <1> DEFINE v == Head(frontier)
             w == ciao[rpao[v] + edge]
             visits == w \notin pingBuffer /\ depth[w] = -1
  <1>1. /\ SearchTypes /\ Traversing /\ TopDownLevel
    BY DEF SearchInv
  <1>2. /\ pc = "traverse" /\ topDown /\ frontier # <<>> /\ edge < OutDegree(v)
        /\ edge' = edge + 1
        /\ depth' = IF visits THEN [depth EXCEPT ![w] = level + 1] ELSE depth
        /\ nextFrontier' = IF visits /\ variant = "basic" THEN Append(nextFrontier, w)
                           ELSE nextFrontier
        /\ variant' = variant /\ level' = level /\ frontier' = frontier
        /\ frontierSize' = frontierSize /\ topDown' = topDown
        /\ visitedNgbNum' = visitedNgbNum /\ pingBuffer' = pingBuffer /\ pc' = pc
    BY Zenon DEF FollowOut, EdgeAfter, config
  <1>3. /\ level \in Nat /\ depth \in [Vertex -> Int] /\ edge \in Nat
        /\ frontier \in Seq(Vertex) /\ nextFrontier \in Seq(Vertex)
        /\ \A u \in Vertex : depth[u] \in -1 .. level + 1
    BY <1>1 DEF SearchTypes
  <1>4. v \in Vertex /\ v \in ToSet(frontier) /\ depth[v] = level
    <2>1. v \in Vertex /\ v \in ToSet(frontier)
      BY <1>2, <1>3, HeadTail
    <2> HIDE DEF v
    <2> QED BY <1>1, <1>2, <2>1, Zenon DEF TopDownLevel, OfDepth
  <1> HIDE DEF v
  <1>5. w \in Vertex /\ <<v, w>> \in Edge
    <2>1. edge \in 0 .. OutDegree(v) - 1
      BY <1>2, <1>3, <1>4, OutRow
    <2> QED BY <1>4, <2>1, OutRow
  <1> HIDE DEF w
  <1>6. \A k \in 0 .. edge - 1 : depth[ciao[rpao[v] + k]] # -1
    BY <1>1, <1>2, Zenon DEF TopDownLevel, v
  <1>7. \A k \in 0 .. edge' - 1 : k \in 0 .. edge - 1 \/ k = edge
    BY <1>2, <1>3
  <1>8. /\ ToSet(frontier) \subseteq OfDepth(level)
        /\ \A u \in OfDepth(level) \ ToSet(frontier) : DownDone(u)
        /\ variant = "basic" => ToSet(nextFrontier) = OfDepth(level + 1)
        /\ frontierSize # 0 /\ pingBuffer \subseteq OfDepth(level)
    BY <1>1, <1>2, Zenon DEF TopDownLevel, Traversing, Nothing
  <1>9. CASE visits
    <2>1. /\ depth[w] = -1 /\ depth' = [depth EXCEPT ![w] = level + 1]
          /\ variant = "basic" => nextFrontier' = Append(nextFrontier, w)
          /\ variant # "basic" => nextFrontier' = nextFrontier
      BY <1>2, <1>9, Zenon
    <2>2. /\ depth' \in [Vertex -> Int] /\ depth'[w] # -1
          /\ \A u \in Vertex : depth'[u] \in -1 .. level + 1 /\ (depth[u] # -1 => depth'[u] # -1)
          /\ OfDepth(level)' = OfDepth(level) /\ OfDepth(level + 1)' = OfDepth(level + 1) \cup {w}
      BY <1>1, <1>2, <1>5, <2>1, Labelled
    <2>3. nextFrontier' \in Seq(Vertex) /\ (variant = "basic" => ToSet(nextFrontier') = OfDepth(level + 1)')
      <3>1. Append(nextFrontier, w) \in Seq(Vertex)
        BY <1>3, <1>5
      <3>2. ToSet(Append(nextFrontier, w)) = ToSet(nextFrontier) \cup {w}
        BY <1>3, <1>5, Appended
      <3> QED BY <1>3, <1>8, <2>1, <2>2, <3>1, <3>2, Zenon
    <2>4. \A u \in OfDepth(level)' \ ToSet(frontier') : DownDone(u)'
      BY <1>2, <1>8, <2>2, Zenon DEF DownDone
    <2>5. \A k \in 0 .. edge' - 1 : depth'[ciao[rpao[v] + k]] # -1
      <3>1. \A k \in 0 .. edge - 1 : ciao[rpao[v] + k] \in Vertex
        <4>1. \A k \in 0 .. edge - 1 : k \in 0 .. OutDegree(v) - 1
          BY <1>2, <1>3, <1>4, OutRow
        <4> QED BY <1>4, <4>1, OutRow
      <3> QED BY <1>6, <1>7, <2>2, <3>1, Zenon DEF w
    <2>6. SearchTypes'
      <3>1. edge' \in Nat
        BY <1>2, <1>3
      <3> QED BY <1>1, <1>2, <2>2, <2>3, <3>1, Zenon DEF SearchTypes
    <2>7. Traversing' /\ TopDownLevel'
      BY <1>2, <1>8, <2>2, <2>3, <2>4, <2>5, Zenon DEF Traversing, Nothing, TopDownLevel, v
    <2>8. Search!ExactNext
      <3>1. v \in Vertices /\ w \in Vertices /\ depth[v] \in 0 .. level
        BY <1>3, <1>4, <1>5, FileAssumption DEF FileAssumption
      <3>2. pc # "done" /\ pc' = pc
        BY <1>2
      <3>3. Search!ExactVisit(w)
        BY <1>2, <1>4, <1>5, <2>1, <3>1, <3>2, Zenon
        DEF Search!ExactVisit, Search!Visit, Search!Unvisited
      <3> QED BY <3>1, <3>3 DEF Search!ExactNext
    <2> QED BY <1>2, <2>6, <2>7, <2>8 DEF SearchInv, Between, BottomUpLevel, Ended
  <1>10. CASE ~visits
    <2>1. depth' = depth /\ nextFrontier' = nextFrontier
      BY <1>2, <1>10, Zenon
    <2>2. depth[w] # -1
      <3>1. w \in pingBuffer => depth[w] = level
        BY <1>8, Zenon DEF OfDepth
      <3> QED BY <1>3, <1>10, <3>1
    <2>3. OfDepth(level)' = OfDepth(level) /\ OfDepth(level + 1)' = OfDepth(level + 1)
      BY <1>2, <2>1, Zenon DEF OfDepth
    <2>4. \A u \in OfDepth(level)' \ ToSet(frontier') : DownDone(u)'
      BY <1>2, <1>8, <2>1, <2>3, Zenon DEF DownDone
    <2>5. \A k \in 0 .. edge' - 1 : depth'[ciao[rpao[v] + k]] # -1
      BY <1>6, <1>7, <2>1, <2>2, Zenon DEF w
    <2>6. SearchTypes'
      <3>1. edge' \in Nat
        BY <1>2, <1>3
      <3> QED BY <1>1, <1>2, <2>1, <3>1, Zenon DEF SearchTypes
    <2>7. Traversing' /\ TopDownLevel'
      BY <1>2, <1>8, <2>1, <2>3, <2>4, <2>5, Zenon DEF Traversing, Nothing, TopDownLevel, v
    <2>8. UNCHANGED Search!bfsVars
      BY <1>2, <2>1 DEF Search!bfsVars
    <2> QED BY <1>2, <2>6, <2>7, <2>8 DEF SearchInv, Between, BottomUpLevel, Ended
  <1> QED
    BY <1>9, <1>10, Zenon

\* An edge followed bottom-up settles the vertex when it comes from the level, and
\* the vertex is counted.
LEMMA FollowInStep ==
    ASSUME SearchInv, FollowIn PROVE SearchInv' /\ [Search!ExactNext]_(Search!bfsVars)
  <1> DEFINE v == Head(frontier)
             u == ciai[rpai[v] + edge]
             hit == OnLevel(u)
  <1>1. /\ SearchTypes /\ Traversing /\ BottomUpLevel
    BY DEF SearchInv
  <1>2. /\ pc = "traverse" /\ ~topDown /\ frontier # <<>> /\ edge < InDegree(v)
        /\ edge' = IF hit THEN 0 ELSE edge + 1
        /\ depth' = IF hit THEN [depth EXCEPT ![v] = level + 1] ELSE depth
        /\ frontier' = IF hit THEN Tail(frontier) ELSE frontier
        /\ visitedNgbNum' = IF hit THEN visitedNgbNum + 1 ELSE visitedNgbNum
        /\ variant' = variant /\ level' = level /\ nextFrontier' = nextFrontier
        /\ frontierSize' = frontierSize /\ topDown' = topDown
        /\ pingBuffer' = pingBuffer /\ pc' = pc
    BY Zenon DEF FollowIn, config
  <1>3. /\ level \in Nat /\ depth \in [Vertex -> Int] /\ edge \in Nat /\ visitedNgbNum \in Nat
        /\ frontier \in Seq(Vertex) /\ nextFrontier \in Seq(Vertex)
    BY <1>1 DEF SearchTypes
  <1>4. /\ ToSet(frontier) \subseteq OfDepth(-1) /\ IsInjective(frontier)
        /\ \A w \in OfDepth(-1) \ ToSet(frontier) : UpDone(w)
        /\ \A k \in 0 .. edge - 1 : depth[ciai[rpai[v] + k]] # level
        /\ visitedNgbNum = Cardinality(OfDepth(level + 1))
        /\ frontierSize # 0 /\ pingBuffer \subseteq OfDepth(level)
    BY <1>1, <1>2, Zenon DEF BottomUpLevel, Traversing, Nothing
  <1>5. /\ v \in Vertex /\ Tail(frontier) \in Seq(Vertex)
        /\ ToSet(frontier) = {v} \cup ToSet(Tail(frontier))
        /\ v \notin ToSet(Tail(frontier)) /\ IsInjective(Tail(frontier))
    BY <1>2, <1>3, <1>4, HeadTail
  <1>6. depth[v] = -1
    <2> HIDE DEF v
    <2> QED BY <1>4, <1>5 DEF OfDepth
  <1> HIDE DEF v
  <1>7. u \in Vertex /\ <<u, v>> \in Edge
    <2>1. edge \in 0 .. InDegree(v) - 1
      BY <1>2, <1>3, <1>5, InRow
    <2> QED BY <1>5, <2>1, InRow
  <1>8. hit = (depth[u] = level)
    <2>1. u \in pingBuffer => depth[u] = level
      BY <1>4, Zenon DEF OfDepth
    <2> HIDE DEF u
    <2> QED BY <2>1, Zenon DEF OnLevel
  <1> HIDE DEF u, hit
  <1>9. CASE hit
    <2>1. /\ depth[u] = level /\ depth' = [depth EXCEPT ![v] = level + 1] /\ edge' = 0
          /\ frontier' = Tail(frontier) /\ visitedNgbNum' = visitedNgbNum + 1
      BY <1>2, <1>8, <1>9, Zenon
    <2>2. /\ depth' \in [Vertex -> Int]
          /\ \A w \in Vertex : depth'[w] \in -1 .. level + 1 /\ (depth'[w] = level) = (depth[w] = level)
          /\ OfDepth(level)' = OfDepth(level) /\ OfDepth(level + 1)' = OfDepth(level + 1) \cup {v}
          /\ OfDepth(-1)' = OfDepth(-1) \ {v} /\ v \notin OfDepth(level + 1)
      BY <1>1, <1>2, <1>5, <1>6, <2>1, Labelled
    <2>3. visitedNgbNum' = Cardinality(OfDepth(level + 1)')
      <3>1. IsFiniteSet(OfDepth(level + 1))
        <4>1. OfDepth(level + 1) \subseteq Vertex
          BY DEF OfDepth
        <4> QED BY <4>1, VertexFinite
      <3>2. Cardinality(OfDepth(level + 1) \cup {v}) = Cardinality(OfDepth(level + 1)) + 1
        BY <2>2, <3>1, FS_AddElement
      <3> QED BY <1>4, <2>1, <2>2, <3>2, Zenon
    <2>4. ToSet(frontier') \subseteq OfDepth(-1)' /\ IsInjective(frontier')
      BY <1>4, <1>5, <2>1, <2>2, Zenon
    <2>5. \A w \in OfDepth(-1)' \ ToSet(frontier') : UpDone(w)'
      <3>1. \A w \in OfDepth(-1)' \ ToSet(frontier') : UpDone(w)
        BY <1>4, <1>5, <2>1, <2>2, Zenon
      <3> QED BY <1>2, <2>2, <3>1, Zenon DEF UpDone
    <2>6. 0 .. edge' - 1 = {} /\ visitedNgbNum' \in Nat /\ edge' \in Nat
      BY <1>3, <2>1
    <2>7. SearchTypes'
      BY <1>1, <1>2, <1>5, <2>1, <2>2, <2>6, Zenon DEF SearchTypes
    <2>8. Traversing' /\ BottomUpLevel'
      BY <1>2, <1>4, <2>2, <2>3, <2>4, <2>5, <2>6, Zenon DEF Traversing, Nothing, BottomUpLevel
    <2>9. Search!ExactNext
      <3>1. v \in Vertices /\ u \in Vertices /\ depth[u] \in 0 .. level
        BY <1>3, <1>5, <1>7, <2>1, FileAssumption DEF FileAssumption
      <3>2. pc # "done" /\ pc' = pc
        BY <1>2
      <3>3. Search!ExactVisit(v)
        BY <1>2, <1>6, <1>7, <2>1, <3>1, <3>2, Zenon
        DEF Search!ExactVisit, Search!Visit, Search!Unvisited
      <3> QED BY <3>1, <3>3 DEF Search!ExactNext
    <2> QED BY <1>2, <2>7, <2>8, <2>9 DEF SearchInv, Between, TopDownLevel, Ended
  <1>10. CASE ~hit
    <2>1. /\ depth[u] # level /\ depth' = depth /\ edge' = edge + 1
          /\ frontier' = frontier /\ visitedNgbNum' = visitedNgbNum
      BY <1>2, <1>8, <1>10, Zenon
    <2>2. \A d : OfDepth(d)' = OfDepth(d)
      BY <2>1 DEF OfDepth
    <2>3. \A w \in OfDepth(-1)' \ ToSet(frontier') : UpDone(w)'
      BY <1>2, <1>4, <2>1, <2>2, Zenon DEF UpDone
    <2>4. \A k \in 0 .. edge' - 1 : depth'[ciai[rpai[v] + k]] # level
      <3>1. \A k \in 0 .. edge' - 1 : k \in 0 .. edge - 1 \/ k = edge
        BY <1>3, <2>1
      <3> QED BY <1>4, <2>1, <3>1, Zenon DEF u
    <2>5. edge' \in Nat
      BY <1>3, <2>1
    <2>6. SearchTypes'
      BY <1>1, <1>2, <2>1, <2>5, Zenon DEF SearchTypes
    <2>7. Traversing' /\ BottomUpLevel'
      BY <1>2, <1>4, <2>1, <2>2, <2>3, <2>4, Zenon DEF Traversing, Nothing, BottomUpLevel, v
    <2>8. UNCHANGED Search!bfsVars
      BY <1>2, <2>1 DEF Search!bfsVars
    <2> QED BY <1>2, <2>6, <2>7, <2>8 DEF SearchInv, Between, TopDownLevel, Ended
  <1> QED
    BY <1>9, <1>10, Zenon

\* All edges of the head were followed: it is done, in either direction.
LEMMA NextVertexStep ==
    ASSUME SearchInv, NextVertex PROVE SearchInv' /\ UNCHANGED Search!bfsVars
  <1> DEFINE v == Head(frontier)
  <1>1. SearchTypes /\ Traversing /\ TopDownLevel /\ BottomUpLevel
    BY DEF SearchInv
  <1>2. /\ pc = "traverse" /\ frontier # <<>>
        /\ edge = IF topDown THEN OutDegree(v) ELSE InDegree(v)
        /\ frontier' = Tail(frontier) /\ edge' = 0
        /\ variant' = variant /\ depth' = depth /\ level' = level
        /\ frontierSize' = frontierSize /\ nextFrontier' = nextFrontier /\ topDown' = topDown
        /\ visitedNgbNum' = visitedNgbNum /\ pingBuffer' = pingBuffer /\ pc' = pc
    BY Zenon DEF NextVertex, config
  <1>3. /\ v \in Vertex /\ Tail(frontier) \in Seq(Vertex)
        /\ ToSet(frontier) = {v} \cup ToSet(Tail(frontier))
        /\ IsInjective(frontier) => v \notin ToSet(Tail(frontier)) /\ IsInjective(Tail(frontier))
    <2>1. frontier \in Seq(Vertex)
      BY <1>1 DEF SearchTypes
    <2> QED BY <1>2, <2>1, HeadTail
  <1>4. frontierSize # 0 /\ pingBuffer \subseteq OfDepth(level)
    BY <1>1, <1>2, Zenon DEF Traversing, Nothing
  <1>5. \A d : OfDepth(d)' = OfDepth(d)
    BY <1>2 DEF OfDepth
  <1>6. edge' \in Nat /\ 0 .. edge' - 1 = {}
    BY <1>2
  <1>7. SearchTypes' /\ Traversing'
    BY <1>1, <1>2, <1>3, <1>4, <1>5, <1>6, Zenon DEF SearchTypes, Traversing, Nothing
  <1>8. CASE topDown
    <2>1. DownDone(v)
      <3>1. \A k \in 0 .. OutDegree(v) - 1 : depth[ciao[rpao[v] + k]] # -1
        BY <1>1, <1>2, <1>8, Zenon DEF TopDownLevel
      <3> QED BY <1>3, <3>1, OutRow DEF DownDone
    <2> HIDE DEF v
    <2>2. \A w \in OfDepth(level) \ ToSet(Tail(frontier)) : DownDone(w)
      BY <1>1, <1>2, <1>3, <1>8, <2>1, Zenon DEF TopDownLevel
    <2>3. \A w \in OfDepth(level)' \ ToSet(frontier') : DownDone(w)'
      BY <1>2, <1>5, <2>2, Zenon DEF DownDone
    <2>4. TopDownLevel'
      BY <1>1, <1>2, <1>3, <1>5, <1>6, <1>8, <2>3, Zenon DEF TopDownLevel
    <2> QED BY <1>2, <1>7, <1>8, <2>4 DEF SearchInv, Between, BottomUpLevel, Ended, Search!bfsVars
  <1>9. CASE ~topDown
    <2>1. UpDone(v)
      <3>1. \A k \in 0 .. InDegree(v) - 1 : depth[ciai[rpai[v] + k]] # level
        BY <1>1, <1>2, <1>9, Zenon DEF BottomUpLevel
      <3> QED BY <1>3, <3>1, InRow DEF UpDone
    <2> HIDE DEF v
    <2>2. \A w \in OfDepth(-1) \ ToSet(Tail(frontier)) : UpDone(w)
      BY <1>1, <1>2, <1>3, <1>9, <2>1, Zenon DEF BottomUpLevel
    <2>3. \A w \in OfDepth(-1)' \ ToSet(frontier') : UpDone(w)'
      BY <1>2, <1>5, <2>2, Zenon DEF UpDone
    <2>4. BottomUpLevel'
      BY <1>1, <1>2, <1>3, <1>5, <1>6, <1>9, <2>3, Zenon DEF BottomUpLevel
    <2> QED BY <1>2, <1>7, <1>9, <2>4 DEF SearchInv, Between, TopDownLevel, Ended, Search!bfsVars
  <1> QED
    BY <1>8, <1>9

\* The frontier is empty: every edge out of the level was followed.
LEMMA LevelFollowed ==
    ASSUME SearchInv, pc = "traverse", frontier = <<>> PROVE Search!LevelComplete
  <1>1. ToSet(frontier) = {}
    BY DEF ToSet
  <1>2. ASSUME NEW u \in Vertex, NEW w \in Vertex, <<u, w>> \in Edge, depth[u] = level
        PROVE  depth[w] # -1
    <2>1. CASE topDown
      <3>1. u \in OfDepth(level) \ ToSet(frontier)
        BY <1>1, <1>2 DEF OfDepth
      <3> QED BY <1>2, <2>1, <3>1, Zenon DEF SearchInv, TopDownLevel, DownDone
    <2>2. CASE ~topDown
      <3>1. ASSUME depth[w] = -1 PROVE w \in OfDepth(-1) \ ToSet(frontier)
        BY <1>1, <3>1 DEF OfDepth
      <3> QED BY <1>2, <2>2, <3>1, Zenon DEF SearchInv, BottomUpLevel, UpDone
    <2> QED BY <2>1, <2>2
  <1>3. \A e \in Edge : e = <<e[1], e[2]>> /\ e[1] \in Vertex /\ e[2] \in Vertex
    BY BfsAssumption, FileAssumption DEF BfsAssumption, FileAssumption
  <1> QED
    BY <1>2, <1>3, Zenon DEF Search!LevelComplete, Search!Unvisited

\* A level ends when it was followed; the search goes on unless it found nothing,
\* in the same direction or in the other one.
LEMMA EndLevelStep ==
    ASSUME SearchInv, EndLevel PROVE SearchInv' /\ [Search!ExactNext]_(Search!bfsVars)
  <1>1. SearchTypes /\ Traversing /\ TopDownLevel /\ BottomUpLevel
    BY DEF SearchInv
  <1>2. /\ pc = "traverse" /\ frontier = <<>> /\ level' = level + 1
        /\ pc' = IF eofBfs THEN "dump" ELSE "collect"
        /\ variant' = variant /\ depth' = depth /\ frontier' = frontier
        /\ frontierSize' = frontierSize /\ nextFrontier' = nextFrontier /\ edge' = edge
        /\ visitedNgbNum' = visitedNgbNum
    BY Zenon DEF EndLevel, config
  <1>3. topDown' \in BOOLEAN /\ (variant = "basic" => topDown')
    <2>1. topDown' = CASE Switches /\ topDown /\ ManyHubs -> FALSE
                       [] Switches /\ ~topDown /\ visitedNgbNum <= param.beta -> TRUE
                       [] OTHER -> topDown
      BY Zenon DEF EndLevel
    <2>2. topDown \in BOOLEAN /\ (variant = "basic" => topDown /\ ~Switches)
      <3>1. variant = "basic" => ~Switches
        BY DEF Switches
      <3> QED BY <1>1, <3>1, Zenon DEF SearchTypes
    <2> HIDE DEF Switches
    <2> QED BY <2>1, <2>2, Zenon
  <1>4. level \in Nat /\ \A v \in Vertex : depth[v] \in -1 .. level + 1
    BY <1>1 DEF SearchTypes
  <1>5. SearchTypes'
    <2>1. level' \in Nat /\ \A v \in Vertex : depth'[v] \in -1 .. level' + 1
      BY <1>2, <1>4
    <2>2. pc' \in {"collect", "dump"}
      BY <1>2
    <2> QED BY <1>1, <1>2, <1>3, <2>1, <2>2 DEF SearchTypes
  <1>6. OfDepth(level + 1)' = {} /\ OfDepth(level)' = OfDepth(level + 1)
    BY <1>2, <1>4 DEF OfDepth
  <1>7. Between'
    <2>1. variant = "basic" => ToSet(nextFrontier) = OfDepth(level + 1)
      BY <1>1, <1>2, Zenon DEF SearchTypes, TopDownLevel
    <2> QED BY <1>2, <1>6, <2>1, Zenon DEF Between
  <1>8. ASSUME eofBfs PROVE OfDepth(level + 1) = {}
    <2>1. CASE variant = "basic"
      <3>1. nextFrontier = <<>> /\ ToSet(nextFrontier) = OfDepth(level + 1)
        BY <1>1, <1>2, <1>8, <2>1, Zenon DEF eofBfs, SearchTypes, TopDownLevel
      <3> QED BY <3>1 DEF ToSet
    <2>2. CASE variant # "basic" /\ frontierSize = 0
      BY <1>1, <1>2, <2>2, Zenon DEF Traversing, Nothing
    <2>3. CASE variant # "basic" /\ ~topDown /\ visitedNgbNum = 0
      <3>1. Cardinality(OfDepth(level + 1)) = 0
        BY <1>1, <1>2, <2>3, Zenon DEF BottomUpLevel
      <3>2. IsFiniteSet(OfDepth(level + 1))
        <4>1. OfDepth(level + 1) \subseteq Vertex
          BY DEF OfDepth
        <4> QED BY <4>1, VertexFinite
      <3> QED BY <3>1, <3>2, FS_EmptySet
    <2> QED BY <1>8, <2>1, <2>2, <2>3, Zenon DEF eofBfs
  <1>9. Ended' /\ pc' # "traverse"
    <2>1. pc' = "dump" => eofBfs
      BY <1>2
    <2>2. pc' \in {"collect", "dump"}
      BY <1>2
    <2>3. pc' \in {"dump", "done"} => OfDepth(level)' = {}
      BY <1>6, <1>8, <2>1, <2>2
    <2> QED BY <2>2, <2>3 DEF Ended
  <1>10. Search!ExactNext
    <2>1. Search!LevelComplete
      BY <1>2, LevelFollowed
    <2>2. pc # "done" /\ pc' # "done"
      BY <1>2
    <2>3. Search!Advance
      BY <1>2, <2>2 DEF Search!Advance
    <2> QED BY <2>1, <2>3 DEF Search!ExactNext
  <1> QED
    BY <1>5, <1>7, <1>9, <1>10 DEF SearchInv, Traversing, TopDownLevel, BottomUpLevel

\* The depths are dumped when no vertex of the last level is left to follow.
LEMMA DumpStep == ASSUME SearchInv, Dump PROVE SearchInv' /\ [Search!ExactNext]_(Search!bfsVars)
  <1>1. /\ pc = "dump" /\ pc' = "done" /\ depth' = depth /\ level' = level
        /\ frontier' = frontier /\ frontierSize' = frontierSize /\ nextFrontier' = nextFrontier
        /\ edge' = edge /\ topDown' = topDown /\ visitedNgbNum' = visitedNgbNum
        /\ variant' = variant
    BY Zenon DEF Dump, config
  <1>2. OfDepth(level) = {} /\ SearchTypes
    BY <1>1 DEF SearchInv, Ended
  <1>3. SearchTypes' /\ Ended'
    BY <1>1, <1>2 DEF SearchTypes, Ended, OfDepth
  <1>4. Search!NoFrontier
    BY <1>2, FileAssumption DEF OfDepth, FileAssumption, Search!NoFrontier
  <1>5. Search!Finish
    BY <1>1 DEF Search!Finish
  <1> QED
    BY <1>1, <1>3, <1>4, <1>5
    DEF SearchInv, Between, Traversing, TopDownLevel, BottomUpLevel, Search!ExactNext

-----------------------------------------------------------------------------
(* What the searches compute *)

\* Every step keeps the invariant, and is one of the exact search or changes none of
\* its state.
LEMMA SearchStep ==
    ASSUME SearchInv, [Next]_vars PROVE SearchInv' /\ [Search!ExactNext]_(Search!bfsVars)
  <1>1. CASE Collect
    <2>1. UNCHANGED Search!bfsVars
      <3>1. pc = "collect" /\ pc' = "traverse" /\ depth' = depth /\ level' = level
        BY <1>1 DEF Collect
      <3> QED BY <3>1 DEF Search!bfsVars
    <2> QED BY <1>1, <2>1, CollectStep
  <1>2. CASE FollowOut
    BY <1>2, FollowOutStep
  <1>3. CASE FollowIn
    BY <1>3, FollowInStep
  <1>4. CASE NextVertex
    BY <1>4, NextVertexStep
  <1>5. CASE EndLevel
    BY <1>5, EndLevelStep
  <1>6. CASE Dump
    BY <1>6, DumpStep
  <1>7. CASE UNCHANGED vars
    <2>1. /\ depth' = depth /\ level' = level /\ frontier' = frontier
          /\ frontierSize' = frontierSize /\ nextFrontier' = nextFrontier /\ edge' = edge
          /\ topDown' = topDown /\ visitedNgbNum' = visitedNgbNum
          /\ pingBuffer' = pingBuffer /\ pc' = pc /\ variant' = variant
      BY <1>7, Zenon DEF vars, config
    <2>2. UNCHANGED Search!bfsVars
      BY <2>1, Zenon DEF Search!bfsVars
    <2>3. SearchInv'
      BY <2>1, Zenon DEF SearchInv, SearchTypes, Between, Traversing, Nothing, TopDownLevel,
         BottomUpLevel, Ended, OfDepth, DownDone, UpDone
    <2> QED BY <2>2, <2>3
  <1> QED
    BY <1>1, <1>2, <1>3, <1>4, <1>5, <1>6, <1>7 DEF Next

\* The invariant holds in every search, of every graph and whatever the thresholds.
THEOREM SearchInvariance == Spec => []SearchInv
  <1>1. SearchInv /\ [Next]_vars => SearchInv'
    BY SearchStep
  <1> QED
    BY <1>1, SearchInit, PTL DEF Spec

\* Each of the five searches of graph.cpp follows the discipline of an exact
\* search, for every file, vertex to start at, thresholds, alpha and beta: the
\* compressed rows lose no edge, the cache answers as the depths would, the
\* direction may switch after any level, and a level that found nothing is the last.
THEOREM LevelsFollowed == Spec => FollowsLevels
  <1>1. Init => Bfs!Init
    <2> SUFFICES ASSUME Init PROVE Bfs!Init
      OBVIOUS
    <2>1. Vertices = Vertex
      BY FileAssumption DEF FileAssumption
    <2>2. /\ depth = [v \in Vertex |-> IF v = Root THEN 0 ELSE -1] /\ level = 0
          /\ pc = "collect"
      BY DEF Init
    <2>3. (pc = "done") = FALSE
      BY <2>2
    <2> QED BY <2>1, <2>2, <2>3, Zenon DEF Bfs!Init, Bfs!Unvisited
  <1>2. [Search!ExactNext]_(Search!bfsVars) => [Bfs!ExactNext]_(Bfs!bfsVars)
    BY Zenon DEF Search!ExactNext, Search!ExactVisit, Search!Visit, Search!Advance, Search!Finish,
       Search!LevelComplete, Search!NoFrontier, Search!Unvisited, Search!bfsVars,
       Bfs!ExactNext, Bfs!ExactVisit, Bfs!Visit, Bfs!Advance, Bfs!Finish,
       Bfs!LevelComplete, Bfs!NoFrontier, Bfs!Unvisited, Bfs!bfsVars
  <1>3. SearchInv /\ [Next]_vars => [Search!ExactNext]_(Search!bfsVars)
    BY SearchStep
  <1> QED
    BY <1>1, <1>2, <1>3, SearchInvariance, PTL DEF Spec, FollowsLevels, Bfs!ExactSpec

\* The count of the vertices that a bottom-up level labels is right throughout: no
\* vertex is counted twice, so that the search neither stops early nor goes on.
THEOREM VisitsCounted == Spec => []CountsVisited
  <1>1. SearchInv => CountsVisited
    BY Zenon DEF SearchInv, BottomUpLevel, CountsVisited, OfDepth
  <1> QED
    BY <1>1, SearchInvariance, PTL

\* The depths that are dumped are the distances from the starting vertex, in the
\* graph of the file, whichever search computed them.
THEOREM SoftwareExact == Spec => []DepthsExact
  <1>1. Spec => Search!ExactSpec
    <2>1. Init => Search!Init
      <3> SUFFICES ASSUME Init PROVE Search!Init
        OBVIOUS
      <3>1. Vertices = Vertex
        BY FileAssumption DEF FileAssumption
      <3>2. /\ depth = [v \in Vertex |-> IF v = Root THEN 0 ELSE -1] /\ level = 0
            /\ pc = "collect"
        BY DEF Init
      <3>3. (pc = "done") = FALSE
        BY <3>2
      <3> QED BY <3>1, <3>2, <3>3, Zenon DEF Search!Init, Search!Unvisited
    <2>2. SearchInv /\ [Next]_vars => [Search!ExactNext]_(Search!bfsVars)
      BY SearchStep
    <2> QED BY <2>1, <2>2, SearchInvariance, PTL DEF Spec, Search!ExactSpec
  <1>2. Search!ExactSpec => []Search!ExactWhenDone
    BY SearchGraph, Search!Exactness
  <1>3. Search!ExactWhenDone => DepthsExact
    BY Zenon DEF DepthsExact, Search!ExactWhenDone, Search!ExactLabels, Search!SoundLabels,
       Search!HasParent, Search!HasTightParent, Search!Unvisited,
       Bfs!ExactLabels, Bfs!SoundLabels, Bfs!HasParent, Bfs!HasTightParent, Bfs!Unvisited
  <1> QED
    BY <1>1, <1>2, <1>3, PTL
=============================================================================
