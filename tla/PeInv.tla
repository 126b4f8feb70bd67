-------------------------------- MODULE PeInv --------------------------------
(* What the processing element keeps true, and what it implements. *)
EXTENDS Pe

CharValue == -CharHalf .. CharHalf - 1

\* The types of the state; a level is a char.
TypeOK ==
    /\ level \in CharValue
    /\ localCounter \in 0 .. EndCount
    /\ bfsIterationStart \in BOOLEAN /\ armed \in BOOLEAN
    /\ bfsDone \in BOOLEAN /\ stopped \in BOOLEAN
    /\ idx \in [Part -> Nat] /\ currentLen \in [Part -> Nat] /\ frontierSize \in Nat
    /\ edges \in [next : Int, end : Int]
    /\ depthBuffer0 \in [Part -> Seq(Int)] /\ frontierBuffer \in Seq(Nat)
    /\ rpaoBuffer \in Seq(Int) /\ ciaoBuffer \in Seq(Int) /\ vidxBuffer \in Seq(Int)
    /\ depthBuffer1 \in Seq(Int) /\ depthBuffer2 \in Seq(Int)
    /\ creating \in [Port -> Burst]
    /\ burstReqQueue \in [Port -> Seq(Burst)]
    /\ mem \in [Port -> Seq(Burst)]
    /\ burstRespQueue \in [Port -> Seq(Burst)]
    /\ burstOpStatus \in [Port -> Nat]
    /\ serving \in [Port -> BOOLEAN]
    /\ busy \in [Thread -> Nat]
    /\ depth \in [Vertex -> Int]

\* burstOpStatus has one entry per burst that was published and whose
\* response was not consumed, wherever that burst is.
StatusExact ==
    \A i \in Port : burstOpStatus[i] = Len(burstReqQueue[i]) + Len(mem[i]) + Len(burstRespQueue[i])

\* The bursts of a port from the oldest to the one under creation.
Pipeline(i) ==
    burstRespQueue[i] \o mem[i] \o burstReqQueue[i]
        \o (IF creating[i] = NoBurst THEN <<>> ELSE <<creating[i]>>)

\* Every burst stays inside the array behind its port: an index or an offset
\* that went astray in the buffers would read or label something else.
AccessInBounds ==
    LET size(i) == CASE i = RpaoPort -> V + 1 [] i = CiaoPort -> Rpao[V] [] OTHER -> V
    IN  \A i \in Port : \A k \in 1 .. Len(Pipeline(i)) :
          LET b == Pipeline(i)[k] IN b.len > 0 /\ b.at >= 0 /\ b.at + b.len <= size(i)

\* expandDepthAnalysis pairs depthBuffer1 with vidxBuffer only by position:
\* each vidx waits behind its own depth, which is buffered or on its way, and
\* a depth that was read as visited is still the depth of its vertex.
DepthPairing ==
    LET coming == Pipeline(DepthPort)
        read == Len(depthBuffer1)
    IN  /\ Len(vidxBuffer) = read + Len(coming)
        /\ \A k \in 1 .. Len(coming) : vidxBuffer[read + k] = coming[k].at
        /\ \A k \in 1 .. read :
             depthBuffer1[k] # -1 => depthBuffer1[k] = depth[vidxBuffer[k]]

\* inspectDepthAnalysis takes the vertex of a depth from its own counter: the
\* bursts of a partition continue exactly where the buffered depths end.
ScanContiguous ==
    armed /\ ~bfsIterationStart =>
        \A p \in Part :
            LET coming == Pipeline(p)
                buffered == idx[p] + Len(depthBuffer0[p])
                end(k) == IF k = 0 THEN buffered ELSE coming[k].at + coming[k].len
            IN  /\ \A k \in 1 .. Len(coming) : coming[k].at = end(k - 1)
                /\ end(Len(coming)) = PartBase(p) + currentLen[p] + creating[p].len

\* The label of the vertex being written stays in depthBuffer2 exactly as long
\* as its burst is under creation: the one window isEndOfBfsIteration covers.
WriteWindow == Len(depthBuffer2) = IF creating[WritePort] = NoBurst THEN 0 ELSE 1

\* A response thread that waits for a transfer has a burst to wait for.
ServingHead == \A i \in Port : serving[i] => i # WritePort /\ burstRespQueue[i] # <<>>

\* The depth and the write port carry one element per burst.
SingleElement ==
    /\ creating[DepthPort] # NoBurst => creating[DepthPort].len = 1
    /\ \A k \in 1 .. Len(burstReqQueue[DepthPort]) : burstReqQueue[DepthPort][k].len = 1
    /\ \A k \in 1 .. Len(mem[DepthPort]) : mem[DepthPort][k].len = 1
    /\ \A k \in 1 .. Len(burstRespQueue[DepthPort]) : Len(burstRespQueue[DepthPort][k].data) = 1
    /\ \A k \in 1 .. Len(burstReqQueue[WritePort]) : Len(burstReqQueue[WritePort][k].data) = 1
    /\ \A k \in 1 .. Len(mem[WritePort]) : Len(mem[WritePort][k].data) = 1

\* One vertex waits for each depth that is buffered, on its way or requested.
VidxCount ==
    Len(vidxBuffer) = Len(depthBuffer1) + burstOpStatus[DepthPort]
                        + (IF creating[DepthPort] = NoBurst THEN 0 ELSE 1)

\* The inductive invariant: each of its parts needs the others to survive a step.
IInv == /\ TypeOK /\ StatusExact /\ WriteWindow
        /\ ServingHead /\ SingleElement /\ VidxCount

-----------------------------------------------------------------------------
(* The end of an iteration, decided by isEndOfBfsIteration *)

LevelChanges == level' # level

\* No label of a level is still on its way to memory, or to be computed, when
\* the level changes; otherwise it would be written with the wrong level or
\* missed by the inspection of the next one.
NoLabelLeftBehind ==
    [][LevelChanges => depthBuffer1 = <<>> /\ Pipeline(WritePort) = <<>>]_vars

\* While createReadBurstReq waits, the burst it builds is neither in
\* burstReqQueue nor in burstOpStatus, and what it was popped from may be empty.
WindowOpen == \E i \in Port : creating[i] # NoBurst

\* A level never changes before its inspection has analysed every vertex, nor,
\* when no thread is in that window, before every edge that leaves the level
\* was followed.
LevelComplete ==
    [][LevelChanges =>
         /\ \A p \in Part : idx[p] = PartBase(p) + PartLen(p)
         /\ ~WindowOpen => \A u \in Vertex : depth[u] = level =>
                \A e \in Rpao[u] .. Rpao[u + 1] - 1 : depth[Ciao[e]] # -1]_vars

-----------------------------------------------------------------------------
(* The search the processing element carries out *)

Edges == {pair \in Vertex \X Vertex :
            \E e \in Rpao[pair[1]] .. Rpao[pair[1] + 1] - 1 : Ciao[e] = pair[2]}

Bfs == INSTANCE LevelBfs WITH
         Vertices <- Vertex, Edge <- Edges, Root <- Start, done <- stopped

\* Every write is the first label of its vertex and follows an edge from a
\* vertex labelled earlier, whatever the order of the threads and the memory.
LabelsOnceAlongEdges == Bfs!Spec

\* The search ends and its depths are dumped.
Terminates == <>stopped

\* "equvalent software implementation in bfs directory" (README.md): when the
\* depths are dumped they are those of a breadth-first search.
DoneMeansExact == stopped => Bfs!ExactLabels(depth)

\* "the read buffer should be able to accommodate the data fecthed from
\* memory" (pe.cpp, rule 2).
ReadBuffersSuffice ==
    /\ \A p \in Part : Len(depthBuffer0[p]) <= DepthBufferDepth
    /\ Len(rpaoBuffer) <= RpaoBufferDepth
=============================================================================
