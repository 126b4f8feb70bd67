--------------------------- MODULE PeSearch_proofs ---------------------------
(* What the processing element does to the depth array, proved for every     *)
(* graph, size of the buffers, order of the threads and delay of the memory. *)
(*                                                                           *)
(* The first part: the depths it keeps are never stale in a way that         *)
(* matters, and it labels vertices as a search level by level may. The       *)
(* second: a level is complete, as from the moment its inspection begins     *)
(* every vertex of the frontier is still to be found, on its way through the *)
(* buffers, or has all its edges on their way, up to labels in the memory.   *)
(* The third: when the depths are dumped they are those of reachable         *)
(* vertices, and the distances unless a level ended while a burst was under  *)
(* creation.                                                                 *)
EXTENDS Pe_proofs, MCPe, FiniteSetTheorems

\* The label that the vertices found in this iteration get.
Label == Char(level + 1)

\* What a depth d that was read from vertex v still says: it is the depth, or
\* its vertex was unvisited and may have got the label of this iteration since.
Agrees(d, v) == IF d = -1 THEN depth[v] \in {-1, Label} ELSE depth[v] = d

\* The vertices that wait for a depth on its way, in the order of the bursts.
VidxInOrder ==
    \A k \in 1 .. Len(Pipeline(DepthPort)) :
        vidxBuffer[Len(depthBuffer1) + k] = Pipeline(DepthPort)[k].at

DepthsAgree ==
    /\ \A k \in 1 .. Len(depthBuffer1) : Agrees(depthBuffer1[k], vidxBuffer[k])
    /\ \A k \in 1 .. Len(burstRespQueue[DepthPort]) :
         Agrees(burstRespQueue[DepthPort][k].data[1], burstRespQueue[DepthPort][k].at)

\* Vertices on their way to be written are unvisited, or were written with
\* the same label before; the label is that of this iteration.
Labelled == {b \in Burst : b.data[1] = Label}
LabelsPending ==
    /\ \A k \in 1 .. Len(Pipeline(WritePort)) :
         depth[Pipeline(WritePort)[k].at] \in {-1, Label}
    /\ AllIn(burstReqQueue[WritePort], Labelled) /\ AllIn(mem[WritePort], Labelled)
    /\ AllIn(depthBuffer2, {Label})

BufferSeen(p) == \A k \in 1 .. Len(depthBuffer0[p]) : Agrees(depthBuffer0[p][k], idx[p] + k - 1)
BurstSeen(b) == \A j \in 1 .. Len(b.data) : Agrees(b.data[j], b.at + j - 1)
ScanAgrees ==
    \A p \in Part :
        /\ BufferSeen(p)
        /\ \A k \in 1 .. Len(burstRespQueue[p]) : BurstSeen(burstRespQueue[p][k])

\* The inductive invariant.
SearchInv == FlowInv /\ VidxInOrder /\ DepthsAgree /\ LabelsPending /\ ScanAgrees
-----------------------------------------------------------------------------
(* The depth array *)

\* A step that does not write, and one that writes a label of this iteration.
Moves == \A v \in Vertex : depth'[v] = depth[v] \/ (depth[v] \in {-1, Label} /\ depth'[v] = Label)

\* Only a response of the write port changes a depth.
LEMMA DepthKept ==
    ASSUME [Next]_vars, ~\E R \in SUBSET Port : getMemResp(R) PROVE depth' = depth
  <1>1. ASSUME NEW i \in Port, Receive(i) PROVE depth' = depth
    BY <1>1, ReceiveKeeps
  <1>2. CASE \E p \in Part : inspectDepthReqThread(p) \/ inspectDepthRespThread(p)
    <2>1. Part \subseteq Port
      BY Ports
    <2> QED BY <1>1, <1>2, <2>1 DEF inspectDepthReqThread, inspectDepthRespThread, memory
  <1>3. CASE processExpandRpaoReadResp \/ processExpandCiaoReadResp \/ processExpandDepthReadResp
    BY <1>1, <1>3, Ports DEF processExpandRpaoReadResp, processExpandCiaoReadResp,
      processExpandDepthReadResp
  <1>4. CASE inspectDepthAnalysis \/ frontierAnalysis \/ issueExpandCiaoReadReq
               \/ issueExpandDepthReadReq \/ expandDepthAnalysis
    BY <1>4 DEF inspectDepthAnalysis, frontierAnalysis, issueExpandCiaoReadReq,
      issueExpandDepthReadReq, expandDepthAnalysis, memory
  <1>5. CASE processExpandDepthWriteResp \/ sendMemReq \/ statusMonitor \/ Tick \/ UNCHANGED vars
    BY <1>5 DEF processExpandDepthWriteResp, sendMemReq, statusMonitor, Tick, vars, memory
  <1> QED
    BY <1>2, <1>3, <1>4, <1>5 DEF Next

\* The burst that is written.
LEMMA Written ==
    ASSUME FlowInv, LabelsPending, NEW R \in SUBSET Port, getMemResp(R), WritePort \in R
    PROVE  \E v \in Targets(Vertex) : /\ v \in Vertex /\ depth[v] \in {-1, Label}
                                      /\ v = mem[WritePort][1].at
                                      /\ \E k \in 1 .. Len(Pipeline(WritePort)) : Pipeline(WritePort)[k].at = v
                                      /\ depth' = [depth EXCEPT ![v] = Label]
  <1>1. IInv /\ WritePort \in Port
    BY Ports DEF FlowInv
  <1>2. /\ mem[WritePort] # <<>>
        /\ depth' = [depth EXCEPT ![Head(mem[WritePort]).at] = Head(mem[WritePort]).data[1]]
    BY DEF getMemResp
  <1> PICK b : b = mem[WritePort][1]
    OBVIOUS
  <1>3. PICK k \in 1 .. Len(Pipeline(WritePort)) : Pipeline(WritePort)[k] = b
    BY <1>1, <1>2, Places
  <1>4. mem[WritePort] \in Seq(Burst)
    BY <1>1, Places
  <1>5. Head(mem[WritePort]) = b /\ 1 \in 1 .. Len(mem[WritePort])
    <2>1. Head(mem[WritePort]) = mem[WritePort][1] /\ Len(mem[WritePort]) > 0
          /\ Len(mem[WritePort]) \in Nat
      BY <1>2, <1>4, Begins
    <2> QED BY <2>1
  <1>6. b.data[1] = Label
    <2>1. b \in Labelled
      BY <1>5, Zenon DEF LabelsPending, AllIn
    <2> QED BY <2>1 DEF Labelled
  <1>7. b.at \in Targets(Vertex)
    <2>1. Fits(Vertex, WritePort, b.at, b.len)
      BY <1>1, <1>3, Zenon DEF FlowInv, Flow, BurstsFit
    <2> QED BY <2>1 DEF Fits
  <1>8. b.at \in Vertex
    BY <1>7 DEF Targets
  <1>9. depth[b.at] \in {-1, Label}
    BY <1>3, Zenon DEF LabelsPending
  <1>10. depth' = [depth EXCEPT ![b.at] = Label]
    BY <1>2, <1>5, <1>6, Zenon
  <1> QED
    BY <1>3, <1>7, <1>8, <1>9, <1>10, Zenon

LEMMA DepthMoves == ASSUME FlowInv, LabelsPending, [Next]_vars PROVE Moves
  <1>1. CASE depth' = depth
    BY <1>1 DEF Moves
  <1>2. ASSUME NEW R \in SUBSET Port, getMemResp(R), WritePort \in R PROVE Moves
    <2>1. PICK v \in Vertex : depth[v] \in {-1, Label} /\ depth' = [depth EXCEPT ![v] = Label]
      BY <1>2, Written
    <2>2. depth \in [Vertex -> Int]
      BY DEF FlowInv, IInv, TypeOK
    <2>3. \A u \in Vertex : depth'[u] = IF u = v THEN Label ELSE depth[u]
      BY <2>1, <2>2
    <2> QED BY <2>1, <2>3 DEF Moves
  <1>3. ASSUME NEW R \in SUBSET Port, getMemResp(R), WritePort \notin R PROVE Moves
    <2>1. depth' = depth
      BY <1>3 DEF getMemResp
    <2> QED BY <1>1, <2>1
  <1> QED
    BY <1>1, <1>2, <1>3, DepthKept

\* Depths that were read stay true.
LEMMA AgreementKept ==
    ASSUME Moves, level' = level
    PROVE  \A d : \A v \in Vertex : /\ Agrees(d, v) => Agrees(d, v)'
                                    /\ depth[v] \in {-1, Label} => depth'[v] \in {-1, Label}
  <1>1. Label' = Label
    BY DEF Label
  <1> SUFFICES ASSUME NEW d, NEW v \in Vertex
               PROVE  /\ Agrees(d, v) => Agrees(d, v)'
                      /\ depth[v] \in {-1, Label} => depth'[v] \in {-1, Label}
    OBVIOUS
  <1>2. depth'[v] = depth[v] \/ (depth[v] \in {-1, Label} /\ depth'[v] = Label)
    BY DEF Moves
  <1> HIDE DEF Label
  <1> QED
    BY <1>1, <1>2 DEF Agrees

\* One vertex waits for each depth, buffered or on its way.
LEMMA PairCount ==
    ASSUME IInv
    PROVE  /\ Len(vidxBuffer) = Len(depthBuffer1) + Len(Pipeline(DepthPort))
           /\ Len(vidxBuffer) \in Nat /\ Len(depthBuffer1) \in Nat /\ Len(Pipeline(DepthPort)) \in Nat
  <1> DEFINE last == IF creating[DepthPort] = NoBurst THEN 0 ELSE 1
             q == Len(burstReqQueue[DepthPort])
             m == Len(mem[DepthPort])
             r == Len(burstRespQueue[DepthPort])
             d == Len(depthBuffer1)
             x == Len(vidxBuffer)
             all == Len(Pipeline(DepthPort))
  <1>1. DepthPort \in Port
    BY Ports
  <1>2. /\ burstReqQueue[DepthPort] \in Seq(Burst) /\ mem[DepthPort] \in Seq(Burst)
        /\ burstRespQueue[DepthPort] \in Seq(Burst) /\ depthBuffer1 \in Seq(Int)
        /\ vidxBuffer \in Seq(Int)
    BY <1>1 DEF IInv, TypeOK
  <1>3. q \in Nat /\ m \in Nat /\ r \in Nat /\ last \in Nat /\ d \in Nat /\ x \in Nat
    BY <1>2
  <1>4. burstOpStatus[DepthPort] = q + m + r
    BY <1>1, Zenon DEF IInv, StatusExact
  <1>5. x = d + burstOpStatus[DepthPort] + last
    BY Zenon DEF IInv, VidxCount
  <1>6. all = r + m + q + last
    <2>1. IsPipe(Pipeline(DepthPort), burstRespQueue[DepthPort], mem[DepthPort],
                 burstReqQueue[DepthPort], creating[DepthPort])
      BY <1>1, PipeOf
    <2> QED BY <2>1, Zenon DEF IsPipe
  <1> HIDE DEF last, q, m, r, d, x, all
  <1>7. x = d + all /\ all \in Nat
    BY <1>3, <1>4, <1>5, <1>6
  <1>8. x = d + all /\ x \in Nat /\ d \in Nat /\ all \in Nat
    BY <1>3, <1>7
  <1> QED
    BY <1>8, Zenon DEF x, d, all
-----------------------------------------------------------------------------
(* The bursts of the depth and the write port *)

SamePlaces(i) ==
    /\ Len(Pipeline(i)') = Len(Pipeline(i))
    /\ \A k \in 1 .. Len(Pipeline(i)) : Pipeline(i)'[k].at = Pipeline(i)[k].at

\* An issuing thread leaves the other ports alone.
LEMMA OtherIssue ==
    ASSUME IInv, NEW h \in Port, NEW data, NEW b, Publish(h, data),
           creating' = [creating EXCEPT ![h] = b], UNCHANGED <<mem, burstRespQueue>>,
           NEW i \in Port \ {h}
    PROVE  Pipeline(i)' = Pipeline(i)
  <1>1. burstReqQueue \in [Port -> Seq(Burst)] /\ creating \in [Port -> Burst]
    BY DEF IInv, TypeOK
  <1>2. burstReqQueue'[i] = burstReqQueue[i]
    BY <1>1 DEF Publish
  <1>3. creating'[i] = creating[i]
    BY <1>1
  <1> QED
    BY <1>2, <1>3, SamePipe

\* Each of the two ports has the threads that move its bursts.
LEMMA PlacesStep ==
    ASSUME IInv, [Next]_vars, NEW i \in {DepthPort, WritePort}
    PROVE  \/ SamePlaces(i)
           \/ i = DepthPort /\ (issueExpandDepthReadReq \/ processExpandDepthReadResp)
           \/ i = WritePort /\ (expandDepthAnalysis \/ processExpandDepthWriteResp)
  <1>0. i \in Port /\ i \notin Part /\ i # RpaoPort /\ i # CiaoPort
    BY Ports
  <1>1. ASSUME Pipeline(i)' = Pipeline(i) PROVE SamePlaces(i)
    BY <1>1 DEF SamePlaces
  <1>2. ASSUME NEW h \in Port \ {i}, h # WritePort, Receive(h) PROVE SamePlaces(i)
    <2>1. Pipeline(i)' = Pipeline(i)
      BY <1>0, <1>2, ReceivePipe
    <2> QED BY <1>1, <2>1
  <1>3. ASSUME NEW h \in Port \ {i}, NEW data, NEW b, Publish(h, data),
               creating' = [creating EXCEPT ![h] = b], UNCHANGED <<mem, burstRespQueue>>
        PROVE  SamePlaces(i)
    <2>1. Pipeline(i)' = Pipeline(i)
      BY <1>0, <1>3, OtherIssue
    <2> QED BY <1>1, <2>1
  <1>4. CASE \E p \in Part : inspectDepthReqThread(p)
    <2> PICK p \in Part : inspectDepthReqThread(p)
      BY <1>4
    <2>1. \E b : creating' = [creating EXCEPT ![p] = b]
      BY DEF inspectDepthReqThread
    <2>2. Publish(p, <<>>) /\ UNCHANGED <<mem, burstRespQueue>>
      BY DEF inspectDepthReqThread, memory
    <2>3. p \in Port \ {i}
      BY <1>0, Ports
    <2> QED BY <1>3, <2>1, <2>2, <2>3
  <1>5. CASE \E p \in Part : inspectDepthRespThread(p)
    <2> PICK p \in Part : inspectDepthRespThread(p)
      BY <1>5
    <2>1. Receive(p) /\ p \in Port \ {i} /\ p # WritePort
      BY <1>0, Ports DEF inspectDepthRespThread
    <2> QED BY <1>2, <2>1
  <1>6. CASE frontierAnalysis
    <2>1. \E b : creating' = [creating EXCEPT ![RpaoPort] = b]
      BY <1>6 DEF frontierAnalysis
    <2>2. Publish(RpaoPort, <<>>) /\ UNCHANGED <<mem, burstRespQueue>>
      BY <1>6 DEF frontierAnalysis, memory
    <2>3. RpaoPort \in Port \ {i}
      BY <1>0, Ports
    <2> QED BY <1>3, <2>1, <2>2, <2>3
  <1>7. CASE issueExpandCiaoReadReq
    <2>1. \E b : creating' = [creating EXCEPT ![CiaoPort] = b]
      BY <1>7 DEF issueExpandCiaoReadReq
    <2>2. Publish(CiaoPort, <<>>) /\ UNCHANGED <<mem, burstRespQueue>>
      BY <1>7 DEF issueExpandCiaoReadReq, memory
    <2>3. CiaoPort \in Port \ {i}
      BY <1>0, Ports
    <2> QED BY <1>3, <2>1, <2>2, <2>3
  <1>8. CASE processExpandRpaoReadResp \/ processExpandCiaoReadResp
    <2>1. RpaoPort \in Port \ {i} /\ CiaoPort \in Port \ {i} /\ RpaoPort # WritePort /\ CiaoPort # WritePort
      BY <1>0, Ports
    <2> QED BY <1>2, <1>8, <2>1 DEF processExpandRpaoReadResp, processExpandCiaoReadResp
  <1>9. CASE i = WritePort /\ (issueExpandDepthReadReq \/ processExpandDepthReadResp)
    <2>1. DepthPort \in Port \ {i} /\ DepthPort # WritePort
      BY <1>9, Ports
    <2>2. CASE issueExpandDepthReadReq
      <3> PICK b \in Burst : Requests(b)
        BY <2>2, RequestTurn
      <3>1. /\ Publish(DepthPort, <<>>) /\ creating' = [creating EXCEPT ![DepthPort] = b]
            /\ UNCHANGED <<mem, burstRespQueue>>
        BY Zenon DEF Requests
      <3> QED BY <1>3, <2>1, <3>1
    <2>3. CASE processExpandDepthReadResp
      BY <1>2, <2>1, <2>3 DEF processExpandDepthReadResp
    <2> QED BY <1>9, <2>2, <2>3
  <1>10. CASE i = DepthPort /\ (expandDepthAnalysis \/ processExpandDepthWriteResp)
    <2>1. WritePort \in Port \ {i} /\ i \in Port \ {WritePort}
      BY <1>10, Ports
    <2>2. CASE expandDepthAnalysis
      <3> PICK n \in Nat, b \in Burst, data \in Seq(Int) : Expands(n, b, data)
        BY <2>2, ExpandTurn
      <3>1. /\ Publish(WritePort, data) /\ creating' = [creating EXCEPT ![WritePort] = b]
            /\ UNCHANGED <<mem, burstRespQueue>>
        BY Zenon DEF Expands
      <3> QED BY <1>3, <2>1, <3>1
    <2>3. CASE processExpandDepthWriteResp
      <3>1. Pipeline(i)' = Pipeline(i)
        BY <2>1, <2>3, WritePipe
      <3> QED BY <1>1, <3>1
    <2> QED BY <1>10, <2>2, <2>3
  <1>11. CASE sendMemReq
    <2>1. Pipeline(i)' = Pipeline(i)
      BY <1>0, <1>11, SendPipe
    <2> QED BY <1>1, <2>1
  <1>12. CASE \E R \in SUBSET Port : getMemResp(R)
    <2>1. /\ Len(Pipeline(i)') = Len(Pipeline(i))
          /\ \A k \in 1 .. Len(Pipeline(i)) :
               Pipeline(i)'[k].at = Pipeline(i)[k].at /\ Pipeline(i)'[k].len = Pipeline(i)[k].len
      BY <1>0, <1>12, GetPipe
    <2> QED BY <2>1, Zenon DEF SamePlaces
  <1>13. CASE inspectDepthAnalysis \/ statusMonitor \/ Tick \/ UNCHANGED vars
    <2>1. UNCHANGED <<creating, burstReqQueue, mem, burstRespQueue>>
      BY <1>13 DEF inspectDepthAnalysis, statusMonitor, Tick, vars, issuing, memory
    <2>2. Pipeline(i)' = Pipeline(i)
      BY <1>0, <2>1, SamePipe
    <2> QED BY <1>1, <2>2
  <1> QED
    BY <1>4, <1>5, <1>6, <1>7, <1>8, <1>9, <1>10, <1>11, <1>12, <1>13 DEF Next

\* Depths and their vertices stay beside each other: a pair was there before,
\* or is the response at the head of the port.
FormerPair(k) == \E j \in 1 .. Len(depthBuffer1) :
                    depthBuffer1'[k] = depthBuffer1[j] /\ vidxBuffer'[k] = vidxBuffer[j]
NewPair(k) == /\ 1 \in 1 .. Len(burstRespQueue[DepthPort])
              /\ depthBuffer1'[k] = burstRespQueue[DepthPort][1].data[1]
              /\ vidxBuffer'[k] = burstRespQueue[DepthPort][1].at
PairsKept == VidxInOrder' /\ \A k \in 1 .. Len(depthBuffer1') : FormerPair(k) \/ NewPair(k)

LEMMA PairsRequested ==
    ASSUME IInv, VidxInOrder, issueExpandDepthReadReq PROVE PairsKept
  <1> PICK b \in Burst : Requests(b)
    BY RequestTurn
  <1>1. /\ Publish(DepthPort, <<>>) /\ creating' = [creating EXCEPT ![DepthPort] = b]
        /\ UNCHANGED <<mem, burstRespQueue, depthBuffer1>>
    BY Zenon DEF Requests
  <1>2. /\ Pipeline(DepthPort) \in Seq(Burst)
        /\ Len(Pipeline(DepthPort)') = Len(Pipeline(DepthPort)) + (IF b = NoBurst THEN 0 ELSE 1)
        /\ \A k \in 1 .. Len(Pipeline(DepthPort)) :
             Pipeline(DepthPort)'[k].at = Pipeline(DepthPort)[k].at
        /\ b # NoBurst => Pipeline(DepthPort)'[Len(Pipeline(DepthPort)) + 1] = b
    BY <1>1, Ports, Bursts, IssuePipe
  <1> PICK x, d, all \in Nat : /\ x = Len(vidxBuffer) /\ d = Len(depthBuffer1)
                               /\ all = Len(Pipeline(DepthPort)) /\ x = d + all
    BY PairCount
  <1>3. vidxBuffer \in Seq(Int)
    BY DEF IInv, TypeOK
  <1>9. b.at \in Int
    BY DEF Burst
  <1>10. Len(vidxBuffer) = d + all
    OBVIOUS
  <1>4. \A k \in 1 .. d + all : vidxBuffer'[k] = vidxBuffer[k]
    <2>1. CASE b = NoBurst
      BY <2>1 DEF Requests
    <2>2. CASE b # NoBurst
      <3>1. vidxBuffer' = Append(vidxBuffer, b.at)
        BY <2>2, Zenon DEF Requests
      <3>2. \A k \in 1 .. Len(vidxBuffer) : Append(vidxBuffer, b.at)[k] = vidxBuffer[k]
        BY <1>3, <1>9, Ends, ZenonT(30)
      <3> QED BY <1>10, <3>1, <3>2, Zenon
    <2> QED BY <2>1, <2>2
  <1>5. b # NoBurst => vidxBuffer'[d + all + 1] = b.at
    <2> SUFFICES ASSUME b # NoBurst PROVE vidxBuffer'[d + all + 1] = b.at
      OBVIOUS
    <2>1. vidxBuffer' = Append(vidxBuffer, b.at)
      BY Zenon DEF Requests
    <2>2. Append(vidxBuffer, b.at)[Len(vidxBuffer) + 1] = b.at
      BY <1>3, <1>9, Ends
    <2> QED BY <1>10, <2>1, <2>2, Zenon
  <1>6. ASSUME NEW k \in 1 .. Len(Pipeline(DepthPort)')
        PROVE  vidxBuffer'[d + k] = Pipeline(DepthPort)'[k].at
    <2>1. CASE k \in 1 .. all
      <3>1. vidxBuffer[d + k] = Pipeline(DepthPort)[k].at
        BY <2>1, Zenon DEF VidxInOrder
      <3>2. d + k \in 1 .. d + all
        BY <2>1
      <3> QED BY <1>2, <1>4, <2>1, <3>1, <3>2, Zenon
    <2>2. CASE b # NoBurst /\ k = all + 1
      <3>1. d + k = d + all + 1
        BY <2>2
      <3> QED BY <1>2, <1>5, <2>2, <3>1, Zenon
    <2>3. k \in 1 .. all \/ (b # NoBurst /\ k = all + 1)
      BY <1>2
    <2> QED BY <2>1, <2>2, <2>3
  <1>7. VidxInOrder'
    BY <1>1, <1>6, Zenon DEF VidxInOrder
  <1>8. ASSUME NEW k \in 1 .. Len(depthBuffer1) PROVE FormerPair(k)
    <2>1. k \in 1 .. d + all
      OBVIOUS
    <2> QED BY <1>1, <1>4, <2>1, Zenon DEF FormerPair
  <1> QED
    BY <1>1, <1>7, <1>8, Zenon DEF PairsKept

LEMMA PairsReceived ==
    ASSUME IInv, VidxInOrder, processExpandDepthReadResp PROVE PairsKept
  <1>1. DepthPort \in Port /\ DepthPort # WritePort
    BY Ports
  <1>2. Receive(DepthPort) /\ depthBuffer1' = depthBuffer1 \o Received(DepthPort)
    BY DEF processExpandDepthReadResp
  <1>3. vidxBuffer' = vidxBuffer
    BY <1>1, <1>2, ReceiveKeeps
  <1> PICK d, all \in Nat : d = Len(depthBuffer1) /\ all = Len(Pipeline(DepthPort))
    BY PairCount
  <1> PICK data : data = Received(DepthPort)
    OBVIOUS
  <1> PICK first : first = burstRespQueue[DepthPort][1]
    OBVIOUS
  <1>4. depthBuffer1 \in Seq(Int) /\ data \in Seq(Int)
    BY <1>1, <1>2, ReceiveStep DEF IInv, TypeOK
  <1>5. Pipeline(DepthPort)' \in Seq(Burst) /\ burstRespQueue[DepthPort] \in Seq(Burst)
    <2>1. IInv'
      <3>1. Next
        BY DEF Next
      <3> QED BY <3>1, nextInv
    <2> QED BY <1>1, <2>1, PipeOfNext, Places DEF IsPipe
  <1>6. \E n \in {0, 1} :
          /\ Len(data) = n /\ all = Len(Pipeline(DepthPort)') + n
          /\ \A k \in 1 .. Len(Pipeline(DepthPort)') : Pipeline(DepthPort)'[k] = Pipeline(DepthPort)[k + n]
          /\ n = 1 => /\ Len(burstRespQueue[DepthPort]) > 0
                      /\ Pipeline(DepthPort)[1] = first /\ data = first.data
    <2>1. CASE serving[DepthPort]
      <3>1. Len(data) = 1
        BY <1>1, <1>2, <2>1, ReceiveStep
      <3>2. /\ all = Len(Pipeline(DepthPort)') + 1
            /\ \A k \in 1 .. Len(Pipeline(DepthPort)') : Pipeline(DepthPort)'[k] = Pipeline(DepthPort)[k + 1]
            /\ Len(burstRespQueue[DepthPort]) > 0
            /\ Pipeline(DepthPort)[1] = first /\ data = first.data
        BY <1>1, <1>2, <2>1, ReceivePipe
      <3> QED BY <3>1, <3>2
    <2>2. CASE ~serving[DepthPort]
      <3>1. data = <<>> /\ Pipeline(DepthPort)' = Pipeline(DepthPort)
        BY <1>1, <1>2, <2>2, ReceivePipe
      <3>2. /\ Len(data) = 0 /\ all = Len(Pipeline(DepthPort)') + 0
            /\ \A k \in 1 .. Len(Pipeline(DepthPort)') : k + 0 = k
        BY <3>1
      <3> QED BY <3>1, <3>2
    <2> QED BY <2>1, <2>2
  <1> PICK n \in {0, 1} :
          /\ Len(data) = n /\ all = Len(Pipeline(DepthPort)') + n
          /\ \A k \in 1 .. Len(Pipeline(DepthPort)') : Pipeline(DepthPort)'[k] = Pipeline(DepthPort)[k + n]
          /\ n = 1 => /\ Len(burstRespQueue[DepthPort]) > 0
                      /\ Pipeline(DepthPort)[1] = first /\ data = first.data
    BY <1>6
  <1> PICK new : new = depthBuffer1 \o data
    OBVIOUS
  <1>7. /\ Len(new) = d + n
        /\ \A k \in 1 .. d + n : new[k] = IF k <= d THEN depthBuffer1[k] ELSE data[k - d]
    <2>1. /\ Len(new) = Len(depthBuffer1) + Len(data)
          /\ \A k \in 1 .. Len(depthBuffer1) + Len(data) :
               new[k] = IF k <= Len(depthBuffer1) THEN depthBuffer1[k] ELSE data[k - Len(depthBuffer1)]
      BY <1>4, Joined2
    <2> QED BY <2>1, Zenon
  <1>8. depthBuffer1' = new
    BY <1>2
  <1>9. Len(Pipeline(DepthPort)') \in Nat /\ Len(burstRespQueue[DepthPort]) \in Nat
    BY <1>5
  <1>10. VidxInOrder'
    <2> SUFFICES ASSUME NEW k \in 1 .. Len(Pipeline(DepthPort)')
                 PROVE  vidxBuffer'[Len(depthBuffer1') + k] = Pipeline(DepthPort)'[k].at
      BY DEF VidxInOrder
    <2>1. k + n \in 1 .. all /\ (d + n) + k = d + (k + n)
      BY <1>9
    <2>2. vidxBuffer[d + (k + n)] = Pipeline(DepthPort)[k + n].at
      BY <2>1, Zenon DEF VidxInOrder
    <2>3. Pipeline(DepthPort)'[k] = Pipeline(DepthPort)[k + n]
      OBVIOUS
    <2> QED BY <1>3, <1>7, <1>8, <2>1, <2>2, <2>3, Zenon
  <1>11. ASSUME NEW k \in 1 .. Len(depthBuffer1') PROVE FormerPair(k) \/ NewPair(k)
    <2>0. k \in 1 .. d + n
      BY <1>7, <1>8
    <2>1. CASE k <= d
      <3>1. k \in 1 .. d
        BY <2>0, <2>1
      <3>2. depthBuffer1'[k] = depthBuffer1[k]
        BY <1>7, <1>8, <2>0, <2>1, Zenon
      <3> QED BY <1>3, <3>1, <3>2, Zenon DEF FormerPair
    <2>2. CASE ~(k <= d)
      <3>1. n = 1 /\ k = d + 1 /\ k - d = 1 /\ 1 \in 1 .. all
        BY <1>9, <2>0, <2>2
      <3>2. 1 \in 1 .. Len(burstRespQueue[DepthPort])
        BY <1>9, <3>1
      <3>3. depthBuffer1'[k] = first.data[1]
        BY <1>7, <1>8, <2>0, <2>2, <3>1, Zenon
      <3>4. vidxBuffer[d + 1] = first.at
        BY <3>1, Zenon DEF VidxInOrder
      <3> QED BY <1>3, <3>1, <3>2, <3>3, <3>4, Zenon DEF NewPair
    <2> QED BY <2>1, <2>2
  <1> QED
    BY <1>10, <1>11 DEF PairsKept

LEMMA PairsExpanded ==
    ASSUME IInv, VidxInOrder, expandDepthAnalysis PROVE PairsKept
  <1> PICK n \in Nat, b \in Burst, out \in Seq(Int) : Expands(n, b, out)
    BY ExpandTurn
  <1>1. /\ Publish(WritePort, out) /\ creating' = [creating EXCEPT ![WritePort] = b]
        /\ UNCHANGED <<mem, burstRespQueue>>
        /\ Taken(depthBuffer1, depthBuffer1', n) /\ Taken(vidxBuffer, vidxBuffer', n)
    BY Zenon DEF Expands
  <1>2. Pipeline(DepthPort)' = Pipeline(DepthPort)
    BY <1>1, Ports, OtherIssue
  <1> PICK x, d, all \in Nat : /\ x = Len(vidxBuffer) /\ d = Len(depthBuffer1)
                               /\ all = Len(Pipeline(DepthPort)) /\ x = d + all
    BY PairCount
  <1>3. /\ n \in 0 .. d /\ Len(depthBuffer1') = d - n /\ Len(vidxBuffer') = x - n
        /\ \A k \in 1 .. d - n : depthBuffer1'[k] = depthBuffer1[n + k]
        /\ \A k \in 1 .. x - n : vidxBuffer'[k] = vidxBuffer[n + k]
    <2>1. /\ n \in 0 .. Len(depthBuffer1) /\ Len(depthBuffer1') = Len(depthBuffer1) - n
          /\ \A k \in 1 .. Len(depthBuffer1') : depthBuffer1'[k] = depthBuffer1[n + k]
          /\ Len(vidxBuffer') = Len(vidxBuffer) - n
          /\ \A k \in 1 .. Len(vidxBuffer') : vidxBuffer'[k] = vidxBuffer[n + k]
      BY <1>1, Zenon DEF Taken
    <2> QED BY <2>1
  <1>4. VidxInOrder'
    <2> SUFFICES ASSUME NEW k \in 1 .. Len(Pipeline(DepthPort)')
                 PROVE  vidxBuffer'[Len(depthBuffer1') + k] = Pipeline(DepthPort)'[k].at
      BY DEF VidxInOrder
    <2>1. k \in 1 .. all
      BY <1>2
    <2>2. (d - n) + k \in 1 .. x - n /\ n + ((d - n) + k) = d + k
      BY <1>3, <2>1
    <2>3. vidxBuffer[d + k] = Pipeline(DepthPort)[k].at
      BY <2>1, Zenon DEF VidxInOrder
    <2> QED BY <1>2, <1>3, <2>2, <2>3, Zenon
  <1>5. ASSUME NEW k \in 1 .. Len(depthBuffer1') PROVE FormerPair(k)
    <2>1. k \in 1 .. d - n /\ k \in 1 .. x - n /\ n + k \in 1 .. d
      BY <1>3
    <2>2. depthBuffer1'[k] = depthBuffer1[n + k] /\ vidxBuffer'[k] = vidxBuffer[n + k]
      BY <1>3, <2>1
    <2> QED BY <2>1, <2>2, Zenon DEF FormerPair
  <1> QED
    BY <1>4, <1>5 DEF PairsKept

\* No other thread touches the buffers of the pairs.
LEMMA PairsStep == ASSUME IInv, VidxInOrder, [Next]_vars PROVE PairsKept
  <1>1. ASSUME UNCHANGED <<vidxBuffer, depthBuffer1>>, SamePlaces(DepthPort) PROVE PairsKept
    <2>1. VidxInOrder'
      BY <1>1, Zenon DEF VidxInOrder, SamePlaces
    <2> QED BY <1>1, <2>1, Zenon DEF PairsKept, FormerPair
  <1>2. CASE issueExpandDepthReadReq \/ processExpandDepthReadResp \/ expandDepthAnalysis
    BY <1>2, PairsRequested, PairsReceived, PairsExpanded
  <1>3. CASE ~(issueExpandDepthReadReq \/ processExpandDepthReadResp \/ expandDepthAnalysis)
    <2>1. SamePlaces(DepthPort)
      BY <1>3, PlacesStep, Ports
    <2>2. ASSUME NEW i \in Port, Receive(i) PROVE vidxBuffer' = vidxBuffer
      BY <2>2, ReceiveKeeps
    <2>3. UNCHANGED <<vidxBuffer, depthBuffer1>>
      <3>1. CASE \E p \in Part : inspectDepthReqThread(p) \/ inspectDepthRespThread(p)
        <4>1. Part \subseteq Port
          BY Ports
        <4> QED BY <2>2, <3>1, <4>1 DEF inspectDepthReqThread, inspectDepthRespThread
      <3>2. CASE processExpandRpaoReadResp \/ processExpandCiaoReadResp
        BY <2>2, <3>2, Ports DEF processExpandRpaoReadResp, processExpandCiaoReadResp
      <3>3. CASE inspectDepthAnalysis \/ frontierAnalysis \/ issueExpandCiaoReadReq
                   \/ processExpandDepthWriteResp \/ sendMemReq
        BY <3>3 DEF inspectDepthAnalysis, frontierAnalysis, issueExpandCiaoReadReq,
          processExpandDepthWriteResp, sendMemReq
      <3>4. CASE statusMonitor \/ Tick \/ UNCHANGED vars \/ \E R \in SUBSET Port : getMemResp(R)
        BY <3>4 DEF statusMonitor, Tick, vars, getMemResp
      <3> QED BY <1>3, <3>1, <3>2, <3>3, <3>4 DEF Next
    <2> QED BY <1>1, <2>1, <2>3
  <1> QED
    BY <1>2, <1>3
-----------------------------------------------------------------------------
(* The end of a level *)

\* Only the clock edge changes the level, and only when nothing is under way.
LEMMA LevelKept ==
    ASSUME [Next]_vars PROVE level' = level \/ (Tick /\ isEndOfBfsIteration)
  <1>1. ASSUME NEW i \in Port, Receive(i) PROVE level' = level
    BY <1>1, ReceiveKeeps
  <1>2. CASE \E p \in Part : inspectDepthReqThread(p) \/ inspectDepthRespThread(p)
    <2>1. Part \subseteq Port
      BY Ports
    <2> QED BY <1>1, <1>2, <2>1 DEF inspectDepthReqThread, inspectDepthRespThread, control
  <1>3. CASE processExpandRpaoReadResp \/ processExpandCiaoReadResp \/ processExpandDepthReadResp
    BY <1>1, <1>3, Ports DEF processExpandRpaoReadResp, processExpandCiaoReadResp,
      processExpandDepthReadResp
  <1>4. CASE inspectDepthAnalysis \/ frontierAnalysis \/ issueExpandCiaoReadReq
               \/ issueExpandDepthReadReq \/ expandDepthAnalysis
    BY <1>4 DEF inspectDepthAnalysis, frontierAnalysis, issueExpandCiaoReadReq,
      issueExpandDepthReadReq, expandDepthAnalysis, control
  <1>5. CASE processExpandDepthWriteResp \/ sendMemReq \/ statusMonitor \/ UNCHANGED vars
               \/ \E R \in SUBSET Port : getMemResp(R)
    BY <1>5 DEF processExpandDepthWriteResp, sendMemReq, statusMonitor, vars, getMemResp, control
  <1>6. CASE Tick
    BY <1>6 DEF Tick, bfsController
  <1> QED
    BY <1>2, <1>3, <1>4, <1>5, <1>6 DEF Next

\* No depth is buffered, and no burst is anywhere.
Still ==
    /\ \A i \in Port : /\ Len(burstRespQueue[i]) = 0 /\ Len(burstReqQueue[i]) = 0
                       /\ Len(mem[i]) = 0
    /\ Len(depthBuffer1) = 0 /\ Len(depthBuffer2) = 0 /\ Len(Pipeline(WritePort)) = 0
    /\ \A p \in Part : Len(depthBuffer0[p]) = 0

LEMMA StillAgrees == ASSUME Still PROVE DepthsAgree /\ LabelsPending /\ ScanAgrees
  <1>1. DepthPort \in Port /\ WritePort \in Port /\ Part \subseteq Port
    BY Ports
  <1>2. DepthsAgree
    BY <1>1 DEF DepthsAgree, Still
  <1>3. LabelsPending
    BY <1>1 DEF LabelsPending, AllIn, Still
  <1>4. ScanAgrees
    BY <1>1 DEF ScanAgrees, BufferSeen, Still
  <1> QED
    BY <1>2, <1>3, <1>4

LEMMA LevelTurns ==
    ASSUME IInv, [Next]_vars, level' # level
    PROVE  Still /\ Still'
  <1>1. Tick /\ isEndOfBfsIteration
    BY LevelKept
  <1>2. UNCHANGED <<burstRespQueue, burstReqQueue, creating, mem, depthBuffer0, depthBuffer1, depthBuffer2>>
    BY <1>1 DEF Tick, issuing, memory
  <1>3. /\ StatusEmpty /\ depthBuffer1 = <<>> /\ depthBuffer2 = <<>>
        /\ \A p \in Part : depthBuffer0[p] = <<>>
    BY <1>1 DEF isEndOfBfsIteration, BuffersEmpty, InspectionBuffersEmpty
  <1>4. Pipeline(WritePort) = <<>>
    BY <1>1, EndOfIteration
  <1>5. \A i \in Port : /\ Len(burstRespQueue[i]) = 0 /\ Len(burstReqQueue[i]) = 0
                        /\ Len(mem[i]) = 0
    BY <1>3, Entries DEF StatusEmpty
  <1>6. Still
    BY <1>3, <1>4, <1>5, EmptySeq DEF Still
  <1>7. Pipeline(WritePort)' = Pipeline(WritePort)
    BY <1>2, Ports, SamePipe
  <1> QED
    BY <1>2, <1>6, <1>7, Zenon DEF Still
-----------------------------------------------------------------------------
(* The depths of the expansion *)

\* The vertices of the pairs and of the bursts.
LEMMA DepthPlaces ==
    ASSUME IInv, Flow(Vertex)
    PROVE  /\ \A k \in 1 .. Len(depthBuffer1) : vidxBuffer[k] \in Vertex
           /\ \A i \in {DepthPort, WritePort} : \A k \in 1 .. Len(Pipeline(i)) :
                Pipeline(i)[k].at \in Vertex /\ Pipeline(i)[k].len = 1
  <1>1. Targets(Vertex) \subseteq Vertex
    BY DEF Targets
  <1>2. ASSUME NEW k \in 1 .. Len(depthBuffer1) PROVE vidxBuffer[k] \in Vertex
    <2>1. k \in 1 .. Len(vidxBuffer)
      BY PairCount
    <2>2. vidxBuffer[k] \in Targets(Vertex)
      BY <2>1, Zenon DEF Flow, BuffersIn, AllIn
    <2> QED BY <1>1, <2>2
  <1>3. ASSUME NEW i \in {DepthPort, WritePort}, NEW k \in 1 .. Len(Pipeline(i))
        PROVE  Pipeline(i)[k].at \in Vertex /\ Pipeline(i)[k].len = 1
    <2>1. i \in Port
      BY Ports
    <2>2. Fits(Vertex, i, Pipeline(i)[k].at, Pipeline(i)[k].len)
      BY <2>1, Zenon DEF Flow, BurstsFit
    <2> QED BY <1>1, <2>2, Zenon DEF Fits
  <1> QED
    BY <1>2, <1>3

\* An answer to the depth port holds the depth as it is.
LEMMA AnswerAgrees ==
    ASSUME IInv, Flow(Vertex), mem[DepthPort] # <<>>
    PROVE  /\ Answer(DepthPort).at \in Vertex
           /\ Answer(DepthPort).data[1] = depth[Answer(DepthPort).at]
  <1>1. DepthPort \in Port /\ DepthPort # WritePort
    BY Ports
  <1>2. PICK k \in 1 .. Len(Pipeline(DepthPort)) : Pipeline(DepthPort)[k] = mem[DepthPort][1]
    BY <1>1, Places
  <1>3. Answer(DepthPort).at = mem[DepthPort][1].at /\ Answer(DepthPort).len = mem[DepthPort][1].len
    BY <1>1, AnswerData
  <1>4. Answer(DepthPort).at \in Vertex /\ Answer(DepthPort).len = 1
    BY <1>2, <1>3, DepthPlaces, Zenon
  <1> PICK a : a = Answer(DepthPort).at
    OBVIOUS
  <1>5. Answer(DepthPort).data[1] = Cell(Ram(DepthPort), a + 1 - 1)
    <2>1. 1 \in 1 .. Answer(DepthPort).len
      BY <1>4
    <2> QED BY <1>1, <2>1, AnswerData
  <1>6. a \in Vertex /\ a + 1 - 1 = a
    BY <1>4 DEF Vertex
  <1>7. Ram(DepthPort) = depth
    BY <1>1, Ports, Arrays
  <1>8. Cell(depth, a) = depth[a]
    BY <1>6 DEF Cell, IInv, TypeOK
  <1> QED
    BY <1>4, <1>5, <1>6, <1>7, <1>8

LEMMA DepthsStep ==
    ASSUME IInv, Flow(Vertex), VidxInOrder, DepthsAgree, Moves, [Next]_vars, level' = level
    PROVE  DepthsAgree'
  <1>1. PairsKept
    BY PairsStep
  <1>2. ASSUME NEW d, NEW v \in Vertex, Agrees(d, v) PROVE Agrees(d, v)'
    BY <1>2, AgreementKept
  <1>3. DepthPort \in Port
    BY Ports
  <1>4. \A k \in 1 .. Len(burstRespQueue[DepthPort]) : burstRespQueue[DepthPort][k].at \in Vertex
    BY <1>3, Places, DepthPlaces
  <1>5. ASSUME NEW k \in 1 .. Len(depthBuffer1')
        PROVE  \E d, v : depthBuffer1'[k] = d /\ vidxBuffer'[k] = v /\ v \in Vertex /\ Agrees(d, v)
    <2>1. CASE FormerPair(k)
      <3> PICK j \in 1 .. Len(depthBuffer1) :
            depthBuffer1'[k] = depthBuffer1[j] /\ vidxBuffer'[k] = vidxBuffer[j]
        BY <2>1 DEF FormerPair
      <3>1. vidxBuffer[j] \in Vertex /\ Agrees(depthBuffer1[j], vidxBuffer[j])
        BY DepthPlaces DEF DepthsAgree
      <3> QED BY <3>1
    <2>2. CASE NewPair(k)
      <3> PICK b : b = burstRespQueue[DepthPort][1]
        OBVIOUS
      <3>1. /\ 1 \in 1 .. Len(burstRespQueue[DepthPort])
            /\ depthBuffer1'[k] = b.data[1] /\ vidxBuffer'[k] = b.at
        BY <2>2, Zenon DEF NewPair
      <3>2. b.at \in Vertex /\ Agrees(b.data[1], b.at)
        BY <1>4, <3>1 DEF DepthsAgree
      <3> QED BY <3>1, <3>2
    <2> QED BY <1>1, <2>1, <2>2 DEF PairsKept
  <1>6. ASSUME NEW k \in 1 .. Len(burstRespQueue'[DepthPort])
        PROVE  \E d, v : /\ burstRespQueue'[DepthPort][k].data[1] = d
                         /\ burstRespQueue'[DepthPort][k].at = v
                         /\ v \in Vertex /\ Agrees(d, v)
    <2>1. CASE \E j \in 1 .. Len(burstRespQueue[DepthPort]) :
                 burstRespQueue'[DepthPort][k] = burstRespQueue[DepthPort][j]
      BY <1>4, <2>1 DEF DepthsAgree
    <2>2. CASE mem[DepthPort] # <<>> /\ burstRespQueue'[DepthPort][k] = Answer(DepthPort)
      <3> PICK b : b = Answer(DepthPort)
        OBVIOUS
      <3>1. b.at \in Vertex /\ b.data[1] = depth[b.at]
        BY <2>2, AnswerAgrees
      <3>2. Agrees(depth[b.at], b.at)
        BY DEF Agrees
      <3> QED BY <2>2, <3>1, <3>2
    <2> QED BY <1>3, <2>1, <2>2, Responses
  <1>7. \A d, v : v \in Vertex /\ Agrees(d, v) => Agrees(d, v)'
    BY <1>2
  <1>8. \A k \in 1 .. Len(depthBuffer1') : Agrees(depthBuffer1[k], vidxBuffer[k])'
    BY <1>5, <1>7 DEF Agrees
  <1>9. ASSUME NEW k \in 1 .. Len(burstRespQueue'[DepthPort])
        PROVE  Agrees(burstRespQueue[DepthPort][k].data[1], burstRespQueue[DepthPort][k].at)'
    <2> PICK d, v : /\ burstRespQueue'[DepthPort][k].data[1] = d
                    /\ burstRespQueue'[DepthPort][k].at = v
                    /\ v \in Vertex /\ Agrees(d, v)
      BY <1>6
    <2>1. IF d = -1 THEN depth'[v] \in {-1, Label'} ELSE depth'[v] = d
      BY <1>7 DEF Agrees
    <2> QED BY <2>1, Zenon DEF Agrees
  <1> QED
    BY <1>8, <1>9 DEF DepthsAgree
-----------------------------------------------------------------------------
(* The labels of this iteration *)

\* Vertices on their way to be written: those of before, or one whose depth
\* was read as unvisited.
LEMMA WritesStep ==
    ASSUME IInv, Flow(Vertex), DepthsAgree, LabelsPending, [Next]_vars,
           NEW k \in 1 .. Len(Pipeline(WritePort)')
    PROVE  \E v \in Vertex : Pipeline(WritePort)'[k].at = v /\ depth[v] \in {-1, Label}
  <1>1. WritePort \in Port
    BY Ports
  <1>2. ASSUME NEW j \in 1 .. Len(Pipeline(WritePort)),
               Pipeline(WritePort)'[k].at = Pipeline(WritePort)[j].at
        PROVE  \E v \in Vertex : Pipeline(WritePort)'[k].at = v /\ depth[v] \in {-1, Label}
    BY <1>2, DepthPlaces DEF LabelsPending
  <1>3. CASE SamePlaces(WritePort)
    BY <1>2, <1>3, Zenon DEF SamePlaces
  <1>4. CASE processExpandDepthWriteResp
    <2> PICK n \in Nat : /\ Len(Pipeline(WritePort)) = Len(Pipeline(WritePort)') + n
                         /\ Pipeline(WritePort)'[k] = Pipeline(WritePort)[k + n]
      BY <1>4, WritePipe
    <2>1. IInv'
      BY nextInv
    <2>2. Pipeline(WritePort)' \in Seq(Burst)
      BY <1>1, <2>1, PipeOfNext DEF IsPipe
    <2>3. Len(Pipeline(WritePort)') \in Nat
      BY <2>2
    <2>4. k + n \in 1 .. Len(Pipeline(WritePort))
      BY <2>3
    <2> QED BY <1>2, <2>4
  <1>5. CASE expandDepthAnalysis
    <2> PICK n \in Nat, b \in Burst, data \in Seq(Int) : Expands(n, b, data)
      BY <1>5, ExpandTurn
    <2>1. /\ Publish(WritePort, data) /\ creating' = [creating EXCEPT ![WritePort] = b]
          /\ UNCHANGED <<mem, burstRespQueue>>
      BY Zenon DEF Expands
    <2>2. /\ Pipeline(WritePort) \in Seq(Burst)
          /\ Len(Pipeline(WritePort)') = Len(Pipeline(WritePort)) + (IF b = NoBurst THEN 0 ELSE 1)
          /\ \A j \in 1 .. Len(Pipeline(WritePort)) :
               Pipeline(WritePort)'[j].at = Pipeline(WritePort)[j].at
          /\ b # NoBurst => Pipeline(WritePort)'[Len(Pipeline(WritePort)) + 1] = b
      BY <1>1, <2>1, IssuePipe
    <2>3. CASE k \in 1 .. Len(Pipeline(WritePort))
      BY <1>2, <2>2, <2>3
    <2>4. CASE b # NoBurst /\ k = Len(Pipeline(WritePort)) + 1
      <3>1. /\ n > 0 /\ depthBuffer1[n] = -1 /\ b.at = vidxBuffer[n]
            /\ n \in 0 .. Len(depthBuffer1)
        BY <2>4, Zenon DEF Expands, Taken
      <3>2. n \in 1 .. Len(depthBuffer1)
        BY <3>1
      <3>3. vidxBuffer[n] \in Vertex /\ Agrees(-1, vidxBuffer[n])
        BY <3>1, <3>2, DepthPlaces, Zenon DEF DepthsAgree
      <3>4. depth[vidxBuffer[n]] \in {-1, Label}
        BY <3>3 DEF Agrees
      <3> QED BY <2>2, <2>4, <3>1, <3>3, <3>4
    <2>5. k \in 1 .. Len(Pipeline(WritePort)) \/ (b # NoBurst /\ k = Len(Pipeline(WritePort)) + 1)
      BY <2>2
    <2> QED BY <2>3, <2>4, <2>5
  <1>6. ~issueExpandDepthReadReq \/ WritePort # DepthPort
    BY Ports
  <1> QED
    BY <1>3, <1>4, <1>5, Ports, PlacesStep

\* Which steps touch the labels that are not written yet.
LEMMA LabelsAlone ==
    ASSUME IInv, [Next]_vars, ~expandDepthAnalysis, ~sendMemReq,
           ~\E R \in SUBSET Port : getMemResp(R)
    PROVE  /\ burstReqQueue'[WritePort] = burstReqQueue[WritePort]
           /\ mem' = mem /\ depthBuffer2' = depthBuffer2
  <1> DEFINE Goal == /\ burstReqQueue'[WritePort] = burstReqQueue[WritePort]
                     /\ mem' = mem /\ depthBuffer2' = depthBuffer2
  <1> SUFFICES Goal
    OBVIOUS
  <1>1. burstReqQueue \in [Port -> Seq(Burst)] /\ WritePort \in Port
    BY Ports DEF IInv, TypeOK
  <1>2. ASSUME NEW i \in Port, Receive(i) PROVE Goal
    BY <1>2, ReceiveKeeps
  <1>3. ASSUME NEW i \in Port \ {WritePort}, Publish(i, <<>>), UNCHANGED <<mem, depthBuffer2>>
        PROVE  Goal
    BY <1>1, <1>3 DEF Publish
  <1>4. CASE \E p \in Part : inspectDepthReqThread(p)
    <2> PICK p \in Part : inspectDepthReqThread(p)
      BY <1>4
    <2>1. p \in Port \ {WritePort} /\ Publish(p, <<>>) /\ UNCHANGED <<mem, depthBuffer2>>
      BY Ports DEF inspectDepthReqThread, memory
    <2> QED BY <1>3, <2>1
  <1>5. CASE \E p \in Part : inspectDepthRespThread(p)
    <2>1. Part \subseteq Port
      BY Ports
    <2> QED BY <1>2, <1>5, <2>1 DEF inspectDepthRespThread
  <1>6. CASE processExpandRpaoReadResp \/ processExpandCiaoReadResp \/ processExpandDepthReadResp
    BY <1>2, <1>6, Ports DEF processExpandRpaoReadResp, processExpandCiaoReadResp,
      processExpandDepthReadResp
  <1>7. CASE frontierAnalysis
    BY <1>3, <1>7, Ports DEF frontierAnalysis, memory
  <1>8. CASE issueExpandCiaoReadReq
    BY <1>3, <1>8, Ports DEF issueExpandCiaoReadReq, memory
  <1>9. CASE issueExpandDepthReadReq
    BY <1>3, <1>9, Ports DEF issueExpandDepthReadReq, memory
  <1>10. CASE inspectDepthAnalysis \/ processExpandDepthWriteResp \/ statusMonitor \/ Tick
                \/ UNCHANGED vars
    BY <1>10 DEF inspectDepthAnalysis, processExpandDepthWriteResp, statusMonitor, Tick, vars,
      issuing, memory
  <1> QED
    BY <1>4, <1>5, <1>6, <1>7, <1>8, <1>9, <1>10 DEF Next

\* They all carry the label of this iteration.
LEMMA LabelledStep ==
    ASSUME IInv, LabelsPending, [Next]_vars
    PROVE  /\ AllIn(burstReqQueue'[WritePort], Labelled) /\ AllIn(mem'[WritePort], Labelled)
           /\ AllIn(depthBuffer2', {Label})
  <1> DEFINE Goal == /\ AllIn(burstReqQueue'[WritePort], Labelled)
                     /\ AllIn(mem'[WritePort], Labelled) /\ AllIn(depthBuffer2', {Label})
  <1> SUFFICES Goal
    OBVIOUS
  <1>0. WritePort \in Port
    BY Ports
  <1>1. /\ AllIn(burstReqQueue[WritePort], Labelled) /\ AllIn(mem[WritePort], Labelled)
        /\ AllIn(depthBuffer2, {Label})
    BY Zenon DEF LabelsPending
  <1>2. /\ burstReqQueue \in [Port -> Seq(Burst)] /\ mem \in [Port -> Seq(Burst)]
        /\ creating \in [Port -> Burst]
    BY DEF IInv, TypeOK
  <1> PICK q, m : q = burstReqQueue[WritePort] /\ m = mem[WritePort]
    OBVIOUS
  <1>3. q \in Seq(Burst) /\ m \in Seq(Burst) /\ AllIn(q, Labelled) /\ AllIn(m, Labelled)
    BY <1>0, <1>1, <1>2
  <1>4. /\ q # <<>> => /\ Head(q) \in Labelled /\ AllIn(Tail(q), Labelled)
                       /\ AllIn(Append(m, Head(q)), Labelled)
        /\ m # <<>> => AllIn(Tail(m), Labelled)
    <2>1. q # <<>> => Head(q) \in Labelled /\ AllIn(Tail(q), Labelled)
      BY <1>3, AllInPart
    <2>2. m # <<>> => AllIn(Tail(m), Labelled)
      BY <1>3, AllInPart
    <2>3. \A b \in Burst : b \in Labelled => AllIn(Append(m, b), Labelled)
      BY <1>3, AllInPart
    <2>4. Labelled \subseteq Burst
      BY DEF Labelled
    <2> QED BY <2>1, <2>2, <2>3, <2>4
  <1>5. CASE expandDepthAnalysis
    <2> PICK n \in Nat, b \in Burst, data \in Seq(Int) : Expands(n, b, data)
      BY <1>5, ExpandTurn
    <2>1. /\ Publish(WritePort, data) /\ mem' = mem
          /\ \A k \in 1 .. Len(depthBuffer2') : depthBuffer2'[k] = Label
          /\ creating[WritePort] # NoBurst =>
                1 \in 1 .. Len(depthBuffer2) /\ data[1] = depthBuffer2[1]
      BY Zenon DEF Expands, Label
    <2>2. AllIn(depthBuffer2', {Label})
      BY <2>1 DEF AllIn
    <2>3. AllIn(burstReqQueue'[WritePort], Labelled)
      <3>1. CASE creating[WritePort] = NoBurst
        BY <1>1, <2>1, <3>1 DEF Publish
      <3>2. CASE creating[WritePort] # NoBurst
        <4> PICK x : x = [creating[WritePort] EXCEPT !.data = data]
          OBVIOUS
        <4>1. burstReqQueue'[WritePort] = Append(q, x)
          BY <1>0, <1>2, <2>1, <3>2 DEF Publish
        <4>2. data[1] = Label
          BY <1>1, <2>1, <3>2 DEF AllIn
        <4>3. x \in Burst /\ x.data = data
          <5>1. creating[WritePort] \in Burst
            BY <1>0, <1>2
          <5> QED BY <5>1 DEF Burst
        <4>4. x \in Labelled
          BY <4>2, <4>3 DEF Labelled
        <4>5. AllIn(Append(q, x), Labelled)
          BY <1>3, <4>3, <4>4, AllInPart
        <4> QED BY <4>1, <4>5, Zenon
      <3> QED BY <3>1, <3>2
    <2> QED BY <1>1, <2>1, <2>2, <2>3
  <1>6. CASE sendMemReq
    <2>1. /\ depthBuffer2' = depthBuffer2
          /\ mem'[WritePort] = IF q # <<>> THEN Append(m, Head(q)) ELSE m
          /\ burstReqQueue'[WritePort] = IF q # <<>> THEN Tail(q) ELSE q
      BY <1>0, <1>6 DEF sendMemReq
    <2> QED BY <1>1, <1>3, <1>4, <2>1, Zenon
  <1>7. CASE \E R \in SUBSET Port : getMemResp(R)
    <2>1. /\ depthBuffer2' = depthBuffer2 /\ burstReqQueue' = burstReqQueue
          /\ mem'[WritePort] = m \/ (m # <<>> /\ mem'[WritePort] = Tail(m))
      BY <1>0, <1>7 DEF getMemResp, issuing
    <2> QED BY <1>1, <1>3, <1>4, <2>1, Zenon
  <1>8. CASE ~(expandDepthAnalysis \/ sendMemReq \/ \E R \in SUBSET Port : getMemResp(R))
    <2>1. burstReqQueue'[WritePort] = q /\ mem'[WritePort] = m /\ depthBuffer2' = depthBuffer2
      BY <1>8, LabelsAlone
    <2> QED BY <1>1, <1>3, <2>1, Zenon
  <1> QED
    BY <1>5, <1>6, <1>7, <1>8

LEMMA LabelsStep ==
    ASSUME IInv, Flow(Vertex), DepthsAgree, LabelsPending, Moves, [Next]_vars, level' = level
    PROVE  LabelsPending'
  <1>1. Label' = Label /\ Labelled' = Labelled
    BY DEF Label, Labelled
  <1>2. ASSUME NEW k \in 1 .. Len(Pipeline(WritePort)')
        PROVE  depth'[Pipeline(WritePort)'[k].at] \in {-1, Label}
    <2> PICK v \in Vertex : Pipeline(WritePort)'[k].at = v /\ depth[v] \in {-1, Label}
      BY WritesStep
    <2>1. depth'[v] \in {-1, Label}
      BY AgreementKept
    <2> QED BY <2>1
  <1> QED
    BY <1>1, <1>2, LabelledStep, Zenon DEF LabelsPending
-----------------------------------------------------------------------------
(* The depths of the inspection *)

\* They are read for vertices.
LEMMA ScanPlaces ==
    ASSUME IInv, DataKnown, Phases, NEW p \in Part
    PROVE  /\ \A k \in 1 .. Len(depthBuffer0[p]) : idx[p] + k - 1 \in Vertex
           /\ \A k \in 1 .. Len(Pipeline(p)) : \A j \in 1 .. Pipeline(p)[k].len :
                Pipeline(p)[k].at + j - 1 \in Vertex
           /\ \A k \in 1 .. Len(burstRespQueue[p]) : \A j \in 1 .. Len(burstRespQueue[p][k].data) :
                burstRespQueue[p][k].at + j - 1 \in Vertex
  <1>1. /\ PartBase(p) \in Nat /\ PartLen(p) \in Nat /\ PartBase(p) + PartLen(p) <= V
        /\ V \in Nat /\ idx[p] \in Nat
    BY PartFits, PartEnds, GraphAssumption DEF GraphAssumption, IInv, TypeOK
  <1>2. p \in Port /\ p # WritePort
    BY Ports
  <1>3. depthBuffer0[p] \in Seq(Int)
    BY DEF IInv, TypeOK
  <1>4. Len(depthBuffer0[p]) \in Nat
    BY <1>3
  <1>5. \A lo, at, n, hi \in Int : \A j \in 1 .. n :
          0 <= lo /\ lo <= at /\ at + n <= hi /\ hi <= V => at + j - 1 \in 0 .. V - 1
    BY <1>1
  <1>6. ASSUME NEW k \in 1 .. Len(depthBuffer0[p]) PROVE idx[p] + k - 1 \in Vertex
    <2>1. depthBuffer0[p] # <<>>
      BY <1>3, <1>4, Begins
    <2>2. PartBase(p) <= idx[p] /\ idx[p] + Len(depthBuffer0[p]) <= PartBase(p) + PartLen(p)
      BY <2>1, ScanFits
    <2> QED BY <1>1, <1>4, <1>5, <2>2 DEF Vertex
  <1>7. ASSUME NEW k \in 1 .. Len(Pipeline(p)), NEW j \in 1 .. Pipeline(p)[k].len
        PROVE  Pipeline(p)[k].at + j - 1 \in Vertex
    <2>1. Pipeline(p)[k].at \in Int /\ Pipeline(p)[k].len \in Nat
      BY <1>2, Places, BurstAt
    <2>2. /\ PartBase(p) <= Pipeline(p)[k].at
          /\ Pipeline(p)[k].at + Pipeline(p)[k].len <= PartBase(p) + PartLen(p)
      BY ScanFits
    <2> QED BY <1>1, <1>5, <2>1, <2>2, SMTT(30) DEF Vertex
  <1>8. ASSUME NEW k \in 1 .. Len(burstRespQueue[p]),
               NEW j \in 1 .. Len(burstRespQueue[p][k].data)
        PROVE  burstRespQueue[p][k].at + j - 1 \in Vertex
    <2>1. k \in 1 .. Len(Pipeline(p)) /\ Pipeline(p)[k] = burstRespQueue[p][k]
      BY <1>2, Places
    <2>2. Len(burstRespQueue[p][k].data) = burstRespQueue[p][k].len
      BY <1>2 DEF DataKnown
    <2> QED BY <1>7, <2>1, <2>2
  <1> QED
    BY <1>6, <1>7, <1>8

\* The oldest response of a partition continues the buffered depths.
LEMMA FirstAt ==
    ASSUME IInv, Phases, NEW p \in Part, Len(burstRespQueue[p]) > 0
    PROVE  burstRespQueue[p][1].at = idx[p] + Len(depthBuffer0[p])
  <1>1. p \in Port /\ burstRespQueue[p] \in Seq(Burst) /\ Pipeline(p) \in Seq(Burst)
    BY Ports, Places
  <1>2. ~Quiet(p)
    <2>1. ASSUME burstOpStatus[p] = 0 PROVE FALSE
      BY <1>1, <2>1, Entries
    <2> QED BY <2>1 DEF Quiet
  <1>3. Scanning(p)
    <2>1. PhaseOf(p) /\ localCounter \in Nat /\ StartCount \in Nat
      BY SizeAssumption DEF SizeAssumption, Phases, IInv, TypeOK
    <2>2. localCounter < StartCount \/ localCounter = StartCount \/ localCounter > StartCount
      BY <2>1
    <2> QED BY <1>2, <2>1, <2>2 DEF PhaseOf, Idle, Begun
  <1>4. 1 \in 1 .. Len(burstRespQueue[p])
    BY <1>1
  <1>5. 1 \in 1 .. Len(Pipeline(p)) /\ Pipeline(p)[1] = burstRespQueue[p][1]
    BY <1>1, <1>4, Places
  <1>6. Pipeline(p)[1].at = Buffered(p)
    BY <1>3, <1>5 DEF Scanning, Chain
  <1> QED
    BY <1>5, <1>6 DEF Buffered

\* An answer holds the depths as they are.
LEMMA AnswerSeen ==
    ASSUME IInv, DataKnown, Phases, NEW p \in Part, mem[p] # <<>>,
           NEW j \in 1 .. Len(Answer(p).data)
    PROVE  /\ Answer(p).at + j - 1 \in Vertex
           /\ Answer(p).data[j] = depth[Answer(p).at + j - 1]
  <1>1. /\ p \in Port /\ p # WritePort /\ p # RpaoPort /\ p # CiaoPort
    BY Ports
  <1>2. PICK k \in 1 .. Len(Pipeline(p)) : Pipeline(p)[k] = mem[p][1]
    BY <1>1, Places
  <1>3. /\ Answer(p).at = mem[p][1].at /\ Answer(p).len = mem[p][1].len
        /\ Len(Answer(p).data) = Answer(p).len
        /\ Answer(p).data[j] = Cell(Ram(p), Answer(p).at + j - 1)
    BY <1>1, AnswerData
  <1> PICK v : v = Answer(p).at + j - 1
    OBVIOUS
  <1>4. v \in Vertex
    BY <1>2, <1>3, ScanPlaces
  <1>5. Ram(p) = depth
    BY <1>1, Arrays
  <1>6. Cell(depth, v) = depth[v]
    BY <1>4 DEF Cell, IInv, TypeOK
  <1> QED
    BY <1>3, <1>4, <1>5, <1>6

\* A response was there before, or was read in this step.
LEMMA BurstsSeen ==
    ASSUME IInv, DataKnown, Phases, ScanAgrees, [Next]_vars, NEW p \in Part,
           NEW k \in 1 .. Len(burstRespQueue'[p]), NEW j \in 1 .. Len(burstRespQueue'[p][k].data)
    PROVE  \E v \in Vertex : /\ burstRespQueue'[p][k].at + j - 1 = v
                             /\ Agrees(burstRespQueue'[p][k].data[j], v)
  <1>1. p \in Port
    BY Ports
  <1>2. CASE \E i \in 1 .. Len(burstRespQueue[p]) : burstRespQueue'[p][k] = burstRespQueue[p][i]
    <2> PICK i \in 1 .. Len(burstRespQueue[p]) : burstRespQueue'[p][k] = burstRespQueue[p][i]
      BY <1>2
    <2> PICK b : b = burstRespQueue[p][i]
      OBVIOUS
    <2>1. BurstSeen(b)
      BY Zenon DEF ScanAgrees
    <2>2. j \in 1 .. Len(b.data)
      OBVIOUS
    <2>3. b.at + j - 1 \in Vertex
      BY <2>2, ScanPlaces
    <2>4. Agrees(b.data[j], b.at + j - 1)
      BY <2>1, <2>2, Zenon DEF BurstSeen
    <2> QED BY <2>3, <2>4, Zenon
  <1>3. CASE mem[p] # <<>> /\ burstRespQueue'[p][k] = Answer(p)
    <2> PICK b : b = Answer(p)
      OBVIOUS
    <2>1. b.at + j - 1 \in Vertex /\ b.data[j] = depth[b.at + j - 1]
      BY <1>3, AnswerSeen
    <2>2. Agrees(b.data[j], b.at + j - 1)
      BY <2>1, Zenon DEF Agrees
    <2> QED BY <1>3, <2>1, <2>2, Zenon
  <1> QED
    BY <1>1, <1>2, <1>3, Responses

\* What the response thread of a partition and the analysis do to its buffer.
BufferTurn(p) ==
    \/ depthBuffer0'[p] = depthBuffer0[p] /\ (depthBuffer0[p] # <<>> => idx'[p] = idx[p])
    \/ /\ depthBuffer0[p] # <<>> /\ depthBuffer0'[p] = Tail(depthBuffer0[p])
       /\ idx'[p] = idx[p] + 1
    \/ /\ 1 \in 1 .. Len(burstRespQueue[p]) /\ idx'[p] = idx[p]
       /\ burstRespQueue[p][1].data \in Seq(Int)
       /\ depthBuffer0'[p] = depthBuffer0[p] \o burstRespQueue[p][1].data

LEMMA BufferStep ==
    ASSUME IInv, DataKnown, Phases, [Next]_vars, NEW p \in Part PROVE BufferTurn(p)
  <1>1. p \in Port /\ depthBuffer0 \in [Part -> Seq(Int)] /\ idx \in [Part -> Nat]
    BY Ports DEF IInv, TypeOK
  <1>2. ASSUME NEW i \in Port, Receive(i), depthBuffer0' = depthBuffer0 PROVE BufferTurn(p)
    BY <1>2, ReceiveKeeps DEF BufferTurn
  <1>3. ASSUME NEW r \in Part, inspectDepthRespThread(r) PROVE BufferTurn(p)
    <2>1. /\ Receive(r) /\ depthBuffer0' = [depthBuffer0 EXCEPT ![r] = @ \o Received(r)]
          /\ r \in Port /\ r # WritePort
      BY <1>3, Ports DEF inspectDepthRespThread
    <2>2. idx' = idx
      BY <2>1, ReceiveKeeps
    <2>3. CASE p # r
      BY <1>1, <2>1, <2>2, <2>3 DEF BufferTurn
    <2>4. CASE p = r /\ serving[p]
      <3> PICK b \in Burst : /\ Received(p) = b.data /\ b.data \in Seq(Int)
                             /\ 1 \in 1 .. Len(burstRespQueue[p]) /\ b = burstRespQueue[p][1]
        BY <2>1, <2>4, Taking
      <3>1. depthBuffer0'[p] = depthBuffer0[p] \o b.data
        BY <1>1, <2>1, <2>4
      <3> QED BY <2>2, <3>1, Zenon DEF BufferTurn
    <2>5. CASE p = r /\ ~serving[p]
      <3>1. Received(p) = <<>>
        BY <2>1, <2>5 DEF Received
      <3>2. depthBuffer0'[p] = depthBuffer0[p] \o <<>>
        BY <1>1, <2>1, <2>5, <3>1
      <3>3. depthBuffer0[p] \o <<>> = depthBuffer0[p]
        BY <1>1, ConcatEmptySeq
      <3> QED BY <2>2, <3>2, <3>3 DEF BufferTurn
    <2> QED BY <2>3, <2>4, <2>5
  <1>4. CASE inspectDepthAnalysis
    <2> DEFINE from == IF bfsIterationStart THEN [q \in Part |-> PartBase(q)] ELSE idx
    <2>1. /\ idx' = [q \in Part |-> IF q \in Analysed THEN from[q] + 1 ELSE from[q]]
          /\ depthBuffer0' = [q \in Part |->
               IF q \in Analysed THEN Tail(depthBuffer0[q]) ELSE depthBuffer0[q]]
      BY <1>4 DEF inspectDepthAnalysis
    <2>2. depthBuffer0[p] # <<>> => ~bfsIterationStart
      BY ScanFits
    <2>3. p \in Analysed => depthBuffer0[p] # <<>>
      BY DEF Analysed
    <2>4. depthBuffer0[p] # <<>> => from[p] = idx[p]
      BY <2>2
    <2> HIDE DEF from
    <2>5. /\ idx'[p] = IF p \in Analysed THEN from[p] + 1 ELSE from[p]
          /\ depthBuffer0'[p] = IF p \in Analysed THEN Tail(depthBuffer0[p]) ELSE depthBuffer0[p]
      BY <2>1
    <2> QED BY <2>3, <2>4, <2>5, Zenon DEF BufferTurn
  <1>5. CASE processExpandRpaoReadResp \/ processExpandCiaoReadResp \/ processExpandDepthReadResp
    BY <1>2, <1>5, Ports DEF processExpandRpaoReadResp, processExpandCiaoReadResp,
      processExpandDepthReadResp
  <1>6. ASSUME UNCHANGED <<depthBuffer0, idx>> PROVE BufferTurn(p)
    BY <1>6 DEF BufferTurn
  <1>7. CASE \E r \in Part : inspectDepthReqThread(r)
    BY <1>6, <1>7 DEF inspectDepthReqThread, inspection
  <1>8. CASE frontierAnalysis \/ issueExpandCiaoReadReq \/ issueExpandDepthReadReq
               \/ expandDepthAnalysis
    BY <1>6, <1>8 DEF frontierAnalysis, issueExpandCiaoReadReq, issueExpandDepthReadReq,
      expandDepthAnalysis, inspection
  <1>9. CASE processExpandDepthWriteResp \/ sendMemReq \/ statusMonitor \/ Tick \/ UNCHANGED vars
               \/ \E R \in SUBSET Port : getMemResp(R)
    BY <1>6, <1>9 DEF processExpandDepthWriteResp, sendMemReq, statusMonitor, Tick, vars,
      getMemResp, inspection
  <1> QED
    BY <1>3, <1>4, <1>5, <1>7, <1>8, <1>9 DEF Next

LEMMA BuffersSeen ==
    ASSUME IInv, DataKnown, Phases, ScanAgrees, [Next]_vars, NEW p \in Part,
           NEW k \in 1 .. Len(depthBuffer0'[p])
    PROVE  \E v \in Vertex : idx'[p] + k - 1 = v /\ Agrees(depthBuffer0'[p][k], v)
  <1> DEFINE Goal == \E v \in Vertex : idx'[p] + k - 1 = v /\ Agrees(depthBuffer0'[p][k], v)
  <1> SUFFICES Goal
    OBVIOUS
  <1> PICK s, i : s = depthBuffer0[p] /\ i = idx[p]
    OBVIOUS
  <1>1. s \in Seq(Int) /\ i \in Nat
    BY DEF IInv, TypeOK
  <1>2. Len(s) \in Nat
    BY <1>1
  <1>0. idx'[p] \in Nat /\ k \in Nat
    <2>1. IInv'
      BY nextInv
    <2>2. depthBuffer0'[p] \in Seq(Int) /\ idx'[p] \in Nat
      BY <2>1 DEF IInv, TypeOK
    <2>3. Len(depthBuffer0'[p]) \in Nat
      BY <2>2
    <2> QED BY <2>2, <2>3
  <1> HIDE DEF Goal
  <1>9. /\ \A n, x \in Nat : x \in 1 .. n - 1 => x + 1 \in 1 .. n
        /\ \A x, y \in Int : (x + 1) + y - 1 = x + (y + 1) - 1
        /\ \A x, m, n \in Nat : x \in 1 .. m + n /\ ~(x <= m) => x - m \in 1 .. n
    OBVIOUS
  <1>11. \A x, m, n \in Int : x + n - 1 = (x + m) + (n - m) - 1
    OBVIOUS
  <1>10. idx'[p] \in Int /\ k \in Int /\ i \in Int /\ Len(s) \in Int /\ \A j \in 1 .. Len(s) : j \in Int
    BY <1>0, <1>1, <1>2
  <1>3. ASSUME NEW j \in 1 .. Len(s), idx'[p] + k - 1 = i + j - 1, depthBuffer0'[p][k] = s[j] PROVE Goal
    <2>1. i + j - 1 \in Vertex
      BY ScanPlaces
    <2>2. Agrees(s[j], i + j - 1)
      BY Zenon DEF ScanAgrees, BufferSeen
    <2> QED BY <1>3, <2>1, <2>2, Zenon DEF Goal
  <1>4. CASE depthBuffer0'[p] = s /\ (s # <<>> => idx'[p] = i)
    <2>1. k \in 1 .. Len(s)
      BY <1>4
    <2>2. s # <<>>
      BY <1>1, <2>1, EmptySeq
    <2> QED BY <1>3, <1>4, <2>1, <2>2
  <1>5. CASE s # <<>> /\ depthBuffer0'[p] = Tail(s) /\ idx'[p] = i + 1
    <2>1. Len(Tail(s)) = Len(s) - 1 /\ \A j \in 1 .. Len(Tail(s)) : Tail(s)[j] = s[j + 1]
      BY <1>1, <1>5, Begins
    <2>2. k \in 1 .. Len(s) - 1 /\ Tail(s)[k] = s[k + 1]
      BY <1>5, <2>1, Zenon
    <2>5. idx'[p] = i + 1
      BY <1>5
    <2>3. k + 1 \in 1 .. Len(s) /\ idx'[p] + k - 1 = i + (k + 1) - 1
      <3>1. k + 1 \in 1 .. Len(s)
        BY <1>0, <1>2, <1>9, <2>2, Zenon
      <3>2. (i + 1) + k - 1 = i + (k + 1) - 1
        BY <1>9, <1>10, Zenon
      <3> QED BY <2>5, <3>1, <3>2, Zenon
    <2>4. depthBuffer0'[p][k] = s[k + 1]
      BY <1>5, <2>2, Zenon
    <2> QED BY <1>3, <2>3, <2>4
  <1>6. CASE /\ 1 \in 1 .. Len(burstRespQueue[p]) /\ idx'[p] = i
             /\ burstRespQueue[p][1].data \in Seq(Int)
             /\ depthBuffer0'[p] = s \o burstRespQueue[p][1].data
    <2> PICK b, d : b = burstRespQueue[p][1] /\ d = b.data
      OBVIOUS
    <2>1. d \in Seq(Int)
      BY <1>6, Zenon
    <2>2. depthBuffer0'[p] = s \o d
      BY <1>6, Zenon
    <2>3. /\ Len(s \o d) = Len(s) + Len(d)
          /\ \A j \in 1 .. Len(s) + Len(d) :
               (s \o d)[j] = IF j <= Len(s) THEN s[j] ELSE d[j - Len(s)]
      BY <1>1, <2>1, Joined2, ZenonT(30)
    <2>4. /\ k \in 1 .. Len(s) + Len(d)
          /\ depthBuffer0'[p][k] = IF k <= Len(s) THEN s[k] ELSE d[k - Len(s)]
      BY <2>2, <2>3, Zenon
    <2>5. CASE k <= Len(s)
      <3>1. k \in 1 .. Len(s)
        BY <1>2, <2>4, <2>5
      <3>2. depthBuffer0'[p][k] = s[k]
        BY <2>4, <2>5, Zenon
      <3> QED BY <1>3, <1>6, <3>1, <3>2
    <2>6. CASE ~(k <= Len(s))
      <3> DEFINE j == k - Len(s)
      <3>1. Len(d) \in Nat
        BY <2>1
      <3>2. j \in 1 .. Len(d)
        BY <1>0, <1>2, <1>9, <2>4, <2>6, <3>1, Zenon
      <3>3. depthBuffer0'[p][k] = d[j]
        BY <2>4, <2>6, Zenon
      <3>4. b.at = i + Len(s)
        BY <1>6, FirstAt
      <3>5. b.at + j - 1 \in Vertex
        BY <1>6, <3>2, ScanPlaces, Zenon
      <3>6. Agrees(d[j], b.at + j - 1)
        <4>1. BurstSeen(b)
          BY <1>6, Zenon DEF ScanAgrees
        <4> QED BY <3>2, <4>1, Zenon DEF BurstSeen
      <3>7. idx'[p] + k - 1 = b.at + j - 1
        <4>1. i + k - 1 = (i + Len(s)) + (k - Len(s)) - 1
          BY <1>10, <1>11, ZenonT(30)
        <4>2. idx'[p] = i
          BY <1>6
        <4> QED BY <3>4, <4>1, <4>2, Zenon
      <3> HIDE DEF j
      <3> QED BY <3>3, <3>5, <3>6, <3>7, Zenon DEF Goal
    <2> QED BY <2>5, <2>6
  <1>7. BufferTurn(p)
    BY BufferStep
  <1>8. Goal
    BY <1>4, <1>5, <1>6, <1>7, Zenon DEF BufferTurn
  <1> QED
    BY <1>8

LEMMA ScanAgreesStep ==
    ASSUME IInv, DataKnown, Phases, ScanAgrees, Moves, [Next]_vars, level' = level
    PROVE  ScanAgrees'
  <1>1. ASSUME NEW d, NEW v \in Vertex, Agrees(d, v) PROVE Agrees(d, v)'
    BY <1>1, AgreementKept
  <1>2. ASSUME NEW p \in Part, NEW k \in 1 .. Len(depthBuffer0'[p])
        PROVE  Agrees(depthBuffer0[p][k], idx[p] + k - 1)'
    <2> PICK v \in Vertex : idx'[p] + k - 1 = v /\ Agrees(depthBuffer0'[p][k], v)
      BY <1>2, BuffersSeen
    <2> PICK d : d = depthBuffer0'[p][k]
      OBVIOUS
    <2>1. Agrees(d, v)'
      BY <1>1
    <2> QED BY <2>1, Zenon DEF Agrees
  <1>3. ASSUME NEW p \in Part, NEW k \in 1 .. Len(burstRespQueue'[p]),
               NEW j \in 1 .. Len(burstRespQueue'[p][k].data)
        PROVE  Agrees(burstRespQueue[p][k].data[j], burstRespQueue[p][k].at + j - 1)'
    <2> PICK v \in Vertex : /\ burstRespQueue'[p][k].at + j - 1 = v
                            /\ Agrees(burstRespQueue'[p][k].data[j], v)
      BY <1>3, BurstsSeen
    <2> PICK d : d = burstRespQueue'[p][k].data[j]
      OBVIOUS
    <2>1. Agrees(d, v)'
      BY <1>1
    <2> QED BY <2>1, Zenon DEF Agrees
  <1> QED
    BY <1>2, <1>3, Zenon DEF ScanAgrees, BufferSeen, BurstSeen
-----------------------------------------------------------------------------
(* The inductive invariant *)

LEMMA SearchInit == ASSUME Init PROVE SearchInv
  <1>1. FlowInv /\ IInv
    BY FlowInit DEF FlowInv
  <1>2. WritePort \in Port /\ DepthPort \in Port
    BY Ports
  <1>3. Still
    <2>1. /\ \A i \in Port : burstRespQueue[i] = <<>> /\ burstReqQueue[i] = <<>> /\ mem[i] = <<>>
          /\ depthBuffer1 = <<>> /\ depthBuffer2 = <<>>
          /\ \A p \in Part : depthBuffer0[p] = <<>>
      BY DEF Init
    <2>2. \A i \in Port : creating[i] = NoBurst
      BY DEF Init
    <2>3. Len(Pipeline(WritePort)) = 0
      <3>1. IsPipe(Pipeline(WritePort), <<>>, <<>>, <<>>, NoBurst)
        BY <1>1, <1>2, <2>1, <2>2, PipeOf
      <3> QED BY <3>1, EmptySeq DEF IsPipe
    <2> QED BY <2>1, <2>3, EmptySeq DEF Still
  <1>4. VidxInOrder
    <2>1. /\ burstRespQueue[DepthPort] = <<>> /\ burstReqQueue[DepthPort] = <<>>
          /\ mem[DepthPort] = <<>> /\ creating[DepthPort] = NoBurst
      BY <1>2 DEF Init
    <2>2. IsPipe(Pipeline(DepthPort), <<>>, <<>>, <<>>, NoBurst)
      BY <1>1, <1>2, <2>1, PipeOf
    <2>3. Len(Pipeline(DepthPort)) = 0
      BY <2>2, EmptySeq DEF IsPipe
    <2> QED BY <2>3 DEF VidxInOrder
  <1> QED
    BY <1>1, <1>3, <1>4, StillAgrees DEF SearchInv

LEMMA SearchStep == ASSUME RoomToScan, SearchInv, [Next]_vars PROVE SearchInv'
  <1>1. /\ FlowInv /\ IInv /\ DataKnown /\ Phases /\ Flow(Vertex)
        /\ VidxInOrder /\ DepthsAgree /\ LabelsPending /\ ScanAgrees
    BY DEF SearchInv, FlowInv, ScanInv
  <1>2. FlowInv' /\ Moves
    BY <1>1, FlowInvStep, DepthMoves
  <1>3. VidxInOrder'
    BY <1>1, PairsStep DEF PairsKept
  <1>4. DepthsAgree' /\ LabelsPending' /\ ScanAgrees'
    <2>1. CASE level' = level
      BY <1>1, <1>2, <2>1, DepthsStep, LabelsStep, ScanAgreesStep
    <2>2. CASE level' # level
      <3>1. Still'
        BY <1>1, <2>2, LevelTurns
      <3>2. Still => DepthsAgree /\ LabelsPending /\ ScanAgrees
        BY StillAgrees
      <3>3. (Still => DepthsAgree /\ LabelsPending /\ ScanAgrees)'
        BY StillAgrees, PTL
      <3> QED BY <3>1, <3>3
    <2> QED BY <2>1, <2>2
  <1> QED
    BY <1>2, <1>3, <1>4 DEF SearchInv

\* The depths that are buffered or on their way are never stale in a way that
\* matters, whatever the order of the threads and the answers.
THEOREM SearchInvariance == ASSUME RoomToScan PROVE Spec => []SearchInv
  <1>1. Init => SearchInv
    BY SearchInit
  <1>2. SearchInv /\ [Next]_vars => SearchInv'
    BY SearchStep
  <1> QED
    BY <1>1, <1>2, PTL DEF Spec

\* expandDepthAnalysis never gives a depth to the wrong vertex, and a vertex
\* that was read as visited has the depth that was read.
THEOREM DepthsArePaired == ASSUME RoomToScan PROVE Spec => []DepthPairing
  <1>1. ASSUME SearchInv PROVE DepthPairing
    <2>1. /\ IInv /\ VidxInOrder /\ DepthsAgree
      BY <1>1 DEF SearchInv, FlowInv
    <2>2. Len(vidxBuffer) = Len(depthBuffer1) + Len(Pipeline(DepthPort))
      BY <2>1, PairCount
    <2>3. \A k \in 1 .. Len(depthBuffer1) :
            depthBuffer1[k] # -1 => depthBuffer1[k] = depth[vidxBuffer[k]]
      BY <2>1 DEF DepthsAgree, Agrees
    <2> QED BY <2>1, <2>2, <2>3, Zenon DEF DepthPairing, VidxInOrder
  <1>2. SearchInv => DepthPairing
    BY <1>1
  <1> QED
    BY <1>2, SearchInvariance, PTL
-----------------------------------------------------------------------------
(* The search that is carried out *)

\* The level is a char: what follows holds as long as it does not wrap.
NoWrap == level + 1 < CharHalf

\* The vertices found at this level or before, and what is followed from them.
Reached == {u \in Vertex : depth[u] \in 0 .. level}
FollowsReached == \E S \in SUBSET Reached : Flow(S)

\* The inductive invariant of the refinement.
BfsInv == SearchInv /\ level \in Nat /\ FollowsReached

\* Without wrapping, the label is the next level.
LEMMA NextLevel == ASSUME level \in Nat, NoWrap PROVE Label = level + 1
  <1>1. CharHalf \in Nat /\ CharHalf > 0
    BY SizeAssumption DEF SizeAssumption
  <1>2. \A m \in Nat \ {0} : \A x \in 0 .. m - 1 : x % m = x
    OBVIOUS
  <1>3. /\ 2 * CharHalf \in Nat \ {0}
        /\ (level + 1) + CharHalf \in 0 .. 2 * CharHalf - 1
    BY <1>1 DEF NoWrap
  <1>4. ((level + 1) + CharHalf) % (2 * CharHalf) = (level + 1) + CharHalf
    BY <1>2, <1>3
  <1>5. Label = ((level + 1) + CharHalf) - CharHalf
    BY <1>4 DEF Label, Char
  <1> QED
    BY <1>1, <1>5

\* The inspection finds vertices of this level.
AtLevel == {u \in Vertex : depth[u] = level}
LEMMA LevelHits == ASSUME SearchInv, level \in Nat PROVE Hits(AtLevel)
  <1>1. IInv /\ Phases /\ DataKnown /\ ScanAgrees
    BY DEF SearchInv, FlowInv, ScanInv
  <1> SUFFICES ASSUME NEW p \in Analysed, Head(depthBuffer0[p]) = level
               PROVE  ~bfsIterationStart /\ idx[p] \in AtLevel
    BY DEF Hits
  <1>2. p \in Part /\ depthBuffer0[p] # <<>>
    BY DEF Analysed
  <1>3. depthBuffer0[p] \in Seq(Int) /\ idx[p] \in Nat
    BY <1>1, <1>2 DEF IInv, TypeOK
  <1>4. Head(depthBuffer0[p]) = depthBuffer0[p][1] /\ Len(depthBuffer0[p]) > 0
    BY <1>2, <1>3, Begins
  <1>5. 1 \in 1 .. Len(depthBuffer0[p])
    BY <1>3, <1>4
  <1>6. idx[p] + 1 - 1 \in Vertex
    BY <1>1, <1>2, <1>5, ScanPlaces
  <1>7. Agrees(depthBuffer0[p][1], idx[p] + 1 - 1)
    BY <1>1, <1>2, <1>5, Zenon DEF ScanAgrees, BufferSeen
  <1>8. idx[p] + 1 - 1 = idx[p]
    BY <1>3
  <1>9. idx[p] \in Vertex /\ Agrees(level, idx[p])
    BY <1>4, <1>6, <1>7, <1>8, Zenon
  <1>10. depth[idx[p]] = level
    BY <1>9 DEF Agrees
  <1>11. ~bfsIterationStart
    BY <1>1, <1>2, ScanFits
  <1> QED
    BY <1>9, <1>10, <1>11 DEF AtLevel

\* What is followed starts in all the vertices reached; the inspection adds
\* only such vertices.
LEMMA ReachedFollowed ==
    ASSUME BfsInv
    PROVE  Reached \in SUBSET Vertex /\ Flow(Reached) /\ Hits(Reached)
  <1>1. Reached \in SUBSET Vertex
    BY DEF Reached
  <1>2. Flow(Reached)
    <2> PICK S \in SUBSET Reached : Flow(S)
      BY DEF BfsInv, FollowsReached
    <2> PICK T : T = Reached
      OBVIOUS
    <2>1. Flow(T)
      BY FlowGrows
    <2> QED BY <2>1
  <1>3. AtLevel \subseteq Reached
    BY DEF AtLevel, Reached, BfsInv
  <1>4. Hits(AtLevel)
    BY LevelHits DEF BfsInv
  <1>5. Hits(Reached)
    BY <1>3, <1>4 DEF Hits
  <1> QED
    BY <1>1, <1>2, <1>5

\* The level only grows, and a vertex that was reached stays reached.
LEMMA ReachedGrows ==
    ASSUME BfsInv, NoWrap, [Next]_vars
    PROVE  /\ level' \in {level, level + 1} /\ level' \in Nat
           /\ Reached \subseteq Reached'
  <1>1. level \in Nat /\ Label = level + 1 /\ Moves
    BY NextLevel, DepthMoves DEF BfsInv, SearchInv
  <1>2. level' \in {level, Label}
    BY LevelKept DEF Tick, bfsController, Label
  <1>3. level' \in {level, level + 1} /\ level' \in Nat
    BY <1>1, <1>2
  <1>4. ASSUME NEW u \in Vertex, depth[u] \in 0 .. level PROVE depth'[u] \in 0 .. level'
    <2>1. depth'[u] = depth[u]
      BY <1>1, <1>4 DEF Moves
    <2> QED BY <1>1, <1>3, <1>4, <2>1
  <1> QED
    BY <1>3, <1>4 DEF Reached

LEMMA BfsInit == ASSUME Init PROVE BfsInv
  <1>1. SearchInv /\ level \in Nat
    BY SearchInit DEF Init
  <1>2. Flow({})
    BY FlowAtStart
  <1> QED
    BY <1>1, <1>2 DEF BfsInv, FollowsReached

LEMMA BfsStep == ASSUME RoomToScan, BfsInv, NoWrap, [Next]_vars PROVE BfsInv'
  <1>1. SearchInv'
    BY SearchStep DEF BfsInv
  <1>2. level' \in Nat /\ Reached \subseteq Reached'
    BY ReachedGrows
  <1> PICK A \in SUBSET Vertex : A = Reached /\ Flow(A) /\ Hits(A)
    BY ReachedFollowed
  <1>3. Flow(A)'
    BY FlowStep DEF BfsInv, SearchInv, FlowInv, ScanInv
  <1> QED
    BY <1>1, <1>2, <1>3 DEF BfsInv, FollowsReached

\* What is written is the label a vertex has already, or the first one of a
\* vertex at the end of an edge that is followed.
LEMMA WriteFollows ==
    ASSUME FlowInv, LabelsPending, NEW S \in SUBSET Vertex, Flow(S),
           NEW R \in SUBSET Port, getMemResp(R), WritePort \in R
    PROVE  \/ depth' = depth
           \/ \E u \in S, v \in Vertex : /\ <<u, v>> \in Edges /\ depth[v] = -1
                                        /\ depth' = [depth EXCEPT ![v] = Label]
  <1>1. depth \in [Vertex -> Int]
    BY DEF FlowInv, IInv, TypeOK
  <1> PICK v \in Vertex : /\ depth[v] \in {-1, Label}
                          /\ \E k \in 1 .. Len(Pipeline(WritePort)) : Pipeline(WritePort)[k].at = v
                          /\ depth' = [depth EXCEPT ![v] = Label]
    BY Written
  <1>2. CASE depth[v] = Label
    BY <1>1, <1>2
  <1>3. CASE depth[v] = -1
    <2> PICK k \in 1 .. Len(Pipeline(WritePort)) : Pipeline(WritePort)[k].at = v
      OBVIOUS
    <2>1. Fits(S, WritePort, v, Pipeline(WritePort)[k].len)
      BY Ports, Zenon DEF Flow, BurstsFit
    <2>2. v \in Targets(S)
      BY <2>1, Zenon DEF Fits
    <2> PICK e \in 0 .. Rpao[V] - 1 : Within(S, e, e + 1) /\ Ciao[e] = v
      BY <2>2 DEF Targets
    <2> PICK u \in S : Rpao[u] <= e /\ e + 1 <= Rpao[u + 1]
      BY DEF Within
    <2>3. e \in Rpao[u] .. Rpao[u + 1] - 1
      BY Offsets
    <2>4. <<u, v>> \in Edges
      BY <2>3 DEF Edges
    <2> QED BY <1>3, <2>4
  <1> QED
    BY <1>2, <1>3

\* A write is the first label of a vertex, or writes the label it has again.
LEMMA WriteVisits ==
    ASSUME BfsInv, NoWrap, NEW R \in SUBSET Port, getMemResp(R), WritePort \in R
    PROVE  (\E v \in Vertex : Bfs!Visit(v)) \/ UNCHANGED <<depth, level, stopped>>
  <1>1. FlowInv /\ LabelsPending /\ level \in Nat
    BY DEF BfsInv, SearchInv
  <1>2. Label = level + 1
    BY <1>1, NextLevel
  <1>3. ~stopped /\ level' = level /\ stopped' = stopped
    BY DEF getMemResp, Turn, control
  <1> PICK A \in SUBSET Vertex : A = Reached /\ Flow(A)
    BY ReachedFollowed
  <1>4. ASSUME NEW u \in A, NEW v \in Vertex, <<u, v>> \in Edges, depth[v] = -1,
               depth' = [depth EXCEPT ![v] = Label]
        PROVE  Bfs!Visit(v)
    <2>1. u \in Vertex /\ depth[u] \in 0 .. level
      BY DEF Reached
    <2> QED BY <1>2, <1>3, <1>4, <2>1 DEF Bfs!Visit, Bfs!Unvisited
  <1> QED
    BY <1>1, <1>3, <1>4, WriteFollows

\* Only the monitor stops the simulation.
LEMMA StopKept == ASSUME [Next]_vars, ~statusMonitor PROVE stopped' = stopped
  <1>1. ASSUME NEW i \in Port, Receive(i) PROVE stopped' = stopped
    BY <1>1, ReceiveKeeps
  <1>2. CASE \E p \in Part : inspectDepthReqThread(p) \/ inspectDepthRespThread(p)
    <2>1. Part \subseteq Port
      BY Ports
    <2> QED BY <1>1, <1>2, <2>1 DEF inspectDepthReqThread, inspectDepthRespThread, control
  <1>3. CASE processExpandRpaoReadResp \/ processExpandCiaoReadResp \/ processExpandDepthReadResp
    BY <1>1, <1>3, Ports DEF processExpandRpaoReadResp, processExpandCiaoReadResp,
      processExpandDepthReadResp
  <1>4. CASE inspectDepthAnalysis \/ frontierAnalysis \/ issueExpandCiaoReadReq
               \/ issueExpandDepthReadReq \/ expandDepthAnalysis
    BY <1>4 DEF inspectDepthAnalysis, frontierAnalysis, issueExpandCiaoReadReq,
      issueExpandDepthReadReq, expandDepthAnalysis, control
  <1>5. CASE processExpandDepthWriteResp \/ sendMemReq \/ Tick \/ UNCHANGED vars
               \/ \E R \in SUBSET Port : getMemResp(R)
    BY <1>5 DEF processExpandDepthWriteResp, sendMemReq, Tick, vars, getMemResp, control
  <1> QED
    BY <1>2, <1>3, <1>4, <1>5 DEF Next

\* Every step is one of the search, or nothing to it.
LEMMA StepVisits ==
    ASSUME BfsInv, NoWrap, [Next]_vars
    PROVE  [Bfs!Next]_(Bfs!bfsVars)
  <1> SUFFICES \/ \E v \in Vertex : Bfs!Visit(v)
               \/ Bfs!Advance \/ Bfs!Finish \/ UNCHANGED <<depth, level, stopped>>
    BY DEF Bfs!Next, Bfs!bfsVars
  <1>1. level \in Nat /\ Label = level + 1 /\ bfsDone \in BOOLEAN
    BY NextLevel DEF BfsInv, SearchInv, FlowInv, IInv, TypeOK
  <1>2. CASE \E R \in SUBSET Port : getMemResp(R) /\ WritePort \in R
    BY <1>2, WriteVisits
  <1>3. CASE ~\E R \in SUBSET Port : getMemResp(R) /\ WritePort \in R
    <2>1. depth' = depth
      BY <1>3, DepthKept DEF getMemResp
    <2>2. CASE level' # level
      <3>1. Tick /\ isEndOfBfsIteration
        BY <2>2, LevelKept
      <3>2. ~stopped /\ stopped' = stopped /\ level' = level + 1
        BY <1>1, <2>2, <3>1 DEF Tick, bfsController, Label
      <3> QED BY <2>1, <3>2 DEF Bfs!Advance
    <2>3. CASE level' = level /\ statusMonitor
      <3>1. ~stopped /\ stopped' = bfsDone
        BY <2>3 DEF statusMonitor, Turn
      <3>2. CASE bfsDone = TRUE
        BY <2>1, <2>3, <3>1, <3>2 DEF Bfs!Finish
      <3>3. CASE bfsDone = FALSE
        <4>1. stopped = FALSE \/ stopped = TRUE
          BY DEF BfsInv, SearchInv, FlowInv, IInv, TypeOK
        <4> QED BY <2>1, <2>3, <3>1, <3>3, <4>1
      <3> QED BY <1>1, <3>2, <3>3
    <2>4. CASE level' = level /\ ~statusMonitor
      BY <2>1, <2>4, StopKept
    <2> QED BY <2>2, <2>3, <2>4
  <1> QED
    BY <1>2, <1>3

LEMMA StartVisits == ASSUME Init PROVE Bfs!Init
  BY DEF Init, Bfs!Init, Bfs!Unvisited

\* As long as the level does not wrap, the accelerator labels vertices as a
\* breadth-first search may: once each, with the next level, along an edge from
\* a vertex labelled before, whatever the order of the threads and the memory.
THEOREM SearchRefined == ASSUME RoomToScan PROVE Spec /\ []NoWrap => LabelsOnceAlongEdges
  <1>1. Init => BfsInv /\ Bfs!Init
    BY BfsInit, StartVisits
  <1>2. BfsInv /\ NoWrap /\ [Next]_vars => BfsInv' /\ [Bfs!Next]_(Bfs!bfsVars)
    BY BfsStep, StepVisits
  <1> QED
    BY <1>1, <1>2, PTL DEF Spec, LabelsOnceAlongEdges, Bfs!Spec

-----------------------------------------------------------------------------
(* A level is complete                                                       *)

\* What the program's sizes give it (256 elements of 4096): a chunk of edges
\* that has to wait for room waits for edges that are buffered.
RoomToExpand == BaseLen \div IntSize < CiaoBufferDepth

\* The label of the next level is not the mark of an unvisited vertex, which
\* happens once in a turn of the chars.
Marks == Label # -1

\* A value in a buffer, and a burst of a port that starts at a place.
In(s, x) == \E k \in 1 .. Len(s) : s[k] = x
On(i, at) == \E k \in 1 .. Len(Pipeline(i)) : Pipeline(i)[k].at = at

\* A vertex at the end of an edge is visited, or will be looked at or written.
TargetPending(v) == depth[v] # -1 \/ In(ciaoBuffer, v) \/ In(vidxBuffer, v) \/ On(WritePort, v)

\* An edge is in a range whose offsets are buffered, in the range in progress,
\* in a burst on its way, or leads to a vertex that is.
Between(s, e) == \E j \in 1 .. Len(s) \div 2 : s[2 * j - 1] <= e /\ e < s[2 * j]
Remains(e) == edges.next + creating[CiaoPort].len <= e /\ e < edges.end
Crosses(e) == \E k \in 1 .. Len(Pipeline(CiaoPort)) :
                 /\ Pipeline(CiaoPort)[k].at <= e
                 /\ e < Pipeline(CiaoPort)[k].at + Pipeline(CiaoPort)[k].len
EdgePending(e) == Between(rpaoBuffer, e) \/ Remains(e) \/ Crosses(e) \/ TargetPending(Ciao[e])

\* A vertex is still to be inspected, waits for its offsets, or has its edges
\* followed.
Unscanned(u) == \E p \in Part : idx[p] <= u /\ u < PartBase(p) + PartLen(p)
Ahead(u) == localCounter <= StartCount \/ Unscanned(u)
Followed(u) == \A e \in Rpao[u] .. Rpao[u + 1] - 1 : EdgePending(e)
VertexPending(u) == Ahead(u) \/ In(frontierBuffer, u) \/ On(RpaoPort, u) \/ Followed(u)

Covered == Marks => \A u \in Vertex : depth[u] = level => VertexPending(u)

\* What was written is visited.
WrittenVisited ==
    Marks => \A k \in 1 .. Len(burstRespQueue[WritePort]) :
                depth[burstRespQueue[WritePort][k].at] # -1

\* Edges that are not requested in this cycle wait for others before them.
Halted == /\ edges.next + creating[CiaoPort].len < edges.end /\ creating[CiaoPort] = NoBurst
          /\ Ran(Req(CiaoPort))
EdgesWait == Halted => ciaoBuffer # <<>> \/ (creating[DepthPort] # NoBurst /\ Ran(Req(DepthPort)))

CoverInv == SearchInv /\ WrittenVisited /\ EdgesWait /\ Covered
-----------------------------------------------------------------------------
(* What each buffer is changed by *)

LEMMA Frames ==
    ASSUME IInv, [Next]_vars
    PROVE  /\ frontierBuffer' = frontierBuffer \/ inspectDepthAnalysis \/ frontierAnalysis
           /\ rpaoBuffer' = rpaoBuffer \/ processExpandRpaoReadResp \/ issueExpandCiaoReadReq
           /\ edges' = edges \/ issueExpandCiaoReadReq
           /\ creating'[CiaoPort] = creating[CiaoPort] \/ issueExpandCiaoReadReq
           /\ ciaoBuffer' = ciaoBuffer \/ processExpandCiaoReadResp \/ issueExpandDepthReadReq
           /\ vidxBuffer' = vidxBuffer \/ issueExpandDepthReadReq \/ expandDepthAnalysis
           /\ creating'[DepthPort] = creating[DepthPort] \/ issueExpandDepthReadReq
           /\ idx' = idx \/ inspectDepthAnalysis
           /\ localCounter' = localCounter \/ Tick
  <1> DEFINE Goal ==
           /\ frontierBuffer' = frontierBuffer \/ inspectDepthAnalysis \/ frontierAnalysis
           /\ rpaoBuffer' = rpaoBuffer \/ processExpandRpaoReadResp \/ issueExpandCiaoReadReq
           /\ edges' = edges \/ issueExpandCiaoReadReq
           /\ creating'[CiaoPort] = creating[CiaoPort] \/ issueExpandCiaoReadReq
           /\ ciaoBuffer' = ciaoBuffer \/ processExpandCiaoReadResp \/ issueExpandDepthReadReq
           /\ vidxBuffer' = vidxBuffer \/ issueExpandDepthReadReq \/ expandDepthAnalysis
           /\ creating'[DepthPort] = creating[DepthPort] \/ issueExpandDepthReadReq
           /\ idx' = idx \/ inspectDepthAnalysis
           /\ localCounter' = localCounter \/ Tick
  <1> SUFFICES Goal
    OBVIOUS
  <1>1. creating \in [Port -> Burst] /\ CiaoPort \in Port /\ DepthPort \in Port
    BY Ports DEF IInv, TypeOK
  <1>2. CASE \E p \in Part : inspectDepthReqThread(p)
    <2> PICK p \in Part : inspectDepthReqThread(p)
      BY <1>2
    <2>1. /\ UNCHANGED <<frontierBuffer, rpaoBuffer, edges, ciaoBuffer, vidxBuffer, idx, localCounter>>
          /\ \E b : creating' = [creating EXCEPT ![p] = b]
      BY DEF inspectDepthReqThread, control, inspection
    <2>2. p # CiaoPort /\ p # DepthPort
      BY Ports
    <2> QED BY <1>1, <2>1, <2>2
  <1>3. CASE \E p \in Part : inspectDepthRespThread(p)
    <2> PICK p \in Part : inspectDepthRespThread(p)
      BY <1>3
    <2>1. Receive(p) /\ p \in Port /\ UNCHANGED <<rpaoBuffer, ciaoBuffer>>
      BY Ports DEF inspectDepthRespThread
    <2> QED BY <2>1, ReceiveKeeps
  <1>4. CASE processExpandRpaoReadResp \/ processExpandCiaoReadResp \/ processExpandDepthReadResp
    BY <1>4, ReceiveKeeps, Ports DEF processExpandRpaoReadResp, processExpandCiaoReadResp,
      processExpandDepthReadResp
  <1>5. CASE inspectDepthAnalysis
    <2>1. UNCHANGED <<rpaoBuffer, edges, creating, ciaoBuffer, vidxBuffer, localCounter>>
      BY <1>5 DEF inspectDepthAnalysis, control, issuing
    <2> QED BY <1>5, <2>1
  <1>6. CASE frontierAnalysis
    <2>1. /\ UNCHANGED <<rpaoBuffer, edges, ciaoBuffer, vidxBuffer, idx, localCounter>>
          /\ \E b : creating' = [creating EXCEPT ![RpaoPort] = b]
      BY <1>6 DEF frontierAnalysis, control, inspection
    <2> QED BY <1>1, <1>6, <2>1, Ports
  <1>7. CASE issueExpandCiaoReadReq
    <2>1. /\ UNCHANGED <<frontierBuffer, ciaoBuffer, vidxBuffer, idx, localCounter>>
          /\ \E b : creating' = [creating EXCEPT ![CiaoPort] = b]
      BY <1>7 DEF issueExpandCiaoReadReq, control, inspection
    <2> QED BY <1>1, <1>7, <2>1, Ports
  <1>8. CASE issueExpandDepthReadReq
    <2>1. /\ UNCHANGED <<frontierBuffer, rpaoBuffer, edges, idx, localCounter>>
          /\ \E b : creating' = [creating EXCEPT ![DepthPort] = b]
      BY <1>8 DEF issueExpandDepthReadReq, control, inspection
    <2> QED BY <1>1, <1>8, <2>1, Ports
  <1>9. CASE expandDepthAnalysis
    <2>1. /\ UNCHANGED <<frontierBuffer, rpaoBuffer, edges, ciaoBuffer, idx, localCounter>>
          /\ \E b : creating' = [creating EXCEPT ![WritePort] = b]
      BY <1>9 DEF expandDepthAnalysis, control, inspection
    <2> QED BY <1>1, <1>9, <2>1, Ports
  <1>10. CASE processExpandDepthWriteResp \/ sendMemReq \/ statusMonitor \/ UNCHANGED vars
                \/ \E R \in SUBSET Port : getMemResp(R)
    <2>1. UNCHANGED <<frontierBuffer, rpaoBuffer, edges, creating, ciaoBuffer, vidxBuffer, idx, localCounter>>
      BY <1>10 DEF processExpandDepthWriteResp, sendMemReq, statusMonitor, vars, getMemResp,
        control, inspection, issuing
    <2> QED BY <2>1
  <1>11. CASE Tick
    <2>1. UNCHANGED <<frontierBuffer, rpaoBuffer, edges, creating, ciaoBuffer, vidxBuffer, idx>>
      BY <1>11 DEF Tick, inspection, issuing
    <2> QED BY <1>11, <2>1
  <1> HIDE DEF Goal
  <1> QED
    BY <1>2, <1>3, <1>4, <1>5, <1>6, <1>7, <1>8, <1>9, <1>10, <1>11 DEF Next

\* A burst on its way stays so, or is taken by the response thread of its port.
CarriedTo(i, k) == \E j \in 1 .. Len(Pipeline(i)') :
    Pipeline(i)'[j].at = Pipeline(i)[k].at /\ Pipeline(i)'[j].len = Pipeline(i)[k].len

LEMMA IssueCarries ==
    ASSUME IInv, IInv', NEW h \in Port, NEW data \in Seq(Int), Publish(h, data),
           \E b : creating' = [creating EXCEPT ![h] = b], UNCHANGED <<mem, burstRespQueue>>,
           NEW i \in Port, NEW k \in 1 .. Len(Pipeline(i))
    PROVE  CarriedTo(i, k)
  <1> PICK b : creating' = [creating EXCEPT ![h] = b]
    OBVIOUS
  <1>1. b \in Burst
    BY DEF IInv, TypeOK
  <1>2. CASE i # h
    <2>1. Pipeline(i)' = Pipeline(i)
      BY <1>2, OtherIssue
    <2> QED BY <2>1 DEF CarriedTo
  <1>3. CASE i = h
    <2>1. /\ Pipeline(i) \in Seq(Burst) /\ Pipeline(i)' \in Seq(Burst)
          /\ Len(Pipeline(i)') = Len(Pipeline(i)) + (IF b = NoBurst THEN 0 ELSE 1)
          /\ Pipeline(i)'[k].at = Pipeline(i)[k].at /\ Pipeline(i)'[k].len = Pipeline(i)[k].len
      BY <1>1, <1>3, IssuePipe
    <2>2. k \in 1 .. Len(Pipeline(i)')
      BY <2>1
    <2> QED BY <2>1, <2>2 DEF CarriedTo
  <1> QED
    BY <1>2, <1>3

LEMMA ReceiveCarries ==
    ASSUME IInv, IInv', NEW h \in Port, h # WritePort, Receive(h),
           NEW i \in Port, NEW k \in 1 .. Len(Pipeline(i))
    PROVE  CarriedTo(i, k) \/ (i = h /\ serving[i] /\ k = 1)
  <1>1. CASE i # h
    <2>1. Pipeline(i)' = Pipeline(i)
      BY <1>1, ReceivePipe
    <2> QED BY <2>1 DEF CarriedTo
  <1>2. CASE i = h /\ ~serving[i]
    <2>1. Pipeline(i)' = Pipeline(i)
      BY <1>2, ReceivePipe
    <2> QED BY <2>1 DEF CarriedTo
  <1>3. CASE i = h /\ serving[i] /\ k # 1
    <2>1. /\ Len(Pipeline(i)) = Len(Pipeline(i)') + 1
          /\ \A j \in 1 .. Len(Pipeline(i)') : Pipeline(i)'[j] = Pipeline(i)[j + 1]
      BY <1>3, ReceivePipe
    <2>2. Pipeline(i)' \in Seq(Burst)
      BY PipeOfNext DEF IsPipe
    <2>3. Len(Pipeline(i)') \in Nat
      BY <2>2
    <2>4. k - 1 \in 1 .. Len(Pipeline(i)') /\ (k - 1) + 1 = k
      BY <1>3, <2>1, <2>3
    <2>5. Pipeline(i)'[k - 1] = Pipeline(i)[k]
      BY <2>1, <2>4
    <2> QED BY <2>4, <2>5 DEF CarriedTo
  <1> QED
    BY <1>1, <1>2, <1>3

\* The responses of the write port are consumed, the bursts behind them stay.
LEMMA WriteCarries ==
    ASSUME IInv, IInv', processExpandDepthWriteResp, NEW k \in 1 .. Len(Pipeline(WritePort))
    PROVE  CarriedTo(WritePort, k) \/ k \in 1 .. Len(burstRespQueue[WritePort])
  <1>1. WritePort \in Port
    BY Ports
  <1> DEFINE Shift(n) == \A j \in 1 .. Len(Pipeline(WritePort)') :
                            Pipeline(WritePort)'[j] = Pipeline(WritePort)[j + n]
  <1> PICK n \in Nat : /\ n = Len(burstRespQueue[WritePort])
                       /\ Len(Pipeline(WritePort)) = Len(Pipeline(WritePort)') + n /\ Shift(n)
    BY WritePipe
  <1> HIDE DEF Shift
  <1>2. Len(Pipeline(WritePort)') \in Nat
    <2>1. Pipeline(WritePort)' \in Seq(Burst)
      BY <1>1, PipeOfNext DEF IsPipe
    <2> QED BY <2>1
  <1>3. CASE ~(k <= n)
    <2>1. k - n \in 1 .. Len(Pipeline(WritePort)') /\ (k - n) + n = k
      BY <1>2, <1>3
    <2>2. Pipeline(WritePort)'[k - n] = Pipeline(WritePort)[k]
      BY <2>1, Zenon DEF Shift
    <2> QED BY <2>1, <2>2, Zenon DEF CarriedTo
  <1> QED
    BY <1>3

LEMMA BurstsCarried ==
    ASSUME IInv, IInv', [Next]_vars, NEW i \in {RpaoPort, CiaoPort, WritePort},
           NEW k \in 1 .. Len(Pipeline(i))
    PROVE  \/ CarriedTo(i, k)
           \/ i = RpaoPort /\ processExpandRpaoReadResp /\ serving[i] /\ k = 1
           \/ i = CiaoPort /\ processExpandCiaoReadResp /\ serving[i] /\ k = 1
           \/ i = WritePort /\ processExpandDepthWriteResp /\ k \in 1 .. Len(burstRespQueue[i])
  <1>0. i \in Port /\ i \notin Part /\ i # DepthPort
    BY Ports
  <1>1. ASSUME Pipeline(i)' = Pipeline(i) PROVE CarriedTo(i, k)
    BY <1>1 DEF CarriedTo
  <1>2. ASSUME NEW h \in Port, NEW data \in Seq(Int), Publish(h, data),
               \E b : creating' = [creating EXCEPT ![h] = b], UNCHANGED <<mem, burstRespQueue>>
        PROVE  CarriedTo(i, k)
    BY <1>0, <1>2, IssueCarries
  <1>3. <<>> \in Seq(Int)
    BY Bursts
  <1>4. CASE \E p \in Part : inspectDepthReqThread(p)
    <2> PICK p \in Part : inspectDepthReqThread(p)
      BY <1>4
    <2>1. \E b : creating' = [creating EXCEPT ![p] = b]
      BY DEF inspectDepthReqThread
    <2>2. Publish(p, <<>>) /\ UNCHANGED <<mem, burstRespQueue>> /\ p \in Port
      BY Ports DEF inspectDepthReqThread, memory
    <2> QED BY <1>2, <1>3, <2>1, <2>2
  <1>5. CASE \E p \in Part : inspectDepthRespThread(p)
    <2> PICK p \in Part : inspectDepthRespThread(p)
      BY <1>5
    <2>1. Receive(p) /\ p \in Port /\ p # WritePort /\ p # i
      BY <1>0, Ports DEF inspectDepthRespThread
    <2> QED BY <1>0, <2>1, ReceiveCarries
  <1>6. CASE frontierAnalysis
    <2>1. \E b : creating' = [creating EXCEPT ![RpaoPort] = b]
      BY <1>6 DEF frontierAnalysis
    <2>2. Publish(RpaoPort, <<>>) /\ UNCHANGED <<mem, burstRespQueue>>
      BY <1>6 DEF frontierAnalysis, memory
    <2> QED BY <1>2, <1>3, <2>1, <2>2, Ports
  <1>7. CASE issueExpandCiaoReadReq
    <2>1. \E b : creating' = [creating EXCEPT ![CiaoPort] = b]
      BY <1>7 DEF issueExpandCiaoReadReq
    <2>2. Publish(CiaoPort, <<>>) /\ UNCHANGED <<mem, burstRespQueue>>
      BY <1>7 DEF issueExpandCiaoReadReq, memory
    <2> QED BY <1>2, <1>3, <2>1, <2>2, Ports
  <1>8. CASE issueExpandDepthReadReq
    <2> PICK b \in Burst : Requests(b)
      BY <1>8, RequestTurn
    <2>1. /\ Publish(DepthPort, <<>>) /\ creating' = [creating EXCEPT ![DepthPort] = b]
          /\ UNCHANGED <<mem, burstRespQueue>>
      BY Zenon DEF Requests
    <2> QED BY <1>2, <1>3, <2>1, Ports
  <1>9. CASE expandDepthAnalysis
    <2> PICK n \in Nat, b \in Burst, data \in Seq(Int) : Expands(n, b, data)
      BY <1>9, ExpandTurn
    <2>1. /\ Publish(WritePort, data) /\ creating' = [creating EXCEPT ![WritePort] = b]
          /\ UNCHANGED <<mem, burstRespQueue>>
      BY Zenon DEF Expands
    <2> QED BY <1>2, <2>1, Ports
  <1>10. CASE processExpandRpaoReadResp
    <2>1. Receive(RpaoPort)
      BY <1>10 DEF processExpandRpaoReadResp
    <2> QED BY <1>0, <1>10, <2>1, Ports, ReceiveCarries
  <1>11. CASE processExpandCiaoReadResp
    <2>1. Receive(CiaoPort)
      BY <1>11 DEF processExpandCiaoReadResp
    <2> QED BY <1>0, <1>11, <2>1, Ports, ReceiveCarries
  <1>12. CASE processExpandDepthReadResp
    <2>1. Receive(DepthPort)
      BY <1>12 DEF processExpandDepthReadResp
    <2> QED BY <1>0, <2>1, Ports, ReceiveCarries
  <1>14. CASE sendMemReq
    <2>1. Pipeline(i)' = Pipeline(i)
      BY <1>0, <1>14, SendPipe
    <2> QED BY <1>1, <2>1
  <1>15. CASE \E R \in SUBSET Port : getMemResp(R)
    <2>1. /\ Len(Pipeline(i)') = Len(Pipeline(i))
          /\ Pipeline(i)'[k].at = Pipeline(i)[k].at /\ Pipeline(i)'[k].len = Pipeline(i)[k].len
      BY <1>0, <1>15, GetPipe
    <2> QED BY <2>1, Zenon DEF CarriedTo
  <1>16. CASE inspectDepthAnalysis \/ statusMonitor \/ Tick \/ UNCHANGED vars
    <2>1. UNCHANGED <<creating, burstReqQueue, mem, burstRespQueue>>
      BY <1>16 DEF inspectDepthAnalysis, statusMonitor, Tick, vars, issuing, memory
    <2>2. Pipeline(i)' = Pipeline(i)
      BY <1>0, <2>1, SamePipe
    <2> QED BY <1>1, <2>2
  <1>17. CASE processExpandDepthWriteResp
    <2>1. CASE i # WritePort
      <3>1. Pipeline(i)' = Pipeline(i)
        BY <1>0, <1>17, <2>1, WritePipe
      <3> QED BY <1>1, <3>1
    <2>2. CASE i = WritePort
      BY <1>17, <2>2, WriteCarries
    <2> QED BY <2>1, <2>2
  <1> QED
    BY <1>4, <1>5, <1>6, <1>7, <1>8, <1>9, <1>10, <1>11, <1>12, <1>14, <1>15, <1>16, <1>17 DEF Next
-----------------------------------------------------------------------------
(* From the end of an edge to its label *)

\* What is in a sequence, when its parts are known.
LEMMA InParts ==
    ASSUME NEW X, NEW s \in Seq(X), NEW v
    PROVE  /\ s # <<>> => (In(s, v) => v = Head(s) \/ In(Tail(s), v))
           /\ \A x \in X : In(Append(s, x), x) /\ (In(s, v) => In(Append(s, x), v))
           /\ \A t \in Seq(X) : In(s, v) \/ In(t, v) => In(s \o t, v)
  <1>1. Len(s) \in Nat
    OBVIOUS
  <1>2. ASSUME s # <<>>, In(s, v) PROVE v = Head(s) \/ In(Tail(s), v)
    <2> PICK k \in 1 .. Len(s) : s[k] = v
      BY <1>2 DEF In
    <2>1. /\ Len(Tail(s)) = Len(s) - 1 /\ Head(s) = s[1]
          /\ \A j \in 1 .. Len(Tail(s)) : Tail(s)[j] = s[j + 1]
      BY <1>2, Begins
    <2>2. k # 1 => k - 1 \in 1 .. Len(Tail(s)) /\ (k - 1) + 1 = k
      BY <1>1, <2>1
    <2>3. k # 1 => Tail(s)[k - 1] = v
      BY <2>1, <2>2
    <2> QED BY <2>1, <2>2, <2>3 DEF In
  <1>3. ASSUME NEW x \in X PROVE In(Append(s, x), x) /\ (In(s, v) => In(Append(s, x), v))
    <2>1. /\ Len(Append(s, x)) = Len(s) + 1
          /\ \A k \in 1 .. Len(s) : Append(s, x)[k] = s[k]
          /\ Append(s, x)[Len(s) + 1] = x
      BY Ends
    <2>2. Len(s) + 1 \in 1 .. Len(s) + 1 /\ \A k \in 1 .. Len(s) : k \in 1 .. Len(s) + 1
      BY <1>1
    <2> QED BY <2>1, <2>2 DEF In
  <1>4. ASSUME NEW t \in Seq(X), In(s, v) \/ In(t, v) PROVE In(s \o t, v)
    <2> PICK all : all = s \o t
      OBVIOUS
    <2>1. /\ Len(all) = Len(s) + Len(t)
          /\ \A k \in 1 .. Len(s) + Len(t) :
               all[k] = IF k <= Len(s) THEN s[k] ELSE t[k - Len(s)]
      BY Joined2
    <2>2. Len(t) \in Nat
      OBVIOUS
    <2>3. \A k \in 1 .. Len(s) : k \in 1 .. Len(s) + Len(t) /\ k <= Len(s)
      BY <1>1, <2>2
    <2>4. \A k \in 1 .. Len(t) : /\ Len(s) + k \in 1 .. Len(s) + Len(t)
                                 /\ ~(Len(s) + k <= Len(s)) /\ (Len(s) + k) - Len(s) = k
      BY <1>1, <2>2
    <2>5. CASE In(s, v)
      <3> PICK k \in 1 .. Len(s) : s[k] = v
        BY <2>5 DEF In
      <3>1. k \in 1 .. Len(all) /\ all[k] = v
        BY <2>1, <2>3
      <3> QED BY <3>1, Zenon DEF In
    <2>6. CASE In(t, v)
      <3> PICK k \in 1 .. Len(t) : t[k] = v
        BY <2>6 DEF In
      <3>1. Len(s) + k \in 1 .. Len(all) /\ all[Len(s) + k] = v
        BY <2>1, <2>4
      <3> QED BY <3>1, Zenon DEF In
    <2> QED BY <1>4, <2>5, <2>6
  <1> QED
    BY <1>2, <1>3, <1>4

\* A visited vertex stays visited.
LEMMA StaysVisited ==
    ASSUME Marks, Moves, NEW v \in Vertex, depth[v] # -1 PROVE depth'[v] # -1
  BY DEF Marks, Moves

\* A burst that is carried is at the same place.
LEMMA OnCarried ==
    ASSUME NEW i, NEW k, NEW v, CarriedTo(i, k), Pipeline(i)[k].at = v PROVE On(i, v)'
  BY DEF CarriedTo, On

\* An issued burst is on its way.
LEMMA OnIssued ==
    ASSUME IInv, NEW i \in Port, NEW data \in Seq(Int), NEW b \in Burst, b # NoBurst,
           Publish(i, data), creating' = [creating EXCEPT ![i] = b],
           UNCHANGED <<mem, burstRespQueue>>
    PROVE  On(i, b.at)'
  <1>1. /\ Pipeline(i) \in Seq(Burst)
        /\ Len(Pipeline(i)') = Len(Pipeline(i)) + 1
        /\ Pipeline(i)'[Len(Pipeline(i)) + 1] = b
    BY IssuePipe
  <1>2. Len(Pipeline(i)) \in Nat
    BY <1>1
  <1>3. Len(Pipeline(i)) + 1 \in 1 .. Len(Pipeline(i)')
    BY <1>1, <1>2
  <1> QED
    BY <1>1, <1>3 DEF On

\* The end of an edge is followed up to a label in memory.
LEMMA TargetStep ==
    ASSUME SearchInv, IInv', WrittenVisited, Marks, Moves, [Next]_vars,
           NEW v \in Vertex, TargetPending(v)
    PROVE  TargetPending(v)'
  <1> DEFINE Goal == TargetPending(v)'
  <1> SUFFICES Goal
    OBVIOUS
  <1>0. /\ IInv /\ DepthsAgree /\ DepthPort \in Port /\ WritePort \in Port
        /\ ciaoBuffer \in Seq(Int) /\ vidxBuffer \in Seq(Int) /\ v \in Int
    <2>1. IInv /\ DepthsAgree
      BY DEF SearchInv, FlowInv
    <2>2. v \in Int
      BY GraphAssumption DEF GraphAssumption, Vertex
    <2> QED BY <2>1, <2>2, Ports DEF IInv, TypeOK
  <1>1. ASSUME depth[v] # -1 PROVE Goal
    BY <1>1, StaysVisited DEF TargetPending
  <1>2. ASSUME In(ciaoBuffer, v) PROVE Goal
    <2>1. CASE ciaoBuffer' = ciaoBuffer
      BY <1>2, <2>1 DEF TargetPending, In
    <2>2. CASE processExpandCiaoReadResp
      <3>1. ciaoBuffer' = ciaoBuffer \o Received(CiaoPort) /\ Received(CiaoPort) \in Seq(Int)
        BY <1>0, <2>2, Ports, ReceiveStep DEF processExpandCiaoReadResp
      <3>2. In(ciaoBuffer', v)
        BY <1>0, <1>2, <3>1, InParts
      <3> QED BY <3>2 DEF TargetPending, In
    <2>3. CASE issueExpandDepthReadReq
      <3> PICK b \in Burst : Requests(b)
        BY <1>0, <2>3, RequestTurn
      <3>1. CASE b = NoBurst
        BY <1>2, <3>1 DEF Requests, TargetPending, In
      <3>2. CASE b # NoBurst
        <4>1. /\ ciaoBuffer # <<>> /\ ciaoBuffer' = Tail(ciaoBuffer)
              /\ vidxBuffer' = Append(vidxBuffer, b.at) /\ b.at = Head(ciaoBuffer)
          BY <3>2 DEF Requests
        <4>2. v = b.at \/ In(ciaoBuffer', v)
          BY <1>0, <1>2, <4>1, InParts
        <4>3. v = b.at => In(vidxBuffer', v)
          BY <1>0, <4>1, InParts
        <4> QED BY <4>2, <4>3 DEF TargetPending, In
      <3> QED BY <3>1, <3>2
    <2> QED BY <1>0, <2>1, <2>2, <2>3, Frames
  <1>3. ASSUME In(vidxBuffer, v) PROVE Goal
    <2>1. CASE vidxBuffer' = vidxBuffer
      BY <1>3, <2>1 DEF TargetPending, In
    <2>2. CASE issueExpandDepthReadReq
      <3> PICK b \in Burst : Requests(b)
        BY <1>0, <2>2, RequestTurn
      <3>1. vidxBuffer' = vidxBuffer \/ vidxBuffer' = Append(vidxBuffer, b.at)
        BY Zenon DEF Requests
      <3>2. b.at \in Int
        BY DEF Burst
      <3>3. vidxBuffer' = Append(vidxBuffer, b.at) => In(vidxBuffer', v)
        BY <1>0, <1>3, <3>2, InParts
      <3> QED BY <2>1, <3>1, <3>3 DEF TargetPending, In
    <2>3. CASE expandDepthAnalysis
      <3> PICK n \in Nat, b \in Burst, data \in Seq(Int) : Expands(n, b, data)
        BY <1>0, <2>3, ExpandTurn
      <3> PICK j \in 1 .. Len(vidxBuffer) : vidxBuffer[j] = v
        BY <1>3 DEF In
      <3>1. Taken(vidxBuffer, vidxBuffer', n) /\ n \in 0 .. Len(depthBuffer1)
        BY DEF Expands, Taken
      <3>2. CASE ~(j <= n)
        <4>1. Len(vidxBuffer) \in Nat /\ Len(vidxBuffer') = Len(vidxBuffer) - n
          BY <1>0, <3>1 DEF Taken
        <4>2. j - n \in 1 .. Len(vidxBuffer') /\ n + (j - n) = j
          BY <3>2, <4>1
        <4>3. vidxBuffer'[j - n] = v
          BY <3>1, <4>2, Zenon DEF Taken
        <4> QED BY <4>2, <4>3 DEF TargetPending, In
      <3>3. CASE j <= n /\ depthBuffer1[j] # -1
        <4>1. j \in 1 .. Len(depthBuffer1)
          BY <3>1, <3>3
        <4>2. Agrees(depthBuffer1[j], v)
          BY <1>0, <4>1, Zenon DEF DepthsAgree
        <4> QED BY <1>1, <3>3, <4>2 DEF Agrees
      <3>4. CASE j <= n /\ depthBuffer1[j] = -1
        <4>1. j \in 1 .. n
          BY <3>4
        <4>2. b # NoBurst /\ j = n /\ b.at = v
          BY <3>4, <4>1, Zenon DEF Expands
        <4>3. /\ Publish(WritePort, data) /\ creating' = [creating EXCEPT ![WritePort] = b]
              /\ UNCHANGED <<mem, burstRespQueue>>
          BY Zenon DEF Expands
        <4>4. On(WritePort, v)'
          BY <1>0, <4>2, <4>3, OnIssued
        <4> QED BY <4>4 DEF TargetPending
      <3> QED BY <3>2, <3>3, <3>4
    <2> QED BY <1>0, <2>1, <2>2, <2>3, Frames
  <1>4. ASSUME On(WritePort, v) PROVE Goal
    <2> PICK k \in 1 .. Len(Pipeline(WritePort)) : Pipeline(WritePort)[k].at = v
      BY <1>4 DEF On
    <2>1. CASE CarriedTo(WritePort, k)
      BY <2>1, OnCarried DEF TargetPending
    <2>2. CASE k \in 1 .. Len(burstRespQueue[WritePort])
      <3>1. burstRespQueue[WritePort][k] = Pipeline(WritePort)[k]
        BY <1>0, <2>2, Places
      <3>2. depth[v] # -1
        BY <2>2, <3>1, Zenon DEF WrittenVisited
      <3> QED BY <1>1, <3>2
    <2> QED BY <1>0, <2>1, <2>2, Ports, BurstsCarried
  <1> HIDE DEF Goal
  <1> QED
    BY <1>1, <1>2, <1>3, <1>4 DEF TargetPending
-----------------------------------------------------------------------------
(* From the offsets of a vertex to the ends of its edges *)

\* What issueExpandCiaoReadReq does: it stays at the edges in progress, or
\* takes k pairs of offsets of which only the last may have edges, and requests
\* the edges from lo on unless there is no room for them.
Asks(k, lo, hi, b) ==
    /\ Publish(CiaoPort, <<>>) /\ creating' = [creating EXCEPT ![CiaoPort] = b]
    /\ edges'.next = lo /\ edges'.end = hi
    /\ Taken(rpaoBuffer, rpaoBuffer', 2 * k)
    /\ k = 0 => lo = edges.next + creating[CiaoPort].len /\ hi = edges.end
    /\ k # 0 => /\ ~(edges.next + creating[CiaoPort].len < edges.end)
                /\ lo = rpaoBuffer[2 * k - 1] /\ hi = rpaoBuffer[2 * k]
    /\ \A j \in 1 .. k - 1 : rpaoBuffer[2 * j - 1] >= rpaoBuffer[2 * j]
    /\ b # NoBurst => b.at = lo
    /\ b = NoBurst /\ lo < hi =>
         Len(ciaoBuffer) + Lesser(BaseLen \div IntSize, hi - lo) >= CiaoBufferDepth
    /\ UNCHANGED <<ciaoBuffer, mem, burstRespQueue>>

LEMMA EdgeTurn ==
    ASSUME IInv, Flow(Vertex), issueExpandCiaoReadReq
    PROVE  \E k \in Nat, lo, hi \in Int, b \in Burst : Asks(k, lo, hi, b)
  <1> DEFINE next == edges.next + creating[CiaoPort].len
             range(k) == IF k = 0 THEN [next |-> next, end |-> edges.end]
                         ELSE [next |-> rpaoBuffer[2 * k - 1], end |-> rpaoBuffer[2 * k]]
             chunk(k) == Lesser(BaseLen \div IntSize, range(k).end - range(k).next)
             issues(k) == /\ range(k).next < range(k).end
                          /\ Len(ciaoBuffer) + chunk(k) < CiaoBufferDepth
             b(k) == IF issues(k) THEN NewBurst(range(k).next, chunk(k)) ELSE NoBurst
  <1>1. PICK k \in 0 .. Len(rpaoBuffer) \div 2 :
          /\ next < edges.end => k = 0
          /\ \A j \in 1 .. k - 1 : rpaoBuffer[2 * j - 1] >= rpaoBuffer[2 * j]
          /\ Publish(CiaoPort, <<>>)
          /\ edges' = range(k)
          /\ rpaoBuffer' = SubSeq(rpaoBuffer, 2 * k + 1, Len(rpaoBuffer))
          /\ creating' = [creating EXCEPT ![CiaoPort] = b(k)]
          /\ UNCHANGED <<ciaoBuffer, burstRespQueue, mem>>
    BY DEF issueExpandCiaoReadReq, memory
  <1>2. /\ rpaoBuffer \in Seq(Int) /\ edges \in [next : Int, end : Int]
        /\ creating[CiaoPort] \in Burst
    BY Ports DEF IInv, TypeOK
  <1>3. PICK n \in Nat : OffsetsOf(rpaoBuffer, Vertex, n)
    BY DEF Flow, BuffersIn
  <1>4. k \in Nat /\ k \in 0 .. n /\ 2 * k \in 0 .. Len(rpaoBuffer)
    <2>1. Len(rpaoBuffer) = 2 * n
      BY <1>3 DEF OffsetsOf
    <2> QED BY <2>1
  <1>5. Taken(rpaoBuffer, rpaoBuffer', 2 * k)
    <2>1. \A s \in Seq(Int) : \A m \in Nat : m \in 0 .. Len(s) => Taken(s, SubSeq(s, m + 1, Len(s)), m)
      BY RestTaken
    <2>2. 2 * k \in Nat
      BY <1>4
    <2> QED BY <1>1, <1>2, <1>4, <2>1, <2>2, Zenon
  <1>6. range(k).next \in Int /\ range(k).end \in Int
    <2>1. CASE k = 0
      <3>1. next \in Int
        BY <1>2 DEF Burst
      <3> QED BY <1>2, <2>1, <3>1
    <2>2. CASE k # 0
      <3>1. k \in 1 .. n
        BY <1>4, <2>2
      <3>2. PICK u \in Vertex : rpaoBuffer[2 * k - 1] = Rpao[u] /\ rpaoBuffer[2 * k] = Rpao[u + 1]
        BY <1>3, <3>1 DEF OffsetsOf
      <3>3. range(k).next = Rpao[u] /\ range(k).end = Rpao[u + 1]
        BY <2>2, <3>2
      <3>4. Rpao[u] \in Nat /\ Rpao[u + 1] \in Nat
        BY Offsets
      <3> HIDE DEF range
      <3> QED BY <3>3, <3>4
    <2> QED BY <2>1, <2>2
  <1> PICK lo \in Int, hi \in Int : lo = range(k).next /\ hi = range(k).end
    BY <1>6
  <1> PICK c : c = chunk(k)
    OBVIOUS
  <1>7. c = Lesser(BaseLen \div IntSize, hi - lo)
    OBVIOUS
  <1>8. /\ k = 0 => lo = next /\ hi = edges.end
        /\ k # 0 => lo = rpaoBuffer[2 * k - 1] /\ hi = rpaoBuffer[2 * k]
    OBVIOUS
  <1>9. edges'.next = lo /\ edges'.end = hi
    BY <1>1
  <1>10. /\ b(k) = IF lo < hi /\ Len(ciaoBuffer) + c < CiaoBufferDepth
                   THEN NewBurst(lo, c) ELSE NoBurst
    OBVIOUS
  <1> HIDE DEF range, chunk, issues
  <1> PICK d : d = b(k)
    OBVIOUS
  <1>11. creating' = [creating EXCEPT ![CiaoPort] = d]
    BY <1>1
  <1> HIDE DEF b
  <1>12. Len(ciaoBuffer) \in Nat /\ CiaoBufferDepth \in Nat
    BY SizeAssumption DEF SizeAssumption, IInv, TypeOK
  <1>13. /\ d \in Burst /\ (d # NoBurst => d.at = lo)
         /\ d = NoBurst /\ lo < hi => Len(ciaoBuffer) + c >= CiaoBufferDepth
    <2>1. CASE lo < hi /\ Len(ciaoBuffer) + c < CiaoBufferDepth
      <3>1. d = NewBurst(lo, c) /\ lo < hi
        BY <1>10, <2>1
      <3>2. c \in Nat /\ c > 0
        <4>1. \A x \in Nat, y, z \in Int : x > 0 /\ y < z =>
                Lesser(x, z - y) \in Nat /\ Lesser(x, z - y) > 0
          BY DEF Lesser
        <4>2. lo < hi
          BY <2>1
        <4> QED BY <1>7, <4>1, <4>2, ChunkSize, Zenon
      <3>3. NewBurst(lo, c) \in Burst /\ NewBurst(lo, c) # NoBurst /\ NewBurst(lo, c).at = lo
        BY <3>2, Bursts DEF NewBurst, NoBurst
      <3> QED BY <3>1, <3>3
    <2>2. CASE ~(lo < hi /\ Len(ciaoBuffer) + c < CiaoBufferDepth)
      <3>1. d = NoBurst
        BY <1>10, <2>2
      <3>2. lo < hi => ~(Len(ciaoBuffer) + c < CiaoBufferDepth)
        BY <2>2
      <3>3. lo < hi => c \in Int
        <4>1. \A x \in Nat, y, z \in Int : Lesser(x, z - y) \in Int
          BY DEF Lesser
        <4> QED BY <1>7, <4>1, ChunkSize, Zenon
      <3>4. lo < hi => Len(ciaoBuffer) + c >= CiaoBufferDepth
        BY <1>12, <3>2, <3>3
      <3> QED BY <3>1, <3>4, Bursts
    <2> QED BY <2>1, <2>2
  <1>14. Asks(k, lo, hi, d)
    BY <1>1, <1>5, <1>7, <1>8, <1>9, <1>11, <1>13, Zenon DEF Asks
  <1> QED
    BY <1>4, <1>13, <1>14

\* Edges of the range that is chosen are requested, or remain in it.
LEMMA ChosenStep ==
    ASSUME IInv, NEW k, NEW lo \in Int, NEW hi \in Int, NEW b \in Burst, Asks(k, lo, hi, b),
           NEW e \in Int, lo <= e, e < hi
    PROVE  Remains(e)' \/ Crosses(e)'
  <1>1. CiaoPort \in Port /\ creating \in [Port -> Burst] /\ <<>> \in Seq(Int) /\ NoBurst.len = 0
    BY Ports, Bursts DEF IInv, TypeOK, NoBurst
  <1>2. /\ Publish(CiaoPort, <<>>) /\ creating' = [creating EXCEPT ![CiaoPort] = b]
        /\ edges'.next = lo /\ edges'.end = hi /\ UNCHANGED <<mem, burstRespQueue>>
        /\ (b # NoBurst => b.at = lo)
    BY Zenon DEF Asks
  <1>3. creating'[CiaoPort] = b /\ b.len \in Nat
    BY <1>1, <1>2 DEF Burst
  <1>4. CASE b # NoBurst /\ e < lo + b.len
    <2>1. /\ Pipeline(CiaoPort) \in Seq(Burst)
          /\ Len(Pipeline(CiaoPort)') = Len(Pipeline(CiaoPort)) + 1
          /\ Pipeline(CiaoPort)'[Len(Pipeline(CiaoPort)) + 1] = b
      BY <1>1, <1>2, <1>4, IssuePipe
    <2>2. Len(Pipeline(CiaoPort)) + 1 \in 1 .. Len(Pipeline(CiaoPort)')
      BY <2>1
    <2>3. b.at <= e /\ e < b.at + b.len
      BY <1>2, <1>4
    <2> QED BY <2>1, <2>2, <2>3, Zenon DEF Crosses
  <1>5. CASE ~(b # NoBurst /\ e < lo + b.len)
    <2>1. lo + b.len <= e
      BY <1>1, <1>3, <1>5
    <2> QED BY <1>2, <1>3, <2>1, Zenon DEF Remains
  <1> QED
    BY <1>4, <1>5

\* The offsets that are buffered, and what their thread leaves.
LEMMA BetweenStep ==
    ASSUME IInv, Flow(Vertex), [Next]_vars, NEW e \in Int, Between(rpaoBuffer, e)
    PROVE  Between(rpaoBuffer, e)' \/ Remains(e)' \/ Crosses(e)'
  <1>1. rpaoBuffer \in Seq(Int) /\ RpaoPort \in Port /\ RpaoPort # WritePort
    BY Ports DEF IInv, TypeOK
  <1>2. Len(rpaoBuffer) \in Nat
    BY <1>1
  <1> PICK j \in 1 .. Len(rpaoBuffer) \div 2 : rpaoBuffer[2 * j - 1] <= e /\ e < rpaoBuffer[2 * j]
    BY DEF Between
  <1>3. /\ 2 * j - 1 \in 1 .. Len(rpaoBuffer) /\ 2 * j \in 1 .. Len(rpaoBuffer)
        /\ 2 * j <= Len(rpaoBuffer) /\ 2 * j - 1 <= Len(rpaoBuffer)
    BY <1>2
  <1>4. CASE rpaoBuffer' = rpaoBuffer
    BY <1>4 DEF Between
  <1>5. CASE processExpandRpaoReadResp
    <2> PICK d : d = Received(RpaoPort)
      OBVIOUS
    <2>1. d \in Seq(Int) /\ rpaoBuffer' = rpaoBuffer \o d
      BY <1>1, <1>5, ReceiveStep DEF processExpandRpaoReadResp
    <2>2. Len(d) \in Nat
      BY <2>1
    <2>3. /\ Len(rpaoBuffer \o d) = Len(rpaoBuffer) + Len(d)
          /\ \A k \in 1 .. Len(rpaoBuffer) + Len(d) :
               (rpaoBuffer \o d)[k] = IF k <= Len(rpaoBuffer) THEN rpaoBuffer[k]
                                      ELSE d[k - Len(rpaoBuffer)]
      BY <1>1, <2>1, Joined2
    <2>4. Len(rpaoBuffer') = Len(rpaoBuffer) + Len(d)
      BY <2>1, <2>3, Zenon
    <2>5. /\ 2 * j - 1 \in 1 .. Len(rpaoBuffer) + Len(d)
          /\ 2 * j \in 1 .. Len(rpaoBuffer) + Len(d)
          /\ j \in 1 .. (Len(rpaoBuffer) + Len(d)) \div 2
      BY <1>2, <2>2
    <2>6. rpaoBuffer'[2 * j - 1] = rpaoBuffer[2 * j - 1] /\ rpaoBuffer'[2 * j] = rpaoBuffer[2 * j]
      BY <1>3, <2>1, <2>3, <2>5, Zenon
    <2> QED BY <2>4, <2>5, <2>6, Zenon DEF Between
  <1>6. CASE issueExpandCiaoReadReq
    <2> PICK k \in Nat, lo \in Int, hi \in Int, b \in Burst : Asks(k, lo, hi, b)
      BY <1>6, EdgeTurn
    <2>1. CASE j > k
      <3>1. /\ Len(rpaoBuffer') = Len(rpaoBuffer) - 2 * k
            /\ \A i \in 1 .. Len(rpaoBuffer') : rpaoBuffer'[i] = rpaoBuffer[2 * k + i]
        BY Zenon DEF Asks, Taken
      <3>2. /\ j - k \in 1 .. (Len(rpaoBuffer) - 2 * k) \div 2
            /\ 2 * (j - k) - 1 \in 1 .. (Len(rpaoBuffer) - 2 * k)
            /\ 2 * (j - k) \in 1 .. (Len(rpaoBuffer) - 2 * k)
            /\ 2 * k + (2 * (j - k) - 1) = 2 * j - 1 /\ 2 * k + 2 * (j - k) = 2 * j
        BY <1>2, <2>1
      <3>3. /\ rpaoBuffer'[2 * (j - k) - 1] = rpaoBuffer[2 * j - 1]
            /\ rpaoBuffer'[2 * (j - k)] = rpaoBuffer[2 * j]
        BY <3>1, <3>2
      <3> QED BY <3>1, <3>2, <3>3, Zenon DEF Between
    <2>2. CASE j < k
      <3>1. j \in 1 .. k - 1
        BY <2>2
      <3>2. rpaoBuffer[2 * j - 1] >= rpaoBuffer[2 * j]
        BY <3>1, Zenon DEF Asks
      <3>3. rpaoBuffer[2 * j - 1] \in Int /\ rpaoBuffer[2 * j] \in Int
        BY <1>1, <1>3
      <3> QED BY <3>2, <3>3
    <2>3. CASE j = k
      <3>1. k # 0
        BY <2>3
      <3>2. lo = rpaoBuffer[2 * k - 1] /\ hi = rpaoBuffer[2 * k]
        BY <3>1, Zenon DEF Asks
      <3>3. lo <= e /\ e < hi
        BY <2>3, <3>2
      <3> QED BY <3>3, ChosenStep
    <2> QED BY <2>1, <2>2, <2>3
  <1> QED
    BY <1>4, <1>5, <1>6, Frames

\* The edges that remain to be requested.
LEMMA RemainsStep ==
    ASSUME IInv, Flow(Vertex), [Next]_vars, NEW e \in Int, Remains(e)
    PROVE  Remains(e)' \/ Crosses(e)'
  <1>1. edges.next \in Int /\ edges.end \in Int /\ creating[CiaoPort].len \in Nat
    BY Ports DEF IInv, TypeOK, Burst
  <1>2. CASE edges' = edges /\ creating'[CiaoPort] = creating[CiaoPort]
    BY <1>2 DEF Remains
  <1>3. CASE issueExpandCiaoReadReq
    <2> PICK k \in Nat, lo \in Int, hi \in Int, b \in Burst : Asks(k, lo, hi, b)
      BY <1>3, EdgeTurn
    <2>1. /\ edges.next + creating[CiaoPort].len <= e /\ e < edges.end
          /\ edges.next + creating[CiaoPort].len < edges.end
      BY <1>1 DEF Remains
    <2>2. lo = edges.next + creating[CiaoPort].len /\ hi = edges.end
      BY <2>1, Zenon DEF Asks
    <2> QED BY <2>1, <2>2, ChosenStep
  <1> QED
    BY <1>2, <1>3, Frames

\* The edges of a burst: once received, what they lead to is buffered.
LEMMA CrossesStep ==
    ASSUME SearchInv, IInv', [Next]_vars, NEW e \in Int, Crosses(e)
    PROVE  Crosses(e)' \/ In(ciaoBuffer, Ciao[e])'
  <1>1. /\ IInv /\ DataKnown /\ CsrRead /\ CiaoPort \in Port /\ CiaoPort # WritePort
        /\ ciaoBuffer \in Seq(Int)
    BY Ports DEF SearchInv, FlowInv, ScanInv, IInv, TypeOK
  <1> PICK k \in 1 .. Len(Pipeline(CiaoPort)) :
         /\ Pipeline(CiaoPort)[k].at <= e
         /\ e < Pipeline(CiaoPort)[k].at + Pipeline(CiaoPort)[k].len
    BY DEF Crosses
  <1>2. CASE CarriedTo(CiaoPort, k)
    BY <1>2, Zenon DEF CarriedTo, Crosses
  <1>3. CASE processExpandCiaoReadResp /\ serving[CiaoPort] /\ k = 1
    <2>1. Receive(CiaoPort) /\ ciaoBuffer' = ciaoBuffer \o Received(CiaoPort)
      BY <1>3 DEF processExpandCiaoReadResp
    <2> PICK b \in Burst :
           /\ Received(CiaoPort) = b.data /\ b.data \in Seq(Int) /\ Len(b.data) = b.len
           /\ 1 \in 1 .. Len(burstRespQueue[CiaoPort]) /\ b = burstRespQueue[CiaoPort][1]
           /\ 1 \in 1 .. Len(Pipeline(CiaoPort)) /\ b = Pipeline(CiaoPort)[1]
      BY <1>1, <1>3, <2>1, Taking
    <2>2. b.at \in Int /\ b.len \in Nat /\ b.at <= e /\ e < b.at + b.len
      BY <1>3 DEF Burst
    <2>3. e - b.at + 1 \in 1 .. b.len /\ b.at + (e - b.at + 1) - 1 = e
      <3>1. \A x, y \in Int, n \in Nat : x <= y /\ y < x + n =>
              y - x + 1 \in 1 .. n /\ x + (y - x + 1) - 1 = y
        OBVIOUS
      <3> QED BY <2>2, <3>1, Zenon
    <2>4. \A j \in 1 .. Len(b.data) : b.data[j] = Ciao[b.at + j - 1]
      BY <1>1, Zenon DEF CsrRead, TargetsRead
    <2>5. b.data[e - b.at + 1] = Ciao[b.at + (e - b.at + 1) - 1]
      BY <2>3, <2>4, Zenon
    <2>6. In(b.data, Ciao[e])
      BY <2>3, <2>5, Zenon DEF In
    <2>7. In(ciaoBuffer \o b.data, Ciao[e])
      BY <1>1, <2>6, InParts
    <2> QED BY <2>1, <2>7, Zenon DEF In
  <1> QED
    BY <1>1, <1>2, <1>3, Ports, BurstsCarried

LEMMA EdgeStep ==
    ASSUME SearchInv, IInv', WrittenVisited, Marks, Moves, [Next]_vars,
           NEW e \in 0 .. Rpao[V] - 1, EdgePending(e)
    PROVE  EdgePending(e)'
  <1>1. IInv /\ Flow(Vertex) /\ Ciao[e] \in Vertex /\ e \in Int
    BY GraphAssumption DEF GraphAssumption, SearchInv, FlowInv
  <1>2. CASE TargetPending(Ciao[e])
    <2> PICK v \in Vertex : v = Ciao[e]
      BY <1>1
    <2>1. TargetPending(v)'
      BY <1>2, TargetStep
    <2> QED BY <2>1 DEF EdgePending
  <1>3. CASE Between(rpaoBuffer, e)
    BY <1>1, <1>3, BetweenStep DEF EdgePending
  <1>4. CASE Remains(e)
    BY <1>1, <1>4, RemainsStep DEF EdgePending
  <1>5. CASE Crosses(e)
    BY <1>1, <1>5, CrossesStep DEF EdgePending, TargetPending
  <1> QED
    BY <1>2, <1>3, <1>4, <1>5 DEF EdgePending
-----------------------------------------------------------------------------
(* From the inspection of a vertex to its edges *)

\* Every vertex is in a partition.
LEMMA VertexPart ==
    ASSUME NEW u \in Vertex
    PROVE  \E p \in Part : PartBase(p) <= u /\ u < PartBase(p) + PartLen(p)
  <1>0. V \in Nat /\ PRNUM \in Nat /\ PRNUM > 0
    BY GraphAssumption, SizeAssumption DEF GraphAssumption, SizeAssumption
  <1> PICK q \in Nat : q = V \div PRNUM
    BY <1>0
  <1>1. /\ V \in Nat /\ PRNUM \in Nat /\ PRNUM > 0 /\ u \in Nat /\ u < V
        /\ PRNUM - 1 \in Nat /\ PRNUM - 1 \in Part
    BY GraphAssumption, SizeAssumption DEF GraphAssumption, SizeAssumption, Part, Vertex
  <1> PICK last \in Nat : last = PRNUM - 1
    BY <1>1
  <1>2. last * q \in Nat
    OBVIOUS
  <1>3. CASE last * q <= u
    <2>1. last \in Part /\ PartBase(last) = last * q /\ PartLen(last) = V - last * q
      BY <1>1 DEF PartBase, PartLen
    <2>2. \A x \in Int : x + (V - x) = V
      BY <1>1
    <2> QED BY <1>1, <1>2, <1>3, <2>1, <2>2
  <1>4. CASE u < last * q
    <2>1. q # 0
      BY <1>1, <1>4
    <2> PICK p \in Int : p = u \div q /\ q * p <= u /\ u < q * p + q
      BY <1>1, <2>1
    <2>2. p >= 0
      <3>1. ASSUME p < 0 PROVE FALSE
        <4>1. p + 1 <= 0
          BY <3>1
        <4>2. q * p + q = q * (p + 1) /\ q * (p + 1) <= 0
          BY <4>1
        <4> QED BY <1>1, <4>2
      <3> QED BY <3>1
    <2>3. p < last
      <3>1. ASSUME p >= last PROVE FALSE
        <4>1. q * p >= q * last /\ q * last = last * q
          BY <3>1
        <4> QED BY <1>1, <1>2, <1>4, <4>1
      <3> QED BY <3>1
    <2>4. p \in Part /\ PartBase(p) = p * q /\ PartLen(p) = q /\ p * q = q * p
      BY <1>1, <2>2, <2>3 DEF Part, PartBase, PartLen
    <2> QED BY <2>4
  <1> QED
    BY <1>1, <1>2, <1>3, <1>4

\* The label of the next level is another one.
LEMMA LabelDiffers == ASSUME IInv PROVE Label # level
  <1>1. CharHalf \in Nat /\ CharHalf > 0 /\ level \in Int /\ -CharHalf <= level /\ level < CharHalf
    BY SizeAssumption DEF SizeAssumption, IInv, TypeOK, CharValue
  <1>2. \A m \in Nat \ {0} : \A x \in 0 .. m - 1 : x % m = x
    OBVIOUS
  <1>3. \A m \in Nat \ {0} : m % m = 0
    OBVIOUS
  <1> PICK x \in Int : x = level + 1 + CharHalf
    BY <1>1
  <1> PICK m \in Nat \ {0} : m = 2 * CharHalf
    BY <1>1
  <1>4. Label = (x % m) - CharHalf
    BY DEF Label, Char
  <1>5. CASE x = m
    <2>1. x % m = 0
      BY <1>3, <1>5
    <2>2. level = CharHalf - 1
      BY <1>1, <1>5
    <2>3. Label = 0 - CharHalf
      BY <1>4, <2>1
    <2> QED BY <1>1, <2>2, <2>3
  <1>6. CASE x # m
    <2>1. x \in 0 .. m - 1
      BY <1>1, <1>6
    <2>2. x % m = x
      BY <1>2, <2>1, Zenon
    <2>3. Label = level + 1
      BY <1>1, <1>4, <2>2
    <2> QED BY <1>1, <2>3
  <1> QED
    BY <1>5, <1>6

\* The analysis passes a vertex of this level only by adding it to the frontier
\* and to the count of the vertices found.
LEMMA AnalysisFinds ==
    ASSUME SearchInv, NEW u \in Vertex, depth[u] = level, inspectDepthAnalysis, Unscanned(u),
           ~bfsIterationStart
    PROVE  Unscanned(u)' \/ (In(frontierBuffer, u)' /\ frontierSize' > 0)
  <1>1. IInv /\ Phases /\ DataKnown /\ ScanAgrees
    BY DEF SearchInv, FlowInv, ScanInv
  <1> PICK p \in Part : idx[p] <= u /\ u < PartBase(p) + PartLen(p)
    BY DEF Unscanned
  <1>2. PICK list \in HitLists :
          /\ idx' = [q \in Part |-> IF q \in Analysed THEN idx[q] + 1 ELSE idx[q]]
          /\ frontierBuffer' = frontierBuffer \o [k \in DOMAIN list |-> idx[list[k]]]
          /\ frontierSize' = frontierSize + Len([k \in DOMAIN list |-> idx[list[k]]])
    BY DEF inspectDepthAnalysis
  <1>3. idx \in [Part -> Nat] /\ u \in Nat /\ frontierBuffer \in Seq(Nat) /\ frontierSize \in Nat
    BY <1>1 DEF IInv, TypeOK, Vertex
  <1>4. CASE p \notin Analysed \/ idx[p] # u
    <2>1. idx'[p] <= u
      BY <1>2, <1>3, <1>4
    <2> QED BY <2>1 DEF Unscanned
  <1>5. CASE p \in Analysed /\ idx[p] = u
    <2>1. depthBuffer0[p] # <<>> /\ depthBuffer0[p] \in Seq(Int)
      BY <1>1, <1>5 DEF Analysed, IInv, TypeOK
    <2>2. Head(depthBuffer0[p]) = depthBuffer0[p][1] /\ 1 \in 1 .. Len(depthBuffer0[p])
      <3>1. Len(depthBuffer0[p]) \in Nat /\ Len(depthBuffer0[p]) > 0
            /\ Head(depthBuffer0[p]) = depthBuffer0[p][1]
        BY <2>1, Begins
      <3> QED BY <3>1
    <2>3. Agrees(depthBuffer0[p][1], idx[p] + 1 - 1)
      BY <1>1, <2>2, Zenon DEF ScanAgrees, BufferSeen
    <2>4. idx[p] + 1 - 1 = u
      BY <1>3, <1>5
    <2>5. Agrees(depthBuffer0[p][1], u)
      BY <2>3, <2>4, Zenon
    <2>6. Head(depthBuffer0[p]) = level
      BY <1>1, <2>2, <2>5, LabelDiffers DEF Agrees
    <2> PICK n \in 0 .. PRNUM : list \in [1 .. n -> Part]
      BY DEF HitLists
    <2>7. n \in Nat
      BY SizeAssumption DEF SizeAssumption
    <2>8. p \in {list[k] : k \in DOMAIN list}
      BY <1>5, <2>6 DEF HitLists
    <2> PICK k \in 1 .. n : list[k] = p
      BY <2>8
    <2> PICK t : t = [j \in DOMAIN list |-> idx[list[j]]]
      OBVIOUS
    <2>9. t \in [1 .. n -> Nat] /\ t[k] = u
      BY <1>3, <1>5
    <2>10. t \in Seq(Nat) /\ Len(t) = n
      BY <2>7, <2>9
    <2>11. In(t, u)
      BY <2>9, <2>10 DEF In
    <2>12. In(frontierBuffer \o t, u)
      BY <1>3, <2>10, <2>11, InParts
    <2>13. In(frontierBuffer, u)'
      BY <1>2, <2>12 DEF In
    <2>14. frontierSize' = frontierSize + n
      BY <1>2, <2>10
    <2>15. n > 0
      BY <2>7
    <2> QED BY <1>3, <2>7, <2>13, <2>14, <2>15
  <1> QED
    BY <1>4, <1>5

\* A vertex ahead of the inspection.
LEMMA AheadStep ==
    ASSUME SearchInv, [Next]_vars, level' = level, NEW u \in Vertex, depth[u] = level, Ahead(u)
    PROVE  Ahead(u)' \/ (In(frontierBuffer, u)' /\ frontierSize' > 0)
  <1>1. IInv /\ Phases
    BY DEF SearchInv, FlowInv, ScanInv
  <1>2. localCounter \in Nat /\ StartCount \in Nat /\ EndCount \in Nat /\ StartCount < EndCount
    BY <1>1, SizeAssumption DEF SizeAssumption, IInv, TypeOK
  <1>3. CASE Tick
    <2>1. /\ \A t \in Thread : busy[t] > 0
          /\ idx' = idx /\ bfsController
      BY <1>3 DEF Tick, inspection
    <2>2. CASE localCounter <= StartCount
      <3>1. localCounter' \in {0, localCounter + 1}
        BY <1>2, <2>1, <2>2 DEF bfsController
      <3>2. CASE localCounter = StartCount
        <4>1. Ran(Analysis)
          <5>1. busy[Analysis] > 0
            BY <2>1, Threads
          <5> QED BY <5>1 DEF Ran
        <4>2. \A p \in Part : idx[p] = PartBase(p)
          BY <1>1, <3>2, <4>1 DEF Phases, PhaseOf
        <4>3. Unscanned(u)'
          <5> PICK p \in Part : PartBase(p) <= u /\ u < PartBase(p) + PartLen(p)
            BY VertexPart
          <5>1. idx'[p] <= u
            BY <2>1, <4>2
          <5> QED BY <5>1 DEF Unscanned
        <4> QED BY <4>3 DEF Ahead
      <3>3. CASE localCounter # StartCount
        <4>1. localCounter' <= StartCount
          BY <1>2, <2>2, <3>1, <3>3
        <4> QED BY <4>1 DEF Ahead
      <3> QED BY <3>2, <3>3
    <2>3. CASE Unscanned(u)
      BY <2>1, <2>3 DEF Ahead, Unscanned
    <2> QED BY <2>2, <2>3 DEF Ahead
  <1>4. CASE ~Tick
    <2>1. localCounter' = localCounter
      BY <1>1, <1>4, Frames
    <2>2. CASE localCounter <= StartCount
      BY <2>1, <2>2 DEF Ahead
    <2>3. CASE Unscanned(u) /\ idx' = idx
      BY <2>3 DEF Ahead, Unscanned
    <2>4. CASE Unscanned(u) /\ inspectDepthAnalysis
      <3>1. CASE bfsIterationStart
        <4>1. localCounter = StartCount
          BY <1>1, <3>1 DEF Phases, Watching
        <4> QED BY <1>2, <2>2, <4>1
      <3>2. CASE ~bfsIterationStart
        BY <2>4, <3>2, AnalysisFinds DEF Ahead
      <3> QED BY <3>1, <3>2
    <2> QED BY <1>1, <2>2, <2>3, <2>4, Frames DEF Ahead
  <1> QED
    BY <1>3, <1>4

\* A vertex of the frontier gets its offsets requested.
LEMMA FrontierStep ==
    ASSUME IInv, [Next]_vars, NEW u \in Vertex, In(frontierBuffer, u)
    PROVE  In(frontierBuffer, u)' \/ On(RpaoPort, u)'
  <1>1. frontierBuffer \in Seq(Nat) /\ RpaoPort \in Port /\ u \in Int
    BY Ports, GraphAssumption DEF GraphAssumption, IInv, TypeOK, Vertex
  <1>2. CASE frontierBuffer' = frontierBuffer
    BY <1>2 DEF In
  <1>3. CASE inspectDepthAnalysis
    <2> DEFINE from == IF bfsIterationStart THEN [p \in Part |-> PartBase(p)] ELSE idx
    <2>1. PICK list \in HitLists :
            frontierBuffer' = frontierBuffer \o [k \in DOMAIN list |-> from[list[k]]]
      BY <1>3 DEF inspectDepthAnalysis
    <2>2. from \in [Part -> Nat]
      BY Parts DEF IInv, TypeOK
    <2> HIDE DEF from
    <2> PICK n \in 0 .. PRNUM : list \in [1 .. n -> Part]
      BY DEF HitLists
    <2>3. n \in Nat
      BY SizeAssumption DEF SizeAssumption
    <2> PICK t : t = [k \in DOMAIN list |-> from[list[k]]]
      OBVIOUS
    <2>4. t \in [1 .. n -> Nat]
      BY <2>2
    <2>5. t \in Seq(Nat)
      BY <2>3, <2>4
    <2>6. In(frontierBuffer \o t, u)
      BY <1>1, <2>5, InParts
    <2> QED BY <2>1, <2>6 DEF In
  <1>4. CASE frontierAnalysis
    <2> DEFINE issues == frontierBuffer # <<>> /\ Len(rpaoBuffer) + 2 < RpaoBufferDepth
               b == IF issues THEN NewBurst(Head(frontierBuffer), 2) ELSE NoBurst
    <2>1. /\ Publish(RpaoPort, <<>>)
          /\ frontierBuffer' = IF issues THEN Tail(frontierBuffer) ELSE frontierBuffer
          /\ creating' = [creating EXCEPT ![RpaoPort] = b]
          /\ UNCHANGED <<burstRespQueue, mem>>
      BY <1>4 DEF frontierAnalysis, memory
    <2>2. CASE ~issues
      BY <1>2, <2>1, <2>2
    <2>3. CASE issues /\ Head(frontierBuffer) # u
      <3>1. In(Tail(frontierBuffer), u)
        BY <1>1, <2>3, InParts
      <3> QED BY <2>1, <2>3, <3>1 DEF In
    <2>4. CASE issues /\ Head(frontierBuffer) = u
      <3>1. b = NewBurst(u, 2) /\ NewBurst(u, 2) \in Burst /\ NewBurst(u, 2) # NoBurst
        BY <1>1, <2>4, Bursts
      <3>2. b.at = u
        BY <3>1 DEF NewBurst
      <3> HIDE DEF b
      <3> PICK d : d = b /\ creating' = [creating EXCEPT ![RpaoPort] = d]
        BY <2>1
      <3>3. On(RpaoPort, u)'
        BY <1>1, <2>1, <3>1, <3>2, Bursts, OnIssued
      <3> QED BY <3>3
    <2> QED BY <2>2, <2>3, <2>4
  <1> QED
    BY <1>2, <1>3, <1>4, Frames

\* The offsets of a vertex, once received, are buffered.
LEMMA OffsetsStep ==
    ASSUME SearchInv, IInv', [Next]_vars, NEW u \in Vertex, On(RpaoPort, u)
    PROVE  On(RpaoPort, u)' \/ Followed(u)'
  <1>1. /\ IInv /\ DataKnown /\ CsrRead /\ Flow(Vertex) /\ RpaoPort \in Port
        /\ RpaoPort # WritePort /\ rpaoBuffer \in Seq(Int)
    BY Ports DEF SearchInv, FlowInv, ScanInv, IInv, TypeOK
  <1> PICK k \in 1 .. Len(Pipeline(RpaoPort)) : Pipeline(RpaoPort)[k].at = u
    BY DEF On
  <1>2. CASE CarriedTo(RpaoPort, k)
    BY <1>2, OnCarried
  <1>3. CASE processExpandRpaoReadResp /\ serving[RpaoPort] /\ k = 1
    <2>1. Receive(RpaoPort) /\ rpaoBuffer' = rpaoBuffer \o Received(RpaoPort)
      BY <1>3 DEF processExpandRpaoReadResp
    <2> PICK b \in Burst :
           /\ Received(RpaoPort) = b.data /\ b.data \in Seq(Int) /\ Len(b.data) = b.len
           /\ 1 \in 1 .. Len(burstRespQueue[RpaoPort]) /\ b = burstRespQueue[RpaoPort][1]
           /\ 1 \in 1 .. Len(Pipeline(RpaoPort)) /\ b = Pipeline(RpaoPort)[1]
      BY <1>1, <1>3, <2>1, Taking
    <2>2. b.at = u /\ b.len = 2
      BY <1>1, <1>3 DEF Flow, BurstsFit, Fits
    <2>3. b.data[1] = Rpao[u] /\ b.data[2] = Rpao[u + 1]
      BY <1>1, <2>2, Zenon DEF CsrRead, OffsetsRead
    <2> PICK n \in Nat : OffsetsOf(rpaoBuffer, Vertex, n)
      BY <1>1 DEF Flow, BuffersIn
    <2> PICK all : all = rpaoBuffer \o b.data
      OBVIOUS
    <2>4. Len(rpaoBuffer) = 2 * n
      BY DEF OffsetsOf
    <2>5. /\ Len(all) = Len(rpaoBuffer) + Len(b.data)
          /\ \A j \in 1 .. Len(rpaoBuffer) + Len(b.data) :
               all[j] = IF j <= Len(rpaoBuffer) THEN rpaoBuffer[j] ELSE b.data[j - Len(rpaoBuffer)]
      BY <1>1, Joined2
    <2>6. Len(b.data) = 2
      BY <2>2
    <2>7. all[2 * (n + 1) - 1] = Rpao[u] /\ all[2 * (n + 1)] = Rpao[u + 1]
      <3>1. /\ 2 * (n + 1) - 1 \in 1 .. 2 * n + 2 /\ ~(2 * (n + 1) - 1 <= 2 * n)
            /\ 2 * (n + 1) - 1 - 2 * n = 1
            /\ 2 * (n + 1) \in 1 .. 2 * n + 2 /\ ~(2 * (n + 1) <= 2 * n)
            /\ 2 * (n + 1) - 2 * n = 2
        OBVIOUS
      <3> QED BY <2>3, <2>4, <2>5, <2>6, <3>1
    <2>8. n + 1 \in 1 .. Len(all) \div 2
      BY <2>4, <2>5, <2>6
    <2>9. ASSUME NEW e \in Rpao[u] .. Rpao[u + 1] - 1 PROVE Between(all, e)
      <3>1. Rpao[u] <= e /\ e < Rpao[u + 1]
        BY Offsets
      <3> QED BY <2>7, <2>8, <3>1 DEF Between
    <2>10. rpaoBuffer' = all
      BY <2>1
    <2> QED BY <2>9, <2>10 DEF Followed, EdgePending, Between
  <1> QED
    BY <1>1, <1>2, <1>3, Ports, BurstsCarried

\* A vertex of the level is inspected, and its edges followed.
LEMMA VertexStep ==
    ASSUME SearchInv, IInv', WrittenVisited, Marks, Moves, [Next]_vars, level' = level,
           NEW u \in Vertex, depth[u] = level, VertexPending(u)
    PROVE  VertexPending(u)'
  <1>1. IInv
    BY DEF SearchInv, FlowInv
  <1>2. CASE Ahead(u)
    BY <1>2, AheadStep DEF VertexPending
  <1>3. CASE In(frontierBuffer, u)
    BY <1>1, <1>3, FrontierStep DEF VertexPending
  <1>4. CASE On(RpaoPort, u)
    BY <1>4, OffsetsStep DEF VertexPending
  <1>5. CASE Followed(u)
    <2>1. ASSUME NEW e \in Rpao[u] .. Rpao[u + 1] - 1 PROVE EdgePending(e)'
      <3>1. e \in 0 .. Rpao[V] - 1
        BY Offsets, GraphAssumption DEF GraphAssumption
      <3>2. EdgePending(e)
        BY <1>5 DEF Followed
      <3> QED BY <3>1, <3>2, EdgeStep
    <2> QED BY <2>1 DEF VertexPending, Followed
  <1> QED
    BY <1>2, <1>3, <1>4, <1>5 DEF VertexPending

\* Every vertex of the level stays covered; those of the next one are all to be
\* inspected.
LEMMA CoveredStep ==
    ASSUME SearchInv, IInv', WrittenVisited, Covered, [Next]_vars PROVE Covered'
  <1>1. IInv /\ Moves
    BY DepthMoves DEF SearchInv, FlowInv
  <1>2. SUFFICES ASSUME Marks', NEW u \in Vertex, depth'[u] = level'
                 PROVE  VertexPending(u)'
    BY DEF Covered
  <1>3. CASE level' = level
    <2>1. Marks /\ Label # level
      BY <1>1, <1>2, <1>3, LabelDiffers DEF Marks, Label
    <2>2. depth[u] = level
      BY <1>1, <1>2, <1>3, <2>1 DEF Moves
    <2>3. VertexPending(u)
      BY <2>1, <2>2 DEF Covered
    <2> QED BY <1>1, <1>3, <2>1, <2>2, <2>3, VertexStep
  <1>4. CASE level' # level
    <2>1. Tick
      BY <1>4, LevelKept
    <2>2. localCounter' = 0
      BY <1>4, <2>1 DEF Tick, bfsController
    <2>3. localCounter' <= StartCount
      BY <2>2, SizeAssumption DEF SizeAssumption
    <2> QED BY <2>3 DEF VertexPending, Ahead
  <1> QED
    BY <1>3, <1>4

\* The responses to writes are those of visited vertices.
LEMMA WrittenStep == ASSUME SearchInv, WrittenVisited, [Next]_vars PROVE WrittenVisited'
  <1>1. /\ FlowInv /\ IInv /\ LabelsPending /\ Flow(Vertex) /\ Moves /\ WritePort \in Port
    BY DepthMoves, Ports DEF SearchInv, FlowInv
  <1>2. SUFFICES ASSUME Marks', NEW k \in 1 .. Len(burstRespQueue'[WritePort])
                 PROVE  depth'[burstRespQueue'[WritePort][k].at] # -1
    BY DEF WrittenVisited
  <1>3. CASE level' # level
    <2>1. Still'
      BY <1>1, <1>3, LevelTurns
    <2>2. Len(burstRespQueue'[WritePort]) = 0
      BY <1>1, <2>1 DEF Still
    <2> QED BY <1>2, <2>2
  <1>4. CASE level' = level
    <2>1. Marks
      BY <1>2, <1>4 DEF Marks, Label
    <2>2. ASSUME NEW j \in 1 .. Len(burstRespQueue[WritePort]),
                 burstRespQueue'[WritePort][k] = burstRespQueue[WritePort][j]
          PROVE  depth'[burstRespQueue'[WritePort][k].at] # -1
      <3> PICK v : v = burstRespQueue[WritePort][j].at
        OBVIOUS
      <3>1. j \in 1 .. Len(Pipeline(WritePort)) /\ Pipeline(WritePort)[j].at = v
        BY <1>1, Places
      <3>2. v \in Vertex
        BY <1>1, <3>1, DepthPlaces
      <3>3. depth[v] # -1
        BY <2>1, Zenon DEF WrittenVisited
      <3>4. depth'[v] # -1
        BY <1>1, <2>1, <3>2, <3>3, StaysVisited
      <3> QED BY <2>2, <3>4
    <2>3. CASE \E R \in SUBSET Port : getMemResp(R) /\ WritePort \in R
      <3> PICK R \in SUBSET Port : getMemResp(R) /\ WritePort \in R
        BY <2>3
      <3>1. /\ mem[WritePort] # <<>>
            /\ Len(burstRespQueue'[WritePort]) = Len(burstRespQueue[WritePort]) + 1
            /\ \A j \in 1 .. Len(burstRespQueue[WritePort]) :
                 burstRespQueue'[WritePort][j] = burstRespQueue[WritePort][j]
            /\ burstRespQueue'[WritePort][Len(burstRespQueue[WritePort]) + 1] = Answer(WritePort)
        BY <1>1, GetPipe
      <3>2. Len(burstRespQueue[WritePort]) \in Nat
        BY <1>1 DEF IInv, TypeOK
      <3>3. k \in 1 .. Len(burstRespQueue[WritePort]) \/ k = Len(burstRespQueue[WritePort]) + 1
        BY <3>1, <3>2
      <3>4. CASE k = Len(burstRespQueue[WritePort]) + 1
        <4> PICK v \in Vertex : /\ v = mem[WritePort][1].at
                                /\ depth' = [depth EXCEPT ![v] = Label]
          BY <1>1, Written
        <4>1. burstRespQueue'[WritePort][k].at = v
          BY <1>1, <3>1, <3>4, Answers1
        <4>2. depth \in [Vertex -> Int]
          BY <1>1 DEF IInv, TypeOK
        <4>3. depth'[v] = Label
          BY <4>2
        <4> QED BY <2>1, <4>1, <4>3 DEF Marks
      <3> QED BY <2>2, <3>1, <3>3, <3>4
    <2>4. CASE ~\E R \in SUBSET Port : getMemResp(R) /\ WritePort \in R
      <3>1. CASE \E R \in SUBSET Port : getMemResp(R)
        <4> PICK R \in SUBSET Port : getMemResp(R)
          BY <3>1
        <4>1. WritePort \notin R
          BY <2>4
        <4>2. burstRespQueue'[WritePort] = burstRespQueue[WritePort]
          BY <1>1, <4>1, GetPipe
        <4> QED BY <2>2, <4>2
      <3>2. CASE ~\E R \in SUBSET Port : getMemResp(R)
        BY <1>1, <2>2, <3>2, Responses
      <3> QED BY <3>1, <3>2
    <2> QED BY <2>3, <2>4
  <1> QED
    BY <1>3, <1>4
-----------------------------------------------------------------------------
(* Edges that wait *)

\* Only its own turn makes the thread that requests edges have had its turn.
LEMMA OthersTurn ==
    ASSUME IInv, Next, ~Tick, ~issueExpandCiaoReadReq
    PROVE  \E t \in Thread \ {Req(CiaoPort)}, n \in Nat : Turn(t, n)
  <1> DEFINE Goal == \E t \in Thread \ {Req(CiaoPort)}, n \in Nat : Turn(t, n)
  <1>1. ASSUME NEW i \in Port, i # WritePort, Receive(i) PROVE Goal
    <2> DEFINE rest == IF serving[i] THEN Tail(burstRespQueue[i]) ELSE burstRespQueue[i]
               n == IF rest = <<>> THEN 1 ELSE Head(rest).len
    <2>1. Turn(<<"resp", i>>, n)
      BY <1>1 DEF Receive
    <2>2. burstRespQueue[i] \in Seq(Burst) /\ (serving[i] => burstRespQueue[i] # <<>>)
      BY DEF IInv, TypeOK, ServingHead
    <2>3. rest \in Seq(Burst)
      BY <2>2
    <2>4. n \in Nat
      <3>1. rest # <<>> => Head(rest) \in Burst
        BY <2>3
      <3> QED BY <3>1 DEF Burst
    <2>5. <<"resp", i>> \in Thread \ {Req(CiaoPort)}
      BY Threads DEF Req
    <2> HIDE DEF n
    <2> QED BY <2>1, <2>4, <2>5
  <1>2. ASSUME NEW i \in Port, i # CiaoPort PROVE Req(i) \in Thread \ {Req(CiaoPort)}
    BY <1>2, Threads DEF Req
  <1>3. CASE \E p \in Part : inspectDepthReqThread(p)
    <2> PICK p \in Part : inspectDepthReqThread(p)
      BY <1>3
    <2>1. Turn(Req(p), 1) /\ p \in Port /\ p # CiaoPort
      BY Ports DEF inspectDepthReqThread, Req
    <2> QED BY <1>2, <2>1
  <1>4. CASE \E p \in Part : inspectDepthRespThread(p)
    <2> PICK p \in Part : inspectDepthRespThread(p)
      BY <1>4
    <2>1. Receive(p) /\ p \in Port /\ p # WritePort
      BY Ports DEF inspectDepthRespThread
    <2> QED BY <1>1, <2>1
  <1>5. CASE processExpandRpaoReadResp \/ processExpandCiaoReadResp \/ processExpandDepthReadResp
    BY <1>1, <1>5, Ports DEF processExpandRpaoReadResp, processExpandCiaoReadResp,
      processExpandDepthReadResp
  <1>6. CASE frontierAnalysis \/ issueExpandDepthReadReq \/ expandDepthAnalysis
    <2>1. Turn(Req(RpaoPort), 1) \/ Turn(Req(DepthPort), 1) \/ Turn(Req(WritePort), 1)
      BY <1>6 DEF frontierAnalysis, issueExpandDepthReadReq, expandDepthAnalysis, Req
    <2>2. /\ RpaoPort \in Port /\ DepthPort \in Port /\ WritePort \in Port
          /\ RpaoPort # CiaoPort /\ DepthPort # CiaoPort /\ WritePort # CiaoPort
      BY Ports
    <2> QED BY <1>2, <2>1, <2>2
  <1>7. CASE processExpandDepthWriteResp
    <2>1. Turn(<<"resp", WritePort>>, 1)
      BY <1>7 DEF processExpandDepthWriteResp
    <2>2. <<"resp", WritePort>> \in Thread \ {Req(CiaoPort)}
      BY Threads, Ports DEF Req
    <2> QED BY <2>1, <2>2
  <1>8. CASE inspectDepthAnalysis \/ sendMemReq \/ (\E S \in SUBSET Port : getMemResp(S)) \/ statusMonitor
    <2>1. \E t \in {Analysis, SendReq, GetResp, Monitor} : Turn(t, 1)
      BY <1>8 DEF inspectDepthAnalysis, sendMemReq, getMemResp, statusMonitor
    <2>2. {Analysis, SendReq, GetResp, Monitor} \subseteq Thread \ {Req(CiaoPort)}
      BY Threads DEF Req, Analysis, SendReq, GetResp, Monitor
    <2> QED BY <2>1, <2>2
  <1> HIDE DEF Goal
  <1> QED
    BY <1>3, <1>4, <1>5, <1>6, <1>7, <1>8 DEF Next, Goal

\* Edges wait for room only as long as there is a vertex before them.
LEMMA EdgesStep ==
    ASSUME RoomToExpand, SearchInv, IInv', EdgesWait, [Next]_vars PROVE EdgesWait'
  <1>1. /\ IInv /\ TurnsOnce /\ Flow(Vertex) /\ CiaoPort \in Port /\ DepthPort \in Port
        /\ ciaoBuffer \in Seq(Int) /\ creating \in [Port -> Burst] /\ busy \in [Thread -> Nat]
        /\ Req(CiaoPort) \in Thread /\ Req(DepthPort) \in Thread
    BY Ports, Threads DEF SearchInv, FlowInv, ScanInv, IInv, TypeOK, Req
  <1> SUFFICES ASSUME Halted'
               PROVE  ciaoBuffer' # <<>> \/ (creating'[DepthPort] # NoBurst /\ Ran(Req(DepthPort))')
    BY DEF EdgesWait
  <1>2. CASE UNCHANGED vars
    <2>1. UNCHANGED <<edges, creating, busy, ciaoBuffer>>
      BY <1>2 DEF vars, issuing
    <2> QED BY <2>1 DEF EdgesWait, Halted, Ran
  <1>3. CASE Tick
    <2>1. Req(CiaoPort) \in SingleCycle /\ busy[Req(CiaoPort)] \in {0, 1}
      BY <1>1 DEF SingleCycle, Req, TurnsOnce
    <2>2. busy[Req(CiaoPort)] > 0 /\ busy'[Req(CiaoPort)] = busy[Req(CiaoPort)] - 1
      BY <1>1, <1>3 DEF Tick
    <2>3. busy'[Req(CiaoPort)] = 0
      BY <2>1, <2>2
    <2> QED BY <2>3 DEF Halted, Ran
  <1>4. CASE issueExpandCiaoReadReq
    <2> PICK k \in Nat, lo \in Int, hi \in Int, b \in Burst : Asks(k, lo, hi, b)
      BY <1>1, <1>4, EdgeTurn
    <2>1. /\ creating' = [creating EXCEPT ![CiaoPort] = b] /\ edges'.next = lo /\ edges'.end = hi
          /\ ciaoBuffer' = ciaoBuffer
          /\ b = NoBurst /\ lo < hi =>
               Len(ciaoBuffer) + Lesser(BaseLen \div IntSize, hi - lo) >= CiaoBufferDepth
      BY Zenon DEF Asks
    <2>2. creating'[CiaoPort] = b
      BY <1>1, <2>1
    <2>3. b = NoBurst /\ lo < hi
      <3>1. NoBurst.len = 0
        BY DEF NoBurst
      <3> QED BY <2>1, <2>2, <3>1 DEF Halted
    <2>4. /\ Lesser(BaseLen \div IntSize, hi - lo) \in Int
          /\ Lesser(BaseLen \div IntSize, hi - lo) <= BaseLen \div IntSize
      BY ChunkSize DEF Lesser
    <2>5. Len(ciaoBuffer) + Lesser(BaseLen \div IntSize, hi - lo) >= CiaoBufferDepth
      BY <2>1, <2>3
    <2>6. Len(ciaoBuffer) > 0
      <3>1. \A n, s, c, d \in Int : n + s >= d /\ s <= c /\ c < d => n > 0
        OBVIOUS
      <3>2. Len(ciaoBuffer) \in Int /\ BaseLen \div IntSize \in Int /\ CiaoBufferDepth \in Int
        BY <1>1, ChunkSize, SizeAssumption DEF SizeAssumption
      <3> QED BY <2>4, <2>5, <3>1, <3>2, Zenon DEF RoomToExpand
    <2>7. ciaoBuffer # <<>>
      BY <1>1, <2>6, Begins
    <2> QED BY <2>1, <2>7
  <1>5. CASE Next /\ ~Tick /\ ~issueExpandCiaoReadReq
    <2> PICK t \in Thread \ {Req(CiaoPort)}, n \in Nat : Turn(t, n)
      BY <1>1, <1>5, OthersTurn
    <2>1. Ran(Req(CiaoPort))' = Ran(Req(CiaoPort))
      BY <1>1, TurnRan
    <2>2. edges' = edges /\ creating'[CiaoPort] = creating[CiaoPort]
      BY <1>1, <1>5, Frames
    <2>3. Halted
      BY <2>1, <2>2 DEF Halted
    <2>4. CASE issueExpandDepthReadReq
      <3>1. Turn(Req(DepthPort), 1)
        BY <2>4 DEF issueExpandDepthReadReq, Req
      <3>2. ~Ran(Req(DepthPort)) /\ Ran(Req(DepthPort))'
        BY <1>1, <3>1, TurnRan
      <3>3. ciaoBuffer # <<>>
        BY <2>3, <3>2 DEF EdgesWait
      <3> PICK b \in Burst : Requests(b)
        BY <1>1, <2>4, RequestTurn
      <3>4. creating'[DepthPort] = b /\ (b = NoBurst => ciaoBuffer' = ciaoBuffer)
        BY <1>1 DEF Requests
      <3> QED BY <3>2, <3>3, <3>4
    <2>5. CASE ~issueExpandDepthReadReq
      <3>1. Ran(Req(DepthPort)) => Ran(Req(DepthPort))'
        <4>1. ~Ran(t)
          BY <1>1, TurnRan
        <4>2. Req(DepthPort) = t \/ Ran(Req(DepthPort))' = Ran(Req(DepthPort))
          BY <1>1, TurnRan
        <4> QED BY <4>1, <4>2
      <3>2. creating'[DepthPort] = creating[DepthPort]
        BY <1>1, <1>5, <2>5, Frames
      <3>3. ciaoBuffer # <<>> => ciaoBuffer' # <<>>
        <4>1. CASE ciaoBuffer' = ciaoBuffer
          BY <4>1
        <4>2. CASE processExpandCiaoReadResp
          <5> PICK d : d = Received(CiaoPort)
            OBVIOUS
          <5>1. d \in Seq(Int) /\ ciaoBuffer' = ciaoBuffer \o d
            BY <1>1, <4>2, Ports, ReceiveStep DEF processExpandCiaoReadResp
          <5>2. ciaoBuffer # <<>> => ciaoBuffer \o d # <<>>
            BY <1>1, <5>1
          <5> QED BY <5>1, <5>2
        <4> QED BY <1>1, <1>5, <2>5, <4>1, <4>2, Frames
      <3> QED BY <2>3, <3>1, <3>2, <3>3 DEF EdgesWait
    <2> QED BY <2>4, <2>5
  <1> QED
    BY <1>2, <1>3, <1>4, <1>5
-----------------------------------------------------------------------------
(* The inductive invariant, and the end of a level *)

LEMMA CoverInit == ASSUME Init PROVE CoverInv
  <1>1. SearchInv
    BY SearchInit
  <1>2. WrittenVisited
    <2>1. Len(burstRespQueue[WritePort]) = 0
      BY Ports, EmptySeq DEF Init
    <2> QED BY <2>1 DEF WrittenVisited
  <1>3. EdgesWait
    <2>1. edges.next = 0 /\ edges.end = 0 /\ creating[CiaoPort].len = 0
      BY Ports DEF Init, NoBurst
    <2> QED BY <2>1 DEF EdgesWait, Halted
  <1>4. Covered
    <2>1. localCounter <= StartCount
      BY SizeAssumption DEF SizeAssumption, Init
    <2> QED BY <2>1 DEF Covered, VertexPending, Ahead
  <1> QED
    BY <1>1, <1>2, <1>3, <1>4 DEF CoverInv

LEMMA CoverStep ==
    ASSUME RoomToScan, RoomToExpand, CoverInv, [Next]_vars PROVE CoverInv'
  <1>1. /\ SearchInv /\ WrittenVisited /\ EdgesWait /\ Covered /\ IInv
    BY DEF CoverInv, SearchInv, FlowInv
  <1>2. SearchInv' /\ IInv'
    BY <1>1, SearchStep, nextInv
  <1>3. WrittenVisited' /\ EdgesWait' /\ Covered'
    BY <1>1, <1>2, WrittenStep, EdgesStep, CoveredStep
  <1> QED
    BY <1>2, <1>3 DEF CoverInv

\* Every vertex of a level is found or still to be inspected, and every edge
\* that leaves it is followed or on its way to be.
THEOREM CoverInvariance == ASSUME RoomToScan, RoomToExpand PROVE Spec => []CoverInv
  <1>1. Init => CoverInv
    BY CoverInit
  <1>2. CoverInv /\ [Next]_vars => CoverInv'
    BY CoverStep
  <1> QED
    BY <1>1, <1>2, PTL DEF Spec

\* When nothing is buffered nor on its way, and no thread is between taking
\* from a buffer and publishing its burst, what was pending is done.
LEMMA NothingPending ==
    ASSUME IInv, Still, ~WindowOpen, EdgesWait, Ran(Req(CiaoPort)), BuffersEmpty,
           NEW u \in Vertex, ~Ahead(u), VertexPending(u), NEW e \in Rpao[u] .. Rpao[u + 1] - 1
    PROVE  depth[Ciao[e]] # -1
  <1>1. \A i \in Port : creating[i] = NoBurst
    BY DEF WindowOpen
  <1>2. ASSUME NEW i \in Port PROVE Len(Pipeline(i)) = 0
    <2>1. IsPipe(Pipeline(i), burstRespQueue[i], mem[i], burstReqQueue[i], creating[i])
      BY PipeOf
    <2>2. Len(burstRespQueue[i]) = 0 /\ Len(mem[i]) = 0 /\ Len(burstReqQueue[i]) = 0
      BY DEF Still
    <2> QED BY <1>1, <2>1, <2>2 DEF IsPipe
  <1>3. RpaoPort \in Port /\ CiaoPort \in Port /\ DepthPort \in Port /\ WritePort \in Port
    BY Ports
  <1>4. \A i \in Port : \A at : ~On(i, at)
    BY <1>2 DEF On
  <1>5. /\ Len(frontierBuffer) = 0 /\ Len(rpaoBuffer) = 0 /\ Len(ciaoBuffer) = 0
        /\ Len(depthBuffer1) = 0
    BY EmptySeq DEF BuffersEmpty
  <1>6. Len(vidxBuffer) = 0
    BY <1>2, <1>3, <1>5, PairCount
  <1>7. EdgePending(e)
    <2>1. ~In(frontierBuffer, u)
      BY <1>5 DEF In
    <2>2. Followed(u)
      BY <1>3, <1>4, <2>1 DEF VertexPending
    <2> QED BY <2>2 DEF Followed
  <1>8. ~Between(rpaoBuffer, e)
    BY <1>5 DEF Between
  <1>9. ~Crosses(e)
    BY <1>2, <1>3 DEF Crosses
  <1>10. ~Remains(e)
    <2>1. SUFFICES ASSUME Remains(e) PROVE FALSE
      OBVIOUS
    <2>2. /\ edges.next \in Int /\ edges.end \in Int /\ creating[CiaoPort].len \in Nat /\ e \in Int
      BY <1>3, Offsets DEF IInv, TypeOK, Burst
    <2>3. edges.next + creating[CiaoPort].len < edges.end
      BY <2>1, <2>2 DEF Remains
    <2>4. Halted
      BY <1>1, <1>3, <2>3 DEF Halted
    <2>5. ciaoBuffer = <<>> /\ creating[DepthPort] = NoBurst
      BY <1>1, <1>3 DEF BuffersEmpty
    <2> QED BY <2>4, <2>5 DEF EdgesWait
  <1>11. ~In(ciaoBuffer, Ciao[e]) /\ ~In(vidxBuffer, Ciao[e])
    BY <1>5, <1>6 DEF In
  <1> QED
    BY <1>3, <1>4, <1>7, <1>8, <1>9, <1>10, <1>11 DEF EdgePending, TargetPending

\* A level does not change before its inspection is over and, if no thread is
\* in that window, all its edges are followed.
LEMMA LevelEnds ==
    ASSUME RoomToScan, CoverInv, Marks, [Next]_vars, LevelChanges
    PROVE  /\ \A p \in Part : idx[p] = PartBase(p) + PartLen(p)
           /\ ~WindowOpen => \A u \in Vertex : depth[u] = level =>
                  \A e \in Rpao[u] .. Rpao[u + 1] - 1 : depth[Ciao[e]] # -1
  <1>1. /\ IInv /\ ScanInv /\ Covered /\ EdgesWait /\ IInv' /\ TurnsOnce'
    <2>1. IInv /\ ScanInv /\ Covered /\ EdgesWait
      BY DEF CoverInv, SearchInv, FlowInv
    <2> QED BY <2>1, nextInv, TurnsStep DEF ScanInv
  <1>2. AllAnalyzed
    BY <1>1, PhasesStep
  <1>3. Tick /\ isEndOfBfsIteration /\ Still
    BY <1>1, LevelKept, LevelTurns DEF LevelChanges
  <1>4. BuffersEmpty /\ Ran(Req(CiaoPort))
    <2>1. Req(CiaoPort) \in Thread
      BY Ports, Threads DEF Req
    <2>2. busy[Req(CiaoPort)] > 0
      BY <1>3, <2>1 DEF Tick
    <2> QED BY <1>3, <2>2 DEF isEndOfBfsIteration, Ran
  <1>5. localCounter > StartCount
    <2>1. localCounter \in Nat /\ StartCount \in Nat /\ EndCount \in Nat
      BY <1>1, SizeAssumption DEF SizeAssumption, IInv, TypeOK
    <2>2. (IF localCounter < EndCount THEN localCounter + 1 ELSE localCounter) = EndCount
      BY <1>3 DEF Tick, bfsController, LevelChanges
    <2> QED BY <2>1, <2>2 DEF RoomToScan
  <1>6. ASSUME NEW u \in Vertex PROVE ~Ahead(u)
    <2>1. localCounter \in Nat /\ StartCount \in Nat /\ u \in Nat
      BY <1>1, SizeAssumption DEF SizeAssumption, IInv, TypeOK, Vertex
    <2>2. ~Unscanned(u)
      <3>1. ASSUME NEW p \in Part, idx[p] <= u, u < PartBase(p) + PartLen(p) PROVE FALSE
        <4>1. idx[p] = PartBase(p) + PartLen(p)
          BY <1>2 DEF AllAnalyzed
        <4>2. idx[p] \in Nat
          BY <1>1 DEF IInv, TypeOK
        <4> QED BY <2>1, <3>1, <4>1, <4>2
      <3> QED BY <3>1 DEF Unscanned
    <2> QED BY <1>5, <2>1, <2>2 DEF Ahead
  <1>7. ASSUME ~WindowOpen, NEW u \in Vertex, depth[u] = level,
               NEW e \in Rpao[u] .. Rpao[u + 1] - 1
        PROVE  depth[Ciao[e]] # -1
    <2>1. VertexPending(u)
      BY <1>1, <1>7 DEF Covered
    <2> QED BY <1>1, <1>3, <1>4, <1>6, <1>7, <2>1, NothingPending
  <1> QED
    BY <1>2, <1>7 DEF AllAnalyzed

\* While the label of the next level is not the mark of an unvisited vertex, a
\* level never changes before all its vertices were found and all edges that
\* leave them led to a label, unless a thread is between taking from a buffer
\* and publishing its burst (pe.cpp:575-606 does not look there).
THEOREM LevelsAreComplete ==
    ASSUME RoomToScan, RoomToExpand PROVE Spec /\ []Marks => LevelComplete
  <1>1. CoverInv /\ Marks /\ [Next]_vars =>
          [LevelChanges =>
             /\ \A p \in Part : idx[p] = PartBase(p) + PartLen(p)
             /\ ~WindowOpen => \A u \in Vertex : depth[u] = level =>
                    \A e \in Rpao[u] .. Rpao[u + 1] - 1 : depth[Ciao[e]] # -1]_vars
    BY LevelEnds
  <1> QED
    BY <1>1, CoverInvariance, PTL DEF Spec, LevelComplete

-----------------------------------------------------------------------------
(* The labels are the distances *)

\* The search that the processing element carries out, with what is proved of
\* such searches.
Search == INSTANCE LevelBfs_proofs WITH
            Vertices <- Vertex, Edge <- Edges, Root <- Start, done <- stopped

\* Its assumption: the CSR arrays are those of a graph with that root.
LEMMA SearchGraph == Edges \subseteq Vertex \X Vertex /\ Start \in Vertex
  BY GraphAssumption DEF GraphAssumption, Edges

\* Whatever the window did, only reachable vertices are labelled, and none with
\* less than its distance.
THEOREM LabelsAreSound == ASSUME RoomToScan PROVE Spec /\ []NoWrap => []Bfs!Sound
  <1>1. Init => BfsInv /\ Search!SoundInv
    <2> SUFFICES ASSUME Init PROVE BfsInv /\ Search!SoundInv
      OBVIOUS
    <2>1. Search!Init
      BY DEF Init, Search!Init, Search!Unvisited
    <2>2. Search!SoundInv
      BY <2>1, SearchGraph, Search!SoundInit
    <2> QED BY <2>2, BfsInit
  <1>2. BfsInv /\ Search!SoundInv /\ NoWrap /\ [Next]_vars => BfsInv' /\ Search!SoundInv'
    <2> SUFFICES ASSUME BfsInv, Search!SoundInv, NoWrap, [Next]_vars
                 PROVE  BfsInv' /\ Search!SoundInv'
      OBVIOUS
    <2>1. [Bfs!Next]_(Bfs!bfsVars)
      BY StepVisits
    <2>2. [Search!Next]_(Search!bfsVars)
      BY <2>1, Zenon DEF Bfs!Next, Bfs!bfsVars, Bfs!Visit, Bfs!Advance, Bfs!Finish, Bfs!Unvisited,
        Search!Next, Search!bfsVars, Search!Visit, Search!Advance, Search!Finish, Search!Unvisited
    <2>3. Search!SoundInv'
      BY <2>2, SearchGraph, Search!SoundStep
    <2> QED BY <2>3, BfsStep
  <1>3. Search!SoundInv => Bfs!Sound
    BY Zenon DEF Search!SoundInv, Search!Sound, Search!SoundLabels, Search!HasParent, Search!Unvisited,
      Bfs!Sound, Bfs!SoundLabels, Bfs!HasParent, Bfs!Unvisited
  <1> QED
    BY <1>1, <1>2, <1>3, PTL DEF Spec
-----------------------------------------------------------------------------
(* Levels that end when nothing is under way *)

\* What is followed starts in the vertices of this level.
FollowsLevel == \E S \in SUBSET AtLevel : Flow(S)

\* The analysis has counted each vertex of this level that it has passed.
Counted == \A u \in Vertex : depth[u] = level /\ ~Ahead(u) => frontierSize > 0

\* The search is over only when no vertex was found at the last level.
Finished == bfsDone => \A v \in Vertex : depth[v] < level

\* When a level ends with nothing under creation, nothing is followed.
LEMMA NothingFollowed ==
    ASSUME RoomToScan, CoverInv, [Next]_vars, LevelChanges, ~WindowOpen
    PROVE  Flow({}) /\ Hits({})
  <1>1. /\ IInv /\ EdgesWait /\ IInv' /\ TurnsOnce'
    <2>1. IInv /\ ScanInv /\ EdgesWait
      BY DEF CoverInv, SearchInv, FlowInv
    <2> QED BY <2>1, nextInv, TurnsStep DEF ScanInv
  <1>2. Tick /\ isEndOfBfsIteration /\ Still
    BY <1>1, LevelKept, LevelTurns DEF LevelChanges
  <1>3. BuffersEmpty /\ InspectionBuffersEmpty
    BY <1>2 DEF isEndOfBfsIteration
  <1>4. Ran(Req(CiaoPort))
    <2>1. Req(CiaoPort) \in Thread
      BY Ports, Threads DEF Req
    <2> QED BY <1>2, <2>1 DEF Tick, Ran
  <1>5. \A i \in Port : creating[i] = NoBurst
    BY DEF WindowOpen
  <1>6. ASSUME NEW i \in Port PROVE Len(Pipeline(i)) = 0
    <2>1. IsPipe(Pipeline(i), burstRespQueue[i], mem[i], burstReqQueue[i], creating[i])
      BY <1>1, PipeOf
    <2>2. Len(burstRespQueue[i]) = 0 /\ Len(mem[i]) = 0 /\ Len(burstReqQueue[i]) = 0
      BY <1>2 DEF Still
    <2> QED BY <1>5, <2>1, <2>2 DEF IsPipe
  <1>7. BurstsFit({})
    BY <1>6 DEF BurstsFit
  <1>8. /\ Len(frontierBuffer) = 0 /\ Len(rpaoBuffer) = 0 /\ Len(ciaoBuffer) = 0
        /\ Len(depthBuffer1) = 0
    BY <1>3, EmptySeq DEF BuffersEmpty
  <1>9. Len(vidxBuffer) = 0
    BY <1>1, <1>6, <1>8, PairCount, Ports
  <1>10. ~(edges.next < edges.end)
    <2>1. CiaoPort \in Port /\ DepthPort \in Port /\ NoBurst.len = 0 /\ edges.next \in Int
      BY <1>1, Ports DEF NoBurst, IInv, TypeOK
    <2>2. creating[CiaoPort] = NoBurst /\ creating[DepthPort] = NoBurst /\ ciaoBuffer = <<>>
      BY <1>3, <1>5, <2>1 DEF BuffersEmpty
    <2>3. ~Halted
      BY <1>1, <2>2 DEF EdgesWait
    <2> QED BY <1>4, <2>1, <2>2, <2>3 DEF Halted
  <1>11. OffsetsOf(rpaoBuffer, {}, 0)
    BY <1>8 DEF OffsetsOf
  <1>12. BuffersIn({})
    BY <1>8, <1>9, <1>10, <1>11 DEF BuffersIn, AllIn
  <1>13. Hits({})
    BY <1>3 DEF InspectionBuffersEmpty, Hits, Analysed
  <1> QED
    BY <1>7, <1>12, <1>13 DEF Flow

\* What is followed from a level stays with it, and a new level starts afresh.
LEMMA FollowsStep ==
    ASSUME RoomToScan, CoverInv, BfsInv, FollowsLevel, [Next]_vars, LevelChanges => ~WindowOpen
    PROVE  FollowsLevel'
  <1>1. IInv /\ DataKnown /\ CsrRead /\ SearchInv /\ FlowInv /\ LabelsPending /\ level \in Nat
    BY DEF BfsInv, SearchInv, FlowInv, ScanInv
  <1>2. CASE LevelChanges
    <2>1. Flow({}) /\ Hits({})
      BY <1>2, NothingFollowed
    <2>2. Flow({})'
      BY <1>1, <2>1, FlowStep
    <2> QED BY <2>2 DEF FollowsLevel
  <1>3. CASE level' = level
    <2> PICK A \in SUBSET Vertex : A = AtLevel
      BY DEF AtLevel
    <2> PICK S \in SUBSET A : Flow(S)
      BY DEF FollowsLevel
    <2>1. Flow(A) /\ Hits(A)
      BY <1>1, FlowGrows, LevelHits
    <2>2. Flow(A)'
      BY <1>1, <2>1, FlowStep
    <2>3. Moves /\ Label # level
      BY <1>1, DepthMoves, LabelDiffers
    <2>4. A \subseteq AtLevel'
      BY <1>1, <1>3, <2>3 DEF AtLevel, Moves
    <2> QED BY <2>2, <2>4 DEF FollowsLevel
  <1> QED
    BY <1>2, <1>3 DEF LevelChanges

\* Only the analysis counts, and ends the search.
LEMMA AnalysisKept ==
    ASSUME [Next]_vars, ~inspectDepthAnalysis
    PROVE  UNCHANGED <<idx, frontierSize, armed, bfsDone>>
  <1>1. ASSUME NEW i \in Port, Receive(i) PROVE UNCHANGED inspection
    BY <1>1 DEF Receive
  <1>2. CASE \E p \in Part : inspectDepthReqThread(p) \/ inspectDepthRespThread(p)
    <2>1. Part \subseteq Port
      BY Ports
    <2> QED BY <1>1, <1>2, <2>1 DEF inspectDepthReqThread, inspectDepthRespThread, inspection
  <1>3. CASE processExpandRpaoReadResp \/ processExpandCiaoReadResp \/ processExpandDepthReadResp
    BY <1>1, <1>3, Ports DEF processExpandRpaoReadResp, processExpandCiaoReadResp,
      processExpandDepthReadResp, inspection
  <1>4. CASE frontierAnalysis \/ issueExpandCiaoReadReq \/ issueExpandDepthReadReq
               \/ expandDepthAnalysis
    BY <1>4 DEF frontierAnalysis, issueExpandCiaoReadReq, issueExpandDepthReadReq,
      expandDepthAnalysis, inspection
  <1>5. CASE processExpandDepthWriteResp \/ sendMemReq \/ statusMonitor \/ Tick \/ UNCHANGED vars
               \/ \E R \in SUBSET Port : getMemResp(R)
    BY <1>5 DEF processExpandDepthWriteResp, sendMemReq, statusMonitor, Tick, vars, getMemResp,
      inspection
  <1> QED
    BY <1>2, <1>3, <1>4, <1>5 DEF Next

\* What a turn of the analysis does to its counts and to the end of the search.
LEMMA AnalysisTurn ==
    ASSUME IInv, inspectDepthAnalysis
    PROVE  /\ bfsIterationStart \/ frontierSize' >= frontierSize
           /\ bfsDone => bfsDone'
           /\ bfsDone' => bfsDone \/ (frontierSize' = 0 /\ (armed \/ bfsIterationStart)
                                        /\ AllAnalyzed')
  <1> PICK list \in HitLists :
        LET from == IF bfsIterationStart THEN [p \in Part |-> PartBase(p)] ELSE idx
            size == IF bfsIterationStart THEN 0 ELSE frontierSize
            watch == armed \/ bfsIterationStart
            found == [k \in DOMAIN list |-> from[list[k]]]
            to == [p \in Part |-> IF p \in Analysed THEN from[p] + 1 ELSE from[p]]
            allAnalyzed == \A p \in Part : to[p] = PartBase(p) + PartLen(p)
        IN  /\ idx' = to /\ frontierSize' = size + Len(found)
            /\ bfsDone' = (bfsDone \/ (watch /\ allAnalyzed /\ size + Len(found) = 0))
    BY DEF inspectDepthAnalysis
  <1> DEFINE from == IF bfsIterationStart THEN [p \in Part |-> PartBase(p)] ELSE idx
             found == [k \in DOMAIN list |-> from[list[k]]]
  <1> PICK n \in 0 .. PRNUM : list \in [1 .. n -> Part]
    BY DEF HitLists
  <1>1. n \in Nat /\ frontierSize \in Nat
    BY SizeAssumption DEF SizeAssumption, IInv, TypeOK
  <1>2. Len(found) = n
    BY <1>1
  <1> PICK c : c = Len(found)
    OBVIOUS
  <1>3. /\ frontierSize' = (IF bfsIterationStart THEN 0 ELSE frontierSize) + c
        /\ bfsDone' => bfsDone \/ (frontierSize' = 0 /\ (armed \/ bfsIterationStart) /\ AllAnalyzed')
        /\ bfsDone => bfsDone'
    BY DEF AllAnalyzed
  <1> QED
    BY <1>1, <1>2, <1>3

\* A vertex of the level is passed only when it is counted.
LEMMA CountedStep == ASSUME SearchInv, level \in Nat, Counted, [Next]_vars PROVE Counted'
  <1>1. IInv /\ Phases /\ FlowInv /\ LabelsPending /\ frontierSize \in Nat
    BY DEF SearchInv, FlowInv, ScanInv, IInv, TypeOK
  <1>2. localCounter \in Nat /\ StartCount \in Nat
    BY <1>1, SizeAssumption DEF SizeAssumption, IInv, TypeOK
  <1> SUFFICES ASSUME NEW u \in Vertex, depth'[u] = level', ~Ahead(u)' PROVE frontierSize' > 0
    BY DEF Counted
  <1>3. CASE level' # level
    <2>1. Tick /\ isEndOfBfsIteration
      BY <1>3, LevelKept
    <2>2. localCounter' = 0
      BY <1>3, <2>1 DEF Tick, bfsController
    <2> QED BY <1>2, <2>2 DEF Ahead
  <1>4. CASE level' = level
    <2>1. depth[u] = level
      BY <1>1, <1>4, DepthMoves, LabelDiffers DEF Moves
    <2>2. CASE Ahead(u)
      BY <1>4, <2>1, <2>2, AheadStep
    <2>3. CASE ~Ahead(u) /\ inspectDepthAnalysis
      <3>1. ~bfsIterationStart
        BY <1>1, <1>2, <2>3 DEF Phases, Watching, Ahead
      <3>2. frontierSize > 0 /\ frontierSize' >= frontierSize
        BY <1>1, <2>1, <2>3, <3>1, AnalysisTurn DEF Counted
      <3>3. frontierSize' \in Nat
        BY <1>1, nextInv DEF IInv, TypeOK
      <3> QED BY <1>1, <3>2, <3>3
    <2>4. CASE ~Ahead(u) /\ ~inspectDepthAnalysis
      BY <2>1, <2>4, AnalysisKept DEF Counted
    <2> QED BY <2>2, <2>3, <2>4
  <1> QED
    BY <1>3, <1>4

\* The search is declared over only when the inspection passed all vertices
\* without counting one.
LEMMA DoneTurns ==
    ASSUME IInv, Phases, Phases', IInv', Counted', [Next]_vars, ~bfsDone, bfsDone'
    PROVE  inspectDepthAnalysis /\ \A u \in Vertex : depth'[u] # level'
  <1>1. inspectDepthAnalysis /\ frontierSize' = 0 /\ (armed \/ bfsIterationStart) /\ AllAnalyzed'
    BY AnalysisKept, AnalysisTurn
  <1>2. /\ localCounter' = localCounter /\ localCounter \in Nat /\ StartCount \in Nat
        /\ localCounter >= StartCount
    BY <1>1, SizeAssumption DEF inspectDepthAnalysis, control, SizeAssumption, IInv, TypeOK,
      Phases, Watching
  <1>3. localCounter # StartCount
    <2>1. SUFFICES ASSUME localCounter = StartCount PROVE FALSE
      OBVIOUS
    <2>2. Ran(Analysis)'
      BY <1>1, Threads DEF inspectDepthAnalysis, Turn, Ran, IInv, TypeOK
    <2>3. \A p \in Part : idx'[p] = PartBase(p)
      BY <1>2, <2>1, <2>2 DEF Phases, PhaseOf
    <2> PICK p \in Part : PartBase(p) <= Start /\ Start < PartBase(p) + PartLen(p)
      BY SearchGraph, VertexPart
    <2>4. PartBase(p) = PartBase(p) + PartLen(p)
      BY <1>1, <2>3 DEF AllAnalyzed
    <2>5. PartBase(p) \in Nat /\ PartLen(p) \in Nat /\ Start \in Nat
      BY PartFits, SearchGraph, GraphAssumption DEF GraphAssumption, Vertex
    <2> QED BY <2>4, <2>5
  <1>4. ASSUME NEW u \in Vertex PROVE ~Ahead(u)'
    <2>1. \A p \in Part : PartBase(p) \in Nat /\ PartLen(p) \in Nat
      BY PartFits
    <2>2. u \in Nat
      BY GraphAssumption DEF GraphAssumption, Vertex
    <2>3. ASSUME NEW p \in Part PROVE ~(idx'[p] <= u /\ u < PartBase(p) + PartLen(p))
      <3>1. idx'[p] = PartBase(p) + PartLen(p)
        BY <1>1 DEF AllAnalyzed
      <3> QED BY <2>1, <2>2, <3>1
    <2> QED BY <1>2, <1>3, <2>3 DEF Ahead, Unscanned
  <1> QED
    BY <1>1, <1>4 DEF Counted

\* When it was over, no vertex is labelled any more.
LEMMA FinishedStep ==
    ASSUME BfsInv, BfsInv', NoWrap, Search!ExactInv, FollowsLevel, Finished, Counted', [Next]_vars
    PROVE  Finished'
  <1>1. /\ IInv /\ IInv' /\ Phases /\ Phases' /\ FlowInv /\ LabelsPending /\ level \in Nat
    BY DEF BfsInv, SearchInv, FlowInv, ScanInv
  <1>2. depth \in [Vertex -> Int]
    BY <1>1 DEF IInv, TypeOK
  <1> SUFFICES ASSUME bfsDone', NEW v \in Vertex PROVE depth'[v] < level'
    BY DEF Finished
  <1>3. CASE bfsDone
    <2>1. AtLevel = {}
      BY <1>1, <1>2, <1>3 DEF Finished, AtLevel
    <2>2. Flow({})
      BY <2>1 DEF FollowsLevel
    <2>3. depth' = depth
      BY <1>1, <2>2, WriteFollows, DepthKept DEF getMemResp
    <2>4. level' \in {level, level + 1}
      BY ReachedGrows
    <2>5. depth[v] < level
      BY <1>3 DEF Finished
    <2> QED BY <1>1, <1>2, <2>3, <2>4, <2>5
  <1>4. CASE ~bfsDone
    <2>1. inspectDepthAnalysis /\ \A u \in Vertex : depth'[u] # level'
      BY <1>1, <1>4, DoneTurns
    <2>2. depth' = depth /\ level' = level
      BY <2>1 DEF inspectDepthAnalysis, control, memory
    <2>3. Search!NoFrontier
      BY <2>1, <2>2 DEF Search!NoFrontier
    <2>4. depth[v] < level
      BY <2>3, SearchGraph, Search!Passed
    <2> QED BY <2>2, <2>4
  <1> QED
    BY <1>3, <1>4
-----------------------------------------------------------------------------
(* The distances *)

\* A step is one of the exact search unless it ends a level in that window.
LEMMA StepExact ==
    ASSUME RoomToScan, CoverInv, BfsInv, NoWrap, FollowsLevel, Finished, [Next]_vars,
           LevelChanges => ~WindowOpen
    PROVE  [Search!ExactNext]_(Search!bfsVars)
  <1> SUFFICES \/ \E v \in Vertex : Search!ExactVisit(v)
               \/ Search!LevelComplete /\ Search!Advance
               \/ Search!NoFrontier /\ Search!Finish
               \/ UNCHANGED <<depth, level, stopped>>
    BY DEF Search!ExactNext, Search!bfsVars
  <1>1. /\ level \in Nat /\ Label = level + 1 /\ bfsDone \in BOOLEAN /\ stopped \in BOOLEAN
        /\ FlowInv /\ LabelsPending
    BY NextLevel DEF BfsInv, SearchInv, FlowInv, IInv, TypeOK
  <1>2. CASE \E R \in SUBSET Port : getMemResp(R) /\ WritePort \in R
    <2> PICK R \in SUBSET Port : getMemResp(R) /\ WritePort \in R
      BY <1>2
    <2> PICK S \in SUBSET AtLevel : Flow(S)
      BY DEF FollowsLevel
    <2>1. S \in SUBSET Vertex /\ \A u \in S : depth[u] = level
      BY DEF AtLevel
    <2>2. ~stopped /\ level' = level /\ stopped' = stopped
      BY DEF getMemResp, Turn, control
    <2>3. ASSUME NEW u \in S, NEW v \in Vertex, <<u, v>> \in Edges, depth[v] = -1,
                 depth' = [depth EXCEPT ![v] = Label]
          PROVE  Search!ExactVisit(v)
      <3>1. u \in Vertex /\ depth[u] = level
        BY <2>1
      <3>2. depth[u] \in 0 .. level
        BY <1>1, <3>1
      <3>3. depth' = [depth EXCEPT ![v] = level + 1]
        BY <1>1, <2>3, Zenon
      <3>4. Search!Visit(v)
        BY <2>2, <2>3, <3>1, <3>2, <3>3, Zenon DEF Search!Visit, Search!Unvisited
      <3> QED BY <2>3, <3>1, <3>4, Zenon DEF Search!ExactVisit
    <2> QED BY <1>1, <2>1, <2>2, <2>3, WriteFollows
  <1>3. CASE ~\E R \in SUBSET Port : getMemResp(R) /\ WritePort \in R
    <2>1. depth' = depth
      BY <1>3, DepthKept DEF getMemResp
    <2>2. CASE level' # level
      <3>1. Tick /\ isEndOfBfsIteration
        BY <2>2, LevelKept
      <3>2. ~stopped /\ stopped' = stopped /\ level' = level + 1
        BY <1>1, <2>2, <3>1 DEF Tick, bfsController, Label
      <3>3. Marks
        BY <1>1 DEF Marks
      <3>4. \A u \in Vertex : depth[u] = level =>
                \A e \in Rpao[u] .. Rpao[u + 1] - 1 : depth[Ciao[e]] # -1
        BY <2>2, <3>3, LevelEnds DEF LevelChanges
      <3>5. Search!LevelComplete
        BY <3>4 DEF Search!LevelComplete, Search!Unvisited, Edges
      <3> QED BY <2>1, <3>2, <3>5 DEF Search!Advance
    <2>3. CASE level' = level /\ statusMonitor
      <3>1. ~stopped /\ stopped' = bfsDone
        BY <2>3 DEF statusMonitor, Turn
      <3>2. CASE bfsDone = TRUE
        <4>1. Search!NoFrontier
          BY <1>1, <3>2 DEF Finished, Search!NoFrontier
        <4> QED BY <2>1, <2>3, <3>1, <3>2, <4>1 DEF Search!Finish
      <3>3. CASE bfsDone = FALSE
        BY <1>1, <2>1, <2>3, <3>1, <3>3
      <3> QED BY <1>1, <3>2, <3>3
    <2>4. CASE level' = level /\ ~statusMonitor
      BY <2>1, <2>4, StopKept
    <2> QED BY <2>2, <2>3, <2>4
  <1> QED
    BY <1>2, <1>3

\* The inductive invariant: as long as no level ended in that window, the
\* search is exact, each level is followed from its own vertices alone, and the
\* counts that end the search are right.
CleanInv ==
    /\ BfsInv /\ CoverInv
    /\ clean => Search!ExactInv /\ FollowsLevel /\ Counted /\ Finished

LEMMA CleanInit == ASSUME MCInit PROVE CleanInv
  <1>1. Init /\ BfsInv /\ CoverInv
    BY BfsInit, CoverInit DEF MCInit
  <1>2. Search!Init
    BY <1>1 DEF Init, Search!Init, Search!Unvisited
  <1>3. Search!ExactInv
    BY <1>2, SearchGraph, Search!ExactInit
  <1>4. FollowsLevel
    BY <1>1, FlowAtStart DEF FollowsLevel
  <1>5. Counted
    <2>1. localCounter <= StartCount
      BY <1>1, SizeAssumption DEF SizeAssumption, Init
    <2> QED BY <2>1 DEF Counted, Ahead
  <1>6. Finished
    BY <1>1 DEF Init, Finished
  <1> QED
    BY <1>1, <1>3, <1>4, <1>5, <1>6 DEF CleanInv

LEMMA CleanStep ==
    ASSUME RoomToScan, RoomToExpand, CleanInv, NoWrap, [MCNext]_<<vars, clean>> PROVE CleanInv'
  <1>1. [Next]_vars /\ BfsInv /\ CoverInv
    BY DEF MCNext, CleanInv
  <1>2. BfsInv' /\ CoverInv'
    BY <1>1, BfsStep, CoverStep
  <1>3. ASSUME clean'
        PROVE  Search!ExactInv' /\ FollowsLevel' /\ Counted' /\ Finished'
    <2>1. clean /\ (LevelChanges => ~WindowOpen)
      BY <1>3 DEF MCNext, LevelChanges, vars, control
    <2>2. Search!ExactInv /\ FollowsLevel /\ Counted /\ Finished
      BY <2>1 DEF CleanInv
    <2>3. [Search!ExactNext]_(Search!bfsVars)
      BY <1>1, <2>1, <2>2, StepExact
    <2>4. Search!ExactInv'
      BY <2>2, <2>3, SearchGraph, Search!ExactStep
    <2>5. FollowsLevel'
      BY <1>1, <2>1, <2>2, FollowsStep
    <2>6. Counted'
      BY <1>1, <2>2, CountedStep DEF BfsInv
    <2>7. Finished'
      BY <1>1, <1>2, <2>2, <2>6, FinishedStep
    <2> QED BY <2>4, <2>5, <2>6, <2>7
  <1> QED
    BY <1>2, <1>3 DEF CleanInv

\* As long as the level does not wrap, the depths that are dumped at the end are
\* those of a breadth-first search, unless a level ended while a thread was
\* waiting in createReadBurstReq or createWriteBurstReq: nothing else in the
\* order of the threads or the delays of the memory can change the result.
THEOREM ExactOutsideWindow ==
    ASSUME RoomToScan, RoomToExpand PROVE MCSpec /\ []NoWrap => []ExactUnlessWindow
  <1>1. MCInit => CleanInv
    BY CleanInit
  <1>2. CleanInv /\ NoWrap /\ [MCNext]_<<vars, clean>> => CleanInv'
    BY CleanStep
  <1>3. CleanInv => ExactUnlessWindow
    <2> SUFFICES ASSUME CleanInv, clean, stopped PROVE Bfs!ExactLabels(depth)
      BY DEF ExactUnlessWindow, DoneMeansExact
    <2>1. Search!ExactInv /\ Search!NoFrontier
      BY DEF CleanInv, Search!ExactInv
    <2>2. Search!ExactLabels(depth)
      BY <2>1, SearchGraph, Search!ExactEnd
    <2> QED
      BY <2>2, Zenon DEF Search!ExactLabels, Search!SoundLabels, Search!HasParent,
        Search!HasTightParent, Search!Unvisited, Bfs!ExactLabels, Bfs!SoundLabels,
        Bfs!HasParent, Bfs!HasTightParent, Bfs!Unvisited
  <1> QED
    BY <1>1, <1>2, <1>3, PTL DEF MCSpec
-----------------------------------------------------------------------------
(* How many levels there are *)

Holds(l) == \E v \in Vertex : depth[v] = l

\* From the moment the analysis has started on a level: what it counted is
\* there, and it still watches, has counted something, or ended the search.
Inspected == localCounter > StartCount \/ (localCounter = StartCount /\ Ran(Analysis))
Heard == Inspected => /\ frontierSize > 0 => Holds(level)
                      /\ armed \/ bfsDone \/ frontierSize > 0

\* A vertex has each of the labels so far, except that a last level may begin
\* before statusMonitor sees that the search is over.
Used == /\ \A l \in 0 .. level - 2 : Holds(l)
        /\ ~bfsDone \/ (~stopped /\ Ran(Monitor)) => level = 0 \/ Holds(level - 1)

FewInv == BfsInv /\ Heard /\ Used

\* Levels are as many as vertices, and two more.
LEMMA FewLevels == ASSUME FewInv PROVE level <= V + 1
  <1>1. level \in Nat /\ V \in Nat
    BY GraphAssumption DEF GraphAssumption, FewInv, BfsInv
  <1> DEFINE n == level - 2
             witness == [l \in 0 .. n |-> CHOOSE v \in Vertex : depth[v] = l]
  <1>2. \A l \in 0 .. n : witness[l] \in Vertex /\ depth[witness[l]] = l
    BY DEF FewInv, Used, Holds
  <1>3. witness \in Injection(0 .. n, Vertex)
    BY <1>2, Zenon DEF Injection, IsInjective
  <1>4. IsFiniteSet(Vertex) /\ Cardinality(Vertex) = V
    BY <1>1, FS_Interval DEF Vertex
  <1>5. Cardinality(0 .. n) <= V
    BY <1>3, <1>4, FS_Injection
  <1>6. Cardinality(0 .. n) = IF 0 > n THEN 0 ELSE n - 0 + 1
    BY <1>1, FS_Interval
  <1> QED
    BY <1>1, <1>5, <1>6

\* Only its own turn makes the analysis, or the monitor, have had its turn.
LEMMA OwnTurn ==
    ASSUME IInv, [Next]_vars, ~Tick, NEW u \in {Analysis, Monitor},
           u = Analysis => ~inspectDepthAnalysis, u = Monitor => ~statusMonitor
    PROVE  Ran(u)' = Ran(u)
  <1>1. busy \in [Thread -> Nat] /\ u \in Thread
    BY Threads DEF IInv, TypeOK
  <1>2. ASSUME NEW t, t # u, NEW n, Turn(t, n) PROVE Ran(u)' = Ran(u)
    BY <1>1, <1>2 DEF Turn, Ran
  <1>3. /\ \A i : <<"issue", i>> # u /\ <<"resp", i>> # u
        /\ SendReq # u /\ GetResp # u /\ Monitor # Analysis
    BY DEF SendReq, GetResp, Monitor, Analysis
  <1>4. ASSUME NEW i, Receive(i) PROVE Ran(u)' = Ran(u)
    BY <1>2, <1>3, <1>4 DEF Receive
  <1>5. CASE \E p \in Part : inspectDepthReqThread(p) \/ inspectDepthRespThread(p)
    BY <1>2, <1>3, <1>4, <1>5 DEF inspectDepthReqThread, inspectDepthRespThread
  <1>6. CASE processExpandRpaoReadResp \/ processExpandCiaoReadResp \/ processExpandDepthReadResp
    BY <1>4, <1>6 DEF processExpandRpaoReadResp, processExpandCiaoReadResp,
      processExpandDepthReadResp
  <1>7. CASE frontierAnalysis \/ issueExpandCiaoReadReq \/ issueExpandDepthReadReq
               \/ expandDepthAnalysis \/ processExpandDepthWriteResp
    BY <1>2, <1>3, <1>7 DEF frontierAnalysis, issueExpandCiaoReadReq, issueExpandDepthReadReq,
      expandDepthAnalysis, processExpandDepthWriteResp
  <1>8. CASE sendMemReq \/ \E R \in SUBSET Port : getMemResp(R)
    BY <1>2, <1>3, <1>8 DEF sendMemReq, getMemResp
  <1>9. CASE inspectDepthAnalysis \/ statusMonitor
    BY <1>2, <1>3, <1>9 DEF inspectDepthAnalysis, statusMonitor
  <1>10. CASE UNCHANGED vars
    BY <1>10 DEF vars, Ran
  <1> QED
    BY <1>5, <1>6, <1>7, <1>8, <1>9, <1>10 DEF Next

\* A label is not taken back.
LEMMA HoldsOn ==
    ASSUME BfsInv, NoWrap, [Next]_vars, NEW l \in Nat, Holds(l) PROVE Holds(l)'
  <1>1. Moves /\ Label = level + 1 /\ level \in Nat
    BY NextLevel, DepthMoves DEF BfsInv, SearchInv
  <1> PICK v \in Vertex : depth[v] = l
    BY DEF Holds
  <1>2. depth'[v] = l
    BY <1>1 DEF Moves
  <1> QED
    BY <1>2 DEF Holds

\* What the analysis counts it found, and it stops watching only with a result.
LEMMA AnalysisHeard ==
    ASSUME BfsInv, Heard, inspectDepthAnalysis, Inspected' PROVE Heard'
  <1>1. IInv /\ Phases /\ SearchInv /\ level \in Nat /\ Hits(AtLevel)
    BY LevelHits DEF BfsInv, SearchInv, FlowInv, ScanInv
  <1>2. UNCHANGED <<localCounter, level, depth>>
    BY DEF inspectDepthAnalysis, control, memory
  <1> DEFINE from == IF bfsIterationStart THEN [p \in Part |-> PartBase(p)] ELSE idx
             size == IF bfsIterationStart THEN 0 ELSE frontierSize
             watch == armed \/ bfsIterationStart
             found(list) == [k \in DOMAIN list |-> from[list[k]]]
  <1> PICK list \in HitLists, allAnalyzed \in BOOLEAN :
         /\ frontierSize' = size + Len(found(list))
         /\ armed' = (watch /\ ~allAnalyzed)
         /\ bfsDone' = (bfsDone \/ (watch /\ allAnalyzed /\ size + Len(found(list)) = 0))
    <2> PICK list \in HitLists :
          LET to == [p \in Part |-> IF p \in Analysed THEN from[p] + 1 ELSE from[p]]
              allAnalyzed == \A p \in Part : to[p] = PartBase(p) + PartLen(p)
          IN  /\ frontierSize' = size + Len(found(list))
              /\ armed' = (watch /\ ~allAnalyzed)
              /\ bfsDone' = (bfsDone \/ (watch /\ allAnalyzed /\ size + Len(found(list)) = 0))
      BY DEF inspectDepthAnalysis
    <2> QED OBVIOUS
  <1> PICK n \in 0 .. PRNUM : list \in [1 .. n -> Part]
    BY DEF HitLists
  <1>3. n \in Nat /\ frontierSize \in Nat
    BY <1>1, SizeAssumption DEF SizeAssumption, IInv, TypeOK
  <1>4. Len(found(list)) = n
    BY <1>3
  <1>5. frontierSize' = size + n
    BY <1>4
  <1>6. watch => armed' \/ bfsDone' \/ frontierSize' # 0
    <2>1. frontierSize' = size + Len(found(list))
      OBVIOUS
    <2> HIDE DEF found, size, watch
    <2>2. CASE allAnalyzed
      BY <2>1, <2>2, Zenon
    <2>3. CASE ~allAnalyzed
      BY <2>3, Zenon
    <2> QED BY <2>2, <2>3
  <1>7. bfsDone => bfsDone'
    <2> HIDE DEF found, size, watch
    <2> QED BY Zenon
  <1> HIDE DEF found, from, watch
  <1>8. n > 0 => ~bfsIterationStart /\ Holds(level)
    <2> SUFFICES ASSUME n > 0 PROVE ~bfsIterationStart /\ Holds(level)
      OBVIOUS
    <2>1. list[1] \in {list[k] : k \in DOMAIN list}
      BY <1>3
    <2>2. list[1] \in Analysed /\ Head(depthBuffer0[list[1]]) = level
      BY <2>1 DEF HitLists
    <2>3. ~bfsIterationStart /\ idx[list[1]] \in AtLevel
      BY <1>1, <2>2 DEF Hits
    <2> QED BY <2>3 DEF AtLevel, Holds
  <1>9. CASE bfsIterationStart
    <2>1. n = 0
      BY <1>3, <1>8, <1>9
    <2>2. frontierSize' = 0
      BY <1>9, <1>5, <2>1
    <2>3. armed' \/ bfsDone'
      BY <1>9, <1>6, <2>2 DEF watch
    <2> QED BY <2>2, <2>3 DEF Heard
  <1>10. CASE ~bfsIterationStart
    <2>1. Inspected
      <3>1. localCounter \in Nat /\ StartCount \in Nat /\ localCounter # StartCount
        BY <1>1, <1>10, SizeAssumption DEF SizeAssumption, IInv, TypeOK, Phases, Watching
      <3> QED BY <1>2, <3>1 DEF Inspected
    <2>2. frontierSize' = frontierSize + n
      BY <1>10, <1>5
    <2>3. frontierSize' > 0 => Holds(level)
      BY <1>3, <1>8, <2>1, <2>2 DEF Heard
    <2>4. armed' \/ bfsDone' \/ frontierSize' > 0
      <3>1. CASE armed
        <4>1. armed' \/ bfsDone' \/ frontierSize' # 0
          BY <1>6, <3>1 DEF watch
        <4>2. frontierSize' # 0 => frontierSize' > 0
          BY <1>3, <2>2
        <4> QED BY <4>1, <4>2
      <3>2. CASE bfsDone
        BY <1>7, <3>2
      <3>3. CASE frontierSize > 0
        BY <1>3, <2>2, <3>3
      <3> QED BY <2>1, <3>1, <3>2, <3>3 DEF Heard
    <2>5. Holds(level)' <=> Holds(level)
      BY <1>2 DEF Holds
    <2> QED BY <2>3, <2>4, <2>5 DEF Heard
  <1> QED
    BY <1>9, <1>10

\* What was heard stays so: a new level forgets it, every other step keeps it.
LEMMA HeardStep == ASSUME BfsInv, NoWrap, Heard, [Next]_vars PROVE Heard'
  <1>1. IInv /\ Phases /\ level \in Nat
    BY DEF BfsInv, SearchInv, FlowInv, ScanInv
  <1>2. localCounter \in Nat /\ StartCount \in Nat
    BY <1>1, SizeAssumption DEF SizeAssumption, IInv, TypeOK
  <1> SUFFICES ASSUME Inspected' PROVE Heard'
    BY DEF Heard
  <1>3. CASE inspectDepthAnalysis
    BY <1>3, AnalysisHeard
  <1>4. CASE ~inspectDepthAnalysis
    <2>1. UNCHANGED <<frontierSize, armed, bfsDone>>
      BY <1>4, AnalysisKept
    <2>2. level' = level
      <3>1. SUFFICES ASSUME level' # level PROVE FALSE
        OBVIOUS
      <3>2. Tick /\ isEndOfBfsIteration
        BY <3>1, LevelKept
      <3>3. localCounter' = 0
        BY <3>1, <3>2 DEF Tick, bfsController
      <3>4. 0 < StartCount
        BY SizeAssumption DEF SizeAssumption
      <3> QED BY <1>2, <3>3, <3>4 DEF Inspected
    <2>3. Inspected
      <3>1. CASE Tick
        <4>1. Ran(Analysis)
          <5>1. busy[Analysis] > 0
            BY <3>1, Threads DEF Tick
          <5> QED BY <5>1 DEF Ran
        <4>2. localCounter' <= localCounter + 1
          BY <1>2, <3>1 DEF Tick, bfsController
        <4>3. ~Ran(Analysis)'
          <5>1. busy[Analysis] \in {0, 1} /\ busy'[Analysis] = busy[Analysis] - 1
            BY <3>1, Threads DEF Tick, SingleCycle, TurnsOnce, BfsInv, SearchInv, FlowInv, ScanInv
          <5> QED BY <4>1, <5>1 DEF Ran
        <4>4. localCounter' > StartCount
          BY <4>3 DEF Inspected
        <4>5. localCounter' \in Nat
          BY <1>2, <3>1, SizeAssumption DEF SizeAssumption, Tick, bfsController
        <4> QED BY <1>2, <4>1, <4>2, <4>4, <4>5 DEF Inspected
      <3>2. CASE ~Tick
        <4>1. Ran(Analysis)' = Ran(Analysis)
          BY <1>1, <1>4, <3>2, OwnTurn DEF Analysis, Monitor
        <4> QED BY <1>1, <3>2, <4>1, Frames DEF Inspected
      <3> QED BY <3>1, <3>2
    <2>4. Holds(level) => Holds(level)'
      <3> PICK l \in Nat : l = level
        BY <1>1
      <3>1. Holds(l) => Holds(l)'
        BY HoldsOn
      <3> QED BY <2>2, <3>1 DEF Holds
    <2> QED BY <2>1, <2>3, <2>4 DEF Heard
  <1> QED
    BY <1>3, <1>4

\* A level that ends without the end of the search had a vertex.
LEMMA UsedStep ==
    ASSUME RoomToScan, FewInv, NoWrap, [Next]_vars PROVE Used'
  <1>1. IInv /\ Phases /\ TurnsOnce /\ level \in Nat /\ ScanInv /\ BfsInv
    BY DEF FewInv, BfsInv, SearchInv, FlowInv, ScanInv
  <1>2. level' \in {level, level + 1}
    BY <1>1, ReachedGrows
  <1>3. \A l \in Nat : Holds(l) => Holds(l)'
    BY <1>1, HoldsOn
  <1>4. /\ \A l \in 0 .. level - 2 : Holds(l)
        /\ ~bfsDone \/ (~stopped /\ Ran(Monitor)) => level = 0 \/ Holds(level - 1)
    BY DEF FewInv, Used
  <1>5. CASE LevelChanges
    <2>1. Tick /\ isEndOfBfsIteration
      BY <1>5, LevelKept DEF LevelChanges
    <2>2. Ran(Monitor) /\ Ran(Analysis) /\ ~Ran(Monitor)'
      <3>1. busy[Monitor] > 0 /\ busy[Analysis] > 0 /\ busy'[Monitor] = busy[Monitor] - 1
        BY <2>1, Threads DEF Tick
      <3>2. busy[Monitor] \in {0, 1}
        BY <1>1 DEF TurnsOnce, SingleCycle
      <3> QED BY <3>1, <3>2 DEF Ran
    <2>3. ~stopped /\ bfsDone' = bfsDone
      BY <2>1 DEF Tick, inspection
    <2>4. level = 0 \/ Holds(level - 1)
      BY <1>4, <2>2, <2>3, Zenon
    <2>5. ASSUME NEW l \in 0 .. level - 1 PROVE Holds(l)'
      <3>1. l \in Nat
        OBVIOUS
      <3>2. CASE l = level - 1
        BY <1>1, <1>3, <2>4, <3>1, <3>2
      <3>3. CASE l # level - 1
        <4>1. l \in 0 .. level - 2
          BY <1>1, <3>3
        <4> QED BY <1>3, <1>4, <3>1, <4>1
      <3> QED BY <3>2, <3>3
    <2>6. level' = level + 1
      BY <1>2, <1>5 DEF LevelChanges
    <2>7. level' - 2 = level - 1 /\ level' - 1 = level
      BY <1>1, <2>6
    <2>8. ~bfsDone => Holds(level)
      <3>1. AllAnalyzed /\ localCounter > StartCount
        <4>1. AllAnalyzed
          BY <1>1, <1>5, ScanStep DEF LevelChanges
        <4>2. localCounter \in Nat /\ StartCount \in Nat /\ EndCount \in Nat
          BY <1>1, SizeAssumption DEF SizeAssumption, IInv, TypeOK
        <4>3. (IF localCounter < EndCount THEN localCounter + 1 ELSE localCounter) = EndCount
          BY <1>5, <2>1 DEF Tick, bfsController, LevelChanges
        <4> QED BY <4>1, <4>2, <4>3 DEF RoomToScan
      <3>2. ~armed /\ Inspected
        BY <1>1, <3>1 DEF Phases, Watching, Inspected
      <3> QED BY <3>2 DEF FewInv, Heard
    <2>9. ~bfsDone' \/ (~stopped' /\ Ran(Monitor)') => Holds(level)
      BY <2>2, <2>3, <2>8
    <2>10. ASSUME Holds(level) PROVE \E v \in Vertex : depth'[v] = level
      <3> PICK l \in Nat : l = level
        BY <1>1
      <3>1. Holds(l)'
        BY <1>3, <2>10
      <3> QED BY <3>1 DEF Holds
    <2> QED BY <2>5, <2>9, <2>7, <2>10 DEF Used, Holds
  <1>6. CASE level' = level
    <2>1. \A l \in 0 .. level - 2 : Holds(l)'
      BY <1>3, <1>4
    <2>2. ~bfsDone' \/ (~stopped' /\ Ran(Monitor)') => ~bfsDone \/ (~stopped /\ Ran(Monitor))
      <3> SUFFICES ASSUME bfsDone, ~bfsDone' \/ (~stopped' /\ Ran(Monitor)')
                   PROVE  ~stopped /\ Ran(Monitor)
        OBVIOUS
      <3>1. bfsDone'
        BY <1>1, AnalysisKept, AnalysisTurn
      <3>2. ~Tick
        <4>1. SUFFICES ASSUME Tick PROVE FALSE
          OBVIOUS
        <4>2. busy[Monitor] > 0 /\ busy'[Monitor] = busy[Monitor] - 1
          BY <4>1, Threads DEF Tick
        <4>3. busy[Monitor] \in {0, 1}
          BY <1>1 DEF TurnsOnce, SingleCycle
        <4> QED BY <3>1, <4>2, <4>3 DEF Ran
      <3>3. ~statusMonitor
        BY <3>1 DEF statusMonitor
      <3>4. Ran(Monitor)' = Ran(Monitor)
        BY <1>1, <3>2, <3>3, OwnTurn DEF Monitor, Analysis
      <3> QED BY <3>1, <3>3, <3>4, StopKept
    <2>3. ~bfsDone' \/ (~stopped' /\ Ran(Monitor)') => level = 0 \/ Holds(level - 1)
      BY <1>4, <2>2, Zenon
    <2>4. ASSUME level # 0, Holds(level - 1) PROVE \E v \in Vertex : depth'[v] = level - 1
      <3> PICK l \in Nat : l = level - 1
        BY <1>1, <2>4
      <3>1. Holds(l)'
        BY <1>3, <2>4
      <3> QED BY <3>1 DEF Holds
    <2> QED BY <1>6, <2>1, <2>3, <2>4 DEF Used, Holds
  <1> QED
    BY <1>2, <1>5, <1>6 DEF LevelChanges

LEMMA FewInit == ASSUME Init PROVE FewInv
  <1>1. BfsInv /\ level = 0 /\ bfsDone = FALSE
    BY BfsInit DEF Init
  <1>2. ~Inspected
    <2>1. localCounter = 1 /\ 1 < StartCount /\ StartCount \in Nat
      BY SizeAssumption DEF SizeAssumption, Init
    <2> QED BY <2>1 DEF Inspected
  <1>3. Heard
    BY <1>2 DEF Heard
  <1>4. Used
    BY <1>1 DEF Used
  <1> QED
    BY <1>1, <1>3, <1>4 DEF FewInv

LEMMA FewNoWrap == ASSUME V + 2 < CharHalf, FewInv PROVE NoWrap
  <1>1. level \in Nat /\ V \in Nat /\ CharHalf \in Nat
    BY GraphAssumption, SizeAssumption DEF GraphAssumption, SizeAssumption, FewInv, BfsInv
  <1> QED
    BY <1>1, FewLevels DEF NoWrap

LEMMA FewStep ==
    ASSUME RoomToScan, V + 2 < CharHalf, FewInv, [Next]_vars PROVE FewInv'
  <1>1. BfsInv /\ Heard /\ NoWrap
    BY FewNoWrap DEF FewInv
  <1> QED
    BY <1>1, BfsStep, HeardStep, UsedStep DEF FewInv

\* The level does not wrap on a graph with fewer vertices than labels: there is
\* no level without a vertex, except two at the end, while statusMonitor has not
\* seen that the search is over (pe.cpp:631-646).
THEOREM LevelsAreFew ==
    ASSUME RoomToScan, V + 2 < CharHalf PROVE Spec => []NoWrap
  <1>1. Init => FewInv
    BY FewInit
  <1>2. FewInv /\ [Next]_vars => FewInv'
    BY FewStep
  <1>3. FewInv => NoWrap
    BY FewNoWrap
  <1> QED
    BY <1>1, <1>2, <1>3, PTL DEF Spec

\* On such a graph the depths dumped at the end are those of a breadth-first
\* search, unless a level ended in the window.
THEOREM SmallGraphsExact ==
    ASSUME RoomToScan, RoomToExpand, V + 2 < CharHalf PROVE MCSpec => []ExactUnlessWindow
  <1>1. MCInit => Init
    BY DEF MCInit
  <1>2. [MCNext]_<<vars, clean>> => [Next]_vars
    BY DEF MCNext
  <1>3. MCSpec => Spec
    BY <1>1, <1>2, PTL DEF MCSpec, Spec
  <1> QED
    BY <1>3, LevelsAreFew, ExactOutsideWindow, PTL

\* On such a graph every step is one that a breadth-first search may take.
THEOREM SmallGraphsRefined ==
    ASSUME RoomToScan, V + 2 < CharHalf PROVE Spec => LabelsOnceAlongEdges
  BY LevelsAreFew, SearchRefined, PTL

\* On such a graph every level is complete when it ends outside the window.
THEOREM SmallGraphsComplete ==
    ASSUME RoomToScan, RoomToExpand, V + 2 < CharHalf PROVE Spec => LevelComplete
  <1>1. FewInv => Marks
    <2> SUFFICES ASSUME FewInv PROVE Marks
      OBVIOUS
    <2>1. level \in Nat /\ Label = level + 1
      BY FewNoWrap, NextLevel DEF FewInv, BfsInv
    <2> QED BY <2>1 DEF Marks
  <1>2. Init => FewInv
    BY FewInit
  <1>3. FewInv /\ [Next]_vars => FewInv'
    BY FewStep
  <1>4. Spec => []Marks
    BY <1>1, <1>2, <1>3, PTL DEF Spec
  <1> QED
    BY <1>4, LevelsAreComplete, PTL

\* On such a graph, unless a level ended in the window, the depths are the ones that
\* every software search dumps (SoftwareBfs_proofs!SoftwareExact): only one array
\* holds the distances.
THEOREM SmallGraphsAgree ==
    ASSUME RoomToScan, RoomToExpand, V + 2 < CharHalf,
           NEW d \in [Vertex -> Int], Bfs!ExactLabels(d)
    PROVE  MCSpec => [](clean /\ stopped => depth = d)
  <1>1. MCInit => Init
    BY DEF MCInit
  <1>2. [MCNext]_<<vars, clean>> => [Next]_vars
    BY DEF MCNext
  <1>3. MCSpec => Spec
    BY <1>1, <1>2, PTL DEF MCSpec, Spec
  <1>4. Init => FewInv
    BY FewInit
  <1>5. FewInv /\ [Next]_vars => FewInv'
    BY FewStep
  <1>6. FewInv /\ ExactUnlessWindow => (clean /\ stopped => depth = d)
    <2> SUFFICES ASSUME FewInv, ExactUnlessWindow, clean, stopped PROVE depth = d
      OBVIOUS
    <2>1. depth \in [Vertex -> Int]
      BY DEF FewInv, BfsInv, SearchInv, FlowInv, ScanInv, IInv, TypeOK
    <2>2. Bfs!ExactLabels(depth)
      BY DEF ExactUnlessWindow, DoneMeansExact
    <2>3. \A c : Bfs!ExactLabels(c) => Search!ExactLabels(c)
      BY Zenon DEF Search!ExactLabels, Search!SoundLabels, Search!HasParent,
        Search!HasTightParent, Search!Unvisited,
        Bfs!ExactLabels, Bfs!SoundLabels, Bfs!HasParent, Bfs!HasTightParent, Bfs!Unvisited
    <2> QED BY <2>1, <2>2, <2>3, SearchGraph, Search!DistancesAgree
  <1> QED
    BY <1>3, <1>4, <1>5, <1>6, SmallGraphsExact, PTL DEF Spec
=============================================================================
