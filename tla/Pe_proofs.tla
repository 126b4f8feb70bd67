------------------------------ MODULE Pe_proofs ------------------------------
(* Proofs about the processing element, for every graph, buffer size, number *)
(* of partitions and order of the threads, in three parts: the types and the *)
(* status map, the inspection of a level, and what flows from the frontier   *)
(* to the depth array.                                                       *)
EXTENDS PeInv, SequenceTheorems, TLAPS

\* The ports are distinct, and the partitions are the ports before them.
LEMMA Ports ==
    /\ Part \subseteq Port
    /\ {RpaoPort, CiaoPort, DepthPort, WritePort} \subseteq Port \ Part
    /\ RpaoPort # CiaoPort /\ RpaoPort # DepthPort /\ RpaoPort # WritePort
    /\ CiaoPort # DepthPort /\ CiaoPort # WritePort /\ DepthPort # WritePort
  BY SizeAssumption DEF SizeAssumption, Part, Port, RpaoPort, CiaoPort, DepthPort, WritePort

\* Every partition has a place and a length.
LEMMA Parts == \A p \in Part : PartBase(p) \in Nat /\ PartLen(p) \in Int
  <1>1. V \in Nat /\ PRNUM \in Nat /\ PRNUM > 0
    BY GraphAssumption, SizeAssumption DEF GraphAssumption, SizeAssumption
  <1>2. V \div PRNUM \in Nat
    BY <1>1
  <1> QED
    BY <1>1, <1>2 DEF Part, PartBase, PartLen

\* The partitions are consecutive parts of the array.
LEMMA PartFits ==
    ASSUME NEW p \in Part
    PROVE  PartBase(p) \in Nat /\ PartLen(p) \in Nat
  <1> DEFINE q == V \div PRNUM
  <1>1. V \in Nat /\ PRNUM \in Nat /\ PRNUM > 0 /\ p \in Nat /\ p <= PRNUM - 1
    BY GraphAssumption, SizeAssumption DEF GraphAssumption, SizeAssumption, Part
  <1>2. q \in Nat /\ PRNUM * q <= V
    BY <1>1
  <1>3. (PRNUM - 1) * q <= V
    BY <1>1, <1>2
  <1>4. p * q \in Nat
    BY <1>1, <1>2
  <1> QED
    BY <1>1, <1>2, <1>3, <1>4 DEF PartBase, PartLen

\* A char keeps its width.
LEMMA CharWidth == \A n \in Int : Char(n) \in CharValue
  <1> SUFFICES ASSUME NEW n \in Int PROVE Char(n) \in CharValue
    OBVIOUS
  <1> DEFINE m == 2 * CharHalf
  <1>1. m \in Nat /\ m > 0 /\ n + CharHalf \in Int /\ CharHalf \in Nat
    BY SizeAssumption DEF SizeAssumption
  <1>2. (n + CharHalf) % m \in 0 .. m - 1
    <2> HIDE DEF m
    <2> QED BY <1>1
  <1> QED
    BY <1>1, <1>2 DEF Char, CharValue

\* The threads, as far as Turn needs them.
LEMMA Threads ==
    /\ \A i \in Port : <<"issue", i>> \in Thread /\ <<"resp", i>> \in Thread
    /\ {Analysis, SendReq, GetResp, Monitor} \subseteq Thread
  BY DEF Thread

\* The cycles a thread waits are a natural number.
LEMMA TurnType ==
    ASSUME TypeOK, NEW t \in Thread, NEW n \in Nat, Turn(t, n)
    PROVE  busy' \in [Thread -> Nat]
  BY DEF TypeOK, Turn

\* What a burst is.
LEMMA Bursts ==
    /\ NoBurst \in Burst /\ <<>> \in Seq(Int)
    /\ \A at \in Int, len \in Nat : NewBurst(at, len) \in Burst
    /\ \A at \in Int, len \in Nat : len > 0 => NewBurst(at, len) # NoBurst
  BY DEF NoBurst, NewBurst, Burst

-----------------------------------------------------------------------------
(* What the issuing threads have in common *)

\* An issuing thread publishes the burst it was building and builds the next
\* one, b.  The last two hypotheses are what the depth and write ports promise.
LEMMA IssueStep ==
    ASSUME IInv, NEW i \in Port, NEW data \in Seq(Int), NEW b \in Burst,
           Publish(i, data),
           creating' = [creating EXCEPT ![i] = b],
           UNCHANGED <<mem, burstRespQueue, serving>>,
           i = DepthPort => b = NoBurst \/ b.len = 1,
           i = WritePort /\ creating[i] # NoBurst => Len(data) = 1
    PROVE  /\ creating' \in [Port -> Burst]
           /\ burstReqQueue' \in [Port -> Seq(Burst)]
           /\ burstOpStatus' \in [Port -> Nat]
           /\ StatusExact' /\ ServingHead' /\ SingleElement'
           /\ burstOpStatus'[i] = burstOpStatus[i] + (IF creating[i] = NoBurst THEN 0 ELSE 1)
           /\ \A j \in Port \ {i} : burstOpStatus'[j] = burstOpStatus[j]
  <1> DEFINE done == [creating[i] EXCEPT !.data = data]
             q == burstReqQueue[i]
  <1>1. /\ burstReqQueue \in [Port -> Seq(Burst)] /\ creating \in [Port -> Burst]
        /\ mem \in [Port -> Seq(Burst)] /\ burstRespQueue \in [Port -> Seq(Burst)]
        /\ burstOpStatus \in [Port -> Nat]
        /\ StatusExact /\ ServingHead /\ SingleElement
    BY DEF IInv, TypeOK
  <1>2. done \in Burst /\ done.len = creating[i].len /\ done.data = data
    BY <1>1 DEF Burst
  <1>3. creating[i] = NoBurst => UNCHANGED <<burstReqQueue, burstOpStatus>>
    BY DEF Publish
  <1>4. creating[i] # NoBurst =>
             /\ burstReqQueue' = [burstReqQueue EXCEPT ![i] = Append(q, done)]
             /\ burstOpStatus' = [burstOpStatus EXCEPT ![i] = burstOpStatus[i] + 1]
    BY DEF Publish
  <1> HIDE DEF done
  <1>5. /\ q \in Seq(Burst)
        /\ Append(q, done) \in Seq(Burst)
        /\ Len(Append(q, done)) = Len(q) + 1
        /\ \A k \in 1 .. Len(q) + 1 : Append(q, done)[k] = IF k <= Len(q) THEN q[k] ELSE done
    BY <1>1, <1>2
  <1>6. creating' \in [Port -> Burst]
    BY <1>1
  <1>7. ServingHead'
    BY <1>1 DEF ServingHead
  <1>8. creating'[DepthPort] # NoBurst => creating'[DepthPort].len = 1
    BY <1>1, Ports DEF SingleElement
  <1>9. CASE creating[i] = NoBurst
    BY <1>1, <1>3, <1>6, <1>7, <1>8, <1>9 DEF StatusExact, SingleElement
  <1>10. CASE creating[i] # NoBurst
    <2> HIDE DEF q
    <2>1. burstReqQueue'[i] = Append(q, done) /\ burstOpStatus'[i] = burstOpStatus[i] + 1
      BY <1>1, <1>4, <1>10
    <2>2. \A j \in Port \ {i} : burstReqQueue'[j] = burstReqQueue[j] /\ burstOpStatus'[j] = burstOpStatus[j]
      BY <1>1, <1>4, <1>10
    <2>3. burstReqQueue' \in [Port -> Seq(Burst)]
      BY <1>1, <1>4, <1>5, <1>10
    <2>9. burstOpStatus' \in [Port -> Nat]
      <3>1. burstOpStatus \in [Port -> Nat] /\ burstOpStatus[i] + 1 \in Nat
        BY <1>1
      <3> QED BY <3>1, <1>4, <1>10
    <2>4. Len(burstReqQueue'[i]) = Len(burstReqQueue[i]) + 1
      BY <2>1, <1>5 DEF q
    <2>5. StatusExact'
      <3> SUFFICES ASSUME NEW j \in Port
                   PROVE burstOpStatus'[j] = Len(burstReqQueue'[j]) + Len(mem[j]) + Len(burstRespQueue[j])
        BY DEF StatusExact
      <3>1. burstOpStatus[j] = Len(burstReqQueue[j]) + Len(mem[j]) + Len(burstRespQueue[j])
        BY <1>1 DEF StatusExact
      <3>2. CASE j = i
        BY <3>1, <3>2, <1>1, <2>1, <2>3, <2>4, <2>9
      <3>3. CASE j # i
        BY <3>1, <3>3, <2>2
      <3> QED BY <3>2, <3>3
    <2>6. ASSUME NEW k \in 1 .. Len(burstReqQueue'[DepthPort])
          PROVE  burstReqQueue'[DepthPort][k].len = 1
      <3>1. CASE i = DepthPort
        <4>1. /\ done.len = 1
              /\ \A m \in 1 .. Len(q) : q[m].len = 1
          BY <3>1, <1>1, <1>2, <1>10 DEF SingleElement, q
        <4>2. Len(q) \in Nat /\ k \in 1 .. Len(q) + 1 /\ burstReqQueue'[DepthPort] = Append(q, done)
          BY <3>1, <1>5, <2>1, <2>6
        <4> QED BY <4>1, <4>2, <1>5
      <3>2. CASE i # DepthPort
        <4>1. burstReqQueue'[DepthPort] = burstReqQueue[DepthPort]
          BY <3>2, <2>2, Ports
        <4> QED BY <4>1, <1>1, <2>6 DEF SingleElement
      <3> QED BY <3>1, <3>2
    <2>7. ASSUME NEW k \in 1 .. Len(burstReqQueue'[WritePort])
          PROVE  Len(burstReqQueue'[WritePort][k].data) = 1
      <3>1. CASE i = WritePort
        <4>1. /\ Len(done.data) = 1
              /\ \A m \in 1 .. Len(q) : Len(q[m].data) = 1
          BY <3>1, <1>1, <1>2, <1>10 DEF SingleElement, q
        <4> QED BY <3>1, <4>1, <1>5, <2>1, <2>7
      <3>2. CASE i # WritePort
        <4>1. burstReqQueue'[WritePort] = burstReqQueue[WritePort]
          BY <3>2, <2>2, Ports
        <4> QED BY <4>1, <1>1, <2>7 DEF SingleElement
      <3> QED BY <3>1, <3>2
    <2>8. SingleElement'
      BY <2>6, <2>7, <1>1, <1>8 DEF SingleElement
    <2> QED
      BY <1>1, <1>6, <1>7, <1>10, <2>1, <2>2, <2>3, <2>5, <2>8, <2>9
  <1> QED
    BY <1>9, <1>10
-----------------------------------------------------------------------------
(* What the response threads of the read ports have in common *)

\* A response thread consumes the burst it was waiting for, with its entry of
\* burstOpStatus, and delivers its data.
LEMMA ReceiveStep ==
    ASSUME IInv, NEW i \in Port, i # WritePort, Receive(i)
    PROVE  /\ busy' \in [Thread -> Nat]
           /\ serving' \in [Port -> BOOLEAN]
           /\ burstRespQueue' \in [Port -> Seq(Burst)]
           /\ burstOpStatus' \in [Port -> Nat]
           /\ Received(i) \in Seq(Int)
           /\ StatusExact' /\ ServingHead' /\ SingleElement'
           /\ \A j \in Port \ {i} : burstOpStatus'[j] = burstOpStatus[j]
           /\ IF serving[i]
              THEN burstOpStatus'[i] = burstOpStatus[i] - 1
                   /\ (i = DepthPort => Len(Received(i)) = 1)
              ELSE burstOpStatus'[i] = burstOpStatus[i] /\ Received(i) = <<>>
  <1> DEFINE old == burstRespQueue[i]
             rest == IF serving[i] THEN Tail(old) ELSE old
             n == IF rest = <<>> THEN 1 ELSE Head(rest).len
  <1>1. /\ burstReqQueue \in [Port -> Seq(Burst)]
        /\ mem \in [Port -> Seq(Burst)] /\ burstRespQueue \in [Port -> Seq(Burst)]
        /\ burstOpStatus \in [Port -> Nat] /\ serving \in [Port -> BOOLEAN]
        /\ StatusExact /\ ServingHead /\ SingleElement
    BY DEF IInv, TypeOK
  <1>2. /\ Turn(<<"resp", i>>, n)
        /\ serving' = [serving EXCEPT ![i] = rest # <<>>]
        /\ burstRespQueue' = [burstRespQueue EXCEPT ![i] = rest]
        /\ burstOpStatus' = [burstOpStatus EXCEPT ![i] = IF serving[i] THEN @ - 1 ELSE @]
        /\ UNCHANGED <<creating, burstReqQueue, mem>>
    BY DEF Receive, issuing, memory
  <1>3. old \in Seq(Burst) /\ (serving[i] => old # <<>>)
    BY <1>1 DEF ServingHead
  <1>4. /\ rest \in Seq(Burst)
        /\ serving[i] => Len(rest) = Len(old) - 1
        /\ \A k \in 1 .. Len(rest) : rest[k] = IF serving[i] THEN old[k + 1] ELSE old[k]
    <2>1. CASE serving[i]
      BY <2>1, <1>3
    <2>2. CASE ~serving[i]
      BY <2>2, <1>3
    <2> QED BY <2>1, <2>2
  <1>5. n \in Nat
    <2>1. rest # <<>> => Head(rest) \in Burst
      BY <1>4
    <2> QED BY <2>1 DEF Burst
  <1>6. busy' \in [Thread -> Nat]
    BY <1>2, <1>5, Threads, TurnType DEF IInv
  <1>7. /\ Received(i) \in Seq(Int)
        /\ serving[i] /\ i = DepthPort => Len(Received(i)) = 1
        /\ ~serving[i] => Received(i) = <<>>
    <2>1. CASE serving[i]
      <3>1. Head(old) \in Burst /\ Head(old) = old[1] /\ 1 \in 1 .. Len(old)
        BY <2>1, <1>3
      <3>2. Received(i) = Head(old).data
        BY <2>1 DEF Received
      <3>3. i = DepthPort => Len(old[1].data) = 1
        BY <3>1, <1>1 DEF SingleElement
      <3> QED BY <2>1, <3>1, <3>2, <3>3 DEF Burst
    <2>2. CASE ~serving[i]
      BY <2>2 DEF Received
    <2> QED BY <2>1, <2>2
  <1> HIDE DEF n, rest
  <1>8. /\ burstRespQueue' \in [Port -> Seq(Burst)]
        /\ burstRespQueue'[i] = rest
        /\ \A j \in Port \ {i} : burstRespQueue'[j] = burstRespQueue[j]
    BY <1>1, <1>2, <1>4
  <1>9. serving' \in [Port -> BOOLEAN] /\ ServingHead'
    BY <1>1, <1>2, <1>8 DEF ServingHead
  <1>10. burstOpStatus[i] > 0 \/ ~serving[i]
    <2>1. serving[i] => Len(old) > 0
      BY <1>3
    <2> QED BY <2>1, <1>1 DEF StatusExact
  <1>11. /\ burstOpStatus' \in [Port -> Nat]
         /\ burstOpStatus'[i] = IF serving[i] THEN burstOpStatus[i] - 1 ELSE burstOpStatus[i]
         /\ \A j \in Port \ {i} : burstOpStatus'[j] = burstOpStatus[j]
    <2>1. CASE serving[i]
      BY <2>1, <1>1, <1>2, <1>10
    <2>2. CASE ~serving[i]
      BY <2>2, <1>1, <1>2
    <2> QED BY <2>1, <2>2
  <1>12. IF serving[i] THEN Len(burstRespQueue'[i]) = Len(burstRespQueue[i]) - 1
         ELSE burstRespQueue'[i] = burstRespQueue[i]
    BY <1>4, <1>8 DEF rest
  <1>13. StatusExact'
    <2> SUFFICES ASSUME NEW j \in Port
                 PROVE  burstOpStatus'[j] = Len(burstReqQueue[j]) + Len(mem[j]) + Len(burstRespQueue'[j])
      BY <1>2 DEF StatusExact
    <2>1. burstOpStatus[j] = Len(burstReqQueue[j]) + Len(mem[j]) + Len(burstRespQueue[j])
      BY <1>1 DEF StatusExact
    <2>2. CASE j = i /\ serving[i]
      <3>1. burstOpStatus'[j] = burstOpStatus[j] - 1
        BY <2>2, <1>11
      <3>2. Len(burstRespQueue'[j]) = Len(burstRespQueue[j]) - 1
        BY <2>2, <1>12
      <3> QED BY <2>1, <3>1, <3>2, <1>1, <1>8, <1>11
    <2>3. CASE j = i /\ ~serving[i]
      BY <2>1, <2>3, <1>1, <1>11, <1>12
    <2>4. CASE j # i
      BY <2>1, <2>4, <1>8, <1>11
    <2> QED BY <2>2, <2>3, <2>4
  <1>14. SingleElement'
    <2> SUFFICES ASSUME NEW k \in 1 .. Len(burstRespQueue'[DepthPort])
                 PROVE  Len(burstRespQueue'[DepthPort][k].data) = 1
      BY <1>1, <1>2 DEF SingleElement
    <2>1. \A m \in 1 .. Len(burstRespQueue[DepthPort]) : Len(burstRespQueue[DepthPort][m].data) = 1
      BY <1>1 DEF SingleElement
    <2>2. CASE i = DepthPort
      <3>1. k \in 1 .. Len(rest) /\ burstRespQueue'[DepthPort][k] = rest[k] /\ Len(old) \in Nat
        BY <2>2, <1>3, <1>8
      <3>2. CASE serving[i]
        BY <3>1, <3>2, <2>1, <2>2, <1>4, <1>3
      <3>3. CASE ~serving[i]
        BY <3>1, <3>3, <2>1, <2>2, <1>4 DEF rest
      <3> QED BY <3>2, <3>3
    <2>3. CASE i # DepthPort
      <3>1. burstRespQueue'[DepthPort] = burstRespQueue[DepthPort]
        BY <2>3, <1>8, Ports
      <3> QED BY <3>1, <2>1
    <2> QED BY <2>2, <2>3
  <1> QED
    BY <1>6, <1>7, <1>8, <1>9, <1>11, <1>12, <1>13, <1>14
-----------------------------------------------------------------------------
(* The issuing threads *)

\* An issuing thread of another port leaves the windows of the depth and write
\* ports alone.
LEMMA OtherPort ==
    ASSUME IInv, NEW i \in Port \ {DepthPort, WritePort}, NEW b \in Burst,
           Publish(i, <<>>),
           creating' = [creating EXCEPT ![i] = b],
           UNCHANGED <<mem, burstRespQueue, serving, vidxBuffer, depthBuffer1, depthBuffer2>>
    PROVE  WriteWindow' /\ VidxCount'
  <1>1. creating'[DepthPort] = creating[DepthPort] /\ creating'[WritePort] = creating[WritePort]
    BY Ports DEF IInv, TypeOK
  <1>2. burstOpStatus'[DepthPort] = burstOpStatus[DepthPort]
    BY Ports DEF IInv, TypeOK, Publish
  <1> QED
    BY <1>1, <1>2 DEF IInv, WriteWindow, VidxCount

\* issueInspectDepthReadReq: a chunk of a partition, cut at its end.
LEMMA inspectReqInv == ASSUME IInv, NEW p \in Part, inspectDepthReqThread(p) PROVE IInv'
  <1> DEFINE restart == /\ creating[p] = NoBurst
                        /\ currentLen[p] >= PartLen(p)
                        /\ bfsIterationStart
             len == IF restart THEN 0 ELSE currentLen[p] + creating[p].len
             chunk == Lesser(BaseLen, PartLen(p) - len)
             issues == len < PartLen(p) /\ Len(depthBuffer0[p]) + chunk <= DepthBufferDepth
             b == IF issues THEN NewBurst(PartBase(p) + len, chunk) ELSE NoBurst
  <1>1. p \in Port \ {DepthPort, WritePort} /\ <<"issue", p>> \in Thread
    BY Ports, Threads
  <1>2. len \in Nat
    <2>1. creating[p] \in Burst /\ currentLen[p] \in Nat
      BY <1>1 DEF IInv, TypeOK
    <2>2. creating[p].len \in Nat
      BY <2>1 DEF Burst
    <2> QED BY <2>1, <2>2
  <1>3. b \in Burst
    <2>1. CASE issues
      <3>1. PartLen(p) \in Int /\ PartBase(p) \in Nat /\ BaseLen \in Nat
        BY Parts, SizeAssumption DEF SizeAssumption
      <3>2. chunk \in Nat /\ PartBase(p) + len \in Int
        <4> HIDE DEF len
        <4> QED BY <1>2, <2>1, <3>1 DEF Lesser
      <3> HIDE DEF chunk, len
      <3> QED BY <2>1, <3>2, Bursts
    <2>2. CASE ~issues
      BY <2>2, Bursts
    <2> QED BY <2>1, <2>2
  <1>4. /\ Turn(<<"issue", p>>, 1)
        /\ Publish(p, <<>>)
        /\ currentLen' = [currentLen EXCEPT ![p] = len]
        /\ creating' = [creating EXCEPT ![p] = b]
        /\ UNCHANGED <<level, localCounter, bfsIterationStart, stopped, idx, frontierSize,
                       armed, bfsDone, edges, depthBuffer0, frontierBuffer, rpaoBuffer,
                       ciaoBuffer, vidxBuffer, depthBuffer1, depthBuffer2, burstRespQueue,
                       serving, mem, depth>>
    BY DEF inspectDepthReqThread, control, inspection, memory
  <1> HIDE DEF b, len
  <1>5. busy' \in [Thread -> Nat]
    BY <1>1, <1>4, TurnType DEF IInv
  <1>6. currentLen' \in [Part -> Nat]
    BY <1>2, <1>4 DEF IInv, TypeOK
  <1>7. /\ creating' \in [Port -> Burst] /\ burstReqQueue' \in [Port -> Seq(Burst)]
        /\ burstOpStatus' \in [Port -> Nat]
        /\ StatusExact' /\ ServingHead' /\ SingleElement'
    BY <1>1, <1>3, <1>4, Bursts, IssueStep
  <1>8. WriteWindow' /\ VidxCount'
    BY <1>1, <1>3, <1>4, OtherPort
  <1>9. TypeOK'
    BY <1>4, <1>5, <1>6, <1>7 DEF IInv, TypeOK
  <1> QED
    BY <1>7, <1>8, <1>9 DEF IInv

\* frontierAnalysis: the two offsets of a frontier vertex.
LEMMA frontierInv == ASSUME IInv, frontierAnalysis PROVE IInv'
  <1> DEFINE issues == frontierBuffer # <<>> /\ Len(rpaoBuffer) + 2 < RpaoBufferDepth
             b == IF issues THEN NewBurst(Head(frontierBuffer), 2) ELSE NoBurst
  <1>1. RpaoPort \in Port \ {DepthPort, WritePort} /\ <<"issue", RpaoPort>> \in Thread
    BY Ports, Threads
  <1>2. frontierBuffer # <<>> => Head(frontierBuffer) \in Int /\ Tail(frontierBuffer) \in Seq(Nat)
    BY DEF IInv, TypeOK
  <1>3. b \in Burst
    BY <1>2, Bursts
  <1>4. /\ Turn(<<"issue", RpaoPort>>, 1)
        /\ Publish(RpaoPort, <<>>)
        /\ frontierBuffer' = IF issues THEN Tail(frontierBuffer) ELSE frontierBuffer
        /\ creating' = [creating EXCEPT ![RpaoPort] = b]
        /\ UNCHANGED <<level, localCounter, bfsIterationStart, stopped, idx, frontierSize,
                       armed, bfsDone, currentLen, edges, depthBuffer0, rpaoBuffer,
                       ciaoBuffer, vidxBuffer, depthBuffer1, depthBuffer2, burstRespQueue,
                       serving, mem, depth>>
    BY DEF frontierAnalysis, control, inspection, memory
  <1> HIDE DEF b
  <1>5. busy' \in [Thread -> Nat]
    BY <1>1, <1>4, TurnType DEF IInv
  <1>6. frontierBuffer' \in Seq(Nat)
    BY <1>2, <1>4 DEF IInv, TypeOK
  <1>7. /\ creating' \in [Port -> Burst] /\ burstReqQueue' \in [Port -> Seq(Burst)]
        /\ burstOpStatus' \in [Port -> Nat]
        /\ StatusExact' /\ ServingHead' /\ SingleElement'
    BY <1>1, <1>3, <1>4, Bursts, IssueStep
  <1>8. WriteWindow' /\ VidxCount'
    BY <1>1, <1>3, <1>4, OtherPort
  <1>9. TypeOK'
    BY <1>4, <1>5, <1>6, <1>7 DEF IInv, TypeOK
  <1> QED
    BY <1>7, <1>8, <1>9 DEF IInv

\* What is left of a sequence when its first k elements are taken.
LEMMA Suffix ==
    ASSUME NEW s \in Seq(Int), NEW k \in 0 .. Len(s)
    PROVE  SubSeq(s, k + 1, Len(s)) \in Seq(Int) /\ Len(SubSeq(s, k + 1, Len(s))) = Len(s) - k
  OBVIOUS

\* issueExpandCiaoReadReq: pairs of offsets are taken, and a chunk requested.
LEMMA ciaoReqInv == ASSUME IInv, issueExpandCiaoReadReq PROVE IInv'
  <1> DEFINE next == edges.next + creating[CiaoPort].len
             range(k) == IF k = 0 THEN [next |-> next, end |-> edges.end]
                         ELSE [next |-> rpaoBuffer[2 * k - 1], end |-> rpaoBuffer[2 * k]]
             chunk(k) == Lesser(BaseLen \div IntSize, range(k).end - range(k).next)
             issues(k) == /\ range(k).next < range(k).end
                          /\ Len(ciaoBuffer) + chunk(k) < CiaoBufferDepth
             b(k) == IF issues(k) THEN NewBurst(range(k).next, chunk(k)) ELSE NoBurst
  <1>1. CiaoPort \in Port \ {DepthPort, WritePort} /\ <<"issue", CiaoPort>> \in Thread
    BY Ports, Threads
  <1>2. PICK k \in 0 .. Len(rpaoBuffer) \div 2 :
          /\ Turn(<<"issue", CiaoPort>>, 1)
          /\ Publish(CiaoPort, <<>>)
          /\ edges' = range(k)
          /\ rpaoBuffer' = SubSeq(rpaoBuffer, 2 * k + 1, Len(rpaoBuffer))
          /\ creating' = [creating EXCEPT ![CiaoPort] = b(k)]
          /\ UNCHANGED <<level, localCounter, bfsIterationStart, stopped, idx, frontierSize,
                         armed, bfsDone, currentLen, depthBuffer0, frontierBuffer,
                         ciaoBuffer, vidxBuffer, depthBuffer1, depthBuffer2, burstRespQueue,
                         serving, mem, depth>>
    BY DEF issueExpandCiaoReadReq, control, inspection, memory
  <1>3. 2 * k \in 0 .. Len(rpaoBuffer) /\ rpaoBuffer \in Seq(Int) /\ k \in Nat
    BY DEF IInv, TypeOK
  <1>4. range(k) \in [next : Int, end : Int]
    <2>1. CASE k = 0
      <3>1. creating[CiaoPort] \in Burst /\ edges \in [next : Int, end : Int]
        BY <1>1 DEF IInv, TypeOK
      <3>2. next \in Int
        BY <3>1 DEF Burst
      <3> QED BY <2>1, <3>1, <3>2
    <2>2. CASE k # 0
      <3>1. 2 * k - 1 \in 1 .. Len(rpaoBuffer) /\ 2 * k \in 1 .. Len(rpaoBuffer)
        BY <1>3, <2>2
      <3>2. rpaoBuffer[2 * k - 1] \in Int /\ rpaoBuffer[2 * k] \in Int
        BY <1>3, <3>1
      <3> QED BY <2>2, <3>2
    <2> QED BY <2>1, <2>2
  <1> HIDE DEF range
  <1>5. b(k) \in Burst
    <2>1. CASE issues(k)
      <3>1. BaseLen \in Nat /\ IntSize \in Nat /\ IntSize > 0
        BY SizeAssumption DEF SizeAssumption
      <3>2. BaseLen \div IntSize \in Nat
        BY <3>1
      <3>3. chunk(k) \in Nat /\ range(k).next \in Int
        BY <1>4, <2>1, <3>2 DEF Lesser
      <3> HIDE DEF chunk
      <3> QED BY <2>1, <3>3, Bursts
    <2>2. CASE ~issues(k)
      BY <2>2, Bursts
    <2> QED BY <2>1, <2>2
  <1>6. rpaoBuffer' \in Seq(Int)
    BY <1>2, <1>3, Suffix
  <1>7. busy' \in [Thread -> Nat]
    BY <1>1, <1>2, TurnType DEF IInv
  <1> HIDE DEF b
  <1>8. /\ creating' \in [Port -> Burst] /\ burstReqQueue' \in [Port -> Seq(Burst)]
        /\ burstOpStatus' \in [Port -> Nat]
        /\ StatusExact' /\ ServingHead' /\ SingleElement'
    BY <1>1, <1>2, <1>5, Bursts, IssueStep
  <1>9. WriteWindow' /\ VidxCount'
    BY <1>1, <1>2, <1>5, OtherPort
  <1>10. TypeOK'
    BY <1>2, <1>4, <1>6, <1>7, <1>8 DEF IInv, TypeOK
  <1> QED
    BY <1>8, <1>9, <1>10 DEF IInv

\* issueExpandDepthReadReq: a vertex starts to wait for the depth it requests.
LEMMA depthReqInv == ASSUME IInv, issueExpandDepthReadReq PROVE IInv'
  <1> DEFINE issues == ciaoBuffer # <<>> /\ Len(ciaoBuffer) < DepthBufferDepth
             b == IF issues THEN NewBurst(Head(ciaoBuffer), 1) ELSE NoBurst
  <1>1. DepthPort \in Port /\ DepthPort # WritePort /\ <<"issue", DepthPort>> \in Thread
    BY Ports, Threads
  <1>2. /\ ciaoBuffer \in Seq(Int) /\ vidxBuffer \in Seq(Int)
        /\ ciaoBuffer # <<>> => Head(ciaoBuffer) \in Int /\ Tail(ciaoBuffer) \in Seq(Int)
    BY DEF IInv, TypeOK
  <1>3. b \in Burst /\ (b = NoBurst \/ b.len = 1) /\ (b = NoBurst <=> ~issues)
    <2>1. issues => NewBurst(Head(ciaoBuffer), 1) \in Burst
                    /\ NewBurst(Head(ciaoBuffer), 1) # NoBurst
                    /\ NewBurst(Head(ciaoBuffer), 1).len = 1
      BY <1>2, Bursts DEF NewBurst
    <2> QED BY <2>1, Bursts
  <1>4. /\ Turn(<<"issue", DepthPort>>, 1)
        /\ Publish(DepthPort, <<>>)
        /\ vidxBuffer' = IF issues THEN Append(vidxBuffer, Head(ciaoBuffer)) ELSE vidxBuffer
        /\ ciaoBuffer' = IF issues THEN Tail(ciaoBuffer) ELSE ciaoBuffer
        /\ creating' = [creating EXCEPT ![DepthPort] = b]
        /\ UNCHANGED <<level, localCounter, bfsIterationStart, stopped, idx, frontierSize,
                       armed, bfsDone, currentLen, edges, depthBuffer0, frontierBuffer,
                       rpaoBuffer, depthBuffer1, depthBuffer2, burstRespQueue,
                       serving, mem, depth>>
    BY DEF issueExpandDepthReadReq, control, inspection, memory
  <1> HIDE DEF b
  <1>5. busy' \in [Thread -> Nat]
    BY <1>1, <1>4, TurnType DEF IInv
  <1>6. ciaoBuffer' \in Seq(Int) /\ vidxBuffer' \in Seq(Int)
    BY <1>2, <1>4
  <1>7. /\ creating' \in [Port -> Burst] /\ burstReqQueue' \in [Port -> Seq(Burst)]
        /\ burstOpStatus' \in [Port -> Nat]
        /\ StatusExact' /\ ServingHead' /\ SingleElement'
        /\ burstOpStatus'[DepthPort] = burstOpStatus[DepthPort]
             + (IF creating[DepthPort] = NoBurst THEN 0 ELSE 1)
    BY <1>1, <1>3, <1>4, Bursts, IssueStep
  <1>8. WriteWindow'
    BY <1>1, <1>4, Ports DEF IInv, TypeOK, WriteWindow
  <1>9. VidxCount'
    <2> DEFINE old == IF creating[DepthPort] = NoBurst THEN 0 ELSE 1
               new == IF b = NoBurst THEN 0 ELSE 1
    <2>1. Len(vidxBuffer') = Len(vidxBuffer) + new
      BY <1>2, <1>3, <1>4
    <2>2. creating'[DepthPort] = b
      BY <1>1, <1>4 DEF IInv, TypeOK
    <2>3. burstOpStatus'[DepthPort] = burstOpStatus[DepthPort] + old
      BY <1>7
    <2>4. Len(vidxBuffer) = Len(depthBuffer1) + burstOpStatus[DepthPort] + old
      BY DEF IInv, VidxCount
    <2>5. new \in Nat /\ old \in Nat /\ burstOpStatus[DepthPort] \in Nat /\ Len(depthBuffer1) \in Nat
      BY <1>1 DEF IInv, TypeOK
    <2> HIDE DEF new, old
    <2>6. Len(vidxBuffer') = Len(depthBuffer1) + burstOpStatus'[DepthPort] + new
      BY <2>1, <2>3, <2>4, <2>5
    <2> QED BY <1>4, <2>2, <2>6 DEF VidxCount, new
  <1>10. TypeOK'
    BY <1>4, <1>5, <1>6, <1>7 DEF IInv, TypeOK
  <1> QED
    BY <1>7, <1>8, <1>9, <1>10 DEF IInv

-----------------------------------------------------------------------------
(* The response threads *)

\* What Receive leaves alone, and the windows when it is not the depth port's.
LEMMA ReceiveKeeps ==
    ASSUME NEW i \in Port, Receive(i)
    PROVE  UNCHANGED <<level, localCounter, bfsIterationStart, stopped, idx, frontierSize,
                       armed, bfsDone, currentLen, edges, creating, burstReqQueue,
                       frontierBuffer, vidxBuffer, depthBuffer2, mem, depth>>
  BY DEF Receive, control, inspection, issuing, memory

\* A response of another port leaves the windows of the depth and write ports alone.
LEMMA OtherResponse ==
    ASSUME IInv, NEW i \in Port \ {DepthPort, WritePort}, Receive(i),
           UNCHANGED depthBuffer1
    PROVE  WriteWindow' /\ VidxCount'
  <1>1. burstOpStatus'[DepthPort] = burstOpStatus[DepthPort]
    BY ReceiveStep, Ports
  <1> QED
    BY <1>1, ReceiveKeeps DEF IInv, WriteWindow, VidxCount

\* inspectDepthRespThread delivers depths to its partition.
LEMMA inspectRespInv == ASSUME IInv, NEW p \in Part, inspectDepthRespThread(p) PROVE IInv'
  <1>1. p \in Port \ {DepthPort, WritePort}
    BY Ports
  <1>2. /\ Receive(p)
        /\ depthBuffer0' = [depthBuffer0 EXCEPT ![p] = depthBuffer0[p] \o Received(p)]
        /\ UNCHANGED <<rpaoBuffer, ciaoBuffer, depthBuffer1>>
    BY DEF inspectDepthRespThread
  <1>3. /\ busy' \in [Thread -> Nat] /\ serving' \in [Port -> BOOLEAN]
        /\ burstRespQueue' \in [Port -> Seq(Burst)] /\ burstOpStatus' \in [Port -> Nat]
        /\ Received(p) \in Seq(Int)
        /\ StatusExact' /\ ServingHead' /\ SingleElement'
    BY <1>1, <1>2, ReceiveStep
  <1>4. depthBuffer0' \in [Part -> Seq(Int)]
    <2>1. depthBuffer0 \in [Part -> Seq(Int)]
      BY DEF IInv, TypeOK
    <2>2. depthBuffer0[p] \o Received(p) \in Seq(Int)
      BY <2>1, <1>3
    <2> QED BY <2>1, <2>2, <1>2
  <1>5. WriteWindow' /\ VidxCount'
    BY <1>1, <1>2, OtherResponse
  <1>6. TypeOK'
    BY <1>1, <1>2, <1>3, <1>4, ReceiveKeeps DEF IInv, TypeOK
  <1> QED
    BY <1>3, <1>5, <1>6 DEF IInv

\* processExpandRpaoReadResp delivers offsets.
LEMMA rpaoRespInv == ASSUME IInv, processExpandRpaoReadResp PROVE IInv'
  <1>1. RpaoPort \in Port \ {DepthPort, WritePort}
    BY Ports
  <1>2. /\ Receive(RpaoPort)
        /\ rpaoBuffer' = rpaoBuffer \o Received(RpaoPort)
        /\ UNCHANGED <<depthBuffer0, ciaoBuffer, depthBuffer1>>
    BY DEF processExpandRpaoReadResp
  <1>3. /\ busy' \in [Thread -> Nat] /\ serving' \in [Port -> BOOLEAN]
        /\ burstRespQueue' \in [Port -> Seq(Burst)] /\ burstOpStatus' \in [Port -> Nat]
        /\ Received(RpaoPort) \in Seq(Int)
        /\ StatusExact' /\ ServingHead' /\ SingleElement'
    BY <1>1, <1>2, ReceiveStep
  <1>4. rpaoBuffer' \in Seq(Int)
    BY <1>2, <1>3 DEF IInv, TypeOK
  <1>5. WriteWindow' /\ VidxCount'
    BY <1>1, <1>2, OtherResponse
  <1>6. TypeOK'
    BY <1>1, <1>2, <1>3, <1>4, ReceiveKeeps DEF IInv, TypeOK
  <1> QED
    BY <1>3, <1>5, <1>6 DEF IInv

\* processExpandCiaoReadResp delivers neighbours.
LEMMA ciaoRespInv == ASSUME IInv, processExpandCiaoReadResp PROVE IInv'
  <1>1. CiaoPort \in Port \ {DepthPort, WritePort}
    BY Ports
  <1>2. /\ Receive(CiaoPort)
        /\ ciaoBuffer' = ciaoBuffer \o Received(CiaoPort)
        /\ UNCHANGED <<depthBuffer0, rpaoBuffer, depthBuffer1>>
    BY DEF processExpandCiaoReadResp
  <1>3. /\ busy' \in [Thread -> Nat] /\ serving' \in [Port -> BOOLEAN]
        /\ burstRespQueue' \in [Port -> Seq(Burst)] /\ burstOpStatus' \in [Port -> Nat]
        /\ Received(CiaoPort) \in Seq(Int)
        /\ StatusExact' /\ ServingHead' /\ SingleElement'
    BY <1>1, <1>2, ReceiveStep
  <1>4. ciaoBuffer' \in Seq(Int)
    BY <1>2, <1>3 DEF IInv, TypeOK
  <1>5. WriteWindow' /\ VidxCount'
    BY <1>1, <1>2, OtherResponse
  <1>6. TypeOK'
    BY <1>1, <1>2, <1>3, <1>4, ReceiveKeeps DEF IInv, TypeOK
  <1> QED
    BY <1>3, <1>5, <1>6 DEF IInv

\* processExpandDepthReadResp turns a waiting burst into one waiting depth.
LEMMA depthRespInv == ASSUME IInv, processExpandDepthReadResp PROVE IInv'
  <1>1. DepthPort \in Port /\ DepthPort # WritePort
    BY Ports
  <1>2. /\ Receive(DepthPort)
        /\ depthBuffer1' = depthBuffer1 \o Received(DepthPort)
        /\ UNCHANGED <<depthBuffer0, rpaoBuffer, ciaoBuffer>>
    BY DEF processExpandDepthReadResp
  <1>3. /\ busy' \in [Thread -> Nat] /\ serving' \in [Port -> BOOLEAN]
        /\ burstRespQueue' \in [Port -> Seq(Burst)] /\ burstOpStatus' \in [Port -> Nat]
        /\ Received(DepthPort) \in Seq(Int)
        /\ StatusExact' /\ ServingHead' /\ SingleElement'
    BY <1>1, <1>2, ReceiveStep
  <1>4. depthBuffer1 \in Seq(Int) /\ depthBuffer1' \in Seq(Int)
        /\ Len(depthBuffer1') = Len(depthBuffer1) + Len(Received(DepthPort))
    BY <1>2, <1>3 DEF IInv, TypeOK
  <1>5. Len(depthBuffer1') + burstOpStatus'[DepthPort] = Len(depthBuffer1) + burstOpStatus[DepthPort]
    <2>1. Len(depthBuffer1) \in Nat /\ burstOpStatus[DepthPort] \in Nat
      BY <1>1 DEF IInv, TypeOK
    <2>2. CASE serving[DepthPort]
      <3>1. burstOpStatus'[DepthPort] = burstOpStatus[DepthPort] - 1
            /\ Len(Received(DepthPort)) = 1
        BY <1>1, <1>2, <2>2, ReceiveStep
      <3>2. Len(depthBuffer1') = Len(depthBuffer1) + 1
        BY <1>4, <3>1
      <3> QED BY <2>1, <3>1, <3>2
    <2>3. CASE ~serving[DepthPort]
      <3>1. burstOpStatus'[DepthPort] = burstOpStatus[DepthPort] /\ Received(DepthPort) = <<>>
        BY <1>1, <1>2, <2>3, ReceiveStep
      <3>2. Len(depthBuffer1') = Len(depthBuffer1)
        BY <1>2, <1>4, <3>1
      <3> QED BY <3>1, <3>2
    <2> QED BY <2>2, <2>3
  <1>6. WriteWindow'
    BY <1>1, <1>2, ReceiveKeeps DEF IInv, WriteWindow
  <1>7. VidxCount'
    <2> DEFINE old == IF creating[DepthPort] = NoBurst THEN 0 ELSE 1
    <2>1. vidxBuffer' = vidxBuffer /\ creating' = creating
      BY <1>1, <1>2, ReceiveKeeps
    <2>2. Len(vidxBuffer) = Len(depthBuffer1) + burstOpStatus[DepthPort] + old
      BY DEF IInv, VidxCount
    <2>3. /\ old \in Nat /\ Len(depthBuffer1) \in Nat /\ burstOpStatus[DepthPort] \in Nat
          /\ Len(depthBuffer1') \in Nat /\ burstOpStatus'[DepthPort] \in Nat
      BY <1>1, <1>3, <1>4 DEF IInv, TypeOK
    <2> HIDE DEF old
    <2>4. Len(vidxBuffer) = Len(depthBuffer1') + burstOpStatus'[DepthPort] + old
      BY <1>5, <2>2, <2>3
    <2> QED BY <2>1, <2>4 DEF VidxCount, old
  <1>8. TypeOK'
    BY <1>1, <1>2, <1>3, <1>4, ReceiveKeeps DEF IInv, TypeOK
  <1> QED
    BY <1>3, <1>6, <1>7, <1>8 DEF IInv
-----------------------------------------------------------------------------
(* The analyses *)

\* inspectDepthAnalysis only moves vertices to the frontier.
LEMMA analysisInv == ASSUME IInv, inspectDepthAnalysis PROVE IInv'
  <1> DEFINE from == IF bfsIterationStart THEN [p \in Part |-> PartBase(p)] ELSE idx
             size == IF bfsIterationStart THEN 0 ELSE frontierSize
             found(list) == [k \in DOMAIN list |-> from[list[k]]]
  <1>1. PICK list \in HitLists :
          /\ Turn(Analysis, 1)
          /\ idx' = [p \in Part |-> IF p \in Analysed THEN from[p] + 1 ELSE from[p]]
          /\ frontierSize' = size + Len(found(list))
          /\ frontierBuffer' = frontierBuffer \o found(list)
          /\ depthBuffer0' = [p \in Part |->
               IF p \in Analysed THEN Tail(depthBuffer0[p]) ELSE depthBuffer0[p]]
          /\ armed' \in BOOLEAN /\ bfsDone' \in BOOLEAN
    BY DEF inspectDepthAnalysis, IInv, TypeOK
  <1>2. UNCHANGED <<level, localCounter, bfsIterationStart, stopped, currentLen, edges, creating,
                    burstReqQueue, rpaoBuffer, ciaoBuffer, vidxBuffer, depthBuffer1,
                    depthBuffer2, burstRespQueue, burstOpStatus, serving, mem, depth>>
    BY DEF inspectDepthAnalysis, control, issuing, memory
  <1>3. from \in [Part -> Nat] /\ size \in Nat
    BY Parts DEF IInv, TypeOK
  <1>4. found(list) \in Seq(Nat) /\ Len(found(list)) \in Nat
    <2>1. PICK n \in 0 .. PRNUM : list \in [1 .. n -> Part]
      BY DEF HitLists
    <2>2. found(list) \in [1 .. n -> Nat] /\ n \in Nat
      <3> HIDE DEF from
      <3> QED BY <2>1, <1>3, SizeAssumption DEF SizeAssumption
    <2> HIDE DEF found
    <2> QED BY <2>2
  <1> HIDE DEF found, from, size
  <1>5. busy' \in [Thread -> Nat]
    BY <1>1, Threads, TurnType DEF IInv
  <1>6. idx' \in [Part -> Nat] /\ frontierSize' \in Nat /\ frontierBuffer' \in Seq(Nat)
    <2>1. frontierBuffer \in Seq(Nat)
      BY DEF IInv, TypeOK
    <2> QED BY <1>1, <1>3, <1>4, <2>1
  <1>7. depthBuffer0' \in [Part -> Seq(Int)]
    <2>1. depthBuffer0 \in [Part -> Seq(Int)]
      BY DEF IInv, TypeOK
    <2>2. \A p \in Analysed : p \in Part /\ depthBuffer0[p] # <<>>
      BY DEF Analysed
    <2>3. \A p \in Analysed : Tail(depthBuffer0[p]) \in Seq(Int)
      BY <2>1, <2>2
    <2> QED BY <1>1, <2>1, <2>3
  <1>8. TypeOK'
    BY <1>1, <1>2, <1>5, <1>6, <1>7 DEF IInv, TypeOK
  <1>9. StatusExact' /\ WriteWindow' /\ ServingHead' /\ SingleElement' /\ VidxCount'
    BY <1>2 DEF IInv, StatusExact, WriteWindow, ServingHead, SingleElement, VidxCount
  <1> QED
    BY <1>8, <1>9 DEF IInv

\* A sequence of one element.
LEMMA Singleton ==
    ASSUME NEW s \in Seq(Int), Len(s) = 1
    PROVE  Tail(s) = <<>> /\ Head(s) \in Int
  <1>1. s # <<>>
    <2>1. SUFFICES ASSUME s = <<>> PROVE FALSE
      OBVIOUS
    <2>2. Len(s) = 0
      BY <2>1, EmptySeq, Zenon
    <2> QED BY <2>2
  <1>2. Tail(s) \in Seq(Int) /\ Len(Tail(s)) = Len(s) - 1 /\ Head(s) \in Int
    BY <1>1
  <1> DEFINE t == Tail(s)
  <1> HIDE DEF t
  <1>3. t \in Seq(Int) /\ Len(t) = 0
    BY <1>2 DEF t
  <1>4. t # <<>> => Len(t) \in Nat \ {0}
    BY <1>3, EmptySeq, Zenon
  <1>5. t = <<>>
    BY <1>3, <1>4
  <1> QED
    BY <1>2, <1>5 DEF t

\* expandDepthAnalysis takes as many vertices as depths, and holds one label at most.
LEMMA expandInv == ASSUME IInv, expandDepthAnalysis PROVE IInv'
  <1> DEFINE wrote == creating[WritePort] # NoBurst
             labels == IF wrote THEN Tail(depthBuffer2) ELSE depthBuffer2
             data == IF wrote THEN <<Head(depthBuffer2)>> ELSE <<>>
             visits(k) == k < Len(depthBuffer1) /\ Len(labels) <= DepthBufferDepth
             taken(k) == IF visits(k) THEN k + 1 ELSE k
             b(k) == IF visits(k) THEN NewBurst(vidxBuffer[k + 1], 1) ELSE NoBurst
  <1>1. WritePort \in Port /\ DepthPort \in Port /\ DepthPort # WritePort
        /\ <<"issue", WritePort>> \in Thread
    BY Ports, Threads
  <1>2. PICK k \in 0 .. Len(depthBuffer1) :
          /\ Turn(<<"issue", WritePort>>, 1)
          /\ Publish(WritePort, data)
          /\ depthBuffer1' = SubSeq(depthBuffer1, taken(k) + 1, Len(depthBuffer1))
          /\ vidxBuffer' = SubSeq(vidxBuffer, taken(k) + 1, Len(vidxBuffer))
          /\ depthBuffer2' = IF visits(k) THEN Append(labels, Char(level + 1)) ELSE labels
          /\ creating' = [creating EXCEPT ![WritePort] = b(k)]
          /\ UNCHANGED <<level, localCounter, bfsIterationStart, stopped, idx, frontierSize,
                         armed, bfsDone, currentLen, edges, depthBuffer0, frontierBuffer,
                         rpaoBuffer, ciaoBuffer, burstRespQueue, serving, mem, depth>>
    BY DEF expandDepthAnalysis, control, inspection, memory
  <1>3. /\ depthBuffer1 \in Seq(Int) /\ vidxBuffer \in Seq(Int) /\ depthBuffer2 \in Seq(Int)
        /\ mem \in [Port -> Seq(Burst)] /\ burstReqQueue \in [Port -> Seq(Burst)]
        /\ burstRespQueue \in [Port -> Seq(Burst)] /\ creating \in [Port -> Burst]
        /\ level \in Int
    BY SizeAssumption DEF SizeAssumption, IInv, TypeOK, CharValue
  <1>4. labels = <<>> /\ data \in Seq(Int) /\ (wrote => Len(data) = 1)
    <2>1. CASE wrote
      <3>1. Len(depthBuffer2) = 1
        BY <2>1 DEF IInv, WriteWindow
      <3>2. Tail(depthBuffer2) = <<>> /\ Head(depthBuffer2) \in Int
        BY <1>3, <3>1, Singleton
      <3> QED BY <2>1, <3>2
    <2>2. CASE ~wrote
      <3>1. Len(depthBuffer2) = 0
        BY <2>2 DEF IInv, WriteWindow
      <3> QED BY <2>2, <3>1, <1>3
    <2> QED BY <2>1, <2>2
  <1>5. Char(level + 1) \in Int
    BY <1>3, CharWidth, SizeAssumption DEF SizeAssumption, CharValue
  <1>6. depthBuffer2' \in Seq(Int) /\ Len(depthBuffer2') = IF visits(k) THEN 1 ELSE 0
    <2>1. Append(<<>>, Char(level + 1)) \in Seq(Int) /\ Len(Append(<<>>, Char(level + 1))) = 1
      BY <1>5
    <2>2. <<>> \in Seq(Int) /\ Len(<<>>) = 0
      OBVIOUS
    <2>3. depthBuffer2' = IF visits(k) THEN Append(<<>>, Char(level + 1)) ELSE <<>>
      BY <1>2, <1>4
    <2> QED BY <2>1, <2>2, <2>3
  <1>7. PICK coming \in Nat :
          /\ coming = burstOpStatus[DepthPort] + (IF creating[DepthPort] = NoBurst THEN 0 ELSE 1)
          /\ Len(vidxBuffer) = Len(depthBuffer1) + coming
    <2> DEFINE coming == burstOpStatus[DepthPort] + (IF creating[DepthPort] = NoBurst THEN 0 ELSE 1)
    <2>3. Len(depthBuffer1) \in Nat /\ burstOpStatus[DepthPort] \in Nat
      BY <1>1 DEF IInv, TypeOK
    <2>1. coming \in Nat
      BY <2>3
    <2>2. Len(vidxBuffer) = Len(depthBuffer1) + coming
      BY <2>3 DEF IInv, VidxCount
    <2> QED BY <2>1, <2>2
  <1> HIDE DEF labels, data
  <1>8. k \in Nat /\ Len(depthBuffer1) \in Nat /\ Len(vidxBuffer) \in Nat
        /\ taken(k) \in 0 .. Len(depthBuffer1) /\ taken(k) \in 0 .. Len(vidxBuffer)
    <2>1. k \in Nat /\ Len(depthBuffer1) \in Nat /\ Len(vidxBuffer) \in Nat
          /\ Len(depthBuffer1) <= Len(vidxBuffer) /\ k <= Len(depthBuffer1)
      BY <1>3, <1>7
    <2>2. CASE visits(k)
      BY <2>1, <2>2
    <2>3. CASE ~visits(k)
      BY <2>1, <2>3
    <2> QED BY <2>1, <2>2, <2>3
  <1>9. b(k) \in Burst /\ (visits(k) <=> b(k) # NoBurst)
    <2>1. CASE visits(k)
      <3>1. vidxBuffer[k + 1] \in Int
        BY <2>1, <1>3, <1>7, <1>8
      <3> QED BY <2>1, <3>1, Bursts
    <2>2. CASE ~visits(k)
      BY <2>2, Bursts
    <2> QED BY <2>1, <2>2
  <1> HIDE DEF b, visits, taken
  <1>10. /\ depthBuffer1' \in Seq(Int) /\ Len(depthBuffer1') = Len(depthBuffer1) - taken(k)
         /\ vidxBuffer' \in Seq(Int) /\ Len(vidxBuffer') = Len(vidxBuffer) - taken(k)
    BY <1>2, <1>3, <1>8, Suffix
  <1>11. busy' \in [Thread -> Nat]
    BY <1>1, <1>2, TurnType DEF IInv
  <1>12. /\ creating' \in [Port -> Burst] /\ burstReqQueue' \in [Port -> Seq(Burst)]
         /\ burstOpStatus' \in [Port -> Nat]
         /\ StatusExact' /\ ServingHead' /\ SingleElement'
         /\ burstOpStatus'[DepthPort] = burstOpStatus[DepthPort]
    BY <1>1, <1>2, <1>4, <1>9, IssueStep
  <1>13. creating'[WritePort] = b(k) /\ creating'[DepthPort] = creating[DepthPort]
    BY <1>1, <1>2, <1>3
  <1>14. WriteWindow'
    BY <1>6, <1>9, <1>13 DEF WriteWindow
  <1>15. VidxCount'
    <2>1. Len(vidxBuffer') = Len(depthBuffer1') + coming
      <3>1. Len(depthBuffer1) \in Nat /\ taken(k) \in Nat
        BY <1>8
      <3> QED BY <3>1, <1>7, <1>10
    <2>2. coming = burstOpStatus'[DepthPort] + (IF creating'[DepthPort] = NoBurst THEN 0 ELSE 1)
      BY <1>1, <1>7, <1>12, <1>13
    <2>3. Len(depthBuffer1') \in Nat /\ burstOpStatus'[DepthPort] \in Nat
      BY <1>1, <1>10, <1>12
    <2> QED BY <2>1, <2>2, <2>3 DEF VidxCount
  <1>16. TypeOK'
    BY <1>2, <1>6, <1>10, <1>11, <1>12 DEF IInv, TypeOK
  <1> QED
    BY <1>12, <1>14, <1>15, <1>16 DEF IInv
\* processExpandDepthWriteResp erases one entry per response.
LEMMA writeRespInv == ASSUME IInv, processExpandDepthWriteResp PROVE IInv'
  <1>1. WritePort \in Port /\ DepthPort \in Port /\ DepthPort # WritePort
        /\ <<"resp", WritePort>> \in Thread
    BY Ports, Threads
  <1>2. /\ Turn(<<"resp", WritePort>>, 1)
        /\ burstOpStatus' = [burstOpStatus EXCEPT
             ![WritePort] = burstOpStatus[WritePort] - Len(burstRespQueue[WritePort])]
        /\ burstRespQueue' = [burstRespQueue EXCEPT ![WritePort] = <<>>]
        /\ UNCHANGED <<level, localCounter, bfsIterationStart, stopped, idx, frontierSize,
                       armed, bfsDone, currentLen, edges, creating, burstReqQueue,
                       depthBuffer0, frontierBuffer, rpaoBuffer, ciaoBuffer, vidxBuffer,
                       depthBuffer1, depthBuffer2, serving, mem, depth>>
    BY DEF processExpandDepthWriteResp, control, inspection, issuing, memory
  <1>3. /\ burstReqQueue \in [Port -> Seq(Burst)] /\ mem \in [Port -> Seq(Burst)]
        /\ burstRespQueue \in [Port -> Seq(Burst)] /\ burstOpStatus \in [Port -> Nat]
    BY DEF IInv, TypeOK
  <1>4. /\ Len(burstReqQueue[WritePort]) \in Nat /\ Len(mem[WritePort]) \in Nat
        /\ Len(burstRespQueue[WritePort]) \in Nat
        /\ burstOpStatus[WritePort] = Len(burstReqQueue[WritePort]) + Len(mem[WritePort])
             + Len(burstRespQueue[WritePort])
    BY <1>1, <1>3 DEF IInv, StatusExact
  <1>5. burstOpStatus[WritePort] - Len(burstRespQueue[WritePort])
          = Len(burstReqQueue[WritePort]) + Len(mem[WritePort])
    BY <1>4
  <1>6. /\ burstOpStatus' \in [Port -> Nat]
        /\ burstOpStatus'[WritePort] = Len(burstReqQueue[WritePort]) + Len(mem[WritePort])
        /\ \A i \in Port \ {WritePort} : burstOpStatus'[i] = burstOpStatus[i]
    BY <1>1, <1>2, <1>3, <1>4, <1>5
  <1>7. /\ burstRespQueue' \in [Port -> Seq(Burst)] /\ burstRespQueue'[WritePort] = <<>>
        /\ \A i \in Port \ {WritePort} : burstRespQueue'[i] = burstRespQueue[i]
    <2>1. <<>> \in Seq(Burst)
      BY EmptySeq
    <2> QED BY <2>1, <1>1, <1>2, <1>3
  <1>8. busy' \in [Thread -> Nat]
    BY <1>1, <1>2, TurnType DEF IInv
  <1>9. StatusExact'
    <2> SUFFICES ASSUME NEW i \in Port
                 PROVE  burstOpStatus'[i] = Len(burstReqQueue[i]) + Len(mem[i]) + Len(burstRespQueue'[i])
      BY <1>2 DEF StatusExact
    <2>1. CASE i = WritePort
      <3>1. Len(burstRespQueue'[i]) = 0
        BY <2>1, <1>7, EmptySeq
      <3> QED BY <2>1, <3>1, <1>4, <1>6
    <2>2. CASE i # WritePort
      BY <2>2, <1>6, <1>7 DEF IInv, StatusExact
    <2> QED BY <2>1, <2>2
  <1>10. ServingHead'
    BY <1>2, <1>7 DEF IInv, ServingHead
  <1>11. SingleElement'
    BY <1>1, <1>2, <1>7 DEF IInv, SingleElement
  <1>12. WriteWindow' /\ VidxCount'
    BY <1>1, <1>2, <1>6 DEF IInv, WriteWindow, VidxCount
  <1>13. TypeOK'
    BY <1>2, <1>6, <1>7, <1>8 DEF IInv, TypeOK
  <1> QED
    BY <1>9, <1>10, <1>11, <1>12, <1>13 DEF IInv

-----------------------------------------------------------------------------
(* The memory interface *)

\* A burst taken from one queue and put at the end of another.
LEMMA Transfer ==
    ASSUME NEW s \in Seq(Burst), s # <<>>, NEW t \in Seq(Burst), NEW x \in Burst
    PROVE  /\ Tail(s) \in Seq(Burst) /\ Append(t, x) \in Seq(Burst)
           /\ Head(s) \in Burst /\ Head(s) = s[1] /\ 1 \in 1 .. Len(s)
           /\ Len(Tail(s)) + Len(Append(t, x)) = Len(s) + Len(t)
           /\ \A k \in 1 .. Len(Tail(s)) : k + 1 \in 1 .. Len(s) /\ Tail(s)[k] = s[k + 1]
           /\ \A k \in 1 .. Len(Append(t, x)) :
                \/ k \in 1 .. Len(t) /\ Append(t, x)[k] = t[k]
                \/ Append(t, x)[k] = x
  <1>1. /\ Tail(s) \in Seq(Burst) /\ Len(Tail(s)) = Len(s) - 1 /\ Head(s) \in Burst
        /\ Head(s) = s[1]
        /\ Len(s) \in Nat \ {0} /\ \A k \in 1 .. Len(Tail(s)) : Tail(s)[k] = s[k + 1]
    BY HeadTailProperties, EmptySeq
  <1>2. /\ Append(t, x) \in Seq(Burst) /\ Len(Append(t, x)) = Len(t) + 1 /\ Len(t) \in Nat
        /\ \A k \in 1 .. Len(t) : Append(t, x)[k] = t[k]
        /\ Append(t, x)[Len(t) + 1] = x
    OBVIOUS
  <1> QED
    BY <1>1, <1>2

\* sendMemReq moves bursts from the queues to the memory.
LEMMA sendInv == ASSUME IInv, sendMemReq PROVE IInv'
  <1> DEFINE sent(i) == burstReqQueue[i] # <<>>
  <1>1. DepthPort \in Port /\ WritePort \in Port /\ SendReq \in Thread
    BY Ports, Threads
  <1>2. /\ Turn(SendReq, 1)
        /\ mem' = [i \in Port |->
             IF sent(i) THEN Append(mem[i], Head(burstReqQueue[i])) ELSE mem[i]]
        /\ burstReqQueue' = [i \in Port |->
             IF sent(i) THEN Tail(burstReqQueue[i]) ELSE burstReqQueue[i]]
        /\ UNCHANGED <<level, localCounter, bfsIterationStart, stopped, idx, frontierSize,
                       armed, bfsDone, currentLen, edges, creating, depthBuffer0,
                       frontierBuffer, rpaoBuffer, ciaoBuffer, vidxBuffer, depthBuffer1,
                       depthBuffer2, burstRespQueue, burstOpStatus, serving, depth>>
    BY DEF sendMemReq, control, inspection
  <1>3. burstReqQueue \in [Port -> Seq(Burst)] /\ mem \in [Port -> Seq(Burst)]
        /\ burstRespQueue \in [Port -> Seq(Burst)]
    BY DEF IInv, TypeOK
  <1>4. ASSUME NEW i \in Port
        PROVE  /\ mem'[i] \in Seq(Burst) /\ burstReqQueue'[i] \in Seq(Burst)
               /\ Len(burstReqQueue'[i]) + Len(mem'[i]) = Len(burstReqQueue[i]) + Len(mem[i])
               /\ \A k \in 1 .. Len(burstReqQueue'[i]) :
                    \E j \in 1 .. Len(burstReqQueue[i]) : burstReqQueue'[i][k] = burstReqQueue[i][j]
               /\ \A k \in 1 .. Len(mem'[i]) :
                    \/ \E j \in 1 .. Len(mem[i]) : mem'[i][k] = mem[i][j]
                    \/ \E j \in 1 .. Len(burstReqQueue[i]) : mem'[i][k] = burstReqQueue[i][j]
    <2> DEFINE q == burstReqQueue[i]
               m == mem[i]
    <2>1. q \in Seq(Burst) /\ m \in Seq(Burst)
      BY <1>3
    <2>2. CASE sent(i)
      <3>1. Head(q) \in Burst /\ Head(q) = q[1] /\ 1 \in 1 .. Len(q)
        BY <2>1, <2>2
      <3>2. mem'[i] = Append(m, Head(q)) /\ burstReqQueue'[i] = Tail(q) /\ q # <<>>
        BY <1>2, <2>2
      <3> HIDE DEF q, m
      <3>3. /\ Tail(q) \in Seq(Burst) /\ Append(m, Head(q)) \in Seq(Burst)
            /\ Len(Tail(q)) + Len(Append(m, Head(q))) = Len(q) + Len(m)
            /\ \A k \in 1 .. Len(Tail(q)) : k + 1 \in 1 .. Len(q) /\ Tail(q)[k] = q[k + 1]
            /\ \A k \in 1 .. Len(Append(m, Head(q))) :
                 \/ k \in 1 .. Len(m) /\ Append(m, Head(q))[k] = m[k]
                 \/ Append(m, Head(q))[k] = Head(q)
        BY <2>1, <3>1, <3>2, Transfer
      <3>4. \A k \in 1 .. Len(Tail(q)) : \E j \in 1 .. Len(q) : Tail(q)[k] = q[j]
        BY <3>3
      <3>5. \A k \in 1 .. Len(Append(m, Head(q))) :
                 \/ \E j \in 1 .. Len(m) : Append(m, Head(q))[k] = m[j]
                 \/ \E j \in 1 .. Len(q) : Append(m, Head(q))[k] = q[j]
        BY <3>1, <3>3
      <3> QED BY <3>2, <3>3, <3>4, <3>5 DEF q, m
    <2>3. CASE ~sent(i)
      BY <1>2, <2>1, <2>3
    <2> QED BY <2>2, <2>3
  <1>5. mem' \in [Port -> Seq(Burst)] /\ burstReqQueue' \in [Port -> Seq(Burst)]
    <2> HIDE DEF sent
    <2>1. mem' = [i \in Port |-> mem'[i]] /\ burstReqQueue' = [i \in Port |-> burstReqQueue'[i]]
      BY <1>2
    <2> QED BY <2>1, <1>4
  <1>6. busy' \in [Thread -> Nat]
    BY <1>1, <1>2, TurnType DEF IInv
  <1>7. StatusExact'
    <2> SUFFICES ASSUME NEW i \in Port
                 PROVE  burstOpStatus[i] = Len(burstReqQueue'[i]) + Len(mem'[i]) + Len(burstRespQueue[i])
      BY <1>2 DEF StatusExact
    <2>1. burstOpStatus[i] = Len(burstReqQueue[i]) + Len(mem[i]) + Len(burstRespQueue[i])
      BY DEF IInv, StatusExact
    <2> QED BY <2>1, <1>4
  <1>8. SingleElement'
    <2>1. SingleElement /\ creating' = creating /\ burstRespQueue' = burstRespQueue
      BY <1>2 DEF IInv
    <2>2. ASSUME NEW k \in 1 .. Len(burstReqQueue'[DepthPort]) PROVE burstReqQueue'[DepthPort][k].len = 1
      <3>1. \E j \in 1 .. Len(burstReqQueue[DepthPort]) :
              burstReqQueue'[DepthPort][k] = burstReqQueue[DepthPort][j]
        BY <1>1, <1>4
      <3> QED BY <2>1, <3>1 DEF SingleElement
    <2>3. ASSUME NEW k \in 1 .. Len(mem'[DepthPort]) PROVE mem'[DepthPort][k].len = 1
      <3>1. \/ \E j \in 1 .. Len(mem[DepthPort]) : mem'[DepthPort][k] = mem[DepthPort][j]
            \/ \E j \in 1 .. Len(burstReqQueue[DepthPort]) : mem'[DepthPort][k] = burstReqQueue[DepthPort][j]
        BY <1>1, <1>4
      <3> QED BY <2>1, <3>1 DEF SingleElement
    <2>4. ASSUME NEW k \in 1 .. Len(burstReqQueue'[WritePort]) PROVE Len(burstReqQueue'[WritePort][k].data) = 1
      <3>1. \E j \in 1 .. Len(burstReqQueue[WritePort]) :
              burstReqQueue'[WritePort][k] = burstReqQueue[WritePort][j]
        BY <1>1, <1>4
      <3> QED BY <2>1, <3>1 DEF SingleElement
    <2>5. ASSUME NEW k \in 1 .. Len(mem'[WritePort]) PROVE Len(mem'[WritePort][k].data) = 1
      <3>1. \/ \E j \in 1 .. Len(mem[WritePort]) : mem'[WritePort][k] = mem[WritePort][j]
            \/ \E j \in 1 .. Len(burstReqQueue[WritePort]) : mem'[WritePort][k] = burstReqQueue[WritePort][j]
        BY <1>1, <1>4
      <3> QED BY <2>1, <3>1 DEF SingleElement
    <2> QED BY <2>1, <2>2, <2>3, <2>4, <2>5 DEF SingleElement
  <1>9. ServingHead' /\ WriteWindow' /\ VidxCount'
    BY <1>2 DEF IInv, ServingHead, WriteWindow, VidxCount
  <1>10. TypeOK'
    BY <1>2, <1>5, <1>6 DEF IInv, TypeOK
  <1> QED
    BY <1>7, <1>8, <1>9, <1>10 DEF IInv
\* What a read returns: as many integers as the burst asks for.
LEMMA Reads ==
    ASSUME IInv, NEW i \in Port, NEW b \in Burst
    PROVE  ReadFrom(i, b) \in Burst /\ Len(ReadFrom(i, b).data) = b.len
  <1>1. Beyond \in Int
    BY SizeAssumption DEF SizeAssumption
  <1>2. \A k : k \in DOMAIN Ram(i) => Ram(i)[k] \in Int
    <2>1. \A k \in DOMAIN Rpao : Rpao[k] \in Int
      BY GraphAssumption DEF GraphAssumption
    <2>2. \A k \in DOMAIN Ciao : Ciao[k] \in Int
      BY GraphAssumption DEF GraphAssumption, Vertex
    <2>3. \A k \in DOMAIN depth : depth[k] \in Int
      BY DEF IInv, TypeOK
    <2> QED BY <2>1, <2>2, <2>3 DEF Ram
  <1>3. \A k : Cell(Ram(i), k) \in Int
    BY <1>1, <1>2 DEF Cell
  <1>4. b.len \in Nat /\ b.at \in Int
    BY DEF Burst
  <1> DEFINE values == [k \in 1 .. b.len |-> Cell(Ram(i), b.at + k - 1)]
  <1>5. values \in Seq(Int) /\ Len(values) = b.len
    BY <1>3, <1>4
  <1>6. ReadFrom(i, b) = [b EXCEPT !.data = values]
    BY DEF ReadFrom
  <1> HIDE DEF values
  <1> QED
    BY <1>5, <1>6 DEF Burst

\* getMemResp moves bursts from the memory to the response queues.
LEMMA getInv == ASSUME IInv, NEW S \in SUBSET Port, getMemResp(S) PROVE IInv'
  <1>1. DepthPort \in Port /\ WritePort \in Port /\ DepthPort # WritePort /\ GetResp \in Thread
    BY Ports, Threads
  <1>2. /\ \A i \in S : mem[i] # <<>>
        /\ Turn(GetResp, 1)
        /\ burstRespQueue' = [i \in Port |->
             IF i \in S THEN Append(burstRespQueue[i], Answer(i)) ELSE burstRespQueue[i]]
        /\ mem' = [i \in Port |-> IF i \in S THEN Tail(mem[i]) ELSE mem[i]]
        /\ depth' = IF WritePort \in S
                    THEN [depth EXCEPT ![Head(mem[WritePort]).at] = Head(mem[WritePort]).data[1]]
                    ELSE depth
        /\ UNCHANGED <<level, localCounter, bfsIterationStart, stopped, idx, frontierSize,
                       armed, bfsDone, currentLen, edges, creating, burstReqQueue,
                       depthBuffer0, frontierBuffer, rpaoBuffer, ciaoBuffer, vidxBuffer,
                       depthBuffer1, depthBuffer2, burstOpStatus, serving>>
    BY DEF getMemResp, control, inspection, issuing
  <1>3. burstRespQueue \in [Port -> Seq(Burst)] /\ mem \in [Port -> Seq(Burst)]
        /\ burstReqQueue \in [Port -> Seq(Burst)]
    BY DEF IInv, TypeOK
  <1>4. ASSUME NEW i \in Port
        PROVE  /\ mem'[i] \in Seq(Burst) /\ burstRespQueue'[i] \in Seq(Burst)
               /\ Len(mem'[i]) + Len(burstRespQueue'[i]) = Len(mem[i]) + Len(burstRespQueue[i])
               /\ \A k \in 1 .. Len(mem'[i]) :
                    \E j \in 1 .. Len(mem[i]) : mem'[i][k] = mem[i][j]
               /\ \A k \in 1 .. Len(burstRespQueue'[i]) :
                    \/ \E j \in 1 .. Len(burstRespQueue[i]) : burstRespQueue'[i][k] = burstRespQueue[i][j]
                    \/ i = WritePort
                    \/ \E j \in 1 .. Len(mem[i]) : Len(burstRespQueue'[i][k].data) = mem[i][j].len
               /\ burstRespQueue[i] # <<>> => burstRespQueue'[i] # <<>>
    <2> DEFINE q == mem[i]
               r == burstRespQueue[i]
               x == Answer(i)
    <2>1. q \in Seq(Burst) /\ r \in Seq(Burst)
      BY <1>3
    <2>2. CASE i \in S
      <3>1. Head(q) \in Burst /\ Head(q) = q[1] /\ 1 \in 1 .. Len(q)
        BY <2>1, <2>2, <1>2
      <3>2. x \in Burst /\ (i # WritePort => Len(x.data) = q[1].len)
        BY <3>1, Reads DEF Answer
      <3>3. burstRespQueue'[i] = Append(r, x) /\ mem'[i] = Tail(q) /\ q # <<>>
        BY <1>2, <2>2
      <3> HIDE DEF q, r, x
      <3>4. /\ Tail(q) \in Seq(Burst) /\ Append(r, x) \in Seq(Burst)
            /\ Len(Tail(q)) + Len(Append(r, x)) = Len(q) + Len(r)
            /\ \A k \in 1 .. Len(Tail(q)) : k + 1 \in 1 .. Len(q) /\ Tail(q)[k] = q[k + 1]
            /\ \A k \in 1 .. Len(Append(r, x)) :
                 \/ k \in 1 .. Len(r) /\ Append(r, x)[k] = r[k]
                 \/ Append(r, x)[k] = x
        BY <2>1, <3>2, <3>3, Transfer
      <3>5. \A k \in 1 .. Len(Tail(q)) : \E j \in 1 .. Len(q) : Tail(q)[k] = q[j]
        BY <3>4
      <3>6. \A k \in 1 .. Len(Append(r, x)) :
                 \/ \E j \in 1 .. Len(r) : Append(r, x)[k] = r[j]
                 \/ i = WritePort
                 \/ \E j \in 1 .. Len(q) : Len(Append(r, x)[k].data) = q[j].len
        BY <3>1, <3>2, <3>4
      <3>7. Append(r, x) # <<>>
        BY <2>1, <3>2
      <3> QED BY <3>3, <3>4, <3>5, <3>6, <3>7 DEF q, r
    <2>3. CASE i \notin S
      BY <1>2, <2>1, <2>3
    <2> QED BY <2>2, <2>3
  <1>5. mem' \in [Port -> Seq(Burst)] /\ burstRespQueue' \in [Port -> Seq(Burst)]
    <2>1. mem' = [i \in Port |-> mem'[i]] /\ burstRespQueue' = [i \in Port |-> burstRespQueue'[i]]
      BY <1>2
    <2> QED BY <2>1, <1>4
  <1>6. depth' \in [Vertex -> Int]
    <2>1. depth \in [Vertex -> Int]
      BY DEF IInv, TypeOK
    <2>2. CASE WritePort \in S
      <3>1. mem[WritePort] \in Seq(Burst) /\ mem[WritePort] # <<>>
        BY <1>1, <1>2, <1>3, <2>2
      <3>2. Head(mem[WritePort]) \in Burst /\ Head(mem[WritePort]) = mem[WritePort][1]
            /\ 1 \in 1 .. Len(mem[WritePort])
        BY <3>1
      <3>3. Head(mem[WritePort]).data \in Seq(Int) /\ Len(Head(mem[WritePort]).data) = 1
        BY <3>2 DEF IInv, SingleElement, Burst
      <3>4. Head(mem[WritePort]).data[1] \in Int
        BY <3>3
      <3> QED BY <1>2, <2>1, <2>2, <3>4
    <2>3. CASE WritePort \notin S
      BY <1>2, <2>1, <2>3
    <2> QED BY <2>2, <2>3
  <1>7. busy' \in [Thread -> Nat]
    BY <1>1, <1>2, TurnType DEF IInv
  <1>8. StatusExact'
    <2> SUFFICES ASSUME NEW i \in Port
                 PROVE  burstOpStatus[i] = Len(burstReqQueue[i]) + Len(mem'[i]) + Len(burstRespQueue'[i])
      BY <1>2 DEF StatusExact
    <2>1. burstOpStatus[i] = Len(burstReqQueue[i]) + Len(mem[i]) + Len(burstRespQueue[i])
      BY DEF IInv, StatusExact
    <2> DEFINE queued == Len(burstReqQueue[i])
               before == Len(mem[i])
               answered == Len(burstRespQueue[i])
               after == Len(mem'[i])
               now == Len(burstRespQueue'[i])
    <2>2. after + now = before + answered
      BY <1>4
    <2>3. queued \in Nat /\ before \in Nat /\ answered \in Nat /\ after \in Nat /\ now \in Nat
      BY <1>3, <1>5
    <2>4. burstOpStatus[i] = queued + before + answered
      BY <2>1
    <2> HIDE DEF queued, before, answered, after, now
    <2>5. burstOpStatus[i] = queued + after + now
      BY <2>2, <2>3, <2>4
    <2> QED BY <2>5 DEF queued, after, now
  <1>9. SingleElement'
    <2>1. SingleElement /\ creating' = creating /\ burstReqQueue' = burstReqQueue
      BY <1>2 DEF IInv
    <2>2. ASSUME NEW k \in 1 .. Len(mem'[DepthPort]) PROVE mem'[DepthPort][k].len = 1
      <3>1. \E j \in 1 .. Len(mem[DepthPort]) : mem'[DepthPort][k] = mem[DepthPort][j]
        BY <1>1, <1>4
      <3> QED BY <2>1, <3>1 DEF SingleElement
    <2>3. ASSUME NEW k \in 1 .. Len(burstRespQueue'[DepthPort]) PROVE Len(burstRespQueue'[DepthPort][k].data) = 1
      <3>1. \/ \E j \in 1 .. Len(burstRespQueue[DepthPort]) :
                   burstRespQueue'[DepthPort][k] = burstRespQueue[DepthPort][j]
            \/ \E j \in 1 .. Len(mem[DepthPort]) :
                   Len(burstRespQueue'[DepthPort][k].data) = mem[DepthPort][j].len
        BY <1>1, <1>4
      <3> QED BY <2>1, <3>1 DEF SingleElement
    <2>4. ASSUME NEW k \in 1 .. Len(mem'[WritePort]) PROVE Len(mem'[WritePort][k].data) = 1
      <3>1. \E j \in 1 .. Len(mem[WritePort]) : mem'[WritePort][k] = mem[WritePort][j]
        BY <1>1, <1>4
      <3> QED BY <2>1, <3>1 DEF SingleElement
    <2> QED BY <2>1, <2>2, <2>3, <2>4 DEF SingleElement
  <1>10. ServingHead'
    BY <1>2, <1>4 DEF IInv, ServingHead
  <1>11. WriteWindow' /\ VidxCount'
    BY <1>2 DEF IInv, WriteWindow, VidxCount
  <1>12. TypeOK'
    BY <1>2, <1>5, <1>6, <1>7 DEF IInv, TypeOK
  <1> QED
    BY <1>8, <1>9, <1>10, <1>11, <1>12 DEF IInv

-----------------------------------------------------------------------------
(* The monitor and the clock *)

\* statusMonitor only stops the simulation.
LEMMA monitorInv == ASSUME IInv, statusMonitor PROVE IInv'
  <1>1. busy' \in [Thread -> Nat]
    BY Threads, TurnType DEF IInv, statusMonitor
  <1>2. /\ stopped' \in BOOLEAN
        /\ UNCHANGED <<level, localCounter, bfsIterationStart, idx, frontierSize, armed, bfsDone,
                       currentLen, edges, creating, burstReqQueue, depthBuffer0,
                       frontierBuffer, rpaoBuffer, ciaoBuffer, vidxBuffer, depthBuffer1,
                       depthBuffer2, burstRespQueue, burstOpStatus, serving, mem, depth>>
    BY DEF statusMonitor, inspection, issuing, memory, IInv, TypeOK
  <1>3. TypeOK'
    BY <1>1, <1>2 DEF IInv, TypeOK
  <1>4. StatusExact' /\ WriteWindow' /\ ServingHead' /\ SingleElement' /\ VidxCount'
    BY <1>2 DEF IInv, StatusExact, WriteWindow, ServingHead, SingleElement, VidxCount
  <1> QED
    BY <1>3, <1>4 DEF IInv

\* Only the clock edge touches what bfsController keeps.
LEMMA tickKeeps ==
    ASSUME Tick
    PROVE  UNCHANGED <<stopped, idx, frontierSize, armed, bfsDone, currentLen, edges, creating,
                       burstReqQueue, depthBuffer0, frontierBuffer, rpaoBuffer, ciaoBuffer,
                       vidxBuffer, depthBuffer1, depthBuffer2, burstRespQueue, burstOpStatus,
                       serving, mem, depth>>
  BY DEF Tick, inspection, issuing, memory

\* The clock edge only changes the counters and the level, which stays a char.
LEMMA tickInv == ASSUME IInv, Tick PROVE IInv'
  <1>1. busy' \in [Thread -> Nat]
    <2>1. busy \in [Thread -> Nat] /\ (\A t \in Thread : busy[t] > 0)
          /\ busy' = [t \in Thread |-> busy[t] - 1]
      BY DEF Tick, IInv, TypeOK
    <2> QED BY <2>1
  <1>2. level' \in CharValue /\ localCounter' \in 0 .. EndCount /\ bfsIterationStart' \in BOOLEAN
    <2>1. /\ level \in CharValue /\ localCounter \in 0 .. EndCount
          /\ CharHalf \in Nat /\ EndCount \in Nat
      BY SizeAssumption DEF SizeAssumption, IInv, TypeOK
    <2>2. Char(level + 1) \in CharValue
      BY <2>1, CharWidth DEF CharValue
    <2> DEFINE count == IF localCounter < EndCount THEN localCounter + 1 ELSE localCounter
    <2>3. count \in 0 .. EndCount
      BY <2>1
    <2>4. /\ bfsIterationStart' = (count = StartCount)
          /\ localCounter' = 0 \/ localCounter' = count
          /\ level' = level \/ level' = Char(level + 1)
      BY DEF Tick, bfsController
    <2> HIDE DEF count
    <2> QED BY <2>1, <2>2, <2>3, <2>4
  <1>3. TypeOK'
    BY <1>1, <1>2, tickKeeps DEF IInv, TypeOK
  <1>4. StatusExact' /\ WriteWindow' /\ ServingHead' /\ SingleElement' /\ VidxCount'
    BY tickKeeps DEF IInv, StatusExact, WriteWindow, ServingHead, SingleElement, VidxCount
  <1> QED
    BY <1>3, <1>4 DEF IInv
-----------------------------------------------------------------------------
(* The specification *)

\* Everything is empty at first.
LEMMA initInv == ASSUME Init PROVE IInv
  <1>1. /\ V \in Nat /\ Start \in Vertex /\ CharHalf \in Nat /\ CharHalf > 0
        /\ EndCount \in Nat /\ EndCount > 1
    BY GraphAssumption, SizeAssumption DEF GraphAssumption, SizeAssumption
  <1>2. \A S : <<>> \in Seq(S) /\ Len(<<>>) = 0
    BY EmptySeq
  <1>3. \A p \in Part : PartBase(p) \in Nat /\ PartLen(p) \in Nat
    <2> SUFFICES ASSUME NEW p \in Part PROVE PartBase(p) \in Nat /\ PartLen(p) \in Nat
      OBVIOUS
    <2> QED BY PartFits
  <1>4. TypeOK
    <2>1. level \in CharValue /\ localCounter \in 0 .. EndCount
      BY <1>1 DEF Init, CharValue
    <2>2. idx \in [Part -> Nat] /\ currentLen \in [Part -> Nat] /\ depth \in [Vertex -> Int]
      BY <1>3 DEF Init
    <2>3. /\ depthBuffer0 \in [Part -> Seq(Int)] /\ creating \in [Port -> Burst]
          /\ burstReqQueue \in [Port -> Seq(Burst)] /\ mem \in [Port -> Seq(Burst)]
          /\ burstRespQueue \in [Port -> Seq(Burst)] /\ burstOpStatus \in [Port -> Nat]
          /\ serving \in [Port -> BOOLEAN] /\ busy \in [Thread -> Nat]
      BY <1>2, Bursts DEF Init
    <2>4. /\ frontierBuffer \in Seq(Nat) /\ rpaoBuffer \in Seq(Int) /\ ciaoBuffer \in Seq(Int)
          /\ vidxBuffer \in Seq(Int) /\ depthBuffer1 \in Seq(Int) /\ depthBuffer2 \in Seq(Int)
      BY <1>2 DEF Init
    <2>5. /\ bfsIterationStart \in BOOLEAN /\ armed \in BOOLEAN /\ bfsDone \in BOOLEAN
          /\ stopped \in BOOLEAN
      BY DEF Init
    <2>6. frontierSize \in Nat
      BY DEF Init
    <2>7. edges \in [next : Int, end : Int]
      BY DEF Init
    <2> QED BY <2>1, <2>2, <2>3, <2>4, <2>5, <2>6, <2>7 DEF TypeOK
  <1>5. StatusExact
    BY <1>2 DEF Init, StatusExact
  <1>6. WriteWindow /\ ServingHead /\ VidxCount
    BY <1>2, Ports DEF Init, WriteWindow, ServingHead, VidxCount
  <1>7. SingleElement
    BY <1>2, Ports DEF Init, SingleElement
  <1> QED
    BY <1>4, <1>5, <1>6, <1>7 DEF IInv

\* Every step keeps the inductive invariant.
LEMMA nextInv == ASSUME IInv, [Next]_vars PROVE IInv'
  <1>1. ASSUME NEW p \in Part, inspectDepthReqThread(p) PROVE IInv'
    BY <1>1, inspectReqInv
  <1>2. ASSUME NEW p \in Part, inspectDepthRespThread(p) PROVE IInv'
    BY <1>2, inspectRespInv
  <1>3. ASSUME NEW S \in SUBSET Port, getMemResp(S) PROVE IInv'
    BY <1>3, getInv
  <1>4. CASE UNCHANGED vars
    <2>1. UNCHANGED <<level, localCounter, bfsIterationStart, stopped, idx, frontierSize, armed,
                      bfsDone, currentLen, edges, creating, burstReqQueue, depthBuffer0,
                      frontierBuffer, rpaoBuffer, ciaoBuffer, vidxBuffer, depthBuffer1,
                      depthBuffer2, burstRespQueue, burstOpStatus, serving, busy, mem, depth>>
      BY <1>4 DEF vars, control, inspection, issuing, memory
    <2>2. TypeOK'
      BY <2>1 DEF IInv, TypeOK
    <2>3. StatusExact' /\ WriteWindow' /\ ServingHead' /\ SingleElement' /\ VidxCount'
      BY <2>1 DEF IInv, StatusExact, WriteWindow, ServingHead, SingleElement, VidxCount
    <2> QED BY <2>2, <2>3 DEF IInv
  <1> QED
    BY <1>1, <1>2, <1>3, <1>4, analysisInv, frontierInv, rpaoRespInv, ciaoReqInv, ciaoRespInv,
       depthReqInv, depthRespInv, expandInv, writeRespInv, sendInv, monitorInv, tickInv
    DEF Next

\* The inductive invariant of the processing element.
THEOREM Invariance == Spec => []IInv
  <1>1. Init => IInv
    BY initInv
  <1>2. IInv /\ [Next]_vars => IInv'
    BY nextInv
  <1> QED
    BY <1>1, <1>2, PTL DEF Spec

\* The type invariant, for every graph, size and order of the threads.
THEOREM TypeCorrect == Spec => []TypeOK
  <1>1. IInv => TypeOK
    BY DEF IInv
  <1> QED
    BY <1>1, Invariance, PTL

\* burstOpStatus, on which isEndOfBfsIteration relies, is never ahead of the
\* bursts of its port nor behind them.
THEOREM StatusIsExact == Spec => []StatusExact
  <1>1. IInv => StatusExact
    BY DEF IInv
  <1> QED
    BY <1>1, Invariance, PTL

\* When nothing is buffered or registered, nothing is on its way to memory.
LEMMA EndOfIteration ==
    ASSUME IInv, isEndOfBfsIteration
    PROVE  depthBuffer1 = <<>> /\ Pipeline(WritePort) = <<>>
  <1>1. WritePort \in Port
    BY Ports
  <1>2. /\ depthBuffer1 = <<>> /\ depthBuffer2 = <<>>
        /\ burstReqQueue[WritePort] = <<>> /\ burstRespQueue[WritePort] = <<>>
        /\ burstOpStatus[WritePort] = 0
    BY <1>1 DEF isEndOfBfsIteration, isBurstReqQueueEmpty, isBurstRespQueueEmpty, StatusEmpty,
      BuffersEmpty
  <1>3. creating[WritePort] = NoBurst
    BY <1>2, EmptySeq DEF IInv, WriteWindow
  <1>4. mem[WritePort] = <<>>
    <2>1. mem[WritePort] \in Seq(Burst)
      BY <1>1 DEF IInv, TypeOK
    <2>2. Len(mem[WritePort]) = 0
      <3>1. burstOpStatus[WritePort] = Len(burstReqQueue[WritePort]) + Len(mem[WritePort])
              + Len(burstRespQueue[WritePort])
        BY <1>1 DEF IInv, StatusExact
      <3>2. Len(mem[WritePort]) \in Nat /\ Len(<<>>) = 0
        BY <2>1, EmptySeq
      <3> QED BY <1>2, <3>1, <3>2
    <2>3. mem[WritePort] # <<>> => Len(mem[WritePort]) \in Nat \ {0}
      BY <2>1, EmptySeq, Zenon
    <2> QED BY <2>2, <2>3
  <1>5. <<>> \o <<>> = <<>>
    BY EmptySeq, ConcatEmptySeq
  <1> QED
    BY <1>2, <1>3, <1>4, <1>5 DEF Pipeline

\* No label of a level is on its way to memory when the level changes.
THEOREM NothingLeftBehind == Spec => NoLabelLeftBehind
  <1>1. ASSUME IInv, Next, LevelChanges
        PROVE  depthBuffer1 = <<>> /\ Pipeline(WritePort) = <<>>
    <2>1. CASE Tick
      <3>1. isEndOfBfsIteration
        BY <2>1, <1>1 DEF Tick, bfsController, LevelChanges
      <3> QED BY <1>1, <3>1, EndOfIteration
    <2>2. CASE ~Tick
      <3>1. level' = level
        BY <1>1, <2>2 DEF Next, inspectDepthReqThread, inspectDepthRespThread, Receive,
          inspectDepthAnalysis, frontierAnalysis, processExpandRpaoReadResp,
          issueExpandCiaoReadReq, processExpandCiaoReadResp, issueExpandDepthReadReq,
          processExpandDepthReadResp, expandDepthAnalysis, processExpandDepthWriteResp,
          sendMemReq, getMemResp, statusMonitor, control
      <3> QED BY <1>1, <3>1 DEF LevelChanges
    <2> QED BY <2>1, <2>2
  <1>2. IInv /\ [Next]_vars => [LevelChanges => depthBuffer1 = <<>> /\ Pipeline(WritePort) = <<>>]_vars
    BY <1>1
  <1> QED
    BY <1>2, Invariance, PTL DEF Spec, NoLabelLeftBehind

-----------------------------------------------------------------------------
(* The inspection of a level: while it runs, the bursts of a partition       *)
(* continue where the buffered depths end, and no level changes before it is *)
(* over.                                                                     *)

\* What the program's sizes give it (1024 of 4096, 10 before 20): a chunk and
\* one more depth fit into the buffer of a partition, and an iteration may not
\* end in the cycle after the one in which it starts.
RoomToScan == BaseLen + 1 < DepthBufferDepth /\ StartCount + 1 < EndCount

Req(p) == <<"issue", p>>

\* Thread t had its turn in the current cycle.
Ran(t) == busy[t] # 0

\* The threads that never wait more than a cycle; of the two that talk to the
\* memory, responses come first.
SingleCycle == {Analysis, SendReq, GetResp, Monitor} \cup {<<"issue", i>> : i \in Port}
TurnsOnce ==
    /\ \A t \in SingleCycle : busy[t] \in {0, 1}
    /\ Ran(SendReq) => Ran(GetResp)

\* A response of a read port has all its data.
DataKnown ==
    \A i \in Port \ {WritePort} : \A k \in 1 .. Len(burstRespQueue[i]) :
        Len(burstRespQueue[i][k].data) = burstRespQueue[i][k].len

\* Bursts in order from lo to hi: each starts where the one before ends, which
\* leaves them all between lo and hi (what follows only by induction over the
\* bursts, and is part of the invariant for that reason).
Chain(coming, lo, hi) ==
    /\ lo <= hi
    /\ hi = IF Len(coming) = 0 THEN lo ELSE coming[Len(coming)].at + coming[Len(coming)].len
    /\ \A k \in 1 .. Len(coming) :
         /\ coming[k].len > 0
         /\ coming[k].at = IF k = 1 THEN lo ELSE coming[k - 1].at + coming[k - 1].len
         /\ lo <= coming[k].at /\ coming[k].at + coming[k].len <= hi
         /\ \A j \in 1 .. k - 1 : coming[j].at + coming[j].len <= coming[k].at

\* Where the buffered depths of a partition end, and where its requests end.
Buffered(p) == idx[p] + Len(depthBuffer0[p])
Asked(p) == PartBase(p) + currentLen[p] + creating[p].len

\* The depths that are buffered for the analysis of a cycle.
Left(p) == IF Ran(Analysis) THEN Len(depthBuffer0[p]) + 1 ELSE Len(depthBuffer0[p])

\* A request of the partition is queued, or sent and not to be answered before
\* the next cycle.
Underway(p) == burstReqQueue[p] # <<>> \/ (Ran(GetResp) /\ mem[p] # <<>>)

\* A thread that waits for room leaves depths to analyse, and one that builds
\* a burst has published the one before unless there still are some: the end
\* of the iteration cannot be seen between two chunks.
Busy(p) ==
    /\ creating[p] = NoBurst /\ currentLen[p] < PartLen(p) =>
         Left(p) >= IF Ran(Req(p)) THEN 3 ELSE 2
    /\ creating[p] # NoBurst /\ Ran(Req(p)) => Underway(p) \/ Left(p) >= 2

Scanning(p) ==
    /\ PartBase(p) <= idx[p] /\ Asked(p) <= PartBase(p) + PartLen(p)
    /\ Chain(Pipeline(p), Buffered(p), Asked(p))
    /\ Busy(p)

\* Before an iteration starts, and in its first cycle once the issuing thread
\* of the partition had its turn.
Quiet(p) == depthBuffer0[p] = <<>> /\ burstOpStatus[p] = 0
Idle(p) == Quiet(p) /\ creating[p] = NoBurst /\ currentLen[p] = PartLen(p)
Begun(p) ==
    /\ Quiet(p) /\ currentLen[p] = 0
    /\ creating[p] = IF PartLen(p) = 0 THEN NoBurst
                     ELSE NewBurst(PartBase(p), Lesser(BaseLen, PartLen(p)))

\* The phases of an iteration, for a partition.
PhaseOf(p) ==
    /\ localCounter < StartCount => Idle(p)
    /\ localCounter = StartCount =>
         /\ IF Ran(Req(p)) THEN Begun(p) ELSE Idle(p)
         /\ Ran(Analysis) => idx[p] = PartBase(p)
    /\ localCounter > StartCount => Scanning(p)

AllAnalyzed == \A p \in Part : idx[p] = PartBase(p) + PartLen(p)

\* The end of the inspection is watched for until every depth is analysed.
Watching ==
    /\ bfsIterationStart <=> localCounter = StartCount
    /\ armed => localCounter >= StartCount /\ ~AllAnalyzed

Phases == Watching /\ \A p \in Part : PhaseOf(p)

ScanInv == TurnsOnce /\ DataKnown /\ Phases
-----------------------------------------------------------------------------
(* Turns *)

\* What a step is to the scheduler: a turn of one thread, or the clock edge.
LEMMA StepIsTurn ==
    ASSUME IInv, Next, ~Tick
    PROVE  \E t \in Thread, n \in Nat : Turn(t, n) /\ (t \in SingleCycle => n = 1)
  <1> DEFINE Goal == \E t \in Thread, n \in Nat : Turn(t, n) /\ (t \in SingleCycle => n = 1)
  <1>1. \A i \in Port : Receive(i) /\ i # WritePort => Goal
    <2> SUFFICES ASSUME NEW i \in Port, Receive(i), i # WritePort PROVE Goal
      OBVIOUS
    <2> DEFINE rest == IF serving[i] THEN Tail(burstRespQueue[i]) ELSE burstRespQueue[i]
               n == IF rest = <<>> THEN 1 ELSE Head(rest).len
    <2>1. Turn(<<"resp", i>>, n)
      BY DEF Receive
    <2>2. burstRespQueue[i] \in Seq(Burst) /\ (serving[i] => burstRespQueue[i] # <<>>)
      BY DEF IInv, TypeOK, ServingHead
    <2>3. rest \in Seq(Burst)
      BY <2>2
    <2>4. n \in Nat
      <3>1. rest # <<>> => Head(rest) \in Burst
        BY <2>3
      <3> QED BY <3>1 DEF Burst
    <2>5. <<"resp", i>> \notin SingleCycle
      BY DEF SingleCycle, Analysis, SendReq, GetResp, Monitor
    <2> HIDE DEF n
    <2> QED BY <2>1, <2>4, <2>5, Threads
  <1>2. ASSUME NEW p \in Part, inspectDepthReqThread(p) \/ inspectDepthRespThread(p) PROVE Goal
    <2>1. p \in Port /\ p # WritePort
      BY Ports
    <2> QED BY <1>1, <1>2, <2>1, Threads DEF inspectDepthReqThread, inspectDepthRespThread
  <1>3. CASE processExpandRpaoReadResp \/ processExpandCiaoReadResp \/ processExpandDepthReadResp
    BY <1>1, <1>3, Ports DEF processExpandRpaoReadResp, processExpandCiaoReadResp,
      processExpandDepthReadResp
  <1>4. CASE inspectDepthAnalysis \/ frontierAnalysis \/ issueExpandCiaoReadReq
          \/ issueExpandDepthReadReq \/ expandDepthAnalysis
    BY <1>4, Threads, Ports DEF inspectDepthAnalysis, frontierAnalysis, issueExpandCiaoReadReq,
      issueExpandDepthReadReq, expandDepthAnalysis
  <1>5. CASE processExpandDepthWriteResp
    BY <1>5, Threads, Ports DEF processExpandDepthWriteResp
  <1>6. CASE sendMemReq \/ (\E S \in SUBSET Port : getMemResp(S)) \/ statusMonitor
    BY <1>6, Threads DEF sendMemReq, getMemResp, statusMonitor
  <1> HIDE DEF Goal
  <1> QED
    BY <1>2, <1>3, <1>4, <1>5, <1>6 DEF Next, Goal

\* The single-cycle threads are threads.
LEMMA SingleCycleThreads == SingleCycle \subseteq Thread
  BY Threads DEF SingleCycle

\* Every single-cycle thread has its turn once in a cycle, and the responses
\* of the memory come before its requests.
LEMMA TurnsStep == ASSUME IInv, TurnsOnce, [Next]_vars PROVE TurnsOnce'
  <1>1. busy \in [Thread -> Nat] /\ GetResp \in SingleCycle /\ SendReq \in SingleCycle
        /\ GetResp # SendReq
    BY DEF IInv, TypeOK, SingleCycle, GetResp, SendReq
  <1>2. CASE Tick
    <2>1. (\A t \in Thread : busy[t] > 0) /\ busy' = [t \in Thread |-> busy[t] - 1]
      BY <1>2 DEF Tick
    <2>2. \A t \in SingleCycle : busy[t] = 1 /\ busy'[t] = 0
      BY <1>1, <2>1, SingleCycleThreads DEF TurnsOnce
    <2> QED BY <1>1, <2>2 DEF TurnsOnce, Ran
  <1>3. CASE Next /\ ~Tick
    <2>1. PICK t \in Thread, n \in Nat : Turn(t, n) /\ (t \in SingleCycle => n = 1)
      BY <1>3, StepIsTurn
    <2>2. /\ busy[t] = 0 /\ busy' = [busy EXCEPT ![t] = n]
          /\ \A u \in Thread : busy[u] = 0 => Rank[t] <= Rank[u]
      BY <2>1 DEF Turn
    <2>3. \A u \in SingleCycle : busy'[u] \in {0, 1}
      BY <1>1, <2>1, <2>2, SingleCycleThreads DEF TurnsOnce
    <2>4. busy'[SendReq] # 0 => busy'[GetResp] # 0
      <3>1. CASE t = SendReq
        <4>1. busy[GetResp] # 0
          BY <2>2, <3>1, RankAssumption, Threads DEF RankAssumption
        <4> QED BY <1>1, <2>2, <3>1, <4>1, Threads
      <3>2. CASE t = GetResp
        BY <1>1, <2>1, <2>2, <3>2, Threads
      <3>3. CASE t # SendReq /\ t # GetResp
        BY <1>1, <2>2, <3>3, Threads DEF TurnsOnce, Ran
      <3> QED BY <3>1, <3>2, <3>3
    <2> QED BY <2>3, <2>4 DEF TurnsOnce, Ran
  <1>4. CASE UNCHANGED vars
    BY <1>4 DEF vars, TurnsOnce, Ran
  <1> QED BY <1>2, <1>3, <1>4
-----------------------------------------------------------------------------
(* The bursts of a port, from the oldest to the one under creation *)

\* Two sequences one after the other.
LEMMA Joined2 ==
    ASSUME NEW S, NEW a \in Seq(S), NEW b \in Seq(S)
    PROVE  /\ a \o b \in Seq(S) /\ Len(a \o b) = Len(a) + Len(b)
           /\ \A k \in 1 .. Len(a) + Len(b) :
                (a \o b)[k] = IF k <= Len(a) THEN a[k] ELSE b[k - Len(a)]
  OBVIOUS

\* Four sequences one after the other.
LEMMA Joined ==
    ASSUME NEW S, NEW r \in Seq(S), NEW m \in Seq(S), NEW q \in Seq(S), NEW c \in Seq(S)
    PROVE  LET all == r \o m \o q \o c
           IN  /\ all \in Seq(S) /\ Len(all) = Len(r) + Len(m) + Len(q) + Len(c)
               /\ \A k \in 1 .. Len(all) :
                    all[k] = IF k <= Len(r) THEN r[k]
                             ELSE IF k <= Len(r) + Len(m) THEN m[k - Len(r)]
                             ELSE IF k <= Len(r) + Len(m) + Len(q) THEN q[k - (Len(r) + Len(m))]
                             ELSE c[k - (Len(r) + Len(m) + Len(q))]
  <1>0. PICK rm \in Seq(S) : rm = r \o m
    BY Joined2
  <1>00. PICK rmq \in Seq(S) : rmq = rm \o q
    BY Joined2
  <1> DEFINE all == rmq \o c
  <1>1. /\ Len(rm) = Len(r) + Len(m)
        /\ \A k \in 1 .. Len(rm) : rm[k] = IF k <= Len(r) THEN r[k] ELSE m[k - Len(r)]
    BY <1>0, Joined2
  <1>2. /\ Len(rmq) = Len(rm) + Len(q)
        /\ \A k \in 1 .. Len(rmq) : rmq[k] = IF k <= Len(rm) THEN rm[k] ELSE q[k - Len(rm)]
    BY <1>00, Joined2
  <1>3. /\ all \in Seq(S) /\ Len(all) = Len(rmq) + Len(c)
        /\ \A k \in 1 .. Len(all) : all[k] = IF k <= Len(rmq) THEN rmq[k] ELSE c[k - Len(rmq)]
    BY Joined2
  <1>4. Len(r) \in Nat /\ Len(m) \in Nat /\ Len(q) \in Nat /\ Len(c) \in Nat
    OBVIOUS
  <1>5. ASSUME NEW k \in 1 .. Len(all)
        PROVE  all[k] = IF k <= Len(r) THEN r[k]
                        ELSE IF k <= Len(r) + Len(m) THEN m[k - Len(r)]
                        ELSE IF k <= Len(r) + Len(m) + Len(q) THEN q[k - (Len(r) + Len(m))]
                        ELSE c[k - (Len(r) + Len(m) + Len(q))]
    <2> HIDE DEF all
    <2>1. k \in Nat /\ k >= 1 /\ k <= Len(all)
      BY <1>1, <1>2, <1>3, <1>4
    <2>2. CASE k <= Len(r)
      <3>1. k \in 1 .. Len(rm) /\ k \in 1 .. Len(rmq) /\ k <= Len(rm) /\ k <= Len(rmq)
        BY <1>1, <1>2, <1>4, <2>1, <2>2
      <3> QED BY <1>1, <1>2, <1>3, <2>2, <3>1
    <2>3. CASE ~(k <= Len(r)) /\ k <= Len(r) + Len(m)
      <3>1. k \in 1 .. Len(rm) /\ k \in 1 .. Len(rmq) /\ k <= Len(rm) /\ k <= Len(rmq)
        BY <1>1, <1>2, <1>4, <2>1, <2>3
      <3> QED BY <1>1, <1>2, <1>3, <2>3, <3>1
    <2>4. CASE ~(k <= Len(r) + Len(m)) /\ k <= Len(r) + Len(m) + Len(q)
      <3>1. k \in 1 .. Len(rmq) /\ ~(k <= Len(rm)) /\ k <= Len(rmq) /\ ~(k <= Len(r))
        BY <1>1, <1>2, <1>4, <2>1, <2>4
      <3> QED BY <1>1, <1>2, <1>3, <2>4, <3>1
    <2>5. CASE ~(k <= Len(r) + Len(m) + Len(q))
      <3>1. ~(k <= Len(rmq)) /\ ~(k <= Len(r) + Len(m)) /\ ~(k <= Len(r))
        BY <1>1, <1>2, <1>4, <2>1, <2>5
      <3>2. Len(rmq) = Len(r) + Len(m) + Len(q)
        BY <1>1, <1>2, <1>4
      <3> QED BY <1>3, <2>5, <3>1, <3>2
    <2> QED BY <2>2, <2>3, <2>4, <2>5
  <1> HIDE DEF all
  <1>6. Len(all) = Len(r) + Len(m) + Len(q) + Len(c)
    BY <1>1, <1>2, <1>3, <1>4
  <1> QED
    BY <1>0, <1>00, <1>3, <1>5, <1>6 DEF all

\* The end of a pipeline: the burst under creation, if there is one.
Last(b) == IF b = NoBurst THEN <<>> ELSE <<b>>

LEMMA Lasts ==
    ASSUME NEW b \in Burst
    PROVE  /\ Last(b) \in Seq(Burst) /\ Len(Last(b)) = IF b = NoBurst THEN 0 ELSE 1
           /\ b # NoBurst => Last(b)[1] = b
  BY DEF Last

\* A pipeline all, seen as its responses, the bursts in memory, the queued
\* requests and the burst under creation.
IsPipe(all, r, m, q, c) ==
    /\ all \in Seq(Burst)
    /\ Len(all) = Len(r) + Len(m) + Len(q) + (IF c = NoBurst THEN 0 ELSE 1)
    /\ \A k \in 1 .. Len(all) :
         all[k] = IF k <= Len(r) THEN r[k]
                  ELSE IF k <= Len(r) + Len(m) THEN m[k - Len(r)]
                  ELSE IF k <= Len(r) + Len(m) + Len(q) THEN q[k - (Len(r) + Len(m))]
                  ELSE c

LEMMA PipelineAt ==
    ASSUME NEW r \in Seq(Burst), NEW m \in Seq(Burst), NEW q \in Seq(Burst), NEW c \in Burst
    PROVE  IsPipe(r \o m \o q \o Last(c), r, m, q, c)
  <1> PICK e \in Seq(Burst) : e = Last(c)
    BY Lasts
  <1>1. Len(e) = (IF c = NoBurst THEN 0 ELSE 1) /\ (c # NoBurst => e[1] = c)
    BY Lasts
  <1> PICK all : all = r \o m \o q \o e
    OBVIOUS
  <1>2. /\ all \in Seq(Burst) /\ Len(all) = Len(r) + Len(m) + Len(q) + Len(e)
        /\ \A k \in 1 .. Len(all) :
             all[k] = IF k <= Len(r) THEN r[k]
                      ELSE IF k <= Len(r) + Len(m) THEN m[k - Len(r)]
                      ELSE IF k <= Len(r) + Len(m) + Len(q) THEN q[k - (Len(r) + Len(m))]
                      ELSE e[k - (Len(r) + Len(m) + Len(q))]
    BY Joined
  <1>3. Len(r) \in Nat /\ Len(m) \in Nat /\ Len(q) \in Nat
    OBVIOUS
  <1>4. ASSUME NEW k \in 1 .. Len(all), ~(k <= Len(r) + Len(m) + Len(q))
        PROVE  e[k - (Len(r) + Len(m) + Len(q))] = c
    <2>1. k - (Len(r) + Len(m) + Len(q)) = 1 /\ c # NoBurst
      BY <1>1, <1>2, <1>3, <1>4
    <2> QED BY <2>1, <1>1
  <1> QED
    BY <1>1, <1>2, <1>4 DEF IsPipe

\* The burst under creation, c, is queued as d and followed by b.
Push(old, new, r, m, q, n, c, d, b) ==
    /\ {r, m, q, n} \subseteq Seq(Burst) /\ {c, d, b} \subseteq Burst
    /\ d.at = c.at /\ d.len = c.len
    /\ c = NoBurst => n = q
    /\ c # NoBurst => /\ Len(n) = Len(q) + 1 /\ n[Len(q) + 1] = d
                      /\ \A k \in 1 .. Len(q) : n[k] = q[k]
    /\ IsPipe(old, r, m, q, c) /\ IsPipe(new, r, m, n, b)

LEMMA Pushed ==
    ASSUME NEW r, NEW m, NEW q, NEW n, NEW c, NEW d, NEW b, NEW old, NEW new,
           Push(old, new, r, m, q, n, c, d, b)
    PROVE  /\ Len(new) = Len(old) + (IF b = NoBurst THEN 0 ELSE 1)
           /\ \A k \in 1 .. Len(old) : new[k].at = old[k].at /\ new[k].len = old[k].len
           /\ b # NoBurst => new[Len(old) + 1] = b
  <1> /\ r \in Seq(Burst) /\ m \in Seq(Burst) /\ q \in Seq(Burst) /\ n \in Seq(Burst)
      /\ d.at = c.at /\ d.len = c.len /\ (c = NoBurst => n = q)
      /\ IsPipe(old, r, m, q, c) /\ IsPipe(new, r, m, n, b)
    BY Zenon DEF Push
  <1>5. c # NoBurst => /\ Len(n) = Len(q) + 1 /\ n[Len(q) + 1] = d
                       /\ \A k \in 1 .. Len(q) : n[k] = q[k]
    BY Zenon DEF Push
  <1>7. /\ old \in Seq(Burst)
        /\ Len(old) = Len(r) + Len(m) + Len(q) + (IF c = NoBurst THEN 0 ELSE 1)
        /\ \A k \in 1 .. Len(old) :
             old[k] = IF k <= Len(r) THEN r[k]
                      ELSE IF k <= Len(r) + Len(m) THEN m[k - Len(r)]
                      ELSE IF k <= Len(r) + Len(m) + Len(q) THEN q[k - (Len(r) + Len(m))]
                      ELSE c
    BY Zenon DEF IsPipe
  <1>8. /\ new \in Seq(Burst)
        /\ Len(new) = Len(r) + Len(m) + Len(n) + (IF b = NoBurst THEN 0 ELSE 1)
        /\ \A k \in 1 .. Len(new) :
             new[k] = IF k <= Len(r) THEN r[k]
                      ELSE IF k <= Len(r) + Len(m) THEN m[k - Len(r)]
                      ELSE IF k <= Len(r) + Len(m) + Len(n) THEN n[k - (Len(r) + Len(m))]
                      ELSE b
    BY Zenon DEF IsPipe
  <1>6. Len(r) \in Nat /\ Len(m) \in Nat /\ Len(q) \in Nat /\ Len(n) \in Nat
    OBVIOUS
  <1>9. /\ Len(r) \in Nat /\ Len(m) \in Nat /\ Len(q) \in Nat /\ Len(n) \in Nat
        /\ Len(r) + Len(m) + Len(n) = Len(old)
    <2>1. CASE c = NoBurst
      BY <2>1, <1>6, <1>7
    <2>2. CASE c # NoBurst
      <3>1. Len(n) = Len(q) + 1 /\ Len(old) = Len(r) + Len(m) + Len(q) + 1
        BY <2>2, <1>5, <1>7, Zenon
      <3> QED BY <3>1, <1>6
    <2> QED BY <2>1, <2>2
  <1>10. Len(new) = Len(old) + (IF b = NoBurst THEN 0 ELSE 1)
    BY <1>8, <1>9
  <1>11. ASSUME b # NoBurst PROVE new[Len(old) + 1] = b
    <2>1. Len(old) + 1 \in 1 .. Len(new)
      BY <1>9, <1>10, <1>11
    <2>2. /\ ~(Len(old) + 1 <= Len(r)) /\ ~(Len(old) + 1 <= Len(r) + Len(m))
          /\ ~(Len(old) + 1 <= Len(r) + Len(m) + Len(n))
      BY <1>9
    <2> QED BY <1>8, <2>1, <2>2, Zenon
  <1>12. ASSUME NEW k \in 1 .. Len(old)
         PROVE  new[k].at = old[k].at /\ new[k].len = old[k].len
    <2>1. k \in 1 .. Len(new) /\ k \in Nat /\ k <= Len(old)
      BY <1>9, <1>10
    <2>2. CASE k <= Len(r) + Len(m)
      BY <2>1, <2>2, <1>7, <1>8
    <2>3. CASE ~(k <= Len(r) + Len(m)) /\ k <= Len(r) + Len(m) + Len(q)
      <3>1. k - (Len(r) + Len(m)) \in 1 .. Len(q)
        BY <2>1, <2>3, <1>9
      <3>2. n[k - (Len(r) + Len(m))] = q[k - (Len(r) + Len(m))]
        BY <3>1, <1>5
      <3>3. ~(k <= Len(r)) /\ k <= Len(r) + Len(m) + Len(n)
        BY <2>1, <2>3, <1>9
      <3> QED BY <2>1, <2>3, <3>2, <3>3, <1>7, <1>8
    <2>4. CASE ~(k <= Len(r) + Len(m) + Len(q))
      <3>1. c # NoBurst /\ k - (Len(r) + Len(m)) = Len(q) + 1 /\ ~(k <= Len(r) + Len(m)) /\ ~(k <= Len(r))
        BY <2>1, <2>4, <1>7, <1>9
      <3>2. n[k - (Len(r) + Len(m))] = d
        BY <3>1, <1>5
      <3>3. new[k] = d /\ old[k] = c
        BY <2>1, <2>4, <3>1, <3>2, <1>7, <1>8, <1>9
      <3> QED BY <3>3
    <2> QED BY <2>2, <2>3, <2>4
  <1> QED
    BY <1>10, <1>11, <1>12

\* An issuing thread: the burst it publishes keeps its place, the one it
\* builds is the last.
LEMMA IssuePipe ==
    ASSUME IInv, NEW i \in Port, NEW data \in Seq(Int), NEW b \in Burst,
           Publish(i, data), creating' = [creating EXCEPT ![i] = b],
           UNCHANGED <<mem, burstRespQueue>>
    PROVE  /\ \A j \in Port \ {i} : Pipeline(j)' = Pipeline(j)
           /\ Pipeline(i) \in Seq(Burst) /\ Pipeline(i)' \in Seq(Burst)
           /\ Len(Pipeline(i)') = Len(Pipeline(i)) + (IF b = NoBurst THEN 0 ELSE 1)
           /\ \A k \in 1 .. Len(Pipeline(i)) :
                Pipeline(i)'[k].at = Pipeline(i)[k].at /\ Pipeline(i)'[k].len = Pipeline(i)[k].len
           /\ b # NoBurst => Pipeline(i)'[Len(Pipeline(i)) + 1] = b
  <1>1. /\ burstReqQueue \in [Port -> Seq(Burst)] /\ creating \in [Port -> Burst]
        /\ mem \in [Port -> Seq(Burst)] /\ burstRespQueue \in [Port -> Seq(Burst)]
    BY DEF IInv, TypeOK
  <1>2. PICK d \in Burst :
          /\ d.at = creating[i].at /\ d.len = creating[i].len
          /\ creating[i] # NoBurst =>
               burstReqQueue' = [burstReqQueue EXCEPT ![i] = Append(burstReqQueue[i], d)]
          /\ creating[i] = NoBurst => burstReqQueue' = burstReqQueue
    <2> DEFINE e == [creating[i] EXCEPT !.data = data]
    <2>1. e \in Burst /\ e.at = creating[i].at /\ e.len = creating[i].len
      BY <1>1 DEF Burst
    <2>2. /\ creating[i] # NoBurst =>
               burstReqQueue' = [burstReqQueue EXCEPT ![i] = Append(burstReqQueue[i], e)]
          /\ creating[i] = NoBurst => burstReqQueue' = burstReqQueue
      BY DEF Publish
    <2> HIDE DEF e
    <2> QED BY <2>1, <2>2
  <1>3. ASSUME NEW j \in Port \ {i}
        PROVE  /\ burstReqQueue'[j] = burstReqQueue[j] /\ creating'[j] = creating[j]
               /\ burstRespQueue'[j] = burstRespQueue[j] /\ mem'[j] = mem[j]
    BY <1>1, <1>2
  <1>4. ASSUME NEW j \in Port \ {i} PROVE Pipeline(j)' = Pipeline(j)
    <2>1. /\ burstReqQueue'[j] = burstReqQueue[j] /\ creating'[j] = creating[j]
          /\ burstRespQueue'[j] = burstRespQueue[j] /\ mem'[j] = mem[j]
      BY <1>3, <1>4
    <2>2. Last(creating'[j]) = Last(creating[j])
      BY <2>1
    <2>3. Pipeline(j) = burstRespQueue[j] \o mem[j] \o burstReqQueue[j] \o Last(creating[j])
      BY Zenon DEF Pipeline, Last
    <2>4. Pipeline(j)' = burstRespQueue'[j] \o mem'[j] \o burstReqQueue'[j] \o Last(creating'[j])
      BY Zenon DEF Pipeline, Last
    <2> QED BY <2>1, <2>2, <2>3, <2>4, Zenon
  <1>5. /\ creating'[i] = b
        /\ burstReqQueue'[i] = IF creating[i] = NoBurst THEN burstReqQueue[i]
                               ELSE Append(burstReqQueue[i], d)
    BY <1>1, <1>2
  <1>6. burstReqQueue'[i] \in Seq(Burst)
    BY <1>1, <1>5
  <1>10. creating[i] # NoBurst =>
           /\ Len(burstReqQueue'[i]) = Len(burstReqQueue[i]) + 1
           /\ burstReqQueue'[i][Len(burstReqQueue[i]) + 1] = d
           /\ \A k \in 1 .. Len(burstReqQueue[i]) : burstReqQueue'[i][k] = burstReqQueue[i][k]
    BY <1>1, <1>5
  <1>8. /\ burstRespQueue[i] \in Seq(Burst) /\ mem[i] \in Seq(Burst) /\ burstReqQueue[i] \in Seq(Burst)
        /\ creating[i] \in Burst
    BY <1>1
  <1>7. /\ IsPipe(Pipeline(i), burstRespQueue[i], mem[i], burstReqQueue[i], creating[i])
        /\ IsPipe(Pipeline(i)', burstRespQueue[i], mem[i], burstReqQueue'[i], b)
    BY <1>5, <1>6, <1>8, PipelineAt, Zenon DEF Pipeline, Last
  <1>9. /\ Pipeline(i) \in Seq(Burst) /\ Pipeline(i)' \in Seq(Burst)
        /\ Len(Pipeline(i)') = Len(Pipeline(i)) + (IF b = NoBurst THEN 0 ELSE 1)
        /\ \A k \in 1 .. Len(Pipeline(i)) :
             Pipeline(i)'[k].at = Pipeline(i)[k].at /\ Pipeline(i)'[k].len = Pipeline(i)[k].len
        /\ b # NoBurst => Pipeline(i)'[Len(Pipeline(i)) + 1] = b
    <2>1. creating[i] = NoBurst => burstReqQueue'[i] = burstReqQueue[i]
      BY <1>5
    <2>2. Pipeline(i) \in Seq(Burst) /\ Pipeline(i)' \in Seq(Burst)
      BY <1>7, Zenon DEF IsPipe
    <2>3. Push(Pipeline(i), Pipeline(i)', burstRespQueue[i], mem[i], burstReqQueue[i],
               burstReqQueue'[i], creating[i], d, b)
      BY <1>2, <1>6, <1>7, <1>8, <1>10, <2>1, Zenon DEF Push
    <2> QED BY <2>2, <2>3, Pushed
  <1> QED
    BY <1>4, <1>9

\* A pipeline, seen through its queues, in this state and in the next one.
LEMMA PipeOf ==
    ASSUME IInv, NEW i \in Port
    PROVE  IsPipe(Pipeline(i), burstRespQueue[i], mem[i], burstReqQueue[i], creating[i])
  <1>1. /\ burstReqQueue[i] \in Seq(Burst) /\ creating[i] \in Burst
        /\ mem[i] \in Seq(Burst) /\ burstRespQueue[i] \in Seq(Burst)
    BY DEF IInv, TypeOK
  <1> QED
    BY <1>1, PipelineAt, Zenon DEF Pipeline, Last

LEMMA PipeOfNext ==
    ASSUME IInv', NEW i \in Port
    PROVE  IsPipe(Pipeline(i)', burstRespQueue'[i], mem'[i], burstReqQueue'[i], creating'[i])
  <1>1. /\ burstReqQueue'[i] \in Seq(Burst) /\ creating'[i] \in Burst
        /\ mem'[i] \in Seq(Burst) /\ burstRespQueue'[i] \in Seq(Burst)
    BY DEF IInv, TypeOK
  <1> QED
    BY <1>1, PipelineAt, Zenon DEF Pipeline, Last

\* What leaves the queues of a port alone leaves its pipeline alone.
LEMMA SamePipe ==
    ASSUME NEW i \in Port, burstRespQueue'[i] = burstRespQueue[i], mem'[i] = mem[i],
           burstReqQueue'[i] = burstReqQueue[i], creating'[i] = creating[i]
    PROVE  Pipeline(i)' = Pipeline(i)
  BY DEF Pipeline

\* The oldest request goes to memory.
Send(old, new, r, m, q, m2, q2, c) ==
    /\ {r, m, q, m2, q2} \subseteq Seq(Burst) /\ c \in Burst
    /\ Len(q) > 0 /\ Len(m2) = Len(m) + 1 /\ Len(q2) = Len(q) - 1
    /\ \A k \in 1 .. Len(m) : m2[k] = m[k]
    /\ m2[Len(m) + 1] = q[1]
    /\ \A k \in 1 .. Len(q2) : q2[k] = q[k + 1]
    /\ IsPipe(old, r, m, q, c) /\ IsPipe(new, r, m2, q2, c)

LEMMA Sent ==
    ASSUME NEW r, NEW m, NEW q, NEW c, NEW m2, NEW q2, NEW old, NEW new,
           Send(old, new, r, m, q, m2, q2, c)
    PROVE  new = old
  <1> /\ r \in Seq(Burst) /\ m \in Seq(Burst) /\ q \in Seq(Burst) /\ c \in Burst
      /\ m2 \in Seq(Burst) /\ q2 \in Seq(Burst)
      /\ Len(q) > 0 /\ Len(m2) = Len(m) + 1 /\ Len(q2) = Len(q) - 1
      /\ \A k \in 1 .. Len(m) : m2[k] = m[k]
      /\ m2[Len(m) + 1] = q[1]
      /\ \A k \in 1 .. Len(q2) : q2[k] = q[k + 1]
      /\ IsPipe(old, r, m, q, c) /\ IsPipe(new, r, m2, q2, c)
    BY Zenon DEF Send
  <1>1. Len(r) \in Nat /\ Len(m) \in Nat /\ Len(q) \in Nat /\ Len(m2) \in Nat /\ Len(q2) \in Nat
    OBVIOUS
  <1> PICK l \in Nat : l = IF c = NoBurst THEN 0 ELSE 1
    OBVIOUS
  <1>2. /\ old \in Seq(Burst) /\ new \in Seq(Burst)
        /\ Len(old) = Len(r) + Len(m) + Len(q) + l
        /\ Len(new) = Len(r) + Len(m2) + Len(q2) + l
        /\ \A k \in 1 .. Len(old) :
             old[k] = IF k <= Len(r) THEN r[k]
                      ELSE IF k <= Len(r) + Len(m) THEN m[k - Len(r)]
                      ELSE IF k <= Len(r) + Len(m) + Len(q) THEN q[k - (Len(r) + Len(m))]
                      ELSE c
        /\ \A k \in 1 .. Len(new) :
             new[k] = IF k <= Len(r) THEN r[k]
                      ELSE IF k <= Len(r) + Len(m2) THEN m2[k - Len(r)]
                      ELSE IF k <= Len(r) + Len(m2) + Len(q2) THEN q2[k - (Len(r) + Len(m2))]
                      ELSE c
    BY DEF IsPipe
  <1>3. Len(new) = Len(old)
    BY <1>1, <1>2
  <1>4. ASSUME NEW k \in 1 .. Len(old) PROVE new[k] = old[k]
    <2>1. k \in 1 .. Len(new) /\ k \in Nat /\ 1 <= k
      BY <1>2, <1>3
    <2>2. CASE k <= Len(r)
      BY <1>2, <2>1, <2>2
    <2>3. CASE ~(k <= Len(r)) /\ k <= Len(r) + Len(m)
      <3>1. k <= Len(r) + Len(m2) /\ k - Len(r) \in 1 .. Len(m)
        BY <1>1, <2>1, <2>3
      <3> QED BY <1>2, <2>1, <2>3, <3>1
    <2>4. CASE k = Len(r) + Len(m) + 1
      <3>1. /\ ~(k <= Len(r)) /\ k <= Len(r) + Len(m2) /\ k - Len(r) = Len(m) + 1
            /\ ~(k <= Len(r) + Len(m)) /\ k <= Len(r) + Len(m) + Len(q) /\ k - (Len(r) + Len(m)) = 1
        BY <1>1, <2>1, <2>4
      <3>2. new[k] = m2[Len(m) + 1] /\ old[k] = q[1]
        BY <1>2, <2>1, <3>1
      <3> QED BY <3>2
    <2>5. CASE Len(r) + Len(m) + 1 < k /\ k <= Len(r) + Len(m) + Len(q)
      <3>1. /\ ~(k <= Len(r)) /\ ~(k <= Len(r) + Len(m2)) /\ ~(k <= Len(r) + Len(m))
            /\ k <= Len(r) + Len(m2) + Len(q2)
        BY <1>1, <2>1, <2>5
      <3>9. k - (Len(r) + Len(m2)) \in 1 .. Len(q2)
            /\ (k - (Len(r) + Len(m2))) + 1 = k - (Len(r) + Len(m))
        BY <1>1, <2>1, <2>5
      <3> PICK j \in 1 .. Len(q2) : j = k - (Len(r) + Len(m2)) /\ j + 1 = k - (Len(r) + Len(m))
        BY <3>9, Zenon
      <3>2. new[k] = q2[j] /\ old[k] = q[j + 1]
        BY <1>2, <2>1, <2>5, <3>1
      <3> QED BY <3>2
    <2>6. CASE ~(k <= Len(r) + Len(m) + Len(q))
      <3>1. /\ ~(k <= Len(r)) /\ ~(k <= Len(r) + Len(m2)) /\ ~(k <= Len(r) + Len(m))
            /\ ~(k <= Len(r) + Len(m2) + Len(q2))
        BY <1>1, <2>1, <2>6
      <3> QED BY <1>2, <2>1, <2>6, <3>1
    <2>7. \/ k <= Len(r) + Len(m) \/ k = Len(r) + Len(m) + 1
          \/ Len(r) + Len(m) + 1 < k
      <3>1. \A a, b \in Int : a <= b \/ a = b + 1 \/ b + 1 < a
        OBVIOUS
      <3>2. Len(r) + Len(m) \in Int /\ k \in Int
        BY <1>1, <2>1
      <3> QED BY <3>1, <3>2, Zenon
    <2> QED BY <2>2, <2>3, <2>4, <2>5, <2>6, <2>7, Zenon
  <1> QED
    BY <1>2, <1>3, <1>4, SeqEqual

\* The oldest burst in memory becomes a response, x, which keeps its place.
Respond(old, new, r, m, q, r2, m2, c, x) ==
    /\ {r, m, q, r2, m2} \subseteq Seq(Burst) /\ {c, x} \subseteq Burst
    /\ Len(m) > 0 /\ Len(r2) = Len(r) + 1 /\ Len(m2) = Len(m) - 1
    /\ \A k \in 1 .. Len(r) : r2[k] = r[k]
    /\ r2[Len(r) + 1] = x /\ x.at = m[1].at /\ x.len = m[1].len
    /\ \A k \in 1 .. Len(m2) : m2[k] = m[k + 1]
    /\ IsPipe(old, r, m, q, c) /\ IsPipe(new, r2, m2, q, c)

LEMMA Answered ==
    ASSUME NEW r, NEW m, NEW q, NEW c, NEW r2, NEW m2, NEW x, NEW old, NEW new,
           Respond(old, new, r, m, q, r2, m2, c, x)
    PROVE  /\ Len(new) = Len(old)
           /\ \A k \in 1 .. Len(old) : new[k].at = old[k].at /\ new[k].len = old[k].len
  <1> /\ r \in Seq(Burst) /\ m \in Seq(Burst) /\ q \in Seq(Burst) /\ c \in Burst
      /\ r2 \in Seq(Burst) /\ m2 \in Seq(Burst) /\ x \in Burst
      /\ Len(m) > 0 /\ Len(r2) = Len(r) + 1 /\ Len(m2) = Len(m) - 1
      /\ \A k \in 1 .. Len(r) : r2[k] = r[k]
      /\ r2[Len(r) + 1] = x /\ x.at = m[1].at /\ x.len = m[1].len
      /\ \A k \in 1 .. Len(m2) : m2[k] = m[k + 1]
      /\ IsPipe(old, r, m, q, c) /\ IsPipe(new, r2, m2, q, c)
    BY Zenon DEF Respond
  <1>1. Len(r) \in Nat /\ Len(m) \in Nat /\ Len(q) \in Nat /\ Len(m2) \in Nat /\ Len(r2) \in Nat
    OBVIOUS
  <1> PICK l \in Nat : l = IF c = NoBurst THEN 0 ELSE 1
    OBVIOUS
  <1>2. /\ Len(old) = Len(r) + Len(m) + Len(q) + l
        /\ Len(new) = Len(r2) + Len(m2) + Len(q) + l
        /\ \A k \in 1 .. Len(old) :
             old[k] = IF k <= Len(r) THEN r[k]
                      ELSE IF k <= Len(r) + Len(m) THEN m[k - Len(r)]
                      ELSE IF k <= Len(r) + Len(m) + Len(q) THEN q[k - (Len(r) + Len(m))]
                      ELSE c
        /\ \A k \in 1 .. Len(new) :
             new[k] = IF k <= Len(r2) THEN r2[k]
                      ELSE IF k <= Len(r2) + Len(m2) THEN m2[k - Len(r2)]
                      ELSE IF k <= Len(r2) + Len(m2) + Len(q) THEN q[k - (Len(r2) + Len(m2))]
                      ELSE c
    BY DEF IsPipe
  <1>3. Len(new) = Len(old) /\ Len(r2) + Len(m2) = Len(r) + Len(m)
    BY <1>1, <1>2
  <1>4. ASSUME NEW k \in 1 .. Len(old) PROVE new[k].at = old[k].at /\ new[k].len = old[k].len
    <2>1. k \in 1 .. Len(new) /\ k \in Nat /\ 1 <= k
      BY <1>2, <1>3
    <2>2. CASE k <= Len(r)
      <3>1. k <= Len(r2) /\ k \in 1 .. Len(r)
        BY <1>1, <2>1, <2>2
      <3> QED BY <1>2, <2>1, <2>2, <3>1
    <2>3. CASE k = Len(r) + 1
      <3>1. ~(k <= Len(r)) /\ k <= Len(r) + Len(m) /\ k - Len(r) = 1 /\ k <= Len(r2)
        BY <1>1, <2>1, <2>3
      <3>2. new[k] = x /\ old[k] = m[1]
        BY <1>2, <2>1, <2>3, <3>1
      <3> QED BY <3>2
    <2>4. CASE Len(r) + 1 < k /\ k <= Len(r) + Len(m)
      <3>1. ~(k <= Len(r)) /\ ~(k <= Len(r2)) /\ k <= Len(r2) + Len(m2)
        BY <1>1, <2>1, <2>4
      <3>9. k - Len(r2) \in 1 .. Len(m2) /\ (k - Len(r2)) + 1 = k - Len(r)
        BY <1>1, <2>1, <2>4
      <3> PICK j \in 1 .. Len(m2) : j = k - Len(r2) /\ j + 1 = k - Len(r)
        BY <3>9, Zenon
      <3>2. new[k] = m2[j] /\ old[k] = m[j + 1]
        BY <1>2, <2>1, <2>4, <3>1
      <3> QED BY <3>2
    <2>5. CASE ~(k <= Len(r) + Len(m))
      <3>1. /\ ~(k <= Len(r)) /\ ~(k <= Len(r2)) /\ ~(k <= Len(r2) + Len(m2))
        BY <1>1, <1>3, <2>1, <2>5
      <3>2. new[k] = old[k]
        BY <1>2, <1>3, <2>1, <2>5, <3>1
      <3> QED BY <3>2
    <2> QED BY <1>1, <2>1, <2>2, <2>3, <2>4, <2>5
  <1> QED
    BY <1>3, <1>4

\* The n oldest responses are consumed.
Pop(old, new, r, m, q, r2, c, n) ==
    /\ {r, m, q, r2} \subseteq Seq(Burst) /\ c \in Burst /\ n \in Nat
    /\ Len(r) = n + Len(r2)
    /\ \A k \in 1 .. Len(r2) : r2[k] = r[k + n]
    /\ IsPipe(old, r, m, q, c) /\ IsPipe(new, r2, m, q, c)

LEMMA Popped ==
    ASSUME NEW r, NEW m, NEW q, NEW c, NEW r2, NEW n, NEW old, NEW new,
           Pop(old, new, r, m, q, r2, c, n)
    PROVE  /\ Len(old) = Len(new) + n
           /\ \A k \in 1 .. Len(new) : new[k] = old[k + n]
           /\ \A k \in 1 .. n : old[k] = r[k]
  <1> /\ r \in Seq(Burst) /\ m \in Seq(Burst) /\ q \in Seq(Burst) /\ c \in Burst
      /\ r2 \in Seq(Burst) /\ n \in Nat
      /\ Len(r) = n + Len(r2) /\ \A k \in 1 .. Len(r2) : r2[k] = r[k + n]
      /\ IsPipe(old, r, m, q, c) /\ IsPipe(new, r2, m, q, c)
    BY Zenon DEF Pop
  <1>1. Len(r) \in Nat /\ Len(m) \in Nat /\ Len(q) \in Nat /\ Len(r2) \in Nat
    OBVIOUS
  <1> PICK l \in Nat : l = IF c = NoBurst THEN 0 ELSE 1
    OBVIOUS
  <1>2. /\ Len(old) = Len(r) + Len(m) + Len(q) + l
        /\ Len(new) = Len(r2) + Len(m) + Len(q) + l
        /\ \A k \in 1 .. Len(old) :
             old[k] = IF k <= Len(r) THEN r[k]
                      ELSE IF k <= Len(r) + Len(m) THEN m[k - Len(r)]
                      ELSE IF k <= Len(r) + Len(m) + Len(q) THEN q[k - (Len(r) + Len(m))]
                      ELSE c
        /\ \A k \in 1 .. Len(new) :
             new[k] = IF k <= Len(r2) THEN r2[k]
                      ELSE IF k <= Len(r2) + Len(m) THEN m[k - Len(r2)]
                      ELSE IF k <= Len(r2) + Len(m) + Len(q) THEN q[k - (Len(r2) + Len(m))]
                      ELSE c
    BY DEF IsPipe
  <1>3. Len(old) = Len(new) + n
    BY <1>1, <1>2
  <1>4. ASSUME NEW k \in 1 .. Len(new) PROVE new[k] = old[k + n]
    <2> PICK i \in Nat : i = k + n
      BY <1>1, <1>2
    <2>1. i \in 1 .. Len(old) /\ k \in Nat /\ 1 <= k
      BY <1>1, <1>2, <1>3
    <2>2. CASE k <= Len(r2)
      <3>1. i <= Len(r) /\ k \in 1 .. Len(r2)
        BY <1>1, <2>1, <2>2
      <3> QED BY <1>2, <2>1, <2>2, <3>1
    <2>3. CASE ~(k <= Len(r2)) /\ k <= Len(r2) + Len(m)
      <3>1. ~(i <= Len(r)) /\ i <= Len(r) + Len(m) /\ i - Len(r) = k - Len(r2)
        BY <1>1, <2>1, <2>3
      <3> QED BY <1>2, <2>1, <2>3, <3>1
    <2>4. CASE ~(k <= Len(r2) + Len(m)) /\ k <= Len(r2) + Len(m) + Len(q)
      <3>1. /\ ~(k <= Len(r2)) /\ ~(i <= Len(r)) /\ ~(i <= Len(r) + Len(m))
            /\ i <= Len(r) + Len(m) + Len(q) /\ i - (Len(r) + Len(m)) = k - (Len(r2) + Len(m))
        BY <1>1, <2>1, <2>4
      <3> QED BY <1>2, <2>1, <2>4, <3>1
    <2>5. CASE ~(k <= Len(r2) + Len(m) + Len(q))
      <3>1. /\ ~(k <= Len(r2)) /\ ~(i <= Len(r)) /\ ~(k <= Len(r2) + Len(m))
            /\ ~(i <= Len(r) + Len(m)) /\ ~(i <= Len(r) + Len(m) + Len(q))
        BY <1>1, <2>1, <2>5
      <3> QED BY <1>2, <2>1, <2>5, <3>1
    <2> QED BY <2>2, <2>3, <2>4, <2>5
  <1>5. ASSUME NEW k \in 1 .. n PROVE old[k] = r[k]
    <2>1. k \in 1 .. Len(old) /\ k <= Len(r)
      BY <1>1, <1>2
    <2> QED BY <1>2, <2>1
  <1> QED
    BY <1>3, <1>4, <1>5

\* One more element, and the first and the other elements of a sequence.
LEMMA Ends ==
    ASSUME NEW S, NEW s \in Seq(S), NEW x \in S
    PROVE  /\ Append(s, x) \in Seq(S) /\ Len(Append(s, x)) = Len(s) + 1
           /\ \A k \in 1 .. Len(s) : Append(s, x)[k] = s[k]
           /\ Append(s, x)[Len(s) + 1] = x /\ Append(s, x) # <<>>
  OBVIOUS

LEMMA Begins ==
    ASSUME NEW S, NEW s \in Seq(S)
    PROVE  /\ s # <<>> => /\ Len(s) > 0 /\ Len(Tail(s)) = Len(s) - 1
                          /\ Head(s) = s[1] /\ Head(s) \in S
                          /\ Tail(s) \in Seq(S)
                          /\ \A k \in 1 .. Len(Tail(s)) : Tail(s)[k] = s[k + 1]
           /\ Len(s) > 0 => s # <<>>
           /\ Len(s) = 0 => s = <<>>
           /\ Len(s) \in Nat
  <1>1. Len(s) \in Nat /\ (s # <<>> => Len(s) > 0) /\ (Len(s) > 0 => s # <<>>)
    BY EmptySeq
  <1>2. s # <<>> => /\ Len(Tail(s)) = Len(s) - 1 /\ Tail(s) \in Seq(S)
                    /\ Head(s) = s[1] /\ Head(s) \in S
    OBVIOUS
  <1>3. s # <<>> => \A k \in 1 .. Len(Tail(s)) : Tail(s)[k] = s[k + 1]
    OBVIOUS
  <1> QED
    BY <1>1, <1>2, <1>3

\* sendMemReq moves bursts within their pipelines, and none out of the PE's
\* sight: what was requested is in memory.
LEMMA SendPipe ==
    ASSUME IInv, sendMemReq, NEW i \in Port
    PROVE  /\ Pipeline(i)' = Pipeline(i)
           /\ burstReqQueue[i] # <<>> \/ mem[i] # <<>> => mem'[i] # <<>>
  <1>1. /\ mem' = [j \in Port |->
             IF burstReqQueue[j] # <<>> THEN Append(mem[j], Head(burstReqQueue[j])) ELSE mem[j]]
        /\ burstReqQueue' = [j \in Port |->
             IF burstReqQueue[j] # <<>> THEN Tail(burstReqQueue[j]) ELSE burstReqQueue[j]]
        /\ creating' = creating /\ burstRespQueue' = burstRespQueue
    BY DEF sendMemReq
  <1>2. /\ burstReqQueue[i] \in Seq(Burst) /\ creating[i] \in Burst
        /\ mem[i] \in Seq(Burst) /\ burstRespQueue[i] \in Seq(Burst)
    BY DEF IInv, TypeOK
  <1>3. CASE burstReqQueue[i] = <<>>
    <2>1. mem'[i] = mem[i] /\ burstReqQueue'[i] = burstReqQueue[i]
      BY <1>1, <1>3
    <2>2. Pipeline(i)' = Pipeline(i)
      BY <1>1, <2>1, SamePipe, Zenon
    <2> QED BY <1>3, <2>1, <2>2, Zenon
  <1>4. CASE burstReqQueue[i] # <<>>
    <2> PICK m2, q2 : m2 = mem'[i] /\ q2 = burstReqQueue'[i]
      OBVIOUS
    <2>1. m2 = Append(mem[i], Head(burstReqQueue[i])) /\ q2 = Tail(burstReqQueue[i])
      BY <1>1, <1>4
    <2>2. Head(burstReqQueue[i]) \in Burst
      BY <1>2, <1>4, Begins
    <2>3. /\ m2 \in Seq(Burst) /\ q2 \in Seq(Burst)
          /\ Len(burstReqQueue[i]) > 0 /\ Len(m2) = Len(mem[i]) + 1
          /\ Len(q2) = Len(burstReqQueue[i]) - 1
          /\ \A k \in 1 .. Len(mem[i]) : m2[k] = mem[i][k]
          /\ m2[Len(mem[i]) + 1] = burstReqQueue[i][1]
          /\ \A k \in 1 .. Len(q2) : q2[k] = burstReqQueue[i][k + 1]
          /\ m2 # <<>>
      BY <1>2, <1>4, <2>1, <2>2, Ends, Begins
    <2>4. IsPipe(Pipeline(i), burstRespQueue[i], mem[i], burstReqQueue[i], creating[i])
      BY PipeOf
    <2>5. IsPipe(Pipeline(i)', burstRespQueue[i], m2, q2, creating[i])
      BY <1>1, sendInv, PipeOfNext, Zenon
    <2>6. Send(Pipeline(i), Pipeline(i)', burstRespQueue[i], mem[i], burstReqQueue[i], m2, q2,
               creating[i])
      BY <1>2, <2>3, <2>4, <2>5, Zenon DEF Send
    <2>7. Pipeline(i)' = Pipeline(i)
      BY <2>6, Sent
    <2> QED BY <2>3, <2>7, Zenon
  <1> QED
    BY <1>3, <1>4

\* What an answer is: the burst, with its place, and for a read all its data.
LEMMA Answers1 ==
    ASSUME IInv, NEW i \in Port, mem[i] # <<>>
    PROVE  /\ mem[i][1] \in Burst
           /\ Answer(i) \in Burst /\ Answer(i).at = mem[i][1].at /\ Answer(i).len = mem[i][1].len
           /\ i # WritePort => Len(Answer(i).data) = Answer(i).len
  <1>1. mem[i] \in Seq(Burst)
    BY DEF IInv, TypeOK
  <1> PICK b \in Burst : b = mem[i][1] /\ b = Head(mem[i])
    BY <1>1, Begins, Zenon
  <1>2. ReadFrom(i, b) \in Burst /\ Len(ReadFrom(i, b).data) = b.len
    BY Reads
  <1>3. ReadFrom(i, b).at = b.at /\ ReadFrom(i, b).len = b.len
    BY DEF ReadFrom, Burst
  <1> QED
    BY <1>2, <1>3, Zenon DEF Answer

\* getMemResp keeps the places of the bursts of every port.
LEMMA GetPipe ==
    ASSUME IInv, NEW S \in SUBSET Port, getMemResp(S), NEW i \in Port
    PROVE  /\ Len(Pipeline(i)') = Len(Pipeline(i))
           /\ \A k \in 1 .. Len(Pipeline(i)) :
                Pipeline(i)'[k].at = Pipeline(i)[k].at /\ Pipeline(i)'[k].len = Pipeline(i)[k].len
           /\ IF i \in S
              THEN /\ mem[i] # <<>>
                   /\ Len(burstRespQueue'[i]) = Len(burstRespQueue[i]) + 1
                   /\ \A k \in 1 .. Len(burstRespQueue[i]) :
                        burstRespQueue'[i][k] = burstRespQueue[i][k]
                   /\ burstRespQueue'[i][Len(burstRespQueue[i]) + 1] = Answer(i)
              ELSE burstRespQueue'[i] = burstRespQueue[i]
  <1>1. /\ \A j \in S : mem[j] # <<>>
        /\ burstRespQueue' = [j \in Port |->
             IF j \in S THEN Append(burstRespQueue[j], Answer(j)) ELSE burstRespQueue[j]]
        /\ mem' = [j \in Port |-> IF j \in S THEN Tail(mem[j]) ELSE mem[j]]
        /\ creating' = creating /\ burstReqQueue' = burstReqQueue
    BY DEF getMemResp, issuing
  <1>2. /\ burstReqQueue[i] \in Seq(Burst) /\ creating[i] \in Burst
        /\ mem[i] \in Seq(Burst) /\ burstRespQueue[i] \in Seq(Burst)
    BY DEF IInv, TypeOK
  <1>3. CASE i \notin S
    <2>1. mem'[i] = mem[i] /\ burstRespQueue'[i] = burstRespQueue[i]
      BY <1>1, <1>3, Zenon
    <2>2. Pipeline(i)' = Pipeline(i)
      BY <1>1, <2>1, SamePipe, Zenon
    <2> QED BY <1>3, <2>1, <2>2, Zenon
  <1>4. CASE i \in S
    <2> PICK m2, r2, x : m2 = mem'[i] /\ r2 = burstRespQueue'[i] /\ x = Answer(i)
      OBVIOUS
    <2>1. r2 = Append(burstRespQueue[i], x) /\ m2 = Tail(mem[i]) /\ mem[i] # <<>>
      BY <1>1, <1>4, Zenon
    <2>2. x \in Burst /\ x.at = mem[i][1].at /\ x.len = mem[i][1].len
      BY <2>1, Answers1, Zenon
    <2>3. /\ m2 \in Seq(Burst) /\ r2 \in Seq(Burst)
          /\ Len(mem[i]) > 0 /\ Len(r2) = Len(burstRespQueue[i]) + 1
          /\ Len(m2) = Len(mem[i]) - 1
          /\ \A k \in 1 .. Len(burstRespQueue[i]) : r2[k] = burstRespQueue[i][k]
          /\ r2[Len(burstRespQueue[i]) + 1] = x
          /\ \A k \in 1 .. Len(m2) : m2[k] = mem[i][k + 1]
      BY <1>2, <2>1, <2>2, Ends, Begins
    <2>4. IsPipe(Pipeline(i), burstRespQueue[i], mem[i], burstReqQueue[i], creating[i])
      BY PipeOf
    <2>5. IsPipe(Pipeline(i)', r2, m2, burstReqQueue[i], creating[i])
      BY <1>1, getInv, PipeOfNext, Zenon
    <2>6. Respond(Pipeline(i), Pipeline(i)', burstRespQueue[i], mem[i], burstReqQueue[i], r2, m2,
                  creating[i], x)
      BY <1>2, <2>2, <2>3, <2>4, <2>5, Zenon DEF Respond
    <2>7. /\ Len(Pipeline(i)') = Len(Pipeline(i))
          /\ \A k \in 1 .. Len(Pipeline(i)) :
                Pipeline(i)'[k].at = Pipeline(i)[k].at /\ Pipeline(i)'[k].len = Pipeline(i)[k].len
      BY <2>6, Answered
    <2> QED BY <1>4, <2>1, <2>3, <2>7, Zenon
  <1> QED
    BY <1>3, <1>4

\* A response thread consumes the first burst of its pipeline, if it was
\* waiting for its data.
LEMMA ReceivePipe ==
    ASSUME IInv, NEW i \in Port, i # WritePort, Receive(i)
    PROVE  /\ \A j \in Port \ {i} : /\ Pipeline(j)' = Pipeline(j)
                                    /\ burstRespQueue'[j] = burstRespQueue[j]
           /\ IF serving[i]
              THEN /\ Len(burstRespQueue[i]) > 0
                   /\ Received(i) = burstRespQueue[i][1].data
                   /\ Pipeline(i)[1] = burstRespQueue[i][1]
                   /\ Len(Pipeline(i)) = Len(Pipeline(i)') + 1
                   /\ \A k \in 1 .. Len(Pipeline(i)') : Pipeline(i)'[k] = Pipeline(i)[k + 1]
                   /\ Len(burstRespQueue'[i]) = Len(burstRespQueue[i]) - 1
                   /\ \A k \in 1 .. Len(burstRespQueue'[i]) :
                        burstRespQueue'[i][k] = burstRespQueue[i][k + 1]
              ELSE /\ Received(i) = <<>> /\ Pipeline(i)' = Pipeline(i)
                   /\ burstRespQueue'[i] = burstRespQueue[i]
  <1>1. /\ burstRespQueue' = [burstRespQueue EXCEPT ![i] =
                IF serving[i] THEN Tail(burstRespQueue[i]) ELSE burstRespQueue[i]]
        /\ creating' = creating /\ burstReqQueue' = burstReqQueue /\ mem' = mem
    BY DEF Receive, issuing, memory
  <1>2. /\ burstReqQueue[i] \in Seq(Burst) /\ creating[i] \in Burst
        /\ mem[i] \in Seq(Burst) /\ burstRespQueue[i] \in Seq(Burst)
        /\ burstRespQueue \in [Port -> Seq(Burst)]
    BY DEF IInv, TypeOK
  <1>3. ASSUME NEW j \in Port \ {i}
        PROVE  Pipeline(j)' = Pipeline(j) /\ burstRespQueue'[j] = burstRespQueue[j]
    <2>1. burstRespQueue'[j] = burstRespQueue[j]
      BY <1>1, <1>2
    <2> QED BY <1>1, <2>1, SamePipe, Zenon
  <1>4. CASE ~serving[i]
    <2>1. burstRespQueue'[i] = burstRespQueue[i]
      BY <1>1, <1>2, <1>4
    <2>2. Pipeline(i)' = Pipeline(i)
      BY <1>1, <2>1, SamePipe, Zenon
    <2>3. Received(i) = <<>>
      BY <1>4 DEF Received
    <2> QED BY <1>3, <1>4, <2>1, <2>2, <2>3, Zenon
  <1>5. CASE serving[i]
    <2> PICK r, r2 : r = burstRespQueue[i] /\ r2 = burstRespQueue'[i]
      OBVIOUS
    <2>1. r2 = Tail(r) /\ r # <<>> /\ r \in Seq(Burst)
      BY <1>1, <1>2, <1>5 DEF IInv, ServingHead
    <2>2. /\ r2 \in Seq(Burst) /\ Len(r) > 0 /\ Len(r2) = Len(r) - 1 /\ Head(r) = r[1]
          /\ \A k \in 1 .. Len(r2) : r2[k] = r[k + 1]
      BY <2>1, Begins
    <2>3. Len(r) = 1 + Len(r2)
      BY <2>1, <2>2
    <2>4. Received(i) = r[1].data
      BY <1>5, <2>2 DEF Received
    <2>5. IsPipe(Pipeline(i), r, mem[i], burstReqQueue[i], creating[i])
      BY PipeOf
    <2>6. IsPipe(Pipeline(i)', r2, mem[i], burstReqQueue[i], creating[i])
      BY <1>1, <1>2, <2>2, PipelineAt, Zenon DEF Pipeline, Last
    <2> PICK n \in Nat : n = 1
      OBVIOUS
    <2>7. Pop(Pipeline(i), Pipeline(i)', r, mem[i], burstReqQueue[i], r2, creating[i], n)
      BY <1>2, <2>1, <2>2, <2>3, <2>5, <2>6, Zenon DEF Pop
    <2>8. /\ Len(Pipeline(i)) = Len(Pipeline(i)') + n
          /\ \A k \in 1 .. Len(Pipeline(i)') : Pipeline(i)'[k] = Pipeline(i)[k + n]
          /\ \A k \in 1 .. n : Pipeline(i)[k] = r[k]
      BY <2>7, Popped
    <2>9. 1 \in 1 .. n
      OBVIOUS
    <2> QED BY <1>3, <1>5, <2>2, <2>4, <2>8, <2>9, Zenon
  <1> QED
    BY <1>4, <1>5

\* The responses of the read ports always carry their data.
LEMMA DataStep == ASSUME IInv, DataKnown, [Next]_vars PROVE DataKnown'
  <1>1. ASSUME NEW i \in Port, i # WritePort, Receive(i) PROVE DataKnown'
    <2> SUFFICES ASSUME NEW j \in Port \ {WritePort}, NEW k \in 1 .. Len(burstRespQueue'[j])
                 PROVE  Len(burstRespQueue'[j][k].data) = burstRespQueue'[j][k].len
      BY DEF DataKnown
    <2>1. CASE burstRespQueue'[j] = burstRespQueue[j]
      BY <2>1 DEF DataKnown
    <2>2. CASE burstRespQueue'[j] # burstRespQueue[j]
      <3>1. /\ j = i /\ Len(burstRespQueue'[j]) = Len(burstRespQueue[j]) - 1
            /\ burstRespQueue'[j][k] = burstRespQueue[j][k + 1]
        BY <1>1, <2>2, ReceivePipe
      <3>2. Len(burstRespQueue[j]) \in Nat
        BY DEF IInv, TypeOK
      <3>3. k + 1 \in 1 .. Len(burstRespQueue[j])
        BY <3>1, <3>2
      <3> QED BY <3>1, <3>3 DEF DataKnown
    <2> QED BY <2>1, <2>2
  <1>2. ASSUME NEW S \in SUBSET Port, getMemResp(S) PROVE DataKnown'
    <2> SUFFICES ASSUME NEW j \in Port \ {WritePort}, NEW k \in 1 .. Len(burstRespQueue'[j])
                 PROVE  Len(burstRespQueue'[j][k].data) = burstRespQueue'[j][k].len
      BY DEF DataKnown
    <2>1. CASE j \notin S
      <3>1. burstRespQueue'[j] = burstRespQueue[j]
        BY <1>2, <2>1, GetPipe
      <3> QED BY <3>1 DEF DataKnown
    <2>2. CASE j \in S
      <3>1. /\ mem[j] # <<>> /\ Len(burstRespQueue'[j]) = Len(burstRespQueue[j]) + 1
            /\ \A n \in 1 .. Len(burstRespQueue[j]) : burstRespQueue'[j][n] = burstRespQueue[j][n]
            /\ burstRespQueue'[j][Len(burstRespQueue[j]) + 1] = Answer(j)
        BY <1>2, <2>2, GetPipe
      <3>2. Len(burstRespQueue[j]) \in Nat
        BY DEF IInv, TypeOK
      <3>3. Len(Answer(j).data) = Answer(j).len
        BY <3>1, Answers1
      <3>4. CASE k \in 1 .. Len(burstRespQueue[j])
        BY <3>1, <3>4 DEF DataKnown
      <3>5. CASE k = Len(burstRespQueue[j]) + 1
        BY <3>1, <3>3, <3>5
      <3> QED BY <3>1, <3>2, <3>4, <3>5
    <2> QED BY <2>1, <2>2
  <1>3. CASE processExpandDepthWriteResp
    BY <1>3 DEF processExpandDepthWriteResp, DataKnown, IInv, TypeOK
  <1>4. CASE UNCHANGED burstRespQueue
    BY <1>4 DEF DataKnown
  <1>5. CASE \E p \in Part : inspectDepthReqThread(p)
    BY <1>4, <1>5 DEF inspectDepthReqThread
  <1>6. CASE \E p \in Part : inspectDepthRespThread(p)
    <2> PICK p \in Part : Receive(p)
      BY <1>6 DEF inspectDepthRespThread
    <2>1. p \in Port /\ p # WritePort
      BY Ports
    <2> QED BY <1>1, <2>1
  <1>7. CASE processExpandRpaoReadResp \/ processExpandCiaoReadResp \/ processExpandDepthReadResp
    BY <1>1, <1>7, Ports DEF processExpandRpaoReadResp, processExpandCiaoReadResp,
      processExpandDepthReadResp
  <1>8. CASE inspectDepthAnalysis \/ frontierAnalysis \/ issueExpandCiaoReadReq
    BY <1>4, <1>8 DEF inspectDepthAnalysis, frontierAnalysis, issueExpandCiaoReadReq
  <1>9. CASE issueExpandDepthReadReq \/ expandDepthAnalysis \/ sendMemReq \/ statusMonitor \/ Tick
    BY <1>4, <1>9 DEF issueExpandDepthReadReq, expandDepthAnalysis, sendMemReq, statusMonitor, Tick
  <1>10. CASE UNCHANGED vars
    BY <1>4, <1>10 DEF vars
  <1> QED
    BY <1>2, <1>3, <1>5, <1>6, <1>7, <1>8, <1>9, <1>10 DEF Next
-----------------------------------------------------------------------------
(* Chains *)

\* The places of the bursts decide.
LEMMA ChainKept ==
    ASSUME NEW old \in Seq(Burst), NEW new, NEW lo, NEW hi, Chain(old, lo, hi),
           Len(new) = Len(old),
           \A k \in 1 .. Len(old) : new[k].at = old[k].at /\ new[k].len = old[k].len
    PROVE  Chain(new, lo, hi)
  <1>1. \A k \in 1 .. Len(old) : (k # 1 => k - 1 \in 1 .. Len(old)) /\ 1 .. k - 1 \subseteq 1 .. Len(old)
    OBVIOUS
  <1>2. Len(old) # 0 => Len(old) \in 1 .. Len(old)
    OBVIOUS
  <1>3. hi = IF Len(new) = 0 THEN lo ELSE new[Len(new)].at + new[Len(new)].len
    BY <1>2 DEF Chain
  <1>4. ASSUME NEW k \in 1 .. Len(new)
        PROVE  /\ new[k].len > 0
               /\ new[k].at = IF k = 1 THEN lo ELSE new[k - 1].at + new[k - 1].len
               /\ lo <= new[k].at /\ new[k].at + new[k].len <= hi
               /\ \A j \in 1 .. k - 1 : new[j].at + new[j].len <= new[k].at
    <2>1. /\ old[k].len > 0
          /\ old[k].at = IF k = 1 THEN lo ELSE old[k - 1].at + old[k - 1].len
          /\ lo <= old[k].at /\ old[k].at + old[k].len <= hi
          /\ \A j \in 1 .. k - 1 : old[j].at + old[j].len <= old[k].at
      BY DEF Chain
    <2>2. /\ new[k].at = old[k].at /\ new[k].len = old[k].len
          /\ k # 1 => new[k - 1].at = old[k - 1].at /\ new[k - 1].len = old[k - 1].len
          /\ \A j \in 1 .. k - 1 : new[j].at = old[j].at /\ new[j].len = old[j].len
      BY <1>1
    <2> QED BY <2>1, <2>2
  <1> QED
    BY <1>3, <1>4 DEF Chain

\* A burst that starts where the others end.
LEMMA ChainPush ==
    ASSUME NEW old \in Seq(Burst), NEW new \in Seq(Burst), NEW lo \in Int, NEW hi \in Int,
           NEW b \in Burst, Chain(old, lo, hi), b.at = hi, b.len > 0,
           Len(new) = Len(old) + 1,
           \A k \in 1 .. Len(old) : new[k].at = old[k].at /\ new[k].len = old[k].len,
           new[Len(old) + 1] = b
    PROVE  Chain(new, lo, hi + b.len)
  <1>1. Len(old) \in Nat /\ b.at \in Int /\ b.len \in Nat
        /\ \A k \in 1 .. Len(old) : old[k].at \in Int /\ old[k].len \in Nat
    <2>1. Len(old) \in Nat /\ \A k \in 1 .. Len(old) : old[k] \in Burst
      OBVIOUS
    <2>2. b.at \in Int /\ b.len \in Nat
      BY DEF Burst
    <2>3. \A k \in 1 .. Len(old) : old[k].at \in Int /\ old[k].len \in Nat
      BY <2>1 DEF Burst
    <2> QED BY <2>1, <2>2, <2>3
  <1>2. lo <= hi + b.len
    BY <1>1 DEF Chain
  <1>3. hi + b.len = new[Len(new)].at + new[Len(new)].len /\ Len(new) # 0
    BY <1>1
  <1>4. ASSUME NEW k \in 1 .. Len(old)
        PROVE  /\ new[k].len > 0
               /\ new[k].at = IF k = 1 THEN lo ELSE new[k - 1].at + new[k - 1].len
               /\ lo <= new[k].at /\ new[k].at + new[k].len <= hi + b.len
               /\ \A j \in 1 .. k - 1 : new[j].at + new[j].len <= new[k].at
    <2>1. /\ old[k].len > 0
          /\ old[k].at = IF k = 1 THEN lo ELSE old[k - 1].at + old[k - 1].len
          /\ lo <= old[k].at /\ old[k].at + old[k].len <= hi
          /\ \A j \in 1 .. k - 1 : old[j].at + old[j].len <= old[k].at
      BY DEF Chain
    <2>2. /\ new[k].at = old[k].at /\ new[k].len = old[k].len
          /\ k # 1 => k - 1 \in 1 .. Len(old)
          /\ \A j \in 1 .. k - 1 : j \in 1 .. Len(old)
      BY <1>1
    <2>3. \A j \in 1 .. k - 1 : new[j].at = old[j].at /\ new[j].len = old[j].len
      BY <2>2
    <2>4. old[k].at + old[k].len <= hi + b.len
      BY <1>1, <2>1
    <2> QED BY <2>1, <2>2, <2>3, <2>4
  <1>5. ASSUME NEW k \in {Len(old) + 1}
        PROVE  /\ new[k].len > 0
               /\ new[k].at = IF k = 1 THEN lo ELSE new[k - 1].at + new[k - 1].len
               /\ lo <= new[k].at /\ new[k].at + new[k].len <= hi + b.len
               /\ \A j \in 1 .. k - 1 : new[j].at + new[j].len <= new[k].at
    <2>1. new[k] = b /\ lo <= hi /\ k - 1 = Len(old)
      BY <1>1 DEF Chain
    <2>2. hi = IF Len(old) = 0 THEN lo ELSE old[Len(old)].at + old[Len(old)].len
      BY DEF Chain
    <2>3. b.at = IF k = 1 THEN lo ELSE new[k - 1].at + new[k - 1].len
      <3>1. CASE k = 1
        BY <1>1, <2>1, <2>2, <3>1
      <3>2. CASE k # 1
        <4>1. Len(old) # 0 /\ Len(old) \in 1 .. Len(old)
          BY <1>1, <3>2
        <4> QED BY <2>1, <2>2, <3>2, <4>1
      <3> QED BY <3>1, <3>2
    <2>4. \A j \in 1 .. k - 1 : new[j].at + new[j].len <= b.at
      BY <2>1 DEF Chain
    <2>5. b.at + b.len <= hi + b.len
      BY <1>1
    <2> QED BY <2>1, <2>3, <2>4, <2>5
  <1>6. 1 .. Len(new) = 1 .. Len(old) \cup {Len(old) + 1}
    BY <1>1
  <1> HIDE DEF Chain
  <1> QED
    BY <1>2, <1>3, <1>4, <1>5, <1>6 DEF Chain

\* The first burst leaves.
LEMMA ChainPop ==
    ASSUME NEW old \in Seq(Burst), NEW new \in Seq(Burst), NEW lo \in Int, NEW hi \in Int,
           Chain(old, lo, hi),
           Len(old) = Len(new) + 1, \A k \in 1 .. Len(new) : new[k] = old[k + 1]
    PROVE  Chain(new, lo + old[1].len, hi)
  <1>1. Len(new) \in Nat /\ 1 \in 1 .. Len(old)
        /\ \A k \in 1 .. Len(old) : old[k].at \in Int /\ old[k].len \in Nat
    <2>1. Len(new) \in Nat /\ \A k \in 1 .. Len(old) : old[k] \in Burst
      OBVIOUS
    <2>2. 1 \in 1 .. Len(old)
      BY <2>1
    <2> QED BY <2>1, <2>2 DEF Burst
  <1>2. old[1].at = lo /\ lo + old[1].len <= hi
    BY <1>1 DEF Chain
  <1>3. hi = IF Len(new) = 0 THEN lo + old[1].len ELSE new[Len(new)].at + new[Len(new)].len
    <2>1. hi = old[Len(old)].at + old[Len(old)].len
      BY <1>1 DEF Chain
    <2>2. CASE Len(new) = 0
      BY <1>1, <1>2, <2>1, <2>2
    <2>3. CASE Len(new) # 0
      <3>1. new[Len(new)] = old[Len(old)]
        BY <1>1, <2>3
      <3> QED BY <2>1, <2>3, <3>1
    <2> QED BY <2>2, <2>3
  <1>4. ASSUME NEW k \in 1 .. Len(new)
        PROVE  /\ new[k].len > 0
               /\ new[k].at = IF k = 1 THEN lo + old[1].len ELSE new[k - 1].at + new[k - 1].len
               /\ lo + old[1].len <= new[k].at /\ new[k].at + new[k].len <= hi
               /\ \A j \in 1 .. k - 1 : new[j].at + new[j].len <= new[k].at
    <2> PICK i \in 1 .. Len(old) : i = k + 1
      BY <1>1
    <2>1. /\ old[i].len > 0
          /\ old[i].at = IF i = 1 THEN lo ELSE old[i - 1].at + old[i - 1].len
          /\ lo <= old[i].at /\ old[i].at + old[i].len <= hi
          /\ \A j \in 1 .. i - 1 : old[j].at + old[j].len <= old[i].at
      BY DEF Chain
    <2>2. new[k] = old[i] /\ i - 1 = k /\ i # 1 /\ 1 \in 1 .. i - 1
      BY <1>1
    <2>3. old[i].at = old[k].at + old[k].len /\ old[1].at + old[1].len <= old[i].at
      BY <2>1, <2>2
    <2>4. new[k].at = IF k = 1 THEN lo + old[1].len ELSE new[k - 1].at + new[k - 1].len
      <3>1. CASE k = 1
        BY <1>2, <2>2, <2>3, <3>1
      <3>2. CASE k # 1
        <4>1. k - 1 \in 1 .. Len(new) /\ (k - 1) + 1 = k
          BY <1>1, <3>2
        <4>2. new[k - 1] = old[k]
          BY <4>1
        <4> QED BY <2>2, <2>3, <3>2, <4>2
      <3> QED BY <3>1, <3>2
    <2>5. ASSUME NEW j \in 1 .. k - 1 PROVE new[j].at + new[j].len <= new[k].at
      <3>1. j \in 1 .. Len(new) /\ j + 1 \in 1 .. i - 1
        BY <1>1, <2>2
      <3>2. new[j] = old[j + 1]
        BY <3>1
      <3> QED BY <2>1, <2>2, <3>1, <3>2
    <2> QED BY <1>2, <2>1, <2>2, <2>3, <2>4, <2>5
  <1> QED
    BY <1>2, <1>3, <1>4 DEF Chain
-----------------------------------------------------------------------------
(* The phases, step by step *)

\* A turn of a thread is no turn of another.
LEMMA TurnRan ==
    ASSUME IInv, NEW t \in Thread, NEW n \in Nat, Turn(t, n)
    PROVE  /\ ~Ran(t) /\ (n # 0 => Ran(t)')
           /\ \A u \in Thread \ {t} : Ran(u)' = Ran(u)
  BY DEF IInv, TypeOK, Turn, Ran

\* The depths left for a cycle are numbered, and so are the bursts of a port.
LEMMA Numbers ==
    ASSUME IInv, NEW p \in Part
    PROVE  /\ Len(depthBuffer0[p]) \in Nat
           /\ Left(p) = IF Ran(Analysis) THEN Len(depthBuffer0[p]) + 1 ELSE Len(depthBuffer0[p])
           /\ idx[p] \in Nat /\ currentLen[p] \in Nat /\ creating[p].len \in Nat
           /\ PartBase(p) \in Nat /\ PartLen(p) \in Nat
           /\ Buffered(p) \in Nat /\ Asked(p) \in Nat
  <1>1. p \in Port
    BY Ports
  <1>2. /\ depthBuffer0[p] \in Seq(Int) /\ creating[p] \in Burst
        /\ idx[p] \in Nat /\ currentLen[p] \in Nat
    BY <1>1 DEF IInv, TypeOK
  <1>3. Len(depthBuffer0[p]) \in Nat /\ creating[p].len \in Nat
    BY <1>2 DEF Burst
  <1>4. PartBase(p) \in Nat /\ PartLen(p) \in Nat
    BY PartFits
  <1>5. Left(p) = IF Ran(Analysis) THEN Len(depthBuffer0[p]) + 1 ELSE Len(depthBuffer0[p])
    BY <1>3 DEF Left
  <1>6. Buffered(p) \in Nat /\ Asked(p) \in Nat
    <2>1. \A a, b, c \in Nat : a + b \in Nat /\ a + b + c \in Nat
      OBVIOUS
    <2> QED BY <1>2, <1>3, <1>4, <2>1, Zenon DEF Buffered, Asked
  <1> QED
    BY <1>2, <1>3, <1>4, <1>5, <1>6

\* A port without an entry in burstOpStatus has no burst anywhere.
LEMMA Entries ==
    ASSUME IInv, NEW i \in Port, burstOpStatus[i] = 0
    PROVE  /\ Len(burstReqQueue[i]) = 0 /\ burstReqQueue[i] = <<>>
           /\ Len(mem[i]) = 0 /\ mem[i] = <<>>
           /\ Len(burstRespQueue[i]) = 0 /\ burstRespQueue[i] = <<>>
  <1> DEFINE q == Len(burstReqQueue[i])
             m == Len(mem[i])
             r == Len(burstRespQueue[i])
  <1>1. /\ burstReqQueue[i] \in Seq(Burst) /\ mem[i] \in Seq(Burst)
        /\ burstRespQueue[i] \in Seq(Burst)
    BY DEF IInv, TypeOK
  <1>2. q \in Nat /\ m \in Nat /\ r \in Nat
    BY <1>1
  <1>3. q + m + r = 0
    BY Zenon DEF IInv, StatusExact
  <1>4. q = 0 /\ m = 0 /\ r = 0
    <2> HIDE DEF q, m, r
    <2> QED BY <1>2, <1>3
  <1>5. burstReqQueue[i] = <<>> /\ mem[i] = <<>> /\ burstRespQueue[i] = <<>>
    BY <1>1, <1>4, Begins
  <1> QED
    BY <1>4, <1>5

\* What the phase of a partition depends on.
LEMMA PhaseKept ==
    ASSUME IInv, NEW p \in Part, PhaseOf(p),
           UNCHANGED <<localCounter, idx>>,
           depthBuffer0'[p] = depthBuffer0[p], currentLen'[p] = currentLen[p],
           creating'[p] = creating[p], burstOpStatus'[p] = burstOpStatus[p],
           Ran(Analysis)' = Ran(Analysis), Ran(Req(p))' = Ran(Req(p)),
           Underway(p) => Underway(p)',
           Len(Pipeline(p)') = Len(Pipeline(p)),
           \A k \in 1 .. Len(Pipeline(p)) :
                Pipeline(p)'[k].at = Pipeline(p)[k].at /\ Pipeline(p)'[k].len = Pipeline(p)[k].len
    PROVE  PhaseOf(p)'
  <1>1. Idle(p) = Idle(p)' /\ Begun(p) = Begun(p)'
    BY DEF Idle, Begun, Quiet
  <1>2. Scanning(p) => Scanning(p)'
    <2> SUFFICES ASSUME Scanning(p) PROVE Scanning(p)'
      OBVIOUS
    <2>1. Pipeline(p) \in Seq(Burst)
      <3>1. p \in Port
        BY Ports
      <3> QED BY <3>1, PipeOf DEF IsPipe
    <2>2. Buffered(p)' = Buffered(p) /\ Asked(p)' = Asked(p) /\ Left(p)' = Left(p)
      BY DEF Buffered, Asked, Left
    <2>3. Chain(Pipeline(p)', Buffered(p), Asked(p))
      BY <2>1, ChainKept DEF Scanning
    <2>4. Chain(Pipeline(p), Buffered(p), Asked(p))'
      BY <2>2, <2>3 DEF Chain
    <2>5. Busy(p)'
      BY <2>2 DEF Busy, Scanning
    <2> QED BY <2>2, <2>4, <2>5 DEF Scanning
  <1> QED
    BY <1>1, <1>2, Zenon DEF PhaseOf

\* A turn of a thread that does not work for the partition.
LEMMA OtherThread ==
    ASSUME IInv, NEW p \in Part, PhaseOf(p),
           NEW t \in Thread \ {Analysis, Req(p), GetResp}, NEW n \in Nat, Turn(t, n),
           UNCHANGED <<localCounter, idx>>,
           depthBuffer0'[p] = depthBuffer0[p], currentLen'[p] = currentLen[p],
           creating'[p] = creating[p], burstOpStatus'[p] = burstOpStatus[p],
           burstReqQueue'[p] = burstReqQueue[p], mem'[p] = mem[p],
           burstRespQueue'[p] = burstRespQueue[p]
    PROVE  PhaseOf(p)'
  <1>1. p \in Port /\ Req(p) \in Thread /\ Analysis \in Thread /\ GetResp \in Thread
    BY Ports, Threads DEF Req
  <1>2. Ran(Analysis)' = Ran(Analysis) /\ Ran(Req(p))' = Ran(Req(p)) /\ Ran(GetResp)' = Ran(GetResp)
    BY <1>1, TurnRan
  <1>3. Underway(p) => Underway(p)'
    BY <1>2 DEF Underway
  <1>4. Pipeline(p)' = Pipeline(p)
    BY <1>1, SamePipe, Zenon
  <1> QED
    BY <1>2, <1>3, <1>4, PhaseKept

\* issueInspectDepthReadReq of the partition: the chunk it issues starts where
\* the chunks before it end, and is cut at the end of the partition.
LEMMA PhaseReq ==
    ASSUME RoomToScan, IInv, IInv', Watching, NEW p \in Part, PhaseOf(p), inspectDepthReqThread(p)
    PROVE  PhaseOf(p)'
  <1> DEFINE restart == /\ creating[p] = NoBurst
                        /\ currentLen[p] >= PartLen(p)
                        /\ bfsIterationStart
             len == IF restart THEN 0 ELSE currentLen[p] + creating[p].len
             chunk == Lesser(BaseLen, PartLen(p) - len)
             issues == len < PartLen(p) /\ Len(depthBuffer0[p]) + chunk <= DepthBufferDepth
             b == IF issues THEN NewBurst(PartBase(p) + len, chunk) ELSE NoBurst
  <1>1. /\ Turn(Req(p), 1) /\ Publish(p, <<>>)
        /\ currentLen' = [currentLen EXCEPT ![p] = len]
        /\ creating' = [creating EXCEPT ![p] = b]
        /\ UNCHANGED <<localCounter, idx, depthBuffer0, burstRespQueue, mem>>
    BY DEF inspectDepthReqThread, Req, control, inspection, memory
  <1>2. /\ p \in Port /\ Req(p) \in Thread /\ Analysis \in Thread /\ GetResp \in Thread
        /\ Req(p) # Analysis /\ Req(p) # GetResp
    BY Ports, Threads DEF Req, Analysis, GetResp
  <1>3. /\ creating \in [Port -> Burst] /\ currentLen \in [Part -> Nat] /\ idx \in [Part -> Nat]
        /\ creating[p].len \in Nat /\ Len(depthBuffer0[p]) \in Nat /\ localCounter \in Nat
    <2>1. /\ creating \in [Port -> Burst] /\ currentLen \in [Part -> Nat]
          /\ idx \in [Part -> Nat] /\ depthBuffer0 \in [Part -> Seq(Int)]
          /\ localCounter \in 0 .. EndCount
      BY DEF IInv, TypeOK
    <2>2. creating[p] \in Burst /\ depthBuffer0[p] \in Seq(Int)
      BY <1>2, <2>1
    <2>3. creating[p].len \in Nat /\ Len(depthBuffer0[p]) \in Nat
      BY <2>2 DEF Burst
    <2>4. localCounter \in Nat
      BY <2>1, SizeAssumption DEF SizeAssumption
    <2> QED BY <2>1, <2>3, <2>4
  <1>4. /\ PartBase(p) \in Nat /\ PartLen(p) \in Nat
        /\ BaseLen \in Nat /\ BaseLen > 0 /\ DepthBufferDepth \in Nat
        /\ BaseLen + 1 < DepthBufferDepth /\ StartCount \in Nat
    BY PartFits, SizeAssumption DEF SizeAssumption, RoomToScan
  <1>5. ~Ran(Req(p)) /\ Ran(Req(p))' /\ Ran(Analysis)' = Ran(Analysis) /\ Ran(GetResp)' = Ran(GetResp)
    BY <1>1, <1>2, TurnRan
  <1>6. creating'[p] = b /\ currentLen'[p] = len
    BY <1>1, <1>2, <1>3
  <1>7. len \in Nat
    BY <1>3
  <1>8. localCounter < StartCount => Idle(p)'
    <2> SUFFICES ASSUME localCounter < StartCount PROVE Idle(p)'
      OBVIOUS
    <2>1. Idle(p) /\ ~bfsIterationStart
      BY <1>3, <1>4 DEF PhaseOf, Watching
    <2>2. NoBurst.len = 0
      BY DEF NoBurst
    <2>3. len = PartLen(p)
      BY <1>4, <2>1, <2>2 DEF Idle
    <2>4. b = NoBurst
      BY <1>4, <2>3
    <2>5. burstOpStatus'[p] = burstOpStatus[p]
      BY <1>1, <2>1 DEF Publish, Idle
    <2> QED BY <1>1, <1>6, <2>1, <2>3, <2>4, <2>5 DEF Idle, Quiet
  <1>9. localCounter = StartCount => Begun(p)'
    <2> SUFFICES ASSUME localCounter = StartCount PROVE Begun(p)'
      OBVIOUS
    <2>1. Idle(p) /\ bfsIterationStart
      BY <1>3, <1>4, <1>5 DEF PhaseOf, Watching
    <2>3. len = 0
      BY <1>4, <2>1 DEF Idle
    <2>4. chunk = Lesser(BaseLen, PartLen(p)) /\ Lesser(BaseLen, PartLen(p)) <= BaseLen
          /\ Lesser(BaseLen, PartLen(p)) \in Nat
      BY <1>4, <2>3 DEF Lesser
    <2>5. Len(depthBuffer0[p]) = 0
      BY <2>1 DEF Idle, Quiet
    <2>6. issues = (PartLen(p) # 0)
      BY <1>4, <2>3, <2>4, <2>5
    <2>7. b = IF PartLen(p) = 0 THEN NoBurst ELSE NewBurst(PartBase(p), Lesser(BaseLen, PartLen(p)))
      BY <1>4, <2>3, <2>4, <2>6
    <2>8. burstOpStatus'[p] = burstOpStatus[p]
      BY <1>1, <2>1 DEF Publish, Idle
    <2> QED BY <1>1, <1>6, <2>1, <2>3, <2>7, <2>8 DEF Idle, Begun, Quiet
  <1>10. localCounter > StartCount => Scanning(p)'
    <2> SUFFICES ASSUME localCounter > StartCount PROVE Scanning(p)'
      OBVIOUS
    <2>1. Scanning(p) /\ ~bfsIterationStart
      BY <1>3, <1>4 DEF PhaseOf, Watching
    <2>2. len = currentLen[p] + creating[p].len /\ Asked(p) = PartBase(p) + len
      BY <1>3, <1>4, <2>1 DEF Asked
    <2>3. issues => chunk \in Nat /\ chunk > 0 /\ chunk <= BaseLen /\ len + chunk <= PartLen(p)
      <3> HIDE DEF len
      <3> QED BY <1>4, <1>7 DEF Lesser
    <2>4. /\ b \in Burst
          /\ b # NoBurst => issues /\ b.at = PartBase(p) + len /\ b.len = chunk
          /\ b = NoBurst => ~issues /\ b.len = 0
      <3> HIDE DEF len, chunk
      <3>1. CASE issues
        <4>1. PartBase(p) + len \in Int /\ chunk \in Nat /\ chunk > 0
          BY <1>4, <1>7, <2>3, <3>1
        <4>2. b = NewBurst(PartBase(p) + len, chunk)
          BY <3>1
        <4> HIDE DEF issues, b
        <4> QED BY <3>1, <4>1, <4>2, Bursts DEF NewBurst
      <3>2. CASE ~issues
        <4>1. b = NoBurst
          BY <3>2
        <4> HIDE DEF issues, b
        <4> QED BY <3>2, <4>1, Bursts DEF NoBurst
      <3> QED BY <3>1, <3>2
    <2> HIDE DEF len, chunk, issues, b, restart
    <2>5. /\ Pipeline(p) \in Seq(Burst) /\ Pipeline(p)' \in Seq(Burst)
          /\ Len(Pipeline(p)') = Len(Pipeline(p)) + (IF b = NoBurst THEN 0 ELSE 1)
          /\ \A k \in 1 .. Len(Pipeline(p)) :
                Pipeline(p)'[k].at = Pipeline(p)[k].at /\ Pipeline(p)'[k].len = Pipeline(p)[k].len
          /\ b # NoBurst => Pipeline(p)'[Len(Pipeline(p)) + 1] = b
      <3>1. <<>> \in Seq(Int)
        BY Bursts
      <3> QED BY <1>1, <1>2, <2>4, <3>1, IssuePipe, Zenon
    <2>6. /\ Buffered(p)' = Buffered(p) /\ Buffered(p) \in Int
          /\ Asked(p) \in Int /\ Left(p)' = Left(p)
          /\ Asked(p)' = PartBase(p) + len + b.len
      BY <1>1, <1>3, <1>4, <1>5, <1>6, <1>7, <2>2, SMTT(30) DEF Buffered, Asked, Left
    <2>7. Chain(Pipeline(p)', Buffered(p), Asked(p)')
      <3>1. Chain(Pipeline(p), Buffered(p), Asked(p))
        BY <2>1 DEF Scanning
      <3>2. CASE b = NoBurst
        <4>1. Asked(p)' = Asked(p) /\ Len(Pipeline(p)') = Len(Pipeline(p))
          BY <1>4, <1>7, <2>2, <2>4, <2>5, <2>6, <3>2
        <4> QED BY <2>5, <3>1, <4>1, ChainKept, Zenon
      <3>3. CASE b # NoBurst
        <4>1. b.at = Asked(p) /\ b.len > 0 /\ Asked(p)' = Asked(p) + b.len
              /\ Len(Pipeline(p)') = Len(Pipeline(p)) + 1
          BY <2>2, <2>3, <2>4, <2>5, <2>6, <3>3
        <4>2. Chain(Pipeline(p)', Buffered(p), Asked(p) + b.len)
          BY <2>4, <2>5, <2>6, <3>1, <3>3, <4>1, ChainPush
        <4> QED BY <4>1, <4>2
      <3> QED BY <3>2, <3>3
    <2>8. Chain(Pipeline(p), Buffered(p), Asked(p))'
      BY <2>6, <2>7 DEF Chain
    <2>9. Asked(p)' <= PartBase(p) + PartLen(p)
      <3>1. CASE b = NoBurst
        BY <1>4, <1>7, <2>1, <2>2, <2>4, <2>6, <3>1 DEF Scanning
      <3>2. CASE b # NoBurst
        BY <1>4, <1>7, <2>3, <2>4, <2>6, <3>2
      <3> QED BY <3>1, <3>2
    <2>10. Busy(p)'
      <3>1. ASSUME creating'[p] = NoBurst, currentLen'[p] < PartLen(p)
            PROVE  Left(p)' >= 3
        <4>1. ~issues /\ len < PartLen(p)
          BY <1>6, <2>4, <3>1
        <4>2. Len(depthBuffer0[p]) + chunk > DepthBufferDepth /\ chunk <= BaseLen /\ chunk \in Nat
          BY <1>3, <1>4, <1>7, <4>1 DEF issues, chunk, Lesser
        <4>3. Len(depthBuffer0[p]) >= 3
          BY <1>3, <1>4, <4>2
        <4>4. Left(p) = IF Ran(Analysis) THEN Len(depthBuffer0[p]) + 1 ELSE Len(depthBuffer0[p])
          BY Numbers
        <4>5. Left(p) >= 3
          BY <1>3, <4>3, <4>4
        <4> QED BY <2>6, <4>5
      <3>2. ASSUME creating'[p] # NoBurst
            PROVE  Underway(p)' \/ Left(p)' >= 2
        <4>1. issues /\ len < PartLen(p)
          BY <1>6, <2>4, <3>2 DEF issues
        <4>2. CASE creating[p] = NoBurst
          <5>1. NoBurst.len = 0
            BY DEF NoBurst
          <5>2. currentLen[p] < PartLen(p)
            BY <1>3, <2>2, <4>1, <4>2, <5>1
          <5> QED BY <1>5, <2>1, <2>6, <4>2, <5>2 DEF Scanning, Busy
        <4>3. CASE creating[p] # NoBurst
          <5>1. PICK d : burstReqQueue' = [burstReqQueue EXCEPT ![p] = Append(burstReqQueue[p], d)]
            BY <1>1, <4>3 DEF Publish
          <5>2. burstReqQueue'[p] = Append(burstReqQueue[p], d) /\ burstReqQueue[p] \in Seq(Burst)
            BY <1>2, <5>1 DEF IInv, TypeOK
          <5>3. burstReqQueue'[p] \in Seq(Burst)
            BY <1>2 DEF IInv, TypeOK
          <5>4. Len(Append(burstReqQueue[p], d)) = Len(burstReqQueue[p]) + 1
                /\ Len(burstReqQueue[p]) \in Nat
            BY <5>2
          <5>5. burstReqQueue'[p] # <<>>
            BY <5>2, <5>4, EmptySeq
          <5> QED BY <5>5 DEF Underway
        <4> QED BY <4>2, <4>3
      <3> QED BY <1>5, <3>1, <3>2 DEF Busy
    <2>11. PartBase(p) <= idx'[p]
      BY <1>1, <2>1 DEF Scanning
    <2> QED BY <2>8, <2>9, <2>10, <2>11 DEF Scanning
  <1> HIDE DEF len, chunk, issues, b, restart
  <1>11. Ran(Analysis)' => Ran(Analysis)
    BY <1>5
  <1> QED
    BY <1>1, <1>5, <1>8, <1>9, <1>10, <1>11 DEF PhaseOf

\* inspectDepthReadResp of the partition: the depths of the first burst are
\* buffered where they belong.
LEMMA PhaseResp ==
    ASSUME IInv, IInv', DataKnown, NEW p \in Part, PhaseOf(p), inspectDepthRespThread(p)
    PROVE  PhaseOf(p)'
  <1>1. /\ Receive(p)
        /\ depthBuffer0' = [depthBuffer0 EXCEPT ![p] = depthBuffer0[p] \o Received(p)]
        /\ burstOpStatus' = [burstOpStatus EXCEPT
                               ![p] = IF serving[p] THEN burstOpStatus[p] - 1 ELSE burstOpStatus[p]]
        /\ UNCHANGED <<localCounter, idx, currentLen, creating, burstReqQueue, mem>>
    BY DEF inspectDepthRespThread, Receive, control, inspection, issuing, memory
  <1>2. /\ p \in Port /\ p # WritePort /\ <<"resp", p>> \in Thread
        /\ Req(p) \in Thread /\ Analysis \in Thread /\ GetResp \in Thread
        /\ <<"resp", p>> \notin {Analysis, Req(p), GetResp}
    BY Ports, Threads DEF Req, Analysis, GetResp
  <1>3. PICK n \in Nat : Turn(<<"resp", p>>, n)
    <2> DEFINE rest == IF serving[p] THEN Tail(burstRespQueue[p]) ELSE burstRespQueue[p]
               m == IF rest = <<>> THEN 1 ELSE Head(rest).len
    <2>1. Turn(<<"resp", p>>, m)
      BY <1>1 DEF Receive
    <2>2. burstRespQueue[p] \in Seq(Burst) /\ (serving[p] => burstRespQueue[p] # <<>>)
      BY <1>2 DEF IInv, TypeOK, ServingHead
    <2>3. rest \in Seq(Burst)
      BY <2>2
    <2>4. rest # <<>> => Head(rest) \in Burst
      BY <2>3
    <2>5. m \in Nat
      BY <2>4 DEF Burst
    <2> HIDE DEF m
    <2> QED BY <2>1, <2>5
  <1>4. Ran(Analysis)' = Ran(Analysis) /\ Ran(Req(p))' = Ran(Req(p)) /\ Ran(GetResp)' = Ran(GetResp)
    BY <1>2, <1>3, TurnRan
  <1>5. /\ idx \in [Part -> Nat] /\ depthBuffer0 \in [Part -> Seq(Int)]
        /\ burstRespQueue[p] \in Seq(Burst) /\ burstOpStatus \in [Port -> Nat]
    BY <1>2 DEF IInv, TypeOK
  <1>6. CASE ~serving[p]
    <2>1. Received(p) = <<>> /\ burstRespQueue'[p] = burstRespQueue[p]
      BY <1>1, <1>2, <1>6, ReceivePipe
    <2>2. depthBuffer0'[p] = depthBuffer0[p] /\ burstOpStatus'[p] = burstOpStatus[p]
      BY <1>1, <1>2, <1>5, <1>6, <2>1
    <2> QED BY <1>1, <1>2, <1>3, <2>1, <2>2, OtherThread
  <1>7. CASE serving[p]
    <2>1. /\ Len(burstRespQueue[p]) > 0
          /\ Received(p) = burstRespQueue[p][1].data
          /\ Pipeline(p)[1] = burstRespQueue[p][1]
          /\ Len(Pipeline(p)) = Len(Pipeline(p)') + 1
          /\ \A k \in 1 .. Len(Pipeline(p)') : Pipeline(p)'[k] = Pipeline(p)[k + 1]
      BY <1>1, <1>2, <1>7, ReceivePipe
    <2> PICK x \in Burst : x = burstRespQueue[p][1]
      BY <1>5, <2>1
    <2>2. x.data \in Seq(Int) /\ x.len \in Nat /\ Len(x.data) = x.len
      <3>1. 1 \in 1 .. Len(burstRespQueue[p]) /\ p \in Port \ {WritePort}
        BY <1>2, <1>5, <2>1
      <3>2. Len(x.data) = x.len
        BY <3>1 DEF DataKnown
      <3> QED BY <3>2 DEF Burst
    <2>3. /\ depthBuffer0'[p] = depthBuffer0[p] \o x.data
          /\ Len(depthBuffer0'[p]) = Len(depthBuffer0[p]) + x.len /\ Len(depthBuffer0[p]) \in Nat
      <3>1. depthBuffer0'[p] = depthBuffer0[p] \o x.data
        BY <1>1, <1>5, <2>1
      <3>2. depthBuffer0[p] \in Seq(Int)
        BY <1>5
      <3>3. Len(depthBuffer0[p] \o x.data) = Len(depthBuffer0[p]) + Len(x.data)
        BY <2>2, <3>2, Joined2, Zenon
      <3>4. Len(depthBuffer0[p]) \in Nat
        BY <3>2
      <3> QED BY <2>2, <3>1, <3>3, <3>4, Zenon
    <2>4. burstOpStatus[p] # 0
      <3>1. burstRespQueue[p] # <<>>
        BY <1>5, <2>1, EmptySeq
      <3> QED BY <1>2, <3>1, Entries
    <2>5. ~Idle(p) /\ ~Begun(p)
      BY <2>4 DEF Idle, Begun, Quiet
    <2>6. localCounter > StartCount /\ Scanning(p)
      <3>1. localCounter \in Nat /\ StartCount \in Nat
        BY SizeAssumption DEF SizeAssumption, IInv, TypeOK
      <3> QED BY <2>5, <3>1 DEF PhaseOf
    <2>7. Buffered(p)' = Buffered(p) + x.len /\ Buffered(p) \in Int /\ Asked(p)' = Asked(p)
          /\ Asked(p) \in Int
      <3>1. Asked(p)' = Asked(p) /\ Asked(p) \in Int /\ Buffered(p) \in Int
        BY <1>1, Numbers DEF Asked
      <3>2. Buffered(p) = idx[p] + Len(depthBuffer0[p]) /\ idx[p] \in Nat
            /\ Buffered(p)' = idx[p] + Len(depthBuffer0'[p])
        BY <1>1, Numbers DEF Buffered
      <3>3. Buffered(p)' = Buffered(p) + x.len
        BY <2>2, <2>3, <3>2
      <3> QED BY <3>1, <3>3
    <2>8. Pipeline(p) \in Seq(Burst) /\ Pipeline(p)' \in Seq(Burst)
      BY <1>2, PipeOf, PipeOfNext, Zenon DEF IsPipe
    <2>9. Chain(Pipeline(p)', Buffered(p) + x.len, Asked(p))
      <3>1. Chain(Pipeline(p), Buffered(p), Asked(p)) /\ Pipeline(p)[1].len = x.len
        BY <2>1, <2>6 DEF Scanning
      <3>2. Chain(Pipeline(p)', Buffered(p) + Pipeline(p)[1].len, Asked(p))
        BY <2>1, <2>7, <2>8, <3>1, ChainPop
      <3> QED BY <3>1, <3>2
    <2>10. Chain(Pipeline(p), Buffered(p), Asked(p))'
      BY <2>7, <2>9 DEF Chain
    <2>11. Left(p)' \in Nat /\ Left(p) \in Nat /\ Left(p)' >= Left(p)
      <3>1. CASE Ran(Analysis)
        <4>1. Left(p) = Len(depthBuffer0[p]) + 1 /\ Left(p)' = Len(depthBuffer0'[p]) + 1
          BY <1>4, <3>1, Zenon DEF Left
        <4> PICK held \in Nat : held = Len(depthBuffer0[p]) /\ Len(depthBuffer0'[p]) = held + x.len
          BY <2>3
        <4>2. \A a, c \in Nat : a + 1 \in Nat /\ a + c + 1 \in Nat /\ a + c + 1 >= a + 1
          OBVIOUS
        <4> QED BY <2>2, <4>1, <4>2, Zenon
      <3>2. CASE ~Ran(Analysis)
        BY <1>4, <2>2, <2>3, <3>2 DEF Left
      <3> QED BY <3>1, <3>2
    <2>12. Busy(p)'
      <3>1. Busy(p) /\ (Underway(p) => Underway(p)')
        BY <1>1, <1>4, <2>6 DEF Scanning, Underway
      <3> QED BY <1>1, <1>4, <2>11, <3>1 DEF Busy
    <2>13. Scanning(p)'
      BY <1>1, <2>6, <2>7, <2>10, <2>12 DEF Scanning
    <2>14. localCounter' > StartCount /\ localCounter \in Nat /\ StartCount \in Nat
      BY <1>1, <2>6, SizeAssumption DEF SizeAssumption, IInv, TypeOK
    <2> QED BY <1>1, <2>13, <2>14 DEF PhaseOf
  <1> QED
    BY <1>6, <1>7

\* inspectDepthAnalysis: a depth leaves the buffer and the counter moves over
\* its vertex; the counters are reset while nothing is buffered.
LEMMA PhaseAnalysis ==
    ASSUME IInv, IInv', Phases, inspectDepthAnalysis
    PROVE  Phases'
  <1> DEFINE from == IF bfsIterationStart THEN [p \in Part |-> PartBase(p)] ELSE idx
             watch == armed \/ bfsIterationStart
             to == [p \in Part |-> IF p \in Analysed THEN from[p] + 1 ELSE from[p]]
             allAnalyzed == \A p \in Part : to[p] = PartBase(p) + PartLen(p)
  <1>1. /\ Turn(Analysis, 1) /\ idx' = to /\ armed' = (watch /\ ~allAnalyzed)
        /\ depthBuffer0' = [p \in Part |->
             IF p \in Analysed THEN Tail(depthBuffer0[p]) ELSE depthBuffer0[p]]
        /\ UNCHANGED <<localCounter, bfsIterationStart, currentLen, creating, burstReqQueue,
                       burstRespQueue, burstOpStatus, mem>>
    BY DEF inspectDepthAnalysis, control, issuing, memory
  <1>2. Analysis \in Thread /\ GetResp \in Thread /\ Analysis # GetResp
    BY Threads DEF Analysis, GetResp
  <1>3. /\ idx \in [Part -> Nat] /\ depthBuffer0 \in [Part -> Seq(Int)]
        /\ localCounter \in Nat /\ StartCount \in Nat
        /\ bfsIterationStart \in BOOLEAN /\ armed \in BOOLEAN
    <2>1. /\ idx \in [Part -> Nat] /\ depthBuffer0 \in [Part -> Seq(Int)]
          /\ localCounter \in 0 .. EndCount
          /\ bfsIterationStart \in BOOLEAN /\ armed \in BOOLEAN
      BY DEF IInv, TypeOK
    <2>2. localCounter \in Nat /\ StartCount \in Nat
      BY <2>1, SizeAssumption DEF SizeAssumption
    <2> QED BY <2>1, <2>2
  <1>4. Watching'
    <2>1. armed' => ~AllAnalyzed'
      BY <1>1 DEF AllAnalyzed
    <2>2. armed' => localCounter >= StartCount
      BY <1>1, <1>3 DEF Phases, Watching
    <2> QED BY <1>1, <2>1, <2>2 DEF Phases, Watching
  <1>5. ASSUME NEW p \in Part PROVE PhaseOf(p)'
    <2>1. /\ p \in Port /\ Req(p) \in Thread /\ Req(p) # Analysis
      BY Ports, Threads DEF Req, Analysis
    <2>2. ~Ran(Analysis) /\ Ran(Analysis)' /\ Ran(Req(p))' = Ran(Req(p)) /\ Ran(GetResp)' = Ran(GetResp)
      BY <1>1, <1>2, <2>1, TurnRan
    <2>3. PhaseOf(p) /\ (bfsIterationStart <=> localCounter = StartCount)
      BY DEF Phases, Watching
    <2>4. Pipeline(p)' = Pipeline(p)
      BY <1>1, <2>1, SamePipe, Zenon
    <2>5. CASE localCounter > StartCount
      <3>1. Scanning(p) /\ ~bfsIterationStart /\ localCounter' > StartCount
        BY <1>1, <1>3, <2>3, <2>5 DEF PhaseOf
      <3>2. /\ depthBuffer0'[p] = IF p \in Analysed THEN Tail(depthBuffer0[p]) ELSE depthBuffer0[p]
            /\ idx'[p] = IF p \in Analysed THEN idx[p] + 1 ELSE idx[p]
            /\ p \in Analysed => depthBuffer0[p] # <<>>
        BY <1>1, <3>1 DEF Analysed
      <3>3. /\ Len(depthBuffer0[p]) \in Nat /\ Len(depthBuffer0'[p]) \in Nat
            /\ Len(depthBuffer0'[p]) = IF p \in Analysed THEN Len(depthBuffer0[p]) - 1
                                       ELSE Len(depthBuffer0[p])
        BY <1>3, <3>2
      <3>4. Buffered(p)' = Buffered(p) /\ Asked(p)' = Asked(p)
        BY <1>1, <1>3, <3>2, <3>3 DEF Buffered, Asked
      <3>5. Left(p)' \in Nat /\ Left(p) \in Nat /\ Left(p)' >= Left(p)
        BY <2>2, <3>3 DEF Left
      <3>6. Busy(p)'
        <4>1. Busy(p) /\ (Underway(p) => Underway(p)')
          BY <1>1, <2>2, <3>1 DEF Scanning, Underway
        <4> QED BY <1>1, <2>2, <3>5, <4>1 DEF Busy
      <3>7. PartBase(p) <= idx'[p]
        <4>1. PartBase(p) <= idx[p] /\ PartBase(p) \in Nat /\ idx[p] \in Nat
          BY <1>3, <3>1, PartFits DEF Scanning
        <4> QED BY <3>2, <4>1
      <3>8. Chain(Pipeline(p), Buffered(p), Asked(p))'
        BY <2>4, <3>1, <3>4 DEF Scanning, Chain
      <3>9. Scanning(p)'
        BY <3>1, <3>4, <3>6, <3>7, <3>8 DEF Scanning
      <3> QED BY <1>1, <1>3, <2>5, <3>9 DEF PhaseOf
    <2>6. CASE localCounter <= StartCount
      <3>1. Quiet(p)
        BY <1>3, <2>3, <2>6 DEF PhaseOf, Idle, Begun
      <3>2. p \notin Analysed /\ depthBuffer0'[p] = depthBuffer0[p]
        BY <1>1, <3>1 DEF Analysed, Quiet
      <3>3. Idle(p)' = Idle(p) /\ Begun(p)' = Begun(p)
        BY <1>1, <3>2 DEF Idle, Begun, Quiet
      <3>4. localCounter = StartCount => idx'[p] = PartBase(p)
        BY <1>1, <2>3, <3>2
      <3> QED BY <1>1, <1>3, <2>2, <2>3, <2>6, <3>3, <3>4 DEF PhaseOf
    <2> QED BY <1>3, <2>5, <2>6
  <1> QED
    BY <1>4, <1>5 DEF Phases

\* The memory interface keeps the places of the bursts, and what it still has
\* to answer is seen.
LEMMA PhaseMemory ==
    ASSUME IInv, IInv', TurnsOnce', NEW p \in Part, PhaseOf(p),
           sendMemReq \/ \E S \in SUBSET Port : getMemResp(S)
    PROVE  PhaseOf(p)'
  <1>1. /\ p \in Port /\ Req(p) \in Thread /\ {Analysis, SendReq, GetResp} \subseteq Thread
        /\ {Analysis, Req(p), SendReq} \subseteq Thread \ {GetResp}
        /\ {Analysis, Req(p), GetResp} \subseteq Thread \ {SendReq}
    <2>1. p \in Port /\ Req(p) \in Thread /\ {Analysis, SendReq, GetResp} \subseteq Thread
      BY Ports, Threads DEF Req
    <2>2. Analysis # GetResp /\ Analysis # SendReq /\ SendReq # GetResp
      BY DEF Analysis, GetResp, SendReq
    <2>3. Req(p) # GetResp /\ Req(p) # SendReq
      BY DEF Req, GetResp, SendReq
    <2> QED BY <2>1, <2>2, <2>3
  <1>2. CASE sendMemReq
    <2>1. /\ Turn(SendReq, 1)
          /\ UNCHANGED <<localCounter, idx, depthBuffer0, currentLen, creating, burstOpStatus>>
      BY <1>2 DEF sendMemReq, control, inspection
    <2>2. /\ Ran(Analysis)' = Ran(Analysis) /\ Ran(Req(p))' = Ran(Req(p)) /\ Ran(SendReq)'
      BY <1>1, <2>1, TurnRan
    <2>3. Ran(GetResp)'
      BY <2>2 DEF TurnsOnce, Ran
    <2>4. Pipeline(p)' = Pipeline(p) /\ (burstReqQueue[p] # <<>> \/ mem[p] # <<>> => mem'[p] # <<>>)
      BY <1>1, <1>2, SendPipe
    <2>5. Underway(p) => Underway(p)'
      BY <2>3, <2>4 DEF Underway
    <2> QED BY <2>1, <2>2, <2>4, <2>5, PhaseKept
  <1>3. ASSUME NEW S \in SUBSET Port, getMemResp(S) PROVE PhaseOf(p)'
    <2>1. /\ Turn(GetResp, 1)
          /\ UNCHANGED <<localCounter, idx, depthBuffer0, currentLen, creating, burstReqQueue,
                         burstOpStatus>>
      BY <1>3 DEF getMemResp, control, inspection, issuing
    <2>2. /\ Ran(Analysis)' = Ran(Analysis) /\ Ran(Req(p))' = Ran(Req(p)) /\ ~Ran(GetResp)
      BY <1>1, <2>1, TurnRan
    <2>3. /\ Len(Pipeline(p)') = Len(Pipeline(p))
          /\ \A k \in 1 .. Len(Pipeline(p)) :
               Pipeline(p)'[k].at = Pipeline(p)[k].at /\ Pipeline(p)'[k].len = Pipeline(p)[k].len
      BY <1>1, <1>3, GetPipe
    <2>4. Underway(p) => Underway(p)'
      BY <2>1, <2>2 DEF Underway
    <2> QED BY <2>1, <2>2, <2>3, <2>4, PhaseKept
  <1> QED
    BY <1>2, <1>3

\* When an iteration ends, every thread had its turn and nothing is buffered
\* or under way: then nothing is left to request, and all is analysed.
LEMMA ScanEnds ==
    ASSUME IInv, Phases, localCounter > StartCount,
           \A t \in Thread : Ran(t), isEndOfBfsIteration, NEW p \in Part
    PROVE  Idle(p) /\ idx[p] = PartBase(p) + PartLen(p)
  <1>1. p \in Port /\ Req(p) \in Thread /\ Analysis \in Thread /\ GetResp \in Thread
    BY Ports, Threads DEF Req
  <1>2. Ran(Analysis) /\ Ran(Req(p))
    BY <1>1
  <1>3. /\ burstReqQueue[p] = <<>> /\ burstRespQueue[p] = <<>>
        /\ burstOpStatus[p] = 0 /\ depthBuffer0[p] = <<>>
    BY <1>1 DEF isEndOfBfsIteration, isBurstReqQueueEmpty, isBurstRespQueueEmpty, StatusEmpty,
      InspectionBuffersEmpty
  <1>4. mem[p] \in Seq(Burst) /\ creating[p] \in Burst /\ currentLen[p] \in Nat /\ idx[p] \in Nat
    BY <1>1 DEF IInv, TypeOK
  <1>5. Len(mem[p]) = 0
    <2>1. burstOpStatus[p] = Len(burstReqQueue[p]) + Len(mem[p]) + Len(burstRespQueue[p])
      BY <1>1 DEF IInv, StatusExact
    <2>2. Len(mem[p]) \in Nat /\ Len(<<>>) = 0
      BY <1>4, EmptySeq
    <2> QED BY <1>3, <2>1, <2>2
  <1>6. mem[p] = <<>>
    BY <1>4, <1>5, Begins
  <1>7. Scanning(p)
    BY DEF Phases, PhaseOf
  <1>8. Left(p) = 1
    BY <1>2, <1>3, EmptySeq DEF Left
  <1>9. creating[p] = NoBurst /\ ~(currentLen[p] < PartLen(p))
    BY <1>2, <1>3, <1>6, <1>7, <1>8 DEF Scanning, Busy, Underway
  <1>10. /\ NoBurst.len = 0 /\ NoBurst \in Burst
         /\ PartBase(p) \in Nat /\ PartLen(p) \in Nat
    BY Bursts, PartFits DEF NoBurst
  <1>11. Len(Pipeline(p)) = 0
    <2>1. IsPipe(Pipeline(p), burstRespQueue[p], mem[p], burstReqQueue[p], creating[p])
      BY <1>1, PipeOf
    <2>2. Len(Pipeline(p)) = Len(burstRespQueue[p]) + Len(mem[p]) + Len(burstReqQueue[p])
                               + (IF creating[p] = NoBurst THEN 0 ELSE 1)
      BY <2>1, Zenon DEF IsPipe
    <2> QED BY <1>3, <1>5, <1>9, <2>2, EmptySeq
  <1>12. Asked(p) = Buffered(p)
    BY <1>7, <1>11 DEF Scanning, Chain
  <1>13. Asked(p) = PartBase(p) + currentLen[p] /\ Buffered(p) = idx[p]
    BY <1>3, <1>4, <1>9, <1>10, EmptySeq DEF Asked, Buffered
  <1>14. PartBase(p) + currentLen[p] <= PartBase(p) + PartLen(p)
    BY <1>7, <1>13 DEF Scanning
  <1>15. currentLen[p] = PartLen(p)
    BY <1>4, <1>9, <1>10, <1>14
  <1> QED
    BY <1>3, <1>9, <1>12, <1>13, <1>15 DEF Idle, Quiet

\* A partition that has begun is one that is scanned.
LEMMA ScanBegins ==
    ASSUME IInv, NEW p \in Part, Begun(p), idx[p] = PartBase(p)
    PROVE  /\ PartBase(p) <= idx[p] /\ Asked(p) <= PartBase(p) + PartLen(p)
           /\ Chain(Pipeline(p), Buffered(p), Asked(p))
  <1>1. p \in Port /\ creating[p] \in Burst
    BY Ports DEF IInv, TypeOK
  <1>2. /\ PartBase(p) \in Nat /\ PartLen(p) \in Nat /\ BaseLen \in Nat /\ BaseLen > 0
    BY PartFits, SizeAssumption DEF SizeAssumption
  <1> PICK len \in Nat : len = IF PartLen(p) = 0 THEN 0 ELSE Lesser(BaseLen, PartLen(p))
    BY <1>2 DEF Lesser
  <1>3. len <= PartLen(p) /\ (PartLen(p) # 0 => len > 0)
    BY <1>2 DEF Lesser
  <1>4. /\ creating[p].len = len
        /\ creating[p] = NoBurst <=> PartLen(p) = 0
        /\ creating[p] # NoBurst => creating[p].at = PartBase(p)
    <2>1. CASE PartLen(p) = 0
      BY <2>1 DEF Begun, NoBurst
    <2>2. CASE PartLen(p) # 0
      <3>1. creating[p] = NewBurst(PartBase(p), len)
        BY <2>2 DEF Begun
      <3>2. NewBurst(PartBase(p), len) # NoBurst
        BY <1>2, <1>3, <2>2, Bursts
      <3> QED BY <2>2, <3>1, <3>2 DEF NewBurst
    <2> QED BY <2>1, <2>2
  <1>5. Asked(p) = PartBase(p) + len /\ Buffered(p) = PartBase(p)
    BY <1>2, <1>4, EmptySeq DEF Asked, Buffered, Begun, Quiet
  <1>6. IsPipe(Pipeline(p), burstRespQueue[p], mem[p], burstReqQueue[p], creating[p])
    BY <1>1, PipeOf
  <1>8. Len(burstReqQueue[p]) = 0 /\ Len(mem[p]) = 0 /\ Len(burstRespQueue[p]) = 0
    BY <1>1, Entries DEF Begun, Quiet
  <1>9. /\ Len(Pipeline(p)) = IF creating[p] = NoBurst THEN 0 ELSE 1
        /\ creating[p] # NoBurst => Pipeline(p)[1] = creating[p]
    BY <1>6, <1>8 DEF IsPipe
  <1>10. Chain(Pipeline(p), Buffered(p), Asked(p))
    <2>1. CASE PartLen(p) = 0
      BY <1>2, <1>3, <1>4, <1>5, <1>9, <2>1 DEF Chain
    <2>2. CASE PartLen(p) # 0
      <3>1. Len(Pipeline(p)) = 1 /\ Pipeline(p)[1].at = PartBase(p) /\ Pipeline(p)[1].len = len
        BY <1>4, <1>9, <2>2
      <3> QED BY <1>2, <1>3, <1>5, <2>2, <3>1 DEF Chain
    <2> QED BY <2>1, <2>2
  <1> QED
    BY <1>2, <1>3, <1>5, <1>10

\* The clock edge: only here an iteration starts, and only here a level
\* changes, when all is analysed.
LEMMA PhaseTick ==
    ASSUME RoomToScan, IInv, IInv', TurnsOnce, Phases, Tick
    PROVE  Phases' /\ (LevelChanges => AllAnalyzed)
  <1> DEFINE count == IF localCounter < EndCount THEN localCounter + 1 ELSE localCounter
             ends == isEndOfBfsIteration /\ count = EndCount
  <1>1. /\ localCounter \in 0 .. EndCount /\ StartCount \in Nat /\ EndCount \in Nat
        /\ 1 < StartCount /\ StartCount + 1 < EndCount
    BY SizeAssumption DEF SizeAssumption, RoomToScan, IInv, TypeOK
  <1>2. /\ bfsIterationStart' = (count = StartCount)
        /\ localCounter' = IF ends THEN 0 ELSE count
        /\ ~ends => level' = level
    BY DEF Tick, bfsController
  <1>3. \A t \in Thread : Ran(t)
    BY DEF Tick, Ran, IInv, TypeOK
  <1>4. \A t \in SingleCycle : ~Ran(t)'
    <2>1. \A t \in SingleCycle : t \in Thread /\ busy[t] = 1 /\ busy' = [u \in Thread |-> busy[u] - 1]
      BY <1>3, SingleCycleThreads DEF TurnsOnce, Tick, Ran
    <2> QED BY <2>1 DEF Ran
  <1>5. UNCHANGED <<idx, armed, currentLen, creating, burstReqQueue, depthBuffer0, burstRespQueue,
                    burstOpStatus, mem>>
    BY tickKeeps
  <1>6. \A p \in Part : Idle(p)' = Idle(p)
    BY <1>5 DEF Idle, Quiet
  <1>7. Analysis \in SingleCycle /\ Analysis \in Thread /\ \A p \in Part : Req(p) \in SingleCycle
        /\ Req(p) \in Thread
    BY Ports, Threads DEF SingleCycle, Req
  <1>8. AllAnalyzed' = AllAnalyzed
    BY <1>5 DEF AllAnalyzed
  <1>9. CASE ends
    <2>1. isEndOfBfsIteration /\ localCounter > StartCount /\ localCounter' = 0
      BY <1>1, <1>2, <1>9
    <2>2. \A p \in Part : Idle(p) /\ idx[p] = PartBase(p) + PartLen(p)
      BY <1>3, <2>1, ScanEnds
    <2>3. AllAnalyzed
      BY <2>2 DEF AllAnalyzed
    <2>4. ~armed /\ ~bfsIterationStart'
      <3>1. ~armed
        BY <2>3 DEF Phases, Watching
      <3>2. count # StartCount
        BY <1>1, <1>9
      <3> QED BY <1>2, <3>1, <3>2
    <2>5. Watching'
      BY <1>1, <1>5, <2>1, <2>4 DEF Watching
    <2>6. \A p \in Part : PhaseOf(p)'
      BY <1>1, <1>6, <2>1, <2>2 DEF PhaseOf
    <2> QED BY <2>3, <2>5, <2>6 DEF Phases
  <1>10. CASE ~ends
    <2>1. localCounter' = count /\ count \in Nat /\ localCounter' >= localCounter
      BY <1>1, <1>2, <1>10
    <2>2. Watching'
      <3>1. armed => localCounter' >= StartCount /\ ~AllAnalyzed
        BY <1>1, <2>1 DEF Phases, Watching
      <3>2. bfsIterationStart' = (localCounter' = StartCount)
        BY <1>2, <2>1, Zenon
      <3> QED BY <1>5, <1>8, <3>1, <3>2 DEF Watching
    <2>3. ASSUME NEW p \in Part PROVE PhaseOf(p)'
      <3>1. PhaseOf(p) /\ ~Ran(Req(p))' /\ ~Ran(Analysis)' /\ Ran(Req(p)) /\ Ran(Analysis)
        BY <1>3, <1>4, <1>7 DEF Phases
      <3>2. CASE localCounter < StartCount
        BY <1>1, <1>6, <2>1, <3>1, <3>2 DEF PhaseOf
      <3>3. CASE localCounter = StartCount
        <4>1. Begun(p) /\ idx[p] = PartBase(p) /\ localCounter' = StartCount + 1
          BY <1>1, <2>1, <3>1, <3>3 DEF PhaseOf
        <4>2. /\ PartBase(p) <= idx[p] /\ Asked(p) <= PartBase(p) + PartLen(p)
              /\ Chain(Pipeline(p), Buffered(p), Asked(p))
          BY <4>1, ScanBegins
        <4>3. p \in Port
          BY Ports
        <4>4. Pipeline(p)' = Pipeline(p) /\ Buffered(p)' = Buffered(p) /\ Asked(p)' = Asked(p)
          BY <1>5, <4>3, SamePipe DEF Buffered, Asked
        <4>5. Busy(p)'
          <5>1. creating[p] = NoBurst => PartLen(p) = 0
            <6>1. CASE PartLen(p) # 0
              <7>1. creating[p] = NewBurst(PartBase(p), Lesser(BaseLen, PartLen(p)))
                BY <4>1, <6>1 DEF Begun
              <7>2. Lesser(BaseLen, PartLen(p)) \in Nat /\ Lesser(BaseLen, PartLen(p)) > 0
                    /\ PartBase(p) \in Int
                BY <6>1, PartFits, SizeAssumption DEF SizeAssumption, Lesser
              <7> QED BY <7>1, <7>2, Bursts
            <6> QED BY <6>1
          <5>2. currentLen[p] = 0
            BY <4>1 DEF Begun
          <5> QED BY <1>5, <3>1, <5>1, <5>2 DEF Busy
        <4>6. Chain(Pipeline(p), Buffered(p), Asked(p))'
          BY <4>2, <4>4 DEF Chain
        <4>7. Scanning(p)'
          BY <1>5, <4>2, <4>4, <4>5, <4>6 DEF Scanning
        <4> QED BY <1>1, <4>1, <4>7 DEF PhaseOf
      <3>4. CASE localCounter > StartCount
        <4>1. Scanning(p) /\ localCounter' > StartCount
          BY <1>1, <2>1, <3>1, <3>4 DEF PhaseOf
        <4>2. p \in Port
          BY Ports
        <4>3. Pipeline(p)' = Pipeline(p) /\ Buffered(p)' = Buffered(p) /\ Asked(p)' = Asked(p)
          BY <1>5, <4>2, SamePipe DEF Buffered, Asked
        <4>4. Busy(p)'
          <5>1. Len(depthBuffer0[p]) \in Nat
            BY DEF IInv, TypeOK
          <5>2. Left(p) = Len(depthBuffer0[p]) + 1 /\ Left(p)' = Len(depthBuffer0[p])
            BY <1>5, <3>1, <5>1 DEF Left
          <5>3. creating[p] = NoBurst /\ currentLen[p] < PartLen(p) => Left(p) >= 3
            BY <3>1, <4>1 DEF Scanning, Busy
          <5>4. creating[p] = NoBurst /\ currentLen[p] < PartLen(p) => Left(p)' >= 2
            BY <5>1, <5>2, <5>3
          <5> QED BY <1>5, <3>1, <5>4 DEF Busy
        <4>5. Chain(Pipeline(p), Buffered(p), Asked(p))'
          BY <4>1, <4>3 DEF Scanning, Chain
        <4>6. Scanning(p)'
          BY <1>5, <4>1, <4>3, <4>4, <4>5 DEF Scanning
        <4> QED BY <1>1, <2>1, <4>1, <4>6 DEF PhaseOf
      <3> QED BY <1>1, <3>2, <3>3, <3>4
    <2>4. ~LevelChanges
      BY <1>2, <1>10 DEF LevelChanges
    <2> QED BY <2>2, <2>3, <2>4 DEF Phases
  <1> QED
    BY <1>9, <1>10

\* The threads of the search do not work for the partitions.
LEMMA PhaseOthers ==
    ASSUME IInv, Phases,
           frontierAnalysis \/ issueExpandCiaoReadReq \/ issueExpandDepthReadReq
             \/ expandDepthAnalysis \/ processExpandRpaoReadResp \/ processExpandCiaoReadResp
             \/ processExpandDepthReadResp \/ processExpandDepthWriteResp \/ statusMonitor
    PROVE  Phases'
  <1>1. /\ burstReqQueue \in [Port -> Seq(Burst)] /\ creating \in [Port -> Burst]
        /\ burstOpStatus \in [Port -> Nat] /\ burstRespQueue \in [Port -> Seq(Burst)]
    BY DEF IInv, TypeOK
  <1>2. ASSUME UNCHANGED <<localCounter, bfsIterationStart, idx, armed, depthBuffer0, currentLen>>,
               NEW i \in Port \ Part, NEW t \in Thread, NEW n \in Nat, Turn(t, n),
               t \in {<<"issue", i>>, <<"resp", i>>, Monitor},
               \A j \in Port \ {i} : /\ creating'[j] = creating[j]
                                     /\ burstReqQueue'[j] = burstReqQueue[j]
                                     /\ burstOpStatus'[j] = burstOpStatus[j]
                                     /\ burstRespQueue'[j] = burstRespQueue[j]
                                     /\ mem'[j] = mem[j]
        PROVE  Phases'
    <2>1. Watching'
      BY <1>2 DEF Phases, Watching, AllAnalyzed
    <2>2. ASSUME NEW p \in Part PROVE PhaseOf(p)'
      <3>1. p \in Port \ {i}
        BY Ports
      <3>2. t \notin {Analysis, Req(p), GetResp}
        BY <1>2, <3>1 DEF Analysis, Req, GetResp, Monitor
      <3>3. PhaseOf(p)
        BY DEF Phases
      <3> QED BY <1>2, <3>1, <3>2, <3>3, OtherThread
    <2> QED BY <2>1, <2>2 DEF Phases
  <1>3. RpaoPort \in Port \ Part /\ CiaoPort \in Port \ Part /\ DepthPort \in Port \ Part
        /\ WritePort \in Port \ Part
    BY Ports
  <1>4. ASSUME NEW i \in Port \ Part, NEW data, Publish(i, data)
        PROVE  \A j \in Port \ {i} : /\ burstReqQueue'[j] = burstReqQueue[j]
                                     /\ burstOpStatus'[j] = burstOpStatus[j]
    BY <1>1, <1>4 DEF Publish
  <1>5. CASE frontierAnalysis
    <2>1. /\ Turn(<<"issue", RpaoPort>>, 1)
          /\ \A j \in Port \ {RpaoPort} : creating'[j] = creating[j]
      BY <1>1, <1>5 DEF frontierAnalysis
    <2>2. Publish(RpaoPort, <<>>)
      BY <1>5 DEF frontierAnalysis
    <2>3. UNCHANGED <<localCounter, bfsIterationStart, idx, armed, depthBuffer0, currentLen,
                      burstRespQueue, mem>>
      BY <1>5 DEF frontierAnalysis, control, inspection, memory
    <2> QED BY <1>2, <1>3, <1>4, <2>1, <2>2, <2>3, Threads
  <1>6. CASE issueExpandCiaoReadReq
    <2>1. /\ Turn(<<"issue", CiaoPort>>, 1)
          /\ \A j \in Port \ {CiaoPort} : creating'[j] = creating[j]
      BY <1>1, <1>6 DEF issueExpandCiaoReadReq
    <2>2. Publish(CiaoPort, <<>>)
      BY <1>6 DEF issueExpandCiaoReadReq
    <2>3. UNCHANGED <<localCounter, bfsIterationStart, idx, armed, depthBuffer0, currentLen,
                      burstRespQueue, mem>>
      BY <1>6 DEF issueExpandCiaoReadReq, control, inspection, memory
    <2> QED BY <1>2, <1>3, <1>4, <2>1, <2>2, <2>3, Threads
  <1>7. CASE issueExpandDepthReadReq
    <2>1. /\ Turn(<<"issue", DepthPort>>, 1)
          /\ \A j \in Port \ {DepthPort} : creating'[j] = creating[j]
      BY <1>1, <1>7 DEF issueExpandDepthReadReq
    <2>2. Publish(DepthPort, <<>>)
      BY <1>7 DEF issueExpandDepthReadReq
    <2>3. UNCHANGED <<localCounter, bfsIterationStart, idx, armed, depthBuffer0, currentLen,
                      burstRespQueue, mem>>
      BY <1>7 DEF issueExpandDepthReadReq, control, inspection, memory
    <2> QED BY <1>2, <1>3, <1>4, <2>1, <2>2, <2>3, Threads
  <1>8. CASE expandDepthAnalysis
    <2>1. /\ Turn(<<"issue", WritePort>>, 1)
          /\ \A j \in Port \ {WritePort} : creating'[j] = creating[j]
      BY <1>1, <1>8 DEF expandDepthAnalysis
    <2>2. \E data : Publish(WritePort, data)
      BY <1>8 DEF expandDepthAnalysis
    <2>3. UNCHANGED <<localCounter, bfsIterationStart, idx, armed, depthBuffer0, currentLen,
                      burstRespQueue, mem>>
      BY <1>8 DEF expandDepthAnalysis, control, inspection, memory
    <2> QED BY <1>2, <1>3, <1>4, <2>1, <2>2, <2>3, Threads
  <1>9. ASSUME NEW i \in Port \ Part, i # WritePort, Receive(i), depthBuffer0' = depthBuffer0
        PROVE  Phases'
    <2> DEFINE rest == IF serving[i] THEN Tail(burstRespQueue[i]) ELSE burstRespQueue[i]
               n == IF rest = <<>> THEN 1 ELSE Head(rest).len
    <2>1. /\ Turn(<<"resp", i>>, n)
          /\ UNCHANGED <<localCounter, bfsIterationStart, idx, armed, currentLen, creating,
                         burstReqQueue, mem>>
          /\ \A j \in Port \ {i} : burstOpStatus'[j] = burstOpStatus[j]
          /\ \A j \in Port \ {i} : burstRespQueue'[j] = burstRespQueue[j]
      <3> HIDE DEF n
      <3>1. Turn(<<"resp", i>>, n)
        BY <1>9 DEF Receive, n
      <3>2. UNCHANGED <<localCounter, bfsIterationStart, idx, armed, currentLen, creating,
                        burstReqQueue, mem>>
        BY <1>9 DEF Receive, control, inspection, issuing, memory
      <3>3. \A j \in Port \ {i} : burstRespQueue'[j] = burstRespQueue[j]
        BY <1>9, ReceivePipe
      <3>4. \A j \in Port \ {i} : burstOpStatus'[j] = burstOpStatus[j]
        BY <1>9, ReceiveStep
      <3> QED BY <3>1, <3>2, <3>3, <3>4
    <2>2. n \in Nat
      <3>1. burstRespQueue[i] \in Seq(Burst) /\ (serving[i] => burstRespQueue[i] # <<>>)
        BY <1>1 DEF IInv, ServingHead
      <3>2. rest \in Seq(Burst)
        BY <3>1
      <3>3. rest # <<>> => Head(rest) \in Burst
        BY <3>2
      <3> QED BY <3>3 DEF Burst
    <2> HIDE DEF n
    <2> QED BY <1>2, <1>9, <2>1, <2>2, Threads
  <1>10. CASE processExpandRpaoReadResp \/ processExpandCiaoReadResp \/ processExpandDepthReadResp
    BY <1>3, <1>9, <1>10, Ports DEF processExpandRpaoReadResp, processExpandCiaoReadResp,
      processExpandDepthReadResp
  <1>11. CASE processExpandDepthWriteResp
    <2>1. /\ Turn(<<"resp", WritePort>>, 1)
          /\ UNCHANGED <<localCounter, bfsIterationStart, idx, armed, depthBuffer0, currentLen,
                         creating, burstReqQueue, mem>>
      BY <1>11 DEF processExpandDepthWriteResp, control, inspection, issuing, memory
    <2>2. \A j \in Port \ {WritePort} : /\ burstOpStatus'[j] = burstOpStatus[j]
                                        /\ burstRespQueue'[j] = burstRespQueue[j]
      BY <1>1, <1>11 DEF processExpandDepthWriteResp
    <2> QED BY <1>2, <1>3, <2>1, <2>2, Threads
  <1>12. CASE statusMonitor
    <2>1. /\ Turn(Monitor, 1)
          /\ UNCHANGED <<localCounter, bfsIterationStart, idx, armed, depthBuffer0, currentLen,
                         creating, burstReqQueue, burstOpStatus, burstRespQueue, mem>>
      BY <1>12 DEF statusMonitor, inspection, issuing, memory
    <2> QED BY <1>2, <1>3, <2>1, Threads
  <1> QED
    BY <1>5, <1>6, <1>7, <1>8, <1>10, <1>11, <1>12

\* Every step keeps the phases.
LEMMA PhasesStep ==
    ASSUME RoomToScan, IInv, IInv', ScanInv, TurnsOnce', [Next]_vars
    PROVE  Phases' /\ (LevelChanges => AllAnalyzed)
  <1>1. TurnsOnce /\ DataKnown /\ Phases
    BY DEF ScanInv
  <1>2. CASE Tick
    BY <1>1, <1>2, PhaseTick
  <1>3. ASSUME NEW p \in Part, inspectDepthReqThread(p) PROVE Phases' /\ level' = level
    <2>1. /\ Turn(Req(p), 1) /\ Publish(p, <<>>)
          /\ UNCHANGED <<level, localCounter, bfsIterationStart, armed, idx, depthBuffer0,
                         burstRespQueue, mem>>
      BY <1>3 DEF inspectDepthReqThread, control, inspection, memory, Req
    <2>2. Watching'
      BY <1>1, <2>1 DEF Phases, Watching, AllAnalyzed
    <2>3. PhaseOf(p)'
      BY <1>1, <1>3, PhaseReq DEF Phases
    <2>4. ASSUME NEW o \in Part \ {p} PROVE PhaseOf(o)'
      <3>1. Req(p) \in Thread \ {Analysis, Req(o), GetResp} /\ o \in Port /\ p \in Port /\ PhaseOf(o)
        BY <1>1, Ports, Threads DEF Req, Analysis, GetResp, Phases
      <3>2. /\ creating'[o] = creating[o] /\ currentLen'[o] = currentLen[o]
        BY <1>3, <3>1 DEF inspectDepthReqThread, IInv, TypeOK
      <3>3. /\ burstReqQueue'[o] = burstReqQueue[o]
            /\ burstOpStatus'[o] = burstOpStatus[o]
        BY <2>1, <3>1 DEF Publish, IInv, TypeOK
      <3> QED BY <2>1, <3>1, <3>2, <3>3, OtherThread
    <2> QED BY <2>1, <2>2, <2>3, <2>4 DEF Phases
  <1>4. ASSUME NEW p \in Part, inspectDepthRespThread(p) PROVE Phases' /\ level' = level
    <2>1. /\ Receive(p)
          /\ UNCHANGED <<level, localCounter, bfsIterationStart, armed, idx, currentLen, creating,
                         burstReqQueue, mem>>
          /\ p \in Port /\ p # WritePort
      BY <1>4, Ports DEF inspectDepthRespThread, Receive, control, inspection, issuing, memory
    <2>2. Watching'
      BY <1>1, <2>1 DEF Phases, Watching, AllAnalyzed
    <2>3. PhaseOf(p)'
      BY <1>1, <1>4, PhaseResp DEF Phases
    <2>4. ASSUME NEW o \in Part \ {p} PROVE PhaseOf(o)'
      <3>1. o \in Port \ {p} /\ PhaseOf(o)
        BY <1>1, Ports DEF Phases
      <3>2. depthBuffer0'[o] = depthBuffer0[o]
        BY <1>4 DEF inspectDepthRespThread, IInv, TypeOK
      <3>3. burstOpStatus'[o] = burstOpStatus[o]
        BY <2>1, <3>1, ReceiveStep
      <3>4. burstRespQueue'[o] = burstRespQueue[o]
        BY <2>1, <3>1, ReceivePipe
      <3>5. PICK n \in Nat : Turn(<<"resp", p>>, n)
        <4>1. \E n : Turn(<<"resp", p>>, n)
          BY <2>1 DEF Receive
        <4>2. <<"resp", p>> \in Thread
          BY <2>1, Threads
        <4> QED BY <4>1, <4>2 DEF Turn, IInv, TypeOK
      <3>6. <<"resp", p>> \in Thread \ {Analysis, Req(o), GetResp}
        BY <2>1, Threads DEF Req, Analysis, GetResp
      <3> QED BY <2>1, <3>1, <3>2, <3>3, <3>4, <3>5, <3>6, OtherThread
    <2> QED BY <2>1, <2>2, <2>3, <2>4 DEF Phases
  <1>5. CASE inspectDepthAnalysis
    BY <1>1, <1>5, PhaseAnalysis DEF LevelChanges, inspectDepthAnalysis, control
  <1>6. CASE sendMemReq \/ \E S \in SUBSET Port : getMemResp(S)
    <2>1. UNCHANGED <<level, localCounter, bfsIterationStart, armed, idx>>
      BY <1>6 DEF sendMemReq, getMemResp, control, inspection
    <2>2. Watching'
      BY <1>1, <2>1 DEF Phases, Watching, AllAnalyzed
    <2>3. \A p \in Part : PhaseOf(p)'
      BY <1>1, <1>6, PhaseMemory DEF Phases
    <2> QED BY <2>1, <2>2, <2>3 DEF Phases, LevelChanges
  <1>7. CASE frontierAnalysis \/ issueExpandCiaoReadReq \/ issueExpandDepthReadReq
             \/ expandDepthAnalysis \/ processExpandRpaoReadResp \/ processExpandCiaoReadResp
             \/ processExpandDepthReadResp \/ processExpandDepthWriteResp \/ statusMonitor
    <2>1. Phases'
      BY <1>1, <1>7, PhaseOthers
    <2>2. level' = level
      BY <1>7 DEF frontierAnalysis, issueExpandCiaoReadReq, issueExpandDepthReadReq,
        expandDepthAnalysis, processExpandRpaoReadResp, processExpandCiaoReadResp,
        processExpandDepthReadResp, processExpandDepthWriteResp, statusMonitor, Receive, control
    <2> QED BY <2>1, <2>2 DEF LevelChanges
  <1>8. CASE UNCHANGED vars
    <2>1. UNCHANGED <<level, localCounter, bfsIterationStart, armed, idx, currentLen, creating,
                      burstReqQueue, mem, burstRespQueue, depthBuffer0, burstOpStatus, busy>>
      BY <1>8 DEF vars, control, inspection, issuing, memory
    <2>2. Watching'
      BY <1>1, <2>1 DEF Phases, Watching, AllAnalyzed
    <2>3. ASSUME NEW p \in Part PROVE PhaseOf(p)'
      <3>1. p \in Port
        BY Ports
      <3>2. Pipeline(p)' = Pipeline(p)
        BY <2>1, <3>1, SamePipe
      <3>3. Ran(Analysis)' = Ran(Analysis) /\ Ran(Req(p))' = Ran(Req(p)) /\ Underway(p)' = Underway(p)
        BY <2>1 DEF Ran, Underway
      <3>4. PhaseOf(p)
        BY <1>1 DEF Phases
      <3> QED BY <2>1, <3>2, <3>3, <3>4, PhaseKept
    <2> QED BY <2>1, <2>2, <2>3 DEF Phases, LevelChanges
  <1> QED
    BY <1>2, <1>3, <1>4, <1>5, <1>6, <1>7, <1>8 DEF Next, LevelChanges
-----------------------------------------------------------------------------
(* The specification *)

\* Nothing is asked for, and nothing watched for, before the first iteration.
LEMMA ScanInit == ASSUME Init PROVE ScanInv
  <1>1. StartCount \in Nat /\ 1 < StartCount /\ Analysis \in Thread
        /\ SingleCycle \subseteq Thread /\ SendReq \in Thread
    BY SizeAssumption, SingleCycleThreads, Threads DEF SizeAssumption
  <1>2. TurnsOnce
    BY <1>1 DEF Init, TurnsOnce, Ran
  <1>3. DataKnown
    BY EmptySeq DEF Init, DataKnown
  <1>4. Watching
    BY <1>1 DEF Init, Watching
  <1>5. \A p \in Part : PhaseOf(p)
    BY <1>1, Ports DEF Init, PhaseOf, Idle, Quiet
  <1> QED
    BY <1>2, <1>3, <1>4, <1>5 DEF ScanInv, Phases

\* The invariant of the inspection, and what it says of a change of level.
LEMMA ScanStep ==
    ASSUME RoomToScan, IInv, ScanInv, [Next]_vars
    PROVE  IInv' /\ ScanInv' /\ (LevelChanges => AllAnalyzed)
  <1>1. IInv'
    BY nextInv
  <1>2. TurnsOnce' /\ DataKnown'
    BY TurnsStep, DataStep DEF ScanInv
  <1>3. Phases' /\ (LevelChanges => AllAnalyzed)
    BY <1>1, <1>2, PhasesStep
  <1> QED
    BY <1>1, <1>2, <1>3 DEF ScanInv

\* The inductive invariant of the inspection.
THEOREM ScanInvariance == ASSUME RoomToScan PROVE Spec => [](IInv /\ ScanInv)
  <1>1. Init => IInv /\ ScanInv
    BY initInv, ScanInit
  <1>2. IInv /\ ScanInv /\ [Next]_vars => (IInv /\ ScanInv)'
    BY ScanStep
  <1> QED
    BY <1>1, <1>2, PTL DEF Spec

\* inspectDepthAnalysis gives every depth to the vertex it was read for: the
\* bursts of a partition continue where the buffered depths end.
THEOREM ScanIsContiguous == ASSUME RoomToScan PROVE Spec => []ScanContiguous
  <1>1. IInv /\ ScanInv => ScanContiguous
    <2> SUFFICES ASSUME IInv, ScanInv, armed, ~bfsIterationStart, NEW p \in Part
                 PROVE  LET coming == Pipeline(p)
                            buffered == idx[p] + Len(depthBuffer0[p])
                            end(k) == IF k = 0 THEN buffered ELSE coming[k].at + coming[k].len
                        IN  /\ \A k \in 1 .. Len(coming) : coming[k].at = end(k - 1)
                            /\ end(Len(coming)) = PartBase(p) + currentLen[p] + creating[p].len
      BY DEF ScanContiguous
    <2>1. Scanning(p)
      <3>1. localCounter \in Nat /\ StartCount \in Nat
        BY SizeAssumption DEF SizeAssumption, IInv, TypeOK
      <3> QED BY <3>1 DEF ScanInv, Phases, Watching, PhaseOf
    <2>2. /\ \A k \in 1 .. Len(Pipeline(p)) :
               Pipeline(p)[k].at = IF k = 1 THEN Buffered(p)
                                   ELSE Pipeline(p)[k - 1].at + Pipeline(p)[k - 1].len
          /\ Asked(p) = IF Len(Pipeline(p)) = 0 THEN Buffered(p)
                        ELSE Pipeline(p)[Len(Pipeline(p))].at + Pipeline(p)[Len(Pipeline(p))].len
      BY <2>1 DEF Scanning, Chain
    <2>3. \A k \in 1 .. Len(Pipeline(p)) : k - 1 = 0 <=> k = 1
      OBVIOUS
    <2> QED BY <2>2, <2>3 DEF Buffered, Asked
  <1> QED
    BY <1>1, ScanInvariance, PTL

InspectionComplete == [][LevelChanges => AllAnalyzed]_vars

\* No level changes before the depth of every vertex was analysed, so no
\* vertex of the frontier is missed (what LevelComplete says of the inspection).
THEOREM InspectionIsComplete == ASSUME RoomToScan PROVE Spec => InspectionComplete
  <1>1. IInv /\ ScanInv /\ [Next]_vars => [LevelChanges => AllAnalyzed]_vars
    BY ScanStep
  <1> QED
    BY <1>1, ScanInvariance, PTL DEF Spec, InspectionComplete

-----------------------------------------------------------------------------
(* What flows from the frontier to the depth array: no burst leaves its      *)
(* array, and a depth that was read stays beside the vertex it was read for. *)

\* The edges lo .. hi-1 leave one vertex of S; the vertices at the end of the
\* edges that leave S.
Within(S, lo, hi) == \E u \in S : Rpao[u] <= lo /\ hi <= Rpao[u + 1]
Targets(S) == {v \in Vertex : \E e \in 0 .. Rpao[V] - 1 : Within(S, e, e + 1) /\ Ciao[e] = v}

\* What port i may access once the vertices of S were found by the inspection.
Fits(S, i, at, len) ==
    /\ i = RpaoPort => at \in S /\ len = 2
    /\ i = CiaoPort => len > 0 /\ Within(S, at, at + len)
    /\ i \in {DepthPort, WritePort} => at \in Targets(S) /\ len = 1
BurstsFit(S) ==
    \A i \in Port : \A k \in 1 .. Len(Pipeline(i)) :
        Fits(S, i, Pipeline(i)[k].at, Pipeline(i)[k].len)

\* The buffers between the ports: vertices of S, the pairs of their offsets,
\* the edges still to request, and the vertices these lead to.
AllIn(s, S) == \A k \in 1 .. Len(s) : s[k] \in S
OffsetsOf(s, S, n) ==
    /\ Len(s) = 2 * n
    /\ \A k \in 1 .. n : \E u \in S : s[2 * k - 1] = Rpao[u] /\ s[2 * k] = Rpao[u + 1]
BuffersIn(S) ==
    /\ AllIn(frontierBuffer, S)
    /\ \E n \in Nat : OffsetsOf(rpaoBuffer, S, n)
    /\ edges.next < edges.end => Within(S, edges.next, edges.end)
    /\ AllIn(ciaoBuffer, Targets(S))
    /\ AllIn(vidxBuffer, Targets(S))

\* Everything that is followed starts in S.
Flow(S) == BurstsFit(S) /\ BuffersIn(S)

\* The responses of the two CSR arrays hold what was asked for.
OffsetsRead(b) == b.data[1] = Rpao[b.at] /\ b.data[2] = Rpao[b.at + 1]
TargetsRead(b) == \A j \in 1 .. Len(b.data) : b.data[j] = Ciao[b.at + j - 1]
CsrRead ==
    /\ \A k \in 1 .. Len(burstRespQueue[RpaoPort]) : OffsetsRead(burstRespQueue[RpaoPort][k])
    /\ \A k \in 1 .. Len(burstRespQueue[CiaoPort]) : TargetsRead(burstRespQueue[CiaoPort][k])
-----------------------------------------------------------------------------
(* The graph *)

\* More vertices found, more to follow.
LEMMA MoreEdges ==
    ASSUME NEW S, NEW T, S \subseteq T
    PROVE  /\ \A lo, hi : Within(S, lo, hi) => Within(T, lo, hi)
           /\ Targets(S) \subseteq Targets(T)
  BY DEF Within, Targets

\* The offsets of a vertex, and where they lead.
LEMMA Offsets ==
    ASSUME NEW u \in Vertex
    PROVE  Rpao[u] \in Nat /\ Rpao[u + 1] \in Nat /\ Rpao[u + 1] <= Rpao[V]
  <1>1. u \in 0 .. V /\ u + 1 \in 0 .. V
    BY GraphAssumption DEF GraphAssumption, Vertex
  <1> QED
    BY <1>1, GraphAssumption DEF GraphAssumption

LEMMA Follow ==
    ASSUME NEW S \in SUBSET Vertex, NEW lo \in Int, NEW hi \in Int, Within(S, lo, hi), lo < hi
    PROVE  /\ 0 <= lo /\ hi <= Rpao[V]
           /\ \A e \in lo .. hi - 1 : Ciao[e] \in Targets(S)
  <1> PICK u \in S : Rpao[u] <= lo /\ hi <= Rpao[u + 1]
    BY DEF Within
  <1>1. Rpao[u] \in Nat /\ Rpao[u + 1] \in Nat /\ Rpao[u + 1] <= Rpao[V]
    BY Offsets
  <1>2. Rpao[V] \in Nat
    BY GraphAssumption DEF GraphAssumption
  <1>3. ASSUME NEW e \in lo .. hi - 1 PROVE Ciao[e] \in Targets(S)
    <2>1. e \in 0 .. Rpao[V] - 1 /\ Rpao[u] <= e /\ e + 1 <= Rpao[u + 1]
      BY <1>1, <1>2
    <2>2. Ciao[e] \in Vertex
      BY <2>1, GraphAssumption DEF GraphAssumption
    <2> QED BY <2>1, <2>2 DEF Targets, Within
  <1> QED
    BY <1>1, <1>2, <1>3

\* The longest chunk of the edge array, in elements.
LEMMA ChunkSize == BaseLen \div IntSize \in Nat /\ BaseLen \div IntSize > 0
  <1>1. \A a \in Nat, b \in Nat \ {0} : a >= b => a \div b \in Nat /\ a \div b > 0
    <2> TAKE a \in Nat, b \in Nat \ {0}
    <2> HAVE a >= b
    <2>1. a \div b \in Int /\ b * (a \div b) <= a /\ a < b * (a \div b) + b
      OBVIOUS
    <2> PICK q \in Int : q = a \div b /\ b * q <= a /\ a < b * q + b
      BY <2>1
    <2>2. CASE q <= 0
      <3>1. b * q <= 0
        BY <2>2
      <3> QED BY <3>1
    <2> QED BY <2>2
  <1> QED
    BY <1>1, SizeAssumption DEF SizeAssumption

\* A sequence of members, and one with others at its end or its beginning cut.
LEMMA AllInPart ==
    ASSUME NEW X, NEW s \in Seq(X), NEW S, AllIn(s, S)
    PROVE  /\ s # <<>> => Head(s) \in S /\ AllIn(Tail(s), S)
           /\ \A x \in X : x \in S => AllIn(Append(s, x), S)
           /\ \A t \in Seq(X) : AllIn(t, S) => AllIn(s \o t, S)
  <1>1. Len(s) \in Nat
    OBVIOUS
  <1>2. ASSUME s # <<>> PROVE Head(s) \in S /\ AllIn(Tail(s), S)
    <2>1. /\ Len(s) > 0 /\ Len(Tail(s)) = Len(s) - 1 /\ Head(s) = s[1]
          /\ \A k \in 1 .. Len(Tail(s)) : Tail(s)[k] = s[k + 1]
      BY <1>2, Begins
    <2>2. \A k \in 1 .. Len(Tail(s)) : k + 1 \in 1 .. Len(s)
      BY <1>1, <2>1
    <2>3. 1 \in 1 .. Len(s)
      BY <1>1, <2>1
    <2> QED BY <2>1, <2>2, <2>3 DEF AllIn
  <1>3. ASSUME NEW x \in X, x \in S PROVE AllIn(Append(s, x), S)
    <2>1. /\ Len(Append(s, x)) = Len(s) + 1
          /\ \A k \in 1 .. Len(s) : Append(s, x)[k] = s[k]
          /\ Append(s, x)[Len(s) + 1] = x
      BY Ends
    <2>2. \A k \in 1 .. Len(s) + 1 : k \in 1 .. Len(s) \/ k = Len(s) + 1
      BY <1>1
    <2> QED BY <1>3, <2>1, <2>2 DEF AllIn
  <1>4. ASSUME NEW t \in Seq(X), AllIn(t, S) PROVE AllIn(s \o t, S)
    <2>1. /\ Len(s \o t) = Len(s) + Len(t)
          /\ \A k \in 1 .. Len(s) + Len(t) :
               (s \o t)[k] = IF k <= Len(s) THEN s[k] ELSE t[k - Len(s)]
      BY Joined2
    <2>2. Len(t) \in Nat
      OBVIOUS
    <2>3. \A k \in 1 .. Len(s) + Len(t) :
            IF k <= Len(s) THEN k \in 1 .. Len(s) ELSE k - Len(s) \in 1 .. Len(t)
      BY <1>1, <2>2
    <2> QED BY <1>4, <2>1, <2>3 DEF AllIn
  <1> QED
    BY <1>2, <1>3, <1>4

\* What follows the first k elements of a sequence.
LEMMA Rest ==
    ASSUME NEW X, NEW s \in Seq(X), NEW k \in 0 .. Len(s)
    PROVE  /\ Len(SubSeq(s, k + 1, Len(s))) = Len(s) - k
           /\ \A j \in 1 .. Len(s) - k : SubSeq(s, k + 1, Len(s))[j] = s[k + j]
  OBVIOUS

LEMMA AllInRest ==
    ASSUME NEW X, NEW s \in Seq(X), NEW S, AllIn(s, S), NEW k \in 0 .. Len(s)
    PROVE  AllIn(SubSeq(s, k + 1, Len(s)), S)
  <1> DEFINE t == SubSeq(s, k + 1, Len(s))
  <1>1. Len(t) = Len(s) - k /\ \A j \in 1 .. Len(s) - k : t[j] = s[k + j]
    BY Rest
  <1>2. Len(s) \in Nat
    OBVIOUS
  <1>3. \A j \in 1 .. Len(s) - k : k + j \in 1 .. Len(s)
    BY <1>2
  <1> HIDE DEF t
  <1>4. AllIn(t, S)
    BY <1>1, <1>3 DEF AllIn
  <1> QED
    BY <1>4 DEF t
-----------------------------------------------------------------------------
(* What the ports access *)

\* A burst that fits may be added.
LEMMA FitsIssue ==
    ASSUME IInv, NEW S, BurstsFit(S), NEW i \in Port, NEW data \in Seq(Int), NEW b \in Burst,
           Publish(i, data), creating' = [creating EXCEPT ![i] = b],
           UNCHANGED <<mem, burstRespQueue>>, b # NoBurst => Fits(S, i, b.at, b.len)
    PROVE  BurstsFit(S)'
  <1> SUFFICES ASSUME NEW j \in Port, NEW k \in 1 .. Len(Pipeline(j)')
               PROVE  Fits(S, j, Pipeline(j)'[k].at, Pipeline(j)'[k].len)
    BY DEF BurstsFit, Fits
  <1>1. CASE j # i
    <2>1. Pipeline(j)' = Pipeline(j)
      BY <1>1, IssuePipe
    <2> QED BY <2>1, Zenon DEF BurstsFit
  <1>2. CASE j = i
    <2>1. /\ Pipeline(i) \in Seq(Burst)
          /\ Len(Pipeline(i)') = Len(Pipeline(i)) + (IF b = NoBurst THEN 0 ELSE 1)
          /\ \A n \in 1 .. Len(Pipeline(i)) :
               Pipeline(i)'[n].at = Pipeline(i)[n].at /\ Pipeline(i)'[n].len = Pipeline(i)[n].len
          /\ b # NoBurst => Pipeline(i)'[Len(Pipeline(i)) + 1] = b
      BY IssuePipe
    <2>2. CASE k \in 1 .. Len(Pipeline(i))
      BY <1>2, <2>1, <2>2, Zenon DEF BurstsFit
    <2>3. CASE b # NoBurst /\ k = Len(Pipeline(i)) + 1
      BY <1>2, <2>1, <2>3, Zenon
    <2>4. k \in 1 .. Len(Pipeline(i)) \/ (b # NoBurst /\ k = Len(Pipeline(i)) + 1)
      BY <1>2, <2>1
    <2> QED BY <2>2, <2>3, <2>4
  <1> QED
    BY <1>1, <1>2

\* Consuming bursts leaves those that fit.
LEMMA FitsReceive ==
    ASSUME IInv, NEW S, BurstsFit(S), NEW i \in Port, i # WritePort, Receive(i)
    PROVE  BurstsFit(S)'
  <1> SUFFICES ASSUME NEW j \in Port, NEW k \in 1 .. Len(Pipeline(j)')
               PROVE  Fits(S, j, Pipeline(j)'[k].at, Pipeline(j)'[k].len)
    BY DEF BurstsFit, Fits
  <1>1. CASE Pipeline(j)' = Pipeline(j)
    BY <1>1, Zenon DEF BurstsFit
  <1>2. CASE Pipeline(j)' # Pipeline(j)
    <2>1. /\ Len(Pipeline(j)) = Len(Pipeline(j)') + 1
          /\ Pipeline(j)'[k] = Pipeline(j)[k + 1]
      BY <1>2, ReceivePipe
    <2>2. Pipeline(j) \in Seq(Burst)
      BY PipeOf DEF IsPipe
    <2>3. Len(Pipeline(j)) \in Nat
      BY <2>2
    <2>4. k + 1 \in 1 .. Len(Pipeline(j))
      BY <2>1, <2>3
    <2> QED BY <2>1, <2>4, Zenon DEF BurstsFit
  <1> QED
    BY <1>1, <1>2

\* The responses of the write port are all consumed at once.
LEMMA WritePipe ==
    ASSUME IInv, processExpandDepthWriteResp
    PROVE  /\ \A j \in Port \ {WritePort} : /\ Pipeline(j)' = Pipeline(j)
                                            /\ burstRespQueue'[j] = burstRespQueue[j]
           /\ \E n \in Nat :
                /\ n = Len(burstRespQueue[WritePort])
                /\ Len(Pipeline(WritePort)) = Len(Pipeline(WritePort)') + n
                /\ \A k \in 1 .. Len(Pipeline(WritePort)') :
                     Pipeline(WritePort)'[k] = Pipeline(WritePort)[k + n]
  <1>1. /\ burstRespQueue' = [burstRespQueue EXCEPT ![WritePort] = <<>>]
        /\ creating' = creating /\ burstReqQueue' = burstReqQueue /\ mem' = mem
    BY DEF processExpandDepthWriteResp, issuing, memory
  <1>2. WritePort \in Port /\ burstRespQueue \in [Port -> Seq(Burst)]
    BY Ports DEF IInv, TypeOK
  <1>3. ASSUME NEW j \in Port \ {WritePort}
        PROVE  Pipeline(j)' = Pipeline(j) /\ burstRespQueue'[j] = burstRespQueue[j]
    <2>1. burstRespQueue'[j] = burstRespQueue[j]
      BY <1>1, <1>2
    <2> QED BY <1>1, <2>1, SamePipe, Zenon
  <1> PICK r, r2 : r = burstRespQueue[WritePort] /\ r2 = burstRespQueue'[WritePort]
    OBVIOUS
  <1>4. /\ burstReqQueue[WritePort] \in Seq(Burst) /\ creating[WritePort] \in Burst
        /\ mem[WritePort] \in Seq(Burst) /\ r \in Seq(Burst)
    BY <1>2 DEF IInv, TypeOK
  <1>5. r2 = <<>> /\ r2 \in Seq(Burst) /\ Len(r2) = 0
    BY <1>1, <1>2
  <1>6. Len(r) \in Nat
    BY <1>4
  <1> PICK n \in Nat : n = Len(r)
    BY <1>6
  <1>7. Len(r) = n + Len(r2) /\ \A k \in 1 .. Len(r2) : r2[k] = r[k + n]
    BY <1>5
  <1>8. IsPipe(Pipeline(WritePort), r, mem[WritePort], burstReqQueue[WritePort], creating[WritePort])
    BY <1>2, PipeOf
  <1>9. IsPipe(Pipeline(WritePort)', r2, mem[WritePort], burstReqQueue[WritePort], creating[WritePort])
    BY <1>1, <1>4, <1>5, PipelineAt, Zenon DEF Pipeline, Last
  <1>10. Pop(Pipeline(WritePort), Pipeline(WritePort)', r, mem[WritePort],
             burstReqQueue[WritePort], r2, creating[WritePort], n)
    BY <1>4, <1>5, <1>7, <1>8, <1>9, Zenon DEF Pop
  <1>11. /\ Len(Pipeline(WritePort)) = Len(Pipeline(WritePort)') + n
         /\ \A k \in 1 .. Len(Pipeline(WritePort)') :
              Pipeline(WritePort)'[k] = Pipeline(WritePort)[k + n]
    BY <1>10, Popped
  <1> QED
    BY <1>3, <1>11

LEMMA FitsWritten ==
    ASSUME IInv, IInv', NEW S, BurstsFit(S), processExpandDepthWriteResp
    PROVE  BurstsFit(S)'
  <1> SUFFICES ASSUME NEW j \in Port, NEW k \in 1 .. Len(Pipeline(j)')
               PROVE  Fits(S, j, Pipeline(j)'[k].at, Pipeline(j)'[k].len)
    BY DEF BurstsFit, Fits
  <1>1. CASE j # WritePort
    <2>1. Pipeline(j)' = Pipeline(j)
      BY <1>1, WritePipe
    <2> QED BY <2>1, Zenon DEF BurstsFit
  <1>2. CASE j = WritePort
    <2> PICK n \in Nat : /\ Len(Pipeline(j)) = Len(Pipeline(j)') + n
                         /\ Pipeline(j)'[k] = Pipeline(j)[k + n]
      BY <1>2, WritePipe
    <2>1. Pipeline(j)' \in Seq(Burst)
      BY PipeOfNext DEF IsPipe
    <2>2. Len(Pipeline(j)') \in Nat
      BY <2>1
    <2>3. k + n \in 1 .. Len(Pipeline(j))
      BY <2>2
    <2> QED BY <2>3, Zenon DEF BurstsFit
  <1> QED
    BY <1>1, <1>2

\* The memory changes neither the place nor the length of a burst.
LEMMA FitsMemory ==
    ASSUME IInv, NEW S, BurstsFit(S), sendMemReq \/ \E R \in SUBSET Port : getMemResp(R)
    PROVE  BurstsFit(S)'
  <1> SUFFICES ASSUME NEW j \in Port, NEW k \in 1 .. Len(Pipeline(j)')
               PROVE  Fits(S, j, Pipeline(j)'[k].at, Pipeline(j)'[k].len)
    BY DEF BurstsFit, Fits
  <1>1. /\ Len(Pipeline(j)') = Len(Pipeline(j))
        /\ \A n \in 1 .. Len(Pipeline(j)) :
             Pipeline(j)'[n].at = Pipeline(j)[n].at /\ Pipeline(j)'[n].len = Pipeline(j)[n].len
    <2>1. CASE sendMemReq
      BY <2>1, SendPipe, Zenon
    <2>2. CASE \E R \in SUBSET Port : getMemResp(R)
      BY <2>2, GetPipe, Zenon
    <2> QED BY <2>1, <2>2
  <1> QED
    BY <1>1, Zenon DEF BurstsFit

\* A step that leaves the queues alone.
LEMMA FitsKept ==
    ASSUME NEW S, BurstsFit(S), UNCHANGED <<creating, burstReqQueue, mem, burstRespQueue>>
    PROVE  BurstsFit(S)'
  <1> SUFFICES ASSUME NEW j \in Port, NEW k \in 1 .. Len(Pipeline(j)')
               PROVE  Fits(S, j, Pipeline(j)'[k].at, Pipeline(j)'[k].len)
    BY DEF BurstsFit, Fits
  <1>1. Pipeline(j)' = Pipeline(j)
    BY SamePipe
  <1> QED
    BY <1>1, Zenon DEF BurstsFit
-----------------------------------------------------------------------------
(* Responses *)

\* The bursts of a port, through its queues.
LEMMA Places ==
    ASSUME IInv, NEW i \in Port
    PROVE  /\ \A k \in 1 .. Len(burstRespQueue[i]) :
                k \in 1 .. Len(Pipeline(i)) /\ Pipeline(i)[k] = burstRespQueue[i][k]
           /\ mem[i] # <<>> =>
                \E k \in 1 .. Len(Pipeline(i)) : Pipeline(i)[k] = mem[i][1]
           /\ burstRespQueue[i] \in Seq(Burst) /\ mem[i] \in Seq(Burst)
           /\ Pipeline(i) \in Seq(Burst)
  <1> PICK r, m, q, c, all : /\ r = burstRespQueue[i] /\ m = mem[i] /\ q = burstReqQueue[i]
                             /\ c = creating[i] /\ all = Pipeline(i)
    OBVIOUS
  <1>1. r \in Seq(Burst) /\ m \in Seq(Burst) /\ q \in Seq(Burst) /\ c \in Burst
    BY DEF IInv, TypeOK
  <1>2. Len(r) \in Nat /\ Len(m) \in Nat /\ Len(q) \in Nat
    BY <1>1
  <1>3. IsPipe(all, r, m, q, c)
    BY PipeOf
  <1>4. /\ all \in Seq(Burst)
        /\ Len(all) >= Len(r) + Len(m)
        /\ \A k \in 1 .. Len(all) :
             all[k] = IF k <= Len(r) THEN r[k]
                      ELSE IF k <= Len(r) + Len(m) THEN m[k - Len(r)]
                      ELSE IF k <= Len(r) + Len(m) + Len(q) THEN q[k - (Len(r) + Len(m))]
                      ELSE c
    <2> DEFINE l == IF c = NoBurst THEN 0 ELSE 1
    <2>1. l \in Nat
      OBVIOUS
    <2>2. Len(all) = Len(r) + Len(m) + Len(q) + l
      BY <1>3, Zenon DEF IsPipe
    <2> HIDE DEF l
    <2>4. \A n, x, y, z, w \in Nat : n = x + y + z + w => n >= x + y
      OBVIOUS
    <2>5. Len(all) \in Nat
      <3>1. all \in Seq(Burst)
        BY <1>3, Zenon DEF IsPipe
      <3>2. \A s \in Seq(Burst) : Len(s) \in Nat
        OBVIOUS
      <3> QED BY <3>1, <3>2, Zenon
    <2>3. Len(all) >= Len(r) + Len(m)
      BY <1>2, <2>1, <2>2, <2>4, <2>5, Zenon
    <2> QED BY <1>3, <2>3, Zenon DEF IsPipe
  <1>7. Len(all) \in Nat
    BY <1>4
  <1>8. \A a, b, n \in Nat : n >= a + b =>
          /\ \A k \in 1 .. a : k \in 1 .. n /\ k <= a
          /\ b > 0 => /\ a + 1 \in 1 .. n /\ ~(a + 1 <= a) /\ a + 1 <= a + b
                      /\ (a + 1) - a = 1
    OBVIOUS
  <1>9. Len(all) >= Len(r) + Len(m)
    BY <1>4, Zenon
  <1>5. ASSUME NEW k \in 1 .. Len(r) PROVE k \in 1 .. Len(all) /\ all[k] = r[k]
    <2>1. k \in 1 .. Len(all) /\ k <= Len(r)
      BY <1>2, <1>7, <1>8, <1>9, Zenon
    <2> QED BY <1>4, <2>1, Zenon
  <1>6. ASSUME m # <<>> PROVE \E k \in 1 .. Len(all) : all[k] = m[1]
    <2>0. Len(m) > 0
      BY <1>1, <1>6, Begins
    <2>1. /\ Len(r) + 1 \in 1 .. Len(all) /\ ~(Len(r) + 1 <= Len(r))
          /\ Len(r) + 1 <= Len(r) + Len(m) /\ (Len(r) + 1) - Len(r) = 1
      BY <1>2, <1>7, <1>8, <1>9, <2>0, Zenon
    <2>2. all[Len(r) + 1] = m[1]
      BY <1>4, <2>1
    <2> QED BY <2>1, <2>2
  <1> QED
    BY <1>1, <1>4, <1>5, <1>6

\* A response was there before, or is the answer to the oldest burst.
LEMMA Responses ==
    ASSUME IInv, [Next]_vars, NEW i \in Port, NEW k \in 1 .. Len(burstRespQueue'[i])
    PROVE  \/ \E j \in 1 .. Len(burstRespQueue[i]) : burstRespQueue'[i][k] = burstRespQueue[i][j]
           \/ /\ mem[i] # <<>> /\ burstRespQueue'[i][k] = Answer(i)
              /\ \E R \in SUBSET Port : getMemResp(R)
  <1> DEFINE Goal ==
        \/ \E j \in 1 .. Len(burstRespQueue[i]) : burstRespQueue'[i][k] = burstRespQueue[i][j]
        \/ /\ mem[i] # <<>> /\ burstRespQueue'[i][k] = Answer(i)
           /\ \E R \in SUBSET Port : getMemResp(R)
  <1> SUFFICES Goal
    OBVIOUS
  <1>0. burstRespQueue \in [Port -> Seq(Burst)] /\ Len(burstRespQueue[i]) \in Nat
    BY DEF IInv, TypeOK
  <1>1. ASSUME NEW h \in Port, h # WritePort, Receive(h) PROVE Goal
    <2>1. CASE burstRespQueue'[i] = burstRespQueue[i]
      BY <2>1
    <2>2. CASE burstRespQueue'[i] # burstRespQueue[i]
      <3>1. /\ Len(burstRespQueue'[i]) = Len(burstRespQueue[i]) - 1
            /\ burstRespQueue'[i][k] = burstRespQueue[i][k + 1]
        BY <1>1, <2>2, ReceivePipe
      <3>2. k + 1 \in 1 .. Len(burstRespQueue[i])
        BY <1>0, <3>1
      <3> QED BY <3>1, <3>2
    <2> QED BY <2>1, <2>2
  <1>2. ASSUME NEW R \in SUBSET Port, getMemResp(R) PROVE Goal
    <2>1. CASE i \notin R
      BY <1>2, <2>1, GetPipe
    <2>2. CASE i \in R
      <3>1. /\ mem[i] # <<>> /\ Len(burstRespQueue'[i]) = Len(burstRespQueue[i]) + 1
            /\ \A n \in 1 .. Len(burstRespQueue[i]) : burstRespQueue'[i][n] = burstRespQueue[i][n]
            /\ burstRespQueue'[i][Len(burstRespQueue[i]) + 1] = Answer(i)
        BY <1>2, <2>2, GetPipe
      <3>2. k \in 1 .. Len(burstRespQueue[i]) \/ k = Len(burstRespQueue[i]) + 1
        BY <1>0, <3>1
      <3> QED BY <1>2, <3>1, <3>2
    <2> QED BY <2>1, <2>2
  <1>3. CASE processExpandDepthWriteResp
    <2>1. burstRespQueue' = [burstRespQueue EXCEPT ![WritePort] = <<>>]
      BY <1>3 DEF processExpandDepthWriteResp
    <2>2. i # WritePort /\ burstRespQueue'[i] = burstRespQueue[i]
      BY <1>0, <2>1, Ports
    <2> QED BY <2>2
  <1>4. CASE UNCHANGED burstRespQueue
    BY <1>4
  <1>5. CASE \E p \in Part : inspectDepthReqThread(p)
    BY <1>4, <1>5 DEF inspectDepthReqThread
  <1>6. CASE \E p \in Part : inspectDepthRespThread(p)
    <2> PICK p \in Part : Receive(p)
      BY <1>6 DEF inspectDepthRespThread
    <2>1. p \in Port /\ p # WritePort
      BY Ports
    <2> QED BY <1>1, <2>1
  <1>7. CASE processExpandRpaoReadResp \/ processExpandCiaoReadResp \/ processExpandDepthReadResp
    BY <1>1, <1>7, Ports DEF processExpandRpaoReadResp, processExpandCiaoReadResp,
      processExpandDepthReadResp
  <1>8. CASE inspectDepthAnalysis \/ frontierAnalysis \/ issueExpandCiaoReadReq
    BY <1>4, <1>8 DEF inspectDepthAnalysis, frontierAnalysis, issueExpandCiaoReadReq
  <1>9. CASE issueExpandDepthReadReq \/ expandDepthAnalysis \/ sendMemReq \/ statusMonitor \/ Tick
    BY <1>4, <1>9 DEF issueExpandDepthReadReq, expandDepthAnalysis, sendMemReq, statusMonitor, Tick
  <1>10. CASE UNCHANGED vars
    BY <1>4, <1>10 DEF vars
  <1> HIDE DEF Goal
  <1> QED
    BY <1>2, <1>3, <1>5, <1>6, <1>7, <1>8, <1>9, <1>10 DEF Next

\* The array behind a port.
LEMMA Arrays ==
    /\ Ram(RpaoPort) = Rpao /\ Ram(CiaoPort) = Ciao
    /\ \A i \in Port : i # RpaoPort /\ i # CiaoPort => Ram(i) = depth
  <1>1. Ram(RpaoPort) = Rpao
    BY Ports DEF Ram
  <1>2. Ram(CiaoPort) = Ciao
    BY Ports DEF Ram
  <1>3. ASSUME NEW i \in Port, i # RpaoPort, i # CiaoPort PROVE Ram(i) = depth
    BY <1>3 DEF Ram
  <1> QED
    BY <1>1, <1>2, <1>3

\* The data of an answer to a read.
LEMMA AnswerData ==
    ASSUME IInv, NEW i \in Port, i # WritePort, mem[i] # <<>>
    PROVE  /\ Answer(i) \in Burst /\ Answer(i).at = mem[i][1].at /\ Answer(i).len = mem[i][1].len
           /\ Len(Answer(i).data) = Answer(i).len
           /\ \A j \in 1 .. Answer(i).len : Answer(i).data[j] = Cell(Ram(i), Answer(i).at + j - 1)
  <1>1. mem[i] \in Seq(Burst)
    BY DEF IInv, TypeOK
  <1> PICK b \in Burst : b = mem[i][1] /\ b = Head(mem[i])
    BY <1>1, Begins, Zenon
  <1>2. Answer(i) = ReadFrom(i, b)
    BY Zenon DEF Answer
  <1> PICK values : values = [k \in 1 .. b.len |-> Cell(Ram(i), b.at + k - 1)]
    OBVIOUS
  <1>3. ReadFrom(i, b) = [b EXCEPT !.data = values]
    BY Zenon DEF ReadFrom
  <1>4. ReadFrom(i, b).data = values /\ ReadFrom(i, b).at = b.at /\ ReadFrom(i, b).len = b.len
    BY <1>3 DEF Burst
  <1>5. \A j \in 1 .. b.len : values[j] = Cell(Ram(i), b.at + j - 1)
    OBVIOUS
  <1> QED
    BY <1>2, <1>4, <1>5, Answers1, ZenonT(30)

\* The responses of the CSR arrays hold what was asked for.
LEMMA CsrStep ==
    ASSUME IInv, BurstsFit(Vertex), CsrRead, [Next]_vars
    PROVE  CsrRead'
  <1>1. ASSUME NEW k \in 1 .. Len(burstRespQueue'[RpaoPort])
        PROVE  OffsetsRead(burstRespQueue'[RpaoPort][k])
    <2>1. CASE \E j \in 1 .. Len(burstRespQueue[RpaoPort]) :
                 burstRespQueue'[RpaoPort][k] = burstRespQueue[RpaoPort][j]
      BY <2>1, Zenon DEF CsrRead
    <2>2. CASE mem[RpaoPort] # <<>> /\ burstRespQueue'[RpaoPort][k] = Answer(RpaoPort)
      <3> PICK b : b = Answer(RpaoPort)
        OBVIOUS
      <3>1. /\ b.at = mem[RpaoPort][1].at /\ b.len = mem[RpaoPort][1].len
            /\ \A j \in 1 .. b.len : b.data[j] = Cell(Ram(RpaoPort), b.at + j - 1)
        BY <2>2, Ports, AnswerData
      <3>2. b.at \in Vertex /\ b.len = 2
        BY <2>2, <3>1, Ports, Places DEF BurstsFit, Fits
      <3>3. Ram(RpaoPort) = Rpao
        BY Arrays
      <3>4. b.at \in 0 .. V /\ b.at + 1 \in 0 .. V /\ DOMAIN Rpao = 0 .. V
        <4>1. V \in Nat /\ DOMAIN Rpao = 0 .. V
          BY GraphAssumption DEF GraphAssumption
        <4>2. \A v \in Vertex : v \in 0 .. V /\ v + 1 \in 0 .. V
          BY <4>1 DEF Vertex
        <4> QED BY <3>2, <4>1, <4>2, Zenon
      <3>5. b.data[1] = Cell(Rpao, b.at + 1 - 1) /\ b.data[2] = Cell(Rpao, b.at + 2 - 1)
        BY <3>1, <3>2, <3>3
      <3>6. b.at + 1 - 1 = b.at /\ b.at + 2 - 1 = b.at + 1
        BY <3>4
      <3>7. OffsetsRead(b)
        BY <3>4, <3>5, <3>6 DEF Cell, OffsetsRead
      <3> QED BY <2>2, <3>7
    <2> QED BY <2>1, <2>2, Responses, Ports
  <1>2. ASSUME NEW k \in 1 .. Len(burstRespQueue'[CiaoPort])
        PROVE  TargetsRead(burstRespQueue'[CiaoPort][k])
    <2>1. CASE \E j \in 1 .. Len(burstRespQueue[CiaoPort]) :
                 burstRespQueue'[CiaoPort][k] = burstRespQueue[CiaoPort][j]
      BY <2>1, Zenon DEF CsrRead
    <2>2. CASE mem[CiaoPort] # <<>> /\ burstRespQueue'[CiaoPort][k] = Answer(CiaoPort)
      <3> PICK b : b = Answer(CiaoPort)
        OBVIOUS
      <3>1. /\ b.at = mem[CiaoPort][1].at /\ b.len = mem[CiaoPort][1].len /\ b \in Burst
            /\ Len(b.data) = b.len
            /\ \A j \in 1 .. b.len : b.data[j] = Cell(Ram(CiaoPort), b.at + j - 1)
        BY <2>2, Ports, AnswerData
      <3>2. b.len > 0 /\ Within(Vertex, b.at, b.at + b.len)
        BY <2>2, <3>1, Ports, Places DEF BurstsFit, Fits
      <3>3. Ram(CiaoPort) = Ciao
        BY Arrays
      <3>4. b.at \in Int /\ b.len \in Nat
        BY <3>1 DEF Burst
      <3>10. b.at + b.len \in Int /\ b.at < b.at + b.len
        BY <3>2, <3>4
      <3>5. 0 <= b.at /\ b.at + b.len <= Rpao[V]
        BY <3>2, <3>4, <3>10, Follow
      <3>6. DOMAIN Ciao = 0 .. Rpao[V] - 1 /\ Rpao[V] \in Nat
        BY GraphAssumption DEF GraphAssumption
      <3>7. \A j \in 1 .. b.len : b.at + j - 1 \in DOMAIN Ciao
        BY <3>4, <3>5, <3>6
      <3>8. \A j \in 1 .. b.len : b.data[j] = Ciao[b.at + j - 1]
        BY <3>1, <3>3, <3>7 DEF Cell
      <3> QED BY <2>2, <3>1, <3>8 DEF TargetsRead
    <2> QED BY <2>1, <2>2, Responses, Ports
  <1> QED
    BY <1>1, <1>2, Zenon DEF CsrRead, OffsetsRead, TargetsRead
-----------------------------------------------------------------------------
(* The inspection *)

\* Where a burst of a sequence is.
LEMMA BurstAt ==
    ASSUME NEW s \in Seq(Burst), NEW k \in 1 .. Len(s)
    PROVE  s[k] \in Burst /\ s[k].at \in Int /\ s[k].len \in Nat /\ s[k].data \in Seq(Int)
  <1>1. s[k] \in Burst
    OBVIOUS
  <1> QED
    BY <1>1 DEF Burst

\* A partition ends within the array.
LEMMA PartEnds == ASSUME NEW p \in Part PROVE PartBase(p) + PartLen(p) <= V
  <1> DEFINE q == V \div PRNUM
  <1>1. V \in Nat /\ PRNUM \in Nat /\ PRNUM > 0 /\ p \in Nat /\ p <= PRNUM - 1
    BY GraphAssumption, SizeAssumption DEF GraphAssumption, SizeAssumption, Part
  <1>2. q \in Nat /\ PRNUM * q <= V
    BY <1>1
  <1>3. CASE p = PRNUM - 1
    BY <1>1, <1>2, <1>3 DEF PartBase, PartLen
  <1>4. CASE p # PRNUM - 1
    <2>1. PartBase(p) = p * q /\ PartLen(p) = q
      BY <1>4 DEF PartBase, PartLen
    <2> HIDE DEF q
    <2>2. p + 1 <= PRNUM
      BY <1>1
    <2>3. \A n \in Nat : p * q + q <= p * q + q + n * q
      BY <1>1, <1>2
    <2>4. PRNUM - (p + 1) \in Nat
      BY <1>1, <2>2
    <2>5. p * q + q + (PRNUM - (p + 1)) * q = PRNUM * q
      BY <1>1, <1>2
    <2>6. p * q \in Nat /\ PRNUM * q \in Nat
      BY <1>1, <1>2
    <2>7. p * q + q <= PRNUM * q
      BY <2>3, <2>4, <2>5
    <2>8. \A x, y, z \in Int : x <= y /\ y <= z => x <= z
      OBVIOUS
    <2> QED BY <1>1, <1>2, <2>1, <2>6, <2>7
  <1> QED
    BY <1>3, <1>4

\* The bursts of a partition are in it, and so are the buffered depths, which
\* there are only while the partition is scanned.
LEMMA ScanFits ==
    ASSUME IInv, Phases, NEW p \in Part
    PROVE  /\ \A k \in 1 .. Len(Pipeline(p)) :
                /\ Pipeline(p)[k].len > 0 /\ PartBase(p) <= Pipeline(p)[k].at
                /\ Pipeline(p)[k].at + Pipeline(p)[k].len <= PartBase(p) + PartLen(p)
           /\ depthBuffer0[p] # <<>> =>
                /\ ~bfsIterationStart /\ PartBase(p) <= idx[p]
                /\ idx[p] + Len(depthBuffer0[p]) <= PartBase(p) + PartLen(p)
  <1>1. /\ p \in Port /\ creating[p] \in Burst /\ localCounter \in Nat /\ StartCount \in Nat
        /\ depthBuffer0[p] \in Seq(Int)
    BY Ports, SizeAssumption DEF SizeAssumption, IInv, TypeOK
  <1>2. IsPipe(Pipeline(p), burstRespQueue[p], mem[p], burstReqQueue[p], creating[p])
    BY <1>1, PipeOf
  <1>3. PhaseOf(p) /\ (bfsIterationStart <=> localCounter = StartCount)
    BY DEF Phases, Watching
  <1>4. PartBase(p) \in Nat /\ PartLen(p) \in Nat /\ BaseLen \in Nat /\ BaseLen > 0
    BY PartFits, SizeAssumption DEF SizeAssumption
  <1>5. CASE Idle(p) \/ Begun(p)
    <2>1. Len(burstReqQueue[p]) = 0 /\ Len(mem[p]) = 0 /\ Len(burstRespQueue[p]) = 0
      BY <1>1, <1>5, Entries DEF Idle, Begun, Quiet
    <2>2. /\ Len(Pipeline(p)) = IF creating[p] = NoBurst THEN 0 ELSE 1
          /\ creating[p] # NoBurst => Pipeline(p)[1] = creating[p]
      BY <1>2, <2>1 DEF IsPipe
    <2>3. ASSUME creating[p] # NoBurst
          PROVE  /\ creating[p].len > 0 /\ PartBase(p) <= creating[p].at
                 /\ creating[p].at + creating[p].len <= PartBase(p) + PartLen(p)
      <3>1. /\ creating[p] = NewBurst(PartBase(p), Lesser(BaseLen, PartLen(p)))
            /\ PartLen(p) # 0
        BY <1>5, <2>3 DEF Idle, Begun
      <3> QED BY <1>4, <3>1 DEF NewBurst, Lesser
    <2>4. depthBuffer0[p] = <<>>
      BY <1>5 DEF Idle, Begun, Quiet
    <2>5. ASSUME NEW k \in 1 .. Len(Pipeline(p))
          PROVE  Pipeline(p)[k] = creating[p] /\ creating[p] # NoBurst
      BY <2>2
    <2> QED BY <2>3, <2>4, <2>5
  <1>6. CASE Scanning(p) /\ localCounter > StartCount
    <2>1. /\ PartBase(p) <= idx[p] /\ Asked(p) <= PartBase(p) + PartLen(p)
          /\ Chain(Pipeline(p), Buffered(p), Asked(p))
      BY <1>6 DEF Scanning
    <2>2. /\ Buffered(p) <= Asked(p)
          /\ \A k \in 1 .. Len(Pipeline(p)) :
               /\ Pipeline(p)[k].len > 0 /\ Buffered(p) <= Pipeline(p)[k].at
               /\ Pipeline(p)[k].at + Pipeline(p)[k].len <= Asked(p)
      BY <2>1 DEF Chain
    <2>3. /\ Len(depthBuffer0[p]) \in Nat /\ idx[p] \in Nat
          /\ Buffered(p) \in Nat /\ Asked(p) \in Nat
      BY Numbers
    <2>4. Pipeline(p) \in Seq(Burst)
      BY <1>2, Zenon DEF IsPipe
    <2>5. PartBase(p) <= Buffered(p)
      BY <1>4, <2>1, <2>3 DEF Buffered
    <2>6. ASSUME NEW k \in 1 .. Len(Pipeline(p))
          PROVE  /\ Pipeline(p)[k].len > 0 /\ PartBase(p) <= Pipeline(p)[k].at
                 /\ Pipeline(p)[k].at + Pipeline(p)[k].len <= PartBase(p) + PartLen(p)
      <3>1. Pipeline(p)[k].at \in Int /\ Pipeline(p)[k].len \in Nat
        BY <2>4, BurstAt
      <3> QED BY <1>4, <2>1, <2>2, <2>3, <2>5, <3>1
    <2>7. ~bfsIterationStart
      BY <1>1, <1>3, <1>6
    <2>8. idx[p] + Len(depthBuffer0[p]) <= PartBase(p) + PartLen(p)
      BY <1>4, <2>1, <2>2, <2>3 DEF Buffered
    <2> QED BY <2>1, <2>6, <2>7, <2>8
  <1> QED
    BY <1>1, <1>3, <1>5, <1>6 DEF PhaseOf

\* What flows from the vertices, and the phases of the inspection, keep every
\* access inside its array.
LEMMA FlowInBounds == ASSUME IInv, Phases, BurstsFit(Vertex) PROVE AccessInBounds
  <1> DEFINE size(i) == CASE i = RpaoPort -> V + 1 [] i = CiaoPort -> Rpao[V] [] OTHER -> V
  <1> SUFFICES ASSUME NEW i \in Port, NEW k \in 1 .. Len(Pipeline(i))
               PROVE  /\ Pipeline(i)[k].len > 0 /\ Pipeline(i)[k].at >= 0
                      /\ Pipeline(i)[k].at + Pipeline(i)[k].len <= size(i)
    BY DEF AccessInBounds
  <1>1. Pipeline(i)[k].at \in Int /\ Pipeline(i)[k].len \in Nat /\ V \in Nat
    BY Places, BurstAt, GraphAssumption DEF GraphAssumption
  <1>2. Fits(Vertex, i, Pipeline(i)[k].at, Pipeline(i)[k].len)
    BY DEF BurstsFit
  <1> PICK at \in Int, len \in Nat : at = Pipeline(i)[k].at /\ len = Pipeline(i)[k].len
    BY <1>1
  <1>3. CASE i = RpaoPort
    <2>1. at \in Vertex /\ len = 2
      BY <1>2, <1>3 DEF Fits
    <2>2. size(i) = V + 1
      BY <1>3, Ports
    <2> QED BY <1>1, <2>1, <2>2 DEF Vertex
  <1>4. CASE i = CiaoPort
    <2>1. len > 0 /\ Within(Vertex, at, at + len) /\ size(i) = Rpao[V]
      BY <1>2, <1>4, Ports DEF Fits
    <2>2. at + len \in Int /\ at < at + len
      BY <2>1
    <2> QED BY <2>1, <2>2, Follow
  <1>5. CASE i \in {DepthPort, WritePort}
    <2>1. at \in Vertex /\ len = 1
      BY <1>2, <1>5 DEF Fits, Targets
    <2>2. size(i) = V
      BY <1>5, Ports
    <2> QED BY <1>1, <2>1, <2>2 DEF Vertex
  <1>6. CASE i \in Part
    <2>1. len > 0 /\ PartBase(i) <= at /\ at + len <= PartBase(i) + PartLen(i)
      BY <1>6, ScanFits
    <2>2. PartBase(i) \in Nat /\ PartLen(i) \in Nat /\ PartBase(i) + PartLen(i) <= V
      BY <1>6, PartFits, PartEnds
    <2>3. size(i) = V
      BY <1>6, Ports
    <2> QED BY <1>1, <2>1, <2>2, <2>3
  <1>7. i \in Part \cup {RpaoPort, CiaoPort, DepthPort, WritePort}
    BY SizeAssumption DEF SizeAssumption, Port, Part, RpaoPort, CiaoPort, DepthPort, WritePort
  <1> QED
    BY <1>3, <1>4, <1>5, <1>6, <1>7
-----------------------------------------------------------------------------
(* From buffer to buffer *)

\* Every vertex of this level that the inspection is about to find is in S.
Hits(S) == \A p \in Analysed : Head(depthBuffer0[p]) = level => ~bfsIterationStart /\ idx[p] \in S

\* t is what the first n elements of s leave.
Taken(s, t, n) == n \in 0 .. Len(s) /\ Len(t) = Len(s) - n /\ \A j \in 1 .. Len(t) : t[j] = s[n + j]

LEMMA RestTaken ==
    ASSUME NEW s \in Seq(Int), NEW n \in Nat, n \in 0 .. Len(s)
    PROVE  Taken(s, SubSeq(s, n + 1, Len(s)), n)
  <1>1. /\ Len(SubSeq(s, n + 1, Len(s))) = Len(s) - n
        /\ \A j \in 1 .. Len(s) - n : SubSeq(s, n + 1, Len(s))[j] = s[n + j]
    BY Rest
  <1> QED
    BY <1>1, Zenon DEF Taken

LEMMA AllInTaken ==
    ASSUME NEW X, NEW s \in Seq(X), NEW t, NEW n, NEW S, AllIn(s, S), Taken(s, t, n)
    PROVE  AllIn(t, S)
  <1>1. Len(s) \in Nat /\ n \in 0 .. Len(s) /\ Len(t) = Len(s) - n
    BY DEF Taken
  <1>2. \A j \in 1 .. Len(t) : n + j \in 1 .. Len(s)
    BY <1>1
  <1> QED
    BY <1>2, Zenon DEF AllIn, Taken

\* One more pair of offsets, or n pairs less.
LEMMA OneMorePair ==
    ASSUME NEW s \in Seq(Int), NEW d \in Seq(Int), NEW S, NEW n \in Nat, OffsetsOf(s, S, n),
           NEW u \in S, Len(d) = 2, d[1] = Rpao[u], d[2] = Rpao[u + 1]
    PROVE  OffsetsOf(s \o d, S, n + 1)
  <1> PICK all : all = s \o d
    OBVIOUS
  <1>1. /\ Len(all) = Len(s) + Len(d)
        /\ \A k \in 1 .. Len(s) + Len(d) :
             all[k] = IF k <= Len(s) THEN s[k] ELSE d[k - Len(s)]
    BY Joined2
  <1>2. Len(s) = 2 * n /\ Len(all) = 2 * (n + 1)
    BY <1>1 DEF OffsetsOf
  <1>3. ASSUME NEW k \in 1 .. n
        PROVE  \E w \in S : all[2 * k - 1] = Rpao[w] /\ all[2 * k] = Rpao[w + 1]
    <2>1. /\ 2 * k - 1 \in 1 .. Len(s) + Len(d) /\ 2 * k - 1 <= Len(s)
          /\ 2 * k \in 1 .. Len(s) + Len(d) /\ 2 * k <= Len(s)
      BY <1>2
    <2>2. all[2 * k - 1] = s[2 * k - 1] /\ all[2 * k] = s[2 * k]
      BY <1>1, <2>1
    <2> QED BY <2>2 DEF OffsetsOf
  <1>4. all[2 * (n + 1) - 1] = Rpao[u] /\ all[2 * (n + 1)] = Rpao[u + 1]
    <2>1. /\ 2 * (n + 1) - 1 \in 1 .. Len(s) + Len(d) /\ ~(2 * (n + 1) - 1 <= Len(s))
          /\ 2 * (n + 1) - 1 - Len(s) = 1
          /\ 2 * (n + 1) \in 1 .. Len(s) + Len(d) /\ ~(2 * (n + 1) <= Len(s))
          /\ 2 * (n + 1) - Len(s) = 2
      BY <1>2
    <2> QED BY <1>1, <2>1
  <1>5. \A k \in 1 .. n + 1 : k \in 1 .. n \/ k = n + 1
    OBVIOUS
  <1>6. \A k \in 1 .. n + 1 :
          \E w \in S : all[2 * k - 1] = Rpao[w] /\ all[2 * k] = Rpao[w + 1]
    BY <1>3, <1>4, <1>5
  <1> QED
    BY <1>2, <1>6 DEF OffsetsOf

LEMMA PairsTaken ==
    ASSUME NEW s \in Seq(Int), NEW t, NEW S, NEW n \in Nat, OffsetsOf(s, S, n),
           NEW k \in 0 .. n, Taken(s, t, 2 * k)
    PROVE  OffsetsOf(t, S, n - k) /\ n - k \in Nat
  <1>1. Len(s) = 2 * n /\ Len(t) = Len(s) - 2 * k /\ n - k \in Nat
    BY DEF OffsetsOf, Taken
  <1>2. Len(t) = 2 * (n - k)
    BY <1>1
  <1>3. ASSUME NEW j \in 1 .. n - k
        PROVE  \E w \in S : t[2 * j - 1] = Rpao[w] /\ t[2 * j] = Rpao[w + 1]
    <2>1. /\ k + j \in 1 .. n /\ 2 * j - 1 \in 1 .. Len(t) /\ 2 * j \in 1 .. Len(t)
          /\ 2 * k + (2 * j - 1) = 2 * (k + j) - 1 /\ 2 * k + 2 * j = 2 * (k + j)
      BY <1>1, <1>2
    <2>2. t[2 * j - 1] = s[2 * k + (2 * j - 1)] /\ t[2 * j] = s[2 * k + 2 * j]
      BY <2>1 DEF Taken
    <2>3. t[2 * j - 1] = s[2 * (k + j) - 1] /\ t[2 * j] = s[2 * (k + j)]
      BY <2>1, <2>2
    <2> QED BY <2>1, <2>3 DEF OffsetsOf
  <1> QED
    BY <1>1, <1>2, <1>3 DEF OffsetsOf

\* What is known of the data a response thread takes over.
LEMMA Taking ==
    ASSUME IInv, DataKnown, NEW i \in Port, i # WritePort, Receive(i), serving[i]
    PROVE  \E b \in Burst :
             /\ Received(i) = b.data /\ b.data \in Seq(Int) /\ Len(b.data) = b.len
             /\ 1 \in 1 .. Len(burstRespQueue[i]) /\ b = burstRespQueue[i][1]
             /\ 1 \in 1 .. Len(Pipeline(i)) /\ b = Pipeline(i)[1]
  <1>1. Len(burstRespQueue[i]) > 0 /\ Received(i) = burstRespQueue[i][1].data
    BY ReceivePipe
  <1>2. burstRespQueue[i] \in Seq(Burst)
    BY Places
  <1>3. 1 \in 1 .. Len(burstRespQueue[i])
    BY <1>1, <1>2
  <1> PICK b : b = burstRespQueue[i][1]
    OBVIOUS
  <1>4. b \in Burst /\ b.data \in Seq(Int)
    BY <1>2, <1>3, BurstAt
  <1>5. Len(b.data) = b.len
    BY <1>3 DEF DataKnown
  <1>6. 1 \in 1 .. Len(Pipeline(i)) /\ b = Pipeline(i)[1]
    BY <1>3, Places
  <1> QED
    BY <1>1, <1>3, <1>4, <1>5, <1>6, Zenon
-----------------------------------------------------------------------------
(* The threads of the expansion *)

\* The inspection adds the vertices it finds to the frontier.
LEMMA FlowAnalysis ==
    ASSUME IInv, NEW S, Flow(S), Hits(S), inspectDepthAnalysis
    PROVE  Flow(S)'
  <1> DEFINE from == IF bfsIterationStart THEN [p \in Part |-> PartBase(p)] ELSE idx
             found(list) == [k \in DOMAIN list |-> from[list[k]]]
  <1>1. PICK list \in HitLists : frontierBuffer' = frontierBuffer \o found(list)
    BY DEF inspectDepthAnalysis
  <1>2. UNCHANGED <<edges, creating, burstReqQueue, rpaoBuffer, ciaoBuffer, vidxBuffer,
                    burstRespQueue, mem>>
    BY DEF inspectDepthAnalysis, issuing, memory
  <1>3. from \in [Part -> Nat]
    BY Parts DEF IInv, TypeOK
  <1>4. PICK n \in 0 .. PRNUM : list \in [1 .. n -> Part]
    BY DEF HitLists
  <1>5. found(list) \in [1 .. n -> Nat] /\ n \in Nat
    <2> HIDE DEF from
    <2> QED BY <1>3, <1>4, SizeAssumption DEF SizeAssumption
  <1>6. \A k \in 1 .. n : list[k] \in {p \in Analysed : Head(depthBuffer0[p]) = level}
    BY <1>4 DEF HitLists
  <1>7. \A k \in 1 .. n : from[list[k]] \in S
    BY <1>6 DEF Hits
  <1>8. \A k \in 1 .. n : found(list)[k] = from[list[k]]
    <2> HIDE DEF from
    <2> QED BY <1>4
  <1> PICK t : t = found(list)
    OBVIOUS
  <1> HIDE DEF found, from
  <1>9. t \in Seq(Nat) /\ Len(t) = n
    BY <1>5
  <1>10. AllIn(t, S)
    BY <1>7, <1>8, <1>9 DEF AllIn
  <1>11. AllIn(frontierBuffer', S)
    <2>1. frontierBuffer \in Seq(Nat) /\ AllIn(frontierBuffer, S)
      BY DEF IInv, TypeOK, Flow, BuffersIn
    <2> QED BY <1>1, <1>9, <1>10, <2>1, AllInPart
  <1>12. BurstsFit(S)'
    BY <1>2, FitsKept DEF Flow
  <1> QED
    BY <1>2, <1>11, <1>12, Zenon DEF Flow, BuffersIn, AllIn, OffsetsOf, Within, Targets

\* frontierAnalysis requests the offsets of the vertices of the frontier.
LEMMA FlowFrontier == ASSUME IInv, NEW S, Flow(S), frontierAnalysis PROVE Flow(S)'
  <1> DEFINE issues == frontierBuffer # <<>> /\ Len(rpaoBuffer) + 2 < RpaoBufferDepth
             b == IF issues THEN NewBurst(Head(frontierBuffer), 2) ELSE NoBurst
  <1>1. /\ Publish(RpaoPort, <<>>)
        /\ frontierBuffer' = IF issues THEN Tail(frontierBuffer) ELSE frontierBuffer
        /\ creating' = [creating EXCEPT ![RpaoPort] = b]
        /\ UNCHANGED <<edges, rpaoBuffer, ciaoBuffer, vidxBuffer, burstRespQueue, mem>>
    BY DEF frontierAnalysis, memory
  <1>2. frontierBuffer \in Seq(Nat) /\ AllIn(frontierBuffer, S)
    BY DEF IInv, TypeOK, Flow, BuffersIn
  <1>3. frontierBuffer # <<>> => /\ Head(frontierBuffer) \in S /\ Head(frontierBuffer) \in Int
                                 /\ AllIn(Tail(frontierBuffer), S)
    BY <1>2, AllInPart
  <1>4. b \in Burst /\ (b # NoBurst => Fits(S, RpaoPort, b.at, b.len))
    <2>1. CASE issues
      <3> PICK u \in Int : u = Head(frontierBuffer) /\ u \in S
        BY <1>3, <2>1
      <3>1. b = NewBurst(u, 2) /\ NewBurst(u, 2) \in Burst
        BY <2>1, Bursts
      <3>2. b.at = u /\ b.len = 2
        BY <3>1 DEF NewBurst
      <3> HIDE DEF b
      <3> QED BY <3>1, <3>2, Ports DEF Fits
    <2>2. CASE ~issues
      BY <2>2, Bursts
    <2> QED BY <2>1, <2>2
  <1> HIDE DEF b
  <1>5. BurstsFit(S)'
    BY <1>1, <1>4, Ports, Bursts, FitsIssue DEF Flow
  <1>6. AllIn(frontierBuffer', S)
    BY <1>1, <1>2, <1>3
  <1> QED
    BY <1>1, <1>5, <1>6, Zenon DEF Flow, BuffersIn, AllIn, OffsetsOf, Within, Targets

\* processExpandRpaoReadResp: the offsets of one vertex are buffered.
LEMMA FlowOffsets ==
    ASSUME IInv, DataKnown, CsrRead, NEW S, Flow(S), processExpandRpaoReadResp PROVE Flow(S)'
  <1>1. /\ Receive(RpaoPort)
        /\ rpaoBuffer' = rpaoBuffer \o Received(RpaoPort)
        /\ UNCHANGED <<ciaoBuffer>>
    BY DEF processExpandRpaoReadResp
  <1>2. UNCHANGED <<edges, frontierBuffer, vidxBuffer>>
    BY <1>1, Ports, ReceiveKeeps
  <1>3. BurstsFit(S)'
    BY <1>1, Ports, FitsReceive DEF Flow
  <1>4. \E n \in Nat : OffsetsOf(rpaoBuffer', S, n)
    <2>1. PICK n \in Nat : OffsetsOf(rpaoBuffer, S, n)
      BY DEF Flow, BuffersIn
    <2>2. rpaoBuffer \in Seq(Int)
      BY DEF IInv, TypeOK
    <2>3. CASE serving[RpaoPort]
      <3>1. PICK b \in Burst :
              /\ Received(RpaoPort) = b.data /\ b.data \in Seq(Int) /\ Len(b.data) = b.len
              /\ 1 \in 1 .. Len(burstRespQueue[RpaoPort]) /\ b = burstRespQueue[RpaoPort][1]
              /\ 1 \in 1 .. Len(Pipeline(RpaoPort)) /\ b = Pipeline(RpaoPort)[1]
        BY <1>1, <2>3, Ports, Taking
      <3>2. b.at \in S /\ b.len = 2
        BY <3>1, Ports DEF Flow, BurstsFit, Fits
      <3>3. b.data[1] = Rpao[b.at] /\ b.data[2] = Rpao[b.at + 1]
        BY <3>1, Zenon DEF CsrRead, OffsetsRead
      <3>4. OffsetsOf(rpaoBuffer \o b.data, S, n + 1)
        BY <2>1, <2>2, <3>1, <3>2, <3>3, OneMorePair
      <3> QED BY <1>1, <3>1, <3>4
    <2>4. CASE ~serving[RpaoPort]
      <3>1. rpaoBuffer' = rpaoBuffer \o <<>>
        BY <1>1, <2>4 DEF Received
      <3>2. rpaoBuffer' = rpaoBuffer
        BY <2>2, <3>1
      <3> QED BY <2>1, <3>2
    <2> QED BY <2>3, <2>4
  <1> QED
    BY <1>1, <1>2, <1>3, <1>4, Zenon DEF Flow, BuffersIn, AllIn, OffsetsOf, Within, Targets

\* issueExpandCiaoReadReq requests edges of one vertex at a time.
LEMMA FlowEdges ==
    ASSUME IInv, NEW S \in SUBSET Vertex, Flow(S), issueExpandCiaoReadReq PROVE Flow(S)'
  <1> DEFINE next == edges.next + creating[CiaoPort].len
             range(k) == IF k = 0 THEN [next |-> next, end |-> edges.end]
                         ELSE [next |-> rpaoBuffer[2 * k - 1], end |-> rpaoBuffer[2 * k]]
             chunk(k) == Lesser(BaseLen \div IntSize, range(k).end - range(k).next)
             issues(k) == /\ range(k).next < range(k).end
                          /\ Len(ciaoBuffer) + chunk(k) < CiaoBufferDepth
             b(k) == IF issues(k) THEN NewBurst(range(k).next, chunk(k)) ELSE NoBurst
  <1>1. PICK k \in 0 .. Len(rpaoBuffer) \div 2 :
          /\ Publish(CiaoPort, <<>>)
          /\ edges' = range(k)
          /\ rpaoBuffer' = SubSeq(rpaoBuffer, 2 * k + 1, Len(rpaoBuffer))
          /\ creating' = [creating EXCEPT ![CiaoPort] = b(k)]
          /\ UNCHANGED <<frontierBuffer, ciaoBuffer, vidxBuffer, burstRespQueue, mem>>
    BY DEF issueExpandCiaoReadReq, memory
  <1>2. rpaoBuffer \in Seq(Int) /\ edges \in [next : Int, end : Int] /\ creating[CiaoPort] \in Burst
    BY Ports DEF IInv, TypeOK
  <1>3. PICK n \in Nat : OffsetsOf(rpaoBuffer, S, n)
    BY DEF Flow, BuffersIn
  <1>4. Len(rpaoBuffer) = 2 * n /\ k \in 0 .. n /\ 2 * k \in 0 .. Len(rpaoBuffer)
    <2>1. Len(rpaoBuffer) = 2 * n
      BY <1>3 DEF OffsetsOf
    <2> QED BY <2>1
  <1>5. Taken(rpaoBuffer, rpaoBuffer', 2 * k)
    BY <1>1, <1>2, <1>4, Rest, SMTT(30) DEF Taken
  <1>6. \E m \in Nat : OffsetsOf(rpaoBuffer', S, m)
    BY <1>2, <1>3, <1>4, <1>5, PairsTaken
  <1>7. /\ range(k).next \in Int /\ range(k).end \in Int
        /\ range(k).next < range(k).end => Within(S, range(k).next, range(k).end)
    <2>1. CASE k = 0
      <3>1. next \in Int /\ edges.next <= next /\ edges.next \in Int /\ edges.end \in Int
        BY <1>2 DEF Burst
      <3>2. range(k).next = next /\ range(k).end = edges.end
        BY <2>1
      <3> HIDE DEF range
      <3>3. ASSUME next < edges.end PROVE Within(S, next, edges.end)
        <4>1. edges.next < edges.end
          BY <3>1, <3>3
        <4>2. PICK u \in S : Rpao[u] <= edges.next /\ edges.end <= Rpao[u + 1]
          BY <4>1 DEF Flow, BuffersIn, Within
        <4>3. Rpao[u] \in Nat
          BY Offsets
        <4> HIDE DEF next
        <4>4. Rpao[u] <= next
          BY <3>1, <4>2, <4>3
        <4> QED BY <4>2, <4>4 DEF Within
      <3> QED BY <3>1, <3>2, <3>3
    <2>2. CASE k # 0
      <3>1. k \in 1 .. n
        BY <1>4, <2>2
      <3>2. PICK u \in S : rpaoBuffer[2 * k - 1] = Rpao[u] /\ rpaoBuffer[2 * k] = Rpao[u + 1]
        BY <1>3, <3>1 DEF OffsetsOf
      <3>3. range(k).next = Rpao[u] /\ range(k).end = Rpao[u + 1]
        BY <2>2, <3>2
      <3>4. Rpao[u] \in Nat /\ Rpao[u + 1] \in Nat
        BY Offsets
      <3> HIDE DEF range
      <3> QED BY <3>3, <3>4 DEF Within
    <2> QED BY <2>1, <2>2
  <1> PICK lo \in Int, hi \in Int : lo = range(k).next /\ hi = range(k).end
    BY <1>7
  <1>8. edges'.next = lo /\ edges'.end = hi /\ (lo < hi => Within(S, lo, hi))
    BY <1>1, <1>7
  <1>9. b(k) \in Burst /\ (b(k) # NoBurst => Fits(S, CiaoPort, b(k).at, b(k).len))
    <2>1. CASE issues(k)
      <3>1. BaseLen \div IntSize \in Nat /\ BaseLen \div IntSize > 0
        BY ChunkSize
      <3>2. chunk(k) = Lesser(BaseLen \div IntSize, hi - lo) /\ lo < hi
        BY <2>1
      <3> PICK size \in Nat : size = BaseLen \div IntSize /\ size > 0
        BY <3>1
      <3> PICK len : len = chunk(k)
        OBVIOUS
      <3>8. len = Lesser(size, hi - lo)
        BY <3>2, Zenon
      <3> HIDE DEF chunk
      <3>9. lo < hi
        BY <3>2
      <3>3. len \in Nat /\ len > 0 /\ lo + len <= hi
        <4>1. \A x \in Nat, y, z \in Int : x > 0 /\ y < z =>
                /\ Lesser(x, z - y) \in Nat /\ Lesser(x, z - y) > 0 /\ y + Lesser(x, z - y) <= z
          BY DEF Lesser
        <4> QED BY <3>8, <3>9, <4>1, Zenon
      <3>4. b(k) = NewBurst(lo, len)
        BY <2>1
      <3>5. NewBurst(lo, len) \in Burst /\ NewBurst(lo, len).at = lo /\ NewBurst(lo, len).len = len
        BY <3>3, Bursts DEF NewBurst
      <3>6. Within(S, lo, lo + len)
        <4>1. PICK u \in S : Rpao[u] <= lo /\ hi <= Rpao[u + 1]
          BY <1>8, <3>2 DEF Within
        <4>2. Rpao[u + 1] \in Nat
          BY Offsets
        <4>3. lo + len <= Rpao[u + 1]
          BY <3>3, <4>1, <4>2
        <4> QED BY <4>1, <4>3 DEF Within
      <3> HIDE DEF b
      <3>7. Fits(S, CiaoPort, lo, len)
        BY <3>3, <3>6, Ports DEF Fits
      <3> QED BY <3>4, <3>5, <3>7, Zenon
    <2>2. CASE ~issues(k)
      BY <2>2, Bursts
    <2> QED BY <2>1, <2>2
  <1> HIDE DEF b, range
  <1>10. BurstsFit(S)'
    BY <1>1, <1>9, Ports, Bursts, FitsIssue DEF Flow
  <1>11. edges'.next < edges'.end => Within(S, edges'.next, edges'.end)
    BY <1>8, Zenon
  <1> QED
    BY <1>1, <1>6, <1>10, <1>11, Zenon DEF Flow, BuffersIn, AllIn, OffsetsOf, Within, Targets

\* processExpandCiaoReadResp: the ends of edges are buffered.
LEMMA FlowTargets ==
    ASSUME IInv, DataKnown, CsrRead, NEW S \in SUBSET Vertex, Flow(S), processExpandCiaoReadResp
    PROVE  Flow(S)'
  <1>1. /\ Receive(CiaoPort)
        /\ ciaoBuffer' = ciaoBuffer \o Received(CiaoPort)
        /\ UNCHANGED <<rpaoBuffer>>
    BY DEF processExpandCiaoReadResp
  <1>2. UNCHANGED <<edges, frontierBuffer, vidxBuffer>>
    BY <1>1, Ports, ReceiveKeeps
  <1>3. BurstsFit(S)'
    BY <1>1, Ports, FitsReceive DEF Flow
  <1>4. ciaoBuffer \in Seq(Int) /\ AllIn(ciaoBuffer, Targets(S))
    BY DEF IInv, TypeOK, Flow, BuffersIn
  <1>5. AllIn(ciaoBuffer', Targets(S))
    <2>1. CASE serving[CiaoPort]
      <3>1. PICK b \in Burst :
              /\ Received(CiaoPort) = b.data /\ b.data \in Seq(Int) /\ Len(b.data) = b.len
              /\ 1 \in 1 .. Len(burstRespQueue[CiaoPort]) /\ b = burstRespQueue[CiaoPort][1]
              /\ 1 \in 1 .. Len(Pipeline(CiaoPort)) /\ b = Pipeline(CiaoPort)[1]
        BY <1>1, <2>1, Ports, Taking
      <3>2. b.len > 0 /\ Within(S, b.at, b.at + b.len)
        BY <3>1, Ports DEF Flow, BurstsFit, Fits
      <3>3. \A j \in 1 .. Len(b.data) : b.data[j] = Ciao[b.at + j - 1]
        BY <3>1, Zenon DEF CsrRead, TargetsRead
      <3>4. b.at \in Int /\ b.len \in Nat
        BY DEF Burst
      <3>5. b.at + b.len \in Int /\ b.at < b.at + b.len
        BY <3>2, <3>4
      <3>6. \A e \in b.at .. b.at + b.len - 1 : Ciao[e] \in Targets(S)
        BY <3>2, <3>4, <3>5, Follow
      <3>7. \A j \in 1 .. b.len : b.at + j - 1 \in b.at .. b.at + b.len - 1
        BY <3>4
      <3>8. AllIn(b.data, Targets(S))
        BY <3>1, <3>3, <3>6, <3>7 DEF AllIn
      <3> QED BY <1>1, <1>4, <3>1, <3>8, AllInPart
    <2>2. CASE ~serving[CiaoPort]
      <3>1. ciaoBuffer' = ciaoBuffer \o <<>>
        BY <1>1, <2>2 DEF Received
      <3>2. ciaoBuffer' = ciaoBuffer
        BY <1>4, <3>1
      <3> QED BY <1>4, <3>2
    <2> QED BY <2>1, <2>2
  <1> QED
    BY <1>1, <1>2, <1>3, <1>5, Zenon DEF Flow, BuffersIn, AllIn, OffsetsOf, Within, Targets

\* What issueExpandDepthReadReq does: the first vertex of ciaoBuffer is moved
\* to vidxBuffer, and its depth requested.
Requests(b) ==
    /\ Publish(DepthPort, <<>>) /\ creating' = [creating EXCEPT ![DepthPort] = b]
    /\ b = NoBurst => vidxBuffer' = vidxBuffer /\ ciaoBuffer' = ciaoBuffer
    /\ b # NoBurst =>
         /\ ciaoBuffer # <<>> /\ ciaoBuffer' = Tail(ciaoBuffer)
         /\ vidxBuffer' = Append(vidxBuffer, b.at)
         /\ b.at = Head(ciaoBuffer) /\ b.len = 1
    /\ UNCHANGED <<level, localCounter, bfsIterationStart, stopped, idx, edges, depthBuffer0,
                   frontierBuffer, rpaoBuffer, depthBuffer1, depthBuffer2, burstRespQueue,
                   mem, depth>>

LEMMA RequestTurn ==
    ASSUME IInv, issueExpandDepthReadReq
    PROVE  \E b \in Burst : Requests(b)
  <1> DEFINE issues == ciaoBuffer # <<>> /\ Len(ciaoBuffer) < DepthBufferDepth
             b == IF issues THEN NewBurst(Head(ciaoBuffer), 1) ELSE NoBurst
  <1>1. /\ Publish(DepthPort, <<>>)
        /\ vidxBuffer' = IF issues THEN Append(vidxBuffer, Head(ciaoBuffer)) ELSE vidxBuffer
        /\ ciaoBuffer' = IF issues THEN Tail(ciaoBuffer) ELSE ciaoBuffer
        /\ creating' = [creating EXCEPT ![DepthPort] = b]
        /\ UNCHANGED <<level, localCounter, bfsIterationStart, stopped, idx, edges,
                       depthBuffer0, frontierBuffer, rpaoBuffer, depthBuffer1, depthBuffer2,
                       burstRespQueue, mem, depth>>
    BY DEF issueExpandDepthReadReq, control, inspection, memory
  <1>2. ciaoBuffer \in Seq(Int)
    BY DEF IInv, TypeOK
  <1>3. CASE issues
    <2> PICK u \in Int : u = Head(ciaoBuffer)
      BY <1>2, <1>3
    <2>1. b = NewBurst(u, 1) /\ NewBurst(u, 1) \in Burst /\ NewBurst(u, 1) # NoBurst
      BY <1>3, Bursts
    <2>2. b.at = u /\ b.len = 1
      BY <2>1 DEF NewBurst
    <2>3. ciaoBuffer # <<>> /\ vidxBuffer' = Append(vidxBuffer, u) /\ ciaoBuffer' = Tail(ciaoBuffer)
      BY <1>1, <1>3
    <2> HIDE DEF b, issues
    <2>4. Requests(b)
      BY <1>1, <2>1, <2>2, <2>3, Zenon DEF Requests
    <2> QED BY <2>1, <2>4
  <1>4. CASE ~issues
    <2>1. b = NoBurst /\ NoBurst \in Burst
      BY <1>4, Bursts
    <2>2. vidxBuffer' = vidxBuffer /\ ciaoBuffer' = ciaoBuffer
      BY <1>1, <1>4
    <2> HIDE DEF b, issues
    <2>3. Requests(b)
      BY <1>1, <2>1, <2>2, Zenon DEF Requests
    <2> QED BY <2>1, <2>3
  <1> QED
    BY <1>3, <1>4

LEMMA FlowRequests == ASSUME IInv, NEW S, Flow(S), issueExpandDepthReadReq PROVE Flow(S)'
  <1> PICK b \in Burst : Requests(b)
    BY RequestTurn
  <1>1. /\ Publish(DepthPort, <<>>) /\ creating' = [creating EXCEPT ![DepthPort] = b]
        /\ UNCHANGED <<edges, frontierBuffer, rpaoBuffer, burstRespQueue, mem>>
    BY Zenon DEF Requests
  <1>2. /\ ciaoBuffer \in Seq(Int) /\ vidxBuffer \in Seq(Int)
        /\ AllIn(ciaoBuffer, Targets(S)) /\ AllIn(vidxBuffer, Targets(S))
    BY DEF IInv, TypeOK, Flow, BuffersIn
  <1>3. /\ AllIn(ciaoBuffer', Targets(S)) /\ AllIn(vidxBuffer', Targets(S))
        /\ b # NoBurst => Fits(S, DepthPort, b.at, b.len)
    <2>1. CASE b = NoBurst
      BY <1>2, <2>1 DEF Requests
    <2>2. CASE b # NoBurst
      <3>1. /\ ciaoBuffer # <<>> /\ ciaoBuffer' = Tail(ciaoBuffer)
            /\ vidxBuffer' = Append(vidxBuffer, b.at)
            /\ b.at = Head(ciaoBuffer) /\ b.len = 1
        BY <2>2, Zenon DEF Requests
      <3>2. b.at \in Targets(S) /\ b.at \in Int /\ AllIn(Tail(ciaoBuffer), Targets(S))
        BY <1>2, <3>1, AllInPart
      <3>3. AllIn(Append(vidxBuffer, b.at), Targets(S))
        BY <1>2, <3>2, AllInPart
      <3>4. Fits(S, DepthPort, b.at, b.len)
        BY <3>1, <3>2, Ports DEF Fits
      <3> QED BY <3>1, <3>2, <3>3, <3>4, Zenon
    <2> QED BY <2>1, <2>2
  <1>4. BurstsFit(S)'
    BY <1>1, <1>3, Ports, Bursts, FitsIssue DEF Flow
  <1> QED
    BY <1>1, <1>3, <1>4, Zenon DEF Flow, BuffersIn, AllIn, OffsetsOf, Within, Targets

\* What expandDepthAnalysis does: n depths and their vertices are taken; if
\* the last of them is unvisited, its burst is built and its label kept, and
\* the burst built before is published with its own label.
Expands(n, b, data) ==
    /\ Publish(WritePort, data) /\ creating' = [creating EXCEPT ![WritePort] = b]
    /\ Taken(depthBuffer1, depthBuffer1', n) /\ Taken(vidxBuffer, vidxBuffer', n)
    /\ b # NoBurst => /\ n > 0 /\ depthBuffer1[n] = -1
                      /\ b.at = vidxBuffer[n] /\ b.len = 1
    /\ \A j \in 1 .. n : depthBuffer1[j] = -1 => b # NoBurst /\ j = n
    /\ creating[WritePort] # NoBurst =>
         Len(data) = 1 /\ 1 \in 1 .. Len(depthBuffer2) /\ data[1] = depthBuffer2[1]
    /\ \A k \in 1 .. Len(depthBuffer2') : depthBuffer2'[k] = Char(level + 1)
    /\ UNCHANGED <<level, localCounter, bfsIterationStart, stopped, idx, edges, depthBuffer0,
                   frontierBuffer, rpaoBuffer, ciaoBuffer, burstRespQueue, mem, depth>>

LEMMA ExpandTurn ==
    ASSUME IInv, expandDepthAnalysis
    PROVE  \E n \in Nat, b \in Burst, data \in Seq(Int) : Expands(n, b, data)
  <1> DEFINE wrote == creating[WritePort] # NoBurst
             labels == IF wrote THEN Tail(depthBuffer2) ELSE depthBuffer2
             data == IF wrote THEN <<Head(depthBuffer2)>> ELSE <<>>
             visits(k) == k < Len(depthBuffer1) /\ Len(labels) <= DepthBufferDepth
             taken(k) == IF visits(k) THEN k + 1 ELSE k
             b(k) == IF visits(k) THEN NewBurst(vidxBuffer[k + 1], 1) ELSE NoBurst
  <1>1. PICK k \in 0 .. Len(depthBuffer1) :
          /\ \A j \in 1 .. k : depthBuffer1[j] # -1
          /\ visits(k) => depthBuffer1[k + 1] = -1
          /\ Publish(WritePort, data)
          /\ depthBuffer1' = SubSeq(depthBuffer1, taken(k) + 1, Len(depthBuffer1))
          /\ vidxBuffer' = SubSeq(vidxBuffer, taken(k) + 1, Len(vidxBuffer))
          /\ depthBuffer2' = IF visits(k) THEN Append(labels, Char(level + 1)) ELSE labels
          /\ creating' = [creating EXCEPT ![WritePort] = b(k)]
          /\ UNCHANGED <<level, localCounter, bfsIterationStart, stopped, idx, edges, depthBuffer0,
                         frontierBuffer, rpaoBuffer, ciaoBuffer, burstRespQueue, mem, depth>>
    BY DEF expandDepthAnalysis, control, inspection, memory
  <1>2. /\ depthBuffer1 \in Seq(Int) /\ vidxBuffer \in Seq(Int) /\ depthBuffer2 \in Seq(Int)
    BY DEF IInv, TypeOK
  <1>3. /\ labels = <<>> /\ data \in Seq(Int)
        /\ wrote => Len(data) = 1 /\ 1 \in 1 .. Len(depthBuffer2) /\ data[1] = depthBuffer2[1]
    <2>1. CASE wrote
      <3>1. Len(depthBuffer2) = 1
        BY <2>1 DEF IInv, WriteWindow
      <3>2. Tail(depthBuffer2) = <<>> /\ Head(depthBuffer2) \in Int
        BY <1>2, <3>1, Singleton
      <3>3. Head(depthBuffer2) = depthBuffer2[1]
        BY <1>2, <3>1
      <3> QED BY <2>1, <3>1, <3>2, <3>3
    <2>2. CASE ~wrote
      <3>1. Len(depthBuffer2) = 0
        BY <2>2 DEF IInv, WriteWindow
      <3> QED BY <2>2, <3>1, <1>2
    <2> QED BY <2>1, <2>2
  <1>4. \A j \in 1 .. Len(depthBuffer2') : depthBuffer2'[j] = Char(level + 1)
    <2>1. CASE visits(k)
      <3>1. depthBuffer2' = Append(<<>>, Char(level + 1))
        BY <1>1, <1>3, <2>1
      <3> HIDE DEF labels
      <3> QED BY <3>1
    <2>2. CASE ~visits(k)
      <3>1. depthBuffer2' = <<>>
        BY <1>1, <1>3, <2>2
      <3> HIDE DEF labels
      <3> QED BY <3>1
    <2> QED BY <2>1, <2>2
  <1>5. Len(depthBuffer1) \in Nat /\ Len(vidxBuffer) \in Nat /\ Len(depthBuffer1) <= Len(vidxBuffer)
    <2>1. PICK coming \in Nat : Len(vidxBuffer) = Len(depthBuffer1) + coming
      <3> DEFINE last == IF creating[DepthPort] = NoBurst THEN 0 ELSE 1
      <3>1. Len(depthBuffer1) \in Nat /\ burstOpStatus[DepthPort] \in Nat /\ last \in Nat
        BY Ports DEF IInv, TypeOK
      <3>2. Len(vidxBuffer) = Len(depthBuffer1) + burstOpStatus[DepthPort] + last
        BY DEF IInv, VidxCount
      <3> HIDE DEF last
      <3>3. burstOpStatus[DepthPort] + last \in Nat
        BY <3>1
      <3>4. Len(vidxBuffer) = Len(depthBuffer1) + (burstOpStatus[DepthPort] + last)
        BY <3>1, <3>2
      <3> QED BY <3>3, <3>4
    <2>2. Len(depthBuffer1) \in Nat /\ Len(vidxBuffer) \in Nat
      BY <1>2
    <2> QED BY <2>1, <2>2
  <1> HIDE DEF labels, data
  <1>6. PICK n \in Nat : /\ n = taken(k) /\ n \in 0 .. Len(depthBuffer1) /\ n \in 0 .. Len(vidxBuffer)
                         /\ IF visits(k) THEN n = k + 1 ELSE n = k
    <2>1. CASE visits(k)
      BY <1>5, <2>1
    <2>2. CASE ~visits(k)
      BY <1>5, <2>2
    <2> QED BY <2>1, <2>2
  <1>7. /\ depthBuffer1' = SubSeq(depthBuffer1, n + 1, Len(depthBuffer1))
        /\ vidxBuffer' = SubSeq(vidxBuffer, n + 1, Len(vidxBuffer))
    BY <1>1, <1>6
  <1>8. Taken(depthBuffer1, depthBuffer1', n) /\ Taken(vidxBuffer, vidxBuffer', n)
    <2>1. \A s \in Seq(Int) : n \in 0 .. Len(s) => Taken(s, SubSeq(s, n + 1, Len(s)), n)
      BY RestTaken
    <2> QED BY <1>2, <1>6, <1>7, <2>1, Zenon
  <1>9. /\ b(k) \in Burst
        /\ b(k) # NoBurst => /\ n > 0 /\ depthBuffer1[n] = -1
                             /\ b(k).at = vidxBuffer[n] /\ b(k).len = 1
        /\ \A j \in 1 .. n : depthBuffer1[j] = -1 => b(k) # NoBurst /\ j = n
    <2>1. CASE visits(k)
      <3>1. n > 0 /\ depthBuffer1[n] = -1
        BY <1>1, <1>6, <2>1
      <3>2. n \in 1 .. Len(vidxBuffer)
        BY <1>6, <3>1
      <3> PICK v \in Int : v = vidxBuffer[n]
        BY <1>2, <3>2
      <3>3. b(k) = NewBurst(v, 1)
        BY <1>6, <2>1
      <3>4. /\ NewBurst(v, 1) \in Burst /\ NewBurst(v, 1) # NoBurst
            /\ NewBurst(v, 1).at = v /\ NewBurst(v, 1).len = 1
        BY Bursts DEF NewBurst
      <3>5. n = k + 1
        BY <1>6, <2>1
      <3>6. \A j \in 1 .. n : j \in 1 .. k \/ j = n
        BY <3>5
      <3> HIDE DEF b
      <3> QED BY <1>1, <3>1, <3>3, <3>4, <3>6, Zenon
    <2>2. CASE ~visits(k)
      <3>1. n = k /\ b(k) = NoBurst
        BY <1>6, <2>2
      <3> HIDE DEF b
      <3> QED BY <1>1, <3>1, Bursts
    <2> QED BY <2>1, <2>2
  <1> HIDE DEF b, visits, taken
  <1>10. Expands(n, b(k), data)
    BY <1>1, <1>3, <1>4, <1>8, <1>9, Zenon DEF Expands
  <1> QED
    BY <1>3, <1>9, <1>10

LEMMA FlowExpands == ASSUME IInv, NEW S, Flow(S), expandDepthAnalysis PROVE Flow(S)'
  <1> PICK n \in Nat, b \in Burst, data \in Seq(Int) : Expands(n, b, data)
    BY ExpandTurn
  <1>1. /\ Publish(WritePort, data) /\ creating' = [creating EXCEPT ![WritePort] = b]
        /\ UNCHANGED <<edges, frontierBuffer, rpaoBuffer, ciaoBuffer, burstRespQueue, mem>>
        /\ Taken(vidxBuffer, vidxBuffer', n)
    BY Zenon DEF Expands
  <1>2. vidxBuffer \in Seq(Int) /\ AllIn(vidxBuffer, Targets(S))
    BY DEF IInv, TypeOK, Flow, BuffersIn
  <1>3. b # NoBurst => Fits(S, WritePort, b.at, b.len)
    <2> SUFFICES ASSUME b # NoBurst PROVE Fits(S, WritePort, b.at, b.len)
      OBVIOUS
    <2>1. n > 0 /\ b.at = vidxBuffer[n] /\ b.len = 1
      BY Zenon DEF Expands
    <2>2. n \in 1 .. Len(vidxBuffer)
      BY <1>1, <2>1 DEF Taken
    <2>3. b.at \in Targets(S)
      BY <1>2, <2>1, <2>2 DEF AllIn
    <2> QED BY <2>1, <2>3, Ports DEF Fits
  <1>4. AllIn(vidxBuffer', Targets(S))
    BY <1>1, <1>2, AllInTaken
  <1>5. BurstsFit(S)'
    BY <1>1, <1>3, Ports, FitsIssue DEF Flow
  <1> QED
    BY <1>1, <1>4, <1>5, Zenon DEF Flow, BuffersIn, AllIn, OffsetsOf, Within, Targets

\* Whatever step is taken, what is followed starts in S.
LEMMA FlowStep ==
    ASSUME IInv, DataKnown, CsrRead, NEW S \in SUBSET Vertex, Flow(S), Hits(S), [Next]_vars
    PROVE  Flow(S)'
  <1>1. ASSUME BurstsFit(S)', UNCHANGED <<frontierBuffer, rpaoBuffer, edges, ciaoBuffer, vidxBuffer>>
        PROVE  Flow(S)'
    BY <1>1, Zenon DEF Flow, BuffersIn, AllIn, OffsetsOf, Within, Targets
  <1>2. CASE \E p \in Part : inspectDepthReqThread(p)
    <2> PICK p \in Part : inspectDepthReqThread(p)
      BY <1>2
    <2> DEFINE restart == /\ creating[p] = NoBurst
                          /\ currentLen[p] >= PartLen(p)
                          /\ bfsIterationStart
               len == IF restart THEN 0 ELSE currentLen[p] + creating[p].len
               chunk == Lesser(BaseLen, PartLen(p) - len)
               issues == len < PartLen(p) /\ Len(depthBuffer0[p]) + chunk <= DepthBufferDepth
               b == IF issues THEN NewBurst(PartBase(p) + len, chunk) ELSE NoBurst
    <2>1. /\ Publish(p, <<>>) /\ creating' = [creating EXCEPT ![p] = b]
          /\ UNCHANGED <<frontierBuffer, rpaoBuffer, edges, ciaoBuffer, vidxBuffer,
                         mem, burstRespQueue>>
      BY DEF inspectDepthReqThread, memory
    <2>2. b \in Burst
      <3>1. PartBase(p) \in Nat /\ PartLen(p) \in Nat /\ BaseLen \in Nat /\ len \in Nat
        <4>1. creating[p] \in Burst /\ currentLen[p] \in Nat
          BY Ports DEF IInv, TypeOK
        <4>2. creating[p].len \in Nat
          BY <4>1 DEF Burst
        <4> QED BY <4>1, <4>2, PartFits, SizeAssumption DEF SizeAssumption
      <3> HIDE DEF len
      <3>2. issues => chunk \in Nat /\ PartBase(p) + len \in Int
        BY <3>1 DEF Lesser
      <3> HIDE DEF chunk
      <3> QED BY <3>2, Bursts
    <2>3. \A at, n : Fits(S, p, at, n)
      BY Ports DEF Fits
    <2> HIDE DEF b
    <2>4. BurstsFit(S)'
      BY <2>1, <2>2, <2>3, Ports, Bursts, FitsIssue DEF Flow
    <2> QED BY <1>1, <2>1, <2>4
  <1>3. CASE \E p \in Part : inspectDepthRespThread(p)
    <2> PICK p \in Part : inspectDepthRespThread(p)
      BY <1>3
    <2>1. Receive(p) /\ UNCHANGED <<rpaoBuffer, ciaoBuffer>> /\ p \in Port /\ p # WritePort
      BY Ports DEF inspectDepthRespThread
    <2>2. UNCHANGED <<frontierBuffer, edges, vidxBuffer>>
      BY <2>1, ReceiveKeeps
    <2>3. BurstsFit(S)'
      BY <2>1, FitsReceive DEF Flow
    <2> QED BY <1>1, <2>1, <2>2, <2>3
  <1>4. CASE processExpandDepthReadResp
    <2>1. Receive(DepthPort) /\ UNCHANGED <<rpaoBuffer, ciaoBuffer>>
      BY <1>4 DEF processExpandDepthReadResp
    <2>2. UNCHANGED <<frontierBuffer, edges, vidxBuffer>>
      BY <2>1, Ports, ReceiveKeeps
    <2>3. BurstsFit(S)'
      BY <2>1, Ports, FitsReceive DEF Flow
    <2> QED BY <1>1, <2>1, <2>2, <2>3
  <1>5. CASE processExpandDepthWriteResp
    <2>1. IInv'
      BY <1>5, writeRespInv
    <2>2. UNCHANGED <<frontierBuffer, rpaoBuffer, edges, ciaoBuffer, vidxBuffer>>
      BY <1>5 DEF processExpandDepthWriteResp, issuing
    <2> QED BY <1>1, <1>5, <2>1, <2>2, FitsWritten DEF Flow
  <1>6. CASE sendMemReq \/ \E R \in SUBSET Port : getMemResp(R)
    <2>1. UNCHANGED <<frontierBuffer, rpaoBuffer, edges, ciaoBuffer, vidxBuffer>>
      BY <1>6 DEF sendMemReq, getMemResp, issuing
    <2> QED BY <1>1, <1>6, <2>1, FitsMemory DEF Flow
  <1>7. CASE statusMonitor \/ Tick \/ UNCHANGED vars
    <2>1. UNCHANGED <<frontierBuffer, rpaoBuffer, edges, ciaoBuffer, vidxBuffer,
                      creating, burstReqQueue, mem, burstRespQueue>>
      BY <1>7 DEF statusMonitor, Tick, vars, issuing, memory
    <2> QED BY <1>1, <2>1, FitsKept DEF Flow
  <1> QED
    BY <1>2, <1>3, <1>4, <1>5, <1>6, <1>7, FlowAnalysis, FlowFrontier, FlowOffsets, FlowEdges,
      FlowTargets, FlowRequests, FlowExpands DEF Next

\* More vertices found, more to follow.
LEMMA FlowGrows ==
    ASSUME NEW S, NEW T, S \subseteq T, Flow(S) PROVE Flow(T)
  <1>1. \A i, at, n : Fits(S, i, at, n) => Fits(T, i, at, n)
    BY MoreEdges DEF Fits
  <1>2. BurstsFit(T)
    BY <1>1, Zenon DEF Flow, BurstsFit
  <1>3. BuffersIn(T)
    BY MoreEdges DEF Flow, BuffersIn, AllIn, OffsetsOf
  <1> QED
    BY <1>2, <1>3 DEF Flow
-----------------------------------------------------------------------------
(* Accesses *)

\* The inspection finds vertices.
LEMMA HitsAreVertices == ASSUME IInv, Phases PROVE Hits(Vertex)
  <1> SUFFICES ASSUME NEW p \in Analysed PROVE ~bfsIterationStart /\ idx[p] \in Vertex
    BY DEF Hits
  <1>1. p \in Part /\ depthBuffer0[p] # <<>>
    BY DEF Analysed
  <1>2. /\ ~bfsIterationStart /\ PartBase(p) <= idx[p]
        /\ idx[p] + Len(depthBuffer0[p]) <= PartBase(p) + PartLen(p)
    BY <1>1, ScanFits
  <1>3. /\ PartBase(p) \in Nat /\ PartLen(p) \in Nat /\ PartBase(p) + PartLen(p) <= V
        /\ V \in Nat /\ idx[p] \in Nat
    BY <1>1, PartFits, PartEnds, GraphAssumption DEF GraphAssumption, IInv, TypeOK
  <1>4. Len(depthBuffer0[p]) \in Nat /\ Len(depthBuffer0[p]) > 0
    <2>1. depthBuffer0[p] \in Seq(Int)
      BY <1>1 DEF IInv, TypeOK
    <2> QED BY <1>1, <2>1, Begins
  <1>5. \A x, y, z, w \in Int : w <= x /\ 0 <= w /\ x + y <= z /\ z <= V /\ y > 0 => x \in 0 .. V - 1
    BY <1>3
  <1> QED
    BY <1>2, <1>3, <1>4, <1>5 DEF Vertex

\* The inductive invariant: with that of the inspection, every burst fits, what
\* the buffers hold leads to bursts that fit, and the responses are the arrays'.
FlowInv == IInv /\ ScanInv /\ CsrRead /\ Flow(Vertex)

LEMMA FlowAtStart == ASSUME Init, NEW S PROVE Flow(S)
  <1>1. IInv
    BY initInv
  <1>2. BurstsFit(S)
    <2> SUFFICES ASSUME NEW i \in Port PROVE Len(Pipeline(i)) = 0
      BY DEF BurstsFit
    <2>1. burstOpStatus[i] = 0 /\ creating[i] = NoBurst
      BY DEF Init
    <2>2. Len(burstReqQueue[i]) = 0 /\ Len(mem[i]) = 0 /\ Len(burstRespQueue[i]) = 0
      BY <1>1, <2>1, Entries
    <2>3. IsPipe(Pipeline(i), burstRespQueue[i], mem[i], burstReqQueue[i], creating[i])
      BY <1>1, PipeOf
    <2> QED BY <2>1, <2>2, <2>3 DEF IsPipe
  <1>3. BuffersIn(S)
    <2>1. /\ Len(frontierBuffer) = 0 /\ Len(ciaoBuffer) = 0 /\ Len(vidxBuffer) = 0
          /\ ~(edges.next < edges.end)
      BY EmptySeq DEF Init
    <2>2. OffsetsOf(rpaoBuffer, S, 0)
      BY EmptySeq DEF Init, OffsetsOf
    <2> QED BY <2>1, <2>2 DEF BuffersIn, AllIn
  <1> QED
    BY <1>2, <1>3 DEF Flow

LEMMA FlowInit == ASSUME Init PROVE FlowInv
  <1>1. IInv /\ ScanInv
    BY initInv, ScanInit
  <1>2. \A i \in Port : Len(burstRespQueue[i]) = 0
    BY EmptySeq DEF Init
  <1>3. CsrRead
    BY <1>2, Ports DEF CsrRead
  <1> QED
    BY <1>1, <1>3, FlowAtStart DEF FlowInv

LEMMA FlowInvStep == ASSUME RoomToScan, FlowInv, [Next]_vars PROVE FlowInv'
  <1>1. IInv' /\ ScanInv'
    BY ScanStep DEF FlowInv
  <1>2. CsrRead'
    BY CsrStep DEF FlowInv, Flow
  <1>3. Hits(Vertex)
    BY HitsAreVertices DEF FlowInv, ScanInv
  <1>4. Flow(Vertex)'
    BY <1>3, FlowStep DEF FlowInv, ScanInv
  <1> QED
    BY <1>1, <1>2, <1>4 DEF FlowInv

\* In every reachable state what the buffers, the requests and the bursts of the
\* four read ports hold are indices, offsets and vertices of the graph.
THEOREM FlowInvariance == ASSUME RoomToScan PROVE Spec => []FlowInv
  <1>1. Init => FlowInv
    BY FlowInit
  <1>2. FlowInv /\ [Next]_vars => FlowInv'
    BY FlowInvStep
  <1> QED
    BY <1>1, <1>2, PTL DEF Spec

\* No index, offset or count that goes through the buffers of the processing
\* element ever leads a burst out of the array it reads or writes.
THEOREM AccessesInBounds == ASSUME RoomToScan PROVE Spec => []AccessInBounds
  <1>1. FlowInv => AccessInBounds
    BY FlowInBounds DEF FlowInv, ScanInv, Flow
  <1> QED
    BY <1>1, FlowInvariance, PTL
=============================================================================
