--------------------------------- MODULE Pe ---------------------------------
(***************************************************************************)
(* The processing element of the BFS accelerator (src/src/pe.h, pe.cpp).   *)
(*                                                                         *)
(* A SystemC module of cooperative threads: each runs without interruption *)
(* from one wait() to the next.  Every wait is a whole number of PE clock  *)
(* cycles, so busy[t] counts the cycles left before t runs again; Tick is  *)
(* the clock edge, and bfsController, the only process sensitive to it,    *)
(* runs after all the threads of the cycle.                                *)
(*                                                                         *)
(* Memory is reduced to what the PE relies on: bursts of one port are      *)
(* answered in order after any number of cycles, the data being read or    *)
(* written when the response leaves the memory (MemWrapper::sendBurstResp).*)
(***************************************************************************)
EXTENDS Integers, Sequences

CONSTANTS V,                   \* GL::vertexNum
          PRNUM,               \* partitions of the depth array
          Rpao, Ciao,          \* CSR arrays of the outgoing edges
          Start,               \* the starting vertex
          BaseLen, IntSize,    \* GL::baseLen, longest burst in bytes; sizeof(int)
          DepthBufferDepth, FrontierBufferDepth,
          RpaoBufferDepth, CiaoBufferDepth,
          StartCount, EndCount,\* 10 and 20 in bfsController
          Beyond,              \* what a read outside of its array returns
          CharHalf,            \* a char holds -CharHalf .. CharHalf-1
          Rank                 \* order of the threads within a cycle

Vertex == 0 .. V - 1
Part == 0 .. PRNUM - 1

\* Ports 0 .. PRNUM-1 read the depth partitions (inspection).
RpaoPort  == PRNUM
CiaoPort  == PRNUM + 1
DepthPort == PRNUM + 2
WritePort == PRNUM + 3
Port == 0 .. PRNUM + 3

\* One issuing and one response thread per port; the singletons carry port 0.
Analysis == <<"analysis", 0>>
SendReq  == <<"send", 0>>
GetResp  == <<"get", 0>>
Monitor  == <<"monitor", 0>>
Thread == ({"issue", "resp"} \X Port) \cup {Analysis, SendReq, GetResp, Monitor}

ASSUME GraphAssumption ==
    /\ V \in Nat \ {0}
    /\ Rpao \in [0 .. V -> Nat]
    /\ \A v \in 0 .. V : Rpao[v] <= Rpao[V]
    /\ Ciao \in [0 .. Rpao[V] - 1 -> Vertex]
    /\ Start \in Vertex

ASSUME SizeAssumption ==
    /\ PRNUM \in Nat \ {0} /\ Beyond \in Int
    /\ IntSize \in Nat \ {0} /\ BaseLen \in Nat /\ BaseLen >= IntSize
    /\ {DepthBufferDepth, FrontierBufferDepth, RpaoBufferDepth, CiaoBufferDepth} \subseteq Nat
    /\ StartCount \in Nat /\ EndCount \in Nat /\ 1 < StartCount /\ StartCount < EndCount
    /\ CharHalf \in Nat \ {0}

\* The signals between the modules delay what is written in a cycle to the
\* next one: a response is never seen in the cycle of its request, nor
\* bfsDone by the monitor in the cycle that writes it.
ASSUME RankAssumption ==
    /\ Rank \in [Thread -> Nat]
    /\ Rank[GetResp] < Rank[SendReq]
    /\ Rank[Monitor] < Rank[Analysis]

VARIABLES level, localCounter, bfsIterationStart,    \* bfsController
          idx, frontierSize, armed, bfsDone,         \* inspectDepthAnalysis
          currentLen,                                \* per partition: bytes requested
          edges,                                     \* ciao range still to request
          depthBuffer0, frontierBuffer, rpaoBuffer,
          ciaoBuffer, vidxBuffer, depthBuffer1, depthBuffer2,
          creating,       \* the burst an issuing thread builds while it waits
          burstReqQueue, burstRespQueue,
          burstOpStatus,  \* per port: the number of its entries
          serving,        \* response thread is waiting for the head's data
          busy,           \* cycles before the thread runs again
          mem,            \* per port: bursts sent and not answered
          depth,          \* the depth array in ramData
          stopped         \* sc_stop() was called

control    == <<level, localCounter, bfsIterationStart, stopped>>
inspection == <<idx, frontierSize, armed, bfsDone>>
issuing    == <<currentLen, edges, creating, burstReqQueue>>
memory     == <<mem, depth>>
vars == <<control, inspection, issuing, depthBuffer0, frontierBuffer,
          rpaoBuffer, ciaoBuffer, vidxBuffer, depthBuffer1, depthBuffer2,
          burstRespQueue, burstOpStatus, serving, busy, memory>>

-----------------------------------------------------------------------------
\* (Mutant: a chunk that is not cut at the end of its range.)
Unclipped(a, b) == a
Lesser(a, b) == IF a < b THEN a ELSE b

\* The value a char keeps of an int.
Char(n) == ((n + CharHalf) % (2 * CharHalf)) - CharHalf

PartBase(p) == p * (V \div PRNUM)
PartLen(p) == IF p = PRNUM - 1 THEN V - PartBase(p) ELSE V \div PRNUM

\* A burst: where it starts in the array its port accesses, its number of
\* elements, and their values once they are known.
Burst == [at : Int, len : Nat, data : Seq(Int)]
NoBurst == [at |-> 0, len |-> 0, data |-> <<>>]
NewBurst(at, len) == [at |-> at, len |-> len, data |-> <<>>]

\* The array a read port accesses; what follows an array in ramData (its
\* padding or the next array) is not modelled further.
Ram(i) == CASE i = RpaoPort -> Rpao
            [] i = CiaoPort -> Ciao
            [] OTHER -> depth

Cell(a, k) == IF k \in DOMAIN a THEN a[k] ELSE Beyond
ReadFrom(i, b) == [b EXCEPT !.data = [k \in 1 .. b.len |-> Cell(Ram(i), b.at + k - 1)]]

-----------------------------------------------------------------------------
Init ==
    \* the initialisation phase of the kernel has run bfsController once
    /\ level = 0 /\ localCounter = 1 /\ bfsIterationStart = FALSE
    /\ idx = [p \in Part |-> PartBase(p)]
    /\ frontierSize = 0 /\ armed = FALSE /\ bfsDone = FALSE
    /\ currentLen = [p \in Part |-> PartLen(p)]
    /\ edges = [next |-> 0, end |-> 0]
    /\ depthBuffer0 = [p \in Part |-> <<>>]
    /\ frontierBuffer = <<>> /\ rpaoBuffer = <<>> /\ ciaoBuffer = <<>>
    /\ vidxBuffer = <<>> /\ depthBuffer1 = <<>> /\ depthBuffer2 = <<>>
    /\ creating = [i \in Port |-> NoBurst]
    /\ burstReqQueue = [i \in Port |-> <<>>]
    /\ burstRespQueue = [i \in Port |-> <<>>]
    /\ burstOpStatus = [i \in Port |-> 0]
    /\ serving = [i \in Port |-> FALSE]
    /\ busy = [t \in Thread |-> 0]
    /\ mem = [i \in Port |-> <<>>]
    /\ depth = [v \in Vertex |-> IF v = Start THEN 0 ELSE -1]
    /\ stopped = FALSE

-----------------------------------------------------------------------------
(* Scheduling *)

\* Thread t runs up to its next wait, of n cycles.
Turn(t, n) ==
    /\ ~stopped
    /\ busy[t] = 0
    /\ \A u \in Thread : busy[u] = 0 => Rank[t] <= Rank[u]
    /\ busy' = [busy EXCEPT ![t] = n]

\* (Mutant: the burst is queued and never registered.)
PublishUnregistered(i, data) ==
    /\ UNCHANGED burstOpStatus
    /\ IF creating[i] = NoBurst
       THEN UNCHANGED burstReqQueue
       ELSE burstReqQueue' = [burstReqQueue EXCEPT
                                ![i] = Append(@, [creating[i] EXCEPT !.data = data])]

\* What an issuing thread does when the wait of createReadBurstReq or
\* createWriteBurstReq is over: only now is the burst queued and registered.
Publish(i, data) ==
    IF creating[i] = NoBurst
    THEN UNCHANGED <<burstReqQueue, burstOpStatus>>
    ELSE /\ burstReqQueue' = [burstReqQueue EXCEPT
                                ![i] = Append(@, [creating[i] EXCEPT !.data = data])]
         /\ burstOpStatus' = [burstOpStatus EXCEPT ![i] = @ + 1]

-----------------------------------------------------------------------------
(* Inspection: read the depth array and collect the vertices of this level *)

\* issueInspectDepthReadReq0-3.  The start flag is polled only outside the
\* chunk loop; a chunk that does not fit in the buffer waits a cycle.
inspectDepthReqThread(p) ==
    LET restart == /\ creating[p] = NoBurst
                   /\ currentLen[p] >= PartLen(p)
                   /\ bfsIterationStart
        len == IF restart THEN 0 ELSE currentLen[p] + creating[p].len
        chunk == Lesser(BaseLen, PartLen(p) - len)
        issues == len < PartLen(p) /\ Len(depthBuffer0[p]) + chunk <= DepthBufferDepth
    IN  /\ Turn(<<"issue", p>>, 1)
        /\ Publish(p, <<>>)
        /\ currentLen' = [currentLen EXCEPT ![p] = len]
        /\ creating' = [creating EXCEPT
             ![p] = IF issues THEN NewBurst(PartBase(p) + len, chunk) ELSE NoBurst]
        /\ UNCHANGED <<control, inspection, edges, depthBuffer0, frontierBuffer,
                       rpaoBuffer, ciaoBuffer, vidxBuffer, depthBuffer1, depthBuffer2,
                       burstRespQueue, serving, memory>>

\* The part common to the response threads of the read ports: the head is
\* consumed when its transfer time has passed, then the next one starts.
Receive(i) ==
    LET rest == IF serving[i] THEN Tail(burstRespQueue[i]) ELSE burstRespQueue[i]
    IN  /\ Turn(<<"resp", i>>, IF rest = <<>> THEN 1 ELSE Head(rest).len)
        /\ serving' = [serving EXCEPT ![i] = rest # <<>>]
        /\ burstRespQueue' = [burstRespQueue EXCEPT ![i] = rest]
        /\ burstOpStatus' = [burstOpStatus EXCEPT ![i] = IF serving[i] THEN @ - 1 ELSE @]
        /\ UNCHANGED <<control, inspection, issuing, frontierBuffer, vidxBuffer,
                       depthBuffer2, memory>>

Received(i) == IF serving[i] THEN Head(burstRespQueue[i]).data ELSE <<>>

inspectDepthRespThread(p) ==
    /\ Receive(p)
    /\ depthBuffer0' = [depthBuffer0 EXCEPT ![p] = @ \o Received(p)]
    /\ UNCHANGED <<rpaoBuffer, ciaoBuffer, depthBuffer1>>

\* One depth of every partition is analysed in a cycle, unless the frontier
\* is full before the first of them.
Analysed == IF Len(frontierBuffer) < FrontierBufferDepth
            THEN {p \in Part : depthBuffer0[p] # <<>>} ELSE {}

\* The lists of partitions, in order, that hold a vertex of this level.
HitLists ==
    LET hits == {p \in Analysed : Head(depthBuffer0[p]) = level}
    IN  {list \in UNION {[1 .. n -> Part] : n \in 0 .. PRNUM} :
           /\ \A j, k \in DOMAIN list : j < k => list[j] < list[k]
           /\ {list[k] : k \in DOMAIN list} = hits}

inspectDepthAnalysis ==
    \E list \in HitLists :
    LET from == IF bfsIterationStart THEN [p \in Part |-> PartBase(p)] ELSE idx
        size == IF bfsIterationStart THEN 0 ELSE frontierSize
        watch == armed \/ bfsIterationStart
        found == [k \in DOMAIN list |-> from[list[k]]]
        to == [p \in Part |-> IF p \in Analysed THEN from[p] + 1 ELSE from[p]]
        allAnalyzed == \A p \in Part : to[p] = PartBase(p) + PartLen(p)
    IN  /\ Turn(Analysis, 1)
        /\ idx' = to
        /\ frontierSize' = size + Len(found)
        /\ frontierBuffer' = frontierBuffer \o found
        /\ depthBuffer0' = [p \in Part |->
             IF p \in Analysed THEN Tail(depthBuffer0[p]) ELSE depthBuffer0[p]]
        /\ armed' = (watch /\ ~allAnalyzed)
        /\ bfsDone' = (bfsDone \/ (watch /\ allAnalyzed /\ size + Len(found) = 0))
        /\ UNCHANGED <<control, issuing, rpaoBuffer, ciaoBuffer, vidxBuffer,
                       depthBuffer1, depthBuffer2, burstRespQueue, burstOpStatus,
                       serving, memory>>

-----------------------------------------------------------------------------
(* Expansion: from a frontier vertex to the depths of its neighbours *)

frontierAnalysis ==
    LET issues == frontierBuffer # <<>> /\ Len(rpaoBuffer) + 2 < RpaoBufferDepth
    IN  /\ Turn(<<"issue", RpaoPort>>, 1)
        /\ Publish(RpaoPort, <<>>)
        /\ frontierBuffer' = IF issues THEN Tail(frontierBuffer) ELSE frontierBuffer
        /\ creating' = [creating EXCEPT
             ![RpaoPort] = IF issues THEN NewBurst(Head(frontierBuffer), 2) ELSE NoBurst]
        /\ UNCHANGED <<control, inspection, currentLen, edges, depthBuffer0, rpaoBuffer,
                       ciaoBuffer, vidxBuffer, depthBuffer1, depthBuffer2,
                       burstRespQueue, serving, memory>>

processExpandRpaoReadResp ==
    /\ Receive(RpaoPort)
    /\ rpaoBuffer' = rpaoBuffer \o Received(RpaoPort)
    /\ UNCHANGED <<depthBuffer0, ciaoBuffer, depthBuffer1>>

\* Finish the edge range in progress; otherwise take pairs of offsets until
\* one has edges, the empty ones costing no time, and request its next chunk.
issueExpandCiaoReadReq ==
    LET next == edges.next + creating[CiaoPort].len
    IN  \E k \in 0 .. Len(rpaoBuffer) \div 2 :
        LET range == IF k = 0 THEN [next |-> next, end |-> edges.end]
                     ELSE [next |-> rpaoBuffer[2 * k - 1], end |-> rpaoBuffer[2 * k]]
            chunk == Lesser(BaseLen \div IntSize, range.end - range.next)
            issues == /\ range.next < range.end
                      /\ Len(ciaoBuffer) + chunk < CiaoBufferDepth
        IN  /\ next < edges.end => k = 0
            /\ \A j \in 1 .. k - 1 : rpaoBuffer[2 * j - 1] >= rpaoBuffer[2 * j]
            /\ range.next >= range.end => k = Len(rpaoBuffer) \div 2
            /\ Turn(<<"issue", CiaoPort>>, 1)
            /\ Publish(CiaoPort, <<>>)
            /\ edges' = range
            /\ rpaoBuffer' = SubSeq(rpaoBuffer, 2 * k + 1, Len(rpaoBuffer))
            /\ creating' = [creating EXCEPT
                 ![CiaoPort] = IF issues THEN NewBurst(range.next, chunk) ELSE NoBurst]
            /\ UNCHANGED <<control, inspection, currentLen, depthBuffer0, frontierBuffer,
                           ciaoBuffer, vidxBuffer, depthBuffer1, depthBuffer2,
                           burstRespQueue, serving, memory>>

processExpandCiaoReadResp ==
    /\ Receive(CiaoPort)
    /\ ciaoBuffer' = ciaoBuffer \o Received(CiaoPort)
    /\ UNCHANGED <<depthBuffer0, rpaoBuffer, depthBuffer1>>

\* The guard compares ciaoBuffer, the source, with the depth of the target.
issueExpandDepthReadReq ==
    LET issues == ciaoBuffer # <<>> /\ Len(ciaoBuffer) < DepthBufferDepth
    IN  /\ Turn(<<"issue", DepthPort>>, 1)
        /\ Publish(DepthPort, <<>>)
        /\ vidxBuffer' = IF issues THEN Append(vidxBuffer, Head(ciaoBuffer)) ELSE vidxBuffer
        /\ ciaoBuffer' = IF issues THEN Tail(ciaoBuffer) ELSE ciaoBuffer
        /\ creating' = [creating EXCEPT
             ![DepthPort] = IF issues THEN NewBurst(Head(ciaoBuffer), 1) ELSE NoBurst]
        /\ UNCHANGED <<control, inspection, currentLen, edges, depthBuffer0,
                       frontierBuffer, rpaoBuffer, depthBuffer1, depthBuffer2,
                       burstRespQueue, serving, memory>>

processExpandDepthReadResp ==
    /\ Receive(DepthPort)
    /\ depthBuffer1' = depthBuffer1 \o Received(DepthPort)
    /\ UNCHANGED <<depthBuffer0, rpaoBuffer, ciaoBuffer>>

\* Pop the depths read, the visited ones costing no time, up to the first
\* unvisited vertex: it gets the label level+1, which stays in depthBuffer2
\* until the write burst that carries it is published.
expandDepthAnalysis ==
    LET wrote == creating[WritePort] # NoBurst
        labels == IF wrote THEN Tail(depthBuffer2) ELSE depthBuffer2
        label == Char(level + 1)
    IN  \E k \in 0 .. Len(depthBuffer1) :
        LET visits == k < Len(depthBuffer1) /\ Len(labels) <= DepthBufferDepth
            taken == IF visits THEN k + 1 ELSE k
        IN  /\ \A j \in 1 .. k : depthBuffer1[j] # -1
            /\ visits => depthBuffer1[k + 1] = -1
            /\ Len(labels) > DepthBufferDepth => k = 0
            /\ Turn(<<"issue", WritePort>>, 1)
            /\ Publish(WritePort, IF wrote THEN <<Head(depthBuffer2)>> ELSE <<>>)
            /\ depthBuffer1' = SubSeq(depthBuffer1, taken + 1, Len(depthBuffer1))
            /\ vidxBuffer' = SubSeq(vidxBuffer, taken + 1, Len(vidxBuffer))
            /\ depthBuffer2' = IF visits THEN Append(labels, label) ELSE labels
            /\ creating' = [creating EXCEPT
                 ![WritePort] = IF visits THEN NewBurst(vidxBuffer[k + 1], 1) ELSE NoBurst]
            /\ UNCHANGED <<control, inspection, currentLen, edges, depthBuffer0,
                           frontierBuffer, rpaoBuffer, ciaoBuffer, burstRespQueue,
                           serving, memory>>

\* (Mutant: the entries of the written bursts are not erased.)
writeRespKeepingStatus ==
    /\ Turn(<<"resp", WritePort>>, 1)
    /\ burstRespQueue' = [burstRespQueue EXCEPT ![WritePort] = <<>>]
    /\ UNCHANGED <<control, inspection, issuing, depthBuffer0, frontierBuffer, rpaoBuffer,
                   ciaoBuffer, vidxBuffer, depthBuffer1, depthBuffer2, burstOpStatus,
                   serving, memory>>

\* Write responses carry no data: all of them are consumed at once.
processExpandDepthWriteResp ==
    /\ Turn(<<"resp", WritePort>>, 1)
    /\ burstOpStatus' = [burstOpStatus EXCEPT ![WritePort] = @ - Len(burstRespQueue[WritePort])]
    /\ burstRespQueue' = [burstRespQueue EXCEPT ![WritePort] = <<>>]
    /\ UNCHANGED <<control, inspection, issuing, depthBuffer0, frontierBuffer, rpaoBuffer,
                   ciaoBuffer, vidxBuffer, depthBuffer1, depthBuffer2, serving, memory>>

-----------------------------------------------------------------------------
(* The memory interface *)

\* One burst per port and cycle.
sendMemReq ==
    LET sent(i) == burstReqQueue[i] # <<>>
    IN  /\ Turn(SendReq, 1)
        /\ mem' = [i \in Port |-> IF sent(i) THEN Append(mem[i], Head(burstReqQueue[i])) ELSE mem[i]]
        /\ burstReqQueue' = [i \in Port |-> IF sent(i) THEN Tail(burstReqQueue[i]) ELSE burstReqQueue[i]]
        /\ UNCHANGED <<control, inspection, currentLen, edges, creating, depthBuffer0,
                       frontierBuffer, rpaoBuffer, ciaoBuffer, vidxBuffer, depthBuffer1,
                       depthBuffer2, burstRespQueue, burstOpStatus, serving, depth>>

\* (Mutant: the memory answers out of order.)
AnswerNewest(i) == LET b == mem[i][Len(mem[i])]
                   IN  IF i = WritePort THEN b ELSE ReadFrom(i, b)

\* The memory answers the oldest burst of a port.
Answer(i) == IF i = WritePort THEN Head(mem[i]) ELSE ReadFrom(i, Head(mem[i]))

\* The responses of a cycle, at most one per port, are those of the ports in
\* S; a write takes effect after the reads of the same cycle.
getMemResp(S) ==
    /\ \A i \in S : mem[i] # <<>>
    /\ Turn(GetResp, 1)
    /\ burstRespQueue' = [i \in Port |->
         IF i \in S THEN Append(burstRespQueue[i], Answer(i)) ELSE burstRespQueue[i]]
    /\ mem' = [i \in Port |-> IF i \in S THEN Tail(mem[i]) ELSE mem[i]]
    /\ depth' = IF WritePort \in S
                THEN [depth EXCEPT ![Head(mem[WritePort]).at] = Head(mem[WritePort]).data[1]]
                ELSE depth
    /\ UNCHANGED <<control, inspection, issuing, depthBuffer0, frontierBuffer,
                   rpaoBuffer, ciaoBuffer, vidxBuffer, depthBuffer1, depthBuffer2,
                   burstOpStatus, serving>>

\* MemWrapper::statusMonitor dumps the depths and stops the simulation.
statusMonitor ==
    /\ Turn(Monitor, 1)
    /\ stopped' = bfsDone
    /\ UNCHANGED <<level, localCounter, bfsIterationStart, inspection, issuing,
                   depthBuffer0, frontierBuffer, rpaoBuffer, ciaoBuffer, vidxBuffer,
                   depthBuffer1, depthBuffer2, burstRespQueue, burstOpStatus, serving, memory>>

-----------------------------------------------------------------------------
(* The clock edge *)

isBurstReqQueueEmpty == \A i \in Port : burstReqQueue[i] = <<>>
isBurstRespQueueEmpty == \A i \in Port : burstRespQueue[i] = <<>>
StatusEmpty == \A i \in Port : burstOpStatus[i] = 0
InspectionBuffersEmpty == \A p \in Part : depthBuffer0[p] = <<>>

BuffersEmpty == frontierBuffer = <<>> /\ rpaoBuffer = <<>> /\ ciaoBuffer = <<>>
                /\ depthBuffer1 = <<>>

\* (Mutants: each forgets one of the conditions.)
endIgnoringStatus ==
    /\ isBurstReqQueueEmpty /\ isBurstRespQueueEmpty
    /\ InspectionBuffersEmpty /\ BuffersEmpty /\ depthBuffer2 = <<>>
endIgnoringInspection ==
    /\ isBurstReqQueueEmpty /\ isBurstRespQueueEmpty /\ StatusEmpty
    /\ BuffersEmpty /\ depthBuffer2 = <<>>
endIgnoringLabels ==
    /\ isBurstReqQueueEmpty /\ isBurstRespQueueEmpty /\ StatusEmpty
    /\ InspectionBuffersEmpty /\ BuffersEmpty

\* Neither vidxBuffer nor a burst under creation is looked at.
isEndOfBfsIteration ==
    /\ isBurstReqQueueEmpty /\ isBurstRespQueueEmpty /\ StatusEmpty
    /\ InspectionBuffersEmpty /\ BuffersEmpty /\ depthBuffer2 = <<>>

bfsController ==
    LET count == IF localCounter < EndCount THEN localCounter + 1 ELSE localCounter
        ends == isEndOfBfsIteration /\ count = EndCount
    IN  /\ bfsIterationStart' = (count = StartCount)
        /\ localCounter' = IF ends THEN 0 ELSE count
        /\ level' = IF ends THEN Char(level + 1) ELSE level

Tick ==
    /\ ~stopped
    /\ \A t \in Thread : busy[t] > 0
    /\ busy' = [t \in Thread |-> busy[t] - 1]
    /\ bfsController
    /\ UNCHANGED <<inspection, issuing, depthBuffer0, frontierBuffer, rpaoBuffer, ciaoBuffer,
                   vidxBuffer, depthBuffer1, depthBuffer2, burstRespQueue, burstOpStatus,
                   serving, memory, stopped>>

Next ==
    \/ \E p \in Part : inspectDepthReqThread(p) \/ inspectDepthRespThread(p)
    \/ inspectDepthAnalysis
    \/ frontierAnalysis
    \/ processExpandRpaoReadResp
    \/ issueExpandCiaoReadReq
    \/ processExpandCiaoReadResp
    \/ issueExpandDepthReadReq
    \/ processExpandDepthReadResp
    \/ expandDepthAnalysis
    \/ processExpandDepthWriteResp
    \/ sendMemReq
    \/ \E S \in SUBSET Port : getMemResp(S)
    \/ statusMonitor
    \/ Tick

Spec == Init /\ [][Next]_vars

\* The simulation kernel always runs a ready process, and the memory answers
\* every burst it holds.
Answers(i) == \E S \in SUBSET Port : i \in S /\ getMemResp(S)
Fairness == WF_vars(Next) /\ \A i \in Port : SF_vars(Answers(i))
FairSpec == Spec /\ Fairness
=============================================================================
