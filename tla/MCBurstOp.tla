------------------------------ MODULE MCBurstOp ------------------------------
(* Every small burst, before and after it is cut into requests, the places its  *)
(* requests go to in the DRAM, and the arrays it is read from.                  *)
EXTENDS BurstOp, AddressMapping

CONSTANTS Addrs, Lengths, Graphs
\* Graphs are pairs of the numbers of vertices and edges.
ASSUME BurstsAssumption == Addrs \subseteq Nat /\ Lengths \subseteq Nat \ {0} /\ Graphs \subseteq Nat \X Nat

SmallAddrs == 0 .. 40
SmallLengths == 1 .. 20

\* Two channels of two banks of two rows of two bursts.
SmallOrganization == <<2, 1, 2, 2, 16>>
\* Vertices and edges, around the alignment of the arrays.
SmallGraphs == {<<1, 0>>, <<64, 64>>, <<255, 671>>, <<256, 673>>, <<257, 675>>}

VARIABLES addr, length, addresses, reqQueue,
          graph    \* GL::vertexNum and GL::edgeNum

burstVars == <<addr, length, addresses, reqQueue, graph>>

BurstInit == /\ addr \in Addrs /\ length \in Lengths /\ graph \in Graphs
             /\ addresses = <<>> /\ reqQueue = <<>>

\* The constructor and updateAddrVec, called by createReadBurstReq.
Create == /\ addresses = <<>>
          /\ addresses' = addrVec(addr, length)
          /\ UNCHANGED <<addr, length, graph, reqQueue>>

\* MemWrapper::getBurstReq cuts the burst.
Convert == /\ addresses # <<>> /\ reqQueue = <<>>
           /\ reqQueue' = convertToReq(addr, length)
           /\ UNCHANGED <<addr, length, graph, addresses>>

BurstNext == Create \/ Convert
BurstSpec == BurstInit /\ [][BurstNext]_burstVars

Covered(a) == {a + k : k \in 0 .. burstLen - 1}
Bytes == {addr + k : k \in 0 .. length - 1}

\* getReqNum and updateAddrVec, two separate computations, agree: convertToReq
\* neither reads past addrVec nor leaves an address out, for the response is
\* sent when getReqNum requests were processed.
RequestsMatch == addresses # <<>> => Len(addresses) = getReqNum(addr, length)

\* The requests cover the bytes of the burst, and no two of them the same
\* byte, wherever the burst starts: what updateAddrVec is for. A request that
\* moves no byte of it can only be the first, where the alignment, coarser than
\* a request, starts too early.
BurstCovered ==
    reqQueue # <<>> =>
      /\ Bytes \subseteq UNION {Covered(reqQueue[i]) : i \in DOMAIN reqQueue}
      /\ \A i, j \in DOMAIN reqQueue : i < j => reqQueue[i] + burstLen <= reqQueue[j]
      /\ \A i \in DOMAIN reqQueue :
            Covered(reqQueue[i]) \cap Bytes = {} => i = 1 /\ getOffset(addr) >= burstLen

\* A request goes to a place that exists, and to that of another address only if
\* this asks for the same transaction: for either mapping, up to the capacity
\* (max_address), over sizes that are powers of two.
Transactions == {tx * k : k \in 0 .. (max_address \div tx) - 1}
PlacesDistinct ==
    \A t \in type, i \in DOMAIN reqQueue, b \in Transactions :
        LET a == reqQueue[i] IN
          /\ send(t, a) = send(t, b) <=> a \div tx = b \div tx
          /\ \A l \in DOMAIN count : send(t, a)[l] < count[l]

\* The arrays of a graph do not overlap, and they fit in ramData if the graph has
\* two edges per vertex and 161 more; those of a sparser one may not.
ArraysApart ==
    LET base == ramInit(graph[1], graph[2])
        end(i) == base[i] + Sizes(graph[1], graph[2])[i]
    IN  /\ \A i, j \in DOMAIN base : i < j => end(i) <= base[j]
        /\ graph[2] >= 2 * graph[1] + 161 => end(6) <= ramDataSize(graph[2])
=============================================================================
