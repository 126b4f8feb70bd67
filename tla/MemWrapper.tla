------------------------------ MODULE MemWrapper ------------------------------
(***************************************************************************)
(* The memory wrapper (src/src/MemWrapper.h, .cpp) between the PE and the  *)
(* DRAM simulator: bursts come from the PE's clock domain, are cut into    *)
(* basic requests, go through the queues of the memory controller in the   *)
(* memory's clock domain, and are answered per port in order.              *)
(*                                                                         *)
(* Of the controller (Controller.h) only the order of its queues matters:  *)
(* which request it completes next, and when, is left open.                *)
(***************************************************************************)
EXTENDS BurstOp, SequencesExt

CONSTANTS PNUM,         \* number of ports
          None,         \* no burst on a signal: -1
          ReadPort,     \* the ports whose bursts are reads
          Work,         \* per port: the bursts the PE posts, [addr, length]
          Ratio,        \* memory cycles in a PE cycle: 2500 / 625 in sc_main
          QueueMax,     \* Queue::max of the controller
          ReadLatency,  \* cycles between the last command of a read and its data
          TLDRAM        \* the standard is TLDRAM: Controller<TLDRAM>::tick

Port == 0 .. PNUM - 1
Id == UNION {{i} \X (1 .. Len(Work[i])) : i \in Port}

ASSUME WorkAssumption ==
  /\ PNUM \in Nat /\ Ratio \in Nat \ {0} /\ QueueMax \in Nat /\ ReadLatency \in Nat
  /\ Work \in [Port -> Seq([addr : Nat, length : Nat \ {0}])] /\ None \notin Id

InMemClk == "runMemSim"
Thread == {"getBurstReq", "sendBurstResp", InMemClk}

VARIABLES phase, ran,      \* time within the PE cycle, threads that ran at it
          burstReq,        \* signals from the PE: a burst or None
          burstResp,       \* signals to the PE as it reads them,
          respWritten,     \* and as last written, visible in the next cycle
          posted, answered,\* per port: bursts the PE posted, received
          burstReqQueue, burstRespQueue, reqQueue, processedReqNum,
          early,           \* bursts whose departMemTime is still to come
          stalled,         \* run_acc: the request that did not fit, if any
          readq, writeq, pending   \* the controller's queues

peVars == <<posted, answered, burstReq, burstResp>>
controller == <<readq, writeq, pending>>
vars == <<phase, ran, peVars, respWritten, burstReqQueue, burstRespQueue, reqQueue,
          processedReqNum, early, stalled, controller>>

Burst(b) == Work[b[1]][b[2]]
totalReqNum == [b \in Id |-> getReqNum(Burst(b).addr, Burst(b).length)]

Requests == [b \in Id |->
    LET addresses == convertToReq(Burst(b).addr, Burst(b).length)
    IN  [k \in DOMAIN addresses |-> [burst |-> b, addr |-> addresses[k]]]]
IsRead(r) == r.burst[1] \in ReadPort

Init ==
    /\ phase = 0 /\ ran = {}
    /\ burstReq = [i \in Port |-> None] /\ burstResp = [i \in Port |-> None]
    /\ respWritten = [i \in Port |-> None]
    /\ posted = [i \in Port |-> 0] /\ answered = [i \in Port |-> 0]
    /\ burstReqQueue = [i \in Port |-> <<>>] /\ burstRespQueue = [i \in Port |-> <<>>]
    /\ reqQueue = <<>> /\ processedReqNum = [b \in Id |-> 0] /\ early = {}
    /\ stalled = <<>> /\ readq = <<>> /\ writeq = <<>> /\ pending = <<>>

\* Thread t runs up to its next wait.
Turn(t) == t \notin ran /\ ran' = ran \cup {t}

-----------------------------------------------------------------------------
(* The PE's clock domain *)

getBurstReq ==
    /\ phase = 0 /\ Turn("getBurstReq")
    /\ burstReqQueue' = [i \in Port |->
         IF burstReq[i] = None THEN burstReqQueue[i]
         ELSE Append(burstReqQueue[i], burstReq[i])]
    /\ processedReqNum' = [b \in Id |->
         IF b = burstReq[b[1]] THEN 0 ELSE processedReqNum[b]]
    /\ reqQueue' = reqQueue \o FlattenSeq([k \in 1 .. PNUM |->
         IF burstReq[k - 1] = None THEN <<>> ELSE Requests[burstReq[k - 1]]])
    /\ UNCHANGED <<phase, peVars, respWritten, burstRespQueue, early, stalled, controller>>

\* (Mutant: whatever burst is complete is answered.)
FoundAny(i) == burstRespQueue[i] # <<>>

\* The oldest burst of the port is complete.
Found(i) == Contains(burstRespQueue[i], Head(burstReqQueue[i]))

\* (Mutant: a burst that was not found leaves the signal as it is.)
RespKept(i) ==
    IF burstReqQueue[i] = <<>> THEN None
    ELSE IF Found(i) /\ Head(burstReqQueue[i]) \notin early
    THEN Head(burstReqQueue[i]) ELSE respWritten[i]

\* A burst found before its time leaves the signal as it is.
Resp(i) ==
    CASE burstReqQueue[i] = <<>> -> None
      [] burstReqQueue[i] # <<>> /\ ~Found(i) -> None
      [] burstReqQueue[i] # <<>> /\ Found(i) ->
           IF Head(burstReqQueue[i]) \in early THEN respWritten[i]
           ELSE Head(burstReqQueue[i])

sendBurstResp ==
    LET sent == {i \in Port : /\ burstReqQueue[i] # <<>>
                              /\ Found(i)
                              /\ Head(burstReqQueue[i]) \notin early}
    IN  /\ phase = 0 /\ Turn("sendBurstResp")
        /\ respWritten' = [i \in Port |-> Resp(i)]
        /\ burstRespQueue' = [i \in Port |->
             IF i \in sent THEN RemoveFirst(burstRespQueue[i], Head(burstReqQueue[i]))
             ELSE burstRespQueue[i]]
        /\ burstReqQueue' = [i \in Port |->
             IF i \in sent THEN Tail(burstReqQueue[i]) ELSE burstReqQueue[i]]
        /\ UNCHANGED <<phase, peVars, reqQueue, processedReqNum, early, stalled, controller>>

-----------------------------------------------------------------------------
(* The memory's clock domain *)

\* (Mutant: one request too many is waited for.)
CountBeyond(s, b) ==
    LET n == s.processed[b] + 1
    IN  [processed |-> [s.processed EXCEPT ![b] = n],
         found |-> IF n > totalReqNum[b]
                   THEN [s.found EXCEPT ![b[1]] = Append(@, b)] ELSE s.found]

\* A request of burst b was processed: the last one completes the burst.
Count(s, b) ==
    LET n == s.processed[b] + 1
    IN  [processed |-> [s.processed EXCEPT ![b] = n],
         found |-> IF n = totalReqNum[b]
                   THEN [s.found EXCEPT ![b[1]] = Append(@, b)] ELSE s.found]

\* What the controller may complete in a tick: the position of a queued
\* request, or nothing.
Completions == {<<"none", 0>>} \cup ({"read"} \X (1 .. QueueMax))
                           \cup ({"write"} \X (1 .. QueueMax))

\* Memory::tick after the wait of run_acc.  Data is delivered from the front
\* of pending; a read leaves its queue for pending, a write leaves for good.
\* In TLDRAM the callback is called for writes too, and its departure time is
\* computed from Request::depart, which nothing has assigned.
Ticked(choice) ==
    LET moving == [k \in DOMAIN pending |->
                     [pending[k] EXCEPT !.left = IF @ > 0 THEN @ - 1 ELSE 0]]
        served == moving # <<>> /\ Head(moving).left = 0
        waiting == IF served THEN Tail(moving) ELSE moving
        k == choice[2]
        counts0 == [processed |-> processedReqNum, found |-> burstRespQueue]
        counts1 == IF served THEN Count(counts0, Head(moving).burst) ELSE counts0
    IN  [pending |-> IF choice[1] = "read"
                     THEN Append(waiting, [burst |-> readq[k].burst, left |-> ReadLatency])
                     ELSE waiting,
         readq |-> IF choice[1] = "read" THEN RemoveAt(readq, k) ELSE readq,
         writeq |-> IF choice[1] = "write" THEN RemoveAt(writeq, k) ELSE writeq,
         counts |-> IF choice[1] = "write" /\ TLDRAM
                    THEN Count(counts1, writeq[k].burst) ELSE counts1]

\* The completions of this cycle that take their time from a garbage depart.
Unpredictable(choice, counts) ==
    {b \in Id : /\ TLDRAM /\ choice[1] = "write" /\ b = writeq[choice[2]].burst
                /\ counts.processed[b] = totalReqNum[b]}

\* (Mutant: the stalled request is forgotten.)
FreshCandidate == IF reqQueue = <<>> THEN <<>> ELSE <<Head(reqQueue)>>

\* The request run_acc sends: the stalled one, or the next of reqQueue.
Candidate == IF stalled # <<>> \/ reqQueue = <<>> THEN stalled ELSE <<Head(reqQueue)>>

\* (Mutant: the bound of the queue is not looked at.)
Unbounded(queue) == TRUE
Room(queue) == Len(queue) < QueueMax

\* One cycle: tick, then send.  A read of an address with a write still queued
\* bypasses its queue; a write counts as processed as soon as it is accepted.
runMemSim(choice) ==
    LET t == Ticked(choice)
        r == Candidate[1]
        fits == /\ Candidate # <<>>
                /\ Room(IF IsRead(r) THEN t.readq ELSE t.writeq)
        forwarded == IsRead(r) /\ \E k \in DOMAIN t.writeq : t.writeq[k].addr = r.addr
    IN  /\ choice[1] = "read" => choice[2] \in DOMAIN readq
        /\ choice[1] = "write" => choice[2] \in DOMAIN writeq
        /\ Turn(InMemClk)
        /\ reqQueue' = IF stalled = <<>> /\ reqQueue # <<>> THEN Tail(reqQueue) ELSE reqQueue
        /\ stalled' = IF fits THEN <<>> ELSE Candidate
        /\ readq' = IF fits /\ IsRead(r) /\ ~forwarded THEN Append(t.readq, r) ELSE t.readq
        /\ pending' = IF fits /\ forwarded
                      THEN Append(t.pending, [burst |-> r.burst, left |-> 1]) ELSE t.pending
        /\ writeq' = IF fits /\ ~IsRead(r) THEN Append(t.writeq, r) ELSE t.writeq
        /\ \E garbage \in SUBSET Unpredictable(choice, t.counts) :
             early' = early \cup garbage
        /\ LET counts == IF fits /\ ~IsRead(r) THEN Count(t.counts, r.burst) ELSE t.counts
           IN  processedReqNum' = counts.processed /\ burstRespQueue' = counts.found
        /\ UNCHANGED <<phase, peVars, respWritten, burstReqQueue>>

-----------------------------------------------------------------------------
(* Time *)

Ran == IF phase = 0 THEN Thread ELSE {InMemClk}

\* The next memory cycle begins; at the end of a PE cycle the PE has received
\* the responses it saw, posted a burst at each port of P, and what was
\* written to the signals becomes visible.
Advance(P) ==
    /\ ran = Ran /\ ran' = {}
    /\ phase' = (phase + 1) % Ratio
    /\ IF phase = 0
       THEN /\ \A i \in P : posted[i] < Len(Work[i])
            /\ posted' = [i \in Port |-> IF i \in P THEN posted[i] + 1 ELSE posted[i]]
            /\ burstReq' = [i \in Port |-> IF i \in P THEN <<i, posted[i] + 1>> ELSE None]
            /\ answered' = [i \in Port |->
                 IF burstResp[i] = None THEN answered[i] ELSE answered[i] + 1]
            /\ burstResp' = respWritten
       ELSE P = {} /\ UNCHANGED peVars
    /\ \E past \in SUBSET early : early' = early \ past
    /\ UNCHANGED <<respWritten, burstReqQueue, burstRespQueue, reqQueue, processedReqNum,
                   stalled, controller>>

Next ==
    \/ getBurstReq
    \/ sendBurstResp
    \/ \E choice \in Completions : runMemSim(choice)
    \/ \E P \in SUBSET Port : Advance(P)

Spec == Init /\ [][Next]_vars

\* The simulation kernel always advances, the controller completes the
\* requests of both its queues, and the PE posts what it has to post.
Completes(kind) == \E k \in 1 .. QueueMax : runMemSim(<<kind, k>>)
Fairness == /\ WF_vars(Next)
            /\ SF_vars(Completes("read")) /\ SF_vars(Completes("write"))
FairSpec == Spec /\ Fairness

-----------------------------------------------------------------------------
(* Properties *)

MaybeBurst(i) == {None} \cup ({i} \X (1 .. Len(Work[i])))

\* The types of the queues and signals; the controller's queues keep their bound.
TypeOK ==
    /\ phase \in 0 .. Ratio - 1 /\ ran \subseteq Thread
    /\ \A i \in Port :
         /\ {burstReq[i], burstResp[i], respWritten[i]} \subseteq MaybeBurst(i)
         /\ 0 <= answered[i] /\ answered[i] <= posted[i] /\ posted[i] <= Len(Work[i])
         /\ ToSet(burstReqQueue[i]) \cup ToSet(burstRespQueue[i]) \subseteq MaybeBurst(i)
    /\ \A b \in Id : 0 <= processedReqNum[b] /\ processedReqNum[b] <= totalReqNum[b]
    /\ Len(stalled) <= 1
    /\ Len(readq) <= QueueMax /\ Len(writeq) <= QueueMax

Unprocessed(b) ==
    Cardinality({k \in DOMAIN reqQueue : reqQueue[k].burst = b})
    + Cardinality({k \in DOMAIN stalled : stalled[k].burst = b})
    + Cardinality({k \in DOMAIN readq : readq[k].burst = b})
    + Cardinality({k \in DOMAIN pending : pending[k].burst = b})

\* No burst is answered while the memory still works on it: neither a count
\* made twice nor a burst found under another's name lets one through.
NoEarlyAnswer ==
    \A i \in Port : \A b \in {burstResp[i], respWritten[i]} \ {None} : Unprocessed(b) = 0

\* From getBurstReq to its response, every basic request of a burst is in
\* exactly one queue until it is counted, through stalls, out-of-order service
\* and forwarding; and the burst is found complete exactly when none is left.
EveryRequestCounted ==
    \A i \in Port : \A b \in ToSet(burstReqQueue[i]) :
        /\ processedReqNum[b] + Unprocessed(b) = totalReqNum[b]
        /\ Contains(burstRespQueue[i], b) <=> Unprocessed(b) = 0

\* "The memory response will be sent in the same order with its incoming
\* order" (sendBurstResp): the burst the PE sees is the next one of its port.
ResponsesInOrder ==
    \A i \in Port : burstResp[i] # None => burstResp[i] = <<i, answered[i] + 1>>

\* Towards the PE the wrapper is a first-in first-out memory per port: the one
\* the model of the PE is built on.
Outstanding(i) ==
    LET first == answered[i] + (IF burstResp[i] = None THEN 1 ELSE 2)
    IN  [k \in 1 .. posted[i] - first + 1 |-> <<i, first + k - 1>>]
PeMem == INSTANCE PortMemory WITH mem <- [i \in Port |-> Outstanding(i)], response <- burstResp
ServesThePe == PeMem!Spec

\* Every burst posted is answered: what the PE's threads wait for.
AllAnswered == \A b \in Id : posted[b[1]] >= b[2] ~> answered[b[1]] >= b[2]
=============================================================================
