-------------------------- MODULE MemWrapper_proofs --------------------------
(* The memory wrapper over any controller that calls back once per request,    *)
(* whatever the ports, bursts, queue bounds and delays: every request is        *)
(* counted once, no burst is answered early, and towards the PE the wrapper is  *)
(* a first-in first-out memory per port. TLDRAM, which calls back twice, is     *)
(* excepted in the hypothesis of each theorem (see the run mem_tldram).         *)
EXTENDS MemWrapper, ListTheorems

-----------------------------------------------------------------------------
(* The invariant *)

\* Bursts of a port that were answered, or are being; that were answered to the
\* signal; that were read from the signal.
Written == "sendBurstResp" \in ran
Seen(i) == answered[i] + (IF burstResp[i] = None THEN 0 ELSE 1)
Sent == [i \in Port |-> Seen(i) + (IF Written /\ respWritten[i] # None THEN 1 ELSE 0)]
Received == [i \in Port |->
    IF burstReq[i] # None /\ "getBurstReq" \notin ran THEN posted[i] - 1 ELSE posted[i]]

\* Between two memory cycles of a PE cycle only the memory's thread runs; a signal
\* that was not written shows what it was given last.
SignalInv ==
    /\ phase \in 0 .. Ratio - 1 /\ ran \subseteq Ran
    /\ posted \in [Port -> Nat] /\ answered \in [Port -> Nat]
    /\ {burstReq, burstResp, respWritten} \subseteq [Port -> Id \cup {None}]
    /\ \A i \in Port :
         /\ posted[i] <= Len(Work[i])
         /\ burstReq[i] # None => burstReq[i] = <<i, posted[i]>>
         /\ burstResp[i] # None => burstResp[i] = <<i, answered[i] + 1>>
         /\ ~Written => respWritten[i] = burstResp[i]
         /\ Written /\ respWritten[i] # None => respWritten[i] = <<i, Seen(i) + 1>>
         /\ Sent[i] <= Received[i]

\* The bursts of a port wait for their answers in the order they were posted.
OrderInv ==
    /\ burstReqQueue \in [Port -> Seq(Id)]
    /\ \A i \in Port :
         /\ Len(burstReqQueue[i]) = Received[i] - Sent[i]
         /\ \A k \in DOMAIN burstReqQueue[i] : burstReqQueue[i][k] = <<i, Sent[i] + k>>

\* What the memory holds is requests, within the bounds of the controller.
Req == UNION {{Requests[b][k] : k \in DOMAIN Requests[b]} : b \in Id}
Waiting == [burst : Id, left : Nat]
Item == Req \cup Waiting
MemoryInv ==
    /\ {reqQueue, stalled, readq, writeq} \subseteq Seq(Req)
    /\ pending \in Seq(Waiting)
    /\ Len(stalled) <= 1 /\ Len(readq) <= QueueMax /\ Len(writeq) <= QueueMax
    /\ early = {}

\* The requests of burst b in a queue, and all that were not processed.
Of(b) == {r \in Item : r.burst = b}
LeftOf(fresh, stuck, reads, answers) ==
    [b \in Id |-> Tally(fresh, Of(b)) + Tally(stuck, Of(b)) + Tally(reads, Of(b)) + Tally(answers, Of(b))]
Left == LeftOf(reqQueue, stalled, readq, pending)

\* The counts fit what is left of each burst: those before lo were sent,
\* those after hi are still to come, and a port knows the complete ones between.
Accounted(processed, found, left, lo, hi) ==
    /\ processed \in [Id -> Nat] /\ left \in [Id -> Nat] /\ found \in [Port -> Seq(Id)]
    /\ \A b \in Id :
         /\ b[2] <= hi[b[1]] => processed[b] + left[b] = totalReqNum[b]
         /\ b[2] > hi[b[1]] => processed[b] = 0 /\ left[b] = 0
         /\ b[2] <= lo[b[1]] => left[b] = 0
    /\ \A i \in Port : \A b \in Id :
         Contains(found[i], b) <=> b[1] = i /\ lo[i] < b[2] /\ b[2] <= hi[i] /\ left[b] = 0
    /\ \A i \in Port : \A j, k \in DOMAIN found[i] : found[i][j] = found[i][k] => j = k

CountInv == Accounted(processedReqNum, burstRespQueue, Left, Sent, Received)
WrapperInv == SignalInv /\ OrderInv /\ MemoryInv /\ CountInv

-----------------------------------------------------------------------------
(* Bursts and their requests *)

\* A burst is the number of a port and a place among the bursts posted there.
LEMMA Ids ==
    /\ \A b \in Id : b[1] \in Port /\ b[2] \in 1 .. Len(Work[b[1]]) /\ b = <<b[1], b[2]>>
    /\ \A i \in Port : \A k \in 1 .. Len(Work[i]) : <<i, k>> \in Id
    /\ \A i \in Port : Len(Work[i]) \in Nat
    /\ \A b \in Id : Burst(b) \in [addr : Nat, length : Nat \ {0}]
  <1>1. \A i \in Port : Work[i] \in Seq([addr : Nat, length : Nat \ {0}])
    BY WorkAssumption
  <1>2. ASSUME NEW b \in Id PROVE b[1] \in Port /\ b[2] \in 1 .. Len(Work[b[1]]) /\ b = <<b[1], b[2]>>
    <2>1. PICK i \in Port : b \in {i} \X (1 .. Len(Work[i]))
      BY DEF Id
    <2> QED BY <2>1
  <1>3. ASSUME NEW i \in Port, NEW k \in 1 .. Len(Work[i]) PROVE <<i, k>> \in Id
    <2>1. <<i, k>> \in {i} \X (1 .. Len(Work[i]))
      OBVIOUS
    <2> QED BY <2>1 DEF Id
  <1>4. ASSUME NEW b \in Id PROVE Burst(b) \in [addr : Nat, length : Nat \ {0}]
    <2> DEFINE X == [addr : Nat, length : Nat \ {0}]
    <2>1. Work[b[1]] \in Seq(X) /\ b[2] \in 1 .. Len(Work[b[1]])
      BY <1>1, <1>2
    <2> HIDE DEF X
    <2>2. Work[b[1]][b[2]] \in X
      BY <2>1
    <2> QED BY <2>2 DEF Burst, X
  <1> QED BY <1>1, <1>2, <1>3, <1>4

\* Every burst takes a request at least: none is complete before it was received.
LEMMA Positive == ASSUME NEW a \in Nat, NEW n \in Nat \ {0} PROVE getReqNum(a, n) \in Nat \ {0}
  <1>1. burstLen \in Nat \ {0} /\ Power[getBurstAddrWidth] \in Nat \ {0}
    <2>1. MaxWidth + 1 \in Nat /\ MaxWidth \in Nat
      BY BurstAssumption
    <2>2. Power = CHOOSE p : DoublingFrom(p, MaxWidth + 1)
      BY DEF Power, DoublingFrom
    <2>3. \A k \in 0 .. MaxWidth + 1 : Power[k] \in Nat \ {0}
      BY <2>1, <2>2, Doubling, Zenon
    <2> DEFINE width == CHOOSE k \in 0 .. MaxWidth : burstLen = Power[k]
    <2>4. width \in 0 .. MaxWidth /\ burstLen = Power[width]
      BY BurstAssumption
    <2>5. getBurstAddrWidth = 1 + width
      BY DEF getBurstAddrWidth
    <2> HIDE DEF width
    <2>6. width \in 0 .. MaxWidth + 1 /\ 1 + width \in 0 .. MaxWidth + 1
      BY <2>1, <2>4
    <2> QED BY <2>3, <2>4, <2>5, <2>6
  <1>2. ASSUME NEW m \in Nat \ {0} PROVE Pieces(m) \in Nat \ {0}
    <2> DEFINE d == m \div burstLen
               r == m % burstLen
    <2>1. d \in Nat /\ r \in 0 .. burstLen - 1 /\ m = burstLen * d + r
      BY <1>1, Division
    <2>2. Pieces(m) = IF r = 0 THEN d ELSE d + 1
      BY DEF Pieces
    <2> HIDE DEF d, r
    <2>3. d = 0 => burstLen * d = 0
      BY <1>1
    <2>4. r = 0 => d # 0
      BY <1>1, <2>1, <2>3
    <2> QED BY <2>1, <2>2, <2>4
  <1>3. getOffset(a) \in Int
    <2> DEFINE m == Power[getBurstAddrWidth]
               d == a \div m
    <2>1. getOffset(a) = a - d * m
      BY DEF getOffset, getAlignedAddr
    <2>2. d \in Nat /\ m \in Nat
      BY <1>1, Division
    <2> HIDE DEF d, m
    <2>3. d * m \in Nat
      BY <2>2
    <2> QED BY <2>1, <2>3
  <1> DEFINE off == getOffset(a)
             rest == n - (burstLen - off)
  <1>4. CASE off = 0
    BY <1>2, <1>4 DEF getReqNum
  <1>5. CASE off # 0 /\ n > burstLen - off
    <2>1. rest \in Nat \ {0}
      <3> HIDE DEF off
      <3> QED BY <1>1, <1>3, <1>5 DEF off
    <2>2. Pieces(rest) \in Nat \ {0} /\ getReqNum(a, n) = 1 + Pieces(rest)
      <3>1. getReqNum(a, n) = 1 + Pieces(rest)
        BY <1>5 DEF getReqNum
      <3> HIDE DEF rest
      <3> QED BY <1>2, <2>1, <3>1
    <2> QED BY <2>2
  <1>6. CASE off # 0 /\ ~(n > burstLen - off)
    BY <1>6 DEF getReqNum
  <1> QED BY <1>4, <1>5, <1>6

LEMMA Cutting ==
    /\ totalReqNum \in [Id -> Nat \ {0}]
    /\ \A b \in Id : /\ Requests[b] \in Seq(Req) /\ Len(Requests[b]) = totalReqNum[b]
                     /\ \A k \in 1 .. Len(Requests[b]) : Requests[b][k].burst = b
    /\ \A r \in Req : r.burst \in Id
  <1>1. \A b \in Id : getReqNum(Burst(b).addr, Burst(b).length) \in Nat \ {0}
    <2> SUFFICES ASSUME NEW b \in Id PROVE getReqNum(Burst(b).addr, Burst(b).length) \in Nat \ {0}
      OBVIOUS
    <2>1. Burst(b).addr \in Nat /\ Burst(b).length \in Nat \ {0}
      BY Ids
    <2> QED BY <2>1, Positive
  <1>2. totalReqNum \in [Id -> Nat \ {0}]
    BY <1>1 DEF totalReqNum
  <1> DEFINE cut(b) == convertToReq(Burst(b).addr, Burst(b).length)
             req(b, k) == [burst |-> b, addr |-> cut(b)[k]]
  <1>3. \A b \in Id : DOMAIN cut(b) = 1 .. totalReqNum[b]
    BY DEF convertToReq, totalReqNum
  <1>4. \A b \in Id : Requests[b] = [k \in 1 .. totalReqNum[b] |-> req(b, k)]
    <2>1. \A b \in Id : Requests[b] = [k \in DOMAIN cut(b) |-> req(b, k)]
      BY DEF Requests
    <2> HIDE DEF cut
    <2> QED BY <1>3, <2>1
  <1> HIDE DEF cut
  <1>5. ASSUME NEW b \in Id
        PROVE  /\ Requests[b] \in Seq(Req) /\ Len(Requests[b]) = totalReqNum[b] /\ DOMAIN Requests[b] = 1 .. totalReqNum[b]
               /\ \A k \in 1 .. Len(Requests[b]) : Requests[b][k].burst = b
    <2>1. totalReqNum[b] \in Nat
      BY <1>2
    <2>2. Requests[b] = [k \in 1 .. totalReqNum[b] |-> req(b, k)]
      BY <1>4
    <2>3. DOMAIN Requests[b] = 1 .. totalReqNum[b] /\ \A k \in 1 .. totalReqNum[b] : Requests[b][k] = req(b, k)
      BY <2>2
    <2>4. \A k \in 1 .. totalReqNum[b] : req(b, k) \in Req
      <3>1. ASSUME NEW k \in 1 .. totalReqNum[b] PROVE Requests[b][k] \in Req
        <4>1. Requests[b][k] \in {Requests[b][j] : j \in DOMAIN Requests[b]}
          BY <2>3
        <4> QED BY <4>1, Zenon DEF Req
      <3> HIDE DEF req
      <3> QED BY <2>3, <3>1
    <2> DEFINE s == Requests[b]
               x(k) == req(b, k)
    <2>5. s \in Seq(Req) /\ Len(s) = totalReqNum[b]
      <3>1. s = [k \in 1 .. totalReqNum[b] |-> x(k)] /\ \A k \in 1 .. totalReqNum[b] : x(k) \in Req
        BY <2>2, <2>4
      <3> HIDE DEF s, x
      <3> QED BY <2>1, <3>1
    <2>6. \A k \in 1 .. totalReqNum[b] : req(b, k).burst = b
      OBVIOUS
    <2> HIDE DEF req
    <2> QED BY <2>3, <2>5, <2>6
  <1>6. ASSUME NEW r \in Req PROVE r.burst \in Id
    <2>1. PICK b \in Id : \E k \in DOMAIN Requests[b] : r = Requests[b][k]
      BY DEF Req
    <2> QED BY <1>5, <2>1
  <1> QED BY <1>2, <1>5, <1>6

-----------------------------------------------------------------------------
(* Counting *)

\* What is appended to a list without repetition and was not there keeps it so.
LEMMA AppendedOnce ==
    ASSUME NEW X, NEW s \in Seq(X), NEW x \in X,
           \A j, k \in DOMAIN s : s[j] = s[k] => j = k, ~Contains(s, x)
    PROVE  /\ \A j, k \in DOMAIN Append(s, x) : Append(s, x)[j] = Append(s, x)[k] => j = k
           /\ \A y : Contains(Append(s, x), y) <=> Contains(s, y) \/ y = x
  <1> DEFINE t == Append(s, x)
             m == Len(s) + 1
  <1>1. /\ Len(t) = m /\ DOMAIN t = DOMAIN s \cup {m} /\ DOMAIN s = 1 .. Len(s)
        /\ m \notin DOMAIN s /\ t[m] = x /\ DOMAIN t = 1 .. Len(t) /\ \A i \in DOMAIN s : t[i] = s[i]
    <2>1. /\ t \in Seq(X) /\ Len(t) = m /\ Len(s) \in Nat /\ DOMAIN t = DOMAIN s \cup {m} /\ t[m] = x
          /\ \A i \in DOMAIN s : t[i] = s[i] /\ i # m
      BY Pushed
    <2>2. DOMAIN s = 1 .. Len(s) /\ DOMAIN t = 1 .. Len(t)
      BY <2>1
    <2> HIDE DEF t, m
    <2> QED BY <2>1, <2>2
  <1>2. \A i \in DOMAIN s : s[i] # x
    BY <1>1 DEF Contains
  <1> HIDE DEF t, m
  <1>3. \A j, k \in DOMAIN t : t[j] = t[k] => j = k
    BY <1>1, <1>2
  <1>4. \A y : Contains(t, y) <=> Contains(s, y) \/ y = x
    BY <1>1 DEF Contains
  <1> QED BY <1>3, <1>4 DEF t

\* The callback for a request of burst b, or the acceptance of a write: one fewer
\* is left, and the last one completes the burst.
LEMMA CountKeeps ==
    ASSUME NEW processed, NEW found, NEW left, NEW lo \in [Port -> Int], NEW hi \in [Port -> Int],
           Accounted(processed, found, left, lo, hi), NEW b \in Id, left[b] > 0,
           NEW s, s = [processed |-> processed, found |-> found]
    PROVE  /\ Count(s, b) = [processed |-> Count(s, b).processed, found |-> Count(s, b).found]
           /\ Accounted(Count(s, b).processed, Count(s, b).found, [left EXCEPT ![b] = @ - 1], lo, hi)
  <1> DEFINE p == b[1]
             n == processed[b] + 1
             processed1 == [processed EXCEPT ![b] = n]
             found1 == IF n = totalReqNum[b] THEN [found EXCEPT ![p] = Append(@, b)] ELSE found
             left1 == [left EXCEPT ![b] = @ - 1]
  <1>1. Count(s, b) = [processed |-> processed1, found |-> found1]
    BY DEF Count
  <1>2. /\ processed \in [Id -> Nat] /\ left \in [Id -> Nat] /\ found \in [Port -> Seq(Id)]
        /\ \A c \in Id : /\ c[2] <= hi[c[1]] => processed[c] + left[c] = totalReqNum[c]
                         /\ c[2] > hi[c[1]] => processed[c] = 0 /\ left[c] = 0
                         /\ c[2] <= lo[c[1]] => left[c] = 0
        /\ \A i \in Port : \A c \in Id :
             Contains(found[i], c) <=> c[1] = i /\ lo[i] < c[2] /\ c[2] <= hi[i] /\ left[c] = 0
        /\ \A i \in Port : \A j, k \in DOMAIN found[i] : found[i][j] = found[i][k] => j = k
    BY DEF Accounted
  <1>3. /\ p \in Port /\ b[2] \in Int /\ totalReqNum \in [Id -> Nat \ {0}]
        /\ \A c \in Id : c[1] \in Port /\ c[2] \in Int
    BY Ids, Cutting
  <1>4. /\ processed1 \in [Id -> Nat] /\ left1 \in [Id -> Nat] /\ n = processed[b] + 1
        /\ processed1[b] = n /\ left1[b] = left[b] - 1
        /\ \A c \in Id : c # b => processed1[c] = processed[c] /\ left1[c] = left[c]
    BY <1>2
  <1>5. lo[p] < b[2] /\ b[2] <= hi[p] /\ processed[b] + left[b] = totalReqNum[b] /\ left[b] \in Nat
    <2>1. lo[p] \in Int /\ hi[p] \in Int /\ left[b] \in Nat
      BY <1>2, <1>3
    <2>2. /\ b[2] <= hi[p] => processed[b] + left[b] = totalReqNum[b]
          /\ b[2] > hi[p] => left[b] = 0
          /\ b[2] <= lo[p] => left[b] = 0
      BY <1>2
    <2> HIDE DEF p
    <2> QED BY <1>3, <2>1, <2>2
  <1>6. n = totalReqNum[b] <=> left1[b] = 0
    <2>1. processed[b] \in Nat /\ totalReqNum[b] \in Nat
      BY <1>2, <1>3
    <2> QED BY <1>4, <1>5, <2>1
  <1>7. \A c \in Id : /\ c[2] <= hi[c[1]] => processed1[c] + left1[c] = totalReqNum[c]
                      /\ c[2] > hi[c[1]] => processed1[c] = 0 /\ left1[c] = 0
                      /\ c[2] <= lo[c[1]] => left1[c] = 0
    <2> SUFFICES ASSUME NEW c \in Id
                 PROVE  /\ c[2] <= hi[c[1]] => processed1[c] + left1[c] = totalReqNum[c]
                        /\ c[2] > hi[c[1]] => processed1[c] = 0 /\ left1[c] = 0
                        /\ c[2] <= lo[c[1]] => left1[c] = 0
      OBVIOUS
    <2> HIDE DEF processed1, left1, n
    <2>1. CASE c # b
      BY <1>2, <1>4, <2>1
    <2>2. CASE c = b
      <3>1. processed[b] \in Nat /\ totalReqNum[b] \in Nat /\ hi[p] \in Int /\ lo[p] \in Int
        BY <1>2, <1>3
      <3> QED BY <1>3, <1>4, <1>5, <2>2, <3>1
    <2> QED BY <2>1, <2>2
  <1> HIDE DEF processed1, left1, n
  <1>8. /\ found1 \in [Port -> Seq(Id)]
        /\ \A i \in Port : \A j, k \in DOMAIN found1[i] : found1[i][j] = found1[i][k] => j = k
        /\ \A i \in Port : \A c \in Id :
             Contains(found1[i], c) <=> c[1] = i /\ lo[i] < c[2] /\ c[2] <= hi[i] /\ left1[c] = 0
    <2>1. CASE left1[b] # 0
      <3>1. found1 = found
        BY <1>6, <2>1
      <3>2. \A c \in Id : left1[c] = 0 <=> left[c] = 0
        <4>1. left[b] # 0
          BY <1>5
        <4> QED BY <1>4, <2>1, <4>1, Zenon
      <3> HIDE DEF found1
      <3> QED BY <1>2, <3>1, <3>2
    <2>2. CASE left1[b] = 0
      <3> DEFINE q == found[p]
                 t == Append(q, b)
      <3>1. found1 = [found EXCEPT ![p] = t]
        BY <1>6, <2>2
      <3>2. q \in Seq(Id)
        BY <1>2, <1>3
      <3>3. ~Contains(q, b)
        BY <1>2, <1>3
      <3>4. \A j, k \in DOMAIN q : q[j] = q[k] => j = k
        BY <1>2, <1>3
      <3> HIDE DEF q
      <3>5. /\ \A j, k \in DOMAIN t : t[j] = t[k] => j = k
            /\ \A y : Contains(t, y) <=> Contains(q, y) \/ y = b
            /\ t \in Seq(Id)
        BY <3>2, <3>3, <3>4, AppendedOnce
      <3> HIDE DEF t
      <3>6. found1 \in [Port -> Seq(Id)] /\ found1[p] = t /\ \A i \in Port : i # p => found1[i] = found[i]
        <4> DEFINE Lists == Seq(Id)
        <4>1. found \in [Port -> Lists] /\ t \in Lists
          BY <1>2, <3>5
        <4> HIDE DEF Lists, p, found1
        <4>2. found1 \in [Port -> Lists] /\ found1[p] = t /\ \A i \in Port : i # p => found1[i] = found[i]
          BY <1>3, <3>1, <4>1
        <4> QED BY <4>2 DEF Lists
      <3> HIDE DEF found1
      <3>7. ASSUME NEW i \in Port, NEW c \in Id
            PROVE  Contains(found1[i], c) <=> c[1] = i /\ lo[i] < c[2] /\ c[2] <= hi[i] /\ left1[c] = 0
        <4>1. Contains(found[i], c) <=> c[1] = i /\ lo[i] < c[2] /\ c[2] <= hi[i] /\ left[c] = 0
          BY <1>2
        <4>2. CASE i # p
          <5>1. found1[i] = found[i] /\ (c[1] = i => c # b)
            BY <3>6, <4>2
          <5> QED BY <1>4, <4>1, <5>1
        <4>3. CASE i = p /\ c = b
          <5>1. Contains(found1[i], c)
            BY <3>5, <3>6, <4>3
          <5> QED BY <1>5, <2>2, <4>3, <5>1
        <4>4. CASE i = p /\ c # b
          <5>1. Contains(found1[i], c) <=> Contains(found[i], c)
            BY <3>5, <3>6, <4>4 DEF q
          <5> QED BY <1>4, <4>1, <4>4, <5>1
        <4> QED BY <4>2, <4>3, <4>4
      <3>8. ASSUME NEW i \in Port PROVE \A j, k \in DOMAIN found1[i] : found1[i][j] = found1[i][k] => j = k
        <4>1. CASE i = p
          BY <3>5, <3>6, <4>1
        <4>2. CASE i # p
          BY <1>2, <3>6, <4>2
        <4> QED BY <4>1, <4>2
      <3> QED BY <3>6, <3>7, <3>8
    <2> QED BY <2>1, <2>2
  <1> HIDE DEF found1
  <1>9. Accounted(processed1, found1, left1, lo, hi)
    BY <1>4, <1>7, <1>8, Zenon DEF Accounted
  <1> QED BY <1>1, <1>9 DEF left1

-----------------------------------------------------------------------------
(* Queues *)

LEMMA Items ==
    /\ \A q : q \in Seq(Req) => q \in Seq(Item)
    /\ \A q : q \in Seq(Waiting) => q \in Seq(Item)
    /\ \A x \in Item : x.burst \in Id /\ \A b : x \in Of(b) <=> x.burst = b
  <1>1. Req \subseteq Item /\ Waiting \subseteq Item
    BY DEF Item
  <1>2. (\A q : q \in Seq(Req) => q \in Seq(Item)) /\ \A q : q \in Seq(Waiting) => q \in Seq(Item)
    BY <1>1
  <1>3. \A x \in Item : x.burst \in Id
    BY Cutting DEF Item, Waiting
  <1>4. \A x \in Item : \A b : x \in Of(b) <=> x.burst = b
    BY DEF Of
  <1> QED BY <1>2, <1>3, <1>4

\* What is left of a burst is in four places.
SumOf(left, fresh, stuck, reads, answers) ==
    \A b \in Id :
      /\ Tally(fresh, Of(b)) \in Nat /\ Tally(stuck, Of(b)) \in Nat
      /\ Tally(reads, Of(b)) \in Nat /\ Tally(answers, Of(b)) \in Nat
      /\ left[b] = Tally(fresh, Of(b)) + Tally(stuck, Of(b)) + Tally(reads, Of(b)) + Tally(answers, Of(b))

LEMMA LeftTyped ==
    ASSUME NEW fresh \in Seq(Item), NEW stuck \in Seq(Item), NEW reads \in Seq(Item), NEW answers \in Seq(Item)
    PROVE  /\ LeftOf(fresh, stuck, reads, answers) \in [Id -> Nat]
           /\ SumOf(LeftOf(fresh, stuck, reads, answers), fresh, stuck, reads, answers)
  <1>1. ASSUME NEW b \in Id, NEW q \in Seq(Item) PROVE Tally(q, Of(b)) \in Nat
    <2> DEFINE F == Of(b)
    <2> HIDE DEF F
    <2>1. Tally(q, F) \in Nat
      BY <1>1, TallyType
    <2> QED BY <2>1 DEF F
  <1>2. ASSUME NEW b \in Id
        PROVE  /\ Tally(fresh, Of(b)) \in Nat /\ Tally(stuck, Of(b)) \in Nat
               /\ Tally(reads, Of(b)) \in Nat /\ Tally(answers, Of(b)) \in Nat
               /\ Tally(fresh, Of(b)) + Tally(stuck, Of(b)) + Tally(reads, Of(b)) + Tally(answers, Of(b)) \in Nat
    <2>1. Tally(fresh, Of(b)) \in Nat /\ Tally(stuck, Of(b)) \in Nat
      BY <1>1
    <2>2. Tally(reads, Of(b)) \in Nat /\ Tally(answers, Of(b)) \in Nat
      BY <1>1
    <2>3. \A w, x, y, z \in Nat : w + x + y + z \in Nat
      OBVIOUS
    <2> QED BY <2>1, <2>2, <2>3, Zenon
  <1> QED BY <1>2 DEF LeftOf, SumOf

\* What the property calls unprocessed is what is left.
LEMMA LeftIsUnprocessed == ASSUME MemoryInv, NEW b \in Id PROVE Left[b] = Unprocessed(b)
  <1>1. reqQueue \in Seq(Item) /\ stalled \in Seq(Item) /\ readq \in Seq(Item) /\ pending \in Seq(Item)
    BY Items DEF MemoryInv
  <1>2. ASSUME NEW q \in Seq(Item) PROVE Tally(q, Of(b)) = Cardinality({k \in DOMAIN q : q[k].burst = b})
    <2>1. \A k \in DOMAIN q : q[k] \in Item
      BY <1>2
    <2>2. \A k \in DOMAIN q : q[k] \in Of(b) <=> q[k].burst = b
      BY Items, <2>1
    <2>3. Places(q, Of(b)) = {k \in DOMAIN q : q[k].burst = b}
      BY <2>2 DEF Places
    <2> QED BY <2>3 DEF Tally
  <1>3. /\ Tally(reqQueue, Of(b)) = Cardinality({k \in DOMAIN reqQueue : reqQueue[k].burst = b})
        /\ Tally(stalled, Of(b)) = Cardinality({k \in DOMAIN stalled : stalled[k].burst = b})
        /\ Tally(readq, Of(b)) = Cardinality({k \in DOMAIN readq : readq[k].burst = b})
        /\ Tally(pending, Of(b)) = Cardinality({k \in DOMAIN pending : pending[k].burst = b})
    BY <1>1, <1>2
  <1>4. Left[b] = Tally(reqQueue, Of(b)) + Tally(stalled, Of(b)) + Tally(readq, Of(b)) + Tally(pending, Of(b))
    BY DEF Left, LeftOf
  <1> QED BY <1>3, <1>4, Zenon DEF Unprocessed

\* One fewer is left of the burst of a request that goes, and as many of the others.
IsOf(x, b) == IF x \in Of(b) THEN 1 ELSE 0
LEMMA OneFewer ==
    ASSUME NEW left \in [Id -> Nat], NEW left1 \in [Id -> Nat], NEW x \in Item,
           \A b \in Id : left1[b] = left[b] - IsOf(x, b)
    PROVE  left[x.burst] > 0 /\ left1 = [left EXCEPT ![x.burst] = @ - 1]
  <1> DEFINE c == x.burst
  <1>1. c \in Id /\ \A b \in Id : x \in Of(b) <=> c = b
    BY Items
  <1>2. \A b \in Id : left1[b] = left[b] - (IF c = b THEN 1 ELSE 0)
    BY <1>1 DEF IsOf
  <1> HIDE DEF c
  <1>3. left1[c] = left[c] - 1 /\ left[c] \in Nat /\ left1[c] \in Nat
    BY <1>1, <1>2
  <1>4. left[c] > 0
    BY <1>3
  <1>5. \A b \in Id : left1[b] = [left EXCEPT ![c] = @ - 1][b]
    BY <1>1, <1>2
  <1> QED BY <1>4, <1>5 DEF c

-----------------------------------------------------------------------------
(* Memory::tick *)

PortNumbers == Sent \in [Port -> Int] /\ Received \in [Port -> Int]
Possible(choice) ==
    /\ choice \in Completions
    /\ choice[1] = "read" => choice[2] \in DOMAIN readq
    /\ choice[1] = "write" => choice[2] \in DOMAIN writeq

\* The steps of Ticked by themselves.
Moving == [k \in DOMAIN pending |-> [pending[k] EXCEPT !.left = IF @ > 0 THEN @ - 1 ELSE 0]]
Served == Moving # <<>> /\ Head(Moving).left = 0
Still == IF Served THEN Tail(Moving) ELSE Moving
Before1 == [processed |-> processedReqNum, found |-> burstRespQueue]
Counts1 == IF Served THEN Count(Before1, Head(Moving).burst) ELSE Before1

LEMMA TickedSteps ==
    ASSUME ~TLDRAM, NEW choice
    PROVE  LET t == Ticked(choice)
               k == choice[2]
           IN  /\ t.pending = IF choice[1] = "read"
                              THEN Append(Still, [burst |-> readq[k].burst, left |-> ReadLatency]) ELSE Still
               /\ t.readq = IF choice[1] = "read" THEN RemoveAt(readq, k) ELSE readq
               /\ t.writeq = IF choice[1] = "write" THEN RemoveAt(writeq, k) ELSE writeq
               /\ t.counts = Counts1 /\ Unpredictable(choice, t.counts) = {}
  BY Zenon DEF Ticked, Still, Served, Moving, Counts1, Before1, Unpredictable

\* The answers come one cycle closer, in their order.
LEMMA MovingKeeps ==
    ASSUME MemoryInv
    PROVE  Moving \in Seq(Waiting) /\ \A b \in Id : Tally(Moving, Of(b)) = Tally(pending, Of(b))
  <1> DEFINE n == Len(pending)
             m == Moving
  <1>1. pending \in Seq(Waiting) /\ n \in Nat /\ DOMAIN pending = 1 .. n /\ \A k \in 1 .. n : pending[k] \in Waiting
    BY DEF MemoryInv
  <1>2. DOMAIN m = 1 .. n
    BY <1>1 DEF Moving
  <1>3. ASSUME NEW k \in 1 .. n PROVE m[k] \in Waiting /\ m[k].burst = pending[k].burst
    <2> DEFINE x == pending[k]
               y == [x EXCEPT !.left = IF @ > 0 THEN @ - 1 ELSE 0]
    <2>1. x \in Waiting
      BY <1>1
    <2>2. m[k] = y
      BY <1>1 DEF Moving
    <2> HIDE DEF x
    <2>3. y \in Waiting /\ y.burst = x.burst
      BY <2>1 DEF Waiting
    <2> QED BY <2>2, <2>3 DEF x
  <1>4. m \in Seq(Waiting) /\ Len(m) = n
    <2>1. m = [k \in 1 .. n |-> m[k]]
      BY <1>1 DEF Moving
    <2> HIDE DEF m, n
    <2>2. m \in [1 .. n -> Waiting]
      BY <1>3, <2>1
    <2> QED BY <1>1, <2>2
  <1>5. m \in Seq(Item) /\ pending \in Seq(Item)
    BY <1>1, <1>4, Items
  <1>6. ASSUME NEW b \in Id PROVE Tally(m, Of(b)) = Tally(pending, Of(b))
    <2>1. \A k \in 1 .. n : m[k] \in Item /\ pending[k] \in Item
      BY <1>1, <1>3 DEF Item
    <2>2. \A k \in 1 .. n : m[k] \in Of(b) <=> pending[k] \in Of(b)
      <3> HIDE DEF m, n
      <3> QED BY <1>3, <2>1, Items
    <2> DEFINE F == Of(b)
    <2>3. \A k \in 1 .. Len(m) : m[k] \in F <=> pending[k] \in F
      BY <1>4, <2>2
    <2>4. Len(m) = Len(pending)
      BY <1>4
    <2> HIDE DEF m, F
    <2>5. Tally(m, F) = Tally(pending, F)
      BY <1>5, <2>3, <2>4, TallySame
    <2> QED BY <2>5 DEF F, m
  <1> QED BY <1>4, <1>6

\* The answer at the front, if its time has come, is counted as it leaves.
LEMMA ServeKeeps ==
    ASSUME MemoryInv, CountInv, PortNumbers
    PROVE  /\ Still \in Seq(Waiting) /\ Counts1 = [processed |-> Counts1.processed, found |-> Counts1.found]
           /\ Accounted(Counts1.processed, Counts1.found, LeftOf(reqQueue, stalled, readq, Still), Sent, Received)
  <1>1. /\ reqQueue \in Seq(Item) /\ stalled \in Seq(Item) /\ readq \in Seq(Item) /\ pending \in Seq(Item)
        /\ Moving \in Seq(Waiting) /\ Moving \in Seq(Item) /\ \A b \in Id : Tally(Moving, Of(b)) = Tally(pending, Of(b))
    BY Items, MovingKeeps DEF MemoryInv
  <1> DEFINE left1 == LeftOf(reqQueue, stalled, readq, Still)
  <1>2. CASE ~Served
    <2>1. Still = Moving /\ Counts1 = Before1
      BY <1>2 DEF Still, Counts1
    <2>2. left1 = Left
      BY <1>1, <2>1 DEF Left, LeftOf
    <2>3. /\ Before1.processed = processedReqNum /\ Before1.found = burstRespQueue
          /\ Before1 = [processed |-> Before1.processed, found |-> Before1.found]
      BY DEF Before1
    <2> QED BY <1>1, <2>1, <2>2, <2>3 DEF CountInv
  <1>3. CASE Served
    <2> DEFINE x == Head(Moving)
               b0 == x.burst
    <2>1. Still = Tail(Moving) /\ Counts1 = Count(Before1, b0) /\ Moving # <<>>
      BY <1>3 DEF Still, Counts1, Served
    <2>2. x \in Item /\ Still \in Seq(Waiting) /\ Still \in Seq(Item)
      <3>1. x \in Waiting /\ Tail(Moving) \in Seq(Waiting)
        BY <1>1, <2>1, Rest
      <3>2. x \in Item
        BY <3>1 DEF Item
      <3> QED BY <2>1, <3>1, <3>2, Items
    <2>3. \A b \in Id : Tally(Still, Of(b)) = Tally(pending, Of(b)) - IsOf(x, b)
      <3> SUFFICES ASSUME NEW b \in Id
                   PROVE  Tally(Still, Of(b)) = Tally(pending, Of(b)) - IsOf(x, b)
        OBVIOUS
      <3> DEFINE F == Of(b)
      <3>1. Tally(Moving, F) = Tally(pending, F)
        BY <1>1
      <3> HIDE DEF F
      <3>2. Tally(Tail(Moving), F) = Tally(Moving, F) - (IF x \in F THEN 1 ELSE 0)
        BY <1>1, <2>1, TallyTail
      <3> QED BY <2>1, <3>1, <3>2 DEF F, IsOf
    <2> HIDE DEF x
    <2>4. left1 \in [Id -> Nat] /\ Left \in [Id -> Nat] /\ \A b \in Id : left1[b] = Left[b] - IsOf(x, b)
      <3>1. left1 \in [Id -> Nat] /\ SumOf(left1, reqQueue, stalled, readq, Still)
        BY <1>1, <2>2, LeftTyped
      <3>2. Left \in [Id -> Nat] /\ SumOf(Left, reqQueue, stalled, readq, pending)
        BY <1>1, LeftTyped DEF Left
      <3> HIDE DEF left1
      <3>3. ASSUME NEW b \in Id PROVE left1[b] = Left[b] - IsOf(x, b)
        BY <2>3, <3>1, <3>2 DEF SumOf, IsOf
      <3> QED BY <3>1, <3>2, <3>3
    <2>5. Left[b0] > 0 /\ left1 = [Left EXCEPT ![b0] = @ - 1]
      <3>1. x \in Item /\ left1 \in [Id -> Nat] /\ Left \in [Id -> Nat]
        BY <2>2, <2>4
      <3>2. \A b \in Id : left1[b] = Left[b] - IsOf(x, b)
        BY <2>4
      <3> HIDE DEF left1
      <3> QED BY <3>1, <3>2, OneFewer
    <2>6. b0 \in Id /\ Accounted(processedReqNum, burstRespQueue, Left, Sent, Received)
      BY <2>2, Items DEF CountInv
    <2> HIDE DEF b0, left1
    <2>7. /\ Count(Before1, b0) = [processed |-> Count(Before1, b0).processed, found |-> Count(Before1, b0).found]
          /\ Accounted(Count(Before1, b0).processed, Count(Before1, b0).found, [Left EXCEPT ![b0] = @ - 1], Sent, Received)
      BY <2>5, <2>6, CountKeeps DEF Before1, PortNumbers
    <2> QED BY <2>1, <2>2, <2>5, <2>7 DEF left1
  <1> QED BY <1>2, <1>3

\* The tick of the controller loses no request: a read that leaves its queue waits
\* for its answer, a write was counted when it was accepted.
LEMMA TickKeeps ==
    ASSUME ~TLDRAM, MemoryInv, CountInv, PortNumbers, NEW choice, Possible(choice), NEW t, t = Ticked(choice)
    PROVE  /\ t.pending \in Seq(Waiting)
           /\ t.readq \in Seq(Req) /\ Len(t.readq) <= QueueMax /\ t.writeq \in Seq(Req) /\ Len(t.writeq) <= QueueMax
           /\ t.counts = [processed |-> t.counts.processed, found |-> t.counts.found]
           /\ Accounted(t.counts.processed, t.counts.found, LeftOf(reqQueue, stalled, t.readq, t.pending), Sent, Received)
           /\ Unpredictable(choice, t.counts) = {}
  <1> DEFINE k == choice[2]
             x == readq[k]
             y == [burst |-> x.burst, left |-> ReadLatency]
  <1>1. /\ t.pending = IF choice[1] = "read" THEN Append(Still, y) ELSE Still
        /\ t.readq = IF choice[1] = "read" THEN RemoveAt(readq, k) ELSE readq
        /\ t.writeq = IF choice[1] = "write" THEN RemoveAt(writeq, k) ELSE writeq
        /\ t.counts = Counts1 /\ Unpredictable(choice, t.counts) = {}
    BY TickedSteps
  <1>2. /\ Still \in Seq(Waiting) /\ Counts1 = [processed |-> Counts1.processed, found |-> Counts1.found]
        /\ Accounted(Counts1.processed, Counts1.found, LeftOf(reqQueue, stalled, readq, Still), Sent, Received)
    BY ServeKeeps
  <1>3. /\ readq \in Seq(Req) /\ writeq \in Seq(Req) /\ Len(readq) <= QueueMax /\ Len(writeq) <= QueueMax
        /\ reqQueue \in Seq(Item) /\ stalled \in Seq(Item) /\ readq \in Seq(Item) /\ Still \in Seq(Item)
        /\ QueueMax \in Nat /\ ReadLatency \in Nat
    BY <1>2, Items, WorkAssumption DEF MemoryInv
  <1>4. choice[1] # "read" => t.readq = readq /\ t.pending = Still
    BY <1>1
  <1>5. t.writeq \in Seq(Req) /\ Len(t.writeq) <= QueueMax
    <2>1. CASE choice[1] = "write"
      <3>1. k \in 1 .. Len(writeq)
        BY <1>3, <2>1 DEF Possible
      <3>2. RemoveAt(writeq, k) \in Seq(Req) /\ Len(RemoveAt(writeq, k)) = Len(writeq) - 1
        BY <1>3, <3>1, Removed
      <3>3. Len(writeq) \in Nat /\ t.writeq = RemoveAt(writeq, k)
        BY <1>1, <1>3, <2>1
      <3> QED BY <1>3, <3>2, <3>3
    <2>2. CASE choice[1] # "write"
      BY <1>1, <1>3, <2>2
    <2> QED BY <2>1, <2>2
  <1>6. CASE choice[1] # "read"
    BY <1>1, <1>2, <1>3, <1>4, <1>5, <1>6
  <1>7. CASE choice[1] = "read"
    <2>1. k \in 1 .. Len(readq)
      BY <1>3, <1>7 DEF Possible
    <2>2. x \in Req /\ x \in Item /\ x.burst \in Id
      <3>1. x \in Req
        BY <1>3, <2>1
      <3> HIDE DEF x
      <3> QED BY <3>1, Cutting DEF Item
    <2>3. y \in Waiting /\ y \in Item /\ y.burst = x.burst
      <3> HIDE DEF x
      <3> QED BY <1>3, <2>2 DEF Waiting, Item
    <2> HIDE DEF x, y
    <2>4. t.readq = RemoveAt(readq, k) /\ t.pending = Append(Still, y)
      BY <1>1, <1>7
    <2>5. t.readq \in Seq(Req) /\ Len(t.readq) = Len(readq) - 1 /\ Len(readq) \in Nat
      <3>1. RemoveAt(readq, k) \in Seq(Req) /\ Len(RemoveAt(readq, k)) = Len(readq) - 1
        BY <1>3, <2>1, Removed
      <3>2. Len(readq) \in Nat
        BY <1>3
      <3> QED BY <2>4, <3>1, <3>2
    <2>6. t.pending \in Seq(Waiting)
      BY <1>2, <2>3, <2>4
    <2>7. \A b \in Id : /\ Tally(t.readq, Of(b)) = Tally(readq, Of(b)) - IsOf(x, b)
                        /\ Tally(t.pending, Of(b)) = Tally(Still, Of(b)) + IsOf(x, b)
      <3> SUFFICES ASSUME NEW b \in Id
                   PROVE  /\ Tally(t.readq, Of(b)) = Tally(readq, Of(b)) - IsOf(x, b)
                          /\ Tally(t.pending, Of(b)) = Tally(Still, Of(b)) + IsOf(x, b)
        OBVIOUS
      <3> DEFINE F == Of(b)
      <3>1. x \in F <=> y \in F
        BY <2>2, <2>3, Items
      <3> HIDE DEF F
      <3>2. Tally(RemoveAt(readq, k), F) = Tally(readq, F) - (IF x \in F THEN 1 ELSE 0)
        BY <1>3, <2>1, TallyRemoved DEF x
      <3>3. Tally(Append(Still, y), F) = Tally(Still, F) + (IF y \in F THEN 1 ELSE 0)
        BY <1>3, <2>3, TallyAppend
      <3> QED BY <2>4, <3>1, <3>2, <3>3 DEF IsOf, F
    <2> DEFINE left == LeftOf(reqQueue, stalled, readq, Still)
               left1 == LeftOf(reqQueue, stalled, t.readq, t.pending)
    <2>8. left1 = left
      <3>1. t.readq \in Seq(Item) /\ t.pending \in Seq(Item)
        BY <2>5, <2>6, Items
      <3>2. left \in [Id -> Nat] /\ SumOf(left, reqQueue, stalled, readq, Still)
        BY <1>3, LeftTyped
      <3>3. left1 \in [Id -> Nat] /\ SumOf(left1, reqQueue, stalled, t.readq, t.pending)
        BY <1>3, <3>1, LeftTyped
      <3> HIDE DEF left, left1
      <3>4. ASSUME NEW b \in Id PROVE left1[b] = left[b]
        <4>1. /\ left1[b] = Tally(reqQueue, Of(b)) + Tally(stalled, Of(b)) + Tally(t.readq, Of(b)) + Tally(t.pending, Of(b))
              /\ left[b] = Tally(reqQueue, Of(b)) + Tally(stalled, Of(b)) + Tally(readq, Of(b)) + Tally(Still, Of(b))
              /\ Tally(reqQueue, Of(b)) \in Nat /\ Tally(stalled, Of(b)) \in Nat
              /\ Tally(readq, Of(b)) \in Nat /\ Tally(Still, Of(b)) \in Nat
          BY <3>2, <3>3 DEF SumOf
        <4>2. IsOf(x, b) \in Nat
          BY DEF IsOf
        <4>3. \A u, v, r, s, d \in Nat : u + v + (r - d) + (s + d) = u + v + r + s
          OBVIOUS
        <4> QED BY <2>7, <4>1, <4>2, <4>3
      <3> QED BY <3>2, <3>3, <3>4
    <2> QED BY <1>1, <1>2, <1>3, <1>5, <2>5, <2>6, <2>8
  <1> QED BY <1>6, <1>7

-----------------------------------------------------------------------------
(* run_acc *)

LEMMA OneItem == ASSUME NEW X, NEW s \in Seq(X), s # <<>>, Len(s) <= 1 PROVE s = <<s[1]>> /\ s[1] \in X
  <1>1. s[1] \in X /\ 1 \in 1 .. Len(s) /\ Len(s) \in Nat
    BY Rest
  <1> DEFINE n == Len(s)
  <1>2. n \in Nat /\ 1 <= n /\ n <= 1
    BY <1>1
  <1>3. n = 1
    <2> HIDE DEF n
    <2> QED BY <1>2
  <1> QED BY <1>1, <1>3

\* The request to send comes from the stalled one or from the front of reqQueue.
Fetched == IF stalled = <<>> /\ reqQueue # <<>> THEN Tail(reqQueue) ELSE reqQueue

LEMMA FetchKeeps ==
    ASSUME MemoryInv
    PROVE  /\ Candidate \in Seq(Req) /\ Len(Candidate) <= 1 /\ Fetched \in Seq(Req)
           /\ \A b \in Id : Tally(Fetched, Of(b)) + Tally(Candidate, Of(b)) = Tally(reqQueue, Of(b)) + Tally(stalled, Of(b))
  <1>1. /\ reqQueue \in Seq(Req) /\ stalled \in Seq(Req) /\ Len(stalled) <= 1 /\ reqQueue \in Seq(Item) /\ stalled \in Seq(Item)
    BY Items DEF MemoryInv
  <1>2. CASE stalled # <<>> \/ reqQueue = <<>>
    <2>1. Candidate = stalled /\ Fetched = reqQueue
      BY <1>2 DEF Candidate, Fetched
    <2> QED BY <1>1, <2>1
  <1>3. CASE stalled = <<>> /\ reqQueue # <<>>
    <2> DEFINE x == Head(reqQueue)
    <2>1. x \in Req /\ x \in Item /\ Tail(reqQueue) \in Seq(Req)
      BY <1>1, <1>3, Rest
    <2>2. Candidate = <<x>> /\ Fetched = Tail(reqQueue)
      BY <1>3 DEF Candidate, Fetched
    <2> HIDE DEF x
    <2>3. <<x>> \in Seq(Req) /\ Len(<<x>>) = 1
      BY <2>1
    <2>4. ASSUME NEW b \in Id
          PROVE  Tally(Fetched, Of(b)) + Tally(Candidate, Of(b)) = Tally(reqQueue, Of(b)) + Tally(stalled, Of(b))
      <3> DEFINE F == Of(b)
      <3> HIDE DEF F
      <3>1. Tally(Tail(reqQueue), F) = Tally(reqQueue, F) - (IF x \in F THEN 1 ELSE 0)
        BY <1>1, <1>3, TallyTail DEF x
      <3>2. Tally(<<x>>, F) = IF x \in F THEN 1 ELSE 0
        BY TallyOne
      <3>3. Tally(stalled, F) = 0
        <4>1. Len(<<>>) = 0
          OBVIOUS
        <4>2. Len(stalled) = 0
          BY <1>3, <4>1
        <4>3. \A i \in 1 .. Len(stalled) : stalled[i] \notin F
          BY <4>2
        <4> QED BY <1>1, <4>3, TallyZero
      <3>4. Tally(reqQueue, F) \in Nat
        BY <1>1, TallyType
      <3> QED BY <2>2, <3>1, <3>2, <3>3, <3>4 DEF F
    <2> QED BY <2>1, <2>2, <2>3, <2>4
  <1> QED BY <1>2, <1>3

Fits(t) == Candidate # <<>> /\ Room(IF IsRead(Candidate[1]) THEN t.readq ELSE t.writeq)
Forwarded(t) == IsRead(Candidate[1]) /\ \E k \in DOMAIN t.writeq : t.writeq[k].addr = Candidate[1].addr

LEMMA RunSteps ==
    ASSUME ~TLDRAM, NEW choice \in Completions, runMemSim(choice), NEW t, t = Ticked(choice),
           Unpredictable(choice, t.counts) = {}
    PROVE  /\ Possible(choice) /\ reqQueue' = Fetched /\ early' = early
           /\ stalled' = IF Fits(t) THEN <<>> ELSE Candidate
           /\ readq' = IF Fits(t) /\ IsRead(Candidate[1]) /\ ~Forwarded(t) THEN Append(t.readq, Candidate[1]) ELSE t.readq
           /\ pending' = IF Fits(t) /\ Forwarded(t)
                         THEN Append(t.pending, [burst |-> Candidate[1].burst, left |-> 1]) ELSE t.pending
           /\ writeq' = IF Fits(t) /\ ~IsRead(Candidate[1]) THEN Append(t.writeq, Candidate[1]) ELSE t.writeq
           /\ processedReqNum' = (IF Fits(t) /\ ~IsRead(Candidate[1])
                                  THEN Count(t.counts, Candidate[1].burst) ELSE t.counts).processed
           /\ burstRespQueue' = (IF Fits(t) /\ ~IsRead(Candidate[1])
                                 THEN Count(t.counts, Candidate[1].burst) ELSE t.counts).found
           /\ UNCHANGED <<phase, peVars, respWritten, burstReqQueue>>
           /\ Turn(InMemClk)
  <1>1. early' = early
    <2>1. \E garbage \in SUBSET Unpredictable(choice, t.counts) : early' = early \cup garbage
      BY Zenon DEF runMemSim
    <2>2. \E garbage \in SUBSET {} : early' = early \cup garbage
      BY <2>1
    <2> QED BY <2>2
  <1>2. Possible(choice)
    BY Zenon DEF runMemSim, Possible
  <1>3. reqQueue' = Fetched /\ Turn(InMemClk) /\ UNCHANGED <<phase, peVars, respWritten, burstReqQueue>>
    BY Zenon DEF runMemSim, Fetched
  <1>4. /\ stalled' = IF Fits(t) THEN <<>> ELSE Candidate
        /\ readq' = IF Fits(t) /\ IsRead(Candidate[1]) /\ ~Forwarded(t) THEN Append(t.readq, Candidate[1]) ELSE t.readq
    BY Zenon DEF runMemSim, Fits, Forwarded
  <1>5. /\ pending' = IF Fits(t) /\ Forwarded(t)
                      THEN Append(t.pending, [burst |-> Candidate[1].burst, left |-> 1]) ELSE t.pending
        /\ writeq' = IF Fits(t) /\ ~IsRead(Candidate[1]) THEN Append(t.writeq, Candidate[1]) ELSE t.writeq
    BY Zenon DEF runMemSim, Fits, Forwarded
  <1>6. /\ processedReqNum' = (IF Fits(t) /\ ~IsRead(Candidate[1])
                               THEN Count(t.counts, Candidate[1].burst) ELSE t.counts).processed
        /\ burstRespQueue' = (IF Fits(t) /\ ~IsRead(Candidate[1])
                              THEN Count(t.counts, Candidate[1].burst) ELSE t.counts).found
    BY Zenon DEF runMemSim, Fits
  <1> QED BY <1>1, <1>2, <1>3, <1>4, <1>5, <1>6, Zenon

\* One cycle of the memory: the request that is sent waits in another queue, is
\* forwarded from the write queue, or is a write and counted.
LEMMA RunKeeps ==
    ASSUME ~TLDRAM, MemoryInv, CountInv, PortNumbers, UNCHANGED <<Sent, Received>>,
           NEW choice \in Completions, runMemSim(choice)
    PROVE  MemoryInv' /\ CountInv'
  <1> DEFINE t == Ticked(choice)
             r == Candidate[1]
             c == r.burst
             y == [burst |-> c, left |-> 1]
             left == LeftOf(reqQueue, stalled, t.readq, t.pending)
             left1 == LeftOf(reqQueue', stalled', readq', pending')
             s == t.counts
  <1>0. Possible(choice)
    BY Zenon DEF runMemSim, Possible
  <1>1. /\ t.pending \in Seq(Waiting)
        /\ t.readq \in Seq(Req) /\ Len(t.readq) <= QueueMax /\ t.writeq \in Seq(Req) /\ Len(t.writeq) <= QueueMax
        /\ s = [processed |-> s.processed, found |-> s.found]
        /\ Accounted(s.processed, s.found, left, Sent, Received)
        /\ Unpredictable(choice, s) = {}
    <2> HIDE DEF t
    <2> QED BY <1>0, TickKeeps DEF t
  <1>2. /\ reqQueue' = Fetched /\ early' = early
        /\ stalled' = IF Fits(t) THEN <<>> ELSE Candidate
        /\ readq' = IF Fits(t) /\ IsRead(r) /\ ~Forwarded(t) THEN Append(t.readq, r) ELSE t.readq
        /\ pending' = IF Fits(t) /\ Forwarded(t) THEN Append(t.pending, y) ELSE t.pending
        /\ writeq' = IF Fits(t) /\ ~IsRead(r) THEN Append(t.writeq, r) ELSE t.writeq
        /\ processedReqNum' = (IF Fits(t) /\ ~IsRead(r) THEN Count(s, c) ELSE s).processed
        /\ burstRespQueue' = (IF Fits(t) /\ ~IsRead(r) THEN Count(s, c) ELSE s).found
    <2>1. Unpredictable(choice, t.counts) = {}
      BY <1>1
    <2> QED BY <2>1, RunSteps, Zenon
  <1>3. /\ Candidate \in Seq(Req) /\ Len(Candidate) <= 1 /\ Fetched \in Seq(Req)
        /\ \A b \in Id : Tally(Fetched, Of(b)) + Tally(Candidate, Of(b)) = Tally(reqQueue, Of(b)) + Tally(stalled, Of(b))
    BY FetchKeeps
  <1>4. /\ reqQueue \in Seq(Item) /\ stalled \in Seq(Item) /\ t.readq \in Seq(Item) /\ t.pending \in Seq(Item)
        /\ Candidate \in Seq(Item) /\ Fetched \in Seq(Item) /\ <<>> \in Seq(Req) /\ Len(<<>>) = 0 /\ <<>> \in Seq(Item)
        /\ early = {} /\ QueueMax \in Nat
    <2> HIDE DEF t
    <2>1. <<>> \in Seq(Req) /\ Len(<<>>) = 0
      OBVIOUS
    <2> QED BY <1>1, <1>3, <2>1, Items, WorkAssumption DEF MemoryInv
  <1> HIDE DEF t
  <1>5. left \in [Id -> Nat] /\ SumOf(left, reqQueue, stalled, t.readq, t.pending)
    BY <1>4, LeftTyped
  <1>6. ASSUME stalled' \in Seq(Item), readq' \in Seq(Item), pending' \in Seq(Item)
        PROVE  left1 \in [Id -> Nat] /\ SumOf(left1, Fetched, stalled', readq', pending')
    <2>1. reqQueue' = Fetched
      BY <1>2
    <2>2. reqQueue' \in Seq(Item)
      BY <1>4, <2>1
    <2>3. left1 \in [Id -> Nat] /\ SumOf(left1, reqQueue', stalled', readq', pending')
      BY <1>6, <2>2, LeftTyped
    <2> QED BY <2>1, <2>3
  <1>7. ASSUME NEW b \in Id PROVE Tally(<<>>, Of(b)) = 0
    <2> DEFINE F == Of(b)
    <2>1. \A i \in 1 .. Len(<<>>) : <<>>[i] \notin F
      BY <1>4
    <2> HIDE DEF F
    <2>2. Tally(<<>>, F) = 0
      BY <1>4, <2>1, TallyZero
    <2> QED BY <2>2 DEF F
  <1>8. Candidate # <<>> =>
          /\ r \in Req /\ r \in Item /\ c \in Id /\ y \in Waiting /\ y \in Item
          /\ \A b \in Id : Tally(Candidate, Of(b)) = IsOf(r, b) /\ (y \in Of(b) <=> r \in Of(b))
    <2> SUFFICES ASSUME Candidate # <<>>
                 PROVE  /\ r \in Req /\ r \in Item /\ c \in Id /\ y \in Waiting /\ y \in Item
                        /\ \A b \in Id : Tally(Candidate, Of(b)) = IsOf(r, b) /\ (y \in Of(b) <=> r \in Of(b))
      OBVIOUS
    <2>1. Candidate = <<r>> /\ r \in Req
      BY <1>3, OneItem
    <2> HIDE DEF r
    <2>2. r \in Item /\ c \in Id
      BY <2>1, Cutting DEF Item
    <2>3. y \in Waiting /\ y \in Item /\ y.burst = c
      BY <2>2 DEF Waiting, Item
    <2> HIDE DEF y
    <2>4. ASSUME NEW b \in Id PROVE Tally(Candidate, Of(b)) = IsOf(r, b) /\ (y \in Of(b) <=> r \in Of(b))
      <3>1. Tally(<<r>>, Of(b)) = IsOf(r, b)
        BY TallyOne DEF IsOf
      <3>2. y \in Of(b) <=> r \in Of(b)
        BY <2>2, <2>3, Items
      <3> QED BY <2>1, <3>1, <3>2
    <2> QED BY <2>1, <2>2, <2>3, <2>4
  <1>9. ASSUME NEW b \in Id
        PROVE  /\ Tally(reqQueue, Of(b)) \in Nat /\ Tally(stalled, Of(b)) \in Nat /\ IsOf(r, b) \in Nat
               /\ Tally(t.readq, Of(b)) \in Nat /\ Tally(t.pending, Of(b)) \in Nat /\ Tally(Fetched, Of(b)) \in Nat
               /\ left[b] = Tally(reqQueue, Of(b)) + Tally(stalled, Of(b)) + Tally(t.readq, Of(b)) + Tally(t.pending, Of(b))
    <2>1. IsOf(r, b) \in Nat
      BY DEF IsOf
    <2>2. Tally(Fetched, Of(b)) \in Nat
      BY <1>4, TallyType
    <2> HIDE DEF r, left
    <2> QED BY <1>5, <2>1, <2>2 DEF SumOf
  <1> HIDE DEF r, y, left, left1, s
  <1> DEFINE Typed == /\ stalled' \in Seq(Req) /\ Len(stalled') <= 1 /\ readq' \in Seq(Req) /\ Len(readq') <= QueueMax
                      /\ pending' \in Seq(Waiting) /\ writeq' \in Seq(Req) /\ Len(writeq') <= QueueMax
                      /\ stalled' \in Seq(Item) /\ readq' \in Seq(Item) /\ pending' \in Seq(Item)
             Counted == Accounted(processedReqNum', burstRespQueue', left1, Sent, Received)
  <1>10. ASSUME ~Fits(t) PROVE Typed /\ Counted
    <2>1. /\ stalled' = Candidate /\ readq' = t.readq /\ pending' = t.pending /\ writeq' = t.writeq
          /\ processedReqNum' = s.processed /\ burstRespQueue' = s.found
      BY <1>2, <1>10
    <2>2. Typed
      BY <1>1, <1>3, <1>4, <2>1
    <2>3. ASSUME NEW b \in Id PROVE left1[b] = left[b]
      <3>1. left1[b] = Tally(Fetched, Of(b)) + Tally(Candidate, Of(b)) + Tally(t.readq, Of(b)) + Tally(t.pending, Of(b))
        BY <1>6, <2>1, <2>2 DEF SumOf
      <3>2. Tally(Candidate, Of(b)) \in Nat
        BY <1>4, TallyType
      <3> QED BY <1>3, <1>9, <3>1, <3>2
    <2>4. left1 = left
      BY <1>5, <1>6, <2>2, <2>3
    <2> QED BY <1>1, <2>1, <2>2, <2>4
  <1>11. ASSUME Fits(t) /\ IsRead(r) /\ ~Forwarded(t) PROVE Typed /\ Counted
    <2>1. /\ stalled' = <<>> /\ readq' = Append(t.readq, r) /\ pending' = t.pending /\ writeq' = t.writeq
          /\ processedReqNum' = s.processed /\ burstRespQueue' = s.found
      BY <1>2, <1>11
    <2>2. Candidate # <<>> /\ Len(t.readq) < QueueMax
      BY <1>11 DEF Fits, Room, r
    <2>3. Len(Append(t.readq, r)) <= QueueMax /\ Append(t.readq, r) \in Seq(Req)
      <3>1. Append(t.readq, r) \in Seq(Req) /\ Len(Append(t.readq, r)) = Len(t.readq) + 1 /\ Len(t.readq) \in Nat
        BY <1>1, <1>8, <2>2, Pushed
      <3> QED BY <1>4, <2>2, <3>1
    <2>4. Typed
      <3>1. Append(t.readq, r) \in Seq(Item)
        BY <2>3, Items
      <3> QED BY <1>1, <1>4, <2>1, <2>3, <3>1
    <2>5. ASSUME NEW b \in Id PROVE left1[b] = left[b]
      <3>1. left1[b] = Tally(Fetched, Of(b)) + Tally(<<>>, Of(b)) + Tally(Append(t.readq, r), Of(b)) + Tally(t.pending, Of(b))
        BY <1>6, <2>1, <2>4 DEF SumOf
      <3>2. Tally(Append(t.readq, r), Of(b)) = Tally(t.readq, Of(b)) + IsOf(r, b)
        BY <1>4, <1>8, <2>2, TallyAppend DEF IsOf
      <3>3. Tally(Fetched, Of(b)) + IsOf(r, b) = Tally(reqQueue, Of(b)) + Tally(stalled, Of(b))
        BY <1>3, <1>8, <2>2
      <3> QED BY <1>7, <1>9, <3>1, <3>2, <3>3
    <2>6. left1 = left
      BY <1>5, <1>6, <2>4, <2>5
    <2> QED BY <1>1, <2>1, <2>4, <2>6
  <1>12. ASSUME Fits(t) /\ Forwarded(t) PROVE Typed /\ Counted
    <2>0. IsRead(r)
      BY <1>12 DEF Forwarded, r
    <2>1. /\ stalled' = <<>> /\ readq' = t.readq /\ pending' = Append(t.pending, y) /\ writeq' = t.writeq
          /\ processedReqNum' = s.processed /\ burstRespQueue' = s.found
      BY <1>2, <1>12, <2>0
    <2>2. Candidate # <<>>
      BY <1>12 DEF Fits
    <2>3. Append(t.pending, y) \in Seq(Waiting)
      BY <1>1, <1>8, <2>2
    <2>4. Typed
      <3>1. Append(t.pending, y) \in Seq(Item)
        BY <2>3, Items
      <3> QED BY <1>1, <1>4, <2>1, <2>3, <3>1
    <2>5. ASSUME NEW b \in Id PROVE left1[b] = left[b]
      <3>1. left1[b] = Tally(Fetched, Of(b)) + Tally(<<>>, Of(b)) + Tally(t.readq, Of(b)) + Tally(Append(t.pending, y), Of(b))
        BY <1>6, <2>1, <2>4 DEF SumOf
      <3>2. Tally(Append(t.pending, y), Of(b)) = Tally(t.pending, Of(b)) + IsOf(r, b)
        BY <1>4, <1>8, <2>2, TallyAppend DEF IsOf
      <3>3. Tally(Fetched, Of(b)) + IsOf(r, b) = Tally(reqQueue, Of(b)) + Tally(stalled, Of(b))
        BY <1>3, <1>8, <2>2
      <3> QED BY <1>7, <1>9, <3>1, <3>2, <3>3
    <2>6. left1 = left
      BY <1>5, <1>6, <2>4, <2>5
    <2> QED BY <1>1, <2>1, <2>4, <2>6
  <1>13. ASSUME Fits(t) /\ ~IsRead(r) PROVE Typed /\ Counted
    <2>0. ~Forwarded(t)
      BY <1>13 DEF Forwarded, r
    <2>1. /\ stalled' = <<>> /\ readq' = t.readq /\ pending' = t.pending /\ writeq' = Append(t.writeq, r)
          /\ processedReqNum' = Count(s, c).processed /\ burstRespQueue' = Count(s, c).found
      BY <1>2, <1>13, <2>0
    <2>2. Candidate # <<>> /\ Len(t.writeq) < QueueMax
      BY <1>13 DEF Fits, Room, r
    <2>3. Len(Append(t.writeq, r)) <= QueueMax /\ Append(t.writeq, r) \in Seq(Req)
      <3>1. Append(t.writeq, r) \in Seq(Req) /\ Len(Append(t.writeq, r)) = Len(t.writeq) + 1 /\ Len(t.writeq) \in Nat
        BY <1>1, <1>8, <2>2, Pushed
      <3> QED BY <1>4, <2>2, <3>1
    <2>4. Typed
      BY <1>1, <1>4, <2>1, <2>3
    <2>5. ASSUME NEW b \in Id PROVE left1[b] = left[b] - IsOf(r, b)
      <3>1. left1[b] = Tally(Fetched, Of(b)) + Tally(<<>>, Of(b)) + Tally(t.readq, Of(b)) + Tally(t.pending, Of(b))
        BY <1>6, <2>1, <2>4 DEF SumOf
      <3>3. Tally(Fetched, Of(b)) + IsOf(r, b) = Tally(reqQueue, Of(b)) + Tally(stalled, Of(b))
        BY <1>3, <1>8, <2>2
      <3>4. \A f, i, q, u, x, z \in Nat : f + i = q + u => f + 0 + x + z = (q + u + x + z) - i
        OBVIOUS
      <3> QED BY <1>7, <1>9, <3>1, <3>3, <3>4
    <2>6. left[c] > 0 /\ left1 = [left EXCEPT ![c] = @ - 1] /\ c \in Id
      <3>1. left1 \in [Id -> Nat] /\ left \in [Id -> Nat] /\ r \in Item /\ c \in Id
        BY <1>5, <1>6, <1>8, <2>2, <2>4
      <3> QED BY <2>5, <3>1, OneFewer
    <2> HIDE DEF c
    <2>7. Accounted(Count(s, c).processed, Count(s, c).found, [left EXCEPT ![c] = @ - 1], Sent, Received)
      BY <1>1, <2>6, CountKeeps DEF PortNumbers
    <2> QED BY <2>1, <2>4, <2>6, <2>7
  <1>14. Typed /\ Counted
    BY <1>10, <1>11, <1>12, <1>13
  <1>15. MemoryInv'
    BY <1>2, <1>3, <1>4, <1>14 DEF MemoryInv
  <1>16. CountInv'
    <2>1. Left' = left1
      BY DEF Left, left1
    <2>2. Sent' = Sent /\ Received' = Received
      OBVIOUS
    <2> QED BY <1>14, <2>1, <2>2, Zenon DEF CountInv
  <1> QED BY <1>15, <1>16

-----------------------------------------------------------------------------
(* getBurstReq and sendBurstResp: what they do to the counts *)

\* Bursts that are received: all their requests are left.
LEMMA ReceiveKeeps ==
    ASSUME NEW processed, NEW found, NEW left, NEW lo \in [Port -> Int], NEW hi \in [Port -> Int],
           NEW hi1 \in [Port -> Int], \A i \in Port : lo[i] <= hi[i] /\ hi[i] <= hi1[i],
           Accounted(processed, found, left, lo, hi), NEW processed1, NEW left1, NEW received \in SUBSET Id,
           \A b \in Id : b \in received <=> hi[b[1]] < b[2] /\ b[2] <= hi1[b[1]],
           processed1 = [b \in Id |-> IF b \in received THEN 0 ELSE processed[b]],
           left1 = [b \in Id |-> IF b \in received THEN totalReqNum[b] ELSE left[b]]
    PROVE  Accounted(processed1, found, left1, lo, hi1)
  <1>1. /\ processed \in [Id -> Nat] /\ left \in [Id -> Nat] /\ found \in [Port -> Seq(Id)]
        /\ \A c \in Id : /\ c[2] <= hi[c[1]] => processed[c] + left[c] = totalReqNum[c]
                         /\ c[2] > hi[c[1]] => processed[c] = 0 /\ left[c] = 0
                         /\ c[2] <= lo[c[1]] => left[c] = 0
        /\ \A i \in Port : \A c \in Id :
             Contains(found[i], c) <=> c[1] = i /\ lo[i] < c[2] /\ c[2] <= hi[i] /\ left[c] = 0
        /\ \A i \in Port : \A j, k \in DOMAIN found[i] : found[i][j] = found[i][k] => j = k
    BY DEF Accounted
  <1>2. \A c \in Id : c[1] \in Port /\ c[2] \in Int /\ totalReqNum[c] \in Nat \ {0}
    BY Ids, Cutting
  <1>3. processed1 \in [Id -> Nat] /\ left1 \in [Id -> Nat]
    BY <1>1, <1>2
  <1>4. \A c \in Id : /\ processed1[c] = IF c \in received THEN 0 ELSE processed[c]
                      /\ left1[c] = IF c \in received THEN totalReqNum[c] ELSE left[c]
    OBVIOUS
  <1>5. ASSUME NEW c \in Id
        PROVE  /\ c[2] <= hi1[c[1]] => processed1[c] + left1[c] = totalReqNum[c]
               /\ c[2] > hi1[c[1]] => processed1[c] = 0 /\ left1[c] = 0
               /\ c[2] <= lo[c[1]] => left1[c] = 0
    <2> DEFINE p == c[1]
               n == c[2]
               all == totalReqNum[c]
    <2>1. /\ p \in Port /\ n \in Int /\ all \in Nat \ {0} /\ hi[p] \in Int /\ hi1[p] \in Int /\ lo[p] \in Int
          /\ lo[p] <= hi[p] /\ hi[p] <= hi1[p] /\ processed[c] \in Nat /\ left[c] \in Nat
      BY <1>1, <1>2
    <2>2. /\ n <= hi[p] => processed[c] + left[c] = all
          /\ n > hi[p] => processed[c] = 0 /\ left[c] = 0
          /\ n <= lo[p] => left[c] = 0
      BY <1>1
    <2>3. c \in received <=> hi[p] < n /\ n <= hi1[p]
      OBVIOUS
    <2> HIDE DEF p, n, all
    <2>4. CASE c \in received
      <3>1. processed1[c] = 0 /\ left1[c] = all
        BY <1>4, <2>4 DEF all
      <3> QED BY <2>1, <2>3, <2>4, <3>1 DEF p, n, all
    <2>5. CASE c \notin received
      <3>1. processed1[c] = processed[c] /\ left1[c] = left[c]
        BY <1>4, <2>5
      <3> QED BY <2>1, <2>2, <2>3, <2>5, <3>1 DEF p, n, all
    <2> QED BY <2>4, <2>5
  <1>6. ASSUME NEW i \in Port, NEW c \in Id
        PROVE  Contains(found[i], c) <=> c[1] = i /\ lo[i] < c[2] /\ c[2] <= hi1[i] /\ left1[c] = 0
    <2>1. Contains(found[i], c) <=> c[1] = i /\ lo[i] < c[2] /\ c[2] <= hi[i] /\ left[c] = 0
      BY <1>1
    <2>2. c[2] \in Int /\ totalReqNum[c] \in Nat \ {0} /\ hi[i] \in Int /\ hi1[i] \in Int /\ hi[i] <= hi1[i]
      BY <1>2
    <2>3. CASE c \in received
      <3>1. left1[c] # 0 /\ (c[1] = i => hi[i] < c[2])
        BY <1>4, <2>2, <2>3
      <3> QED BY <2>1, <2>2, <3>1
    <2>4. CASE c \notin received
      <3>1. left1[c] = left[c] /\ (c[1] = i => ~(hi[i] < c[2] /\ c[2] <= hi1[i]))
        BY <1>4, <2>4
      <3> QED BY <2>1, <2>2, <3>1
    <2> QED BY <2>3, <2>4
  <1> QED BY <1>1, <1>3, <1>5, <1>6, Zenon DEF Accounted

LEMMA RemovedOnce ==
    ASSUME NEW X, NEW s \in Seq(X), NEW x, \A j, k \in DOMAIN s : s[j] = s[k] => j = k, Contains(s, x)
    PROVE  /\ RemoveFirst(s, x) \in Seq(X)
           /\ \A j, k \in DOMAIN RemoveFirst(s, x) : RemoveFirst(s, x)[j] = RemoveFirst(s, x)[k] => j = k
           /\ \A y : Contains(RemoveFirst(s, x), y) <=> Contains(s, y) /\ y # x
  <1> DEFINE I == {i \in 1 .. Len(s) : s[i] = x}
             h == SelectInSeq(s, LAMBDA v : v = x)
             t == RemoveFirst(s, x)
  <1>1. PICK g \in 1 .. Len(s) : s[g] = x
    BY DEF Contains
  <1>2. DOMAIN s = 1 .. Len(s) /\ Len(s) \in Nat
    OBVIOUS
  <1>3. I = {g}
    BY <1>1, <1>2
  <1>4. h = g
    <2>1. h = IF I # {} THEN Min(I) ELSE 0
      BY DEF SelectInSeq
    <2>2. Min({g}) = g
      BY <1>1 DEF Min
    <2> HIDE DEF h, I
    <2> QED BY <1>3, <2>1, <2>2
  <1>5. t = RemoveAt(s, g)
    <2>1. t = RemoveAt(s, h)
      BY <1>1 DEF RemoveFirst
    <2> HIDE DEF t, h
    <2> QED BY <1>4, <2>1
  <1> HIDE DEF h, t
  <1>6. /\ t \in Seq(X) /\ DOMAIN t = 1 .. Len(s) - 1 /\ DOMAIN s = 1 .. Len(s)
        /\ \A i \in DOMAIN t : Skip(g, i) \in DOMAIN s /\ Skip(g, i) # g /\ t[i] = s[Skip(g, i)]
        /\ \A i, j \in DOMAIN t : i < j => Skip(g, i) < Skip(g, j)
        /\ \A k \in DOMAIN s : k # g => \E i \in DOMAIN t : Skip(g, i) = k
    BY <1>1, <1>5, Skipped
  <1>7. ASSUME NEW j \in DOMAIN t, NEW k \in DOMAIN t, t[j] = t[k] PROVE j = k
    <2>1. Skip(g, j) = Skip(g, k)
      BY <1>6, <1>7
    <2>2. Skip(g, j) \in Int /\ j \in Int /\ k \in Int
      BY <1>2, <1>6
    <2>3. ~(j < k) /\ ~(k < j)
      BY <1>6, <2>1, <2>2
    <2> QED BY <2>2, <2>3
  <1>8. ASSUME NEW y PROVE Contains(t, y) <=> Contains(s, y) /\ y # x
    <2>1. DOMAIN t = 1 .. Len(t)
      <3>1. t \in Seq(X)
        BY <1>6
      <3> QED BY <3>1
    <2>2. ASSUME Contains(t, y) PROVE Contains(s, y) /\ y # x
      <3>1. PICK i \in DOMAIN t : t[i] = y
        BY <2>1, <2>2 DEF Contains
      <3>2. Skip(g, i) \in DOMAIN s /\ Skip(g, i) # g /\ s[Skip(g, i)] = y
        BY <1>6, <3>1
      <3> QED BY <1>1, <1>2, <3>2 DEF Contains
    <2>3. ASSUME Contains(s, y), y # x PROVE Contains(t, y)
      <3>1. PICK k \in DOMAIN s : s[k] = y
        BY <1>2, <2>3 DEF Contains
      <3>2. PICK i \in DOMAIN t : Skip(g, i) = k
        BY <1>1, <1>6, <2>3, <3>1
      <3> QED BY <1>6, <2>1, <3>1, <3>2 DEF Contains
    <2> QED BY <2>2, <2>3
  <1> QED BY <1>6, <1>7, <1>8 DEF t

\* The oldest bursts of some ports are answered: they were complete.
LEMMA AnswerKeeps ==
    ASSUME NEW processed, NEW found, NEW left, NEW lo \in [Port -> Int], NEW hi \in [Port -> Int],
           Accounted(processed, found, left, lo, hi), NEW sent \in SUBSET Port, NEW found1, NEW lo1,
           \A i \in sent : Contains(found[i], <<i, lo[i] + 1>>),
           found1 = [i \in Port |-> IF i \in sent THEN RemoveFirst(found[i], <<i, lo[i] + 1>>) ELSE found[i]],
           lo1 = [i \in Port |-> IF i \in sent THEN lo[i] + 1 ELSE lo[i]]
    PROVE  Accounted(processed, found1, left, lo1, hi)
  <1>1. /\ processed \in [Id -> Nat] /\ left \in [Id -> Nat] /\ found \in [Port -> Seq(Id)]
        /\ \A c \in Id : /\ c[2] <= hi[c[1]] => processed[c] + left[c] = totalReqNum[c]
                         /\ c[2] > hi[c[1]] => processed[c] = 0 /\ left[c] = 0
                         /\ c[2] <= lo[c[1]] => left[c] = 0
        /\ \A i \in Port : \A c \in Id :
             Contains(found[i], c) <=> c[1] = i /\ lo[i] < c[2] /\ c[2] <= hi[i] /\ left[c] = 0
        /\ \A i \in Port : \A j, k \in DOMAIN found[i] : found[i][j] = found[i][k] => j = k
    BY DEF Accounted
  <1>2. \A c \in Id : c[1] \in Port /\ c[2] \in Int /\ c = <<c[1], c[2]>>
    BY Ids
  <1>3. ASSUME NEW i \in sent
        PROVE  /\ found1[i] \in Seq(Id) /\ \A j, k \in DOMAIN found1[i] : found1[i][j] = found1[i][k] => j = k
               /\ \A y : Contains(found1[i], y) <=> Contains(found[i], y) /\ y # <<i, lo[i] + 1>>
    <2> DEFINE s == found[i]
               x == <<i, lo[i] + 1>>
    <2>1. s \in Seq(Id) /\ (\A j, k \in DOMAIN s : s[j] = s[k] => j = k) /\ Contains(s, x)
      BY <1>1
    <2>2. found1[i] = RemoveFirst(s, x)
      OBVIOUS
    <2> HIDE DEF s, x
    <2>3. /\ RemoveFirst(s, x) \in Seq(Id)
          /\ \A j, k \in DOMAIN RemoveFirst(s, x) : RemoveFirst(s, x)[j] = RemoveFirst(s, x)[k] => j = k
          /\ \A y : Contains(RemoveFirst(s, x), y) <=> Contains(s, y) /\ y # x
      BY <2>1, RemovedOnce
    <2> QED BY <2>2, <2>3 DEF s, x
  <1>4. \A i \in Port : i \notin sent => found1[i] = found[i] /\ lo1[i] = lo[i]
    OBVIOUS
  <1>5. \A i \in sent : lo1[i] = lo[i] + 1 /\ lo[i] \in Int /\ i \in Port
    OBVIOUS
  <1>6. found1 \in [Port -> Seq(Id)]
    <2> DEFINE Lists == Seq(Id)
    <2>1. \A i \in Port : found1[i] \in Lists
      BY <1>1, <1>3, <1>4
    <2>2. found1 = [i \in Port |-> found1[i]]
      OBVIOUS
    <2> HIDE DEF Lists
    <2>3. found1 \in [Port -> Lists]
      BY <2>1, <2>2
    <2> QED BY <2>3 DEF Lists
  <1>7. ASSUME NEW i \in Port PROVE \A j, k \in DOMAIN found1[i] : found1[i][j] = found1[i][k] => j = k
    <2>1. CASE i \in sent
      BY <1>3, <2>1
    <2>2. CASE i \notin sent
      <3>1. found1[i] = found[i]
        BY <1>4, <2>2
      <3> QED BY <1>1, <3>1
    <2> QED BY <2>1, <2>2
  <1>8. ASSUME NEW c \in Id, c[2] <= lo1[c[1]] PROVE left[c] = 0
    <2> DEFINE p == c[1]
    <2>1. p \in Port /\ c[2] \in Int /\ c = <<p, c[2]>> /\ lo[p] \in Int
      BY <1>2
    <2> HIDE DEF p
    <2>2. CASE c[2] <= lo[p]
      BY <1>1, <2>2 DEF p
    <2>3. CASE ~(c[2] <= lo[p])
      <3>0. p \in sent
        BY <1>4, <1>8, <2>1, <2>3 DEF p
      <3>1. c[2] = lo[p] + 1
        BY <1>5, <1>8, <2>1, <2>3, <3>0 DEF p
      <3>2. Contains(found[p], c)
        BY <2>1, <3>0, <3>1
      <3> QED BY <1>1, <2>1, <3>2
    <2> QED BY <2>2, <2>3
  <1>9. ASSUME NEW i \in Port, NEW c \in Id
        PROVE  Contains(found1[i], c) <=> c[1] = i /\ lo1[i] < c[2] /\ c[2] <= hi[i] /\ left[c] = 0
    <2>1. Contains(found[i], c) <=> c[1] = i /\ lo[i] < c[2] /\ c[2] <= hi[i] /\ left[c] = 0
      BY <1>1
    <2>2. CASE i \notin sent
      BY <1>4, <2>1, <2>2
    <2>3. CASE i \in sent
      <3>1. Contains(found1[i], c) <=> Contains(found[i], c) /\ c # <<i, lo[i] + 1>>
        BY <1>3, <2>3
      <3>2. c[1] = i => (c = <<i, lo[i] + 1>> <=> c[2] = lo[i] + 1)
        BY <1>2
      <3>3. c[2] \in Int /\ lo[i] \in Int /\ lo1[i] = lo[i] + 1
        BY <1>2, <1>5, <2>3
      <3>4. lo1[i] < c[2] <=> lo[i] < c[2] /\ c[2] # lo[i] + 1
        BY <3>3
      <3> QED BY <2>1, <3>1, <3>2, <3>4
    <2> QED BY <2>2, <2>3
  <1> QED BY <1>1, <1>6, <1>7, <1>8, <1>9, Zenon DEF Accounted

-----------------------------------------------------------------------------
(* The steps of the PE's clock domain *)

LEMMA Numbers ==
    ASSUME SignalInv
    PROVE  /\ PortNumbers
           /\ \A i \in Port :
                /\ Seen(i) \in Nat /\ posted[i] \in Nat /\ answered[i] \in Nat
                /\ Sent[i] = Seen(i) + (IF Written /\ respWritten[i] # None THEN 1 ELSE 0)
                /\ Received[i] = IF burstReq[i] # None /\ "getBurstReq" \notin ran THEN posted[i] - 1 ELSE posted[i]
                /\ Sent[i] \in Nat /\ Received[i] \in Int /\ Sent[i] <= Received[i] /\ Received[i] <= posted[i]
  <1>1. posted \in [Port -> Nat] /\ answered \in [Port -> Nat] /\ \A i \in Port : Sent[i] <= Received[i]
    BY Zenon DEF SignalInv
  <1>2. \A i \in Port :
          /\ Seen(i) \in Nat /\ posted[i] \in Nat /\ answered[i] \in Nat
          /\ Sent[i] = Seen(i) + (IF Written /\ respWritten[i] # None THEN 1 ELSE 0)
          /\ Received[i] = IF burstReq[i] # None /\ "getBurstReq" \notin ran THEN posted[i] - 1 ELSE posted[i]
    BY <1>1 DEF Sent, Received, Seen
  <1>3. \A i \in Port : Sent[i] \in Nat /\ Received[i] \in Int /\ Received[i] <= posted[i]
    BY <1>2
  <1>4. PortNumbers
    <2>1. Sent = [i \in Port |-> Sent[i]] /\ Received = [i \in Port |-> Received[i]]
      BY DEF Sent, Received
    <2> QED BY <1>3, <2>1 DEF PortNumbers
  <1> QED BY <1>1, <1>2, <1>3, <1>4

\* A thread of the memory's domain sends and receives nothing at the ports.
LEMMA RunSignals ==
    ASSUME SignalInv, OrderInv, UNCHANGED <<phase, peVars, respWritten, burstReqQueue>>, Turn(InMemClk)
    PROVE  SignalInv' /\ OrderInv' /\ UNCHANGED <<Sent, Received>>
  <1>1. /\ phase' = phase /\ posted' = posted /\ answered' = answered /\ burstReq' = burstReq
        /\ burstResp' = burstResp /\ respWritten' = respWritten /\ burstReqQueue' = burstReqQueue
        /\ ran' = ran \cup {InMemClk}
    BY DEF peVars, Turn
  <1>2. (Written' <=> Written) /\ ("getBurstReq" \in ran' <=> "getBurstReq" \in ran)
    BY <1>1 DEF Written, InMemClk
  <1>3. Sent' = Sent /\ Received' = Received /\ \A i \in Port : Seen(i)' = Seen(i)
    BY <1>1, <1>2 DEF Sent, Received, Seen
  <1>4. Ran' = Ran /\ ran' \subseteq Ran
    BY <1>1 DEF Ran, Thread, SignalInv
  <1>5. SignalInv'
    BY <1>1, <1>2, <1>3, <1>4 DEF SignalInv
  <1>6. OrderInv'
    BY <1>1, <1>3 DEF OrderInv
  <1> QED BY <1>3, <1>5, <1>6

\* The bursts on the signals.
Arriving == {b \in Id : b = burstReq[b[1]]}
Parts == [k \in 1 .. PNUM |-> IF burstReq[k - 1] = None THEN <<>> ELSE Requests[burstReq[k - 1]]]

LEMMA PartsJoined ==
    ASSUME SignalInv
    PROVE  /\ FlattenSeq(Parts) \in Seq(Req)
           /\ \A b \in Id : Tally(FlattenSeq(Parts), Of(b)) = IF b \in Arriving THEN totalReqNum[b] ELSE 0
  <1>1. /\ PNUM \in Nat /\ \A k \in 1 .. PNUM : k - 1 \in Port
        /\ \A j \in Port : j + 1 \in 1 .. PNUM /\ (j + 1) - 1 = j
    BY WorkAssumption DEF Port
  <1>2. \A i \in Port : burstReq[i] # None => burstReq[i] \in Id /\ burstReq[i][1] = i
    <2> SUFFICES ASSUME NEW i \in Port, burstReq[i] # None PROVE burstReq[i] \in Id /\ burstReq[i][1] = i
      OBVIOUS
    <2>1. burstReq \in [Port -> Id \cup {None}] /\ burstReq[i] = <<i, posted[i]>>
      BY DEF SignalInv
    <2> QED BY <2>1
  <1>3. ASSUME NEW k \in 1 .. PNUM
        PROVE  /\ Parts[k] \in Seq(Req) /\ Len(Parts[k]) \in Nat
               /\ burstReq[k - 1] = None => Len(Parts[k]) = 0
               /\ burstReq[k - 1] # None =>
                    Len(Parts[k]) = totalReqNum[burstReq[k - 1]]
               /\ \A j \in 1 .. Len(Parts[k]) : Parts[k][j] \in Req /\ Parts[k][j].burst = burstReq[k - 1]
    <2>1. k - 1 \in Port
      BY <1>1
    <2>2. CASE burstReq[k - 1] = None
      <3>1. Parts[k] = <<>>
        BY <2>2 DEF Parts
      <3>2. <<>> \in Seq(Req) /\ Len(<<>>) = 0
        OBVIOUS
      <3> QED BY <2>2, <3>1, <3>2
    <2>3. CASE burstReq[k - 1] # None
      <3> DEFINE c == burstReq[k - 1]
                 s == Requests[c]
      <3>1. Parts[k] = s /\ c \in Id
        BY <1>2, <2>1, <2>3 DEF Parts
      <3> HIDE DEF c
      <3>2. s \in Seq(Req) /\ Len(s) = totalReqNum[c] /\ \A j \in 1 .. Len(s) : s[j].burst = c
        BY <3>1, Cutting
      <3> HIDE DEF s
      <3>3. \A j \in 1 .. Len(s) : s[j] \in Req
        BY <3>2
      <3>4. Len(s) \in Nat
        BY <3>2
      <3> QED BY <2>3, <3>1, <3>2, <3>3, <3>4 DEF c
    <2> QED BY <2>2, <2>3
  <1>4. Parts \in Seq(Seq(Req)) /\ Len(Parts) = PNUM
    <2> DEFINE Lists == Seq(Req)
    <2>1. Parts = [k \in 1 .. PNUM |-> Parts[k]] /\ \A k \in 1 .. PNUM : Parts[k] \in Lists
      BY <1>3 DEF Parts
    <2> HIDE DEF Lists
    <2>2. Parts \in [1 .. PNUM -> Lists]
      BY <2>1
    <2>3. Parts \in Seq(Lists) /\ Len(Parts) = PNUM
      BY <1>1, <2>2
    <2> QED BY <2>3 DEF Lists
  <1>5. FlattenSeq(Parts) \in Seq(Req)
    BY <1>4, FlatType
  <1>6. ASSUME NEW b \in Id PROVE Tally(FlattenSeq(Parts), Of(b)) = IF b \in Arriving THEN totalReqNum[b] ELSE 0
    <2> DEFINE F == Of(b)
    <2>1. \A k \in 1 .. PNUM : \A j \in 1 .. Len(Parts[k]) : Parts[k][j] \in F <=> burstReq[k - 1] = b
      <3> SUFFICES ASSUME NEW k \in 1 .. PNUM, NEW j \in 1 .. Len(Parts[k])
                   PROVE  Parts[k][j] \in F <=> burstReq[k - 1] = b
        OBVIOUS
      <3>1. Parts[k][j] \in Item /\ Parts[k][j].burst = burstReq[k - 1]
        BY <1>3 DEF Item
      <3> QED BY <3>1, Items
    <2>2. \A k \in 1 .. PNUM : burstReq[k - 1] = b => k = b[1] + 1 /\ b \in Arriving
      <3> SUFFICES ASSUME NEW k \in 1 .. PNUM, burstReq[k - 1] = b PROVE k = b[1] + 1 /\ b \in Arriving
        OBVIOUS
      <3>1. b # None
        BY WorkAssumption
      <3>2. b[1] = k - 1
        BY <1>1, <1>2, <3>1
      <3>3. k \in Int
        OBVIOUS
      <3> QED BY <3>2, <3>3 DEF Arriving
    <2> HIDE DEF F
    <2>3. CASE b \in Arriving
      <3> DEFINE h == b[1] + 1
      <3>1. b[1] \in Port /\ burstReq[b[1]] = b /\ b # None
        BY <2>3, Ids, WorkAssumption DEF Arriving
      <3>2. h \in 1 .. PNUM /\ h - 1 = b[1]
        BY <1>1, <3>1
      <3> HIDE DEF h
      <3>3. burstReq[h - 1] = b
        BY <3>1, <3>2
      <3>4. \A j \in 1 .. Len(Parts[h]) : Parts[h][j] \in F
        BY <2>1, <3>2, <3>3
      <3>5. \A k \in 1 .. PNUM : k # h => burstReq[k - 1] # b
        BY <2>2 DEF h
      <3>6. \A k \in 1 .. PNUM : k # h => \A j \in 1 .. Len(Parts[k]) : Parts[k][j] \notin F
        BY <2>1, <3>5
      <3>7. h \in 1 .. Len(Parts) /\ \A k \in 1 .. Len(Parts) : k # h => \A j \in 1 .. Len(Parts[k]) : Parts[k][j] \notin F
        BY <1>4, <3>2, <3>6
      <3>8. Tally(FlattenSeq(Parts), F) = Len(Parts[h])
        BY <1>4, <3>4, <3>7, TallyFlattened
      <3>9. Len(Parts[h]) = totalReqNum[b]
        BY <1>3, <3>1, <3>2, <3>3
      <3> QED BY <2>3, <3>8, <3>9 DEF F
    <2>4. CASE b \notin Arriving
      <3>1. \A k \in 1 .. Len(Parts) : \A j \in 1 .. Len(Parts[k]) : Parts[k][j] \notin F
        BY <1>4, <2>1, <2>2, <2>4
      <3>2. Tally(FlattenSeq(Parts), F) = 0
        BY <1>4, <3>1, NoneFlattened
      <3> QED BY <2>4, <3>2 DEF F
    <2> QED BY <2>3, <2>4
  <1> QED BY <1>5, <1>6

\* getBurstReq: the bursts on the signals are cut and wait in order.
LEMMA GetKeeps == ASSUME WrapperInv, getBurstReq PROVE WrapperInv'
  <1>0. SignalInv /\ OrderInv /\ MemoryInv /\ CountInv
    BY DEF WrapperInv
  <1>1. /\ phase = 0 /\ "getBurstReq" \notin ran /\ ran' = ran \cup {"getBurstReq"} /\ phase' = phase
        /\ posted' = posted /\ answered' = answered /\ burstReq' = burstReq /\ burstResp' = burstResp
        /\ respWritten' = respWritten /\ burstRespQueue' = burstRespQueue /\ early' = early /\ stalled' = stalled
        /\ readq' = readq /\ writeq' = writeq /\ pending' = pending
    BY DEF getBurstReq, Turn, peVars, controller
  <1>2. /\ burstReqQueue' = [i \in Port |->
             IF burstReq[i] = None THEN burstReqQueue[i] ELSE Append(burstReqQueue[i], burstReq[i])]
        /\ processedReqNum' = [b \in Id |-> IF b = burstReq[b[1]] THEN 0 ELSE processedReqNum[b]]
        /\ reqQueue' = reqQueue \o FlattenSeq(Parts)
    BY Zenon DEF getBurstReq, Parts
  <1>3. (Written' <=> Written) /\ "getBurstReq" \in ran' /\ ran' \subseteq Ran'
    BY <1>0, <1>1 DEF Written, SignalInv, Ran, Thread
  <1>4. Sent' = Sent /\ (\A i \in Port : Seen(i)' = Seen(i)) /\ Received' = [i \in Port |-> posted[i]]
    BY <1>1, <1>3 DEF Sent, Seen, Received
  <1>5. /\ PortNumbers
        /\ \A i \in Port :
                /\ Seen(i) \in Nat /\ posted[i] \in Nat /\ answered[i] \in Nat
                /\ Sent[i] = Seen(i) + (IF Written /\ respWritten[i] # None THEN 1 ELSE 0)
                /\ Received[i] = IF burstReq[i] # None /\ "getBurstReq" \notin ran THEN posted[i] - 1 ELSE posted[i]
                /\ Sent[i] \in Nat /\ Received[i] \in Int /\ Sent[i] <= Received[i] /\ Received[i] <= posted[i]
    BY <1>0, Numbers
  <1>6. \A i \in Port : /\ Received'[i] = posted[i] /\ Sent'[i] <= Received'[i]
                        /\ burstReq[i] # None => Received[i] = posted[i] - 1 /\ burstReq[i] = <<i, posted[i]>> /\ burstReq[i] \in Id
                        /\ burstReq[i] = None => Received[i] = posted[i]
    <2> SUFFICES ASSUME NEW i \in Port
                 PROVE  /\ Received'[i] = posted[i] /\ Sent'[i] <= Received'[i]
                        /\ burstReq[i] # None => Received[i] = posted[i] - 1 /\ burstReq[i] = <<i, posted[i]>> /\ burstReq[i] \in Id
                        /\ burstReq[i] = None => Received[i] = posted[i]
      OBVIOUS
    <2>1. burstReq \in [Port -> Id \cup {None}] /\ (burstReq[i] # None => burstReq[i] = <<i, posted[i]>>)
      BY <1>0 DEF SignalInv
    <2>2. burstReq[i] # None => burstReq[i] \in Id
      BY <2>1
    <2>3. Received'[i] = posted[i] /\ Sent'[i] = Sent[i]
      BY <1>4
    <2>4. Sent[i] <= posted[i]
      BY <1>5
    <2> QED BY <1>1, <1>5, <2>1, <2>2, <2>3, <2>4
  <1>7. SignalInv'
    BY <1>0, <1>1, <1>3, <1>4, <1>6 DEF SignalInv
  <1>8. OrderInv'
    <2>1. burstReqQueue \in [Port -> Seq(Id)]
      BY <1>0 DEF OrderInv
    <2>2. ASSUME NEW i \in Port
          PROVE  /\ burstReqQueue'[i] \in Seq(Id) /\ Len(burstReqQueue'[i]) = Received'[i] - Sent'[i]
                 /\ \A k \in DOMAIN burstReqQueue'[i] : burstReqQueue'[i][k] = <<i, Sent'[i] + k>>
      <3> DEFINE q == burstReqQueue[i]
                 x == burstReq[i]
                 q1 == burstReqQueue'[i]
      <3>1. q \in Seq(Id) /\ Len(q) = Received[i] - Sent[i] /\ \A k \in DOMAIN q : q[k] = <<i, Sent[i] + k>>
        BY <1>0, <2>1 DEF OrderInv
      <3>2. q1 = IF x = None THEN q ELSE Append(q, x)
        BY <1>2
      <3>3. Sent'[i] = Sent[i] /\ Received'[i] = posted[i] /\ posted[i] \in Nat /\ Sent[i] \in Nat
        BY <1>4, <1>5
      <3>4. /\ x # None => Received[i] = posted[i] - 1 /\ x = <<i, posted[i]>> /\ x \in Id
            /\ x = None => Received[i] = posted[i]
        BY <1>6
      <3> HIDE DEF q, x, q1
      <3>5. CASE x = None
        BY <3>1, <3>2, <3>3, <3>4, <3>5 DEF q1
      <3>6. CASE x # None
        <4>1. /\ q1 \in Seq(Id) /\ Len(q1) = Len(q) + 1 /\ DOMAIN q1 = DOMAIN q \cup {Len(q) + 1}
              /\ q1[Len(q) + 1] = x /\ \A k \in DOMAIN q : q1[k] = q[k]
          BY <3>1, <3>2, <3>4, <3>6, Pushed
        <4>2. Len(q1) = Received'[i] - Sent'[i] /\ posted[i] = Sent[i] + (Len(q) + 1)
          BY <3>1, <3>3, <3>4, <3>6, <4>1
        <4>3. \A k \in DOMAIN q1 : q1[k] = <<i, Sent[i] + k>>
          BY <3>1, <3>4, <3>6, <4>1, <4>2
        <4> QED BY <3>3, <4>1, <4>2, <4>3 DEF q1
      <3> QED BY <3>5, <3>6
    <2>3. burstReqQueue' \in [Port -> Seq(Id)]
      <3> DEFINE Lists == Seq(Id)
      <3>1. burstReqQueue' = [i \in Port |-> burstReqQueue'[i]] /\ \A i \in Port : burstReqQueue'[i] \in Lists
        BY <1>2, <2>2
      <3> HIDE DEF Lists
      <3>2. burstReqQueue' \in [Port -> Lists]
        BY <3>1
      <3> QED BY <3>2 DEF Lists
    <2> QED BY <2>2, <2>3 DEF OrderInv
  <1>9. /\ FlattenSeq(Parts) \in Seq(Req)
        /\ \A b \in Id : Tally(FlattenSeq(Parts), Of(b)) = IF b \in Arriving THEN totalReqNum[b] ELSE 0
    BY <1>0, PartsJoined
  <1>10. MemoryInv'
    <2>1. reqQueue \in Seq(Req)
      BY <1>0 DEF MemoryInv
    <2>2. reqQueue' \in Seq(Req)
      BY <1>2, <1>9, <2>1, Joined
    <2> QED BY <1>0, <1>1, <2>2 DEF MemoryInv
  <1>11. Left' = [b \in Id |-> IF b \in Arriving THEN totalReqNum[b] ELSE Left[b]]
    <2>1. /\ reqQueue \in Seq(Item) /\ stalled \in Seq(Item) /\ readq \in Seq(Item) /\ pending \in Seq(Item)
          /\ FlattenSeq(Parts) \in Seq(Item)
      BY <1>0, <1>9, Items DEF MemoryInv
    <2>2. Left' = LeftOf(reqQueue \o FlattenSeq(Parts), stalled, readq, pending)
      BY <1>1, <1>2 DEF Left
    <2>3. ASSUME NEW b \in Id PROVE Left'[b] = IF b \in Arriving THEN totalReqNum[b] ELSE Left[b]
      <3> DEFINE F == Of(b)
                 u == FlattenSeq(Parts)
      <3>1. Tally(reqQueue \o u, F) = Tally(reqQueue, F) + Tally(u, F)
        <4> HIDE DEF F, u
        <4> QED BY <2>1, TallyJoined DEF u
      <3>2. Left'[b] = Tally(reqQueue \o u, F) + Tally(stalled, F) + Tally(readq, F) + Tally(pending, F)
        BY <2>2, Zenon DEF LeftOf
      <3>3. Left[b] = Tally(reqQueue, F) + Tally(stalled, F) + Tally(readq, F) + Tally(pending, F)
        BY Zenon DEF Left, LeftOf
      <3>4. Tally(u, F) = IF b \in Arriving THEN totalReqNum[b] ELSE 0
        BY <1>9
      <3>5. Tally(reqQueue, F) \in Nat /\ Tally(stalled, F) \in Nat /\ Tally(readq, F) \in Nat /\ Tally(pending, F) \in Nat
        BY <2>1, LeftTyped DEF SumOf
      <3>6. b \in Arriving => Left[b] = 0
        <4> SUFFICES ASSUME b \in Arriving PROVE Left[b] = 0
          OBVIOUS
        <4>1. b[1] \in Port /\ b[2] \in Int /\ burstReq[b[1]] = b /\ b # None
          BY Ids, WorkAssumption DEF Arriving
        <4>2. b[2] > Received[b[1]]
          <5>1. Received[b[1]] = posted[b[1]] - 1 /\ b = <<b[1], posted[b[1]]>>
            BY <1>6, <4>1
          <5>2. b[2] = posted[b[1]] /\ posted[b[1]] \in Nat
            BY <1>5, <4>1, <5>1
          <5> QED BY <5>1, <5>2
        <4>3. \A c \in Id : c[2] > Received[c[1]] => Left[c] = 0
          BY <1>0 DEF CountInv, Accounted
        <4> QED BY <4>2, <4>3
      <3>7. totalReqNum[b] \in Nat
        BY Cutting
      <3> HIDE DEF u, F
      <3> QED BY <3>1, <3>2, <3>3, <3>4, <3>5, <3>6, <3>7
    <2>4. Left' = [b \in Id |-> Left'[b]]
      BY <2>2 DEF LeftOf
    <2> QED BY <2>3, <2>4
  <1>12. CountInv'
    <2> DEFINE processed1 == [b \in Id |-> IF b \in Arriving THEN 0 ELSE processedReqNum[b]]
    <2>1. Accounted(processedReqNum, burstRespQueue, Left, Sent, Received) /\ Sent \in [Port -> Int] /\ Received \in [Port -> Int]
      BY <1>0, <1>5 DEF CountInv, PortNumbers
    <2>2. Received' \in [Port -> Int] /\ \A i \in Port : Sent[i] <= Received[i] /\ Received[i] <= Received'[i]
      BY <1>4, <1>5
    <2>3. Arriving \in SUBSET Id /\ \A b \in Id : b \in Arriving <=> Received[b[1]] < b[2] /\ b[2] <= Received'[b[1]]
      <3>1. ASSUME NEW b \in Id PROVE b \in Arriving <=> Received[b[1]] < b[2] /\ b[2] <= Received'[b[1]]
        <4> DEFINE i == b[1]
        <4>1. i \in Port /\ b[2] \in Int /\ b = <<i, b[2]>> /\ b # None
          BY Ids, WorkAssumption
        <4> HIDE DEF i
        <4>2. /\ Received'[i] = posted[i] /\ posted[i] \in Nat
              /\ burstReq[i] # None => Received[i] = posted[i] - 1 /\ burstReq[i] = <<i, posted[i]>>
              /\ burstReq[i] = None => Received[i] = posted[i]
          BY <1>5, <1>6, <4>1
        <4>3. b \in Arriving <=> burstReq[i] = b
          BY DEF Arriving, i
        <4>4. CASE burstReq[i] = None
          BY <4>1, <4>2, <4>3, <4>4 DEF i
        <4>5. CASE burstReq[i] # None
          <5>1. b = burstReq[i] <=> b[2] = posted[i]
            BY <4>1, <4>2, <4>5
          <5>2. Received[i] < b[2] /\ b[2] <= Received'[i] <=> b[2] = posted[i]
            BY <4>1, <4>2, <4>5
          <5> QED BY <4>3, <5>1, <5>2 DEF i
        <4> QED BY <4>4, <4>5
      <3> QED BY <3>1 DEF Arriving
    <2>4. processedReqNum' = processed1
      <3>1. \A b \in Id : b \in Arriving <=> b = burstReq[b[1]]
        BY DEF Arriving
      <3> QED BY <1>2, <3>1
    <2>5. Accounted(processed1, burstRespQueue, Left', Sent, Received')
      <3> DEFINE left1 == Left'
                 hi1 == Received'
      <3>1. left1 = [b \in Id |-> IF b \in Arriving THEN totalReqNum[b] ELSE Left[b]]
        BY <1>11
      <3>2. hi1 \in [Port -> Int] /\ \A i \in Port : Sent[i] <= Received[i] /\ Received[i] <= hi1[i]
        BY <2>2
      <3>3. Arriving \in SUBSET Id /\ \A b \in Id : b \in Arriving <=> Received[b[1]] < b[2] /\ b[2] <= hi1[b[1]]
        BY <2>3
      <3>4. processed1 = [b \in Id |-> IF b \in Arriving THEN 0 ELSE processedReqNum[b]]
        OBVIOUS
      <3> HIDE DEF left1, hi1, processed1
      <3>5. Accounted(processed1, burstRespQueue, left1, Sent, hi1)
        <4>1. Accounted(processedReqNum, burstRespQueue, Left, Sent, Received) /\ Arriving \in SUBSET Id
          BY <2>1, <3>3
        <4>2. Sent \in [Port -> Int] /\ Received \in [Port -> Int] /\ hi1 \in [Port -> Int]
          BY <2>1, <3>2
        <4>3. \A i \in Port : Sent[i] <= Received[i] /\ Received[i] <= hi1[i]
          BY <3>2
        <4>4. \A b \in Id : b \in Arriving <=> Received[b[1]] < b[2] /\ b[2] <= hi1[b[1]]
          BY <3>3
        <4> QED BY <3>1, <3>4, <4>1, <4>2, <4>3, <4>4, ReceiveKeeps, ZenonT(30)
      <3> QED BY <3>5 DEF left1, hi1
    <2> HIDE DEF processed1
    <2> QED BY <1>1, <1>4, <2>4, <2>5, Zenon DEF CountInv
  <1> QED BY <1>7, <1>8, <1>10, <1>12 DEF WrapperInv

\* The oldest burst of each port is answered if it is complete.
Answered == {i \in Port : burstReqQueue[i] # <<>> /\ Found(i)}

LEMMA SendSteps ==
    ASSUME WrapperInv, sendBurstResp
    PROVE  /\ phase = 0 /\ ~Written /\ Written' /\ ran' = ran \cup {"sendBurstResp"}
           /\ UNCHANGED <<phase, peVars, reqQueue, processedReqNum, early, stalled, controller>>
           /\ respWritten' = [i \in Port |-> IF i \in Answered THEN Head(burstReqQueue[i]) ELSE None]
           /\ burstRespQueue' = [i \in Port |->
                IF i \in Answered THEN RemoveFirst(burstRespQueue[i], Head(burstReqQueue[i])) ELSE burstRespQueue[i]]
           /\ burstReqQueue' = [i \in Port |-> IF i \in Answered THEN Tail(burstReqQueue[i]) ELSE burstReqQueue[i]]
  <1> DEFINE sent == {i \in Port : burstReqQueue[i] # <<>> /\ Found(i) /\ Head(burstReqQueue[i]) \notin early}
  <1>1. early = {}
    BY DEF WrapperInv, MemoryInv
  <1>2. sent = Answered
    BY <1>1 DEF Answered
  <1>3. \A i \in Port : Resp(i) = IF i \in Answered THEN Head(burstReqQueue[i]) ELSE None
    BY <1>1 DEF Resp, Answered
  <1>4. /\ respWritten' = [i \in Port |-> Resp(i)]
        /\ burstRespQueue' = [i \in Port |->
             IF i \in sent THEN RemoveFirst(burstRespQueue[i], Head(burstReqQueue[i])) ELSE burstRespQueue[i]]
        /\ burstReqQueue' = [i \in Port |-> IF i \in sent THEN Tail(burstReqQueue[i]) ELSE burstReqQueue[i]]
    BY Zenon DEF sendBurstResp
  <1>5. /\ phase = 0 /\ Turn("sendBurstResp")
        /\ UNCHANGED <<phase, peVars, reqQueue, processedReqNum, early, stalled, controller>>
    BY Zenon DEF sendBurstResp
  <1>6. ~Written /\ Written' /\ ran' = ran \cup {"sendBurstResp"}
    BY <1>5 DEF Turn, Written
  <1> HIDE DEF sent
  <1>7. respWritten' = [i \in Port |-> IF i \in Answered THEN Head(burstReqQueue[i]) ELSE None]
    BY <1>3, <1>4
  <1> QED BY <1>2, <1>4, <1>5, <1>6, <1>7, Zenon

LEMMA SendKeeps == ASSUME WrapperInv, sendBurstResp PROVE WrapperInv'
  <1>0. SignalInv /\ OrderInv /\ MemoryInv /\ CountInv
    BY DEF WrapperInv
  <1>1. /\ phase = 0 /\ phase' = phase /\ ~Written /\ Written' /\ ran' = ran \cup {"sendBurstResp"}
        /\ posted' = posted /\ answered' = answered /\ burstReq' = burstReq /\ burstResp' = burstResp
        /\ reqQueue' = reqQueue /\ processedReqNum' = processedReqNum /\ early' = early /\ stalled' = stalled
        /\ readq' = readq /\ writeq' = writeq /\ pending' = pending
    BY SendSteps DEF peVars, controller
  <1>2. /\ respWritten' = [i \in Port |-> IF i \in Answered THEN Head(burstReqQueue[i]) ELSE None]
        /\ burstRespQueue' = [i \in Port |->
             IF i \in Answered THEN RemoveFirst(burstRespQueue[i], Head(burstReqQueue[i])) ELSE burstRespQueue[i]]
        /\ burstReqQueue' = [i \in Port |-> IF i \in Answered THEN Tail(burstReqQueue[i]) ELSE burstReqQueue[i]]
    BY SendSteps, Zenon
  <1>3. PortNumbers /\ \A i \in Port :
          /\ Seen(i) \in Nat /\ Sent[i] = Seen(i) /\ Sent[i] \in Nat /\ Received[i] \in Int /\ Sent[i] <= Received[i]
    BY <1>0, <1>1, Numbers
  <1>4. \A i \in Answered : /\ i \in Port /\ Head(burstReqQueue[i]) = <<i, Sent[i] + 1>> /\ Head(burstReqQueue[i]) \in Id
                            /\ Sent[i] + 1 <= Received[i] /\ Tail(burstReqQueue[i]) \in Seq(Id)
                            /\ Len(Tail(burstReqQueue[i])) = Received[i] - (Sent[i] + 1)
                            /\ \A k \in DOMAIN Tail(burstReqQueue[i]) :
                                 Tail(burstReqQueue[i])[k] = <<i, (Sent[i] + 1) + k>>
    <2> SUFFICES ASSUME NEW i \in Answered
                 PROVE  /\ i \in Port /\ Head(burstReqQueue[i]) = <<i, Sent[i] + 1>> /\ Head(burstReqQueue[i]) \in Id
                        /\ Sent[i] + 1 <= Received[i] /\ Tail(burstReqQueue[i]) \in Seq(Id)
                        /\ Len(Tail(burstReqQueue[i])) = Received[i] - (Sent[i] + 1)
                        /\ \A k \in DOMAIN Tail(burstReqQueue[i]) :
                             Tail(burstReqQueue[i])[k] = <<i, (Sent[i] + 1) + k>>
      OBVIOUS
    <2> DEFINE q == burstReqQueue[i]
               z == Tail(q)
               lo == Sent[i]
    <2>1. i \in Port /\ q # <<>>
      BY DEF Answered
    <2>2. q \in Seq(Id) /\ Len(q) = Received[i] - lo /\ \A k \in DOMAIN q : q[k] = <<i, lo + k>>
      BY <1>0, <2>1 DEF OrderInv
    <2>3. lo \in Nat /\ Received[i] \in Int
      BY <1>3, <2>1
    <2> HIDE DEF q, lo
    <2>4. /\ Head(q) \in Id /\ Head(q) = q[1] /\ 1 \in 1 .. Len(q) /\ z \in Seq(Id) /\ Len(z) = Len(q) - 1
          /\ \A k \in 1 .. Len(q) - 1 : z[k] = q[k + 1]
      BY <2>1, <2>2, Rest
    <2>5. DOMAIN q = 1 .. Len(q) /\ Len(q) \in Nat
      BY <2>2
    <2> HIDE DEF z
    <2>6. DOMAIN z = 1 .. Len(z)
      BY <2>4
    <2>7. Head(q) = <<i, lo + 1>> /\ lo + 1 <= Received[i] /\ Len(z) = Received[i] - (lo + 1)
      BY <2>2, <2>3, <2>4, <2>5
    <2>8. ASSUME NEW k \in DOMAIN z PROVE z[k] = <<i, (lo + 1) + k>>
      <3>1. k \in 1 .. Len(q) - 1 /\ k + 1 \in DOMAIN q
        BY <2>4, <2>5, <2>6
      <3>2. z[k] = <<i, lo + (k + 1)>>
        BY <2>2, <2>4, <3>1
      <3>3. lo + (k + 1) = (lo + 1) + k
        BY <2>3, <3>1
      <3> QED BY <3>2, <3>3
    <2> QED BY <2>1, <2>4, <2>7, <2>8 DEF q, z, lo
  <1>5. None \notin Id
    BY WorkAssumption
  <1>6. /\ Received' = Received
        /\ Sent' = [i \in Port |-> IF i \in Answered THEN Sent[i] + 1 ELSE Sent[i]]
        /\ \A i \in Port : Seen(i)' = Seen(i) /\ Sent'[i] = (IF i \in Answered THEN Sent[i] + 1 ELSE Sent[i])
    <2>1. Received' = Received
      <3>1. "getBurstReq" \in ran' <=> "getBurstReq" \in ran
        BY <1>1
      <3> QED BY <1>1, <3>1 DEF Received
    <2>2. \A i \in Port : Seen(i)' = Seen(i)
      BY <1>1 DEF Seen
    <2>3. \A i \in Port : respWritten'[i] # None <=> i \in Answered
      BY <1>2, <1>4, <1>5
    <2>4. Sent' = [i \in Port |-> Seen(i)' + (IF Written' /\ respWritten'[i] # None THEN 1 ELSE 0)]
      BY DEF Sent
    <2>5. Sent' = [i \in Port |-> IF i \in Answered THEN Sent[i] + 1 ELSE Sent[i]]
      BY <1>1, <1>3, <2>2, <2>3, <2>4
    <2> QED BY <2>1, <2>2, <2>5
  <1>7. SignalInv'
    <2>1. ran' \subseteq Ran' /\ phase' \in 0 .. Ratio - 1
      BY <1>0, <1>1 DEF SignalInv, Ran, Thread
    <2>2. respWritten' \in [Port -> Id \cup {None}]
      BY <1>2, <1>4
    <2>3. ASSUME NEW i \in Port
          PROVE  /\ respWritten'[i] # None => respWritten'[i] = <<i, Seen(i)' + 1>>
                 /\ Sent'[i] <= Received'[i]
      <3>1. CASE i \in Answered
        BY <1>2, <1>3, <1>4, <1>6, <3>1
      <3>2. CASE i \notin Answered
        BY <1>2, <1>3, <1>6, <3>2
      <3> QED BY <3>1, <3>2
    <2> QED BY <1>0, <1>1, <2>1, <2>2, <2>3 DEF SignalInv
  <1>8. OrderInv'
    <2>1. ASSUME NEW i \in Port
          PROVE  /\ burstReqQueue'[i] \in Seq(Id) /\ Len(burstReqQueue'[i]) = Received'[i] - Sent'[i]
                 /\ \A k \in DOMAIN burstReqQueue'[i] : burstReqQueue'[i][k] = <<i, Sent'[i] + k>>
      <3>1. CASE i \in Answered
        <4>1. burstReqQueue'[i] = Tail(burstReqQueue[i]) /\ Sent'[i] = Sent[i] + 1 /\ Received'[i] = Received[i]
          BY <1>2, <1>6, <3>1
        <4> QED BY <1>4, <3>1, <4>1, Zenon
      <3>2. CASE i \notin Answered
        <4>1. burstReqQueue'[i] = burstReqQueue[i] /\ Sent'[i] = Sent[i] /\ Received'[i] = Received[i]
          BY <1>2, <1>6, <3>2
        <4>2. /\ burstReqQueue[i] \in Seq(Id) /\ Len(burstReqQueue[i]) = Received[i] - Sent[i]
              /\ \A k \in DOMAIN burstReqQueue[i] : burstReqQueue[i][k] = <<i, Sent[i] + k>>
          BY <1>0 DEF OrderInv
        <4> QED BY <4>1, <4>2, Zenon
      <3> QED BY <3>1, <3>2
    <2>2. burstReqQueue' \in [Port -> Seq(Id)]
      <3> DEFINE Lists == Seq(Id)
      <3>1. burstReqQueue' = [i \in Port |-> burstReqQueue'[i]] /\ \A i \in Port : burstReqQueue'[i] \in Lists
        BY <1>2, <2>1
      <3> HIDE DEF Lists
      <3>2. burstReqQueue' \in [Port -> Lists]
        BY <3>1
      <3> QED BY <3>2 DEF Lists
    <2> QED BY <2>1, <2>2 DEF OrderInv
  <1>9. MemoryInv'
    BY <1>0, <1>1 DEF MemoryInv
  <1>10. CountInv'
    <2> DEFINE found1 == burstRespQueue'
               lo1 == Sent'
    <2>1. Accounted(processedReqNum, burstRespQueue, Left, Sent, Received) /\ Sent \in [Port -> Int] /\ Received \in [Port -> Int]
      BY <1>0, <1>3 DEF CountInv, PortNumbers
    <2>2. Answered \in SUBSET Port
      BY DEF Answered
    <2>3. \A i \in Answered : Contains(burstRespQueue[i], <<i, Sent[i] + 1>>)
      BY <1>4 DEF Answered, Found
    <2>4. found1 = [i \in Port |-> IF i \in Answered THEN RemoveFirst(burstRespQueue[i], <<i, Sent[i] + 1>>) ELSE burstRespQueue[i]]
      BY <1>2, <1>4
    <2>5. lo1 = [i \in Port |-> IF i \in Answered THEN Sent[i] + 1 ELSE Sent[i]]
      BY <1>6
    <2> HIDE DEF found1, lo1
    <2>6. Accounted(processedReqNum, found1, Left, lo1, Received)
      BY <2>1, <2>2, <2>3, <2>4, <2>5, AnswerKeeps, ZenonT(30)
    <2>7. Left' = Left
      BY <1>1 DEF Left
    <2> QED BY <1>1, <1>6, <2>6, <2>7, Zenon DEF CountInv, found1, lo1
  <1> QED BY <1>7, <1>8, <1>9, <1>10 DEF WrapperInv

-----------------------------------------------------------------------------
(* Time *)

\* At the end of a PE cycle the PE has seen what was on the signals, and sees
\* what was written to them.
LEMMA CycleSteps ==
    ASSUME WrapperInv, NEW P \in SUBSET Port, Advance(P), phase = 0
    PROVE  /\ Sent' = Sent /\ Received' = Received /\ SignalInv'
           /\ \A i \in Port : Received[i] = posted[i] /\ Seen(i)' = Sent[i]
           /\ burstResp' = respWritten /\ respWritten' = respWritten
           /\ posted' = [i \in Port |-> IF i \in P THEN posted[i] + 1 ELSE posted[i]]
           /\ \A i \in Port : respWritten[i] # None => respWritten[i] = <<i, Seen(i) + 1>>
           /\ \A i \in Port : Sent[i] = Seen(i) + (IF respWritten[i] # None THEN 1 ELSE 0)
  <1>0. SignalInv
    BY DEF WrapperInv
  <1>1. /\ ran = Ran /\ ran' = {} /\ phase' = (phase + 1) % Ratio /\ respWritten' = respWritten
        /\ \A i \in P : posted[i] < Len(Work[i])
        /\ posted' = [i \in Port |-> IF i \in P THEN posted[i] + 1 ELSE posted[i]]
        /\ burstReq' = [i \in Port |-> IF i \in P THEN <<i, posted[i] + 1>> ELSE None]
        /\ answered' = [i \in Port |-> IF burstResp[i] = None THEN answered[i] ELSE answered[i] + 1]
        /\ burstResp' = respWritten
    BY DEF Advance
  <1>2. Written /\ "getBurstReq" \in ran /\ ~Written' /\ "getBurstReq" \notin ran'
    BY <1>1 DEF Written, Ran, Thread
  <1>3. PortNumbers /\ \A i \in Port :
          /\ Seen(i) \in Nat /\ posted[i] \in Nat /\ answered[i] \in Nat
          /\ Sent[i] = Seen(i) + (IF respWritten[i] # None THEN 1 ELSE 0) /\ Received[i] = posted[i]
          /\ Sent[i] \in Nat /\ Sent[i] <= Received[i]
    BY <1>0, <1>2, Numbers
  <1>4. \A i \in Port : Len(Work[i]) \in Nat /\ \A k \in 1 .. Len(Work[i]) : <<i, k>> \in Id
    BY Ids
  <1>5. None \notin Id
    BY WorkAssumption
  <1>6. \A i \in Port : /\ posted'[i] = (IF i \in P THEN posted[i] + 1 ELSE posted[i]) /\ posted'[i] <= Len(Work[i])
                        /\ posted'[i] \in Nat
                        /\ i \in P => burstReq'[i] \in Id /\ burstReq'[i] = <<i, posted[i] + 1>> /\ burstReq'[i] # None
                        /\ i \notin P => burstReq'[i] = None
    <2> SUFFICES ASSUME NEW i \in Port
                 PROVE  /\ posted'[i] = (IF i \in P THEN posted[i] + 1 ELSE posted[i]) /\ posted'[i] <= Len(Work[i])
                        /\ posted'[i] \in Nat
                        /\ i \in P => burstReq'[i] \in Id /\ burstReq'[i] = <<i, posted[i] + 1>> /\ burstReq'[i] # None
                        /\ i \notin P => burstReq'[i] = None
      OBVIOUS
    <2>1. posted[i] <= Len(Work[i]) /\ posted[i] \in Nat /\ Len(Work[i]) \in Nat
      BY <1>0, <1>3, <1>4 DEF SignalInv
    <2>2. CASE i \notin P
      BY <1>1, <2>1, <2>2
    <2>3. CASE i \in P
      <3>1. posted[i] < Len(Work[i])
        BY <1>1, <2>3
      <3>2. posted[i] + 1 \in 1 .. Len(Work[i])
        BY <2>1, <3>1
      <3>3. <<i, posted[i] + 1>> \in Id
        BY <1>4, <3>2
      <3>4. burstReq'[i] = <<i, posted[i] + 1>> /\ posted'[i] = posted[i] + 1
        BY <1>1, <2>3
      <3> QED BY <1>5, <2>1, <2>3, <3>1, <3>3, <3>4
    <2> QED BY <2>2, <2>3
  <1>7. Received' = Received
    <2>1. \A i \in Port : (IF burstReq'[i] # None /\ "getBurstReq" \notin ran' THEN posted'[i] - 1 ELSE posted'[i]) = Received[i]
      BY <1>2, <1>3, <1>6
    <2>2. Received' = [i \in Port |-> IF burstReq'[i] # None /\ "getBurstReq" \notin ran' THEN posted'[i] - 1 ELSE posted'[i]]
      BY DEF Received
    <2>3. Received' = [i \in Port |-> Received[i]] /\ Received = [i \in Port |-> Received[i]]
      <3>1. Received = [i \in Port |-> Received[i]]
        BY DEF Received
      <3> QED BY <2>1, <2>2, <3>1
    <2> QED BY <2>3
  <1>8. \A i \in Port : /\ answered'[i] = Seen(i) /\ Seen(i)' = Sent[i]
                        /\ respWritten[i] # None => respWritten[i] = <<i, Seen(i) + 1>>
    <2>1. \A i \in Port : answered'[i] = Seen(i)
      BY <1>1, <1>3 DEF Seen
    <2>2. \A i \in Port : Seen(i)' = answered'[i] + (IF respWritten[i] = None THEN 0 ELSE 1)
      BY <1>1 DEF Seen
    <2>3. \A i \in Port : respWritten[i] # None => respWritten[i] = <<i, Seen(i) + 1>>
      BY <1>0, <1>2 DEF SignalInv
    <2> QED BY <1>3, <2>1, <2>2, <2>3
  <1>9. Sent' = Sent
    <2>1. Sent' = [i \in Port |-> Seen(i)' + 0] /\ Sent = [i \in Port |-> Sent[i]]
      BY <1>2 DEF Sent
    <2>2. \A i \in Port : Seen(i)' + 0 = Sent[i]
      BY <1>3, <1>8
    <2> QED BY <2>1, <2>2
  <1>10. SignalInv'
    <2>1. ran' \subseteq Ran' /\ phase' \in 0 .. Ratio - 1
      <3>1. Ratio \in Nat \ {0} /\ phase + 1 \in Nat
        BY <1>0, WorkAssumption DEF SignalInv
      <3>2. (phase + 1) % Ratio \in 0 .. Ratio - 1
        BY <3>1, Division
      <3> QED BY <1>1, <3>2
    <2>2. posted' \in [Port -> Nat] /\ answered' \in [Port -> Nat]
      BY <1>1, <1>3
    <2>3. burstReq' \in [Port -> Id \cup {None}]
      BY <1>1, <1>6
    <2>4. burstResp' \in [Port -> Id \cup {None}] /\ respWritten' \in [Port -> Id \cup {None}]
      BY <1>0, <1>1 DEF SignalInv
    <2>5. ASSUME NEW i \in Port
          PROVE  /\ posted'[i] <= Len(Work[i])
                 /\ burstReq'[i] # None => burstReq'[i] = <<i, posted'[i]>>
                 /\ burstResp'[i] # None => burstResp'[i] = <<i, answered'[i] + 1>>
                 /\ respWritten'[i] = burstResp'[i]
                 /\ Sent'[i] <= Received'[i]
      <3>1. posted'[i] <= Len(Work[i]) /\ (burstReq'[i] # None => burstReq'[i] = <<i, posted'[i]>>)
        BY <1>6
      <3>2. burstResp'[i] # None => burstResp'[i] = <<i, answered'[i] + 1>>
        BY <1>1, <1>8
      <3> QED BY <1>1, <1>3, <1>7, <1>9, <3>1, <3>2
    <2> QED BY <1>2, <2>1, <2>2, <2>3, <2>4, <2>5 DEF SignalInv
  <1> QED BY <1>1, <1>3, <1>7, <1>8, <1>9, <1>10

\* Between two PE cycles nothing moves on the signals.
LEMMA PauseSteps ==
    ASSUME WrapperInv, NEW P \in SUBSET Port, Advance(P), phase # 0
    PROVE  Sent' = Sent /\ Received' = Received /\ SignalInv' /\ UNCHANGED peVars
  <1>0. SignalInv
    BY DEF WrapperInv
  <1>1. /\ ran = Ran /\ ran' = {} /\ phase' = (phase + 1) % Ratio /\ respWritten' = respWritten
        /\ posted' = posted /\ answered' = answered /\ burstReq' = burstReq /\ burstResp' = burstResp
    BY DEF Advance, peVars
  <1>2. ~Written /\ "getBurstReq" \notin ran /\ ~Written' /\ "getBurstReq" \notin ran'
    BY <1>1 DEF Written, Ran, InMemClk
  <1>3. Sent' = Sent /\ Received' = Received /\ \A i \in Port : Seen(i)' = Seen(i)
    BY <1>1, <1>2 DEF Sent, Received, Seen
  <1>4. phase' \in 0 .. Ratio - 1 /\ ran' \subseteq Ran'
    <2>1. Ratio \in Nat \ {0} /\ phase + 1 \in Nat
      BY <1>0, WorkAssumption DEF SignalInv
    <2>2. (phase + 1) % Ratio \in 0 .. Ratio - 1
      BY <2>1, Division
    <2> QED BY <1>1, <2>2
  <1>5. SignalInv'
    BY <1>0, <1>1, <1>2, <1>3, <1>4 DEF SignalInv
  <1> QED BY <1>1, <1>3, <1>5 DEF peVars

LEMMA AdvanceKeeps == ASSUME WrapperInv, NEW P \in SUBSET Port, Advance(P) PROVE WrapperInv'
  <1>0. SignalInv /\ OrderInv /\ MemoryInv /\ CountInv
    BY DEF WrapperInv
  <1>1. /\ burstReqQueue' = burstReqQueue /\ burstRespQueue' = burstRespQueue /\ reqQueue' = reqQueue
        /\ processedReqNum' = processedReqNum /\ stalled' = stalled
        /\ readq' = readq /\ writeq' = writeq /\ pending' = pending
        /\ \E past \in SUBSET early : early' = early \ past
    BY DEF Advance, controller
  <1>2. Sent' = Sent /\ Received' = Received /\ SignalInv'
    BY CycleSteps, PauseSteps
  <1>3. OrderInv'
    BY <1>0, <1>1, <1>2 DEF OrderInv
  <1>4. MemoryInv'
    BY <1>0, <1>1 DEF MemoryInv
  <1>5. Left' = Left
    BY <1>1 DEF Left
  <1>6. CountInv'
    BY <1>0, <1>1, <1>2, <1>5, Zenon DEF CountInv
  <1> QED BY <1>2, <1>3, <1>4, <1>6 DEF WrapperInv

\* A step of the memory's thread.
LEMMA RunStep == ASSUME ~TLDRAM, WrapperInv, NEW choice \in Completions, runMemSim(choice) PROVE WrapperInv'
  <1>0. SignalInv /\ OrderInv /\ MemoryInv /\ CountInv
    BY DEF WrapperInv
  <1>1. UNCHANGED <<phase, peVars, respWritten, burstReqQueue>> /\ Turn(InMemClk)
    BY Zenon DEF runMemSim
  <1>2. PortNumbers
    BY <1>0, Numbers
  <1>3. SignalInv' /\ OrderInv' /\ UNCHANGED <<Sent, Received>>
    BY <1>0, <1>1, RunSignals
  <1>4. MemoryInv' /\ CountInv'
    BY <1>0, <1>2, <1>3, RunKeeps
  <1> QED BY <1>3, <1>4 DEF WrapperInv

-----------------------------------------------------------------------------
(* The invariant holds *)

LEMMA InitWrapper == ASSUME Init PROVE WrapperInv
  <1>1. /\ phase = 0 /\ ran = {} /\ burstReq = [i \in Port |-> None] /\ burstResp = [i \in Port |-> None]
        /\ respWritten = [i \in Port |-> None] /\ posted = [i \in Port |-> 0] /\ answered = [i \in Port |-> 0]
        /\ burstReqQueue = [i \in Port |-> <<>>] /\ burstRespQueue = [i \in Port |-> <<>>]
        /\ reqQueue = <<>> /\ processedReqNum = [b \in Id |-> 0] /\ early = {}
        /\ stalled = <<>> /\ readq = <<>> /\ writeq = <<>> /\ pending = <<>>
    BY DEF Init
  <1>2. Sent = [i \in Port |-> 0] /\ Received = [i \in Port |-> 0] /\ \A i \in Port : Seen(i) = 0
    BY <1>1 DEF Sent, Received, Seen, Written
  <1>3. /\ Ratio \in Nat \ {0} /\ QueueMax \in Nat
        /\ \A i \in Port : Len(Work[i]) \in Nat
    BY Ids, WorkAssumption
  <1>4. SignalInv
    BY <1>1, <1>2, <1>3 DEF SignalInv, Written
  <1>5. \A X : <<>> \in Seq(X)
    OBVIOUS
  <1>6. Len(<<>>) = 0 /\ DOMAIN <<>> = {}
    OBVIOUS
  <1>7. OrderInv
    <2> DEFINE e == <<>>
               Lists == Seq(Id)
    <2>1. e \in Lists /\ burstReqQueue = [i \in Port |-> e] /\ Len(e) = 0 /\ DOMAIN e = {}
      BY <1>1, <1>5, <1>6
    <2> HIDE DEF e, Lists
    <2>2. burstReqQueue \in [Port -> Lists]
      BY <2>1
    <2>3. \A i \in Port : Len(burstReqQueue[i]) = Received[i] - Sent[i]
                          /\ \A k \in DOMAIN burstReqQueue[i] : burstReqQueue[i][k] = <<i, Sent[i] + k>>
      BY <1>2, <2>1
    <2> QED BY <2>2, <2>3 DEF OrderInv, Lists
  <1>8. MemoryInv
    BY <1>1, <1>3, <1>5, <1>6 DEF MemoryInv
  <1>9. Left = [b \in Id |-> 0]
    <2>1. <<>> \in Seq(Item) /\ \A k \in 1 .. Len(<<>>) : FALSE
      BY <1>5, <1>6
    <2>2. \A b \in Id : Tally(<<>>, Of(b)) = 0
      BY <2>1, TallyZero
    <2>3. Left = [b \in Id |-> Tally(<<>>, Of(b)) + Tally(<<>>, Of(b)) + Tally(<<>>, Of(b)) + Tally(<<>>, Of(b))]
      BY <1>1 DEF Left, LeftOf
    <2> QED BY <2>2, <2>3
  <1>10. CountInv
    <2> DEFINE e == <<>>
               Lists == Seq(Id)
    <2>1. e \in Lists /\ burstRespQueue = [i \in Port |-> e] /\ Len(e) = 0 /\ DOMAIN e = {}
      BY <1>1, <1>5, <1>6
    <2> HIDE DEF e, Lists
    <2>2. burstRespQueue \in [Port -> Lists]
      BY <2>1
    <2>3. \A b \in Id : ~Contains(e, b)
      BY <2>1 DEF Contains
    <2>4. \A b \in Id : b[1] \in Port /\ b[2] \in Int /\ b[2] > 0
      BY Ids
    <2>5. /\ processedReqNum \in [Id -> Nat] /\ Left \in [Id -> Nat]
          /\ \A b \in Id : processedReqNum[b] = 0 /\ Left[b] = 0
      BY <1>1, <1>9
    <2>6. \A i \in Port : Sent[i] = 0 /\ Received[i] = 0 /\ burstRespQueue[i] = e
      BY <1>2, <2>1
    <2>7. \A b \in Id : /\ b[2] <= Received[b[1]] => processedReqNum[b] + Left[b] = totalReqNum[b]
                        /\ b[2] > Received[b[1]] => processedReqNum[b] = 0 /\ Left[b] = 0
                        /\ b[2] <= Sent[b[1]] => Left[b] = 0
      BY <2>4, <2>5, <2>6
    <2>8. \A i \in Port : \A b \in Id :
            Contains(burstRespQueue[i], b) <=> b[1] = i /\ Sent[i] < b[2] /\ b[2] <= Received[i] /\ Left[b] = 0
      BY <2>3, <2>4, <2>6
    <2>9. \A i \in Port : \A j, k \in DOMAIN burstRespQueue[i] : burstRespQueue[i][j] = burstRespQueue[i][k] => j = k
      BY <2>1, <2>6
    <2> QED BY <2>2, <2>5, <2>7, <2>8, <2>9, Zenon DEF CountInv, Accounted, Lists
  <1> QED BY <1>4, <1>7, <1>8, <1>10 DEF WrapperInv

LEMMA StutterKeeps == ASSUME WrapperInv, UNCHANGED vars PROVE WrapperInv'
  <1>1. /\ phase' = phase /\ ran' = ran /\ posted' = posted /\ answered' = answered /\ burstReq' = burstReq
        /\ burstResp' = burstResp /\ respWritten' = respWritten /\ burstReqQueue' = burstReqQueue
        /\ burstRespQueue' = burstRespQueue /\ reqQueue' = reqQueue /\ processedReqNum' = processedReqNum
        /\ early' = early /\ stalled' = stalled /\ readq' = readq /\ writeq' = writeq /\ pending' = pending
    BY DEF vars, peVars, controller
  <1>2. Sent' = Sent /\ Received' = Received /\ (Written' <=> Written) /\ \A i \in Port : Seen(i)' = Seen(i)
    BY <1>1 DEF Sent, Received, Seen, Written
  <1>3. SignalInv'
    BY <1>1, <1>2 DEF WrapperInv, SignalInv, Ran
  <1>4. OrderInv' /\ MemoryInv'
    BY <1>1, <1>2 DEF WrapperInv, OrderInv, MemoryInv
  <1>5. CountInv'
    <2>1. Left' = Left
      BY <1>1 DEF Left
    <2> QED BY <1>1, <1>2, <2>1, Zenon DEF WrapperInv, CountInv
  <1> QED BY <1>3, <1>4, <1>5 DEF WrapperInv

LEMMA NextKeeps == ASSUME ~TLDRAM, WrapperInv, [Next]_vars PROVE WrapperInv'
  <1>1. CASE getBurstReq
    BY <1>1, GetKeeps
  <1>2. CASE sendBurstResp
    BY <1>2, SendKeeps
  <1>3. ASSUME NEW choice \in Completions, runMemSim(choice) PROVE WrapperInv'
    BY <1>3, RunStep
  <1>4. ASSUME NEW P \in SUBSET Port, Advance(P) PROVE WrapperInv'
    BY <1>4, AdvanceKeeps
  <1>5. CASE UNCHANGED vars
    BY <1>5, StutterKeeps
  <1> QED BY <1>1, <1>2, <1>3, <1>4, <1>5 DEF Next

\* The signals, the order of the ports' queues, the bounds of the memory's queues
\* and the counts of the requests, in every state.
THEOREM WrapperIsSound == ASSUME ~TLDRAM PROVE Spec => []WrapperInv
  <1>1. Init => WrapperInv
    BY InitWrapper
  <1>2. WrapperInv /\ [Next]_vars => WrapperInv'
    BY NextKeeps
  <1> QED BY <1>1, <1>2, PTL DEF Spec

-----------------------------------------------------------------------------
(* What the invariant means *)

\* A burst that was answered is not in the memory any more; one that was received
\* and not answered is counted, and found exactly when it is complete.
LEMMA WhereBurstsAre ==
    ASSUME WrapperInv
    PROVE  /\ \A b \in Id : b[2] <= Sent[b[1]] => Unprocessed(b) = 0
           /\ \A b \in Id : Sent[b[1]] < b[2] /\ b[2] <= Received[b[1]] =>
                /\ processedReqNum[b] + Unprocessed(b) = totalReqNum[b]
                /\ Contains(burstRespQueue[b[1]], b) <=> Unprocessed(b) = 0
           /\ \A b \in Id : 0 <= processedReqNum[b] /\ processedReqNum[b] <= totalReqNum[b]
           /\ \A i \in Port : \A b \in ToSet(burstReqQueue[i]) :
                b \in Id /\ b[1] = i /\ Sent[i] < b[2] /\ b[2] <= Received[i]
           /\ \A i \in Port : \A b \in ToSet(burstRespQueue[i]) : b \in Id /\ b[1] = i
  <1>0. OrderInv /\ MemoryInv /\ Accounted(processedReqNum, burstRespQueue, Left, Sent, Received)
    BY DEF WrapperInv, CountInv
  <1>1. /\ processedReqNum \in [Id -> Nat] /\ Left \in [Id -> Nat] /\ burstRespQueue \in [Port -> Seq(Id)]
        /\ \A b \in Id : /\ b[2] <= Received[b[1]] => processedReqNum[b] + Left[b] = totalReqNum[b]
                         /\ b[2] > Received[b[1]] => processedReqNum[b] = 0 /\ Left[b] = 0
                         /\ b[2] <= Sent[b[1]] => Left[b] = 0
        /\ \A i \in Port : \A b \in Id :
             Contains(burstRespQueue[i], b) <=> b[1] = i /\ Sent[i] < b[2] /\ b[2] <= Received[i] /\ Left[b] = 0
    BY <1>0, Zenon DEF Accounted
  <1>2. \A b \in Id : Left[b] = Unprocessed(b)
    BY <1>0, LeftIsUnprocessed
  <1>3. \A b \in Id : b[1] \in Port /\ b[2] \in Int
    BY Ids
  <1>4. \A i \in Port : Sent[i] \in Nat /\ Received[i] \in Int
    BY Numbers DEF WrapperInv
  <1>5. ASSUME NEW b \in Id PROVE 0 <= processedReqNum[b] /\ processedReqNum[b] <= totalReqNum[b]
    <2> DEFINE p == b[1]
    <2>1. /\ b[2] \in Int /\ Received[p] \in Int /\ processedReqNum[b] \in Nat /\ Left[b] \in Nat /\ totalReqNum[b] \in Nat
      BY <1>1, <1>3, <1>4, Cutting
    <2>2. /\ b[2] <= Received[p] => processedReqNum[b] + Left[b] = totalReqNum[b]
          /\ b[2] > Received[p] => processedReqNum[b] = 0
      BY <1>1
    <2> HIDE DEF p
    <2> QED BY <2>1, <2>2
  <1>6. ASSUME NEW i \in Port, NEW b \in ToSet(burstReqQueue[i])
        PROVE  b \in Id /\ b[1] = i /\ Sent[i] < b[2] /\ b[2] <= Received[i]
    <2> DEFINE q == burstReqQueue[i]
    <2>1. q \in Seq(Id) /\ Len(q) = Received[i] - Sent[i] /\ \A k \in DOMAIN q : q[k] = <<i, Sent[i] + k>>
      BY <1>0 DEF OrderInv
    <2>2. PICK k \in DOMAIN q : b = q[k]
      BY DEF ToSet
    <2> HIDE DEF q
    <2>3. k \in 1 .. Len(q) /\ q[k] \in Id
      BY <2>1
    <2>4. b = <<i, Sent[i] + k>>
      BY <2>1, <2>2
    <2> QED BY <1>4, <2>1, <2>2, <2>3, <2>4
  <1>7. ASSUME NEW i \in Port, NEW b \in ToSet(burstRespQueue[i]) PROVE b \in Id /\ b[1] = i
    <2> DEFINE q == burstRespQueue[i]
    <2>1. q \in Seq(Id)
      BY <1>1
    <2>2. PICK k \in DOMAIN q : b = q[k]
      BY DEF ToSet
    <2>3. b \in Id /\ Contains(q, b)
      <3> HIDE DEF q
      <3>1. DOMAIN q = 1 .. Len(q) /\ q[k] \in Id
        BY <2>1, <2>2
      <3> QED BY <2>2, <3>1 DEF Contains
    <2> QED BY <1>1, <2>3
  <1>8. ASSUME NEW b \in Id, b[2] <= Sent[b[1]] PROVE Unprocessed(b) = 0
    BY <1>1, <1>2, <1>8
  <1>9. ASSUME NEW b \in Id, Sent[b[1]] < b[2], b[2] <= Received[b[1]]
        PROVE  /\ processedReqNum[b] + Unprocessed(b) = totalReqNum[b]
               /\ Contains(burstRespQueue[b[1]], b) <=> Unprocessed(b) = 0
    <2>1. Left[b] = Unprocessed(b) /\ b[1] \in Port
      BY <1>2, <1>3
    <2>2. processedReqNum[b] + Left[b] = totalReqNum[b]
      BY <1>1, <1>9
    <2>3. Contains(burstRespQueue[b[1]], b) <=> Left[b] = 0
      BY <1>1, <1>9, <2>1
    <2> QED BY <2>1, <2>2, <2>3
  <1> QED BY <1>5, <1>6, <1>7, <1>8, <1>9

\* What a signal shows is a burst of its port that was sent.
LEMMA OnSignals ==
    ASSUME WrapperInv, NEW i \in Port
    PROVE  /\ burstReq[i] # None => burstReq[i] \in Id /\ burstReq[i][1] = i
           /\ burstResp[i] # None => burstResp[i] \in Id /\ burstResp[i][1] = i /\ burstResp[i][2] <= Sent[i]
           /\ respWritten[i] # None => respWritten[i] \in Id /\ respWritten[i][1] = i /\ respWritten[i][2] <= Sent[i]
  <1>1. /\ burstReq[i] # None => burstReq[i] \in Id /\ burstReq[i] = <<i, posted[i]>>
        /\ burstResp[i] # None => burstResp[i] \in Id /\ burstResp[i] = <<i, answered[i] + 1>>
        /\ respWritten[i] # None => respWritten[i] \in Id
        /\ ~Written => respWritten[i] = burstResp[i]
        /\ Written /\ respWritten[i] # None => respWritten[i] = <<i, Seen(i) + 1>>
    <2>1. /\ burstReq \in [Port -> Id \cup {None}] /\ burstResp \in [Port -> Id \cup {None}]
          /\ respWritten \in [Port -> Id \cup {None}]
      BY DEF WrapperInv, SignalInv
    <2>2. /\ burstReq[i] # None => burstReq[i] = <<i, posted[i]>>
          /\ burstResp[i] # None => burstResp[i] = <<i, answered[i] + 1>>
          /\ ~Written => respWritten[i] = burstResp[i]
          /\ Written /\ respWritten[i] # None => respWritten[i] = <<i, Seen(i) + 1>>
      BY DEF WrapperInv, SignalInv
    <2> QED BY <2>1, <2>2
  <1>2. /\ Seen(i) \in Nat /\ answered[i] \in Nat
        /\ Sent[i] = Seen(i) + (IF Written /\ respWritten[i] # None THEN 1 ELSE 0)
    BY Numbers DEF WrapperInv
  <1>3. Seen(i) = answered[i] + (IF burstResp[i] = None THEN 0 ELSE 1)
    BY DEF Seen
  <1>4. burstReq[i] # None => burstReq[i][1] = i
    BY <1>1
  <1>5. burstResp[i] # None => burstResp[i][1] = i /\ burstResp[i][2] <= Sent[i]
    BY <1>1, <1>2, <1>3
  <1>6. respWritten[i] # None => respWritten[i][1] = i /\ respWritten[i][2] <= Sent[i]
    <2>1. CASE Written
      BY <1>1, <1>2, <2>1
    <2>2. CASE ~Written
      BY <1>1, <1>5, <2>2
    <2> QED BY <2>1, <2>2
  <1> QED BY <1>1, <1>4, <1>5, <1>6

LEMMA InvTypes == ASSUME WrapperInv PROVE TypeOK
  <1>1. /\ phase \in 0 .. Ratio - 1 /\ ran \subseteq Thread
        /\ Len(stalled) <= 1 /\ Len(readq) <= QueueMax /\ Len(writeq) <= QueueMax
    BY DEF WrapperInv, SignalInv, MemoryInv, Ran, Thread
  <1>2. \A i \in Port : \A b \in Id : b[1] = i => b \in MaybeBurst(i)
    BY Ids DEF MaybeBurst
  <1>3. ASSUME NEW i \in Port
        PROVE  /\ {burstReq[i], burstResp[i], respWritten[i]} \subseteq MaybeBurst(i)
               /\ 0 <= answered[i] /\ answered[i] <= posted[i] /\ posted[i] <= Len(Work[i])
               /\ ToSet(burstReqQueue[i]) \cup ToSet(burstRespQueue[i]) \subseteq MaybeBurst(i)
    <2>1. None \in MaybeBurst(i)
      BY DEF MaybeBurst
    <2>2. {burstReq[i], burstResp[i], respWritten[i]} \subseteq MaybeBurst(i)
      BY <1>2, <2>1, OnSignals
    <2>3. 0 <= answered[i] /\ answered[i] <= posted[i] /\ posted[i] <= Len(Work[i])
      <3>1. /\ Seen(i) \in Nat /\ posted[i] \in Nat /\ answered[i] \in Nat
            /\ Sent[i] = Seen(i) + (IF Written /\ respWritten[i] # None THEN 1 ELSE 0)
            /\ Sent[i] \in Nat /\ Received[i] \in Int /\ Sent[i] <= Received[i] /\ Received[i] <= posted[i]
        BY Numbers DEF WrapperInv
      <3>2. Seen(i) = answered[i] + (IF burstResp[i] = None THEN 0 ELSE 1)
        BY DEF Seen
      <3>3. posted[i] <= Len(Work[i])
        BY DEF WrapperInv, SignalInv
      <3> QED BY <3>1, <3>2, <3>3
    <2>4. ToSet(burstReqQueue[i]) \cup ToSet(burstRespQueue[i]) \subseteq MaybeBurst(i)
      BY <1>2, WhereBurstsAre
    <2> QED BY <2>2, <2>3, <2>4
  <1>4. \A b \in Id : 0 <= processedReqNum[b] /\ processedReqNum[b] <= totalReqNum[b]
    BY WhereBurstsAre
  <1> QED BY <1>1, <1>3, <1>4 DEF TypeOK

LEMMA InvCounts == ASSUME WrapperInv PROVE EveryRequestCounted
  <1> SUFFICES ASSUME NEW i \in Port, NEW b \in ToSet(burstReqQueue[i])
               PROVE  /\ processedReqNum[b] + Unprocessed(b) = totalReqNum[b]
                      /\ Contains(burstRespQueue[i], b) <=> Unprocessed(b) = 0
    BY DEF EveryRequestCounted
  <1>1. b \in Id /\ b[1] = i /\ Sent[i] < b[2] /\ b[2] <= Received[i]
    BY WhereBurstsAre
  <1> QED BY <1>1, WhereBurstsAre

LEMMA InvAnswers == ASSUME WrapperInv PROVE NoEarlyAnswer
  <1> SUFFICES ASSUME NEW i \in Port, NEW b \in {burstResp[i], respWritten[i]}, b # None PROVE Unprocessed(b) = 0
    BY DEF NoEarlyAnswer
  <1>1. b \in Id /\ b[1] = i /\ b[2] <= Sent[i]
    BY OnSignals
  <1> QED BY <1>1, WhereBurstsAre

LEMMA InvOrder == ASSUME WrapperInv PROVE ResponsesInOrder
  BY DEF WrapperInv, SignalInv, ResponsesInOrder

-----------------------------------------------------------------------------
(* The theorems *)

\* The signals and queues hold bursts of their own ports, a port is never answered
\* more often than it posted, no burst is counted beyond its requests, and the
\* controller's queues keep their bound (getBurstReq, sendBurstResp, run_acc).
THEOREM WrapperTypes == ASSUME ~TLDRAM PROVE Spec => []TypeOK
  <1>1. WrapperInv => TypeOK
    BY InvTypes
  <1> QED BY <1>1, WrapperIsSound, PTL

\* From getBurstReq to sendBurstResp a basic request is in exactly one queue until
\* it is counted, and a burst is found complete exactly when none of it is left,
\* whatever the controller completes, in what order and how late.
THEOREM RequestsAreCounted == ASSUME ~TLDRAM PROVE Spec => []EveryRequestCounted
  <1>1. WrapperInv => EveryRequestCounted
    BY InvCounts
  <1> QED BY <1>1, WrapperIsSound, PTL

\* A burst on a response signal has nothing left in the memory.
THEOREM NoneIsAnsweredEarly == ASSUME ~TLDRAM PROVE Spec => []NoEarlyAnswer
  <1>1. WrapperInv => NoEarlyAnswer
    BY InvAnswers
  <1> QED BY <1>1, WrapperIsSound, PTL

\* "The memory response will be sent in the same order with its incoming order"
\* (sendBurstResp): true whenever the callback is called once per request.
THEOREM AnsweredInOrder == ASSUME ~TLDRAM PROVE Spec => []ResponsesInOrder
  <1>1. WrapperInv => ResponsesInOrder
    BY InvOrder
  <1> QED BY <1>1, WrapperIsSound, PTL

-----------------------------------------------------------------------------
(* Towards the PE: a first-in first-out memory per port *)

\* The bursts of port i after the first lo, up to the first hi.
Between(i, lo, hi) == [k \in 1 .. hi - lo |-> <<i, lo + k>>]

LEMMA BetweenSteps ==
    ASSUME NEW i, NEW lo \in Nat, NEW hi \in Nat, lo <= hi
    PROVE  /\ lo < hi => /\ Between(i, lo, hi) # <<>> /\ Head(Between(i, lo, hi)) = <<i, lo + 1>>
                         /\ Tail(Between(i, lo, hi)) = Between(i, lo + 1, hi)
                         /\ Between(i, lo, hi)[Len(Between(i, lo, hi))] = <<i, hi>>
           /\ Append(Between(i, lo, hi), <<i, hi + 1>>) = Between(i, lo, hi + 1)
  <1> DEFINE n == hi - lo
             s == Between(i, lo, hi)
             X == {i} \X Nat
  <1>1. n \in Nat
    OBVIOUS
  <1>2. \A m \in 0 .. hi : hi - m \in Nat /\ Between(i, m, hi) \in Seq(X) /\ Len(Between(i, m, hi)) = hi - m
                           /\ \A k \in 1 .. hi - m : Between(i, m, hi)[k] = <<i, m + k>>
    BY DEF Between
  <1>3. s \in Seq(X) /\ Len(s) = n /\ DOMAIN s = 1 .. n /\ \A k \in 1 .. n : s[k] = <<i, lo + k>>
    BY <1>2 DEF Between
  <1>4. ASSUME lo < hi
        PROVE  s # <<>> /\ Head(s) = <<i, lo + 1>> /\ Tail(s) = Between(i, lo + 1, hi) /\ s[Len(s)] = <<i, hi>>
    <2> DEFINE z == Between(i, lo + 1, hi)
    <2>1. z \in Seq(X) /\ Len(z) = n - 1 /\ \A k \in 1 .. n - 1 : z[k] = <<i, (lo + 1) + k>>
      <3>1. lo + 1 \in 0 .. hi /\ hi - (lo + 1) = n - 1
        BY <1>4
      <3> HIDE DEF n
      <3> QED BY <1>2, <3>1
    <2>2. n \in Nat /\ n > 0 /\ lo + n = hi
      BY <1>1, <1>4
    <2>3. s # <<>>
      <3>1. Len(<<>>) = 0
        OBVIOUS
      <3> HIDE DEF s, n
      <3> QED BY <1>3, <2>2, <3>1
    <2> HIDE DEF s, z, n
    <2>4. /\ Head(s) = s[1] /\ 1 \in 1 .. Len(s) /\ Tail(s) \in Seq(X) /\ Len(Tail(s)) = Len(s) - 1
          /\ \A k \in 1 .. Len(s) - 1 : Tail(s)[k] = s[k + 1]
      BY <1>3, <2>3, Rest
    <2>5. Tail(s) = z
      <3> DEFINE u == Tail(s)
      <3>1. \A k \in 1 .. n - 1 : u[k] = z[k]
        <4> SUFFICES ASSUME NEW k \in 1 .. n - 1 PROVE Tail(s)[k] = z[k]
          OBVIOUS
        <4>1. Tail(s)[k] = <<i, lo + (k + 1)>>
          BY <1>3, <2>2, <2>4
        <4>2. lo + (k + 1) = (lo + 1) + k
          BY <2>2
        <4> QED BY <2>1, <4>1, <4>2
      <3>2. u \in Seq(X) /\ Len(u) = n - 1
        BY <1>3, <2>4
      <3> HIDE DEF u, X
      <3>3. u = z
        BY <2>1, <3>1, <3>2
      <3> QED BY <3>3 DEF u
    <2>6. Head(s) = <<i, lo + 1>> /\ s[Len(s)] = <<i, hi>>
      BY <1>3, <2>2, <2>4
    <2> QED BY <2>3, <2>5, <2>6 DEF z
  <1>5. Append(s, <<i, hi + 1>>) = Between(i, lo, hi + 1)
    <2> DEFINE x == <<i, hi + 1>>
               t == Append(s, x)
               z == Between(i, lo, hi + 1)
    <2>1. x \in X
      OBVIOUS
    <2>2. n + 1 = (hi + 1) - lo /\ lo + (n + 1) = hi + 1
      OBVIOUS
    <2>3. z \in Seq(X) /\ Len(z) = n + 1 /\ \A k \in 1 .. n + 1 : z[k] = <<i, lo + k>>
      BY <2>2 DEF Between
    <2> HIDE DEF s, X
    <2>4. t \in Seq(X) /\ Len(t) = Len(s) + 1 /\ t[Len(s) + 1] = x /\ \A k \in DOMAIN s : t[k] = s[k]
      BY <1>3, <2>1, Pushed
    <2> HIDE DEF t, z, n
    <2>5. ASSUME NEW k \in 1 .. n + 1 PROVE t[k] = z[k]
      <3>1. CASE k = n + 1
        <4>1. t[k] = <<i, hi + 1>>
          BY <1>3, <2>4, <3>1 DEF x
        <4>2. z[k] = <<i, lo + (n + 1)>>
          BY <2>3, <3>1
        <4> QED BY <2>2, <4>1, <4>2
      <3>2. CASE k # n + 1
        <4>1. k \in 1 .. n /\ k \in DOMAIN s
          BY <1>1, <1>3, <3>2
        <4> QED BY <1>3, <2>3, <2>4, <4>1
      <3> QED BY <3>1, <3>2
    <2>6. t = z
      BY <1>1, <1>3, <2>3, <2>4, <2>5
    <2> QED BY <2>6 DEF t, z
  <1> QED BY <1>4, <1>5

\* The same bursts, counted from the first of them.
Onwards(i, first, hi) == [k \in 1 .. hi - first + 1 |-> <<i, first + k - 1>>]

LEMMA OutstandingIs ==
    ASSUME NEW i, NEW first \in Nat, NEW hi \in Nat PROVE Onwards(i, first, hi) = Between(i, first - 1, hi)
  <1> DEFINE lo == first - 1
  <1>1. hi - first + 1 = hi - lo /\ \A k \in 1 .. hi - lo : first + k - 1 = lo + k
    OBVIOUS
  <1> HIDE DEF lo
  <1>2. [k \in 1 .. hi - first + 1 |-> <<i, first + k - 1>>] = [k \in 1 .. hi - lo |-> <<i, lo + k>>]
    BY <1>1
  <1> QED BY <1>2 DEF Onwards, Between, lo

LEMMA OutstandingBursts ==
    ASSUME WrapperInv, NEW i \in Port
    PROVE  Outstanding(i) = Between(i, Seen(i), posted[i]) /\ Seen(i) \in Nat /\ posted[i] \in Nat /\ Seen(i) <= posted[i]
  <1>1. /\ Seen(i) \in Nat /\ posted[i] \in Nat /\ answered[i] \in Nat
        /\ Sent[i] = Seen(i) + (IF Written /\ respWritten[i] # None THEN 1 ELSE 0)
        /\ Received[i] \in Int /\ Sent[i] <= Received[i] /\ Received[i] <= posted[i]
    BY Numbers DEF WrapperInv
  <1>2. Seen(i) <= posted[i]
    BY <1>1
  <1>3. Outstanding(i) = Between(i, Seen(i), posted[i])
    <2> DEFINE first == answered[i] + (IF burstResp[i] = None THEN 1 ELSE 2)
               hi == posted[i]
    <2>1. Outstanding(i) = Onwards(i, first, hi)
      BY DEF Outstanding, Onwards
    <2>2. first \in Nat /\ hi \in Nat /\ Seen(i) = first - 1
      BY <1>1 DEF Seen
    <2> HIDE DEF first, hi
    <2> QED BY <2>1, <2>2, OutstandingIs DEF hi
  <1> QED BY <1>1, <1>2, <1>3

\* What the PE sees of the wrapper.
Shown == <<[i \in Port |-> Outstanding(i)], burstResp>>

\* At the end of a PE cycle the ports whose signals were written are answered, and
\* those of P post their next burst.
LEMMA CycleMaps ==
    ASSUME WrapperInv, WrapperInv', NEW P \in SUBSET Port, Advance(P), phase = 0 PROVE PeMem!Next
  <1> DEFINE A == {i \in Port : respWritten[i] # None}
             old == [i \in Port |-> Outstanding(i)]
             new == [i \in Port |-> Outstanding(i)']
             last(i) == IF new[i] = <<>> THEN None ELSE new[i][Len(new[i])]
             put == [i \in Port |-> IF i \in P THEN last(i) ELSE None]
  <1>1. /\ \A i \in Port : Received[i] = posted[i] /\ Seen(i)' = Sent[i]
        /\ burstResp' = respWritten
        /\ posted' = [i \in Port |-> IF i \in P THEN posted[i] + 1 ELSE posted[i]]
        /\ \A i \in Port : respWritten[i] # None => respWritten[i] = <<i, Seen(i) + 1>>
        /\ \A i \in Port : Sent[i] = Seen(i) + (IF respWritten[i] # None THEN 1 ELSE 0)
    BY CycleSteps
  <1>2. ASSUME NEW i \in Port
        PROVE  /\ old[i] = Between(i, Seen(i), posted[i]) /\ Seen(i) \in Nat /\ posted[i] \in Nat
               /\ Sent[i] \in Nat /\ Sent[i] <= posted[i] /\ Seen(i) <= posted[i]
               /\ new[i] = Between(i, Sent[i], posted'[i])
    <2>1. Outstanding(i) = Between(i, Seen(i), posted[i]) /\ Seen(i) \in Nat /\ posted[i] \in Nat /\ Seen(i) <= posted[i]
      BY OutstandingBursts
    <2>2. Outstanding(i)' = Between(i, Seen(i)', posted'[i])
      <3>1. answered'[i] \in Nat /\ posted'[i] \in Nat
        BY DEF WrapperInv, SignalInv
      <3> DEFINE first == answered'[i] + (IF burstResp'[i] = None THEN 1 ELSE 2)
                 hi == posted'[i]
      <3>2. Outstanding(i)' = Onwards(i, first, hi)
        BY DEF Outstanding, Onwards
      <3>3. first \in Nat /\ hi \in Nat /\ Seen(i)' = first - 1
        BY <3>1 DEF Seen
      <3> HIDE DEF first, hi
      <3> QED BY <3>2, <3>3, OutstandingIs DEF hi
    <2>3. Sent[i] \in Nat /\ Sent[i] <= posted[i]
      BY <1>1, Numbers DEF WrapperInv
    <2> QED BY <1>1, <2>1, <2>2, <2>3
  <1>3. ASSUME NEW i \in A
        PROVE  /\ i \in Port /\ old[i] # <<>> /\ Head(old[i]) = respWritten[i]
               /\ Tail(old[i]) = Between(i, Sent[i], posted[i])
    <2> DEFINE lo == Seen(i)
               hi == posted[i]
               s == old[i]
    <2>1. i \in Port /\ respWritten[i] = <<i, lo + 1>> /\ Sent[i] = lo + 1
      BY <1>1
    <2>2. s = Between(i, lo, hi) /\ lo \in Nat /\ hi \in Nat /\ lo < hi /\ lo <= hi
      BY <1>2, <2>1
    <2> HIDE DEF s, lo, hi
    <2>3. s # <<>> /\ Head(s) = <<i, lo + 1>> /\ Tail(s) = Between(i, lo + 1, hi)
      BY <2>2, BetweenSteps
    <2> QED BY <2>1, <2>3 DEF s, hi
  <1>4. ASSUME NEW i \in Port
        PROVE  new[i] = LET left == IF i \in A THEN Tail(old[i]) ELSE old[i]
                        IN  IF put[i] = None THEN left ELSE Append(left, put[i])
    <2> DEFINE left == IF i \in A THEN Tail(old[i]) ELSE old[i]
               lo == Sent[i]
               hi == posted[i]
    <2>1. left = Between(i, lo, hi)
      <3>1. CASE i \in A
        BY <1>3, <3>1
      <3>2. CASE i \notin A
        <4>1. Sent[i] = Seen(i)
          BY <1>1, <1>2, <3>2
        <4>2. old[i] = Between(i, Seen(i), posted[i])
          BY <1>2
        <4> QED BY <3>2, <4>1, <4>2
      <3> QED BY <3>1, <3>2
    <2>2. lo \in Nat /\ hi \in Nat /\ lo <= hi /\ hi + 1 \in Nat /\ lo < hi + 1 /\ lo <= hi + 1
      BY <1>2
    <2>3. posted'[i] = IF i \in P THEN hi + 1 ELSE hi
      BY <1>1
    <2>4. new[i] = Between(i, lo, posted'[i])
      BY <1>2
    <2>5. put[i] = IF i \in P THEN last(i) ELSE None
      OBVIOUS
    <2> HIDE DEF left, put, lo, hi
    <2>6. CASE i \notin P
      BY <2>1, <2>3, <2>4, <2>5, <2>6 DEF left
    <2>7. CASE i \in P
      <3> DEFINE z == Between(i, lo, hi + 1)
      <3>1. new[i] = z
        BY <2>3, <2>4, <2>7
      <3>2. z # <<>> /\ z[Len(z)] = <<i, hi + 1>>
        BY <2>2, BetweenSteps, Zenon
      <3>3. Append(Between(i, lo, hi), <<i, hi + 1>>) = z
        BY <2>2, BetweenSteps
      <3>4. <<i, hi + 1>> # None
        <4>1. hi + 1 \in 1 .. Len(Work[i])
          <5>1. hi < Len(Work[i]) /\ Len(Work[i]) \in Nat
            BY <2>7, Ids DEF Advance, hi
          <5> QED BY <2>2, <5>1
        <4>2. <<i, hi + 1>> \in Id
          BY <4>1, Ids
        <4> QED BY <4>2, WorkAssumption
      <3> HIDE DEF z
      <3>5. last(i) = <<i, hi + 1>>
        BY <3>1, <3>2
      <3> HIDE DEF last, new
      <3>6. put[i] = <<i, hi + 1>>
        BY <2>5, <2>7, <3>5
      <3> QED BY <2>1, <3>1, <3>3, <3>4, <3>6 DEF left
    <2> QED BY <2>6, <2>7 DEF left
  <1>5. burstResp' = [i \in Port |-> IF i \in A THEN Head(old[i]) ELSE None]
    <2>1. respWritten \in [Port -> Id \cup {None}]
      BY DEF WrapperInv, SignalInv
    <2>2. \A i \in Port : respWritten[i] = IF i \in A THEN Head(old[i]) ELSE None
      <3> SUFFICES ASSUME NEW i \in Port PROVE respWritten[i] = IF i \in A THEN Head(old[i]) ELSE None
        OBVIOUS
      <3>1. i \notin A => respWritten[i] = None
        OBVIOUS
      <3> HIDE DEF A, old
      <3> QED BY <1>3, <3>1
    <2> HIDE DEF A, old
    <2> QED BY <1>1, <2>1, <2>2
  <1>6. new = [i \in Port |-> LET left == IF i \in A THEN Tail(old[i]) ELSE old[i]
                             IN  IF put[i] = None THEN left ELSE Append(left, put[i])]
    <2>1. new = [i \in Port |-> new[i]]
      OBVIOUS
    <2> HIDE DEF new, old, put, A
    <2> QED BY <1>4, <2>1
  <1>7. \A i \in A : old[i] # <<>>
    BY <1>3
  <1>8. Port = PeMem!Port /\ A \in SUBSET Port
    BY DEF Port, PeMem!Port
  <1>9. PeMem!Cycle(A, put)
    <2> HIDE DEF A, put
    <2> QED BY <1>5, <1>6, <1>7, <1>8 DEF PeMem!Cycle, PeMem!Port, Port
  <1>10. PeMem!Cycle(A, [i \in Port |-> IF i \in P THEN PeMem!LastPosted(i) ELSE None])
    <2>1. \A i \in Port : PeMem!LastPosted(i) = last(i)
      BY <1>8 DEF PeMem!LastPosted
    <2>2. put = [i \in Port |-> IF i \in P THEN PeMem!LastPosted(i) ELSE None]
      <3> HIDE DEF last
      <3> QED BY <2>1
    <2> QED BY <1>9, <2>2
  <1> QED BY <1>8, <1>10 DEF PeMem!Next

\* Every other step is invisible to the PE.
LEMMA OtherMaps ==
    ASSUME UNCHANGED peVars PROVE UNCHANGED Shown
  <1>1. posted' = posted /\ answered' = answered /\ burstResp' = burstResp
    BY DEF peVars
  <1> QED BY <1>1 DEF Shown, Outstanding

LEMMA NextMaps ==
    ASSUME WrapperInv, WrapperInv', [Next]_vars PROVE PeMem!Next \/ UNCHANGED Shown
  <1>1. CASE getBurstReq
    BY <1>1, OtherMaps DEF getBurstReq
  <1>2. CASE sendBurstResp
    BY <1>2, OtherMaps DEF sendBurstResp
  <1>3. ASSUME NEW choice \in Completions, runMemSim(choice) PROVE UNCHANGED Shown
    <2>1. UNCHANGED peVars
      BY <1>3, Zenon DEF runMemSim
    <2> QED BY <2>1, OtherMaps
  <1>4. ASSUME NEW P \in SUBSET Port, Advance(P) PROVE PeMem!Next \/ UNCHANGED Shown
    <2>1. CASE phase = 0
      BY <1>4, <2>1, CycleMaps
    <2>2. CASE phase # 0
      BY <1>4, <2>2, PauseSteps, OtherMaps
    <2> QED BY <2>1, <2>2
  <1>5. CASE UNCHANGED vars
    BY <1>5, OtherMaps DEF vars
  <1> QED BY <1>1, <1>2, <1>3, <1>4, <1>5 DEF Next

LEMMA InitMaps == ASSUME Init PROVE PeMem!Init
  <1>1. /\ posted = [i \in Port |-> 0] /\ answered = [i \in Port |-> 0] /\ burstResp = [i \in Port |-> None]
    BY DEF Init
  <1>2. ASSUME NEW i \in Port PROVE Outstanding(i) = <<>>
    <2>1. Outstanding(i) = Between(i, Seen(i), posted[i]) /\ Seen(i) = 0 /\ posted[i] = 0
      BY <1>1, InitWrapper, OutstandingBursts DEF Seen
    <2>2. Between(i, 0, 0) = <<>>
      <3>1. Between(i, 0, 0) \in Seq({i} \X Nat) /\ Len(Between(i, 0, 0)) = 0
        BY DEF Between
      <3> QED BY <3>1
    <2> QED BY <2>1, <2>2
  <1>3. [i \in Port |-> Outstanding(i)] = [i \in Port |-> <<>>]
    BY <1>2
  <1> QED BY <1>1, <1>3 DEF PeMem!Init, PeMem!Port, Port

\* Over any controller that calls back once per request the wrapper is, for the
\* PE, a memory that answers the bursts of a port one at a time, each once, in the
\* order they were posted: the memory the model of the PE is built on.
THEOREM WrapperServesThePe == ASSUME ~TLDRAM PROVE Spec => ServesThePe
  <1>1. Init => PeMem!Init
    BY InitMaps
  <1>2. WrapperInv /\ WrapperInv' /\ [Next]_vars => [PeMem!Next]_Shown
    BY NextMaps
  <1> QED BY <1>1, <1>2, WrapperIsSound, PTL DEF Spec, ServesThePe, PeMem!Spec, Shown
=============================================================================
