---------------------------- MODULE Memory_proofs ----------------------------
(* Bursts, arrays and pages, whatever their sizes: the requests of a burst    *)
(* agree with their number, cover it and go to different places, the arrays   *)
(* of a graph do not overlap, and the page table is that of the pages in use. *)
(* And the channel they end in, whatever its standard: the times of its       *)
(* commands, its rows, and the data bus.                                      *)
EXTENDS MCBurstOp, PageTable, DramInv, ListTheorems

-----------------------------------------------------------------------------
(* Widths *)

\* What the loop of getBurstAddrWidth computes.
LEMMA Powers ==
    /\ Power[0] = 1
    /\ \A n \in 0 .. MaxWidth : Power[n + 1] = 2 * Power[n]
    /\ \A n \in 0 .. MaxWidth + 1 : Power[n] \in Nat \ {0}
  <1>1. MaxWidth + 1 \in Nat /\ \A n \in 0 .. MaxWidth : n \in Nat /\ n < MaxWidth + 1
    BY BurstAssumption
  <1>2. Power = CHOOSE p : DoublingFrom(p, MaxWidth + 1)
    BY DEF Power, DoublingFrom
  <1>3. /\ Power[0] = 1 /\ \A n \in Nat : n < MaxWidth + 1 => Power[n + 1] = 2 * Power[n]
        /\ \A n \in 0 .. MaxWidth + 1 : Power[n] \in Nat \ {0}
    BY <1>1, <1>2, Doubling, Zenon
  <1> QED BY <1>1, <1>3

\* A basic request moves at least a byte, and addresses are aligned to two of them.
LEMMA Alignment == burstLen \in Nat \ {0} /\ Power[getBurstAddrWidth] = 2 * burstLen
  <1> DEFINE n == CHOOSE n \in 0 .. MaxWidth : burstLen = Power[n]
  <1>1. n \in 0 .. MaxWidth /\ burstLen = Power[n] /\ MaxWidth \in Nat
    BY BurstAssumption
  <1>2. getBurstAddrWidth = 1 + n
    BY DEF getBurstAddrWidth
  <1> HIDE DEF n
  <1>3. n \in 0 .. MaxWidth + 1 /\ 1 + n = n + 1
    BY <1>1
  <1> QED BY <1>1, <1>2, <1>3, Powers

\* An address is its aligned address and an offset below two basic bursts.
LEMMA Aligned ==
    ASSUME NEW a \in Nat
    PROVE  getAlignedAddr(a) \in Nat /\ getOffset(a) \in 0 .. 2 * burstLen - 1 /\ a = getAlignedAddr(a) + getOffset(a)
  <1> DEFINE m == 2 * burstLen
  <1>1. m \in Nat \ {0} /\ Power[getBurstAddrWidth] = m
    BY Alignment
  <1>2. getAlignedAddr(a) = (a \div m) * m
    BY <1>1 DEF getAlignedAddr
  <1>3. getOffset(a) = a - getAlignedAddr(a)
    BY DEF getOffset
  <1> DEFINE d == a \div m
             r == a % m
  <1>4. d \in Nat /\ r \in 0 .. m - 1 /\ a = m * d + r
    <2> HIDE DEF m
    <2> QED BY <1>1, Division
  <1>5. getAlignedAddr(a) = d * m
    BY <1>2
  <1> HIDE DEF d, r
  <1>6. \A x, y \in Nat : x * y \in Nat /\ x * y = y * x
    OBVIOUS
  <1>7. d * m \in Nat /\ d * m = m * d /\ m * d \in Nat
    <2> HIDE DEF m
    <2> QED BY <1>1, <1>4, <1>6
  <1> DEFINE p == d * m
  <1>8. p \in Nat /\ a = p + r /\ r \in 0 .. m - 1 /\ getAlignedAddr(a) = p
    BY <1>4, <1>5, <1>7
  <1> HIDE DEF p, m
  <1>9. getOffset(a) = r
    BY <1>3, <1>8
  <1>10. r \in 0 .. 2 * burstLen - 1
    BY <1>8 DEF m
  <1> QED BY <1>8, <1>9, <1>10

\* The number of requests that hold n bytes: one fewer is too few.
Fit(k, n) == k \in Nat /\ (k - 1) * burstLen < n /\ n <= k * burstLen

LEMMA PiecesHold == ASSUME NEW n \in Nat \ {0} PROVE Fit(Pieces(n), n)
  <1> DEFINE d == n \div burstLen
             r == n % burstLen
  <1>1. burstLen \in Nat \ {0}
    BY Alignment
  <1>2. d \in Nat /\ r \in 0 .. burstLen - 1 /\ n = burstLen * d + r
    BY <1>1, Division
  <1>3. Pieces(n) = IF r = 0 THEN d ELSE d + 1
    BY DEF Pieces
  <1> HIDE DEF d, r
  <1>4. \A x, l \in Nat : (x - 1) * l = l * x - l /\ x * l = l * x /\ ((x + 1) - 1) * l = l * x /\ (x + 1) * l = l * x + l
    OBVIOUS
  <1>5. /\ (d - 1) * burstLen = burstLen * d - burstLen /\ d * burstLen = burstLen * d
        /\ ((d + 1) - 1) * burstLen = burstLen * d /\ (d + 1) * burstLen = burstLen * d + burstLen
    BY <1>1, <1>2, <1>4
  <1> DEFINE p == burstLen * d
  <1>6. p \in Nat
    BY <1>1, <1>2
  <1>7. CASE r = 0
    <2>0. n = p
      BY <1>2, <1>6, <1>7
    <2>1. Pieces(n) = d /\ n = p /\ (d - 1) * burstLen = p - burstLen /\ d * burstLen = p
      BY <1>3, <1>5, <1>7, <2>0
    <2> HIDE DEF p
    <2>2. p - burstLen < p /\ p <= p
      BY <1>1, <1>6
    <2> QED BY <1>2, <2>1, <2>2 DEF Fit
  <1>8. CASE r # 0
    <2>1. Pieces(n) = d + 1 /\ n = p + r /\ ((d + 1) - 1) * burstLen = p /\ (d + 1) * burstLen = p + burstLen
      BY <1>2, <1>3, <1>5, <1>8
    <2> HIDE DEF p
    <2>2. p < p + r /\ p + r <= p + burstLen /\ d + 1 \in Nat
      BY <1>1, <1>2, <1>6, <1>8
    <2> QED BY <1>2, <2>1, <2>2 DEF Fit
  <1> QED BY <1>7, <1>8

\* The number of requests is that of the basic bursts the aligned burst takes.
LEMMA NumberHolds ==
    ASSUME NEW a \in Nat, NEW n \in Nat \ {0}
    PROVE  Fit(getReqNum(a, n), getOffset(a) + n) /\ getReqNum(a, n) >= 1
  <1> DEFINE off == getOffset(a)
             num == getReqNum(a, n)
             l == burstLen
  <1>1. l \in Nat \ {0} /\ off \in 0 .. 2 * l - 1
    BY Alignment, Aligned
  <1>2. CASE off = 0
    <2>1. num = Pieces(n)
      BY <1>2 DEF getReqNum
    <2>2. off + n = n
      BY <1>2
    <2>3. Fit(num, off + n)
      BY <2>1, <2>2, PiecesHold
    <2> HIDE DEF off, num
    <2>4. num \in Nat /\ n <= num * l
      BY <2>2, <2>3 DEF Fit
    <2>5. num # 0
      <3>1. 0 * l = 0
        BY <1>1
      <3> QED BY <2>4, <3>1
    <2> QED BY <2>3, <2>4, <2>5 DEF off, num
  <1>3. CASE off # 0 /\ n > l - off
    <2> DEFINE m == n - (l - off)
    <2>1. num = 1 + Pieces(m)
      BY <1>3 DEF getReqNum
    <2>2. m \in Nat \ {0} /\ m = n + off - l
      <3> HIDE DEF off, l
      <3> QED BY <1>1, <1>3
    <2>3. Fit(Pieces(m), m)
      <3> HIDE DEF m
      <3> QED BY <2>2, PiecesHold
    <2> HIDE DEF m, num, off
    <2> DEFINE k == Pieces(m)
    <2>4. k \in Nat /\ (k - 1) * l < m /\ m <= k * l
      BY <2>3 DEF Fit
    <2>5. num = k + 1
      BY <2>1, <2>4
    <2> HIDE DEF k, l
    <2>6. \A x, y \in Nat : (x - 1) * y = x * y - y /\ (x + 1) * y = x * y + y /\ ((x + 1) - 1) * y = x * y /\ x * y \in Nat
      OBVIOUS
    <2> DEFINE p == k * l
    <2>7. /\ (k - 1) * l = p - l /\ (k + 1) * l = p + l /\ ((k + 1) - 1) * l = p /\ p \in Nat
      BY <1>1, <2>4, <2>6
    <2>8. p - l < m /\ m <= p
      BY <2>4, <2>7
    <2> HIDE DEF p
    <2>9. p < off + n /\ off + n <= p + l
      BY <1>1, <2>2, <2>7, <2>8
    <2>10. (num - 1) * l < off + n /\ off + n <= num * l /\ num \in Nat /\ num >= 1
      BY <2>4, <2>5, <2>7, <2>9
    <2> QED BY <2>10 DEF Fit, num, off, l
  <1>4. CASE off # 0 /\ ~(n > l - off)
    <2>1. num = 1
      BY <1>4 DEF getReqNum
    <2> HIDE DEF num, off, l
    <2>2. (1 - 1) * l < off + n /\ off + n <= 1 * l
      BY <1>1, <1>4
    <2> QED BY <2>1, <2>2 DEF Fit, num, off, l
  <1> QED BY <1>2, <1>3, <1>4

\* The loop of updateAddrVec: the bytes it has reached after i turns are too few
\* exactly when i + 1 basic bursts are.
Reached(off, n) ==
    LET reqLen[i \in 0 .. n + 1] ==
            IF i = 0 THEN burstLen - off
            ELSE IF reqLen[i - 1] + burstLen <= n THEN reqLen[i - 1] + burstLen ELSE n
    IN  reqLen

LEMMA LoopReaches ==
    ASSUME NEW off \in Nat, NEW n \in Nat
    PROVE  \A i \in 0 .. n + 1 :
             /\ Reached(off, n)[i] >= n <=> (i + 1) * burstLen >= off + n
             /\ Reached(off, n)[i] < n <=> (i + 1) * burstLen < off + n
  <1> DEFINE l == burstLen
             hi == n + 1
             D == Int
             first == l - off
             F == [i \in 0 + 1 .. hi |-> [d \in D |-> IF d + l <= n THEN d + l ELSE n]]
             Turns(g) == g = [i \in 0 .. n + 1 |->
                                IF i = 0 THEN burstLen - off
                                ELSE IF g[i - 1] + burstLen <= n THEN g[i - 1] + burstLen ELSE n]
             r == Reached(off, n)
  <1>1. l \in Nat /\ l >= 1 /\ hi \in Nat /\ first \in Int
    BY Alignment
  <1>2. \E f : Turns(f)
    <2>1. F \in [0 + 1 .. hi -> [D -> D]]
      <3> HIDE DEF l, hi
      <3> QED BY <1>1
    <2>2. Computes(D, 0, hi, first, F)
      <3>1. LoopOver(D, 0, hi, F)
        <4> HIDE DEF D, F, hi
        <4> QED BY <1>1, <2>1 DEF LoopOver
      <3>2. first \in D
        BY <1>1
      <3> HIDE DEF D, F, hi, first
      <3> QED BY <3>1, <3>2, Loop
    <2>3. PICK f \in [0 .. hi -> D] : \A i \in 0 .. hi : f[i] = IF i = 0 THEN first ELSE F[i][f[i - 1]]
      <3> HIDE DEF D, F, hi, first
      <3> QED BY <2>2, Zenon DEF Computes
    <2>4. ASSUME NEW i \in 0 .. hi, i # 0
          PROVE  F[i][f[i - 1]] = IF f[i - 1] + l <= n THEN f[i - 1] + l ELSE n
      <3>1. i \in 0 + 1 .. hi /\ i - 1 \in 0 .. hi
        BY <1>1, <2>4
      <3>2. f[i - 1] \in D
        BY <2>3, <3>1
      <3> HIDE DEF hi, l
      <3> QED BY <3>1, <3>2
    <2>5. Turns(f)
      <3> HIDE DEF F
      <3> QED BY <2>3, <2>4
    <2> QED BY <2>5
  <1>3. Turns(r)
    <2>1. r = CHOOSE g : Turns(g)
      BY DEF Reached
    <2> HIDE DEF r, Turns
    <2> QED BY <1>2, <2>1
  <1>4. r[0] = first /\ \A i \in Nat : i + 1 <= hi => r[i + 1] = IF r[i] + l <= n THEN r[i] + l ELSE n
    <2> HIDE DEF r
    <2>1. 0 \in 0 .. n + 1
      OBVIOUS
    <2>2. \A i \in Nat : i + 1 <= hi => i + 1 \in 0 .. n + 1 /\ i + 1 # 0 /\ (i + 1) - 1 = i
      OBVIOUS
    <2> QED BY <1>3, <2>1, <2>2
  <1> DEFINE b(i) == (i + 1) * l
             Good(i) == /\ r[i] \in Int
                        /\ b(i) <= off + n => r[i] = b(i) - off
                        /\ b(i) > off + n => r[i] >= n
             S == {i \in Nat : i <= hi => Good(i)}
  <1>5. \A i \in Nat : b(i) \in Nat /\ b(i + 1) = b(i) + l
    <2>1. \A x, y \in Nat : (x + 1) * y \in Nat /\ ((x + 1) + 1) * y = (x + 1) * y + y
      OBVIOUS
    <2> QED BY <1>1, <2>1
  <1>6. b(0) = l
    BY <1>1
  <1> HIDE DEF r, b
  <1>7. 0 \in S
    <2>1. r[0] = l - off
      BY <1>4
    <2> QED BY <1>1, <1>6, <2>1
  <1>8. ASSUME NEW i \in Nat, i \in S PROVE i + 1 \in S
    <2> SUFFICES ASSUME i + 1 <= hi PROVE Good(i + 1)
      OBVIOUS
    <2>1. i <= hi
      BY <1>1
    <2>2. Good(i)
      BY <1>8, <2>1
    <2>3. r[i + 1] = IF r[i] + l <= n THEN r[i] + l ELSE n
      BY <1>4
    <2>4. b(i) \in Nat /\ b(i + 1) = b(i) + l
      BY <1>5
    <2> HIDE DEF hi
    <2> QED BY <1>1, <2>2, <2>3, <2>4
  <1>9. \A i \in Nat : i \in S
    <2> HIDE DEF S
    <2> QED BY <1>7, <1>8, SetInduction
  <1>10. ASSUME NEW i \in 0 .. n + 1
         PROVE  (r[i] >= n <=> b(i) >= off + n) /\ (r[i] < n <=> b(i) < off + n)
    <2>1. i \in Nat /\ i <= hi
      OBVIOUS
    <2>2. Good(i)
      BY <1>9, <2>1
    <2>3. b(i) \in Nat
      BY <1>5, <2>1
    <2> HIDE DEF hi
    <2> QED BY <2>2, <2>3
  <1> QED BY <1>10 DEF r, b

\* updateAddrVec gives as many addresses as getReqNum counts, one basic burst apart.
LEMMA Addresses ==
    ASSUME NEW a \in Nat, NEW n \in Nat \ {0}
    PROVE  addrVec(a, n) = [i \in 1 .. getReqNum(a, n) |-> getAlignedAddr(a) + (i - 1) * burstLen]
  <1> DEFINE off == getOffset(a)
             num == getReqNum(a, n)
             r == Reached(off, n)
             l == burstLen
             Enough(k) == r[k] >= n /\ \A m \in 0 .. k - 1 : r[m] < n
             more == CHOOSE k \in 0 .. n + 1 : Enough(k)
  <1>1. /\ l \in Nat \ {0} /\ off \in Nat /\ off <= 2 * l - 1 /\ a = getAlignedAddr(a) + off /\ getAlignedAddr(a) \in Nat
        /\ num \in Nat /\ num >= 1 /\ (num - 1) * l < off + n /\ off + n <= num * l
    <2>1. off \in 0 .. 2 * l - 1 /\ l \in Nat \ {0} /\ a = getAlignedAddr(a) + off /\ getAlignedAddr(a) \in Nat
      BY Alignment, Aligned
    <2>2. Fit(num, off + n) /\ num >= 1
      BY NumberHolds
    <2> HIDE DEF off, num, l
    <2> QED BY <2>1, <2>2 DEF Fit, l
  <1>2. CASE off = 0
    <2>1. addrVec(a, n) = [i \in 1 .. num |-> a + (i - 1) * l]
      BY <1>2 DEF addrVec
    <2>2. getAlignedAddr(a) = a
      <3> HIDE DEF off
      <3> QED BY <1>1, <1>2
    <2> QED BY <2>1, <2>2
  <1>3. CASE off # 0
    <2>1. addrVec(a, n) = [i \in 1 .. more + 1 |-> getAlignedAddr(a) + (i - 1) * l]
      BY <1>3 DEF addrVec, Reached
    <2>2. \A k \in 0 .. n + 1 : (r[k] >= n <=> (k + 1) * l >= off + n) /\ (r[k] < n <=> (k + 1) * l < off + n)
      BY <1>1, LoopReaches
    <2> HIDE DEF r, off, num, l
    <2>3. \A x, y, z \in Nat : x <= y => x * z <= y * z
      OBVIOUS
    <2>4. num - 1 \in 0 .. n + 1
      <3>1. num <= n + 2
        <4> SUFFICES ASSUME num > n + 2 PROVE FALSE
          BY <1>1
        <4>1. n + 2 \in Nat /\ num - 1 \in Nat /\ n + 2 <= num - 1
          BY <1>1
        <4>2. (n + 2) * l <= (num - 1) * l
          BY <1>1, <2>3, <4>1
        <4>3. \A x, y \in Nat : x >= 1 => (y + 2) * x >= y + 2 * x
          OBVIOUS
        <4>4. (n + 2) * l >= n + 2 * l
          BY <1>1, <4>3
        <4> DEFINE p == (n + 2) * l
                   q == (num - 1) * l
        <4>5. p <= q /\ p >= n + 2 * l /\ q < off + n /\ p \in Nat /\ q \in Nat
          BY <1>1, <4>1, <4>2, <4>4
        <4> HIDE DEF p, q
        <4> QED BY <1>1, <4>5
      <3> QED BY <1>1, <3>1
    <2>5. Enough(num - 1)
      <3>1. (num - 1) + 1 = num
        BY <1>1
      <3>2. r[num - 1] >= n
        BY <1>1, <2>2, <2>4, <3>1
      <3>3. ASSUME NEW m \in 0 .. (num - 1) - 1 PROVE r[m] < n
        <4>1. m \in 0 .. n + 1 /\ m + 1 \in Nat /\ num - 1 \in Nat /\ m + 1 <= num - 1
          BY <1>1, <2>4
        <4>2. (m + 1) * l <= (num - 1) * l
          BY <1>1, <2>3, <4>1
        <4> DEFINE p == (m + 1) * l
                   q == (num - 1) * l
        <4>3. p <= q /\ q < off + n /\ p \in Nat /\ q \in Nat
          BY <1>1, <4>1, <4>2
        <4>4. p < off + n
          <5> HIDE DEF p, q
          <5> QED BY <1>1, <4>3
        <4> QED BY <2>2, <4>1, <4>4
      <3> QED BY <3>2, <3>3
    <2>6. ASSUME NEW k \in 0 .. n + 1, Enough(k) PROVE k = num - 1
      <3>1. CASE k < num - 1
        <4>1. k \in 0 .. (num - 1) - 1
          BY <1>1, <3>1
        <4>2. r[k] < n /\ r[k] >= n
          BY <2>5, <2>6, <4>1
        <4>3. (k + 1) * l < off + n /\ (k + 1) * l >= off + n /\ (k + 1) * l \in Nat
          BY <1>1, <2>2, <4>2
        <4> DEFINE p == (k + 1) * l
        <4>4. p < off + n /\ p >= off + n /\ p \in Nat
          BY <4>3
        <4> HIDE DEF p
        <4> QED BY <1>1, <4>4
      <3>2. CASE k > num - 1
        <4>1. num - 1 \in 0 .. k - 1
          BY <1>1, <3>2
        <4>2. r[num - 1] < n /\ r[num - 1] >= n
          BY <2>5, <2>6, <4>1
        <4>3. ((num - 1) + 1) * l < off + n /\ (num - 1) + 1 = num
          BY <1>1, <2>2, <2>4, <4>2
        <4> DEFINE p == num * l
        <4>4. p < off + n /\ p >= off + n /\ p \in Nat
          BY <1>1, <4>3
        <4> HIDE DEF p
        <4> QED BY <1>1, <4>4
      <3> QED BY <1>1, <3>1, <3>2
    <2>7. more = num - 1
      <3> HIDE DEF Enough
      <3> QED BY <2>4, <2>5, <2>6
    <2> HIDE DEF more
    <2>8. more + 1 = num
      BY <1>1, <2>7
    <2> QED BY <2>1, <2>8 DEF num, l
  <1> QED BY <1>2, <1>3

\* The requests are these addresses.
LEMMA Requested ==
    ASSUME NEW a \in Nat, NEW n \in Nat \ {0}
    PROVE  /\ Len(addrVec(a, n)) = getReqNum(a, n)
           /\ DOMAIN convertToReq(a, n) = 1 .. getReqNum(a, n)
           /\ \A i \in 1 .. getReqNum(a, n) : convertToReq(a, n)[i] = getAlignedAddr(a) + (i - 1) * burstLen
  <1> DEFINE num == getReqNum(a, n)
             v == addrVec(a, n)
             at(i) == getAlignedAddr(a) + (i - 1) * burstLen
  <1>1. v = [i \in 1 .. num |-> at(i)]
    BY Addresses
  <1>2. num \in Nat
    BY NumberHolds DEF Fit
  <1>3. convertToReq(a, n) = [i \in 1 .. num |-> v[i]]
    BY DEF convertToReq
  <1> HIDE DEF num, v, at
  <1>4. Len(v) = num
    BY <1>1, <1>2
  <1> QED BY <1>1, <1>3, <1>4 DEF num, v, at

-----------------------------------------------------------------------------
(* The places of addresses *)

\* The shifts of an address.
LEMMA Shifts ==
    /\ MaxBits \in Nat /\ PowerOf2[0] = 1
    /\ \A n \in 0 .. MaxBits : PowerOf2[n + 1] = 2 * PowerOf2[n]
    /\ \A n \in 0 .. MaxBits + 1 : PowerOf2[n] \in Nat \ {0}
  <1>1. MaxBits \in Nat /\ MaxBits + 1 \in Nat /\ \A n \in 0 .. MaxBits : n \in Nat /\ n < MaxBits + 1
    BY OrganizationAssumption
  <1>2. PowerOf2 = CHOOSE p : DoublingFrom(p, MaxBits + 1)
    BY DEF PowerOf2, DoublingFrom
  <1>3. /\ PowerOf2[0] = 1 /\ \A n \in Nat : n < MaxBits + 1 => PowerOf2[n + 1] = 2 * PowerOf2[n]
        /\ \A n \in 0 .. MaxBits + 1 : PowerOf2[n] \in Nat \ {0}
    BY <1>1, <1>2, Doubling, Zenon
  <1> QED BY <1>1, <1>3

\* Shifting by two numbers of bits is shifting by their sum.
LEMMA ShiftTwice ==
    ASSUME NEW m \in Nat
    PROVE  \A n \in Nat : m + n <= MaxBits + 1 => PowerOf2[m + n] = PowerOf2[m] * PowerOf2[n]
  <1> DEFINE P(i) == PowerOf2[i]
             S == {n \in Nat : m + n <= MaxBits + 1 => P(m + n) = P(m) * P(n)}
  <1>0. MaxBits \in Nat /\ P(0) = 1 /\ (\A n \in 0 .. MaxBits : P(n + 1) = 2 * P(n))
        /\ \A n \in 0 .. MaxBits + 1 : P(n) \in Nat \ {0}
    BY Shifts
  <1> HIDE DEF P
  <1>1. 0 \in S
    <2> SUFFICES ASSUME m <= MaxBits + 1 PROVE P(m) = P(m) * P(0)
      OBVIOUS
    <2>1. P(m) \in Nat
      BY <1>0
    <2> QED BY <1>0, <2>1
  <1>2. ASSUME NEW n \in Nat, n \in S PROVE n + 1 \in S
    <2> SUFFICES ASSUME m + (n + 1) <= MaxBits + 1 PROVE P(m + (n + 1)) = P(m) * P(n + 1)
      OBVIOUS
    <2>1. m + n \in 0 .. MaxBits /\ n \in 0 .. MaxBits /\ m \in 0 .. MaxBits + 1 /\ m + (n + 1) = (m + n) + 1
      BY <1>0
    <2>2. P(m + n) = P(m) * P(n)
      BY <1>0, <1>2
    <2>3. P(m + (n + 1)) = 2 * (P(m) * P(n)) /\ P(n + 1) = 2 * P(n)
      BY <1>0, <2>1, <2>2
    <2>4. P(m) \in Nat /\ P(n) \in Nat
      BY <1>0, <2>1
    <2>5. \A x, y \in Nat : 2 * (x * y) = x * (2 * y)
      OBVIOUS
    <2> QED BY <2>3, <2>4, <2>5
  <1>3. \A n \in Nat : n \in S
    <2> HIDE DEF S
    <2> QED BY <1>1, <1>2, SetInduction
  <1> QED BY <1>3 DEF P

\* calc_log2 is the logarithm of a power of two.
LEMMA Logarithm == ASSUME NEW k \in 0 .. MaxBits PROVE calc_log2(PowerOf2[k]) = k
  <1> DEFINE P(i) == PowerOf2[i]
             lg == CHOOSE j \in 0 .. MaxBits : P(j) <= P(k) /\ P(k) < P(j + 1)
  <1>0. MaxBits \in Nat /\ (\A n \in 0 .. MaxBits : P(n + 1) = 2 * P(n)) /\ \A n \in 0 .. MaxBits + 1 : P(n) \in Nat \ {0}
    BY Shifts
  <1>1. \A i, j \in 0 .. MaxBits : i < j => P(i + 1) <= P(j)
    <2> SUFFICES ASSUME NEW i \in 0 .. MaxBits, NEW j \in 0 .. MaxBits, i < j PROVE P(i + 1) <= P(j)
      OBVIOUS
    <2>1. i + 1 \in Nat /\ j - (i + 1) \in Nat /\ (i + 1) + (j - (i + 1)) = j /\ j <= MaxBits + 1
          /\ j - (i + 1) \in 0 .. MaxBits + 1 /\ i + 1 \in 0 .. MaxBits + 1
      BY <1>0
    <2>2. P(j) = P(i + 1) * P(j - (i + 1))
      BY <2>1, ShiftTwice
    <2>3. P(i + 1) \in Nat /\ P(j - (i + 1)) \in Nat /\ P(j - (i + 1)) >= 1
      BY <1>0, <2>1
    <2>4. \A x, y \in Nat : y >= 1 => x <= x * y
      OBVIOUS
    <2> HIDE DEF P
    <2> QED BY <2>2, <2>3, <2>4
  <1> HIDE DEF P
  <1>2. P(k) <= P(k) /\ P(k) < P(k + 1)
    <2>1. P(k) \in Nat \ {0} /\ P(k + 1) = 2 * P(k)
      BY <1>0
    <2> QED BY <2>1
  <1>3. lg \in 0 .. MaxBits /\ P(lg) <= P(k) /\ P(k) < P(lg + 1)
    BY <1>2
  <1> HIDE DEF lg
  <1>4. P(k) \in Nat /\ P(lg) \in Nat /\ P(lg + 1) \in Nat
    BY <1>0, <1>3
  <1>5. ~(lg < k)
    <2> SUFFICES ASSUME lg < k PROVE FALSE
      OBVIOUS
    <2>1. P(lg + 1) <= P(k)
      BY <1>1, <1>3
    <2> QED BY <1>3, <1>4, <2>1
  <1>6. ~(k < lg)
    <2> SUFFICES ASSUME k < lg PROVE FALSE
      OBVIOUS
    <2>1. P(k + 1) <= P(lg) /\ P(k + 1) \in Nat
      BY <1>0, <1>1, <1>3
    <2> QED BY <1>2, <1>3, <1>4, <2>1
  <1>7. lg = k
    BY <1>0, <1>3, <1>5, <1>6
  <1>8. calc_log2(P(k)) = lg
    BY Zenon DEF calc_log2, lg, P
  <1> QED BY <1>7, <1>8 DEF P

\* The remainder by a product: that by its first factor, and the digit above it.
LEMMA Digit ==
    ASSUME NEW x \in Nat, NEW m \in Nat \ {0}, NEW n \in Nat \ {0}
    PROVE  x % (m * n) = (x % m) + m * ((x \div m) % n)
  <1> DEFINE q == x \div m
             r == x % m
             s == q \div n
             u == q % n
             k == m * n
             z == m * u + r
  <1>1. q \in Nat /\ r \in 0 .. m - 1 /\ x = m * q + r
    BY Division
  <1> HIDE DEF q, r
  <1>2. s \in Nat /\ u \in 0 .. n - 1 /\ q = n * s + u
    BY <1>1, Division
  <1> HIDE DEF s, u
  <1>3. k \in Nat \ {0}
    <2>1. \A a, b \in Nat : a > 0 /\ b > 0 => a * b \in Nat /\ a * b > 0
      OBVIOUS
    <2>2. k \in Nat /\ k > 0
      BY <2>1
    <2> QED BY <2>2
  <1>4. x = k * s + z
    <2>1. \A a, b, c, d \in Nat : a * (b * c + d) = (a * b) * c + a * d
      OBVIOUS
    <2>2. m * q = k * s + m * u
      BY <1>2, <2>1
    <2>3. m * q \in Nat /\ k * s \in Nat /\ m * u \in Nat
      BY <1>1, <1>2, <1>3
    <2> QED BY <1>1, <2>2, <2>3
  <1>5. z \in 0 .. k - 1
    <2>1. \A a, b, c \in Nat : b < c => a * b + a <= a * c
      OBVIOUS
    <2>2. m * u + m <= k /\ m * u \in Nat
      BY <1>2, <2>1
    <2> HIDE DEF k
    <2> QED BY <1>1, <1>3, <2>2
  <1> HIDE DEF k, z
  <1>6. \A a, b, c \in Nat : a < c /\ c > 0 => (c * b + a) % c = a
    <2> SUFFICES ASSUME NEW a \in Nat, NEW b \in Nat, NEW c \in Nat, a < c PROVE (c * b + a) % c = a
      OBVIOUS
    <2> DEFINE y == c * b + a
               d == y \div c
               e == y % c
    <2>1. y \in Nat /\ c \in Nat \ {0}
      OBVIOUS
    <2>2. d \in Nat /\ e \in 0 .. c - 1 /\ y = c * d + e
      <3> HIDE DEF y
      <3> QED BY <2>1, Division
    <2>3. c * b + a = c * d + e
      BY <2>2
    <2> HIDE DEF d, e
    <2>4. ~(b < d)
      <3> SUFFICES ASSUME b < d PROVE FALSE
        OBVIOUS
      <3>1. c * b + c <= c * d
        BY <2>2
      <3>2. c * b \in Nat /\ c * d \in Nat
        BY <2>2
      <3> QED BY <2>2, <2>3, <3>1, <3>2
    <2>5. ~(d < b)
      <3> SUFFICES ASSUME d < b PROVE FALSE
        OBVIOUS
      <3>1. c * d + c <= c * b
        BY <2>2
      <3>2. c * b \in Nat /\ c * d \in Nat
        BY <2>2
      <3> QED BY <2>2, <2>3, <3>1, <3>2
    <2>6. b = d
      BY <2>2, <2>4, <2>5
    <2>7. c * b \in Nat /\ c * d = c * b
      BY <2>6
    <2>8. e = a
      BY <2>2, <2>3, <2>7
    <2> QED BY <2>8 DEF e
  <1>7. x % k = z
    <2>1. z \in Nat /\ z < k /\ k > 0 /\ k \in Nat
      BY <1>3, <1>5
    <2> QED BY <1>2, <1>4, <1>6, <2>1
  <1>8. z = r + m * u
    BY <1>1, <1>2 DEF z
  <1> QED BY <1>7, <1>8 DEF k, r, u, q

\* A loop that adds a number in each turn, and one that multiplies.
SumsTo(f, n, w) == f = [i \in 0 .. n |-> IF i = 0 THEN 0 ELSE f[i - 1] + w[i]]
Sums(n, w) == CHOOSE f : SumsTo(f, n, w)

LEMMA Summed ==
    ASSUME NEW n \in Nat, NEW w, \A i \in 1 .. n : w[i] \in Nat
    PROVE  /\ Sums(n, w)[0] = 0 /\ \A i \in 0 .. n : Sums(n, w)[i] \in Nat
           /\ \A i \in 1 .. n : Sums(n, w)[i] = Sums(n, w)[i - 1] + w[i]
  <1> DEFINE f == Sums(n, w)
  <1> DEFINE F == [i \in 0 + 1 .. n |-> [d \in Nat |-> d + w[i]]]
  <1>1. Computes(Nat, 0, n, 0, F)
    <2>1. F \in [0 + 1 .. n -> [Nat -> Nat]]
      OBVIOUS
    <2> HIDE DEF F
    <2>2. LoopOver(Nat, 0, n, F)
      BY <2>1 DEF LoopOver
    <2> QED BY <2>2, Loop
  <1>2. PICK g \in [0 .. n -> Nat] : \A i \in 0 .. n : g[i] = IF i = 0 THEN 0 ELSE F[i][g[i - 1]]
    <2> HIDE DEF F
    <2> QED BY <1>1, Zenon DEF Computes
  <1>3. \A i \in 0 .. n : g[i] = IF i = 0 THEN 0 ELSE g[i - 1] + w[i]
    <2> SUFFICES ASSUME NEW i \in 0 .. n, i # 0 PROVE g[i] = g[i - 1] + w[i]
      BY <1>2
    <2>1. i \in 0 + 1 .. n /\ i - 1 \in 0 .. n
      OBVIOUS
    <2>2. g[i - 1] \in Nat /\ g[i] = F[i][g[i - 1]]
      BY <1>2, <2>1
    <2> QED BY <2>1, <2>2
  <1>4. SumsTo(g, n, w)
    <2> HIDE DEF F
    <2> QED BY <1>2, <1>3 DEF SumsTo
  <1>5. SumsTo(f, n, w)
    BY <1>4, Zenon DEF Sums
  <1> HIDE DEF f
  <1>6. f = [i \in 0 .. n |-> IF i = 0 THEN 0 ELSE f[i - 1] + w[i]]
    BY <1>5, Zenon DEF SumsTo
  <1>7. f[0] = 0 /\ \A i \in 1 .. n : f[i] = f[i - 1] + w[i]
    <2>1. 0 \in 0 .. n /\ \A i \in 1 .. n : i \in 0 .. n /\ i # 0
      OBVIOUS
    <2> QED BY <1>6, <2>1
  <1> DEFINE S == {i \in Nat : i <= n => f[i] \in Nat}
  <1>8. 0 \in S
    BY <1>7
  <1>9. ASSUME NEW i \in Nat, i \in S PROVE i + 1 \in S
    <2> SUFFICES ASSUME i + 1 <= n PROVE f[i + 1] \in Nat
      OBVIOUS
    <2>1. i + 1 \in 1 .. n /\ (i + 1) - 1 = i /\ f[i] \in Nat
      BY <1>9
    <2>2. f[i + 1] = f[i] + w[i + 1]
      BY <1>7, <2>1
    <2> QED BY <2>1, <2>2
  <1>10. \A i \in Nat : i \in S
    <2> HIDE DEF S
    <2> QED BY <1>8, <1>9, SetInduction
  <1> QED BY <1>7, <1>10 DEF f

LEMMA Capacities ==
    ASSUME Column \in Nat, channel_width \div 8 \in Nat, \A l \in 1 .. Column : count[l] \in Nat
    PROVE  /\ capacity[0] = channel_width \div 8 /\ \A l \in 0 .. Column : capacity[l] \in Nat
           /\ \A l \in 1 .. Column : capacity[l] = capacity[l - 1] * count[l]
  <1> DEFINE first == channel_width \div 8
             F == [l \in 0 + 1 .. Column |-> [d \in Nat |-> d * count[l]]]
             Product(g) == g = [l \in 0 .. Column |-> IF l = 0 THEN first ELSE g[l - 1] * count[l]]
  <1>1. Computes(Nat, 0, Column, first, F)
    <2>1. F \in [0 + 1 .. Column -> [Nat -> Nat]]
      OBVIOUS
    <2> HIDE DEF F, first
    <2>2. LoopOver(Nat, 0, Column, F) /\ first \in Nat
      BY <2>1 DEF LoopOver, first
    <2> QED BY <2>2, Loop
  <1>2. PICK g \in [0 .. Column -> Nat] : \A l \in 0 .. Column : g[l] = IF l = 0 THEN first ELSE F[l][g[l - 1]]
    <2> HIDE DEF F, first
    <2> QED BY <1>1, Zenon DEF Computes
  <1>3. \A l \in 0 .. Column : g[l] = IF l = 0 THEN first ELSE g[l - 1] * count[l]
    <2> SUFFICES ASSUME NEW l \in 0 .. Column, l # 0 PROVE g[l] = g[l - 1] * count[l]
      BY <1>2
    <2>1. l \in 0 + 1 .. Column /\ l - 1 \in 0 .. Column
      OBVIOUS
    <2>2. g[l - 1] \in Nat /\ g[l] = F[l][g[l - 1]]
      BY <1>2, <2>1
    <2> QED BY <2>1, <2>2
  <1>4. Product(g)
    <2> HIDE DEF F, first
    <2> QED BY <1>2, <1>3
  <1>5. capacity = CHOOSE h : Product(h)
    BY DEF capacity
  <1>6. Product(capacity)
    <2> HIDE DEF Product
    <2> QED BY <1>4, <1>5
  <1> DEFINE S == {l \in Nat : l <= Column => capacity[l] \in Nat}
  <1>7. capacity[0] = first /\ \A l \in 1 .. Column : capacity[l] = capacity[l - 1] * count[l]
    BY <1>6
  <1>8. 0 \in S
    BY <1>7
  <1>9. ASSUME NEW l \in Nat, l \in S PROVE l + 1 \in S
    <2> SUFFICES ASSUME l + 1 <= Column PROVE capacity[l + 1] \in Nat
      OBVIOUS
    <2>1. l + 1 \in 1 .. Column /\ (l + 1) - 1 = l /\ capacity[l] \in Nat
      BY <1>9
    <2>2. capacity[l + 1] = capacity[l] * count[l + 1]
      BY <1>7, <2>1
    <2> QED BY <2>1, <2>2
  <1>10. \A l \in Nat : l \in S
    <2> HIDE DEF S
    <2> QED BY <1>8, <1>9, SetInduction
  <1> QED BY <1>7, <1>10

\* Sizes and transactions that are powers of two.
PowersOfTwo ==
    /\ \A l \in DOMAIN count : \E k \in 0 .. MaxBits : count[l] = PowerOf2[k]
    /\ \E k \in 0 .. MaxBits : prefetch_size = PowerOf2[k]
    /\ \E k \in 0 .. MaxBits : channel_width = 8 * PowerOf2[k]

\* Two numbers with the same digits at the first places have the same remainder.
Alike(n, low, w, x, y) ==
    /\ low[0] = 0 /\ \A i \in 0 .. n : low[i] \in Nat /\ low[i] <= MaxBits
    /\ \A i \in 1 .. n :
         /\ w[i] \in Nat /\ low[i] = low[i - 1] + w[i]
         /\ (x \div PowerOf2[low[i - 1]]) % PowerOf2[w[i]] = (y \div PowerOf2[low[i - 1]]) % PowerOf2[w[i]]

LEMMA SameDigits ==
    ASSUME NEW n \in Nat, NEW low, NEW w, NEW x \in Nat, NEW y \in Nat, Alike(n, low, w, x, y)
    PROVE  x % PowerOf2[low[n]] = y % PowerOf2[low[n]]
  <1> USE DEF Alike
  <1> DEFINE P(i) == PowerOf2[i]
             S == {i \in Nat : i <= n => x % P(low[i]) = y % P(low[i])}
  <1>0. MaxBits \in Nat /\ P(0) = 1 /\ \A k \in 0 .. MaxBits + 1 : P(k) \in Nat \ {0}
    BY Shifts
  <1> HIDE DEF P
  <1>1. 0 \in S
    BY <1>0
  <1>2. ASSUME NEW i \in Nat, i \in S PROVE i + 1 \in S
    <2> SUFFICES ASSUME i + 1 <= n PROVE x % P(low[i + 1]) = y % P(low[i + 1])
      OBVIOUS
    <2>1. i \in 0 .. n /\ i + 1 \in 1 .. n /\ (i + 1) - 1 = i /\ i + 1 \in 0 .. n
      OBVIOUS
    <2> DEFINE a == low[i]
               b == w[i + 1]
    <2>2. a \in Nat /\ b \in Nat /\ low[i + 1] = a + b /\ a + b <= MaxBits
      BY <2>1
    <2>3. x % P(a) = y % P(a) /\ (x \div P(a)) % P(b) = (y \div P(a)) % P(b)
      <3>1. x % P(a) = y % P(a)
        BY <1>2
      <3>2. (x \div P(low[(i + 1) - 1])) % P(w[i + 1]) = (y \div P(low[(i + 1) - 1])) % P(w[i + 1])
        BY <2>1 DEF P
      <3> QED BY <2>1, <3>1, <3>2
    <2> HIDE DEF a, b
    <2>4. P(a + b) = P(a) * P(b)
      <3>1. a + b <= MaxBits + 1
        BY <1>0, <2>2
      <3> QED BY <2>2, <3>1, ShiftTwice DEF P
    <2>5. P(a) \in Nat \ {0} /\ P(b) \in Nat \ {0}
      <3>1. a \in 0 .. MaxBits + 1 /\ b \in 0 .. MaxBits + 1
        BY <1>0, <2>2
      <3> QED BY <1>0, <3>1
    <2>6. /\ x % (P(a) * P(b)) = (x % P(a)) + P(a) * ((x \div P(a)) % P(b))
          /\ y % (P(a) * P(b)) = (y % P(a)) + P(a) * ((y \div P(a)) % P(b))
      BY <2>5, Digit
    <2>7. x % (P(a) * P(b)) = y % (P(a) * P(b))
      BY <2>3, <2>6, Zenon
    <2> QED BY <2>2, <2>4, <2>7, Zenon
  <1>3. \A i \in Nat : i \in S
    <2> HIDE DEF S
    <2> QED BY <1>1, <1>2, SetInduction
  <1> QED BY <1>3 DEF P

\* The bits of a level, the bits of a transaction, and of the memory.
LEMMA Organized ==
    ASSUME PowersOfTwo
    PROVE  /\ Column \in Nat /\ Column >= 2 /\ tx_bits \in 0 .. MaxBits /\ tx = PowerOf2[tx_bits]
           /\ \A l \in 1 .. Column : addr_bits[l] \in 0 .. MaxBits /\ count[l] \in Nat
           /\ \A l \in 1 .. Column : l # Column => count[l] = PowerOf2[addr_bits[l]]
           /\ \E p, q \in 0 .. MaxBits :
                /\ p + q = tx_bits /\ channel_width \div 8 = PowerOf2[q]
                /\ addr_bits[Column] + p <= MaxBits /\ count[Column] = PowerOf2[addr_bits[Column] + p]
  <1> DEFINE P(i) == PowerOf2[i]
             M == MaxBits
             L == Column
             last == count[L]
  <1>0. M \in Nat /\ \A k \in 0 .. M + 1 : P(k) \in Nat \ {0}
    BY Shifts
  <1>1. /\ L \in Nat /\ L >= 2 /\ DOMAIN count = 1 .. L /\ L \in 1 .. L
        /\ (\A l \in 1 .. L : count[l] \in Nat) /\ prefetch_size <= last
    BY OrganizationAssumption DEF Column
  <1>2. PICK p \in 0 .. M : prefetch_size = P(p)
    BY DEF PowersOfTwo
  <1>3. PICK q \in 0 .. M : channel_width = 8 * P(q)
    BY DEF PowersOfTwo
  <1>4. PICK k \in 0 .. M : prefetch_size * channel_width = 8 * P(k)
    BY OrganizationAssumption
  <1>5. \A l \in 1 .. L : \E g \in 0 .. M : count[l] = P(g)
    BY <1>1 DEF PowersOfTwo
  <1>6. \A g \in 0 .. M : calc_log2(P(g)) = g
    BY Logarithm
  <1> HIDE DEF P, L
  <1>7. P(p) \in Nat \ {0} /\ P(q) \in Nat \ {0} /\ P(k) \in Nat \ {0}
    <2>1. p \in 0 .. M + 1 /\ q \in 0 .. M + 1 /\ k \in 0 .. M + 1
      BY <1>0
    <2> QED BY <1>0, <2>1
  <1>8. P(k) = P(p) * P(q) /\ tx = P(k) /\ channel_width \div 8 = P(q)
    <2>1. \A a, b, c \in Nat : a * (8 * b) = 8 * c => c = a * b
      OBVIOUS
    <2>2. \A c \in Nat : (8 * c) \div 8 = c
      OBVIOUS
    <2> QED BY <1>2, <1>3, <1>4, <1>7, <2>1, <2>2 DEF tx
  <1>9. tx_bits = k
    BY <1>6, <1>8 DEF tx_bits
  <1>10. \A i, j \in 0 .. M : i < j => P(i) < P(j)
    <2> SUFFICES ASSUME NEW i \in 0 .. M, NEW j \in 0 .. M, i < j PROVE P(i) < P(j)
      OBVIOUS
    <2>1. i + 1 \in Nat /\ j - (i + 1) \in Nat /\ (i + 1) + (j - (i + 1)) = j /\ j <= M + 1
          /\ j - (i + 1) \in 0 .. M + 1 /\ i + 1 \in 0 .. M + 1 /\ i \in 0 .. M + 1
      BY <1>0
    <2>2. P(j) = P(i + 1) * P(j - (i + 1)) /\ P(i + 1) = 2 * P(i)
      BY <2>1, ShiftTwice, Shifts DEF P
    <2>3. P(i) \in Nat \ {0} /\ P(j - (i + 1)) \in Nat \ {0}
      BY <1>0, <2>1
    <2>4. \A x, y \in Nat : x > 0 /\ y >= 1 => x < (2 * x) * y
      OBVIOUS
    <2> QED BY <2>2, <2>3, <2>4
  <1>11. p + q = k
    <2>1. p <= k
      <3> SUFFICES ASSUME k < p PROVE FALSE
        BY <1>0
      <3>1. P(k) < P(p)
        BY <1>10
      <3>2. \A x, y \in Nat : y >= 1 => x <= x * y
        OBVIOUS
      <3> QED BY <1>7, <1>8, <3>1, <3>2
    <2>2. k - p \in 0 .. M /\ k - p \in Nat /\ p \in Nat /\ p + (k - p) = k /\ k <= M + 1 /\ k - p \in 0 .. M + 1
      BY <1>0, <2>1
    <2>3. P(k) = P(p) * P(k - p)
      BY <2>2, ShiftTwice DEF P
    <2>4. P(k - p) = P(q)
      <3>1. P(k - p) \in Nat
        BY <1>0, <2>2
      <3>2. \A a, b, c \in Nat : a > 0 /\ a * b = a * c => b = c
        OBVIOUS
      <3>3. P(p) * P(q) = P(p) * P(k - p)
        BY <1>8, <2>3
      <3>4. P(p) \in Nat /\ P(p) > 0 /\ P(q) \in Nat
        BY <1>7
      <3> QED BY <3>1, <3>2, <3>3, <3>4, Zenon
    <2>5. k - p = q
      BY <1>6, <2>2, <2>4
    <2> QED BY <2>2, <2>5
  <1>12. ASSUME NEW l \in 1 .. L, l # L
         PROVE  addr_bits[l] \in 0 .. M /\ count[l] = P(addr_bits[l])
    <2>1. PICK g \in 0 .. M : count[l] = P(g)
      BY <1>5
    <2>2. addr_bits[l] = calc_log2(count[l]) - 0
      BY <1>12 DEF addr_bits, columns, L
    <2> QED BY <1>0, <1>6, <2>1, <2>2
  <1>13. addr_bits[L] \in 0 .. M /\ addr_bits[L] + p <= M /\ count[L] = P(addr_bits[L] + p)
    <2>1. PICK g \in 0 .. M : last = P(g)
      BY <1>1, <1>5
    <2>2. addr_bits[L] = calc_log2(last) - calc_log2(prefetch_size)
      BY <1>1 DEF addr_bits, columns, L
    <2>3. addr_bits[L] = g - p
      BY <1>2, <1>6, <2>1, <2>2
    <2>4. p <= g
      <3> SUFFICES ASSUME g < p PROVE FALSE
        BY <1>0
      <3>1. P(g) < P(p) /\ P(g) \in Nat
        <4>1. g \in 0 .. M + 1
          BY <1>0
        <4> QED BY <1>0, <1>10, <4>1
      <3> QED BY <1>1, <1>2, <1>7, <2>1, <3>1
    <2>5. g - p \in 0 .. M /\ (g - p) + p = g /\ g <= M
      BY <1>0, <2>4
    <2> QED BY <2>1, <2>3, <2>5
  <1>14. \A l \in 1 .. L : addr_bits[l] \in 0 .. M
    BY <1>12, <1>13
  <1> QED BY <1>1, <1>8, <1>9, <1>11, <1>12, <1>13, <1>14 DEF P, L

\* Either mapping takes the bits of every level once: all of them together.
LEMMA AllBits ==
    ASSUME PowersOfTwo
    PROVE  \E total \in Nat :
             /\ max_address = tx * PowerOf2[total] /\ total + tx_bits <= MaxBits
             /\ \A t \in type :
                  /\ lower(t)[0] = 0 /\ lower(t)[Column] = total
                  /\ \A i \in 1 .. Column : slices[t][i] \in 1 .. Column
                  /\ \A l \in 1 .. Column : \E i \in 1 .. Column : slices[t][i] = l
                  /\ \A i, j \in 1 .. Column : slices[t][i] = slices[t][j] => i = j
                  /\ \A i \in 1 .. Column : lower(t)[i] = lower(t)[i - 1] + addr_bits[slices[t][i]]
                  /\ \A i \in 0 .. Column : lower(t)[i] \in Nat
  <1> DEFINE P(i) == PowerOf2[i]
             M == MaxBits
             L == Column
             w == addr_bits
             B == Sums(L, w)
  <1>0. M \in Nat /\ \A k \in 0 .. M + 1 : P(k) \in Nat \ {0}
    BY Shifts
  <1>1. /\ L \in Nat /\ L >= 2 /\ tx_bits \in 0 .. M /\ tx = P(tx_bits)
        /\ \A l \in 1 .. L : w[l] \in 0 .. M /\ count[l] \in Nat
        /\ \A l \in 1 .. L : l # L => count[l] = P(w[l])
    BY Organized
  <1>2. PICK p, q \in 0 .. M :
          p + q = tx_bits /\ channel_width \div 8 = P(q) /\ w[L] + p <= M /\ count[L] = P(w[L] + p)
    BY Organized
  <1>3. B[0] = 0 /\ (\A i \in 0 .. L : B[i] \in Nat) /\ \A i \in 1 .. L : B[i] = B[i - 1] + w[i]
    <2>1. \A l \in 1 .. L : w[l] \in Nat
      BY <1>1
    <2>2. L \in Nat
      BY <1>1
    <2> HIDE DEF w, L
    <2> QED BY <2>1, <2>2, Summed
  <1> HIDE DEF B
  <1>4. ASSUME NEW t \in type
        PROVE  /\ \A i \in 1 .. L : slices[t][i] \in 1 .. L
               /\ \A l \in 1 .. L : \E i \in 1 .. L : slices[t][i] = l
               /\ \A i, j \in 1 .. L : slices[t][i] = slices[t][j] => i = j
    <2>1. CASE t = "ChRaBaRoCo"
      <3>1. \A i \in 1 .. L : slices[t][i] = L + 1 - i
        BY <2>1 DEF slices
      <3>2. \A i \in 1 .. L : L + 1 - i \in 1 .. L /\ L + 1 - (L + 1 - i) = i
        BY <1>1
      <3>3. \A i, j \in 1 .. L : L + 1 - i = L + 1 - j => i = j
        BY <1>1
      <3> HIDE DEF L
      <3> QED BY <3>1, <3>2, <3>3
    <2>2. CASE t = "RoBaRaCoCh"
      <3>1. \A i \in 1 .. L : slices[t][i] = IF i = 1 THEN 1 ELSE IF i = 2 THEN L ELSE i - 1
        BY <2>2 DEF slices
      <3> HIDE DEF L
      <3>2. \A i \in 1 .. L : slices[t][i] \in 1 .. L
        BY <1>1, <3>1
      <3>3. slices[t][1] = 1 /\ slices[t][2] = L /\ 1 \in 1 .. L /\ 2 \in 1 .. L
        BY <1>1, <3>1
      <3>4. ASSUME NEW l \in 1 .. L, l # 1, l # L PROVE l + 1 \in 1 .. L /\ slices[t][l + 1] = l
        <4>1. l + 1 \in 1 .. L /\ l + 1 # 1 /\ l + 1 # 2 /\ (l + 1) - 1 = l
          BY <1>1, <3>4
        <4> QED BY <3>1, <4>1
      <3>5. \A i, j \in 1 .. L : slices[t][i] = slices[t][j] => i = j
        BY <1>1, <3>1
      <3> QED BY <3>2, <3>3, <3>4, <3>5, Zenon
    <2> QED BY <2>1, <2>2 DEF type
  <1>5. ASSUME NEW t \in type
        PROVE  /\ lower(t)[0] = 0 /\ \A i \in 0 .. L : lower(t)[i] \in Nat
               /\ \A i \in 1 .. L : lower(t)[i] = lower(t)[i - 1] + w[slices[t][i]]
    <2> DEFINE v == [i \in 1 .. L |-> w[slices[t][i]]]
               f == lower(t)
    <2>1. \A i \in 1 .. L : v[i] \in Nat
      BY <1>1, <1>4
    <2>2. f = Sums(L, v)
      <3>1. ASSUME NEW g
            PROVE  [i \in 0 .. L |-> IF i = 0 THEN 0 ELSE g[i - 1] + v[i]]
                     = [i \in 0 .. L |-> IF i = 0 THEN 0 ELSE g[i - 1] + w[slices[t][i]]]
        <4>1. \A i \in 0 .. L : i # 0 => i \in 1 .. L
          BY <1>1
        <4> QED BY <4>1
      <3>2. ASSUME NEW g
            PROVE  SumsTo(g, L, v) <=> g = [i \in 0 .. L |-> IF i = 0 THEN 0 ELSE g[i - 1] + w[slices[t][i]]]
        <4>1. SumsTo(g, L, v) <=> g = [i \in 0 .. L |-> IF i = 0 THEN 0 ELSE g[i - 1] + v[i]]
          BY Zenon DEF SumsTo
        <4> DEFINE one == [i \in 0 .. L |-> IF i = 0 THEN 0 ELSE g[i - 1] + v[i]]
                   two == [i \in 0 .. L |-> IF i = 0 THEN 0 ELSE g[i - 1] + w[slices[t][i]]]
        <4>2. one = two
          BY <3>1, Zenon
        <4>3. SumsTo(g, L, v) <=> g = one
          BY <4>1, Zenon
        <4> HIDE DEF one, two
        <4>4. SumsTo(g, L, v) <=> g = two
          BY <4>2, <4>3, Zenon
        <4> QED BY <4>4, Zenon DEF two
      <3>3. f = CHOOSE g : g = [i \in 0 .. L |-> IF i = 0 THEN 0 ELSE g[i - 1] + w[slices[t][i]]]
        BY Zenon DEF lower
      <3> HIDE DEF f, v
      <3>4. Sums(L, v) = CHOOSE g : g = [i \in 0 .. L |-> IF i = 0 THEN 0 ELSE g[i - 1] + w[slices[t][i]]]
        BY <3>2 DEF Sums
      <3> QED BY <3>3, <3>4
    <2>3. f[0] = 0 /\ (\A i \in 0 .. L : f[i] \in Nat) /\ \A i \in 1 .. L : f[i] = f[i - 1] + v[i]
      <3>1. L \in Nat
        BY <1>1
      <3> HIDE DEF f, v, L, w
      <3>2. /\ Sums(L, v)[0] = 0 /\ \A i \in 0 .. L : Sums(L, v)[i] \in Nat
            /\ \A i \in 1 .. L : Sums(L, v)[i] = Sums(L, v)[i - 1] + v[i]
        BY <2>1, <3>1, Summed
      <3> QED BY <2>2, <3>2
    <2> QED BY <2>3
  <1>6. ASSUME NEW t \in type PROVE lower(t)[L] = B[L]
    <2> DEFINE f == lower(t)
    <2>0. f[0] = 0 /\ (\A i \in 0 .. L : f[i] \in Nat) /\ \A i \in 1 .. L : f[i] = f[i - 1] + w[slices[t][i]]
      BY <1>5
    <2> HIDE DEF f
    <2>1. CASE t = "ChRaBaRoCo"
      <3>1. \A i \in 1 .. L : slices[t][i] = L + 1 - i
        BY <2>1 DEF slices
      <3> HIDE DEF L, w
      <3> DEFINE S == {i \in Nat : i <= L => f[i] + B[L - i] = B[L]}
      <3>2. 0 \in S
        BY <1>1, <1>3, <2>0
      <3>3. ASSUME NEW i \in Nat, i \in S PROVE i + 1 \in S
        <4> SUFFICES ASSUME i + 1 <= L PROVE f[i + 1] + B[L - (i + 1)] = B[L]
          OBVIOUS
        <4>1. /\ i + 1 \in 1 .. L /\ (i + 1) - 1 = i /\ L + 1 - (i + 1) = L - i /\ L - i \in 1 .. L
              /\ (L - i) - 1 = L - (i + 1) /\ i <= L /\ L - (i + 1) \in 0 .. L /\ i \in 0 .. L
          BY <1>1
        <4>2. f[i + 1] = f[i] + w[L - i]
          BY <2>0, <3>1, <4>1
        <4>3. B[L - i] = B[L - (i + 1)] + w[L - i]
          BY <1>3, <4>1
        <4>4. f[i] + B[L - i] = B[L]
          BY <3>3, <4>1
        <4>5. f[i] \in Nat /\ w[L - i] \in Nat /\ B[L - (i + 1)] \in Nat
          BY <1>1, <1>3, <2>0, <4>1
        <4> QED BY <4>2, <4>3, <4>4, <4>5
      <3>4. \A i \in Nat : i \in S
        <4> HIDE DEF S
        <4> QED BY <3>2, <3>3, SetInduction
      <3>5. L <= L /\ L - L = 0 /\ L \in 0 .. L
        BY <1>1
      <3>6. f[L] + B[0] = B[L]
        BY <1>1, <3>4, <3>5
      <3> QED BY <1>3, <2>0, <3>5, <3>6 DEF f
    <2>2. CASE t = "RoBaRaCoCh"
      <3>1. \A i \in 1 .. L : slices[t][i] = IF i = 1 THEN 1 ELSE IF i = 2 THEN L ELSE i - 1
        BY <2>2 DEF slices
      <3> HIDE DEF L, w
      <3> DEFINE S == {i \in Nat : i + 2 <= L => f[i + 2] = B[i + 1] + w[L]}
      <3>2. 0 \in S
        <4>1. 1 \in 1 .. L /\ 2 \in 1 .. L /\ 1 - 1 = 0 /\ 2 - 1 = 1 /\ L \in 1 .. L
          BY <1>1
        <4>2. f[1] = f[0] + w[1] /\ f[2] = f[1] + w[L]
          BY <2>0, <3>1, <4>1
        <4>3. B[1] = B[0] + w[1] /\ w[1] \in Nat /\ w[L] \in Nat
          BY <1>1, <1>3, <4>1
        <4>4. f[2] = B[1] + w[L]
          BY <1>3, <2>0, <4>2, <4>3
        <4> QED BY <4>4
      <3>3. ASSUME NEW i \in Nat, i \in S PROVE i + 1 \in S
        <4> SUFFICES ASSUME (i + 1) + 2 <= L PROVE f[(i + 1) + 2] = B[(i + 1) + 1] + w[L]
          OBVIOUS
        <4>1. /\ i + 3 \in 1 .. L /\ (i + 3) - 1 = i + 2 /\ i + 3 # 1 /\ i + 3 # 2 /\ i + 2 \in 1 .. L
              /\ i + 2 <= L /\ (i + 2) - 1 = i + 1 /\ i + 1 \in 0 .. L /\ L \in 1 .. L
          BY <1>1
        <4>2. f[i + 3] = f[i + 2] + w[i + 2]
          BY <2>0, <3>1, <4>1
        <4>3. B[i + 2] = B[i + 1] + w[i + 2]
          BY <1>3, <4>1
        <4>4. f[i + 2] = B[i + 1] + w[L]
          BY <3>3, <4>1
        <4>5. w[L] \in Nat /\ w[i + 2] \in Nat /\ B[i + 1] \in Nat
          BY <1>1, <1>3, <4>1
        <4>6. f[i + 3] = B[i + 2] + w[L] /\ (i + 1) + 2 = i + 3 /\ (i + 1) + 1 = i + 2
          BY <4>2, <4>3, <4>4, <4>5
        <4> QED BY <4>6
      <3>4. \A i \in Nat : i \in S
        <4> HIDE DEF S
        <4> QED BY <3>2, <3>3, SetInduction
      <3>5. L - 2 \in Nat /\ (L - 2) + 2 = L /\ (L - 2) + 1 = L - 1 /\ L \in 1 .. L /\ (L - 2) + 2 <= L
        BY <1>1
      <3>6. f[L] = B[L - 1] + w[L]
        <4>1. L - 2 \in S
          BY <3>4, <3>5
        <4> QED BY <3>5, <4>1
      <3> QED BY <1>3, <3>5, <3>6 DEF f
    <2> QED BY <2>1, <2>2 DEF type
  <1>7. B[L] + tx_bits <= M
    <2>1. "ChRaBaRoCo" \in type
      BY DEF type
    <2>2. tx_bits + lower("ChRaBaRoCo")[L] <= M /\ lower("ChRaBaRoCo")[L] = B[L]
      BY <1>6, <2>1, WidthAssumption
    <2>3. B[L] \in Nat
      BY <1>1, <1>3
    <2> QED BY <1>1, <2>2, <2>3
  <1>8. \A i, j \in 0 .. L : i <= j => B[i] <= B[j]
    <2> SUFFICES ASSUME NEW i \in 0 .. L PROVE \A j \in 0 .. L : i <= j => B[i] <= B[j]
      OBVIOUS
    <2> HIDE DEF L, w
    <2> DEFINE S == {j \in Nat : j <= L /\ i <= j => B[i] <= B[j]}
    <2>1. 0 \in S
      BY <1>1, <1>3
    <2>2. ASSUME NEW j \in Nat, j \in S PROVE j + 1 \in S
      <3> SUFFICES ASSUME j + 1 <= L, i <= j + 1 PROVE B[i] <= B[j + 1]
        OBVIOUS
      <3>1. j + 1 \in 1 .. L /\ (j + 1) - 1 = j /\ j \in 0 .. L /\ j + 1 \in 0 .. L
        BY <1>1
      <3>2. B[j + 1] = B[j] + w[j + 1] /\ w[j + 1] \in Nat /\ B[j] \in Nat /\ B[i] \in Nat
        BY <1>1, <1>3, <3>1
      <3>3. CASE i = j + 1
        BY <3>2, <3>3
      <3>4. CASE i <= j
        BY <2>2, <3>1, <3>2, <3>4
      <3> QED BY <3>1, <3>3, <3>4
    <2>3. \A j \in Nat : j \in S
      <3> HIDE DEF S
      <3> QED BY <2>1, <2>2, SetInduction
    <2> QED BY <1>1, <2>3
  <1>9. max_address = P(tx_bits + B[L])
    <2> HIDE DEF L, w
    <2>0. P(q) \in Nat
      <3>1. q \in 0 .. M + 1
        BY <1>0
      <3> QED BY <1>0, <3>1
    <2>1. capacity[0] = P(q) /\ \A l \in 1 .. L : capacity[l] = capacity[l - 1] * count[l]
      BY <1>1, <1>2, <2>0, Capacities DEF L
    <2> DEFINE S == {l \in Nat : l < L => capacity[l] = P(q + B[l])}
    <2>2. 0 \in S
      BY <1>3, <2>1
    <2>3. ASSUME NEW l \in Nat, l \in S PROVE l + 1 \in S
      <3> SUFFICES ASSUME l + 1 < L PROVE capacity[l + 1] = P(q + B[l + 1])
        OBVIOUS
      <3>1. l + 1 \in 1 .. L /\ (l + 1) - 1 = l /\ l < L /\ l \in 0 .. L /\ l + 1 # L /\ l + 1 \in 0 .. L /\ L \in 0 .. L /\ l + 1 <= L
        BY <1>1
      <3>2. capacity[l + 1] = P(q + B[l]) * P(w[l + 1])
        BY <1>1, <2>1, <2>3, <3>1
      <3>3. B[l + 1] = B[l] + w[l + 1] /\ w[l + 1] \in Nat /\ B[l] \in Nat /\ B[l + 1] <= B[L] /\ B[L] \in Nat
        BY <1>1, <1>3, <1>8, <3>1
      <3>4. q + B[l] \in Nat /\ (q + B[l]) + w[l + 1] <= M + 1 /\ (q + B[l]) + w[l + 1] = q + B[l + 1]
        BY <1>0, <1>1, <1>2, <1>7, <3>3
      <3>5. P((q + B[l]) + w[l + 1]) = P(q + B[l]) * P(w[l + 1])
        BY <3>3, <3>4, ShiftTwice
      <3> QED BY <3>2, <3>4, <3>5
    <2>4. \A l \in Nat : l \in S
      <3> HIDE DEF S
      <3> QED BY <2>2, <2>3, SetInduction
    <2>5. L - 1 \in Nat /\ L - 1 < L /\ L \in 1 .. L /\ L - 1 \in 0 .. L /\ L \in 0 .. L
      BY <1>1
    <2>6. capacity[L] = P(q + B[L - 1]) * P(w[L] + p)
      BY <1>2, <2>1, <2>4, <2>5
    <2>7. B[L] = B[L - 1] + w[L] /\ w[L] \in Nat /\ B[L - 1] \in Nat /\ B[L] \in Nat
      BY <1>1, <1>3, <2>5
    <2>8. /\ q + B[L - 1] \in Nat /\ w[L] + p \in Nat /\ (q + B[L - 1]) + (w[L] + p) = tx_bits + B[L]
          /\ (q + B[L - 1]) + (w[L] + p) <= M + 1
      BY <1>0, <1>1, <1>2, <1>7, <2>7
    <2>9. P((q + B[L - 1]) + (w[L] + p)) = P(q + B[L - 1]) * P(w[L] + p)
      BY <2>8, ShiftTwice
    <2> QED BY <2>6, <2>8, <2>9 DEF max_address, L
  <1>10. P(tx_bits + B[L]) = P(tx_bits) * P(B[L]) /\ B[L] \in Nat
    <2>1. tx_bits \in Nat /\ B[L] \in Nat /\ tx_bits + B[L] <= M + 1
      BY <1>0, <1>1, <1>3, <1>7
    <2> QED BY <2>1, ShiftTwice
  <1>11. max_address = tx * P(B[L])
    BY <1>1, <1>9, <1>10
  <1>12. B[L] \in Nat
    BY <1>10
  <1> DEFINE b == B[L]
  <1>13. \A t \in type : lower(t)[Column] = b
    BY <1>6
  <1>14. b \in Nat /\ max_address = tx * PowerOf2[b] /\ b + tx_bits <= MaxBits
    BY <1>7, <1>11, <1>12
  <1> HIDE DEF b
  <1> QED BY <1>4, <1>5, <1>13, <1>14, Zenon

\* Two addresses of the memory go to the same place only if they are in the same
\* transaction, and each place exists.
LEMMA PlaceOf ==
    ASSUME PowersOfTwo, NEW t \in type, NEW a \in Nat, NEW b \in Nat, a < max_address, b < max_address
    PROVE  /\ send(t, a) = send(t, b) <=> a \div tx = b \div tx
           /\ \A l \in DOMAIN count : send(t, a)[l] < count[l]
  <1> DEFINE P(i) == PowerOf2[i]
             L == Column
             low == lower(t)
             x == clear_lower_bits(a, tx_bits)
             y == clear_lower_bits(b, tx_bits)
             at(l) == low[(CHOOSE i \in 1 .. L : slices[t][i] = l) - 1]
             digit(z, l) == (z \div P(at(l))) % P(addr_bits[l])
             v == [i \in 1 .. L |-> addr_bits[slices[t][i]]]
  <1>0. MaxBits \in Nat /\ \A k \in 0 .. MaxBits + 1 : P(k) \in Nat \ {0}
    BY Shifts
  <1>1. /\ L \in Nat /\ L >= 2 /\ tx_bits \in 0 .. MaxBits /\ tx = P(tx_bits) /\ DOMAIN count = 1 .. L
        /\ \A l \in 1 .. L : addr_bits[l] \in 0 .. MaxBits /\ count[l] \in Nat
        /\ \A l \in 1 .. L : l # L => count[l] = P(addr_bits[l])
    BY Organized, OrganizationAssumption DEF Column
  <1>2. PICK p, q \in 0 .. MaxBits : addr_bits[L] + p <= MaxBits /\ count[L] = P(addr_bits[L] + p)
    BY Organized
  <1>3. PICK total \in Nat :
          /\ max_address = tx * P(total) /\ total + tx_bits <= MaxBits
          /\ low[0] = 0 /\ low[L] = total
          /\ \A i \in 1 .. L : slices[t][i] \in 1 .. L
          /\ \A l \in 1 .. L : \E i \in 1 .. L : slices[t][i] = l
          /\ \A i, j \in 1 .. L : slices[t][i] = slices[t][j] => i = j
          /\ \A i \in 1 .. L : low[i] = low[i - 1] + addr_bits[slices[t][i]]
          /\ \A i \in 0 .. L : low[i] \in Nat
    BY AllBits
  <1>4. /\ send(t, a) = [l \in 1 .. L |-> digit(x, l)]
        /\ send(t, b) = [l \in 1 .. L |-> digit(y, l)]
    BY Zenon DEF send, slice_lower_bits, clear_lower_bits
  <1> HIDE DEF P, L, low
  <1>5. tx \in Nat \ {0} /\ P(total) \in Nat \ {0}
    <2>1. tx_bits \in 0 .. MaxBits + 1 /\ total \in 0 .. MaxBits + 1
      BY <1>0, <1>1, <1>3
    <2> QED BY <1>0, <1>1, <2>1
  <1>6. ASSUME NEW z \in Nat, z < max_address
        PROVE  z \div tx \in Nat /\ (z \div tx) % P(total) = z \div tx
    <2> DEFINE d == z \div tx
               r == z % tx
    <2>1. d \in Nat /\ r \in 0 .. tx - 1 /\ z = tx * d + r
      BY <1>5, Division
    <2> HIDE DEF d, r
    <2>2. d < P(total)
      <3> SUFFICES ASSUME P(total) <= d PROVE FALSE
        BY <1>5, <2>1
      <3>1. tx * P(total) <= tx * d
        <4>1. \A u, m, n \in Nat : m <= n => u * m <= u * n
          OBVIOUS
        <4> QED BY <1>5, <2>1, <4>1
      <3>2. tx * P(total) \in Nat /\ tx * d \in Nat
        BY <1>5, <2>1
      <3>3. z < tx * P(total)
        BY <1>3, <1>6
      <3> QED BY <2>1, <3>1, <3>2, <3>3
    <2>3. \A m, n \in Nat : m < n => m % n = m
      OBVIOUS
    <2> QED BY <1>5, <2>1, <2>2, <2>3 DEF d
  <1>7. \A l \in 1 .. L : addr_bits[l] \in Nat
    BY <1>0, <1>1
  <1>8. x = a \div tx /\ y = b \div tx
    BY <1>1 DEF clear_lower_bits, P
  <1>9. x \in Nat /\ y \in Nat /\ x % P(total) = x /\ y % P(total) = y
    BY <1>6, <1>8
  <1> HIDE DEF x, y
  <1>10. \A i \in 1 .. L : at(slices[t][i]) = low[i - 1]
    <2> SUFFICES ASSUME NEW i \in 1 .. L PROVE at(slices[t][i]) = low[i - 1]
      OBVIOUS
    <2> DEFINE j == CHOOSE j \in 1 .. L : slices[t][j] = slices[t][i]
    <2>1. j \in 1 .. L /\ slices[t][j] = slices[t][i]
      OBVIOUS
    <2>2. at(slices[t][i]) = low[j - 1]
      OBVIOUS
    <2> HIDE DEF j, at
    <2>3. j = i
      BY <1>3, <2>1
    <2> QED BY <2>2, <2>3
  <1>11. \A i \in 0 .. L : low[i] \in Nat /\ low[i] <= MaxBits
    <2> HIDE DEF at, digit, v
    <2> DEFINE S == {n \in Nat : n <= L => low[L - n] <= total}
    <2>1. 0 \in S
      <3>1. L - 0 = L /\ low[L] = total
        BY <1>1, <1>3
      <3> QED BY <3>1
    <2>2. ASSUME NEW n \in Nat, n \in S PROVE n + 1 \in S
      <3> SUFFICES ASSUME n + 1 <= L PROVE low[L - (n + 1)] <= total
        OBVIOUS
      <3>1. /\ L - n \in 1 .. L /\ (L - n) - 1 = L - (n + 1) /\ n <= L
            /\ L - (n + 1) \in 0 .. L /\ L - n \in 0 .. L
        BY <1>1
      <3> DEFINE k == L - n
      <3>2. slices[t][k] \in 1 .. L /\ low[k] = low[k - 1] + addr_bits[slices[t][k]]
        BY <1>3, <3>1
      <3>3. addr_bits[slices[t][k]] \in Nat /\ low[k] <= total
        BY <1>7, <2>2, <3>1, <3>2
      <3>4. low[k] \in Nat /\ low[k - 1] \in Nat
        BY <1>3, <3>1
      <3>5. low[k - 1] <= total
        <4> HIDE DEF k
        <4> QED BY <3>2, <3>3, <3>4
      <3> QED BY <3>1, <3>5
    <2>3. \A n \in Nat : n \in S
      <3> HIDE DEF S
      <3> QED BY <2>1, <2>2, SetInduction
    <2> SUFFICES ASSUME NEW i \in 0 .. L PROVE low[i] \in Nat /\ low[i] <= MaxBits
      OBVIOUS
    <2>4. L - i \in Nat /\ L - i <= L /\ L - (L - i) = i
      BY <1>1
    <2> DEFINE k == L - i
    <2>5. low[L - k] <= total
      <3> HIDE DEF k
      <3> QED BY <2>3, <2>4 DEF k
    <2>6. low[i] <= total
      BY <2>4, <2>5
    <2>7. low[i] \in Nat
      BY <1>3
    <2>8. total <= MaxBits
      BY <1>0, <1>1, <1>3
    <2> QED BY <1>0, <2>6, <2>7, <2>8
  <1>12. ASSUME send(t, a) = send(t, b) PROVE x = y
    <2>1. \A l \in 1 .. L : digit(x, l) = digit(y, l)
      <3> HIDE DEF digit
      <3>1. \A l \in 1 .. L : send(t, a)[l] = digit(x, l) /\ send(t, b)[l] = digit(y, l)
        BY <1>4
      <3> QED BY <1>12, <3>1
    <2>2. \A i \in 1 .. L : (x \div P(low[i - 1])) % P(v[i]) = (y \div P(low[i - 1])) % P(v[i])
      <3> SUFFICES ASSUME NEW i \in 1 .. L
                   PROVE  (x \div P(low[i - 1])) % P(v[i]) = (y \div P(low[i - 1])) % P(v[i])
        OBVIOUS
      <3>1. slices[t][i] \in 1 .. L /\ at(slices[t][i]) = low[i - 1] /\ v[i] = addr_bits[slices[t][i]]
        BY <1>3, <1>10
      <3>2. digit(x, slices[t][i]) = digit(y, slices[t][i])
        BY <2>1, <3>1
      <3> HIDE DEF at, v
      <3> QED BY <3>1, <3>2
    <2>3. \A i \in 1 .. L : v[i] \in Nat /\ low[i] = low[i - 1] + v[i]
      <3> SUFFICES ASSUME NEW i \in 1 .. L PROVE v[i] \in Nat /\ low[i] = low[i - 1] + v[i]
        OBVIOUS
      <3>1. v[i] = addr_bits[slices[t][i]] /\ slices[t][i] \in 1 .. L
        BY <1>3
      <3>2. addr_bits[slices[t][i]] \in Nat /\ low[i] = low[i - 1] + addr_bits[slices[t][i]]
        BY <1>3, <1>7, <3>1
      <3> HIDE DEF v
      <3> QED BY <3>1, <3>2
    <2> HIDE DEF v, digit, at
    <2>5. x % P(low[L]) = y % P(low[L])
      <3>1. low[0] = 0 /\ L \in Nat /\ x \in Nat /\ y \in Nat
        BY <1>1, <1>3, <1>9
      <3>2. \A i \in 1 .. L :
              (x \div PowerOf2[low[i - 1]]) % PowerOf2[v[i]] = (y \div PowerOf2[low[i - 1]]) % PowerOf2[v[i]]
        BY <2>2 DEF P
      <3>3. x % PowerOf2[low[L]] = y % PowerOf2[low[L]]
        <4>1. Alike(L, low, v, x, y)
          BY <1>11, <2>3, <3>1, <3>2 DEF Alike
        <4> QED BY <3>1, <4>1, SameDigits, Zenon
      <3> QED BY <3>3 DEF P
    <2> QED BY <1>3, <1>9, <2>5
  <1>13. ASSUME x = y PROVE send(t, a) = send(t, b)
    BY <1>4, <1>13, Zenon
  <1>14. ASSUME NEW l \in 1 .. L PROVE send(t, a)[l] < count[l]
    <2>1. PICK i \in 1 .. L : slices[t][i] = l
      BY <1>3
    <2> DEFINE e == low[i - 1]
               n == addr_bits[l]
               z == x \div P(e)
    <2>2. send(t, a)[l] = z % P(n)
      <3>1. send(t, a)[l] = digit(x, l)
        BY <1>4
      <3>2. at(l) = e
        BY <1>10, <2>1
      <3> HIDE DEF at
      <3> QED BY <3>1, <3>2
    <2>3. P(e) \in Nat \ {0} /\ P(n) \in Nat \ {0} /\ n \in 0 .. MaxBits
      <3>1. i - 1 \in 0 .. L
        BY <1>1
      <3>2. e \in 0 .. MaxBits + 1
        BY <1>0, <1>11, <3>1
      <3>3. n \in 0 .. MaxBits /\ n \in 0 .. MaxBits + 1
        BY <1>0, <1>1
      <3> QED BY <1>0, <3>2, <3>3
    <2>4. z \in Nat
      BY <1>9, <2>3, Division
    <2> HIDE DEF z, e
    <2>5. z % P(n) \in 0 .. P(n) - 1
      BY <2>3, <2>4, Division
    <2>6. P(n) <= count[l]
      <3>1. CASE l # L
        BY <1>1, <2>3, <3>1
      <3>2. CASE l = L
        <4>1. p \in Nat /\ n \in Nat /\ n + p <= MaxBits + 1 /\ p \in 0 .. MaxBits + 1
          BY <1>0, <1>2, <2>3, <3>2
        <4>2. count[l] = P(n) * P(p)
          BY <1>2, <3>2, <4>1, ShiftTwice DEF P
        <4>3. P(p) \in Nat /\ P(p) >= 1 /\ P(n) \in Nat
          BY <1>0, <2>3, <4>1
        <4>4. \A g, h \in Nat : h >= 1 => g <= g * h
          OBVIOUS
        <4> QED BY <4>2, <4>3, <4>4
      <3> QED BY <3>1, <3>2
    <2>7. count[l] \in Nat
      BY <1>1
    <2> QED BY <2>2, <2>3, <2>5, <2>6, <2>7
  <1> QED BY <1>1, <1>8, <1>12, <1>13, <1>14

\* The bursts lie in the memory.
InMemory == \A a \in Addrs, l \in Lengths : a + l <= max_address

LEMMA MemorySize == ASSUME PowersOfTwo PROVE tx \in Nat \ {0} /\ max_address \in Nat
  <1>1. tx \in Nat \ {0}
    <2>1. tx_bits \in 0 .. MaxBits /\ tx = PowerOf2[tx_bits] /\ MaxBits \in Nat
      BY Organized, Shifts
    <2>2. tx_bits \in 0 .. MaxBits + 1
      BY <2>1
    <2> QED BY <2>1, <2>2, Shifts
  <1>2. max_address \in Nat
    <2>1. PICK total \in Nat : max_address = tx * PowerOf2[total] /\ total + tx_bits <= MaxBits
      BY AllBits
    <2>2. tx_bits \in 0 .. MaxBits /\ MaxBits \in Nat
      BY Organized, Shifts
    <2>3. total \in 0 .. MaxBits + 1
      BY <2>1, <2>2
    <2>4. PowerOf2[total] \in Nat
      BY <2>3, Shifts
    <2> QED BY <1>1, <2>1, <2>4
  <1> QED BY <1>1, <1>2

LEMMA RequestPlaces ==
    ASSUME PowersOfTwo, reqQueue # <<>> => \A i \in DOMAIN reqQueue : reqQueue[i] \in Nat /\ reqQueue[i] < max_address
    PROVE  PlacesDistinct
  <1> SUFFICES ASSUME NEW t \in type, NEW i \in DOMAIN reqQueue, NEW b \in Transactions
               PROVE  LET a == reqQueue[i] IN
                      /\ send(t, a) = send(t, b) <=> a \div tx = b \div tx
                      /\ \A l \in DOMAIN count : send(t, a)[l] < count[l]
    BY DEF PlacesDistinct
  <1> DEFINE a == reqQueue[i]
  <1>1. a \in Nat /\ a < max_address
    <2>1. reqQueue = <<>> => DOMAIN reqQueue = {}
      OBVIOUS
    <2> QED BY <2>1
  <1>2. tx \in Nat \ {0} /\ max_address \in Nat
    BY MemorySize
  <1>3. b \in Nat /\ b < max_address
    <2> DEFINE n == max_address \div tx
    <2>1. PICK k \in 0 .. n - 1 : b = tx * k
      BY DEF Transactions
    <2> DEFINE r == max_address % tx
    <2>2. n \in Nat /\ r \in 0 .. tx - 1 /\ max_address = tx * n + r
      BY <1>2, Division
    <2> HIDE DEF n, r
    <2>3. k \in Nat /\ k < n
      BY <2>1, <2>2
    <2>4. \A u, v, w \in Nat : u > 0 /\ v < w => u * v < u * w
      OBVIOUS
    <2>5. tx * k < tx * n /\ tx * k \in Nat /\ tx * n \in Nat
      BY <1>2, <2>2, <2>3, <2>4
    <2> QED BY <1>2, <2>1, <2>2, <2>5
  <1> HIDE DEF a
  <1>4. /\ send(t, a) = send(t, b) <=> a \div tx = b \div tx
        /\ \A l \in DOMAIN count : send(t, a)[l] < count[l]
    BY <1>1, <1>3, PlaceOf
  <1> QED BY <1>4 DEF a

-----------------------------------------------------------------------------
(* Every burst *)

BurstInv ==
    /\ addr \in Nat /\ length \in Nat \ {0} /\ graph \in Nat \X Nat
    /\ addresses = <<>> \/ addresses = addrVec(addr, length)
    /\ reqQueue = <<>> \/ reqQueue = convertToReq(addr, length)

LEMMA BurstKept == (BurstInit => BurstInv) /\ (BurstInv /\ [BurstNext]_burstVars => BurstInv')
  <1>1. BurstInit => BurstInv
    BY BurstsAssumption DEF BurstInit, BurstInv
  <1>2. ASSUME BurstInv, [BurstNext]_burstVars PROVE BurstInv'
    <2>1. UNCHANGED <<addr, length, graph>>
      BY <1>2, Zenon DEF BurstNext, Create, Convert, burstVars
    <2>2. addresses' = addresses \/ addresses' = addrVec(addr, length)
      BY <1>2, Zenon DEF BurstNext, Create, Convert, burstVars
    <2>3. reqQueue' = reqQueue \/ reqQueue' = convertToReq(addr, length)
      BY <1>2, Zenon DEF BurstNext, Create, Convert, burstVars
    <2>4. addr' \in Nat /\ length' \in Nat \ {0} /\ graph' \in Nat \X Nat
      BY <1>2, <2>1, Zenon DEF BurstInv
    <2>5. addresses' = <<>> \/ addresses' = addrVec(addr', length')
      BY <1>2, <2>1, <2>2, Zenon DEF BurstInv
    <2>6. reqQueue' = <<>> \/ reqQueue' = convertToReq(addr', length')
      BY <1>2, <2>1, <2>3, Zenon DEF BurstInv
    <2> QED BY <2>4, <2>5, <2>6, Zenon DEF BurstInv
  <1> QED BY <1>1, <1>2

\* What is needed of the requests of a burst: places at, one basic burst apart,
\* from the aligned address on, as many as the burst needs.
LEMMA RequestsCover ==
    ASSUME NEW l \in Nat \ {0}, NEW base \in Nat, NEW off \in 0 .. 2 * l - 1, NEW n \in Nat \ {0},
           NEW num \in Nat, (num - 1) * l < off + n, off + n <= num * l,
           NEW at, \A i \in 1 .. num : at[i] = base + (i - 1) * l
    PROVE  /\ \A x \in base + off .. base + off + n - 1 : \E i \in 1 .. num : x \in at[i] .. at[i] + l - 1
           /\ \A i, j \in 1 .. num : i < j => at[i] + l <= at[j]
           /\ \A i \in 1 .. num :
                \/ i = 1 /\ off >= l
                \/ \E x \in base + off .. base + off + n - 1 : x \in at[i] .. at[i] + l - 1
  <1>0. \A x, y, z \in Nat : x <= y => x * z <= y * z
    OBVIOUS
  <1>1. ASSUME NEW x \in base + off .. base + off + n - 1
        PROVE  \E i \in 1 .. num : x \in at[i] .. at[i] + l - 1
    <2> DEFINE y == x - base
               d == y \div l
               r == y % l
               p == l * d
    <2>1. y \in Nat /\ y < off + n /\ y <= 2 * l - 1 + n
      OBVIOUS
    <2>2. d \in Nat /\ r \in 0 .. l - 1 /\ y = p + r
      <3> HIDE DEF y
      <3> QED BY <2>1, Division
    <2> HIDE DEF d, r
    <2>3. p \in Nat
      BY <2>2
    <2>4. d + 1 \in 1 .. num
      <3> SUFFICES ASSUME d >= num PROVE FALSE
        BY <2>2
      <3>1. num * l <= d * l /\ d * l = p
        BY <1>0, <2>2
      <3> DEFINE q == num * l
      <3>2. q <= p /\ off + n <= q /\ q \in Nat
        BY <3>1
      <3> HIDE DEF p, q, y
      <3> QED BY <2>1, <2>2, <2>3, <3>2
    <2>5. at[d + 1] = base + p
      <3>1. ((d + 1) - 1) * l = p
        BY <2>2
      <3> QED BY <2>4, <3>1
    <2>6. x \in at[d + 1] .. at[d + 1] + l - 1
      <3>1. x = base + y
        OBVIOUS
      <3> HIDE DEF p, y
      <3> QED BY <2>2, <2>3, <2>5, <3>1
    <2> QED BY <2>4, <2>6
  <1>2. ASSUME NEW i \in 1 .. num, NEW j \in 1 .. num, i < j PROVE at[i] + l <= at[j]
    <2>1. i - 1 \in Nat /\ i \in Nat /\ j - 1 \in Nat /\ i <= j - 1
      BY <1>2
    <2>2. i * l <= (j - 1) * l
      BY <1>0, <2>1
    <2>3. \A x, y \in Nat : (x - 1) * y + y = x * y
      OBVIOUS
    <2>4. (i - 1) * l + l = i * l /\ (i - 1) * l \in Nat
      BY <2>1, <2>3
    <2>5. at[i] = base + (i - 1) * l /\ at[j] = base + (j - 1) * l
      OBVIOUS
    <2> DEFINE p == (i - 1) * l
               q == (j - 1) * l
               s == i * l
    <2>6. p + l = s /\ s <= q /\ p \in Nat /\ q \in Nat /\ s \in Nat /\ at[i] = base + p /\ at[j] = base + q
      BY <2>1, <2>2, <2>4, <2>5
    <2> HIDE DEF p, q, s
    <2> QED BY <2>6
  <1>3. ASSUME NEW i \in 1 .. num, ~(i = 1 /\ off >= l)
        PROVE  \E x \in base + off .. base + off + n - 1 : x \in at[i] .. at[i] + l - 1
    <2> DEFINE p == (i - 1) * l
               q == (num - 1) * l
               s == i * l
               x == IF off >= p THEN off ELSE p
    <2>1. i - 1 \in Nat /\ num - 1 \in Nat /\ i - 1 <= num - 1
      OBVIOUS
    <2>2. p <= q
      BY <1>0, <2>1
    <2>3. \A u, v \in Nat : (u - 1) * v + v = u * v
      OBVIOUS
    <2>4. s = p + l /\ p \in Nat /\ q \in Nat /\ q < off + n
      <3>1. p + l = s
        BY <2>3
      <3>2. p \in Nat /\ q \in Nat
        BY <2>1
      <3> HIDE DEF p, s
      <3> QED BY <3>1, <3>2
    <2>5. i >= 2 => p >= l
      <3> HAVE i >= 2
      <3>1. 1 * l <= p
        BY <1>0, <2>1
      <3> HIDE DEF p
      <3> QED BY <2>4, <3>1
    <2>6. i = 1 => p = 0
      OBVIOUS
    <2>7. at[i] = base + p
      OBVIOUS
    <2> HIDE DEF p, q, s
    <2>8. base + x \in base + off .. base + off + n - 1
      BY <2>2, <2>4
    <2>9. base + x \in at[i] .. at[i] + l - 1
      BY <1>3, <2>4, <2>5, <2>6, <2>7
    <2> QED BY <2>8, <2>9
  <1> QED BY <1>1, <1>2, <1>3

LEMMA BurstsMatch == BurstInv => RequestsMatch
  <1> SUFFICES ASSUME BurstInv, addresses # <<>> PROVE Len(addresses) = getReqNum(addr, length)
    BY DEF RequestsMatch
  <1>1. addr \in Nat /\ length \in Nat \ {0} /\ addresses = addrVec(addr, length)
    BY DEF BurstInv
  <1> QED BY <1>1, Requested

LEMMA BurstsCover == BurstInv => BurstCovered
  <1> SUFFICES ASSUME BurstInv, reqQueue # <<>> PROVE BurstCovered
    BY DEF BurstCovered
  <1> DEFINE l == burstLen
             base == getAlignedAddr(addr)
             off == getOffset(addr)
             num == getReqNum(addr, length)
             at == reqQueue
             X == base + off .. base + off + length - 1
  <1>1. addr \in Nat /\ length \in Nat \ {0} /\ at = convertToReq(addr, length)
    BY DEF BurstInv
  <1>2. /\ l \in Nat \ {0} /\ base \in Nat /\ off \in 0 .. 2 * l - 1 /\ addr = base + off
        /\ num \in Nat /\ (num - 1) * l < off + length /\ off + length <= num * l
        /\ DOMAIN at = 1 .. num /\ \A i \in 1 .. num : at[i] = base + (i - 1) * l
    <2>1. l \in Nat \ {0} /\ base \in Nat /\ off \in 0 .. 2 * l - 1 /\ addr = base + off
      BY <1>1, Alignment, Aligned
    <2>2. num \in Nat /\ (num - 1) * l < off + length /\ off + length <= num * l
      BY <1>1, NumberHolds DEF Fit
    <2>3. DOMAIN at = 1 .. num /\ \A i \in 1 .. num : at[i] = base + (i - 1) * l
      BY <1>1, Requested
    <2> QED BY <2>1, <2>2, <2>3
  <1> HIDE DEF base, off, num, at
  <1>3. /\ \A x \in X : \E i \in 1 .. num : x \in at[i] .. at[i] + l - 1
        /\ \A i, j \in 1 .. num : i < j => at[i] + l <= at[j]
        /\ \A i \in 1 .. num : (i = 1 /\ off >= l) \/ \E x \in X : x \in at[i] .. at[i] + l - 1
    <2> HIDE DEF l
    <2>1. length \in Nat \ {0} /\ l \in Nat \ {0} /\ base \in Nat /\ off \in 0 .. 2 * l - 1 /\ num \in Nat
      BY <1>1, <1>2
    <2>2. (num - 1) * l < off + length /\ off + length <= num * l
      BY <1>2
    <2>3. \A i \in 1 .. num : at[i] = base + (i - 1) * l
      BY <1>2
    <2> QED BY <2>1, <2>2, <2>3, RequestsCover, ZenonT(30)
  <1>4. Bytes = X
    <2> DEFINE first == base + off
    <2>1. first \in Nat /\ addr = first /\ length \in Nat /\ X = first .. first + length - 1
      BY <1>1, <1>2
    <2> HIDE DEF X, first
    <2>2. ASSUME NEW x \in Bytes PROVE x \in X
      <3>1. PICK k \in 0 .. length - 1 : x = first + k
        BY <2>1 DEF Bytes
      <3> QED BY <2>1, <3>1
    <2>3. ASSUME NEW x \in X PROVE x \in Bytes
      <3>1. x - first \in 0 .. length - 1 /\ x = addr + (x - first)
        BY <2>1
      <3> QED BY <3>1, Zenon DEF Bytes
    <2> QED BY <2>2, <2>3
  <1>5. \A i \in 1 .. num : Covered(at[i]) = at[i] .. at[i] + l - 1
    <2> SUFFICES ASSUME NEW i \in 1 .. num PROVE Covered(at[i]) = at[i] .. at[i] + l - 1
      OBVIOUS
    <2> DEFINE b == at[i]
    <2>1. b \in Nat
      <3>1. b = base + (i - 1) * l /\ (i - 1) * l \in Nat
        BY <1>2
      <3> QED BY <1>2, <3>1
    <2> HIDE DEF b
    <2>2. ASSUME NEW x \in Covered(b) PROVE x \in b .. b + l - 1
      <3>1. PICK k \in 0 .. l - 1 : x = b + k
        BY DEF Covered
      <3> QED BY <1>2, <2>1, <3>1
    <2>3. ASSUME NEW x \in b .. b + l - 1 PROVE x \in Covered(b)
      <3>1. x - b \in 0 .. l - 1 /\ x = b + (x - b)
        BY <1>2, <2>1
      <3> QED BY <3>1, Zenon DEF Covered
    <2> QED BY <2>2, <2>3 DEF b
  <1> HIDE DEF X
  <1>6. Bytes \subseteq UNION {Covered(at[i]) : i \in DOMAIN at}
    BY <1>2, <1>3, <1>4, <1>5
  <1>7. \A i, j \in DOMAIN at : i < j => at[i] + l <= at[j]
    BY <1>2, <1>3, Zenon
  <1>8. \A i \in DOMAIN at : Covered(at[i]) \cap Bytes = {} => i = 1 /\ off >= l
    <2> SUFFICES ASSUME NEW i \in DOMAIN at, Covered(at[i]) \cap Bytes = {} PROVE i = 1 /\ off >= l
      OBVIOUS
    <2>1. i \in 1 .. num
      BY <1>2
    <2>2. ~\E x \in X : x \in at[i] .. at[i] + l - 1
      <3>1. Covered(at[i]) = at[i] .. at[i] + l - 1
        BY <1>5, <2>1
      <3> QED BY <1>4, <3>1
    <2> QED BY <1>3, <2>1, <2>2, Zenon
  <1> QED BY <1>6, <1>7, <1>8, Zenon DEF BurstCovered, at, off, l

\* The place after an array, aligned: not before its end, and less than 256 after it.
LEMMA AlignedUp ==
    ASSUME NEW n \in Nat
    PROVE  alignMyself(n) \in Nat /\ n <= alignMyself(n) /\ alignMyself(n) <= n + 255
  <1> DEFINE d == n \div 256
             r == n % 256
  <1>1. d \in Nat /\ r \in 0 .. 255 /\ n = 256 * d + r
    BY Division
  <1>2. alignMyself(n) = IF r = 0 THEN n ELSE (d + 1) * 256
    BY DEF alignMyself
  <1> HIDE DEF d, r
  <1> QED BY <1>1, <1>2

LEMMA ArraysFit == BurstInv => ArraysApart
  <1> SUFFICES ASSUME BurstInv PROVE ArraysApart
    OBVIOUS
  <1> DEFINE v == graph[1]
             e == graph[2]
             base == ramInit(v, e)
             size == Sizes(v, e)
  <1>1. v \in Nat /\ e \in Nat
    BY DEF BurstInv
  <1>2. /\ size[1] = v /\ size[2] = 4 * (v + 1) /\ size[3] = 4 * e /\ size[4] = 4 * (v + 1)
        /\ size[5] = 4 * e /\ size[6] = 4 * v /\ \A i \in 1 .. 6 : size[i] \in Nat
    BY <1>1 DEF Sizes
  <1>3. /\ DOMAIN base = 1 .. 6 /\ base[1] = 0
        /\ base[2] = alignMyself(base[1] + size[1]) /\ base[3] = alignMyself(base[2] + size[2])
        /\ base[4] = alignMyself(base[3] + size[3]) /\ base[5] = alignMyself(base[4] + size[4])
        /\ base[6] = alignMyself(base[5] + size[5])
    <2> HIDE DEF v, e, size
    <2> QED BY DEF ramInit, size
  <1> HIDE DEF v, e, base, size
  <1>4. ASSUME NEW i \in 1 .. 5, base[i] \in Nat, base[i + 1] = alignMyself(base[i] + size[i])
        PROVE  /\ base[i + 1] \in Nat /\ base[i] + size[i] <= base[i + 1]
               /\ base[i + 1] <= base[i] + size[i] + 255
    <2>1. base[i] + size[i] \in Nat
      BY <1>2, <1>4
    <2> QED BY <1>4, <2>1, AlignedUp
  <1>5. base[2] \in Nat /\ base[1] + size[1] <= base[2] /\ base[2] <= base[1] + size[1] + 255
    <2>1. 1 \in 1 .. 5 /\ base[1] \in Nat /\ 1 + 1 = 2
      BY <1>3
    <2> QED BY <1>3, <1>4, <2>1
  <1>6. base[3] \in Nat /\ base[2] + size[2] <= base[3] /\ base[3] <= base[2] + size[2] + 255
    <2>1. 2 \in 1 .. 5 /\ base[2] \in Nat /\ 2 + 1 = 3
      BY <1>5
    <2> QED BY <1>3, <1>4, <2>1
  <1>7. base[4] \in Nat /\ base[3] + size[3] <= base[4] /\ base[4] <= base[3] + size[3] + 255
    <2>1. 3 \in 1 .. 5 /\ base[3] \in Nat /\ 3 + 1 = 4
      BY <1>6
    <2> QED BY <1>3, <1>4, <2>1
  <1>8. base[5] \in Nat /\ base[4] + size[4] <= base[5] /\ base[5] <= base[4] + size[4] + 255
    <2>1. 4 \in 1 .. 5 /\ base[4] \in Nat /\ 4 + 1 = 5
      BY <1>7
    <2> QED BY <1>3, <1>4, <2>1
  <1>9. base[6] \in Nat /\ base[5] + size[5] <= base[6] /\ base[6] <= base[5] + size[5] + 255
    <2>1. 5 \in 1 .. 5 /\ base[5] \in Nat /\ 5 + 1 = 6
      BY <1>8
    <2> QED BY <1>3, <1>4, <2>1
  <1>10. \A i, j \in 1 .. 6 : i < j => base[i] + size[i] <= base[j]
    BY <1>1, <1>2, <1>3, <1>5, <1>6, <1>7, <1>8, <1>9
  <1>11. e >= 2 * v + 161 => base[6] + size[6] <= ramDataSize(e)
    <2>1. ramDataSize(e) = 16 * e
      BY <1>1 DEF ramDataSize
    <2>2. base[2] <= v + 255 /\ base[3] <= base[2] + 4 * v + 259
      BY <1>1, <1>2, <1>3, <1>5, <1>6
    <2>3. base[4] <= base[3] + 4 * e + 255 /\ base[5] <= base[4] + 4 * v + 259 /\ base[6] <= base[5] + 4 * e + 255
      BY <1>1, <1>2, <1>6, <1>7, <1>8, <1>9
    <2>4. /\ base[2] \in Nat /\ base[3] \in Nat /\ base[4] \in Nat /\ base[5] \in Nat /\ base[6] \in Nat
          /\ size[6] = 4 * v
      BY <1>2, <1>5, <1>6, <1>7, <1>8, <1>9
    <2> QED BY <1>1, <2>1, <2>2, <2>3, <2>4
  <1> QED BY <1>3, <1>10, <1>11, Zenon DEF ArraysApart, v, e, base, size

\* The requests of a burst that lies in the memory are in the memory.
LEMMA RequestsInMemory ==
    ASSUME BurstInv, addr + length <= max_address, max_address \in Nat, reqQueue # <<>>
    PROVE  \A i \in DOMAIN reqQueue : reqQueue[i] \in Nat /\ reqQueue[i] < max_address
  <1> DEFINE l == burstLen
             base == getAlignedAddr(addr)
             off == getOffset(addr)
             num == getReqNum(addr, length)
             at == reqQueue
  <1>1. addr \in Nat /\ length \in Nat \ {0} /\ at = convertToReq(addr, length)
    BY DEF BurstInv
  <1>2. l \in Nat \ {0} /\ base \in Nat /\ off \in 0 .. 2 * l - 1 /\ addr = base + off
    BY <1>1, Alignment, Aligned
  <1>3. num \in Nat /\ (num - 1) * l < off + length
    BY <1>1, NumberHolds DEF Fit
  <1>4. DOMAIN at = 1 .. num /\ \A i \in 1 .. num : at[i] = base + (i - 1) * l
    BY <1>1, Requested
  <1> HIDE DEF base, off, num, at
  <1>5. ASSUME NEW i \in 1 .. num PROVE at[i] \in Nat /\ at[i] < max_address
    <2> DEFINE p == (i - 1) * l
               q == (num - 1) * l
    <2>1. i - 1 \in Nat /\ num - 1 \in Nat /\ i - 1 <= num - 1 /\ l \in Nat
      BY <1>2, <1>3
    <2>2. \A x, y, z \in Nat : x <= y => x * z <= y * z
      OBVIOUS
    <2>3. p <= q /\ p \in Nat /\ q \in Nat /\ q < off + length /\ at[i] = base + p
      BY <1>3, <1>4, <2>1, <2>2
    <2> HIDE DEF p, q
    <2> QED BY <1>1, <1>2, <2>3
  <1> QED BY <1>4, <1>5 DEF at

\* getReqNum and updateAddrVec, two separate computations, agree for every burst:
\* convertToReq reads all of addrVec and nothing past its end.
THEOREM RequestsAgree == BurstSpec => []RequestsMatch
  <1>1. BurstInit => BurstInv
    BY BurstKept
  <1>2. BurstInv /\ [BurstNext]_burstVars => BurstInv'
    BY BurstKept
  <1>3. BurstInv => RequestsMatch
    BY BurstsMatch
  <1> QED BY <1>1, <1>2, <1>3, PTL DEF BurstSpec

\* The requests of every burst cover its bytes, none of them twice, and only the
\* first may move no byte of it.
THEOREM BurstsAreCovered == BurstSpec => []BurstCovered
  <1>1. BurstInit => BurstInv
    BY BurstKept
  <1>2. BurstInv /\ [BurstNext]_burstVars => BurstInv'
    BY BurstKept
  <1>3. BurstInv => BurstCovered
    BY BurstsCover
  <1> QED BY <1>1, <1>2, <1>3, PTL DEF BurstSpec

\* ramInit: the arrays of a graph do not overlap, whatever its size, and fit in
\* ramData when the graph has two edges per vertex and 161 more.
THEOREM ArraysDisjoint == BurstSpec => []ArraysApart
  <1>1. BurstInit => BurstInv
    BY BurstKept
  <1>2. BurstInv /\ [BurstNext]_burstVars => BurstInv'
    BY BurstKept
  <1>3. BurstInv => ArraysApart
    BY ArraysFit
  <1> QED BY <1>1, <1>2, <1>3, PTL DEF BurstSpec

\* Where the sizes of the memory are powers of two (the constructor asserts it of some),
\* the requests of every burst that lies in the memory go to places that exist, two
\* of them to the same place only for the same transaction, with either mapping.
THEOREM PlacesApart == PowersOfTwo /\ InMemory /\ BurstSpec => []PlacesDistinct
  <1> SUFFICES ASSUME PowersOfTwo, InMemory PROVE BurstSpec => []PlacesDistinct
    OBVIOUS
  <1> DEFINE Inv == BurstInv /\ addr \in Addrs /\ length \in Lengths
  <1>1. BurstInit => Inv
    BY BurstKept DEF BurstInit
  <1>2. Inv /\ [BurstNext]_burstVars => Inv'
    <2> SUFFICES ASSUME Inv, [BurstNext]_burstVars PROVE Inv'
      OBVIOUS
    <2>1. addr' = addr /\ length' = length
      BY Zenon DEF BurstNext, Create, Convert, burstVars
    <2> QED BY <2>1, BurstKept
  <1>3. Inv => PlacesDistinct
    <2> SUFFICES ASSUME Inv PROVE PlacesDistinct
      OBVIOUS
    <2>1. addr + length <= max_address
      BY DEF InMemory
    <2> QED BY <2>1, MemorySize, RequestsInMemory, RequestPlaces
  <1> QED BY <1>1, <1>2, <1>3, PTL DEF BurstSpec

-----------------------------------------------------------------------------
(* Pages, for every number of cores and pages *)

FreePages == {n \in Physical : free_physical_pages[n] = Free}
PageInv == PageTypeOK /\ RemainingCounted /\ ApartUntilReplaced

LEMMA FreePagesFinite == IsFiniteSet(FreePages) /\ Cardinality(Physical) = Pages
  <1>1. IsFiniteSet(Physical) /\ Cardinality(Physical) = Pages
    BY FS_Interval, PagesAssumption DEF PagesAssumption, Physical
  <1>2. FreePages \in SUBSET Physical
    BY DEF FreePages
  <1> QED BY <1>1, <1>2, FS_Subset

(* Going around the memory from any page, one comes to each page.              *)
LEMMA RoundTheMemory ==
  ASSUME NEW drawn \in Physical, NEW n \in Physical
  PROVE  \E j \in 0 .. Pages - 1 : n = (drawn + j) % Pages
  <1> USE PagesAssumption DEF PagesAssumption, Physical
  <1>1. CASE n >= drawn
    <2>1. n - drawn \in 0 .. Pages - 1 /\ n = (drawn + (n - drawn)) % Pages
      BY <1>1
    <2> QED BY <2>1
  <1>2. CASE n < drawn
    <2>1. n - drawn + Pages \in 0 .. Pages - 1 /\ drawn + (n - drawn + Pages) = n + Pages
      BY <1>2
    <2>2. (n + Pages) % Pages = n
      OBVIOUS
    <2>3. n = (drawn + (n - drawn + Pages)) % Pages
      BY <2>1, <2>2
    <2> QED BY <2>1, <2>3
  <1> QED BY <1>1, <1>2

(* While the count says that a page is free, the search ends at a free page.   *)
LEMMA SearchSucceeds ==
  ASSUME PageTypeOK, RemainingCounted, ~Exhausted, NEW drawn \in Physical, NEW n \in Searched(drawn)
  PROVE  n \in FreePages
  <1>1. FreePages # {}
    <2>1. Cardinality(FreePages) # 0
      BY DEF RemainingCounted, Exhausted, FreePages
    <2> QED BY <2>1, FS_EmptySet
  <1>2. PICK m \in Physical : free_physical_pages[m] = Free
    BY <1>1 DEF FreePages
  <1>3. PICK j \in 0 .. Pages - 1 : m = (drawn + j) % Pages
    BY <1>2, RoundTheMemory
  <1>4. PICK k \in 0 .. Pages : /\ n = (drawn + k) % Pages
                                /\ \A i \in 0 .. k - 1 : free_physical_pages[(drawn + i) % Pages] # Free
                                /\ free_physical_pages[n] = Free \/ k = Pages
    BY DEF Searched
  <1>5. k # Pages
    BY <1>2, <1>3, <1>4
  <1> QED BY <1>4, <1>5 DEF Searched, FreePages

LEMMA InitPageInv == PageInit => PageInv
  <1> SUFFICES ASSUME PageInit PROVE PageInv
    OBVIOUS
  <1>1. PageTypeOK
    <2>1. DOMAIN page_translation = {}
      BY DEF PageInit
    <2>2. free_physical_pages \in [Physical -> Owner \cup {Free}]
      BY DEF PageInit
    <2>3. free_physical_pages_remaining \in 0 .. Pages /\ physical_page_replacement \in Nat
      BY PagesAssumption DEF PagesAssumption, PageInit
    <2>4. assert_failed \in BOOLEAN
      BY DEF PageInit
    <2> QED BY <2>1, <2>2, <2>3, <2>4 DEF PageTypeOK
  <1>2. RemainingCounted
    <2>1. FreePages = Physical
      BY DEF PageInit, FreePages
    <2> QED BY <2>1, FreePagesFinite DEF PageInit, RemainingCounted, FreePages
  <1>3. ApartUntilReplaced
    BY DEF PageInit, ApartUntilReplaced, PagesApart
  <1> QED BY <1>1, <1>2, <1>3 DEF PageInv

(* A new page is one nobody has: the count goes down with it, and no other     *)
(* virtual page is at it.                                                      *)
LEMMA AllocatePageInv == ASSUME PageInv, NEW target \in Targets, Allocate(target) PROVE PageInv'
  <1>0. PICK drawn \in Physical : \E n \in Searched(drawn) :
          /\ page_translation' = Translated(target, n)
          /\ free_physical_pages' = [free_physical_pages EXCEPT ![n] = target[1]]
          /\ assert_failed' = (assert_failed \/ free_physical_pages[n] # Free)
    BY DEF Allocate
  <1>1. PICK n \in Searched(drawn) :
          /\ page_translation' = Translated(target, n)
          /\ free_physical_pages' = [free_physical_pages EXCEPT ![n] = target[1]]
          /\ assert_failed' = (assert_failed \/ free_physical_pages[n] # Free)
    BY <1>0
  <1>2. n \in FreePages
    BY <1>1, SearchSucceeds DEF PageInv, Allocate
  <1>3. n \in Physical /\ free_physical_pages[n] = Free
    BY <1>2 DEF FreePages
  <1>4. target[1] \in Owner /\ target[1] # Free
    BY PagesAssumption DEF PagesAssumption, Targets, Free
  <1>5. /\ DOMAIN page_translation' = DOMAIN page_translation \cup {target}
        /\ page_translation'[target] = n
        /\ \A t \in DOMAIN page_translation : t # target /\ page_translation'[t] = page_translation[t]
    BY <1>1 DEF Translated, Allocate
  <1>6. PageTypeOK'
    <2>1. DOMAIN page_translation' \subseteq Targets /\ \A t \in DOMAIN page_translation' : page_translation'[t] \in Physical
      BY <1>3, <1>5 DEF PageInv, PageTypeOK
    <2>2. free_physical_pages' \in [Physical -> Owner \cup {Free}]
      BY <1>1, <1>3, <1>4 DEF PageInv, PageTypeOK
    <2>3. free_physical_pages_remaining' \in 0 .. Pages
      BY PagesAssumption DEF PagesAssumption, PageInv, PageTypeOK, Allocate, Exhausted
    <2>4. physical_page_replacement' \in Nat /\ assert_failed' \in BOOLEAN
      BY <1>1 DEF PageInv, PageTypeOK, Allocate
    <2> QED BY <2>1, <2>2, <2>3, <2>4 DEF PageTypeOK
  <1>7. RemainingCounted'
    <2>1. FreePages' = FreePages \ {n}
      BY <1>1, <1>3, <1>4 DEF PageInv, PageTypeOK, FreePages
    <2>2. Cardinality(FreePages') = Cardinality(FreePages) - 1
      BY <1>2, <2>1, FreePagesFinite, FS_RemoveElement
    <2>3. free_physical_pages_remaining' = Cardinality(FreePages')
      BY <2>2 DEF PageInv, RemainingCounted, FreePages, Allocate
    <2>4. ~assert_failed'
      BY <1>1, <1>3 DEF PageInv, RemainingCounted
    <2> QED BY <2>3, <2>4 DEF RemainingCounted, FreePages
  <1>8. ApartUntilReplaced'
    <2> SUFFICES ASSUME physical_page_replacement = 0
                 PROVE  /\ PagesApart'
                        /\ \A t \in DOMAIN page_translation' : free_physical_pages'[page_translation'[t]] = t[1]
      BY DEF ApartUntilReplaced, Allocate
    <2>1. /\ PagesApart
          /\ \A t \in DOMAIN page_translation : /\ page_translation[t] \in Physical
                                                /\ free_physical_pages[page_translation[t]] = t[1]
                                                /\ t[1] # Free
      BY PagesAssumption DEF PagesAssumption, PageInv, ApartUntilReplaced, PageTypeOK, Targets, Free
    <2>2. \A t \in DOMAIN page_translation : page_translation[t] # n
      BY <1>3, <2>1
    <2>3. PagesApart'
      BY <1>5, <2>1, <2>2 DEF PagesApart
    <2>4. free_physical_pages'[n] = target[1]
      BY <1>1, <1>3 DEF PageInv, PageTypeOK
    <2>5. \A t \in DOMAIN page_translation : free_physical_pages'[page_translation[t]] = t[1]
      BY <1>1, <2>1, <2>2 DEF PageInv, PageTypeOK
    <2> QED BY <1>5, <2>3, <2>4, <2>5
  <1> QED BY <1>6, <1>7, <1>8 DEF PageInv

(* A replacement happens only when no page is free, and ends the promise.      *)
LEMMA ReplacePageInv == ASSUME PageInv, NEW target \in Targets, Replace(target) PROVE PageInv'
  <1>1. PICK n \in Physical : /\ page_translation' = Translated(target, n)
                              /\ assert_failed' = (assert_failed \/ free_physical_pages[n] = Free)
    BY DEF Replace
  <1>2. FreePages = {}
    BY FreePagesFinite, FS_EmptySet DEF Replace, Exhausted, PageInv, RemainingCounted, FreePages
  <1>3. PageTypeOK'
    BY <1>1 DEF PageInv, PageTypeOK, Replace, Translated
  <1>4. RemainingCounted'
    BY <1>1, <1>2 DEF PageInv, RemainingCounted, FreePages, Replace
  <1>5. ApartUntilReplaced'
    BY DEF PageInv, PageTypeOK, ApartUntilReplaced, Replace
  <1> QED BY <1>3, <1>4, <1>5 DEF PageInv

LEMMA StepPageInv == PageInv /\ [PageNext]_pageVars => PageInv'
  <1> SUFFICES ASSUME PageInv, [PageNext]_pageVars PROVE PageInv'
    OBVIOUS
  <1>1. ASSUME UNCHANGED pageVars PROVE PageInv'
    BY <1>1 DEF pageVars, PageInv, PageTypeOK, RemainingCounted, ApartUntilReplaced, PagesApart
  <1>2. ASSUME NEW target \in Targets, page_allocator(target) PROVE PageInv'
    BY <1>1, <1>2, AllocatePageInv, ReplacePageInv DEF page_allocator, Known
  <1> QED BY <1>1, <1>2 DEF PageNext

(* The count of free pages is right, the search finds one, and no two virtual   *)
(* pages share a physical one before the first replacement, whatever the number *)
(* of pages and the order in which they are asked for.                          *)
THEOREM PagesAreKept == PageSpec => []PagesKept
  <1>1. PageInv => PagesKept
    BY DEF PageInv, PagesKept
  <1> QED BY <1>1, InitPageInv, StepPageInv, PTL DEF PageSpec

-----------------------------------------------------------------------------
(* The channel of the DRAM, whatever its tables and the requests *)

\* A finite set of numbers has a greatest and a least one.
LEMMA Extremes ==
    ASSUME NEW S, S \subseteq Int, IsFiniteSet(S), S # {}
    PROVE  /\ Max(S) \in S /\ \A x \in S : x <= Max(S)
           /\ Min(S) \in S /\ \A x \in S : Min(S) <= x
  <1> DEFINE Has(R) == (\E m \in R : \A x \in R : x <= m) /\ (\E m \in R : \A x \in R : m <= x)
             N == {n \in Nat : \A R \in SUBSET Int : IsFiniteSet(R) /\ Cardinality(R) = n + 1 => Has(R)}
  <1>1. 0 \in N
    <2> SUFFICES ASSUME NEW R \in SUBSET Int, IsFiniteSet(R), Cardinality(R) = 0 + 1 PROVE Has(R)
      OBVIOUS
    <2>0. Cardinality(R) = 1
      OBVIOUS
    <2>1. PICK m : R = {m}
      BY <2>0, FS_Singleton
    <2> QED BY <2>1
  <1>2. ASSUME NEW n \in Nat, n \in N PROVE n + 1 \in N
    <2> SUFFICES ASSUME NEW R \in SUBSET Int, IsFiniteSet(R), Cardinality(R) = (n + 1) + 1 PROVE Has(R)
      OBVIOUS
    <2>1. PICK y : y \in R
      BY FS_EmptySet
    <2> DEFINE Q == R \ {y}
    <2>2. IsFiniteSet(Q) /\ Cardinality(Q) = n + 1
      BY <2>1, FS_RemoveElement
    <2>3. Has(Q)
      BY <1>2, <2>2
    <2>4. PICK g \in Q : \A x \in Q : x <= g
      BY <2>3
    <2>5. PICK l \in Q : \A x \in Q : l <= x
      BY <2>3
    <2>6. \E m \in R : \A x \in R : x <= m
      <3>1. CASE g <= y
        BY <2>1, <2>4, <3>1
      <3>2. CASE ~(g <= y)
        BY <2>1, <2>4, <3>2
      <3> QED BY <3>1, <3>2
    <2>7. \E m \in R : \A x \in R : m <= x
      <3>1. CASE y <= l
        BY <2>1, <2>5, <3>1
      <3>2. CASE ~(y <= l)
        BY <2>1, <2>5, <3>2
      <3> QED BY <3>1, <3>2
    <2> QED BY <2>6, <2>7
  <1>3. \A n \in Nat : n \in N
    <2> HIDE DEF N
    <2> QED BY <1>1, <1>2, SetInduction
  <1>4. Has(S)
    <2>1. Cardinality(S) \in Nat /\ Cardinality(S) # 0
      BY FS_CardinalityType, FS_EmptySet
    <2>2. Cardinality(S) - 1 \in Nat /\ (Cardinality(S) - 1) + 1 = Cardinality(S)
      BY <2>1
    <2> QED BY <1>3, <2>2
  <1> QED BY <1>4 DEF Max, Min

LEMMA TwoExtremes ==
    ASSUME NEW x \in Int, NEW y \in Int
    PROVE  /\ Max({x, y}) \in Int /\ x <= Max({x, y}) /\ y <= Max({x, y}) /\ Max({x, y}) \in {x, y}
           /\ Min({x, y}) \in Int /\ Min({x, y}) <= x /\ Min({x, y}) <= y /\ Min({x, y}) \in {x, y}
  <1>1. \E m \in {x, y} : \A z \in {x, y} : m >= z
    <2>1. CASE x <= y
      BY <2>1
    <2>2. CASE ~(x <= y)
      BY <2>2
    <2> QED BY <2>1, <2>2
  <1>2. \E m \in {x, y} : \A z \in {x, y} : m <= z
    <2>1. CASE x <= y
      BY <2>1
    <2>2. CASE ~(x <= y)
      BY <2>2
    <2> QED BY <2>1, <2>2
  <1> QED BY <1>1, <1>2 DEF Max, Min

-----------------------------------------------------------------------------
(* Nodes and addresses *)

\* The nodes on the path of an address, from the channel as deep as its ids go.
LEMMA Paths ==
    ASSUME NEW a \in Seq(Int), Len(a) > 0
    PROVE  /\ 1 \in Depths(a)
           /\ \A d \in Depths(a) :
                /\ d \in 1 .. Len(a) /\ Path(a, d) \in Seq(Int) /\ Len(Path(a, d)) = d - 1
                /\ \A i \in 1 .. d - 1 : Path(a, d)[i] = a[i] /\ a[i] \in Nat
                /\ \A e \in 1 .. d : e \in Depths(a) /\ Path(a, e) = SubSeq(Path(a, d), 1, e - 1)
  <1>1. 1 \in Depths(a)
    BY DEF Depths
  <1>2. ASSUME NEW d \in Depths(a)
        PROVE  /\ d \in 1 .. Len(a) /\ Path(a, d) \in Seq(Int) /\ Len(Path(a, d)) = d - 1
               /\ \A i \in 1 .. d - 1 : Path(a, d)[i] = a[i] /\ a[i] \in Nat
    BY <1>2 DEF Depths, Path
  <1>3. ASSUME NEW d \in Depths(a), NEW e \in 1 .. d
        PROVE  e \in Depths(a) /\ Path(a, e) = SubSeq(Path(a, d), 1, e - 1)
    <2>1. d \in 1 .. Len(a) /\ Len(a) \in Nat
      BY <1>2
    <2>2. e \in Depths(a)
      BY <2>1, <1>3 DEF Depths
    <2> DEFINE p == Path(a, d)
               s == SubSeq(p, 1, e - 1)
               q == Path(a, e)
    <2>3. p \in Seq(Int) /\ Len(p) = d - 1 /\ \A i \in 1 .. d - 1 : p[i] = a[i]
      BY <1>2
    <2>4. q \in Seq(Int) /\ Len(q) = e - 1 /\ \A i \in 1 .. e - 1 : q[i] = a[i]
      BY <1>2, <2>2
    <2> HIDE DEF p, q
    <2>5. s \in Seq(Int) /\ Len(s) = e - 1 /\ \A i \in 1 .. e - 1 : s[i] = p[i]
      BY <2>1, <2>3
    <2>6. ASSUME NEW i \in 1 .. e - 1 PROVE s[i] = q[i]
      <3>1. i \in 1 .. d - 1
        BY <2>1
      <3>2. s[i] = p[i]
        BY <2>5
      <3> QED BY <2>3, <2>4, <3>1, <3>2
    <2> HIDE DEF s
    <2>7. s = q
      BY <2>4, <2>5, <2>6
    <2> QED BY <2>2, <2>7 DEF s, p, q
  <1> QED BY <1>1, <1>2, <1>3

\* The same, by the number of ids on the path.
LEMMA PathTo ==
    ASSUME NEW a \in Seq(Int), NEW k \in Nat, k + 1 \in Depths(a)
    PROVE  /\ k + 1 <= Len(a) /\ Path(a, k + 1) \in Seq(Int) /\ Len(Path(a, k + 1)) = k
           /\ \A i \in 1 .. k : Path(a, k + 1)[i] = a[i] /\ a[i] \in Nat
           /\ \A j \in 0 .. k : j + 1 \in Depths(a)
  <1>1. k + 1 \in 1 .. Len(a) /\ Len(a) \in Nat /\ \A i \in 1 .. k : a[i] >= 0
    BY DEF Depths
  <1>2. Path(a, k + 1) = SubSeq(a, 1, k)
    BY DEF Path
  <1>3. \A i \in 1 .. k : a[i] \in Nat
    BY <1>1
  <1>4. ASSUME NEW j \in 0 .. k PROVE j + 1 \in Depths(a)
    <2>1. \A i \in 1 .. (j + 1) - 1 : a[i] >= 0
      BY <1>1
    <2> QED BY <1>1, <2>1 DEF Depths
  <1>5. k <= Len(a)
    BY <1>1
  <1> DEFINE s == SubSeq(a, 1, k)
  <1>6. s \in Seq(Int) /\ Len(s) = k /\ \A i \in 1 .. k : s[i] = a[i]
    BY <1>5
  <1> HIDE DEF s
  <1>7. k + 1 <= Len(a) /\ Path(a, k + 1) = s
    BY <1>1, <1>2 DEF s
  <1> QED BY <1>3, <1>4, <1>6, <1>7, Zenon

\* A node is addressed if it is the one on the path at its depth.
LEMMA OnPath ==
    ASSUME NEW a \in Seq(Int), NEW n \in Seq(Nat)
    PROVE  Target(n, a) <=> n = Path(a, Len(n) + 1)
  BY DEF Target, Path

-----------------------------------------------------------------------------
(* The commands that are issued *)

\* An address with an id or -1 for every level, whose nodes are there.
Addressable(T, N, a) == a \in Seq(Int) /\ Len(a) = Len(T.level) /\ \A d \in Depths(a) : Path(a, d) \in N

\* Nodes of the levels, and requests that the tables know.
Shape ==
    /\ std \in DOMAIN Table /\ clk \in Nat /\ slack \in Nat
    /\ Node \subseteq Seq(Nat) /\ DOMAIN next = Node /\ DOMAIN row_state = Node /\ DOMAIN prev = Node
    /\ \A T \in Standard :
         /\ \A n \in Node : Len(n) + 1 \in Level(T)
         /\ \A q \in queue : /\ RequestSound(T, Node, q) /\ Addressable(T, Node, q.addr)
                             /\ Needed(T, q) \subseteq Issuable(std)
\* Every node is in a state of its level and waits some time for each command.
Typed ==
    /\ state \in [Node -> NodeState] /\ row_state \in [Node -> SUBSET Int]
    /\ \A T \in Standard : \A n \in Node :
        /\ state[n] \in States(T, Len(n) + 1) /\ IsFiniteSet(row_state[n])
        /\ next[n] \in [T.command -> Int]
        /\ DOMAIN prev[n] = {e.from : e \in T.timing[Len(n) + 1].window}
        /\ \A c \in DOMAIN prev[n] : prev[n][c] \in Seq(Int)

LEMMA StandardIsSound ==
    ASSUME TablesSound, Shape, NEW T \in Standard
    PROVE  /\ T = Table[std] /\ std \in DOMAIN Table /\ StandardSound(T) /\ BusSound(std, T)
           /\ std \notin {"SALP1", "SALP2", "TLDRAM"} => RowSound(std, T)
           /\ std # "ALDRAM" => WindowSound(T)
           /\ Len(T.level) \in Nat /\ Len(T.level) > 1
           /\ \A d \in Level(T) : LevelSound(T, d)
  <1>1. T = Table[std] /\ std \in DOMAIN Table
    BY DEF Standard, Shape
  <1>2. /\ StandardSound(T) /\ BusSound(std, T)
        /\ std \notin {"SALP1", "SALP2", "TLDRAM"} => RowSound(std, T)
        /\ std # "ALDRAM" => WindowSound(T)
    BY <1>1, Zenon DEF TablesSound
  <1>3. Len(T.level) > 1 /\ \A d \in Level(T) : LevelSound(T, d)
    BY <1>2 DEF StandardSound
  <1> QED BY <1>1, <1>2, <1>3

\* What a rule asks for is one of its answers.
LEMMA Answered ==
    ASSUME NEW rule, NEW n, NEW cmd, NEW id, NEW states, state[n] \in states,
           \A x \in Rules(rule) : x.kind \in RuleKinds /\ (x.kind = "row" => x.hit \in Hits)
    PROVE  \E x \in Rules(rule) : Required(rule, n, cmd, id) \in Answers(x, states, cmd)
  <1> DEFINE r == IF rule.kind # "segment" THEN rule ELSE IF id % rule.ratio = 0 THEN rule.first ELSE rule.rest
  <1>1. r \in Rules(rule)
    BY DEF Rules
  <1>2. r.kind \in RuleKinds /\ (r.kind = "row" => r.hit \in Hits)
    BY <1>1
  <1> DEFINE R == Required(rule, n, cmd, id)
  <1>3. CASE r.kind = "state"
    <2>1. R = r.to[state[n]]
      BY <1>3 DEF Required
    <2> HIDE DEF r, R
    <2> QED BY <1>1, <1>3, <2>1 DEF Answers, R
  <1>4. CASE r.kind = "closed"
    <2>1. R \in {cmd, r.closer}
      BY <1>4 DEF Required
    <2> HIDE DEF r, R
    <2> QED BY <1>1, <1>4, <2>1 DEF Answers, R
  <1>5. CASE r.kind = "row"
    <2>1. R \in {r.closed, r.miss} \/ R = CASE r.hit = "itself" -> cmd
                [] r.hit = "child" -> "MAX"
                [] r.hit = "alone" -> IF \E c \in Children(Path(n, Len(n))) : c # n /\ state[c] = "Opened"
                                      THEN "PRE_OTHER" ELSE cmd
                [] r.hit = "selected" -> IF state[n] = "Selected" THEN cmd ELSE "SASEL"
      BY <1>5 DEF Required
    <2>2. R \in {r.closed, r.miss} \/ (r.hit = "itself" /\ R = cmd) \/ (r.hit = "child" /\ R = "MAX")
            \/ (r.hit = "alone" /\ R \in {"PRE_OTHER", cmd}) \/ (r.hit = "selected" /\ R \in {cmd, "SASEL"})
      <3> HIDE DEF r, R
      <3> QED BY <1>2, <1>5, <2>1 DEF Hits
    <2> HIDE DEF r, R
    <2>3. R \in Answers(r, states, cmd)
      BY <1>5, <2>2 DEF Answers
    <2> QED BY <1>1, <2>3 DEF R
  <1> QED BY <1>2, <1>3, <1>4, <1>5 DEF RuleKinds

\* DRAM::decode answers a command the request needs.
LEMMA Decoded ==
    ASSUME TablesSound, Shape, Typed, NEW T \in Standard, NEW a, Addressable(T, Node, a), NEW cmd
    PROVE  decode(T, cmd, a) \in Needs(T, cmd, a)
  <1> DEFINE met == {d \in Depths(a) : prereq(T, cmd, a, d) # "MAX"}
             m == Min(met)
  <1>1. a \in Seq(Int) /\ Len(a) = Len(T.level) /\ Len(a) > 0 /\ \A d \in Depths(a) : Path(a, d) \in Node
    BY StandardIsSound DEF Addressable
  <1>2. CASE met = {}
    <2>1. decode(T, cmd, a) = cmd
      BY <1>2 DEF decode
    <2> QED BY <2>1 DEF Needs
  <1>3. CASE met # {}
    <2>1. decode(T, cmd, a) = prereq(T, cmd, a, m)
      BY <1>3 DEF decode
    <2>2. Depths(a) \subseteq 1 .. Len(a) /\ IsFiniteSet(1 .. Len(a))
      <3>1. Len(a) \in Int
        BY <1>1
      <3> QED BY <3>1, FS_Interval DEF Depths
    <2>3. met \subseteq Int /\ IsFiniteSet(met)
      BY <1>1, <2>2, FS_Subset
    <2>4. m \in met
      <3> HIDE DEF met
      <3> QED BY <1>3, <2>3, Extremes
    <2>5. m \in Depths(a) /\ prereq(T, cmd, a, m) # "MAX"
      BY <2>4
    <2> DEFINE rule == T.prereq[m][cmd]
               n == Path(a, m)
    <2> HIDE DEF met, m
    <2>6. cmd \in DOMAIN T.prereq[m] /\ prereq(T, cmd, a, m) = Required(rule, n, cmd, a[m])
      BY <2>5 DEF prereq
    <2>7. m \in Level(T) /\ Len(n) + 1 = m /\ n \in Node
      <3>1. m \in 1 .. Len(a) /\ Len(n) = m - 1
        BY <1>1, <2>5, Paths
      <3> QED BY <1>1, <2>5, <3>1 DEF Level
    <2>8. state[n] \in States(T, m)
      BY <2>7 DEF Typed
    <2>9. LevelSound(T, m)
      BY <2>7, StandardIsSound
    <2>10. \A x \in Rules(rule) : x.kind \in RuleKinds /\ (x.kind = "row" => x.hit \in Hits)
      BY <2>6, <2>9 DEF LevelSound
    <2> HIDE DEF rule, n
    <2>11. PICK x \in Rules(rule) : Required(rule, n, cmd, a[m]) \in Answers(x, States(T, m), cmd)
      BY <2>8, <2>10, Answered
    <2> HIDE DEF rule, n
    <2>12. decode(T, cmd, a) \in Answers(x, States(T, m), cmd) /\ decode(T, cmd, a) # "MAX"
      BY <2>1, <2>5, <2>6, <2>11
    <2> DEFINE given == UNION {Answers(y, States(T, m), cmd) : y \in Rules(T.prereq[m][cmd])}
    <2>13. decode(T, cmd, a) \in given
      BY <2>11, <2>12 DEF rule
    <2> HIDE DEF given
    <2>14. given \in {UNION {Answers(y, States(T, d), cmd) : y \in Rules(T.prereq[d][cmd])} :
                       d \in {d \in Depths(a) : cmd \in DOMAIN T.prereq[d]}}
      BY <2>5, <2>6, Zenon DEF given
    <2> DEFINE all == UNION {UNION {Answers(y, States(T, d), cmd) : y \in Rules(T.prereq[d][cmd])} :
                       d \in {d \in Depths(a) : cmd \in DOMAIN T.prereq[d]}}
    <2>15. decode(T, cmd, a) \in all
      BY <2>13, <2>14, Zenon
    <2>16. Needs(T, cmd, a) = {cmd} \cup (all \ {"MAX"})
      BY DEF Needs
    <2> HIDE DEF all
    <2> QED BY <2>12, <2>15, <2>16
  <1> QED BY <1>2, <1>3

LEMMA Least == ASSUME NEW S, S \subseteq Nat, S # {} PROVE Min(S) \in S
  <1>1. \E m \in S : \A x \in S : m <= x
    <2> DEFINE N == {n \in Nat : \A k \in S : n <= k}
    <2>1. SUFFICES ASSUME ~ \E m \in S : \A x \in S : m <= x PROVE FALSE
      OBVIOUS
    <2>2. 0 \in N
      OBVIOUS
    <2>3. ASSUME NEW n \in Nat, n \in N PROVE n + 1 \in N
      <3>1. n \notin S
        BY <2>1, <2>3
      <3> QED BY <2>3, <3>1
    <2>4. \A n \in Nat : n \in N
      <3> HIDE DEF N
      <3> QED BY <2>2, <2>3, SetInduction
    <2>5. PICK k : k \in S
      OBVIOUS
    <2>6. k + 1 \in N
      BY <2>4, <2>5
    <2> QED BY <2>5, <2>6
  <1> QED BY <1>1 DEF Min

LEMMA Fronts ==
    ASSUME NEW X, NEW s \in Seq(X), NEW l \in Nat, Len(s) = l + 1
    PROVE  /\ Front(s) \in Seq(X) /\ Len(Front(s)) = l /\ \A i \in 1 .. l : Front(s)[i] = s[i]
           /\ Last(s) = s[l + 1] /\ Last(s) \in X
  BY DEF Front, Last

LEMMA FrontTwice ==
    ASSUME NEW a \in Seq(Int), NEW l \in Nat, Len(a) = l + 2
    PROVE  /\ Front(Front(a)) \in Seq(Int) /\ Len(Front(Front(a))) = l
           /\ \A i \in 1 .. l : Front(Front(a))[i] = a[i]
  <1> DEFINE f == Front(a)
  <1>1. l + 1 \in Nat /\ Len(a) = (l + 1) + 1
    OBVIOUS
  <1>2. f \in Seq(Int) /\ Len(f) = l + 1 /\ \A i \in 1 .. l + 1 : f[i] = a[i]
    BY <1>1, Fronts, Zenon
  <1> HIDE DEF f
  <1>3. Front(f) \in Seq(Int) /\ Len(Front(f)) = l /\ \A i \in 1 .. l : Front(f)[i] = f[i]
    BY <1>2, Fronts, Zenon
  <1>4. \A i \in 1 .. l : Front(f)[i] = a[i]
    <2>1. \A i \in 1 .. l : i \in 1 .. l + 1
      OBVIOUS
    <2> QED BY <1>2, <1>3, <2>1, Zenon
  <1> QED BY <1>3, <1>4 DEF f

LEMMA Pushed1 ==
    ASSUME NEW X, NEW s \in Seq(X), NEW l \in Nat, Len(s) = l, NEW x \in X
    PROVE  /\ s \o <<x>> \in Seq(X) /\ Len(s \o <<x>>) = l + 1 /\ (s \o <<x>>)[l + 1] = x
           /\ \A i \in 1 .. l : (s \o <<x>>)[i] = s[i]
  OBVIOUS

LEMMA Same ==
    ASSUME NEW X, NEW Y, NEW s \in Seq(X), NEW t \in Seq(Y), NEW l \in Nat, Len(s) = l, Len(t) = l,
           \A i \in 1 .. l : s[i] = t[i]
    PROVE  s = t
  OBVIOUS

LEMMA Starting ==
    ASSUME NEW X, NEW s \in Seq(X), NEW k \in Nat, k <= Len(s)
    PROVE  SubSeq(s, 1, k) \in Seq(X) /\ Len(SubSeq(s, 1, k)) = k /\ \A i \in 1 .. k : SubSeq(s, 1, k)[i] = s[i]
  OBVIOUS

\* A PRE_OTHER goes to a subarray of the bank that is there.
LEMMA OffendingSubarray ==
    ASSUME NEW N, Node = N, N \subseteq Seq(Nat), NEW a \in Seq(Int), NEW l \in Nat, Len(a) = l + 2,
           (l + 1) + 1 \in Depths(a),
           \A d \in Depths(a) : Path(a, d) \in N, Front(Front(a)) \o << 0 >> \in N
    PROVE  LET b == get_offending_subarray(a) IN
           /\ b \in Seq(Int) /\ Len(b) = l + 2 /\ \A d \in 0 .. l + 1 : d + 1 \in Depths(b) /\ Path(b, d + 1) \in N
           /\ (\E c \in Children(Front(Front(a))) : c # Front(a) /\ state[c] = "Opened")
                => state[Path(b, (l + 1) + 1)] = "Opened"
  <1> DEFINE bank == Front(Front(a))
             some == \E c \in Children(bank) : c # Front(a) /\ state[c] = "Opened"
             open == {Last(c) : c \in {c \in Children(bank) : c # Front(a) /\ state[c] = "Opened"}}
             k == IF open = {} THEN 0 ELSE Min(open)
             b == bank \o <<k, -1>>
             m == l + 1
  <1>1. get_offending_subarray(a) = b
    BY DEF get_offending_subarray
  <1>0. m \in Nat /\ m = l + 1 /\ Len(a) = m + 1 /\ 1 .. l \subseteq 1 .. m /\ m \in 1 .. m /\ \A i \in 1 .. m : i = m \/ i \in 1 .. l
    OBVIOUS
  <1> HIDE DEF m
  <1>2. bank \in Seq(Int) /\ Len(bank) = l /\ \A i \in 1 .. l : bank[i] = a[i]
    BY FrontTwice, Zenon
  <1>3. \A i \in 1 .. m : a[i] \in Nat
    BY <1>0, PathTo
  <1>4. bank \in Seq(Nat)
    <2>1. \A i \in 1 .. l : bank[i] \in Nat
      BY <1>0, <1>2, <1>3
    <2> HIDE DEF bank
    <2> QED BY <1>2, <2>1
  <1> HIDE DEF bank
  <1>5. ASSUME NEW c \in Children(bank) PROVE c \in N /\ Last(c) \in Nat /\ c = bank \o <<Last(c)>>
    <2>1. c \in Seq(Nat) /\ c \in N /\ Len(c) = m /\ SubSeq(c, 1, l) = bank
      <3>1. c \in N /\ Len(c) = Len(bank) + 1 /\ Path(c, Len(c)) = bank
        BY <1>5 DEF Children
      <3>2. Len(c) = m /\ Len(c) - 1 = l
        BY <1>0, <1>2, <3>1
      <3> QED BY <3>1, <3>2 DEF Path
    <2> DEFINE x == Last(c)
               e == bank \o <<x>>
    <2>2. x = c[m] /\ x \in Nat
      <3>1. c \in Seq(Nat) /\ Len(c) = l + 1
        BY <1>0, <2>1
      <3>2. Last(c) = c[l + 1] /\ Last(c) \in Nat
        BY <3>1, Fronts, Zenon
      <3> QED BY <1>0, <3>2
    <2>3. \A i \in 1 .. l : c[i] = bank[i]
      <3>1. l <= Len(c)
        BY <1>0, <2>1
      <3> QED BY <2>1, <3>1, Starting
    <2> HIDE DEF x
    <2>4. e \in Seq(Nat) /\ Len(e) = m /\ e[m] = x /\ \A i \in 1 .. l : e[i] = bank[i]
      BY <1>0, <1>2, <1>4, <2>2, Pushed1
    <2> HIDE DEF e
    <2>5. ASSUME NEW i \in 1 .. m PROVE e[i] = c[i]
      BY <1>0, <2>2, <2>3, <2>4
    <2>6. e = c
      BY <1>0, <2>1, <2>4, <2>5, Same
    <2> QED BY <2>1, <2>2, <2>6 DEF e, x
  <1>6. k \in Nat /\ bank \o <<k>> \in N /\ (some => state[bank \o <<k>>] = "Opened")
    <2>1. CASE open = {}
      <3>1. ~some
        BY <2>1
      <3> HIDE DEF some
      <3> QED BY <2>1, <3>1 DEF bank
    <2>2. CASE open # {}
      <3>1. open \subseteq Nat
        BY <1>5
      <3>2. Min(open) \in open
        <4> HIDE DEF open
        <4> QED BY <2>2, <3>1, Least
      <3>3. PICK c \in Children(bank) : Min(open) = Last(c) /\ state[c] = "Opened"
        BY <3>2
      <3> HIDE DEF some
      <3> QED BY <1>5, <2>2, <3>3
    <2> QED BY <2>1, <2>2
  <1> HIDE DEF k
  <1> DEFINE e == bank \o <<k>>
  <1>7. e \in Seq(Nat) /\ Len(e) = m /\ e[m] = k /\ \A i \in 1 .. l : e[i] = bank[i]
    BY <1>0, <1>2, <1>4, <1>6, Pushed1
  <1>8. b \in Seq(Int) /\ Len(b) = l + 2 /\ \A i \in 1 .. m : b[i] = e[i]
    <2>1. <<k, -1>> \in Seq(Int) /\ Len(<<k, -1>>) = 2 /\ <<k, -1>>[1] = k
      BY <1>6
    <2> DEFINE t == <<k, -1>>
    <2> HIDE DEF t
    <2>2. bank \o t \in Seq(Int) /\ Len(bank \o t) = l + 2 /\ (bank \o t)[l + 1] = t[1] /\ \A i \in 1 .. l : (bank \o t)[i] = bank[i]
      <3>1. t \in Seq(Int) /\ Len(t) = 2 /\ 1 \in 1 .. 2
        BY <2>1 DEF t
      <3> DEFINE u == bank \o t
      <3>2. /\ u \in Seq(Int) /\ Len(u) = Len(bank) + Len(t) /\ \A j \in 1 .. Len(bank) : u[j] = bank[j]
            /\ \A j \in 1 .. Len(t) : u[Len(bank) + j] = t[j]
        <4>1. bank \in Seq(Int) /\ t \in Seq(Int)
          BY <1>2, <3>1
        <4> QED BY <4>1
      <3> HIDE DEF u
      <3> QED BY <1>2, <3>1, <3>2 DEF u
    <2>4. b = bank \o t
      BY DEF t
    <2> HIDE DEF b, e
    <2>3. ASSUME NEW i \in 1 .. m PROVE b[i] = e[i]
      BY <1>0, <1>7, <2>1, <2>2, <2>4 DEF t
    <2> QED BY <2>2, <2>3, <2>4
  <1> HIDE DEF b
  <1>10. e \in N /\ \A i \in 1 .. m : e[i] \in Nat
    <2>1. e \in N
      BY <1>6
    <2> HIDE DEF e
    <2> QED BY <1>0, <1>7, <2>1
  <1> HIDE DEF e
  <1>11. m + 1 \in Depths(b)
    <2>1. ASSUME NEW i \in 1 .. (m + 1) - 1 PROVE b[i] >= 0
      <3>1. i \in 1 .. m
        BY <1>0
      <3>2. b[i] = e[i] /\ e[i] \in Nat
        BY <1>8, <1>10, <3>1
      <3> QED BY <3>2
    <2>2. m + 1 \in 1 .. Len(b)
      BY <1>0, <1>8
    <2> QED BY <2>1, <2>2 DEF Depths
  <1>12. ASSUME NEW d \in 0 .. m
         PROVE  d + 1 \in Depths(b) /\ Path(b, d + 1) \in N /\ (d = m => Path(b, d + 1) = e)
    <2>1. d + 1 \in Depths(b) /\ d \in Nat
      <3>1. \A j \in 0 .. m : j + 1 \in Depths(b)
        BY <1>0, <1>8, <1>11, PathTo, Zenon
      <3> QED BY <1>0, <3>1
    <2> DEFINE p == Path(b, d + 1)
    <2>2. p \in Seq(Int) /\ Len(p) = d /\ \A i \in 1 .. d : p[i] = b[i]
      BY <1>8, <2>1, PathTo
    <2> HIDE DEF p
    <2>3. CASE d = m
      <3>1. \A i \in 1 .. d : p[i] = e[i]
        BY <1>8, <2>2, <2>3
      <3>2. p = e
        BY <1>7, <2>1, <2>2, <2>3, <3>1, Same
      <3> QED BY <1>10, <2>1, <3>2 DEF p
    <2>4. CASE d # m
      <3> DEFINE t == Path(a, d + 1)
      <3>1. d + 1 \in Depths(a)
        BY <1>0, PathTo
      <3>2. t \in Seq(Int) /\ Len(t) = d /\ (\A i \in 1 .. d : t[i] = a[i]) /\ t \in N
        BY <2>1, <3>1, PathTo
      <3> HIDE DEF t
      <3>3. 1 .. d \subseteq 1 .. l
        BY <1>0, <2>4
      <3>4. ASSUME NEW i \in 1 .. d PROVE p[i] = t[i]
        BY <1>0, <1>2, <1>7, <1>8, <2>2, <3>2, <3>3
      <3>6. \A i \in 1 .. d : p[i] = t[i]
        BY <3>4
      <3>5. p = t
        <4>1. t \in Seq(Int) /\ Len(t) = d /\ p \in Seq(Int) /\ Len(p) = d /\ d \in Nat
          BY <2>1, <2>2, <3>2
        <4> QED BY <3>6, <4>1, Same
      <3> QED BY <2>1, <2>4, <3>2, <3>5 DEF p
    <2> QED BY <2>3, <2>4
  <1>13. some => state[Path(b, m + 1)] = "Opened"
    <2>1. m \in 0 .. m
      BY <1>0
    <2>2. Path(b, m + 1) = e
      BY <1>12, <2>1
    <2> HIDE DEF some, b
    <2> QED BY <1>6, <2>2 DEF e
  <1> QED BY <1>0, <1>1, <1>8, <1>12, <1>13 DEF bank

\* What the command of a request needs: it is one of the standard's, and the
\* address it goes to is deep enough for it.
LEMMA CommandsNeeded ==
    ASSUME TablesSound, Shape, Typed, NEW T \in Standard, NEW q \in queue
    PROVE  /\ extended(T, q).addr = q.addr
           /\ get_first_cmd(T, q) \in Needed(T, q) /\ get_first_cmd(T, extended(T, q)) \in Needed(T, q)
  <1>1. Addressable(T, Node, q.addr) /\ q \in [type : DOMAIN T.translate, arrive : Nat, addr : Seq(Int)]
    BY DEF Shape, RequestSound
  <1>2. extended(T, q).addr = q.addr
    BY <1>1 DEF extended
  <1>3. \A cmd : decode(T, cmd, q.addr) \in Needs(T, cmd, q.addr)
    BY <1>1, Decoded
  <1> QED BY <1>2, <1>3, Zenon DEF Needed, get_first_cmd

LEMMA DepthIs ==
    ASSUME TablesSound, Shape, NEW T \in Standard, NEW cmd \in T.command
    PROVE  /\ Depth(T, cmd) \in 1 .. Len(T.level) /\ Depth(T, cmd) <= T.scope[cmd]
           /\ Depth(T, cmd) = T.scope[cmd] \/ Depth(T, cmd) = Len(T.level)
           /\ T.scope[cmd] \in Nat
  <1> DEFINE L == Len(T.level)
             s == T.scope[cmd]
  <1>1. L \in Nat /\ L > 1 /\ s \in Nat \ {0}
    BY StandardIsSound DEF StandardSound
  <1>2. Min({s, L}) \in {s, L} /\ Min({s, L}) <= s /\ Min({s, L}) <= L
    <2>1. s \in Int /\ L \in Int
      BY <1>1
    <2> HIDE DEF s, L
    <2> QED BY <2>1, TwoExtremes
  <1> QED BY <1>1, <1>2 DEF Depth

LEMMA IssuedAddress ==
    ASSUME TablesSound, Shape, Typed, NEW T \in Standard, NEW q \in queue, NEW cmd \in Needed(T, q)
    PROVE  LET a == get_addr_vec(cmd, q.addr) IN
           /\ Addressable(T, Node, a) /\ cmd \in T.command /\ cmd \in Issuable(std)
           /\ Depth(T, cmd) \in Depths(a) /\ Depth(T, cmd) \in Nat
           /\ Depth(T, cmd) <= T.scope[cmd] /\ Depth(T, cmd) <= Len(T.level)
           /\ Depth(T, cmd) = T.scope[cmd] \/ Depth(T, cmd) = Len(T.level)
  <1> DEFINE L == Len(T.level)
             a == get_addr_vec(cmd, q.addr)
  <1>1. /\ Addressable(T, Node, q.addr) /\ RequestSound(T, Node, q) /\ cmd \in Issuable(std)
    BY DEF Shape
  <1>2. cmd \in T.command /\ Depth(T, cmd) \in Depths(q.addr)
    BY <1>1 DEF RequestSound
  <1>3. L \in Nat /\ L > 1
    BY StandardIsSound
  <1>4. /\ Depth(T, cmd) \in 1 .. L /\ Depth(T, cmd) <= T.scope[cmd]
        /\ Depth(T, cmd) = T.scope[cmd] \/ Depth(T, cmd) = L
    BY <1>2, DepthIs
  <1>5. CASE cmd # "PRE_OTHER"
    BY <1>1, <1>2, <1>4, <1>5 DEF get_addr_vec
  <1>6. CASE cmd = "PRE_OTHER"
    <2> DEFINE b == get_offending_subarray(q.addr)
    <2>1. a = b
      BY <1>6 DEF get_addr_vec
    <2>2. /\ q.addr \in Seq(Int) /\ Len(q.addr) = L /\ L > 2 /\ L \in Depths(q.addr)
          /\ Front(Front(q.addr)) \o << 0 >> \in Node /\ \A d \in Depths(q.addr) : Path(q.addr, d) \in Node
      BY <1>1, <1>6 DEF RequestSound, Addressable
    <2> DEFINE k == L - 2
    <2>3. k \in Nat /\ L = k + 2 /\ (k + 1) + 1 = L
      BY <1>3, <2>2
    <2>4. Node \subseteq Seq(Nat)
      BY DEF Shape
    <2> HIDE DEF k, L
    <2>5. b \in Seq(Int) /\ Len(b) = k + 2 /\ \A d \in 0 .. k + 1 : d + 1 \in Depths(b) /\ Path(b, d + 1) \in Node
      <3> HIDE DEF b
      <3> DEFINE c == q.addr
      <3>1. c \in Seq(Int) /\ Len(c) = k + 2 /\ (k + 1) + 1 \in Depths(c) /\ Front(Front(c)) \o << 0 >> \in Node
        BY <2>2, <2>3
      <3>2. \A d \in Depths(c) : Path(c, d) \in Node
        BY <2>2
      <3> HIDE DEF c
      <3>3. LET e == get_offending_subarray(c) IN
           /\ e \in Seq(Int) /\ Len(e) = k + 2 /\ \A d \in 0 .. k + 1 : d + 1 \in Depths(e) /\ Path(e, d + 1) \in Node
        BY <2>3, <2>4, <3>1, <3>2, OffendingSubarray
      <3> QED BY <3>3 DEF b, c
    <2> HIDE DEF b
    <2>6. \A d \in 1 .. L : d \in Depths(b) /\ Path(b, d) \in Node
      <3> SUFFICES ASSUME NEW d \in 1 .. L PROVE d \in Depths(b) /\ Path(b, d) \in Node
        OBVIOUS
      <3>1. d - 1 \in 0 .. k + 1 /\ (d - 1) + 1 = d
        BY <1>3, <2>3
      <3> QED BY <2>5, <3>1
    <2>7. Depths(b) \subseteq 1 .. L
      BY <2>3, <2>5 DEF Depths
    <2> QED BY <1>1, <1>2, <1>4, <2>1, <2>3, <2>5, <2>6, <2>7 DEF Addressable, L
  <1> QED BY <1>5, <1>6

\* The first cycle in which a command is ready is that of all the nodes on its way.
LEMMA NextOnPath ==
    ASSUME TablesSound, Shape, Typed, NEW T \in Standard, NEW a, Addressable(T, Node, a), NEW cmd \in T.command
    PROVE  /\ get_next(T, cmd, a) \in Int
           /\ \A d \in Depths(a) : d <= T.scope[cmd] => next[Path(a, d)][cmd] <= get_next(T, cmd, a)
           /\ \E d \in Depths(a) : d <= T.scope[cmd] /\ get_next(T, cmd, a) = next[Path(a, d)][cmd]
  <1> DEFINE far == {d \in Depths(a) : d <= T.scope[cmd]}
             S == {next[Path(a, d)][cmd] : d \in far}
  <1>1. a \in Seq(Int) /\ Len(a) > 0 /\ Len(a) \in Int /\ \A d \in Depths(a) : Path(a, d) \in Node
    BY StandardIsSound DEF Addressable
  <1>2. T.scope[cmd] \in Nat \ {0}
    BY StandardIsSound DEF StandardSound
  <1>3. S \subseteq Int
    <2>1. \A n \in Node : next[n] \in [T.command -> Int]
      BY DEF Typed
    <2> QED BY <1>1, <2>1
  <1>4. IsFiniteSet(S)
    <2>1. far \subseteq 1 .. Len(a)
      BY DEF Depths
    <2>2. IsFiniteSet(far)
      <3>1. IsFiniteSet(1 .. Len(a))
        BY <1>1, FS_Interval
      <3> HIDE DEF far
      <3> QED BY <2>1, <3>1, FS_Subset
    <2> HIDE DEF far
    <2>3. \A F : IsFiniteSet(F) => IsFiniteSet({next[Path(a, d)][cmd] : d \in F})
      <3> SUFFICES ASSUME NEW F, IsFiniteSet(F) PROVE IsFiniteSet({next[Path(a, d)][cmd] : d \in F})
        OBVIOUS
      <3> DEFINE R == {next[Path(a, d)][cmd] : d \in F}
                 f == [d \in F |-> next[Path(a, d)][cmd]]
      <3>1. f \in Surjection(F, R)
        BY DEF Surjection
      <3> HIDE DEF f, R
      <3>2. IsFiniteSet(R)
        BY <3>1, FS_Surjection
      <3> QED BY <3>2 DEF R
    <2> QED BY <2>2, <2>3
  <1>5. 1 \in far
    BY <1>1, <1>2, Paths
  <1>6. S # {}
    BY <1>5
  <1>7. Max(S) \in S /\ \A x \in S : x <= Max(S)
    <2> HIDE DEF S
    <2> QED BY <1>3, <1>4, <1>6, Extremes
  <1>8. get_next(T, cmd, a) = Max(S)
    BY DEF get_next
  <1> DEFINE g == Max(S)
  <1>9. g \in S /\ (\A x \in S : x <= g) /\ get_next(T, cmd, a) = g
    BY <1>7, <1>8
  <1> HIDE DEF g
  <1> QED BY <1>3, <1>9

\* A migration has not to wait longer than the read it replaces.
MildKept ==
    \A T \in Standard : \A n \in Node : \A m, c \in T.command :
        Milder(T, m, c) => next[n][m] <= next[n][c]

\* The rule in force at a node for the row of a request.
Chosen(rule, id) == IF rule.kind # "segment" THEN rule ELSE IF id % rule.ratio = 0 THEN rule.first ELSE rule.rest

\* Every command waits no longer than itself.
LEMMA MilderSelf ==
    ASSUME TablesSound, Shape, NEW T \in Standard, NEW c \in T.command PROVE Milder(T, c, c)
  <1>1. ASSUME NEW d \in Level(T)
        PROVE  /\ \A a \in T.command : /\ NoLonger(T.timing[d].own[a], c, c)
                                      /\ NoLonger(T.timing[d].sibling[a], c, c)
               /\ \A e \in T.timing[d].window : e.to = c =>
                    \E f \in T.timing[d].window : f.to = c /\ f.from = e.from /\ f.dist = e.dist /\ f.val >= e.val
    <2>1. TimingSound(T.timing[d], T.command)
      BY StandardIsSound DEF LevelSound
    <2>2. \A e \in T.timing[d].window : e.val >= e.val
      BY <2>1 DEF TimingSound
    <2> QED BY <2>1, <2>2 DEF TimingSound, NoLonger
  <1> QED BY <1>1 DEF Milder

LEMMA ExtensionCommand ==
    ASSUME TablesSound, Shape, Typed, NEW T \in Standard, NEW q \in queue, extended(T, q) # q
    PROVE  Milder(T, get_first_cmd(T, extended(T, q)), get_first_cmd(T, q))
  <1> DEFINE m == T.translate["EXTENSION"]
             c == T.translate["READ"]
             a == q.addr
             x == get_first_cmd(T, extended(T, q))
             y == get_first_cmd(T, q)
  <1>1. q \in [type : DOMAIN T.translate, arrive : Nat, addr : Seq(Int)] /\ Addressable(T, Node, a)
    BY DEF Shape, RequestSound
  <1>2. "EXTENSION" \in DOMAIN T.translate /\ q.type = "READ" /\ extended(T, q).type = "EXTENSION" /\ extended(T, q).addr = a
    BY <1>1 DEF extended
  <1>3. x = decode(T, m, a) /\ y = decode(T, c, a)
    BY <1>2 DEF get_first_cmd
  <1>4. ExtensionSound(T) /\ "MAX" \notin T.command
    BY StandardIsSound DEF StandardSound
  <1>5. Milder(T, m, c)
    BY <1>2, <1>4 DEF ExtensionSound
  <1>6. a \in Seq(Int) /\ Len(a) = Len(T.level) /\ Len(a) \in Nat /\ Len(a) > 0
    BY <1>1, StandardIsSound DEF Addressable
  <1>7. Depths(a) \subseteq Level(T)
    BY <1>6 DEF Depths, Level
  <1> HIDE DEF m, c, a, x, y
  <1> DEFINE p(d) == prereq(T, m, a, d)
             r(d) == prereq(T, c, a, d)
  <1>8. ASSUME NEW d \in Depths(a) PROVE p(d) = r(d) \/ (p(d) # "MAX" /\ r(d) # "MAX" /\ Milder(T, p(d), r(d)))
    <2> DEFINE rm == T.prereq[d][m]
               rc == T.prereq[d][c]
               n == Path(a, d)
    <2>1. d \in Level(T) /\ (m \in DOMAIN T.prereq[d] <=> c \in DOMAIN T.prereq[d])
      BY <1>2, <1>4, <1>7 DEF ExtensionSound, m, c
    <2>2. CASE m \notin DOMAIN T.prereq[d]
      BY <2>1, <2>2 DEF prereq
    <2>3. CASE m \in DOMAIN T.prereq[d]
      <3>1. p(d) = Required(rm, n, m, a[d]) /\ r(d) = Required(rc, n, c, a[d])
        BY <2>1, <2>3 DEF prereq
      <3> DEFINE u == Chosen(rm, a[d])
                 v == Chosen(rc, a[d])
      <3>2. u \in Rules(rm) /\ v \in Rules(rc)
        BY DEF Chosen, Rules
      <3>3. \/ u.kind = "state" /\ u = v
            \/ /\ u.kind = "row" /\ v.kind = "row" /\ u.hit = "itself" /\ v.hit = "itself"
               /\ Milder(T, u.closed, v.closed) /\ Milder(T, u.miss, v.miss)
        <4> HIDE DEF u, v
        <4>1. \A e \in Rules(rm), f \in Rules(rc) :
                \/ e.kind = "state" /\ e = f
                \/ /\ e.kind = "row" /\ f.kind = "row" /\ e.hit = "itself" /\ f.hit = "itself"
                   /\ Milder(T, e.closed, f.closed) /\ Milder(T, e.miss, f.miss)
          BY <1>2, <1>4, <2>1, <2>3, Zenon DEF ExtensionSound, m, c
        <4> QED BY <3>2, <4>1
      <3>4. CASE u.kind = "state" /\ u = v
        <4>1. Required(rm, n, m, a[d]) = u.to[state[n]]
          BY <3>4 DEF Required, Chosen
        <4>2. Required(rc, n, c, a[d]) = v.to[state[n]]
          BY <3>4 DEF Required, Chosen
        <4> QED BY <3>1, <3>4, <4>1, <4>2
      <3>5. CASE /\ u.kind = "row" /\ v.kind = "row" /\ u.hit = "itself" /\ v.hit = "itself"
                 /\ Milder(T, u.closed, v.closed) /\ Milder(T, u.miss, v.miss)
        <4>1. Required(rm, n, m, a[d]) = IF state[n] = "Closed" THEN u.closed ELSE IF a[d] \notin row_state[n] THEN u.miss ELSE m
          BY <3>5 DEF Required, Chosen
        <4>2. Required(rc, n, c, a[d]) = IF state[n] = "Closed" THEN v.closed ELSE IF a[d] \notin row_state[n] THEN v.miss ELSE c
          BY <3>5 DEF Required, Chosen
        <4> HIDE DEF u, v, rm, rc, n
        <4>3. Milder(T, p(d), r(d))
          BY <1>5, <3>1, <3>5, <4>1, <4>2
        <4>4. p(d) \in T.command /\ r(d) \in T.command
          BY <4>3 DEF Milder
        <4> QED BY <1>4, <4>3, <4>4
      <3> QED BY <3>3, <3>4, <3>5
    <2> QED BY <2>2, <2>3
  <1> DEFINE mets == {d \in Depths(a) : p(d) # "MAX"}
  <1>9. mets = {d \in Depths(a) : r(d) # "MAX"}
    <2> HIDE DEF p, r
    <2> QED BY <1>8
  <1>10. CASE mets = {}
    <2>1. x = m
      BY <1>3, <1>10 DEF decode
    <2>2. y = c
      <3> DEFINE other == {d \in Depths(a) : r(d) # "MAX"}
      <3>1. other = {}
        BY <1>9, <1>10
      <3> QED BY <1>3, <3>1 DEF decode
    <2> QED BY <1>5, <2>1, <2>2 DEF x, y
  <1>11. CASE mets # {}
    <2> DEFINE k == Min(mets)
    <2>1. k \in mets
      <3>1. mets \subseteq 1 .. Len(a)
        BY DEF Depths
      <3>2. mets \subseteq Nat
        BY <1>6, <3>1
      <3> HIDE DEF mets
      <3> QED BY <1>11, <3>2, Least
    <2>2. x = p(k) /\ y = r(k)
      <3>1. x = p(k)
        BY <1>3, <1>11 DEF decode
      <3>2. y = r(k)
        <4> DEFINE other == {d \in Depths(a) : r(d) # "MAX"}
        <4>1. other # {} /\ Min(other) = k
          BY <1>9, <1>11
        <4>2. y = r(Min(other))
          BY <1>3, <4>1 DEF decode
        <4> HIDE DEF other, k
        <4> QED BY <4>1, <4>2
      <3> QED BY <3>1, <3>2
    <2>3. x = y \/ Milder(T, x, y)
      <3>1. k \in Depths(a)
        BY <2>1
      <3> HIDE DEF k, p, r
      <3> QED BY <1>8, <2>2, <3>1
    <2>4. CASE x = y
      <3>1. x \in T.command
        <4>1. x \in Needed(T, q) /\ RequestSound(T, Node, q)
          BY CommandsNeeded DEF x, Shape
        <4> QED BY <4>1 DEF RequestSound
      <3>2. Milder(T, x, x)
        BY <3>1, MilderSelf
      <3> QED BY <2>4, <3>2 DEF x, y
    <2> QED BY <2>3, <2>4 DEF x, y
  <1> QED BY <1>10, <1>11

\* Controller::issue_cmd: the command for which the request is served, or that of
\* the migration in its place, is ready at every node on its way.
LEMMA ReadyInTime ==
    ASSUME TablesSound, Shape, Typed, MildKept, NEW T \in Standard, NEW q \in queue, NEW cmd,
           cmd = get_first_cmd(T, extended(T, q))
    PROVE  /\ cmd \in Needed(T, q) /\ ready_at(T, q) \in Int
           /\ get_next(T, cmd, get_addr_vec(cmd, q.addr)) <= ready_at(T, q)
  <1> DEFINE y == get_first_cmd(T, q)
             a == get_addr_vec(cmd, q.addr)
             b == get_addr_vec(y, q.addr)
  <1>1. cmd \in Needed(T, q) /\ y \in Needed(T, q)
    BY CommandsNeeded
  <1>2. Addressable(T, Node, a) /\ cmd \in T.command /\ Addressable(T, Node, b) /\ y \in T.command
    BY <1>1, IssuedAddress
  <1>3. ready_at(T, q) = get_next(T, y, b)
    BY DEF ready_at
  <1>4. get_next(T, y, b) \in Int /\ get_next(T, cmd, a) \in Int
    BY <1>2, NextOnPath
  <1>5. CASE extended(T, q) = q
    <2>1. cmd = y /\ a = b
      BY <1>5
    <2> HIDE DEF a, b, y
    <2> QED BY <1>1, <1>3, <1>4, <2>1 DEF a
  <1>6. CASE extended(T, q) # q
    <2>1. Milder(T, cmd, y)
      BY <1>6, ExtensionCommand
    <2>2. "EXTENSION" \in DOMAIN T.translate
      BY <1>6 DEF extended
    <2>3. RequestSound(T, Node, q)
      BY DEF Shape
    <2>4. "PRE_OTHER" \notin Needed(T, q)
      BY <2>2, <2>3 DEF RequestSound
    <2>5. a = b
      BY <1>1, <2>4 DEF get_addr_vec
    <2> HIDE DEF a, b, y
    <2>6. PICK d \in Depths(a) : d <= T.scope[cmd] /\ get_next(T, cmd, a) = next[Path(a, d)][cmd]
      BY <1>2, NextOnPath
    <2>7. T.scope[cmd] = T.scope[y]
      BY <2>1 DEF Milder
    <2>8. next[Path(a, d)][y] <= get_next(T, y, a)
      BY <1>2, <2>5, <2>6, <2>7, NextOnPath
    <2>9. Path(a, d) \in Node
      BY <1>2, <2>6 DEF Addressable
    <2>10. next[Path(a, d)][cmd] <= next[Path(a, d)][y]
      BY <1>2, <2>1, <2>9 DEF MildKept
    <2>11. next[Path(a, d)][cmd] \in Int /\ next[Path(a, d)][y] \in Int
      BY <1>2, <2>9 DEF Typed
    <2> HIDE DEF Addressable
    <2>12. get_next(T, cmd, a) <= get_next(T, y, b)
      BY <1>4, <2>5, <2>6, <2>8, <2>10, <2>11
    <2> QED BY <1>1, <1>3, <1>4, <2>12 DEF a
  <1> QED BY <1>5, <1>6

\* What a step does: it issues a command of a request, at a time when all the nodes
\* on its way are ready for it.
Issues(T, q, cmd, a, t) ==
    /\ cmd = get_first_cmd(T, extended(T, q)) /\ cmd \in Needed(T, q) /\ a = get_addr_vec(cmd, q.addr)
    /\ Addressable(T, Node, a) /\ Depth(T, cmd) \in Depths(a) /\ cmd \in T.command /\ cmd \in Issuable(std)
    /\ t \in Nat /\ t > clk
    /\ \A d \in Depths(a) : d <= T.scope[cmd] => next[Path(a, d)][cmd] <= t
    /\ issue_cmd(T, q, cmd, a, t)

LEMMA IssueSteps ==
    ASSUME TablesSound, Shape, Typed, MildKept, NEW T \in Standard, Issue(T)
    PROVE  slack' \in Nat /\ \E q \in queue : \E cmd, a, t : Issues(T, q, cmd, a, t)
  <1>1. PICK q \in {r \in queue : Served(T, r)}, delay \in {0, slack} :
          /\ slack' = slack - delay
          /\ \E cmd \in {get_first_cmd(T, extended(T, q))} :
               issue_cmd(T, q, cmd, get_addr_vec(cmd, q.addr), cycle(T, q, delay))
    BY Zenon DEF Issue
  <1> DEFINE cmd == get_first_cmd(T, extended(T, q))
             a == get_addr_vec(cmd, q.addr)
             t == cycle(T, q, delay)
  <1>2. issue_cmd(T, q, cmd, a, t) /\ q \in queue
    BY <1>1
  <1>3. delay \in Nat /\ slack' \in Nat /\ clk \in Nat
    BY <1>1 DEF Shape
  <1>4. cmd \in Needed(T, q) /\ ready_at(T, q) \in Int /\ get_next(T, cmd, a) <= ready_at(T, q)
    BY <1>2, ReadyInTime
  <1>5. Addressable(T, Node, a) /\ Depth(T, cmd) \in Depths(a) /\ cmd \in T.command /\ cmd \in Issuable(std)
    BY <1>2, <1>4, IssuedAddress
  <1>6. t \in Nat /\ t > clk /\ ready_at(T, q) <= t
    <2> DEFINE u == ready_at(T, q)
               w == clk + 1
    <2>1. w \in Int /\ u \in Int
      BY <1>3, <1>4
    <2>2. Max({w, u}) \in Int /\ w <= Max({w, u}) /\ u <= Max({w, u})
      <3> HIDE DEF u, w
      <3> QED BY <2>1, TwoExtremes
    <2>3. t = Max({w, u}) + delay
      BY DEF cycle
    <2> DEFINE g == Max({w, u})
    <2> HIDE DEF g, u, t
    <2> QED BY <1>3, <2>1, <2>2, <2>3 DEF g, u
  <1>7. ASSUME NEW d \in Depths(a), d <= T.scope[cmd] PROVE next[Path(a, d)][cmd] <= t
    <2>1. next[Path(a, d)][cmd] <= get_next(T, cmd, a) /\ get_next(T, cmd, a) \in Int
      BY <1>5, <1>7, NextOnPath
    <2>2. next[Path(a, d)][cmd] \in Int
      BY <1>5, <1>7 DEF Typed, Addressable
    <2> HIDE DEF cmd, a, t
    <2> QED BY <1>4, <1>6, <2>1, <2>2
  <1>8. Issues(T, q, cmd, a, t)
    <2>1. cmd = get_first_cmd(T, extended(T, q))
      OBVIOUS
    <2> HIDE DEF cmd, t
    <2> QED BY <1>2, <1>4, <1>5, <1>6, <1>7, <2>1 DEF Issues
  <1> HIDE DEF cmd, a, t
  <1> QED BY <1>2, <1>3, <1>8

-----------------------------------------------------------------------------
(* The times that nodes wait *)

\* Constraints of a node, and the commands that its windows have seen, are numbers.
Numbers(m) == \A c \in DOMAIN m : m[c] \in Int
Counted(windows, cmd, hist) ==
    /\ IsFiniteSet(windows)
    /\ \A e \in windows : e.val \in Int /\ (e.from = cmd /\ Len(hist[cmd]) >= e.dist => hist[cmd][e.dist] \in Int)
\* The times f are those of old put off by the constraints m, and no later than that.
PutOff(C, old, m, t, f) ==
    /\ f \in [C -> Int]
    /\ \A c \in C : /\ old[c] <= f[c]
                    /\ c \in DOMAIN m => t + m[c] <= f[c]
                    /\ f[c] = old[c] \/ (c \in DOMAIN m /\ f[c] = t + m[c])
\* The same for the commands that a window counts.
Due(windows, cmd, hist, c) == {e \in windows : e.from = cmd /\ e.to = c /\ Len(hist[cmd]) >= e.dist}
PutOffByWindows(C, old, windows, cmd, hist, f) ==
    /\ f \in [C -> Int]
    /\ \A c \in C : /\ old[c] <= f[c]
                    /\ \A e \in Due(windows, cmd, hist, c) : hist[cmd][e.dist] + e.val <= f[c]
                    /\ f[c] = old[c] \/ \E e \in Due(windows, cmd, hist, c) : f[c] = hist[cmd][e.dist] + e.val

\* update_timing keeps the later of two times.
LEMMA LaterTimes ==
    ASSUME NEW C, NEW n, next[n] \in [C -> Int], NEW m, Numbers(m), NEW t \in Int
    PROVE  PutOff(C, next[n], m, t, Later(n, m, t))
  <1>1. Later(n, m, t) = [c \in C |-> IF c \in DOMAIN m /\ t + m[c] > next[n][c] THEN t + m[c] ELSE next[n][c]]
    BY DEF Later
  <1> DEFINE L == Later(n, m, t)
  <1>2. \A c \in C : L[c] = IF c \in DOMAIN m /\ t + m[c] > next[n][c] THEN t + m[c] ELSE next[n][c]
    BY <1>1
  <1>3. L \in [C -> Int]
    BY <1>1 DEF Numbers
  <1> HIDE DEF L
  <1>4. ASSUME NEW c \in C
        PROVE  /\ next[n][c] <= L[c]
               /\ c \in DOMAIN m => t + m[c] <= L[c]
               /\ L[c] = next[n][c] \/ (c \in DOMAIN m /\ L[c] = t + m[c])
    <2>1. next[n][c] \in Int /\ (c \in DOMAIN m => m[c] \in Int)
      BY DEF Numbers
    <2>2. L[c] = IF c \in DOMAIN m /\ t + m[c] > next[n][c] THEN t + m[c] ELSE next[n][c]
      BY <1>2
    <2>3. CASE c \in DOMAIN m /\ t + m[c] > next[n][c]
      BY <2>1, <2>2, <2>3
    <2>4. CASE ~(c \in DOMAIN m /\ t + m[c] > next[n][c])
      BY <2>1, <2>2, <2>4
    <2> QED BY <2>3, <2>4
  <1> QED BY <1>3, <1>4 DEF L, PutOff

\* The commands that a window counts push the time back further.
LEMMA WindowTimes ==
    ASSUME NEW C, NEW windows, NEW cmd, NEW hist, NEW m \in [C -> Int], Counted(windows, cmd, hist)
    PROVE  PutOffByWindows(C, m, windows, cmd, hist, Windowed(windows, cmd, hist, m))
  <1> DEFINE W == Windowed(windows, cmd, hist, m)
             due(c) == {hist[cmd][e.dist] + e.val : e \in Due(windows, cmd, hist, c)}
  <1>1. W = [c \in C |-> Max({m[c]} \cup due(c))]
    BY DEF Windowed, Due
  <1>2. ASSUME NEW c \in C
        PROVE  /\ W[c] \in {m[c]} \cup due(c) /\ W[c] \in Int
               /\ \A x \in {m[c]} \cup due(c) : x <= W[c]
    <2> DEFINE D == Due(windows, cmd, hist, c)
               S == {m[c]} \cup due(c)
    <2>1. IsFiniteSet(D)
      BY FS_Subset DEF Due, Counted
    <2>2. due(c) \subseteq Int
      BY DEF Due, Counted
    <2>3. IsFiniteSet(due(c))
      <3> DEFINE R == {hist[cmd][e.dist] + e.val : e \in D}
                 f == [e \in D |-> hist[cmd][e.dist] + e.val]
      <3>1. f \in Surjection(D, R)
        BY DEF Surjection
      <3> HIDE DEF f, R, D
      <3>2. IsFiniteSet(R)
        BY <2>1, <3>1, FS_Surjection
      <3> QED BY <3>2 DEF R, D
    <2>4. S \subseteq Int /\ S # {}
      <3>1. m[c] \in Int
        OBVIOUS
      <3> HIDE DEF due
      <3> QED BY <2>2, <3>1
    <2>5. IsFiniteSet(S)
      <3> HIDE DEF due
      <3>1. IsFiniteSet({m[c]})
        BY FS_Singleton
      <3> QED BY <2>3, <3>1, FS_Union
    <2>6. Max(S) \in S /\ \A x \in S : x <= Max(S)
      <3> HIDE DEF S
      <3> QED BY <2>4, <2>5, Extremes
    <2>7. W[c] = Max(S)
      BY <1>1
    <2> HIDE DEF W, S
    <2>8. W[c] \in S /\ \A x \in S : x <= W[c]
      BY <2>6, <2>7
    <2> QED BY <2>4, <2>8 DEF S
  <1>3. W \in [C -> Int]
    <2>1. \A c \in C : W[c] \in Int
      BY <1>2
    <2>2. W = [c \in C |-> W[c]]
      BY <1>1
    <2> HIDE DEF W
    <2> QED BY <2>1, <2>2
  <1> HIDE DEF W
  <1>4. ASSUME NEW c \in C
        PROVE  /\ m[c] <= W[c]
               /\ \A e \in Due(windows, cmd, hist, c) : hist[cmd][e.dist] + e.val <= W[c]
               /\ W[c] = m[c] \/ \E e \in Due(windows, cmd, hist, c) : W[c] = hist[cmd][e.dist] + e.val
    BY <1>2
  <1> QED BY <1>3, <1>4 DEF W, PutOffByWindows

\* The commands issued, as the nodes on their way count them.
LEMMA HistoryStep ==
    ASSUME Shape, Typed, NEW T \in Standard, NEW q, NEW cmd, NEW a, NEW t, Issues(T, q, cmd, a, t)
    PROVE  /\ DOMAIN prev' = Node /\ next' = update_timing(T, cmd, a, t, prev')
           /\ \A n \in Node :
                /\ DOMAIN prev'[n] = DOMAIN prev[n]
                /\ \A c \in DOMAIN prev[n] :
                     prev'[n][c] = IF Target(n, a) /\ c = cmd THEN <<t>> \o prev[n][c] ELSE prev[n][c]
  <1>1. prev' = update_history(cmd, a, t) /\ next' = update_timing(T, cmd, a, t, prev')
    BY Zenon DEF Issues, issue_cmd
  <1>2. DOMAIN prev' = Node
    BY <1>1 DEF update_history
  <1>3. ASSUME NEW n \in Node
        PROVE  /\ DOMAIN prev'[n] = DOMAIN prev[n]
               /\ \A c \in DOMAIN prev[n] :
                     prev'[n][c] = IF Target(n, a) /\ c = cmd THEN <<t>> \o prev[n][c] ELSE prev[n][c]
    <2>1. prev'[n] = IF Target(n, a) /\ cmd \in DOMAIN prev[n] THEN [prev[n] EXCEPT ![cmd] = <<t>> \o @] ELSE prev[n]
      BY <1>1 DEF update_history
    <2> DEFINE x == <<t>> \o prev[n][cmd]
    <2>2. prev'[n] = IF Target(n, a) /\ cmd \in DOMAIN prev[n] THEN [prev[n] EXCEPT ![cmd] = x] ELSE prev[n]
      BY <2>1
    <2>3. \A c \in DOMAIN prev[n] : c = cmd => x = <<t>> \o prev[n][c]
      OBVIOUS
    <2> HIDE DEF x
    <2>4. DOMAIN prev'[n] = DOMAIN prev[n]
      BY <2>2
    <2>5. ASSUME NEW c \in DOMAIN prev[n]
          PROVE  prev'[n][c] = IF Target(n, a) /\ c = cmd THEN x ELSE prev[n][c]
      BY <2>2
    <2> QED BY <2>3, <2>4, <2>5
  <1> QED BY <1>1, <1>2, <1>3

\* The nodes that take what the command leaves: those on its way, and their siblings.
Beside(n, a) == ~Target(n, a) /\ Target(Path(n, Len(n)), a)

LEMMA TimesTyped ==
    ASSUME TablesSound, Shape, Typed, NEW T \in Standard, NEW q, NEW cmd, NEW a, NEW t, Issues(T, q, cmd, a, t),
           NEW n \in Node
    PROVE  LET rules == T.timing[Len(n) + 1] IN
           /\ t \in Int /\ cmd \in T.command /\ next[n] \in [T.command -> Int]
           /\ Numbers(rules.own[cmd]) /\ Numbers(rules.sibling[cmd]) /\ Counted(rules.window, cmd, prev'[n])
           /\ DOMAIN prev'[n] = {e.from : e \in rules.window}
           /\ \A c \in DOMAIN prev'[n] : prev'[n][c] \in Seq(Int)
  <1> DEFINE rules == T.timing[Len(n) + 1]
             k == Len(n) + 1
  <1>1. k \in Level(T)
    BY DEF Shape
  <1>2. LevelSound(T, k)
    BY <1>1, StandardIsSound
  <1>3. t \in Int /\ cmd \in T.command
    BY DEF Issues
  <1>4. TimingSound(rules, T.command)
    BY <1>2, Zenon DEF LevelSound
  <1> HIDE DEF k, rules
  <1>5. /\ \A c \in DOMAIN rules.own[cmd] : rules.own[cmd][c] \in Int
        /\ \A c \in DOMAIN rules.sibling[cmd] : rules.sibling[cmd][c] \in Int
        /\ IsFiniteSet(rules.window) /\ \A e \in rules.window : e.val \in Int /\ e.dist \in Nat \ {0}
    BY <1>3, <1>4, Zenon DEF TimingSound
  <1>6. /\ next[n] \in [T.command -> Int] /\ DOMAIN prev[n] = {e.from : e \in rules.window}
        /\ \A c \in DOMAIN prev[n] : prev[n][c] \in Seq(Int)
    BY Zenon DEF Typed, rules
  <1>7. DOMAIN prev'[n] = DOMAIN prev[n] /\ \A c \in DOMAIN prev[n] :
                     prev'[n][c] = IF Target(n, a) /\ c = cmd THEN <<t>> \o prev[n][c] ELSE prev[n][c]
    BY HistoryStep
  <1>8. \A s \in Seq(Int) : <<t>> \o s \in Seq(Int)
    BY <1>3
  <1>9. ASSUME NEW c \in DOMAIN prev[n] PROVE prev'[n][c] \in Seq(Int)
    BY <1>6, <1>7, <1>8
  <1>10. ASSUME NEW e \in rules.window, e.from = cmd, Len(prev'[n][cmd]) >= e.dist
         PROVE  prev'[n][cmd][e.dist] \in Int
    <2>1. cmd \in DOMAIN prev[n]
      BY <1>6, <1>10
    <2>2. prev'[n][cmd] \in Seq(Int)
      BY <1>9, <2>1
    <2>3. e.dist \in Nat \ {0}
      BY <1>5
    <2> DEFINE s == prev'[n][cmd]
               d == e.dist
    <2> HIDE DEF s, d
    <2>4. s \in Seq(Int) /\ d \in 1 .. Len(s)
      BY <1>10, <2>2, <2>3 DEF s, d
    <2>5. s[d] \in Int
      BY <2>4
    <2> QED BY <2>5 DEF s, d
  <1> QED BY <1>3, <1>5, <1>6, <1>7, <1>9, <1>10 DEF rules, Numbers, Counted

\* Where the time that a node waits for c comes from.
Source(rules, n, cmd, a, t, c) ==
    \/ next'[n][c] = next[n][c]
    \/ Target(n, a) /\ c \in DOMAIN rules.own[cmd] /\ next'[n][c] = t + rules.own[cmd][c]
    \/ Beside(n, a) /\ c \in DOMAIN rules.sibling[cmd] /\ next'[n][c] = t + rules.sibling[cmd][c]
    \/ Target(n, a) /\ \E e \in Due(rules.window, cmd, prev'[n], c) : next'[n][c] = prev'[n][cmd][e.dist] + e.val

\* DRAM::update_timing of one node: what the command leaves there, whatever the node
\* waited before.
LEMMA NextStep ==
    ASSUME TablesSound, Shape, Typed, NEW T \in Standard, NEW q, NEW cmd, NEW a, NEW t, Issues(T, q, cmd, a, t),
           NEW n \in Node
    PROVE  LET rules == T.timing[Len(n) + 1] IN
           /\ next'[n] \in [T.command -> Int]
           /\ \A c \in T.command :
                /\ next[n][c] <= next'[n][c]
                /\ Target(n, a) /\ c \in DOMAIN rules.own[cmd] => t + rules.own[cmd][c] <= next'[n][c]
                /\ Beside(n, a) /\ c \in DOMAIN rules.sibling[cmd] => t + rules.sibling[cmd][c] <= next'[n][c]
                /\ Target(n, a) => \A e \in Due(rules.window, cmd, prev'[n], c) : prev'[n][cmd][e.dist] + e.val <= next'[n][c]
           /\ \A c \in T.command : Source(rules, n, cmd, a, t, c)
  <1> DEFINE rules == T.timing[Len(n) + 1]
             own == rules.own[cmd]
             sib == rules.sibling[cmd]
             C == T.command
             hist == prev'[n]
  <1>1. /\ t \in Int /\ cmd \in C /\ next[n] \in [C -> Int]
        /\ Numbers(own) /\ Numbers(sib) /\ Counted(rules.window, cmd, hist)
    BY TimesTyped, Zenon
  <1>2. next'[n] = CASE Target(n, a) -> Windowed(rules.window, cmd, hist, Later(n, own, t))
                     [] ~Target(n, a) /\ Target(Path(n, Len(n)), a) -> Later(n, sib, t)
                     [] OTHER -> next[n]
    <2>1. next' = update_timing(T, cmd, a, t, prev')
      BY HistoryStep
    <2> QED BY <2>1, Zenon DEF update_timing
  <1> HIDE DEF own, sib, rules, hist
  <1>3. CASE Target(n, a)
    <2> DEFINE L == Later(n, own, t)
               W == Windowed(rules.window, cmd, hist, L)
    <2>1. next'[n] = W
      BY <1>2, <1>3
    <2>2. PutOff(C, next[n], own, t, L)
      BY <1>1, LaterTimes, Zenon
    <2> HIDE DEF L
    <2>3. PutOffByWindows(C, L, rules.window, cmd, hist, W)
      <3>1. L \in [C -> Int]
        BY <2>2, Zenon DEF PutOff
      <3> HIDE DEF C
      <3> QED BY <1>1, <3>1, WindowTimes, Zenon
    <2> HIDE DEF W
    <2>4. ASSUME NEW c \in C PROVE next[n][c] <= W[c] /\ (c \in DOMAIN own => t + own[c] <= W[c])
      <3>1. next[n][c] \in Int /\ L[c] \in Int /\ W[c] \in Int
        BY <1>1, <2>2, <2>3 DEF PutOff, PutOffByWindows
      <3>2. c \in DOMAIN own => t + own[c] \in Int
        BY <1>1 DEF Numbers
      <3>3. \A x, y, z \in Int : x <= y /\ y <= z => x <= z
        OBVIOUS
      <3>4. next[n][c] <= L[c] /\ L[c] <= W[c] /\ (c \in DOMAIN own => t + own[c] <= L[c])
        BY <2>2, <2>3, Zenon DEF PutOff, PutOffByWindows
      <3> QED BY <3>1, <3>2, <3>3, <3>4, Zenon
    <2>5. ~Beside(n, a)
      BY <1>3 DEF Beside
    <2> QED BY <1>3, <2>1, <2>2, <2>3, <2>4, <2>5, Zenon DEF own, sib, rules, hist, PutOff, PutOffByWindows, Source
  <1>4. CASE Beside(n, a)
    <2> DEFINE L == Later(n, sib, t)
    <2>1. next'[n] = L
      BY <1>2, <1>4 DEF Beside
    <2>2. PutOff(C, next[n], sib, t, L)
      BY <1>1, LaterTimes, Zenon
    <2>3. ~Target(n, a)
      BY <1>4 DEF Beside
    <2> HIDE DEF L
    <2> QED BY <1>4, <2>1, <2>2, <2>3, Zenon DEF own, sib, rules, hist, PutOff, Source
  <1>5. CASE ~Target(n, a) /\ ~Beside(n, a)
    <2>1. next'[n] = next[n]
      BY <1>2, <1>5 DEF Beside
    <2>2. \A c \in C : next[n][c] <= next[n][c]
      <3>1. \A c \in C : next[n][c] \in Int
        BY <1>1
      <3> QED BY <3>1
    <2> QED BY <1>1, <1>5, <2>1, <2>2, Zenon DEF own, sib, rules, hist, Source
  <1> QED BY <1>3, <1>4, <1>5

-----------------------------------------------------------------------------
(* The states of the nodes *)

\* A state that a rule can leave k levels below is one of that level.
LEMMA StateLeft ==
    ASSUME NEW T, NEW d \in Nat, d >= 1, NEW c \in DOMAIN T.lambda[d], NEW k \in Nat, NEW x \in Leaves(T.lambda[d][c], k)
    PROVE  x \in States(T, d + k)
  <1> DEFINE of(j) == UNION {Leaves(T.lambda[j][e], (d + k) - j) : e \in DOMAIN T.lambda[j]}
             all == UNION {of(j) : j \in 1 .. d + k}
  <1>1. d \in 1 .. d + k /\ (d + k) - d = k
    OBVIOUS
  <1>2. x \in of(d)
    BY <1>1
  <1>3. States(T, d + k) = {T.start[d + k]} \cup all
    BY DEF States
  <1> HIDE DEF of
  <1>4. x \in all
    BY <1>1, <1>2
  <1> HIDE DEF all
  <1> QED BY <1>3, <1>4

\* The states and rows that a channel may have.
Sound(T) ==
    [state : {f \in [Node -> NodeState] : \A n \in Node : f[n] \in States(T, Len(n) + 1)},
     rows : {g \in [Node -> SUBSET Int] : \A n \in Node : IsFiniteSet(g[n])}]

LEMMA SoundParts ==
    ASSUME NEW T, NEW s \in Sound(T)
    PROVE  /\ s.state \in [Node -> NodeState] /\ s.rows \in [Node -> SUBSET Int]
           /\ \A n \in Node : s.state[n] \in States(T, Len(n) + 1) /\ IsFiniteSet(s.rows[n])
           /\ DOMAIN s = {"state", "rows"} /\ s = [state |-> s.state, rows |-> s.rows]
  BY DEF Sound

LEMMA SoundWhole ==
    ASSUME NEW T, NEW f \in [Node -> NodeState], NEW g \in [Node -> SUBSET Int],
           \A n \in Node : f[n] \in States(T, Len(n) + 1) /\ IsFiniteSet(g[n])
    PROVE  [state |-> f, rows |-> g] \in Sound(T)
  BY DEF Sound

\* The state and the rows of a node are changed each for itself.
LEMMA StateSet ==
    ASSUME NEW D, NEW R, NEW E, NEW v \in [D -> R], NEW w \in [D -> E], NEW n \in D, NEW x,
           NEW s, s = [state |-> v, rows |-> w]
    PROVE  [s EXCEPT !.state[n] = x] = [state |-> [v EXCEPT ![n] = x], rows |-> w]
  OBVIOUS
LEMMA OneByOne ==
    ASSUME NEW n, NEW x, NEW y, NEW s
    PROVE  [s EXCEPT !.state[n] = y, !.rows[n] = @ \cup {x}] = [[s EXCEPT !.state[n] = y] EXCEPT !.rows[n] = @ \cup {x}]
  BY Zenon

\* Nodes that are closed lose their rows.
LEMMA ClosingSound ==
    ASSUME NEW T, NEW s \in Sound(T), NEW nodes,
           \A n \in Node : n \in nodes => "Closed" \in States(T, Len(n) + 1)
    PROVE  Closing(nodes, s) \in Sound(T)
  <1> DEFINE f == [n \in Node |-> IF n \in nodes THEN "Closed" ELSE s.state[n]]
             g == [n \in Node |-> IF n \in nodes THEN {} ELSE s.rows[n]]
  <1>1. /\ s.state \in [Node -> NodeState] /\ s.rows \in [Node -> SUBSET Int]
        /\ \A n \in Node : s.state[n] \in States(T, Len(n) + 1) /\ IsFiniteSet(s.rows[n])
    BY SoundParts
  <1>2. f \in [Node -> NodeState]
    BY <1>1 DEF NodeState
  <1>3. g \in [Node -> SUBSET Int]
    BY <1>1
  <1>4. ASSUME NEW n \in Node PROVE f[n] \in States(T, Len(n) + 1) /\ IsFiniteSet(g[n])
    BY <1>1, FS_EmptySet
  <1>5. Closing(nodes, s) = [state |-> f, rows |-> g]
    BY DEF Closing
  <1> HIDE DEF f, g
  <1> QED BY <1>2, <1>3, <1>4, <1>5, SoundWhole

\* Of the subarrays of a bank, the one selected replaces another.
LEMMA SelectingSound ==
    ASSUME NEW T, NEW s \in Sound(T), NEW n \in Node, n \in Seq(Nat), Len(n) > 0,
           {"Selected", "Opened"} \subseteq States(T, Len(n) + 1)
    PROVE  /\ Selecting(n, s) \in Sound(T) /\ Selecting(n, s).rows = s.rows
  <1> DEFINE f == [m \in Node |-> IF m = n THEN "Selected"
                       ELSE IF m \in Children(Path(n, Len(n))) /\ s.state[m] = "Selected" THEN "Opened" ELSE s.state[m]]
  <1>1. /\ s.state \in [Node -> NodeState] /\ s.rows \in [Node -> SUBSET Int]
        /\ \A m \in Node : s.state[m] \in States(T, Len(m) + 1) /\ IsFiniteSet(s.rows[m])
        /\ s = [state |-> s.state, rows |-> s.rows]
    BY SoundParts, Zenon
  <1>2. f \in [Node -> NodeState]
    BY <1>1 DEF NodeState
  <1> DEFINE l == Len(n) - 1
  <1>3. l \in Nat /\ l <= Len(n)
    OBVIOUS
  <1>4. Len(Path(n, Len(n))) = Len(n) - 1
    <2>1. Len(SubSeq(n, 1, l)) = l
      <3> HIDE DEF l
      <3> QED BY <1>3, Starting
    <2> QED BY <2>1 DEF Path
  <1>5. \A m \in Children(Path(n, Len(n))) : Len(m) = Len(n)
    BY <1>4 DEF Children
  <1>6. ASSUME NEW m \in Node PROVE f[m] \in States(T, Len(m) + 1)
    BY <1>1, <1>5
  <1>7. Selecting(n, s) = [state |-> f, rows |-> s.rows]
    <2>1. Selecting(n, s) = [s EXCEPT !.state = f]
      BY DEF Selecting
    <2> HIDE DEF f
    <2> DEFINE v == s.state
               w == s.rows
    <2>2. s = [state |-> v, rows |-> w]
      BY <1>1
    <2> HIDE DEF v, w
    <2>3. [s EXCEPT !.state = f] = [state |-> f, rows |-> w]
      BY <2>2
    <2> QED BY <2>1, <2>3 DEF w
  <1> HIDE DEF f
  <1>8. [state |-> f, rows |-> s.rows] \in Sound(T)
    BY <1>1, <1>2, <1>6, SoundWhole
  <1> QED BY <1>7, <1>8

\* One change of state leaves every node in a state of its level.
LEMMA EffectSound ==
    ASSUME TablesSound, Shape, NEW T \in Standard, NEW d \in Nat, NEW n \in Node, n \in Seq(Nat), Len(n) + 1 = d,
           d \in Level(T), NEW c \in DOMAIN T.lambda[d], NEW id \in Int, NEW s \in Sound(T)
    PROVE  Effect(T.lambda[d][c], n, id, s) \in Sound(T)
  <1> DEFINE rule == T.lambda[d][c]
             v == s.state
             w == s.rows
  <1>1. LevelSound(T, d) /\ d >= 1
    BY StandardIsSound DEF Level
  <1>2. /\ rule.kind \in EffectKinds
        /\ rule.kind \in {"openSelected", "select"} => d > 1
        /\ rule.kind = "closeBelow" => rule.below \subseteq Nat
    BY <1>1 DEF LevelSound
  <1>3. \A k \in Nat : \A x \in Leaves(rule, k) : x \in States(T, d + k)
    BY <1>1, StateLeft
  <1>4. \A x \in Leaves(rule, 0) : x \in States(T, Len(n) + 1)
    <2>1. d + 0 = Len(n) + 1
      OBVIOUS
    <2> QED BY <1>3, <2>1
  <1>5. States(T, d) \subseteq NodeState
    BY <1>1 DEF LevelSound
  <1>6. /\ v \in [Node -> NodeState] /\ w \in [Node -> SUBSET Int]
        /\ \A m \in Node : v[m] \in States(T, Len(m) + 1) /\ IsFiniteSet(w[m])
        /\ s = [state |-> v, rows |-> w]
    BY SoundParts, Zenon
  <1>7. \A m \in Node : m \in Seq(Nat)
    BY DEF Shape
  <1> SUFFICES Effect(rule, n, id, s) \in Sound(T)
    OBVIOUS
  <1> HIDE DEF rule, v, w
  <1>19. v \in [Node -> NodeState] /\ w \in [Node -> SUBSET Int] /\ s = [state |-> v, rows |-> w]
    BY <1>6
  <1>8. ASSUME NEW x \in Leaves(rule, 0)
        PROVE  [state |-> [v EXCEPT ![n] = x], rows |-> w] \in Sound(T)
    <2> DEFINE f == [v EXCEPT ![n] = x]
    <2>1. x \in States(T, Len(n) + 1) /\ x \in NodeState
      BY <1>4, <1>5
    <2>2. f \in [Node -> NodeState] /\ \A m \in Node : f[m] \in States(T, Len(m) + 1)
      BY <1>6, <2>1
    <2> HIDE DEF f
    <2>3. [state |-> f, rows |-> w] \in Sound(T)
      BY <1>6, <2>2, SoundWhole
    <2> QED BY <2>3 DEF f
  <1>9. ASSUME NEW r \in Sound(T)
        PROVE  [r EXCEPT !.rows[n] = @ \cup {id}] \in Sound(T)
    <2> DEFINE p == r.state
               o == r.rows
               g == [o EXCEPT ![n] = @ \cup {id}]
    <2>1. /\ p \in [Node -> NodeState] /\ o \in [Node -> SUBSET Int]
          /\ \A m \in Node : p[m] \in States(T, Len(m) + 1) /\ IsFiniteSet(o[m])
          /\ r = [state |-> p, rows |-> o]
      BY SoundParts, Zenon
    <2> HIDE DEF p, o
    <2>2. g \in [Node -> SUBSET Int]
      BY <2>1
    <2>3. ASSUME NEW m \in Node PROVE IsFiniteSet(g[m])
      <3>1. IsFiniteSet(o[n] \cup {id})
        BY <2>1, FS_AddElement
      <3>2. g[m] = IF m = n THEN o[n] \cup {id} ELSE o[m]
        BY <2>1
      <3> QED BY <2>1, <3>1, <3>2
    <2>4. [r EXCEPT !.rows[n] = @ \cup {id}] = [state |-> p, rows |-> g]
      <3>1. r.rows = o /\ r = [state |-> p, rows |-> o]
        BY <2>1
      <3>2. [r EXCEPT !.rows[n] = @ \cup {id}] = [r EXCEPT !.rows = g]
        BY <3>1, Zenon
      <3> HIDE DEF g
      <3>3. \A h : [[state |-> p, rows |-> o] EXCEPT !.rows = h] = [state |-> p, rows |-> h]
        OBVIOUS
      <3> QED BY <3>1, <3>2, <3>3, Zenon
    <2> HIDE DEF g
    <2>5. [state |-> p, rows |-> g] \in Sound(T)
      BY <2>1, <2>2, <2>3, SoundWhole, Zenon
    <2> QED BY <2>4, <2>5
  <1>10. CASE rule.kind = "become"
    <2> DEFINE x == rule.state
    <2>1. Effect(rule, n, id, s) = [s EXCEPT !.state[n] = x]
      BY <1>10 DEF Effect
    <2>2. x \in Leaves(rule, 0)
      BY <1>10 DEF Leaves
    <2> HIDE DEF x
    <2>3. [s EXCEPT !.state[n] = x] = [state |-> [v EXCEPT ![n] = x], rows |-> w]
      BY <1>19, StateSet
    <2>4. [s EXCEPT !.state[n] = x] \in Sound(T)
      BY <1>8, <2>2, <2>3, Zenon
    <2> QED BY <2>1, <2>4
  <1>11. CASE rule.kind = "open"
    <2> DEFINE r == [s EXCEPT !.state[n] = "Opened"]
    <2>1. Effect(rule, n, id, s) = [s EXCEPT !.state[n] = "Opened", !.rows[n] = @ \cup {id}]
      BY <1>11 DEF Effect
    <2>2. "Opened" \in Leaves(rule, 0)
      BY <1>11 DEF Leaves
    <2>3. r = [state |-> [v EXCEPT ![n] = "Opened"], rows |-> w]
      <3> DEFINE x == "Opened"
      <3> HIDE DEF x
      <3>1. [s EXCEPT !.state[n] = x] = [state |-> [v EXCEPT ![n] = x], rows |-> w]
        BY <1>19, StateSet
      <3> QED BY <3>1, Zenon DEF x
    <2>4. r \in Sound(T)
      BY <1>8, <2>2, <2>3, Zenon
    <2>5. Effect(rule, n, id, s) = [r EXCEPT !.rows[n] = @ \cup {id}]
      BY <2>1, OneByOne, Zenon
    <2> HIDE DEF r
    <2> QED BY <1>9, <2>4, <2>5, Zenon
  <1>12. CASE rule.kind = "close"
    <2>1. Effect(rule, n, id, s) = Closing({n}, s)
      BY <1>12 DEF Effect
    <2>2. "Closed" \in Leaves(rule, 0)
      BY <1>12 DEF Leaves
    <2>3. \A m \in Node : m \in {n} => "Closed" \in States(T, Len(m) + 1)
      BY <1>4, <2>2, Zenon
    <2> QED BY <2>1, <2>3, ClosingSound, Zenon
  <1>13. CASE rule.kind = "closeWithChild"
    <2>1. Effect(rule, n, id, s) = Closing({n, Append(n, id)}, s)
      BY <1>13 DEF Effect
    <2>2. "Closed" \in Leaves(rule, 0) /\ "Closed" \in Leaves(rule, 1)
      BY <1>13 DEF Leaves
    <2>3. Len(Append(n, id)) = Len(n) + 1
      OBVIOUS
    <2>4. "Closed" \in States(T, Len(n) + 1) /\ "Closed" \in States(T, (Len(n) + 1) + 1)
      BY <1>3, <1>4, <2>2
    <2>5. \A m \in Node : m \in {n, Append(n, id)} => "Closed" \in States(T, Len(m) + 1)
      BY <2>3, <2>4
    <2> QED BY <2>1, <2>5, ClosingSound, Zenon
  <1>14. CASE rule.kind \in {"openSelected", "select"}
    <2>1. {"Selected", "Opened"} \subseteq States(T, Len(n) + 1)
      <3>1. {"Selected", "Opened"} \subseteq Leaves(rule, 0)
        BY <1>14 DEF Leaves
      <3> QED BY <1>4, <3>1
    <2>2. Len(n) > 0
      BY <1>2, <1>14
    <2>3. Selecting(n, s) \in Sound(T)
      BY <2>1, <2>2, SelectingSound
    <2>4. CASE rule.kind = "select"
      <3>1. Effect(rule, n, id, s) = Selecting(n, s)
        BY <2>4 DEF Effect
      <3> QED BY <2>3, <3>1, Zenon
    <2>5. CASE rule.kind = "openSelected"
      <3>1. Effect(rule, n, id, s) = [Selecting(n, s) EXCEPT !.rows[n] = @ \cup {id}]
        BY <2>5 DEF Effect
      <3> QED BY <1>9, <2>3, <3>1, Zenon
    <2> QED BY <1>14, <2>4, <2>5
  <1>15. CASE rule.kind = "closeBelow"
    <2> DEFINE nodes == UNION {Below(n, k) : k \in rule.below}
    <2>1. Effect(rule, n, id, s) = Closing(nodes, s)
      BY <1>15 DEF Effect
    <2>2. ASSUME NEW m \in Node, m \in nodes PROVE "Closed" \in States(T, Len(m) + 1)
      <3>1. PICK k \in rule.below : m \in Below(n, k)
        BY <2>2
      <3>2. Len(m) = Len(n) + k /\ k \in Nat
        BY <1>2, <1>15, <3>1 DEF Below
      <3>3. "Closed" \in Leaves(rule, k)
        BY <1>15 DEF Leaves
      <3>4. d + k = Len(m) + 1
        <4>1. Len(m) \in Nat /\ Len(n) \in Nat
          BY <1>7
        <4> QED BY <3>2, <4>1
      <3> QED BY <1>3, <3>2, <3>3, <3>4
    <2> HIDE DEF nodes
    <2> QED BY <2>1, <2>2, ClosingSound, Zenon
  <1>16. CASE rule.kind = "powerDown"
    <2> DEFINE x == IF \A b \in Below(n, rule.below) : s.state[b] = "Closed" THEN "PrePowerDown" ELSE "ActPowerDown"
    <2>1. Effect(rule, n, id, s) = [s EXCEPT !.state[n] = x]
      BY <1>16 DEF Effect
    <2>2. x \in Leaves(rule, 0)
      BY <1>16 DEF Leaves
    <2> HIDE DEF x
    <2>3. [s EXCEPT !.state[n] = x] = [state |-> [v EXCEPT ![n] = x], rows |-> w]
      BY <1>19, StateSet
    <2>4. [s EXCEPT !.state[n] = x] \in Sound(T)
      BY <1>8, <2>2, <2>3, Zenon
    <2> QED BY <2>1, <2>4
  <1>17. rule.kind \in {"become", "open", "close", "closeWithChild", "openSelected", "select", "closeBelow", "powerDown"}
    BY <1>2 DEF EffectKinds
  <1> QED BY <1>10, <1>11, <1>12, <1>13, <1>14, <1>15, <1>16, <1>17, Zenon

\* DRAM::update_state, level by level from the channel down.
TurnOf(T, cmd, a, d, s) == IF cmd \in DOMAIN T.lambda[d] THEN Effect(T.lambda[d][cmd], Path(a, d), a[d], s) ELSE s
LEMMA StateTurns ==
    ASSUME TablesSound, Shape, Typed, NEW T \in Standard, NEW q, NEW cmd, NEW a, NEW t, Issues(T, q, cmd, a, t)
    PROVE  \E after : /\ after[0] = [state |-> state, rows |-> row_state]
                      /\ \A d \in 1 .. Depth(T, cmd) : after[d] = TurnOf(T, cmd, a, d, after[d - 1])
                      /\ \A d \in 0 .. Depth(T, cmd) : after[d] \in Sound(T)
                      /\ state' = after[Depth(T, cmd)].state /\ row_state' = after[Depth(T, cmd)].rows
  <1> DEFINE last == Min({Len(a), T.scope[cmd]})
             first == [state |-> state, rows |-> row_state]
             D == Sound(T)
             Turn(d, s) == IF cmd \in DOMAIN T.lambda[d] THEN Effect(T.lambda[d][cmd], Path(a, d), a[d], s) ELSE s
             F == [d \in 0 + 1 .. last |-> [s \in D |-> Turn(d, s)]]
             Turns(g) == g = [d \in 0 .. last |->
                IF d = 0 THEN [state |-> state, rows |-> row_state]
                ELSE IF cmd \in DOMAIN T.lambda[d] THEN Effect(T.lambda[d][cmd], Path(a, d), a[d], g[d - 1])
                ELSE g[d - 1]]
             after == CHOOSE g : Turns(g)
  <1>1. /\ a \in Seq(Int) /\ Len(a) = Len(T.level) /\ (\A d \in Depths(a) : Path(a, d) \in Node)
        /\ cmd \in T.command /\ Depth(T, cmd) \in Depths(a)
    BY DEF Issues, Addressable
  <1>2. last = Depth(T, cmd)
    <2>1. {Len(a), T.scope[cmd]} = {T.scope[cmd], Len(T.level)}
      BY <1>1
    <2> QED BY <2>1, Zenon DEF Depth
  <1>3. last \in Nat /\ last >= 1 /\ Len(a) \in Nat /\ Len(a) > 0
    <2>1. Depth(T, cmd) \in 1 .. Len(T.level) /\ Len(T.level) \in Nat
      BY <1>1, DepthIs, StandardIsSound
    <2> HIDE DEF last
    <2> QED BY <1>1, <1>2, <2>1
  <1>4. ASSUME NEW d \in 1 .. last
        PROVE  /\ d \in Level(T) /\ Path(a, d) \in Node /\ Path(a, d) \in Seq(Nat) /\ Len(Path(a, d)) + 1 = d
               /\ d \in Nat /\ a[d] \in Int
    <2> DEFINE e == Depth(T, cmd)
    <2>1. e \in Depths(a) /\ d \in 1 .. e
      <3> HIDE DEF last
      <3> QED BY <1>1, <1>2, <1>4
    <2>2. /\ e \in 1 .. Len(a)
          /\ \A i \in 1 .. e : i \in Depths(a)
      BY <1>1, <1>3, <2>1, Paths
    <2>3. d \in Depths(a)
      BY <2>1, <2>2
    <2> HIDE DEF e
    <2>4. Len(Path(a, d)) = d - 1 /\ Path(a, d) \in Node /\ d \in 1 .. Len(a)
      BY <1>1, <1>3, <2>3, Paths
    <2>5. Path(a, d) \in Seq(Nat)
      BY <2>4 DEF Shape
    <2>6. d \in Level(T) /\ d \in Nat /\ a[d] \in Int
      BY <1>1, <1>3, <2>4 DEF Level
    <2> QED BY <2>4, <2>5, <2>6
  <1>5. first \in D
    <2>1. \A n \in Node : state[n] \in States(T, Len(n) + 1) /\ IsFiniteSet(row_state[n])
      BY DEF Typed
    <2>2. state \in [Node -> NodeState] /\ row_state \in [Node -> SUBSET Int]
      BY DEF Typed
    <2> QED BY <2>1, <2>2, SoundWhole, Zenon
  <1>6. ASSUME NEW d \in 1 .. last, NEW s \in D PROVE Turn(d, s) \in D
    <2>1. CASE cmd \in DOMAIN T.lambda[d]
      <3> DEFINE p == Path(a, d)
                 id == a[d]
      <3>1. d \in Level(T) /\ p \in Node /\ p \in Seq(Nat) /\ Len(p) + 1 = d /\ d \in Nat /\ id \in Int
        BY <1>4
      <3> HIDE DEF last, p, id
      <3>2. Effect(T.lambda[d][cmd], p, id, s) \in Sound(T)
        BY <2>1, <3>1, EffectSound
      <3> QED BY <2>1, <3>2 DEF p, id
    <2>2. CASE cmd \notin DOMAIN T.lambda[d]
      BY <2>2
    <2> QED BY <2>1, <2>2
  <1> HIDE DEF last
  <1>7. \E g : Turns(g)
    <2>1. F \in [0 + 1 .. last -> [D -> D]]
      <3> HIDE DEF Turn, D
      <3> QED BY <1>3, <1>6
    <2>2. LoopOver(D, 0, last, F)
      <3> HIDE DEF D, F
      <3> QED BY <1>3, <2>1 DEF LoopOver
    <2>3. Computes(D, 0, last, first, F)
      <3> HIDE DEF D, F, first
      <3> QED BY <1>5, <2>2, Loop
    <2>4. PICK f \in [0 .. last -> D] : \A d \in 0 .. last : f[d] = IF d = 0 THEN first ELSE F[d][f[d - 1]]
      <3> HIDE DEF D, F, first
      <3> QED BY <2>3, Zenon DEF Computes
    <2>5. ASSUME NEW d \in 0 .. last, d # 0 PROVE F[d][f[d - 1]] = Turn(d, f[d - 1])
      <3>1. d \in 0 + 1 .. last /\ d - 1 \in 0 .. last
        BY <1>3, <2>5
      <3>2. f[d - 1] \in D
        BY <2>4, <3>1
      <3> HIDE DEF D, Turn
      <3> QED BY <3>1, <3>2
    <2>6. Turns(f)
      <3>1. \A d \in 0 .. last : f[d] = IF d = 0 THEN first ELSE Turn(d, f[d - 1])
        <4> HIDE DEF D, F, Turn, first
        <4> QED BY <2>4, <2>5
      <3>2. f = [d \in 0 .. last |-> IF d = 0 THEN first ELSE Turn(d, f[d - 1])]
        <4> HIDE DEF D, Turn, first
        <4> QED BY <3>1, <2>4
      <3> HIDE DEF D
      <3> QED BY <3>2, Zenon
    <2> HIDE DEF Turns
    <2> QED BY <2>6
  <1>8. Turns(after)
    <2> HIDE DEF Turns
    <2> QED BY <1>7
  <1>9. after[0] = first /\ \A d \in 1 .. last : after[d] = Turn(d, after[d - 1])
    <2>1. \A d \in 1 .. last : d \in 0 .. last /\ d # 0
      BY <1>3
    <2>2. 0 \in 0 .. last
      BY <1>3
    <2>3. \A d \in 0 .. last : after[d] = IF d = 0 THEN first ELSE Turn(d, after[d - 1])
      <3> HIDE DEF after, D, F
      <3> QED BY <1>8, Zenon
    <2> HIDE DEF after, D, F, Turn, first
    <2> QED BY <2>1, <2>2, <2>3
  <1> DEFINE S == {d \in Nat : d <= last => after[d] \in D}
  <1>10. 0 \in S
    <2> HIDE DEF after, D, first
    <2> QED BY <1>5, <1>9
  <1>11. ASSUME NEW d \in Nat, d \in S PROVE d + 1 \in S
    <2> HIDE DEF after, D, Turn
    <2> SUFFICES ASSUME d + 1 <= last PROVE after[d + 1] \in D
      OBVIOUS
    <2>1. d <= last /\ d + 1 \in 1 .. last /\ (d + 1) - 1 = d
      BY <1>3
    <2>2. after[d] \in D
      BY <1>11, <2>1
    <2>3. after[d + 1] = Turn(d + 1, after[d])
      BY <1>9, <2>1
    <2> QED BY <1>6, <2>1, <2>2, <2>3
  <1>12. \A d \in 0 .. last : after[d] \in D
    <2>1. \A d \in Nat : d \in S
      <3> HIDE DEF S
      <3> QED BY <1>10, <1>11, SetInduction
    <2> HIDE DEF after, D
    <2>2. \A d \in 0 .. last : d \in Nat /\ d <= last
      BY <1>3
    <2> QED BY <2>1, <2>2
  <1>13. update_state(T, cmd, a) = after[last]
    BY DEF update_state, last
  <1>14. state' = after[last].state /\ row_state' = after[last].rows
    <2>1. state' = update_state(T, cmd, a).state /\ row_state' = update_state(T, cmd, a).rows
      BY DEF Issues, issue_cmd
    <2> HIDE DEF after
    <2> QED BY <1>13, <2>1
  <1>15. \A d \in 1 .. last : Turn(d, after[d - 1]) = TurnOf(T, cmd, a, d, after[d - 1])
    <2> HIDE DEF after
    <2> QED BY DEF TurnOf
  <1>16. /\ after[0] = first /\ \A d \in 1 .. last : after[d] = TurnOf(T, cmd, a, d, after[d - 1])
         /\ \A d \in 0 .. last : after[d] \in D
         /\ state' = after[last].state /\ row_state' = after[last].rows
    <2> HIDE DEF after, D, Turn, first
    <2> QED BY <1>9, <1>12, <1>14, <1>15
  <1> HIDE DEF after
  <1> QED BY <1>2, <1>16

LEMMA StateStep ==
    ASSUME TablesSound, Shape, Typed, NEW T \in Standard, NEW q, NEW cmd, NEW a, NEW t, Issues(T, q, cmd, a, t)
    PROVE  /\ state' \in [Node -> NodeState] /\ row_state' \in [Node -> SUBSET Int] /\ DOMAIN state' = Node
           /\ \A n \in Node : state'[n] \in States(T, Len(n) + 1) /\ IsFiniteSet(row_state'[n])
  <1>1. PICK after : /\ \A d \in 0 .. Depth(T, cmd) : after[d] \in Sound(T)
                     /\ state' = after[Depth(T, cmd)].state /\ row_state' = after[Depth(T, cmd)].rows
    BY StateTurns
  <1> DEFINE s == after[Depth(T, cmd)]
  <1>2. s \in Sound(T)
    <2>1. Depth(T, cmd) \in 1 .. Len(T.level) /\ Len(T.level) \in Nat
      BY DepthIs, StandardIsSound DEF Issues
    <2>2. Depth(T, cmd) \in 0 .. Depth(T, cmd)
      BY <2>1
    <2> QED BY <1>1, <2>2
  <1>3. /\ s.state \in [Node -> NodeState] /\ s.rows \in [Node -> SUBSET Int]
        /\ \A n \in Node : s.state[n] \in States(T, Len(n) + 1) /\ IsFiniteSet(s.rows[n])
    <2> HIDE DEF s
    <2> QED BY <1>2, SoundParts
  <1> HIDE DEF s
  <1> QED BY <1>1, <1>3 DEF s

-----------------------------------------------------------------------------
(* The channel keeps to its shape *)

\* Controller<TLDRAM>::tick: a migration needs no command that the read did not.
LEMMA ExtendedSound ==
    ASSUME TablesSound, Shape, NEW T \in Standard, NEW q \in queue
    PROVE  LET e == extended(T, q) IN
           /\ RequestSound(T, Node, e) /\ Addressable(T, Node, e.addr) /\ Needed(T, e) \subseteq Issuable(std)
  <1> DEFINE e == extended(T, q)
  <1>1. RequestSound(T, Node, q) /\ Addressable(T, Node, q.addr) /\ Needed(T, q) \subseteq Issuable(std)
    BY DEF Shape
  <1>2. CASE e = q
    BY <1>1, <1>2
  <1>3. CASE e # q
    <2>1. "EXTENSION" \in DOMAIN T.translate /\ e = [q EXCEPT !.type = "EXTENSION"]
      BY <1>3 DEF extended
    <2>2. q \in [type : DOMAIN T.translate, arrive : Nat, addr : Seq(Int)]
      BY <1>1 DEF RequestSound
    <2>3. e \in [type : DOMAIN T.translate, arrive : Nat, addr : Seq(Int)] /\ e.addr = q.addr /\ e.type = "EXTENSION"
      BY <2>1, <2>2
    <2>4. extended(T, e) = e
      BY <2>3 DEF extended
    <2> HIDE DEF e
    <2>5. Needed(T, e) \subseteq Needed(T, q)
      <3>1. Needed(T, q) = Needs(T, T.translate[q.type], q.addr) \cup Needs(T, T.translate[e.type], q.addr)
        BY DEF Needed, e
      <3>2. Needed(T, e) = Needs(T, T.translate[e.type], q.addr)
        BY <2>3, <2>4 DEF Needed
      <3> QED BY <3>1, <3>2
    <2>6. RequestSound(T, Node, e)
      <3> DEFINE N == Needed(T, e)
                 M == Needed(T, q)
                 l == q.addr
      <3>1. N \subseteq M
        BY <2>5
      <3>2. Len(l) = Len(T.level) /\ (\A c \in M : c \in T.command /\ Depth(T, c) \in Depths(l))
            /\ ("PRE_OTHER" \in M =>
                  /\ Len(l) > 2 /\ Len(l) \in Depths(l) /\ Front(Front(l)) \o << 0 >> \in Node
                  /\ "EXTENSION" \notin DOMAIN T.translate)
        BY <1>1 DEF RequestSound
      <3>3. (\A c \in N : c \in T.command /\ Depth(T, c) \in Depths(l))
            /\ ("PRE_OTHER" \in N =>
                  /\ Len(l) > 2 /\ Len(l) \in Depths(l) /\ Front(Front(l)) \o << 0 >> \in Node
                  /\ "EXTENSION" \notin DOMAIN T.translate)
        <4> HIDE DEF N, M, l
        <4> QED BY <3>1, <3>2
      <3>4. e.addr = l
        BY <2>3
      <3> QED BY <2>3, <3>2, <3>3, <3>4, Zenon DEF RequestSound
    <2>7. Addressable(T, Node, e.addr) /\ Needed(T, e) \subseteq Issuable(std)
      BY <1>1, <2>3, <2>5
    <2> QED BY <2>6, <2>7 DEF e
  <1> QED BY <1>2, <1>3

\* What a step leaves alone, and the channel after it.
LEMMA ShapeStep ==
    ASSUME TablesSound, Shape, Typed, NEW T \in Standard, NEW q \in queue, NEW cmd, NEW a, NEW t,
           Issues(T, q, cmd, a, t), slack' \in Nat
    PROVE  /\ std' = std /\ Standard' = Standard /\ Node' = Node /\ clk' = t
           /\ log' = Append(log, [cmd |-> cmd, addr |-> a, at |-> t])
           /\ Shape' /\ Typed'
  <1>1. /\ std' = std /\ clk' = t /\ log' = Append(log, [cmd |-> cmd, addr |-> a, at |-> t])
        /\ queue' = (queue \ {q}) \cup {x \in {extended(T, q)} : cmd # T.translate[x.type]}
    BY Zenon DEF Issues, issue_cmd
  <1>2. Standard' = Standard /\ \A x \in Standard : x = T
    BY <1>1 DEF Standard
  <1>3. /\ state' \in [Node -> NodeState] /\ row_state' \in [Node -> SUBSET Int] /\ DOMAIN state' = Node
        /\ \A n \in Node : state'[n] \in States(T, Len(n) + 1) /\ IsFiniteSet(row_state'[n])
    BY StateStep
  <1>4. Node' = Node
    BY <1>3 DEF Node
  <1>5. DOMAIN prev' = Node /\ next' = update_timing(T, cmd, a, t, prev')
    BY HistoryStep
  <1>6. DOMAIN next' = Node
    BY <1>5 DEF update_timing
  <1>7. ASSUME NEW x \in queue'
        PROVE  RequestSound(T, Node, x) /\ Addressable(T, Node, x.addr) /\ Needed(T, x) \subseteq Issuable(std)
    <2>1. x \in queue \/ x = extended(T, q)
      BY <1>1, <1>7
    <2>2. CASE x \in queue
      BY <2>2 DEF Shape
    <2>3. CASE x = extended(T, q)
      BY <2>3, ExtendedSound
    <2> QED BY <2>1, <2>2, <2>3
  <1>8. Shape'
    <2>1. std' \in DOMAIN Table /\ clk' \in Nat
      BY <1>1 DEF Shape, Issues
    <2>2. Node' \subseteq Seq(Nat) /\ DOMAIN next' = Node' /\ DOMAIN row_state' = Node' /\ DOMAIN prev' = Node'
      BY <1>3, <1>4, <1>5, <1>6 DEF Shape
    <2>3. \A n \in Node' : Len(n) + 1 \in Level(T)
      BY <1>4 DEF Shape
    <2>4. \A x \in queue' : RequestSound(T, Node', x) /\ Addressable(T, Node', x.addr) /\ Needed(T, x) \subseteq Issuable(std')
      BY <1>1, <1>4, <1>7
    <2> HIDE DEF RequestSound, Addressable
    <2> QED BY <1>2, <2>1, <2>2, <2>3, <2>4, Zenon DEF Shape
  <1>9. Typed'
    <2>1. ASSUME NEW n \in Node
          PROVE  /\ state'[n] \in States(T, Len(n) + 1) /\ IsFiniteSet(row_state'[n])
                 /\ next'[n] \in [T.command -> Int]
                 /\ DOMAIN prev'[n] = {e.from : e \in T.timing[Len(n) + 1].window}
                 /\ \A c \in DOMAIN prev'[n] : prev'[n][c] \in Seq(Int)
      BY <1>3, NextStep, TimesTyped, Zenon
    <2>2. state' \in [Node' -> NodeState] /\ row_state' \in [Node' -> SUBSET Int]
      BY <1>3, <1>4
    <2> QED BY <1>2, <1>4, <2>1, <2>2, Zenon DEF Typed
  <1> QED BY <1>1, <1>2, <1>4, <1>8, <1>9

\* What the constraints do not put off further than another command is not put off
\* further by a step.
LEMMA MilderStep ==
    ASSUME TablesSound, Shape, Typed, MildKept, NEW T \in Standard, NEW q \in queue, NEW cmd, NEW a, NEW t,
           Issues(T, q, cmd, a, t), NEW n \in Node, NEW m \in T.command, NEW c \in T.command, Milder(T, m, c)
    PROVE  next'[n][m] <= next'[n][c]
  <1> DEFINE rules == T.timing[Len(n) + 1]
             own == rules.own[cmd]
             sib == rules.sibling[cmd]
             new == next'[n]
             hist == prev'[n][cmd]
  <1>1. Len(n) + 1 \in Level(T) /\ t \in Int /\ cmd \in T.command
    BY DEF Shape, Issues
  <1>2. /\ NoLonger(own, m, c) /\ NoLonger(sib, m, c)
        /\ \A e \in rules.window : e.to = m =>
             \E f \in rules.window : f.to = c /\ f.from = e.from /\ f.dist = e.dist /\ f.val >= e.val
    BY <1>1, Zenon DEF Milder
  <1>3. /\ Numbers(own) /\ Numbers(sib) /\ Counted(rules.window, cmd, prev'[n])
    BY TimesTyped, Zenon
  <1>4. next[n][m] <= next[n][c] /\ next[n][m] \in Int /\ next[n][c] \in Int
    BY DEF MildKept, Typed
  <1>5. new[m] \in Int /\ new[c] \in Int
    <2>1. new \in [T.command -> Int]
      BY NextStep, Zenon
    <2> HIDE DEF new
    <2> QED BY <2>1
  <1>6. /\ next[n][c] <= new[c]
        /\ Target(n, a) /\ c \in DOMAIN own => t + own[c] <= new[c]
        /\ Beside(n, a) /\ c \in DOMAIN sib => t + sib[c] <= new[c]
        /\ Target(n, a) => \A e \in Due(rules.window, cmd, prev'[n], c) : hist[e.dist] + e.val <= new[c]
    BY NextStep, Zenon
  <1>7. \/ new[m] = next[n][m]
        \/ Target(n, a) /\ m \in DOMAIN own /\ new[m] = t + own[m]
        \/ Beside(n, a) /\ m \in DOMAIN sib /\ new[m] = t + sib[m]
        \/ Target(n, a) /\ \E e \in Due(rules.window, cmd, prev'[n], m) : new[m] = hist[e.dist] + e.val
    <2>1. Source(rules, n, cmd, a, t, m)
      BY NextStep, Zenon
    <2> QED BY <2>1, Zenon DEF Source
  <1> SUFFICES new[m] <= new[c]
    OBVIOUS
  <1> HIDE DEF own, sib, new
  <1>8. CASE new[m] = next[n][m]
    BY <1>4, <1>5, <1>6, <1>8
  <1>9. CASE Target(n, a) /\ m \in DOMAIN own /\ new[m] = t + own[m]
    <2>1. c \in DOMAIN own /\ own[m] <= own[c] /\ own[m] \in Int /\ own[c] \in Int
      BY <1>2, <1>3, <1>9 DEF NoLonger, Numbers
    <2> QED BY <1>1, <1>5, <1>6, <1>9, <2>1
  <1>10. CASE Beside(n, a) /\ m \in DOMAIN sib /\ new[m] = t + sib[m]
    <2>1. c \in DOMAIN sib /\ sib[m] <= sib[c] /\ sib[m] \in Int /\ sib[c] \in Int
      BY <1>2, <1>3, <1>10 DEF NoLonger, Numbers
    <2> QED BY <1>1, <1>5, <1>6, <1>10, <2>1
  <1>11. CASE Target(n, a) /\ \E e \in Due(rules.window, cmd, prev'[n], m) : new[m] = hist[e.dist] + e.val
    <2>1. PICK e \in Due(rules.window, cmd, prev'[n], m) : new[m] = hist[e.dist] + e.val
      BY <1>11
    <2>2. e \in rules.window /\ e.from = cmd /\ e.to = m /\ Len(hist) >= e.dist
      BY DEF Due
    <2>3. PICK f \in rules.window : f.to = c /\ f.from = e.from /\ f.dist = e.dist /\ f.val >= e.val
      BY <1>2, <2>2
    <2>4. f \in Due(rules.window, cmd, prev'[n], c)
      BY <2>2, <2>3 DEF Due
    <2>5. hist[e.dist] + f.val <= new[c]
      BY <1>6, <1>11, <2>3, <2>4
    <2>6. e.val \in Int /\ f.val \in Int /\ hist[e.dist] \in Int
      BY <1>3, <2>2, <2>3, Zenon DEF Counted
    <2> DEFINE h == hist[e.dist]
    <2> HIDE DEF h
    <2>7. new[m] = h + e.val /\ h + f.val <= new[c] /\ h \in Int
      BY <2>1, <2>5, <2>6 DEF h
    <2> QED BY <1>5, <2>3, <2>6, <2>7
  <1> QED BY <1>7, <1>8, <1>9, <1>10, <1>11

\* One rank means that all nodes below the channel are one.
OneRank == NoOtherRank(std) => \A n, m \in Node : Len(n) = 1 /\ Len(m) = 1 => n = m

\* The nodes that requests can reach.
LEMMA NodesReached ==
    ASSUME NEW name \in DOMAIN Table, TablesSound, NEW requests \in Workloads[name], NEW N, N = NodesOf(requests)
    PROVE  LET T == Table[name] IN
           /\ N \subseteq Seq(Nat)
           /\ \A n \in N : Len(n) + 1 \in Level(T)
           /\ \A q \in requests : RequestSound(T, N, q) /\ Addressable(T, N, q.addr) /\ Needed(T, q) \subseteq Issuable(name)
           /\ NoOtherRank(name) => \A n, m \in N : Len(n) = 1 /\ Len(m) = 1 => n = m
  <1> DEFINE T == Table[name]
             to(r) == {SubSeq(r.addr, 1, k) : k \in {k \in 0 .. Len(r.addr) - 1 : \A i \in 1 .. k : r.addr[i] >= 0}}
  <1>1. N = UNION {to(r) : r \in requests}
    BY DEF NodesOf
  <1>2. ASSUME NEW r \in requests
        PROVE  RequestSound(T, N, r) /\ r.addr \in Seq(Int) /\ Len(r.addr) = Len(T.level) /\ Len(T.level) \in Nat
    <2>1. RequestSound(T, N, r)
      BY <1>2 DEF TablesSound
    <2>2. r \in [type : DOMAIN T.translate, arrive : Nat, addr : Seq(Int)] /\ Len(r.addr) = Len(T.level)
      BY <2>1 DEF RequestSound
    <2>3. r.addr \in Seq(Int)
      BY <2>2
    <2>4. Len(r.addr) \in Nat
      BY <2>3
    <2> QED BY <2>1, <2>2, <2>3, <2>4
  <1>3. ASSUME NEW n \in N
        PROVE  \E r \in requests : /\ n \in Seq(Nat) /\ Len(n) \in 0 .. Len(r.addr) - 1
                                   /\ \A i \in 1 .. Len(n) : n[i] = r.addr[i]
    <2>1. PICK r \in requests : n \in to(r)
      BY <1>1
    <2>2. PICK k \in 0 .. Len(r.addr) - 1 : (\A i \in 1 .. k : r.addr[i] >= 0) /\ n = SubSeq(r.addr, 1, k)
      BY <2>1
    <2> DEFINE a == r.addr
    <2>3. a \in Seq(Int) /\ k \in Nat /\ k <= Len(a) /\ k <= Len(a) - 1
      BY <1>2, <2>2
    <2>4. n \in Seq(Int) /\ Len(n) = k /\ \A i \in 1 .. k : n[i] = a[i] /\ a[i] \in Int
      <3>1. n = SubSeq(a, 1, k)
        BY <2>2
      <3> HIDE DEF a
      <3>2. \A i \in 1 .. k : a[i] \in Int
        BY <2>3
      <3> QED BY <2>3, <3>1, <3>2, Starting
    <2> HIDE DEF a
    <2>5. \A i \in 1 .. k : n[i] \in Nat
      BY <2>2, <2>4 DEF a
    <2>6. n \in Seq(Nat)
      BY <2>4, <2>5
    <2> QED BY <2>2, <2>3, <2>4, <2>6 DEF a
  <1>4. N \subseteq Seq(Nat)
    BY <1>3
  <1>5. ASSUME NEW n \in N PROVE Len(n) + 1 \in Level(T)
    <2>1. PICK r \in requests : n \in Seq(Nat) /\ Len(n) \in 0 .. Len(r.addr) - 1
      BY <1>3
    <2>2. Len(r.addr) = Len(T.level) /\ Len(T.level) \in Nat
      BY <1>2
    <2> HIDE DEF T
    <2> QED BY <2>1, <2>2 DEF Level
  <1>6. ASSUME NEW q \in requests PROVE Addressable(T, N, q.addr)
    <2> DEFINE a == q.addr
    <2>1. a \in Seq(Int) /\ Len(a) = Len(T.level) /\ Len(a) \in Nat
      BY <1>2
    <2>2. ASSUME NEW d \in Depths(a) PROVE Path(a, d) \in N
      <3>1. d - 1 \in 0 .. Len(a) - 1 /\ \A i \in 1 .. d - 1 : a[i] >= 0
        BY <2>1 DEF Depths
      <3>2. Path(a, d) \in to(q)
        BY <3>1 DEF Path
      <3> HIDE DEF to, a
      <3> QED BY <1>1, <3>2
    <2> QED BY <2>1, <2>2 DEF Addressable
  <1>7. ASSUME NEW q \in requests PROVE Needed(T, q) \subseteq Issuable(name)
    <2>1. Issuable(name) = UNION {UNION {Needed(T, r) : r \in rs} : rs \in Workloads[name]}
      BY DEF Issuable
    <2> HIDE DEF T
    <2>2. Needed(T, q) \subseteq UNION {Needed(T, r) : r \in requests}
      OBVIOUS
    <2> QED BY <2>1, <2>2
  <1>8. ASSUME NoOtherRank(name), NEW n \in N, NEW m \in N, Len(n) = 1, Len(m) = 1 PROVE n = m
    <2>1. PICK r \in requests : n \in Seq(Nat) /\ \A i \in 1 .. Len(n) : n[i] = r.addr[i]
      BY <1>3
    <2>2. PICK s \in requests : m \in Seq(Nat) /\ \A i \in 1 .. Len(m) : m[i] = s.addr[i]
      BY <1>3
    <2>3. r.addr[1] = s.addr[1]
      BY <1>8 DEF NoOtherRank
    <2>4. n[1] = r.addr[1] /\ m[1] = s.addr[1]
      BY <1>8, <2>1, <2>2
    <2>5. \A i \in 1 .. 1 : n[i] = m[i]
      BY <2>3, <2>4
    <2> QED BY <1>8, <2>1, <2>2, <2>5, Same
  <1> QED BY <1>2, <1>4, <1>5, <1>6, <1>7, <1>8

LEMMA Initially ==
    ASSUME TablesSound, Slack \in Nat, Init
    PROVE  Shape /\ Typed /\ MildKept /\ OneRank
  <1> DEFINE T == Table[std]
             N == NodesOf(queue)
  <1>1. std \in DOMAIN Table /\ queue \in Workloads[std] /\ clk = 0 /\ slack = Slack
    BY DEF Init
  <1>2. /\ state = [n \in N |-> T.start[Len(n) + 1]]
        /\ row_state = [n \in N |-> {}]
        /\ next = [n \in N |-> [c \in T.command |-> -1]]
        /\ prev = [n \in N |-> [c \in {e.from : e \in T.timing[Len(n) + 1].window} |-> << >>]]
    BY DEF Init, Standard
  <1>3. Node = N /\ DOMAIN next = N /\ DOMAIN row_state = N /\ DOMAIN prev = N
    <2> HIDE DEF N, T
    <2> QED BY <1>2 DEF Node
  <1>4. /\ N \subseteq Seq(Nat)
        /\ \A n \in N : Len(n) + 1 \in Level(T)
        /\ \A q \in queue : RequestSound(T, N, q) /\ Addressable(T, N, q.addr) /\ Needed(T, q) \subseteq Issuable(std)
        /\ NoOtherRank(std) => \A n, m \in N : Len(n) = 1 /\ Len(m) = 1 => n = m
    BY <1>1, NodesReached, Zenon
  <1>5. Standard = {T}
    BY DEF Standard
  <1> HIDE DEF T, N
  <1>6. Shape
    BY <1>1, <1>3, <1>4, <1>5 DEF Shape
  <1>7. Typed
    <2>1. ASSUME NEW n \in N
          PROVE  /\ state[n] \in States(T, Len(n) + 1) /\ state[n] \in NodeState /\ IsFiniteSet(row_state[n])
                 /\ row_state[n] \in SUBSET Int /\ next[n] \in [T.command -> Int]
                 /\ DOMAIN prev[n] = {e.from : e \in T.timing[Len(n) + 1].window}
                 /\ \A c \in DOMAIN prev[n] : prev[n][c] \in Seq(Int)
      <3>1. state[n] = T.start[Len(n) + 1] /\ row_state[n] = {} /\ next[n] = [c \in T.command |-> -1]
        BY <1>2
      <3>2. T.start[Len(n) + 1] \in States(T, Len(n) + 1)
        BY DEF States
      <3>3. States(T, Len(n) + 1) \subseteq NodeState
        <4>1. Len(n) + 1 \in Level(T) /\ T \in Standard
          BY <1>4, <1>5
        <4>2. LevelSound(T, Len(n) + 1)
          BY <1>6, <4>1, StandardIsSound
        <4> QED BY <4>2, Zenon DEF LevelSound
      <3>4. IsFiniteSet({})
        BY FS_EmptySet
      <3> DEFINE froms == {e.from : e \in T.timing[Len(n) + 1].window}
      <3>5. prev[n] = [c \in froms |-> << >>]
        BY <1>2
      <3> HIDE DEF froms
      <3>6. DOMAIN prev[n] = froms /\ \A c \in DOMAIN prev[n] : prev[n][c] \in Seq(Int)
        BY <3>5
      <3> QED BY <3>1, <3>2, <3>3, <3>4, <3>6 DEF froms
    <2>2. state = [n \in N |-> state[n]] /\ row_state = [n \in N |-> row_state[n]]
      BY <1>2
    <2>3. state \in [N -> NodeState] /\ row_state \in [N -> SUBSET Int]
      BY <2>1, <2>2
    <2> QED BY <1>3, <1>5, <2>1, <2>3, Zenon DEF Typed
  <1>8. MildKept
    <2>1. \A n \in N : \A c \in T.command : next[n][c] = -1
      BY <1>2
    <2>2. -1 <= -1
      OBVIOUS
    <2> QED BY <1>3, <1>5, <2>1, <2>2 DEF MildKept
  <1>9. OneRank
    BY <1>3, <1>4, Zenon DEF OneRank
  <1> QED BY <1>6, <1>7, <1>8, <1>9

-----------------------------------------------------------------------------
(* The commands issued *)

\* Every command of the log was sent somewhere, and in a cycle of its own.
Entries(T) == [cmd : T.command, addr : Seq(Int), at : Nat]
Logged ==
    \A T \in Standard :
        /\ log \in Seq(Entries(T))
        /\ \A i \in 1 .. Len(log) :
             /\ log[i].cmd \in Issuable(std) /\ Addressable(T, Node, log[i].addr)
             /\ Depth(T, log[i].cmd) \in Depths(log[i].addr) /\ log[i].at <= clk
        /\ \A i, j \in 1 .. Len(log) : i < j => log[i].at < log[j].at

\* The times of next are those that the commands of the log have left.
Reminded(T, e, n, c) ==
    LET rules == T.timing[Len(n) + 1] IN
    /\ Target(n, e.addr) /\ c \in DOMAIN rules.own[e.cmd] => e.at + rules.own[e.cmd][c] <= next[n][c]
    /\ Beside(n, e.addr) /\ c \in DOMAIN rules.sibling[e.cmd] => e.at + rules.sibling[e.cmd][c] <= next[n][c]
Remembered ==
    \A T \in Standard : \A i \in 1 .. Len(log) : \A n \in Node : \A c \in T.command : Reminded(T, log[i], n, c)

\* No command comes before the time that an earlier one has left at a node on its way.
Apart(T, e, f) ==
    \A d \in Depths(f.addr) : d <= T.scope[f.cmd] =>
        LET n == Path(f.addr, d)
            rules == T.timing[d] IN
        /\ Target(n, e.addr) /\ f.cmd \in DOMAIN rules.own[e.cmd] => e.at + rules.own[e.cmd][f.cmd] <= f.at
        /\ Beside(n, e.addr) /\ f.cmd \in DOMAIN rules.sibling[e.cmd] => e.at + rules.sibling[e.cmd][f.cmd] <= f.at
ConstraintsKept ==
    \A T \in Standard : \A i, j \in 1 .. Len(log) : i < j => Apart(T, log[i], log[j])

\* What a step adds to the log.
Grown(T, e) ==
    /\ Len(log) \in Nat /\ Len(log') = Len(log) + 1 /\ log'[Len(log) + 1] = e /\ e \in Entries(T)
    /\ \A i \in 1 .. Len(log) : log'[i] = log[i] /\ log[i] \in Entries(T)
LEMMA LogStep ==
    ASSUME TablesSound, Shape, Typed, Logged, NEW T \in Standard, NEW q \in queue, NEW cmd, NEW a, NEW t,
           Issues(T, q, cmd, a, t), slack' \in Nat
    PROVE  Grown(T, [cmd |-> cmd, addr |-> a, at |-> t]) /\ Logged' /\ Standard' = Standard /\ Node' = Node
  <1> DEFINE l == Len(log)
             e == [cmd |-> cmd, addr |-> a, at |-> t]
             E == Entries(T)
  <1>1. log' = Append(log, e) /\ std' = std /\ Standard' = Standard /\ Node' = Node /\ clk' = t
    BY ShapeStep, Zenon
  <1>2. e \in E
    BY DEF Issues, Addressable, Entries
  <1>3. log \in Seq(E) /\ l \in Nat
    BY DEF Logged
  <1>4. /\ Len(log') = l + 1 /\ log'[l + 1] = e /\ log' \in Seq(E)
        /\ \A i \in 1 .. l : log'[i] = log[i] /\ log[i] \in E
    <2> HIDE DEF e, E
    <2> QED BY <1>1, <1>2, <1>3
  <1>5. e.cmd = cmd /\ e.addr = a /\ e.at = t
    OBVIOUS
  <1> HIDE DEF e, E, l
  <1>6. \A i \in 1 .. l + 1 : i = l + 1 \/ i \in 1 .. l
    BY <1>3
  <1>7. t \in Nat /\ t > clk /\ clk \in Nat
    BY DEF Issues, Shape
  <1>8. \A i \in 1 .. l : log[i].at \in Nat /\ log[i].at <= clk /\ log[i].at < t
    <2>1. \A i \in 1 .. l : log[i].at \in Nat
      BY <1>4 DEF E, Entries
    <2>2. \A i \in 1 .. l : log[i].at <= clk
      BY DEF Logged, l
    <2> QED BY <1>7, <2>1, <2>2
  <1>9. ASSUME NEW i \in 1 .. l + 1
        PROVE  /\ log'[i].cmd \in Issuable(std) /\ Addressable(T, Node, log'[i].addr)
               /\ Depth(T, log'[i].cmd) \in Depths(log'[i].addr) /\ log'[i].at <= t
    <2>1. CASE i = l + 1
      <3>1. cmd \in Issuable(std) /\ Addressable(T, Node, a) /\ Depth(T, cmd) \in Depths(a) /\ t <= t
        BY <1>7 DEF Issues
      <3> QED BY <1>4, <1>5, <2>1, <3>1
    <2>2. CASE i \in 1 .. l
      <3>1. /\ log[i].cmd \in Issuable(std) /\ Addressable(T, Node, log[i].addr)
            /\ Depth(T, log[i].cmd) \in Depths(log[i].addr)
        BY <2>2 DEF Logged, l
      <3>2. log[i].at <= t
        BY <1>7, <1>8, <2>2
      <3> QED BY <1>4, <2>2, <3>1, <3>2
    <2> QED BY <1>6, <2>1, <2>2
  <1>10. ASSUME NEW i \in 1 .. l + 1, NEW j \in 1 .. l + 1, i < j PROVE log'[i].at < log'[j].at
    <2>1. i \in 1 .. l
      BY <1>3, <1>10
    <2>2. CASE j = l + 1
      BY <1>4, <1>5, <1>8, <2>1, <2>2
    <2>3. CASE j \in 1 .. l
      BY <1>4, <1>10, <2>1, <2>3 DEF Logged, l
    <2> QED BY <1>6, <2>2, <2>3
  <1>11. \A x \in Standard : x = T
    BY DEF Standard
  <1>12. Logged'
    BY <1>1, <1>4, <1>9, <1>10, <1>11, Zenon DEF Logged, E
  <1> QED BY <1>1, <1>2, <1>3, <1>4, <1>12 DEF l, e, E, Grown

LEMMA RememberedStep ==
    ASSUME TablesSound, Shape, Typed, Logged, Remembered, NEW T \in Standard, NEW q \in queue, NEW cmd, NEW a, NEW t,
           Issues(T, q, cmd, a, t), slack' \in Nat
    PROVE  Remembered'
  <1> DEFINE l == Len(log)
             e == [cmd |-> cmd, addr |-> a, at |-> t]
  <1>1. /\ l \in Nat /\ Len(log') = l + 1 /\ log'[l + 1] = e
        /\ \A i \in 1 .. l : log'[i] = log[i] /\ log[i] \in Entries(T)
        /\ Standard' = Standard /\ Node' = Node
    <2>1. Grown(T, e) /\ Standard' = Standard /\ Node' = Node
      BY LogStep
    <2> HIDE DEF e
    <2> QED BY <2>1 DEF Grown
  <1>2. e.cmd = cmd /\ e.addr = a /\ e.at = t
    OBVIOUS
  <1> HIDE DEF e, l
  <1>3. \A i \in 1 .. l + 1 : i = l + 1 \/ i \in 1 .. l
    BY <1>1
  <1>4. ASSUME NEW i \in 1 .. l + 1, NEW n \in Node, NEW c \in T.command
        PROVE  LET rules == T.timing[Len(n) + 1]
                   f == log'[i] IN
               /\ Target(n, f.addr) /\ c \in DOMAIN rules.own[f.cmd] => f.at + rules.own[f.cmd][c] <= next'[n][c]
               /\ Beside(n, f.addr) /\ c \in DOMAIN rules.sibling[f.cmd] => f.at + rules.sibling[f.cmd][c] <= next'[n][c]
    <2> DEFINE rules == T.timing[Len(n) + 1]
               x == next[n][c]
               y == next'[n][c]
    <2>1. /\ x <= y
          /\ Target(n, a) /\ c \in DOMAIN rules.own[cmd] => t + rules.own[cmd][c] <= y
          /\ Beside(n, a) /\ c \in DOMAIN rules.sibling[cmd] => t + rules.sibling[cmd][c] <= y
      BY NextStep, Zenon
    <2>2. CASE i = l + 1
      BY <1>1, <1>2, <2>1, <2>2
    <2>3. CASE i \in 1 .. l
      <3> DEFINE f == log[i]
                 o == rules.own[f.cmd]
                 s == rules.sibling[f.cmd]
      <3>1. /\ Target(n, f.addr) /\ c \in DOMAIN o => f.at + o[c] <= x
            /\ Beside(n, f.addr) /\ c \in DOMAIN s => f.at + s[c] <= x
        BY <2>3, Zenon DEF Remembered, Reminded, l
      <3>2. x \in Int /\ y \in Int
        <4>1. next[n] \in [T.command -> Int] /\ next'[n] \in [T.command -> Int]
          BY NextStep, Zenon DEF Typed
        <4> QED BY <4>1
      <3>3. f.cmd \in T.command /\ f.at \in Nat
        BY <1>1, <2>3 DEF Entries
      <3>4. Numbers(o) /\ Numbers(s)
        <4>1. Len(n) + 1 \in Level(T)
          BY DEF Shape
        <4>2. TimingSound(rules, T.command)
          <5>1. LevelSound(T, Len(n) + 1)
            BY <4>1, StandardIsSound
          <5> QED BY <5>1, Zenon DEF LevelSound
        <4> HIDE DEF rules, f
        <4> QED BY <3>3, <4>2 DEF TimingSound, Numbers
      <3>5. log'[i] = f
        BY <1>1, <2>3
      <3> HIDE DEF f, o, s, x, y
      <3>6. Target(n, f.addr) /\ c \in DOMAIN o => f.at + o[c] <= y
        BY <2>1, <3>1, <3>2, <3>3, <3>4 DEF Numbers
      <3>7. Beside(n, f.addr) /\ c \in DOMAIN s => f.at + s[c] <= y
        BY <2>1, <3>1, <3>2, <3>3, <3>4 DEF Numbers
      <3> QED BY <3>5, <3>6, <3>7, Zenon DEF o, s, y
    <2> QED BY <1>3, <2>2, <2>3
  <1>5. \A x \in Standard : x = T
    BY DEF Standard
  <1>6. ASSUME NEW i \in 1 .. l + 1, NEW n \in Node, NEW c \in T.command PROVE Reminded(T, log[i], n, c)'
    BY <1>4, Zenon DEF Reminded
  <1>7. \A U \in Standard' : \A i \in 1 .. Len(log') : \A n \in Node' : \A c \in U.command : Reminded(U, log[i], n, c)'
    BY <1>1, <1>5, <1>6, Zenon
  <1> QED BY <1>7, Zenon DEF Remembered

LEMMA ApartStep ==
    ASSUME TablesSound, Shape, Typed, Logged, Remembered, ConstraintsKept, NEW T \in Standard, NEW q \in queue,
           NEW cmd, NEW a, NEW t, Issues(T, q, cmd, a, t), slack' \in Nat
    PROVE  ConstraintsKept'
  <1> DEFINE l == Len(log)
             e == [cmd |-> cmd, addr |-> a, at |-> t]
  <1>1. /\ l \in Nat /\ Len(log') = l + 1 /\ log'[l + 1] = e
        /\ \A i \in 1 .. l : log'[i] = log[i] /\ log[i] \in Entries(T)
        /\ Standard' = Standard /\ Node' = Node
    <2>1. Grown(T, e) /\ Standard' = Standard /\ Node' = Node
      BY LogStep
    <2> HIDE DEF e
    <2> QED BY <2>1 DEF Grown
  <1>2. e.cmd = cmd /\ e.addr = a /\ e.at = t
    OBVIOUS
  <1> HIDE DEF e, l
  <1>3. ASSUME NEW i \in 1 .. l PROVE Apart(T, log[i], e)
    <2> DEFINE f == log[i]
    <2>1. f \in Entries(T)
      BY <1>1
    <2>2. f.cmd \in T.command /\ f.at \in Nat
      BY <2>1 DEF Entries
    <2> SUFFICES ASSUME NEW d \in Depths(a), d <= T.scope[cmd]
                 PROVE  LET n == Path(a, d)
                            rules == T.timing[d] IN
                        /\ Target(n, f.addr) /\ cmd \in DOMAIN rules.own[f.cmd] => f.at + rules.own[f.cmd][cmd] <= t
                        /\ Beside(n, f.addr) /\ cmd \in DOMAIN rules.sibling[f.cmd] => f.at + rules.sibling[f.cmd][cmd] <= t
      BY <1>2, Zenon DEF Apart
    <2> DEFINE n == Path(a, d)
               o == T.timing[d].own[f.cmd]
               s == T.timing[d].sibling[f.cmd]
               x == next[n][cmd]
    <2>3. a \in Seq(Int) /\ Len(a) = Len(T.level) /\ n \in Node /\ cmd \in T.command /\ t \in Nat /\ x <= t
      BY DEF Issues, Addressable
    <2>4. Len(a) > 0
      BY <2>3, StandardIsSound
    <2>5. d \in 1 .. Len(a) /\ Len(n) = d - 1
      BY <2>3, <2>4, Paths
    <2>6. Len(n) + 1 = d /\ d \in Level(T)
      BY <2>3, <2>5 DEF Level
    <2>7. Reminded(T, f, n, cmd)
      BY <2>3, Zenon DEF Remembered, l
    <2>8. /\ Target(n, f.addr) /\ cmd \in DOMAIN o => f.at + o[cmd] <= x
          /\ Beside(n, f.addr) /\ cmd \in DOMAIN s => f.at + s[cmd] <= x
      BY <2>6, <2>7, Zenon DEF Reminded
    <2>9. x \in Int
      <3>1. next[n] \in [T.command -> Int]
        BY <2>3 DEF Typed
      <3> HIDE DEF n
      <3> QED BY <2>3, <3>1
    <2>10. Numbers(o) /\ Numbers(s)
      <3>1. TimingSound(T.timing[d], T.command)
        <4>1. LevelSound(T, d)
          BY <2>6, StandardIsSound
        <4> QED BY <4>1, Zenon DEF LevelSound
      <3> HIDE DEF f
      <3> QED BY <2>2, <3>1 DEF TimingSound, Numbers
    <2> HIDE DEF f, o, s, x, n
    <2>11. Target(n, f.addr) /\ cmd \in DOMAIN o => f.at + o[cmd] <= t
      BY <2>2, <2>3, <2>8, <2>9, <2>10 DEF Numbers
    <2>12. Beside(n, f.addr) /\ cmd \in DOMAIN s => f.at + s[cmd] <= t
      BY <2>2, <2>3, <2>8, <2>9, <2>10 DEF Numbers
    <2> QED BY <2>11, <2>12, Zenon DEF o, s, n
  <1>4. ASSUME NEW i \in 1 .. l + 1, NEW j \in 1 .. l + 1, i < j PROVE Apart(T, log'[i], log'[j])
    <2>1. i \in 1 .. l
      BY <1>1, <1>4
    <2>2. CASE j = l + 1
      BY <1>1, <1>3, <2>1, <2>2
    <2>3. CASE j # l + 1
      <3>1. j \in 1 .. l
        BY <1>1, <2>3
      <3>2. Apart(T, log[i], log[j])
        BY <1>4, <2>1, <3>1, Zenon DEF ConstraintsKept, l
      <3> QED BY <1>1, <2>1, <3>1, <3>2
    <2> QED BY <2>2, <2>3
  <1>5. \A x \in Standard : x = T
    BY DEF Standard
  <1> QED BY <1>1, <1>4, <1>5, Zenon DEF ConstraintsKept

-----------------------------------------------------------------------------
(* What the constraints kept say about the log *)

\* A command of the log went as deep as it reaches.
LEMMA LogEntry ==
    ASSUME TablesSound, Shape, Logged, NEW T \in Standard, NEW i \in 1 .. Len(log)
    PROVE  LET e == log[i] IN
           /\ e.cmd \in T.command /\ e.cmd \in Issuable(std) /\ e.at \in Nat /\ e.addr \in Seq(Int)
           /\ Len(e.addr) = Len(T.level) /\ Len(T.level) \in Nat /\ Len(e.addr) > 1
           /\ \A d \in Depths(e.addr) : d \in 1 .. Len(e.addr) /\ Path(e.addr, d) \in Node /\ Len(Path(e.addr, d)) = d - 1
           /\ Depth(T, e.cmd) \in Depths(e.addr) /\ Depth(T, e.cmd) <= T.scope[e.cmd] /\ T.scope[e.cmd] \in Nat
           /\ Depth(T, e.cmd) = T.scope[e.cmd] \/ Depth(T, e.cmd) = Len(T.level)
           /\ \A d \in 1 .. Depth(T, e.cmd) : d \in Depths(e.addr)
  <1> DEFINE e == log[i]
  <1>1. e \in Entries(T) /\ e.cmd \in Issuable(std) /\ Addressable(T, Node, e.addr) /\ Depth(T, e.cmd) \in Depths(e.addr)
    BY DEF Logged
  <1>2. e.cmd \in T.command /\ e.at \in Nat /\ e.addr \in Seq(Int)
    BY <1>1 DEF Entries
  <1> HIDE DEF e
  <1>3. Len(e.addr) = Len(T.level) /\ Len(T.level) \in Nat /\ Len(e.addr) > 1
    BY <1>1, StandardIsSound DEF Addressable
  <1>4. /\ Depth(T, e.cmd) <= T.scope[e.cmd] /\ T.scope[e.cmd] \in Nat /\ Depth(T, e.cmd) \in Nat
        /\ Depth(T, e.cmd) = T.scope[e.cmd] \/ Depth(T, e.cmd) = Len(T.level)
    BY <1>2, <1>3, DepthIs
  <1>5. \A d \in Depths(e.addr) : d \in 1 .. Len(e.addr) /\ Path(e.addr, d) \in Node /\ Len(Path(e.addr, d)) = d - 1
    BY <1>1, <1>2, <1>3, Paths DEF Addressable
  <1>6. \A d \in 1 .. Depth(T, e.cmd) : d \in Depths(e.addr)
    BY <1>1, <1>2, <1>3, Paths
  <1> QED BY <1>1, <1>2, <1>3, <1>4, <1>5, <1>6 DEF e

\* The data of two accesses: the constraints of the channel, or those of the rank
\* and between ranks, keep them off the bus at the same time.
LEMMA BusLemma ==
    ASSUME TablesSound, Shape, Typed, OneRank, Logged, ConstraintsKept PROVE DataBusExclusive
  <1> SUFFICES ASSUME NEW T \in Standard, NEW i \in 1 .. Len(log), NEW j \in 1 .. Len(log),
                      IsAccess(T, log[i]), IsAccess(T, log[j]), i < j
               PROVE  LET start(e) == e.at + IF IsWrite(e) THEN T.promise.writeAt ELSE T.promise.readAt IN
                      start(log[i]) + T.promise.bl <= start(log[j])
    BY Zenon DEF DataBusExclusive
  <1> DEFINE e == log[i]
             f == log[j]
             c == e.cmd
             b == f.cmd
             from == DataAt(T, c)
             to == DataAt(T, b)
             bl == T.promise.bl
  <1>1. /\ c \in T.command /\ e.at \in Nat /\ e.addr \in Seq(Int) /\ Len(e.addr) > 1
        /\ Depth(T, c) \in Depths(e.addr) /\ \A d \in 1 .. Depth(T, c) : d \in Depths(e.addr)
        /\ Depth(T, c) <= T.scope[c] /\ T.scope[c] \in Nat
        /\ Depth(T, c) = T.scope[c] \/ Depth(T, c) = Len(T.level)
        /\ \A d \in Depths(e.addr) : Path(e.addr, d) \in Node /\ Len(Path(e.addr, d)) = d - 1
    BY LogEntry, Zenon
  <1>2. /\ b \in T.command /\ f.at \in Nat /\ f.addr \in Seq(Int) /\ Len(f.addr) > 1
        /\ Depth(T, b) \in Depths(f.addr) /\ \A d \in 1 .. Depth(T, b) : d \in Depths(f.addr)
        /\ Depth(T, b) <= T.scope[b] /\ T.scope[b] \in Nat
        /\ Depth(T, b) = T.scope[b] \/ Depth(T, b) = Len(T.level)
        /\ \A d \in Depths(f.addr) : Path(f.addr, d) \in Node /\ Len(Path(f.addr, d)) = d - 1
    BY LogEntry, Zenon
  <1>3. bl \in Nat /\ from \in Nat /\ to \in Nat /\ T.scope[b] > 1 /\ T.scope[c] > 1
        /\ \/ Clears(T, T.timing[1].own, c, b)
           \/ /\ Clears(T, T.timing[2].own, c, b)
              /\ Clears(T, T.timing[2].sibling, c, b) \/ NoOtherRank(std)
    <2>1. BusSound(std, T) /\ c \in T.accessing /\ b \in T.accessing
      BY StandardIsSound DEF IsAccess
    <2> HIDE DEF c, b
    <2> QED BY <2>1 DEF BusSound, DataAt
  <1>4. Apart(T, e, f)
    BY Zenon DEF ConstraintsKept
  <1>5. Len(T.level) > 1 /\ Len(T.level) \in Nat
    BY StandardIsSound
  <1>6. 1 \in Depths(f.addr) /\ 2 \in Depths(f.addr) /\ 2 \in Depths(e.addr) /\ 1 <= T.scope[b] /\ 2 <= T.scope[b]
    <2>1. Depth(T, b) \in Nat /\ Depth(T, b) >= 2 /\ Depth(T, c) \in Nat /\ Depth(T, c) >= 2
      <3>1. \A x, s : s \in Nat /\ s > 1 /\ (x = s \/ x = Len(T.level)) => x \in Nat /\ x >= 2
        BY <1>5
      <3> QED BY <1>1, <1>2, <1>3, <3>1, Zenon
    <2>2. 1 \in 1 .. Depth(T, b) /\ 2 \in 1 .. Depth(T, b) /\ 2 \in 1 .. Depth(T, c)
      <3> HIDE DEF b, c
      <3> QED BY <2>1
    <2>3. 1 <= T.scope[b] /\ 2 <= T.scope[b]
      <3>1. T.scope[b] \in Nat /\ T.scope[b] > 1
        BY <1>2, <1>3
      <3>2. \A x : x \in Nat /\ x > 1 => 1 <= x /\ 2 <= x
        OBVIOUS
      <3> QED BY <3>1, <3>2, Zenon
    <2> QED BY <1>1, <1>2, <2>2, <2>3
  <1>7. \A w : w \in Int /\ w + to >= from + bl /\ e.at + w <= f.at => e.at + from + bl <= f.at + to
    <2>1. e.at \in Nat /\ f.at \in Nat /\ bl \in Nat /\ from \in Nat /\ to \in Nat
      BY <1>1, <1>2, <1>3
    <2> HIDE DEF from, to, bl, e, f
    <2>2. \A at, bt, u, v, x \in Nat, w \in Int : w + x >= v + u /\ at + w <= bt => at + v + u <= bt + x
      OBVIOUS
    <2> QED BY <2>1, <2>2
  <1>8. SUFFICES e.at + from + bl <= f.at + to
    <2>1. from = IF IsWrite(e) THEN T.promise.writeAt ELSE T.promise.readAt
      BY DEF DataAt, IsWrite
    <2>2. to = IF IsWrite(f) THEN T.promise.writeAt ELSE T.promise.readAt
      BY DEF DataAt, IsWrite
    <2> HIDE DEF from, to, e, f
    <2> QED BY <2>1, <2>2 DEF e, f
  <1>9. ASSUME NEW d \in {1, 2}
        PROVE  /\ Numbers(T.timing[d].own[c]) /\ Numbers(T.timing[d].sibling[c])
    <2>1. d \in Level(T)
      BY <1>5 DEF Level
    <2>2. LevelSound(T, d)
      BY <2>1, StandardIsSound
    <2>3. TimingSound(T.timing[d], T.command)
      BY <2>2, Zenon DEF LevelSound
    <2> HIDE DEF c
    <2> QED BY <1>1, <2>3 DEF TimingSound, Numbers
  <1> DEFINE m == Path(f.addr, 1)
             n == Path(f.addr, 2)
             p == Path(e.addr, 2)
  <1>10. Len(m) = 0 /\ m = <<>> /\ Len(n) = 1 /\ n \in Node /\ n \in Seq(Nat) /\ Len(p) = 1 /\ p \in Node
    <2>1. Len(m) = 0 /\ m \in Node /\ Len(n) = 1 /\ n \in Node /\ Len(p) = 1 /\ p \in Node
      <3>1. 1 - 1 = 0 /\ 2 - 1 = 1
        OBVIOUS
      <3>2. m \in Node /\ Len(m) = 1 - 1 /\ n \in Node /\ Len(n) = 2 - 1 /\ p \in Node /\ Len(p) = 2 - 1
        BY <1>1, <1>2, <1>6, Zenon
      <3> HIDE DEF m, n, p
      <3> QED BY <3>1, <3>2
    <2> HIDE DEF m, n, p
    <2>2. m \in Seq(Nat) /\ n \in Seq(Nat)
      BY <2>1 DEF Shape
    <2> QED BY <2>1, <2>2
  <1>11. Target(<<>>, e.addr)
    <2>1. SubSeq(e.addr, 1, 0) = <<>>
      BY <1>1
    <2> QED BY <2>1 DEF Target
  <1>12. /\ Target(m, e.addr) /\ b \in DOMAIN T.timing[1].own[c] => e.at + T.timing[1].own[c][b] <= f.at
         /\ Target(n, e.addr) /\ b \in DOMAIN T.timing[2].own[c] => e.at + T.timing[2].own[c][b] <= f.at
         /\ Beside(n, e.addr) /\ b \in DOMAIN T.timing[2].sibling[c] => e.at + T.timing[2].sibling[c][b] <= f.at
    BY <1>4, <1>6, Zenon DEF Apart
  <1> HIDE DEF m, n, p, b, c, e, f, from, to
  <1>13. CASE Clears(T, T.timing[1].own, c, b)
    <2>1. b \in DOMAIN T.timing[1].own[c] /\ T.timing[1].own[c][b] + to >= from + bl
      BY <1>13 DEF Clears, from, to
    <2>2. T.timing[1].own[c][b] \in Int
      BY <1>9, <2>1 DEF Numbers
    <2> QED BY <1>7, <1>10, <1>11, <1>12, <2>1, <2>2
  <1>14. CASE Clears(T, T.timing[2].own, c, b) /\ Target(n, e.addr)
    <2>1. b \in DOMAIN T.timing[2].own[c] /\ T.timing[2].own[c][b] + to >= from + bl
      BY <1>14 DEF Clears, from, to
    <2>2. T.timing[2].own[c][b] \in Int
      BY <1>9, <2>1 DEF Numbers
    <2> QED BY <1>7, <1>12, <1>14, <2>1, <2>2
  <1>15. CASE Clears(T, T.timing[2].sibling, c, b) /\ ~Target(n, e.addr)
    <2>1. b \in DOMAIN T.timing[2].sibling[c] /\ T.timing[2].sibling[c][b] + to >= from + bl
      BY <1>15 DEF Clears, from, to
    <2>2. T.timing[2].sibling[c][b] \in Int
      BY <1>9, <2>1 DEF Numbers
    <2>3. Path(n, Len(n)) = <<>>
      <3>1. SubSeq(n, 1, 0) = <<>>
        BY <1>10
      <3>2. Len(n) - 1 = 0
        BY <1>10
      <3> QED BY <3>1, <3>2 DEF Path
    <2>4. Beside(n, e.addr)
      BY <1>11, <1>15, <2>3 DEF Beside
    <2> QED BY <1>7, <1>12, <2>1, <2>2, <2>4
  <1>16. NoOtherRank(std) => Target(n, e.addr)
    <2> SUFFICES ASSUME NoOtherRank(std) PROVE Target(n, e.addr)
      OBVIOUS
    <2>1. n = p
      BY <1>10 DEF OneRank
    <2>2. 2 - 1 = 1
      OBVIOUS
    <2> QED BY <1>10, <2>1, <2>2 DEF Target, p, Path
  <1> QED BY <1>3, <1>13, <1>14, <1>15, <1>16

\* A command ends at the node its depth gives.
LEMMA EndsAt ==
    ASSUME TablesSound, Shape, Logged, NEW T \in Standard, NEW i \in 1 .. Len(log)
    PROVE  Ends(T, log[i]) = Path(log[i].addr, Depth(T, log[i].cmd))
  <1> DEFINE e == log[i]
             D == Depths(e.addr)
             s == T.scope[e.cmd]
             x == Depth(T, e.cmd)
             Furthest(d) == d \in D /\ d <= s /\ \A k \in D : k <= s => k <= d
  <1>1. /\ x \in D /\ x <= s /\ s \in Nat /\ (x = s \/ x = Len(T.level))
        /\ (\A d \in D : d \in 1 .. Len(e.addr)) /\ Len(e.addr) = Len(T.level) /\ Len(T.level) \in Nat
    BY LogEntry, Zenon
  <1> HIDE DEF D, s, x, e
  <1>2. Furthest(x)
    BY <1>1
  <1>3. \A d : Furthest(d) => d = x
    BY <1>1
  <1>4. (CHOOSE d \in D : d <= s /\ \A k \in D : k <= s => k <= d) = x
    BY <1>2, <1>3
  <1> QED BY <1>4 DEF Ends, Deepest, D, s, x, e

\* Two commands that end above the same row buffer: the later one waits for the
\* earlier one at every level that both reach.
LEMMA Waited ==
    ASSUME TablesSound, Shape, Typed, Logged, ConstraintsKept, NEW T \in Standard, NEW b \in Leaf(T), NEW v,
           NEW k \in 1 .. Len(log), NEW j \in 1 .. Len(log), k < j,
           Covers(Ends(T, log[k]), b), Covers(Ends(T, log[j]), b), Waits(T, log[k].cmd, log[j].cmd, v)
    PROVE  log[j].at - log[k].at >= v
  <1> DEFINE e == log[k]
             f == log[j]
             x == Depth(T, e.cmd)
             y == Depth(T, f.cmd)
  <1>1. /\ e.cmd \in T.command /\ e.at \in Nat /\ e.addr \in Seq(Int) /\ Len(e.addr) > 0 /\ x \in Depths(e.addr)
    BY LogEntry
  <1>2. /\ f.cmd \in T.command /\ f.at \in Nat /\ f.addr \in Seq(Int) /\ Len(f.addr) > 0 /\ y \in Depths(f.addr)
        /\ y <= T.scope[f.cmd] /\ T.scope[f.cmd] \in Nat
    BY LogEntry
  <1>3. Covers(Path(e.addr, x), b) /\ Covers(Path(f.addr, y), b)
    BY EndsAt
  <1>4. b \in Seq(Nat)
    BY DEF Leaf, Shape
  <1>5. Apart(T, e, f) /\ Waits(T, e.cmd, f.cmd, v)
    BY Zenon DEF ConstraintsKept
  <1> HIDE DEF e, f
  <1>6. PICK d \in 1 .. Min({x, y}) : f.cmd \in DOMAIN T.timing[d].own[e.cmd] /\ T.timing[d].own[e.cmd][f.cmd] >= v
    BY <1>5 DEF Waits
  <1>7. v \in Nat
    BY <1>5 DEF Waits
  <1>8. x \in Nat /\ y \in Nat /\ x <= Len(e.addr) /\ y <= Len(f.addr) /\ Len(e.addr) \in Nat /\ Len(f.addr) \in Nat
    <2>1. x \in 1 .. Len(e.addr) /\ y \in 1 .. Len(f.addr)
      BY <1>1, <1>2 DEF Depths
    <2>2. \A a \in Seq(Int) : Len(a) \in Nat
      OBVIOUS
    <2>3. Len(e.addr) \in Nat /\ Len(f.addr) \in Nat
      BY <1>1, <1>2, <2>2, Zenon
    <2> HIDE DEF x, y
    <2> QED BY <2>1, <2>3
  <1> HIDE DEF x, y
  <1>9. d \in Nat /\ d >= 1 /\ d <= x /\ d <= y
    <2>1. Min({x, y}) <= x /\ Min({x, y}) <= y /\ Min({x, y}) \in Int
      <3>1. x \in Int /\ y \in Int
        BY <1>8
      <3> QED BY <3>1, TwoExtremes, Zenon
    <2> QED BY <1>6, <1>8, <2>1
  <1>10. d \in Depths(f.addr) /\ d \in Depths(e.addr) /\ d <= T.scope[f.cmd]
    <2>1. d \in 1 .. x /\ d \in 1 .. y
      BY <1>8, <1>9
    <2>2. d \in Depths(f.addr) /\ d \in Depths(e.addr)
      BY <1>1, <1>2, <2>1, Paths
    <2>3. \A z \in Nat : y <= z => d <= z
      BY <1>8, <1>9
    <2> QED BY <1>2, <2>2, <2>3
  <1> DEFINE n == Path(f.addr, d)
             o == Path(e.addr, d)
             l == d - 1
  <1>11. \A i \in 1 .. l : e.addr[i] = b[i] /\ f.addr[i] = b[i]
    <2>1. ASSUME NEW a \in Seq(Int), Len(a) > 0, NEW z \in Depths(a), z \in Nat, d <= z, Covers(Path(a, z), b), NEW i \in 1 .. l
          PROVE  a[i] = b[i]
      <3> DEFINE p == Path(a, z)
      <3>1. p \in Seq(Int) /\ Len(p) = z - 1 /\ \A h \in 1 .. z - 1 : p[h] = a[h]
        BY <2>1, Paths
      <3> HIDE DEF p
      <3>2. Len(p) <= Len(b) /\ p = SubSeq(b, 1, Len(p))
        BY <2>1 DEF Covers, p
      <3>3. i \in 1 .. z - 1
        BY <1>9, <2>1
      <3>4. Len(p) \in Nat /\ \A h \in 1 .. Len(p) : SubSeq(b, 1, Len(p))[h] = b[h]
        BY <1>4, <3>1, <3>2, Starting
      <3> QED BY <3>1, <3>2, <3>3, <3>4
    <2> QED BY <1>1, <1>2, <1>3, <1>8, <1>9, <2>1
  <1>12. n \in Seq(Int) /\ Len(n) = l /\ \A i \in 1 .. l : n[i] = f.addr[i]
    BY <1>2, <1>10, Paths
  <1>13. o \in Seq(Int) /\ Len(o) = l /\ \A i \in 1 .. l : o[i] = e.addr[i]
    BY <1>1, <1>10, Paths
  <1>14. l \in Nat /\ o = SubSeq(e.addr, 1, l)
    BY <1>9 DEF Path
  <1> HIDE DEF n, o, l
  <1>15. n = o
    <2>1. \A i \in 1 .. l : n[i] = o[i]
      BY <1>11, <1>12, <1>13
    <2> QED BY <1>12, <1>13, <1>14, <2>1, Same
  <1>16. Target(n, e.addr)
    BY <1>12, <1>14, <1>15 DEF Target
  <1>17. e.at + T.timing[d].own[e.cmd][f.cmd] <= f.at
    BY <1>5, <1>6, <1>10, <1>16, Zenon DEF Apart, n
  <1>18. T.timing[d].own[e.cmd][f.cmd] \in Int
    <2>1. d \in Level(T)
      <3>1. Len(f.addr) = Len(T.level) /\ Len(T.level) \in Nat
        BY LogEntry DEF f
      <3> QED BY <1>8, <1>9, <3>1 DEF Level
    <2>2. LevelSound(T, d)
      BY <2>1, StandardIsSound
    <2>3. TimingSound(T.timing[d], T.command)
      BY <2>2, Zenon DEF LevelSound
    <2> QED BY <1>1, <1>6, <2>3 DEF TimingSound
  <1>19. f.at - e.at >= v
    <2>1. \A g, h \in Nat : \A w \in Int : g + w <= h /\ w >= v => h - g >= v
      BY <1>7
    <2> QED BY <1>1, <1>2, <1>6, <1>17, <1>18, <2>1
  <1> QED BY <1>19 DEF e, f

\* The last command of a kind before a position is the latest one found.
LEMMA FoundLast ==
    ASSUME NEW found, NEW n \in Int, found \subseteq 1 .. n, found # {}
    PROVE  (CHOOSE k \in found : \A m \in found : m <= k) \in found
  <1>1. IsFiniteSet(found) /\ found \subseteq Int
    <2>1. IsFiniteSet(1 .. n)
      BY FS_Interval
    <2>2. 1 .. n \subseteq Int
      OBVIOUS
    <2>3. IsFiniteSet(found)
      BY <2>1, FS_Subset
    <2> QED BY <2>2, <2>3
  <1>2. \E k \in found : \A m \in found : m <= k
    BY <1>1, Extremes
  <1> QED BY <1>2

LEMMA RowLemma ==
    ASSUME TablesSound, Shape, Typed, Logged, ConstraintsKept PROVE RowTimings
  <1> SUFFICES ASSUME std \notin {"SALP1", "SALP2", "TLDRAM"}, NEW T \in Standard, NEW b \in Leaf(T),
                      NEW j \in {j \in 1 .. Len(log) : Covers(Ends(T, log[j]), b)}
               PROVE  LET e == log[j]
          since(P(_, _), enough(_)) ==
            \A k \in {LastOf(T, b, j, P)} : k # 0 => e.at - log[k].at >= enough(log[k].cmd)
          rcd(c) == T.promise.rcd[<<c, e.cmd>>]
          ras(c) == T.promise.ras[c]
          rtp(c) == T.promise.rtp
          recover(c) == T.promise.recover
          rp(c) == T.promise.rp[c]
      IN /\ IsAccess(T, e) => since(IsOpening, rcd)
         /\ IsClosing(T, e) => since(IsOpening, ras) /\ since(ReadsRow, rtp) /\ since(WritesRow, recover)
         /\ (IsOpening(T, e) \/ e.cmd \in T.refreshing) => since(IsClosing, rp)
    BY DEF RowTimings
  <1> DEFINE e == log[j]
  <1>1. j \in 1 .. Len(log) /\ Covers(Ends(T, e), b) /\ Len(log) \in Nat
    <2>1. log \in Seq(Entries(T))
      BY DEF Logged
    <2>2. Len(log) \in Nat
      BY <2>1
    <2> QED BY <2>2
  <1>2. ASSUME NEW f \in Issuable(std), NEW c \in Issuable(std)
        PROVE  /\ f \in T.accessing /\ c \in T.opening => Waits(T, c, f, T.promise.rcd[<<c, f>>])
               /\ f \in T.closing /\ c \in T.opening => Waits(T, c, f, T.promise.ras[c])
               /\ f \in T.closing /\ c \in T.accessing /\ c \notin {"WR", "WRA"} => Waits(T, c, f, T.promise.rtp)
               /\ f \in T.closing /\ c \in {"WR", "WRA"} => Waits(T, c, f, T.promise.recover)
               /\ f \in T.opening \/ f \in T.refreshing => (c \in T.closing => Waits(T, c, f, T.promise.rp[c]))
    <2>1. RowSound(std, T)
      BY StandardIsSound
    <2>2. /\ f \in T.accessing /\ c \in T.opening => Waits(T, c, f, T.promise.rcd[<<c, f>>])
          /\ f \in T.closing /\ c \in T.opening => Waits(T, c, f, T.promise.ras[c])
      BY <2>1, Zenon DEF RowSound
    <2>3. f \in T.closing /\ c \in T.accessing \cup {"WR", "WRA"} =>
            Waits(T, c, f, IF c \in {"WR", "WRA"} THEN T.promise.recover ELSE T.promise.rtp)
      BY <2>1, Zenon DEF RowSound
    <2>4. f \in T.closing /\ c \in T.accessing /\ c \notin {"WR", "WRA"} => Waits(T, c, f, T.promise.rtp)
      BY <2>3, Zenon
    <2>5. f \in T.closing /\ c \in {"WR", "WRA"} => Waits(T, c, f, T.promise.recover)
      BY <2>3, Zenon
    <2>6. f \in T.opening \/ f \in T.refreshing => (c \in T.closing => Waits(T, c, f, T.promise.rp[c]))
      BY <2>1, Zenon DEF RowSound
    <2> QED BY <2>2, <2>4, <2>5, <2>6, Zenon
  <1>3. \A k \in 1 .. Len(log) : log[k].cmd \in Issuable(std)
    BY DEF Logged
  <1>4. \A k \in 1 .. j - 1 : k \in 1 .. Len(log) /\ k < j /\ k # 0
    BY <1>1
  <1>5. ASSUME NEW k \in 1 .. j - 1, NEW v, Covers(Ends(T, log[k]), b), Waits(T, log[k].cmd, e.cmd, v)
        PROVE  e.at - log[k].at >= v
    BY <1>1, <1>4, <1>5, Waited
  <1>6. ASSUME NEW k, k = LastOf(T, b, j, IsOpening), k # 0
        PROVE  k \in 1 .. j - 1 /\ Covers(Ends(T, log[k]), b) /\ IsOpening(T, log[k])
    <2> DEFINE found == {h \in 1 .. j - 1 : IsOpening(T, log[h]) /\ Covers(Ends(T, log[h]), b)}
    <2>1. k = IF found = {} THEN 0 ELSE CHOOSE h \in found : \A m \in found : m <= h
      BY <1>6 DEF LastOf
    <2>2. found \subseteq 1 .. j - 1 /\ j - 1 \in Int
      BY <1>1
    <2> HIDE DEF found
    <2>3. k \in found
      BY <1>6, <2>1, <2>2, FoundLast
    <2> QED BY <2>3 DEF found
  <1>7. ASSUME NEW k, k = LastOf(T, b, j, ReadsRow), k # 0
        PROVE  k \in 1 .. j - 1 /\ Covers(Ends(T, log[k]), b) /\ ReadsRow(T, log[k])
    <2> DEFINE found == {h \in 1 .. j - 1 : ReadsRow(T, log[h]) /\ Covers(Ends(T, log[h]), b)}
    <2>1. k = IF found = {} THEN 0 ELSE CHOOSE h \in found : \A m \in found : m <= h
      BY <1>7 DEF LastOf
    <2>2. found \subseteq 1 .. j - 1 /\ j - 1 \in Int
      BY <1>1
    <2> HIDE DEF found
    <2>3. k \in found
      BY <1>7, <2>1, <2>2, FoundLast
    <2> QED BY <2>3 DEF found
  <1>8. ASSUME NEW k, k = LastOf(T, b, j, WritesRow), k # 0
        PROVE  k \in 1 .. j - 1 /\ Covers(Ends(T, log[k]), b) /\ WritesRow(T, log[k])
    <2> DEFINE found == {h \in 1 .. j - 1 : WritesRow(T, log[h]) /\ Covers(Ends(T, log[h]), b)}
    <2>1. k = IF found = {} THEN 0 ELSE CHOOSE h \in found : \A m \in found : m <= h
      BY <1>8 DEF LastOf
    <2>2. found \subseteq 1 .. j - 1 /\ j - 1 \in Int
      BY <1>1
    <2> HIDE DEF found
    <2>3. k \in found
      BY <1>8, <2>1, <2>2, FoundLast
    <2> QED BY <2>3 DEF found
  <1>9. ASSUME NEW k, k = LastOf(T, b, j, IsClosing), k # 0
        PROVE  k \in 1 .. j - 1 /\ Covers(Ends(T, log[k]), b) /\ IsClosing(T, log[k])
    <2> DEFINE found == {h \in 1 .. j - 1 : IsClosing(T, log[h]) /\ Covers(Ends(T, log[h]), b)}
    <2>1. k = IF found = {} THEN 0 ELSE CHOOSE h \in found : \A m \in found : m <= h
      BY <1>9 DEF LastOf
    <2>2. found \subseteq 1 .. j - 1 /\ j - 1 \in Int
      BY <1>1
    <2> HIDE DEF found
    <2>3. k \in found
      BY <1>9, <2>1, <2>2, FoundLast
    <2> QED BY <2>3 DEF found
  <1>10. e.cmd \in Issuable(std) /\ \A k \in 1 .. j - 1 : log[k].cmd \in Issuable(std)
    BY <1>1, <1>3, <1>4
  <1>11. ASSUME IsAccess(T, e), NEW k, k = LastOf(T, b, j, IsOpening), k # 0
         PROVE  e.at - log[k].at >= T.promise.rcd[<<log[k].cmd, e.cmd>>]
    <2>1. k \in 1 .. j - 1 /\ Covers(Ends(T, log[k]), b) /\ IsOpening(T, log[k])
      BY <1>6, <1>11, Zenon
    <2>2. Waits(T, log[k].cmd, e.cmd, T.promise.rcd[<<log[k].cmd, e.cmd>>])
      BY <1>2, <1>10, <1>11, <2>1, Zenon DEF IsAccess, IsOpening
    <2> QED BY <1>5, <2>1, <2>2, Zenon
  <1>12. ASSUME IsClosing(T, e), NEW k, k = LastOf(T, b, j, IsOpening), k # 0
         PROVE  e.at - log[k].at >= T.promise.ras[log[k].cmd]
    <2>1. k \in 1 .. j - 1 /\ Covers(Ends(T, log[k]), b) /\ IsOpening(T, log[k])
      BY <1>6, <1>12, Zenon
    <2>2. Waits(T, log[k].cmd, e.cmd, T.promise.ras[log[k].cmd])
      BY <1>2, <1>10, <1>12, <2>1, Zenon DEF IsClosing, IsOpening
    <2> QED BY <1>5, <2>1, <2>2, Zenon
  <1>13. ASSUME IsClosing(T, e), NEW k, k = LastOf(T, b, j, ReadsRow), k # 0
         PROVE  e.at - log[k].at >= T.promise.rtp
    <2>1. k \in 1 .. j - 1 /\ Covers(Ends(T, log[k]), b) /\ ReadsRow(T, log[k])
      BY <1>7, <1>13, Zenon
    <2>2. Waits(T, log[k].cmd, e.cmd, T.promise.rtp)
      BY <1>2, <1>10, <1>13, <2>1, Zenon DEF IsClosing, ReadsRow, IsAccess, IsWrite
    <2> QED BY <1>5, <2>1, <2>2, Zenon
  <1>14. ASSUME IsClosing(T, e), NEW k, k = LastOf(T, b, j, WritesRow), k # 0
         PROVE  e.at - log[k].at >= T.promise.recover
    <2>1. k \in 1 .. j - 1 /\ Covers(Ends(T, log[k]), b) /\ WritesRow(T, log[k])
      BY <1>8, <1>14, Zenon
    <2>2. Waits(T, log[k].cmd, e.cmd, T.promise.recover)
      BY <1>2, <1>10, <1>14, <2>1, Zenon DEF IsClosing, WritesRow, IsWrite
    <2> QED BY <1>5, <2>1, <2>2, Zenon
  <1>15. ASSUME IsOpening(T, e) \/ e.cmd \in T.refreshing, NEW k, k = LastOf(T, b, j, IsClosing), k # 0
         PROVE  e.at - log[k].at >= T.promise.rp[log[k].cmd]
    <2>1. k \in 1 .. j - 1 /\ Covers(Ends(T, log[k]), b) /\ IsClosing(T, log[k])
      BY <1>9, <1>15, Zenon
    <2>2. Waits(T, log[k].cmd, e.cmd, T.promise.rp[log[k].cmd])
      BY <1>2, <1>10, <1>15, <2>1, Zenon DEF IsClosing, IsOpening
    <2> QED BY <1>5, <2>1, <2>2, Zenon
  <1> QED BY <1>11, <1>12, <1>13, <1>14, <1>15

-----------------------------------------------------------------------------
(* How many rows of a rank are opened in a time *)

\* The openings of rows of a node in the log, those since one of them, and those
\* between two of them.
Acts(r, c) == {i \in 1 .. Len(log) : log[i].cmd = c /\ Target(r, log[i].addr)}
From(S, i) == {k \in S : i <= k}
Between(S, i, j) == {k \in S : i <= k /\ k <= j}

\* A rank remembers when its rows were opened, last first, and cannot open another
\* one until promise.faw after the opening that would be too many in this time.
RankKept(T, r, c) ==
    /\ c \in DOMAIN prev[r] /\ Len(prev[r][c]) = Cardinality(Acts(r, c))
    /\ \A i \in Acts(r, c) :
         LET since == Cardinality(From(Acts(r, c), i)) IN
         /\ since \in 1 .. Len(prev[r][c]) /\ prev[r][c][since] = log[i].at
         /\ since >= T.promise.acts => log[i].at + T.promise.faw <= next[r][c]
    /\ \A i, j \in Acts(r, c) :
         i < j /\ Cardinality(Between(Acts(r, c), i, j)) > T.promise.acts => log[j].at - log[i].at >= T.promise.faw
WindowsKept ==
    std # "ALDRAM" => \A T \in Standard : \A r \in Node, c \in T.opening : Len(r) = 1 => RankKept(T, r, c)

\* Counting with one more at the end.
CountedUp(n, S, U) ==
    /\ Cardinality(S) \in Nat /\ Cardinality(U) = Cardinality(S) + 1
    /\ Cardinality(From(U, n + 1)) = 1
    /\ \A i \in S : /\ i < n + 1 /\ Cardinality(From(U, i)) = Cardinality(From(S, i)) + 1
                    /\ Between(U, i, n + 1) = From(U, i)
                    /\ \A j \in S : Between(U, i, j) = Between(S, i, j)
LEMMA OneMore ==
    ASSUME NEW n \in Nat, NEW S, S \subseteq 1 .. n, NEW U, U = S \cup {n + 1}
    PROVE  CountedUp(n, S, U)
  <1>1. IsFiniteSet(S)
    <2>1. IsFiniteSet(1 .. n)
      BY FS_Interval
    <2> QED BY <2>1, FS_Subset
  <1>2. /\ n + 1 \notin S /\ \A i \in S : i \in Nat /\ i < n + 1
        /\ n + 1 \in U /\ \A k \in U : k \in Nat /\ k <= n + 1 /\ (n + 1 <= k => k = n + 1)
        /\ n + 1 <= n + 1
    OBVIOUS
  <1>3. Cardinality(S) \in Nat /\ Cardinality(U) = Cardinality(S) + 1
    BY <1>1, <1>2, FS_AddElement, FS_CardinalityType
  <1>4. From(U, n + 1) = {n + 1}
    BY <1>2 DEF From
  <1>5. Cardinality(From(U, n + 1)) = 1
    BY <1>4, FS_Singleton
  <1>6. ASSUME NEW i \in S
        PROVE  /\ i < n + 1 /\ Cardinality(From(U, i)) = Cardinality(From(S, i)) + 1
               /\ Between(U, i, n + 1) = From(U, i)
               /\ \A j \in S : Between(U, i, j) = Between(S, i, j)
    <2>1. From(U, i) = From(S, i) \cup {n + 1} /\ n + 1 \notin From(S, i) /\ From(S, i) \subseteq S
      BY <1>2 DEF From
    <2>2. IsFiniteSet(From(S, i))
      BY <1>1, <2>1, FS_Subset
    <2>3. Cardinality(From(U, i)) = Cardinality(From(S, i)) + 1
      BY <2>1, <2>2, FS_AddElement
    <2>4. Between(U, i, n + 1) = From(U, i)
      BY <1>2 DEF From, Between
    <2>5. \A j \in S : Between(U, i, j) = Between(S, i, j)
      BY <1>2 DEF Between
    <2> QED BY <1>2, <2>3, <2>4, <2>5
  <1> QED BY <1>3, <1>5, <1>6, Zenon DEF CountedUp

\* A step keeps it: the rank opens no row before the time it has left.
LEMMA WindowStep ==
    ASSUME TablesSound, Shape, Typed, Logged, WindowsKept, NEW T \in Standard, NEW q \in queue,
           NEW cmd, NEW a, NEW t, Issues(T, q, cmd, a, t), slack' \in Nat
    PROVE  WindowsKept'
  <1> DEFINE e == [cmd |-> cmd, addr |-> a, at |-> t]
             n == Len(log)
             N == n + 1
             faw == T.promise.faw
             most == T.promise.acts
  <1>1. Grown(T, e) /\ Standard' = Standard /\ Node' = Node /\ std' = std
    BY LogStep, ShapeStep
  <1>2. SUFFICES ASSUME std # "ALDRAM", NEW r \in Node, NEW c \in T.opening, Len(r) = 1
                 PROVE  RankKept(T, r, c)'
    <2>1. \A U \in Standard : U = T
      BY DEF Standard
    <2> QED BY <1>1, <1>2, <2>1 DEF WindowsKept
  <1>3. RankKept(T, r, c)
    BY <1>2 DEF WindowsKept
  <1>4. WindowSound(T)
    BY <1>2, StandardIsSound
  <1>5. PICK w \in T.timing[2].window : w.from = c /\ w.to = c /\ w.dist = most /\ w.val >= faw
    BY <1>4 DEF WindowSound
  <1>6. /\ most \in Nat /\ most >= 1 /\ faw \in Nat /\ T.scope[c] > 1
    BY <1>4 DEF WindowSound
  <1> DEFINE A == Acts(r, c)
             B == Acts(r, c)'
             h == prev[r][c]
             g == prev'[r][c]
  <1>7. n \in Nat /\ Len(log') = N /\ log'[N] = e /\ \A i \in 1 .. n : log'[i] = log[i]
    BY <1>1 DEF Grown
  <1>8. \A i \in 1 .. n : log[i].at \in Nat /\ log[i].cmd \in T.command
    BY <1>1 DEF Grown, Entries
  <1>9. A \subseteq 1 .. n /\ \A i \in A : i \in 1 .. n /\ c \in T.command
    BY <1>8 DEF Acts
  <1>10. /\ c \in DOMAIN prev[r] /\ DOMAIN prev'[r] = DOMAIN prev[r]
         /\ g = IF Target(r, a) /\ c = cmd THEN <<t>> \o h ELSE h
    <2>1. c \in DOMAIN prev[r]
      BY <1>3 DEF RankKept
    <2>2. /\ DOMAIN prev'[r] = DOMAIN prev[r]
          /\ \A k \in DOMAIN prev[r] : prev'[r][k] = IF Target(r, a) /\ k = cmd THEN <<t>> \o prev[r][k] ELSE prev[r][k]
      <3>1. \A m \in Node :
              /\ DOMAIN prev'[m] = DOMAIN prev[m]
              /\ \A k \in DOMAIN prev[m] : prev'[m][k] = IF Target(m, a) /\ k = cmd THEN <<t>> \o prev[m][k] ELSE prev[m][k]
        BY HistoryStep
      <3> QED BY <3>1, Zenon
    <2> QED BY <2>1, <2>2
  <1>11. h \in Seq(Int) /\ Len(h) \in Nat
    <2>1. h \in Seq(Int)
      BY <1>10 DEF Typed
    <2> QED BY <2>1
  <1>12. c \in T.command => next[r][c] \in Int /\ next'[r][c] \in Int /\ next[r][c] <= next'[r][c]
    <2>1. next[r] \in [T.command -> Int]
      BY DEF Typed
    <2>2. next'[r] \in [T.command -> Int] /\ \A k \in T.command : next[r][k] <= next'[r][k]
      BY NextStep
    <2> QED BY <2>1, <2>2
  <1>13. /\ Len(h) = Cardinality(A)
         /\ \A i \in A : /\ Cardinality(From(A, i)) \in 1 .. Len(h) /\ h[Cardinality(From(A, i))] = log[i].at
                         /\ Cardinality(From(A, i)) >= most => log[i].at + faw <= next[r][c]
         /\ \A i, j \in A : i < j /\ Cardinality(Between(A, i, j)) > most => log[j].at - log[i].at >= faw
    BY <1>3 DEF RankKept
  <1>14. SUFFICES /\ Len(g) = Cardinality(B)
                  /\ \A i \in B : /\ Cardinality(From(B, i)) \in 1 .. Len(g) /\ g[Cardinality(From(B, i))] = log'[i].at
                                  /\ Cardinality(From(B, i)) >= most => log'[i].at + faw <= next'[r][c]
                  /\ \A i, j \in B : i < j /\ Cardinality(Between(B, i, j)) > most => log'[j].at - log'[i].at >= faw
    BY <1>10 DEF RankKept, From, Between
  <1>15. B = {i \in 1 .. N : log'[i].cmd = c /\ Target(r, log'[i].addr)}
    BY <1>7 DEF Acts, Target
  <1> HIDE DEF g, h, B
  <1>16. CASE ~(Target(r, a) /\ c = cmd)
    <2>1. B = A
      <3>1. \A i \in 1 .. N : i \in 1 .. n \/ i = N
        BY <1>7
      <3>2. 1 .. n \subseteq 1 .. N
        BY <1>7
      <3>3. \A i : i \in B <=> i \in A
        BY <1>7, <1>15, <1>16, <3>1, <3>2 DEF Acts
      <3> QED BY <3>3
    <2>2. g = h
      BY <1>10, <1>16
    <2>3. \A i \in A : log'[i].at = log[i].at /\ log[i].at \in Nat /\ c \in T.command
      BY <1>7, <1>8, <1>9
    <2> HIDE DEF A
    <2> QED BY <1>6, <1>12, <1>13, <2>1, <2>2, <2>3
  <1>17. CASE Target(r, a) /\ c = cmd
    <2>1. B = A \cup {N}
      <3>1. \A i \in 1 .. N : i \in 1 .. n \/ i = N
        BY <1>7
      <3>2. 1 .. n \subseteq 1 .. N /\ N \in 1 .. N
        BY <1>7
      <3>3. \A i : i \in B <=> i \in A \/ i = N
        BY <1>7, <1>15, <1>17, <3>1, <3>2 DEF Acts
      <3> QED BY <3>3
    <2> DEFINE old(i) == Cardinality(From(A, i))
               new(i) == Cardinality(From(B, i))
    <2>2. /\ Cardinality(A) \in Nat /\ Cardinality(B) = Cardinality(A) + 1 /\ new(N) = 1
          /\ \A i \in A : /\ i < N /\ new(i) = old(i) + 1 /\ Between(B, i, N) = From(B, i)
                          /\ \A j \in A : Between(B, i, j) = Between(A, i, j)
      <3>1. n \in Nat /\ A \subseteq 1 .. n /\ B = A \cup {n + 1}
        BY <1>7, <1>9, <2>1
      <3> HIDE DEF n, A
      <3>2. CountedUp(n, A, B)
        BY <3>1, OneMore, Zenon
      <3> QED BY <3>2 DEF CountedUp
    <2>3. c \in T.command /\ t \in Nat
      BY <1>17 DEF Issues
    <2>4. Len(g) = Len(h) + 1 /\ g[1] = t /\ \A k \in 1 .. Len(h) : g[k + 1] = h[k]
      <3>1. g = <<t>> \o h /\ t \in Int /\ <<t>> \in Seq(Int) /\ Len(<<t>>) = 1 /\ <<t>>[1] = t /\ 1 \in 1 .. 1
        BY <1>10, <1>17, <2>3
      <3>2. /\ Len(<<t>> \o h) = Len(<<t>>) + Len(h)
            /\ \A j \in 1 .. Len(<<t>>) : (<<t>> \o h)[j] = <<t>>[j]
            /\ \A j \in 1 .. Len(h) : (<<t>> \o h)[Len(<<t>>) + j] = h[j]
        BY <1>11, <3>1, Joined
      <3>3. Len(g) = 1 + Len(h) /\ g[1] = t /\ \A k \in 1 .. Len(h) : g[1 + k] = h[k]
        BY <3>1, <3>2, Zenon
      <3> QED BY <1>11, <3>3
    <2>5. \A i \in A : log'[i].at = log[i].at /\ log[i].at \in Nat
      BY <1>7, <1>8, <1>9
    <2>6. log'[N].at = t
      BY <1>7
    <2>7. Len(g) >= most => g[most] + w.val <= next'[r][c]
      <3>1. Len(g) >= most => w \in Due(T.timing[2].window, cmd, prev'[r], c)
        BY <1>5, <1>17 DEF Due, g
      <3>2. Len(r) + 1 = 2
        BY <1>2
      <3>3. \A d \in Due(T.timing[2].window, cmd, prev'[r], c) : prev'[r][cmd][d.dist] + d.val <= next'[r][c]
        BY <1>17, <2>3, <3>2, NextStep
      <3> QED BY <1>5, <1>17, <3>1, <3>3 DEF g
    <2>8. w.val \in Int
      <3>1. 2 \in Level(T)
        BY StandardIsSound DEF Level
      <3>2. LevelSound(T, 2)
        BY <3>1, StandardIsSound
      <3> QED BY <3>2 DEF LevelSound, TimingSound
    <2>9. next[r][c] <= t
      <3>1. r \in Seq(Nat) /\ a \in Seq(Int) /\ Len(a) = Len(T.level) /\ Len(T.level) \in Nat /\ Len(a) > 1
        BY StandardIsSound DEF Shape, Issues, Addressable
      <3>2. r = Path(a, 2)
        <4>1. Len(r) + 1 = 2
          BY <1>2
        <4> QED BY <1>17, <3>1, <4>1, OnPath, Zenon
      <3>3. 2 \in Depths(a)
        <4>1. r = SubSeq(a, 1, 1)
          BY <1>2, <1>17 DEF Target
        <4>2. r[1] = a[1] /\ r[1] \in Nat
          BY <1>2, <3>1, <4>1
        <4> QED BY <3>1, <4>2 DEF Depths
      <3>4. 2 <= T.scope[c]
        <4>1. T.scope[c] \in Nat
          BY <2>3, DepthIs
        <4> QED BY <1>6, <4>1
      <3> QED BY <1>17, <3>2, <3>3, <3>4 DEF Issues
    <2> HIDE DEF A, old, new, N, faw, most
    <2>10. \A i \in A : old(i) \in Nat /\ old(i) >= 1 /\ old(i) <= Len(h)
      <3>1. \A i \in A : old(i) \in 1 .. Len(h)
        BY <1>13 DEF old
      <3> QED BY <1>11, <3>1
    <2>11. Len(g) = Cardinality(B)
      BY <1>13, <2>2, <2>4
    <2>12. ASSUME NEW i \in B PROVE new(i) \in 1 .. Len(g) /\ g[new(i)] = log'[i].at
      <3>1. CASE i = N
        BY <1>11, <2>2, <2>4, <2>6, <3>1
      <3>2. CASE i \in A
        <4>1. h[old(i)] = log[i].at
          BY <1>13, <3>2 DEF old
        <4>2. old(i) \in 1 .. Len(h) /\ old(i) + 1 \in 1 .. Len(h) + 1
          BY <1>11, <2>10, <3>2
        <4> QED BY <2>2, <2>4, <2>5, <3>2, <4>1, <4>2
      <3> QED BY <2>1, <2>12, <3>1, <3>2
    <2>13. ASSUME NEW i \in B, new(i) >= most PROVE log'[i].at + faw <= next'[r][c]
      <3>1. new(i) \in Nat /\ log'[i].at \in Nat /\ next'[r][c] \in Int
        <4>1. new(i) \in 1 .. Len(g)
          BY <2>12
        <4> QED BY <1>12, <2>1, <2>3, <2>5, <2>6, <4>1, <2>13
      <3>2. CASE new(i) = most
        <4>1. most \in 1 .. Len(g) /\ g[most] = log'[i].at
          BY <2>12, <3>2
        <4>2. Len(g) \in Nat
          BY <1>11, <2>4
        <4>3. most <= Len(g)
          BY <4>1, <4>2
        <4>4. log'[i].at + w.val <= next'[r][c]
          BY <2>7, <4>1, <4>3
        <4> QED BY <1>5, <1>6, <2>8, <3>1, <4>4
      <3>3. CASE new(i) # most
        <4>1. i # N
          BY <1>6, <2>2, <2>13, <3>3
        <4>2. i \in A
          BY <2>1, <4>1
        <4>3. old(i) >= most
          BY <1>6, <2>2, <2>10, <2>13, <3>3, <4>2
        <4>4. log[i].at + faw <= next[r][c]
          BY <1>13, <4>2, <4>3 DEF old
        <4> QED BY <1>6, <1>12, <2>3, <2>5, <4>2, <4>4
      <3> QED BY <3>2, <3>3
    <2>14. ASSUME NEW i \in B, NEW j \in B, i < j, Cardinality(Between(B, i, j)) > most
           PROVE  log'[j].at - log'[i].at >= faw
      <3>1. CASE j \in A
        <4>1. i \in A
          BY <1>9, <2>1, <2>2, <2>14, <3>1 DEF N, A
        <4> QED BY <1>13, <2>2, <2>5, <2>14, <3>1, <4>1
      <3>2. CASE j = N
        <4>1. i \in A
          <5>1. ~(N < N)
            BY <1>7 DEF N
          <5> QED BY <2>1, <2>14, <3>2, <5>1
        <4>2. new(i) > most
          BY <2>2, <2>14, <3>2, <4>1 DEF new
        <4>3. old(i) >= most
          BY <1>6, <2>2, <2>10, <4>1, <4>2
        <4>4. log[i].at + faw <= next[r][c]
          BY <1>13, <4>1, <4>3 DEF old
        <4> QED BY <1>6, <1>12, <2>3, <2>5, <2>6, <2>9, <3>2, <4>1, <4>4
      <3> QED BY <2>1, <3>1, <3>2
    <2> QED BY <2>11, <2>12, <2>13, <2>14 DEF new
  <1> QED BY <1>16, <1>17

\* A command is sent below a rank if the rank is on the way of its address.
LEMMA RankReached ==
    ASSUME TablesSound, Shape, Logged, NEW T \in Standard, NEW i \in 1 .. Len(log), NEW r \in Seq(Nat), Len(r) = 1
    PROVE  Covers(r, Addressed(log[i])) <=> Target(r, log[i].addr)
  <1> DEFINE a == log[i].addr
             D == Depths(a)
             l == Len(a)
             Furthest(d) == d \in D /\ d <= l /\ \A k \in D : k <= l => k <= d
  <1>1. /\ a \in Seq(Int) /\ l \in Nat /\ l > 1
        /\ \A d \in D : d \in 1 .. l
    BY LogEntry
  <1> HIDE DEF a
  <1>2. /\ 1 \in D
        /\ \A d \in D : /\ d \in 1 .. l /\ Path(a, d) \in Seq(Int) /\ Len(Path(a, d)) = d - 1
                        /\ \A k \in 1 .. d - 1 : Path(a, d)[k] = a[k] /\ a[k] \in Nat
    BY <1>1, Paths
  <1>3. \E d : Furthest(d)
    <2>1. IsFiniteSet(1 .. l)
      BY <1>1, FS_Interval
    <2>2. D \subseteq 1 .. l /\ D \subseteq Int
      BY <1>2
    <2>3. IsFiniteSet(D)
      BY <2>1, <2>2, FS_Subset
    <2>4. Max(D) \in D /\ \A k \in D : k <= Max(D)
      BY <1>2, <2>2, <2>3, Extremes
    <2> QED BY <1>1, <1>2, <2>2, <2>4
  <1> DEFINE m == CHOOSE d \in D : d <= l /\ \A k \in D : k <= l => k <= d
  <1>4. Furthest(m)
    BY <1>3
  <1>5. Addressed(log[i]) = Path(a, m)
    BY DEF Addressed, Deepest, a
  <1> HIDE DEF m, D, l
  <1>6. m \in 1 .. l /\ Path(a, m) \in Seq(Int) /\ Len(Path(a, m)) = m - 1
        /\ \A k \in 1 .. m - 1 : Path(a, m)[k] = a[k] /\ a[k] \in Nat
    BY <1>2, <1>4
  <1> DEFINE p == Path(a, m)
  <1> HIDE DEF p
  <1>7. Covers(r, p) <=> 2 <= m /\ r = SubSeq(p, 1, 1)
    <2>1. 1 <= m - 1 <=> 2 <= m
      BY <1>6
    <2> QED BY <1>6, <2>1 DEF Covers, p
  <1>8. Target(r, a) <=> r = SubSeq(a, 1, 1)
    BY DEF Target
  <1> DEFINE Single(x) == SubSeq(x, 1, 1) = <<x[1]>>
  <1>9. ASSUME NEW x \in Seq(Int), Len(x) >= 1 PROVE Single(x)
    <2>1. 1 \in Nat /\ 1 <= Len(x) /\ 1 \in 1 .. 1
      BY <1>9
    <2>2. SubSeq(x, 1, 1) \in Seq(Int) /\ Len(SubSeq(x, 1, 1)) = 1 /\ \A k \in 1 .. 1 : SubSeq(x, 1, 1)[k] = x[k]
      BY <2>1, Starting
    <2>3. x[1] \in Int
      BY <2>1
    <2>4. <<x[1]>> \in Seq(Int) /\ Len(<<x[1]>>) = 1 /\ <<x[1]>>[1] = x[1]
      BY <2>3
    <2>5. \A k \in 1 .. 1 : SubSeq(x, 1, 1)[k] = <<x[1]>>[k]
      BY <2>1, <2>2, <2>4
    <2>6. SubSeq(x, 1, 1) = <<x[1]>>
      <3> DEFINE u == SubSeq(x, 1, 1)
                 v == <<x[1]>>
      <3>1. u \in Seq(Int) /\ v \in Seq(Int) /\ Len(u) = 1 /\ Len(v) = 1 /\ \A k \in 1 .. 1 : u[k] = v[k]
        BY <2>2, <2>4, <2>5
      <3> HIDE DEF u, v
      <3>2. u = v
        BY <2>1, <3>1, Same
      <3> QED BY <3>2 DEF u, v
    <2> QED BY <2>6
  <1>10. ASSUME 2 <= m PROVE SubSeq(p, 1, 1) = <<a[1]>>
    <2>1. Len(p) >= 1 /\ p[1] = a[1] /\ p \in Seq(Int)
      BY <1>6, <1>10 DEF p
    <2>2. Single(p)
      BY <1>9, <2>1
    <2> QED BY <2>1, <2>2
  <1>11. ASSUME r = <<a[1]>> PROVE 2 <= m
    <2>1. a[1] \in Nat
      BY <1>11
    <2>2. 2 \in D
      BY <1>1, <2>1 DEF Depths, D, l
    <2> QED BY <1>1, <1>4, <2>2
  <1>12. Single(a)
    BY <1>1, <1>9 DEF l
  <1> QED BY <1>5, <1>7, <1>8, <1>10, <1>11, <1>12 DEF p, a

LEMMA WindowLemma == ASSUME TablesSound, Shape, Logged, WindowsKept PROVE ActivateWindow
  <1> SUFFICES ASSUME std # "ALDRAM", NEW T \in Standard, NEW r \in Node, Len(r) = 1, NEW c \in T.opening
               PROVE  LET acts == {i \in 1 .. Len(log) : log[i].cmd = c /\ Covers(r, Addressed(log[i]))} IN
                      \A i, j \in acts : (i < j /\ Cardinality({k \in acts : i <= k /\ k <= j}) > T.promise.acts)
                                            => log[j].at - log[i].at >= T.promise.faw
    BY Zenon DEF ActivateWindow
  <1> DEFINE acts == {i \in 1 .. Len(log) : log[i].cmd = c /\ Covers(r, Addressed(log[i]))}
  <1>1. r \in Seq(Nat)
    BY DEF Shape
  <1>2. \A i \in 1 .. Len(log) : Covers(r, Addressed(log[i])) <=> Target(r, log[i].addr)
    BY <1>1, RankReached
  <1>3. acts = Acts(r, c)
    BY <1>2 DEF Acts
  <1>4. RankKept(T, r, c)
    BY DEF WindowsKept
  <1> QED BY <1>3, <1>4, Zenon DEF RankKept, Between

-----------------------------------------------------------------------------
(* The rows that are open *)

\* Where the banks have no state but that of their row buffers, the tables say
\* what every command finds and does there.
LEMMA RowsAreSound ==
    ASSUME TablesSound, Shape, std \notin TwoLevels, NEW T \in Standard
    PROVE  /\ RowsSound(std, T) /\ Distinct(T) /\ T.start[Len(T.level)] = "Closed"
           /\ \A c \in T.opening \cup T.accessing : T.scope[c] > Len(T.level)
           /\ \A c \in Issuable(std) :
                /\ \A d \in Level(T) : c \in DOMAIN T.lambda[d] =>
                     RowChange(T, d, c) /\ \A e \in Level(T) : c \in DOMAIN T.lambda[e] => e = d
                /\ c \in T.opening \cup T.closing => c \in DOMAIN T.lambda[Depth(T, c)]
           /\ std = "MASA" => Selects(T)
           /\ std # "ALDRAM" => RefreshSound(std, T)
  <1>1. T = Table[std] /\ std \in DOMAIN Table
    BY DEF Standard, Shape
  <1>2. RowsSound(std, T) /\ (std # "ALDRAM" => RefreshSound(std, T))
    BY <1>1, Zenon DEF TablesSound
  <1> QED BY <1>2, Zenon DEF RowsSound

\* The node of an address at the last level is the buffer of its row.
LEMMA LeafOf ==
    ASSUME TablesSound, Shape, NEW T \in Standard, NEW a, Addressable(T, Node, a), Len(T.level) \in Depths(a)
    PROVE  /\ Path(a, Len(T.level)) \in Leaf(T) /\ Path(a, Len(T.level)) = Front(a) /\ Last(a) = a[Len(T.level)]
           /\ a[Len(T.level)] \in Int /\ Path(a, Len(T.level)) \in Node
  <1> DEFINE L == Len(T.level)
  <1>1. a \in Seq(Int) /\ Len(a) = L /\ L \in Nat /\ L > 1 /\ \A d \in Depths(a) : Path(a, d) \in Node
    BY StandardIsSound DEF Addressable
  <1>2. Path(a, L) \in Node /\ Len(Path(a, L)) = L - 1
    BY <1>1, Paths
  <1>3. Front(a) = Path(a, L) /\ Last(a) = a[L]
    BY <1>1, Zenon DEF Front, Last, Path
  <1>4. a[L] \in Int
    <2> HIDE DEF L
    <2> QED BY <1>1
  <1> QED BY <1>2, <1>3, <1>4 DEF Leaf

\* A node covers the buffers whose path goes through it.
LEMMA CoversLeaf ==
    ASSUME TablesSound, Shape, NEW T \in Standard, NEW a, Addressable(T, Node, a), NEW d \in Depths(a), NEW b \in Leaf(T)
    PROVE  /\ Covers(Path(a, d), b) <=> Path(b, d) = Path(a, d)
           /\ Covers(Path(a, d), b) <=> b \in Below(Path(a, d), Len(T.level) - d)
           /\ d = Len(T.level) => (Covers(Path(a, d), b) <=> b = Path(a, d))
  <1> DEFINE L == Len(T.level)
             p == Path(a, d)
  <1>1. a \in Seq(Int) /\ Len(a) = L /\ L \in Nat /\ L > 1
    BY StandardIsSound DEF Addressable
  <1>2. d \in 1 .. L /\ p \in Seq(Int) /\ Len(p) = d - 1
    BY <1>1, Paths
  <1>3. b \in Node /\ b \in Seq(Nat) /\ Len(b) = L - 1
    BY DEF Leaf, Shape
  <1> HIDE DEF p, L
  <1>4. d - 1 <= Len(b) /\ SubSeq(b, 1, Len(p)) = Path(b, d) /\ (d - 1) + 1 = d /\ Len(b) = (d - 1) + (L - d)
    BY <1>1, <1>2, <1>3 DEF Path
  <1>5. Covers(p, b) <=> Path(b, d) = p
    BY <1>2, <1>4 DEF Covers
  <1>6. b \in Below(p, L - d) <=> Path(b, d) = p
    <2>1. Len(b) = Len(p) + (L - d) /\ Path(b, Len(p) + 1) = Path(b, d)
      BY <1>2, <1>4
    <2> QED BY <1>3, <2>1 DEF Below
  <1>7. d = L => Path(b, d) = b
    <2> SUFFICES ASSUME d = L PROVE Path(b, d) = b
      OBVIOUS
    <2> DEFINE s == Path(b, d)
    <2>1. s = SubSeq(b, 1, Len(b)) /\ Len(b) \in Nat /\ Len(b) <= Len(b)
      BY <1>1, <1>3 DEF Path
    <2>2. s \in Seq(Nat) /\ Len(s) = Len(b) /\ \A i \in 1 .. Len(b) : s[i] = b[i]
      BY <1>3, <2>1, Starting
    <2> HIDE DEF s
    <2>3. s = b
      BY <1>3, <2>1, <2>2, Same
    <2> QED BY <2>3 DEF s
  <1> QED BY <1>5, <1>6, <1>7 DEF p, L

\* What a command finds at the node it goes to: a row is opened where none is, an
\* access finds its row, a refresh none, and something is left to close.
Finds(T, cmd, a) ==
    LET L == Len(T.level)
        b == Path(a, L) IN
    /\ cmd \in T.opening => L \in Depths(a) /\ state[b] = "Closed"
    /\ cmd \in T.accessing =>
         /\ cmd \notin T.closing /\ L \in Depths(a) /\ state[b] # "Closed" /\ a[L] \in row_state[b]
         /\ std = "MASA" => state[b] = "Selected"
    /\ cmd \in T.refreshing => \A c \in Leaf(T) : Covers(Path(a, Depth(T, cmd)), c) => state[c] = "Closed"
    /\ cmd \in T.closing =>
         /\ T.scope[cmd] = Depth(T, cmd)
         /\ \E c \in Leaf(T) : Covers(Path(a, Depth(T, cmd)), c) /\ state[c] # "Closed"
    /\ cmd = "SASEL" => L \in Depths(a) /\ state[b] # "Closed"

LEMMA DepthOf ==
    ASSUME TablesSound, Shape, NEW T \in Standard, NEW cmd, T.scope[cmd] \in Int
    PROVE  /\ T.scope[cmd] <= Len(T.level) => Depth(T, cmd) = T.scope[cmd]
           /\ T.scope[cmd] >= Len(T.level) => Depth(T, cmd) = Len(T.level)
  <1> DEFINE L == Len(T.level)
             s == T.scope[cmd]
  <1>1. L \in Int /\ s \in Int
    BY StandardIsSound
  <1> HIDE DEF s, L
  <1>2. Min({s, L}) \in {s, L} /\ Min({s, L}) <= s /\ Min({s, L}) <= L
    BY <1>1, TwoExtremes
  <1>3. (s <= L => Min({s, L}) = s) /\ (s >= L => Min({s, L}) = L)
    BY <1>1, <1>2
  <1> QED BY <1>3 DEF Depth, s, L

\* What a rule asks for, by its kind.
LEMMA RequiredIs ==
    ASSUME NEW rule, NEW n, NEW cmd, NEW id
    PROVE  LET r == Chosen(rule, id)
               R == Required(rule, n, cmd, id) IN
           /\ r.kind = "state" => R = r.to[state[n]]
           /\ r.kind = "closed" => R = IF \A c \in Below(n, r.below) : state[c] = "Closed" THEN cmd ELSE r.closer
           /\ r.kind = "row" =>
                /\ state[n] = "Closed" => R = r.closed
                /\ state[n] # "Closed" /\ id \notin row_state[n] => R = r.miss
                /\ state[n] # "Closed" /\ id \in row_state[n] =>
                     /\ r.hit = "itself" => R = cmd
                     /\ r.hit = "alone" => R = IF \E c \in Children(Path(n, Len(n))) : c # n /\ state[c] = "Opened"
                                               THEN "PRE_OTHER" ELSE cmd
                     /\ r.hit = "selected" => R = IF state[n] = "Selected" THEN cmd ELSE "SASEL"
  <1> DEFINE r == IF rule.kind # "segment" THEN rule ELSE IF id % rule.ratio = 0 THEN rule.first ELSE rule.rest
  <1>1. Chosen(rule, id) = r
    BY DEF Chosen
  <1>2. CASE r.kind = "state"
    BY <1>1, <1>2 DEF Required
  <1>3. CASE r.kind = "closed"
    BY <1>1, <1>3 DEF Required
  <1>4. CASE r.kind = "row"
    <2> DEFINE R == Required(rule, n, cmd, id)
               some == \E c \in Children(Path(n, Len(n))) : c # n /\ state[c] = "Opened"
    <2>1. state[n] = "Closed" => R = r.closed
      BY <1>4 DEF Required
    <2>2. state[n] # "Closed" /\ id \notin row_state[n] => R = r.miss
      BY <1>4 DEF Required
    <2>3. ASSUME state[n] # "Closed", id \in row_state[n] PROVE r.hit = "itself" => R = cmd
      BY <1>4, <2>3 DEF Required
    <2>4. ASSUME state[n] # "Closed", id \in row_state[n] PROVE r.hit = "alone" => R = IF some THEN "PRE_OTHER" ELSE cmd
      BY <1>4, <2>4 DEF Required
    <2>5. ASSUME state[n] # "Closed", id \in row_state[n]
          PROVE  r.hit = "selected" => R = IF state[n] = "Selected" THEN cmd ELSE "SASEL"
      BY <1>4, <2>5 DEF Required
    <2> HIDE DEF r, R
    <2> QED BY <1>1, <1>4, <2>1, <2>2, <2>3, <2>4, <2>5 DEF R
  <1>5. CASE r.kind \notin {"state", "closed", "row"}
    <2> HIDE DEF r
    <2> QED BY <1>1, <1>5
  <1> QED BY <1>2, <1>3, <1>4, <1>5

\* What one rule asks for finds what it needs there.
LEMMA RuleFinds ==
    ASSUME TablesSound, Shape, Typed, std \notin TwoLevels, NEW T \in Standard, NEW q \in queue,
           NEW base \in Asked(T), base \in T.command, NEW d \in Depths(q.addr), base \in DOMAIN T.prereq[d],
           NEW cmd \in Needed(T, q), cmd = Required(T.prereq[d][base], Path(q.addr, d), base, q.addr[d])
    PROVE  Finds(T, cmd, get_addr_vec(cmd, q.addr))
  <1> DEFINE L == Len(T.level)
             p == q.addr
             a == get_addr_vec(cmd, p)
             n == Path(p, d)
             id == p[d]
             rule == T.prereq[d][base]
             r == Chosen(rule, id)
  <1> SUFFICES Finds(T, cmd, a)
    OBVIOUS
  <1>1. p \in Seq(Int) /\ Len(p) = L /\ L \in Nat /\ L > 1 /\ \A e \in Depths(p) : Path(p, e) \in Node
    BY StandardIsSound DEF Shape, Addressable
  <1>2. d \in 1 .. L /\ n \in Node /\ Len(n) = d - 1 /\ d \in Level(T)
    <2>1. Len(p) > 0 /\ d \in Depths(p)
      BY <1>1
    <2> HIDE DEF p
    <2>2. d \in 1 .. Len(p) /\ Len(Path(p, d)) = d - 1
      BY <1>1, <2>1, Paths
    <2> QED BY <1>1, <2>1, <2>2 DEF Level
  <1>3. Addressable(T, Node, p) /\ Addressable(T, Node, a) /\ Depth(T, cmd) \in Depths(a)
    BY IssuedAddress DEF Shape
  <1>4. r \in Rules(rule)
    BY DEF Rules, Chosen
  <1> DEFINE R == Required(rule, n, base, id)
  <1>5. cmd = R
    OBVIOUS
  <1>6. /\ r.kind = "state" => R = r.to[state[n]]
        /\ r.kind = "closed" => R = IF \A c \in Below(n, r.below) : state[c] = "Closed" THEN base ELSE r.closer
        /\ r.kind = "row" =>
             /\ state[n] = "Closed" => R = r.closed
             /\ state[n] # "Closed" /\ id \notin row_state[n] => R = r.miss
             /\ state[n] # "Closed" /\ id \in row_state[n] =>
                  /\ r.hit = "itself" => R = base
                  /\ r.hit = "alone" => R = IF \E c \in Children(Path(n, Len(n))) : c # n /\ state[c] = "Opened"
                                            THEN "PRE_OTHER" ELSE base
                  /\ r.hit = "selected" => R = IF state[n] = "Selected" THEN base ELSE "SASEL"
    <2> HIDE DEF rule, n, id
    <2> QED BY RequiredIs
  <1> HIDE DEF rule, R, r
  <1>7. r.kind \in RuleKinds /\ (r.kind = "row" => r.hit \in Hits) /\ RowRule(T, d, base, r)
    <2>1. LevelSound(T, d) /\ RowsSound(std, T)
      BY <1>2, StandardIsSound, RowsAreSound
    <2>2. r.kind \in RuleKinds /\ (r.kind = "row" => r.hit \in Hits)
      BY <1>4, <2>1 DEF LevelSound, rule
    <2>3. RowRule(T, d, base, r)
      BY <1>2, <1>4, <2>1, Zenon DEF RowsSound, rule
    <2> QED BY <2>2, <2>3
  <1>8. Distinct(T) /\ (std = "MASA" => Selects(T))
    BY RowsAreSound
  <1> HIDE DEF n, id
  <1>9. CASE r.kind = "state"
    <2>1. state[n] \in States(T, d)
      <3>1. Len(n) + 1 = d
        BY <1>2
      <3> QED BY <1>2, <3>1 DEF Typed
    <2>2. cmd \notin Switching(T) \cup T.accessing \cup T.refreshing
      BY <1>5, <1>6, <1>7, <1>9, <2>1 DEF RowRule
    <2> HIDE DEF a
    <2> QED BY <2>2 DEF Finds, Switching
  <1>10. CASE r.kind = "closed"
    <2>1. /\ base \in T.refreshing /\ d = T.scope[base] /\ r.below = L - d
          /\ r.closer # "PRE_OTHER" /\ Closer(T, r.closer, d)
      BY <1>7, <1>10 DEF RowRule
    <2>2. \A c \in Leaf(T) : Covers(n, c) <=> c \in Below(n, r.below)
      BY <1>3, <2>1, CoversLeaf DEF n
    <2>3. CASE \A c \in Below(n, r.below) : state[c] = "Closed"
      <3>1. cmd = base
        BY <1>5, <1>6, <1>10, <2>3
      <3>2. cmd # "PRE_OTHER" /\ a = p
        BY <1>8, <3>1 DEF Distinct, get_addr_vec
      <3>3. Depth(T, cmd) = d
        BY <1>2, <2>1, <3>1, DepthOf
      <3>4. \A c \in Leaf(T) : Covers(Path(a, Depth(T, cmd)), c) => state[c] = "Closed"
        BY <2>2, <2>3, <3>2, <3>3 DEF n
      <3>5. cmd \notin T.opening /\ cmd \notin T.accessing /\ cmd \notin T.closing /\ cmd # "SASEL"
        BY <1>8, <2>1, <3>1 DEF Distinct
      <3> HIDE DEF a
      <3> QED BY <3>4, <3>5, Zenon DEF Finds
    <2>4. CASE ~ \A c \in Below(n, r.below) : state[c] = "Closed"
      <3>1. cmd = r.closer
        BY <1>5, <1>6, <1>10, <2>4
      <3>2. cmd # "PRE_OTHER" /\ a = p
        BY <2>1, <3>1 DEF get_addr_vec
      <3>3. cmd \in T.closing /\ cmd \notin T.accessing /\ T.scope[cmd] = d
        BY <2>1, <3>1 DEF Closer
      <3>4. Depth(T, cmd) = d
        BY <1>2, <3>3, DepthOf
      <3>5. PICK c \in Below(n, r.below) : state[c] # "Closed"
        BY <2>4
      <3>6. c \in Leaf(T)
        <4>1. c \in Node /\ Len(c) = Len(n) + (L - d)
          BY <2>1, <3>5 DEF Below
        <4>2. Len(c) = L - 1
          BY <1>1, <1>2, <4>1
        <4> QED BY <4>1, <4>2 DEF Leaf
      <3>7. \E x \in Leaf(T) : Covers(Path(a, Depth(T, cmd)), x) /\ state[x] # "Closed"
        BY <2>2, <3>2, <3>4, <3>5, <3>6 DEF n
      <3>8. cmd \notin T.opening /\ cmd \notin T.refreshing /\ cmd # "SASEL"
        BY <1>8, <3>3 DEF Distinct
      <3> HIDE DEF a
      <3> QED BY <3>3, <3>4, <3>7, <3>8, Zenon DEF Finds
    <2> QED BY <2>3, <2>4
  <1>11. CASE r.kind = "row"
    <2>1. /\ d = L /\ base \in T.accessing /\ r.closed \in T.opening
          /\ r.miss # "PRE_OTHER" /\ Closer(T, r.miss, d)
          /\ r.hit # "child" /\ (r.hit = "alone" => Closer(T, "PRE_OTHER", d))
      BY <1>7, <1>11 DEF RowRule
    <2>2. n \in Leaf(T) /\ n = Front(p) /\ id \in Int /\ Covers(n, n)
      <3>1. n \in Leaf(T) /\ n = Front(p) /\ id \in Int
        BY <1>3, <2>1, LeafOf DEF n, id
      <3> QED BY <1>3, <2>1, <3>1, CoversLeaf DEF n
    <2>3. std = "MASA" => r.hit = "selected"
      <3>1. r \in Rules(T.prereq[L][base])
        BY <1>4, <2>1 DEF rule
      <3> QED BY <1>8, <2>1, <3>1, Zenon DEF Selects
    <2>4. CASE state[n] = "Closed"
      <3>1. cmd = r.closed
        BY <1>5, <1>6, <1>11, <2>4
      <3>2. cmd \in T.opening /\ cmd \notin T.closing /\ cmd \notin T.accessing /\ cmd \notin T.refreshing
            /\ cmd # "SASEL" /\ cmd # "PRE_OTHER"
        BY <1>8, <2>1, <3>1 DEF Distinct
      <3>3. a = p
        BY <3>2 DEF get_addr_vec
      <3> HIDE DEF a
      <3> QED BY <2>1, <2>4, <3>2, <3>3, Zenon DEF Finds, n
    <2>5. ASSUME cmd \in T.closing, cmd \notin T.accessing, T.scope[cmd] = d, NEW c \in Leaf(T), Covers(Path(a, d), c),
                 state[c] # "Closed"
          PROVE  Finds(T, cmd, a)
      <3>1. Depth(T, cmd) = d
        BY <1>2, <2>5, DepthOf
      <3>2. cmd \notin T.opening /\ cmd \notin T.refreshing /\ cmd # "SASEL"
        BY <1>8, <2>5 DEF Distinct
      <3> HIDE DEF a
      <3> QED BY <2>5, <3>1, <3>2 DEF Finds
    <2>6. CASE state[n] # "Closed" /\ id \notin row_state[n]
      <3>1. cmd = r.miss
        BY <1>5, <1>6, <1>11, <2>6
      <3>2. cmd \in T.closing /\ cmd \notin T.accessing /\ T.scope[cmd] = d /\ a = p
        BY <2>1, <3>1 DEF Closer, get_addr_vec
      <3>3. Covers(Path(a, d), n)
        BY <2>2, <3>2 DEF n
      <3> QED BY <2>2, <2>5, <2>6, <3>2, <3>3, Zenon
    <2>7. ASSUME state[n] # "Closed", id \in row_state[n], cmd = base, std = "MASA" => state[n] = "Selected"
          PROVE  Finds(T, cmd, a)
      <3>1. cmd \in T.accessing /\ cmd \notin T.opening /\ cmd \notin T.closing /\ cmd \notin T.refreshing
            /\ cmd # "SASEL" /\ cmd # "PRE_OTHER"
        BY <1>8, <2>1, <2>7 DEF Distinct, Switching
      <3>2. a = p
        BY <3>1 DEF get_addr_vec
      <3> HIDE DEF a
      <3> QED BY <2>1, <2>7, <3>1, <3>2 DEF Finds, n, id
    <2>8. CASE state[n] # "Closed" /\ id \in row_state[n] /\ r.hit = "itself"
      <3>1. cmd = base
        BY <1>5, <1>6, <1>11, <2>8
      <3> QED BY <2>3, <2>7, <2>8, <3>1
    <2>9. CASE state[n] # "Closed" /\ id \in row_state[n] /\ r.hit = "selected"
      <3>1. cmd = IF state[n] = "Selected" THEN base ELSE "SASEL"
        BY <1>5, <1>6, <1>11, <2>9
      <3>2. CASE state[n] = "Selected"
        BY <2>7, <2>9, <3>1, <3>2
      <3>3. CASE state[n] # "Selected"
        <4>1. cmd = "SASEL" /\ a = p
          BY <3>1, <3>3 DEF get_addr_vec
        <4>2. cmd \notin T.opening /\ cmd \notin T.closing /\ cmd \notin T.accessing /\ cmd \notin T.refreshing
          BY <1>8, <4>1 DEF Distinct
        <4> HIDE DEF a
        <4> QED BY <2>1, <2>9, <4>1, <4>2, Zenon DEF Finds, n
      <3> QED BY <3>2, <3>3
    <2>10. CASE state[n] # "Closed" /\ id \in row_state[n] /\ r.hit = "alone"
      <3> DEFINE some == \E c \in Children(Path(n, Len(n))) : c # n /\ state[c] = "Opened"
      <3>1. cmd = IF some THEN "PRE_OTHER" ELSE base
        BY <1>5, <1>6, <1>11, <2>10
      <3>2. CASE ~some
        BY <2>3, <2>7, <2>10, <3>1, <3>2
      <3>3. CASE some
        <4>1. cmd = "PRE_OTHER" /\ a = get_offending_subarray(p)
          BY <3>1, <3>3 DEF get_addr_vec
        <4>2. cmd \in T.closing /\ cmd \notin T.accessing /\ T.scope[cmd] = d
          BY <2>1, <2>10, <4>1 DEF Closer
        <4>3. Len(p) > 2 /\ Len(p) \in Depths(p) /\ Front(Front(p)) \o << 0 >> \in Node
          BY <4>1 DEF Shape, RequestSound
        <4> DEFINE l == L - 2
        <4>4. l \in Nat /\ Len(p) = l + 2 /\ (l + 1) + 1 = L /\ (l + 1) + 1 \in Depths(p) /\ Node \subseteq Seq(Nat)
          BY <1>1, <4>3 DEF Shape
        <4>5. Path(n, Len(n)) = Front(Front(p)) /\ n = Front(p)
          BY <2>2 DEF Front, Path
        <4>6. \E c \in Children(Front(Front(p))) : c # Front(p) /\ state[c] = "Opened"
          BY <3>3, <4>5
        <4> HIDE DEF l, a, p, L
        <4>7. state[Path(a, L)] = "Opened"
          BY <1>1, <4>1, <4>3, <4>4, <4>6, OffendingSubarray
        <4>8. L \in Depths(a)
          <5>1. Depth(T, cmd) = L
            BY <1>2, <2>1, <4>2, DepthOf DEF L
          <5> QED BY <1>3, <5>1
        <4>9. Path(a, L) \in Leaf(T)
          BY <1>3, <4>8, LeafOf DEF L
        <4>10. Covers(Path(a, L), Path(a, L))
          BY <1>3, <4>8, <4>9, CoversLeaf DEF L
        <4>11. Covers(Path(a, d), Path(a, L)) /\ state[Path(a, L)] # "Closed"
          BY <2>1, <4>7, <4>10 DEF L
        <4> QED BY <2>5, <4>2, <4>9, <4>11
      <3> QED BY <3>2, <3>3
    <2>11. r.hit \in {"itself", "selected", "alone"}
      BY <1>7, <1>11, <2>1 DEF Hits
    <2> QED BY <2>4, <2>6, <2>8, <2>9, <2>10, <2>11
  <1> QED BY <1>7, <1>9, <1>10, <1>11 DEF RuleKinds

\* A rule about rows always asks for a command.
LEMMA RuleAnswers ==
    ASSUME TablesSound, Shape, std \notin TwoLevels, NEW T \in Standard,
           NEW base \in Asked(T), base \in T.command, NEW d \in Level(T), base \in DOMAIN T.prereq[d],
           \A x \in Rules(T.prereq[d][base]) : x.kind # "state", NEW n, NEW id
    PROVE  Required(T.prereq[d][base], n, base, id) # "MAX"
  <1> DEFINE rule == T.prereq[d][base]
             r == Chosen(rule, id)
             R == Required(rule, n, base, id)
  <1>1. r \in Rules(rule)
    BY DEF Rules, Chosen
  <1>2. /\ r.kind = "closed" => R \in {base, r.closer}
        /\ r.kind = "row" =>
             \/ R \in {r.closed, r.miss}
             \/ r.hit = "itself" /\ R = base
             \/ r.hit = "alone" /\ R \in {"PRE_OTHER", base}
             \/ r.hit = "selected" /\ R \in {base, "SASEL"}
             \/ r.hit \notin {"itself", "alone", "selected"}
    <2> HIDE DEF rule
    <2> QED BY RequiredIs
  <1> HIDE DEF r, R, rule
  <1>3. /\ r.kind \in RuleKinds /\ r.kind # "state" /\ (r.kind = "row" => r.hit \in Hits) /\ RowRule(T, d, base, r)
    <2>1. LevelSound(T, d) /\ RowsSound(std, T)
      BY StandardIsSound, RowsAreSound
    <2>2. r.kind \in RuleKinds /\ (r.kind = "row" => r.hit \in Hits) /\ r.kind # "state"
      BY <1>1, <2>1 DEF LevelSound, rule
    <2>3. RowRule(T, d, base, r)
      BY <1>1, <2>1, Zenon DEF RowsSound, rule
    <2> QED BY <2>2, <2>3
  <1>4. Distinct(T) /\ "MAX" \notin T.command
    BY RowsAreSound, StandardIsSound DEF StandardSound
  <1>5. base # "MAX" /\ \A c \in T.opening \cup T.closing : c # "MAX"
    BY <1>4 DEF Distinct
  <1>6. ASSUME r.kind = "closed" PROVE R # "MAX"
    <2>1. r.closer \in T.closing
      BY <1>3, <1>6, Zenon DEF RowRule, Closer
    <2>2. r.closer # "MAX" /\ R \in {base, r.closer}
      BY <1>2, <1>5, <1>6, <2>1
    <2> QED BY <1>5, <2>2
  <1>7. ASSUME r.kind = "row" PROVE R # "MAX"
    <2>1. r.closed \in T.opening /\ r.miss \in T.closing /\ r.hit # "child" /\ r.hit \in Hits
      BY <1>3, <1>7, Zenon DEF RowRule, Closer
    <2>2. r.closed # "MAX" /\ r.miss # "MAX" /\ r.hit \in {"itself", "alone", "selected"}
      BY <1>5, <2>1 DEF Hits
    <2>3. R \in {r.closed, r.miss, base, "PRE_OTHER", "SASEL"}
      BY <1>2, <1>7, <2>2
    <2> QED BY <1>5, <2>2, <2>3
  <1>8. r.kind = "closed" \/ r.kind = "row"
    BY <1>3 DEF RuleKinds
  <1>9. R # "MAX"
    BY <1>6, <1>7, <1>8
  <1> QED BY <1>9 DEF R, rule

\* DRAM::decode: every command finds what it needs where it goes.
LEMMA CommandFinds ==
    ASSUME TablesSound, Shape, Typed, std \notin TwoLevels, NEW T \in Standard, NEW q \in queue, NEW cmd,
           cmd = get_first_cmd(T, extended(T, q))
    PROVE  Finds(T, cmd, get_addr_vec(cmd, q.addr))
  <1> DEFINE p == q.addr
             L == Len(T.level)
             kind == extended(T, q).type
             base == T.translate[kind]
             met == {d \in Depths(p) : prereq(T, base, p, d) # "MAX"}
             m == Min(met)
  <1>1. extended(T, q).addr = p /\ cmd \in Needed(T, q)
    BY CommandsNeeded
  <1>2. cmd = decode(T, base, p)
    BY <1>1 DEF get_first_cmd
  <1>3. /\ p \in Seq(Int) /\ Len(p) = L /\ L \in Nat /\ L > 1 /\ RequestSound(T, Node, q)
        /\ \A d \in Depths(p) : Path(p, d) \in Node
    BY StandardIsSound DEF Shape, Addressable
  <1>4. base \in Asked(T) /\ base \in T.command /\ Depth(T, base) \in Depths(p)
    <2>1. kind \in DOMAIN T.translate
      <3>1. q \in [type : DOMAIN T.translate, arrive : Nat, addr : Seq(Int)]
        BY <1>3 DEF RequestSound
      <3>2. kind = q.type \/ (kind = "EXTENSION" /\ "EXTENSION" \in DOMAIN T.translate)
        BY <3>1 DEF extended
      <3> QED BY <3>1, <3>2
    <2>2. base \in Needed(T, q)
      BY DEF Needed, Needs
    <2>3. base \in Asked(T)
      <3> HIDE DEF kind
      <3> QED BY <2>1 DEF Asked
    <2> QED BY <1>3, <2>2, <2>3 DEF RequestSound
  <1>5. Distinct(T) /\ RowsSound(std, T) /\ (base \in T.accessing => T.scope[base] > L)
    BY RowsAreSound
  <1>6. T.scope[base] \in Nat \ {0}
    BY <1>4, StandardIsSound DEF StandardSound
  <1>7. Depths(p) \subseteq 1 .. L
    BY <1>3 DEF Depths
  <1> HIDE DEF base, kind, p
  <1>8. CASE met = {}
    <2>1. cmd = base
      BY <1>2, <1>8 DEF decode
    <2>2. \A d \in Depths(p) : prereq(T, base, p, d) = "MAX"
      BY <1>8
    <2>3. base \notin T.accessing
      <3> SUFFICES ASSUME base \in T.accessing PROVE FALSE
        OBVIOUS
      <3>1. L \in Depths(p)
        <4>1. Depth(T, base) = L
          <5>1. T.scope[base] >= L /\ T.scope[base] \in Int
            BY <1>3, <1>5, <1>6
          <5> QED BY <1>4, <5>1, DepthOf
        <4> QED BY <1>4, <4>1
      <3>2. L \in Level(T) /\ base \in DOMAIN T.prereq[L]
        BY <1>3, <1>4, <1>5 DEF RowsSound, Level
      <3>3. \A x \in Rules(T.prereq[L][base]) : x.kind # "state"
        <4> SUFFICES ASSUME NEW x \in Rules(T.prereq[L][base]) PROVE x.kind # "state"
          OBVIOUS
        <4>1. RowRule(T, L, base, x)
          BY <1>4, <1>5, <3>2, Zenon DEF RowsSound
        <4> QED BY <1>3, <4>1 DEF RowRule
      <3>4. prereq(T, base, p, L) # "MAX"
        BY <1>4, <3>2, <3>3, RuleAnswers DEF prereq
      <3> QED BY <2>2, <3>1, <3>4
    <2>4. base \notin T.refreshing
      <3> SUFFICES ASSUME base \in T.refreshing PROVE FALSE
        OBVIOUS
      <3> DEFINE d == T.scope[base]
      <3>1. /\ d \in Level(T) /\ base \in DOMAIN T.prereq[d]
            /\ \A x \in Rules(T.prereq[d][base]) : x.kind = "closed"
        BY <1>4, <1>5, Zenon DEF RowsSound
      <3>2. Depth(T, base) = d
        <4>1. d <= L /\ d \in Int
          BY <1>3, <3>1 DEF Level
        <4> QED BY <1>4, <4>1, DepthOf
      <3>3. d \in Depths(p)
        BY <1>4, <3>2
      <3> HIDE DEF d
      <3>4. prereq(T, base, p, d) # "MAX"
        BY <1>4, <3>1, RuleAnswers DEF prereq
      <3> QED BY <2>2, <3>3, <3>4
    <2>5. base \notin T.opening /\ base \notin T.closing /\ base # "SASEL"
      BY <1>4, <1>5 DEF Distinct, Switching
    <2> QED BY <2>1, <2>3, <2>4, <2>5 DEF Finds
  <1>9. CASE met # {}
    <2>1. m \in met
      <3>1. met \subseteq Nat
        BY <1>7
      <3> HIDE DEF met
      <3> QED BY <1>9, <3>1, Least
    <2>2. m \in Depths(p) /\ prereq(T, base, p, m) # "MAX" /\ cmd = prereq(T, base, p, m)
      BY <1>2, <1>9, <2>1 DEF decode
    <2> HIDE DEF m, met
    <2>3. base \in DOMAIN T.prereq[m] /\ cmd = Required(T.prereq[m][base], Path(p, m), base, p[m])
      BY <2>2 DEF prereq
    <2>4. m \in Depths(q.addr) /\ cmd = Required(T.prereq[m][base], Path(q.addr, m), base, q.addr[m])
      BY <2>2, <2>3 DEF p
    <2> QED BY <1>1, <1>4, <2>3, <2>4, RuleFinds
  <1> QED BY <1>8, <1>9

\* One change of state, node by node: what becomes of the states v and the rows w.
Affected(rule, n, id, v, w, x, y) ==
    LET group == Children(Path(n, Len(n)))
        closed == IF rule.kind = "close" THEN {n} ELSE UNION {Below(n, k) : k \in rule.below}
        chosen(m) == IF m = n THEN "Selected" ELSE IF m \in group /\ v[m] = "Selected" THEN "Opened" ELSE v[m] IN
    /\ rule.kind \in {"become", "powerDown"} => y = w /\ \A m \in Node : m # n => x[m] = v[m]
    /\ rule.kind \in {"close", "closeBelow"} =>
         \A m \in Node : x[m] = (IF m \in closed THEN "Closed" ELSE v[m]) /\ y[m] = IF m \in closed THEN {} ELSE w[m]
    /\ rule.kind = "open" =>
         \A m \in Node : x[m] = (IF m = n THEN "Opened" ELSE v[m]) /\ y[m] = IF m = n THEN w[m] \cup {id} ELSE w[m]
    /\ rule.kind = "openSelected" =>
         \A m \in Node : x[m] = chosen(m) /\ y[m] = IF m = n THEN w[m] \cup {id} ELSE w[m]
    /\ rule.kind = "select" => y = w /\ \A m \in Node : x[m] = chosen(m)
LEMMA EffectRows ==
    ASSUME NEW rule, NEW n \in Node, NEW id, NEW v \in [Node -> NodeState], NEW w \in [Node -> SUBSET Int],
           NEW s, s = [state |-> v, rows |-> w]
    PROVE  Affected(rule, n, id, v, w, Effect(rule, n, id, s).state, Effect(rule, n, id, s).rows)
  <1> DEFINE R == Effect(rule, n, id, s)
             group == Children(Path(n, Len(n)))
             f == [m \in Node |-> IF m = n THEN "Selected" ELSE IF m \in group /\ v[m] = "Selected" THEN "Opened" ELSE v[m]]
  <1>1. ASSUME NEW x PROVE [s EXCEPT !.state[n] = x] = [state |-> [v EXCEPT ![n] = x], rows |-> w]
    BY StateSet
  <1>2. ASSUME NEW g, NEW r, r = [state |-> g, rows |-> w]
        PROVE  [r EXCEPT !.rows[n] = @ \cup {id}] = [state |-> g, rows |-> [w EXCEPT ![n] = @ \cup {id}]]
    BY <1>2
  <1>3. ASSUME rule.kind \in {"become", "powerDown"} PROVE R.rows = w /\ \A m \in Node : m # n => R.state[m] = v[m]
    <2>1. \E x : R = [s EXCEPT !.state[n] = x]
      <3>1. CASE rule.kind = "become"
        BY <3>1 DEF Effect
      <3>2. CASE rule.kind = "powerDown"
        BY <3>2 DEF Effect
      <3> QED BY <1>3, <3>1, <3>2
    <2>2. PICK x : R = [s EXCEPT !.state[n] = x]
      BY <2>1
    <2>3. R = [state |-> [v EXCEPT ![n] = x], rows |-> w]
      BY <1>1, <2>2, Zenon
    <2> HIDE DEF R
    <2> QED BY <2>3
  <1>4. ASSUME NEW nodes, R = Closing(nodes, s), NEW m \in Node
        PROVE  /\ R.state[m] = IF m \in nodes THEN "Closed" ELSE v[m]
               /\ R.rows[m] = IF m \in nodes THEN {} ELSE w[m]
    <2> HIDE DEF R
    <2> QED BY <1>4 DEF Closing
  <1>5. ASSUME rule.kind = "close"
        PROVE  \A m \in Node : /\ R.state[m] = IF m \in {n} THEN "Closed" ELSE v[m]
                               /\ R.rows[m] = IF m \in {n} THEN {} ELSE w[m]
    <2>1. R = Closing({n}, s)
      BY <1>5 DEF Effect
    <2> HIDE DEF R
    <2> QED BY <1>4, <2>1, Zenon
  <1>6. ASSUME rule.kind = "closeBelow"
        PROVE  \A m \in Node : /\ R.state[m] = IF m \in UNION {Below(n, k) : k \in rule.below} THEN "Closed" ELSE v[m]
                               /\ R.rows[m] = IF m \in UNION {Below(n, k) : k \in rule.below} THEN {} ELSE w[m]
    <2> DEFINE nodes == UNION {Below(n, k) : k \in rule.below}
    <2>1. R = Closing(nodes, s)
      BY <1>6 DEF Effect
    <2> HIDE DEF R, nodes
    <2>2. \A m \in Node : /\ R.state[m] = IF m \in nodes THEN "Closed" ELSE v[m]
                          /\ R.rows[m] = IF m \in nodes THEN {} ELSE w[m]
      BY <1>4, <2>1, Zenon
    <2> QED BY <2>2 DEF nodes
  <1>7. ASSUME rule.kind = "open"
        PROVE  \A m \in Node : /\ R.state[m] = IF m = n THEN "Opened" ELSE v[m]
                               /\ R.rows[m] = IF m = n THEN w[m] \cup {id} ELSE w[m]
    <2> DEFINE x == "Opened"
               r == [s EXCEPT !.state[n] = x]
    <2>1. R = [s EXCEPT !.state[n] = "Opened", !.rows[n] = @ \cup {id}]
      BY <1>7 DEF Effect
    <2>2. R = [r EXCEPT !.rows[n] = @ \cup {id}]
      BY <2>1, OneByOne, Zenon
    <2> HIDE DEF x
    <2>3. r = [state |-> [v EXCEPT ![n] = x], rows |-> w]
      BY <1>1
    <2> HIDE DEF r
    <2>4. R = [state |-> [v EXCEPT ![n] = x], rows |-> [w EXCEPT ![n] = @ \cup {id}]]
      BY <1>2, <2>2, <2>3, Zenon
    <2> HIDE DEF R
    <2> QED BY <2>4 DEF x
  <1>8. Selecting(n, s) = [state |-> f, rows |-> w]
    <2>1. Selecting(n, s) = [s EXCEPT !.state = f]
      BY DEF Selecting
    <2> HIDE DEF f
    <2> QED BY <2>1
  <1>9. ASSUME rule.kind = "openSelected"
        PROVE  \A m \in Node : R.state[m] = f[m] /\ R.rows[m] = IF m = n THEN w[m] \cup {id} ELSE w[m]
    <2>1. R = [Selecting(n, s) EXCEPT !.rows[n] = @ \cup {id}]
      BY <1>9 DEF Effect
    <2> HIDE DEF f
    <2>2. R = [state |-> f, rows |-> [w EXCEPT ![n] = @ \cup {id}]]
      BY <1>2, <1>8, <2>1, Zenon
    <2> HIDE DEF R
    <2> QED BY <2>2
  <1>10. ASSUME rule.kind = "select" PROVE R.rows = w /\ \A m \in Node : R.state[m] = f[m]
    <2>1. R = Selecting(n, s)
      BY <1>10 DEF Effect
    <2> HIDE DEF f
    <2>2. R = [state |-> f, rows |-> w]
      BY <1>8, <2>1, Zenon
    <2> HIDE DEF R
    <2> QED BY <2>2
  <1>11. \A m \in Node : f[m] = IF m = n THEN "Selected" ELSE IF m \in group /\ v[m] = "Selected" THEN "Opened" ELSE v[m]
    OBVIOUS
  <1> HIDE DEF R, f, group
  <1>12. rule.kind \in {"close", "closeBelow"} =>
           \A m \in Node : /\ R.state[m] = IF m \in (IF rule.kind = "close" THEN {n} ELSE UNION {Below(n, k) : k \in rule.below})
                                           THEN "Closed" ELSE v[m]
                           /\ R.rows[m] = IF m \in (IF rule.kind = "close" THEN {n} ELSE UNION {Below(n, k) : k \in rule.below})
                                          THEN {} ELSE w[m]
    <2>1. CASE rule.kind = "close"
      BY <1>5, <2>1
    <2>2. CASE rule.kind = "closeBelow"
      BY <1>6, <2>2
    <2> QED BY <2>1, <2>2
  <1>13. rule.kind = "openSelected" =>
           \A m \in Node : /\ R.state[m] = IF m = n THEN "Selected" ELSE IF m \in group /\ v[m] = "Selected" THEN "Opened" ELSE v[m]
                           /\ R.rows[m] = IF m = n THEN w[m] \cup {id} ELSE w[m]
    BY <1>9, <1>11
  <1>14. rule.kind = "select" => R.rows = w /\
           \A m \in Node : R.state[m] = IF m = n THEN "Selected" ELSE IF m \in group /\ v[m] = "Selected" THEN "Opened" ELSE v[m]
    BY <1>10, <1>11
  <1> QED BY <1>3, <1>7, <1>12, <1>13, <1>14, Zenon DEF Affected, R, group

\* Of the levels on the way, one at most changes its state.
Turned(T, cmd, a) ==
    \/ /\ \A d \in 1 .. Depth(T, cmd) : cmd \notin DOMAIN T.lambda[d]
       /\ state' = state /\ row_state' = row_state
    \/ \E d \in 1 .. Depth(T, cmd) : \E s :
         /\ cmd \in DOMAIN T.lambda[d] /\ RowChange(T, d, cmd) /\ s = [state |-> state, rows |-> row_state]
         /\ state' = Effect(T.lambda[d][cmd], Path(a, d), a[d], s).state
         /\ row_state' = Effect(T.lambda[d][cmd], Path(a, d), a[d], s).rows
LEMMA OneTurn ==
    ASSUME TablesSound, Shape, Typed, std \notin TwoLevels, NEW T \in Standard, NEW q, NEW cmd, NEW a, NEW t,
           Issues(T, q, cmd, a, t)
    PROVE  Turned(T, cmd, a)
  <1> DEFINE last == Depth(T, cmd)
             first == [state |-> state, rows |-> row_state]
             In(d) == cmd \in DOMAIN T.lambda[d]
             Turn(d, s) == Effect(T.lambda[d][cmd], Path(a, d), a[d], s)
  <1>1. PICK after : /\ after[0] = first
                     /\ \A d \in 1 .. last : after[d] = TurnOf(T, cmd, a, d, after[d - 1])
                     /\ state' = after[last].state /\ row_state' = after[last].rows
    BY StateTurns
  <1>2. \A d \in 1 .. last : after[d] = IF In(d) THEN Turn(d, after[d - 1]) ELSE after[d - 1]
    <2> HIDE DEF last
    <2> QED BY <1>1 DEF TurnOf
  <1>3. last \in 1 .. Len(T.level) /\ Len(T.level) \in Nat /\ last \in Nat
    <2>1. last \in 1 .. Len(T.level) /\ Len(T.level) \in Nat
      BY DepthIs, StandardIsSound DEF Issues
    <2> HIDE DEF last
    <2> QED BY <2>1
  <1>4. \A d \in Level(T) : In(d) => RowChange(T, d, cmd) /\ \A e \in Level(T) : In(e) => e = d
    BY RowsAreSound DEF Issues
  <1>5. \A d \in 1 .. last : d \in Level(T)
    <2> HIDE DEF last
    <2> QED BY <1>3 DEF Level
  <1> HIDE DEF last, first, Turn, In
  <1>6. CASE \A d \in 1 .. last : ~In(d)
    <2> DEFINE S == {d \in Nat : d <= last => after[d] = first}
    <2>1. 0 \in S
      BY <1>1
    <2>2. ASSUME NEW d \in Nat, d \in S PROVE d + 1 \in S
      <3> SUFFICES ASSUME d + 1 <= last PROVE after[d + 1] = first
        OBVIOUS
      <3>1. d + 1 \in 1 .. last /\ (d + 1) - 1 = d /\ d <= last
        BY <1>3
      <3> QED BY <1>2, <1>6, <2>2, <3>1
    <2>3. \A d \in Nat : d \in S
      <3> HIDE DEF S
      <3> QED BY <2>1, <2>2, SetInduction
    <2>4. after[last] = first
      BY <1>3, <2>3
    <2>5. state' = state /\ row_state' = row_state
      BY <1>1, <2>4 DEF first
    <2> QED BY <1>6, <2>5 DEF Turned, last, In
  <1>7. CASE \E d \in 1 .. last : In(d)
    <2>1. PICK e \in 1 .. last : In(e)
      BY <1>7
    <2>2. \A d \in 1 .. last : In(d) => d = e
      BY <1>4, <1>5, <2>1
    <2> DEFINE S == {d \in Nat : d <= last => after[d] = IF d < e THEN first ELSE Turn(e, first)}
    <2>3. 0 \in S
      BY <1>1, <1>3
    <2>4. ASSUME NEW d \in Nat, d \in S PROVE d + 1 \in S
      <3> SUFFICES ASSUME d + 1 <= last PROVE after[d + 1] = IF d + 1 < e THEN first ELSE Turn(e, first)
        OBVIOUS
      <3>1. d + 1 \in 1 .. last /\ (d + 1) - 1 = d /\ d <= last /\ e \in Nat
        BY <1>3
      <3>2. after[d] = IF d < e THEN first ELSE Turn(e, first)
        BY <2>4, <3>1
      <3>3. CASE d + 1 = e
        <4>1. after[d + 1] = Turn(e, after[d])
          BY <1>2, <2>1, <3>1, <3>3
        <4>2. d < e /\ ~(d + 1 < e)
          BY <3>1, <3>3
        <4> QED BY <3>2, <4>1, <4>2
      <3>4. CASE d + 1 # e
        <4>1. after[d + 1] = after[d]
          BY <1>2, <2>2, <3>1, <3>4
        <4>2. d + 1 < e <=> d < e
          BY <3>1, <3>4
        <4> QED BY <3>2, <4>1, <4>2
      <3> QED BY <3>3, <3>4
    <2>5. \A d \in Nat : d \in S
      <3> HIDE DEF S
      <3> QED BY <2>3, <2>4, SetInduction
    <2>6. after[last] = Turn(e, first)
      <3>1. ~(last < e)
        BY <1>3
      <3> QED BY <1>3, <2>5, <3>1
    <2>7. state' = Turn(e, first).state /\ row_state' = Turn(e, first).rows
      BY <1>1, <2>6
    <2>8. RowChange(T, e, cmd)
      BY <1>4, <1>5, <2>1
    <2>9. first = [state |-> state, rows |-> row_state]
      BY DEF first
    <2> HIDE DEF first
    <2> QED BY <2>1, <2>7, <2>8, <2>9 DEF Turned, last, In, Turn
  <1> QED BY <1>6, <1>7

\* What a command leaves in the row buffers: a row is added to the one it opens, those
\* that it closes are emptied, and the others stay as they were.
Opens(T, cmd, a, b) == cmd \in T.opening /\ b = Path(a, Len(T.level))
Closes(T, cmd, a, b) == cmd \in T.closing /\ Covers(Path(a, Depth(T, cmd)), b)
SelectsIn(T, cmd, a, b) == cmd \in {"ACT", "SASEL"} /\ Path(b, Len(T.level) - 1) = Path(a, Len(T.level) - 1)
RowAfter(T, cmd, a, b) ==
    /\ Opens(T, cmd, a, b) => row_state'[b] = row_state[b] \cup {a[Len(T.level)]} /\ state'[b] # "Closed"
    /\ Closes(T, cmd, a, b) => row_state'[b] = {} /\ state'[b] = "Closed"
    /\ ~Opens(T, cmd, a, b) /\ ~Closes(T, cmd, a, b) =>
         row_state'[b] = row_state[b] /\ (state'[b] = "Closed" <=> state[b] = "Closed")
    /\ std = "MASA" /\ state'[b] = "Selected" =>
         \/ cmd \in {"ACT", "SASEL"} /\ b = Path(a, Len(T.level))
         \/ state[b] = "Selected" /\ ~SelectsIn(T, cmd, a, b)
LEMMA RowStep ==
    ASSUME TablesSound, Shape, Typed, std \notin TwoLevels, NEW T \in Standard, NEW q, NEW cmd, NEW a, NEW t,
           Issues(T, q, cmd, a, t), Finds(T, cmd, a), NEW b \in Leaf(T)
    PROVE  RowAfter(T, cmd, a, b)
  <1> DEFINE L == Len(T.level)
             last == Depth(T, cmd)
  <1>1. /\ a \in Seq(Int) /\ Len(a) = L /\ L \in Nat /\ L > 1 /\ last \in Depths(a) /\ Addressable(T, Node, a)
        /\ \A d \in Depths(a) : Path(a, d) \in Node
    BY StandardIsSound DEF Issues, Addressable
  <1>2. last \in 1 .. L /\ \A d \in 1 .. last : d \in Depths(a) /\ d \in 1 .. L /\ Len(Path(a, d)) = d - 1
    <2>1. last \in 1 .. L /\ \A d \in 1 .. last : d \in Depths(a)
      <3> HIDE DEF last
      <3> QED BY <1>1, Paths
    <2>2. \A d \in Depths(a) : d \in 1 .. L /\ Len(Path(a, d)) = d - 1
      BY <1>1, Paths
    <2> HIDE DEF last
    <2> QED BY <2>1, <2>2
  <1>3. b \in Node /\ b \in Seq(Nat) /\ Len(b) = L - 1
    BY DEF Leaf, Shape
  <1>4. state \in [Node -> NodeState] /\ row_state \in [Node -> SUBSET Int]
    BY DEF Typed
  <1>5. Distinct(T) /\ (std = "MASA" => Selects(T)) /\ \A c \in T.opening : T.scope[c] > L
    BY RowsAreSound
  <1>6. cmd \in T.command /\ cmd \in Issuable(std) /\ T.scope[cmd] \in Nat
    BY DepthIs DEF Issues
  <1>7. cmd \in T.opening => last = L
    <2>1. cmd \in T.opening => T.scope[cmd] >= L /\ T.scope[cmd] \in Int
      BY <1>1, <1>5, <1>6
    <2> QED BY <2>1, DepthOf
  <1>8. cmd \in T.opening \cup T.closing => cmd \in DOMAIN T.lambda[last]
    BY <1>6, RowsAreSound
  <1>9. /\ cmd \in T.opening => cmd \notin T.closing /\ cmd # "SASEL"
        /\ cmd \in T.closing => cmd # "SASEL"
        /\ std = "MASA" => (cmd \in T.opening <=> cmd = "ACT")
    BY <1>5 DEF Distinct, Selects
  <1>10. std = "MASA" /\ cmd \in {"ACT", "SASEL"} => cmd \in DOMAIN T.lambda[L] /\ L \in 1 .. last
    <2>1. cmd = "ACT" /\ std = "MASA" => cmd \in T.opening
      BY <1>9
    <2>2. cmd = "SASEL" /\ std = "MASA" => cmd \in DOMAIN T.lambda[L] /\ T.scope[cmd] >= L
      BY <1>5 DEF Selects
    <2>3. T.scope[cmd] >= L => last = L
      <3>1. T.scope[cmd] \in Int
        BY <1>6
      <3> QED BY <3>1, DepthOf
    <2>4. L \in 1 .. L
      BY <1>1
    <2> QED BY <1>7, <1>8, <2>1, <2>2, <2>3, <2>4
  <1>11. Turned(T, cmd, a)
    BY OneTurn
  <1> DEFINE o == Opens(T, cmd, a, b)
             c == Closes(T, cmd, a, b)
  <1>12. CASE (\A d \in 1 .. last : cmd \notin DOMAIN T.lambda[d]) /\ state' = state /\ row_state' = row_state
    <2>1. cmd \notin T.opening /\ cmd \notin T.closing
      <3>1. last \in 1 .. last
        <4> HIDE DEF last
        <4> QED BY <1>1, <1>2
      <3> QED BY <1>8, <1>12, <3>1
    <2>2. ~(std = "MASA" /\ cmd \in {"ACT", "SASEL"})
      <3> HIDE DEF last, L
      <3> QED BY <1>10, <1>12
    <2> QED BY <1>12, <2>1, <2>2 DEF RowAfter, Opens, Closes, SelectsIn
  <1>13. ASSUME NEW d \in 1 .. last, NEW s, cmd \in DOMAIN T.lambda[d], RowChange(T, d, cmd),
                s = [state |-> state, rows |-> row_state],
                state' = Effect(T.lambda[d][cmd], Path(a, d), a[d], s).state,
                row_state' = Effect(T.lambda[d][cmd], Path(a, d), a[d], s).rows
         PROVE  RowAfter(T, cmd, a, b)
    <2> DEFINE rule == T.lambda[d][cmd]
               n == Path(a, d)
               id == a[d]
               group == Children(Path(n, Len(n)))
               closed == IF rule.kind = "close" THEN {n} ELSE UNION {Below(n, k) : k \in rule.below}
               chosen(m) == IF m = n THEN "Selected" ELSE IF m \in group /\ state[m] = "Selected" THEN "Opened" ELSE state[m]
    <2>1. d \in Depths(a) /\ d \in 1 .. L /\ n \in Node /\ Len(n) = d - 1 /\ d \in Level(T)
      <3>1. d \in Depths(a) /\ d \in 1 .. L /\ Len(n) = d - 1
        <4> HIDE DEF last
        <4> QED BY <1>2
      <3> QED BY <1>1, <3>1 DEF Level
    <2>2. /\ rule.kind \in {"become", "powerDown"} => row_state' = row_state /\ \A m \in Node : m # n => state'[m] = state[m]
          /\ rule.kind \in {"close", "closeBelow"} =>
               \A m \in Node : /\ state'[m] = IF m \in closed THEN "Closed" ELSE state[m]
                               /\ row_state'[m] = IF m \in closed THEN {} ELSE row_state[m]
          /\ rule.kind = "open" =>
               \A m \in Node : /\ state'[m] = IF m = n THEN "Opened" ELSE state[m]
                               /\ row_state'[m] = IF m = n THEN row_state[m] \cup {id} ELSE row_state[m]
          /\ rule.kind = "openSelected" =>
               \A m \in Node : /\ state'[m] = chosen(m)
                               /\ row_state'[m] = IF m = n THEN row_state[m] \cup {id} ELSE row_state[m]
          /\ rule.kind = "select" => row_state' = row_state /\ \A m \in Node : state'[m] = chosen(m)
      <3>1. Affected(rule, n, id, state, row_state, state', row_state')
        <4> DEFINE R == Effect(rule, n, id, s)
        <4>1. state' = R.state /\ row_state' = R.rows
          BY <1>13
        <4> HIDE DEF rule, n, id
        <4>2. Affected(rule, n, id, state, row_state, R.state, R.rows)
          BY <1>4, <1>13, <2>1, EffectRows, Zenon
        <4> HIDE DEF R
        <4> QED BY <4>1, <4>2, Zenon
      <3> HIDE DEF rule, n, id
      <3> QED BY <3>1, Zenon DEF Affected
    <2> DEFINE k == rule.kind
    <2>3. /\ cmd \in T.opening => d = L /\ k \in {"open", "openSelected"}
          /\ cmd \in T.closing /\ cmd \notin T.opening =>
               d = last /\ \/ d = L /\ k = "close"
                           \/ d < L /\ k = "closeBelow" /\ rule.below = {L - d}
          /\ cmd = "SASEL" /\ cmd \notin T.opening \cup T.closing => d = L /\ k = "select"
          /\ cmd # "SASEL" /\ cmd \notin T.opening \cup T.closing => d < L /\ k \in {"become", "powerDown"}
      <3>1. RowChange(T, d, cmd)
        BY <1>13
      <3> DEFINE Open == cmd \in T.opening
                 Close == cmd \in T.closing
                 Sel == cmd = "SASEL"
      <3>2. CASE Open
        BY <3>1, <3>2, <1>9 DEF RowChange
      <3>3. CASE ~Open /\ Close
        BY <3>1, <3>3, <1>9 DEF RowChange
      <3>4. CASE ~Open /\ ~Close /\ Sel
        BY <3>1, <3>4 DEF RowChange
      <3>5. CASE ~Open /\ ~Close /\ ~Sel
        BY <3>1, <3>5 DEF RowChange
      <3> QED BY <3>2, <3>3, <3>4, <3>5
    <2>4. d = L => (Path(n, Len(n)) = Path(a, L - 1) /\ (b \in group <=> Path(b, L - 1) = Path(a, L - 1)))
      <3> SUFFICES ASSUME d = L PROVE Path(n, Len(n)) = Path(a, L - 1) /\ (b \in group <=> Path(b, L - 1) = Path(a, L - 1))
        OBVIOUS
      <3>1. d - 1 \in 1 .. d /\ d - 1 \in Nat
        BY <1>1
      <3>2. d - 1 \in Depths(a) /\ Path(a, d - 1) = SubSeq(n, 1, (d - 1) - 1)
        <4> HIDE DEF L
        <4> QED BY <1>1, <2>1, <3>1, Paths
      <3>3. Path(n, Len(n)) = Path(a, L - 1)
        BY <2>1, <3>2 DEF Path
      <3>4. Len(Path(a, d - 1)) = (d - 1) - 1
        BY <1>1, <3>2, Paths
      <3>5. Len(b) = Len(Path(a, L - 1)) + 1 /\ Len(b) = L - 1
        BY <1>1, <1>3, <3>4
      <3> HIDE DEF n
      <3> QED BY <1>3, <3>3, <3>5 DEF Children
    <2>5. (k = "close" /\ d = L) \/ (k = "closeBelow" /\ rule.below = {L - d}) => (b \in closed <=> Covers(n, b))
      <3>1. (Covers(n, b) <=> b \in Below(n, L - d)) /\ (d = L => (Covers(n, b) <=> b = n))
        BY <1>1, <2>1, CoversLeaf
      <3>2. ASSUME k = "close", d = L PROVE b \in closed <=> Covers(n, b)
        BY <3>1, <3>2
      <3>3. ASSUME k = "closeBelow", rule.below = {L - d} PROVE b \in closed <=> Covers(n, b)
        <4>1. closed = Below(n, L - d)
          BY <3>3
        <4> HIDE DEF closed
        <4> QED BY <3>1, <4>1
      <3> QED BY <3>2, <3>3
    <2> HIDE DEF rule, id, closed, group, k
    <2>6. CASE cmd \in T.opening
      <3>1. d = L /\ k \in {"open", "openSelected"} /\ ~c /\ (o <=> b = n)
        BY <1>9, <2>3, <2>6 DEF Opens, Closes
      <3>2. row_state'[b] = IF b = n THEN row_state[b] \cup {id} ELSE row_state[b]
        BY <1>3, <2>2, <3>1, Zenon DEF k
      <3>3. state'[b] = chosen(b) \/ state'[b] = IF b = n THEN "Opened" ELSE state[b]
        BY <1>3, <2>2, <3>1, Zenon DEF k
      <3>4. std = "MASA" => state'[b] = chosen(b)
        <4> SUFFICES ASSUME std = "MASA" PROVE state'[b] = chosen(b)
          OBVIOUS
        <4>1. cmd = "ACT" /\ T.lambda[L]["ACT"].kind = "openSelected"
          BY <1>5, <1>9, <2>6 DEF Selects
        <4>2. k = "openSelected"
          BY <3>1, <4>1 DEF k, rule
        <4> QED BY <1>3, <2>2, <4>2 DEF k
      <3>5. /\ b = n => state'[b] \in {"Selected", "Opened"}
            /\ b # n => (state'[b] = "Closed" <=> state[b] = "Closed")
        BY <3>3
      <3>6. std = "MASA" /\ state'[b] = "Selected" /\ b # n => state[b] = "Selected" /\ b \notin group
        BY <3>4
      <3>7. o => b = n /\ b = Path(a, L) /\ a[L] = id
        BY <3>1 DEF id
      <3>8. std = "MASA" => cmd \in {"ACT", "SASEL"}
        BY <1>9, <2>6
      <3>9. b \notin group <=> ~(Path(b, L - 1) = Path(a, L - 1))
        BY <2>4, <3>1
      <3>10. n = Path(a, L)
        BY <3>1
      <3> HIDE DEF n, chosen, o, c, L
      <3>11. o => row_state'[b] = row_state[b] \cup {a[L]} /\ state'[b] # "Closed"
        BY <3>2, <3>5, <3>7
      <3>12. ~o => row_state'[b] = row_state[b] /\ (state'[b] = "Closed" <=> state[b] = "Closed")
        BY <3>1, <3>2, <3>5
      <3>13. std = "MASA" /\ state'[b] = "Selected" =>
               \/ cmd \in {"ACT", "SASEL"} /\ b = Path(a, L)
               \/ state[b] = "Selected" /\ ~SelectsIn(T, cmd, a, b)
        BY <3>6, <3>8, <3>9, <3>10 DEF SelectsIn, L
      <3> QED BY <3>1, <3>11, <3>12, <3>13, Zenon DEF RowAfter, o, c, L
    <2>7. CASE cmd \in T.closing
      <3>1. std = "MASA" => cmd \notin {"ACT", "SASEL"}
        BY <1>9, <2>7
      <3>2. ~o /\ (c <=> Covers(n, b)) /\ (b \in closed <=> Covers(n, b)) /\ k \in {"close", "closeBelow"}
        <4>1. d = last /\ cmd \notin T.opening
          BY <1>9, <2>3, <2>7
        <4>2. b \in closed <=> Covers(n, b)
          BY <2>3, <2>5, <2>7, <4>1
        <4> QED BY <2>3, <2>7, <4>1, <4>2 DEF Opens, Closes
      <3>3. /\ state'[b] = IF b \in closed THEN "Closed" ELSE state[b]
            /\ row_state'[b] = IF b \in closed THEN {} ELSE row_state[b]
        BY <1>3, <2>2, <3>2 DEF k
      <3>4. std = "MASA" /\ state'[b] = "Selected" => state[b] = "Selected" /\ ~SelectsIn(T, cmd, a, b)
        BY <3>1, <3>3 DEF SelectsIn
      <3> HIDE DEF o, c, n
      <3>5. c => row_state'[b] = {} /\ state'[b] = "Closed"
        BY <3>2, <3>3
      <3>6. ~c => row_state'[b] = row_state[b] /\ state'[b] = state[b]
        BY <3>2, <3>3
      <3> QED BY <3>2, <3>4, <3>5, <3>6, Zenon DEF RowAfter, o, c
    <2>8. CASE cmd = "SASEL"
      <3>1. cmd \notin T.opening \cup T.closing
        BY <1>9, <2>8
      <3>2. d = L /\ k = "select" /\ ~o /\ ~c
        BY <2>3, <2>8, <3>1 DEF Opens, Closes
      <3>3. row_state' = row_state /\ state'[b] = chosen(b)
        BY <1>3, <2>2, <3>2 DEF k
      <3>4. b = n => state[b] # "Closed"
        BY <2>8, <3>2 DEF Finds
      <3>5. state'[b] = "Closed" <=> state[b] = "Closed"
        <4> HIDE DEF n
        <4> QED BY <3>3, <3>4
      <3>6. std = "MASA" /\ state'[b] = "Selected" /\ b # n => state[b] = "Selected" /\ b \notin group
        <4> HIDE DEF n
        <4> QED BY <3>3
      <3>7. b \notin group <=> ~(Path(b, L - 1) = Path(a, L - 1))
        BY <2>4, <3>2
      <3>8. n = Path(a, L)
        BY <3>2
      <3> HIDE DEF n, chosen, o, c
      <3>9. std = "MASA" /\ state'[b] = "Selected" =>
               \/ cmd \in {"ACT", "SASEL"} /\ b = Path(a, L)
               \/ state[b] = "Selected" /\ ~SelectsIn(T, cmd, a, b)
        BY <2>8, <3>6, <3>7, <3>8 DEF SelectsIn
      <3> QED BY <3>2, <3>3, <3>5, <3>9, Zenon DEF RowAfter, o, c
    <2>9. CASE cmd # "SASEL" /\ cmd \notin T.opening \cup T.closing
      <3>1. d < L /\ k \in {"become", "powerDown"} /\ ~o /\ ~c /\ (std = "MASA" => cmd \notin {"ACT", "SASEL"})
        BY <1>9, <2>3, <2>9 DEF Opens, Closes
      <3>2. b # n
        BY <1>1, <1>3, <2>1, <3>1
      <3>3. row_state' = row_state /\ state'[b] = state[b]
        <4> HIDE DEF n
        <4> QED BY <1>3, <2>2, <3>1, <3>2 DEF k
      <3>4. std = "MASA" => ~SelectsIn(T, cmd, a, b)
        BY <3>1 DEF SelectsIn
      <3> HIDE DEF o, c
      <3> QED BY <3>1, <3>3, <3>4, Zenon DEF RowAfter, o, c
    <2> QED BY <2>6, <2>7, <2>8, <2>9
  <1> QED BY <1>11, <1>12, <1>13 DEF Turned

\* The node at which a command ends, and the one it is addressed to.
LEMMA EndsOf ==
    ASSUME TablesSound, Shape, NEW T \in Standard, NEW e, Addressable(T, Node, e.addr), e.cmd \in T.command,
           Depth(T, e.cmd) \in Depths(e.addr)
    PROVE  Ends(T, e) = Path(e.addr, Depth(T, e.cmd))
  <1> DEFINE D == Depths(e.addr)
             s == T.scope[e.cmd]
             x == Depth(T, e.cmd)
             Furthest(d) == d \in D /\ d <= s /\ \A k \in D : k <= s => k <= d
  <1>1. e.addr \in Seq(Int) /\ Len(e.addr) = Len(T.level) /\ Len(T.level) \in Nat /\ Len(T.level) > 1
    BY StandardIsSound DEF Addressable
  <1>2. x \in D /\ x \in 1 .. Len(T.level) /\ x <= s /\ s \in Nat /\ (x = s \/ x = Len(T.level))
    BY DepthIs
  <1>3. \A d \in D : d \in 1 .. Len(T.level)
    <2> HIDE DEF x, s
    <2> QED BY <1>1, Paths
  <1> HIDE DEF D, s, x
  <1>4. Furthest(x)
    BY <1>1, <1>2, <1>3
  <1>5. \A d : Furthest(d) => d = x
    BY <1>1, <1>2, <1>3
  <1>6. (CHOOSE d \in D : d <= s /\ \A k \in D : k <= s => k <= d) = x
    BY <1>4, <1>5
  <1> QED BY <1>6 DEF Ends, Deepest, D, s, x

LEMMA AddressedAt ==
    ASSUME TablesSound, Shape, NEW T \in Standard, NEW e, Addressable(T, Node, e.addr)
    PROVE  /\ \E m \in Depths(e.addr) : Addressed(e) = Path(e.addr, m) /\ \A k \in Depths(e.addr) : k <= m
           /\ Len(T.level) \in Depths(e.addr) => Addressed(e) = Path(e.addr, Len(T.level))
  <1> DEFINE a == e.addr
             D == Depths(a)
             l == Len(a)
             Furthest(d) == d \in D /\ d <= l /\ \A k \in D : k <= l => k <= d
  <1>1. a \in Seq(Int) /\ l = Len(T.level) /\ l \in Nat /\ l > 1
    BY StandardIsSound DEF Addressable
  <1>2. 1 \in D /\ \A d \in D : d \in 1 .. l
    <2> HIDE DEF a
    <2> QED BY <1>1, Paths
  <1> DEFINE m == CHOOSE d \in D : d <= l /\ \A k \in D : k <= l => k <= d
  <1>3. \E d : Furthest(d)
    <2>1. IsFiniteSet(D) /\ D \subseteq Int
      <3>1. IsFiniteSet(1 .. l) /\ 1 .. l \subseteq Int
        BY <1>1, FS_Interval
      <3> HIDE DEF D
      <3> QED BY <1>2, <3>1, FS_Subset
    <2> HIDE DEF D, l
    <2>2. Max(D) \in D /\ \A k \in D : k <= Max(D)
      BY <1>2, <2>1, Extremes
    <2> QED BY <1>1, <1>2, <2>2
  <1> HIDE DEF D, l
  <1>4. Furthest(m)
    BY <1>3
  <1>5. Addressed(e) = Path(a, m)
    BY DEF Addressed, Deepest, D, l
  <1> HIDE DEF m
  <1>6. \A k \in D : k <= m
    BY <1>2, <1>4
  <1>7. l \in D => m = l
    BY <1>1, <1>2, <1>4, <1>6
  <1> QED BY <1>1, <1>4, <1>5, <1>6, <1>7 DEF D, a

\* The rows open at a position of the log depend on the commands before it only, and
\* one more command changes those that it switches.
LEMMA OpenGrows ==
    ASSUME NEW T, NEW b, NEW e, Grown(T, e)
    PROVE  /\ \A i \in 1 .. Len(log) + 1 : OpenAt(T, b, i)' = OpenAt(T, b, i)
           /\ OpenAt(T, b, Len(log) + 1)' =
                IF Switches(T, e) /\ Covers(Ends(T, e), b) THEN IF IsOpening(T, e) THEN {Row(e)} ELSE {}
                ELSE OpenAt(T, b, Len(log) + 1)
  <1> DEFINE On(x) == Switches(T, x) /\ Covers(Ends(T, x), b)
             found(g, i) == {k \in 1 .. i - 1 : On(g[k])}
             last(g, i) == IF found(g, i) = {} THEN 0 ELSE CHOOSE k \in found(g, i) : \A m \in found(g, i) : m <= k
             open(g, i) == {Row(g[k]) : k \in {k \in {last(g, i)} : k # 0 /\ IsOpening(T, g[k])}}
             l == Len(log)
  <1>1. \A i : OpenAt(T, b, i) = open(log, i) /\ OpenAt(T, b, i)' = open(log', i)
    BY DEF OpenAt, LastOf
  <1>2. l \in Nat /\ Len(log') = l + 1 /\ log'[l + 1] = e /\ \A i \in 1 .. l : log'[i] = log[i]
    BY DEF Grown
  <1>3. ASSUME NEW f, NEW g, NEW i \in Nat, NEW j \in Nat, found(f, i) = found(g, j), \A k \in found(g, j) : f[k] = g[k]
        PROVE  open(f, i) = open(g, j)
    <2>1. last(f, i) = last(g, j)
      <3> HIDE DEF found
      <3> QED BY <1>3
    <2>2. last(g, j) # 0 => last(g, j) \in found(g, j)
      <3>1. j - 1 \in Int /\ found(g, j) \subseteq 1 .. j - 1
        OBVIOUS
      <3> HIDE DEF found
      <3> QED BY <3>1, FoundLast
    <2>3. last(g, j) # 0 => f[last(g, j)] = g[last(g, j)]
      <3> HIDE DEF found, last
      <3> QED BY <1>3, <2>2
    <2> HIDE DEF last
    <2> QED BY <2>1, <2>3
  <1> HIDE DEF On, l
  <1>4. ASSUME NEW i \in 1 .. l + 1 PROVE open(log', i) = open(log, i)
    <2>1. \A k \in 1 .. i - 1 : log'[k] = log[k]
      BY <1>2
    <2>2. i \in Nat /\ found(log', i) = found(log, i) /\ \A k \in found(log, i) : log'[k] = log[k]
      BY <1>2, <2>1
    <2> HIDE DEF found, open
    <2> QED BY <1>3, <2>2
  <1>5. ASSUME On(e) PROVE open(log', (l + 1) + 1) = IF IsOpening(T, e) THEN {Row(e)} ELSE {}
    <2> DEFINE F == found(log', (l + 1) + 1)
    <2>1. l + 1 \in F /\ \A k \in F : k \in Nat /\ k <= l + 1
      BY <1>2, <1>5
    <2> HIDE DEF F
    <2>2. (CHOOSE k \in F : \A m \in F : m <= k) = l + 1
      <3>1. \A k \in F : (\A m \in F : m <= k) => k = l + 1
        BY <1>2, <2>1
      <3> QED BY <2>1, <3>1
    <2>3. last(log', (l + 1) + 1) = l + 1
      <3>1. last(log', (l + 1) + 1) = IF F = {} THEN 0 ELSE CHOOSE k \in F : \A m \in F : m <= k
        BY DEF F
      <3> HIDE DEF last
      <3> QED BY <2>1, <2>2, <3>1
    <2>4. l + 1 # 0
      BY <1>2
    <2> HIDE DEF last
    <2> QED BY <1>2, <2>3, <2>4
  <1>6. ASSUME ~On(e) PROVE open(log', (l + 1) + 1) = open(log, l + 1)
    <2>1. found(log', (l + 1) + 1) = found(log, l + 1)
      <3>1. \A k : k \in 1 .. ((l + 1) + 1) - 1 <=> k \in 1 .. (l + 1) - 1 \/ k = l + 1
        BY <1>2
      <3> QED BY <1>2, <1>6, <3>1
    <2>2. \A k \in found(log, l + 1) : log'[k] = log[k]
      BY <1>2
    <2>3. (l + 1) + 1 \in Nat /\ l + 1 \in Nat
      BY <1>2
    <2> HIDE DEF found, open
    <2> QED BY <1>3, <2>1, <2>2, <2>3
  <1> HIDE DEF open
  <1>7. OpenAt(T, b, Len(log) + 1)' = open(log', (l + 1) + 1)
    BY <1>1, <1>2
  <1> QED BY <1>1, <1>4, <1>5, <1>6, <1>7 DEF On, l

\* At most one row is open.
LEMMA OneOpen ==
    ASSUME NEW T, NEW b, NEW i, NEW x \in OpenAt(T, b, i) PROVE OpenAt(T, b, i) = {x}
  <1> DEFINE k == LastOf(T, b, i, Switches)
  <1>1. OpenAt(T, b, i) = {Row(log[m]) : m \in {m \in {k} : m # 0 /\ IsOpening(T, log[m])}}
    BY DEF OpenAt
  <1> HIDE DEF k
  <1> QED BY <1>1

\* In MASA: the subarray opened or selected last in its bank.
Choosing(b, e) == e.cmd \in {"ACT", "SASEL"} /\ Covers(Front(b), Addressed(e))
LastChosen(b, i) ==
    \E k \in 1 .. i - 1 : /\ Choosing(b, log[k]) /\ Addressed(log[k]) = b
                          /\ \A m \in 1 .. i - 1 : Choosing(b, log[m]) => m <= k
LEMMA ChosenGrows ==
    ASSUME NEW T, NEW b, NEW e, Grown(T, e)
    PROVE  /\ \A i \in 1 .. Len(log) + 1 : LastChosen(b, i)' <=> LastChosen(b, i)
           /\ Choosing(b, e) /\ Addressed(e) = b => LastChosen(b, Len(log) + 1)'
           /\ ~Choosing(b, e) /\ LastChosen(b, Len(log) + 1) => LastChosen(b, Len(log) + 1)'
  <1> DEFINE l == Len(log)
             c(x) == Choosing(b, x)
             h(x) == Addressed(x) = b
             chosen(g, n) == \E k \in 1 .. n : c(g[k]) /\ h(g[k]) /\ \A m \in 1 .. n : c(g[m]) => m <= k
  <1>1. l \in Nat /\ Len(log') = l + 1 /\ log'[l + 1] = e /\ \A i \in 1 .. l : log'[i] = log[i]
    BY DEF Grown
  <1>2. \A i : (LastChosen(b, i) <=> chosen(log, i - 1)) /\ (LastChosen(b, i)' <=> chosen(log', i - 1))
    BY Zenon DEF LastChosen
  <1> HIDE DEF c, h, l
  <1>3. \A i \in 1 .. l + 1 : chosen(log', i - 1) <=> chosen(log, i - 1)
    <2> SUFFICES ASSUME NEW i \in 1 .. l + 1 PROVE chosen(log', i - 1) <=> chosen(log, i - 1)
      OBVIOUS
    <2>1. \A k \in 1 .. i - 1 : log'[k] = log[k]
      BY <1>1
    <2> QED BY <2>1
  <1>4. c(e) /\ h(e) => chosen(log', l + 1)
    <2>1. l + 1 \in 1 .. l + 1 /\ \A m \in 1 .. l + 1 : m <= l + 1
      BY <1>1
    <2> QED BY <1>1, <2>1
  <1>5. ~c(e) /\ chosen(log, l) => chosen(log', l + 1)
    <2> SUFFICES ASSUME ~c(e), chosen(log, l) PROVE chosen(log', l + 1)
      OBVIOUS
    <2>1. PICK k \in 1 .. l : c(log[k]) /\ h(log[k]) /\ \A m \in 1 .. l : c(log[m]) => m <= k
      OBVIOUS
    <2>2. k \in 1 .. l + 1 /\ c(log'[k]) /\ h(log'[k])
      BY <1>1, <2>1
    <2>3. ASSUME NEW m \in 1 .. l + 1, c(log'[m]) PROVE m <= k
      <3>1. m # l + 1
        BY <1>1, <2>3
      <3>2. m \in 1 .. l
        BY <1>1, <3>1
      <3> QED BY <1>1, <2>1, <2>3, <3>2
    <2> QED BY <2>2, <2>3
  <1> HIDE DEF chosen
  <1>6. (Len(log') + 1) - 1 = l + 1 /\ (l + 1) - 1 = l
    BY <1>1
  <1> QED BY <1>2, <1>3, <1>4, <1>5, <1>6 DEF c, h, l

\* What the row buffers, the row table and the log have to do with each other.
RowsOf(T, b) ==
    /\ state[b] = "Closed" <=> row_state[b] = {}
    /\ row_state[b] = OpenAt(T, b, Len(log) + 1)
    /\ std = "MASA" /\ state[b] = "Selected" => LastChosen(b, Len(log) + 1)
OpenRows(T) == UNION {{[group |-> b, row |-> r] : r \in row_state[b]} : b \in Leaf(T)}
Accessed(T, i) ==
    IsAccess(T, log[i]) => /\ Addressed(log[i]) = Front(log[i].addr)
                           /\ OpenAt(T, Addressed(log[i]), i) = {Row(log[i])}
                           /\ std = "MASA" => LastChosen(Addressed(log[i]), i)
Refreshed(T, i) ==
    log[i].cmd \in T.refreshing => \A b \in Leaf(T) : Covers(Ends(T, log[i]), b) => OpenAt(T, b, i) = {}
RowsKept ==
    std \notin TwoLevels => \A T \in Standard :
        /\ \A b \in Leaf(T) : RowsOf(T, b)
        /\ IsFiniteSet(rowtable) /\ rowtable = OpenRows(T)
        /\ \A i \in 1 .. Len(log) : Accessed(T, i) /\ Refreshed(T, i)

\* A step issues one more command, which finds what it needs.
Found(T, cmd, a, t) ==
    /\ Finds(T, cmd, a) /\ Addressable(T, Node, a) /\ cmd \in T.command /\ Depth(T, cmd) \in Depths(a)
    /\ Grown(T, [cmd |-> cmd, addr |-> a, at |-> t]) /\ Distinct(T)
    /\ (cmd \in T.opening => Depth(T, cmd) = Len(T.level))
    /\ \A b \in Leaf(T) : RowAfter(T, cmd, a, b)
    /\ rowtable' = update_rowtable(T, cmd, a) /\ Node' = Node /\ std' = std /\ Standard' = Standard

LEMMA FoundStep ==
    ASSUME TablesSound, Shape, Typed, Logged, std \notin TwoLevels, NEW T \in Standard, NEW q \in queue,
           NEW cmd, NEW a, NEW t, Issues(T, q, cmd, a, t), slack' \in Nat
    PROVE  Found(T, cmd, a, t)
  <1>1. /\ cmd = get_first_cmd(T, extended(T, q)) /\ a = get_addr_vec(cmd, q.addr) /\ Addressable(T, Node, a)
        /\ cmd \in T.command /\ Depth(T, cmd) \in Depths(a)
    BY DEF Issues
  <1>2. Finds(T, cmd, a)
    BY <1>1, CommandFinds
  <1>3. \A b \in Leaf(T) : RowAfter(T, cmd, a, b)
    BY <1>2, RowStep
  <1>4. Grown(T, [cmd |-> cmd, addr |-> a, at |-> t]) /\ Standard' = Standard /\ Node' = Node
    BY LogStep
  <1>5. std' = std /\ rowtable' = update_rowtable(T, cmd, a)
    BY Zenon DEF Issues, issue_cmd
  <1>6. Distinct(T) /\ (cmd \in T.opening => T.scope[cmd] > Len(T.level))
    BY RowsAreSound
  <1>7. cmd \in T.opening => Depth(T, cmd) = Len(T.level)
    <2>1. T.scope[cmd] \in Nat /\ Len(T.level) \in Nat
      BY <1>1, DepthIs, StandardIsSound
    <2>2. cmd \in T.opening => T.scope[cmd] >= Len(T.level) /\ T.scope[cmd] \in Int
      BY <1>6, <2>1
    <2> QED BY <2>2, DepthOf
  <1> QED BY <1>1, <1>2, <1>3, <1>4, <1>5, <1>6, <1>7, Zenon DEF Found

\* Which buffers the new entry of the log switches, and which subarray it chooses.
LEMMA EntryIs ==
    ASSUME TablesSound, Shape, NEW T \in Standard, NEW cmd, NEW a, NEW t, Found(T, cmd, a, t), NEW b \in Leaf(T)
    PROVE  LET e == [cmd |-> cmd, addr |-> a, at |-> t] IN
           /\ Opens(T, cmd, a, b) => Switches(T, e) /\ Covers(Ends(T, e), b) /\ IsOpening(T, e)
           /\ Closes(T, cmd, a, b) => Switches(T, e) /\ Covers(Ends(T, e), b) /\ ~IsOpening(T, e)
           /\ Switches(T, e) /\ Covers(Ends(T, e), b) => Opens(T, cmd, a, b) \/ Closes(T, cmd, a, b)
           /\ ~(Opens(T, cmd, a, b) /\ Closes(T, cmd, a, b))
           /\ Len(T.level) \in Depths(a) =>
                /\ Addressed(e) = Path(a, Len(T.level)) /\ (Choosing(b, e) <=> SelectsIn(T, cmd, a, b))
                /\ cmd \in {"ACT", "SASEL"} /\ b = Path(a, Len(T.level)) => SelectsIn(T, cmd, a, b)
  <1> DEFINE e == [cmd |-> cmd, addr |-> a, at |-> t]
             L == Len(T.level)
  <1>1. e.cmd = cmd /\ e.addr = a
    OBVIOUS
  <1> HIDE DEF e
  <1>2. /\ Addressable(T, Node, a) /\ cmd \in T.command /\ Depth(T, cmd) \in Depths(a) /\ Distinct(T)
        /\ cmd \in T.opening => Depth(T, cmd) = L
    BY DEF Found
  <1>3. Ends(T, e) = Path(a, Depth(T, cmd))
    BY <1>1, <1>2, EndsOf
  <1>4. cmd \in T.opening => (Covers(Ends(T, e), b) <=> b = Path(a, L)) /\ cmd \notin T.closing
    <2>1. Depth(T, cmd) = L => (Covers(Path(a, Depth(T, cmd)), b) <=> b = Path(a, L))
      BY <1>2, CoversLeaf
    <2>2. cmd \in T.opening => cmd \notin T.closing
      BY <1>2 DEF Distinct
    <2> QED BY <1>2, <1>3, <2>1, <2>2
  <1>5. (Switches(T, e) <=> cmd \in T.opening \/ cmd \in T.closing) /\ (IsOpening(T, e) <=> cmd \in T.opening)
    BY <1>1 DEF Switches, IsOpening, IsClosing
  <1>6. ASSUME L \in Depths(a)
        PROVE  /\ Addressed(e) = Path(a, L) /\ (Choosing(b, e) <=> SelectsIn(T, cmd, a, b))
               /\ cmd \in {"ACT", "SASEL"} /\ b = Path(a, L) => SelectsIn(T, cmd, a, b)
    <2>1. Addressed(e) = Path(a, L)
      BY <1>1, <1>2, <1>6, AddressedAt
    <2>2. /\ a \in Seq(Int) /\ Len(a) = L /\ L \in Nat /\ L > 1 /\ b \in Seq(Nat) /\ Len(b) = L - 1
      BY <1>2, StandardIsSound DEF Addressable, Leaf, Shape
    <2>3. Front(b) = Path(b, L - 1) /\ Len(Front(b)) = L - 2
      <3> HIDE DEF L
      <3>1. Front(b) = SubSeq(b, 1, L - 2) /\ Path(b, L - 1) = SubSeq(b, 1, L - 2) /\ L - 2 \in Nat /\ L - 2 <= Len(b)
        BY <2>2 DEF Front, Path
      <3>2. Len(SubSeq(b, 1, L - 2)) = L - 2
        BY <2>2, <3>1, Starting
      <3> QED BY <3>1, <3>2
    <2> DEFINE p == Path(a, L)
    <2>4. Len(p) = L - 1 /\ Path(a, L - 1) = SubSeq(p, 1, L - 2)
      <3> HIDE DEF L
      <3>1. L - 1 \in 1 .. L /\ (L - 1) - 1 = L - 2
        BY <2>2
      <3>2. Len(a) > 0 /\ L - 1 \in 1 .. L
        BY <2>2, <3>1
      <3>3. L - 1 \in Depths(a) /\ Len(Path(a, L)) = L - 1 /\ Path(a, L - 1) = SubSeq(Path(a, L), 1, (L - 1) - 1)
        BY <1>6, <2>2, <3>2, Paths, Zenon
      <3> QED BY <3>1, <3>3
    <2> HIDE DEF p, L
    <2>5. Covers(Front(b), p) <=> Front(b) = SubSeq(p, 1, L - 2)
      <3> DEFINE f == Front(b)
      <3>1. Len(f) = L - 2 /\ Len(p) = L - 1 /\ L \in Int
        BY <2>2, <2>3, <2>4
      <3> HIDE DEF f
      <3>2. Covers(f, p) <=> f = SubSeq(p, 1, L - 2)
        BY <3>1 DEF Covers
      <3> QED BY <3>2 DEF f
    <2>6. Covers(Front(b), p) <=> Path(b, L - 1) = Path(a, L - 1)
      BY <2>3, <2>4, <2>5
    <2>7. b = p => Path(b, L - 1) = Path(a, L - 1)
      <3>1. (L - 1) - 1 = L - 2
        BY <2>2
      <3> QED BY <2>4, <3>1 DEF Path
    <2> QED BY <1>1, <2>1, <2>6, <2>7 DEF Choosing, SelectsIn, p, L
  <1> HIDE DEF L
  <1> QED BY <1>3, <1>4, <1>5, <1>6 DEF Opens, Closes, e, L

\* The buffers still hold the rows that the log says are open.
LEMMA BufferStep ==
    ASSUME TablesSound, Shape, NEW T \in Standard, NEW cmd, NEW a, NEW t, Found(T, cmd, a, t), NEW b \in Leaf(T),
           RowsOf(T, b)
    PROVE  RowsOf(T, b)'
  <1> DEFINE e == [cmd |-> cmd, addr |-> a, at |-> t]
             L == Len(T.level)
             o == Opens(T, cmd, a, b)
             c == Closes(T, cmd, a, b)
             was == OpenAt(T, b, Len(log) + 1)
             now == OpenAt(T, b, Len(log) + 1)'
  <1>1. Grown(T, e) /\ Finds(T, cmd, a) /\ Addressable(T, Node, a) /\ RowAfter(T, cmd, a, b) /\ std' = std
    BY DEF Found
  <1>2. /\ o => Switches(T, e) /\ Covers(Ends(T, e), b) /\ IsOpening(T, e)
        /\ c => Switches(T, e) /\ Covers(Ends(T, e), b) /\ ~IsOpening(T, e)
        /\ Switches(T, e) /\ Covers(Ends(T, e), b) => o \/ c
        /\ ~(o /\ c)
        /\ L \in Depths(a) => /\ Addressed(e) = Path(a, L) /\ (Choosing(b, e) <=> SelectsIn(T, cmd, a, b))
                              /\ cmd \in {"ACT", "SASEL"} /\ b = Path(a, L) => SelectsIn(T, cmd, a, b)
    BY EntryIs
  <1>3. now = IF Switches(T, e) /\ Covers(Ends(T, e), b) THEN IF IsOpening(T, e) THEN {Row(e)} ELSE {} ELSE was
    BY <1>1, OpenGrows
  <1>4. /\ Choosing(b, e) /\ Addressed(e) = b => LastChosen(b, Len(log) + 1)'
        /\ ~Choosing(b, e) /\ LastChosen(b, Len(log) + 1) => LastChosen(b, Len(log) + 1)'
    BY <1>1, ChosenGrows
  <1>5. cmd \in T.opening => L \in Depths(a) /\ state[Path(a, L)] = "Closed" /\ Row(e) = a[L]
    <2>1. cmd \in T.opening => L \in Depths(a) /\ state[Path(a, L)] = "Closed"
      BY <1>1 DEF Finds
    <2>2. L \in Depths(a) => Last(a) = a[L]
      BY <1>1, LeafOf
    <2> QED BY <2>1, <2>2 DEF Row
  <1>6. cmd = "SASEL" => L \in Depths(a)
    BY <1>1 DEF Finds
  <1>7. /\ state[b] = "Closed" <=> row_state[b] = {}
        /\ row_state[b] = was
        /\ std = "MASA" /\ state[b] = "Selected" => LastChosen(b, Len(log) + 1)
    BY DEF RowsOf
  <1>8. /\ o => row_state'[b] = row_state[b] \cup {a[L]} /\ state'[b] # "Closed"
        /\ c => row_state'[b] = {} /\ state'[b] = "Closed"
        /\ ~o /\ ~c => row_state'[b] = row_state[b] /\ (state'[b] = "Closed" <=> state[b] = "Closed")
        /\ std = "MASA" /\ state'[b] = "Selected" =>
             \/ cmd \in {"ACT", "SASEL"} /\ b = Path(a, L)
             \/ state[b] = "Selected" /\ ~SelectsIn(T, cmd, a, b)
    BY <1>1 DEF RowAfter
  <1>9. o => cmd \in T.opening /\ b = Path(a, L)
    BY DEF Opens
  <1>10. std = "MASA" => (cmd = "ACT" => L \in Depths(a))
    <2>1. std = "MASA" => std \notin TwoLevels
      BY DEF TwoLevels
    <2>2. std = "MASA" => Selects(T)
      BY <2>1, RowsAreSound
    <2>3. std = "MASA" => (cmd = "ACT" => cmd \in T.opening)
      BY <2>2 DEF Selects
    <2> QED BY <1>5, <2>3
  <1> DEFINE x == a[L]
             s == SelectsIn(T, cmd, a, b)
             h == Choosing(b, e)
  <1>11. h => cmd \in {"ACT", "SASEL"}
    BY DEF Choosing
  <1> HIDE DEF o, c, e, s, h, x, L, was, now
  <1>12. (state'[b] = "Closed" <=> row_state'[b] = {}) /\ row_state'[b] = now
    <2>1. CASE o
      <3>1. row_state[b] = {} /\ now = {x}
        BY <1>2, <1>3, <1>5, <1>7, <1>9, <2>1 DEF x
      <3> QED BY <1>8, <2>1, <3>1 DEF x
    <2>2. CASE c
      BY <1>2, <1>3, <1>8, <2>2
    <2>3. CASE ~o /\ ~c
      BY <1>2, <1>3, <1>7, <1>8, <2>3
    <2> QED BY <2>1, <2>2, <2>3
  <1>13. ASSUME std = "MASA", state'[b] = "Selected" PROVE LastChosen(b, Len(log) + 1)'
    <2>1. CASE cmd \in {"ACT", "SASEL"} /\ b = Path(a, L)
      <3>1. L \in Depths(a)
        BY <1>6, <1>10, <1>13, <2>1
      <3>2. h /\ Addressed(e) = b
        BY <1>2, <2>1, <3>1 DEF h
      <3> QED BY <1>4, <3>2 DEF h
    <2>2. CASE state[b] = "Selected" /\ ~s
      <3>1. ~h
        BY <1>2, <1>6, <1>10, <1>11, <1>13, <2>2 DEF s, h
      <3> QED BY <1>4, <1>7, <1>13, <2>2, <3>1 DEF h
    <2> QED BY <1>8, <1>13, <2>1, <2>2 DEF s
  <1> QED BY <1>1, <1>12, <1>13, Zenon DEF RowsOf, now

\* The row table keeps listing these rows, and the assertions of RowTable::update hold.
LEMMA TableStep ==
    ASSUME TablesSound, Shape, NEW T \in Standard, NEW cmd, NEW a, NEW t, Found(T, cmd, a, t),
           \A b \in Leaf(T) : RowsOf(T, b), IsFiniteSet(rowtable), rowtable = OpenRows(T)
    PROVE  /\ IsFiniteSet(rowtable') /\ rowtable' = OpenRows(T)'
           /\ cmd \in T.accessing =>
                [group |-> Path(a, Len(T.level)), row |-> a[Len(T.level)]] \in rowtable
           /\ cmd \in T.closing => Cardinality(rowtable') < Cardinality(rowtable)
  <1> DEFINE L == Len(T.level)
             n == Path(a, L)
             added == [group |-> n, row |-> a[L]]
             s == T.scope[cmd]
             opened == IF cmd \in T.opening /\ \A e \in rowtable : e.group # rowgroup(a)
                       THEN {[group |-> rowgroup(a), row |-> Last(a)]} ELSE {}
             closed == IF cmd \in T.closing THEN {e \in rowtable : Path(e.group, s) = Path(a, s)} ELSE {}
             In(x, rows) == \E b \in Leaf(T) : \E r \in rows[b] : x = [group |-> b, row |-> r]
  <1>1. /\ Finds(T, cmd, a) /\ Addressable(T, Node, a) /\ cmd \in T.command /\ Depth(T, cmd) \in Depths(a)
        /\ Distinct(T) /\ Node' = Node /\ rowtable' = update_rowtable(T, cmd, a)
        /\ \A b \in Leaf(T) : RowAfter(T, cmd, a, b)
    BY DEF Found
  <1>2. rowtable' = (rowtable \cup opened) \ closed
    BY <1>1, Zenon DEF update_rowtable
  <1>3. \A x : x \in rowtable <=> In(x, row_state)
    BY DEF OpenRows
  <1>4. \A x : x \in OpenRows(T)' <=> In(x, row_state')
    <2>1. Leaf(T)' = Leaf(T)
      BY <1>1 DEF Leaf
    <2>2. OpenRows(T)' = UNION {{[group |-> b, row |-> r] : r \in row_state'[b]} : b \in Leaf(T)}
      BY <2>1 DEF OpenRows
    <2> QED BY <2>2
  <1>5. ASSUME NEW b \in Leaf(T)
        PROVE  /\ state[b] = "Closed" <=> row_state[b] = {}
               /\ cmd \in T.opening /\ b = n => row_state'[b] = row_state[b] \cup {a[L]}
               /\ cmd \in T.closing /\ Covers(Path(a, Depth(T, cmd)), b) => row_state'[b] = {}
               /\ ~(cmd \in T.opening /\ b = n) /\ ~(cmd \in T.closing /\ Covers(Path(a, Depth(T, cmd)), b)) =>
                    row_state'[b] = row_state[b]
    <2>1. RowAfter(T, cmd, a, b) /\ RowsOf(T, b)
      BY <1>1
    <2> QED BY <2>1, Zenon DEF RowAfter, RowsOf, Opens, Closes
  <1>6. L \in Depths(a) => n \in Leaf(T) /\ rowgroup(a) = n /\ Last(a) = a[L]
    BY <1>1, LeafOf DEF rowgroup
  <1>7. /\ cmd \in T.opening => L \in Depths(a) /\ state[n] = "Closed" /\ cmd \notin T.closing
        /\ cmd \in T.accessing => L \in Depths(a) /\ a[L] \in row_state[n]
        /\ cmd \in T.closing => /\ s = Depth(T, cmd) /\ cmd \notin T.opening
                                /\ \E c \in Leaf(T) : Covers(Path(a, Depth(T, cmd)), c) /\ state[c] # "Closed"
    <2>1. cmd \in T.opening => cmd \notin T.closing
      BY <1>1 DEF Distinct
    <2> QED BY <1>1, <2>1 DEF Finds
  <1>8. \A b \in Leaf(T) : Covers(Path(a, Depth(T, cmd)), b) <=> Path(b, Depth(T, cmd)) = Path(a, Depth(T, cmd))
    BY <1>1, CoversLeaf
  <1> DEFINE under(b) == Covers(Path(a, Depth(T, cmd)), b)
             here(x) == Path(x.group, s) = Path(a, s)
  <1>9. closed = IF cmd \in T.closing THEN {x \in rowtable : here(x)} ELSE {}
    OBVIOUS
  <1>10. ASSUME cmd \in T.closing, NEW b \in Leaf(T), NEW r PROVE here([group |-> b, row |-> r]) <=> under(b)
    BY <1>7, <1>8, <1>10
  <1> HIDE DEF L, n, s, opened, closed, In, under, here
  <1>11. CASE cmd \in T.opening
    <2>1. n \in Leaf(T) /\ row_state[n] = {}
      BY <1>5, <1>6, <1>7, <1>11
    <2>2. \A e \in rowtable : e.group # n
      <3> SUFFICES ASSUME NEW e \in rowtable, e.group = n PROVE FALSE
        OBVIOUS
      <3>1. PICK b \in Leaf(T) : \E r \in row_state[b] : e = [group |-> b, row |-> r]
        BY <1>3 DEF In
      <3>2. b = n
        BY <3>1
      <3> QED BY <2>1, <3>1, <3>2
    <2>3. opened = {added} /\ closed = {}
      BY <1>6, <1>7, <1>9, <1>11, <2>2, Zenon DEF opened
    <2> HIDE DEF added
    <2>4. rowtable' = rowtable \cup {added}
      BY <1>2, <2>3
    <2>5. \A x : In(x, row_state') <=> In(x, row_state) \/ x = added
      <3>1. ASSUME NEW x, In(x, row_state') PROVE In(x, row_state) \/ x = added
        <4>1. PICK b, r : b \in Leaf(T) /\ r \in row_state'[b] /\ x = [group |-> b, row |-> r]
          BY <3>1 DEF In
        <4>2. CASE r \in row_state[b]
          BY <4>1, <4>2 DEF In
        <4>3. CASE r \notin row_state[b]
          <5>1. b = n /\ r = a[L]
            BY <1>5, <1>7, <1>11, <4>1, <4>3
          <5> QED BY <4>1, <5>1 DEF added
        <4> QED BY <4>2, <4>3
      <3>2. ASSUME NEW x, In(x, row_state) PROVE In(x, row_state')
        <4>1. PICK b, r : b \in Leaf(T) /\ r \in row_state[b] /\ x = [group |-> b, row |-> r]
          BY <3>2 DEF In
        <4>2. r \in row_state'[b]
          BY <1>5, <1>7, <1>11, <4>1
        <4> QED BY <4>1, <4>2 DEF In
      <3>3. In(added, row_state')
        <4>1. a[L] \in row_state'[n]
          BY <1>5, <1>11, <2>1
        <4> QED BY <2>1, <4>1 DEF In, added
      <3> QED BY <3>1, <3>2, <3>3
    <2>6. \A x : x \in rowtable' <=> x \in OpenRows(T)'
      BY <1>3, <1>4, <2>4, <2>5
    <2>7. rowtable' = OpenRows(T)'
      BY <2>6
    <2>8. IsFiniteSet(rowtable')
      BY <2>4, FS_AddElement
    <2>9. cmd \notin T.accessing /\ cmd \notin T.closing
      BY <1>1, <1>11 DEF Distinct
    <2> QED BY <2>7, <2>8, <2>9
  <1>12. CASE cmd \notin T.opening
    <2>1. rowtable' = rowtable \ closed
      BY <1>2, <1>12 DEF opened
    <2>2. ASSUME NEW b \in Leaf(T)
          PROVE  row_state'[b] = IF cmd \in T.closing /\ under(b) THEN {} ELSE row_state[b]
      BY <1>5, <1>12 DEF under
    <2>3. \A x : In(x, row_state') <=> In(x, row_state) /\ x \notin closed
      <3>1. ASSUME NEW x, In(x, row_state') PROVE In(x, row_state) /\ x \notin closed
        <4>1. PICK b, r : b \in Leaf(T) /\ r \in row_state'[b] /\ x = [group |-> b, row |-> r]
          BY <3>1 DEF In
        <4>2. ~(cmd \in T.closing /\ under(b)) /\ r \in row_state[b]
          BY <2>2, <4>1
        <4>3. x \notin closed
          BY <1>9, <1>10, <4>1, <4>2
        <4> QED BY <4>1, <4>2, <4>3 DEF In
      <3>2. ASSUME NEW x, In(x, row_state), x \notin closed PROVE In(x, row_state')
        <4>1. PICK b, r : b \in Leaf(T) /\ r \in row_state[b] /\ x = [group |-> b, row |-> r]
          BY <3>2 DEF In
        <4>2. ~(cmd \in T.closing /\ under(b))
          BY <1>3, <1>9, <1>10, <3>2, <4>1
        <4>3. r \in row_state'[b]
          BY <2>2, <4>1, <4>2
        <4> QED BY <4>1, <4>3 DEF In
      <3> QED BY <3>1, <3>2
    <2>4. \A x : x \in rowtable' <=> x \in OpenRows(T)'
      BY <1>3, <1>4, <2>1, <2>3
    <2>5. rowtable' = OpenRows(T)'
      BY <2>4
    <2>6. IsFiniteSet(rowtable') /\ Cardinality(rowtable') <= Cardinality(rowtable)
          /\ (Cardinality(rowtable) = Cardinality(rowtable') => rowtable = rowtable')
      BY <2>1, FS_Subset
    <2>7. ASSUME cmd \in T.accessing PROVE added \in rowtable
      <3>1. n \in Leaf(T) /\ a[L] \in row_state[n]
        BY <1>6, <1>7, <2>7
      <3>2. In(added, row_state)
        BY <3>1 DEF In
      <3> HIDE DEF added
      <3> QED BY <1>3, <3>2
    <2>8. ASSUME cmd \in T.closing PROVE Cardinality(rowtable') < Cardinality(rowtable)
      <3>1. PICK c \in Leaf(T) : under(c) /\ state[c] # "Closed"
        BY <1>7, <2>8 DEF under
      <3>2. PICK r \in row_state[c] : TRUE
        BY <1>5, <3>1
      <3> DEFINE x == [group |-> c, row |-> r]
      <3>3. x \in rowtable
        <4>1. In(x, row_state)
          BY <3>2 DEF In
        <4> HIDE DEF x
        <4> QED BY <1>3, <4>1
      <3>4. x \in closed
        <4>1. here(x)
          BY <1>10, <2>8, <3>1
        <4> HIDE DEF x
        <4> QED BY <1>9, <2>8, <3>3, <4>1
      <3> HIDE DEF x
      <3>5. rowtable # rowtable'
        BY <2>1, <3>3, <3>4
      <3>6. Cardinality(rowtable') \in Nat /\ Cardinality(rowtable) \in Nat
        BY <2>6, FS_CardinalityType
      <3> QED BY <2>6, <3>5, <3>6
    <2> QED BY <2>5, <2>6, <2>7, <2>8 DEF L, n
  <1> QED BY <1>11, <1>12

\* What was accessed was open and what was refreshed was closed, and the same goes for
\* the new entry of the log.
LEMMA EntryStep ==
    ASSUME TablesSound, Shape, NEW T \in Standard, NEW cmd, NEW a, NEW t, Found(T, cmd, a, t),
           \A b \in Leaf(T) : RowsOf(T, b), \A i \in 1 .. Len(log) : Accessed(T, i) /\ Refreshed(T, i)
    PROVE  \A i \in 1 .. Len(log) + 1 : Accessed(T, i)' /\ Refreshed(T, i)'
  <1> DEFINE e == [cmd |-> cmd, addr |-> a, at |-> t]
             l == Len(log)
             L == Len(T.level)
             n == Path(a, L)
  <1>1. /\ Grown(T, e) /\ Finds(T, cmd, a) /\ Addressable(T, Node, a) /\ cmd \in T.command
        /\ Depth(T, cmd) \in Depths(a) /\ std' = std /\ Node' = Node
    BY DEF Found
  <1>2. e.cmd = cmd /\ e.addr = a
    OBVIOUS
  <1> HIDE DEF e
  <1>3. Leaf(T)' = Leaf(T)
    BY <1>1 DEF Leaf
  <1>4. l \in Nat /\ log'[l + 1] = e /\ \A i \in 1 .. l : log'[i] = log[i]
    BY <1>1 DEF Grown
  <1>5. \A i \in 1 .. l + 1 : \A b : (OpenAt(T, b, i)' = OpenAt(T, b, i)) /\ (LastChosen(b, i)' <=> LastChosen(b, i))
    BY <1>1, OpenGrows, ChosenGrows
  <1> HIDE DEF l, L, n
  <1>6. ASSUME NEW i \in 1 .. l PROVE Accessed(T, i)' /\ Refreshed(T, i)'
    <2>1. log'[i] = log[i] /\ i \in 1 .. l + 1
      BY <1>4
    <2>2. Accessed(T, i) /\ Refreshed(T, i)
      BY DEF l
    <2> DEFINE f == log[i]
    <2>3. Accessed(T, i)'
      <3>1. OpenAt(T, Addressed(f), i)' = OpenAt(T, Addressed(f), i) /\ (LastChosen(Addressed(f), i)' <=> LastChosen(Addressed(f), i))
        BY <1>1, <2>1, OpenGrows, ChosenGrows DEF l
      <3> QED BY <1>1, <2>1, <2>2, <3>1, Zenon DEF Accessed
    <2>4. Refreshed(T, i)'
      <3>1. \A b \in Leaf(T) : OpenAt(T, b, i)' = OpenAt(T, b, i)
        BY <1>5, <2>1
      <3> QED BY <1>3, <2>1, <2>2, <3>1, Zenon DEF Refreshed
    <2> QED BY <2>3, <2>4
  <1>7. ASSUME NEW k \in Nat, k = l + 1 PROVE Accessed(T, k)' /\ Refreshed(T, k)'
    <2>1. k \in 1 .. l + 1 /\ log'[k] = e
      BY <1>4, <1>7
    <2>2. ASSUME cmd \in T.accessing
          PROVE  /\ Addressed(e) = Front(a) /\ OpenAt(T, Addressed(e), k)' = {Row(e)}
                 /\ std = "MASA" => LastChosen(Addressed(e), k)'
      <3>1. L \in Depths(a) /\ state[n] # "Closed" /\ a[L] \in row_state[n] /\ (std = "MASA" => state[n] = "Selected")
        BY <1>1, <2>2 DEF Finds, L, n
      <3>2. n \in Leaf(T) /\ n = Front(a) /\ Row(e) = a[L]
        BY <1>1, <1>2, <3>1, LeafOf DEF L, n, Row
      <3>3. Addressed(e) = n
        BY <1>1, <1>2, <3>1, AddressedAt DEF L, n
      <3>4. RowsOf(T, n)
        BY <3>2
      <3>5. a[L] \in OpenAt(T, n, k)
        BY <1>7, <3>1, <3>4 DEF RowsOf, l
      <3>6. OpenAt(T, n, k) = {a[L]}
        BY <3>5, OneOpen
      <3>7. std = "MASA" => LastChosen(n, k)
        BY <1>7, <3>1, <3>4 DEF RowsOf, l
      <3>8. OpenAt(T, n, k)' = OpenAt(T, n, k) /\ (LastChosen(n, k)' <=> LastChosen(n, k))
        BY <1>5, <2>1
      <3> QED BY <3>2, <3>3, <3>6, <3>7, <3>8
    <2>3. ASSUME cmd \in T.refreshing, NEW b \in Leaf(T), Covers(Ends(T, e), b) PROVE OpenAt(T, b, k)' = {}
      <3>1. Ends(T, e) = Path(a, Depth(T, cmd))
        BY <1>1, <1>2, EndsOf
      <3>2. state[b] = "Closed"
        BY <1>1, <2>3, <3>1 DEF Finds
      <3>3. RowsOf(T, b)
        OBVIOUS
      <3>4. OpenAt(T, b, k) = {}
        BY <1>7, <3>2, <3>3 DEF RowsOf, l
      <3> QED BY <1>5, <2>1, <3>4
    <2>4. Accessed(T, k)'
      BY <1>1, <1>2, <2>1, <2>2 DEF Accessed, IsAccess
    <2>5. Refreshed(T, k)'
      BY <1>2, <1>3, <2>1, <2>3 DEF Refreshed
    <2> QED BY <2>4, <2>5
  <1>8. \A i \in 1 .. l + 1 : i \in Nat /\ (i = l + 1 \/ i \in 1 .. l)
    BY <1>4
  <1> QED BY <1>6, <1>7, <1>8 DEF l

LEMMA RowsStep ==
    ASSUME TablesSound, Shape, Typed, Logged, RowsKept, NEW T \in Standard, NEW q \in queue,
           NEW cmd, NEW a, NEW t, Issues(T, q, cmd, a, t), slack' \in Nat
    PROVE  RowsKept'
  <1>1. std' = std /\ \A U \in Standard : U = T
    BY Zenon DEF Issues, issue_cmd, Standard
  <1> SUFFICES ASSUME std \notin TwoLevels
               PROVE  \A U \in Standard' :
                        /\ \A b \in Leaf(U)' : RowsOf(U, b)'
                        /\ IsFiniteSet(rowtable') /\ rowtable' = OpenRows(U)'
                        /\ \A i \in 1 .. Len(log') : Accessed(U, i)' /\ Refreshed(U, i)'
    BY <1>1, Zenon DEF RowsKept
  <1>2. Found(T, cmd, a, t)
    BY FoundStep
  <1>3. /\ \A b \in Leaf(T) : RowsOf(T, b)
        /\ IsFiniteSet(rowtable) /\ rowtable = OpenRows(T)
        /\ \A i \in 1 .. Len(log) : Accessed(T, i) /\ Refreshed(T, i)
    BY Zenon DEF RowsKept
  <1>4. Standard' = Standard /\ Leaf(T)' = Leaf(T) /\ Len(log') = Len(log) + 1
    BY <1>2 DEF Found, Leaf, Grown
  <1>5. \A b \in Leaf(T) : RowsOf(T, b)'
    BY <1>2, <1>3, BufferStep
  <1>6. IsFiniteSet(rowtable') /\ rowtable' = OpenRows(T)'
    BY <1>2, <1>3, TableStep
  <1>7. \A i \in 1 .. Len(log) + 1 : Accessed(T, i)' /\ Refreshed(T, i)'
    BY <1>2, <1>3, EntryStep
  <1> QED BY <1>1, <1>4, <1>5, <1>6, <1>7, Zenon

\* A channel starts with no row open, and keeps the rows while nothing is issued.
LEMMA RowsInit == ASSUME TablesSound, Shape, Typed, Init PROVE RowsKept
  <1> SUFFICES ASSUME std \notin TwoLevels, NEW T \in Standard
               PROVE  /\ \A b \in Leaf(T) : RowsOf(T, b)
                      /\ IsFiniteSet(rowtable) /\ rowtable = OpenRows(T)
                      /\ \A i \in 1 .. Len(log) : Accessed(T, i) /\ Refreshed(T, i)
    BY Zenon DEF RowsKept
  <1>1. log = <<>> /\ Len(log) = 0 /\ rowtable = {}
    BY DEF Init
  <1>2. PICK U \in Standard, N \in {NodesOf(queue)} :
          /\ state = [n \in N |-> U.start[Len(n) + 1]] /\ row_state = [n \in N |-> {}]
    BY DEF Init
  <1>3. U = T
    BY DEF Standard
  <1>4. T.start[Len(T.level)] = "Closed" /\ Len(T.level) \in Nat
    BY RowsAreSound, StandardIsSound
  <1>5. ASSUME NEW b \in Leaf(T) PROVE state[b] = "Closed" /\ row_state[b] = {}
    <2>1. b \in N /\ b \in Seq(Nat) /\ Len(b) = Len(T.level) - 1
      BY <1>2 DEF Leaf, Node, Shape
    <2>2. Len(b) + 1 = Len(T.level)
      BY <1>4, <2>1
    <2> QED BY <1>2, <1>3, <1>4, <2>1, <2>2
  <1>6. ASSUME NEW b PROVE OpenAt(T, b, Len(log) + 1) = {}
    <2>1. \A k : k \notin 1 .. (Len(log) + 1) - 1
      BY <1>1
    <2>2. LastOf(T, b, Len(log) + 1, Switches) = 0
      BY <2>1 DEF LastOf
    <2> QED BY <2>2 DEF OpenAt
  <1>7. \A b \in Leaf(T) : RowsOf(T, b)
    BY <1>5, <1>6 DEF RowsOf
  <1>8. rowtable = OpenRows(T) /\ IsFiniteSet(rowtable)
    BY <1>1, <1>5, FS_EmptySet DEF OpenRows
  <1>9. \A i : i \notin 1 .. Len(log)
    BY <1>1
  <1> QED BY <1>7, <1>8, <1>9

LEMMA RowsStutter ==
    ASSUME RowsKept, std' = std, state' = state, row_state' = row_state, rowtable' = rowtable, log' = log
    PROVE  RowsKept'
  <1>1. Standard' = Standard /\ \A T : Leaf(T)' = Leaf(T)
    BY DEF Standard, Leaf, Node
  <1>2. \A T, b, i : OpenAt(T, b, i)' = OpenAt(T, b, i)
    BY DEF OpenAt, LastOf
  <1>3. \A b, i : LastChosen(b, i)' <=> LastChosen(b, i)
    BY DEF LastChosen
  <1>4. ASSUME NEW T, NEW b, RowsOf(T, b) PROVE RowsOf(T, b)'
    <2>1. OpenAt(T, b, Len(log) + 1)' = OpenAt(T, b, Len(log) + 1)
      BY DEF OpenAt, LastOf
    <2>2. LastChosen(b, Len(log) + 1)' <=> LastChosen(b, Len(log) + 1)
      BY DEF LastChosen
    <2> QED BY <1>4, <2>1, <2>2, Zenon DEF RowsOf
  <1>5. \A T : OpenRows(T)' = OpenRows(T)
    BY <1>1 DEF OpenRows
  <1>6. ASSUME NEW T, NEW i, Accessed(T, i) /\ Refreshed(T, i) PROVE Accessed(T, i)' /\ Refreshed(T, i)'
    <2>1. Accessed(T, i)'
      <3>1. OpenAt(T, Addressed(log[i]), i)' = OpenAt(T, Addressed(log[i]), i)
        BY DEF OpenAt, LastOf
      <3>2. LastChosen(Addressed(log[i]), i)' <=> LastChosen(Addressed(log[i]), i)
        BY DEF LastChosen
      <3> QED BY <1>6, <3>1, <3>2, Zenon DEF Accessed
    <2>2. Refreshed(T, i)'
      BY <1>1, <1>2, <1>6, Zenon DEF Refreshed
    <2> QED BY <2>1, <2>2
  <1> QED BY <1>1, <1>4, <1>5, <1>6, Zenon DEF RowsKept

-----------------------------------------------------------------------------
(* What the rows kept say about the log, the row table and the hits *)

LEMMA AccessLemma == ASSUME RowsKept, std \notin TwoLevels PROVE AccessOpenRow
  <1> SUFFICES ASSUME NEW T \in Standard, NEW i \in 1 .. Len(log), IsAccess(T, log[i])
               PROVE  /\ OpenAt(T, Addressed(log[i]), i) = {Row(log[i])}
                      /\ std = "MASA" =>
                           LET bank == Front(Front(log[i].addr))
                               chosen == {k \in 1 .. i - 1 : log[k].cmd \in {"ACT", "SASEL"} /\ Covers(bank, Addressed(log[k]))} IN
                           \E k \in chosen : Addressed(log[k]) = Addressed(log[i]) /\ \A m \in chosen : m <= k
    BY Zenon DEF AccessOpenRow
  <1>1. Accessed(T, i)
    BY Zenon DEF RowsKept
  <1> DEFINE b == Addressed(log[i])
  <1>2. b = Front(log[i].addr) /\ OpenAt(T, b, i) = {Row(log[i])} /\ (std = "MASA" => LastChosen(b, i))
    BY <1>1 DEF Accessed
  <1> HIDE DEF b
  <1>3. ASSUME std = "MASA"
        PROVE  LET chosen == {k \in 1 .. i - 1 : log[k].cmd \in {"ACT", "SASEL"} /\ Covers(Front(b), Addressed(log[k]))} IN
               \E k \in chosen : Addressed(log[k]) = b /\ \A m \in chosen : m <= k
    <2>1. PICK k \in 1 .. i - 1 : /\ Choosing(b, log[k]) /\ Addressed(log[k]) = b
                                  /\ \A m \in 1 .. i - 1 : Choosing(b, log[m]) => m <= k
      BY <1>2, <1>3 DEF LastChosen
    <2> QED BY <2>1 DEF Choosing
  <1>4. Front(b) = Front(Front(log[i].addr))
    BY <1>2
  <1> QED BY <1>2, <1>3, <1>4, Zenon DEF b

\* The scheduler hits a row if, and only if, the log says that it is open.
LEMMA HitLemma ==
    ASSUME TablesSound, Shape, Typed, RowsKept, std \notin TwoLevels PROVE OneRowOpen
  <1> SUFFICES ASSUME NEW T \in Standard
               PROVE  /\ \A b \in Leaf(T) : row_state[b] = OpenAt(T, b, Len(log) + 1)
                      /\ rowtable = UNION {{[group |-> b, row |-> r] : r \in row_state[b]} : b \in Leaf(T)}
                      /\ \A r \in queue : r.type \in {"READ", "WRITE"} =>
                           (check_row_hit(T, T.translate[r.type], r.addr) <=> Row(r) \in OpenAt(T, Front(r.addr), Len(log) + 1))
    BY Zenon DEF OneRowOpen
  <1>1. (\A b \in Leaf(T) : RowsOf(T, b)) /\ rowtable = OpenRows(T)
    BY Zenon DEF RowsKept
  <1>2. \A b \in Leaf(T) : row_state[b] = OpenAt(T, b, Len(log) + 1)
    BY <1>1 DEF RowsOf
  <1>3. ASSUME NEW r \in queue, r.type \in {"READ", "WRITE"}
        PROVE  check_row_hit(T, T.translate[r.type], r.addr) <=> Row(r) \in OpenAt(T, Front(r.addr), Len(log) + 1)
    <2> DEFINE L == Len(T.level)
               p == r.addr
               cmd == T.translate[r.type]
    <2>1. RequestSound(T, Node, r) /\ Addressable(T, Node, p)
      BY DEF Shape
    <2>2. p \in Seq(Int) /\ Len(p) = L /\ L \in Nat /\ L > 1
      BY <2>1, StandardIsSound DEF Addressable
    <2>3. r.type \in DOMAIN T.translate
      BY <2>1 DEF RequestSound
    <2>4. cmd \in T.accessing /\ cmd \in T.rowhit[L] /\ \A d \in Level(T) : d < L => T.rowhit[d] = {}
      <3>1. RowsSound(std, T)
        BY RowsAreSound
      <3> QED BY <1>3, <2>3, <3>1 DEF RowsSound
    <2>5. L \in Depths(p)
      <3>1. cmd \in Needed(T, r)
        BY DEF Needed, Needs
      <3>2. cmd \in T.command /\ Depth(T, cmd) \in Depths(p)
        BY <2>1, <3>1 DEF RequestSound
      <3>3. T.scope[cmd] > L /\ T.scope[cmd] \in Nat
        BY <2>4, <3>2, RowsAreSound, DepthIs
      <3>4. Depth(T, cmd) = L
        <4>1. T.scope[cmd] >= L /\ T.scope[cmd] \in Int
          BY <2>2, <3>3
        <4> QED BY <4>1, DepthOf
      <3> QED BY <3>2, <3>4
    <2>6. Path(p, L) \in Leaf(T) /\ Path(p, L) = Front(p) /\ Row(r) = p[L]
      BY <2>1, <2>5, LeafOf DEF Row
    <2>7. check_row_hit(T, cmd, p) <=> p[L] \in row_state[Path(p, L)]
      <3>1. \A d \in Depths(p) : d \in Level(T) /\ (d < L \/ d = L)
        <4>1. \A d \in Depths(p) : d \in 1 .. L
          BY <2>2 DEF Depths
        <4> QED BY <2>2, <4>1 DEF Level
      <3> HIDE DEF L, p, cmd
      <3>2. \A d \in Depths(p) : cmd \in T.rowhit[d] => d = L
        BY <2>4, <3>1 DEF L
      <3> QED BY <2>4, <2>5, <3>2 DEF check_row_hit
    <2> QED BY <1>2, <2>6, <2>7
  <1> QED BY <1>1, <1>2, <1>3, Zenon DEF OpenRows

\* A refresh finds the rows closed and is waited for.
LEMMA RefreshLemma ==
    ASSUME TablesSound, Shape, Typed, Logged, ConstraintsKept, RowsKept, std \notin TwoLevels
    PROVE  RefreshKeepsClosed
  <1> SUFFICES ASSUME std # "ALDRAM", NEW T \in Standard, NEW i \in 1 .. Len(log), log[i].cmd \in T.refreshing
               PROVE  /\ \A b \in Leaf(T) : Covers(Ends(T, log[i]), b) => OpenAt(T, b, i) = {}
                      /\ \A j \in i + 1 .. Len(log) :
                           (IsOpening(T, log[j]) /\ Covers(Addressed(log[i]), Addressed(log[j])))
                              => log[j].at - log[i].at >= T.promise.rfc[log[i].cmd]
    BY Zenon DEF RefreshKeepsClosed
  <1>1. Refreshed(T, i)
    BY Zenon DEF RowsKept
  <1>2. ASSUME NEW j \in i + 1 .. Len(log), IsOpening(T, log[j]), Covers(Addressed(log[i]), Addressed(log[j]))
        PROVE  log[j].at - log[i].at >= T.promise.rfc[log[i].cmd]
    <2> DEFINE L == Len(T.level)
               e == log[i]
               f == log[j]
               b == Path(f.addr, L)
               x == Depth(T, e.cmd)
    <2>1. j \in 1 .. Len(log) /\ i < j
      <3>1. Len(log) \in Nat
        <4>1. log \in Seq(Entries(T))
          BY DEF Logged
        <4> QED BY <4>1
      <3> QED BY <3>1
    <2>2. /\ e.cmd \in Issuable(std) /\ Addressable(T, Node, e.addr) /\ x \in Depths(e.addr)
          /\ f.cmd \in Issuable(std) /\ Addressable(T, Node, f.addr) /\ Depth(T, f.cmd) \in Depths(f.addr)
      BY <2>1 DEF Logged
    <2>3. f.cmd \in T.opening /\ f.cmd \in T.command
      BY <1>2, <2>1, LogEntry DEF IsOpening
    <2>4. Depth(T, f.cmd) = L
      <3>1. T.scope[f.cmd] > L /\ T.scope[f.cmd] \in Nat /\ L \in Nat
        BY <2>3, RowsAreSound, DepthIs, StandardIsSound
      <3>2. T.scope[f.cmd] >= L /\ T.scope[f.cmd] \in Int
        BY <3>1
      <3> QED BY <3>2, DepthOf
    <2> HIDE DEF e, f
    <2>5. b \in Leaf(T) /\ Addressed(f) = b
      BY <2>2, <2>4, LeafOf, AddressedAt
    <2>6. Covers(Ends(T, f), b) /\ Ends(T, e) = Path(e.addr, x)
      <3>1. Ends(T, f) = b
        BY <2>1, <2>4, EndsAt DEF f
      <3>2. Covers(Path(f.addr, L), b)
        BY <2>2, <2>4, <2>5, CoversLeaf
      <3> QED BY <3>1, <3>2, EndsAt DEF e
    <2>7. Covers(Ends(T, e), b)
      <3>1. PICK m \in Depths(e.addr) : Addressed(e) = Path(e.addr, m) /\ \A k \in Depths(e.addr) : k <= m
        BY <2>2, AddressedAt
      <3>2. Covers(Path(e.addr, m), b)
        BY <1>2, <2>5, <3>1 DEF e, f
      <3>3. e.addr \in Seq(Int) /\ Len(e.addr) > 0 /\ b \in Seq(Nat)
        <4>1. e.addr \in Seq(Int) /\ Len(e.addr) = L /\ L > 1 /\ L \in Nat
          BY <2>2, StandardIsSound DEF Addressable
        <4> HIDE DEF L
        <4> QED BY <2>5, <4>1 DEF Leaf, Shape
      <3> DEFINE p == Path(e.addr, m)
                 r == Path(e.addr, x)
      <3>4. /\ p \in Seq(Int) /\ m \in Nat /\ Len(p) = m - 1 /\ r \in Seq(Int) /\ Len(r) = x - 1 /\ x \in Nat /\ x > 0
            /\ x <= m /\ r = SubSeq(p, 1, x - 1)
        <4> HIDE DEF x
        <4>1. Len(e.addr) \in Nat
          BY <3>3
        <4>2. /\ x \in 1 .. Len(e.addr) /\ m \in 1 .. Len(e.addr)
              /\ p \in Seq(Int) /\ Len(p) = m - 1 /\ r \in Seq(Int) /\ Len(r) = x - 1
              /\ \A k \in 1 .. m : Path(e.addr, k) = SubSeq(p, 1, k - 1)
          BY <2>2, <3>3, Paths
        <4>3. x <= m
          BY <2>2, <3>1
        <4>4. x \in 1 .. m /\ x \in Nat /\ m \in Nat /\ x > 0
          <5> DEFINE K == Len(e.addr)
          <5>1. K \in Nat /\ x \in 1 .. K /\ m \in 1 .. K
            BY <4>1, <4>2
          <5> HIDE DEF K
          <5> QED BY <4>3, <5>1
        <4>5. r = SubSeq(p, 1, x - 1)
          BY <4>2, <4>4
        <4> HIDE DEF p, r
        <4> QED BY <4>2, <4>3, <4>4, <4>5
      <3> HIDE DEF p, r, b, x
      <3>5. m - 1 <= Len(b) /\ p = SubSeq(b, 1, m - 1)
        BY <3>2, <3>4 DEF Covers, p
      <3>6. x - 1 <= Len(b) /\ x - 1 <= m - 1 /\ x - 1 \in Nat /\ m - 1 \in Nat
        BY <3>3, <3>4, <3>5
      <3> DEFINE s == SubSeq(b, 1, x - 1)
      <3>7. s \in Seq(Nat) /\ Len(s) = x - 1 /\ \A k \in 1 .. x - 1 : s[k] = b[k]
        BY <3>3, <3>6, Starting
      <3>8. \A k \in 1 .. m - 1 : p[k] = b[k]
        BY <3>3, <3>5, <3>6, Starting
      <3>9. \A k \in 1 .. x - 1 : r[k] = p[k]
        BY <3>4, <3>6, Starting
      <3> HIDE DEF s
      <3>10. \A k \in 1 .. x - 1 : s[k] = r[k]
        BY <3>6, <3>7, <3>8, <3>9
      <3>11. s = r
        BY <3>4, <3>6, <3>7, <3>10, Same
      <3> QED BY <2>6, <3>4, <3>6, <3>11 DEF Covers, r, s
    <2>8. Waits(T, e.cmd, f.cmd, T.promise.rfc[e.cmd])
      <3>1. RefreshSound(std, T)
        BY RowsAreSound
      <3>2. e.cmd \in Issuable(std) \cap T.refreshing /\ f.cmd \in Issuable(std) \cap T.opening
        BY <2>2, <2>3 DEF e
      <3> QED BY <3>1, <3>2, Zenon DEF RefreshSound
    <2> HIDE DEF b
    <2> QED BY <2>1, <2>5, <2>6, <2>7, <2>8, Waited DEF e, f
  <1> QED BY <1>1, <1>2 DEF Refreshed

-----------------------------------------------------------------------------
(* Any number of commands *)

\* What one step of the channel needs of the one before it.
ChannelInv ==
    /\ Shape /\ Typed /\ MildKept /\ OneRank
    /\ Logged /\ Remembered /\ ConstraintsKept /\ WindowsKept /\ RowsKept

LEMMA ChannelInit == ASSUME TablesSound, Slack \in Nat, Init PROVE ChannelInv
  <1>1. Shape /\ Typed /\ MildKept /\ OneRank
    BY Initially
  <1>2. log = <<>> /\ Len(log) = 0 /\ \A i : i \notin 1 .. Len(log)
    BY DEF Init
  <1>3. Logged /\ Remembered /\ ConstraintsKept
    BY <1>2 DEF Logged, Remembered, ConstraintsKept
  <1>4. WindowsKept
    <2> SUFFICES ASSUME std # "ALDRAM", NEW T \in Standard, NEW r \in Node, NEW c \in T.opening, Len(r) = 1
                 PROVE  RankKept(T, r, c)
      BY DEF WindowsKept
    <2>1. Acts(r, c) = {}
      BY <1>2 DEF Acts
    <2>2. PICK w \in T.timing[2].window : w.from = c
      <3>1. WindowSound(T)
        BY <1>1, StandardIsSound
      <3> QED BY <3>1 DEF WindowSound
    <2>3. c \in DOMAIN prev[r]
      <3>1. DOMAIN prev[r] = {e.from : e \in T.timing[Len(r) + 1].window}
        BY <1>1, Zenon DEF Typed
      <3>2. Len(r) + 1 = 2
        OBVIOUS
      <3> QED BY <2>2, <3>1, <3>2
    <2>4. prev[r][c] = <<>>
      <3>1. PICK U \in Standard, N \in {NodesOf(queue)} :
               prev = [n \in N |-> [x \in {e.from : e \in U.timing[Len(n) + 1].window} |-> << >>]]
        BY DEF Init
      <3>2. r \in N
        BY <1>1, <3>1 DEF Shape
      <3> QED BY <2>3, <3>1, <3>2
    <2>5. Cardinality(Acts(r, c)) = 0 /\ Len(prev[r][c]) = 0
      BY <2>1, <2>4, FS_EmptySet
    <2> QED BY <2>1, <2>3, <2>5 DEF RankKept
  <1>5. RowsKept
    BY <1>1, RowsInit
  <1> QED BY <1>1, <1>3, <1>4, <1>5 DEF ChannelInv

LEMMA ChannelStep == ASSUME TablesSound, ChannelInv, [Next]_vars PROVE ChannelInv'
  <1>1. /\ Shape /\ Typed /\ MildKept /\ OneRank
        /\ Logged /\ Remembered /\ ConstraintsKept /\ WindowsKept /\ RowsKept
    BY DEF ChannelInv
  <1>2. CASE Next
    <2>1. PICK T \in Standard : Issue(T)
      BY <1>2 DEF Next
    <2>2. slack' \in Nat /\ \E q \in queue : \E cmd, a, t : Issues(T, q, cmd, a, t)
      BY <1>1, <2>1, IssueSteps
    <2>3. PICK q \in queue : \E cmd, a, t : Issues(T, q, cmd, a, t)
      BY <2>2
    <2>4. PICK cmd, a, t : Issues(T, q, cmd, a, t)
      BY <2>3
    <2>5. Shape' /\ Typed' /\ Standard' = Standard /\ Node' = Node /\ std' = std
      BY <1>1, <2>2, <2>4, ShapeStep
    <2>6. MildKept'
      <3> SUFFICES ASSUME NEW n \in Node, NEW m \in T.command, NEW c \in T.command, Milder(T, m, c)
                   PROVE  next'[n][m] <= next'[n][c]
        <4>1. \A U \in Standard : U = T
          BY DEF Standard
        <4> QED BY <2>5, <4>1 DEF MildKept
      <3> QED BY <1>1, <2>4, MilderStep
    <2>7. OneRank'
      BY <1>1, <2>5 DEF OneRank
    <2>8. Logged'
      BY <1>1, <2>2, <2>4, LogStep
    <2>9. Remembered'
      BY <1>1, <2>2, <2>4, RememberedStep
    <2>10. ConstraintsKept'
      BY <1>1, <2>2, <2>4, ApartStep
    <2>11. WindowsKept'
      BY <1>1, <2>2, <2>4, WindowStep
    <2>12. RowsKept'
      BY <1>1, <2>2, <2>4, RowsStep
    <2> QED BY <2>5, <2>6, <2>7, <2>8, <2>9, <2>10, <2>11, <2>12 DEF ChannelInv
  <1>3. CASE UNCHANGED vars
    <2>1. /\ std' = std /\ slack' = slack /\ clk' = clk /\ state' = state /\ row_state' = row_state
          /\ next' = next /\ prev' = prev /\ rowtable' = rowtable /\ queue' = queue /\ log' = log
      BY <1>3 DEF vars
    <2>2. Node' = Node /\ Standard' = Standard
      BY <2>1 DEF Node, Standard
    <2>3. Shape'
      BY <1>1, <2>1, <2>2 DEF Shape
    <2>4. Typed'
      BY <1>1, <2>1, <2>2 DEF Typed
    <2>5. MildKept' /\ OneRank'
      BY <1>1, <2>1, <2>2 DEF MildKept, OneRank
    <2>6. Logged'
      BY <1>1, <2>1, <2>2 DEF Logged
    <2>7. Remembered'
      BY <1>1, <2>1, <2>2 DEF Remembered, Reminded
    <2>8. ConstraintsKept'
      BY <1>1, <2>1, <2>2 DEF ConstraintsKept
    <2>9. WindowsKept'
      <3>1. ASSUME NEW T, NEW r, NEW c, RankKept(T, r, c) PROVE RankKept(T, r, c)'
        <4>1. Acts(r, c)' = Acts(r, c)
          BY <2>1 DEF Acts
        <4> QED BY <2>1, <3>1, <4>1, Zenon DEF RankKept
      <3> QED BY <1>1, <2>1, <2>2, <3>1, Zenon DEF WindowsKept
    <2>10. RowsKept'
      BY <1>1, <2>1, RowsStutter
    <2> QED BY <2>3, <2>4, <2>5, <2>6, <2>7, <2>8, <2>9, <2>10 DEF ChannelInv
  <1> QED BY <1>2, <1>3

\* What the standards of a channel have to provide, and the channel keeps.
THEOREM ChannelInvariant == Spec => []ChannelInv
  <1>1. Init => ChannelInv
    BY ChannelInit, TablesAssumption, BoundAssumption
  <1>2. ChannelInv /\ [Next]_vars => ChannelInv'
    BY ChannelStep, TablesAssumption
  <1> QED BY <1>1, <1>2, PTL DEF Spec

\* Every node stays in a state of the standard, and no two commands are issued in
\* the same cycle.
THEOREM DramTyped == Spec => []TypeOK
  <1>1. ChannelInv => TypeOK
    <2> SUFFICES ASSUME ChannelInv PROVE TypeOK
      OBVIOUS
    <2>1. Shape /\ Typed /\ Logged
      BY DEF ChannelInv
    <2>2. std \in DOMAIN Table /\ clk \in Nat /\ DOMAIN next = Node /\ DOMAIN row_state = Node /\ DOMAIN prev = Node
      BY <2>1 DEF Shape
    <2>3. \A T \in Standard, n \in Node :
            state[n] \in NodeState /\ next[n] \in [T.command -> Int] /\ IsFiniteSet(row_state[n])
      BY <2>1 DEF Typed
    <2>4. \A i \in 1 .. Len(log) - 1 : log[i].at < log[i + 1].at
      <3>1. Table[std] \in Standard
        BY DEF Standard
      <3>2. log \in Seq(Entries(Table[std])) /\ \A i, j \in 1 .. Len(log) : i < j => log[i].at < log[j].at
        BY <2>1, <3>1 DEF Logged
      <3>3. Len(log) \in Nat
        BY <3>2
      <3>4. \A i \in 1 .. Len(log) - 1 : i \in 1 .. Len(log) /\ i + 1 \in 1 .. Len(log) /\ i < i + 1
        BY <3>3
      <3> QED BY <3>2, <3>4
    <2> QED BY <2>2, <2>3, <2>4 DEF TypeOK
  <1> QED BY <1>1, ChannelInvariant, PTL

\* Controller::tick checks with is_ready the command of a request and issues, in the
\* same call, the one it then needs (in TLDRAM that of a migration): the assertion of
\* issue_cmd, that this one is ready as well, holds.
THEOREM DramReady == Spec => []IssuedWhenReady
  <1>1. ChannelInv => IssuedWhenReady
    <2> SUFFICES ASSUME ChannelInv, NEW T \in Standard, NEW r \in queue, NEW cmd, cmd = get_first_cmd(T, extended(T, r))
                 PROVE  get_next(T, cmd, get_addr_vec(cmd, r.addr)) <= IF clk >= ready_at(T, r) THEN clk + 1 ELSE ready_at(T, r)
      BY DEF IssuedWhenReady
    <2>1. Shape /\ Typed /\ MildKept
      BY DEF ChannelInv
    <2> DEFINE x == get_next(T, cmd, get_addr_vec(cmd, r.addr))
               y == ready_at(T, r)
    <2>2. cmd \in Needed(T, r) /\ y \in Int /\ x <= y
      BY <2>1, ReadyInTime, TablesAssumption
    <2>3. x \in Int
      BY <2>1, <2>2, IssuedAddress, NextOnPath, TablesAssumption
    <2>4. clk \in Nat
      BY <2>1 DEF Shape
    <2> HIDE DEF x, y
    <2>5. x <= IF clk >= y THEN clk + 1 ELSE y
      BY <2>2, <2>3, <2>4
    <2> QED BY <2>5 DEF x, y
  <1> QED BY <1>1, ChannelInvariant, PTL

\* Whatever the controller issues, and in whichever cycle a command is delayed to, no
\* command comes sooner after another one than the tables of update_timing say, at
\* every level that both have in common.
THEOREM TablesKept == Spec => []ConstraintsKept
  <1>1. ChannelInv => ConstraintsKept
    BY DEF ChannelInv
  <1> QED BY <1>1, ChannelInvariant, PTL

\* The data of two reads or writes of a channel never overlap on its bus.
THEOREM BusExclusive == Spec => []DataBusExclusive
  <1>1. ChannelInv => DataBusExclusive
    BY BusLemma, TablesAssumption DEF ChannelInv
  <1> QED BY <1>1, ChannelInvariant, PTL

\* The times of the data sheet that init_timing spreads over the levels and commands
\* are kept for every row, and no rank opens more rows in tFAW than it may.
THEOREM TimesKept == Spec => []TimingsKept
  <1>1. ChannelInv => TimingsKept
    BY RowLemma, WindowLemma, TablesAssumption DEF ChannelInv, TimingsKept
  <1> QED BY <1>1, ChannelInvariant, PTL

\* The standard of a channel never changes, so that the theorems below may leave out
\* the two, DSARP and SALP-1, whose banks have a state besides that of their rows.
LEMMA StandardStays == Spec /\ std \notin TwoLevels => [](std \notin TwoLevels)
  <1>1. std \notin TwoLevels /\ [Next]_vars => (std \notin TwoLevels)'
    <2> SUFFICES ASSUME std \notin TwoLevels, [Next]_vars PROVE std' = std
      OBVIOUS
    <2>1. ASSUME NEW T, Issue(T) PROVE std' = std
      BY <2>1, Zenon DEF Issue, issue_cmd
    <2>2. UNCHANGED vars => std' = std
      BY DEF vars
    <2> QED BY <2>1, <2>2 DEF Next
  <1> QED BY <1>1, PTL DEF Spec

\* But for DSARP and SALP-1: whatever else was opened and closed before, a row is read or
\* written only while it is the one open in its buffer, and in MASA only in the
\* subarray of its bank that was opened or selected last.
THEOREM AccessesHit == Spec /\ std \notin TwoLevels => []AccessOpenRow
  <1>1. ChannelInv /\ std \notin TwoLevels => AccessOpenRow
    BY AccessLemma DEF ChannelInv
  <1> QED BY <1>1, ChannelInvariant, StandardStays, PTL

\* But for DSARP and SALP-1: the row buffers, the row table of the row policy and the row hits of the scheduler
\* agree on the rows that are open, one in a buffer at most.
THEOREM RowsAgree == Spec /\ std \notin TwoLevels => []OneRowOpen
  <1>1. ChannelInv /\ std \notin TwoLevels => OneRowOpen
    BY HitLemma, TablesAssumption DEF ChannelInv
  <1> QED BY <1>1, ChannelInvariant, StandardStays, PTL

\* But for DSARP and SALP-1: a refresh finds every row under it closed, and none of them
\* is opened before the refresh is over.
THEOREM RefreshesSafe == Spec /\ std \notin TwoLevels => []RefreshKeepsClosed
  <1>1. ChannelInv /\ std \notin TwoLevels => RefreshKeepsClosed
    BY RefreshLemma, TablesAssumption DEF ChannelInv
  <1> QED BY <1>1, ChannelInvariant, StandardStays, PTL

\* But for DSARP and SALP-1: no assertion of the controller fails: what issue_cmd is given is ready, and
\* RowTable::update finds the row that is accessed and rows to close.
THEOREM NoAssertionFails == Spec /\ std \notin TwoLevels => AssertionsHold
  <1> DEFINE A == \A T \in Standard : LET e == Last(log') IN
                    /\ IsAccess(T, e) => [group |-> Addressed(e), row |-> Row(e)] \in rowtable
                    /\ IsClosing(T, e) => Cardinality(rowtable') < Cardinality(rowtable)
  <1>1. ChannelInv /\ std \notin TwoLevels /\ Next => A
    <2> SUFFICES ASSUME ChannelInv, std \notin TwoLevels, Next, NEW T \in Standard
                 PROVE  LET e == Last(log') IN
                        /\ IsAccess(T, e) => [group |-> Addressed(e), row |-> Row(e)] \in rowtable
                        /\ IsClosing(T, e) => Cardinality(rowtable') < Cardinality(rowtable)
      BY Zenon
    <2>1. Shape /\ Typed /\ MildKept /\ Logged /\ RowsKept
      BY DEF ChannelInv
    <2>2. Issue(T)
      BY DEF Next, Standard
    <2>3. slack' \in Nat /\ \E q \in queue : \E cmd, a, t : Issues(T, q, cmd, a, t)
      BY <2>1, <2>2, IssueSteps, TablesAssumption
    <2>4. PICK q \in queue : \E cmd, a, t : Issues(T, q, cmd, a, t)
      BY <2>3
    <2>5. PICK cmd, a, t : Issues(T, q, cmd, a, t)
      BY <2>4
    <2>6. Found(T, cmd, a, t)
      BY <2>1, <2>3, <2>5, FoundStep, TablesAssumption
    <2> DEFINE e == [cmd |-> cmd, addr |-> a, at |-> t]
               L == Len(T.level)
    <2>7. Grown(T, e) /\ Finds(T, cmd, a) /\ Addressable(T, Node, a)
      BY <2>6 DEF Found
    <2>8. /\ cmd \in T.accessing => [group |-> Path(a, L), row |-> a[L]] \in rowtable
          /\ cmd \in T.closing => Cardinality(rowtable') < Cardinality(rowtable)
      <3>1. (\A b \in Leaf(T) : RowsOf(T, b)) /\ IsFiniteSet(rowtable) /\ rowtable = OpenRows(T)
        BY <2>1, Zenon DEF RowsKept
      <3> QED BY <2>1, <2>6, <3>1, TableStep, TablesAssumption
    <2>9. e.cmd = cmd /\ e.addr = a
      OBVIOUS
    <2> HIDE DEF e
    <2>10. Last(log') = e
      BY <2>7 DEF Last, Grown
    <2>11. cmd \in T.accessing => Addressed(e) = Path(a, L) /\ Row(e) = a[L]
      <3> SUFFICES ASSUME cmd \in T.accessing PROVE Addressed(e) = Path(a, L) /\ Row(e) = a[L]
        OBVIOUS
      <3>1. L \in Depths(a)
        BY <2>7 DEF Finds
      <3>2. Addressed(e) = Path(a, L)
        BY <2>1, <2>7, <2>9, <3>1, AddressedAt, TablesAssumption
      <3>3. Last(a) = a[L]
        BY <2>1, <2>7, <3>1, LeafOf, TablesAssumption
      <3> QED BY <2>9, <3>2, <3>3 DEF Row
    <2> QED BY <2>8, <2>9, <2>10, <2>11 DEF IsAccess, IsClosing
  <1>2. ChannelInv /\ std \notin TwoLevels /\ [Next]_vars => [A]_vars
    <2> HIDE DEF A
    <2> QED BY <1>1
  <1>3. [][A]_vars => RowTableAsserted
    BY DEF RowTableAsserted
  <1> QED BY <1>2, <1>3, ChannelInvariant, StandardStays, DramReady, PTL DEF Spec, AssertionsHold
=============================================================================
