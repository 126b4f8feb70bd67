--------------------------- MODULE Controller_proofs ---------------------------
(* What the controller guarantees whatever the banks, the rows, the size of   *)
(* the queues and the timings: a read is answered with the last write before   *)
(* it, the writes to an address are done in the order they were sent, serving  *)
(* counts the requests that are under way, and with the refresh of a rank       *)
(* each refresh is over before the next is due.                                 *)
EXTENDS Controller, ListTheorems

-----------------------------------------------------------------------------
(* Numbers *)

LEMMA Constants ==
    /\ None = 0 /\ None \notin Bank /\ None \notin Row /\ Bank \subseteq Nat /\ Row \subseteq Nat
    /\ Cardinality(Bank) \in Nat /\ Cardinality(Bank) >= 1 /\ Bank = 1 .. Cardinality(Bank)
    /\ \A a \in Addr : a[1] \in Bank /\ a[2] \in Row /\ a = <<a[1], a[2]>>
    /\ QueueMax \in Nat /\ QueueMax >= 1 /\ cap \in Nat
  <1>1. Cardinality(Bank) \in Nat /\ Bank = 1 .. Cardinality(Bank)
    BY BankAssumption, FS_CardinalityType
  <1>0. Cardinality(Bank) >= 1
    <2>1. 1 .. Cardinality(Bank) # {}
      BY BankAssumption
    <2> QED BY <1>1, <2>1
  <1>2. None = 0 /\ None \notin Bank /\ Bank \subseteq Nat
    BY <1>1 DEF None
  <1>3. Row \subseteq Nat /\ None \notin Row
    BY BankAssumption DEF Row
  <1>4. \A a \in Addr : a[1] \in Bank /\ a[2] \in Row /\ a = <<a[1], a[2]>>
    BY BankAssumption DEF Row
  <1> QED BY <1>0, <1>1, <1>2, <1>3, <1>4, ConfigAssumption, TimingAssumption

LEMMA Timings ==
    /\ nRCD \in Nat /\ nRAS \in Nat /\ nRP \in Nat /\ nWR \in Nat /\ nCCD \in Nat /\ nRFC \in Nat
    /\ nREFI \in Nat /\ read_latency \in Nat /\ timeout \in Nat
    /\ nRAS >= 1 /\ nRP >= 1 /\ nWR >= 1 /\ nRFC >= 1 /\ nREFI >= 1 /\ read_latency >= 1
  BY TimingAssumption

\* A set of numbers that is not empty has a least one, which Min gives.
LEMMA Least ==
    ASSUME NEW S, S \subseteq Nat, S # {}
    PROVE  Min(S) \in S /\ \A x \in S : Min(S) <= x
  <1> DEFINE R == OpToRel(<, Nat)
  <1>1. IsWellFoundedOn(R, Nat)
    BY NatLessThanWellFounded
  <1>2. \A x, y \in Nat : y < x => <<y, x>> \in R
    BY Zenon DEF OpToRel
  <1> HIDE DEF R
  <1>3. PICK x \in S : \A y \in S : ~(<<y, x>> \in R)
    BY <1>1, WFMin
  <1>4. \A y \in S : x <= y
    <2> SUFFICES ASSUME NEW y \in S PROVE x <= y
      OBVIOUS
    <2>1. x \in Nat /\ y \in Nat
      OBVIOUS
    <2>2. ~(y < x)
      BY <1>2, <1>3, <2>1, Zenon
    <2> QED BY <2>1, <2>2
  <1>5. \E z \in S : \A y \in S : z <= y
    BY <1>4
  <1> QED BY <1>5 DEF Min

\* A set of numbers with a bound that is not empty has a greatest one.
LEMMA Greatest ==
    ASSUME NEW S, S \subseteq Nat, S # {}, NEW n \in Nat, \A x \in S : x <= n
    PROVE  Max(S) \in S /\ \A x \in S : x <= Max(S)
  <1> DEFINE T == {n - x : x \in S}
  <1>1. T \subseteq Nat /\ T # {}
    <2>1. \A x \in S : n - x \in Nat
      OBVIOUS
    <2>2. \A t \in T : \E x \in S : t = n - x
      OBVIOUS
    <2>3. T # {}
      <3>1. PICK x \in S : TRUE
        OBVIOUS
      <3>2. n - x \in T
        BY <3>1
      <3> QED BY <3>2
    <2> HIDE DEF T
    <2> QED BY <2>1, <2>2, <2>3
  <1>2. Min(T) \in T /\ \A y \in T : Min(T) <= y
    <2> HIDE DEF T
    <2> QED BY <1>1, Least
  <1>3. PICK x \in S : Min(T) = n - x
    BY <1>2
  <1>4. \A y \in S : n - y \in T
    OBVIOUS
  <1>5. \A y \in S : y <= x
    <2> SUFFICES ASSUME NEW y \in S PROVE y <= x
      OBVIOUS
    <2>1. n - x <= n - y
      BY <1>2, <1>3, <1>4
    <2>2. x \in Nat /\ y \in Nat
      OBVIOUS
    <2> HIDE DEF T
    <2> QED BY <2>1, <2>2
  <1>6. \E z \in S : \A y \in S : z >= y
    <2> HIDE DEF T
    <2> QED BY <1>5
  <1> HIDE DEF T
  <1>7. Max(S) \in S /\ \A y \in S : Max(S) >= y
    BY <1>6 DEF Max
  <1> QED BY <1>7

LEMMA OfTwo ==
    ASSUME NEW m \in Int, NEW n \in Int
    PROVE  Max({m, n}) = (IF m >= n THEN m ELSE n) /\ Min({m, n}) = (IF m <= n THEN m ELSE n)
  BY DEF Max, Min

LEMMA Counted == ASSUME NEW n \in Nat PROVE Left(n) \in Nat /\ Left(n) <= n /\ (n > 0 => Left(n) = n - 1)
  BY DEF Left

-----------------------------------------------------------------------------
(* The schedulers *)

\* What the schedulers see of a request.
Same(r, t) == r.type = t.type /\ r.bank = t.bank /\ r.row = t.row

LEMMA SameStatus ==
    ASSUME NEW r, NEW t, Same(r, t)
    PROVE  /\ is_ready(r) <=> is_ready(t)
           /\ is_row_hit(r) <=> is_row_hit(t)
           /\ is_row_open(r) <=> is_row_open(t)
           /\ get_hits(r) = get_hits(t) /\ r.bank = t.bank
  <1>1. get_first_cmd(r) = get_first_cmd(t)
    BY Zenon DEF Same, get_first_cmd
  <1>2. is_ready(r) <=> is_ready(t)
    BY <1>1, Zenon DEF Same, is_ready
  <1>3. get_hits(r) = get_hits(t)
    BY Zenon DEF Same, get_hits
  <1>4. is_row_hit(r) <=> is_row_hit(t)
    BY Zenon DEF Same, is_row_hit
  <1>5. is_row_open(r) <=> is_row_open(t)
    BY Zenon DEF Same, is_row_open
  <1>6. r.bank = t.bank
    BY Zenon DEF Same
  <1> QED BY <1>2, <1>3, <1>4, <1>5, <1>6, Zenon

\* The oldest of some places is one of them and none of them is before it.
LEMMA OldestPlace ==
    ASSUME NEW I, I \subseteq Nat \ {0}
    PROVE  /\ I = {} => Oldest(I) = 0
           /\ I # {} => Oldest(I) \in I /\ Oldest(I) # 0 /\ \A i \in I : Oldest(I) <= i
  <1>1. I # {} => Min(I) \in I /\ \A i \in I : Min(I) <= i
    <2> HAVE I # {}
    <2>1. I \subseteq Nat
      OBVIOUS
    <2> QED BY <2>1, Least
  <1> QED BY <1>1 DEF Oldest

\* The preferred place is one of I; a place of I that is as good is not before it.
LEMMA Preferred ==
    ASSUME NEW I, I \subseteq Nat \ {0}, NEW good
    PROVE  /\ I = {} => Prefer(I, good) = 0
           /\ I # {} => /\ Prefer(I, good) \in I /\ Prefer(I, good) # 0
                        /\ \A k \in I : (k \in good <=> Prefer(I, good) \in good) => Prefer(I, good) <= k
  <1>1. I \cap good \subseteq Nat \ {0}
    OBVIOUS
  <1>2. /\ I \cap good = {} => Oldest(I \cap good) = 0
        /\ I \cap good # {} => /\ Oldest(I \cap good) \in I \cap good /\ Oldest(I \cap good) # 0
                               /\ \A i \in I \cap good : Oldest(I \cap good) <= i
    BY <1>1, OldestPlace
  <1>3. /\ I = {} => Oldest(I) = 0
        /\ I # {} => Oldest(I) \in I /\ Oldest(I) # 0 /\ \A i \in I : Oldest(I) <= i
    BY OldestPlace
  <1> QED BY <1>2, <1>3 DEF Prefer

\* What get_head promises of the place it gives: it is a place of the queue, and
\* a request it cannot tell from the one there is not before it.
IsHead(q, h) ==
    /\ h \in DOMAIN q /\ h # 0
    /\ \A k \in DOMAIN q : Same(q[k], q[h]) => h <= k

LEMMA Ready ==
    ASSUME NEW q, NEW I, I \subseteq DOMAIN q, DOMAIN q \subseteq Nat \ {0}
    PROVE  /\ I = {} => FRFCFS(q, I) = 0
           /\ I # {} => /\ FRFCFS(q, I) \in I /\ FRFCFS(q, I) # 0
                        /\ \A k \in I : Same(q[k], q[FRFCFS(q, I)]) => FRFCFS(q, I) <= k
  <1> DEFINE good == {i \in DOMAIN q : is_ready(q[i])}
             h == Prefer(I, good)
  <1>1. I \subseteq Nat \ {0} /\ h = FRFCFS(q, I)
    BY DEF FRFCFS
  <1>2. \A k \in I : h \in I /\ Same(q[k], q[h]) => (k \in good <=> h \in good)
    BY SameStatus
  <1> HIDE DEF good
  <1>3. /\ I = {} => h = 0
        /\ I # {} => h \in I /\ h # 0 /\ \A k \in I : (k \in good <=> h \in good) => h <= k
    BY <1>1, Preferred
  <1> HIDE DEF h
  <1> QED BY <1>1, <1>2, <1>3, Zenon

\* FRFCFS_PriorHit: a hit that is ready, or a request that takes no row from a hit.
LEMMA PriorHit ==
    ASSUME NEW q, DOMAIN q \subseteq Nat \ {0}, NEW h, h = FRFCFS_PriorHit(q)
    PROVE  h = 0 \/ IsHead(q, h)
  <1> DEFINE hit == {i \in DOMAIN q : is_row_hit(q[i])}
             violate == {i \in DOMAIN q \ hit : is_row_open(q[i]) /\ \E j \in hit : q[j].bank = q[i].bank}
             ready == {i \in hit : is_ready(q[i])}
             I == DOMAIN q \ violate
  <1>1. h = IF \E i \in hit : is_ready(q[i]) THEN Oldest(ready) ELSE FRFCFS(q, I)
    BY DEF FRFCFS_PriorHit
  <1>2. ASSUME NEW k \in DOMAIN q, NEW m \in DOMAIN q, Same(q[k], q[m])
        PROVE  (k \in hit <=> m \in hit) /\ (k \in ready <=> m \in ready) /\ (k \in I <=> m \in I)
    <2>1. /\ is_ready(q[k]) <=> is_ready(q[m])
          /\ is_row_hit(q[k]) <=> is_row_hit(q[m])
          /\ is_row_open(q[k]) <=> is_row_open(q[m])
          /\ q[k].bank = q[m].bank
      BY <1>2, SameStatus
    <2>2. k \in hit <=> m \in hit
      BY <2>1
    <2> HIDE DEF hit
    <2>3. k \in ready <=> m \in ready
      BY <2>1, <2>2
    <2>4. k \in violate <=> m \in violate
      <3>1. (\E j \in hit : q[j].bank = q[k].bank) <=> (\E j \in hit : q[j].bank = q[m].bank)
        BY <2>1, Zenon
      <3> QED BY <2>1, <2>2, <3>1
    <2> HIDE DEF violate, ready
    <2> QED BY <2>2, <2>3, <2>4
  <1>3. CASE \E i \in hit : is_ready(q[i])
    <2>1. ready # {} /\ ready \subseteq Nat \ {0} /\ ready \subseteq DOMAIN q
      BY <1>3
    <2>2. h = Oldest(ready)
      BY <1>1, <1>3
    <2> HIDE DEF ready, hit
    <2>3. h \in ready /\ h # 0 /\ \A i \in ready : h <= i
      <3> SUFFICES ASSUME NEW R, R = ready, h = Oldest(R) PROVE h \in R /\ h # 0 /\ \A i \in R : h <= i
        BY <2>2, Zenon
      <3>1. R # {} /\ R \subseteq Nat \ {0}
        BY <2>1
      <3> QED BY ONLY <3>1, h = Oldest(R), OldestPlace
    <2> QED BY <1>2, <2>1, <2>3 DEF IsHead
  <1>4. CASE ~\E i \in hit : is_ready(q[i])
    <2>1. h = FRFCFS(q, I) /\ I \subseteq DOMAIN q
      BY <1>1, <1>4
    <2> HIDE DEF I, hit, ready
    <2>2. \/ h = 0
          \/ h \in I /\ h # 0 /\ \A k \in I : Same(q[k], q[h]) => h <= k
      BY <2>1, Ready
    <2>3. ASSUME h # 0, NEW k \in DOMAIN q, Same(q[k], q[h]) PROVE h <= k
      <3>1. h \in I /\ h \in DOMAIN q
        BY <2>1, <2>2, <2>3
      <3>2. k \in I
        BY <1>2, <2>3, <3>1, Zenon
      <3> QED BY <2>2, <2>3, <3>2, Zenon
    <2> QED BY <2>1, <2>2, <2>3, Zenon DEF IsHead
  <1> QED BY <1>3, <1>4

\* Whatever the scheduler, requests it cannot tell apart are served in the order
\* they arrived in: this is what keeps the writes to an address in order.
LEMMA OldestOfItsKind ==
    ASSUME NEW q, DOMAIN q \subseteq Nat \ {0}, config \in Configs, NEW h, h = get_head(q), h # 0
    PROVE  IsHead(q, h)
  <1>1. config.scheduler \in {"FCFS", "FRFCFS", "FRFCFS_Cap", "FRFCFS_PriorHit"}
    BY ConfigAssumption
  <1>2. CASE config.scheduler = "FCFS"
    <2>1. h = Oldest(DOMAIN q)
      BY <1>2 DEF get_head
    <2>2. DOMAIN q # {}
      BY <2>1, OldestPlace
    <2>3. h \in DOMAIN q /\ \A i \in DOMAIN q : h <= i
      BY <2>1, <2>2, OldestPlace
    <2> QED BY <2>3 DEF IsHead
  <1>3. CASE config.scheduler = "FRFCFS"
    <2>1. h = FRFCFS(q, DOMAIN q)
      BY <1>3 DEF get_head
    <2> DEFINE D == DOMAIN q
    <2>2. D \subseteq DOMAIN q /\ h = FRFCFS(q, D)
      BY <2>1
    <2> HIDE DEF D
    <2>3. h \in D /\ \A k \in D : Same(q[k], q[h]) => h <= k
      BY <2>2, Ready
    <2> QED BY <2>3 DEF IsHead, D
  <1>4. CASE config.scheduler = "FRFCFS_Cap"
    <2> DEFINE good == {i \in DOMAIN q : is_ready(q[i]) /\ get_hits(q[i]) <= cap}
    <2>1. h = Prefer(DOMAIN q, good)
      BY <1>4 DEF get_head, FRFCFS_Cap
    <2>2. \A k, m \in DOMAIN q : Same(q[k], q[m]) => (k \in good <=> m \in good)
      <3> SUFFICES ASSUME NEW k \in DOMAIN q, NEW m \in DOMAIN q, Same(q[k], q[m])
                   PROVE  k \in good <=> m \in good
        OBVIOUS
      <3>1. (is_ready(q[k]) <=> is_ready(q[m])) /\ get_hits(q[k]) = get_hits(q[m])
        BY SameStatus
      <3> QED BY <3>1, Zenon
    <2> HIDE DEF good
    <2>3. h \in DOMAIN q /\ \A k \in DOMAIN q : (k \in good <=> h \in good) => h <= k
      BY <2>1, Preferred
    <2> QED BY <2>2, <2>3, Zenon DEF IsHead
  <1>5. CASE config.scheduler = "FRFCFS_PriorHit"
    <2>1. h = FRFCFS_PriorHit(q)
      BY <1>5 DEF get_head
    <2> QED BY <2>1, PriorHit
  <1> QED BY <1>1, <1>2, <1>3, <1>4, <1>5

-----------------------------------------------------------------------------
(* Types *)

At(r) == <<r.bank, r.row>>
Requests(T) == {r \in [type : T, bank : Bank, row : Nat, started : BOOLEAN, version : Nat] : At(r) \in Addr}
Reads == Requests({"READ", "EXTENSION"})
Writes == Requests({"WRITE"})
Refreshes == [type : {"REFRESH"}, bank : Bank \cup {None}, started : BOOLEAN]
Answers == [left : Nat, accessed : BOOLEAN, version : Nat, least : Nat]

TypeInv ==
    /\ config \in Configs /\ write_mode \in BOOLEAN /\ ctrl_write_mode \in BOOLEAN
    /\ readq \in Seq(Reads) /\ writeq \in Seq(Writes) /\ otherq \in Seq(Refreshes) /\ pending \in Seq(Answers)
    /\ refreshed \in Nat /\ backlog \in [Bank -> Int] /\ turn \in Bank
    /\ row \in [Bank -> Row \cup {None}] /\ hits \in [Bank -> 0 .. cap + 1] /\ idle \in [Bank -> 0 .. timeout]
    /\ act \in [Bank -> Nat] /\ pre \in [Bank -> Nat] /\ cas \in [Bank -> Nat] /\ ref \in Nat
    /\ serving \in Int /\ sent \in Nat /\ writes \in [Addr -> Nat] /\ stored \in [Addr -> Nat]

\* What a request of the read or of the write queue is.
LEMMA RequestType ==
    ASSUME NEW T, NEW r \in Requests(T)
    PROVE  /\ r.type \in T /\ r.bank \in Bank /\ r.row \in Nat /\ r.started \in BOOLEAN /\ r.version \in Nat
           /\ At(r) \in Addr /\ r.row \in Row
  <1>1. /\ r.type \in T /\ r.bank \in Bank /\ r.row \in Nat /\ r.started \in BOOLEAN /\ r.version \in Nat
        /\ At(r) \in Addr
    BY DEF Requests
  <1>2. r.row = At(r)[2]
    BY DEF At
  <1>3. r.row \in Row
    BY <1>1, <1>2 DEF Row
  <1> QED BY <1>1, <1>3

\* The same request, once its first command was issued.
LEMMA StartedType ==
    ASSUME NEW T, NEW r \in Requests(T), NEW t, t = [r EXCEPT !.started = TRUE]
    PROVE  /\ t \in Requests(T) /\ t.started = TRUE /\ Same(t, r) /\ At(t) = At(r) /\ t.version = r.version
  <1>1. /\ t \in [type : T, bank : Bank, row : Nat, started : BOOLEAN, version : Nat]
        /\ t.type = r.type /\ t.bank = r.bank /\ t.row = r.row /\ t.started = TRUE /\ t.version = r.version
    BY DEF Requests
  <1>2. At(t) = At(r) /\ At(r) \in Addr
    BY <1>1, RequestType DEF At
  <1> QED BY <1>1, <1>2 DEF Requests, Same

\* A command for a request: one that opens or closes its row, or the access.
LEMMA Commands ==
    ASSUME NEW r
    PROVE  /\ r.type = "REFRESH" => get_first_cmd(r) \in {"REF", "PREA", "REFPB", "PRE"}
           /\ r.type # "REFRESH" => get_first_cmd(r) \in {"ACT", "PRE", r.type}
  BY DEF get_first_cmd

\* The counters after a command stay in their ranges.
LEMMA AtLeastType ==
    ASSUME NEW f \in [Bank -> Nat], NEW B, NEW n \in Nat
    PROVE  /\ AtLeast(f, B, n) \in [Bank -> Nat]
           /\ \A b \in Bank : b \in B => AtLeast(f, B, n)[b] = IF n >= Left(f[b]) THEN n ELSE Left(f[b])
           /\ \A b \in Bank : b \notin B => AtLeast(f, B, n)[b] = Left(f[b])
  <1>1. ASSUME NEW b \in Bank
        PROVE  Left(f[b]) \in Nat /\ Max({n, Left(f[b])}) = IF n >= Left(f[b]) THEN n ELSE Left(f[b])
    <2>1. f[b] \in Nat
      OBVIOUS
    <2>2. Left(f[b]) \in Nat
      BY <2>1, Counted
    <2> QED BY <2>2, OfTwo
  <1> QED BY <1>1 DEF AtLeast

LEMMA IssueType ==
    ASSUME TypeInv, NEW cmd, NEW b, NEW opens \in Row \cup {None}, issue_cmd(cmd, b, opens)
    PROVE  /\ row' \in [Bank -> Row \cup {None}] /\ hits' \in [Bank -> 0 .. cap + 1] /\ idle' \in [Bank -> 0 .. timeout]
           /\ act' \in [Bank -> Nat] /\ pre' \in [Bank -> Nat] /\ cas' \in [Bank -> Nat] /\ ref' \in Nat
  <1>1. /\ row \in [Bank -> Row \cup {None}] /\ hits \in [Bank -> 0 .. cap + 1] /\ idle \in [Bank -> 0 .. timeout]
        /\ act \in [Bank -> Nat] /\ pre \in [Bank -> Nat] /\ cas \in [Bank -> Nat] /\ ref \in Nat
    BY DEF TypeInv
  <1>2. act' \in [Bank -> Nat] /\ pre' \in [Bank -> Nat] /\ cas' \in [Bank -> Nat]
    <2> DEFINE closed == IF cmd = "PREA" THEN Bank ELSE IF cmd = "PRE" THEN {b} ELSE {}
               opened == IF cmd = "ACT" THEN {b} ELSE {}
               access == cmd \in {"READ", "WRITE", "EXTENSION"}
               used == closed \cup opened \cup (IF access THEN {b} ELSE {})
               quiet == CASE cmd = "REF" -> Bank [] cmd = "REFPB" -> {b} [] OTHER -> {}
               n == IF quiet # {} THEN nRFC ELSE nRP
               m == IF access THEN nWR ELSE nRAS
               k == IF access THEN nCCD ELSE nRCD
    <2>1. n \in Nat /\ m \in Nat /\ k \in Nat
      BY Timings
    <2>2. /\ act' = AtLeast(act, closed \cup quiet, n)
          /\ pre' = AtLeast(pre, used \ closed, m)
          /\ cas' = AtLeast(cas, IF access THEN Bank ELSE opened, k)
      BY Zenon DEF issue_cmd
    <2> HIDE DEF n, m, k, used, closed, quiet, opened, access
    <2> QED BY <1>1, <2>1, <2>2, AtLeastType
  <1>3. ref' \in Nat
    <2>1. Left(ref) \in Nat
      BY <1>1, Counted
    <2> QED BY <2>1, Timings DEF issue_cmd
  <1>4. row' \in [Bank -> Row \cup {None}]
    BY <1>1 DEF issue_cmd
  <1>5. hits' \in [Bank -> 0 .. cap + 1]
    <2>1. \A k \in Bank : hits[k] \in 0 .. cap + 1 /\ 0 \in 0 .. cap + 1 /\ Min({hits[k] + 1, cap + 1}) \in 0 .. cap + 1
      <3> SUFFICES ASSUME NEW k \in Bank PROVE hits[k] \in 0 .. cap + 1 /\ 0 \in 0 .. cap + 1 /\ Min({hits[k] + 1, cap + 1}) \in 0 .. cap + 1
        OBVIOUS
      <3>1. hits[k] \in 0 .. cap + 1 /\ cap \in Nat
        BY <1>1, Constants
      <3>2. Min({hits[k] + 1, cap + 1}) = IF hits[k] + 1 <= cap + 1 THEN hits[k] + 1 ELSE cap + 1
        <4>1. hits[k] + 1 \in Int /\ cap + 1 \in Int
          BY <3>1
        <4> QED BY <4>1, OfTwo, Zenon
      <3> QED BY <3>1, <3>2
    <2> QED BY <2>1 DEF issue_cmd
  <1>6. idle' \in [Bank -> 0 .. timeout]
    <2>1. \A k \in Bank : 0 \in 0 .. timeout /\ Min({idle[k] + 1, timeout}) \in 0 .. timeout
      <3> SUFFICES ASSUME NEW k \in Bank PROVE 0 \in 0 .. timeout /\ Min({idle[k] + 1, timeout}) \in 0 .. timeout
        OBVIOUS
      <3>1. idle[k] \in 0 .. timeout /\ timeout \in Nat
        BY <1>1, Timings
      <3>2. Min({idle[k] + 1, timeout}) = IF idle[k] + 1 <= timeout THEN idle[k] + 1 ELSE timeout
        <4>1. idle[k] + 1 \in Int /\ timeout \in Int
          BY <3>1
        <4> QED BY <4>1, OfTwo, Zenon
      <3> QED BY <3>1, <3>2
    <2> QED BY <2>1 DEF issue_cmd
  <1> QED BY <1>2, <1>3, <1>4, <1>5, <1>6

-----------------------------------------------------------------------------
(* One tick *)

\* The early refresh of a tick, if any, is of a bank that has credit left.
LEMMA EarlyType ==
    ASSUME TypeInv, NEW b \in Early
    PROVE  /\ b \in Bank \cup {None} /\ (config.refresh = "rank" => b = None)
           /\ b # None => backlog[b] < backlog_max
  <1>1. \A k \in Bank : Granted(k) \in Bank \cup {None} /\ (Granted(k) # None => backlog[Granted(k)] < backlog_max)
    BY DEF Granted
  <1>2. \A k \in wrp : k \in Bank \cup {None} /\ (k # None => backlog[k] < backlog_max)
    <2>1. LeastDemand \subseteq Bank
      BY DEF LeastDemand
    <2>2. wrp = {None} \/ wrp = {Granted(k) : k \in LeastDemand}
      BY DEF wrp
    <2> QED BY <1>1, <2>1, <2>2
  <1>3. \A k \in early_inject_refresh : k \in Bank \cup {None} /\ (k # None => backlog[k] < backlog_max)
    <2>1. \A k \in Idle : k \in Bank /\ backlog[k] < backlog_early_pull_threshold
      BY DEF Idle
    <2>2. \A k \in Bank : backlog[k] < backlog_early_pull_threshold => backlog[k] < backlog_max
      <3>1. \A k \in Bank : backlog[k] \in Int
        BY DEF TypeInv
      <3>2. /\ backlog_early_pull_threshold \in Int /\ backlog_max \in Int
            /\ backlog_early_pull_threshold <= backlog_max
        BY BacklogAssumption
      <3> QED BY <3>1, <3>2
    <2>3. early_inject_refresh = {None} \/ early_inject_refresh = Idle
      BY DEF early_inject_refresh
    <2> QED BY <2>1, <2>2, <2>3
  <1>4. Early = {None} \/ (config.refresh # "rank" /\ (Early = wrp \/ Early = early_inject_refresh))
    BY DEF Early
  <1> QED BY <1>2, <1>3, <1>4

LEMMA OtherType ==
    ASSUME TypeInv, NEW b \in Bank \cup {None}
    PROVE  otherqNow(b) \in Seq(Refreshes)
  <1>1. /\ otherq \in Seq(Refreshes) /\ turn \in Bank /\ \A k \in Bank \cup {None} : refresh_target(k) \in Refreshes
    BY DEF TypeInv, Refreshes, refresh_target
  <1>2. \A q \in Seq(Refreshes), r \in Refreshes : Append(q, r) \in Seq(Refreshes)
    OBVIOUS
  <1>3. early_otherq(b) \in Seq(Refreshes)
    BY <1>1, <1>2, Zenon DEF early_otherq
  <1>4. \/ otherqNow(b) = early_otherq(b)
        \/ otherqNow(b) = Append(otherq, refresh_target(None))
        \/ otherqNow(b) = Append(early_otherq(b), refresh_target(turn))
    BY Zenon DEF otherqNow
  <1>5. refresh_target(None) \in Refreshes /\ refresh_target(turn) \in Refreshes
    BY <1>1
  <1> QED BY <1>1, <1>2, <1>3, <1>4, <1>5, Zenon

\* What the queue that was served becomes, by which of the three it was.
LEMMA QueuesCase ==
    ASSUME TypeInv, NEW q, NEW other, Queues(q, other)
    PROVE  \/ queue(other) = other /\ otherq' = q /\ readq' = readq /\ writeq' = writeq
           \/ /\ other = <<>> /\ queue(other) = writeq
              /\ writeq' = q /\ otherq' = <<>> /\ readq' = readq
           \/ /\ other = <<>> /\ queue(other) = readq
              /\ readq' = q /\ otherq' = <<>> /\ writeq' = writeq
  BY Zenon DEF Queues, queue

\* The steps of a tick on the queues: a command for a refresh, a write or a read,
\* which is over with its last command, or none.
Requested(cmd, b) == \E opens \in Row \cup {None} : issue_cmd(cmd, b, opens)
Begun(r) == [r EXCEPT !.started = TRUE]
First(r) == IF r.started THEN 0 ELSE 1
RefreshServed(other) ==
    \E h \in DOMAIN other :
      /\ h = get_head(other) /\ is_ready(other[h])
      /\ Requested(get_first_cmd(other[h]), other[h].bank)
      /\ otherq' = IF get_first_cmd(other[h]) \in {"PREA", "PRE"} THEN [other EXCEPT ![h] = Begun(other[h])]
                   ELSE RemoveAt(other, h)
      /\ readq' = readq /\ writeq' = writeq /\ pending' = pendingNow /\ serving' = servingNow /\ stored' = stored
WriteServed(h) ==
    /\ IsHead(writeq, h) /\ Requested(get_first_cmd(writeq[h]), writeq[h].bank)
    /\ otherq' = <<>> /\ readq' = readq /\ pending' = pendingNow
    /\ \/ /\ writeq' = RemoveAt(writeq, h) /\ stored' = [stored EXCEPT ![At(writeq[h])] = writeq[h].version]
          /\ serving' = servingNow + First(writeq[h]) - 1
       \/ /\ writeq' = [writeq EXCEPT ![h] = Begun(writeq[h])] /\ stored' = stored
          /\ serving' = servingNow + First(writeq[h])
ReadServed(h, r) ==
    /\ h \in DOMAIN readq /\ r = Extended(readq[h])
    /\ Requested(get_first_cmd(r), r.bank)
    /\ otherq' = <<>> /\ writeq' = writeq /\ stored' = stored /\ serving' = servingNow + First(readq[h])
    /\ \/ /\ readq' = RemoveAt(readq, h)
          /\ pending' = Append(pendingNow, [left |-> read_latency, accessed |-> TRUE,
                                            version |-> stored[At(r)], least |-> r.version])
       \/ readq' = [readq EXCEPT ![h] = Begun(r)] /\ pending' = pendingNow
NoneServed(other) ==
    /\ otherq' = other /\ readq' = readq /\ writeq' = writeq
    /\ pending' = pendingNow /\ serving' = servingNow /\ stored' = stored
    /\ \E h \in {get_head(queue(other))}, victim \in {get_victim} :
         /\ ~(h # 0 /\ is_ready(queue(other)[h]))
         /\ issue_cmd(IF victim = None THEN "NOP" ELSE "PRE", victim, None)

LEMMA ExtendedType ==
    ASSUME NEW r \in Reads, NEW t, t = Extended(r)
    PROVE  /\ t \in Reads /\ At(t) = At(r) /\ t.version = r.version /\ t.started = r.started
           /\ t.bank = r.bank /\ t.row = r.row
  <1>1. r \in [type : {"READ", "EXTENSION"}, bank : Bank, row : Nat, started : BOOLEAN, version : Nat]
    BY DEF Reads, Requests
  <1>2. /\ t \in [type : {"READ", "EXTENSION"}, bank : Bank, row : Nat, started : BOOLEAN, version : Nat]
        /\ t.bank = r.bank /\ t.row = r.row /\ t.version = r.version /\ t.started = r.started
    BY <1>1 DEF Extended
  <1>3. At(t) = At(r) /\ At(r) \in Addr
    BY <1>2, RequestType DEF At, Reads
  <1> QED BY <1>2, <1>3 DEF Reads, Requests

LEMMA IssueCases ==
    ASSUME TypeInv, NEW other \in Seq(Refreshes), Issue(other)
    PROVE  \/ other # <<>> /\ RefreshServed(other)
           \/ other = <<>> /\ \E h : WriteServed(h)
           \/ other = <<>> /\ \E h, r : ReadServed(h, r)
  <1> DEFINE q == queue(other)
             h == get_head(q)
             r == Extended(q[h])
             cmd == get_first_cmd(r)
             done == cmd \notin {"ACT", "PRE", "PREA"}
             next == IF done THEN RemoveAt(q, h) ELSE [q EXCEPT ![h] = [r EXCEPT !.started = TRUE]]
             first == IF ~q[h].started /\ r.type # "REFRESH" THEN 1 ELSE 0
             written == done /\ r.type = "WRITE"
  <1>1. h # 0 /\ is_ready(q[h]) /\ Serve(other, q, h, r, cmd)
    BY Zenon DEF Issue
  <1>2. /\ issue_cmd(cmd, r.bank, IF cmd = "ACT" THEN r.row ELSE None)
        /\ pending' = IF done /\ r.type \in {"READ", "EXTENSION"}
                      THEN Append(pendingNow, [left |-> read_latency, accessed |-> TRUE,
                                               version |-> stored[<<r.bank, r.row>>], least |-> r.version])
                      ELSE pendingNow
        /\ stored' = IF written THEN [stored EXCEPT ![<<r.bank, r.row>>] = r.version] ELSE stored
        /\ serving' = servingNow + first - (IF written THEN 1 ELSE 0)
        /\ Queues(next, other)
    <2> DEFINE c == cmd
               t == r
    <2>1. Serve(other, q, h, t, c) /\ c = cmd /\ t = r
      BY <1>1
    <2> HIDE DEF c, t, q, h
    <2> QED BY <2>1 DEF Serve
  <1>3. /\ readq \in Seq(Reads) /\ writeq \in Seq(Writes) /\ config \in Configs
    BY DEF TypeInv
  <1> HIDE DEF next
  <1>4. \/ q = other /\ otherq' = next /\ readq' = readq /\ writeq' = writeq
        \/ /\ other = <<>> /\ q = writeq
           /\ writeq' = next /\ otherq' = <<>> /\ readq' = readq
        \/ /\ other = <<>> /\ q = readq
           /\ readq' = next /\ otherq' = <<>> /\ writeq' = writeq
    BY <1>2, QueuesCase
  <1>5. IsHead(q, h) /\ h \in DOMAIN q
    <2>1. DOMAIN q \subseteq Nat \ {0}
      <3>1. \A X, s : s \in Seq(X) => DOMAIN s \subseteq Nat \ {0}
        OBVIOUS
      <3>2. q = other \/ q = readq \/ q = writeq
        BY <1>4, Zenon
      <3> QED BY <1>3, <3>1, <3>2, Zenon
    <2>2. IsHead(q, h)
      <3> HIDE DEF q, h
      <3> SUFFICES ASSUME NEW s, s = q PROVE IsHead(s, h)
        BY Zenon
      <3>1. h = get_head(s)
        BY Zenon DEF h
      <3> QED BY <1>1, <1>3, <2>1, <3>1, OldestOfItsKind
    <2> QED BY <2>2, Zenon DEF IsHead
  <1>6. r.type # "REFRESH" => Requested(cmd, r.bank) \/ r.row \notin Row
    BY <1>2, Zenon DEF Requested
  <1>7. CASE q = other /\ otherq' = next /\ readq' = readq /\ writeq' = writeq
    <2> HIDE DEF q, h
    <2>1. q[h] \in Refreshes /\ h \in DOMAIN other
      <3>1. h \in DOMAIN other /\ q[h] = other[h]
        BY <1>5, <1>7, Zenon
      <3>2. other[h] \in Refreshes
        BY <3>1
      <3> QED BY <3>1, <3>2, Zenon
    <2>2. q[h].type = "REFRESH"
      BY <2>1 DEF Refreshes
    <2>3. r = q[h]
      BY <2>2, Zenon DEF Extended
    <2> HIDE DEF r
    <2>4. cmd \in {"REF", "PREA", "REFPB", "PRE"}
      BY <2>2, <2>3, Commands
    <2>5. /\ next = IF cmd \in {"PREA", "PRE"} THEN [q EXCEPT ![h] = Begun(q[h])] ELSE RemoveAt(q, h)
          /\ cmd # "ACT"
      BY <2>3, <2>4 DEF next, Begun
    <2>6. first = 0 /\ ~written /\ r.type = "REFRESH"
      BY <2>2, <2>3
    <2>7. /\ pending' = pendingNow /\ stored' = stored
          /\ serving' = servingNow
      <3> HIDE DEF cmd, next, first
      <3>1. serving' = servingNow + 0 - 0
        BY <1>2, <2>6, Zenon
      <3>2. pending' = pendingNow /\ stored' = stored
        BY <1>2, <2>6
      <3>3. servingNow \in Int
        BY DEF TypeInv, servingNow
      <3> QED BY <3>1, <3>2, <3>3
    <2>8. Requested(cmd, q[h].bank)
      BY <1>2, <2>3, <2>5, Zenon DEF Requested
    <2>9. RefreshServed(other)
      <3> HIDE DEF next, cmd
      <3>1. h = get_head(other)
        BY <1>7, Zenon DEF h
      <3>2. cmd = get_first_cmd(other[h])
        BY <1>7, <2>3, Zenon DEF cmd
      <3> QED BY <1>1, <1>7, <2>1, <2>5, <2>7, <2>8, <3>1, <3>2, Zenon DEF RefreshServed
    <2>10. other # <<>>
      <3>1. DOMAIN <<>> = {}
        OBVIOUS
      <3> QED BY <2>1, <3>1, Zenon
    <2> QED BY <2>9, <2>10
  <1>8. servingNow \in Int /\ None \in Row \cup {None}
    BY DEF TypeInv, servingNow
  <1>9. CASE other = <<>> /\ q = writeq /\ writeq' = next /\ otherq' = <<>> /\ readq' = readq
    <2> DEFINE w == q[h]
    <2>1. h \in DOMAIN writeq /\ w = writeq[h] /\ IsHead(writeq, h) /\ cmd = get_first_cmd(r) /\ r = Extended(w)
      <3> HIDE DEF q
      <3> QED BY <1>5, <1>9, Zenon
    <2>2. w \in Writes
      <3>1. writeq[h] \in Writes
        <4> HIDE DEF h
        <4> QED BY <1>3, <2>1
      <3> QED BY <2>1, <3>1, Zenon
    <2> HIDE DEF w, h, q
    <2>3. w.type = "WRITE" /\ w.bank \in Bank /\ w.row \in Row /\ w.started \in BOOLEAN
      BY <2>2, RequestType DEF Writes
    <2>4. r = w
      BY <2>3, Zenon DEF Extended, w
    <2>5. cmd \in {"ACT", "PRE", "WRITE"}
      <3> HIDE DEF r
      <3> QED BY <2>3, <2>4, Commands
    <2> HIDE DEF r, cmd
    <2>6. Requested(cmd, w.bank)
      <3>1. (IF cmd = "ACT" THEN r.row ELSE None) \in Row \cup {None}
        BY <2>3, <2>4
      <3> QED BY <1>2, <2>4, <3>1, Zenon DEF Requested
    <2>7. (done <=> cmd = "WRITE") /\ (written <=> cmd = "WRITE")
      BY <2>3, <2>4, <2>5
    <2>8. first = First(w)
      BY <2>3, <2>4 DEF First, w
    <2>9. pending' = pendingNow
      <3>1. r.type \notin {"READ", "EXTENSION"}
        BY <2>3, <2>4
      <3> QED BY <1>2, <3>1, Zenon
    <2>10. First(w) \in Int
      BY DEF First
    <2> HIDE DEF first
    <2>11. CASE cmd = "WRITE"
      <3>1. next = RemoveAt(writeq, h)
        BY <1>9, <2>7, <2>11, Zenon DEF next
      <3>2. stored' = [stored EXCEPT ![At(w)] = w.version]
        <4>1. written
          BY <2>7, <2>11, Zenon
        <4> HIDE DEF written
        <4> QED BY <1>2, <2>4, <4>1, Zenon DEF At
      <3>3. serving' = servingNow + First(w) - 1
        <4>1. written
          BY <2>7, <2>11, Zenon
        <4> HIDE DEF written
        <4> QED BY <1>2, <2>8, <4>1, Zenon
      <3> QED BY <1>9, <2>1, <2>4, <2>6, <2>9, <3>1, <3>2, <3>3, Zenon DEF WriteServed
    <2>12. CASE cmd # "WRITE"
      <3>1. next = [writeq EXCEPT ![h] = Begun(w)]
        BY <1>9, <2>4, <2>7, <2>12, Zenon DEF next, Begun
      <3>2. ~written
        BY <2>7, <2>12, Zenon
      <3> HIDE DEF written
      <3>3. stored' = stored
        BY <1>2, <3>2, Zenon
      <3>4. serving' = servingNow + First(w)
        <4>1. serving' = servingNow + first - 0
          BY <1>2, <3>2, Zenon
        <4> QED BY <1>8, <2>8, <2>10, <4>1
      <3> QED BY <1>9, <2>1, <2>4, <2>6, <2>9, <3>1, <3>3, <3>4, Zenon DEF WriteServed
    <2> QED BY <1>9, <2>11, <2>12
  <1>10. CASE other = <<>> /\ q = readq /\ readq' = next /\ otherq' = <<>> /\ writeq' = writeq
    <2> DEFINE w == q[h]
    <2>1. h \in DOMAIN readq /\ w = readq[h] /\ cmd = get_first_cmd(r) /\ r = Extended(w)
      <3> HIDE DEF q
      <3> QED BY <1>5, <1>10, Zenon
    <2>2. w \in Reads
      <3>1. readq[h] \in Reads
        <4> HIDE DEF h
        <4> QED BY <1>3, <2>1
      <3> QED BY <2>1, <3>1, Zenon
    <2> HIDE DEF w, h, q
    <2>3. r \in Reads /\ At(r) = At(w) /\ r.version = w.version /\ r.started = w.started
      <3> HIDE DEF r
      <3> QED BY <2>1, <2>2, ExtendedType
    <2> HIDE DEF r
    <2>4. r.type \in {"READ", "EXTENSION"} /\ r.bank \in Bank /\ r.row \in Row /\ w.started \in BOOLEAN
      <3>1. w.started \in BOOLEAN
        BY <2>2, RequestType DEF Reads
      <3> QED BY <2>3, <3>1, RequestType DEF Reads
    <2>5. cmd \in {"ACT", "PRE", r.type}
      BY <2>4, Commands
    <2> HIDE DEF cmd
    <2>6. Requested(cmd, r.bank)
      <3>1. (IF cmd = "ACT" THEN r.row ELSE None) \in Row \cup {None}
        BY <2>4
      <3> QED BY <1>2, <3>1, Zenon DEF Requested
    <2>7. (done <=> cmd = r.type) /\ ~written
      BY <2>4, <2>5
    <2>8. first = First(w)
      BY <2>4 DEF First, w
    <2>9. stored' = stored /\ serving' = servingNow + First(w)
      <3>1. First(w) \in Int
        BY DEF First
      <3> HIDE DEF written, first
      <3>2. stored' = stored /\ serving' = servingNow + first - 0
        BY <1>2, <2>7, Zenon
      <3> QED BY <1>8, <2>8, <3>1, <3>2
    <2> HIDE DEF first, written
    <2>10. CASE cmd = r.type
      <3>1. next = RemoveAt(readq, h)
        BY <1>10, <2>7, <2>10, Zenon DEF next
      <3>2. done /\ r.type \in {"READ", "EXTENSION"}
        BY <2>4, <2>7, <2>10, Zenon
      <3> HIDE DEF done
      <3>3. pending' = Append(pendingNow, [left |-> read_latency, accessed |-> TRUE,
                                          version |-> stored[At(r)], least |-> r.version])
        BY <1>2, <3>2, Zenon DEF At
      <3> QED BY <1>10, <2>1, <2>6, <2>9, <3>1, <3>3, Zenon DEF ReadServed
    <2>11. CASE cmd # r.type
      <3>1. next = [readq EXCEPT ![h] = Begun(r)]
        BY <1>10, <2>7, <2>11, Zenon DEF next, Begun
      <3>2. ~done
        BY <2>7, <2>11, Zenon
      <3> HIDE DEF done
      <3>3. pending' = pendingNow
        BY <1>2, <3>2, Zenon
      <3> QED BY <1>10, <2>1, <2>6, <2>9, <3>1, <3>3, Zenon DEF ReadServed
    <2> QED BY <1>10, <2>10, <2>11
  <1> QED BY <1>4, <1>7, <1>9, <1>10, Zenon

\* A tick: what the refresh scheduler and the clock do, and one of these steps.
DramTyped ==
    /\ row \in [Bank -> Row \cup {None}] /\ hits \in [Bank -> 0 .. cap + 1] /\ idle \in [Bank -> 0 .. timeout]
    /\ act \in [Bank -> Nat] /\ pre \in [Bank -> Nat] /\ cas \in [Bank -> Nat] /\ ref \in Nat
Step(other) ==
    \/ other # <<>> /\ RefreshServed(other)
    \/ other = <<>> /\ \E h : WriteServed(h)
    \/ other = <<>> /\ \E h, r : ReadServed(h, r)
    \/ NoneServed(other)

LEMMA RequestedTyped == ASSUME TypeInv, NEW cmd, NEW b, Requested(cmd, b) PROVE DramTyped'
  BY IssueType DEF Requested, DramTyped

LEMMA TickShape ==
    ASSUME TypeInv, tick
    PROVE  \E b \in Early : Housekeeping(b) /\ otherqNow(b) \in Seq(Refreshes) /\ DramTyped' /\ Step(otherqNow(b))
  <1>1. PICK b \in Early : Housekeeping(b) /\ (Issue(otherqNow(b)) \/ Speculate(otherqNow(b)))
    BY Zenon DEF tick
  <1> DEFINE other == otherqNow(b)
  <1>2. other \in Seq(Refreshes)
    BY EarlyType, OtherType
  <1> HIDE DEF other
  <1>3. CASE Issue(other)
    <2>1. \/ other # <<>> /\ RefreshServed(other)
          \/ other = <<>> /\ \E h : WriteServed(h)
          \/ other = <<>> /\ \E h, r : ReadServed(h, r)
      BY <1>2, <1>3, IssueCases
    <2>2. \E cmd, k : Requested(cmd, k)
      BY <2>1, Zenon DEF RefreshServed, WriteServed, ReadServed
    <2>3. DramTyped'
      BY <2>2, RequestedTyped
    <2> QED BY <1>1, <1>2, <2>1, <2>3, Zenon DEF Step, other
  <1>4. CASE Speculate(other)
    <2> DEFINE q == queue(other)
    <2>1. /\ \E h \in {get_head(q)}, victim \in {get_victim} :
               /\ ~(h # 0 /\ is_ready(q[h]))
               /\ issue_cmd(IF victim = None THEN "NOP" ELSE "PRE", victim, None)
          /\ pending' = pendingNow /\ serving' = servingNow /\ stored' = stored /\ Queues(q, other)
      BY <1>4, Zenon DEF Speculate
    <2>2. otherq' = other /\ readq' = readq /\ writeq' = writeq
      BY <2>1, QueuesCase
    <2>3. NoneServed(other)
      BY <2>1, <2>2, Zenon DEF NoneServed
    <2>4. DramTyped'
      <3>1. None \in Row \cup {None}
        OBVIOUS
      <3>2. \E cmd, k : issue_cmd(cmd, k, None)
        BY <2>1, Zenon
      <3> QED BY <3>1, <3>2, RequestedTyped DEF Requested
    <2> QED BY <1>1, <1>2, <2>3, <2>4, Zenon DEF Step, other
  <1> QED BY <1>1, <1>3, <1>4, Zenon DEF other

\* The answers that wait, after the first step of the tick: those of before
\* without the one that was given.
Accessed == {a \in Answers : a.accessed}

LEMMA Answering ==
    ASSUME TypeInv
    PROVE  /\ pendingNow \in Seq(Answers) /\ servingNow \in Int
           /\ \A i \in DOMAIN pendingNow : \E j \in DOMAIN pending :
                pendingNow[i].version = pending[j].version /\ pendingNow[i].least = pending[j].least
           /\ servingNow - Tally(pendingNow, Accessed) = serving - Tally(pending, Accessed)
  <1> DEFINE n == Len(pending)
             W == Waiting
  <1>1. pending \in Seq(Answers) /\ n \in Nat /\ DOMAIN pending = 1 .. n /\ serving \in Int
    BY DEF TypeInv
  <1>2. ASSUME NEW i \in 1 .. n
        PROVE  /\ pending[i] \in Answers /\ W[i] \in Answers
               /\ W[i].version = pending[i].version /\ W[i].least = pending[i].least
               /\ W[i].accessed = pending[i].accessed
    <2>1. pending[i] \in Answers
      BY <1>1
    <2> DEFINE a == pending[i]
    <2>2. W[i] = [a EXCEPT !.left = Left(a.left)]
      BY <1>1 DEF Waiting
    <2>3. a.left \in Nat /\ Left(a.left) \in Nat
      BY <2>1, Counted DEF Answers
    <2> HIDE DEF W, a
    <2> QED BY <2>1, <2>2, <2>3 DEF Answers, a
  <1>3. DOMAIN W = 1 .. n
    BY <1>1 DEF Waiting
  <1>4. W \in Seq(Answers) /\ Len(W) = n
    <2>1. W = [i \in 1 .. n |-> W[i]]
      BY <1>1 DEF Waiting
    <2> HIDE DEF W, n
    <2> QED BY <1>1, <1>2, <2>1
  <1> HIDE DEF W, n
  <1>5. Tally(W, Accessed) = Tally(pending, Accessed) /\ Tally(pending, Accessed) \in Int
    <2>1. Len(pending) = Len(W) /\ \A i \in 1 .. Len(pending) : pending[i] \in Accessed <=> W[i] \in Accessed
      BY <1>2, <1>4 DEF Accessed, n
    <2>2. Tally(pending, Accessed) = Tally(W, Accessed)
      BY <1>1, <1>4, <2>1, TallySame
    <2>3. Tally(pending, Accessed) \in Nat
      BY <1>1, TallyType
    <2> QED BY <2>2, <2>3
  <1>6. CASE Answered
    <2>1. pending # <<>> /\ pendingNow = Tail(W) /\ n # 0
      BY <1>1, <1>6 DEF Answered, pendingNow, W, n
    <2>2. W # <<>> /\ Head(pending) = pending[1] /\ 1 \in 1 .. n
      BY <1>1, <1>4, <2>1
    <2>3. /\ Head(W) = W[1] /\ Tail(W) \in Seq(Answers) /\ Len(Tail(W)) = n - 1
          /\ \A i \in 1 .. n - 1 : Tail(W)[i] = W[i + 1]
      BY <1>4, <2>2, Rest
    <2>4. Tally(Tail(W), Accessed) = Tally(W, Accessed) - (IF W[1] \in Accessed THEN 1 ELSE 0)
      BY <1>4, <2>2, <2>3, TallyTail
    <2>5. servingNow = serving - (IF W[1] \in Accessed THEN 1 ELSE 0)
      <3>1. W[1] \in Accessed <=> Head(pending).accessed
        BY <1>2, <2>2 DEF Accessed
      <3> QED BY <1>1, <1>6, <3>1 DEF servingNow
    <2>6. ASSUME NEW i \in DOMAIN pendingNow
          PROVE  \E j \in DOMAIN pending :
                   pendingNow[i].version = pending[j].version /\ pendingNow[i].least = pending[j].least
      <3>1. i \in 1 .. n - 1
        BY <1>1, <2>1, <2>3, <2>6
      <3>2. i + 1 \in 1 .. n
        BY <1>1, <3>1
      <3>3. pendingNow[i] = W[i + 1]
        BY <2>1, <2>3, <3>1, Zenon
      <3> QED BY <1>1, <1>2, <3>2, <3>3, Zenon
    <2>7. servingNow - Tally(pendingNow, Accessed) = serving - Tally(pending, Accessed) /\ servingNow \in Int
      <3> DEFINE x == IF W[1] \in Accessed THEN 1 ELSE 0
                 t == Tally(pendingNow, Accessed)
                 m == Tally(pending, Accessed)
      <3>1. x \in Int /\ m \in Int /\ serving \in Int
        BY <1>1, <1>5
      <3>2. t = m - x /\ servingNow = serving - x
        BY <1>5, <2>1, <2>4, <2>5, Zenon
      <3> HIDE DEF x, t, m
      <3>3. servingNow - t = serving - m /\ servingNow \in Int
        BY <3>1, <3>2
      <3> QED BY <3>3 DEF t, m
    <2> QED BY <2>1, <2>3, <2>6, <2>7, Zenon
  <1>7. CASE ~Answered
    <2>1. pendingNow = W /\ servingNow = serving
      BY <1>7, Zenon DEF pendingNow, servingNow, W
    <2> QED BY <1>1, <1>2, <1>3, <1>4, <1>5, <2>1, Zenon
  <1> QED BY <1>6, <1>7

-----------------------------------------------------------------------------
(* The writes to an address *)

\* A read waits behind no write that was sent before it: what is stored at its
\* address is as new as what it asks for.
ReadsFresh == \A i \in DOMAIN readq : stored[At(readq[i])] >= readq[i].version
\* The writes that wait are newer than what is stored, and were all sent.
WritesWait ==
    \A i \in DOMAIN writeq : /\ stored[At(writeq[i])] < writeq[i].version
                             /\ writeq[i].version <= writes[At(writeq[i])]
\* The writes to an address wait in the order they were sent.
WritesOrdered ==
    \A i, j \in DOMAIN writeq :
      i < j /\ At(writeq[i]) = At(writeq[j]) => writeq[i].version < writeq[j].version
\* The last write to an address is stored, or waits.
LastWaits(a, q) == \E i \in DOMAIN q : At(q[i]) = a /\ q[i].version = writes[a]
LastKnown == \A a \in Addr : stored[a] = writes[a] \/ LastWaits(a, writeq)
WriteInv == ReadsFresh /\ WritesWait /\ WritesOrdered /\ LastKnown /\ FreshRead

\* What a write queue holds, with the types that the steps below need.
LEMMA Queued ==
    ASSUME TypeInv
    PROVE  /\ \A i \in DOMAIN readq : readq[i] \in Reads /\ At(readq[i]) \in Addr /\ readq[i].version \in Nat
           /\ \A i \in DOMAIN writeq : writeq[i] \in Writes /\ At(writeq[i]) \in Addr /\ writeq[i].version \in Nat
           /\ \A i \in DOMAIN writeq : writeq[i].type = "WRITE"
           /\ DOMAIN readq \subseteq Nat /\ DOMAIN writeq \subseteq Nat
           /\ \A a \in Addr : stored[a] \in Nat /\ writes[a] \in Nat
  <1>1. \A X, s : s \in Seq(X) => DOMAIN s \subseteq Nat /\ \A i \in DOMAIN s : s[i] \in X
    OBVIOUS
  <1>2. readq \in Seq(Reads) /\ writeq \in Seq(Writes) /\ \A a \in Addr : stored[a] \in Nat /\ writes[a] \in Nat
    BY DEF TypeInv
  <1>3. \A r \in Reads : At(r) \in Addr /\ r.version \in Nat
    BY RequestType DEF Reads
  <1>4. \A r \in Writes : At(r) \in Addr /\ r.version \in Nat /\ r.type = "WRITE"
    BY RequestType DEF Writes
  <1> QED BY <1>1, <1>2, <1>3, <1>4, Zenon

\* What is stored is never newer than what was sent.
LEMMA StoredSent ==
    ASSUME TypeInv, WriteInv, NEW a \in Addr PROVE stored[a] <= writes[a]
  <1>1. stored[a] \in Nat /\ writes[a] \in Nat
    BY Queued
  <1>2. CASE stored[a] = writes[a]
    BY <1>1, <1>2
  <1>3. CASE LastWaits(a, writeq)
    <2>1. PICK i \in DOMAIN writeq : At(writeq[i]) = a /\ writeq[i].version = writes[a]
      BY <1>3 DEF LastWaits
    <2>2. stored[At(writeq[i])] < writeq[i].version
      BY Zenon DEF WriteInv, WritesWait
    <2> QED BY <1>1, <2>1, <2>2
  <1> QED BY <1>2, <1>3, Zenon DEF WriteInv, LastKnown

\* A read that is answered from the write queue gets the last write.
LEMMA NewestIsLast ==
    ASSUME TypeInv, WriteInv, NEW a \in Addr, Forwarded("READ", a)
    PROVE  Newest(a) = writes[a]
  <1> DEFINE R == {r \in ToSet(writeq) : <<r.bank, r.row>> = a}
             S == {r.version : r \in R}
  <1>1. \A r \in R : \E i \in DOMAIN writeq : r = writeq[i] /\ At(writeq[i]) = a
    BY DEF ToSet, At
  <1>2. \A i \in DOMAIN writeq : At(writeq[i]) = a => writeq[i] \in R
    BY DEF ToSet, At
  <1>3. R # {}
    BY Zenon DEF Forwarded
  <1> HIDE DEF R
  <1>4. \A v \in S : v \in Nat /\ v <= writes[a] /\ stored[a] < v
    <2> SUFFICES ASSUME NEW r \in R PROVE r.version \in Nat /\ r.version <= writes[a] /\ stored[a] < r.version
      OBVIOUS
    <2>1. PICK i \in DOMAIN writeq : r = writeq[i] /\ At(writeq[i]) = a
      BY <1>1, Zenon
    <2> QED BY <2>1, Queued, Zenon DEF WriteInv, WritesWait
  <1>5. writes[a] \in S
    <2>1. PICK r \in R : TRUE
      BY <1>3
    <2>2. stored[a] # writes[a]
      <3>1. r.version \in S
        BY <2>1
      <3>2. stored[a] \in Nat /\ writes[a] \in Nat
        BY Queued
      <3> QED BY <1>4, <3>1, <3>2
    <2>3. LastWaits(a, writeq)
      BY <2>2, Zenon DEF WriteInv, LastKnown
    <2>4. PICK i \in DOMAIN writeq : At(writeq[i]) = a /\ writeq[i].version = writes[a]
      BY <2>3 DEF LastWaits
    <2> QED BY <1>2, <2>4
  <1> HIDE DEF S
  <1>6. writes[a] \in Nat
    BY Queued
  <1>7. Max(S) \in S /\ \A x \in S : x <= Max(S)
    <2>1. S \subseteq Nat /\ S # {} /\ \A x \in S : x <= writes[a]
      BY <1>4, <1>5
    <2> QED BY <1>6, <2>1, Greatest
  <1>8. Max(S) = writes[a]
    <2> DEFINE m == Max(S)
    <2>1. m \in Nat /\ m <= writes[a] /\ writes[a] <= m
      BY <1>4, <1>5, <1>7
    <2> HIDE DEF m
    <2> QED BY <1>6, <2>1 DEF m
  <1>9. Newest(a) = Max(S)
    BY Zenon DEF Newest, S, R
  <1> QED BY <1>8, <1>9

LEMMA EnqueueWrites ==
    ASSUME TypeInv, WriteInv, NEW type \in {"READ", "WRITE"}, NEW a \in Addr, enqueue(type, a)
    PROVE  TypeInv' /\ WriteInv'
  <1> DEFINE req == [type |-> type, bank |-> a[1], row |-> a[2], started |-> FALSE,
                     version |-> writes[a] + (IF type = "WRITE" THEN 1 ELSE 0)]
             answer == [left |-> 1, accessed |-> FALSE, version |-> Newest(a), least |-> writes[a]]
  <1>1. /\ sent' = sent + 1
        /\ IF Forwarded(type, a)
           THEN /\ pending' = Append(pending, answer)
                /\ UNCHANGED <<readq, writeq, writes>>
           ELSE /\ readq' = IF type = "READ" THEN Append(readq, req) ELSE readq
                /\ writeq' = IF type = "WRITE" THEN Append(writeq, req) ELSE writeq
                /\ writes' = IF type = "WRITE" THEN [writes EXCEPT ![a] = @ + 1] ELSE writes
                /\ UNCHANGED pending
        /\ UNCHANGED <<config, otherq, write_mode, refresh, dram, serving, stored>>
    BY Zenon DEF enqueue
  <1>2. /\ config' = config /\ otherq' = otherq /\ write_mode' = write_mode /\ serving' = serving /\ stored' = stored
        /\ refreshed' = refreshed /\ backlog' = backlog /\ turn' = turn /\ ctrl_write_mode' = ctrl_write_mode
        /\ row' = row /\ hits' = hits /\ idle' = idle /\ act' = act /\ pre' = pre /\ cas' = cas /\ ref' = ref
    BY <1>1 DEF refresh, dram
  <1>3. sent' \in Nat
    BY <1>1 DEF TypeInv
  <1>4. stored[a] \in Nat /\ writes[a] \in Nat
    BY Queued
  <1>5. CASE Forwarded(type, a)
    <2>1. type = "READ" /\ Newest(a) = writes[a]
      <3>1. type = "READ"
        BY <1>5, Zenon DEF Forwarded
      <3> QED BY <1>5, <3>1, NewestIsLast
    <2>2. answer \in Answers /\ answer.version >= answer.least
      BY <1>4, <2>1 DEF Answers
    <2> HIDE DEF answer
    <2>3. pending' = Append(pending, answer) /\ UNCHANGED <<readq, writeq, writes>>
      BY <1>1, <1>5, Zenon
    <2>4. pending \in Seq(Answers)
      BY DEF TypeInv
    <2>5. /\ pending' \in Seq(Answers) /\ DOMAIN pending' = DOMAIN pending \cup {Len(pending) + 1}
          /\ pending'[Len(pending) + 1] = answer /\ \A i \in DOMAIN pending : pending'[i] = pending[i]
      BY <2>2, <2>3, <2>4, Pushed
    <2>6. TypeInv'
      BY <1>2, <1>3, <2>3, <2>5, Zenon DEF TypeInv
    <2>7. FreshRead'
      BY <2>2, <2>5, Zenon DEF WriteInv, FreshRead
    <2>8. ReadsFresh' /\ WritesWait' /\ WritesOrdered' /\ LastKnown'
      <3>1. readq' = readq /\ writeq' = writeq /\ writes' = writes
        BY <2>3
      <3> QED BY <1>2, <3>1, Zenon DEF WriteInv, ReadsFresh, WritesWait, WritesOrdered, LastKnown, LastWaits
    <2> QED BY <2>6, <2>7, <2>8, Zenon DEF WriteInv
  <1>6. ASSUME ~Forwarded(type, a), type = "READ" PROVE TypeInv' /\ WriteInv'
    <2>1. /\ readq' = Append(readq, req) /\ writeq' = writeq /\ writes' = writes /\ pending' = pending
      BY <1>1, <1>6
    <2>2. req \in Reads /\ At(req) = a /\ req.version = writes[a]
      <3>1. a[1] \in Bank /\ a[2] \in Nat /\ a = <<a[1], a[2]>>
        BY Constants
      <3>2. req \in [type : {"READ", "EXTENSION"}, bank : Bank, row : Nat, started : BOOLEAN, version : Nat] /\ req.version = writes[a]
        BY <1>4, <1>6, <3>1
      <3>3. At(req) = a
        BY <3>1, Zenon DEF At
      <3> QED BY <3>2, <3>3 DEF Reads, Requests
    <2> HIDE DEF req
    <2>3. readq \in Seq(Reads)
      BY DEF TypeInv
    <2>4. /\ readq' \in Seq(Reads) /\ DOMAIN readq' = DOMAIN readq \cup {Len(readq) + 1}
          /\ readq'[Len(readq) + 1] = req /\ \A i \in DOMAIN readq : readq'[i] = readq[i]
      BY <2>1, <2>2, <2>3, Pushed
    <2>5. TypeInv'
      BY <1>2, <1>3, <2>1, <2>4, Zenon DEF TypeInv
    <2>6. stored[a] = writes[a]
      <3>1. ASSUME NEW i \in DOMAIN writeq PROVE At(writeq[i]) # a
        <4>1. writeq[i] \in ToSet(writeq)
          BY DEF ToSet
        <4> QED BY <1>6, <4>1, Zenon DEF Forwarded, At
      <3> QED BY <3>1, Zenon DEF WriteInv, LastKnown, LastWaits
    <2>7. stored[a] >= writes[a]
      BY <1>4, <2>6
    <2>8. ReadsFresh'
      BY <1>2, <2>2, <2>4, <2>7, Zenon DEF WriteInv, ReadsFresh
    <2>9. WritesWait' /\ WritesOrdered' /\ LastKnown' /\ FreshRead'
      BY <1>2, <2>1, Zenon DEF WriteInv, WritesWait, WritesOrdered, LastKnown, LastWaits, FreshRead
    <2> QED BY <2>5, <2>8, <2>9, Zenon DEF WriteInv
  <1>7. ASSUME ~Forwarded(type, a), type = "WRITE" PROVE TypeInv' /\ WriteInv'
    <2>1. /\ writeq' = Append(writeq, req) /\ readq' = readq /\ pending' = pending
          /\ writes' = [writes EXCEPT ![a] = @ + 1]
      BY <1>1, <1>7
    <2>2. req \in Writes /\ At(req) = a /\ req.version = writes[a] + 1
      <3>1. a[1] \in Bank /\ a[2] \in Nat /\ a = <<a[1], a[2]>>
        BY Constants
      <3>2. req \in [type : {"WRITE"}, bank : Bank, row : Nat, started : BOOLEAN, version : Nat] /\ req.version = writes[a] + 1
        BY <1>4, <1>7, <3>1
      <3>3. At(req) = a
        BY <3>1, Zenon DEF At
      <3> QED BY <3>2, <3>3 DEF Writes, Requests
    <2> HIDE DEF req
    <2> DEFINE new == Len(writeq) + 1
    <2>3. writeq \in Seq(Writes) /\ writes \in [Addr -> Nat]
      BY DEF TypeInv
    <2>4. /\ writeq' \in Seq(Writes) /\ DOMAIN writeq' = DOMAIN writeq \cup {new}
          /\ writeq'[new] = req /\ \A i \in DOMAIN writeq : writeq'[i] = writeq[i] /\ i < new /\ i # new
          /\ new \in Nat
      BY <2>1, <2>2, <2>3, Pushed
    <2> HIDE DEF new
    <2>5. writes' \in [Addr -> Nat] /\ writes'[a] = writes[a] + 1 /\ \A k \in Addr : k # a => writes'[k] = writes[k]
      BY <1>4, <2>1, <2>3
    <2>6. TypeInv'
      BY <1>2, <1>3, <2>1, <2>4, <2>5, Zenon DEF TypeInv
    <2>7. \A k \in Addr : writes[k] <= writes'[k] /\ writes'[k] \in Nat
      <3> SUFFICES ASSUME NEW k \in Addr PROVE writes[k] <= writes'[k] /\ writes'[k] \in Nat
        OBVIOUS
      <3>1. writes[k] \in Nat
        BY Queued
      <3> QED BY <1>4, <2>5, <3>1
    <2>8. WritesWait'
      <3> SUFFICES ASSUME NEW i \in DOMAIN writeq'
                   PROVE  /\ stored[At(writeq'[i])] < writeq'[i].version
                          /\ writeq'[i].version <= writes'[At(writeq'[i])]
        BY <1>2, Zenon DEF WritesWait
      <3>1. CASE i = new
        <4>1. stored[a] <= writes[a]
          BY StoredSent
        <4>2. stored[a] < writes[a] + 1 /\ writes[a] + 1 <= writes'[a]
          BY <1>4, <2>5, <4>1
        <4> QED BY <2>2, <2>4, <3>1, <4>2, Zenon
      <3>2. CASE i \in DOMAIN writeq
        <4> DEFINE k == At(writeq[i])
                   v == writeq[i].version
        <4>1. stored[k] < v /\ v <= writes[k] /\ k \in Addr /\ v \in Nat /\ writes[k] \in Nat
          BY <3>2, Queued, Zenon DEF WriteInv, WritesWait
        <4>2. writeq'[i] = writeq[i]
          BY <2>4, <3>2
        <4> HIDE DEF k, v
        <4>3. v <= writes'[k]
          BY <2>7, <4>1
        <4> QED BY <4>1, <4>2, <4>3, Zenon DEF k, v
      <3> QED BY <2>4, <3>1, <3>2
    <2>9. WritesOrdered'
      <3> SUFFICES ASSUME NEW i \in DOMAIN writeq', NEW j \in DOMAIN writeq', i < j, At(writeq'[i]) = At(writeq'[j])
                   PROVE  writeq'[i].version < writeq'[j].version
        BY Zenon DEF WritesOrdered
      <3>1. i \in DOMAIN writeq
        <4>1. \A m \in DOMAIN writeq : m \in Nat
          BY Queued
        <4> QED BY <2>4, <4>1
      <3>2. CASE j = new
        <4>1. At(writeq[i]) = a
          BY <2>2, <2>4, <3>1, <3>2, Zenon
        <4>2. writeq[i].version <= writes[a] /\ writeq[i].version \in Nat
          BY <3>1, <4>1, Queued, Zenon DEF WriteInv, WritesWait
        <4>3. writeq[i].version < writes[a] + 1
          BY <1>4, <4>2
        <4> QED BY <2>2, <2>4, <3>1, <3>2, <4>3, Zenon
      <3>3. CASE j \in DOMAIN writeq
        BY <2>4, <3>1, <3>3, Zenon DEF WriteInv, WritesOrdered
      <3> QED BY <2>4, <3>2, <3>3
    <2>10. LastKnown'
      <3> SUFFICES ASSUME NEW k \in Addr
                   PROVE  stored[k] = writes'[k] \/ \E i \in DOMAIN writeq' : At(writeq'[i]) = k /\ writeq'[i].version = writes'[k]
        BY <1>2, Zenon DEF LastKnown, LastWaits
      <3>1. CASE k = a
        <4>1. new \in DOMAIN writeq' /\ At(writeq'[new]) = k /\ writeq'[new].version = writes'[k]
          BY <2>2, <2>4, <2>5, <3>1
        <4> QED BY <4>1
      <3>2. CASE k # a
        <4>1. writes'[k] = writes[k] /\ \A i \in DOMAIN writeq : i \in DOMAIN writeq' /\ writeq'[i] = writeq[i]
          BY <2>4, <2>5, <3>2
        <4> QED BY <4>1, Zenon DEF WriteInv, LastKnown, LastWaits
      <3> QED BY <3>1, <3>2
    <2>11. ReadsFresh' /\ FreshRead'
      BY <1>2, <2>1, Zenon DEF WriteInv, ReadsFresh, FreshRead
    <2> QED BY <2>6, <2>8, <2>9, <2>10, <2>11, Zenon DEF WriteInv
  <1> QED BY <1>5, <1>6, <1>7

\* The refresh scheduler keeps its types, and leaves the requests alone.
LEMMA HousekeepingTyped ==
    ASSUME TypeInv, NEW b \in Early, Housekeeping(b)
    PROVE  /\ config' = config /\ sent' = sent /\ writes' = writes
           /\ refreshed' \in Nat /\ backlog' \in [Bank -> Int] /\ turn' \in Bank
           /\ ctrl_write_mode' \in BOOLEAN /\ write_mode' \in BOOLEAN
  <1>1. config' = config /\ sent' = sent /\ writes' = writes
    BY DEF Housekeeping, client
  <1>2. refreshed' \in Nat
    <2>1. refreshed \in Nat /\ refreshed' = IF tick_ref THEN 0 ELSE refreshed + 1
      BY Zenon DEF TypeInv, Housekeeping
    <2> QED BY <2>1
  <1>3. turn' \in Bank
    <2> DEFINE n == Cardinality(Bank)
    <2>1. turn \in Bank /\ n \in Nat /\ n >= 1 /\ Bank = 1 .. n
      BY Constants DEF TypeInv
    <2>2. turn' = turn \/ turn' = (turn % n) + 1
      BY Zenon DEF Housekeeping
    <2> HIDE DEF n
    <2>3. \A m \in Nat, k \in Nat : k >= 1 => m % k \in 0 .. k - 1
      OBVIOUS
    <2>4. turn % n \in 0 .. n - 1
      <3>1. turn \in Nat
        BY <2>1
      <3> QED BY <2>1, <2>3, <3>1, Zenon
    <2> QED BY <2>1, <2>2, <2>4
  <1>4. ctrl_write_mode' \in BOOLEAN
    BY DEF Housekeeping
  <1>5. write_mode' \in BOOLEAN
    BY DEF Housekeeping, writeModeNow
  <1>6. backlog' \in [Bank -> Int]
    <2>1. backlog \in [Bank -> Int] /\ turn \in Bank
      BY DEF TypeInv
    <2>2. early_backlog(b) \in [Bank -> Int]
      BY <2>1 DEF early_backlog
    <2>3. backlogNow(b) \in [Bank -> Int]
      BY <2>1, <2>2 DEF backlogNow
    <2> QED BY <2>3 DEF Housekeeping
  <1> QED BY <1>1, <1>2, <1>3, <1>4, <1>5, <1>6

\* The queues after each of the steps of a tick.
LEMMA Replaced ==
    ASSUME NEW X, NEW s \in Seq(X), NEW h \in DOMAIN s, NEW x \in X, NEW t, t = [s EXCEPT ![h] = x]
    PROVE  t \in Seq(X) /\ DOMAIN t = DOMAIN s /\ t[h] = x /\ \A i \in DOMAIN s : i # h => t[i] = s[i]
  OBVIOUS

LEMMA BegunType ==
    ASSUME NEW T, NEW r \in Requests(T)
    PROVE  Begun(r) \in Requests(T) /\ At(Begun(r)) = At(r) /\ Begun(r).version = r.version /\ Begun(r).started = TRUE
  <1>1. Begun(r) = [r EXCEPT !.started = TRUE]
    BY DEF Begun
  <1> QED BY <1>1, StartedType

LEMMA RefreshTyped ==
    ASSUME TypeInv, NEW other \in Seq(Refreshes), RefreshServed(other) \/ NoneServed(other)
    PROVE  /\ otherq' \in Seq(Refreshes) /\ readq' = readq /\ writeq' = writeq
           /\ pending' = pendingNow /\ stored' = stored /\ serving' = servingNow
  <1>1. readq' = readq /\ writeq' = writeq /\ pending' = pendingNow /\ stored' = stored /\ serving' = servingNow
    BY Zenon DEF RefreshServed, NoneServed
  <1>2. CASE RefreshServed(other)
    <2>1. PICK h \in DOMAIN other : otherq' = [other EXCEPT ![h] = Begun(other[h])] \/ otherq' = RemoveAt(other, h)
      BY <1>2, Zenon DEF RefreshServed
    <2>2. other[h] \in Refreshes /\ h \in 1 .. Len(other)
      OBVIOUS
    <2>3. Begun(other[h]) \in Refreshes
      BY <2>2 DEF Refreshes, Begun
    <2>4. CASE otherq' = RemoveAt(other, h)
      <3>1. RemoveAt(other, h) \in Seq(Refreshes)
        BY <2>2, Removed
      <3> QED BY <1>1, <2>4, <3>1, Zenon
    <2>5. CASE otherq' = [other EXCEPT ![h] = Begun(other[h])]
      <3> DEFINE x == Begun(other[h])
      <3>1. x \in Refreshes /\ otherq' = [other EXCEPT ![h] = x]
        BY <2>3, <2>5
      <3> HIDE DEF x
      <3>2. otherq' \in Seq(Refreshes)
        BY <3>1, Replaced
      <3> QED BY <1>1, <3>2, Zenon
    <2> QED BY <2>1, <2>4, <2>5
  <1>3. CASE NoneServed(other)
    <2>1. otherq' = other
      BY <1>3, Zenon DEF NoneServed
    <2> QED BY <1>1, <2>1
  <1> QED BY <1>2, <1>3

LEMMA WriteTyped ==
    ASSUME TypeInv, NEW h, WriteServed(h)
    PROVE  /\ otherq' \in Seq(Refreshes) /\ readq' = readq /\ writeq' \in Seq(Writes)
           /\ pending' = pendingNow /\ stored' \in [Addr -> Nat] /\ serving' \in Int
           /\ h \in DOMAIN writeq /\ writeq[h] \in Writes
  <1>1. otherq' = <<>> /\ readq' = readq /\ pending' = pendingNow /\ h \in DOMAIN writeq
    BY Zenon DEF WriteServed, IsHead
  <1>2. /\ writeq \in Seq(Writes) /\ stored \in [Addr -> Nat] /\ writeq[h] \in Writes /\ h \in 1 .. Len(writeq)
    <2>1. writeq \in Seq(Writes) /\ stored \in [Addr -> Nat]
      BY DEF TypeInv
    <2> QED BY <1>1, <2>1
  <1>3. otherq' \in Seq(Refreshes)
    BY <1>1
  <1>4. writeq' \in Seq(Writes)
    <2>1. RemoveAt(writeq, h) \in Seq(Writes)
      BY <1>2, Removed
    <2>2. Begun(writeq[h]) \in Writes
      BY <1>2, BegunType DEF Writes
    <2>3. [writeq EXCEPT ![h] = Begun(writeq[h])] \in Seq(Writes)
      <3> DEFINE x == Begun(writeq[h])
      <3> HIDE DEF x
      <3>1. [writeq EXCEPT ![h] = x] \in Seq(Writes)
        BY <1>1, <1>2, <2>2, Replaced DEF x
      <3> QED BY <3>1 DEF x
    <2> QED BY <2>1, <2>3, Zenon DEF WriteServed
  <1>5. stored' \in [Addr -> Nat]
    <2>1. At(writeq[h]) \in Addr /\ writeq[h].version \in Nat
      BY <1>1, Queued
    <2>2. stored' = stored \/ stored' = [stored EXCEPT ![At(writeq[h])] = writeq[h].version]
      BY Zenon DEF WriteServed
    <2> QED BY <1>2, <2>1, <2>2
  <1>6. serving' \in Int
    <2>1. servingNow \in Int /\ First(writeq[h]) \in Int
      BY Answering DEF First
    <2>2. serving' = servingNow + First(writeq[h]) - 1 \/ serving' = servingNow + First(writeq[h])
      BY Zenon DEF WriteServed
    <2> QED BY <2>1, <2>2
  <1> QED BY <1>1, <1>2, <1>3, <1>4, <1>5, <1>6, Zenon

LEMMA ReadTyped ==
    ASSUME TypeInv, NEW h, NEW r, ReadServed(h, r)
    PROVE  /\ otherq' \in Seq(Refreshes) /\ readq' \in Seq(Reads) /\ writeq' = writeq
           /\ pending' \in Seq(Answers) /\ stored' = stored /\ serving' \in Int
           /\ h \in DOMAIN readq /\ readq[h] \in Reads /\ r \in Reads /\ At(r) = At(readq[h]) /\ r.version = readq[h].version
           /\ r.started = readq[h].started /\ stored[At(r)] \in Nat
  <1>1. otherq' = <<>> /\ writeq' = writeq /\ stored' = stored /\ h \in DOMAIN readq /\ r = Extended(readq[h])
    BY Zenon DEF ReadServed
  <1>2. readq \in Seq(Reads) /\ readq[h] \in Reads /\ h \in 1 .. Len(readq)
    <2>1. readq \in Seq(Reads)
      BY DEF TypeInv
    <2> QED BY <1>1, <2>1
  <1>3. otherq' \in Seq(Refreshes)
    BY <1>1
  <1>4. r \in Reads /\ At(r) = At(readq[h]) /\ r.version = readq[h].version /\ r.started = readq[h].started
    BY <1>1, <1>2, ExtendedType
  <1>5. At(r) \in Addr /\ r.version \in Nat /\ stored[At(r)] \in Nat
    <2>1. At(r) \in Addr /\ r.version \in Nat
      BY <1>4, RequestType DEF Reads
    <2> QED BY <2>1, Queued
  <1>6. readq' \in Seq(Reads)
    <2>1. RemoveAt(readq, h) \in Seq(Reads)
      BY <1>2, Removed
    <2>2. Begun(r) \in Reads
      BY <1>4, BegunType DEF Reads
    <2>3. [readq EXCEPT ![h] = Begun(r)] \in Seq(Reads)
      BY <1>1, <1>2, <2>2, Replaced
    <2> QED BY <2>1, <2>3, Zenon DEF ReadServed
  <1>7. pending' \in Seq(Answers)
    <2> DEFINE x == [left |-> read_latency, accessed |-> TRUE, version |-> stored[At(r)], least |-> r.version]
    <2>1. x \in Answers
      BY <1>5, Timings DEF Answers
    <2>2. pending' = pendingNow \/ pending' = Append(pendingNow, x)
      BY Zenon DEF ReadServed
    <2> HIDE DEF x
    <2>3. pendingNow \in Seq(Answers)
      BY Answering
    <2>4. Append(pendingNow, x) \in Seq(Answers)
      BY <2>1, <2>3, Pushed
    <2> QED BY <2>2, <2>3, <2>4, Zenon
  <1>8. serving' \in Int
    <2>1. servingNow \in Int /\ First(readq[h]) \in Int
      BY Answering DEF First
    <2>2. serving' = servingNow + First(readq[h])
      BY Zenon DEF ReadServed
    <2> QED BY <2>1, <2>2
  <1> QED BY <1>1, <1>2, <1>3, <1>4, <1>5, <1>6, <1>7, <1>8, Zenon

LEMMA TickTyped == ASSUME TypeInv, tick PROVE TypeInv'
  <1>1. PICK b \in Early : Housekeeping(b) /\ otherqNow(b) \in Seq(Refreshes) /\ DramTyped' /\ Step(otherqNow(b))
    BY TickShape
  <1> DEFINE other == otherqNow(b)
  <1> HIDE DEF other
  <1>2. /\ config' = config /\ sent' = sent /\ writes' = writes
        /\ refreshed' \in Nat /\ backlog' \in [Bank -> Int] /\ turn' \in Bank
        /\ ctrl_write_mode' \in BOOLEAN /\ write_mode' \in BOOLEAN
    BY <1>1, HousekeepingTyped
  <1>3. /\ readq' \in Seq(Reads) /\ writeq' \in Seq(Writes) /\ otherq' \in Seq(Refreshes) /\ pending' \in Seq(Answers)
        /\ serving' \in Int /\ stored' \in [Addr -> Nat]
    <2>1. other \in Seq(Refreshes) /\ Step(other)
      BY <1>1 DEF other
    <2>2. /\ readq \in Seq(Reads) /\ writeq \in Seq(Writes) /\ stored \in [Addr -> Nat]
          /\ pendingNow \in Seq(Answers) /\ servingNow \in Int
      BY Answering DEF TypeInv
    <2>3. CASE RefreshServed(other) \/ NoneServed(other)
      BY <2>1, <2>2, <2>3, RefreshTyped
    <2>4. CASE \E h : WriteServed(h)
      BY <2>2, <2>4, WriteTyped
    <2>5. CASE \E h, r : ReadServed(h, r)
      BY <2>2, <2>5, ReadTyped
    <2> QED BY <2>1, <2>3, <2>4, <2>5 DEF Step
  <1>4. config' \in Configs /\ sent' \in Nat /\ writes' \in [Addr -> Nat]
    BY <1>2 DEF TypeInv
  <1> QED BY <1>1, <1>2, <1>3, <1>4, Zenon DEF TypeInv, DramTyped

\* Nothing changes for the writes when the queues hold the same requests.
LEMMA SameWrites ==
    ASSUME TypeInv, WriteInv, stored' = stored, writes' = writes, DOMAIN writeq' = DOMAIN writeq,
           \A i \in DOMAIN writeq : At(writeq'[i]) = At(writeq[i]) /\ writeq'[i].version = writeq[i].version
    PROVE  WritesWait' /\ WritesOrdered' /\ LastKnown'
  BY Zenon DEF WriteInv, WritesWait, WritesOrdered, LastKnown, LastWaits

\* The answers that are left were fresh before.
LEMMA SameAnswers ==
    ASSUME TypeInv, WriteInv, pending' = pendingNow
    PROVE  FreshRead'
  <1>1. \A i \in DOMAIN pendingNow : \E j \in DOMAIN pending :
          pendingNow[i].version = pending[j].version /\ pendingNow[i].least = pending[j].least
    BY Answering
  <1> QED BY <1>1, Zenon DEF WriteInv, FreshRead

\* A write is done: no write to its address waits from before it.
LEMMA WriteKept ==
    ASSUME TypeInv, WriteInv, writes' = writes, NEW h, WriteServed(h)
    PROVE  WriteInv'
  <1> DEFINE w == writeq[h]
             b == At(w)
             v == w.version
  <1>1. /\ readq' = readq /\ pending' = pendingNow /\ h \in DOMAIN writeq /\ w \in Writes
        /\ IsHead(writeq, h) /\ h \in 1 .. Len(writeq) /\ writeq \in Seq(Writes)
    <2>1. readq' = readq /\ pending' = pendingNow /\ h \in DOMAIN writeq /\ w \in Writes /\ IsHead(writeq, h)
      BY WriteTyped, Zenon DEF WriteServed
    <2>2. writeq \in Seq(Writes)
      BY DEF TypeInv
    <2> QED BY <2>1, <2>2
  <1>2. b \in Addr /\ v \in Nat /\ stored[b] \in Nat /\ writes[b] \in Nat /\ stored[b] < v /\ v <= writes[b]
    BY <1>1, Queued DEF WriteInv, WritesWait
  <1>3. FreshRead'
    BY <1>1, SameAnswers
  <1>4. CASE writeq' = [writeq EXCEPT ![h] = Begun(w)] /\ stored' = stored
    <2> DEFINE x == Begun(w)
    <2>1. x \in Writes /\ At(x) = b /\ x.version = v
      BY <1>1, BegunType DEF Writes
    <2>2. writeq' = [writeq EXCEPT ![h] = x]
      BY <1>4
    <2> HIDE DEF x
    <2>3. DOMAIN writeq' = DOMAIN writeq /\ writeq'[h] = x /\ \A i \in DOMAIN writeq : i # h => writeq'[i] = writeq[i]
      BY <1>1, <2>1, <2>2, Replaced
    <2>4. \A i \in DOMAIN writeq : At(writeq'[i]) = At(writeq[i]) /\ writeq'[i].version = writeq[i].version
      BY <2>1, <2>3, Zenon
    <2>5. WritesWait' /\ WritesOrdered' /\ LastKnown'
      BY <1>4, <2>3, <2>4, SameWrites
    <2>6. ReadsFresh'
      BY <1>1, <1>4, Zenon DEF WriteInv, ReadsFresh
    <2> QED BY <1>3, <2>5, <2>6, Zenon DEF WriteInv
  <1>5. CASE writeq' = RemoveAt(writeq, h) /\ stored' = [stored EXCEPT ![b] = v]
    <2> HIDE DEF w, b, v
    <2>1. stored'[b] = v /\ \A a \in Addr : a # b => stored'[a] = stored[a]
      <3>1. stored \in [Addr -> Nat]
        BY DEF TypeInv
      <3> QED BY <1>2, <1>5, <3>1
    <2>2. /\ \A i \in DOMAIN writeq' : Skip(h, i) \in DOMAIN writeq /\ Skip(h, i) # h /\ writeq'[i] = writeq[Skip(h, i)]
          /\ \A i, j \in DOMAIN writeq' : i < j => Skip(h, i) < Skip(h, j)
          /\ \A k \in DOMAIN writeq : k # h => \E i \in DOMAIN writeq' : Skip(h, i) = k
      BY <1>1, <1>5, Skipped
    <2>3. ASSUME NEW k \in DOMAIN writeq, k # h, At(writeq[k]) = b PROVE v < writeq[k].version
      <3>1. Same(writeq[k], w)
        <4>1. writeq[k].type = "WRITE" /\ w.type = "WRITE"
          BY <1>1, Queued DEF w
        <4>2. <<writeq[k].bank, writeq[k].row>> = <<w.bank, w.row>>
          BY <2>3, Zenon DEF At, b
        <4>3. writeq[k].bank = w.bank /\ writeq[k].row = w.row
          BY <4>2
        <4> QED BY <4>1, <4>3, Zenon DEF Same
      <3>2. h <= k
        BY <1>1, <2>3, <3>1, Zenon DEF IsHead, w
      <3>3. h < k
        <4>1. h \in Nat /\ k \in Nat
          BY <1>1, <2>3, Queued
        <4> QED BY <2>3, <3>2, <4>1
      <3> QED BY <1>1, <2>3, <3>3, Zenon DEF WriteInv, WritesOrdered, b, v, w
    <2>4. WritesWait'
      <3> SUFFICES ASSUME NEW i \in DOMAIN writeq'
                   PROVE  stored'[At(writeq'[i])] < writeq'[i].version /\ writeq'[i].version <= writes[At(writeq'[i])]
        BY Zenon DEF WritesWait
      <3> DEFINE k == Skip(h, i)
      <3>1. k \in DOMAIN writeq /\ k # h /\ writeq'[i] = writeq[k]
        BY <2>2
      <3> HIDE DEF k
      <3>2. stored[At(writeq[k])] < writeq[k].version /\ writeq[k].version <= writes[At(writeq[k])] /\ At(writeq[k]) \in Addr
        BY <3>1, Queued, Zenon DEF WriteInv, WritesWait
      <3> QED BY <2>1, <2>3, <3>1, <3>2, Zenon
    <2>5. WritesOrdered'
      <3> SUFFICES ASSUME NEW i \in DOMAIN writeq', NEW j \in DOMAIN writeq', i < j, At(writeq'[i]) = At(writeq'[j])
                   PROVE  writeq'[i].version < writeq'[j].version
        BY Zenon DEF WritesOrdered
      <3> DEFINE m == Skip(h, i)
                 n == Skip(h, j)
      <3>1. /\ m \in DOMAIN writeq /\ n \in DOMAIN writeq /\ m < n
            /\ writeq'[i] = writeq[m] /\ writeq'[j] = writeq[n]
        BY <2>2
      <3> HIDE DEF m, n
      <3>2. At(writeq[m]) = At(writeq[n])
        BY <3>1, Zenon
      <3>3. writeq[m].version < writeq[n].version
        BY <3>1, <3>2, Zenon DEF WriteInv, WritesOrdered
      <3> QED BY <3>1, <3>3, Zenon
    <2>6. LastKnown'
      <3> SUFFICES ASSUME NEW a \in Addr
                   PROVE  stored'[a] = writes[a] \/ \E i \in DOMAIN writeq' : At(writeq'[i]) = a /\ writeq'[i].version = writes[a]
        BY Zenon DEF LastKnown, LastWaits
      <3>1. CASE a = b /\ v = writes[b]
        BY <2>1, <3>1, Zenon
      <3>2. CASE ~(a = b /\ v = writes[b])
        <4>1. ASSUME NEW k \in DOMAIN writeq, At(writeq[k]) = a, writeq[k].version = writes[a]
              PROVE  \E i \in DOMAIN writeq' : At(writeq'[i]) = a /\ writeq'[i].version = writes[a]
          <5>1. k # h
            BY <3>2, <4>1, Zenon DEF b, v, w
          <5>2. PICK i \in DOMAIN writeq' : Skip(h, i) = k
            BY <2>2, <5>1, Zenon
          <5> QED BY <2>2, <4>1, <5>2, Zenon
        <4>2. CASE LastWaits(a, writeq)
          BY <4>1, <4>2, Zenon DEF LastWaits
        <4>3. CASE stored[a] = writes[a]
          <5>1. a # b
            BY <1>2, <4>3
          <5> QED BY <2>1, <4>3, <5>1, Zenon
        <4> QED BY <4>2, <4>3, Zenon DEF WriteInv, LastKnown
      <3> QED BY <3>1, <3>2
    <2>7. ReadsFresh'
      <3> SUFFICES ASSUME NEW i \in DOMAIN readq PROVE stored'[At(readq[i])] >= readq[i].version
        BY <1>1, Zenon DEF ReadsFresh
      <3> DEFINE a == At(readq[i])
                 n == readq[i].version
      <3>1. a \in Addr /\ n \in Nat /\ stored[a] \in Nat /\ stored[a] >= n
        BY Queued DEF WriteInv, ReadsFresh
      <3> HIDE DEF a, n
      <3>2. CASE a = b
        BY <1>2, <2>1, <3>1, <3>2 DEF a, n
      <3>3. CASE a # b
        BY <2>1, <3>1, <3>3, Zenon DEF a, n
      <3> QED BY <3>2, <3>3
    <2> QED BY <1>3, <2>4, <2>5, <2>6, <2>7, Zenon DEF WriteInv
  <1>6. \/ writeq' = RemoveAt(writeq, h) /\ stored' = [stored EXCEPT ![b] = v]
        \/ writeq' = [writeq EXCEPT ![h] = Begun(w)] /\ stored' = stored
    BY Zenon DEF WriteServed
  <1> QED BY <1>4, <1>5, <1>6, Zenon

\* A read is answered with what is stored, which is as new as it asks for.
LEMMA ReadKept ==
    ASSUME TypeInv, WriteInv, writes' = writes, NEW h, NEW r, ReadServed(h, r)
    PROVE  WriteInv'
  <1>1. /\ writeq' = writeq /\ stored' = stored /\ h \in DOMAIN readq /\ readq[h] \in Reads /\ h \in 1 .. Len(readq)
        /\ r \in Reads /\ At(r) = At(readq[h]) /\ r.version = readq[h].version /\ readq \in Seq(Reads)
        /\ stored[At(r)] \in Nat /\ stored[At(r)] >= r.version /\ r.version \in Nat
    <2>1. /\ writeq' = writeq /\ stored' = stored /\ h \in DOMAIN readq /\ readq[h] \in Reads
          /\ r \in Reads /\ At(r) = At(readq[h]) /\ r.version = readq[h].version /\ stored[At(r)] \in Nat
      BY ReadTyped
    <2>2. readq \in Seq(Reads)
      BY DEF TypeInv
    <2>3. stored[At(r)] >= r.version /\ r.version \in Nat
      BY <2>1, Queued, Zenon DEF WriteInv, ReadsFresh
    <2>4. h \in 1 .. Len(readq)
      BY <2>1, <2>2
    <2> QED BY <2>1, <2>2, <2>3, <2>4, Zenon
  <1>2. WritesWait' /\ WritesOrdered' /\ LastKnown'
    BY <1>1, Zenon DEF WriteInv, WritesWait, WritesOrdered, LastKnown, LastWaits
  <1>3. CASE readq' = [readq EXCEPT ![h] = Begun(r)] /\ pending' = pendingNow
    <2> DEFINE x == Begun(r)
    <2>1. x \in Reads /\ At(x) = At(readq[h]) /\ x.version = readq[h].version
      BY <1>1, BegunType DEF Reads
    <2>2. readq' = [readq EXCEPT ![h] = x]
      BY <1>3
    <2> HIDE DEF x
    <2>3. DOMAIN readq' = DOMAIN readq /\ readq'[h] = x /\ \A i \in DOMAIN readq : i # h => readq'[i] = readq[i]
      BY <1>1, <2>1, <2>2, Replaced
    <2>4. ReadsFresh'
      BY <1>1, <2>1, <2>3, Zenon DEF WriteInv, ReadsFresh
    <2>5. FreshRead'
      BY <1>3, SameAnswers
    <2> QED BY <1>2, <2>4, <2>5, Zenon DEF WriteInv
  <1>4. CASE /\ readq' = RemoveAt(readq, h)
             /\ pending' = Append(pendingNow, [left |-> read_latency, accessed |-> TRUE,
                                               version |-> stored[At(r)], least |-> r.version])
    <2> DEFINE x == [left |-> read_latency, accessed |-> TRUE, version |-> stored[At(r)], least |-> r.version]
    <2>1. \A i \in DOMAIN readq' : Skip(h, i) \in DOMAIN readq /\ readq'[i] = readq[Skip(h, i)]
      BY <1>1, <1>4, Skipped
    <2>2. ReadsFresh'
      BY <1>1, <2>1, Zenon DEF WriteInv, ReadsFresh
    <2>3. x \in Answers /\ x.version >= x.least
      BY <1>1, Timings DEF Answers
    <2>4. pending' = Append(pendingNow, x)
      BY <1>4
    <2> HIDE DEF x
    <2>5. /\ pendingNow \in Seq(Answers)
          /\ \A i \in DOMAIN pendingNow : \E j \in DOMAIN pending :
               pendingNow[i].version = pending[j].version /\ pendingNow[i].least = pending[j].least
      BY Answering
    <2>6. /\ DOMAIN pending' = DOMAIN pendingNow \cup {Len(pendingNow) + 1}
          /\ pending'[Len(pendingNow) + 1] = x /\ \A i \in DOMAIN pendingNow : pending'[i] = pendingNow[i]
      BY <2>3, <2>4, <2>5, Pushed
    <2>7. FreshRead'
      <3> SUFFICES ASSUME NEW i \in DOMAIN pending' PROVE pending'[i].version >= pending'[i].least
        BY Zenon DEF FreshRead
      <3>1. CASE i = Len(pendingNow) + 1
        BY <2>3, <2>6, <3>1, Zenon
      <3>2. CASE i \in DOMAIN pendingNow
        BY <2>5, <2>6, <3>2, Zenon DEF WriteInv, FreshRead
      <3> QED BY <2>6, <3>1, <3>2
    <2> QED BY <1>2, <2>2, <2>7, Zenon DEF WriteInv
  <1> QED BY <1>3, <1>4, Zenon DEF ReadServed

LEMMA TickWrites == ASSUME TypeInv, WriteInv, tick PROVE WriteInv'
  <1>1. PICK b \in Early : Housekeeping(b) /\ otherqNow(b) \in Seq(Refreshes) /\ Step(otherqNow(b))
    BY TickShape
  <1> DEFINE other == otherqNow(b)
  <1>2. writes' = writes /\ other \in Seq(Refreshes) /\ Step(other)
    BY <1>1, HousekeepingTyped
  <1> HIDE DEF other
  <1>3. CASE RefreshServed(other) \/ NoneServed(other)
    <2>1. readq' = readq /\ writeq' = writeq /\ pending' = pendingNow /\ stored' = stored
      BY <1>2, <1>3, RefreshTyped
    <2>2. FreshRead'
      BY <2>1, SameAnswers
    <2>3. ReadsFresh' /\ WritesWait' /\ WritesOrdered' /\ LastKnown'
      BY <1>2, <2>1, Zenon DEF WriteInv, ReadsFresh, WritesWait, WritesOrdered, LastKnown, LastWaits
    <2> QED BY <2>2, <2>3, Zenon DEF WriteInv
  <1>4. CASE \E h : WriteServed(h)
    BY <1>2, <1>4, WriteKept
  <1>5. CASE \E h, r : ReadServed(h, r)
    BY <1>2, <1>5, ReadKept
  <1> QED BY <1>2, <1>3, <1>4, <1>5 DEF Step

LEMMA InitTyped == Init => TypeInv /\ WriteInv
  <1> HAVE Init
  <1>1. /\ readq = <<>> /\ writeq = <<>> /\ otherq = <<>> /\ pending = <<>>
        /\ writes = [a \in Addr |-> 0] /\ stored = writes
    BY DEF Init
  <1>2. /\ readq \in Seq(Reads) /\ writeq \in Seq(Writes) /\ otherq \in Seq(Refreshes) /\ pending \in Seq(Answers)
        /\ writes \in [Addr -> Nat] /\ stored \in [Addr -> Nat]
    BY <1>1
  <1>3. /\ row \in [Bank -> Row \cup {None}] /\ hits \in [Bank -> 0 .. cap + 1] /\ idle \in [Bank -> 0 .. timeout]
        /\ act \in [Bank -> Nat] /\ pre \in [Bank -> Nat] /\ cas \in [Bank -> Nat] /\ ref \in Nat
    <2>1. 0 \in 0 .. cap + 1 /\ 0 \in 0 .. timeout /\ None \in Row \cup {None}
      <3>1. cap \in Nat /\ timeout \in Nat
        BY Constants, Timings
      <3> QED BY <3>1
    <2> QED BY <2>1 DEF Init
  <1>4. /\ config \in Configs /\ write_mode \in BOOLEAN /\ ctrl_write_mode \in BOOLEAN
        /\ refreshed \in Nat /\ backlog \in [Bank -> Int] /\ turn \in Bank /\ serving \in Int /\ sent \in Nat
    <2>1. 1 \in Bank
      <3> DEFINE n == Cardinality(Bank)
      <3>1. n \in Nat /\ n >= 1 /\ Bank = 1 .. n
        BY Constants
      <3> HIDE DEF n
      <3> QED BY <3>1
    <2>2. /\ config \in Configs /\ write_mode = FALSE /\ ctrl_write_mode = FALSE /\ turn = 1
          /\ refreshed = 0 /\ backlog = [b \in Bank |-> 0] /\ serving = 0 /\ sent = 0
      BY Zenon DEF Init
    <2>3. backlog \in [Bank -> Int]
      BY <2>2
    <2> QED BY <2>1, <2>2, <2>3
  <1>5. TypeInv
    BY <1>2, <1>3, <1>4, Zenon DEF TypeInv
  <1>6. DOMAIN readq = {} /\ DOMAIN writeq = {} /\ DOMAIN pending = {} /\ \A a \in Addr : stored[a] = writes[a]
    BY <1>1
  <1>7. WriteInv
    BY <1>6, Zenon DEF WriteInv, ReadsFresh, WritesWait, WritesOrdered, LastKnown, FreshRead
  <1> QED BY <1>5, <1>7

LEMMA NextWrites == TypeInv /\ WriteInv /\ [Next]_vars => TypeInv' /\ WriteInv'
  <1> SUFFICES ASSUME TypeInv, WriteInv, [Next]_vars PROVE TypeInv' /\ WriteInv'
    OBVIOUS
  <1>1. CASE tick
    BY <1>1, TickTyped, TickWrites
  <1>2. CASE send
    BY <1>2, EnqueueWrites DEF send
  <1>3. CASE UNCHANGED vars
    <2>1. TypeInv'
      BY <1>3, Zenon DEF vars, refresh, dram, client, TypeInv
    <2>2. WriteInv'
      BY <1>3, Zenon DEF vars, client, WriteInv, ReadsFresh, WritesWait, WritesOrdered, LastKnown, LastWaits, FreshRead
    <2> QED BY <2>1, <2>2
  <1> QED BY <1>1, <1>2, <1>3 DEF Next

\* A read is answered with the last write that was sent before it or a later one,
\* whether it was taken from the write queue, waited in the read queue or became
\* a migration, whatever the scheduler (Controller::enqueue and tick).
THEOREM ReadsAreFresh == Spec => []FreshRead
  <1>1. Init => TypeInv /\ WriteInv
    BY InitTyped
  <1>2. TypeInv /\ WriteInv /\ [Next]_vars => TypeInv' /\ WriteInv'
    BY NextWrites
  <1>3. WriteInv => FreshRead
    BY Zenon DEF WriteInv
  <1> QED BY <1>1, <1>2, <1>3, PTL DEF Spec

\* The writes to an address reach the memory in the order they were sent: what is
\* stored there never gets older (Scheduler::get_head, on the write queue).
THEOREM WritesKeepTheirOrder == Spec => WritesInOrder
  <1>1. Init => TypeInv /\ WriteInv
    BY InitTyped
  <1>2. TypeInv /\ WriteInv /\ [Next]_vars => TypeInv' /\ WriteInv'
    BY NextWrites
  <1>3. TypeInv /\ WriteInv /\ [Next]_vars => [\A a \in Addr : stored'[a] >= stored[a]]_vars
    <2> SUFFICES ASSUME TypeInv, WriteInv, [Next]_vars, NEW a \in Addr
                 PROVE  UNCHANGED vars \/ stored'[a] >= stored[a]
      OBVIOUS
    <2>1. stored[a] \in Nat
      BY Queued
    <2>2. stored' = stored => stored'[a] >= stored[a]
      BY <2>1
    <2>3. CASE tick
      <3>1. PICK b \in Early : Step(otherqNow(b)) /\ otherqNow(b) \in Seq(Refreshes)
        BY <2>3, TickShape
      <3> DEFINE other == otherqNow(b)
      <3> HIDE DEF other
      <3>2. Step(other) /\ other \in Seq(Refreshes)
        BY <3>1 DEF other
      <3>3. CASE RefreshServed(other) \/ NoneServed(other)
        BY <2>2, <3>2, <3>3, RefreshTyped
      <3>4. ASSUME NEW h, NEW r, ReadServed(h, r) PROVE stored'[a] >= stored[a]
        BY <2>2, <3>4, ReadTyped
      <3>5. ASSUME NEW h, WriteServed(h) PROVE stored'[a] >= stored[a]
        <4> DEFINE k == At(writeq[h])
                   v == writeq[h].version
        <4>1. h \in DOMAIN writeq
          BY <3>5, WriteTyped
        <4>2. k \in Addr /\ v \in Nat /\ stored[k] < v /\ stored[k] \in Nat /\ stored \in [Addr -> Nat]
          BY <4>1, Queued DEF WriteInv, WritesWait, TypeInv
        <4>3. stored' = stored \/ stored' = [stored EXCEPT ![k] = v]
          BY <3>5, Zenon DEF WriteServed
        <4> HIDE DEF k, v
        <4> QED BY <2>1, <2>2, <4>2, <4>3
      <3> QED BY <3>2, <3>3, <3>4, <3>5, Zenon DEF Step
    <2>4. CASE send
      <3>1. stored' = stored
        BY <2>4, Zenon DEF send, enqueue
      <3> QED BY <2>2, <3>1
    <2> QED BY <2>3, <2>4 DEF Next
  <1> QED BY <1>1, <1>2, <1>3, PTL DEF Spec, WritesInOrder

-----------------------------------------------------------------------------
(* The requests under way *)

\* serving is the number of requests that were given a command and are not over.
Under == {r \in Reads \cup Writes : r.started}
ServingInv == serving = Tally(readq, Under) + Tally(writeq, Under) + Tally(pending, Accessed)

LEMMA Tallies ==
    ASSUME TypeInv
    PROVE  Tally(readq, Under) \in Nat /\ Tally(writeq, Under) \in Nat /\ Tally(pending, Accessed) \in Nat
  <1>1. readq \in Seq(Reads) /\ writeq \in Seq(Writes) /\ pending \in Seq(Answers)
    BY DEF TypeInv
  <1> QED BY <1>1, TallyType

\* The counts of the type invariant are these numbers.
LEMMA CountsAreTallies ==
    ASSUME TypeInv
    PROVE  /\ Started(readq) = Tally(readq, Under) /\ Started(writeq) = Tally(writeq, Under)
           /\ Cardinality({i \in DOMAIN pending : pending[i].accessed}) = Tally(pending, Accessed)
  <1>1. /\ \A i \in DOMAIN readq : readq[i] \in Reads
        /\ \A i \in DOMAIN writeq : writeq[i] \in Writes
        /\ \A i \in DOMAIN pending : pending[i] \in Answers
    <2>1. readq \in Seq(Reads) /\ writeq \in Seq(Writes) /\ pending \in Seq(Answers)
      BY DEF TypeInv
    <2> QED BY <2>1
  <1>2. {i \in DOMAIN readq : readq[i].started} = Places(readq, Under)
    BY <1>1 DEF Places, Under
  <1>3. {i \in DOMAIN writeq : writeq[i].started} = Places(writeq, Under)
    BY <1>1 DEF Places, Under
  <1>4. {i \in DOMAIN pending : pending[i].accessed} = Places(pending, Accessed)
    BY <1>1 DEF Places, Accessed
  <1> QED BY <1>2, <1>3, <1>4, Zenon DEF Started, Tally

LEMMA UnderWay ==
    /\ \A r \in Reads : First(r) = 1 - (IF r \in Under THEN 1 ELSE 0) /\ Begun(r) \in Reads /\ Begun(r) \in Under
    /\ \A r \in Writes : First(r) = 1 - (IF r \in Under THEN 1 ELSE 0) /\ Begun(r) \in Writes /\ Begun(r) \in Under
  <1>1. \A r \in Reads \cup Writes : First(r) = 1 - (IF r \in Under THEN 1 ELSE 0)
    BY DEF First, Under
  <1>2. \A r \in Reads : Begun(r) \in Reads /\ Begun(r).started = TRUE
    BY BegunType DEF Reads
  <1>3. \A r \in Writes : Begun(r) \in Writes /\ Begun(r).started = TRUE
    BY BegunType DEF Writes
  <1>4. \A r \in Reads \cup Writes : r.started = TRUE => r \in Under
    BY DEF Under
  <1> QED BY <1>1, <1>2, <1>3, <1>4

LEMMA InitServing == Init => ServingInv
  <1> HAVE Init
  <1>1. readq = <<>> /\ writeq = <<>> /\ pending = <<>> /\ serving = 0
    BY Zenon DEF Init
  <1>2. \A F : Tally(<<>>, F) = 0
    <2>1. \A F : Places(<<>>, F) = {}
      BY DEF Places
    <2> QED BY <2>1, FS_EmptySet, Zenon DEF Tally
  <1>3. /\ Tally(readq, Under) = 0 /\ Tally(writeq, Under) = 0 /\ Tally(pending, Accessed) = 0
    BY <1>1, <1>2, Zenon
  <1> QED BY <1>1, <1>3 DEF ServingInv

LEMMA EnqueueServing ==
    ASSUME TypeInv, WriteInv, ServingInv, NEW type \in {"READ", "WRITE"}, NEW a \in Addr, enqueue(type, a)
    PROVE  ServingInv'
  <1> DEFINE req == [type |-> type, bank |-> a[1], row |-> a[2], started |-> FALSE,
                     version |-> writes[a] + (IF type = "WRITE" THEN 1 ELSE 0)]
             answer == [left |-> 1, accessed |-> FALSE, version |-> Newest(a), least |-> writes[a]]
  <1>1. /\ serving' = serving
        /\ \/ pending' = Append(pending, answer) /\ readq' = readq /\ writeq' = writeq
           \/ pending' = pending /\ readq' = Append(readq, req) /\ writeq' = writeq
           \/ pending' = pending /\ readq' = readq /\ writeq' = Append(writeq, req)
    BY Zenon DEF enqueue
  <1>2. answer \notin Accessed /\ req \notin Under
    <2>1. answer.accessed = FALSE /\ req.started = FALSE
      OBVIOUS
    <2> HIDE DEF answer, req
    <2> QED BY <2>1 DEF Accessed, Under
  <1> HIDE DEF req, answer
  <1>3. /\ readq \in Seq(Reads) /\ writeq \in Seq(Writes) /\ pending \in Seq(Answers)
        /\ readq' \in Seq(Reads) /\ writeq' \in Seq(Writes) /\ pending' \in Seq(Answers)
    <2>1. TypeInv'
      BY EnqueueWrites
    <2> QED BY <2>1, Zenon DEF TypeInv
  <1>4. ASSUME NEW X, NEW s \in Seq(X), NEW x, Append(s, x) \in Seq(X), NEW F, x \notin F
        PROVE  Tally(Append(s, x), F) = Tally(s, F)
    <2>1. x \in X
      <3>1. Append(s, x)[Len(s) + 1] = x /\ Len(s) + 1 \in DOMAIN Append(s, x)
        OBVIOUS
      <3> DEFINE t == Append(s, x)
                 n == Len(s) + 1
      <3>2. t \in Seq(X) /\ n \in DOMAIN t /\ t[n] = x
        BY <1>4, <3>1
      <3> HIDE DEF t, n
      <3> QED BY <3>2
    <2>2. Tally(s, F) \in Nat
      BY TallyType
    <2>3. Tally(Append(s, x), F) = Tally(s, F) + 0
      BY <1>4, <2>1, TallyAppend
    <2> QED BY <2>2, <2>3
  <1>5. /\ Tally(readq', Under) = Tally(readq, Under) /\ Tally(writeq', Under) = Tally(writeq, Under)
        /\ Tally(pending', Accessed) = Tally(pending, Accessed)
    <2>1. CASE pending' = Append(pending, answer) /\ readq' = readq /\ writeq' = writeq
      BY <1>2, <1>3, <1>4, <2>1
    <2>2. CASE pending' = pending /\ readq' = Append(readq, req) /\ writeq' = writeq
      BY <1>2, <1>3, <1>4, <2>2
    <2>3. CASE pending' = pending /\ readq' = readq /\ writeq' = Append(writeq, req)
      BY <1>2, <1>3, <1>4, <2>3
    <2> QED BY <1>1, <2>1, <2>2, <2>3
  <1> QED BY <1>1, <1>5, Zenon DEF ServingInv

LEMMA TickServing == ASSUME TypeInv, ServingInv, tick PROVE ServingInv'
  <1>1. PICK b \in Early : Step(otherqNow(b)) /\ otherqNow(b) \in Seq(Refreshes)
    BY TickShape
  <1> DEFINE other == otherqNow(b)
             p == Tally(pendingNow, Accessed)
             m == Tally(readq, Under)
             n == Tally(writeq, Under)
  <1>2. Step(other) /\ other \in Seq(Refreshes)
    BY <1>1
  <1>3. m \in Nat /\ n \in Nat /\ p \in Nat /\ servingNow \in Int /\ servingNow = m + n + p /\ pendingNow \in Seq(Answers)
    <2> DEFINE k == Tally(pending, Accessed)
    <2>1. m \in Nat /\ n \in Nat /\ k \in Nat
      BY Tallies
    <2>2. pendingNow \in Seq(Answers) /\ servingNow \in Int /\ servingNow - p = serving - k
      BY Answering
    <2>3. p \in Nat
      BY <2>2, TallyType
    <2>4. serving = m + n + k /\ serving \in Int
      BY Zenon DEF ServingInv, TypeInv
    <2> HIDE DEF m, n, k, p
    <2> QED BY <2>1, <2>2, <2>3, <2>4
  <1> HIDE DEF other
  <1>4. CASE RefreshServed(other) \/ NoneServed(other)
    <2>1. readq' = readq /\ writeq' = writeq /\ pending' = pendingNow /\ serving' = servingNow
      BY <1>2, <1>4, RefreshTyped
    <2> QED BY <1>3, <2>1, Zenon DEF ServingInv
  <1>5. ASSUME NEW h, WriteServed(h) PROVE ServingInv'
    <2> DEFINE w == writeq[h]
    <2>1. /\ readq' = readq /\ pending' = pendingNow /\ writeq \in Seq(Writes) /\ h \in 1 .. Len(writeq) /\ w \in Writes
      <3>1. readq' = readq /\ pending' = pendingNow /\ h \in DOMAIN writeq /\ w \in Writes
        BY <1>5, WriteTyped
      <3>2. writeq \in Seq(Writes)
        BY DEF TypeInv
      <3> QED BY <3>1, <3>2
    <2>2. \/ writeq' = RemoveAt(writeq, h) /\ serving' = servingNow + First(w) - 1
          \/ writeq' = [writeq EXCEPT ![h] = Begun(w)] /\ serving' = servingNow + First(w)
      BY <1>5, Zenon DEF WriteServed
    <2> DEFINE u == IF w \in Under THEN 1 ELSE 0
               x == Begun(w)
    <2>3. First(w) = 1 - u /\ x \in Writes /\ x \in Under /\ u \in Int
      BY <2>1, UnderWay
    <2>4. Tally(RemoveAt(writeq, h), Under) = n - u
      BY <2>1, TallyRemoved
    <2>5. Tally([writeq EXCEPT ![h] = x], Under) = n - u + 1
      <3> HIDE DEF x
      <3>1. Tally([writeq EXCEPT ![h] = x], Under) = n - u + (IF x \in Under THEN 1 ELSE 0)
        BY <2>1, <2>3, TallyReplaced
      <3> QED BY <2>3, <3>1
    <2> HIDE DEF w, u, x, m, n, p
    <2>6. CASE writeq' = RemoveAt(writeq, h) /\ serving' = servingNow + First(w) - 1
      <3>1. Tally(writeq', Under) = n - u /\ serving' = servingNow + (1 - u) - 1
        BY <2>3, <2>4, <2>6, Zenon
      <3>2. serving' = m + (n - u) + p
        BY <1>3, <2>3, <3>1
      <3> QED BY <2>1, <3>1, <3>2, Zenon DEF ServingInv, m, p
    <2>7. CASE writeq' = [writeq EXCEPT ![h] = Begun(w)] /\ serving' = servingNow + First(w)
      <3>1. Tally(writeq', Under) = n - u + 1 /\ serving' = servingNow + (1 - u)
        BY <2>3, <2>5, <2>7, Zenon DEF x
      <3>2. serving' = m + (n - u + 1) + p
        BY <1>3, <2>3, <3>1
      <3> QED BY <2>1, <3>1, <3>2, Zenon DEF ServingInv, m, p
    <2> QED BY <2>2, <2>6, <2>7
  <1>6. ASSUME NEW h, NEW r, ReadServed(h, r) PROVE ServingInv'
    <2> DEFINE w == readq[h]
    <2>1. /\ writeq' = writeq /\ readq \in Seq(Reads) /\ h \in 1 .. Len(readq) /\ w \in Reads /\ r \in Reads
          /\ stored[At(r)] \in Nat /\ r.version \in Nat
      <3>1. writeq' = writeq /\ h \in DOMAIN readq /\ w \in Reads /\ r \in Reads /\ stored[At(r)] \in Nat
        BY <1>6, ReadTyped
      <3>2. readq \in Seq(Reads)
        BY DEF TypeInv
      <3>3. r.version \in Nat
        BY <3>1, RequestType DEF Reads
      <3> QED BY <3>1, <3>2, <3>3
    <2> DEFINE u == IF w \in Under THEN 1 ELSE 0
               x == Begun(r)
               y == [left |-> read_latency, accessed |-> TRUE, version |-> stored[At(r)], least |-> r.version]
    <2>2. serving' = servingNow + First(w)
      BY <1>6, Zenon DEF ReadServed
    <2>3. \/ readq' = RemoveAt(readq, h) /\ pending' = Append(pendingNow, y)
          \/ readq' = [readq EXCEPT ![h] = x] /\ pending' = pendingNow
      BY <1>6, Zenon DEF ReadServed
    <2>4. First(w) = 1 - u /\ x \in Reads /\ x \in Under /\ u \in Int
      BY <2>1, UnderWay
    <2>5. y \in Answers /\ y \in Accessed
      <3>1. y \in Answers
        BY <2>1, Timings DEF Answers
      <3>2. y.accessed
        OBVIOUS
      <3> HIDE DEF y
      <3> QED BY <3>1, <3>2 DEF Accessed
    <2>6. Tally(RemoveAt(readq, h), Under) = m - u
      BY <2>1, TallyRemoved
    <2> HIDE DEF x, y
    <2>7. Tally([readq EXCEPT ![h] = x], Under) = m - u + 1
      <3>1. Tally([readq EXCEPT ![h] = x], Under) = m - u + (IF x \in Under THEN 1 ELSE 0)
        BY <2>1, <2>4, TallyReplaced
      <3> QED BY <2>4, <3>1
    <2>8. Tally(Append(pendingNow, y), Accessed) = p + 1
      <3>1. Tally(Append(pendingNow, y), Accessed) = p + (IF y \in Accessed THEN 1 ELSE 0)
        BY <1>3, <2>5, TallyAppend
      <3> QED BY <2>5, <3>1
    <2> HIDE DEF w, u, m, n, p
    <2>9. serving' = servingNow + (1 - u)
      BY <2>2, <2>4, Zenon
    <2>10. CASE readq' = RemoveAt(readq, h) /\ pending' = Append(pendingNow, y)
      <3>1. Tally(readq', Under) = m - u /\ Tally(pending', Accessed) = p + 1
        BY <2>6, <2>8, <2>10, Zenon
      <3>2. serving' = (m - u) + n + (p + 1)
        BY <1>3, <2>4, <2>9
      <3> QED BY <2>1, <3>1, <3>2, Zenon DEF ServingInv, n
    <2>11. CASE readq' = [readq EXCEPT ![h] = x] /\ pending' = pendingNow
      <3>1. Tally(readq', Under) = m - u + 1
        BY <2>7, <2>11, Zenon
      <3>2. serving' = (m - u + 1) + n + p
        BY <1>3, <2>4, <2>9
      <3> QED BY <2>1, <2>11, <3>1, <3>2, Zenon DEF ServingInv, n, p
    <2> QED BY <2>3, <2>10, <2>11
  <1> QED BY <1>2, <1>4, <1>5, <1>6, Zenon DEF Step

-----------------------------------------------------------------------------
(* Room in the queues, and the credit of the banks *)

\* The queues of the requests are never longer than they may be.
SizeInv == Len(readq) <= QueueMax /\ Len(writeq) <= QueueMax

LEMMA InitSize == Init => SizeInv /\ Len(otherq) <= QueueMax /\ BacklogBounded
  <1> HAVE Init
  <1>1. readq = <<>> /\ writeq = <<>> /\ otherq = <<>> /\ backlog = [b \in Bank |-> 0]
    BY Zenon DEF Init
  <1>2. QueueMax \in Nat
    BY Constants
  <1>3. SizeInv /\ Len(otherq) <= QueueMax
    BY <1>1, <1>2 DEF SizeInv
  <1>4. backlog_min < 0 /\ 0 <= backlog_max /\ backlog_min \in Int /\ backlog_max \in Int
    BY BacklogAssumption
  <1>5. BacklogBounded
    BY <1>1, <1>4 DEF BacklogBounded
  <1> QED BY <1>3, <1>5

LEMMA EnqueueSize ==
    ASSUME TypeInv, SizeInv, NEW type \in {"READ", "WRITE"}, NEW a \in Addr, enqueue(type, a)
    PROVE  SizeInv'
  <1> DEFINE q == IF type = "READ" THEN readq ELSE writeq
  <1>1. /\ Len(q) # QueueMax
        /\ \/ readq' = readq /\ writeq' = writeq
           \/ \E r : type = "READ" /\ readq' = Append(readq, r) /\ writeq' = writeq
           \/ \E r : type = "WRITE" /\ readq' = readq /\ writeq' = Append(writeq, r)
    BY DEF enqueue
  <1>2. readq \in Seq(Reads) /\ writeq \in Seq(Writes) /\ QueueMax \in Nat
    BY Constants DEF TypeInv
  <1>3. Len(readq) \in Nat /\ Len(writeq) \in Nat /\ Len(readq) <= QueueMax /\ Len(writeq) <= QueueMax
    BY <1>2 DEF SizeInv
  <1>4. \A r : Len(Append(readq, r)) = Len(readq) + 1 /\ Len(Append(writeq, r)) = Len(writeq) + 1
    BY <1>2
  <1>5. CASE readq' = readq /\ writeq' = writeq
    BY <1>5, Zenon DEF SizeInv
  <1>6. CASE \E r : type = "READ" /\ readq' = Append(readq, r) /\ writeq' = writeq
    <2>1. Len(readq') = Len(readq) + 1 /\ writeq' = writeq /\ Len(readq) # QueueMax
      BY <1>1, <1>4, <1>6
    <2>2. Len(readq) + 1 <= QueueMax
      BY <1>2, <1>3, <2>1
    <2> QED BY <1>3, <2>1, <2>2, Zenon DEF SizeInv
  <1>7. CASE \E r : type = "WRITE" /\ readq' = readq /\ writeq' = Append(writeq, r)
    <2>1. Len(writeq') = Len(writeq) + 1 /\ readq' = readq /\ Len(writeq) # QueueMax
      BY <1>1, <1>4, <1>7
    <2>2. Len(writeq) + 1 <= QueueMax
      BY <1>2, <1>3, <2>1
    <2> QED BY <1>3, <2>1, <2>2, Zenon DEF SizeInv
  <1> QED BY <1>1, <1>5, <1>6, <1>7, Zenon

\* A step of a tick makes no queue longer.
LEMMA NoLonger ==
    ASSUME NEW X, NEW s \in Seq(X), NEW h \in DOMAIN s, NEW x
    PROVE  Len(RemoveAt(s, h)) <= Len(s) /\ Len([s EXCEPT ![h] = x]) = Len(s) /\ Len(s) \in Nat
  <1>1. h \in 1 .. Len(s) /\ Len(s) \in Nat
    OBVIOUS
  <1>2. Len(RemoveAt(s, h)) = Len(s) - 1
    BY <1>1, Removed
  <1>3. Len([s EXCEPT ![h] = x]) = Len(s)
    OBVIOUS
  <1>4. Len(s) - 1 <= Len(s)
    BY <1>1
  <1> QED BY <1>1, <1>2, <1>3, <1>4, Zenon

LEMMA StepSize ==
    ASSUME TypeInv, NEW other \in Seq(Refreshes), Step(other)
    PROVE  /\ Len(readq') <= Len(readq) /\ Len(writeq') <= Len(writeq) /\ Len(otherq') <= Len(other)
           /\ Len(readq) \in Nat /\ Len(writeq) \in Nat /\ Len(other) \in Nat
           /\ Len(readq') \in Nat /\ Len(writeq') \in Nat /\ Len(otherq') \in Nat
  <1>1. /\ readq \in Seq(Reads) /\ writeq \in Seq(Writes)
        /\ Len(readq) \in Nat /\ Len(writeq) \in Nat /\ Len(other) \in Nat /\ Len(<<>>) = 0
    <2>1. readq \in Seq(Reads) /\ writeq \in Seq(Writes)
      BY DEF TypeInv
    <2> QED BY <2>1
  <1>2. \A n \in Nat : n <= n /\ 0 <= n
    OBVIOUS
  <1>3. CASE RefreshServed(other)
    <2>1. PICK h \in DOMAIN other : otherq' = [other EXCEPT ![h] = Begun(other[h])] \/ otherq' = RemoveAt(other, h)
      BY <1>3, Zenon DEF RefreshServed
    <2>2. otherq' \in Seq(Refreshes) /\ readq' = readq /\ writeq' = writeq
      BY <1>3, RefreshTyped
    <2>3. Len(otherq') <= Len(other)
      <3>1. \A x : Len(RemoveAt(other, h)) <= Len(other) /\ Len([other EXCEPT ![h] = x]) = Len(other)
        BY NoLonger
      <3> QED BY <1>1, <1>2, <2>1, <3>1, Zenon
    <2>4. Len(otherq') \in Nat
      BY <2>2
    <2> QED BY <1>1, <1>2, <2>2, <2>3, <2>4, Zenon
  <1>4. CASE other = <<>> /\ \E h : WriteServed(h)
    <2>1. PICK h : WriteServed(h)
      BY <1>4
    <2>2. readq' = readq /\ h \in DOMAIN writeq /\ writeq' \in Seq(Writes)
      BY <2>1, WriteTyped
    <2>3. \/ writeq' = RemoveAt(writeq, h)
          \/ writeq' = [writeq EXCEPT ![h] = Begun(writeq[h])]
      BY <2>1, Zenon DEF WriteServed
    <2>4. Len(writeq') <= Len(writeq)
      <3>1. \A x : Len(RemoveAt(writeq, h)) <= Len(writeq) /\ Len([writeq EXCEPT ![h] = x]) = Len(writeq)
        BY <1>1, <2>2, NoLonger
      <3> QED BY <1>1, <1>2, <2>3, <3>1, Zenon
    <2>5. Len(writeq') \in Nat
      BY <2>2
    <2>6. otherq' = <<>>
      BY <2>1, Zenon DEF WriteServed
    <2>7. Len(otherq') <= Len(other) /\ Len(otherq') \in Nat
      BY <1>1, <2>6
    <2> QED BY <1>1, <1>2, <2>2, <2>4, <2>5, <2>7, Zenon
  <1>5. CASE other = <<>> /\ \E h, r : ReadServed(h, r)
    <2>1. PICK h, r : ReadServed(h, r)
      BY <1>5
    <2>2. writeq' = writeq /\ h \in DOMAIN readq /\ readq' \in Seq(Reads)
      BY <2>1, ReadTyped
    <2>3. \/ readq' = RemoveAt(readq, h)
          \/ readq' = [readq EXCEPT ![h] = Begun(r)]
      BY <2>1, Zenon DEF ReadServed
    <2>4. Len(readq') <= Len(readq)
      <3>1. \A x : Len(RemoveAt(readq, h)) <= Len(readq) /\ Len([readq EXCEPT ![h] = x]) = Len(readq)
        BY <1>1, <2>2, NoLonger
      <3> QED BY <1>1, <1>2, <2>3, <3>1, Zenon
    <2>5. Len(readq') \in Nat
      BY <2>2
    <2>6. otherq' = <<>>
      BY <2>1, Zenon DEF ReadServed
    <2>7. Len(otherq') <= Len(other) /\ Len(otherq') \in Nat
      BY <1>1, <2>6
    <2> QED BY <1>1, <1>2, <2>2, <2>4, <2>5, <2>7, Zenon
  <1>6. CASE NoneServed(other)
    <2>1. otherq' = other /\ readq' = readq /\ writeq' = writeq
      BY <1>6, Zenon DEF NoneServed
    <2> QED BY <1>1, <1>2, <2>1, Zenon
  <1> QED BY <1>3, <1>4, <1>5, <1>6 DEF Step

LEMMA TickSize == ASSUME TypeInv, SizeInv, tick PROVE SizeInv'
  <1>1. PICK b \in Early : Step(otherqNow(b)) /\ otherqNow(b) \in Seq(Refreshes)
    BY TickShape
  <1>2. /\ Len(readq') <= Len(readq) /\ Len(writeq') <= Len(writeq)
        /\ Len(readq) \in Nat /\ Len(writeq) \in Nat /\ Len(readq') \in Nat /\ Len(writeq') \in Nat
    BY <1>1, StepSize
  <1>3. QueueMax \in Nat /\ Len(readq) <= QueueMax /\ Len(writeq) <= QueueMax
    BY Constants DEF SizeInv
  <1>4. \A i \in Nat, j \in Nat, k \in Nat : i <= j /\ j <= k => i <= k
    OBVIOUS
  <1> QED BY <1>2, <1>3, <1>4, Zenon DEF SizeInv

\* The queue of the refreshes has room for an early one, and for the one that is
\* due when refreshes are in time.
LEMMA RefreshRoom ==
    ASSUME TypeInv, RefreshInTime, Len(otherq) <= QueueMax, NEW b \in Early
    PROVE  Len(otherqNow(b)) <= QueueMax
  <1>1. CASE tick_ref
    BY <1>1, Zenon DEF RefreshInTime
  <1>2. CASE ~tick_ref
    <2>1. otherqNow(b) = early_otherq(b)
      BY <1>2, Zenon DEF otherqNow
    <2>2. CASE b = None
      BY <2>1, <2>2, Zenon DEF early_otherq
    <2>3. CASE b # None
      <3>1. otherq \in Seq(Refreshes) /\ QueueMax \in Nat /\ QueueMax >= 1
        BY Constants DEF TypeInv
      <3>2. Len(otherq) \in Nat /\ \A r : Len(Append(otherq, r)) = Len(otherq) + 1
        BY <3>1
      <3>3. otherqNow(b) = Append(otherq, refresh_target(b))
        BY <2>1, <2>3, Zenon DEF early_otherq
      <3>4. Len(otherq) < QueueMax
        <4>1. \A k \in wrp : k # None => otherq = <<>>
          BY DEF wrp
        <4>2. \A k \in early_inject_refresh : k # None => Len(otherq) < QueueMax
          BY DEF early_inject_refresh, Idle
        <4>3. Early = {None} \/ Early = wrp \/ Early = early_inject_refresh
          BY DEF Early
        <4>4. otherq = <<>> => Len(otherq) < QueueMax
          BY <3>1
        <4> QED BY <2>3, <4>1, <4>2, <4>3, <4>4
      <3> QED BY <3>1, <3>2, <3>3, <3>4
    <2> QED BY <2>2, <2>3
  <1> QED BY <1>1, <1>2

LEMMA TickRoom ==
    ASSUME TypeInv, RefreshInTime, Len(otherq) <= QueueMax, tick
    PROVE  Len(otherq') <= QueueMax
  <1>1. PICK b \in Early : Step(otherqNow(b)) /\ otherqNow(b) \in Seq(Refreshes)
    BY TickShape
  <1>2. Len(otherq') <= Len(otherqNow(b)) /\ Len(otherqNow(b)) \in Nat /\ Len(otherq') \in Nat
    BY <1>1, StepSize
  <1>3. Len(otherqNow(b)) <= QueueMax /\ QueueMax \in Nat
    BY RefreshRoom, Constants
  <1> QED BY <1>2, <1>3

\* No bank falls further behind, or gets further ahead, than the standard allows.
LEMMA TickBacklog == ASSUME TypeInv, BacklogBounded, tick PROVE BacklogBounded'
  <1>1. PICK b \in Early : Housekeeping(b)
    BY TickShape
  <1>2. /\ b \in Bank \cup {None} /\ (b # None => backlog[b] < backlog_max) /\ None \notin Bank
        /\ backlog \in [Bank -> Int] /\ turn \in Bank /\ backlog_min \in Int /\ backlog_max \in Int
    BY EarlyType, Constants, BacklogAssumption DEF TypeInv
  <1> DEFINE e == early_backlog(b)
  <1>3. e \in [Bank -> Int] /\ \A k \in Bank : e[k] > backlog_min /\ e[k] <= backlog_max
    <2>1. \A k \in Bank : e[k] = backlog[k] + IF k = b THEN 1 ELSE 0
      BY DEF early_backlog
    <2>2. e \in [Bank -> Int]
      BY <1>2 DEF early_backlog
    <2> HIDE DEF e
    <2> QED BY <1>2, <2>1, <2>2 DEF BacklogBounded
  <1>4. backlog' = IF config.refresh = "bank" /\ tick_ref /\ ~ref_now(b) THEN [e EXCEPT ![turn] = @ - 1] ELSE e
    BY <1>1, Zenon DEF Housekeeping, backlogNow
  <1>5. ~ref_now(b) => e[turn] - 1 > backlog_min
    <2>1. ~ref_now(b) => ~(e[turn] - 1 <= backlog_min)
      BY Zenon DEF ref_now
    <2>2. e[turn] \in Int
      BY <1>2, <1>3
    <2> HIDE DEF e
    <2> QED BY <1>2, <2>1, <2>2
  <1> HIDE DEF e
  <1> SUFFICES ASSUME NEW k \in Bank PROVE backlog'[k] > backlog_min /\ backlog'[k] <= backlog_max
    BY DEF BacklogBounded
  <1>6. CASE backlog' = e
    BY <1>3, <1>6
  <1>7. CASE backlog' = [e EXCEPT ![turn] = @ - 1] /\ ~ref_now(b)
    BY <1>2, <1>3, <1>5, <1>7
  <1> QED BY <1>4, <1>6, <1>7

-----------------------------------------------------------------------------
(* The credit of the banks, and the type invariant *)

LEMMA SendKeeps ==
    ASSUME send
    PROVE  /\ UNCHANGED <<config, otherq, row, pre, ref>>
           /\ UNCHANGED refresh
  BY Zenon DEF send, enqueue, dram

\* DSARP: however the refreshes of the banks are pulled in, skipped and credited,
\* no bank falls further behind or gets further ahead than the standard allows.
THEOREM BacklogKept == Spec => []BacklogBounded
  <1>1. Init => TypeInv /\ WriteInv /\ BacklogBounded
    BY InitTyped, InitSize
  <1>2. TypeInv /\ WriteInv /\ [Next]_vars => TypeInv' /\ WriteInv'
    BY NextWrites
  <1>3. TypeInv /\ BacklogBounded /\ [Next]_vars => BacklogBounded'
    <2> SUFFICES ASSUME TypeInv, BacklogBounded, [Next]_vars PROVE BacklogBounded'
      OBVIOUS
    <2>1. CASE tick
      BY <2>1, TickBacklog
    <2>2. CASE send \/ UNCHANGED vars
      <3>1. backlog' = backlog
        BY <2>2, SendKeeps DEF vars, refresh
      <3> QED BY <3>1 DEF BacklogBounded
    <2> QED BY <2>1, <2>2 DEF Next
  <1> QED BY <1>1, <1>2, <1>3, PTL DEF Spec

\* What holds of the queues and of serving in every state.
QueueInv == TypeInv /\ WriteInv /\ ServingInv /\ SizeInv

LEMMA QueuesKept ==
    /\ Init => QueueInv
    /\ QueueInv /\ [Next]_vars => QueueInv'
  <1>1. Init => QueueInv
    BY InitTyped, InitServing, InitSize DEF QueueInv
  <1>2. ASSUME QueueInv, [Next]_vars PROVE QueueInv'
    <2>1. TypeInv /\ WriteInv /\ ServingInv /\ SizeInv
      BY <1>2 DEF QueueInv
    <2>2. TypeInv' /\ WriteInv'
      BY <1>2, <2>1, NextWrites
    <2>3. ServingInv' /\ SizeInv'
      <3>1. CASE tick
        BY <2>1, <3>1, TickServing, TickSize
      <3>2. CASE send
        BY <2>1, <3>2, EnqueueServing, EnqueueSize DEF send
      <3>3. CASE UNCHANGED vars
        BY <2>1, <3>3, Zenon DEF vars, ServingInv, SizeInv, Tally, Places
      <3> QED BY <1>2, <3>1, <3>2, <3>3 DEF Next
    <2> QED BY <2>2, <2>3 DEF QueueInv
  <1> QED BY <1>1, <1>2

LEMMA QueueTypes == QueueInv /\ Len(otherq) <= QueueMax => TypeOK
  <1> SUFFICES ASSUME QueueInv, Len(otherq) <= QueueMax PROVE TypeOK
    OBVIOUS
  <1>1. TypeInv /\ ServingInv /\ SizeInv
    BY DEF QueueInv
  <1>2. /\ config \in Configs /\ write_mode \in BOOLEAN
        /\ \A b \in Bank : row[b] \in Row \cup {None} /\ hits[b] \in 0 .. cap + 1 /\ idle[b] \in 0 .. timeout
    BY <1>1 DEF TypeInv
  <1>3. serving = Started(readq) + Started(writeq) + Cardinality({i \in DOMAIN pending : pending[i].accessed})
    BY <1>1, CountsAreTallies, Zenon DEF ServingInv
  <1> QED BY <1>1, <1>2, <1>3, Zenon DEF TypeOK, SizeInv

\* The queues are within their size and serving counts the requests that were
\* given a command and are not over, as long as refreshes are in time, which for
\* the refresh of the rank is the theorem below.
THEOREM TypesInTime == Spec /\ []RefreshInTime => []TypeOK
  <1> DEFINE Room == Len(otherq) <= QueueMax
  <1>1. Init => QueueInv /\ Room
    BY QueuesKept, InitSize
  <1>2. QueueInv /\ [Next]_vars => QueueInv'
    BY QueuesKept
  <1>3. QueueInv /\ Room /\ RefreshInTime /\ [Next]_vars => Room'
    <2> SUFFICES ASSUME QueueInv, Room, RefreshInTime, [Next]_vars PROVE Room'
      OBVIOUS
    <2>1. CASE tick
      BY <2>1, TickRoom DEF QueueInv
    <2>2. CASE send \/ UNCHANGED vars
      <3>1. otherq' = otherq
        BY <2>2, SendKeeps DEF vars
      <3> QED BY <3>1
    <2> QED BY <2>1, <2>2 DEF Next
  <1>4. QueueInv /\ Room => TypeOK
    BY QueueTypes
  <1> QED BY <1>1, <1>2, <1>3, <1>4, PTL DEF Spec

-----------------------------------------------------------------------------
(* The refresh of a rank is over before the next is due *)

\* A refresh that waits is served, whatever the scheduler.
LEMMA HeadOfRefreshes ==
    ASSUME NEW q \in Seq(Refreshes), q # <<>>, config \in Configs
    PROVE  get_head(q) \in DOMAIN q /\ get_head(q) # 0
  <1>1. DOMAIN q \subseteq Nat \ {0} /\ DOMAIN q # {}
    <2>1. DOMAIN q = 1 .. Len(q) /\ Len(q) \in Nat /\ Len(q) # 0
      OBVIOUS
    <2> DEFINE n == Len(q)
    <2>2. n \in Nat /\ n # 0 /\ DOMAIN q = 1 .. n
      BY <2>1
    <2> HIDE DEF n
    <2>3. 1 \in 1 .. n /\ \A i \in 1 .. n : i \in Nat \ {0}
      BY <2>2
    <2> QED BY <2>2, <2>3, Zenon
  <1>2. config.scheduler \in {"FCFS", "FRFCFS", "FRFCFS_Cap", "FRFCFS_PriorHit"}
    BY ConfigAssumption
  <1> DEFINE D == DOMAIN q
  <1>3. FRFCFS(q, D) # 0
    <2>1. D \subseteq DOMAIN q /\ D # {}
      BY <1>1
    <2> HIDE DEF D
    <2> QED BY <1>1, <2>1, Ready
  <1>4. CASE config.scheduler = "FCFS"
    <2>1. get_head(q) = Oldest(D)
      BY <1>4 DEF get_head
    <2>2. D \subseteq Nat \ {0} /\ D # {}
      BY <1>1
    <2> HIDE DEF D
    <2>3. Oldest(D) # 0
      BY <2>2, OldestPlace
    <2> QED BY <1>1, <2>1, <2>3, OldestOfItsKind DEF IsHead
  <1>5. CASE config.scheduler = "FRFCFS"
    <2>1. get_head(q) # 0
      BY <1>3, <1>5 DEF get_head
    <2> QED BY <1>1, <2>1, OldestOfItsKind DEF IsHead
  <1>6. CASE config.scheduler = "FRFCFS_Cap"
    <2> DEFINE good == {i \in DOMAIN q : is_ready(q[i]) /\ get_hits(q[i]) <= cap}
    <2>1. get_head(q) = Prefer(D, good)
      BY <1>6 DEF get_head, FRFCFS_Cap
    <2>2. D \subseteq Nat \ {0} /\ D # {}
      BY <1>1
    <2> HIDE DEF D, good
    <2>3. Prefer(D, good) # 0
      BY <2>2, Preferred
    <2> QED BY <1>1, <2>1, <2>3, OldestOfItsKind DEF IsHead
  <1>7. CASE config.scheduler = "FRFCFS_PriorHit"
    <2> DEFINE hit == {i \in DOMAIN q : is_row_hit(q[i])}
               violate == {i \in DOMAIN q \ hit : is_row_open(q[i]) /\ \E j \in hit : q[j].bank = q[i].bank}
    <2>1. get_head(q) = IF \E i \in hit : is_ready(q[i]) THEN Oldest({i \in hit : is_ready(q[i])}) ELSE FRFCFS(q, DOMAIN q \ violate)
      BY <1>7 DEF get_head, FRFCFS_PriorHit
    <2>2. \A i \in DOMAIN q : q[i].type = "REFRESH"
      <3>1. \A i \in DOMAIN q : q[i] \in Refreshes
        OBVIOUS
      <3> QED BY <3>1 DEF Refreshes
    <2>3. hit = {}
      BY <2>2 DEF is_row_hit
    <2> HIDE DEF hit
    <2>4. violate = {}
      BY <2>3
    <2>5. DOMAIN q \ violate = D
      BY <2>4
    <2> HIDE DEF violate, D
    <2>6. get_head(q) # 0
      BY <1>3, <2>1, <2>3, <2>5
    <2> QED BY <1>1, <2>6, OldestOfItsKind DEF IsHead
  <1> QED BY <1>2, <1>4, <1>5, <1>6, <1>7

\* Every tick issues a command, or none to no bank.
LEMMA StepIssues ==
    ASSUME NEW other, Step(other)
    PROVE  \E cmd, b, opens : issue_cmd(cmd, b, opens)
  <1>1. CASE NoneServed(other)
    BY <1>1, Zenon DEF NoneServed
  <1>2. CASE RefreshServed(other) \/ (\E h : WriteServed(h)) \/ \E h, r : ReadServed(h, r)
    <2>1. \E cmd, b : Requested(cmd, b)
      BY <1>2, Zenon DEF RefreshServed, WriteServed, ReadServed
    <2> QED BY <2>1, Zenon DEF Requested
  <1> QED BY <1>1, <1>2, Zenon DEF Step

\* The most cycles a bank waits for PRE, and the rank for REF.
PreMost == IF nRAS >= nWR THEN nRAS ELSE nWR
RefMost == IF nRP >= nRFC THEN nRP ELSE nRFC
\* Refreshes are further apart than both.
Spaced == nREFI > PreMost + RefMost

LEMMA Most ==
    /\ PreMost \in Nat /\ PreMost >= 1 /\ nRAS <= PreMost /\ nWR <= PreMost
    /\ RefMost \in Nat /\ RefMost >= 1 /\ nRP <= RefMost /\ nRFC <= RefMost
  BY Timings DEF PreMost, RefMost

CountsInv == (\A b \in Bank : pre[b] <= PreMost) /\ ref <= RefMost

LEMMA IssueCounts ==
    ASSUME TypeInv, CountsInv, NEW cmd, NEW b, NEW opens, issue_cmd(cmd, b, opens)
    PROVE  CountsInv'
  <1>1. pre \in [Bank -> Nat] /\ ref \in Nat
    BY DEF TypeInv
  <1>2. \A k \in Bank : pre'[k] <= PreMost
    <2> DEFINE closed == IF cmd = "PREA" THEN Bank ELSE IF cmd = "PRE" THEN {b} ELSE {}
               opened == IF cmd = "ACT" THEN {b} ELSE {}
               access == cmd \in {"READ", "WRITE", "EXTENSION"}
               used == closed \cup opened \cup (IF access THEN {b} ELSE {})
               n == IF access THEN nWR ELSE nRAS
               B == used \ closed
    <2>1. n \in Nat /\ n <= PreMost
      BY Timings, Most
    <2>2. pre' = AtLeast(pre, B, n)
      BY Zenon DEF issue_cmd
    <2> HIDE DEF n, used, closed, opened, access, B
    <2>3. \A k \in Bank : pre'[k] = n \/ pre'[k] = Left(pre[k])
      BY <1>1, <2>1, <2>2, AtLeastType
    <2>4. \A k \in Bank : Left(pre[k]) \in Nat /\ Left(pre[k]) <= PreMost
      <3> SUFFICES ASSUME NEW k \in Bank PROVE Left(pre[k]) \in Nat /\ Left(pre[k]) <= PreMost
        OBVIOUS
      <3>1. pre[k] \in Nat /\ pre[k] <= PreMost /\ PreMost \in Nat
        BY <1>1, Most DEF CountsInv
      <3> QED BY <3>1, Counted
    <2> QED BY <2>1, <2>3, <2>4, Zenon
  <1>3. ref' <= RefMost
    <2>1. ref' = nRFC \/ ref' = nRP \/ ref' = Left(ref)
      BY Zenon DEF issue_cmd
    <2>2. ref <= RefMost /\ RefMost \in Nat
      BY Most DEF CountsInv
    <2>3. Left(ref) <= RefMost
      BY <1>1, <2>2, Counted
    <2> QED BY <2>1, <2>3, Most
  <1> QED BY <1>2, <1>3 DEF CountsInv

\* Commands that access nothing: the counts only go down, but for the wait of REF.
LEMMA QuietCounts ==
    ASSUME TypeInv, config.refresh = "rank", NEW cmd \in {"PREA", "PRE", "NOP"}, NEW b, NEW opens,
           issue_cmd(cmd, b, opens)
    PROVE  /\ \A k \in Bank : pre'[k] = Left(pre[k])
           /\ cmd = "PREA" => ref' = nRP /\ \A k \in Bank : row'[k] = None
           /\ cmd = "PRE" => ref' = nRP
           /\ cmd = "NOP" => ref' = Left(ref) /\ \A k \in Bank : row'[k] = row[k]
  <1> DEFINE closed == IF cmd = "PREA" THEN Bank ELSE IF cmd = "PRE" THEN {b} ELSE {}
             used == closed \cup {} \cup {}
             B == used \ closed
  <1>1. \A k \in Bank : pre'[k] = Left(pre[k])
    <2>1. pre' = AtLeast(pre, B, nRAS)
      BY DEF issue_cmd
    <2>2. B = {} /\ nRAS \in Nat /\ pre \in [Bank -> Nat]
      BY Timings DEF TypeInv
    <2> HIDE DEF B
    <2> QED BY <2>1, <2>2, AtLeastType
  <1>2. ref' = IF cmd \in {"PRE", "PREA"} THEN nRP ELSE Left(ref)
    BY DEF issue_cmd
  <1>3. cmd = "PREA" => \A k \in Bank : row'[k] = None
    BY DEF issue_cmd
  <1>4. cmd = "NOP" => \A k \in Bank : row'[k] = row[k]
    BY DEF issue_cmd
  <1> QED BY <1>1, <1>2, <1>3, <1>4

\* When every row is closed the row policy closes none.
Closed == \A b \in Bank : row[b] = None

LEMMA NoVictim == ASSUME config \in Configs, Closed PROVE get_victim = None
  <1> DEFINE closable == {b \in Bank : row[b] # None /\ check("PRE", b)}
             late == {b \in closable : idle[b] + 1 >= timeout}
  <1>1. closable = {} /\ late = {}
    BY DEF Closed
  <1>2. config.rowpolicy \in {"Closed", "Opened", "Timeout"}
    BY ConfigAssumption
  <1>3. get_victim \in {Oldest(closable), None, Oldest(late)}
    BY <1>2 DEF get_victim
  <1> HIDE DEF closable, late
  <1> QED BY <1>1, <1>3 DEF Oldest, None

\* One refresh of the rank in its queue: REF when all is closed, PREA before that,
\* and no command only while a counter of theirs is not down yet.
OneRefresh(q) == q \in Seq(Refreshes) /\ Len(q) = 1 /\ q[1].bank = None

LEMMA RefreshStep ==
    ASSUME TypeInv, config.refresh = "rank", NEW q, OneRefresh(q), Step(q)
    PROVE  \/ otherq' = <<>>
           \/ OneRefresh(otherq') /\ ~Closed /\ \E b, opens : issue_cmd("PREA", b, opens)
           \/ /\ OneRefresh(otherq')
              /\ Closed => Left(ref) # 0 /\ \E b : issue_cmd("NOP", b, None)
              /\ ~Closed => /\ \E k \in Bank : Left(pre[k]) # 0
                            /\ \E b, cmd : cmd \in {"NOP", "PRE"} /\ issue_cmd(cmd, b, None)
  <1>1. q \in Seq(Refreshes) /\ q # <<>> /\ DOMAIN q = {1} /\ q[1] \in Refreshes /\ q[1].bank = None /\ config \in Configs
    <2>1. Len(q) = 1 /\ q \in Seq(Refreshes) /\ q[1].bank = None
      BY DEF OneRefresh
    <2>2. DOMAIN q = 1 .. 1
      BY <2>1
    <2>3. q # <<>>
      <3>1. Len(<<>>) = 0
        OBVIOUS
      <3>2. Len(q) # 0
        BY <2>1
      <3> QED BY <3>1, <3>2, Zenon
    <2>4. q[1] \in Refreshes
      <3>1. 1 \in DOMAIN q
        BY <2>2
      <3>2. \A i \in DOMAIN q : q[i] \in Refreshes
        BY DEF OneRefresh
      <3> QED BY <3>1, <3>2, Zenon
    <2>5. DOMAIN q = {1}
      BY <2>2
    <2> QED BY <2>1, <2>3, <2>4, <2>5 DEF TypeInv
  <1>2. get_head(q) = 1
    BY <1>1, HeadOfRefreshes
  <1>3. q[1].type = "REFRESH"
    BY <1>1 DEF Refreshes
  <1>4. get_first_cmd(q[1]) = IF Closed THEN "REF" ELSE "PREA"
    BY <1>1, <1>3, Zenon DEF get_first_cmd, Closed
  <1>5. CASE RefreshServed(q)
    <2>1. /\ Requested(get_first_cmd(q[1]), q[1].bank)
          /\ otherq' = IF get_first_cmd(q[1]) \in {"PREA", "PRE"} THEN [q EXCEPT ![1] = Begun(q[1])] ELSE RemoveAt(q, 1)
      BY <1>2, <1>5, Zenon DEF RefreshServed
    <2>2. CASE Closed
      <3>1. otherq' = RemoveAt(q, 1)
        BY <1>4, <2>1, <2>2
      <3>2. RemoveAt(q, 1) \in Seq(Refreshes) /\ Len(RemoveAt(q, 1)) = Len(q) - 1 /\ Len(q) = 1
        <4>1. 1 \in 1 .. Len(q) /\ Len(q) = 1
          BY DEF OneRefresh
        <4> QED BY <1>1, <4>1, Removed, Zenon
      <3> DEFINE t == RemoveAt(q, 1)
      <3>3. t \in Seq(Refreshes) /\ Len(t) = 0
        BY <3>2
      <3> HIDE DEF t
      <3>4. t = <<>>
        BY <3>3
      <3> QED BY <3>1, <3>4 DEF t
    <2>3. CASE ~Closed
      <3>1. Requested("PREA", q[1].bank)
        BY <1>4, <2>1, <2>3
      <3>2. \E b, opens : issue_cmd("PREA", b, opens)
        BY <3>1, Zenon DEF Requested
      <3> DEFINE x == Begun(q[1])
      <3>3. otherq' = [q EXCEPT ![1] = x]
        BY <1>4, <2>1, <2>3
      <3>4. x \in Refreshes /\ x.bank = None
        BY <1>1 DEF Begun, Refreshes
      <3> HIDE DEF x
      <3>5. OneRefresh(otherq')
        BY <1>1, <3>3, <3>4 DEF OneRefresh
      <3> QED BY <2>3, <3>2, <3>5
    <2> QED BY <2>2, <2>3
  <1>6. CASE NoneServed(q)
    <2>1. queue(q) = q
      BY <1>1, Zenon DEF queue
    <2>2. /\ otherq' = q /\ ~is_ready(q[1])
          /\ issue_cmd(IF get_victim = None THEN "NOP" ELSE "PRE", get_victim, None)
      BY <1>2, <1>6, <2>1 DEF NoneServed
    <2>3. OneRefresh(otherq')
      BY <2>2
    <2>4. ASSUME Closed PROVE Left(ref) # 0 /\ \E b : issue_cmd("NOP", b, None)
      <3>1. get_victim = None
        BY <1>1, <2>4, NoVictim
      <3>2. issue_cmd("NOP", None, None)
        BY <2>2, <3>1
      <3>3. ~check("REF", q[1].bank)
        BY <1>4, <2>2, <2>4 DEF is_ready
      <3> QED BY <3>2, <3>3, Zenon DEF check
    <2>5. ASSUME ~Closed
          PROVE  /\ \E k \in Bank : Left(pre[k]) # 0
                 /\ \E b, cmd : cmd \in {"NOP", "PRE"} /\ issue_cmd(cmd, b, None)
      <3>1. ~check("PREA", q[1].bank)
        BY <1>4, <2>2, <2>5 DEF is_ready
      <3>2. \E k \in Bank : Left(pre[k]) # 0
        BY <3>1, Zenon DEF check
      <3> QED BY <2>2, <3>2, Zenon
    <2> QED BY <2>3, <2>4, <2>5
  <1>7. RefreshServed(q) \/ NoneServed(q)
    BY <1>1, Zenon DEF Step
  <1> QED BY <1>5, <1>6, <1>7

\* A refresh of the rank that waits: a row is open only as long as some PRE may
\* still have to wait, and REF is done within PreMost + RefMost cycles.
Waits ==
    /\ OneRefresh(otherq)
    /\ \A b \in Bank : pre[b] + refreshed <= PreMost \/ pre[b] = 0
    /\ ~Closed => refreshed < PreMost
    /\ Closed => ref + refreshed <= PreMost + RefMost /\ refreshed < PreMost + RefMost
RankInv == CountsInv /\ (config.refresh = "rank" => otherq = <<>> \/ Waits)

\* When a refresh is due, the one before is over.
LEMMA RankInTime == ASSUME TypeInv, RankInv, Spaced, config.refresh = "rank" PROVE RefreshInTime
  <1>1. refreshed \in Nat /\ nREFI \in Nat /\ PreMost \in Nat /\ RefMost \in Nat /\ RefMost >= 1 /\ QueueMax \in Nat /\ QueueMax >= 1
    BY Timings, Most, Constants DEF TypeInv
  <1>2. ASSUME tick_ref PROVE otherq = <<>>
    <2>1. ASSUME Waits PROVE FALSE
      <3>1. refreshed < PreMost + RefMost
        <4>1. ~Closed => refreshed < PreMost
          BY <2>1, Zenon DEF Waits
        <4>2. Closed => refreshed < PreMost + RefMost
          BY <2>1, Zenon DEF Waits
        <4> QED BY <1>1, <4>1, <4>2
      <3>2. refreshed + 1 >= nREFI /\ nREFI > PreMost + RefMost
        BY <1>2, Zenon DEF tick_ref, Spaced
      <3> QED BY <1>1, <3>1, <3>2
    <2> QED BY <2>1 DEF RankInv
  <1>3. ASSUME tick_ref, NEW b \in Early PROVE Len(otherqNow(b)) <= QueueMax
    <2>1. otherqNow(b) = Append(<<>>, refresh_target(None))
      BY <1>2, <1>3 DEF otherqNow
    <2>2. \A x : Len(Append(<<>>, x)) = 1
      OBVIOUS
    <2>3. Len(otherqNow(b)) = 1
      BY <2>1, <2>2, Zenon
    <2> QED BY <1>1, <2>3
  <1> QED BY <1>2, <1>3 DEF RefreshInTime

\* After the tick in which the refresh came: the counters are within their bounds.
LEMMA RefreshComes ==
    ASSUME TypeInv', CountsInv', OneRefresh(otherq)', refreshed' = 0
    PROVE  Waits'
  <1>1. /\ pre' \in [Bank -> Nat] /\ ref' \in Nat
        /\ PreMost \in Nat /\ PreMost >= 1 /\ RefMost \in Nat /\ RefMost >= 1
    BY Most DEF TypeInv
  <1>2. (\A b \in Bank : pre'[b] <= PreMost) /\ ref' <= RefMost
    BY DEF CountsInv
  <1>3. \A b \in Bank : pre'[b] + refreshed' <= PreMost
    BY <1>1, <1>2
  <1>4. ref' + refreshed' <= PreMost + RefMost /\ refreshed' < PreMost + RefMost /\ refreshed' < PreMost
    <2>1. \A r, p, q \in Nat : p >= 1 /\ r <= q => r + 0 <= p + q /\ 0 < p + q /\ 0 < p
      OBVIOUS
    <2>2. ref' + 0 <= PreMost + RefMost /\ 0 < PreMost + RefMost /\ 0 < PreMost
      BY <1>1, <1>2, <2>1
    <2> QED BY <2>2, Zenon
  <1> QED BY <1>3, <1>4, Zenon DEF Waits

\* A later tick: it comes nearer to its end.
LEMMA RefreshGoesOn ==
    ASSUME TypeInv, CountsInv, Waits, config.refresh = "rank", TypeInv', Step(otherq), refreshed' = refreshed + 1
    PROVE  otherq' = <<>> \/ Waits'
  <1> DEFINE P == PreMost
             Q == RefMost
             n == refreshed
  <1>1. /\ pre \in [Bank -> Nat] /\ ref \in Nat /\ n \in Nat
        /\ P \in Nat /\ P >= 1 /\ Q \in Nat /\ Q >= 1 /\ nRP \in Nat /\ nRP <= Q
    BY Most, Timings DEF TypeInv
  <1>2. /\ \A b \in Bank : pre[b] + n <= P \/ pre[b] = 0
        /\ ~Closed => n < P
        /\ Closed => ref + n <= P + Q /\ n < P + Q
        /\ OneRefresh(otherq)
    BY DEF Waits
  <1>3. refreshed' = n + 1
    OBVIOUS
  <1> HIDE DEF P, Q, n
  <1>4. \A b \in Bank : pre[b] \in Nat /\ (Left(pre[b]) + (n + 1) <= P \/ Left(pre[b]) = 0)
    <2> SUFFICES ASSUME NEW b \in Bank PROVE pre[b] \in Nat /\ (Left(pre[b]) + (n + 1) <= P \/ Left(pre[b]) = 0)
      OBVIOUS
    <2>1. pre[b] \in Nat
      BY <1>1
    <2> QED BY <1>1, <1>2, <2>1 DEF Left
  <1>5. ASSUME OneRefresh(otherq'), \A k \in Bank : pre'[k] = Left(pre[k]), 
               Closed' => ref' + (n + 1) <= P + Q /\ n + 1 < P + Q, ~Closed' => n + 1 < P
        PROVE  Waits'
    <2>1. \A b \in Bank : pre'[b] + refreshed' <= PreMost \/ pre'[b] = 0
      BY <1>3, <1>4, <1>5 DEF P
    <2>2. Closed' => ref' + refreshed' <= PreMost + RefMost /\ refreshed' < PreMost + RefMost
      BY <1>3, <1>5 DEF P, Q
    <2>3. ~Closed' => refreshed' < PreMost
      BY <1>3, <1>5 DEF P
    <2> QED BY <1>5, <2>1, <2>2, <2>3, Zenon DEF Waits
  <1>6. \/ otherq' = <<>>
        \/ OneRefresh(otherq') /\ ~Closed /\ \E b, opens : issue_cmd("PREA", b, opens)
        \/ /\ OneRefresh(otherq')
           /\ Closed => Left(ref) # 0 /\ \E b : issue_cmd("NOP", b, None)
           /\ ~Closed => /\ \E k \in Bank : Left(pre[k]) # 0
                         /\ \E b, cmd : cmd \in {"NOP", "PRE"} /\ issue_cmd(cmd, b, None)
    BY <1>2, RefreshStep
  <1>7. CASE OneRefresh(otherq') /\ ~Closed /\ \E b, opens : issue_cmd("PREA", b, opens)
    <2>1. (\A k \in Bank : pre'[k] = Left(pre[k])) /\ ref' = nRP /\ \A k \in Bank : row'[k] = None
      BY <1>7, QuietCounts
    <2>2. ref' + (n + 1) <= P + Q /\ n + 1 < P + Q
      BY <1>1, <1>2, <1>7, <2>1
    <2>3. Closed'
      BY <2>1 DEF Closed
    <2> QED BY <1>5, <1>7, <2>1, <2>2, <2>3
  <1>8. CASE OneRefresh(otherq') /\ Closed /\ Left(ref) # 0 /\ \E b : issue_cmd("NOP", b, None)
    <2>1. (\A k \in Bank : pre'[k] = Left(pre[k])) /\ ref' = Left(ref) /\ \A k \in Bank : row'[k] = row[k]
      BY <1>8, QuietCounts
    <2>2. ref' = ref - 1 /\ ref >= 2
      BY <1>1, <1>8, <2>1 DEF Left
    <2>3. ref' + (n + 1) <= P + Q /\ n + 1 < P + Q
      BY <1>1, <1>2, <1>8, <2>2
    <2>4. Closed'
      BY <1>8, <2>1 DEF Closed
    <2> QED BY <1>5, <1>8, <2>1, <2>3, <2>4
  <1>9. CASE /\ OneRefresh(otherq') /\ ~Closed /\ \E k \in Bank : Left(pre[k]) # 0
             /\ \E b, cmd : cmd \in {"NOP", "PRE"} /\ issue_cmd(cmd, b, None)
    <2>1. PICK b, cmd : cmd \in {"NOP", "PRE"} /\ issue_cmd(cmd, b, None)
      BY <1>9
    <2>2. PICK k \in Bank : Left(pre[k]) # 0
      BY <1>9
    <2>3. n + 1 < P
      <3>1. pre[k] \in Nat /\ (pre[k] + n <= P \/ pre[k] = 0) /\ pre[k] >= 2
        BY <1>2, <1>4, <2>2 DEF Left
      <3> QED BY <1>1, <3>1
    <2>4. /\ \A j \in Bank : pre'[j] = Left(pre[j])
          /\ cmd = "PRE" => ref' = nRP
          /\ cmd = "NOP" => \A j \in Bank : row'[j] = row[j]
      BY <2>1, QuietCounts
    <2>5. Closed' => ref' = nRP
      <3>1. cmd = "NOP" => ~Closed'
        BY <1>9, <2>4 DEF Closed
      <3> QED BY <2>1, <2>4, <3>1
    <2>6. Closed' => ref' + (n + 1) <= P + Q /\ n + 1 < P + Q
      BY <1>1, <2>3, <2>5
    <2> QED BY <1>5, <1>9, <2>3, <2>4, <2>6
  <1> QED BY <1>6, <1>7, <1>8, <1>9

LEMMA TickRank == ASSUME TypeInv, RankInv, Spaced, tick PROVE RankInv'
  <1>1. PICK b \in Early : Housekeeping(b) /\ otherqNow(b) \in Seq(Refreshes) /\ Step(otherqNow(b))
    BY TickShape
  <1>2. TypeInv'
    BY TickTyped
  <1>3. CountsInv'
    <2>1. PICK cmd, k, opens : issue_cmd(cmd, k, opens)
      BY <1>1, StepIssues
    <2> QED BY <2>1, IssueCounts DEF RankInv
  <1>4. ASSUME config.refresh = "rank" PROVE otherq' = <<>> \/ Waits'
    <2>1. b = None /\ (otherq = <<>> \/ Waits) /\ CountsInv
      BY <1>4, EarlyType DEF RankInv
    <2>2. refreshed' = IF tick_ref THEN 0 ELSE refreshed + 1
      BY <1>1, Zenon DEF Housekeeping
    <2>3. CASE tick_ref
      <3> DEFINE x == refresh_target(None)
                 q == <<x>>
      <3>1. otherq = <<>>
        BY <1>4, <2>3, RankInTime, Zenon DEF RefreshInTime
      <3>2. otherqNow(b) = q
        <4>1. otherqNow(b) = Append(otherq, x)
          BY <1>4, <2>3 DEF otherqNow
        <4>2. Append(<<>>, x) = <<x>>
          OBVIOUS
        <4> QED BY <3>1, <4>1, <4>2, Zenon
      <3>3. OneRefresh(q)
        <4>1. x \in Refreshes /\ x.bank = None
          BY DEF Refreshes, refresh_target
        <4> HIDE DEF x
        <4>2. q \in Seq(Refreshes) /\ Len(q) = 1 /\ q[1] = x
          BY <4>1
        <4> QED BY <4>1, <4>2, Zenon DEF OneRefresh
      <3> HIDE DEF q
      <3>4. otherq' = <<>> \/ OneRefresh(otherq')
        BY <1>1, <1>4, <3>2, <3>3, RefreshStep
      <3> QED BY <1>2, <1>3, <2>2, <2>3, <3>4, RefreshComes
    <2>4. CASE ~tick_ref
      <3>1. otherqNow(b) = otherq /\ refreshed' = refreshed + 1
        BY <2>1, <2>2, <2>4, Zenon DEF otherqNow, early_otherq
      <3>2. CASE otherq = <<>>
        <4>1. Step(<<>>)
          BY <1>1, <3>1, <3>2
        <4>2. otherq' = <<>>
          BY <4>1, Zenon DEF Step, WriteServed, ReadServed, NoneServed
        <4> QED BY <4>2
      <3>3. CASE Waits
        BY <1>1, <1>2, <1>4, <2>1, <3>1, <3>3, RefreshGoesOn
      <3> QED BY <2>1, <3>2, <3>3
    <2> QED BY <2>3, <2>4
  <1>5. config' = config
    BY <1>1, Zenon DEF Housekeeping
  <1> QED BY <1>3, <1>4, <1>5, Zenon DEF RankInv

LEMMA InitRank == Init => RankInv
  <1> HAVE Init
  <1>1. pre = [b \in Bank |-> 0] /\ ref = 0 /\ otherq = <<>>
    BY Zenon DEF Init
  <1>2. CountsInv
    BY <1>1, Most DEF CountsInv
  <1> QED BY <1>1, <1>2 DEF RankInv

LEMMA SameRank == ASSUME RankInv, send \/ UNCHANGED vars PROVE RankInv'
  <1>1. UNCHANGED <<config, otherq, row, pre, ref, refreshed>>
    BY SendKeeps DEF vars, refresh, dram
  <1> QED BY <1>1, Zenon DEF RankInv, CountsInv, Waits, OneRefresh, Closed

\* When refreshes are further apart than the longest wait of a PRE and of a REF,
\* the refresh of the rank is over before the next is due whatever the requests,
\* the scheduler and the row policy: the queue has room for every refresh, the
\* assertion in refresh_target holds, and with it the type invariant.
THEOREM RankRefreshedInTime ==
    ASSUME Spaced
    PROVE  Spec => [](config.refresh = "rank" => TypeOK /\ RefreshesKept)
  <1> DEFINE Room == config.refresh = "rank" => Len(otherq) <= QueueMax
             All == QueueInv /\ RankInv /\ BacklogBounded /\ Room
  <1>1. Init => All
    BY QueuesKept, InitRank, InitSize
  <1>2. All /\ [Next]_vars => All'
    <2> SUFFICES ASSUME All, [Next]_vars PROVE All'
      OBVIOUS
    <2>1. QueueInv' /\ TypeInv
      BY QueuesKept DEF QueueInv
    <2>2. CASE tick
      <3>1. RankInv' /\ BacklogBounded'
        BY <2>1, <2>2, TickRank, TickBacklog
      <3>2. config' = config
        <4>1. PICK b \in Early : Housekeeping(b)
          BY <2>1, <2>2, TickShape
        <4> QED BY <4>1, Zenon DEF Housekeeping
      <3>3. Room'
        <4> SUFFICES ASSUME config.refresh = "rank" PROVE Len(otherq') <= QueueMax
          BY <3>2
        <4>1. RefreshInTime
          BY <2>1, RankInTime
        <4> QED BY <2>1, <2>2, <4>1, TickRoom
      <3> QED BY <2>1, <3>1, <3>3
    <2>3. CASE send \/ UNCHANGED vars
      <3>1. RankInv'
        BY <2>3, SameRank
      <3>2. otherq' = otherq /\ backlog' = backlog /\ config' = config
        BY <2>3, SendKeeps DEF vars, refresh
      <3>3. Room' /\ BacklogBounded'
        BY <3>2 DEF BacklogBounded
      <3> QED BY <2>1, <3>1, <3>3
    <2> QED BY <2>2, <2>3 DEF Next
  <1>3. All => (config.refresh = "rank" => TypeOK /\ RefreshesKept)
    <2> SUFFICES ASSUME All, config.refresh = "rank" PROVE TypeOK /\ RefreshesKept
      OBVIOUS
    <2>1. TypeOK
      BY QueueTypes
    <2>2. RefreshInTime
      BY RankInTime DEF QueueInv
    <2> QED BY <2>1, <2>2 DEF RefreshesKept
  <1> QED BY <1>1, <1>2, <1>3, PTL DEF Spec
=============================================================================
