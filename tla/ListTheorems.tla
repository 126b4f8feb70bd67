----------------------------- MODULE ListTheorems -----------------------------
(* Facts about loops and lists that the proofs of several components need: a  *)
(* loop computes a value for each turn, lists put one after the other, and    *)
(* how many elements of a queue have a property.                              *)
EXTENDS Integers, SequencesExt, FiniteSetTheorems, TLAPS

\* Induction, with the numbers of which a formula holds as a set.
LEMMA SetInduction ==
    ASSUME NEW S, 0 \in S, \A n \in Nat : n \in S => n + 1 \in S
    PROVE  \A n \in Nat : n \in S
  <1> SUFFICES ASSUME NEW m \in Nat, m \notin S PROVE FALSE
    OBVIOUS
  <1> DEFINE T == {n \in Nat : n \notin S}
             R == OpToRel(<, Nat)
  <1>1. IsWellFoundedOn(R, Nat)
    BY NatLessThanWellFounded
  <1>2. \A x, y \in Nat : y < x => <<y, x>> \in R
    BY Zenon DEF OpToRel
  <1>3. T \subseteq Nat /\ m \in T
    OBVIOUS
  <1> HIDE DEF R, T
  <1>4. PICK x \in T : \A y \in T : ~(<<y, x>> \in R)
    BY <1>1, <1>3, WFMin
  <1>5. x \in Nat /\ x \notin S
    BY <1>4 DEF T
  <1>6. x - 1 \in Nat /\ x - 1 < x /\ (x - 1) + 1 = x
    BY <1>5
  <1>7. x - 1 \in S
    BY <1>2, <1>4, <1>5, <1>6 DEF T
  <1> QED
    BY <1>5, <1>6, <1>7

-----------------------------------------------------------------------------
(* Loops *)

\* The turns of a loop change a value of D, which is the first one before turn
\* lo + 1; the loop computes a value for each turn.
LoopOver(D, lo, hi, F) == lo \in Int /\ hi \in Int /\ F \in [lo + 1 .. hi -> [D -> D]]
Computes(D, lo, hi, first, F) ==
    \E f \in [lo .. hi -> D] :
        \A i \in lo .. hi : f[i] = IF i = lo THEN first ELSE F[i][f[i - 1]]

\* A loop that keeps to D computes a value for each turn, by induction over the
\* turns: this is what gives a recursive function over an interval its values.
LEMMA Loop ==
    ASSUME NEW D, NEW lo, NEW hi, NEW first, NEW F, LoopOver(D, lo, hi, F), first \in D
    PROVE  Computes(D, lo, hi, first, F)
  <1> USE DEF LoopOver, Computes
  <1> DEFINE Upto(n, f) == \A i \in lo .. lo + n : f[i] = IF i = lo THEN first ELSE F[i][f[i - 1]]
             S == {n \in Nat : lo + n <= hi => \E f \in [lo .. lo + n -> D] : Upto(n, f)}
  <1>1. 0 \in S
    <2>1. [i \in lo .. lo + 0 |-> first] \in [lo .. lo + 0 -> D]
      OBVIOUS
    <2>2. Upto(0, [i \in lo .. lo + 0 |-> first])
      OBVIOUS
    <2> HIDE DEF Upto
    <2> QED BY <2>1, <2>2
  <1>2. ASSUME NEW n \in Nat, n \in S PROVE n + 1 \in S
    <2> SUFFICES ASSUME lo + (n + 1) <= hi
                 PROVE  \E f \in [lo .. lo + (n + 1) -> D] : Upto(n + 1, f)
      OBVIOUS
    <2>1. PICK f \in [lo .. lo + n -> D] : Upto(n, f)
      BY <1>2
    <2> DEFINE m == lo + (n + 1)
               g == [i \in lo .. m |-> IF i = m THEN F[m][f[m - 1]] ELSE f[i]]
    <2>2. f[m - 1] \in D /\ m \in lo + 1 .. hi
      BY <2>1
    <2>3. F[m][f[m - 1]] \in D
      BY <2>2
    <2>4. g \in [lo .. m -> D]
      BY <2>1, <2>3
    <2>5. ASSUME NEW i \in lo .. m PROVE g[i] = IF i = lo THEN first ELSE F[i][g[i - 1]]
      <3>1. CASE i = m
        <4>1. i # lo /\ i - 1 \in lo .. m /\ i - 1 # m
          BY <3>1
        <4>2. g[i - 1] = f[m - 1]
          BY <3>1, <4>1
        <4> QED BY <3>1, <4>1, <4>2
      <3>2. CASE i # m
        <4>1. i \in lo .. lo + n
          BY <3>2
        <4>2. f[i] = IF i = lo THEN first ELSE F[i][f[i - 1]]
          BY <2>1, <4>1
        <4>3. i # lo => i - 1 \in lo .. m /\ i - 1 # m
          BY <3>2
        <4>4. i # lo => g[i - 1] = f[i - 1]
          BY <4>3
        <4> QED BY <3>2, <4>2, <4>4
      <3> QED BY <3>1, <3>2
    <2> HIDE DEF g
    <2> QED BY <2>4, <2>5
  <1>3. \A n \in Nat : n \in S
    <2> HIDE DEF S
    <2> QED BY <1>1, <1>2, SetInduction
  <1>4. CASE lo <= hi
    <2>1. PICK f \in [lo .. hi -> D] : Upto(hi - lo, f)
      <3>1. hi - lo \in Nat /\ lo + (hi - lo) = hi
        BY <1>4
      <3>2. hi - lo \in S
        BY <1>3, <3>1
      <3> QED BY <3>1, <3>2
    <2>2. lo + (hi - lo) = hi
      OBVIOUS
    <2> QED BY <2>1, <2>2
  <1>5. CASE ~(lo <= hi)
    <2>1. lo .. hi = {} /\ [i \in lo .. hi |-> first] \in [lo .. hi -> D]
      BY <1>5
    <2> QED BY <2>1
  <1> QED
    BY <1>4, <1>5

\* Two sequences put one after the other.
LEMMA Joined ==
    ASSUME NEW X, NEW s \in Seq(X), NEW t \in Seq(X)
    PROVE  /\ s \o t \in Seq(X) /\ Len(s \o t) = Len(s) + Len(t)
           /\ \A j \in 1 .. Len(s) : (s \o t)[j] = s[j]
           /\ \A j \in 1 .. Len(t) : (s \o t)[Len(s) + j] = t[j]
  OBVIOUS

\* An element put at the end of a list (push_back) is added to its members.
LEMMA Appended ==
    ASSUME NEW X, NEW s \in Seq(X), NEW x \in X PROVE ToSet(Append(s, x)) = ToSet(s) \cup {x}
  <1> DEFINE t == Append(s, x)
  <1>1. /\ Len(s) \in Nat /\ DOMAIN s = 1 .. Len(s) /\ DOMAIN t = 1 .. Len(s) + 1
        /\ t[Len(s) + 1] = x /\ \A j \in 1 .. Len(s) : t[j] = s[j]
    OBVIOUS
  <1> HIDE DEF t
  <1> QED BY <1>1 DEF ToSet

\* Where each of the sequences starts when they are put one after the other.
Starts(start, seqs) ==
    /\ start \in [0 .. Len(seqs) -> Nat] /\ start[0] = 0
    /\ \A i \in 1 .. Len(seqs) : start[i] = start[i - 1] + Len(seqs[i])

\* The sequence that holds them one after the other.
Holds(all, start, seqs) ==
    /\ Len(all) = start[Len(seqs)]
    /\ \A i \in 1 .. Len(seqs) :
         /\ start[i - 1] + Len(seqs[i]) <= start[Len(seqs)]
         /\ \A j \in 1 .. Len(seqs[i]) : all[start[i - 1] + j] = seqs[i][j]

\* FlattenSeq gives that sequence.
LEMMA Flattened ==
    ASSUME NEW X, NEW seqs \in Seq(Seq(X)), NEW start, Starts(start, seqs)
    PROVE  FlattenSeq(seqs) \in Seq(X) /\ Holds(FlattenSeq(seqs), start, seqs)
  <1> DEFINE n == Len(seqs)
             After(k, s) ==
               /\ s \in Seq(X) /\ Len(s) = start[k]
               /\ \A i \in 1 .. k : /\ start[i - 1] + Len(seqs[i]) <= start[k]
                                   /\ \A j \in 1 .. Len(seqs[i]) : s[start[i - 1] + j] = seqs[i][j]
             Turns(g) == g = [i \in 1 .. n |-> IF i = 1 THEN seqs[i] ELSE g[i - 1] \o seqs[i]]
             flatten == CHOOSE g : Turns(g)
  <1>1. /\ n \in Nat /\ \A i \in 1 .. n : seqs[i] \in Seq(X)
        /\ start[0] = 0 /\ \A i \in 0 .. n : start[i] \in Nat
    <2>1. n \in Nat /\ \A i \in 1 .. n : seqs[i] \in Seq(X)
      OBVIOUS
    <2>2. start[0] = 0 /\ start \in [0 .. n -> Nat]
      BY Zenon DEF Starts
    <2> HIDE DEF n
    <2> QED BY <2>1, <2>2
  <1>2. CASE n = 0
    <2>1. FlattenSeq(seqs) = <<>> /\ seqs = <<>>
      <3>1. FlattenSeq(seqs) = seqs
        BY <1>2, Zenon DEF FlattenSeq
      <3> QED BY <1>2, <3>1
    <2>2. start[n] = 0
      BY <1>1, <1>2, Zenon
    <2> QED BY <1>2, <2>1, <2>2 DEF Holds
  <1>3. CASE n > 0
    <2>1. FlattenSeq(seqs) = flatten[n]
      <3>1. Len(seqs) # 0
        BY <1>3
      <3> QED BY <3>1, Zenon DEF FlattenSeq
    <2>2. \E g : Turns(g)
      <3> DEFINE F == [i \in 1 + 1 .. n |-> [d \in Seq(X) |-> d \o seqs[i]]]
      <3>1. F \in [1 + 1 .. n -> [Seq(X) -> Seq(X)]]
        BY <1>1
      <3>2. PICK g \in [1 .. n -> Seq(X)] :
               \A i \in 1 .. n : g[i] = IF i = 1 THEN seqs[1] ELSE F[i][g[i - 1]]
        <4> DEFINE D == Seq(X)
                   lo == 1
        <4>1. seqs[1] \in D /\ LoopOver(D, lo, n, F)
          BY <1>1, <1>3, <3>1 DEF LoopOver
        <4> HIDE DEF F, D, lo, n
        <4>2. Computes(D, lo, n, seqs[1], F)
          BY <4>1, Loop
        <4> QED BY <4>2 DEF Computes, D, lo
      <3>3. ASSUME NEW i \in 1 .. n, i # 1 PROVE F[i][g[i - 1]] = g[i - 1] \o seqs[i]
        <4>1. i - 1 \in 1 .. n /\ i \in 1 + 1 .. n
          BY <1>1, <3>3
        <4>2. g[i - 1] \in Seq(X)
          BY <3>2, <4>1
        <4> QED BY <4>1, <4>2
      <3> HIDE DEF F
      <3>4. Turns(g)
        BY <3>2, <3>3
      <3> QED BY <3>4
    <2>3. Turns(flatten)
      <3> HIDE DEF Turns
      <3> QED BY <2>2
    <2> DEFINE S == {k \in Nat : k < n => After(k + 1, flatten[k + 1])}
    <2>4. 0 \in S
      <3> HIDE DEF flatten
      <3> SUFFICES After(1, flatten[1])
        <4>1. 0 + 1 = 1
          OBVIOUS
        <4> QED BY <4>1
      <3>1. flatten[1] = seqs[1] /\ seqs[1] \in Seq(X)
        BY <1>1, <1>3, <2>3
      <3>2. start[1] = Len(seqs[1])
        <4>1. 1 \in 1 .. n /\ start[1 - 1] = 0
          BY <1>1, <1>3
        <4>2. start[1] = start[1 - 1] + Len(seqs[1])
          BY <4>1 DEF Starts
        <4> QED BY <1>1, <4>1, <4>2
      <3>3. \A i \in 1 .. 1 : /\ start[i - 1] + Len(seqs[i]) <= start[1]
                           /\ \A j \in 1 .. Len(seqs[i]) : seqs[1][start[i - 1] + j] = seqs[i][j]
        BY <1>1, <3>2
      <3> QED BY <3>1, <3>2, <3>3
    <2>5. ASSUME NEW k \in Nat, k \in S PROVE k + 1 \in S
      <3> HIDE DEF flatten
      <3> SUFFICES ASSUME k + 1 < n PROVE After(k + 2, flatten[k + 2])
        <4> HIDE DEF After
        <4>1. k + 1 \in Nat /\ (k + 1) + 1 = k + 2
          OBVIOUS
        <4> QED BY <4>1
      <3>1. After(k + 1, flatten[k + 1])
        BY <2>5
      <3> DEFINE s == flatten[k + 1]
                 t == seqs[k + 2]
      <3>2. flatten[k + 2] = s \o t
        <4>1. k + 2 \in 1 .. n /\ k + 2 # 1 /\ (k + 2) - 1 = k + 1
          BY <1>1
        <4> QED BY <2>3, <4>1
      <3>3. /\ s \in Seq(X) /\ t \in Seq(X) /\ Len(s) = start[k + 1]
            /\ start[k + 2] = start[k + 1] + Len(t)
        <4>1. k + 2 \in 1 .. n /\ (k + 2) - 1 = k + 1
          BY <1>1
        <4>2. start[k + 2] = start[(k + 2) - 1] + Len(seqs[k + 2])
          BY <4>1 DEF Starts
        <4> QED BY <1>1, <3>1, <4>1, <4>2
      <3> HIDE DEF s, t
      <3>4. s \in Seq(X) /\ t \in Seq(X)
        BY <3>3, Zenon
      <3>5. s \o t \in Seq(X) /\ Len(s \o t) = start[k + 2]
        <4>1. s \o t \in Seq(X) /\ Len(s \o t) = Len(s) + Len(t)
          BY <3>4, Joined
        <4> QED BY <3>3, <4>1, Zenon
      <3>6. ASSUME NEW i \in 1 .. k + 2, NEW j \in 1 .. Len(seqs[i])
            PROVE  (s \o t)[start[i - 1] + j] = seqs[i][j]
        <4>1. CASE i = k + 2
          <5>1. j \in 1 .. Len(t) /\ i - 1 = k + 1
            BY <3>6, <4>1 DEF t
          <5>2. start[k + 1] \in Nat
            BY <1>1
          <5>3. (s \o t)[start[k + 1] + j] = t[j]
            <6>1. (s \o t)[Len(s) + j] = t[j]
              BY <3>4, <5>1, Joined
            <6> QED BY <3>3, <6>1, Zenon
          <5> QED BY <4>1, <5>1, <5>3 DEF t
        <4>2. CASE i # k + 2
          <5>1. i \in 1 .. k + 1 /\ i - 1 \in 0 .. n /\ Len(seqs[i]) \in Nat
            BY <1>1, <4>2
          <5>2. s[start[i - 1] + j] = seqs[i][j] /\ start[i - 1] + Len(seqs[i]) <= start[k + 1]
            BY <3>1, <5>1 DEF s
          <5>3. start[i - 1] + j \in 1 .. Len(s)
            <6>1. start[i - 1] \in Nat /\ start[k + 1] \in Nat /\ j \in Nat /\ 1 <= j /\ j <= Len(seqs[i])
              BY <1>1, <3>6, <5>1
            <6>2. Len(s) = start[k + 1]
              BY <3>3, Zenon
            <6>3. \A a \in Nat, b \in Nat, c \in Nat, m \in Nat :
                     a + c <= b /\ 1 <= m /\ m <= c => a + m \in 1 .. b
              OBVIOUS
            <6> QED BY <5>1, <5>2, <6>1, <6>2, <6>3, Zenon
          <5>4. (s \o t)[start[i - 1] + j] = s[start[i - 1] + j]
            BY <3>4, <5>3, Joined
          <5> QED BY <5>2, <5>4, Zenon
        <4> QED BY <4>1, <4>2
      <3>7. ASSUME NEW i \in 1 .. k + 2 PROVE start[i - 1] + Len(seqs[i]) <= start[k + 2]
        <4>1. CASE i = k + 2
          <5>1. i - 1 = k + 1
            BY <4>1
          <5> QED BY <3>3, <4>1, <5>1 DEF t
        <4>2. CASE i # k + 2
          <5>1. i \in 1 .. k + 1 /\ i - 1 \in 0 .. n /\ Len(seqs[i]) \in Nat
            BY <1>1, <4>2
          <5>2. start[i - 1] + Len(seqs[i]) <= start[k + 1]
            BY <3>1, <5>1
          <5>3. start[k + 1] \in Nat /\ start[i - 1] \in Nat /\ Len(t) \in Nat
            BY <1>1, <3>3, <5>1
          <5>4. \A a \in Nat, b \in Nat, c \in Nat, m \in Nat : a + c <= b => a + c <= b + m
            OBVIOUS
          <5> QED BY <3>3, <5>1, <5>2, <5>3, <5>4, Zenon
        <4> QED BY <4>1, <4>2
      <3> QED BY <3>2, <3>5, <3>6, <3>7
    <2>6. After(n, flatten[n])
      <3>1. \A k \in Nat : k \in S
        <4> HIDE DEF S
        <4> QED BY <2>4, <2>5, SetInduction
      <3>2. n - 1 \in Nat /\ n - 1 < n /\ (n - 1) + 1 = n
        BY <1>1, <1>3
      <3> HIDE DEF After, flatten
      <3> QED BY <3>1, <3>2
    <2> HIDE DEF flatten
    <2> QED BY <2>1, <2>6, Zenon DEF Holds
  <1> QED
    BY <1>1, <1>2, <1>3

\* Every sequence of sequences has its starts: the sums of the lengths.
LEMMA HasStarts == ASSUME NEW X, NEW seqs \in Seq(Seq(X)) PROVE \E start : Starts(start, seqs)
  <1> DEFINE n == Len(seqs)
             F == [i \in 0 + 1 .. n |-> [d \in Nat |-> d + Len(seqs[i])]]
             lo == 0
             D == Nat
  <1>1. n \in Nat /\ \A i \in 1 .. n : Len(seqs[i]) \in Nat
    OBVIOUS
  <1>2. LoopOver(D, lo, n, F) /\ lo \in D
    <2>1. F \in [0 + 1 .. n -> [Nat -> Nat]]
      BY <1>1
    <2>2. 0 \in Nat /\ 0 \in Int /\ n \in Int
      BY <1>1
    <2> HIDE DEF F, n
    <2> QED BY <2>1, <2>2, Zenon DEF LoopOver
  <1>3. Computes(D, lo, n, lo, F)
    <2> HIDE DEF D, lo, n, F
    <2> QED BY <1>2, Loop
  <1>4. PICK f \in [0 .. n -> Nat] : \A i \in 0 .. n : f[i] = IF i = 0 THEN 0 ELSE F[i][f[i - 1]]
    <2> HIDE DEF F, n
    <2> QED BY <1>3 DEF Computes
  <1>5. ASSUME NEW i \in 1 .. n PROVE f[i] = f[i - 1] + Len(seqs[i])
    <2>1. i \in 0 .. n /\ i # 0 /\ i - 1 \in 0 .. n /\ i \in 0 + 1 .. n
      BY <1>1
    <2>2. f[i - 1] \in Nat
      BY <2>1
    <2>3. F[i][f[i - 1]] = f[i - 1] + Len(seqs[i])
      BY <2>1, <2>2
    <2> HIDE DEF F
    <2> QED BY <1>4, <2>1, <2>3
  <1>6. f[0] = 0
    BY <1>1, <1>4
  <1> QED
    BY <1>5, <1>6 DEF Starts

\* The sequences put one after the other have the elements of each.
LEMMA FlatType == ASSUME NEW X, NEW seqs \in Seq(Seq(X)) PROVE FlattenSeq(seqs) \in Seq(X)
  BY HasStarts, Flattened

-----------------------------------------------------------------------------
(* How many elements of a queue have a property *)

\* The places of a queue that hold an element of F, and their number.
Places(s, F) == {i \in DOMAIN s : s[i] \in F}
Tally(s, F) == Cardinality(Places(s, F))

LEMMA PlacesFinite ==
    ASSUME NEW X, NEW s \in Seq(X), NEW F
    PROVE  IsFiniteSet(Places(s, F)) /\ Places(s, F) \subseteq 1 .. Len(s) /\ Len(s) \in Nat
  <1>1. Len(s) \in Nat /\ DOMAIN s = 1 .. Len(s)
    OBVIOUS
  <1>2. Places(s, F) \subseteq 1 .. Len(s)
    BY <1>1 DEF Places
  <1>3. IsFiniteSet(1 .. Len(s))
    BY <1>1, FS_Interval
  <1> QED BY <1>1, <1>2, <1>3, FS_Subset

LEMMA TallyType == ASSUME NEW X, NEW s \in Seq(X), NEW F PROVE Tally(s, F) \in Nat
  BY PlacesFinite, FS_CardinalityType DEF Tally

\* Queues with the same elements of F at the same places have as many.
LEMMA TallySame ==
    ASSUME NEW X, NEW s \in Seq(X), NEW t \in Seq(X), NEW F, Len(s) = Len(t),
           \A i \in 1 .. Len(s) : s[i] \in F <=> t[i] \in F
    PROVE  Tally(s, F) = Tally(t, F)
  <1>1. DOMAIN s = 1 .. Len(s) /\ DOMAIN t = 1 .. Len(s)
    OBVIOUS
  <1>2. Places(s, F) = Places(t, F)
    BY <1>1 DEF Places
  <1> QED BY <1>2 DEF Tally

\* None has an element of F when its number is zero, and the other way round.
LEMMA TallyZero ==
    ASSUME NEW X, NEW s \in Seq(X), NEW F
    PROVE  Tally(s, F) = 0 <=> \A i \in 1 .. Len(s) : s[i] \notin F
  <1>1. DOMAIN s = 1 .. Len(s)
    OBVIOUS
  <1>2. Tally(s, F) = 0 <=> Places(s, F) = {}
    BY PlacesFinite, FS_EmptySet DEF Tally
  <1> QED BY <1>1, <1>2 DEF Places

\* Another element in one place.
LEMMA TallyReplaced ==
    ASSUME NEW X, NEW s \in Seq(X), NEW F, NEW h \in 1 .. Len(s), NEW x \in X
    PROVE  Tally([s EXCEPT ![h] = x], F)
             = Tally(s, F) - (IF s[h] \in F THEN 1 ELSE 0) + (IF x \in F THEN 1 ELSE 0)
  <1> DEFINE t == [s EXCEPT ![h] = x]
             A == Places(s, F) \ {h}
  <1>1. /\ DOMAIN s = 1 .. Len(s) /\ DOMAIN t = 1 .. Len(s)
        /\ t[h] = x /\ \A i \in 1 .. Len(s) : i # h => t[i] = s[i]
    OBVIOUS
  <1> HIDE DEF t
  <1>2. Places(t, F) = IF x \in F THEN A \cup {h} ELSE A
    BY <1>1 DEF Places
  <1>3. IsFiniteSet(A) /\ Cardinality(A) = Tally(s, F) - (IF s[h] \in F THEN 1 ELSE 0)
    <2>1. h \in Places(s, F) <=> s[h] \in F
      BY <1>1 DEF Places
    <2> DEFINE P == Places(s, F)
    <2>2. IsFiniteSet(P) /\ Tally(s, F) = Cardinality(P)
      BY PlacesFinite DEF Tally
    <2> HIDE DEF P
    <2>3. IsFiniteSet(P \ {h}) /\ Cardinality(P \ {h}) = IF h \in P THEN Cardinality(P) - 1 ELSE Cardinality(P)
      BY <2>2, FS_RemoveElement
    <2>4. Tally(s, F) \in Nat
      BY TallyType
    <2> QED BY <2>1, <2>2, <2>3, <2>4 DEF P
  <1>4. h \notin A
    OBVIOUS
  <1> HIDE DEF A
  <1>5. Cardinality(A \cup {h}) = Cardinality(A) + 1
    BY <1>3, <1>4, FS_AddElement
  <1>6. Tally(s, F) \in Nat
    BY TallyType
  <1>7. Tally(t, F) = Cardinality(A) + (IF x \in F THEN 1 ELSE 0)
    BY <1>2, <1>3, <1>5, <1>6 DEF Tally
  <1> QED BY <1>3, <1>6, <1>7 DEF t

\* Two queues one after the other have the sum of their numbers.
LEMMA TallyJoined ==
    ASSUME NEW X, NEW s \in Seq(X), NEW t \in Seq(X), NEW F
    PROVE  Tally(s \o t, F) = Tally(s, F) + Tally(t, F)
  <1> DEFINE n == Len(s)
             B == {i \in n + 1 .. n + Len(t) : t[i - n] \in F}
             f == [j \in Places(t, F) |-> n + j]
  <1>1. /\ n \in Nat /\ Len(t) \in Nat /\ DOMAIN s = 1 .. n /\ DOMAIN t = 1 .. Len(t)
        /\ DOMAIN (s \o t) = 1 .. n + Len(t)
        /\ \A j \in 1 .. n : (s \o t)[j] = s[j]
        /\ \A j \in 1 .. Len(t) : (s \o t)[n + j] = t[j]
    <2>1. n \in Nat /\ Len(t) \in Nat /\ DOMAIN s = 1 .. n /\ DOMAIN t = 1 .. Len(t)
      OBVIOUS
    <2>2. DOMAIN (s \o t) = 1 .. n + Len(t)
      OBVIOUS
    <2> QED BY <2>1, <2>2, Joined
  <1>2. Places(s \o t, F) = Places(s, F) \cup B
    <2> DEFINE u == s \o t
    <2>1. \A i \in n + 1 .. n + Len(t) : i - n \in 1 .. Len(t) /\ n + (i - n) = i
      BY <1>1
    <2>2. \A i \in n + 1 .. n + Len(t) : u[i] = t[i - n]
      BY <1>1, <2>1, Zenon
    <2>3. \A i \in 1 .. n : u[i] = s[i]
      BY <1>1, Zenon
    <2>4. DOMAIN u = 1 .. n + Len(t)
      BY <1>1
    <2> HIDE DEF u, n
    <2>5. DOMAIN u = (1 .. n) \cup (n + 1 .. n + Len(t))
      BY <1>1, <2>4
    <2> QED BY <1>1, <2>2, <2>3, <2>5 DEF Places, u
  <1>3. Places(s, F) \cap B = {}
    BY <1>1 DEF Places
  <1>4. f \in Bijection(Places(t, F), B)
    <2>1. f \in [Places(t, F) -> B]
      BY <1>1 DEF Places
    <2>2. \A j, k \in Places(t, F) : f[j] = f[k] => j = k
      BY <1>1 DEF Places
    <2>3. ASSUME NEW i \in B PROVE \E j \in Places(t, F) : f[j] = i
      <3>1. i - n \in Places(t, F) /\ n + (i - n) = i
        BY <1>1 DEF Places
      <3> QED BY <3>1
    <2> HIDE DEF f, B
    <2>4. f \in Injection(Places(t, F), B)
      BY <2>1, <2>2 DEF Injection, IsInjective
    <2>5. f \in Surjection(Places(t, F), B)
      BY <2>1, <2>3 DEF Surjection
    <2> QED BY <2>4, <2>5, Zenon DEF Bijection
  <1>5. IsFiniteSet(B) /\ Cardinality(B) = Tally(t, F)
    <2>1. ExistsBijection(Places(t, F), B)
      BY <1>4 DEF ExistsBijection
    <2> HIDE DEF B
    <2> QED BY <2>1, PlacesFinite, FS_Bijection DEF Tally
  <1> HIDE DEF B, n
  <1>6. Cardinality(Places(s, F) \cup B) = Cardinality(Places(s, F)) + Cardinality(B) - Cardinality(Places(s, F) \cap B)
    BY <1>5, PlacesFinite, FS_Union
  <1>7. Tally(s, F) \in Nat /\ Tally(t, F) \in Nat /\ Cardinality(Places(s, F) \cap B) = 0
    BY <1>3, TallyType, FS_EmptySet
  <1>8. Tally(s \o t, F) = Cardinality(Places(s, F) \cup B) /\ Tally(s, F) = Cardinality(Places(s, F))
    BY <1>2, Zenon DEF Tally
  <1> QED BY <1>5, <1>6, <1>7, <1>8

\* One element alone.
LEMMA TallyOne == ASSUME NEW x, NEW F PROVE Tally(<<x>>, F) = IF x \in F THEN 1 ELSE 0
  <1>1. Places(<<x>>, F) = IF x \in F THEN {1} ELSE {}
    BY DEF Places
  <1> QED BY <1>1, FS_EmptySet, FS_Singleton DEF Tally

\* An element put at the end.
LEMMA TallyAppend ==
    ASSUME NEW X, NEW s \in Seq(X), NEW x \in X, NEW F
    PROVE  Tally(Append(s, x), F) = Tally(s, F) + (IF x \in F THEN 1 ELSE 0)
  <1> DEFINE t == Append(s, x)
             u == s \o <<x>>
  <1>1. /\ t \in Seq(X) /\ Len(t) = Len(s) + 1 /\ t[Len(s) + 1] = x
        /\ \A i \in 1 .. Len(s) : t[i] = s[i]
    OBVIOUS
  <1>2. <<x>> \in Seq(X) /\ Len(<<x>>) = 1 /\ <<x>>[1] = x
    OBVIOUS
  <1>3. /\ u \in Seq(X) /\ Len(u) = Len(s) + 1 /\ u[Len(s) + 1] = x
        /\ \A i \in 1 .. Len(s) : u[i] = s[i]
    <2> DEFINE y == <<x>>
    <2>1. y \in Seq(X) /\ Len(y) = 1 /\ y[1] = x /\ 1 \in 1 .. Len(y)
      BY <1>2
    <2> HIDE DEF y
    <2> QED BY <2>1, Joined DEF y
  <1>4. Len(s) \in Nat
    OBVIOUS
  <1>5. Tally(u, F) = Tally(s, F) + (IF x \in F THEN 1 ELSE 0)
    BY <1>2, TallyJoined, TallyOne
  <1> HIDE DEF t, u
  <1>6. ASSUME NEW i \in 1 .. Len(t) PROVE t[i] = u[i]
    <2>1. i \in 1 .. Len(s) \/ i = Len(s) + 1
      BY <1>1, <1>4
    <2> QED BY <1>1, <1>3, <2>1, Zenon
  <1>7. Tally(t, F) = Tally(u, F)
    BY <1>1, <1>3, <1>6, TallySame
  <1> QED BY <1>5, <1>7 DEF t

\* A part of a queue.
LEMMA Part ==
    ASSUME NEW X, NEW s \in Seq(X), NEW m \in 1 .. Len(s) + 1, NEW n \in m - 1 .. Len(s)
    PROVE  /\ SubSeq(s, m, n) \in Seq(X) /\ Len(SubSeq(s, m, n)) = n + 1 - m
           /\ \A i \in 1 .. n + 1 - m : SubSeq(s, m, n)[i] = s[i + (m - 1)]
  OBVIOUS

\* What is before place h of a queue, and what is behind it.
Before(s, h) == SubSeq(s, 1, h - 1)
Behind(s, h) == SubSeq(s, h + 1, Len(s))
LEMMA Around ==
    ASSUME NEW X, NEW s \in Seq(X), NEW h \in 1 .. Len(s)
    PROVE  /\ Len(s) \in Nat
           /\ Before(s, h) \in Seq(X) /\ Len(Before(s, h)) = h - 1
           /\ \A i \in 1 .. h - 1 : Before(s, h)[i] = s[i]
           /\ Behind(s, h) \in Seq(X) /\ Len(Behind(s, h)) = Len(s) - h
           /\ \A i \in 1 .. Len(s) - h : Behind(s, h)[i] = s[i + h]
           /\ RemoveAt(s, h) = Before(s, h) \o Behind(s, h)
  <1> DEFINE a == Before(s, h)
             z == Behind(s, h)
  <1>1. Len(s) \in Nat
    OBVIOUS
  <1>2. a \in Seq(X) /\ Len(a) = h - 1 /\ \A i \in 1 .. h - 1 : a[i] = s[i]
    <2>1. /\ 1 \in 1 .. Len(s) + 1 /\ h - 1 \in 1 - 1 .. Len(s) /\ (h - 1) + 1 - 1 = h - 1
          /\ \A i \in 1 .. h - 1 : i + (1 - 1) = i
      BY <1>1
    <2> QED BY <2>1, Part DEF Before, Behind
  <1>3. z \in Seq(X) /\ Len(z) = Len(s) - h /\ \A i \in 1 .. Len(s) - h : z[i] = s[i + h]
    <2>1. /\ h + 1 \in 1 .. Len(s) + 1 /\ Len(s) \in (h + 1) - 1 .. Len(s)
          /\ Len(s) + 1 - (h + 1) = Len(s) - h
          /\ \A i \in 1 .. Len(s) - h : i + ((h + 1) - 1) = i + h
      BY <1>1
    <2> QED BY <2>1, Part DEF Before, Behind
  <1>4. RemoveAt(s, h) = a \o z
    BY Zenon DEF RemoveAt, Before, Behind
  <1> QED BY <1>1, <1>2, <1>3, <1>4, Zenon

\* The queue without the element at place h: what was behind it moves up.
LEMMA Removed ==
    ASSUME NEW X, NEW s \in Seq(X), NEW h \in 1 .. Len(s)
    PROVE  /\ RemoveAt(s, h) \in Seq(X) /\ Len(RemoveAt(s, h)) = Len(s) - 1
           /\ \A i \in 1 .. h - 1 : RemoveAt(s, h)[i] = s[i]
           /\ \A i \in h .. Len(s) - 1 : RemoveAt(s, h)[i] = s[i + 1]
  <1> DEFINE a == Before(s, h)
             z == Behind(s, h)
             t == RemoveAt(s, h)
  <1>1. /\ Len(s) \in Nat
        /\ a \in Seq(X) /\ Len(a) = h - 1 /\ \A i \in 1 .. h - 1 : a[i] = s[i]
        /\ z \in Seq(X) /\ Len(z) = Len(s) - h /\ \A i \in 1 .. Len(s) - h : z[i] = s[i + h]
        /\ t = a \o z
    BY Around
  <1> HIDE DEF a, z
  <1>2. /\ t \in Seq(X) /\ Len(t) = Len(a) + Len(z)
        /\ \A i \in 1 .. Len(a) : t[i] = a[i]
        /\ \A i \in 1 .. Len(z) : t[Len(a) + i] = z[i]
    <2> HIDE DEF t
    <2>1. a \in Seq(X) /\ z \in Seq(X) /\ t = a \o z
      BY <1>1, Zenon
    <2> QED BY <2>1, Joined
  <1> HIDE DEF t
  <1>3. /\ Len(s) \in Nat /\ t \in Seq(X) /\ Len(t) = Len(a) + Len(z)
        /\ Len(a) = h - 1 /\ Len(z) = Len(s) - h
    BY <1>1, <1>2, Zenon
  <1>4. Len(t) = Len(s) - 1
    BY <1>3
  <1>5. ASSUME NEW i \in h .. Len(s) - 1 PROVE t[i] = s[i + 1]
    <2>1. i - (h - 1) \in 1 .. Len(s) - h /\ (h - 1) + (i - (h - 1)) = i /\ (i - (h - 1)) + h = i + 1
      BY <1>3
    <2>2. t[(h - 1) + (i - (h - 1))] = z[i - (h - 1)]
      BY <1>2, <1>3, <2>1, Zenon
    <2>3. z[i - (h - 1)] = s[(i - (h - 1)) + h]
      BY <1>1, <2>1, Zenon
    <2> QED BY <2>1, <2>2, <2>3, Zenon
  <1>6. \A i \in 1 .. h - 1 : t[i] = s[i]
    BY <1>1, <1>2, Zenon
  <1> QED BY <1>3, <1>4, <1>5, <1>6, Zenon DEF t

LEMMA TallyRemoved ==
    ASSUME NEW X, NEW s \in Seq(X), NEW h \in 1 .. Len(s), NEW F
    PROVE  Tally(RemoveAt(s, h), F) = Tally(s, F) - (IF s[h] \in F THEN 1 ELSE 0)
  <1> DEFINE a == Before(s, h)
             z == Behind(s, h)
             x == s[h]
             b == Append(a, x)
             w == b \o z
  <1>1. /\ Len(s) \in Nat
        /\ a \in Seq(X) /\ Len(a) = h - 1 /\ \A i \in 1 .. h - 1 : a[i] = s[i]
        /\ z \in Seq(X) /\ Len(z) = Len(s) - h /\ \A i \in 1 .. Len(s) - h : z[i] = s[i + h]
        /\ RemoveAt(s, h) = a \o z
    BY Around
  <1>2. x \in X
    OBVIOUS
  <1> HIDE DEF a, z, x
  <1>3. /\ b \in Seq(X) /\ Len(b) = h /\ b[h] = x /\ \A i \in 1 .. h - 1 : b[i] = a[i]
    BY <1>1, <1>2
  <1> HIDE DEF b
  <1>4. /\ w \in Seq(X) /\ Len(w) = Len(b) + Len(z)
        /\ \A i \in 1 .. Len(b) : w[i] = b[i]
        /\ \A i \in 1 .. Len(z) : w[Len(b) + i] = z[i]
    <2>1. b \in Seq(X) /\ z \in Seq(X)
      BY <1>1, <1>3, Zenon
    <2> QED BY <2>1, Joined
  <1> HIDE DEF w
  <1>5. Len(w) = Len(s)
    BY <1>1, <1>3, <1>4
  <1>6. ASSUME NEW i \in 1 .. Len(s) PROVE w[i] = s[i]
    <2>1. i \in 1 .. h - 1 => w[i] = s[i]
      <3> HAVE i \in 1 .. h - 1
      <3>1. i \in 1 .. h
        BY <1>1
      <3> QED BY <1>1, <1>3, <1>4, <3>1, Zenon
    <2>2. i = h => w[i] = s[i]
      <3>1. h \in 1 .. h
        BY <1>1
      <3> QED BY <1>3, <1>4, <3>1, Zenon DEF x
    <2>3. i \in h + 1 .. Len(s) => w[i] = s[i]
      <3> HAVE i \in h + 1 .. Len(s)
      <3>1. i - h \in 1 .. Len(s) - h /\ h + (i - h) = i /\ (i - h) + h = i
        BY <1>1
      <3>2. w[h + (i - h)] = z[i - h] /\ z[i - h] = s[(i - h) + h]
        BY <1>1, <1>3, <1>4, <3>1, Zenon
      <3> QED BY <3>1, <3>2, Zenon
    <2>4. i \in 1 .. h - 1 \/ i = h \/ i \in h + 1 .. Len(s)
      BY <1>1
    <2> QED BY <2>1, <2>2, <2>3, <2>4, Zenon
  <1>7. Tally(s, F) = Tally(w, F)
    <2>1. w \in Seq(X) /\ Len(s) = Len(w) /\ \A i \in 1 .. Len(s) : s[i] \in F <=> w[i] \in F
      BY <1>4, <1>5, <1>6, Zenon
    <2> QED BY <2>1, TallySame, Zenon
  <1>8. Tally(w, F) = Tally(b, F) + Tally(z, F)
    BY <1>1, <1>3, TallyJoined DEF w
  <1>9. Tally(b, F) = Tally(a, F) + (IF x \in F THEN 1 ELSE 0)
    BY <1>1, <1>2, TallyAppend DEF b
  <1>10. Tally(RemoveAt(s, h), F) = Tally(a, F) + Tally(z, F)
    BY <1>1, TallyJoined
  <1>11. Tally(a, F) \in Nat /\ Tally(z, F) \in Nat
    BY <1>1, TallyType
  <1> QED BY <1>7, <1>8, <1>9, <1>10, <1>11 DEF x

\* The queue without its first element.
LEMMA Rest ==
    ASSUME NEW X, NEW s \in Seq(X), s # <<>>
    PROVE  /\ Head(s) \in X /\ Head(s) = s[1] /\ 1 \in 1 .. Len(s)
           /\ Tail(s) \in Seq(X) /\ Len(Tail(s)) = Len(s) - 1
           /\ \A i \in 1 .. Len(s) - 1 : Tail(s)[i] = s[i + 1]
  OBVIOUS

LEMMA TallyTail ==
    ASSUME NEW X, NEW s \in Seq(X), s # <<>>, NEW F
    PROVE  Tally(Tail(s), F) = Tally(s, F) - (IF Head(s) \in F THEN 1 ELSE 0)
  <1> DEFINE t == Tail(s)
             u == RemoveAt(s, 1)
  <1>1. /\ Head(s) = s[1] /\ 1 \in 1 .. Len(s)
        /\ t \in Seq(X) /\ Len(t) = Len(s) - 1
        /\ \A i \in 1 .. Len(s) - 1 : t[i] = s[i + 1]
    BY Rest
  <1> HIDE DEF t, u
  <1>2. /\ u \in Seq(X) /\ Len(u) = Len(s) - 1
        /\ \A i \in 1 .. Len(s) - 1 : u[i] = s[i + 1]
    BY <1>1, Removed, Zenon DEF u
  <1>3. Tally(t, F) = Tally(u, F)
    <2>1. Len(t) = Len(u) /\ \A i \in 1 .. Len(t) : t[i] \in F <=> u[i] \in F
      BY <1>1, <1>2, Zenon
    <2> QED BY <1>1, <1>2, <2>1, TallySame, Zenon
  <1>4. Tally(u, F) = Tally(s, F) - (IF s[1] \in F THEN 1 ELSE 0)
    BY <1>1, TallyRemoved DEF u
  <1> QED BY <1>1, <1>3, <1>4, Zenon DEF t

\* The place in the queue of what is at place i once the element at h is gone.
Skip(h, i) == IF i < h THEN i ELSE i + 1

LEMMA Skipped ==
    ASSUME NEW X, NEW s \in Seq(X), NEW h \in 1 .. Len(s), NEW t, t = RemoveAt(s, h)
    PROVE  /\ t \in Seq(X) /\ DOMAIN t = 1 .. Len(s) - 1 /\ DOMAIN s = 1 .. Len(s)
           /\ \A i \in DOMAIN t : Skip(h, i) \in DOMAIN s /\ Skip(h, i) # h /\ t[i] = s[Skip(h, i)]
           /\ \A i, j \in DOMAIN t : i < j => Skip(h, i) < Skip(h, j)
           /\ \A k \in DOMAIN s : k # h => \E i \in DOMAIN t : Skip(h, i) = k
  <1>1. /\ Len(s) \in Nat /\ DOMAIN s = 1 .. Len(s)
        /\ t \in Seq(X) /\ Len(t) = Len(s) - 1
        /\ \A i \in 1 .. h - 1 : t[i] = s[i]
        /\ \A i \in h .. Len(s) - 1 : t[i] = s[i + 1]
    <2>1. /\ RemoveAt(s, h) \in Seq(X) /\ Len(RemoveAt(s, h)) = Len(s) - 1
          /\ \A i \in 1 .. h - 1 : RemoveAt(s, h)[i] = s[i]
          /\ \A i \in h .. Len(s) - 1 : RemoveAt(s, h)[i] = s[i + 1]
      BY Removed
    <2>2. Len(s) \in Nat /\ DOMAIN s = 1 .. Len(s)
      OBVIOUS
    <2> QED BY <2>1, <2>2, Zenon
  <1>2. DOMAIN t = 1 .. Len(s) - 1
    BY <1>1
  <1>3. ASSUME NEW i \in DOMAIN t PROVE Skip(h, i) \in DOMAIN s /\ Skip(h, i) # h /\ t[i] = s[Skip(h, i)]
    <2>1. CASE i < h
      <3>1. i \in 1 .. h - 1 /\ Skip(h, i) = i
        BY <1>1, <1>2, <2>1 DEF Skip
      <3> QED BY <1>1, <1>2, <3>1
    <2>2. CASE ~(i < h)
      <3>1. i \in h .. Len(s) - 1 /\ Skip(h, i) = i + 1
        BY <1>1, <1>2, <2>2 DEF Skip
      <3> QED BY <1>1, <1>2, <3>1
    <2> QED BY <2>1, <2>2
  <1>4. \A i, j \in DOMAIN t : i < j => Skip(h, i) < Skip(h, j)
    BY <1>1, <1>2 DEF Skip
  <1>5. ASSUME NEW k \in DOMAIN s, k # h PROVE \E i \in DOMAIN t : Skip(h, i) = k
    <2>1. CASE k < h
      <3>1. k \in DOMAIN t /\ Skip(h, k) = k
        BY <1>1, <1>2, <2>1 DEF Skip
      <3> QED BY <3>1
    <2>2. CASE ~(k < h)
      <3>1. k - 1 \in DOMAIN t /\ Skip(h, k - 1) = k
        BY <1>1, <1>2, <1>5, <2>2 DEF Skip
      <3> QED BY <3>1
    <2> QED BY <2>1, <2>2
  <1> QED BY <1>1, <1>2, <1>3, <1>4, <1>5, Zenon

\* The queue with an element put at its end, place by place.
LEMMA Pushed ==
    ASSUME NEW X, NEW s \in Seq(X), NEW x \in X
    PROVE  /\ Append(s, x) \in Seq(X) /\ Len(Append(s, x)) = Len(s) + 1 /\ Len(s) \in Nat
           /\ DOMAIN Append(s, x) = DOMAIN s \cup {Len(s) + 1} /\ DOMAIN s \subseteq Nat
           /\ Append(s, x)[Len(s) + 1] = x
           /\ \A i \in DOMAIN s : Append(s, x)[i] = s[i] /\ i < Len(s) + 1 /\ i # Len(s) + 1
  <1>1. /\ Append(s, x) \in Seq(X) /\ Len(Append(s, x)) = Len(s) + 1 /\ Len(s) \in Nat
        /\ DOMAIN s = 1 .. Len(s) /\ DOMAIN Append(s, x) = 1 .. Len(s) + 1
        /\ Append(s, x)[Len(s) + 1] = x
        /\ \A i \in 1 .. Len(s) : Append(s, x)[i] = s[i]
    OBVIOUS
  <1> DEFINE t == Append(s, x)
  <1> HIDE DEF t
  <1> QED BY <1>1

-----------------------------------------------------------------------------
(* Numbers *)

\* What a loop that doubles has after n turns.
DoublingFrom(p, max) == p = [n \in 0 .. max |-> IF n = 0 THEN 1 ELSE 2 * p[n - 1]]

LEMMA Doubling ==
    ASSUME NEW max \in Nat, NEW p, p = CHOOSE q : DoublingFrom(q, max)
    PROVE  p[0] = 1 /\ (\A n \in Nat : n < max => p[n + 1] = 2 * p[n]) /\ \A n \in 0 .. max : p[n] \in Nat \ {0}
  <1> DEFINE D == Nat \ {0}
             F == [k \in 0 + 1 .. max |-> [d \in D |-> 2 * d]]
  <1>1. Computes(D, 0, max, 1, F)
    <2>1. F \in [0 + 1 .. max -> [D -> D]]
      OBVIOUS
    <2>2. LoopOver(D, 0, max, F)
      <3> HIDE DEF D, F
      <3> QED BY <2>1 DEF LoopOver
    <2>3. 1 \in D
      OBVIOUS
    <2> HIDE DEF D, F
    <2> QED BY <2>2, <2>3, Loop
  <1>2. PICK f \in [0 .. max -> D] : \A n \in 0 .. max : f[n] = IF n = 0 THEN 1 ELSE F[n][f[n - 1]]
    <2> HIDE DEF D, F
    <2> QED BY <1>1, Zenon DEF Computes
  <1>3. \A n \in 0 .. max : f[n] = IF n = 0 THEN 1 ELSE 2 * f[n - 1]
    <2> SUFFICES ASSUME NEW n \in 0 .. max, n # 0 PROVE f[n] = 2 * f[n - 1]
      BY <1>2
    <2>1. n \in 0 + 1 .. max /\ n - 1 \in 0 .. max
      OBVIOUS
    <2>2. f[n - 1] \in D /\ f[n] = F[n][f[n - 1]]
      BY <1>2, <2>1
    <2> QED BY <2>1, <2>2
  <1>4. DoublingFrom(f, max)
    <2> HIDE DEF D, F
    <2> QED BY <1>2, <1>3 DEF DoublingFrom
  <1>5. DoublingFrom(p, max)
    BY <1>4
  <1>6. p[0] = 1 /\ \A n \in Nat : n < max => p[n + 1] = 2 * p[n]
    <2>1. p = [n \in 0 .. max |-> IF n = 0 THEN 1 ELSE 2 * p[n - 1]]
      BY <1>5, Zenon DEF DoublingFrom
    <2>2. 0 \in 0 .. max /\ \A n \in Nat : n < max => n + 1 \in 0 .. max /\ n + 1 # 0 /\ (n + 1) - 1 = n
      OBVIOUS
    <2> QED BY <2>1, <2>2
  <1> DEFINE S == {n \in Nat : n <= max => p[n] \in Nat \ {0}}
  <1>7. 0 \in S
    BY <1>6
  <1>8. ASSUME NEW n \in Nat, n \in S PROVE n + 1 \in S
    <2> SUFFICES ASSUME n + 1 <= max PROVE p[n + 1] \in Nat \ {0}
      OBVIOUS
    <2>1. p[n] \in Nat \ {0} /\ n < max
      BY <1>8
    <2>2. p[n + 1] = 2 * p[n]
      BY <1>6, <2>1
    <2> QED BY <2>1, <2>2
  <1>9. \A n \in Nat : n \in S
    <2> HIDE DEF S
    <2> QED BY <1>7, <1>8, SetInduction
  <1> QED BY <1>6, <1>9

LEMMA Division ==
    ASSUME NEW n \in Nat, NEW m \in Nat \ {0}
    PROVE  n \div m \in Nat /\ n % m \in 0 .. m - 1 /\ n = m * (n \div m) + (n % m)
  <1>1. \A x, y \in Nat : y > 0 => x \div y \in Nat /\ x % y \in 0 .. y - 1
    OBVIOUS
  <1>2. \A x, y \in Nat : y > 0 => x = y * (x \div y) + (x % y)
    OBVIOUS
  <1>3. m \in Nat /\ m > 0
    OBVIOUS
  <1> QED BY <1>1, <1>2, <1>3, Zenon

-----------------------------------------------------------------------------
(* A list of lists put one after the other, seen from the whole *)

\* Every place of the whole comes from one of the parts.
LEMMA Cut ==
    ASSUME NEW X, NEW seqs \in Seq(Seq(X)), NEW start, Starts(start, seqs)
    PROVE  \A p \in 1 .. start[Len(seqs)] :
             \E i \in 1 .. Len(seqs) : p \in start[i - 1] + 1 .. start[i - 1] + Len(seqs[i])
  <1> DEFINE n == Len(seqs)
             S == {k \in Nat : k <= n =>
                     \A p \in 1 .. start[k] : \E i \in 1 .. n : p \in start[i - 1] + 1 .. start[i - 1] + Len(seqs[i])}
  <1>1. /\ n \in Nat /\ start[0] = 0 /\ \A i \in 0 .. n : start[i] \in Nat
        /\ \A i \in 1 .. n : start[i] = start[i - 1] + Len(seqs[i]) /\ Len(seqs[i]) \in Nat
    <2>1. n \in Nat /\ \A i \in 1 .. n : Len(seqs[i]) \in Nat
      OBVIOUS
    <2> QED BY <2>1 DEF Starts
  <1> HIDE DEF n
  <1>2. 0 \in S
    BY <1>1
  <1>3. ASSUME NEW k \in Nat, k \in S PROVE k + 1 \in S
    <2> SUFFICES ASSUME k + 1 <= n, NEW p \in 1 .. start[k + 1]
                 PROVE  \E i \in 1 .. n : p \in start[i - 1] + 1 .. start[i - 1] + Len(seqs[i])
      OBVIOUS
    <2>1. /\ k + 1 \in 1 .. n /\ (k + 1) - 1 = k /\ k \in 0 .. n /\ k + 1 \in 0 .. n /\ k <= n
      BY <1>1
    <2>2. start[k + 1] = start[k] + Len(seqs[k + 1]) /\ start[k] \in Nat /\ start[k + 1] \in Nat
      BY <1>1, <2>1
    <2>3. CASE p <= start[k]
      <3>1. p \in 1 .. start[k]
        BY <2>2, <2>3
      <3> QED BY <1>3, <2>1, <3>1
    <2>4. CASE p > start[k]
      <3>1. p \in start[(k + 1) - 1] + 1 .. start[(k + 1) - 1] + Len(seqs[k + 1])
        BY <2>1, <2>2, <2>4
      <3> QED BY <2>1, <3>1, Zenon
    <2> QED BY <2>2, <2>3, <2>4
  <1>4. \A k \in Nat : k \in S
    <2> HIDE DEF S
    <2> QED BY <1>2, <1>3, SetInduction
  <1> QED BY <1>1, <1>4 DEF n

\* When the elements of F are those of one of the lists, there are as many.
LEMMA TallyFlattened ==
    ASSUME NEW X, NEW seqs \in Seq(Seq(X)), NEW F, NEW h \in 1 .. Len(seqs),
           \A i \in 1 .. Len(seqs) : i # h => \A j \in 1 .. Len(seqs[i]) : seqs[i][j] \notin F,
           \A j \in 1 .. Len(seqs[h]) : seqs[h][j] \in F
    PROVE  Tally(FlattenSeq(seqs), F) = Len(seqs[h])
  <1> DEFINE all == FlattenSeq(seqs)
             n == Len(seqs)
  <1>1. PICK start : Starts(start, seqs)
    BY HasStarts
  <1>2. all \in Seq(X) /\ Holds(all, start, seqs)
    BY <1>1, Flattened
  <1> DEFINE m == start[h - 1]
             l == Len(seqs[h])
  <1>3. \A p \in 1 .. start[n] : \E i \in 1 .. n : p \in start[i - 1] + 1 .. start[i - 1] + Len(seqs[i])
    BY <1>1, Cut
  <1>4. /\ m \in Nat /\ l \in Nat /\ m + l <= start[n] /\ Len(all) = start[n] /\ start[n] \in Nat
        /\ \A j \in 1 .. l : all[m + j] = seqs[h][j]
    <2>1. h - 1 \in 0 .. n /\ n \in 0 .. n /\ l \in Nat
      OBVIOUS
    <2>2. m \in Nat /\ start[n] \in Nat
      BY <1>1, <2>1 DEF Starts
    <2> HIDE DEF all
    <2> QED BY <1>2, <2>1, <2>2 DEF Holds
  <1>5. \A i \in 1 .. n : start[i - 1] \in Nat /\ \A j \in 1 .. Len(seqs[i]) : all[start[i - 1] + j] = seqs[i][j]
    <2>1. \A i \in 1 .. n : i - 1 \in 0 .. n
      OBVIOUS
    <2> HIDE DEF all
    <2> QED BY <1>1, <1>2, <2>1 DEF Holds, Starts
  <1>6. DOMAIN all = 1 .. start[n]
    <2>1. DOMAIN all = 1 .. Len(all)
      BY <1>2
    <2> HIDE DEF all
    <2> QED BY <1>4, <2>1
  <1>7. Places(all, F) = m + 1 .. m + l
    <2>1. ASSUME NEW p \in m + 1 .. m + l PROVE p \in Places(all, F)
      <3>1. p \in 1 .. start[n] /\ p - m \in 1 .. l /\ m + (p - m) = p
        BY <1>4
      <3>2. all[p] = seqs[h][p - m]
        <4> HIDE DEF all, m, l
        <4> QED BY <1>4, <3>1
      <3>3. seqs[h][p - m] \in F
        BY <3>1
      <3> HIDE DEF all
      <3> QED BY <1>6, <3>1, <3>2, <3>3 DEF Places
    <2>2. ASSUME NEW p \in Places(all, F) PROVE p \in m + 1 .. m + l
      <3>1. p \in 1 .. start[n] /\ all[p] \in F
        BY <1>6, <2>2 DEF Places
      <3>2. PICK i \in 1 .. n : p \in start[i - 1] + 1 .. start[i - 1] + Len(seqs[i])
        BY <1>3, <3>1
      <3> DEFINE s == start[i - 1]
      <3>3. s \in Nat /\ Len(seqs[i]) \in Nat /\ \A j \in 1 .. Len(seqs[i]) : all[s + j] = seqs[i][j]
        BY <1>5
      <3>4. p - s \in 1 .. Len(seqs[i]) /\ s + (p - s) = p
        <4> HIDE DEF s
        <4> QED BY <3>1, <3>2, <3>3 DEF s
      <3>5. seqs[i][p - s] \in F
        <4> HIDE DEF all, s
        <4> QED BY <3>1, <3>3, <3>4
      <3>6. i = h
        <4> HIDE DEF s
        <4> QED BY <3>4, <3>5
      <3> QED BY <3>2, <3>6
    <2> HIDE DEF all
    <2> QED BY <2>1, <2>2
  <1>8. Cardinality(m + 1 .. m + l) = l
    <2>1. m + 1 \in Int /\ m + l \in Int
      BY <1>4
    <2>2. Cardinality(m + 1 .. m + l) = IF m + 1 > m + l THEN 0 ELSE (m + l) - (m + 1) + 1
      <3> HIDE DEF m, l
      <3> QED BY <2>1, FS_Interval
    <2> HIDE DEF m, l
    <2> QED BY <1>4, <2>2
  <1> QED BY <1>7, <1>8 DEF Tally

\* When none of the lists has an element of F, neither has the whole.
LEMMA NoneFlattened ==
    ASSUME NEW X, NEW seqs \in Seq(Seq(X)), NEW F,
           \A i \in 1 .. Len(seqs) : \A j \in 1 .. Len(seqs[i]) : seqs[i][j] \notin F
    PROVE  Tally(FlattenSeq(seqs), F) = 0
  <1> DEFINE all == FlattenSeq(seqs)
             n == Len(seqs)
  <1>1. PICK start : Starts(start, seqs)
    BY HasStarts
  <1>2. all \in Seq(X) /\ Holds(all, start, seqs)
    BY <1>1, Flattened
  <1>3. \A p \in 1 .. start[n] : \E i \in 1 .. n : p \in start[i - 1] + 1 .. start[i - 1] + Len(seqs[i])
    BY <1>1, Cut
  <1>4. \A i \in 1 .. n : start[i - 1] \in Nat /\ \A j \in 1 .. Len(seqs[i]) : all[start[i - 1] + j] = seqs[i][j]
    <2>1. \A i \in 1 .. n : i - 1 \in 0 .. n
      OBVIOUS
    <2> HIDE DEF all
    <2> QED BY <1>1, <1>2, <2>1 DEF Holds, Starts
  <1>5. ASSUME NEW p \in 1 .. Len(all) PROVE all[p] \notin F
    <2>1. p \in 1 .. start[n]
      <3> HIDE DEF all
      <3> QED BY <1>2 DEF Holds
    <2>2. PICK i \in 1 .. n : p \in start[i - 1] + 1 .. start[i - 1] + Len(seqs[i])
      BY <1>3, <2>1
    <2> DEFINE s == start[i - 1]
    <2>3. s \in Nat /\ Len(seqs[i]) \in Nat /\ \A j \in 1 .. Len(seqs[i]) : all[s + j] = seqs[i][j]
      BY <1>4
    <2>4. p - s \in 1 .. Len(seqs[i]) /\ s + (p - s) = p
      <3> DEFINE m == Len(seqs[i])
      <3>1. p \in s + 1 .. s + m /\ s \in Nat /\ m \in Nat
        BY <2>2, <2>3
      <3> HIDE DEF s, m
      <3>2. p - s \in 1 .. m /\ s + (p - s) = p
        <4>1. \A a, b \in Nat : \A q \in a + 1 .. a + b : q - a \in 1 .. b /\ a + (q - a) = q
          OBVIOUS
        <4> QED BY <3>1, <4>1, Zenon
      <3> QED BY <3>2 DEF m
    <2>5. all[p] = seqs[i][p - s] /\ seqs[i][p - s] \notin F
      <3> HIDE DEF all, s
      <3> QED BY <2>3, <2>4
    <2> QED BY <2>5
  <1> HIDE DEF all
  <1> QED BY <1>2, <1>5, TallyZero DEF all
=============================================================================
