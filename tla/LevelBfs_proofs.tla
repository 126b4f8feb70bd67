--------------------------- MODULE LevelBfs_proofs ---------------------------
(* Why the discipline of LevelBfs makes the labels sound, and why the end of *)
(* a level has to be decided exactly for them to be the distances.           *)
EXTENDS LevelBfs, ListTheorems

\* Labels stay within one of the level, and each has its justification.
SoundInv ==
    /\ level \in Nat
    /\ done \in BOOLEAN
    /\ depth \in [Vertices -> Int]
    /\ \A v \in Vertices : depth[v] \in -1 .. level + 1
    /\ Sound

\* A vertex gets its label once: the justifications of the others stay.
LEMMA VisitSound == ASSUME SoundInv, NEW v \in Vertices, Visit(v) PROVE SoundInv'
  <1>1. /\ level \in Nat /\ depth \in [Vertices -> Int] /\ depth[v] = -1
        /\ depth' = [depth EXCEPT ![v] = level + 1] /\ level' = level /\ done' = done
        /\ Root \in Vertices
    BY BfsAssumption DEF BfsAssumption, SoundInv, Visit, Unvisited
  <1>2. depth[Root] = 0 /\ Root # v /\ depth'[Root] = 0
    BY <1>1 DEF SoundInv, Sound, SoundLabels
  <1>3. PICK u \in Vertices : <<u, v>> \in Edge /\ depth[u] \in 0 .. level
    BY DEF Visit
  <1>4. \A w \in Vertices : depth'[w] = IF w = v THEN level + 1 ELSE depth[w]
    BY <1>1
  <1>5. ASSUME NEW w \in Vertices \ {Root}, depth'[w] # Unvisited
        PROVE  depth'[w] > 0 /\ HasParent(depth', w)
    <2>1. CASE w = v
      <3>1. u # v /\ depth'[u] = depth[u] /\ depth'[w] = level + 1
        BY <1>1, <1>3, <1>4, <2>1
      <3>2. <<u, w>> \in Edge /\ depth'[u] \in 0 .. depth'[w] - 1 /\ depth'[w] > 0
        BY <1>1, <1>3, <2>1, <3>1
      <3> QED BY <3>2 DEF HasParent
    <2>2. CASE w # v
      <3>1. depth'[w] = depth[w] /\ depth[w] > 0 /\ HasParent(depth, w)
        BY <1>4, <1>5, <2>2 DEF SoundInv, Sound, SoundLabels
      <3>2. PICK x \in Vertices : <<x, w>> \in Edge /\ depth[x] \in 0 .. depth[w] - 1
        BY <3>1 DEF HasParent
      <3>3. depth'[x] = depth[x]
        BY <1>1, <1>4, <3>2
      <3> QED BY <3>1, <3>2, <3>3 DEF HasParent
    <2> QED BY <2>1, <2>2
  <1>6. Sound'
    BY <1>2, <1>5 DEF Sound, SoundLabels
  <1>7. depth' \in [Vertices -> Int] /\ \A w \in Vertices : depth'[w] \in -1 .. level + 1
    BY <1>1, <1>4 DEF SoundInv
  <1> QED
    BY <1>1, <1>6, <1>7 DEF SoundInv

\* A label comes from an edge out of an earlier label, and never changes.
LEMMA SoundStep == ASSUME SoundInv, [Next]_bfsVars PROVE SoundInv'
  <1>1. CASE \E v \in Vertices : Visit(v)
    BY <1>1, VisitSound
  <1>2. CASE Advance
    BY <1>2 DEF Advance, SoundInv, Sound, SoundLabels, HasParent
  <1>3. CASE Finish
    BY <1>3 DEF Finish, SoundInv, Sound, SoundLabels, HasParent
  <1>4. CASE UNCHANGED bfsVars
    BY <1>4 DEF bfsVars, SoundInv, Sound, SoundLabels, HasParent
  <1> QED
    BY <1>1, <1>2, <1>3, <1>4 DEF Next

\* At first only the root has a label.
LEMMA SoundInit == ASSUME Init PROVE SoundInv
  <1>1. Root \in Vertices
    BY BfsAssumption DEF BfsAssumption
  <1>2. /\ level = 0 /\ depth \in [Vertices -> Int] /\ depth[Root] = 0
        /\ \A v \in Vertices \ {Root} : depth[v] = -1
    BY <1>1 DEF Init, Unvisited
  <1>3. done \in BOOLEAN
    BY DEF Init
  <1>4. Sound
    BY <1>2 DEF Sound, SoundLabels, Unvisited
  <1>5. ASSUME NEW v \in Vertices PROVE depth[v] \in -1 .. level + 1
    <2>1. depth[v] = 0 \/ depth[v] = -1
      BY <1>2
    <2> QED BY <1>2, <2>1
  <1> QED
    BY <1>2, <1>3, <1>4, <1>5 DEF SoundInv

\* Whenever a search is stopped, what it labelled is reachable and no label
\* is less than the distance.
THEOREM Soundness == Spec => []Sound
  <1>1. SoundInv => Sound
    BY DEF SoundInv
  <1> QED
    BY <1>1, SoundInit, SoundStep, PTL DEF Spec

-----------------------------------------------------------------------------
\* The exact search keeps every level closed that it has left.
Tight == \A v \in Vertices \ {Root} : depth[v] # Unvisited => HasTightParent(depth, v)
Closed == \A e \in Edge : depth[e[1]] \in 0 .. level - 1 => depth[e[2]] \in 0 .. depth[e[1]] + 1
ExactInv == SoundInv /\ Tight /\ Closed /\ (done => NoFrontier)

\* The exact search keeps the discipline.
LEMMA ExactNextNext == ExactNext => Next
  BY DEF ExactNext, ExactVisit, Next

\* The exact specification implements the weak one.
THEOREM Discipline == ExactSpec => Spec
  <1>1. [ExactNext]_bfsVars => [Next]_bfsVars
    BY ExactNextNext
  <1> QED
    BY <1>1, PTL DEF ExactSpec, Spec

\* An edge is a pair of vertices.
LEMMA EdgeEnds == ASSUME NEW e \in Edge PROVE e[1] \in Vertices /\ e[2] \in Vertices /\ e = <<e[1], e[2]>>
  BY BfsAssumption DEF BfsAssumption

\* A visit of the current level adds a tight label and breaks no edge.
LEMMA ExactVisitStep == ASSUME ExactInv, NEW v \in Vertices, ExactVisit(v) PROVE ExactInv'
  <1>1. /\ level \in Nat /\ depth \in [Vertices -> Int] /\ depth[v] = -1
        /\ depth' = [depth EXCEPT ![v] = level + 1] /\ level' = level
        /\ done = FALSE /\ done' = done
    BY DEF ExactInv, SoundInv, ExactVisit, Visit, Unvisited
  <1>2. SoundInv'
    BY VisitSound DEF ExactInv, ExactVisit
  <1>3. PICK u \in Vertices : <<u, v>> \in Edge /\ depth[u] = level
    BY DEF ExactVisit
  <1>4. \A w \in Vertices : depth'[w] = IF w = v THEN level + 1 ELSE depth[w]
    BY <1>1
  <1>5. Tight'
    <2> SUFFICES ASSUME NEW w \in Vertices \ {Root}, depth'[w] # Unvisited
                 PROVE  HasTightParent(depth', w)
      BY DEF Tight
    <2>1. CASE w = v
      <3>1. u # v /\ depth'[u] = level /\ depth'[w] = level + 1
        BY <1>1, <1>3, <1>4, <2>1
      <3>2. <<u, w>> \in Edge /\ depth'[u] = depth'[w] - 1
        BY <1>1, <1>3, <2>1, <3>1
      <3> QED BY <3>2 DEF HasTightParent
    <2>2. CASE w # v
      <3>1. depth'[w] = depth[w] /\ HasTightParent(depth, w)
        BY <1>4, <2>2 DEF ExactInv, Tight
      <3>2. PICK x \in Vertices : <<x, w>> \in Edge /\ depth[x] = depth[w] - 1
        BY <3>1 DEF HasTightParent
      <3>3. depth[w] > 0
        BY <1>4, <2>2 DEF ExactInv, SoundInv, Sound, SoundLabels
      <3>4. depth'[x] = depth[x]
        BY <1>1, <1>4, <3>2, <3>3
      <3> QED BY <3>1, <3>2, <3>4 DEF HasTightParent
    <2> QED BY <2>1, <2>2
  <1>6. Closed'
    <2> SUFFICES ASSUME NEW e \in Edge, depth'[e[1]] \in 0 .. level - 1
                 PROVE  depth'[e[2]] \in 0 .. depth'[e[1]] + 1
      BY <1>1 DEF Closed
    <2>1. e[1] # v /\ depth'[e[1]] = depth[e[1]]
      BY <1>1, <1>4, EdgeEnds
    <2>2. depth[e[2]] \in 0 .. depth[e[1]] + 1
      BY <2>1 DEF ExactInv, Closed
    <2>3. depth'[e[2]] = depth[e[2]]
      BY <1>1, <1>4, <2>2, EdgeEnds
    <2> QED BY <2>1, <2>2, <2>3
  <1> QED
    BY <1>1, <1>2, <1>5, <1>6 DEF ExactInv

\* A level that ends was followed along every edge, so the next one may begin.
LEMMA ExactStep == ASSUME ExactInv, [ExactNext]_bfsVars PROVE ExactInv'
  <1>1. SoundInv'
    BY ExactNextNext, SoundStep DEF ExactInv
  <1>2. CASE \E v \in Vertices : ExactVisit(v)
    BY <1>2, ExactVisitStep
  <1>3. CASE LevelComplete /\ Advance
    <2>1. /\ level \in Nat /\ level' = level + 1 /\ depth' = depth /\ done' = FALSE
          /\ \A v \in Vertices : depth[v] \in -1 .. level + 1
      BY <1>3 DEF ExactInv, SoundInv, Advance
    <2>2. ASSUME NEW e \in Edge, depth[e[1]] \in 0 .. level
          PROVE  depth[e[2]] \in 0 .. depth[e[1]] + 1
      <3>1. CASE depth[e[1]] = level
        <4>1. depth[e[2]] # -1 /\ e[2] \in Vertices
          BY <1>3, <3>1, EdgeEnds DEF LevelComplete, Unvisited
        <4> QED BY <2>1, <3>1, <4>1
      <3>2. CASE depth[e[1]] # level
        BY <2>1, <2>2, <3>2 DEF ExactInv, Closed
      <3> QED BY <3>1, <3>2
    <2>3. Closed'
      BY <2>1, <2>2 DEF Closed
    <2>4. Tight'
      BY <2>1 DEF ExactInv, Tight, HasTightParent
    <2> QED BY <1>1, <2>1, <2>3, <2>4 DEF ExactInv
  <1>4. CASE NoFrontier /\ Finish
    BY <1>1, <1>4 DEF ExactInv, Finish, NoFrontier, Tight, HasTightParent, Closed
  <1>5. CASE UNCHANGED bfsVars
    BY <1>1, <1>5 DEF ExactInv, bfsVars, NoFrontier, Tight, HasTightParent, Closed
  <1> QED
    BY <1>2, <1>3, <1>4, <1>5 DEF ExactNext

\* At first no level was left.
LEMMA ExactInit == ASSUME Init PROVE ExactInv
  <1>1. level = 0 /\ done = FALSE /\ \A v \in Vertices \ {Root} : depth[v] = Unvisited
    BY DEF Init
  <1>2. Tight
    BY <1>1 DEF Tight
  <1>3. Closed
    BY <1>1 DEF Closed
  <1> QED
    BY <1>1, <1>2, <1>3, SoundInit DEF ExactInv

\* Where no vertex of the level is left, all labels are smaller.
LEMMA Passed == ASSUME ExactInv, NoFrontier, NEW v \in Vertices PROVE depth[v] < level
  <1>1. level \in Nat /\ Root \in Vertices /\ depth[Root] = 0 /\ depth[v] \in -1 .. level + 1
    BY BfsAssumption DEF BfsAssumption, ExactInv, SoundInv, Sound, SoundLabels
  <1>2. depth[v] # level
    BY DEF NoFrontier
  <1>3. depth[v] # level + 1
    <2>1. CASE v = Root
      BY <1>1, <2>1
    <2>2. CASE v # Root
      <3>1. SUFFICES ASSUME depth[v] = level + 1 PROVE FALSE
        OBVIOUS
      <3>2. depth[v] # Unvisited
        BY <1>1, <3>1 DEF Unvisited
      <3>3. HasTightParent(depth, v)
        BY <2>2, <3>2 DEF ExactInv, Tight
      <3>4. PICK u \in Vertices : depth[u] = depth[v] - 1
        BY <3>3 DEF HasTightParent
      <3> QED BY <1>1, <3>1, <3>4 DEF NoFrontier
    <2> QED BY <2>1, <2>2
  <1> QED
    BY <1>1, <1>2, <1>3

\* Then they are the distances.
LEMMA ExactEnd == ASSUME ExactInv, NoFrontier PROVE ExactLabels(depth)
  <1>1. level \in Nat /\ \A v \in Vertices : depth[v] \in -1 .. level + 1
    BY DEF ExactInv, SoundInv
  <1>2. SoundLabels(depth)
    BY DEF ExactInv, SoundInv, Sound
  <1>3. ASSUME NEW e \in Edge, depth[e[1]] # Unvisited
        PROVE  depth[e[2]] \in 0 .. depth[e[1]] + 1
    <2>1. depth[e[1]] \in 0 .. level - 1
      BY <1>1, <1>3, Passed, EdgeEnds DEF Unvisited
    <2> QED BY <2>1 DEF ExactInv, Closed
  <1> QED
    BY <1>2, <1>3 DEF ExactLabels, ExactInv, Tight

\* A search that ends every level only when its edges were all followed, and
\* stops at the first empty frontier, leaves the distances behind.
THEOREM Exactness == ExactSpec => []ExactWhenDone
  <1>1. ExactInv => ExactWhenDone
    BY ExactEnd DEF ExactInv, ExactWhenDone
  <1> QED
    BY <1>1, ExactInit, ExactStep, PTL DEF ExactSpec

-----------------------------------------------------------------------------
(* The distances are the only such labels *)

\* No labels that follow every edge are greater than tight ones.
LEMMA ExactLeast ==
    ASSUME NEW d \in [Vertices -> Int], NEW c, ExactLabels(d), ExactLabels(c),
           NEW w \in Vertices, d[w] # Unvisited
    PROVE  c[w] \in 0 .. d[w]
  <1> DEFINE S == {n \in Nat : \A v \in Vertices : d[v] = n => c[v] \in 0 .. n}
  <1>1. 0 \in S
    <2> SUFFICES ASSUME NEW v \in Vertices, d[v] = 0 PROVE c[v] \in 0 .. 0
      OBVIOUS
    <2>1. v = Root
      BY DEF ExactLabels, SoundLabels, Unvisited
    <2> QED BY <2>1 DEF ExactLabels, SoundLabels
  <1>2. ASSUME NEW n \in Nat, n \in S PROVE n + 1 \in S
    <2> SUFFICES ASSUME NEW v \in Vertices, d[v] = n + 1 PROVE c[v] \in 0 .. n + 1
      OBVIOUS
    <2>1. v # Root /\ d[v] # Unvisited
      BY DEF ExactLabels, SoundLabels, Unvisited
    <2>2. PICK u \in Vertices : <<u, v>> \in Edge /\ d[u] = d[v] - 1
      BY <2>1 DEF ExactLabels, HasTightParent
    <2>3. c[u] \in 0 .. n
      BY <1>2, <2>2
    <2>4. c[v] \in 0 .. c[u] + 1
      <3>1. c[u] # Unvisited
        BY <2>3 DEF Unvisited
      <3> QED BY <2>2, <3>1 DEF ExactLabels
    <2> QED BY <2>3, <2>4
  <1>3. \A n \in Nat : n \in S
    <2> HIDE DEF S
    <2> QED BY <1>1, <1>2, SetInduction
  <1>4. d[w] \in Nat
    <2>1. CASE w = Root
      BY <2>1 DEF ExactLabels, SoundLabels
    <2>2. CASE w # Root
      BY <2>2 DEF ExactLabels, SoundLabels
    <2> QED BY <2>1, <2>2
  <1> QED
    BY <1>3, <1>4

\* Any two depth arrays with these properties are equal: two searches that keep
\* the exact discipline, of whatever kind, end with the same depths.
THEOREM DistancesAgree ==
    ASSUME NEW d \in [Vertices -> Int], NEW c \in [Vertices -> Int],
           ExactLabels(d), ExactLabels(c)
    PROVE  d = c
  <1> SUFFICES ASSUME NEW v \in Vertices PROVE d[v] = c[v]
    OBVIOUS
  <1>1. d[v] # -1 => c[v] \in 0 .. d[v]
    BY ExactLeast DEF Unvisited
  <1>2. c[v] # -1 => d[v] \in 0 .. c[v]
    BY ExactLeast DEF Unvisited
  <1> QED
    BY <1>1, <1>2
=============================================================================
