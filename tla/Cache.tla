-------------------------------- MODULE Cache --------------------------------
(* The cache hierarchy of Cache.h and Cache.cpp as functions of its state s:  *)
(* the lines and miss registers of each cache, the requests waiting for the   *)
(* memory, and the hits waiting for their latency. A cache is the pair of its *)
(* level and its core; the L3 is shared. An address is that of a block, the   *)
(* lines of a cache are in LRU order, and due counts the cycles left.         *)
EXTENDS Integers, Sequences, FiniteSets
LOCAL INSTANCE SequencesExt
LOCAL INSTANCE FiniteSetsExt

CONSTANTS Core, mshr_entry_num, latency, latency_each
Level == {"L1", "L2", "L3"}
Shared == 0
ASSUME CoreAssumption == Core = 1 .. Cardinality(Core) /\ Core # {}
ASSUME SizeAssumption ==
  \A t \in {mshr_entry_num, latency, latency_each} : t \in [Level -> Nat \ {0}]

Caches(option) ==
  CASE option = "all" -> ({"L1", "L2"} \X Core) \cup {<<"L3", Shared>>}
    [] option = "L1L2" -> {"L1", "L2"} \X Core
    [] option = "L3" -> {<<"L3", Shared>>}
    [] option = "no" -> {}
(* block_num, assoc: sets of a cache, and lines of a set, per level. failed: an *)
(* assertion did not hold. refused: a request was turned away below the first  *)
(* level (both only recorded).                                                 *)
Empty(option, block_num, assoc) ==
  [block_num |-> block_num, assoc |-> assoc,
   lines |-> [c \in Caches(option) |-> << >>], mshr_entries |-> [c \in Caches(option) |-> {}],
   wait_list |-> << >>, hit_list |-> << >>, failed |-> FALSE, refused |-> FALSE]

(* The caches on the way of a core to the memory, and those above a cache.     *)
Path(s, core) == SelectSeq(<< <<"L1", core>>, <<"L2", core>>, <<"L3", Shared>> >>, LAMBDA c : c \in DOMAIN s.lines)
higher_cache(s, c) ==
  {h \in DOMAIN s.lines : \/ c[1] = "L3" /\ h[1] = "L2"
                          \/ c[1] = "L2" /\ h = <<"L1", c[2]>>}
lower_cache(s, c) == {l \in DOMAIN s.lines : c \in higher_cache(s, l)}
is_last_level(s, c) == lower_cache(s, c) = {}

-----------------------------------------------------------------------------
get_index(s, c, addr) == addr % s.block_num[c[1]]
get_lines(s, c, addr) == SelectSeq(s.lines[c], LAMBDA l : get_index(s, c, l.addr) = get_index(s, c, addr))
Held(s, c, addr) == {l \in Range(s.lines[c]) : l.addr = addr}
Without(lines, addr) == SelectSeq(lines, LAMBDA l : l.addr # addr)
(* The line is erased, if it is there, and pushed back as the most recent.     *)
Renewed(s, c, addr, lock, dirty) ==
  [s EXCEPT !.lines[c] = Append(Without(@, addr), [addr |-> addr, lock |-> lock, dirty |-> dirty])]
AnyDirty(L) == \E l \in L : l.dirty
is_hit(s, c, addr) == \E l \in Held(s, c, addr) : ~l.lock
(* The line, and where it is held above, is not waiting for its value.         *)
(* (Mutant: the caches above are not asked.)                                   *)
check_unlock_here(s, c, addr) == \A l \in Held(s, c, addr) : ~l.lock
check_unlock(s, c, addr) ==
  LET free[d \in DOMAIN s.lines] ==
        \A l \in Held(s, d, addr) : ~l.lock /\ \A h \in higher_cache(s, d) : free[h]
  IN free[c]

(* The caches a line is erased from, from c upwards, whether it is newer there, *)
(* and the delay.                                                              *)
invalidate(s, c, addr) ==
  LET inv[d \in DOMAIN s.lines] ==
        IF get_lines(s, d, addr) = << >> THEN [delay |-> 0, dirty |-> FALSE, erased |-> {}]
        ELSE IF Held(s, d, addr) = {} THEN [delay |-> latency_each[d[1]], dirty |-> FALSE, erased |-> {}]
        ELSE LET above == {inv[h] : h \in higher_cache(s, d)} IN
             [delay |-> latency_each[d[1]] + Max({0} \cup {IF r.dirty THEN 2 * r.delay ELSE r.delay : r \in above}),
              dirty |-> AnyDirty(Held(s, d, addr) \cup above),
              erased |-> {d} \cup UNION {r.erased : r \in above}]
  IN inv[c]
(* (Mutant: the line below keeps its own dirty bit.)                           *)
evictline_clean(s, c, addr, dirty) == Renewed(s, c, addr, FALSE, AnyDirty(Held(s, c, addr)))
evictline(s, c, addr, dirty) ==
  IF Held(s, c, addr) = {} THEN [s EXCEPT !.failed = TRUE]
  ELSE Renewed(s, c, addr, FALSE, dirty \/ AnyDirty(Held(s, c, addr)))
erase(s, c, addr, above) ==
  [s EXCEPT !.lines = [d \in DOMAIN @ |-> IF d \in {c} \cup above THEN Without(@[d], addr) ELSE @[d]],
            !.failed = @ \/ \E d \in above : \E l \in Held(s, d, addr) : l.lock]
evict(s, c, addr) ==
  LET results == {invalidate(s, h, addr) : h \in higher_cache(s, c)}
      dirty == AnyDirty(Held(s, c, addr) \cup results)
      invalidate_time == Max({0} \cup {r.delay + IF r.dirty THEN latency_each[c[1]] ELSE 0 : r \in results})
      write_req == [due |-> invalidate_time + latency[c[1]], addr |-> addr, type |-> "WRITE"]
      erased == erase(s, c, addr, UNION {r.erased : r \in results})
  IN IF ~is_last_level(s, c) THEN evictline(erased, CHOOSE l \in lower_cache(s, c) : TRUE, addr, dirty)
     ELSE IF dirty THEN [erased EXCEPT !.wait_list = Append(@, write_req)]
     ELSE erased

(* (Mutant: one line too many.)                                               *)
need_eviction_late(s, c, addr) == Len(get_lines(s, c, addr)) > s.assoc[c[1]]
need_eviction(s, c, addr) == Len(get_lines(s, c, addr)) >= s.assoc[c[1]]
Victims(s, c, addr) == SelectSeq(get_lines(s, c, addr), LAMBDA l : check_unlock(s, c, l.addr))
allocate_line(s, c, addr, dirty) ==
  Renewed(IF need_eviction(s, c, addr) THEN evict(s, c, Head(Victims(s, c, addr)).addr) ELSE s,
          c, addr, TRUE, dirty)
(* No miss register, or no line to replace in a set that is full.              *)
Refuses(s, c, addr) ==
  \/ Cardinality(s.mshr_entries[c]) = mshr_entry_num[c[1]]
  \/ need_eviction(s, c, addr) /\ Victims(s, c, addr) = << >>

-----------------------------------------------------------------------------
(* Cache::send at one cache; a miss goes on to the next as a read. The answer   *)
(* of the cache below is ignored: only the first level can refuse the core.     *)
Hit(s, c, addr, write) ==
  [Renewed(s, c, addr, FALSE, write \/ AnyDirty(Held(s, c, addr)))
     EXCEPT !.hit_list = Append(@, [due |-> latency[c[1]], addr |-> addr])]
MarkDirty(s, c, addr, write) ==
  [s EXCEPT !.lines[c] = [i \in DOMAIN @ |-> IF @[i].addr = addr THEN [@[i] EXCEPT !.dirty = @ \/ write] ELSE @[i]]]
Miss(s, c, addr, write) ==
  LET missed == [allocate_line(s, c, addr, write) EXCEPT !.mshr_entries[c] = @ \cup {addr},
                                                         !.failed = @ \/ Held(s, c, addr) # {}] IN
  IF is_last_level(s, c)
  THEN [missed EXCEPT !.wait_list = Append(@, [due |-> latency[c[1]], addr |-> addr, type |-> "READ"])]
  ELSE missed
Visit(at, c, addr) ==
  LET stop == [at EXCEPT !.on = FALSE] IN
  CASE is_hit(at.s, c, addr) -> [stop EXCEPT !.s = Hit(@, c, addr, at.write)]
    [] ~is_hit(at.s, c, addr) /\ addr \in at.s.mshr_entries[c] -> [stop EXCEPT !.s = MarkDirty(@, c, addr, at.write)]
    [] ~is_hit(at.s, c, addr) /\ addr \notin at.s.mshr_entries[c] /\ Refuses(at.s, c, addr) ->
         [stop EXCEPT !.accepted = ~at.first, !.s.refused = @ \/ ~at.first]
    [] OTHER -> [at EXCEPT !.s = Miss(@, c, addr, at.write), !.write = FALSE, !.first = FALSE]
send(s, core, addr, write) ==
  FoldLeft(LAMBDA at, c : IF at.on THEN Visit(at, c, addr) ELSE at,
           [s |-> s, write |-> write, on |-> TRUE, first |-> TRUE, accepted |-> TRUE], Path(s, core))

(* Cache::callback in every cache, for the blocks of A.                        *)
(* (Mutant: the miss register stays in use.)                                   *)
callback_keeping(s, A) ==
  [s EXCEPT !.lines = [c \in DOMAIN @ |-> [i \in DOMAIN @[c] |->
     IF @[c][i].addr \in A \cap s.mshr_entries[c] THEN [@[c][i] EXCEPT !.lock = FALSE] ELSE @[c][i]]]]
callback(s, A) ==
  [s EXCEPT !.lines = [c \in DOMAIN @ |-> [i \in DOMAIN @[c] |->
              IF @[c][i].addr \in A \cap s.mshr_entries[c] THEN [@[c][i] EXCEPT !.lock = FALSE] ELSE @[c][i]]],
            !.mshr_entries = [c \in DOMAIN @ |-> @[c] \ A]]

(* CacheSystem::tick: of the requests that wait, those due before the first that *)
(* is not go to the memory, one that it refuses staying behind; then the hits.   *)
Aged(q) == [i \in DOMAIN q |-> [q[i] EXCEPT !.due = IF @ = 0 THEN 0 ELSE @ - 1]]
(* (Mutant: a request due is sent past one that is not.)                        *)
AllDue(q) == {i \in DOMAIN q : q[i].due = 0}
Due(q) == {i \in DOMAIN q : \A k \in 1 .. i : q[k].due = 0}
HitsDue(q) == {h.addr : h \in {h \in Range(q) : h.due = 0}}
=============================================================================
