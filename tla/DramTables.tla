----------------------------- MODULE DramTables -----------------------------
(* The tables in which every DRAM standard describes itself, DRAM.h:98-119: *)
(* per level and command, the prerequisite, the test for a row hit, the     *)
(* change of state, and the timing constraints to later commands.           *)
EXTENDS Integers, Sequences, FiniteSets
LOCAL INSTANCE FiniteSetsExt

Reads == {"RD", "RDA"}
Writes == {"WR", "WRA"}
Cas == Reads \cup Writes

(* TimingEntry: a command of T may follow one of F, v cycles after it ...    *)
Entries(F, T, n, v, sib) ==
  {[from |-> f, to |-> t, dist |-> n, val |-> v, sibling |-> sib] : f \in F, t \in T}
After(F, T, v) == Entries(F, T, 1, v, FALSE)
(* ... after the n-th last of them, or in a sibling of the node addressed.   *)
Window(F, T, n, v) == Entries(F, T, n, v, FALSE)
Sibling(F, T, v) == Entries(F, T, 1, v, TRUE)

(* The constraints that most standards share, with their own values.         *)
BurstTiming(R, W, bl) == After(R, R, bl) \cup After(W, W, bl)
CasTiming(R, W, ccd, readToWrite, writeToRead) ==
  BurstTiming(R, W, ccd) \cup After(R, W, readToWrite) \cup After(W, R, writeToRead)
AcrossRanks(R, W, same, readToWrite, writeToRead) ==
  Sibling(R, R \cup W, same) \cup Sibling(R, W, readToWrite) \cup Sibling(W, R, writeToRead)

(* Power down and self refresh, by the names a standard gives the commands:  *)
(* all precharges, opening commands, refreshes, entries and exits.           *)
PowerTiming(n, readEnd, writeEnd, nXP, nPD, nXS, nCKESR) ==
  LET others == n.acts \cup n.refs IN
  After(n.cas \ Writes, {n.pd}, readEnd) \cup After({"WR"}, {n.pd}, writeEnd)
  \cup After({"WRA"} \cap n.cas, {n.pd}, writeEnd + 1)
  \cup After(others, {n.pd}, 1)
  \cup After({"PDX"}, n.cas \cup others \cup n.pres \cup {n.pd, n.sr}, nXP)
  \cup After({n.pd}, {"PDX"}, nPD)
  \cup After({n.srx}, others \cup {n.pd, n.sr}, nXS)
  \cup After({n.sr}, {n.srx}, nCKESR)

(* Prerequisite by the state of the node.                                    *)
ByState(f) == [kind |-> "state", to |-> f]
Awake(srx) == ByState([PowerUp |-> "MAX", ActPowerDown |-> "PDX", PrePowerDown |-> "PDX", SelfRefresh |-> srx])
PowerDown(pd, srx) == ByState([PowerUp |-> pd, ActPowerDown |-> pd, PrePowerDown |-> pd, SelfRefresh |-> srx])
SelfRefresh(sr) == ByState([PowerUp |-> sr, ActPowerDown |-> "PDX", PrePowerDown |-> "PDX", SelfRefresh |-> sr])
(* Prerequisite by the row open in the node; on a hit, the command itself,    *)
(* what the child says, the command once no sibling is open (ThenAlone), or   *)
(* once the node is the one selected (ThenSelected).                          *)
OpenRow(closed, miss) == [kind |-> "row", closed |-> closed, miss |-> miss, hit |-> "itself"]
ThenChild(rule) == [rule EXCEPT !.hit = "child"]
ThenAlone(rule) == [rule EXCEPT !.hit = "alone"]
ThenSelected(rule) == [rule EXCEPT !.hit = "selected"]
(* One rule for the first row of every segment of the bank, one for the rest. *)
BySegment(ratio, first, rest) == [kind |-> "segment", ratio |-> ratio, first |-> first, rest |-> rest]
(* The command itself, once every node k levels below is closed.             *)
OnceClosed(k, closer) == [kind |-> "closed", below |-> k, closer |-> closer]

(* Changes of state.                                                         *)
Become(s) == [kind |-> "become", state |-> s]
Open == [kind |-> "open"]
Close == [kind |-> "close"]
(* (Mutant: the subarray stays open.)                                          *)
CloseWithoutChild == Close
CloseWithChild == [kind |-> "closeWithChild"]
OpenSelected == [kind |-> "openSelected"]
Select == [kind |-> "select"]
CloseBelow(K) == [kind |-> "closeBelow", below |-> K]
EnterPowerDown(k) == [kind |-> "powerDown", below |-> k]
Nothing == [kind |-> "nothing"]

NoRules == [c \in {} |-> Nothing]
SameRule(C, r) == [c \in C |-> r]

-----------------------------------------------------------------------------
(* DRAM::update_timing keeps the maximum of all futures, so that of the       *)
(* entries between the same two commands only the longest counts.             *)
Longest(E) == [c \in {e.to : e \in E} |-> Max({e.val : e \in {x \in E : x.to = c}})]
Grouped(E, C, sib) == [c \in C |-> Longest({e \in E : e.from = c /\ e.dist = 1 /\ e.sibling = sib})]
Compiled(T, C) == [d \in DOMAIN T |-> [own |-> Grouped(T[d], C, FALSE), sibling |-> Grouped(T[d], C, TRUE),
                                       window |-> {e \in T[d] : e.dist > 1}]]
=============================================================================
