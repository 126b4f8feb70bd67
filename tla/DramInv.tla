------------------------------- MODULE DramInv ------------------------------
(* What a DRAM channel promises about the commands issued to it. The values   *)
(* come from the fields of SpeedEntry by name, the properties only look at    *)
(* the log: no constraint of the tables is taken for granted.                 *)
EXTENDS Dram

Leaf(T) == {n \in Node : Len(n) = Len(T.level) - 1}
Covers(n, m) == Len(n) <= Len(m) /\ n = SubSeq(m, 1, Len(n))
Deepest(addr, limit) == Path(addr, CHOOSE d \in Depths(addr) : d <= limit /\ \A k \in Depths(addr) : k <= limit => k <= d)
(* The node a command is addressed to, and the node at which it ends.          *)
Addressed(e) == Deepest(e.addr, Len(e.addr))
Ends(T, e) == Deepest(e.addr, T.scope[e.cmd])
IsOpening(T, e) == e.cmd \in T.opening
IsAccess(T, e) == e.cmd \in T.accessing
IsClosing(T, e) == e.cmd \in T.closing
IsWrite(e) == e.cmd \in {"WR", "WRA"}
Row(e) == Last(e.addr)

(* The last command before position i that opened or closed buffer b, or 0.    *)
LastOf(T, b, i, P(_, _)) ==
  LET found == {k \in 1 .. i - 1 : P(T, log[k]) /\ Covers(Ends(T, log[k]), b)} IN
  IF found = {} THEN 0 ELSE CHOOSE k \in found : \A m \in found : m <= k
Switches(T, e) == IsOpening(T, e) \/ IsClosing(T, e)
WritesRow(T, e) == IsWrite(e)
ReadsRow(T, e) == IsAccess(T, e) /\ ~IsWrite(e)
OpenAt(T, b, i) == {Row(log[k]) : k \in {k \in {LastOf(T, b, i, Switches)} : k # 0 /\ IsOpening(T, log[k])}}

-----------------------------------------------------------------------------
NodeState == {"MAX", "PowerUp", "ActPowerDown", "PrePowerDown", "SelfRefresh", "Closed", "Opened", "Selected"}
(* Every node is in a state of its standard, the times of next do not precede   *)
(* the log, and the log is in order: at most one command in a cycle.            *)
TypeOK ==
  /\ std \in DOMAIN Table /\ clk \in Nat
  /\ DOMAIN next = Node /\ DOMAIN row_state = Node /\ DOMAIN prev = Node
  /\ \A T \in Standard, n \in Node :
       state[n] \in NodeState /\ next[n] \in [T.command -> Int] /\ IsFiniteSet(row_state[n])
  /\ \A i \in 1 .. Len(log) - 1 : log[i].at < log[i + 1].at

(* The assertion of issue_cmd: a command on behalf of a request is ready where  *)
(* it is sent in the cycle it is issued, also when the request for which it was *)
(* checked became a migration in between (TLDRAM).                              *)
IssuedWhenReady ==
  \A T \in Standard : \A r \in queue : Served(T, r) =>
    \A cmd \in {get_first_cmd(T, extended(T, r))} :
      get_next(T, cmd, get_addr_vec(cmd, r.addr)) <= IF clk >= ready_at(T, r) THEN clk + 1 ELSE ready_at(T, r)

(* The data of two accesses are never on the bus of the channel in one cycle.   *)
DataBusExclusive ==
  \A T \in Standard : \A i, j \in {i \in 1 .. Len(log) : IsAccess(T, log[i])} :
    LET start(e) == e.at + IF IsWrite(e) THEN T.promise.writeAt ELSE T.promise.readAt IN
    i < j => \/ start(log[i]) + T.promise.bl <= start(log[j])
             \/ start(log[j]) + T.promise.bl <= start(log[i])

(* A row is accessed only while it is the one open in its buffer, whatever the  *)
(* other requests closed or opened since the request was queued; with MASA, in  *)
(* the subarray that was opened or selected last in its bank.                   *)
AccessOpenRow ==
  \A T \in Standard : \A i \in 1 .. Len(log) : IsAccess(T, log[i]) =>
    /\ OpenAt(T, Addressed(log[i]), i) = {Row(log[i])}
    /\ std = "MASA" =>
         LET bank == Front(Front(log[i].addr))
             chosen == {k \in 1 .. i - 1 : log[k].cmd \in {"ACT", "SASEL"} /\ Covers(bank, Addressed(log[k]))} IN
         \E k \in chosen : Addressed(log[k]) = Addressed(log[i]) /\ \A m \in chosen : m <= k
(* No buffer has more than one row open, the row table the row policy chooses    *)
(* from lists these rows and no others, and the row hits on which the scheduler   *)
(* decides are exactly the requests whose row is open.                           *)
OneRowOpen ==
  \A T \in Standard :
    /\ \A b \in Leaf(T) : row_state[b] = OpenAt(T, b, Len(log) + 1)
    /\ rowtable = UNION {{[group |-> b, row |-> r] : r \in row_state[b]} : b \in Leaf(T)}
    /\ \A r \in queue : r.type \in {"READ", "WRITE"} =>
         (check_row_hit(T, T.translate[r.type], r.addr) <=> Row(r) \in OpenAt(T, Front(r.addr), Len(log) + 1))

(* The assertions of RowTable::update: an access finds its row in the table,    *)
(* and a command that closes rows finds one to close.                           *)
RowTableAsserted ==
  [][\A T \in Standard : LET e == Last(log') IN
     /\ IsAccess(T, e) => [group |-> Addressed(e), row |-> Row(e)] \in rowtable
     /\ IsClosing(T, e) => Cardinality(rowtable') < Cardinality(rowtable)]_vars
(* No assertion of the controller fails.                                       *)
AssertionsHold == []IssuedWhenReady /\ RowTableAsserted

(* The times a row needs: to open (tRCD), to stay open (tRAS), after a read     *)
(* (tRTP) or the end of a write (tWR) to close, and to precharge (tRP) before   *)
(* the next row or a refresh. Not so in SALP-1 and SALP-2, whose PRE_OTHER may  *)
(* close a row too early, nor in TLDRAM, whose PREM may close one that was just  *)
(* written.                                                                     *)
RowTimings ==
  std \notin {"SALP1", "SALP2", "TLDRAM"} =>
    \A T \in Standard : \A b \in Leaf(T) : \A j \in {j \in 1 .. Len(log) : Covers(Ends(T, log[j]), b)} :
      LET e == log[j]
          since(P(_, _), enough(_)) ==
            \A k \in {LastOf(T, b, j, P)} : k # 0 => e.at - log[k].at >= enough(log[k].cmd)
          rcd(c) == T.promise.rcd[<<c, e.cmd>>]
          ras(c) == T.promise.ras[c]
          rtp(c) == T.promise.rtp
          recover(c) == T.promise.recover
          rp(c) == T.promise.rp[c]
      IN /\ IsAccess(T, e) => since(IsOpening, rcd)
         /\ IsClosing(T, e) => since(IsOpening, ras) /\ since(ReadsRow, rtp) /\ since(WritesRow, recover)
         /\ (IsOpening(T, e) \/ e.cmd \in T.refreshing) => since(IsClosing, rp)

(* No more than promise.acts rows of a rank are opened in any window of tFAW.   *)
(* ALDRAM takes its constraints from a table in which nFAW and nRFC are zero.   *)
ActivateWindow ==
  std # "ALDRAM" => \A T \in Standard : \A r \in {n \in Node : Len(n) = 1}, c \in T.opening :
    LET acts == {i \in 1 .. Len(log) : log[i].cmd = c /\ Covers(r, Addressed(log[i]))} IN
    \A i, j \in acts : (i < j /\ Cardinality({k \in acts : i <= k /\ k <= j}) > T.promise.acts)
                          => log[j].at - log[i].at >= T.promise.faw
(* Every time of the data sheet between commands to one rank or row is kept.    *)
TimingsKept == RowTimings /\ ActivateWindow

(* A refresh finds every row under it closed, and no row under it is opened     *)
(* until it is over (but for ALDRAM).                                           *)
RefreshKeepsClosed ==
  std # "ALDRAM" => \A T \in Standard : \A i \in {i \in 1 .. Len(log) : log[i].cmd \in T.refreshing} :
    /\ \A b \in Leaf(T) : Covers(Ends(T, log[i]), b) => OpenAt(T, b, i) = {}
    /\ \A j \in i + 1 .. Len(log) :
         (IsOpening(T, log[j]) /\ Covers(Addressed(log[i]), Addressed(log[j])))
            => log[j].at - log[i].at >= T.promise.rfc[log[i].cmd]

-----------------------------------------------------------------------------
(* What the tables and the requests given have to provide for the theorems     *)
(* about any number of commands: facts about constants, all of them evaluated   *)
(* for the standards of the repository.                                        *)

(* The depth at which a command ends, for an address that goes that far.       *)
Depth(T, cmd) == Min({T.scope[cmd], Len(T.level)})
Rules(rule) == IF rule.kind = "segment" THEN {rule.first, rule.rest} ELSE {rule}

(* The states in which a change of state can leave the nodes k levels below.   *)
Leaves(rule, k) ==
  CASE rule.kind = "become" /\ k = 0 -> {rule.state}
    [] rule.kind = "open" /\ k = 0 -> {"Opened"}
    [] rule.kind = "close" /\ k = 0 -> {"Closed"}
    [] rule.kind = "closeWithChild" /\ k \in {0, 1} -> {"Closed"}
    [] rule.kind \in {"openSelected", "select"} /\ k = 0 -> {"Selected", "Opened"}
    [] rule.kind = "closeBelow" /\ k \in rule.below -> {"Closed"}
    [] rule.kind = "powerDown" /\ k = 0 -> {"PrePowerDown", "ActPowerDown"}
    [] OTHER -> {}
Level(T) == 1 .. Len(T.level)
States(T, d) ==
  {T.start[d]} \cup UNION {UNION {Leaves(T.lambda[k][c], d - k) : c \in DOMAIN T.lambda[k]} : k \in 1 .. d}
(* The commands that a rule can ask for, and those that a request can need.    *)
Answers(rule, states, cmd) ==
  CASE rule.kind = "state" -> {rule.to[s] : s \in states}
    [] rule.kind = "closed" -> {cmd, rule.closer}
    [] rule.kind = "row" -> {rule.closed, rule.miss} \cup
         CASE rule.hit = "itself" -> {cmd}
           [] rule.hit = "child" -> {"MAX"}
           [] rule.hit = "alone" -> {"PRE_OTHER", cmd}
           [] rule.hit = "selected" -> {cmd, "SASEL"}
Needs(T, cmd, addr) ==
  {cmd} \cup ((UNION {UNION {Answers(x, States(T, d), cmd) : x \in Rules(T.prereq[d][cmd])} :
                        d \in {d \in Depths(addr) : cmd \in DOMAIN T.prereq[d]}}) \ {"MAX"})
Needed(T, r) == Needs(T, T.translate[r.type], r.addr) \cup Needs(T, T.translate[extended(T, r).type], r.addr)
Issuable(name) == UNION {UNION {Needed(Table[name], r) : r \in requests} : requests \in Workloads[name]}

(* A request has an id or -1 for every level, and names as many as the commands *)
(* it needs go deep; the first subarray of a bank is there to be precharged.    *)
RequestSound(T, N, r) ==
  /\ r \in [type : DOMAIN T.translate, arrive : Nat, addr : Seq(Int)] /\ Len(r.addr) = Len(T.level)
  /\ \A c \in Needed(T, r) : c \in T.command /\ Depth(T, c) \in Depths(r.addr)
  /\ "PRE_OTHER" \in Needed(T, r) =>
       /\ Len(r.addr) > 2 /\ Len(r.addr) \in Depths(r.addr) /\ Front(Front(r.addr)) \o <<0>> \in N
       /\ "EXTENSION" \notin DOMAIN T.translate

TimingSound(t, commands) ==
  /\ \A c \in commands : /\ \A e \in DOMAIN t.own[c] : t.own[c][e] \in Int
                         /\ \A e \in DOMAIN t.sibling[c] : t.sibling[c][e] \in Int
  /\ IsFiniteSet(t.window) /\ \A e \in t.window : e.val \in Int /\ e.dist \in Nat \ {0}
RuleKinds == {"state", "closed", "row"}
Hits == {"itself", "child", "alone", "selected"}
EffectKinds == {"become", "open", "close", "closeWithChild", "openSelected", "select", "closeBelow", "powerDown"}
LevelSound(T, d) ==
  /\ TimingSound(T.timing[d], T.command) /\ States(T, d) \subseteq NodeState
  /\ \A c \in DOMAIN T.prereq[d] : \A x \in Rules(T.prereq[d][c]) :
       x.kind \in RuleKinds /\ (x.kind = "row" => x.hit \in Hits)
  /\ \A c \in DOMAIN T.lambda[d] :
       /\ T.lambda[d][c].kind \in EffectKinds
       /\ T.lambda[d][c].kind \in {"openSelected", "select"} => d > 1
       /\ T.lambda[d][c].kind = "closeBelow" => T.lambda[d][c].below \subseteq Nat

(* m never waits longer than c: so does a migration compared with the read that *)
(* it replaces, for each of the commands the two need.                          *)
NoLonger(t, m, c) == m \in DOMAIN t => c \in DOMAIN t /\ t[m] <= t[c]
Milder(T, m, c) ==
  /\ m \in T.command /\ c \in T.command /\ T.scope[m] = T.scope[c]
  /\ \A d \in Level(T) :
       /\ \A a \in T.command : NoLonger(T.timing[d].own[a], m, c) /\ NoLonger(T.timing[d].sibling[a], m, c)
       /\ \A e \in T.timing[d].window : e.to = m =>
            \E f \in T.timing[d].window : f.to = c /\ f.from = e.from /\ f.dist = e.dist /\ f.val >= e.val
ExtensionSound(T) ==
  "EXTENSION" \in DOMAIN T.translate =>
    LET m == T.translate.EXTENSION
        c == T.translate.READ IN
    /\ Milder(T, m, c)
    /\ \A d \in Level(T) :
         /\ m \in DOMAIN T.prereq[d] <=> c \in DOMAIN T.prereq[d]
         /\ m \in DOMAIN T.prereq[d] =>
              \A p \in Rules(T.prereq[d][m]), q \in Rules(T.prereq[d][c]) :
                \/ p.kind = "state" /\ p = q
                \/ /\ p.kind = "row" /\ q.kind = "row" /\ p.hit = "itself" /\ q.hit = "itself"
                   /\ Milder(T, p.closed, q.closed) /\ Milder(T, p.miss, q.miss)
StandardSound(T) ==
  /\ Len(T.level) > 1 /\ "MAX" \notin T.command
  /\ \A c \in T.command : T.scope[c] \in Nat \ {0}
  /\ \A d \in Level(T) : LevelSound(T, d)
  /\ ExtensionSound(T)

(* The data of b leave the bus to those of a if b waits for a this long: in the *)
(* channel, or in the rank and, if there is another one, between the ranks.     *)
DataAt(T, c) == IF c \in {"WR", "WRA"} THEN T.promise.writeAt ELSE T.promise.readAt
Clears(T, t, a, b) == b \in DOMAIN t[a] /\ t[a][b] + DataAt(T, b) >= DataAt(T, a) + T.promise.bl
NoOtherRank(name) == \A requests \in Workloads[name] : \A q, r \in requests : q.addr[1] = r.addr[1]
BusSound(name, T) ==
  /\ T.promise.bl \in Nat /\ T.promise.readAt \in Nat /\ T.promise.writeAt \in Nat
  /\ \A a, b \in T.accessing :
       /\ T.scope[b] > 1
       /\ \/ Clears(T, T.timing[1].own, a, b)
          \/ /\ Clears(T, T.timing[2].own, a, b)
             /\ Clears(T, T.timing[2].sibling, a, b) \/ NoOtherRank(name)

(* At some level that both reach, e waits for c this long.                      *)
Waits(T, c, e, v) ==
  v \in Nat /\ \E d \in 1 .. Min({Depth(T, c), Depth(T, e)}) :
    e \in DOMAIN T.timing[d].own[c] /\ T.timing[d].own[c][e] >= v
RowSound(name, T) ==
  LET issued(C) == Issuable(name) \cap C IN
  /\ \A e \in issued(T.accessing), c \in issued(T.opening) : Waits(T, c, e, T.promise.rcd[<<c, e>>])
  /\ \A e \in issued(T.closing) :
       /\ \A c \in issued(T.opening) : Waits(T, c, e, T.promise.ras[c])
       /\ \A c \in issued(T.accessing \cup {"WR", "WRA"}) :
            Waits(T, c, e, IF c \in {"WR", "WRA"} THEN T.promise.recover ELSE T.promise.rtp)
  /\ \A e \in issued(T.opening \cup T.refreshing), c \in issued(T.closing) : Waits(T, c, e, T.promise.rp[c])
WindowSound(T) ==
  /\ T.promise.acts \in Nat \ {0} /\ T.promise.faw \in Nat
  /\ \A c \in T.opening : /\ T.scope[c] > 1
                          /\ \E e \in T.timing[2].window :
                               e.from = c /\ e.to = c /\ e.dist = T.promise.acts /\ e.val >= T.promise.faw

(* Rows are open in the nodes of the last level only, but for the standards     *)
(* whose banks have a state that depends on their subarrays.                    *)
TwoLevels == {"DSARP", "SALP1"}
Asked(T) == {T.translate[t] : t \in DOMAIN T.translate}
Switching(T) == T.opening \cup T.closing \cup {"SASEL"}
Distinct(T) ==
  /\ T.opening \cap (T.closing \cup T.accessing \cup T.refreshing) = {}
  /\ T.refreshing \cap (T.closing \cup T.accessing) = {}
  /\ {"SASEL", "MAX"} \cap (T.opening \cup T.closing \cup T.accessing \cup T.refreshing) = {}
  /\ "PRE_OTHER" \notin Asked(T) \cup T.opening \cup T.accessing \cup T.refreshing
  /\ Asked(T) \cap Switching(T) = {}
(* A row is opened where none is open, a row accessed on a hit, a row closed on  *)
(* a miss or before a refresh, at the level at which this was found.             *)
Closer(T, c, d) == c \in T.closing \ T.accessing /\ T.scope[c] = d
RowRule(T, d, c, x) ==
  /\ x.kind = "state" =>
       d < Len(T.level) /\ \A s \in States(T, d) : x.to[s] \notin Switching(T) \cup T.accessing \cup T.refreshing
  /\ x.kind = "closed" =>
       /\ c \in T.refreshing /\ d = T.scope[c] /\ x.below = Len(T.level) - d
       /\ x.closer # "PRE_OTHER" /\ Closer(T, x.closer, d)
  /\ x.kind = "row" =>
       /\ d = Len(T.level) /\ c \in T.accessing /\ x.closed \in T.opening
       /\ x.miss # "PRE_OTHER" /\ Closer(T, x.miss, d)
       /\ x.hit # "child" /\ (x.hit = "alone" => Closer(T, "PRE_OTHER", d))
(* What a command does to the rows: nothing, unless it opens or closes some.     *)
RowChange(T, d, c) ==
  LET rule == T.lambda[d][c] IN
  CASE c \in T.opening -> d = Len(T.level) /\ rule.kind \in {"open", "openSelected"}
    [] c \in T.closing -> /\ d = Depth(T, c)
                          /\ \/ d = Len(T.level) /\ rule.kind = "close"
                             \/ d < Len(T.level) /\ rule.kind = "closeBelow" /\ rule.below = {Len(T.level) - d}
    [] c = "SASEL" -> d = Len(T.level) /\ rule.kind = "select"
    [] OTHER -> d < Len(T.level) /\ rule.kind \in {"become", "powerDown"}
Selects(T) ==
  /\ T.opening = {"ACT"}
  /\ \A c \in Asked(T) \cap T.accessing : \A x \in Rules(T.prereq[Len(T.level)][c]) : x.hit = "selected"
  /\ T.lambda[Len(T.level)]["ACT"].kind = "openSelected" /\ "SASEL" \in DOMAIN T.lambda[Len(T.level)]
  /\ T.scope["SASEL"] >= Len(T.level)
RowsSound(name, T) ==
  /\ Distinct(T) /\ T.start[Len(T.level)] = "Closed"
  /\ \A c \in T.opening \cup T.accessing : T.scope[c] > Len(T.level)
  /\ \A d \in Level(T) : \A c \in Asked(T) \cap DOMAIN T.prereq[d] : \A x \in Rules(T.prereq[d][c]) : RowRule(T, d, c, x)
  /\ \A c \in Asked(T) \cap T.accessing : c \in DOMAIN T.prereq[Len(T.level)]
  /\ \A c \in Asked(T) \cap T.refreshing :
       /\ T.scope[c] \in Level(T) /\ c \in DOMAIN T.prereq[T.scope[c]]
       /\ \A x \in Rules(T.prereq[T.scope[c]][c]) : x.kind = "closed"
  /\ \A d \in Level(T) : d < Len(T.level) => T.rowhit[d] = {}
  /\ \A t \in {"READ", "WRITE"} \cap DOMAIN T.translate : T.translate[t] \in T.accessing \cap T.rowhit[Len(T.level)]
  /\ \A c \in Issuable(name) :
       /\ \A d \in Level(T) : c \in DOMAIN T.lambda[d] =>
            RowChange(T, d, c) /\ \A e \in Level(T) : c \in DOMAIN T.lambda[e] => e = d
       /\ c \in T.opening \cup T.closing => c \in DOMAIN T.lambda[Depth(T, c)]
  /\ name = "MASA" => Selects(T)
(* Nothing is opened under a node while it is refreshed.                         *)
RefreshSound(name, T) ==
  \A c \in Issuable(name) \cap T.refreshing, e \in Issuable(name) \cap T.opening : Waits(T, c, e, T.promise.rfc[c])

TablesSound ==
  \A name \in DOMAIN Table : \A T \in {Table[name]} :
    /\ StandardSound(T)
    /\ \A requests \in Workloads[name] : \A r \in requests : RequestSound(T, NodesOf(requests), r)
    /\ BusSound(name, T)
    /\ name \notin {"SALP1", "SALP2", "TLDRAM"} => RowSound(name, T)
    /\ name # "ALDRAM" => WindowSound(T)
    /\ name \notin TwoLevels => RowsSound(name, T) /\ (name # "ALDRAM" => RefreshSound(name, T))
ASSUME TablesAssumption == TablesSound
=============================================================================
