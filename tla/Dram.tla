-------------------------------- MODULE Dram --------------------------------
(* The state machine of one DRAM channel, DRAM.h, driven by any one of the    *)
(* standards: a tree of nodes, in each of which a command may wait for its    *)
(* time (next), change the state, and delay the commands to come. Addresses   *)
(* leave out the channel, of which there is one here; -1 is unspecified.      *)
EXTENDS Integers, SequencesExt, FiniteSetsExt

CONSTANTS Table,       \* name of a standard -> its tables
          Workloads,   \* name of a standard -> the sets of requests it is given
          Slack,       \* cycles a controller may once wait when a command is ready
          MaxCommands  \* bound on the commands issued
ASSUME BoundAssumption == Slack \in Nat /\ MaxCommands \in Nat

VARIABLES std, slack,    \* the standard, and the delay still to be spent
          clk, state, row_state, next,
          prev,          \* times of the commands that windows count, last first
          rowtable, queue, log
vars == <<std, slack, clk, state, row_state, next, prev, rowtable, queue, log>>

(* The tables of the standard, the T by which DRAM and the controller are      *)
(* templated: operators take them as their first parameter.                    *)
Standard == {Table[std]}
(* The nodes that the requests can reach; the others are never in any state   *)
(* but the first. A node is named by the ids on its path from the channel.    *)
Path(addr, d) == SubSeq(addr, 1, d - 1)
Depths(addr) == {d \in 1 .. Len(addr) : \A i \in 1 .. d - 1 : addr[i] >= 0}
NodesOf(requests) ==
  UNION {{SubSeq(r.addr, 1, k) : k \in {k \in 0 .. Len(r.addr) - 1 : \A i \in 1 .. k : r.addr[i] >= 0}} : r \in requests}
Node == DOMAIN state
Children(n) == {c \in Node : Len(c) = Len(n) + 1 /\ Path(c, Len(c)) = n}
Below(n, k) == {c \in Node : Len(c) = Len(n) + k /\ Path(c, Len(n) + 1) = n}

-----------------------------------------------------------------------------
(* DRAM::decode: the first prerequisite on the path, or the command itself.   *)
Required(rule, n, cmd, id) ==
  LET r == IF rule.kind # "segment" THEN rule ELSE IF id % rule.ratio = 0 THEN rule.first ELSE rule.rest IN
  CASE r.kind = "state" -> r.to[state[n]]
    [] r.kind = "closed" -> IF \A c \in Below(n, r.below) : state[c] = "Closed" THEN cmd ELSE r.closer
    [] r.kind = "row" ->
         IF state[n] = "Closed" THEN r.closed
         ELSE IF id \notin row_state[n] THEN r.miss
         ELSE CASE r.hit = "itself" -> cmd
                [] r.hit = "child" -> "MAX"
                [] r.hit = "alone" -> IF \E c \in Children(Path(n, Len(n))) : c # n /\ state[c] = "Opened"
                                      THEN "PRE_OTHER" ELSE cmd
                [] r.hit = "selected" -> IF state[n] = "Selected" THEN cmd ELSE "SASEL"
prereq(T, cmd, addr, d) ==
  IF cmd \in DOMAIN T.prereq[d] THEN Required(T.prereq[d][cmd], Path(addr, d), cmd, addr[d]) ELSE "MAX"
decode(T, cmd, addr) ==
  LET met == {d \in Depths(addr) : prereq(T, cmd, addr, d) # "MAX"} IN
  IF met = {} THEN cmd ELSE prereq(T, cmd, addr, Min(met))

(* DRAM::check, as the first cycle from which it answers yes.                  *)
get_next(T, cmd, addr) ==
  Max({next[Path(addr, d)][cmd] : d \in {d \in Depths(addr) : d <= T.scope[cmd]}})
(* DRAM::check_row_hit.                                                        *)
check_row_hit(T, cmd, addr) ==
  \E d \in Depths(addr) : cmd \in T.rowhit[d] /\ addr[d] \in row_state[Path(addr, d)]

-----------------------------------------------------------------------------
(* DRAM::update_state: the change of one level, then those of the levels below. *)
Closing(nodes, s) == [state |-> [n \in Node |-> IF n \in nodes THEN "Closed" ELSE s.state[n]],
                      rows |-> [n \in Node |-> IF n \in nodes THEN {} ELSE s.rows[n]]]
(* (Mutant: the subarray selected before stays selected.)                      *)
SelectingToo(n, s) == [s EXCEPT !.state[n] = "Selected"]
Selecting(n, s) ==
  [s EXCEPT !.state = [m \in Node |-> IF m = n THEN "Selected"
                                      ELSE IF m \in Children(Path(n, Len(n))) /\ @[m] = "Selected" THEN "Opened" ELSE @[m]]]
Effect(rule, n, id, s) ==
  CASE rule.kind = "become" -> [s EXCEPT !.state[n] = rule.state]
    [] rule.kind = "open" -> [s EXCEPT !.state[n] = "Opened", !.rows[n] = @ \cup {id}]
    [] rule.kind = "close" -> Closing({n}, s)
    [] rule.kind = "closeWithChild" -> Closing({n, Append(n, id)}, s)
    [] rule.kind = "openSelected" -> [Selecting(n, s) EXCEPT !.rows[n] = @ \cup {id}]
    [] rule.kind = "select" -> Selecting(n, s)
    [] rule.kind = "closeBelow" ->
         Closing(UNION {Below(n, k) : k \in rule.below}, s)
    [] rule.kind = "powerDown" ->
         [s EXCEPT !.state[n] = IF \A c \in Below(n, rule.below) : s.state[c] = "Closed"
                                THEN "PrePowerDown" ELSE "ActPowerDown"]
(* The levels from the channel down to that at which the command ends.         *)
update_state(T, cmd, addr) ==
  LET last == Min({Len(addr), T.scope[cmd]})
      after[d \in 0 .. last] ==
        IF d = 0 THEN [state |-> state, rows |-> row_state]
        ELSE IF cmd \in DOMAIN T.lambda[d] THEN Effect(T.lambda[d][cmd], Path(addr, d), addr[d], after[d - 1])
        ELSE after[d - 1]
  IN after[last]

(* DRAM::update_timing: nodes on the path take the constraints of their level, *)
(* their other children those between siblings, and the rest nothing.          *)
Target(n, addr) == n = SubSeq(addr, 1, Len(n))
update_history(cmd, addr, t) ==
  [n \in Node |-> IF Target(n, addr) /\ cmd \in DOMAIN prev[n] THEN [prev[n] EXCEPT ![cmd] = <<t>> \o @] ELSE prev[n]]
(* (Mutant: the last constraint replaces a longer one.)                        *)
LaterLast(n, m, t) == [c \in DOMAIN next[n] |-> IF c \in DOMAIN m THEN t + m[c] ELSE next[n][c]]
Later(n, m, t) == [c \in DOMAIN next[n] |-> IF c \in DOMAIN m /\ t + m[c] > next[n][c] THEN t + m[c] ELSE next[n][c]]
Windowed(windows, cmd, hist, m) ==
  LET due(c) == {hist[cmd][e.dist] + e.val :
                   e \in {e \in windows : e.from = cmd /\ e.to = c /\ Len(hist[cmd]) >= e.dist}} IN
  [c \in DOMAIN m |-> Max({m[c]} \cup due(c))]
(* (Mutant: the siblings of the nodes on the path wait for nothing.)           *)
update_path(T, cmd, addr, t, hist) ==
  [n \in Node |->
     LET rules == T.timing[Len(n) + 1] IN
     IF Target(n, addr) THEN Windowed(rules.window, cmd, hist[n], Later(n, rules.own[cmd], t)) ELSE next[n]]
update_timing(T, cmd, addr, t, hist) ==
  [n \in Node |->
     LET rules == T.timing[Len(n) + 1] IN
     CASE Target(n, addr) -> Windowed(rules.window, cmd, hist[n], Later(n, rules.own[cmd], t))
       [] ~Target(n, addr) /\ Target(Path(n, Len(n)), addr) -> Later(n, rules.sibling[cmd], t)
       [] OTHER -> next[n]]

-----------------------------------------------------------------------------
(* Controller::get_addr_vec: a PRE_OTHER goes to the first other subarray that *)
(* is open, or to the first one of all.                                        *)
(* (Mutant: the subarray of the request itself.)                               *)
own_subarray(addr) == Front(addr) \o <<-1>>
get_offending_subarray(addr) ==
  LET bank == Front(Front(addr))
      open == {Last(c) : c \in {c \in Children(bank) : c # Front(addr) /\ state[c] = "Opened"}}
  IN bank \o << IF open = {} THEN 0 ELSE Min(open), -1 >>
get_addr_vec(cmd, addr) == IF cmd = "PRE_OTHER" THEN get_offending_subarray(addr) ELSE addr
get_first_cmd(T, r) == decode(T, T.translate[r.type], r.addr)
ready_at(T, r) == LET cmd == get_first_cmd(T, r) IN get_next(T, cmd, get_addr_vec(cmd, r.addr))

(* Controller<TLDRAM>::tick turns a read into a migration once it is ready.    *)
extended(T, r) == IF "EXTENSION" \in DOMAIN T.translate /\ r.type = "READ" THEN [r EXCEPT !.type = "EXTENSION"] ELSE r
(* Requests other than reads and writes go first; of those that wait for the    *)
(* same command, the oldest (arrive is 0 where any order is to be checked).     *)
IsAccessRequest(r) == r.type \in {"READ", "WRITE", "EXTENSION"}
Served(T, r) ==
  /\ r \in queue
  /\ IsAccessRequest(r) => \A q \in queue : IsAccessRequest(q)
  /\ \A q \in queue : q.arrive < r.arrive => get_first_cmd(T, q) # get_first_cmd(T, r)

(* RowTable::update. An opening command does not replace an entry.             *)
rowgroup(addr) == Front(addr)
update_rowtable(T, cmd, addr) ==
  LET opened == IF cmd \in T.opening /\ \A e \in rowtable : e.group # rowgroup(addr)
                THEN {[group |-> rowgroup(addr), row |-> Last(addr)]} ELSE {}
      closed == IF cmd \in T.closing
                THEN {e \in rowtable : Path(e.group, T.scope[cmd]) = Path(addr, T.scope[cmd])} ELSE {}
  IN (rowtable \cup opened) \ closed

(* Controller::issue_cmd on behalf of a request, in the first cycle it is      *)
(* ready or later: one command in a cycle at most. The command that completes  *)
(* the request takes it out of the queue.                                      *)
(* (Mutant: a second command in the same cycle.)                               *)
same_cycle(T, r, delay) == Max({clk, ready_at(T, r)}) + delay
cycle(T, r, delay) == Max({clk + 1, ready_at(T, r)}) + delay
issue_cmd(T, r, cmd, addr, t) ==
  /\ clk' = t
  /\ \E s \in {update_state(T, cmd, addr)} : state' = s.state /\ row_state' = s.rows
  /\ \E hist \in {update_history(cmd, addr, t)} :
       prev' = hist /\ next' = update_timing(T, cmd, addr, t, hist)
  /\ rowtable' = update_rowtable(T, cmd, addr)
  /\ queue' = (queue \ {r}) \cup {q \in {extended(T, r)} : cmd # T.translate[q.type]}
  /\ log' = Append(log, [cmd |-> cmd, addr |-> addr, at |-> t])
  /\ UNCHANGED std

Init ==
  /\ std \in DOMAIN Table
  /\ queue \in Workloads[std]
  /\ clk = 0 /\ rowtable = {} /\ slack = Slack /\ log = << >>
  /\ \E T \in Standard, N \in {NodesOf(queue)} :
     /\ state = [n \in N |-> T.start[Len(n) + 1]]
     /\ row_state = [n \in N |-> {}]
     /\ next = [n \in N |-> [c \in T.command |-> -1]]
     /\ prev = [n \in N |-> [c \in {e.from : e \in T.timing[Len(n) + 1].window} |-> << >>]]
Issue(T) ==
  /\ Len(log) < MaxCommands
  /\ \E r \in {r \in queue : Served(T, r)}, delay \in {0, slack} :
       /\ slack' = slack - delay
       /\ \E cmd \in {get_first_cmd(T, extended(T, r))} :
            issue_cmd(T, r, cmd, get_addr_vec(cmd, r.addr), cycle(T, r, delay))
Next == \E T \in Standard : Issue(T)
Spec == Init /\ [][Next]_vars
=============================================================================
