----------------------------- MODULE Controller -----------------------------
(* The controller of one memory channel, Controller.h with Scheduler.h and    *)
(* Refresh.h: queues of reads, writes and refreshes, the choice of the next   *)
(* command, the row policy, and the answers. The DRAM is that of module Dram  *)
(* cut down to one rank of banks and to a few cycles per constraint; clk and  *)
(* the other cycle counts are kept as the cycles that are left. A refresh is  *)
(* that of the rank, or with DSARP (Refresh.cpp) of one bank.                  *)
EXTENDS Integers, SequencesExt, FiniteSetsExt

CONSTANTS Bank, Addr,          \* banks 1 .. n, and the pairs of a bank and a row in use
          Configs,             \* records [scheduler, rowpolicy, refresh, extension]
          QueueMax, MaxRequests,
          nRCD, nRAS, nRP, nWR, nCCD, nRFC, nREFI, read_latency, timeout, cap,
          backlog_min, backlog_early_pull_threshold, backlog_max
None == 0
Row == {a[2] : a \in Addr}
ASSUME BankAssumption ==
  /\ Bank = 1 .. Cardinality(Bank) /\ IsFiniteSet(Bank) /\ Bank # {}
  /\ Addr \subseteq Nat \X Nat /\ Bank = {a[1] : a \in Addr} /\ None \notin Row
ASSUME ConfigAssumption ==
  /\ Configs \subseteq [scheduler : {"FCFS", "FRFCFS", "FRFCFS_Cap", "FRFCFS_PriorHit"},
                       rowpolicy : {"Closed", "Opened", "Timeout"}, refresh : {"rank", "bank"}, extension : BOOLEAN]
  /\ QueueMax \in Nat \ {0} /\ MaxRequests \in Nat
ASSUME TimingAssumption ==
  /\ {nRCD, nRAS, nRP, nWR, nCCD, nRFC, nREFI, read_latency, timeout} \subseteq Nat \ {0} /\ cap \in Nat
  /\ nRCD < nRAS
ASSUME BacklogAssumption ==
  /\ {backlog_min, backlog_early_pull_threshold, backlog_max} \subseteq Int
  /\ backlog_min < backlog_early_pull_threshold /\ backlog_early_pull_threshold <= backlog_max
  /\ backlog_min < 0 /\ backlog_max >= 0

VARIABLES config, readq, writeq, otherq, pending, write_mode,
          refreshed, backlog, turn, ctrl_write_mode,   \* Refresh: cycles since the last, and per bank for DSARP
          row, hits, idle,          \* the row table: open row of a bank, its hits, cycles since its last use
          act, pre, cas, ref,       \* cycles until a bank may take ACT, PRE, RD or WR, and the rank REF
          serving, sent, writes, stored
dram == <<row, hits, idle, act, pre, cas, ref>>
client == <<sent, writes>>
refresh == <<refreshed, backlog, turn, ctrl_write_mode>>
vars == <<config, readq, writeq, otherq, pending, write_mode, refresh, dram, serving, client, stored>>

-----------------------------------------------------------------------------
(* What the controller asks of the channel, with the cycle counts of this tick. *)
Left(n) == IF n = 0 THEN 0 ELSE n - 1
get_first_cmd(r) ==
  CASE r.type = "REFRESH" /\ r.bank = None -> IF \A b \in Bank : row[b] = None THEN "REF" ELSE "PREA"
    [] r.type = "REFRESH" /\ r.bank # None -> IF row[r.bank] = None THEN "REFPB" ELSE "PRE"
    [] r.type # "REFRESH" /\ row[r.bank] = None -> "ACT"
    [] r.type # "REFRESH" /\ row[r.bank] = r.row -> r.type
    [] OTHER -> "PRE"
check(cmd, b) ==
  CASE cmd = "REF" -> Left(ref) = 0
    [] cmd = "REFPB" -> Left(ref) = 0 /\ Left(act[b]) = 0
    [] cmd = "PREA" -> \A k \in Bank : Left(pre[k]) = 0
    [] cmd = "ACT" -> Left(act[b]) = 0
    [] cmd = "PRE" -> Left(pre[b]) = 0
    [] OTHER -> Left(cas[b]) = 0
is_ready(r) == check(get_first_cmd(r), r.bank)
(* A migration is no row hit and has no open row: rowhit and rowopen have no   *)
(* entry for MIG, and none for REF.                                            *)
is_row_hit(r) == r.type \in {"READ", "WRITE"} /\ row[r.bank] = r.row
is_row_open(r) == r.type \in {"READ", "WRITE"} /\ row[r.bank] # None
get_hits(r) == IF r.type # "REFRESH" /\ row[r.bank] = r.row THEN hits[r.bank] ELSE 0

(* Scheduler::compare folded over the requests at positions I of q; requests    *)
(* are in the order of their arrival. (Mutant: the comparison turned around.)   *)
Latest(I) == IF I = {} THEN 0 ELSE Max(I)
Oldest(I) == IF I = {} THEN 0 ELSE Min(I)
Prefer(I, good) == IF I \cap good # {} THEN Oldest(I \cap good) ELSE Oldest(I)
FRFCFS(q, I) == Prefer(I, {i \in DOMAIN q : is_ready(q[i])})
FRFCFS_Cap(q) == Prefer(DOMAIN q, {i \in DOMAIN q : is_ready(q[i]) /\ get_hits(q[i]) <= cap})
FRFCFS_PriorHit(q) ==
  LET hit == {i \in DOMAIN q : is_row_hit(q[i])}
      violate_hit == {i \in DOMAIN q \ hit : is_row_open(q[i]) /\ \E j \in hit : q[j].bank = q[i].bank}
  IN IF \E i \in hit : is_ready(q[i]) THEN Oldest({i \in hit : is_ready(q[i])}) ELSE FRFCFS(q, DOMAIN q \ violate_hit)
get_head(q) ==
  CASE config.scheduler = "FCFS" -> Oldest(DOMAIN q)
    [] config.scheduler = "FRFCFS" -> FRFCFS(q, DOMAIN q)
    [] config.scheduler = "FRFCFS_Cap" -> FRFCFS_Cap(q)
    [] config.scheduler = "FRFCFS_PriorHit" -> FRFCFS_PriorHit(q)

(* RowPolicy: the first row of the table that may be closed, if any.           *)
get_victim ==
  LET closable == {b \in Bank : row[b] # None /\ check("PRE", b)} IN
  CASE config.rowpolicy = "Closed" -> Oldest(closable)
    [] config.rowpolicy = "Opened" -> None
    [] config.rowpolicy = "Timeout" -> Oldest({b \in closable : idle[b] + 1 >= timeout})

-----------------------------------------------------------------------------
(* A READ or WRITE comes in; a read whose address waits to be written is       *)
(* answered from the write queue. least is the last write before it.           *)
(* (Mutant: no such shortcut.)                                                 *)
NeverForwarded(type, a) == FALSE
Forwarded(type, a) == type = "READ" /\ \E w \in ToSet(writeq) : <<w.bank, w.row>> = a
Newest(a) == Max({r.version : r \in {r \in ToSet(writeq) : <<r.bank, r.row>> = a}})
enqueue(type, a) ==
  LET req == [type |-> type, bank |-> a[1], row |-> a[2], started |-> FALSE,
              version |-> writes[a] + (IF type = "WRITE" THEN 1 ELSE 0)]
  IN /\ Len(IF type = "READ" THEN readq ELSE writeq) # QueueMax
     /\ sent < MaxRequests /\ sent' = sent + 1
     /\ IF Forwarded(type, a)
        THEN /\ pending' = Append(pending, [left |-> 1, accessed |-> FALSE, version |-> Newest(a), least |-> writes[a]])
             /\ UNCHANGED <<readq, writeq, writes>>
        ELSE /\ readq' = IF type = "READ" THEN Append(readq, req) ELSE readq
             /\ writeq' = IF type = "WRITE" THEN Append(writeq, req) ELSE writeq
             /\ writes' = IF type = "WRITE" THEN [writes EXCEPT ![a] = @ + 1] ELSE writes
             /\ UNCHANGED pending
     /\ UNCHANGED <<config, otherq, write_mode, refresh, dram, serving, stored>>

(* The first step of tick: the oldest answer. (Mutants: an answer whose time    *)
(* has passed is left alone; a forwarded read is taken for one that was served.) *)
AnsweredInTime == pending # << >> /\ Head(pending).left = 1
Answered == pending # << >> /\ Head(pending).left <= 1
Waiting == [i \in DOMAIN pending |-> [pending[i] EXCEPT !.left = Left(@)]]
pendingNow == IF Answered THEN Tail(Waiting) ELSE Waiting
servingAlways == IF Answered THEN serving - 1 ELSE serving
servingNow == IF Answered /\ Head(pending).accessed THEN serving - 1 ELSE serving

(* The second: Refresh::tick_ref, every nREFI cycles, of the rank or of the      *)
(* bank whose turn it is. backlog is how far a bank is ahead of its schedule.    *)
refresh_target(b) == [type |-> "REFRESH", bank |-> b, started |-> FALSE]
tick_ref == refreshed + 1 >= nREFI
Demand(b) == Cardinality({i \in DOMAIN writeq : writeq[i].bank = b}) + Cardinality({i \in DOMAIN readq : readq[i].bank = b})
LeastDemand == {b \in Bank : \A k \in Bank : Demand(b) <= Demand(k)}
(* (Mutant: without the test of the credit.)                                    *)
GrantedAlways(b) == b
Granted(b) == IF backlog[b] < backlog_max THEN b ELSE None
(* wrp, on entering the write mode: a bank of least demand, of which std::sort   *)
(* leaves the order open. Its search for an idle bank tests the number of the    *)
(* bank, not the demand, and always ends with the first.                        *)
wrp == IF otherq # << >> \/ writeq = << >> THEN {None} ELSE {Granted(b) : b \in LeastDemand}
(* early_inject_refresh, while reading: from a random start, the first bank no   *)
(* read waits for that is almost out of credit.                                  *)
Idle == {b \in Bank : /\ \A i \in DOMAIN readq : readq[i].bank # b
                      /\ \A i \in DOMAIN otherq : otherq[i].bank # b
                      /\ backlog[b] < backlog_early_pull_threshold /\ Len(otherq) < QueueMax}
early_inject_refresh == IF write_mode \/ Idle = {} THEN {None} ELSE Idle
(* What these two ask for in this cycle: a bank, or none.                        *)
Early ==
  CASE config.refresh = "rank" -> {None}
    [] config.refresh = "bank" /\ write_mode /\ ~ctrl_write_mode -> wrp
    [] OTHER -> early_inject_refresh

(* inject_refresh, after an early refresh of bank b: the bank whose turn it is   *)
(* is refreshed when nothing waits or it is too far behind, and skipped          *)
(* otherwise.                                                                    *)
early_otherq(b) == IF b = None THEN otherq ELSE Append(otherq, refresh_target(b))
early_backlog(b) == [k \in Bank |-> backlog[k] + IF k = b THEN 1 ELSE 0]
ref_now(b) == (early_otherq(b) = << >> /\ readq = << >>) \/ early_backlog(b)[turn] - 1 <= backlog_min
otherqNow(b) ==
  IF ~tick_ref THEN early_otherq(b)
  ELSE CASE config.refresh = "rank" -> Append(otherq, refresh_target(None))
         [] config.refresh = "bank" /\ ref_now(b) -> Append(early_otherq(b), refresh_target(turn))
         [] OTHER -> early_otherq(b)
backlogNow(b) ==
  IF config.refresh = "bank" /\ tick_ref /\ ~ref_now(b) THEN [early_backlog(b) EXCEPT ![turn] = @ - 1] ELSE early_backlog(b)

(* The third, the direction.                                                     *)
writeModeNow ==
  IF ~write_mode THEN Len(writeq) >= (8 * QueueMax) \div 10 \/ readq = << >>
  ELSE ~(Len(writeq) <= (2 * QueueMax) \div 10 /\ readq # << >>)
queue(other) == IF other # << >> THEN other ELSE IF writeModeNow THEN writeq ELSE readq

(* Controller::issue_cmd: the constraints of module Dram, and the row table.   *)
AtLeast(f, B, n) == [b \in Bank |-> IF b \in B THEN Max({n, Left(f[b])}) ELSE Left(f[b])]
issue_cmd(cmd, b, opens) ==
  LET closed == IF cmd = "PREA" THEN Bank ELSE IF cmd = "PRE" THEN {b} ELSE {}
      opened == IF cmd = "ACT" THEN {b} ELSE {}
      access == cmd \in {"READ", "WRITE", "EXTENSION"}
      used == closed \cup opened \cup (IF access THEN {b} ELSE {})
      quiet == CASE cmd = "REF" -> Bank [] cmd = "REFPB" -> {b} [] OTHER -> {}
  IN /\ act' = AtLeast(act, closed \cup quiet, IF quiet # {} THEN nRFC ELSE nRP)
     /\ pre' = AtLeast(pre, used \ closed, IF access THEN nWR ELSE nRAS)
     /\ cas' = AtLeast(cas, IF access THEN Bank ELSE opened, IF access THEN nCCD ELSE nRCD)
     /\ ref' = CASE quiet # {} -> nRFC
                 [] config.refresh = "rank" /\ cmd \in {"PRE", "PREA"} -> nRP
                 [] OTHER -> Left(ref)
     /\ row' = [k \in Bank |-> IF k \in closed THEN None ELSE IF k \in opened THEN opens ELSE row[k]]
     /\ hits' = [k \in Bank |-> IF k \in closed \cup opened THEN 0
                                ELSE IF k \in used THEN Min({hits[k] + 1, cap + 1}) ELSE hits[k]]
     /\ idle' = [k \in Bank |-> IF k \in used \/ row[k] = None THEN 0 ELSE Min({idle[k] + 1, timeout})]

-----------------------------------------------------------------------------
Init ==
  /\ config \in Configs
  /\ readq = << >> /\ writeq = << >> /\ otherq = << >> /\ pending = << >>
  /\ write_mode = FALSE /\ serving = 0 /\ sent = 0
  /\ refreshed = 0 /\ backlog = [b \in Bank |-> 0] /\ turn = 1 /\ ctrl_write_mode = FALSE
  /\ row = [b \in Bank |-> None] /\ hits = [b \in Bank |-> 0] /\ idle = hits
  /\ act = hits /\ pre = hits /\ cas = hits /\ ref = 0
  /\ writes = [a \in Addr |-> 0] /\ stored = writes

Housekeeping(b) ==
  /\ refreshed' = IF tick_ref THEN 0 ELSE refreshed + 1
  /\ backlog' = backlogNow(b)
  /\ turn' = IF config.refresh = "bank" /\ tick_ref THEN (turn % Cardinality(Bank)) + 1 ELSE turn
  /\ ctrl_write_mode' = (config.refresh = "bank" /\ write_mode)
  /\ write_mode' = writeModeNow
  /\ UNCHANGED <<config, client>>
(* q is the queue that was served, other the refreshes when it was chosen.      *)
Queues(q, other) ==
  IF queue(other) = other THEN otherq' = q /\ UNCHANGED <<readq, writeq>>
  ELSE /\ otherq' = other
       /\ IF writeModeNow THEN writeq' = q /\ UNCHANGED readq ELSE readq' = q /\ UNCHANGED writeq

(* Step 4 of tick: a command for the head of the queue, which may finish it;   *)
(* TLDRAM has made a migration of a read by then.                              *)
Extended(r) == IF config.extension /\ r.type = "READ" THEN [r EXCEPT !.type = "EXTENSION"] ELSE r
Serve(other, q, h, r, cmd) ==
  LET first == ~q[h].started /\ r.type # "REFRESH"
      done == cmd \notin {"ACT", "PRE", "PREA"}
      written == done /\ r.type = "WRITE"
  IN /\ issue_cmd(cmd, r.bank, IF cmd = "ACT" THEN r.row ELSE None)
     /\ pending' = IF done /\ r.type \in {"READ", "EXTENSION"}
                   THEN Append(pendingNow, [left |-> read_latency, accessed |-> TRUE,
                                            version |-> stored[<<r.bank, r.row>>], least |-> r.version])
                   ELSE pendingNow
     /\ stored' = IF written THEN [stored EXCEPT ![<<r.bank, r.row>>] = r.version] ELSE stored
     /\ serving' = servingNow + (IF first THEN 1 ELSE 0) - (IF written THEN 1 ELSE 0)
     /\ Queues(IF done THEN RemoveAt(q, h) ELSE [q EXCEPT ![h] = [r EXCEPT !.started = TRUE]], other)
Issue(other) ==
  \E q \in {queue(other)}, h \in {get_head(queue(other))} \ {0} :
    /\ is_ready(q[h])
    /\ \E r \in {Extended(q[h])} : \E cmd \in {get_first_cmd(r)} : Serve(other, q, h, r, cmd)
(* No command is ready: the row policy may close a row.                        *)
Speculate(other) ==
  \E q \in {queue(other)}, h \in {get_head(queue(other))}, victim \in {get_victim} :
    /\ ~(h # 0 /\ is_ready(q[h]))
    /\ issue_cmd(IF victim = None THEN "NOP" ELSE "PRE", victim, None)
    /\ pending' = pendingNow /\ serving' = servingNow
    /\ Queues(q, other) /\ UNCHANGED stored
tick == \E b \in Early : \E other \in {otherqNow(b)} : Housekeeping(b) /\ (Issue(other) \/ Speculate(other))
send == \E type \in {"READ", "WRITE"}, a \in Addr : enqueue(type, a)
Next == tick \/ send
(* The clock of the memory never stops.                                        *)
Spec == Init /\ [][Next]_vars /\ WF_vars(tick)

-----------------------------------------------------------------------------
Started(q) == Cardinality({i \in DOMAIN q : q[i].started})
(* Queues within their size, and every count that of the requests it stands    *)
(* for: serving, by which is_active tells a busy channel, counts the requests   *)
(* that were given a command and are not over.                                 *)
TypeOK ==
  /\ config \in Configs /\ write_mode \in BOOLEAN
  /\ Len(readq) <= QueueMax /\ Len(writeq) <= QueueMax /\ Len(otherq) <= QueueMax
  /\ \A b \in Bank : row[b] \in Row \cup {None} /\ hits[b] \in 0 .. cap + 1 /\ idle[b] \in 0 .. timeout
  /\ serving = Started(readq) + Started(writeq) + Cardinality({i \in DOMAIN pending : pending[i].accessed})

(* A read is answered with the last write that was sent before it, or a later   *)
(* one: whether the write waits in its queue or has been written, and in        *)
(* whatever order the scheduler serves the writes to that address.              *)
FreshRead == \A i \in DOMAIN pending : pending[i].version >= pending[i].least
WritesInOrder == [][\A a \in Addr : stored'[a] >= stored[a]]_vars

(* The assertion in refresh_target never fails, as the queue has room for every   *)
(* refresh a tick asks for; and that of a rank is over before the next.           *)
RefreshInTime ==
  tick_ref => (\A b \in Early : Len(otherqNow(b)) <= QueueMax) /\ (config.refresh = "rank" => otherq = << >>)
(* DSARP: however its refreshes are pulled in, skipped and credited, no bank      *)
(* falls as far behind its schedule as the standard forbids, nor gets ahead of    *)
(* it by more than it allows.                                                    *)
BacklogBounded == \A b \in Bank : backlog[b] > backlog_min /\ backlog[b] <= backlog_max
(* The cells of no row are left too long without a refresh.                      *)
RefreshesKept == RefreshInTime /\ BacklogBounded

(* Every request is served: whatever the scheduler, the row policy and the      *)
(* direction, with refreshes in between.                                        *)
Drained == readq = << >> /\ writeq = << >> /\ pending = << >>
AllServed == []<>Drained
=============================================================================
