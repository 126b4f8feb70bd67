------------------------------ MODULE Processor ------------------------------
(* The trace processor, Processor.h and Processor.cpp, over the caches and a  *)
(* memory that takes requests into two bounded queues and answers the reads   *)
(* in any order. A processor tick is the tick of the caches and one of each   *)
(* core, in the order of their numbers; the memory steps in between ticks.    *)
EXTENDS Cache, PageTable
LOCAL INSTANCE SequencesExt
LOCAL INSTANCE Functions
LOCAL INSTANCE FiniteSetsExt

CONSTANTS Setups,             \* what is simulated, see SetupAssumption
          ipc, depth,         \* of the instruction window
          ReadQueue, WriteQueue  \* capacity of the memory
(* option and translation: of the configuration. block, bubbles: the blocks and *)
(* the numbers of bubbles that the trace of a core may name. limit: a bound on   *)
(* the lines of a trace. The pages have one block each.                          *)
ASSUME SetupAssumption ==
  \A u \in Setups :
    /\ u.option \in {"no", "L1L2", "L3", "all"} /\ u.translation \in {"None", "Random"}
    /\ \A t \in {u.block_num, u.assoc} : t \in [Level -> Nat \ {0}]
    /\ \A t \in {u.block, u.bubbles} : t \in [Core -> SUBSET Nat]
    /\ u.limit \in [Core -> Nat]
ASSUME SizesAssumption == {ipc, depth, ReadQueue, WriteQueue} \subseteq Nat \ {0}
None == -1
Blocks == Physical \cup UNION {u.block[c] : u \in Setups, c \in Core}
ASSUME OwnersAssumption == Owner = Core /\ Page = Blocks \cup {None}

VARIABLES setup, cachesys,
          reads, writes,       \* the memory: reads to answer per block, number of writes
          built, turn,         \* whether all cores are constructed; the next core, 0 the caches and the memory
          window,              \* per core, the instructions [addr, ready], None for a bubble
          req, bubble_cnt,     \* per core, the request at the head of its trace
          lines_read,          \* per core, the lines of the trace that were read
          write_addr,          \* static in get_filtered_request: the write of the last line, or None
          modified             \* history: blocks stored to that were not sent to the memory since
trace == <<req, bubble_cnt, lines_read, write_addr>>
memory == <<reads, writes>>
vars == <<setup, cachesys, pageVars, memory, built, turn, window, trace, modified>>

Cached == setup.option # "no"
no_core_caches == setup.option \in {"no", "L3"}
NoRequest == [addr |-> None, write |-> FALSE]

-----------------------------------------------------------------------------
(* Trace: what the next request of a core may be. A line of an unfiltered      *)
(* trace is one request, one of a filtered trace a read and perhaps a write,   *)
(* which the next call of any core returns.                                    *)
Line(c, r, bubbles, write) ==
  [req |-> r, bubble_cnt |-> bubbles, lines_read |-> lines_read[c] + 1, write_addr |-> write]
End(c) == [req |-> NoRequest, bubble_cnt |-> 0, lines_read |-> lines_read[c], write_addr |-> None]
get_unfiltered_request(c) ==
  IF lines_read[c] = setup.limit[c] THEN {End(c)}
  ELSE {Line(c, [addr |-> a, write |-> w], n, None) : a \in setup.block[c], w \in BOOLEAN, n \in setup.bubbles[c]}
get_filtered_request(c) ==
  CASE write_addr # None ->
         {[req |-> [addr |-> write_addr, write |-> TRUE], bubble_cnt |-> 0, lines_read |-> lines_read[c], write_addr |-> None]}
    [] write_addr = None /\ lines_read[c] = setup.limit[c] -> {End(c)}
    [] OTHER -> {Line(c, [addr |-> a, write |-> FALSE], n, w) : a \in setup.block[c], n \in setup.bubbles[c], w \in setup.block[c] \cup {None}}
NextRequests(c) == IF no_core_caches THEN get_filtered_request(c) ELSE get_unfiltered_request(c)
(* The address is translated, if the configuration says so; at the end of the   *)
(* trace it is the last one, which was translated already (req_addr stays).     *)
Translate(c, virtual) ==
  IF setup.translation = "None" THEN UNCHANGED pageVars ELSE page_allocator(<<c, virtual>>)
Translation(c, virtual) == IF setup.translation = "None" THEN virtual ELSE page_translation'[<<c, virtual>>]
Fetch(c) ==
  \E f \in NextRequests(c) :
    /\ Translate(c, IF f.req = NoRequest THEN req[c].addr ELSE f.req.addr)
    /\ req' = [req EXCEPT ![c] = IF f.req = NoRequest THEN f.req ELSE [f.req EXCEPT !.addr = Translation(c, @)]]
    /\ bubble_cnt' = [bubble_cnt EXCEPT ![c] = f.bubble_cnt]
    /\ lines_read' = [lines_read EXCEPT ![c] = f.lines_read]
    /\ write_addr' = f.write_addr

(* Window.                                                                     *)
Bubble == [addr |-> None, ready |-> TRUE]
retire(w) ==
  LET n == Max({n \in 0 .. Min({ipc, Len(w)}) : \A i \in 1 .. n : w[i].ready}) IN SubSeq(w, n + 1, Len(w))
set_ready(w, A) == [i \in DOMAIN w |-> IF w[i].addr \in A THEN [w[i] EXCEPT !.ready = TRUE] ELSE w[i]]

(* Processor::receive, for the blocks of A.                                    *)
receive(s, A) ==
  /\ cachesys' = callback(s, A)
  /\ window' = [c \in Core |-> set_ready(window[c], A)]

-----------------------------------------------------------------------------
(* The constructor of a core reads its first request.                          *)
Construct(c) ==
  /\ ~built /\ turn = c
  /\ Fetch(c)
  /\ built' = (c = Cardinality(Core))
  /\ turn' = IF c = Cardinality(Core) THEN 0 ELSE c + 1
  /\ UNCHANGED <<setup, cachesys, memory, window, modified>>

(* Core::tick. Bubbles enter the window until the width or the window is full;  *)
(* then, if there is room, the request, once the caches or the memory take it.  *)
Inserted(c, w) == Min({bubble_cnt[c], ipc, depth - Len(w)})
WithBubbles(c, w) == w \o [i \in 1 .. Inserted(c, w) |-> Bubble]
Blocked(c, w) ==
  \/ Inserted(c, w) < bubble_cnt[c]
  \/ ~req[c].write /\ (Inserted(c, w) = ipc \/ Len(WithBubbles(c, w)) = depth)
Idle(c) ==
  /\ req[c] = NoRequest
  /\ window' = [window EXCEPT ![c] = retire(@)]
  /\ UNCHANGED <<cachesys, memory, trace, pageVars, modified>>
Stall(c, w) ==
  /\ window' = [window EXCEPT ![c] = WithBubbles(c, w)]
  /\ bubble_cnt' = [bubble_cnt EXCEPT ![c] = @ - Inserted(c, w)]
  /\ UNCHANGED <<req, lines_read, write_addr, pageVars, modified>>
Proceed(c, w) ==
  /\ window' = [window EXCEPT ![c] = WithBubbles(c, w) \o
                  IF req[c].write THEN << >> ELSE << [addr |-> req[c].addr, ready |-> FALSE] >>]
  /\ modified' = IF Cached /\ req[c].write THEN modified \cup {req[c].addr} ELSE modified
  /\ Fetch(c)
MemoryHasRoom(write, r, w) == IF write THEN w < WriteQueue ELSE SumFunction(r) < ReadQueue
Send(c, w) ==
  \/ /\ Cached
     /\ \E sent \in {send(cachesys, c, req[c].addr, req[c].write)} :
          /\ cachesys' = sent.s
          /\ IF sent.accepted THEN Proceed(c, w) ELSE Stall(c, w)
     /\ UNCHANGED memory
  \/ /\ ~Cached
     /\ UNCHANGED cachesys
     /\ IF MemoryHasRoom(req[c].write, reads, writes)
        THEN /\ Proceed(c, w)
             /\ IF req[c].write THEN writes' = writes + 1 /\ UNCHANGED reads
                ELSE reads' = [reads EXCEPT ![req[c].addr] = @ + 1] /\ UNCHANGED writes
        ELSE Stall(c, w) /\ UNCHANGED memory
CoreTick(c) ==
  /\ built /\ turn = c /\ ~cachesys.failed
  /\ \/ Idle(c)
     \/ /\ req[c] # NoRequest
        /\ \E w \in {retire(window[c])} :
             \/ Blocked(c, w) /\ Stall(c, w) /\ UNCHANGED <<cachesys, memory>>
             \/ ~Blocked(c, w) /\ Send(c, w)
  /\ turn' = IF c = Cardinality(Core) THEN 0 ELSE c + 1
  /\ UNCHANGED <<setup, built>>

(* CacheSystem::tick.                                                          *)
SendDue(q) ==
  FoldLeft(LAMBDA at, i :
             IF i \notin Due(q) \/ ~MemoryHasRoom(q[i].type = "WRITE", at.reads, at.writes)
             THEN [at EXCEPT !.kept = Append(@, q[i])]
             ELSE IF q[i].type = "WRITE" THEN [at EXCEPT !.writes = @ + 1, !.written = @ \cup {q[i].addr}]
             ELSE [at EXCEPT !.reads[q[i].addr] = @ + 1],
           [kept |-> << >>, reads |-> reads, writes |-> writes, written |-> {}], [i \in DOMAIN q |-> i])
CacheTick ==
  /\ built /\ turn = 0 /\ ~cachesys.failed
  /\ turn' = 1
  /\ \/ ~Cached /\ UNCHANGED <<cachesys, memory, window, modified>>
     \/ /\ Cached
        /\ \E sent \in {SendDue(Aged(cachesys.wait_list))}, hits \in {Aged(cachesys.hit_list)} :
             /\ reads' = sent.reads /\ writes' = sent.writes /\ modified' = modified \ sent.written
             /\ receive([cachesys EXCEPT !.wait_list = sent.kept,
                                         !.hit_list = SelectSeq(hits, LAMBDA h : h.due > 0)], HitsDue(hits))
  /\ UNCHANGED <<setup, built, trace, pageVars>>

(* The memory answers a read or completes a write.                             *)
Answer(b) ==
  /\ built /\ turn = 0 /\ ~cachesys.failed
  /\ reads[b] > 0 /\ reads' = [reads EXCEPT ![b] = @ - 1]
  /\ receive(cachesys, {b})
  /\ UNCHANGED <<setup, writes, built, turn, trace, pageVars, modified>>
Write ==
  /\ built /\ turn = 0 /\ ~cachesys.failed
  /\ writes > 0 /\ writes' = writes - 1
  /\ UNCHANGED <<setup, cachesys, reads, built, turn, window, trace, pageVars, modified>>

Init ==
  /\ setup \in Setups /\ PageInit
  /\ cachesys = Empty(setup.option, setup.block_num, setup.assoc)
  /\ reads = [b \in Blocks |-> 0] /\ writes = 0
  /\ built = FALSE /\ turn = 1
  /\ window = [c \in Core |-> << >>]
  /\ req = [c \in Core |-> NoRequest] /\ bubble_cnt = [c \in Core |-> 0]
  /\ lines_read = [c \in Core |-> 0] /\ write_addr = None /\ modified = {}
Next == CacheTick \/ Write \/ (\E c \in Core : Construct(c) \/ CoreTick(c)) \/ (\E b \in Blocks : Answer(b))
Spec == Init /\ [][Next]_vars
(* The simulation goes on, and the memory answers reads and completes writes.  *)
FairSpec ==
  /\ Spec /\ WF_vars(CacheTick) /\ WF_vars(\E c \in Core : Construct(c) \/ CoreTick(c))
  /\ SF_vars(Write) /\ \A b \in Blocks : SF_vars(Answer(b))
=============================================================================
