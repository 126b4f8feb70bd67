---------------------------- MODULE ProcessorInv -----------------------------
(* What the caches and the processor promise.                                 *)
EXTENDS Processor
LOCAL INSTANCE SequencesExt
LOCAL INSTANCE Functions

Used == DOMAIN cachesys.lines
LinesOf(c) == Range(cachesys.lines[c])
Requested(b, type) == \E r \in Range(cachesys.wait_list) : r.addr = b /\ r.type = type

(* A cache holds a block once and never more lines than it has room for, and   *)
(* the window and the memory stay within their sizes.                          *)
TypeOK ==
  /\ setup \in Setups /\ PageTypeOK /\ turn \in 0 .. Cardinality(Core)
  /\ \A c \in Used :
       /\ \A i, j \in DOMAIN cachesys.lines[c] : cachesys.lines[c][i].addr = cachesys.lines[c][j].addr => i = j
       /\ \A b \in Blocks : Len(get_lines(cachesys, c, b)) <= cachesys.assoc[c[1]]
       /\ Cardinality(cachesys.mshr_entries[c]) <= mshr_entry_num[c[1]]
  /\ \A c \in Core : Len(window[c]) <= depth
  /\ SumFunction(reads) <= ReadQueue /\ writes <= WriteQueue

(* A line waits for its value exactly while a miss register points at it: a     *)
(* register left behind would unlock a line of another request, and a lock left *)
(* behind would never be opened.                                                *)
RegistersMatchLocks ==
  \A c \in Used : cachesys.mshr_entries[c] = {l.addr : l \in {l \in LinesOf(c) : l.lock}}
(* A block that is in a cache is in all caches below it.                        *)
Inclusive ==
  \A c \in Used : \A l \in lower_cache(cachesys, c) : {x.addr : x \in LinesOf(c)} \subseteq {x.addr : x \in LinesOf(l)}
(* Unless a request was turned away below the first level, where nobody sends   *)
(* it again, the caches include those above, and the assertions of Cache.cpp     *)
(* hold: no line is invalidated while it waits for its value, and a line evicted *)
(* from one level is in the next. Registers and locks agree even then.           *)
CachesConsistent ==
  /\ RegistersMatchLocks
  /\ cachesys.refused \/ (Inclusive /\ ~cachesys.failed)

(* What was stored reaches the memory: until it does, a line of the block is    *)
(* dirty, or its write waits to be sent.                                        *)
NoStoreLost ==
  \A b \in modified : Requested(b, "WRITE") \/ \E c \in Used : \E l \in LinesOf(c) : l.addr = b /\ l.dirty

(* A read of a block is not sent to the memory before the write of it that was   *)
(* queued earlier, unless the memory has no room for the write.                  *)
ReadAfterWriteback ==
  [][\A i, j \in DOMAIN cachesys.wait_list :
       LET w == cachesys.wait_list[i]
           r == cachesys.wait_list[j] IN
       (/\ i < j /\ w.type = "WRITE" /\ r.type = "READ" /\ w.addr = r.addr
        /\ reads'[r.addr] > reads[r.addr] /\ w.addr \in modified') => writes' = WriteQueue]_vars

(* Every trace is executed to its end, unless a request was turned away below    *)
(* the first level.                                                              *)
Finished(c) == req[c] = NoRequest /\ window[c] = << >>
TracesFinish == <>(cachesys.refused \/ (built /\ \A c \in Core : Finished(c)))
=============================================================================
