----------------------------- MODULE PortMemory -----------------------------
(***************************************************************************)
(* What the PE relies on of its memory: the bursts of a port are answered  *)
(* one at a time, each once, in the order in which they were posted.       *)
(***************************************************************************)
EXTENDS Integers, Sequences

CONSTANTS PNUM,     \* number of ports
          None      \* no burst on a port in this cycle: -1

VARIABLES mem,       \* per port: bursts posted and not answered
          response   \* per port: the burst answered in this cycle, or None

Port == 0 .. PNUM - 1

Init == /\ mem = [i \in Port |-> <<>>]
        /\ response = [i \in Port |-> None]

\* The ports of A are answered; posted[i] is the burst posted at port i.
Cycle(A, posted) ==
    /\ \A i \in A : mem[i] # <<>>
    /\ response' = [i \in Port |-> IF i \in A THEN Head(mem[i]) ELSE None]
    /\ mem' = [i \in Port |->
         LET left == IF i \in A THEN Tail(mem[i]) ELSE mem[i]
         IN  IF posted[i] = None THEN left ELSE Append(left, posted[i])]

\* The burst posted at a port is whatever the PE makes it.
LastPosted(i) == IF mem'[i] = <<>> THEN None ELSE mem'[i][Len(mem'[i])]
Next == \E A, P \in SUBSET Port :
            Cycle(A, [i \in Port |-> IF i \in P THEN LastPosted(i) ELSE None])

Spec == Init /\ [][Next]_<<mem, response>>
=============================================================================
