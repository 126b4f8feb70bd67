----------------------------- MODULE MCMemWrapper -----------------------------
(* Small instances of the memory wrapper for TLC. *)
EXTENDS MemWrapper

\* With basic bursts of two bytes, the byte at address 2 takes two requests,
\* 0 and 2, and the one at address 0 a single one.
One == [addr |-> 0, length |-> 1]
Two == [addr |-> 2, length |-> 1]

\* Port 0 reads, port 1 writes, to the same addresses.
ReadsAndWrites == [i \in 0 .. 1 |-> IF i = 0 THEN <<Two, One>> ELSE <<Two, One>>]
FirstPort == {0}

\* Two bursts written one after the other.
WritesOnly == [i \in 0 .. 0 |-> <<One, Two>>]
NoPort == {}
=============================================================================
