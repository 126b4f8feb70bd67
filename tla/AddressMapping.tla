--------------------------- MODULE AddressMapping ---------------------------
(* Where data lie: the arrays of a graph in ramData (MemWrapper::ramInit), and *)
(* the place in the DRAM of an address (the constructor and send of Memory.h). *)
EXTENDS Integers, Sequences

CONSTANTS count,             \* nodes at every level from channels to columns
          prefetch_size, channel_width,
          MaxBits            \* the bits of an address

(* 1 << n, by as many shifts.                                                 *)
PowerOf2[n \in 0 .. MaxBits + 1] == IF n = 0 THEN 1 ELSE 2 * PowerOf2[n - 1]

ASSUME OrganizationAssumption ==
  /\ MaxBits \in Nat /\ count \in Seq(Nat) /\ Len(count) >= 2
  /\ \A l \in DOMAIN count : count[l] \in 1 .. PowerOf2[MaxBits]
  /\ \A l \in {1, 2} : \E k \in 0 .. MaxBits : count[l] = PowerOf2[k]
  /\ prefetch_size \in 1 .. count[Len(count)] /\ channel_width \in Nat
  /\ \E k \in 0 .. MaxBits : prefetch_size * channel_width = 8 * PowerOf2[k]

calc_log2(val) == CHOOSE k \in 0 .. MaxBits : PowerOf2[k] <= val /\ val < PowerOf2[k + 1]
tx == (prefetch_size * channel_width) \div 8
(* (Mutant: one bit too many, as when 1 is taken to need a bit.)              *)
tx_bits_from_one == calc_log2(tx) + 1
tx_bits == calc_log2(tx)
Column == Len(count)
capacity[l \in 0 .. Column] == IF l = 0 THEN channel_width \div 8 ELSE capacity[l - 1] * count[l]
max_address == capacity[Column]
(* A column is addressed by the burst it is in.                               *)
columns(l) == IF l = Column THEN calc_log2(prefetch_size) ELSE 0
addr_bits == [l \in 1 .. Column |-> calc_log2(count[l]) - columns(l)]

(* The levels from the lowest bits up, for either type of mapping, and the    *)
(* bits that the first of them have together.                                 *)
type == {"ChRaBaRoCo", "RoBaRaCoCh"}
slices == [ChRaBaRoCo |-> [i \in 1 .. Column |-> Column + 1 - i],
           RoBaRaCoCh |-> [i \in 1 .. Column |-> IF i = 1 THEN 1 ELSE IF i = 2 THEN Column ELSE i - 1]]
lower(t) ==
  LET bits[i \in 0 .. Column] == IF i = 0 THEN 0 ELSE bits[i - 1] + addr_bits[slices[t][i]] IN bits
clear_lower_bits(addr, bits) == addr \div PowerOf2[bits]
slice_lower_bits(addr, bits) == addr % PowerOf2[bits]
send(t, addr) ==
  LET place(l) == CHOOSE i \in 1 .. Column : slices[t][i] = l IN
  [l \in 1 .. Column |->
     slice_lower_bits(clear_lower_bits(clear_lower_bits(addr, tx_bits), lower(t)[place(l) - 1]), addr_bits[l])]

(* The bits of a transaction and those of all levels fit in an address.       *)
ASSUME WidthAssumption == \A t \in type : tx_bits + lower(t)[Column] <= MaxBits

-----------------------------------------------------------------------------
(* (Mutant: rounded down.)                                                    *)
alignDown(addr) == (addr \div 256) * 256
alignMyself(addr) == IF addr % 256 = 0 THEN addr ELSE (addr \div 256 + 1) * 256
(* depth, rpao, ciao, rpai, ciai and frontier, in bytes.                      *)
Sizes(vertexNum, edgeNum) ==
  << vertexNum, 4 * (vertexNum + 1), 4 * edgeNum, 4 * (vertexNum + 1), 4 * edgeNum, 4 * vertexNum >>
ramInit(vertexNum, edgeNum) ==
  LET sizes == Sizes(vertexNum, edgeNum)
      depthAddr == 0
      rpaoAddr == alignMyself(depthAddr + sizes[1])
      ciaoAddr == alignMyself(rpaoAddr + sizes[2])
      rpaiAddr == alignMyself(ciaoAddr + sizes[3])
      ciaiAddr == alignMyself(rpaiAddr + sizes[4])
      frontierAddr == alignMyself(ciaiAddr + sizes[5])
  IN << depthAddr, rpaoAddr, ciaoAddr, rpaiAddr, ciaiAddr, frontierAddr >>
ramDataSize(edgeNum) == edgeNum * 4 * 4
=============================================================================
