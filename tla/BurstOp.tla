------------------------------- MODULE BurstOp -------------------------------
(***************************************************************************)
(* How a burst of the PE is cut into the memory's basic requests           *)
(* (struct BurstOp of src/src/common.h and common.cpp).                    *)
(*                                                                         *)
(* The number of requests (getReqNum) and their addresses (updateAddrVec)  *)
(* are computed apart, and convertToReq reads the second by the first.     *)
(***************************************************************************)
EXTENDS Integers, Sequences

CONSTANTS burstLen,         \* GL::burstLen, bytes moved by a basic request
          MaxWidth          \* getBurstAddrWidth doubles 1 up to MaxWidth times

\* What the loop of getBurstAddrWidth has after n turns: 2 ^ n.
Power[n \in 0 .. MaxWidth + 1] == IF n = 0 THEN 1 ELSE 2 * Power[n - 1]

ASSUME BurstAssumption == MaxWidth \in Nat /\ \E n \in 0 .. MaxWidth : burstLen = Power[n]

\* The width of burstLen as a number, one more than that of an offset in it.
getBurstAddrWidth == 1 + (CHOOSE n \in 0 .. MaxWidth : burstLen = Power[n])

getAlignedAddr(addr) == (addr \div Power[getBurstAddrWidth]) * Power[getBurstAddrWidth]
getOffset(addr) == addr - getAlignedAddr(addr)

\* (Mutant: the bytes left over get no request of their own.)
PiecesRoundedDown(n) == n \div burstLen
Pieces(n) == IF n % burstLen = 0 THEN n \div burstLen ELSE n \div burstLen + 1

getReqNum(addr, length) ==
    LET residueLen == burstLen - getOffset(addr)
    IN  CASE getOffset(addr) = 0 -> Pieces(length)
          [] getOffset(addr) # 0 /\ length > residueLen -> 1 + Pieces(length - residueLen)
          [] OTHER -> 1

\* (Mutant: the address advances by the width that aligned it.)
addrVecDoubleStep(addr, length) ==
    [i \in 1 .. getReqNum(addr, length) |->
        getAlignedAddr(addr) + (i - 1) * Power[getBurstAddrWidth]]

\* The loop of updateAddrVec: one more address as long as the bytes reached
\* (negative at first when the offset exceeds burstLen) are fewer than length.
addrVec(addr, length) ==
    LET offset == getOffset(addr)
        reqLen[n \in 0 .. length + 1] ==
            IF n = 0 THEN burstLen - offset
            ELSE IF reqLen[n - 1] + burstLen <= length
                 THEN reqLen[n - 1] + burstLen ELSE length
        more == CHOOSE n \in 0 .. length + 1 :
                    reqLen[n] >= length /\ \A m \in 0 .. n - 1 : reqLen[m] < length
    IN  IF offset = 0
        THEN [i \in 1 .. getReqNum(addr, length) |-> addr + (i - 1) * burstLen]
        ELSE [i \in 1 .. more + 1 |-> getAlignedAddr(addr) + (i - 1) * burstLen]

\* The addresses of the basic requests queued for a burst.
convertToReq(addr, length) ==
    [i \in 1 .. getReqNum(addr, length) |-> addrVec(addr, length)[i]]
=============================================================================
