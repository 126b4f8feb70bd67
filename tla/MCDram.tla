------------------------------- MODULE MCDram -------------------------------
(* Every standard on requests that meet in one bank, in one rank and across   *)
(* ranks, with refreshes and power downs in between.                          *)
EXTENDS DramInv
D3 == INSTANCE DDR3
D4 == INSTANCE DDR4
HB == INSTANCE HBM
G5 == INSTANCE GDDR5
AL == INSTANCE ALDRAM
L3 == INSTANCE LPDDR3
L4 == INSTANCE LPDDR4
W1 == INSTANCE WideIO
W2 == INSTANCE WideIO2
DS == INSTANCE DSARP
SA == INSTANCE SALP
TL == INSTANCE TLDRAM

AllTables == [DDR3 |-> D3!Standard, DDR4 |-> D4!Standard, HBM |-> HB!Standard, GDDR5 |-> G5!Standard,
              ALDRAM |-> AL!Standard, LPDDR3 |-> L3!Standard, LPDDR4 |-> L4!Standard, WideIO |-> W1!Standard,
              WideIO2 |-> W2!Standard, DSARP |-> DS!Standard, TLDRAM |-> TL!Standard, SALP1 |-> SA!Standard["SALP_1"],
              SALP2 |-> SA!Standard["SALP_2"], MASA |-> SA!Standard["MASA"]]

(* The address of a place in the levels of a standard; a standard without      *)
(* bank groups has twice the banks.                                            *)
Id(L, level, p) ==
  CASE level = "Rank" -> p[1]
    [] level = "BankGroup" -> p[2]
    [] level = "Bank" -> IF \E i \in DOMAIN L : L[i] = "BankGroup" THEN p[3] ELSE 4 * p[2] + p[3]
    [] level = "SubArray" -> p[4]
Addr(L, p) == [i \in 1 .. Len(L) |-> IF i < Len(L) THEN Id(L, L[i + 1], p) ELSE p[5]]
Req(L, type, rank, group, bank, sub, row) ==
  [type |-> type, arrive |-> 0, addr |-> Addr(L, <<rank, group, bank, sub, row>>)]
OneRow(L) == {Req(L, "WRITE", 0, 0, 0, 0, 1), Req(L, "READ", 0, 0, 0, 0, 1), Req(L, "READ", 0, 0, 0, 0, 2)}
SubArrays(L) == {Req(L, "READ", 0, 0, 0, 0, 1), Req(L, "WRITE", 0, 0, 0, 1, 1), Req(L, "READ", 0, 0, 0, 1, 2)}
TwoRanks(L) == {Req(L, "READ", 0, 0, 0, 0, 1), Req(L, "READ", 1, 0, 0, 0, 1), Req(L, "WRITE", 1, 0, 0, 0, 1)}
Sleeping(L) == {Req(L, "READ", 0, 0, 0, 0, 1), Req(L, "POWERDOWN", 0, 0, 0, 0, 1), Req(L, "SELFREFRESH", 0, 0, 0, 0, 1)}
FiveBanks(L) == {[Req(L, "READ", 0, b \div 4, b % 4, 0, 1) EXCEPT !.arrive = b] : b \in 0 .. 4}
(* The refresh of a rank, or of a subarray of one of its banks for DSARP.      *)
Refresh(name, L) ==
  [type |-> "REFRESH", arrive |-> 0,
   addr |-> [i \in 1 .. Len(L) |-> IF i = 1 \/ (name = "DSARP" /\ i < 4) THEN 0 ELSE -1]]
OneBank(n, L) == {Req(L, "READ", 0, 0, 0, 0, 1), Req(L, "WRITE", 0, 0, 0, 1, 2), Req(L, "READ", 0, 0, 0, 0, 2), Refresh(n, L)}
OneRank(n, L) == {Req(L, "READ", 0, 0, 0, 0, 1), Req(L, "WRITE", 0, 0, 1, 0, 1), Req(L, "READ", 0, 1, 0, 0, 1), Refresh(n, L)}
(* GDDR5 and WideIO assert that there is one rank, and HBM is configured with   *)
(* one and has no constraint between ranks.                                    *)
SingleRank == {"GDDR5", "WideIO", "HBM"}
WorkloadsFor(n, L) ==
  {OneBank(n, L), OneRow(L), SubArrays(L), OneRank(n, L), Sleeping(L), FiveBanks(L)}
  \cup {TwoRanks(L) : m \in {n} \ SingleRank}
AllWorkloads == [n \in DOMAIN AllTables |-> WorkloadsFor(n, AllTables[n].level)]
=============================================================================
