-------------------------------- MODULE HBM ---------------------------------
(* The standard of HBM.h and HBM.cpp, HBM_1Gbps at 4Gb. A rank has no sibling. *)
EXTENDS DramTables

Level == <<"Channel", "Rank", "BankGroup", "Bank">>
Opening == {"ACT"}
Accessing == Cas
Closing == {"RDA", "WRA", "PRE", "PREA"}
Refreshing == {"REF", "REFSB"}
Command == Opening \cup Accessing \cup Closing \cup Refreshing \cup {"PDE", "PDX", "SRE", "SRX"}

scope == [c \in Command |-> CASE c \in Opening \cup Accessing -> 5
                              [] c \in {"PRE", "REFSB"} -> 4
                              [] OTHER -> 2]
start == <<"MAX", "PowerUp", "MAX", "Closed">>
translate == [READ |-> "RD", WRITE |-> "WR", REFRESH |-> "REF", POWERDOWN |-> "PDE", SELFREFRESH |-> "SRE"]

(* A bank group is a level of its own: the banks are two levels below a rank. *)
prereq == << NoRules,
             [RD |-> Awake("SRX"), WR |-> Awake("SRX"), REF |-> OnceClosed(2, "PREA"),
              PDE |-> PowerDown("PDE", "SRX"), SRE |-> SelfRefresh("SRE")],
             NoRules,
             [RD |-> OpenRow("ACT", "PRE"), WR |-> OpenRow("ACT", "PRE"), REFSB |-> OnceClosed(0, "PRE")] >>
rowhit == << {}, {}, {}, {"RD", "WR"} >>
lambda == << NoRules,
             [PREA |-> CloseBelow({2}), PDE |-> EnterPowerDown(2), PDX |-> Become("PowerUp"),
              SRE |-> Become("SelfRefresh"), SRX |-> Become("PowerUp")],
             NoRules,
             [ACT |-> Open, PRE |-> Close, RDA |-> Close, WRA |-> Close] >>
Speed == [nBL |-> 2, nCCDS |-> 2, nCCDL |-> 3, nCL |-> 7, nRCDR |-> 7, nRCDW |-> 6, nRP |-> 7, nCWL |-> 4,
          nRAS |-> 17, nRC |-> 24, nRTP |-> 7, nWTRS |-> 2, nWTRL |-> 4, nWR |-> 8,
          nRRDS |-> 4, nRRDL |-> 5, nFAW |-> 20, nPD |-> 5, nXP |-> 5, nCKESR |-> 5]
init_speed == [nRFC |-> 130, nXS |-> 135]
LOCAL s == Speed
LOCAL x == init_speed
read_latency == s.nCL + s.nBL
LOCAL Written == s.nCWL + s.nBL + s.nWR

ChannelTiming == BurstTiming(Reads, Writes, s.nBL)
LOCAL Names == [acts |-> {"ACT"}, refs |-> {"REF"}, pres |-> {"PRE", "PREA"}, cas |-> Cas,
                pd |-> "PDE", sr |-> "SRE", srx |-> "SRX"]
RankTiming ==
  CasTiming(Reads, Writes, s.nCCDS, s.nCL + s.nCCDS + 2 - s.nCWL, s.nCWL + s.nBL + s.nWTRS)
  \cup After({"RD"}, {"PREA"}, s.nRTP) \cup After({"WR"}, {"PREA"}, Written)
  \cup After({"ACT"}, {"ACT"}, s.nRRDS) \cup Window({"ACT"}, {"ACT"}, 4, s.nFAW)
  \cup After({"ACT"}, {"PREA"}, s.nRAS) \cup After({"PREA"}, {"ACT"}, s.nRP)
  \cup After({"PRE", "PREA"}, {"REF", "SRE"}, s.nRP) \cup After({"REF"}, {"ACT", "REF"}, x.nRFC)
  \cup PowerTiming(Names, s.nCL + s.nBL + 1, Written, s.nXP, s.nPD, x.nXS, s.nCKESR)
BankGroupTiming ==
  BurstTiming(Reads, Writes, s.nCCDL) \cup After(Writes, Reads, s.nCWL + s.nBL + s.nWTRL)
  \cup After({"ACT"}, {"ACT"}, s.nRRDL)
BankTiming ==
  After({"ACT"}, Reads, s.nRCDR) \cup After({"ACT"}, Writes, s.nRCDW) \cup After({"RD"}, {"PRE"}, s.nRTP) \cup After({"WR"}, {"PRE"}, Written)
  \cup After({"RDA"}, {"ACT"}, s.nRTP + s.nRP) \cup After({"WRA"}, {"ACT"}, Written + s.nRP)
  \cup After({"ACT"}, {"ACT"}, s.nRC) \cup After({"ACT"}, {"PRE"}, s.nRAS) \cup After({"PRE"}, {"ACT"}, s.nRP)
  \cup After({"PRE"}, {"REFSB"}, s.nRP) \cup After({"REFSB"}, {"REFSB", "ACT"}, x.nRFC)

Promise == [bl |-> s.nBL, readAt |-> s.nCL, writeAt |-> s.nCWL,
            rcd |-> [p \in Opening \X Accessing |-> IF p[2] \in Reads THEN s.nRCDR ELSE s.nRCDW], ras |-> SameRule(Opening, s.nRAS),
            rp |-> SameRule(Closing, s.nRP), rtp |-> s.nRTP, recover |-> Written,
            acts |-> 4, faw |-> s.nFAW, rfc |-> SameRule(Refreshing, x.nRFC)]
Standard == [level |-> Level, command |-> Command, opening |-> Opening, accessing |-> Accessing, closing |-> Closing,
             refreshing |-> Refreshing, scope |-> scope, start |-> start, translate |-> translate, prereq |-> prereq,
             rowhit |-> rowhit, lambda |-> lambda, read_latency |-> read_latency, promise |-> Promise,
             timing |-> Compiled(<<ChannelTiming, RankTiming, BankGroupTiming, BankTiming>>, Command)]
=============================================================================
