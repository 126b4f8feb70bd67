------------------------------- MODULE GDDR5 --------------------------------
(* The standard of GDDR5.h and GDDR5.cpp, GDDR5_6000 at 8Gb x16. A rank has   *)
(* no sibling; nCKESR and nXS are never set and stay zero.                   *)
EXTENDS DramTables

Level == <<"Channel", "Rank", "BankGroup", "Bank">>
Opening == {"ACT"}
Accessing == Cas
Closing == {"RDA", "WRA", "PRE", "PREA"}
Refreshing == {"REF"}
Command == Opening \cup Accessing \cup Closing \cup Refreshing \cup {"PDE", "PDX", "SRE", "SRX"}

scope == [c \in Command |-> CASE c \in Opening \cup Accessing -> 5
                              [] c \in {"PRE"} -> 4
                              [] OTHER -> 2]
start == <<"MAX", "PowerUp", "MAX", "Closed">>
translate == [READ |-> "RD", WRITE |-> "WR", REFRESH |-> "REF", POWERDOWN |-> "PDE", SELFREFRESH |-> "SRE"]

(* A bank group is a level of its own: the banks are two levels below a rank. *)
prereq == << NoRules,
             [RD |-> Awake("SRX"), WR |-> Awake("SRX"), REF |-> OnceClosed(2, "PREA"),
              PDE |-> PowerDown("PDE", "SRX"), SRE |-> SelfRefresh("SRE")],
             NoRules,
             [RD |-> OpenRow("ACT", "PRE"), WR |-> OpenRow("ACT", "PRE")] >>
rowhit == << {}, {}, {}, {"RD", "WR"} >>
lambda == << NoRules,
             [PREA |-> CloseBelow({2}), PDE |-> EnterPowerDown(2), PDX |-> Become("PowerUp"),
              SRE |-> Become("SelfRefresh"), SRX |-> Become("PowerUp")],
             NoRules,
             [ACT |-> Open, PRE |-> Close, RDA |-> Close, WRA |-> Close] >>
Speed == [nBL |-> 2, nCCDS |-> 2, nCCDL |-> 3, nCL |-> 18, nRCDR |-> 18, nRCDW |-> 15, nRP |-> 18, nCWL |-> 5,
          nRAS |-> 42, nRC |-> 60, nPPD |-> 2, nRTP |-> 2, nWTR |-> 8, nWR |-> 18,
          nRRD |-> 9, nFAW |-> 35, n32AW |-> 276, nPD |-> 10, nXPN |-> 10, nCKESR |-> 0, nXS |-> 0]
init_speed == [nRFC |-> 525]
LOCAL s == Speed
LOCAL x == init_speed
read_latency == s.nCL + s.nBL
LOCAL Written == s.nCWL + s.nBL + s.nWR

ChannelTiming == BurstTiming(Reads, Writes, s.nBL)
LOCAL Names == [acts |-> {"ACT"}, refs |-> {"REF"}, pres |-> {"PRE", "PREA"}, cas |-> Cas,
                pd |-> "PDE", sr |-> "SRE", srx |-> "SRX"]
RankTiming ==
  CasTiming(Reads, Writes, s.nCCDS, s.nCL + s.nCCDS + 2 - s.nCWL, s.nCWL + s.nBL + s.nWTR)
  \cup After({"RD"}, {"PREA"}, s.nRTP) \cup After({"WR"}, {"PREA"}, Written)
  \cup After({"ACT"}, {"ACT"}, s.nRRD) \cup Window({"ACT"}, {"ACT"}, 4, s.nFAW)
  \cup Window({"ACT"}, {"ACT"}, 32, s.n32AW) \cup After({"PRE"}, {"PRE"}, s.nPPD)
  \cup After({"ACT"}, {"PREA"}, s.nRAS) \cup After({"PREA"}, {"ACT"}, s.nRP)
  \cup After({"PRE", "PREA"}, {"REF", "SRE"}, s.nRP) \cup After({"REF"}, {"ACT", "REF"}, x.nRFC)
  \cup PowerTiming(Names, s.nCL + s.nBL + 1, Written, s.nXPN, s.nPD, s.nXS, s.nCKESR)
BankGroupTiming == BurstTiming(Reads, Writes, s.nCCDL)
BankTiming ==
  After({"ACT"}, Reads, s.nRCDR) \cup After({"ACT"}, Writes, s.nRCDW) \cup After({"RD"}, {"PRE"}, s.nRTP) \cup After({"WR"}, {"PRE"}, Written)
  \cup After({"RDA"}, {"ACT"}, s.nRTP + s.nRP) \cup After({"WRA"}, {"ACT"}, Written + s.nRP)
  \cup After({"ACT"}, {"ACT"}, s.nRC) \cup After({"ACT"}, {"PRE"}, s.nRAS) \cup After({"PRE"}, {"ACT"}, s.nRP)

Promise == [bl |-> s.nBL, readAt |-> s.nCL, writeAt |-> s.nCWL,
            rcd |-> [p \in Opening \X Accessing |-> IF p[2] \in Reads THEN s.nRCDR ELSE s.nRCDW], ras |-> SameRule(Opening, s.nRAS),
            rp |-> SameRule(Closing, s.nRP), rtp |-> s.nRTP, recover |-> Written,
            acts |-> 4, faw |-> s.nFAW, rfc |-> SameRule(Refreshing, x.nRFC)]
Standard == [level |-> Level, command |-> Command, opening |-> Opening, accessing |-> Accessing, closing |-> Closing,
             refreshing |-> Refreshing, scope |-> scope, start |-> start, translate |-> translate, prereq |-> prereq,
             rowhit |-> rowhit, lambda |-> lambda, read_latency |-> read_latency, promise |-> Promise,
             timing |-> Compiled(<<ChannelTiming, RankTiming, BankGroupTiming, BankTiming>>, Command)]
=============================================================================
