-------------------------------- MODULE DDR4 --------------------------------
(* The standard of DDR4.h and DDR4.cpp, DDR4_2400R at 4Gb x8.                *)
EXTENDS DramTables

Level == <<"Channel", "Rank", "BankGroup", "Bank">>
Opening == {"ACT"}
Accessing == Cas
Closing == {"RDA", "WRA", "PRE", "PREA"}
Refreshing == {"REF"}
Command == Opening \cup Accessing \cup Closing \cup Refreshing \cup {"PDE", "PDX", "SRE", "SRX"}

scope == [c \in Command |-> CASE c \in Opening \cup Accessing -> 5
                              [] c \in {"PRE"} -> 4
                              [] OTHER -> 2]
start == <<"MAX", "PowerUp", "MAX", "Closed">>
translate == [READ |-> "RD", WRITE |-> "WR", REFRESH |-> "REF", POWERDOWN |-> "PDE", SELFREFRESH |-> "SRE"]

(* A bank group is a level of its own: the banks are two levels below a rank. *)
prereq == << NoRules,
             [RD |-> Awake("SRX"), WR |-> Awake("SRX"), REF |-> OnceClosed(2, "PREA"),
              PDE |-> PowerDown("PDE", "SRX"), SRE |-> SelfRefresh("SRE")],
             NoRules,
             [RD |-> OpenRow("ACT", "PRE"), WR |-> OpenRow("ACT", "PRE")] >>
rowhit == << {}, {}, {}, {"RD", "WR"} >>
lambda == << NoRules,
             [PREA |-> CloseBelow({2}), PDE |-> EnterPowerDown(2), PDX |-> Become("PowerUp"),
              SRE |-> Become("SelfRefresh"), SRX |-> Become("PowerUp")],
             NoRules,
             [ACT |-> Open, PRE |-> Close, RDA |-> Close, WRA |-> Close] >>
Speed == [nBL |-> 4, nCCDS |-> 4, nCCDL |-> 6, nRTRS |-> 2, nCL |-> 16, nRCD |-> 16, nRP |-> 16, nCWL |-> 12,
          nRAS |-> 39, nRC |-> 55, nRTP |-> 9, nWTRS |-> 3, nWTRL |-> 9, nWR |-> 18,
          nPD |-> 6, nXP |-> 8, nCKESR |-> 7]
init_speed == [nRRDS |-> 4, nRRDL |-> 6, nFAW |-> 26, nRFC |-> 312, nXS |-> 324]
LOCAL s == Speed
LOCAL x == init_speed
read_latency == s.nCL + s.nBL
LOCAL Written == s.nCWL + s.nBL + s.nWR

ChannelTiming == BurstTiming(Reads, Writes, s.nBL)
LOCAL Names == [acts |-> {"ACT"}, refs |-> {"REF"}, pres |-> {"PRE", "PREA"}, cas |-> Cas,
                pd |-> "PDE", sr |-> "SRE", srx |-> "SRX"]
RankTiming ==
  CasTiming(Reads, Writes, s.nCCDS, s.nCL + s.nCCDS + 2 - s.nCWL, s.nCWL + s.nBL + s.nWTRS)
  \cup AcrossRanks(Reads, Writes, s.nBL + s.nRTRS, s.nCL + s.nBL + s.nRTRS - s.nCWL, s.nCWL + s.nBL + s.nRTRS - s.nCL)
  \cup After({"RD"}, {"PREA"}, s.nRTP) \cup After({"WR"}, {"PREA"}, Written)
  \cup After({"ACT"}, {"ACT"}, x.nRRDS) \cup Window({"ACT"}, {"ACT"}, 4, x.nFAW)
  \cup After({"ACT"}, {"PREA"}, s.nRAS) \cup After({"PREA"}, {"ACT"}, s.nRP)
  \cup After({"PRE", "PREA"}, {"REF", "SRE"}, s.nRP) \cup After({"REF"}, {"ACT", "REF"}, x.nRFC)
  \cup PowerTiming(Names, s.nCL + s.nBL + 1, Written, s.nXP, s.nPD, x.nXS, s.nCKESR)
BankGroupTiming ==
  BurstTiming(Reads, Writes, s.nCCDL) \cup After(Writes, Reads, s.nCWL + s.nBL + s.nWTRL)
  \cup After({"ACT"}, {"ACT"}, x.nRRDL)
BankTiming ==
  After({"ACT"}, Cas, s.nRCD) \cup After({"RD"}, {"PRE"}, s.nRTP) \cup After({"WR"}, {"PRE"}, Written)
  \cup After({"RDA"}, {"ACT"}, s.nRTP + s.nRP) \cup After({"WRA"}, {"ACT"}, Written + s.nRP)
  \cup After({"ACT"}, {"ACT"}, s.nRC) \cup After({"ACT"}, {"PRE"}, s.nRAS) \cup After({"PRE"}, {"ACT"}, s.nRP)

Promise == [bl |-> s.nBL, readAt |-> s.nCL, writeAt |-> s.nCWL,
            rcd |-> [p \in Opening \X Accessing |-> s.nRCD], ras |-> SameRule(Opening, s.nRAS),
            rp |-> SameRule(Closing, s.nRP), rtp |-> s.nRTP, recover |-> Written,
            acts |-> 4, faw |-> x.nFAW, rfc |-> SameRule(Refreshing, x.nRFC)]
Standard == [level |-> Level, command |-> Command, opening |-> Opening, accessing |-> Accessing, closing |-> Closing,
             refreshing |-> Refreshing, scope |-> scope, start |-> start, translate |-> translate, prereq |-> prereq,
             rowhit |-> rowhit, lambda |-> lambda, read_latency |-> read_latency, promise |-> Promise,
             timing |-> Compiled(<<ChannelTiming, RankTiming, BankGroupTiming, BankTiming>>, Command)]
=============================================================================
