------------------------------- MODULE DSARP --------------------------------
(* The standard of DSARP.h and DSARP.cpp, DSARP_1333 at 8Gb x8, of type DSARP:  *)
(* banks are refreshed one by one, and one of their subarrays at a time.        *)
EXTENDS DramTables

Level == <<"Channel", "Rank", "Bank", "SubArray">>
Opening == {"ACT"}
Accessing == Cas
Closing == {"RDA", "WRA", "PRE", "PREA"}
Refreshing == {"REF", "REFPB"}
Command == Opening \cup Accessing \cup Closing \cup Refreshing \cup {"PDE", "PDX", "SRE", "SRX"}

scope == [c \in Command |-> CASE c \in Opening \cup Accessing -> 5
                              [] c \in {"PRE", "REFPB"} -> 3
                              [] OTHER -> 2]
start == <<"MAX", "PowerUp", "Closed", "Closed">>
translate == [READ |-> "RD", WRITE |-> "WR", REFRESH |-> "REFPB", POWERDOWN |-> "PDE", SELFREFRESH |-> "SRE"]

prereq == << NoRules,
             [RD |-> Awake("SRX"), WR |-> Awake("SRX"), REF |-> OnceClosed(1, "PREA"),
              PDE |-> PowerDown("PDE", "SRX"), SRE |-> SelfRefresh("SRE")],
             [RD |-> ThenChild(OpenRow("ACT", "PRE")), WR |-> ThenChild(OpenRow("ACT", "PRE")),
              REFPB |-> OnceClosed(0, "PRE")],
             [RD |-> OpenRow("ACT", "PRE"), WR |-> OpenRow("ACT", "PRE")] >>
rowhit == << {}, {}, {}, {"RD", "WR"} >>
lambda == << NoRules,
             [PREA |-> CloseBelow({1, 2}), PDE |-> EnterPowerDown(2), PDX |-> Become("PowerUp"),
              SRE |-> Become("SelfRefresh"), SRX |-> Become("PowerUp")],
             [ACT |-> Open, PRE |-> CloseBelow({0, 1}), RDA |-> Close, WRA |-> Close, REFPB |-> Close],
             [ACT |-> Open, RDA |-> Close, WRA |-> Close] >>

(* speed_entry of DSARP_1333 with the values init_speed adds.                   *)
Speed == [nBL |-> 4, nCCD |-> 4, nRTRS |-> 2, nCL |-> 9, nRCD |-> 9, nRPpb |-> 8, nRPab |-> 9, nCWL |-> 7,
          nRAS |-> 24, nRC |-> 33, nRTP |-> 5, nWTR |-> 5, nWR |-> 10, nRRD |-> 5, nFAW |-> 30, nPD |-> 4,
          nXP |-> 4, nCKESR |-> 5, nXS |-> 114]
init_speed == [nRFCab |-> 234, nRFCpb |-> 109]
(* ceil(nRRD * nRRD_factor), for commands to two subarrays of a bank.           *)
nRRD_subarrays == 6
LOCAL s == Speed
LOCAL x == init_speed
read_latency == s.nCL + s.nBL
LOCAL Written == s.nCWL + s.nBL + s.nWR

ChannelTiming == BurstTiming(Reads, Writes, s.nBL)
LOCAL Names == [acts |-> {"ACT"}, refs |-> Refreshing, pres |-> {"PRE", "PREA"}, cas |-> Cas,
                pd |-> "PDE", sr |-> "SRE", srx |-> "SRX"]
RankTiming ==
  CasTiming(Reads, Writes, s.nCCD, s.nCL + s.nCCD + 2 - s.nCWL, s.nCWL + s.nBL + s.nWTR)
  \cup AcrossRanks(Reads, Writes, s.nBL + s.nRTRS, s.nCL + s.nBL + s.nRTRS - s.nCWL, s.nCWL + s.nBL + s.nRTRS - s.nCL)
  \cup After({"RD"}, {"PREA"}, s.nRTP) \cup After({"WR"}, {"PREA"}, Written)
  \cup After({"ACT"}, {"ACT"}, s.nRRD) \cup Window({"ACT"}, {"ACT"}, 4, s.nFAW)
  \cup After({"ACT"}, {"PREA"}, s.nRAS) \cup After({"PREA"}, {"ACT", "REF", "SRE"}, s.nRPab)
  \cup After({"PRE"}, {"REF", "SRE"}, s.nRPpb) \cup After({"REF"}, {"ACT", "REF", "REFPB"}, x.nRFCab)
  \cup After({"REFPB"}, {"REF", "REFPB"}, x.nRFCpb)
  \cup PowerTiming(Names, s.nCL + s.nBL + 1, Written, s.nXP, s.nPD, s.nXS, s.nCKESR)
(* Within a bank and within a subarray the same commands wait for one another.  *)
LOCAL RowTiming ==
  After({"ACT"}, Cas, s.nRCD) \cup After({"RD"}, {"PRE"}, s.nRTP) \cup After({"WR"}, {"PRE"}, Written)
  \cup After({"RDA"}, {"ACT"}, s.nRTP + s.nRPpb) \cup After({"WRA"}, {"ACT"}, Written + s.nRPpb)
  \cup After({"ACT"}, {"ACT"}, s.nRC) \cup After({"ACT"}, {"PRE"}, s.nRAS)
  \cup After({"PRE"}, {"ACT", "REFPB"}, s.nRPpb)
BankTiming ==
  RowTiming \cup After({"REFPB"}, {"REFPB"}, x.nRFCpb) \cup Sibling({"REFPB"}, {"REFPB"}, x.nRFCpb)
  \cup Sibling({"ACT"}, {"REFPB"}, s.nRRD) \cup Sibling({"REFPB"}, {"ACT"}, s.nRRD)
(* (Mutant: a bank refresh takes no time in its subarray.)                      *)
RefreshOfRank == After({"REF"}, {"ACT"}, x.nRFCab)
RefreshTiming == After({"REF"}, {"ACT"}, x.nRFCab) \cup After({"REFPB"}, {"ACT"}, x.nRFCpb)
SubArrayTiming ==
  RowTiming \cup After({"PRE"}, {"REF"}, s.nRPpb)
  \cup RefreshTiming
  \cup Sibling({"ACT"}, {"REFPB"}, nRRD_subarrays) \cup Sibling({"REFPB"}, {"ACT"}, nRRD_subarrays)
  \cup Sibling({"ACT"}, {"ACT"}, s.nRC) \cup Sibling({"PRE"}, {"ACT"}, s.nRPpb)
  \cup Sibling({"RDA"}, {"ACT"}, s.nRTP + s.nRPpb) \cup Sibling({"WRA"}, {"ACT"}, Written + s.nRPpb)

(* A bank refresh keeps a row of its own subarray closed for nRFCpb.            *)
Promise == [bl |-> s.nBL, readAt |-> s.nCL, writeAt |-> s.nCWL,
            rcd |-> [p \in Opening \X Accessing |-> s.nRCD], ras |-> SameRule(Opening, s.nRAS),
            rp |-> [c \in Closing |-> IF c = "PREA" THEN s.nRPab ELSE s.nRPpb], rtp |-> s.nRTP, recover |-> Written,
            acts |-> 4, faw |-> s.nFAW, rfc |-> [c \in Refreshing |-> IF c = "REF" THEN x.nRFCab ELSE x.nRFCpb]]
Standard == [level |-> Level, command |-> Command, opening |-> Opening, accessing |-> Accessing, closing |-> Closing,
             refreshing |-> Refreshing, scope |-> scope, start |-> start, translate |-> translate, prereq |-> prereq,
             rowhit |-> rowhit, lambda |-> lambda, read_latency |-> read_latency, promise |-> Promise,
             timing |-> Compiled(<<ChannelTiming, RankTiming, BankTiming, SubArrayTiming>>, Command)]
=============================================================================
