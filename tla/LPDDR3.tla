------------------------------- MODULE LPDDR3 -------------------------------
(* The standard of LPDDR3.h and LPDDR3.cpp, LPDDR3_1600 at 8Gb x16.           *)
EXTENDS DramTables

Level == <<"Channel", "Rank", "Bank">>
Opening == {"ACT"}
Accessing == Cas
Closing == {"RDA", "WRA", "PRE", "PRA"}
Refreshing == {"REF", "REFPB"}
Command == Opening \cup Accessing \cup Closing \cup Refreshing \cup {"PD", "PDX", "SREF", "SREFX"}

scope == [c \in Command |-> CASE c \in Opening \cup Accessing -> 4
                              [] c \in {"PRE", "REFPB"} -> 3
                              [] OTHER -> 2]
start == <<"MAX", "PowerUp", "Closed">>
translate == [READ |-> "RD", WRITE |-> "WR", REFRESH |-> "REF", POWERDOWN |-> "PD", SELFREFRESH |-> "SREF"]

prereq == << NoRules,
             [RD |-> Awake("SREFX"), WR |-> Awake("SREFX"), REF |-> OnceClosed(1, "PRA"),
              PD |-> PowerDown("PD", "SREFX"), SREF |-> SelfRefresh("SREF")],
             [RD |-> OpenRow("ACT", "PRE"), WR |-> OpenRow("ACT", "PRE"), REFPB |-> OnceClosed(0, "PRE")] >>
rowhit == << {}, {}, {"RD", "WR"} >>
lambda == << NoRules,
             [PRA |-> CloseBelow({1}), PD |-> EnterPowerDown(1), PDX |-> Become("PowerUp"),
              SREF |-> Become("SelfRefresh"), SREFX |-> Become("PowerUp")],
             [ACT |-> Open, PRE |-> Close, RDA |-> Close, WRA |-> Close] >>
Speed == [nBL |-> 4, nCCD |-> 4, nRTRS |-> 2, nDQSCK |-> 2, nCL |-> 12, nRCD |-> 15, nRPpb |-> 15, nRPab |-> 17,
          nCWL |-> 6, nRAS |-> 34, nRC |-> 48, nRTP |-> 6, nWTR |-> 6, nWR |-> 12, nRRD |-> 8, nFAW |-> 40,
          nCKE |-> 6, nXP |-> 6, nCKESR |-> 12]
init_speed == [nRFCpb |-> 72, nRFCab |-> 168, nXSR |-> 176]
LOCAL s == Speed
LOCAL x == init_speed
read_latency == s.nCL + s.nDQSCK + s.nBL
LOCAL Written == s.nCWL + s.nBL + s.nWR
LOCAL RPab == s.nRPab

ChannelTiming == BurstTiming(Reads, Writes, s.nBL)
LOCAL Names == [acts |-> {"ACT"}, refs |-> {"REF", "REFPB"}, pres |-> {"PRE", "PRA"}, cas |-> Cas,
                pd |-> "PD", sr |-> "SREF", srx |-> "SREFX"]
RankTiming ==
  CasTiming(Reads, Writes, s.nCCD, s.nCL + s.nBL + s.nDQSCK + 1 - s.nCWL, s.nCWL + s.nBL + s.nWTR + 1)
  \cup AcrossRanks(Reads, Writes, s.nBL + s.nRTRS, s.nCL + s.nBL + s.nDQSCK + 1 + s.nRTRS - s.nCWL,
                   s.nCWL + s.nBL + s.nRTRS - s.nCL)
  \cup After({"RD"}, {"PRA"}, s.nRTP) \cup After({"WR"}, {"PRA"}, Written)
  \cup After({"ACT"}, {"ACT"}, s.nRRD) \cup Window({"ACT"}, {"ACT"}, 4, s.nFAW)
  \cup After({"ACT"}, {"PRA"}, s.nRAS) \cup After({"PRA"}, {"ACT", "REF", "SREF"}, RPab)
  \cup After({"PRE"}, {"REF", "SREF"}, s.nRPpb) \cup After({"REF"}, {"ACT", "REF", "REFPB"}, x.nRFCab)
  \cup After({"REFPB"}, {"REF"}, x.nRFCpb)
  \cup PowerTiming(Names, s.nCL + s.nBL + 1, Written, s.nXP, s.nCKE, x.nXSR, s.nCKESR)
BankTiming ==
  After({"ACT"}, Cas, s.nRCD) \cup After({"RD"}, {"PRE"}, s.nRTP) \cup After({"WR"}, {"PRE"}, Written)
  \cup After({"RDA"}, {"ACT"}, s.nRTP + s.nRPpb) \cup After({"WRA"}, {"ACT"}, Written + s.nRPpb)
  \cup After({"ACT"}, {"ACT"}, s.nRC) \cup After({"ACT"}, {"PRE"}, s.nRAS)
  \cup After({"PRE"}, {"ACT", "REFPB"}, s.nRPpb) \cup After({"REFPB"}, {"REFPB", "ACT"}, x.nRFCpb)
  \cup Sibling({"ACT"}, {"REFPB"}, s.nRRD) \cup Sibling({"REFPB"}, {"ACT"}, s.nRRD)

Promise == [bl |-> s.nBL, readAt |-> s.nCL + s.nDQSCK, writeAt |-> s.nCWL,
            rcd |-> [p \in Opening \X Accessing |-> s.nRCD], ras |-> SameRule(Opening, s.nRAS),
            rp |-> [c \in Closing |-> IF c = "PRA" THEN RPab ELSE s.nRPpb], rtp |-> s.nRTP, recover |-> Written,
            acts |-> 4, faw |-> s.nFAW, rfc |-> [c \in Refreshing |-> IF c = "REF" THEN x.nRFCab ELSE x.nRFCpb]]
Standard == [level |-> Level, command |-> Command, opening |-> Opening, accessing |-> Accessing, closing |-> Closing,
             refreshing |-> Refreshing, scope |-> scope, start |-> start, translate |-> translate, prereq |-> prereq,
             rowhit |-> rowhit, lambda |-> lambda, read_latency |-> read_latency, promise |-> Promise,
             timing |-> Compiled(<<ChannelTiming, RankTiming, BankTiming>>, Command)]
=============================================================================
