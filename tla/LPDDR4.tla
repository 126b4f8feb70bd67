------------------------------- MODULE LPDDR4 -------------------------------
(* The standard of LPDDR4.h and LPDDR4.cpp, LPDDR4_2400 at 8Gb x16 (two       *)
(* channels of 4Gb). REFPB has timing but no prerequisite; nCKE is zero.      *)
EXTENDS DramTables

Level == <<"Channel", "Rank", "Bank">>
Opening == {"ACT"}
Accessing == Cas
Closing == {"RDA", "WRA", "PRE", "PREA"}
Refreshing == {"REF", "REFPB"}
Command == Opening \cup Accessing \cup Closing \cup Refreshing \cup {"PDE", "PDX", "SREF", "SREFX"}

scope == [c \in Command |-> CASE c \in Opening \cup Accessing -> 4
                              [] c \in {"PRE", "REFPB"} -> 3
                              [] OTHER -> 2]
start == <<"MAX", "PowerUp", "Closed">>
translate == [READ |-> "RD", WRITE |-> "WR", REFRESH |-> "REF", POWERDOWN |-> "PDE", SELFREFRESH |-> "SREF"]

prereq == << NoRules,
             [RD |-> Awake("SREFX"), WR |-> Awake("SREFX"), REF |-> OnceClosed(1, "PREA"),
              PDE |-> PowerDown("PDE", "SREFX"), SREF |-> SelfRefresh("SREF")],
             [RD |-> OpenRow("ACT", "PRE"), WR |-> OpenRow("ACT", "PRE")] >>
rowhit == << {}, {}, {"RD", "WR"} >>
lambda == << NoRules,
             [PREA |-> CloseBelow({1}), PDE |-> EnterPowerDown(1), PDX |-> Become("PowerUp"),
              SREF |-> Become("SelfRefresh"), SREFX |-> Become("PowerUp")],
             [ACT |-> Open, PRE |-> Close, RDA |-> Close, WRA |-> Close] >>
Speed == [nBL |-> 8, nCCD |-> 8, nRTRS |-> 2, nDQSCK |-> 2, nCL |-> 25, nRCD |-> 22, nRPpb |-> 20, nRPab |-> 24,
          nCWL |-> 14, nRAS |-> 51, nRC |-> 71, nRTP |-> 11, nWTR |-> 12, nWR |-> 21, nPPD |-> 4, nRRD |-> 12,
          nFAW |-> 48, nCKE |-> 0, nXP |-> 9, nSR |-> 18]
init_speed == [nRFCpb |-> 108, nRFCab |-> 216, nXSR |-> 225]
LOCAL s == Speed
LOCAL x == init_speed
read_latency == s.nCL + s.nDQSCK + s.nBL
LOCAL Written == s.nCWL + s.nBL + s.nWR
LOCAL RPab == s.nRPab

ChannelTiming == BurstTiming(Reads, Writes, s.nBL)
LOCAL Names == [acts |-> {"ACT"}, refs |-> {"REF", "REFPB"}, pres |-> {"PRE", "PREA"}, cas |-> Cas,
                pd |-> "PDE", sr |-> "SREF", srx |-> "SREFX"]
RankTiming ==
  CasTiming(Reads, Writes, s.nCCD, s.nCL + s.nBL + s.nDQSCK + 1 - s.nCWL, s.nCWL + s.nBL + s.nWTR + 1)
  \cup AcrossRanks(Reads, Writes, s.nBL + s.nRTRS, s.nCL + s.nBL + s.nDQSCK + 1 + s.nRTRS - s.nCWL,
                   s.nCWL + s.nBL + s.nRTRS - s.nCL)
  \cup After({"RD"}, {"PREA"}, s.nRTP) \cup After({"WR"}, {"PREA"}, Written)
  \cup After({"ACT"}, {"ACT"}, s.nRRD) \cup Window({"ACT"}, {"ACT"}, 4, s.nFAW)
  \cup After({"PRE"}, {"PRE"}, s.nPPD)
  \cup After({"ACT"}, {"PREA"}, s.nRAS) \cup After({"PREA"}, {"ACT", "REF", "SREF"}, RPab)
  \cup After({"PRE"}, {"REF", "SREF"}, s.nRPpb) \cup After({"REF"}, {"ACT", "REF", "REFPB"}, x.nRFCab)
  \cup After({"REFPB"}, {"REF"}, x.nRFCpb)
  \cup PowerTiming(Names, s.nCL + s.nBL + 1, Written, s.nXP, s.nCKE, x.nXSR, s.nSR)
BankTiming ==
  After({"ACT"}, Cas, s.nRCD) \cup After({"RD"}, {"PRE"}, s.nRTP) \cup After({"WR"}, {"PRE"}, Written)
  \cup After({"RDA"}, {"ACT"}, s.nRTP + s.nRPpb) \cup After({"WRA"}, {"ACT"}, Written + s.nRPpb)
  \cup After({"ACT"}, {"ACT"}, s.nRC) \cup After({"ACT"}, {"PRE"}, s.nRAS)
  \cup After({"PRE"}, {"ACT", "REFPB"}, s.nRPpb) \cup After({"REFPB"}, {"REFPB", "ACT"}, x.nRFCpb)
  \cup Sibling({"ACT"}, {"REFPB"}, s.nRRD) \cup Sibling({"REFPB"}, {"ACT"}, s.nRRD)

Promise == [bl |-> s.nBL, readAt |-> s.nCL + s.nDQSCK, writeAt |-> s.nCWL,
            rcd |-> [p \in Opening \X Accessing |-> s.nRCD], ras |-> SameRule(Opening, s.nRAS),
            rp |-> [c \in Closing |-> IF c = "PREA" THEN RPab ELSE s.nRPpb], rtp |-> s.nRTP, recover |-> Written,
            acts |-> 4, faw |-> s.nFAW, rfc |-> [c \in Refreshing |-> IF c = "REF" THEN x.nRFCab ELSE x.nRFCpb]]
Standard == [level |-> Level, command |-> Command, opening |-> Opening, accessing |-> Accessing, closing |-> Closing,
             refreshing |-> Refreshing, scope |-> scope, start |-> start, translate |-> translate, prereq |-> prereq,
             rowhit |-> rowhit, lambda |-> lambda, read_latency |-> read_latency, promise |-> Promise,
             timing |-> Compiled(<<ChannelTiming, RankTiming, BankTiming>>, Command)]
=============================================================================
