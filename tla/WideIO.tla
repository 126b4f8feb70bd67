------------------------------- MODULE WideIO -------------------------------
(* The standard of WideIO.h and WideIO.cpp, WideIO_266 at 8Gb. A rank has no  *)
(* sibling; two activates per window; nXSR is never set and stays zero.       *)
EXTENDS DramTables

Level == <<"Channel", "Rank", "Bank">>
Opening == {"ACT"}
Accessing == Cas
Closing == {"RDA", "WRA", "PRE", "PRA"}
Refreshing == {"REF"}
Command == Opening \cup Accessing \cup Closing \cup Refreshing \cup {"PD", "PDX", "SREF", "SREFX"}

scope == [c \in Command |-> CASE c \in Opening \cup Accessing -> 4
                              [] c \in {"PRE"} -> 3
                              [] OTHER -> 2]
start == <<"MAX", "PowerUp", "Closed">>
translate == [READ |-> "RD", WRITE |-> "WR", REFRESH |-> "REF", POWERDOWN |-> "PD", SELFREFRESH |-> "SREF"]

prereq == << NoRules,
             [RD |-> Awake("SREFX"), WR |-> Awake("SREFX"), REF |-> OnceClosed(1, "PRA"),
              PD |-> PowerDown("PD", "SREFX"), SREF |-> SelfRefresh("SREF")],
             [RD |-> OpenRow("ACT", "PRE"), WR |-> OpenRow("ACT", "PRE")] >>
rowhit == << {}, {}, {"RD", "WR"} >>
lambda == << NoRules,
             [PRA |-> CloseBelow({1}), PD |-> EnterPowerDown(1), PDX |-> Become("PowerUp"),
              SREF |-> Become("SelfRefresh"), SREFX |-> Become("PowerUp")],
             [ACT |-> Open, PRE |-> Close, RDA |-> Close, WRA |-> Close] >>
Speed == [nBL |-> 4, nCCD |-> 4, nDQSCK |-> 1, nCL |-> 3, nRCD |-> 5, nRP |-> 5, nCWL |-> 1, nRAS |-> 12,
          nRC |-> 16, nRTP |-> 4, nRTW |-> 8, nWTR |-> 4, nWR |-> 4, nRRD |-> 3, nTAW |-> 14,
          nCKE |-> 3, nXP |-> 3, nCKESR |-> 4, nXSR |-> 0]
init_speed == [nRFC |-> 56]
LOCAL s == Speed
LOCAL x == init_speed
read_latency == s.nCL + s.nDQSCK + s.nBL
LOCAL Written == s.nCWL + s.nBL + s.nWR

ChannelTiming == BurstTiming(Reads, Writes, s.nBL)
LOCAL Names == [acts |-> {"ACT"}, refs |-> {"REF"}, pres |-> {"PRE", "PRA"}, cas |-> Cas,
                pd |-> "PD", sr |-> "SREF", srx |-> "SREFX"]
RankTiming ==
  CasTiming(Reads, Writes, s.nCCD, s.nRTW, s.nCWL + s.nBL + s.nWTR)
  \cup After({"RD"}, {"PRA"}, s.nRTP) \cup After({"WR"}, {"PRA"}, Written)
  \cup After({"ACT"}, {"ACT"}, s.nRRD) \cup Window({"ACT"}, {"ACT"}, 2, s.nTAW)
  \cup After({"ACT"}, {"PRA"}, s.nRAS) \cup After({"PRA"}, {"ACT", "REF", "SREF"}, s.nRP)
  \cup After({"PRE"}, {"REF", "SREF"}, s.nRP) \cup After({"REF"}, {"ACT", "REF"}, x.nRFC)
  \cup PowerTiming(Names, s.nCL + s.nBL + 1, Written, s.nXP, s.nCKE, s.nXSR, s.nCKESR)
BankTiming ==
  After({"ACT"}, Cas, s.nRCD) \cup After({"RD"}, {"PRE"}, s.nRTP) \cup After({"WR"}, {"PRE"}, Written)
  \cup After({"RDA"}, {"ACT"}, s.nRTP + s.nRP) \cup After({"WRA"}, {"ACT"}, Written + s.nRP)
  \cup After({"ACT"}, {"ACT"}, s.nRC) \cup After({"ACT"}, {"PRE"}, s.nRAS) \cup After({"PRE"}, {"ACT"}, s.nRP)

Promise == [bl |-> s.nBL, readAt |-> s.nCL + s.nDQSCK, writeAt |-> s.nCWL,
            rcd |-> [p \in Opening \X Accessing |-> s.nRCD], ras |-> SameRule(Opening, s.nRAS),
            rp |-> SameRule(Closing, s.nRP), rtp |-> s.nRTP, recover |-> Written,
            acts |-> 2, faw |-> s.nTAW, rfc |-> SameRule(Refreshing, x.nRFC)]
Standard == [level |-> Level, command |-> Command, opening |-> Opening, accessing |-> Accessing, closing |-> Closing,
             refreshing |-> Refreshing, scope |-> scope, start |-> start, translate |-> translate, prereq |-> prereq,
             rowhit |-> rowhit, lambda |-> lambda, read_latency |-> read_latency, promise |-> Promise,
             timing |-> Compiled(<<ChannelTiming, RankTiming, BankTiming>>, Command)]
=============================================================================
