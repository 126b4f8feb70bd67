------------------------------- MODULE ALDRAM -------------------------------
(* The standard of ALDRAM.h and ALDRAM.cpp, ALDRAM_1600K at 4Gb x8 and hot.   *)
(* init_timing takes the entry of speed_table, in which nRRD, nFAW, nRFC and  *)
(* nXS are still zero: init_speed sets them in the copy speed_entry.          *)
EXTENDS DramTables

Level == <<"Channel", "Rank", "Bank">>
Opening == {"ACT"}
Accessing == Cas
Closing == {"RDA", "WRA", "PRE", "PREA"}
Refreshing == {"REF"}
Command == Opening \cup Accessing \cup Closing \cup Refreshing \cup {"PDE", "PDX", "SRE", "SRX"}

scope == [c \in Command |-> CASE c \in Opening \cup Accessing -> 4
                              [] c \in {"PRE"} -> 3
                              [] OTHER -> 2]
start == <<"MAX", "PowerUp", "Closed">>
translate == [READ |-> "RD", WRITE |-> "WR", REFRESH |-> "REF", POWERDOWN |-> "PDE", SELFREFRESH |-> "SRE"]

prereq == << NoRules,
             [RD |-> Awake("SRX"), WR |-> Awake("SRX"), REF |-> OnceClosed(1, "PREA"),
              PDE |-> PowerDown("PDE", "SRX"), SRE |-> SelfRefresh("SRE")],
             [RD |-> OpenRow("ACT", "PRE"), WR |-> OpenRow("ACT", "PRE")] >>
rowhit == << {}, {}, {"RD", "WR"} >>
lambda == << NoRules,
             [PREA |-> CloseBelow({1}), PDE |-> EnterPowerDown(1), PDX |-> Become("PowerUp"),
              SRE |-> Become("SelfRefresh"), SRX |-> Become("PowerUp")],
             [ACT |-> Open, PRE |-> Close, RDA |-> Close, WRA |-> Close] >>
Speed == [nBL |-> 4, nCCD |-> 4, nRTRS |-> 2, nCL |-> 11, nRCD |-> 11, nRP |-> 11, nCWL |-> 8,
          nRAS |-> 28, nRC |-> 39, nRTP |-> 6, nWTR |-> 6, nWR |-> 12, nPD |-> 4, nXP |-> 5, nCKESR |-> 5]
speed_table == [nRRD |-> 0, nFAW |-> 0, nRFC |-> 0, nXS |-> 0]
init_speed == [nRRD |-> 5, nFAW |-> 24, nRFC |-> 208, nXS |-> 216]
LOCAL s == Speed
LOCAL x == speed_table
read_latency == s.nCL + s.nBL
LOCAL Written == s.nCWL + s.nBL + s.nWR

ChannelTiming == BurstTiming(Reads, Writes, s.nBL)
LOCAL Names == [acts |-> {"ACT"}, refs |-> {"REF"}, pres |-> {"PRE", "PREA"}, cas |-> Cas,
                pd |-> "PDE", sr |-> "SRE", srx |-> "SRX"]
RankTiming ==
  CasTiming(Reads, Writes, s.nCCD, s.nCL + s.nCCD + 2 - s.nCWL, s.nCWL + s.nBL + s.nWTR)
  \cup AcrossRanks(Reads, Writes, s.nBL + s.nRTRS, s.nCL + s.nBL + s.nRTRS - s.nCWL, s.nCWL + s.nBL + s.nRTRS - s.nCL)
  \cup After({"RD"}, {"PREA"}, s.nRTP) \cup After({"WR"}, {"PREA"}, Written)
  \cup After({"ACT"}, {"ACT"}, x.nRRD) \cup Window({"ACT"}, {"ACT"}, 4, x.nFAW)
  \cup After({"ACT"}, {"PREA"}, s.nRAS) \cup After({"PREA"}, {"ACT"}, s.nRP)
  \cup After({"PRE", "PREA"}, {"REF", "SRE"}, s.nRP) \cup After({"REF"}, {"ACT", "REF"}, x.nRFC)
  \cup PowerTiming(Names, s.nCL + s.nBL + 1, Written, s.nXP, s.nPD, x.nXS, s.nCKESR)
BankTiming ==
  After({"ACT"}, Cas, s.nRCD) \cup After({"RD"}, {"PRE"}, s.nRTP) \cup After({"WR"}, {"PRE"}, Written)
  \cup After({"RDA"}, {"ACT"}, s.nRTP + s.nRP) \cup After({"WRA"}, {"ACT"}, Written + s.nRP)
  \cup After({"ACT"}, {"ACT"}, s.nRC) \cup After({"ACT"}, {"PRE"}, s.nRAS) \cup After({"PRE"}, {"ACT"}, s.nRP)

Promise == [bl |-> s.nBL, readAt |-> s.nCL, writeAt |-> s.nCWL,
            rcd |-> [p \in Opening \X Accessing |-> s.nRCD], ras |-> SameRule(Opening, s.nRAS),
            rp |-> SameRule(Closing, s.nRP), rtp |-> s.nRTP, recover |-> Written,
            acts |-> 4, faw |-> init_speed.nFAW, rfc |-> SameRule(Refreshing, init_speed.nRFC)]
Standard == [level |-> Level, command |-> Command, opening |-> Opening, accessing |-> Accessing, closing |-> Closing,
             refreshing |-> Refreshing, scope |-> scope, start |-> start, translate |-> translate, prereq |-> prereq,
             rowhit |-> rowhit, lambda |-> lambda, read_latency |-> read_latency, promise |-> Promise,
             timing |-> Compiled(<<ChannelTiming, RankTiming, BankTiming>>, Command)]
=============================================================================
