------------------------------- MODULE TLDRAM -------------------------------
(* The standard of TLDRAM.h and TLDRAM.cpp, TLDRAM_1600K at 4Gb x8: the first  *)
(* row of every segment of segment_ratio rows is near, the others are far, and *)
(* a migration (MIG) reads a far row into a near one.                          *)
EXTENDS DramTables

Level == <<"Channel", "Rank", "Bank">>
Opening == {"ACT", "ACTF", "ACTM"}
Accessing == {"RD", "WR", "MIG"}
Closing == {"PRE", "PREA", "PREF", "PREAF", "PREM", "PREAM"}
Refreshing == {"REF"}
Command == Opening \cup Accessing \cup Closing \cup Refreshing \cup {"PDE", "PDX", "SRE", "SRX"}
LOCAL Rows == {"PRE", "PREF", "PREM"}
LOCAL Loads == {"RD", "MIG"}

scope == [c \in Command |-> CASE c \in Opening \cup Accessing -> 4
                              [] c \in Rows -> 3
                              [] OTHER -> 2]
start == <<"MAX", "PowerUp", "Closed">>
translate == [READ |-> "RD", WRITE |-> "WR", REFRESH |-> "REF", POWERDOWN |-> "PDE", SELFREFRESH |-> "SRE",
              EXTENSION |-> "MIG"]

segment_ratio == 16
LOCAL Access == BySegment(segment_ratio, OpenRow("ACTF", "PREF"), OpenRow("ACT", "PRE"))
prereq == << NoRules,
             [RD |-> Awake("SRX"), WR |-> Awake("SRX"), MIG |-> Awake("SRX"), REF |-> OnceClosed(1, "PREA"),
              PDE |-> PowerDown("PDE", "SRX"), SRE |-> SelfRefresh("SRE")],
             [RD |-> Access, WR |-> Access, MIG |-> OpenRow("ACTM", "PREM")] >>
rowhit == << {}, {}, {"RD", "WR"} >>
lambda == << NoRules,
             [PREA |-> CloseBelow({1}), PREAF |-> CloseBelow({1}), PREAM |-> CloseBelow({1}), PDE |-> EnterPowerDown(1),
              PDX |-> Become("PowerUp"), SRE |-> Become("SelfRefresh"), SRX |-> Become("PowerUp")],
             [c \in Opening \cup Rows |-> IF c \in Opening THEN Open ELSE Close] >>

(* speed_entry of TLDRAM_1600K with the values init_speed adds.                *)
Speed == [nBL |-> 4, nCCD |-> 4, nRTRS |-> 2, nCL |-> 11, nRCD |-> 11, nRP |-> 11, nCWL |-> 8,
          nRAS |-> 28, nRC |-> 39, nRTP |-> 6, nWTR |-> 6, nWR |-> 12, nPD |-> 4, nXP |-> 5, nCKESR |-> 5,
          nRCDF |-> 3, nRPF |-> 3, nRASF |-> 10, nRCF |-> 13, nRCDM |-> 6, nRPM |-> 6, nRASM |-> 20, nRCM |-> 26]
init_speed == [nRRD |-> 5, nFAW |-> 24, nRFC |-> 208, nXS |-> 216]
LOCAL s == Speed
LOCAL x == init_speed
read_latency == s.nCL + s.nBL
LOCAL Written == s.nCWL + s.nBL + s.nWR

ChannelTiming == BurstTiming(Loads, {"WR"}, s.nBL)
LOCAL Names == [acts |-> Opening, refs |-> {"REF"}, pres |-> Rows, cas |-> Accessing,
                pd |-> "PDE", sr |-> "SRE", srx |-> "SRX"]
RankTiming ==
  CasTiming(Loads, {"WR"}, s.nCCD, s.nCL + s.nCCD + 2 - s.nCWL, s.nCWL + s.nBL + s.nWTR)
  \cup AcrossRanks(Loads, {"WR"}, s.nBL + s.nRTRS, s.nCL + s.nBL + s.nRTRS - s.nCWL, s.nCWL + s.nBL + s.nRTRS - s.nCL)
  \cup After(Loads, {"PREA", "PREAF", "PREAM"}, s.nRTP) \cup After({"WR"}, {"PREA", "PREAF", "PREAM"}, Written)
  \cup After(Opening, Opening, x.nRRD) \cup Window(Opening, Opening, 4, x.nFAW)
  \cup After({"ACT"}, Closing, s.nRAS) \cup After({"ACTF"}, Closing, s.nRASF) \cup After({"ACTM"}, Closing, s.nRASM)
  \cup After({"PRE"}, Opening, s.nRP) \cup After({"PREF"}, Opening, s.nRPF) \cup After({"PREM"}, Opening, s.nRPM)
  \cup After({"PRE", "PREA"}, {"REF", "SRE"}, s.nRP) \cup After({"PREF", "PREAF"}, {"REF", "SRE"}, s.nRPF)
  \cup After({"PREM", "PREAM"}, {"REF", "SRE"}, s.nRPM) \cup After({"REF"}, Opening \cup {"REF"}, x.nRFC)
  \cup PowerTiming(Names, s.nCL + s.nBL + 1, Written, s.nXP, s.nPD, x.nXS, s.nCKESR)
WriteRecovery == After({"WR"}, {"PRE", "PREF"}, Written)
BankTiming ==
  After({"ACT"}, Accessing, s.nRCD) \cup After({"ACTF"}, Accessing, s.nRCDF) \cup After({"ACTM"}, Accessing, s.nRCDM)
  \cup After(Loads, Rows, s.nRTP) \cup WriteRecovery
  \cup After({"ACT"}, Opening, s.nRC) \cup After({"ACTF"}, Opening, s.nRCF) \cup After({"ACTM"}, Opening, s.nRCM)
  \cup After({"ACT"}, Rows, s.nRAS) \cup After({"ACTF"}, Rows, s.nRASF) \cup After({"ACTM"}, Rows, s.nRASM)
  \cup After({"PRE"}, Opening, s.nRP) \cup After({"PREF"}, Opening, s.nRPF) \cup After({"PREM"}, Opening, s.nRPM)

(* What the names of SpeedEntry promise; each kind of row has its own values.   *)
LOCAL ByKind(c, far, near, mig) ==
  CASE c \in {"ACT", "PRE", "PREA"} -> far [] c \in {"ACTF", "PREF", "PREAF"} -> near [] OTHER -> mig
Promise == [bl |-> s.nBL, readAt |-> s.nCL, writeAt |-> s.nCWL,
            rcd |-> [p \in Opening \X Accessing |-> ByKind(p[1], s.nRCD, s.nRCDF, s.nRCDM)],
            ras |-> [c \in Opening |-> ByKind(c, s.nRAS, s.nRASF, s.nRASM)],
            rp |-> [c \in Closing |-> ByKind(c, s.nRP, s.nRPF, s.nRPM)], rtp |-> s.nRTP, recover |-> Written,
            acts |-> 4, faw |-> x.nFAW, rfc |-> SameRule(Refreshing, x.nRFC)]
Standard == [level |-> Level, command |-> Command, opening |-> Opening, accessing |-> Accessing, closing |-> Closing,
             refreshing |-> Refreshing, scope |-> scope, start |-> start, translate |-> translate, prereq |-> prereq,
             rowhit |-> rowhit, lambda |-> lambda, read_latency |-> read_latency, promise |-> Promise,
             timing |-> Compiled(<<ChannelTiming, RankTiming, BankTiming>>, Command)]
=============================================================================
