-------------------------------- MODULE SALP --------------------------------
(* The standard of SALP.h and SALP.cpp, SALP_1600K at 4Gb x8: banks of         *)
(* subarrays, in the three types that let them overlap more and more.          *)
EXTENDS DramTables
LOCAL INSTANCE TLC

type == {"SALP_1", "SALP_2", "MASA"}
Level == <<"Channel", "Rank", "Bank", "SubArray">>
Opening == {"ACT"}
Accessing == Cas
Closing == {"RDA", "WRA", "PRE", "PRER", "PRE_OTHER"}
Refreshing == {"REF"}
Command == Opening \cup Accessing \cup Closing \cup Refreshing \cup {"SASEL", "PDE", "PDX", "SRE", "SRX"}

scope == [t \in type |-> [c \in Command |->
  CASE c \in Opening \cup Accessing -> 5
    [] c = "PRE" /\ t = "SALP_1" -> 3
    [] c \in {"SASEL", "PRE", "PRE_OTHER"} -> 4
    [] OTHER -> 2]]
start == <<"MAX", "PowerUp", "Closed", "Closed">>
translate == [READ |-> "RD", WRITE |-> "WR", REFRESH |-> "REF", POWERDOWN |-> "PDE", SELFREFRESH |-> "SRE"]

(* SALP-1 keeps one row per bank, SALP-2 closes the other row before it        *)
(* accesses the new one, and MASA keeps the rows and selects one subarray.     *)
LOCAL BankRule == ByState([Closed |-> "ACT", Opened |-> "MAX"])
LOCAL SubArrayRule == [SALP_1 |-> OpenRow("PRE_OTHER", "PRE"),
                       SALP_2 |-> ThenAlone(OpenRow("ACT", "PRE")),
                       MASA |-> ThenSelected(OpenRow("ACT", "PRE"))]
LOCAL ClosedLevel(t) == IF t = "SALP_1" THEN 1 ELSE 2
prereq == [t \in type |->
  << NoRules,
     [RD |-> Awake("SRX"), WR |-> Awake("SRX"), REF |-> OnceClosed(ClosedLevel(t), "PRER"),
      PDE |-> PowerDown("PDE", "SRX"), SRE |-> SelfRefresh("SRE")],
     IF t = "SALP_1" THEN [RD |-> BankRule, WR |-> BankRule] ELSE NoRules,
     [RD |-> SubArrayRule[t], WR |-> SubArrayRule[t]] >>]
rowhit == << {}, {}, {}, {"RD", "WR"} >>
LOCAL BankLambda ==
  [ACT |-> Become("Opened")] @@ SameRule({"PRE", "PRE_OTHER", "RDA", "WRA"}, CloseWithChild)
LOCAL SubArrayLambda ==
  [SALP_1 |-> [ACT |-> Open],
   SALP_2 |-> [ACT |-> Open] @@ SameRule({"PRE", "PRE_OTHER", "RDA", "WRA"}, Close),
   MASA |-> [ACT |-> OpenSelected, SASEL |-> Select] @@ SameRule({"PRE", "RDA", "WRA"}, Close)]
lambda == [t \in type |->
  << NoRules,
     [PRER |-> CloseBelow(ClosedLevel(t) .. 2), PDE |-> EnterPowerDown(ClosedLevel(t)), PDX |-> Become("PowerUp"),
      SRE |-> Become("SelfRefresh"), SRX |-> Become("PowerUp")],
     IF t = "SALP_1" THEN BankLambda ELSE NoRules,
     SubArrayLambda[t] >>]

(* speed_entry of SALP_1600K with the values init_speed adds.                  *)
Speed == [nBL |-> 4, nCCD |-> 4, nRTRS |-> 2, nCL |-> 11, nRCD |-> 11, nRP |-> 11, nPA |-> 1, nCWL |-> 8,
          nRAS |-> 28, nRC |-> 39, nRTP |-> 6, nWTR |-> 6, nWR |-> 12, nRA |-> 6, nWA |-> 18, nPD |-> 4,
          nXP |-> 5, nCKESR |-> 5, nSCD |-> 1]
init_speed == [nRRD |-> 5, nFAW |-> 24, nRFC |-> 208, nXS |-> 216]
LOCAL s == Speed
LOCAL x == init_speed
read_latency == s.nCL + s.nBL
LOCAL Written == s.nCWL + s.nBL + s.nWR

ChannelTiming == BurstTiming(Reads, Writes, s.nBL)
LOCAL Names == [acts |-> {"ACT"}, refs |-> {"REF"}, pres |-> {"PRE", "PRER"}, cas |-> Cas,
                pd |-> "PDE", sr |-> "SRE", srx |-> "SRX"]
RankTiming ==
  CasTiming(Reads, Writes, s.nCCD, s.nCL + s.nCCD + 2 - s.nCWL, s.nCWL + s.nBL + s.nWTR)
  \cup AcrossRanks(Reads, Writes, s.nBL + s.nRTRS, s.nCL + s.nBL + s.nRTRS - s.nCWL, s.nCWL + s.nBL + s.nRTRS - s.nCL)
  \cup After({"RD"}, {"PRER"}, s.nRTP) \cup After({"WR"}, {"PRER"}, Written)
  \cup After({"ACT"}, {"ACT"}, x.nRRD) \cup Window({"ACT"}, {"ACT"}, 4, x.nFAW)
  \cup After({"ACT"}, {"PRER"}, s.nRAS) \cup After({"PRER"}, {"ACT"}, s.nRP)
  \cup After({"PRE", "PRER", "PRE_OTHER"}, {"REF", "SRE"}, s.nRP) \cup After({"REF"}, {"ACT", "REF"}, x.nRFC)
  \cup PowerTiming(Names, s.nCL + s.nBL + 1, Written, s.nXP, s.nPD, x.nXS, s.nCKESR)
BankTiming(t) ==
  IF t # "SALP_1" THEN {} ELSE
    After({"ACT"}, {"PRE", "PRE_OTHER"}, s.nRAS) \cup After({"RD"}, {"PRE", "PRE_OTHER"}, s.nRTP)
    \cup After({"WR"}, {"PRE", "PRE_OTHER"}, Written)
LOCAL WithinSubArray ==
  After({"ACT"}, Cas, s.nRCD) \cup After({"RD"}, {"PRE"}, s.nRTP) \cup After({"WR"}, {"PRE"}, Written)
  \cup After({"RDA"}, {"ACT"}, s.nRTP + s.nRP) \cup After({"WRA"}, {"ACT"}, Written + s.nRP)
  \cup After({"ACT"}, {"ACT"}, s.nRC) \cup After({"ACT"}, {"PRE"}, s.nRAS) \cup After({"PRE"}, {"ACT"}, s.nRP)
LOCAL AcrossSubArrays(t) ==
  CASE t = "SALP_1" ->
         Sibling({"PRE", "PRE_OTHER"}, {"ACT"}, s.nPA) \cup Sibling({"ACT"}, {"ACT"}, s.nRC - s.nRP + s.nPA)
         \cup Sibling({"RDA"}, {"ACT"}, s.nRTP + s.nPA) \cup Sibling({"WRA"}, {"ACT"}, Written + s.nPA)
    [] t = "SALP_2" ->
         Sibling({"ACT"}, {"ACT"}, s.nRCD + s.nRA) \cup Sibling(Reads, {"ACT"}, s.nRA) \cup Sibling(Writes, {"ACT"}, s.nWA)
    [] t = "MASA" ->
         UNION {Sibling({c}, {"ACT", "SASEL", c}, s.nRA) : c \in Reads}
         \cup UNION {Sibling({c}, {"ACT", "SASEL", c}, s.nWA) : c \in Writes}
SubArrayTiming(t) ==
  WithinSubArray \cup AcrossSubArrays(t) \cup (IF t = "MASA" THEN After({"SASEL"}, Cas, s.nSCD) ELSE {})

Promise == [bl |-> s.nBL, readAt |-> s.nCL, writeAt |-> s.nCWL,
            rcd |-> [p \in Opening \X Accessing |-> s.nRCD], ras |-> SameRule(Opening, s.nRAS),
            rp |-> SameRule(Closing, s.nRP), rtp |-> s.nRTP, recover |-> Written,
            acts |-> 4, faw |-> x.nFAW, rfc |-> SameRule(Refreshing, x.nRFC)]
Standard == [t \in type |->
  [level |-> Level, command |-> Command, opening |-> Opening, accessing |-> Accessing, closing |-> Closing,
   refreshing |-> Refreshing, scope |-> scope[t], start |-> start, translate |-> translate, prereq |-> prereq[t],
   rowhit |-> rowhit, lambda |-> lambda[t], read_latency |-> read_latency, promise |-> Promise,
   timing |-> Compiled(<<ChannelTiming, RankTiming, BankTiming(t), SubArrayTiming(t)>>, Command)]]
=============================================================================
