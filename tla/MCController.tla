---------------------------- MODULE MCController ----------------------------
(* Two banks, one of them with two rows, every scheduler, every row policy,    *)
(* the refresh of DSARP, and the migrations of TLDRAM.                         *)
EXTENDS Controller
Banks == 1 .. 2
Addresses == {<<1, 1>>, <<1, 2>>, <<2, 1>>}
Minus2 == -2
Config(s, p, f, x) == [scheduler |-> s, rowpolicy |-> p, refresh |-> f, extension |-> x]
AllConfigs ==
  {Config("FCFS", "Closed", "rank", FALSE), Config("FRFCFS", "Timeout", "rank", FALSE),
   Config("FRFCFS_Cap", "Opened", "rank", FALSE), Config("FRFCFS_PriorHit", "Opened", "rank", FALSE),
   Config("FRFCFS_PriorHit", "Opened", "bank", FALSE), Config("FRFCFS_PriorHit", "Opened", "rank", TRUE)}
=============================================================================
