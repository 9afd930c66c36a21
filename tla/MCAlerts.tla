------------------------------ MODULE MCAlerts ------------------------------
(***************************************************************************)
(* Alerts on a small instance.  An alert reads one of the three figures,   *)
(* so three readings show every change of each.                            *)
(***************************************************************************)
EXTENDS Alerts

MCReadings ==
  { [rank |-> "out",  level |-> 0, producing |-> TRUE],
    [rank |-> "in",   level |-> 1, producing |-> FALSE],
    [rank |-> "none", level |-> 0, producing |-> TRUE] }
=============================================================================
