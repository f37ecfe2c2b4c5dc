----------------------------- MODULE MCCampaign -----------------------------
(* One cell with the watchdog and then a baseline, as in the script. *)
EXTENDS Campaign

CellOf(c, w) == [cell |-> c, wd |-> w]

TwoCells == << CellOf("mukv", TRUE), CellOf("h2o", FALSE) >>
=============================================================================
