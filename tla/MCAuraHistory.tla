---------------------------- MODULE MCAuraHistory ----------------------------
(* The instances of MCSimulator with the tally of AuraHistory.                *)
EXTENDS AuraHistory, MCSimulator
=============================================================================
