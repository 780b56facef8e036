---------------------------- MODULE MCCastHistory ----------------------------
(* The instances of MCSimulator with the record of CastHistory.               *)
EXTENDS CastHistory, MCSimulator
=============================================================================
