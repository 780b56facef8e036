----------------------------- MODULE MCLuaCalls -----------------------------
(* Instances of LuaCalls for TLC.                                             *)
EXTENDS LuaCalls
=============================================================================
