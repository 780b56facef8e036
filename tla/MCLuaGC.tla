------------------------------ MODULE MCLuaGC ------------------------------
(* Scripts for the collector of LuaGC.                                        *)
EXTENDS LuaGC

\* An upvalue of a thread that dies, set behind the collector's back.
DeadThread == <<{"thread"}, {"resume"}, {"function"}, {"set"}, {"yield"}, {"forget"},
                {"get"}, {"table"}, {"setupval"}, {"forget"}>>

\* An open upvalue loses its closure, and a new closure finds it again.
FoundAgain == <<{"function"}, {"forget", "set"}, {"function"}, {"close"}, {"getupval"}>>

\* References that move from a white object to a black one.
Moved == <<{"table"}, {"set"}, {"get", "forget"}, {"set"}, {"get"}>>

\* Userdata that are finalized and stored, as keys and values of weak tables.
Preserved == <<{"userdata"}, {"table"}, {"set"}, {"setfenv", "forget"}, {"forget", "exit"}, {"get", "exit"}>>

\* A full collection in any phase of a cycle.
Collected == <<{"function"}, {"table"}, {"setupval"}, {"forget"}, {"collect"}, {"getupval", "close"}>>

SomeModes == {{}, {"v"}, {"k"}, {"k", "v"}}

ScriptsOfTheRun == {DeadThread, FoundAgain, Moved, Preserved, Collected}
=============================================================================
