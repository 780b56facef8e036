--------------------------- MODULE PerformLifecycle ---------------------------
(* The library over several calls: Perform, with the objects it creates and   *)
(* the globals that scripts reach them through, the reporter it destroys at   *)
(* the end, and GetDamageInfo, which reads the reporter's table afterwards.   *)
(* What happens in a run is reduced to the damage it reports.                 *)
EXTENDS Integers, FiniteSets, Sequences, FiniteSetsExt, SequencesExt

CONSTANTS
  Null,
  Names,       \* the names damage is reported for, in the order of strcmp
  Damages,     \* what a hit can deal
  Entries,     \* the 100 of pDamageInfo
  Garbage,     \* what it5->second can be where it5 is the end iterator
  MaxCalls, MaxHits

LifecycleAssumption ==
  /\ Names \subseteq Nat /\ Damages \subseteq Nat /\ Garbage \subseteq Nat
  /\ Entries \in Nat /\ MaxCalls \in Nat /\ MaxHits \in Nat
  /\ Cardinality(Names) <= Entries   \* the code does not test it
  /\ Null \notin Nat

Hits == [name : Names, damage : Nat, crit : BOOLEAN]
Rows == [name : Names, damage : Nat, count : Nat, crits : Nat]

VARIABLES
  pc,         \* where the thread is: with the caller, or in Perform
  calls,      \* calls of Perform so far; the objects of a call bear its number
  worlds,     \* the CEventSystem, and the CPlayer, objects that exist
  global,     \* pEventSystem and pCurrentPlayer, which are set together
  exitable,   \* m_bExitable of every event system
  reporter,   \* *pReporter: what was reported to it, or Null
  table,      \* pDamageInfo
  index,      \* the caller's Index
  report,     \* history: what the reporter of the last finished run was told,
              \* or nothing since a reporter was created
  readOut     \* history: the rows a pass of the caller has read, or Null

vars == <<pc, calls, worlds, global, exitable, reporter, table, index, report,
          readOut>>

EmptyTable == [j \in 0..(Entries - 1) |-> Null]

Init ==
  /\ pc = "caller"
  /\ calls = 0
  /\ worlds = {}
  /\ global = Null
  /\ exitable = {}
  /\ reporter = Null
  /\ table = EmptyTable
  /\ index = 0
  /\ report = << >>
  /\ readOut = Null

-----------------------------------------------------------------------------
(* The reporter.                                                              *)

Of(log, n) == {i \in DOMAIN log : log[i].name = n}

Reported(log) == {log[i].name : i \in DOMAIN log}

\* The destructor's maps: damage, hits and crits by name.  A name without a
\* crit is not in the third.
Rowing(row, hit) ==
  [row EXCEPT !.damage = @ + hit.damage, !.count = @ + 1,
              !.crits = @ + (IF hit.crit THEN 1 ELSE 0)]

RowOf(log, n) ==
  FoldLeft(LAMBDA row, hit : IF hit.name = n THEN Rowing(row, hit) ELSE row,
           [name |-> n, damage |-> 0, count |-> 0, crits |-> 0], log)

\* The tables the destructor can leave: a row for each name, in their order.
TablesAfter(log) ==
  LET names == SetToSortSeq(Reported(log), <)
  IN  {[j \in 0..(Entries - 1) |->
          IF j >= Len(names) THEN table[j]
          ELSE LET row == RowOf(log, names[j + 1])
               IN  IF row.crits = 0 THEN [row EXCEPT !.crits = g[row.name]] ELSE row]
         : g \in [Reported(log) -> Garbage]}

-----------------------------------------------------------------------------
(* Perform.                                                                   *)

\* Slip: the constructor of the reporter leaves the table.
CreateReporter_KeepsTable(isDetail) ==
  /\ reporter' = IF isDetail THEN << >> ELSE Null
  /\ report' = IF isDetail THEN << >> ELSE report
  /\ UNCHANGED table

CreateReporter(isDetail) ==
  IF isDetail
    THEN reporter' = << >> /\ table' = EmptyTable /\ report' = << >>
    ELSE reporter' = Null /\ UNCHANGED <<table, report>>

\* SetEventSystem and SetCurrentPlayer do not replace what is set; Perform does
\* not look at what they return.
Set(world) == IF global # Null /\ world # Null THEN global ELSE world

Perform(isDetail) ==
  /\ pc = "caller"
  /\ calls < MaxCalls
  /\ calls' = calls + 1
  /\ worlds' = worlds \cup {calls'}
  /\ global' = Set(calls')
  /\ CreateReporter(isDetail)
  /\ pc' = "loading"
  /\ readOut' = Null
  /\ UNCHANGED <<exitable, index>>

\* A script does not load: Perform returns at once.
FailLoading ==
  /\ pc = "loading"
  /\ pc' = "caller"
  /\ UNCHANGED <<calls, worlds, global, exitable, reporter, table, index, report,
                 readOut>>

FinishLoading ==
  /\ pc = "loading"
  /\ pc' = "running"
  /\ UNCHANGED <<calls, worlds, global, exitable, reporter, table, index, report,
                 readOut>>

\* Scripts put events into the global event system; the loop runs its own.
EventsRun == pc = "running" /\ global = calls

ReportDamage(n, d, crit) ==
  /\ EventsRun
  /\ d # 0 /\ reporter # Null
  /\ Len(reporter) < MaxHits
  /\ reporter' = Append(reporter, [name |-> n, damage |-> d, crit |-> crit])
  /\ UNCHANGED <<pc, calls, worlds, global, exitable, table, index, report, readOut>>

\* Any script calls it, the idle routine of an empty event system, too.
FinalizeCalculation ==
  /\ pc = "running"
  /\ exitable' = exitable \cup {global}
  /\ UNCHANGED <<pc, calls, worlds, global, reporter, table, index, report, readOut>>

\* The test of the loop, the clean-up and the destructor of the reporter.
FinishRun ==
  /\ pc = "running"
  /\ calls \in exitable
  /\ global' = Set(Null)
  /\ worlds' = worlds \ {calls}
  /\ IF reporter = Null
       THEN UNCHANGED <<table, report>>
       ELSE table' \in TablesAfter(reporter) /\ report' = reporter
  /\ reporter' = Null
  /\ pc' = "caller"
  /\ UNCHANGED <<calls, exitable, index, readOut>>

-----------------------------------------------------------------------------
\* The caller begins with Index 0 and calls until it is given a 0.
GetDamageInfo ==
  /\ pc = "caller"
  /\ IF index >= Entries \/ table[index] = Null
       THEN index' = 0 /\ UNCHANGED readOut
       ELSE /\ index' = index + 1
            /\ readOut' = IF index = 0 THEN <<table[0]>>
                          ELSE IF readOut = Null THEN Null
                          ELSE Append(readOut, table[index])
  /\ UNCHANGED <<pc, calls, worlds, global, exitable, reporter, table, report>>

Next ==
  \/ \E isDetail \in BOOLEAN : Perform(isDetail)
  \/ FailLoading \/ FinishLoading
  \/ \E n \in Names, d \in Damages, crit \in BOOLEAN : ReportDamage(n, d, crit)
  \/ FinalizeCalculation \/ FinishRun \/ GetDamageInfo

Spec == Init /\ [][Next]_vars

-----------------------------------------------------------------------------
TypeOK ==
  /\ pc \in {"caller", "loading", "running"}
  /\ calls \in 0..MaxCalls
  /\ worlds \subseteq 1..calls /\ exitable \subseteq 1..calls
  /\ global \in 1..calls \cup {Null}
  /\ reporter \in Seq(Hits) \cup {Null} /\ report \in Seq(Hits)
  /\ table \in [0..(Entries - 1) -> Rows \cup {Null}]
  /\ index \in 0..Entries
  /\ readOut \in Seq(Rows \cup {Null}) \cup {Null}

\* What the table says of a name, against the damage that was reported.
IsRowOf(row, log, n) ==
  /\ row.name = n
  /\ row.count = Cardinality(Of(log, n))
  /\ row.damage = MapThenSumSet(LAMBDA i : log[i].damage, Of(log, n))
  /\ LET crits == {i \in Of(log, n) : log[i].crit}
     IN  crits # {} => row.crits = Cardinality(crits)

\* Between two calls the table holds the last report, whole and in the order of
\* the names, and nothing of an earlier one, whatever calls failed or made none.
TableIsReport ==
  pc = "caller" =>
    LET names == SetToSortSeq(Reported(report), <)
    IN  \A j \in 0..(Entries - 1) :
          IF j < Len(names) THEN table[j] # Null /\ IsRowOf(table[j], report, names[j + 1])
          ELSE table[j] = Null

\* A pass of the caller that no call of Perform interrupts reads every name of
\* the report once.
PassIsWhole ==
  [][(GetDamageInfo /\ index' = 0 /\ readOut # Null /\ index # 0) =>
       {readOut[j].name : j \in DOMAIN readOut} = Reported(report)
       /\ Len(readOut) = Cardinality(Reported(report))]_vars

\* The globals never point to deleted objects, although Perform leaves its
\* objects behind when the scripts do not load.
GlobalLives == global # Null => global \in worlds

\* "assert(0)" (LuaIntergration.cpp:57): no event system is set while another
\* one is; so the scripts of a run reach the event system that the run owns.
SetsOnce == pc = "loading" => global = calls
=============================================================================
