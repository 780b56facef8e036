SPECIFICATION FairSpec
CONSTANTS
  e1 = e1
  e2 = e2
  e3 = e3
  Events = {e1, e2, e3}
  Delays = {0, 1, 2}
  WaitTimes = {0, 1, 3}
  TimeLimit = 3
  MaxDelay = 3
  Word = 9
INVARIANTS TypeOK FrontIsCurrent NothingInThePast
PROPERTIES ClockOK ImplementsAgenda EveryEventRuns
