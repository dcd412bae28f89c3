SPECIFICATION FairSpec
CONSTANTS
  j1 = j1  j2 = j2  j3 = j3
  Job = {j1, j2}
  Case = {c1}
  Kind = {"batch_report", "batch_case_actions"}
  Request = {r1}
  Reader = {}
  Text = {t1}
  NoJob = NoJob
  TerminalTtl = 0
  MaxTerminal = 1
  MaxCancels = 1
  MaxRestarts = 1
  MaxTime = 1
INVARIANTS NoStrayChild
PROPERTIES EveryJobEnds JobsOnlyEnd EndedBounded
CHECK_DEADLOCK FALSE
