SPECIFICATION Spec
CONSTANTS
  Job = {j1, j2}
  Case = {f1}
  Kind = {"batch", "running", "trino_recent"}
  Request = {r1, r2}
  Publishing = {f1}
  NoJob = NoJob
  TerminalTtl = 1
  MaxTerminal = 1
  MaxCancels = 1
  MaxRestarts = 1
INVARIANTS TypeOK OneScanPerForm LatestIsWhole
PROPERTIES EndedPublishesNoMore StoppedNotPublished
CHECK_DEADLOCK FALSE
