SPECIFICATION Spec
CONSTANTS
  j1 = j1  j2 = j2  j3 = j3
  Job = {j1, j2}
  Case = {c1}
  Kind = {"batch_report"}
  Request = {r1, r2}
  Reader = {}
  Text = {t1}
  NoJob = NoJob
  TerminalTtl = 1
  MaxTerminal = 0
  MaxCancels = 0
  MaxRestarts = 0
  MaxTime = 0
SYMMETRY Symmetric
INVARIANTS TrustedIsWhole
CHECK_DEADLOCK FALSE
