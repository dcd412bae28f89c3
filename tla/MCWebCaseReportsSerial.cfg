SPECIFICATION Spec
CONSTANTS
  j1 = j1  j2 = j2  j3 = j3
  Job = {j1, j2, j3}
  Case = {c1}
  Kind = {"batch_report", "batch_llm_report"}
  Request = {r1}
  Reader = {v1}
  Text = {t1, t2}
  NoJob = NoJob
  TerminalTtl = 1
  MaxTerminal = 0
  MaxCancels = 0
  MaxRestarts = 0
  MaxTime = 0
SYMMETRY Symmetric
INVARIANTS TypeOK TrustedIsWhole OkIsTrusted QuietReaderSeesWhole
CHECK_DEADLOCK FALSE
