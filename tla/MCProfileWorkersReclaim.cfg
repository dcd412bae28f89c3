SPECIFICATION FairSpec
CONSTANTS
  q1 = q1  q2 = q2
  w1 = w1  w2 = w2
  o1 = o1  o2 = o2
  p1 = p1  p2 = p2
  s1 = s1
  Queries <- OneQuery
  Workers = {w1, w2}
  Owners = {o1, o2}
  OwnerOf <- DistinctOwners
  NoOwner = NoOwner
  Prints <- TwoPrints
  NoPrint = NoPrint
  Statements <- OneStatement
  NoStatement = NoStatement
  StatementOf <- Proves
  NoEnd = 0
  EndTime <- Ends
  Priority <- SamePriority
  KeyOrder <- KeyRank
  Backend = "sqlite"
  LeaseSeconds = 1
  MaxJobs = 1
  MaxAttempts = 2
  MaxAge = 1
  MaxTime = 3
  MaxFaults = 1
INVARIANTS TypeOK CompletedIsMaterialised RetryBudget SummaryTracksJob
PROPERTIES OnlyHolderChangesLease SettledStays LifecycleSpec EveryJobSettles
CHECK_DEADLOCK FALSE
