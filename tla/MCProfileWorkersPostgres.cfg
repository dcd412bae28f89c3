SPECIFICATION Spec
CONSTANTS
  q1 = q1  q2 = q2
  w1 = w1  w2 = w2
  o1 = o1  o2 = o2
  p1 = p1  p2 = p2
  s1 = s1
  Queries <- TwoQueries
  Workers = {w1, w2}
  Owners = {o1, o2}
  OwnerOf <- DistinctOwners
  NoOwner = NoOwner
  Prints <- OnePrint
  NoPrint = NoPrint
  Statements <- OneStatement
  NoStatement = NoStatement
  StatementOf <- Proves
  NoEnd = 0
  EndTime <- Ends
  Priority <- SamePriority
  KeyOrder <- KeyRank
  Backend = "postgres"
  LeaseSeconds = 1
  MaxJobs = 2
  MaxAttempts = 2
  MaxAge = 0
  MaxTime = 2
  MaxFaults = 0
INVARIANTS FreshestFirst
CHECK_DEADLOCK FALSE
