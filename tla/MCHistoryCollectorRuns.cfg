SPECIFICATION FairSpec
CONSTANTS
  NumHosts = 2
  Paths = 1
  LogSize = 1
  Window = 2
  Retention = 1
  MaxAge = 1
  Readable = {TRUE}
  LateStarts = {}
  MaxQueries = 3
  MaxTime = 4
  MaxFaults = 1
INVARIANTS TypeOK KeptForRetention
PROPERTIES ContinuityIsSound ReadyMeansRecorded BackToReady
