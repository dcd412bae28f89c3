SPECIFICATION Spec
CONSTANTS
  NumHosts = 1
  Paths = 1
  LogSize = 1
  Window = 3
  Retention = 2
  MaxAge = 1
  Readable = {TRUE}
  LateStarts = {}
  MaxQueries = 3
  MaxTime = 3
  MaxFaults = 0
PROPERTIES ReadyHidesNoHole
