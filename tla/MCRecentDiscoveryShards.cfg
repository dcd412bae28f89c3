SPECIFICATION Spec
CONSTANTS
  Query = {q1, q2, q3}
  Window = 7
  Shard = 4
  MinShard = 1
  Limit = 2
  PageSize = 1
SYMMETRY Symmetric
INVARIANTS TypeOK NothingLostSilently CapKept ListingsBounded
CHECK_DEADLOCK FALSE
