\* A post fanned out to an expired cache.
SPECIFICATION Spec
CONSTANTS
  ann = ann
  bob = bob
  Users = {ann, bob}
  Workers = {w1}
  Readers = {ann}
  InitFollows <- AnnFollowsBob
  FeedCacheCap = 9
  BackfillLimit = 9
  RemoveLimit = 9
  CacheWarmLimit = 9
  PageLimit = 9
  InFlight = 1
  Bound <- ColdBound
CHECK_DEADLOCK FALSE
INVARIANTS
  ColdStartWarms
