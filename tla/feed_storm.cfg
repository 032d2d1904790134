\* Two workers, any order of events, one post more than the cap, and every kind of
\* disturbance.
SPECIFICATION Spec
CONSTANTS
  ann = ann
  bob = bob
  Users = {ann, bob}
  Workers = {w1, w2}
  Readers = {ann}
  InitFollows <- AnnFollowsBob
  FeedCacheCap = 2
  BackfillLimit = 1
  RemoveLimit = 1
  CacheWarmLimit = 2
  PageLimit = 1
  InFlight = 1
  Bound <- StormBound
CHECK_DEADLOCK FALSE
INVARIANTS
  FeedInv
  NothingMissed
  OnlyFollowed
  UnfollowCleansInOrder
PROPERTIES
  DeliveryContract
SYMMETRY WorkerSymmetry
