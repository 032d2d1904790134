\* Two workers, two users, one device, and every kind of disturbance.
SPECIFICATION Spec
CONSTANTS
  ann = ann
  bob = bob
  NoUser = NoUser
  Users = {ann, bob}
  Author <- Authors
  InitPosts = {1}
  Workers = {w1, w2}
  Devices = {d1}
  ListLimit = 1
  Bound <- SmallBound
CHECK_DEADLOCK FALSE
INVARIANTS
  NotificationsInv
  EveryActNotified
  NotifiedOnce
  PushGoesHome
  UnreadNotUnderstated
PROPERTIES
  DeliveryContract
SYMMETRY WorkerSymmetry
