\* Two workers, crashes, shutdowns and failing Redis calls and handlers.
SPECIFICATION FairSpec
CONSTANTS
  WorkerCount = 2
  BatchSize = 2
  MaxEvents = 3
  MaxRestarts = 2
  MaxFaults = 1
INVARIANTS
  EveryEventAccounted
  OneHolder
  ReplayInOrder
  NothingLeftBehind
  QueueInv
PROPERTIES
  DeliveryContract
  AcknowledgedUnlessFaulty
