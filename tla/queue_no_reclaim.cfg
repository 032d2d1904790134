\* One failing Redis call: an entry stays pending with nobody to reclaim it.
SPECIFICATION FairSpec
CONSTANTS
  WorkerCount = 2
  BatchSize = 2
  MaxEvents = 2
  MaxRestarts = 0
  MaxFaults = 1
PROPERTIES
  AllAcknowledged
