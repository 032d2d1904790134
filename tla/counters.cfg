\* Follows and posts of three users, three requests at a time.
SPECIFICATION FairSpec
CONSTANTS
  ann = ann
  bob = bob
  cid = cid
  Clients = {c1, c2, c3}
  Users = {ann, bob, cid}
  InitFollows <- AnnAndBob
  Requests = {"follow", "unfollow", "create", "delete"}
  MaxRequests = 3
CHECK_DEADLOCK FALSE
INVARIANTS
  CountersInv
  CountersExact
  OnlyFollowCirclesDeadlock
PROPERTIES
  EveryRequestEnds
