\* Likes, unlikes, comments, replies and deletes, three at a time.
SPECIFICATION Spec
CONSTANTS
  Clients = {c1, c2, c3}
  Users = {u1, u2}
  MaxRequests = 5
  Requests = {"like", "unlike", "comment", "uncomment", "remove"}
CHECK_DEADLOCK FALSE
INVARIANTS
  EngagementInv
  LikeCountExact
  CommentCountExactBeforeDeletes
  OneLevelReplies
  NoDeadlock
SYMMETRY Symmetry
