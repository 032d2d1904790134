\* Two deletes of one comment, or a delete and a reply.
SPECIFICATION Spec
CONSTANTS
  Clients = {c1, c2}
  Users = {u1, u2}
  MaxRequests = 3
  Requests = {"comment", "uncomment"}
CHECK_DEADLOCK FALSE
INVARIANTS
  CommentCountExact
SYMMETRY Symmetry
