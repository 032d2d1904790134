\* Two clients, two names, three requests, two failing calls or crashes.
SPECIFICATION Spec
CONSTANTS
  Clients = {c1, c2}
  Names = {n1, n2}
  MaxRequests = 3
  MaxFailures = 2
CHECK_DEADLOCK FALSE
INVARIANTS
  RegistrationInv
  AnswersHold
  AvatarsWhole
SYMMETRY Symmetry
