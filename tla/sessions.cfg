\* Two users, three devices, three connections, and some of every disturbance.
SPECIFICATION Spec
CONSTANTS
  ann = ann
  bob = bob
  phone = phone
  tablet = tablet
  laptop = laptop
  Users = {ann, bob}
  Devices = {phone, tablet, laptop}
  UserOf <- UsersOfDevices
  Conns = {c1, c2, c3}
  Bound <- SmallBound
CHECK_DEADLOCK FALSE
INVARIANTS
  SessionsInv
  KeepsItsSession
  NoTokenLeftBehind
  ChainsAreDisjoint
  LogoutAllReachesAll
PROPERTIES
  RevokedForGood
SYMMETRY Symmetry
