\* Followers and followees: pages of one row, undisturbed.
SPECIFICATION FollowSpec
CONSTANTS
  ItemCount = 2
  LastSecond = 2
  Fractions = {0, 1}
  Asked = {1}
  DefaultLimit = 1
  MaxLimit = 2
  MaxChanges = 0
CHECK_DEADLOCK FALSE
INVARIANTS
  SeenAllAtEnd
