SPECIFICATION GuestCartSpec
CONSTANTS
  Guests = {g1, g2}
  Users = {u1}
  Channels = {c1, c2}
  Variants = {k1}
  Logins = {l1, l2}
  MaxQuantity = 2
  Wanted = {0, 1}
INVARIANTS
  NothingLeftBehind
CHECK_DEADLOCK FALSE
