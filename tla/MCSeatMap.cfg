SPECIFICATION MapSpec
CONSTANTS
  Movies = {m1}
  Seats = {s1, s2}
  Users = {u1, u2}
  TTL = 2
  Requests = {r1}
  SessionIds = {x1, x2}
  BookingIds = {b1, b2}
  Film = m1
  Viewers = {u1}
  Snapshots = {t1}
SYMMETRY Symmetry
INVARIANTS
  MapTypeOK
  SteadySeatsAreShown
  ConfirmedIsSold
