SPECIFICATION Spec
CONSTANTS
  Movies = {m1, m2}
  Seats = {s1, s2}
  Users = {u1, u2}
  TTL = 2
  Requests = {r1, r2}
  SessionIds = {x1, x2, x3}
  BookingIds = {b1, b2}
SYMMETRY Symmetry
INVARIANTS
  TypeOK
  SessionIsInOnePlace
  OneBookingPerSession
  BookingMatchesGrant
  ReferentialIntegrity
