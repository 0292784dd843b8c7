SPECIFICATION Spec
CONSTANTS
  Movies = {m1, m2}
  Seats = {s1, s2, s3}
  Users = {u1, u2}
  TTL = 3
INVARIANTS
  TypeOK
  IndexMatchesSeats
  AtMostOneHoldPerUser
PROPERTIES
  NoTakeover
  ImplementsPort
  EveryHoldEnds
