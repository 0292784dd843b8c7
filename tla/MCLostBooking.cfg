SPECIFICATION Spec
CONSTANTS
  Movies = {m1}
  Seats = {s1}
  Users = {u1, u2}
  TTL = 2
  Requests = {r1}
  SessionIds = {x1, x2}
  BookingIds = {b1, b2}
PROPERTIES
  ConfirmedHoldIsBooked
