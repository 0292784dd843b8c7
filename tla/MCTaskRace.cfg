SPECIFICATION Spec
CONSTANTS
  Uuids = {k1}
  Texts = {a, b}
  Empty = empty
  MaxBatch = 1
  Requests = {r1, r2}
  NoRequest = none
INVARIANTS
  RowNotFoundNeverHappens
