SPECIFICATION Spec
CONSTANTS
  Uuids = {k1, k2, k3}
  Texts = {a, b}
  Empty = empty
  MaxBatch = 2
  Requests = {r1, r2}
  NoRequest = none
SYMMETRY Symmetry
INVARIANTS
  TypeOK
  BatchIsWhole
PROPERTIES
  DeletedStaysDeleted
