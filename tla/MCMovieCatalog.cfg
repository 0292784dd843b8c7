SPECIFICATION Spec
CONSTANTS
  Stems = {a, b}
  Spellings = {p, q}
  Times = {t}
  MaxId = 2
  Requests = {r1, r2}
  NoRequest = none
SYMMETRY Symmetry
INVARIANTS
  TypeOK
  SlugNamesItsRow
  RowsAreDistinct
  SlugsNeverCollide
  BookedMovieKeepsSlug
  AnswerIsTheMovieAsked
