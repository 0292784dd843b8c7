SPECIFICATION Spec
CONSTANTS
  Films = {f1, f2}
  NoFilm = none
  Requests = {q1, q2}
INVARIANTS
  TypeOK
  ClickIsForItsFilm
  ActionIsShown
PROPERTIES
  PageSettles
