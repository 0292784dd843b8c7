SPECIFICATION Spec
CONSTANTS
  Keys = {k1, k2}
  KeyFile = keyfile
  Fixed = fixed
  Given = given
  Unset = unset
  Users = {u1, u2}
  Admins = {u1}
  Requests = {r1}
  Life = 1
  Leeway = 1
  NoToken = notoken
  Guest = guest
  NoPage = nopage
INVARIANTS
  TypeOK
  AdminRightsEnd
  
PROPERTIES
  
  EverySessionEnds
