SPECIFICATION GenSpec
CONSTANTS
  Names = {n1}
  Present = {n2}
  Commands = {"controller", "controller_test", "crud_controller", "crud_controller_test", "entity", "migration"}
INVARIANTS
  GenTypeOK
  SuccessIsComplete
  DeclaredFilesExist
PROPERTIES
  RerunCompletes
