SPECIFICATION Spec
CONSTANTS
  Inputs <- MCInputs
  Makers = {"Series"}
  MaxRebuilds = 2
INVARIANTS
  TypeOK
  KeepsLength
  KeepsValues
  DtypeAsAsked
  AccessAgrees
PROPERTIES
  SurvivesRebuild
CHECK_DEADLOCK FALSE
