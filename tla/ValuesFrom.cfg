SPECIFICATION Spec
CONSTANTS
  Inputs <- MCInputs
  Makers = {"from"}
  MaxRebuilds = 0
INVARIANTS
  HasItsElements
CHECK_DEADLOCK FALSE
