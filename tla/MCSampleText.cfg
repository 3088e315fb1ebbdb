CONSTANTS
  Inputs <- MCInputs
  N = 2
SPECIFICATION Spec
INVARIANTS
  TypeOK
  ReadsBack
CHECK_DEADLOCK FALSE
