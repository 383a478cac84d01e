SPECIFICATION Spec
CONSTANTS
  Inputs <- MCInputs
  Names <- MCNames
  Modes <- MCModes
INVARIANTS
  VerdictIsTheSchemas
  DefaultsOfTheMatched
  PointersLeadToFaults
CHECK_DEADLOCK FALSE
