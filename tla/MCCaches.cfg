SPECIFICATION Spec
CONSTANTS
  Callers = {"plain", "own"}
  Locations <- MCLocations
  Relative <- MCRelative
  Patterns = {"digits", "lookahead"}
  Compiler <- MCCompiler
  Refused <- MCRefused
  Types = {"T", "*T"}
  Elem <- MCElem
  MaxChanges = 1
  None = None
  Error = Error
  Gone = Gone
PROPERTY
  ReadsThrough
CHECK_DEADLOCK FALSE
