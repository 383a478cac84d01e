SPECIFICATION Spec
CONSTANTS
  schemas <- MCSchemas
  operations <- MCOperations
  pathItems <- MCPathItems
  callbacks <- MCCallbacks
  Subjects <- MCSubjects
  Calls <- MCCalls
INVARIANTS AcceptedThroughout Unambiguous ReportedOnce
\* A call is made once.
CHECK_DEADLOCK FALSE
