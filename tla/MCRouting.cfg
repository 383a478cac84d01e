SPECIFICATION Spec
CONSTANTS
  Documents <- MCDocuments
  Requests <- MCRequests
  Variables <- MCVariables
  Rank <- MCRank
  Upper <- MCUpper
  Extra <- MCExtra
  MaxExtra = 1
INVARIANTS
  AnswersFit
  ConcreteFirst
  NothingLost
CHECK_DEADLOCK FALSE
