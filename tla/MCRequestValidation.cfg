CONSTANTS
  empty = empty
  full = full
  lacking = lacking
  bad = bad
  s1 = s1
  s2 = s2
  s3 = s3
  Contents <- MCContents
  Empty = empty
  Conforming <- MCConforming
  Filled <- MCFilled
  NoBody = NoBody
  Broken = Broken
  Nil = Nil
  Schemes <- MCSchemes
  Declared <- MCDeclared
  Inputs <- AllInputs
  Careful = TRUE
  MaxPasses = 2
  MaxReplaced = 1
  MaxFaults = 1
SPECIFICATION FairSpec
INVARIANTS
  TypeOK
  BodyKept
  AcceptedSecurely
  BodyJudged
  AcceptedAgain
  DefaultsReach
PROPERTIES
  AuthSeesBody
  Returns
