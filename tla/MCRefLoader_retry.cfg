CONSTANTS
  d1 = d1
  d2 = d2
  n1 = n1
  n2 = n2
  n3 = n3
  Uris = {d1, d2}
  Names = {n1, n2}
  NameOrder <- Order2
  Worlds <- MixedFiles
  MaxLoads = 2
  MaxFaults = 1
  Here = Here
  Root = Root
  Nil = Nil
SPECIFICATION FairSpec
INVARIANTS
  TypeOK
  VisitsMatchStack
  ErrorsJustified
  DirectResolved
PROPERTIES
  ValuesStable
  LoadReturns
