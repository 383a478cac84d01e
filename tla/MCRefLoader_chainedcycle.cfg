CONSTANTS
  d1 = d1
  d2 = d2
  n1 = n1
  n2 = n2
  n3 = n3
  Uris = {d1, d2}
  Names = {n1, n2, n3}
  NameOrder <- Order3
  Worlds <- ChainedCycle
  MaxLoads = 1
  MaxFaults = 0
  Here = Here
  Root = Root
  Nil = Nil
SPECIFICATION Spec
INVARIANTS
  GroundedResolved
