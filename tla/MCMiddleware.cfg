CONSTANTS
  empty = empty
  full = full
  lacking = lacking
  other = other
  scheme = scheme
  ok = ok
  created = created
  moved = moved
  early = early
  notFound = notFound
  badRequest = badRequest
  serverError = serverError
  zero = zero
  default = default
  chunk = chunk
  bad = bad
  errorText = errorText
  Contents <- MCContents
  Empty = empty
  Conforming <- MCConforming
  Filled <- MCFilled
  NoBody = NoBody
  Broken = Broken
  Nil = Nil
  Schemes = {scheme}
  Declared = {scheme}
  Inputs <- AnyRequest
  Careful = TRUE
  MaxPasses = 1
  MaxReplaced = 0
  MaxFaults = 0
  Statuses <- MCStatuses
  Informational = {early}
  Unvalidated = {moved}
  OK = ok
  NotFound = notFound
  BadRequest = badRequest
  ServerError = serverError
  Zero = zero
  Default = default
  Chunks = {chunk, bad}
  ErrorText = errorText
  GoodBodies <- MCGoodBodies
  Setups <- MCSetups
  MaxCalls = 3
SPECIFICATION FairMiddleware
INVARIANTS
  MiddlewareTypeOK
  HandlerServesValid
  StrictValidated
  StrictHoldsBack
  Transparent
  LogsInvalid
  OnlySilencePanics
PROPERTIES
  Answered
