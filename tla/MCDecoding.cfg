SPECIFICATION Spec
CONSTANTS
  schemas <- MCSchemas
  Cases <- MCCases
  Others <- MCOthers
  Digits <- MCDigits
  TooBig = "M"
  Json <- MCJson
  Decoders <- MCDecoders
  JsonTypes <- MCJsonTypes
  Truths <- MCTruths
  MaxGap = 2
INVARIANTS
  RoundTrip
  LeftOut
CHECK_DEADLOCK FALSE
