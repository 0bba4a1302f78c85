SPECIFICATION Spec
CHECK_DEADLOCK FALSE
CONSTANTS
  Factor = 5
  Granularity = 20
  Half = 128
  MaxRate = 32
INVARIANTS
  SlaIsOrdered
  SlaIsWhatWasAsked
