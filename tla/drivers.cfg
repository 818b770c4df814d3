SPECIFICATION Spec
CONSTANTS
  N = 3
  Ends <- TwoCalls
  MaxWeight = 2
CHECK_DEADLOCK FALSE
INVARIANTS
  TypeOK
  SuccessIsComplete
  RecordsTruthful
  BatchesWhole
  LeaksOnlyUnused
  InOrder
  Proportional
PROPERTIES
  OutcomesSpec
