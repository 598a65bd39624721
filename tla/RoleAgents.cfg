SPECIFICATION Spec
CONSTANTS
  operator = operator
  Principal = operator
  Payloads <- MCPayloads
  Values <- MCValues
  Drifting <- MCDrifting
  Numerals <- MCNumerals
  MaxHorizon = 60
  FloatDigits = 308
  MaxNesting = 4
INVARIANTS
  TypeOK
  BriefsTruthful
  AnswersConform
  HouseholdStaysHome
  RaisesAreOwn
  FlavoursAgree
PROPERTIES
  CallsEnd
