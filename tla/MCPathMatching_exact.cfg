SPECIFICATION Spec
CONSTANTS
  Star = Star
  Pending = Pending
  a = a  b = b
  Characters <- AllCharacters
  Cases <- SegmentCases
CHECK_DEADLOCK FALSE
INVARIANTS
  MatchIsExact
