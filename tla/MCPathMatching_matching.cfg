SPECIFICATION Spec
CONSTANTS
  Star = Star
  Pending = Pending
  a = a  b = b
  Characters <- AllCharacters
  Cases <- AllCases
CHECK_DEADLOCK FALSE
INVARIANTS
  MatchIsSound
  MatchIsComplete
  ShortcutsAgree
  SearchIsBounded
