SPECIFICATION Spec
CONSTANTS
  NoValue = NoValue
  EMPTY = EMPTY
  Pending = Pending
  user = user  nested = nested  x = x  one = one  yes = yes
  Tokens <- MCTokens
  Configs <- MCConfigs
  ClaimNames <- MCClaimNames
  Texts <- MCTexts
CHECK_DEADLOCK FALSE
INVARIANTS
  NestedValuesAreFound
  PrincipalIsFirstUsable
  AuthoritiesAreTheClaim
