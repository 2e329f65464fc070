SPECIFICATION Spec
CONSTANTS
  NoValue = NoValue
  EMPTY = EMPTY
  Malformed = Malformed
  NoMethod = NoMethod
  Unparsable = Unparsable
  NoJwkSet = NoJwkSet
  Unsupported = Unsupported
  p = p  q = q  u = u  r1 = r1  r2 = r2
  role = role  k = k  user = user  query = query  issuer = issuer
  public = public  secret = secret  opaque = opaque
  Matches <- MCMatches
  Rooted = {p, q}
  Second = 2
  Inputs <- MCInputs
  Documents <- MCDocuments
  Heads <- MCHeads
  Bodies <- MCBodies
  PreviewLimit = 5
CHECK_DEADLOCK FALSE
INVARIANTS
  OnlyTheConfiguredAreAsked
  HeadersAndUrisAreRedacted
  HeadersStayVisible
  PreviewIsLongest
  WrittenRulesGovern
  SavedConfigLoads
PROPERTIES
  ServingIsEarned
  WaitsOnlyForDiscovery
