SPECIFICATION FairSpec
CONSTANTS
  Requests = {r1, r2}
  Kids = {k1, k2}
  NoKid = NoKid
  NoKey = NoKey
  None = None
  TTL = 2
  Minute = 1
  FetchMax = 1
  Old = 4
PROPERTIES
  WithdrawnKeyExpires
  PublishedKeyFound
  EveryTokenDecided
