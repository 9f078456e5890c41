SPECIFICATION FairSpec
CONSTANTS
  h1 = h1  h2 = h2  h3 = h3  h4 = h4
  d1 = d1  d2 = d2  d3 = d3  d4 = d4
  Clients = {c1, c2}
  Hashes = {h1, h2, h3, h4}
  Docs = {d1, d2, d3, d4}
  NoDoc = NoDoc
  DocOf <- MCDocOf
  Static = {h4}
  CacheSize = 2
  NoHash = NoHash
  BadHash = BadHash
INVARIANTS
  StoreConsistent
  RunsWhatItNames
  StrictAllowlist
PROPERTIES
  AskedIsAnswered
