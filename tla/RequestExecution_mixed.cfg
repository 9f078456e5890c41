SPECIFICATION FairSpec
CONSTANTS
  m1 = m1  m2 = m2  q1 = q1
  admin = admin  ghost = ghost
  tenant = tenant  badkey = badkey
  v1 = v1  v2 = v2
  Requests = {m1, q1}
  Mutations = {m1}
  Conns = {c1}
  NoConn = NoConn
  NumFields <- MCNumFields
  Roles = {admin, ghost}
  NoRole = NoRole
  BadRoles = {ghost}
  Keys = {tenant, badkey}
  BadKeys = {badkey}
  Values = {v1, v2}
  Unset = Unset
  Role <- MCNoRole
  Claims <- MCQueryClaims
  ForceTx = {}
  TxMutations = FALSE
  TxPerRequest = FALSE
  RLS = TRUE
  TxRetries = 1
  Isolation = "repeatable_read"
  NoSnapshot = NoSnapshot
INVARIANTS
  StatementIdentity
  EffectsInOrderOnce
  ReplyTruthful
  SingleSnapshot
PROPERTIES
  EveryRequestAnswered
