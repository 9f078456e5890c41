SPECIFICATION Spec
CONSTANTS
  m1 = m1  m2 = m2  q1 = q1
  admin = admin  ghost = ghost
  tenant = tenant  badkey = badkey
  v1 = v1  v2 = v2
  Requests = {m1, m2}
  Mutations = {m1, m2}
  Conns = {c1, c2}
  NoConn = NoConn
  NumFields <- MCNumFields
  Roles = {admin, ghost}
  NoRole = NoRole
  BadRoles = {ghost}
  Keys = {tenant, badkey}
  BadKeys = {badkey}
  Values = {v1, v2}
  Unset = Unset
  Role <- MCRole
  Claims <- MCClaims
  ForceTx = {}
  TxMutations = TRUE
  TxPerRequest = FALSE
  RLS = TRUE
  TxRetries = 1
  Isolation = "read_committed"
  NoSnapshot = NoSnapshot
INVARIANTS
  PoolClean
  TransactionAtomic
PROPERTIES
  NoLateEffects
  ImplementsAtomicOutcome
