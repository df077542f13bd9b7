\* Two callers, two tenants, two connections.
SPECIFICATION Spec
CONSTANTS
  Callers = {c1, c2}
  Conns = {k1, k2}
  NoConn = NoConn
  Bound = TRUE
  Tenants = {t1, t2}
  NoTenant = NoTenant
  Devices = {d1, d2}
  Tokens = {}
  Credentials = {r1}
  Values = {v1, v2}
  NoRow = NoRow
  NoWrite = NoWrite
  NoOp = NoOp
SYMMETRY Alike
INVARIANTS
  ReadsAreTrue
  ConnectionsReturned
  RepositoryInv
PROPERTIES
  TenantsApart
  SavedIsStored
  ActsAtOnce
