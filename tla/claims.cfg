CONSTANTS
  a1 = a1
  m1 = m1
  m2 = m2
  h1 = h1
  Actors = {a1}
  Modules = {m1}
  NoModule = NoModule
  ZeroAddress = ZeroAddress
  ModuleKind <- MCModuleKind
  Bonds = {0}
  RequestHashes = {h1}
  MaxClaims = 2
  MaxReplications = 3
  MaxDecisions = 3
SPECIFICATION BoundedSpec
INVARIANTS TypeOK StatusExplained DecisionFaithful PointersOrdered
PROPERTIES NeverWeakened RequestsMakeOneClaim ViewSpec
CHECK_DEADLOCK FALSE
