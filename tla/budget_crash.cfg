SPECIFICATION FairSpec
CONSTANTS
  a = a
  b = b
  c = c
  w1 = w1
  w2 = w2
  k1 = k1
  k2 = k2
  k3 = k3
  Jobs = {a, b, c}
  Keys = {k1, k2}
  Workspaces = {w1, w2}
  KeyOf <- CrossTenantKey
  WorkspaceOf <- TwoWorkspaces
  Cost <- UnitCost
  Inline = {a}
  RecordFirst = {a, c}
  WsMax <- OneEach
  OrgMax = 5
  WsCeiling <- RoomForOne
  OrgCeiling = 2
  TTL = 1
  MaxClock = 2
  MaxAttempts = 2
  Timely = FALSE
INVARIANT HeldRequestsWithinLimit
INVARIANT HeldCostWithinCeilings
INVARIANT WorkIsBackedByOwnHold
PROPERTY HoldsDoNotLeak
PROPERTY ImplementsAtomicBudget
