SPECIFICATION Spec
CONSTANTS
  a = a
  b = b
  c = c
  w1 = w1
  w2 = w2
  k1 = k1
  k2 = k2
  k3 = k3
  Jobs = {a, b, c}
  Keys = {k1, k2, k3}
  Workspaces = {w1}
  KeyOf <- OwnKeys
  WorkspaceOf <- OneWorkspace
  Cost <- UnitCost
  Inline = {a, b, c}
  RecordFirst = {a, b, c}
  WsMax <- TwoEach
  OrgMax <- OrgNoRow
  WsCeiling <- NoCeilings
  OrgCeiling = 0
  TTL = 2
  MaxClock = 3
  MaxAttempts = 2
  Timely = TRUE
INVARIANT RequestsWithinLimit
