SPECIFICATION Spec
CONSTANTS
  c1 = c1
  c2 = c2
  f1 = f1
  f2 = f2
  k1 = k1
  k2 = k2
  x1 = x1
  w1 = w1
  api = api
  NoConnection = NoConnection
  NoToken = NoToken
  Connections = {c1, c2}
  Flows = {f1, f2}
  Callbacks = {k1, k2}
  Accounts = {x1}
  Refreshers = {w1, api}
  ByApi = {api}
  MaxRotations = 2
INVARIANT OneGrantPerState
INVARIANT RotationIsKept
PROPERTY OutcomeIsFinal
PROPERTY PurgedStays
SYMMETRY ConnectionSymmetry
