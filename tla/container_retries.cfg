SPECIFICATION Spec
CONSTANTS
  p1 = p1
  p2 = p2
  p3 = p3
  c1 = c1
  c2 = c2
  c3 = c3
  NoContainer = NoContainer
  Attempts = {p1, p2, p3}
  Containers = {c1, c2, c3}
  Recordable = TRUE
  Overlap = FALSE
INVARIANT AtMostOnePost
INVARIANT RetryIsSafe
PROPERTY ImplementsSinglePost
SYMMETRY ContainerSymmetry
