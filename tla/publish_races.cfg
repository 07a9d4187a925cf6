SPECIFICATION Spec
CONSTANTS
  e1 = e1
  e2 = e2
  i1 = i1
  Entries = {e1, e2}
  Items = {i1}
  ItemOf <- OneItem
  Targeted = {e1, e2}
  Scheduled = {e1}
  Callers = {1}
  Dispatchers = {1, 2}
  Jobs = {1, 2}
  PublishLimit = 2
  MaxDeliveries = 2
  MaxCrashes = 2
  MaxExpiries = 0
  Crashable = {"job", "dispatcher", "request"}
  Cancels = TRUE
INVARIANT DispatchedOnce
INVARIANT PublishedIsReal
PROPERTY SettledIsFinal
