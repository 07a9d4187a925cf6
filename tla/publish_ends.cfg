SPECIFICATION FairSpec
CONSTANTS
  e1 = e1
  e2 = e2
  i1 = i1
  Entries = {e1}
  Items = {i1}
  ItemOf <- OneItem
  Targeted = {e1}
  Scheduled = {}
  Callers = {1, 2}
  Dispatchers = {1}
  Jobs = {1, 2}
  PublishLimit = 2
  MaxDeliveries = 2
  MaxCrashes = 1
  MaxExpiries = 1
  Crashable = {"job"}
  Cancels = TRUE
INVARIANT SendIsHeld
PROPERTY EntriesEnd
