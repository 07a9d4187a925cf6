SPECIFICATION FairSpec
CONSTANTS
  t1 = t1
  t2 = t2
  d1 = d1
  e1 = e1
  NoBody = NoBody
  Callers = {1, 2}
  Texts = {t1, t2}
  Drafts = {d1}
  Unsafe = {t2}
  Entries = {e1}
  MaxCalls = 4
  MaxDeliveries = 2
  MaxCrashes = 1
INVARIANT ApprovalCoversTheBody
INVARIANT NothingPostedUnreviewed
INVARIANT DraftLandsOnce
PROPERTY DraftsEnd
CHECK_DEADLOCK FALSE
