SPECIFICATION FairSpec
CONSTANTS
  keyed = keyed
  again = again
  r1 = r1
  w1 = w1
  w2 = w2
  p1 = p1
  p2 = p2
  NoRun = NoRun
  NoKey = NoKey
  Runs = {r1}
  Requests = {keyed, again}
  KeyOf <- KeyOfDef
  Workers = {w1, w2}
  Posts = {p1, p2}
  Results = {"SUCCEEDED", "RETRYABLE"}
  MaxAttempts = 2
  Lease = 1
  Backoff = 1
  MaxTime = 2
  Timely = TRUE
INVARIANT OneHolderPerLease
INVARIANT AttemptIsHeld
INVARIANT SuccessIsFresh
PROPERTY FinishedIsFinal
PROPERTY RunsEnd
