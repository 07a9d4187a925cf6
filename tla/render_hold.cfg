SPECIFICATION Spec
CONSTANTS
  s1 = s1
  s2 = s2
  s3 = s3
  r1 = r1
  r2 = r2
  c1 = c1
  w1 = w1
  w2 = w2
  Runs = {r1}
  Starts = {s1}
  RunOf <- RunOfDef
  Cancels = {}
  Workers = {w1}
  MaxAttempts = 1
  Kinds = {"VIDEO", "AUDIO"}
  Locks = TRUE
INVARIANT ReservationIsSettled
