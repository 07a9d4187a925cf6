SPECIFICATION FairSpec
CONSTANTS
  s1 = s1
  s2 = s2
  s3 = s3
  r1 = r1
  r2 = r2
  c1 = c1
  w1 = w1
  w2 = w2
  Runs = {r1}
  Starts = {s1, s2}
  RunOf <- RunOfDef
  Cancels = {c1}
  Workers = {w1}
  MaxAttempts = 2
  Kinds = {"VIDEO", "AUDIO", "CAMPAIGN"}
  Locks = TRUE
INVARIANT NoFileUnlessSucceeded
INVARIANT EpisodeAudioIsReal
PROPERTY SucceededIsKept
PROPERTY CampaignIsKept
PROPERTY RunsEnd
