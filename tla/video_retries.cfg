SPECIFICATION Spec
CONSTANTS
  a1 = a1
  a2 = a2
  a3 = a3
  u1 = u1
  u2 = u2
  u3 = u3
  NoUpload = NoUpload
  Attempts = {a1, a2, a3}
  Uploads = {u1, u2, u3}
  Chunks = 2
INVARIANT SentOnce
INVARIANT NextAttemptFindsIt
INVARIANT PublishedIsOut
SYMMETRY UploadSymmetry
