SPECIFICATION MCSpec
CONSTANTS
  Parts = {"checkPDS"}
  n = 6
  k = 3
  lam = 3
  mu = 0
  ct <- S3
  Lists <- AnySorted
  Headings <- ItsOwn
  MaxLines = 1
  Unset = Unset
  Readers = {r1, r2}
  n_read = 2
  Files <- TableFiles
  Junk = {0, 1, 5}
  num_reps = 2
INVARIANT
  Vouches
