SPECIFICATION MCFairSpec
CONSTANTS
  Parts = {"checkPDS", "read tables", "random sets"}
  n = 6
  k = 3
  lam = 0
  mu = 3
  ct <- S3
  Lists <- Printed
  Headings <- AnyFile
  MaxLines = 2
  Unset = Unset
  Readers = {r1, r2}
  n_read = 2
  Files <- TableFiles
  Junk = {0, 1, 5}
  num_reps = 2
INVARIANTS
  TypeOK
  Vouches
  Refuses
  TablesRead
PROPERTY
  Drawn
