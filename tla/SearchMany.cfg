SPECIFICATION FairSpec
CONSTANTS
  main = main
  w1 = w1
  w2 = w2
  nobody = nobody
  Workers <- Pool
  allDims <- Dims2
  num_groups_of_order <- Groups2
  startDim = 1
  endDim = 3
  MULTIPLIER = 1
  Solvable <- Solvable2
INVARIANTS
  TypeOK
  FileWhole
  OneLine
  ExitComplete
PROPERTY
  Termination
