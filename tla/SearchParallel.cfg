SPECIFICATION WithThreadsSpec
CONSTANTS
  main = main
  w1 = w1
  nobody = nobody
  Workers = {main, w1, w2}
  NUM_TRIALS = 3
  NUM_TRIALS_each = 2
  NUM_TRIALS_one = 4
  num_groups = 2
  Solvable = {1}
  errors <- errors_three
  Errors = {0, 1, 4}
INVARIANTS
  TypeOK
  ListingsWhole
  TalliesTrue
PROPERTIES
  Reports
  Surveyed
  AllWake
