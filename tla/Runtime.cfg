SPECIFICATION MCSpec
CONSTANTS
  owner = owner
  NoJob = NoJob
  NoThread = NoJob
  Main = owner
  NoWork = NoJob
  Unused = Unused
  Parts = {"deque", "wait", "sleep", "loop", "long", "short",
           "stack", "blocks", "pools"}
  Workers = {owner, t1, t2}
  Crew = {owner, t1, t2}
  main = owner
  NoCall = NoJob
  Depth = 2
  Calls <- LoopCalls
  Chunks = 384
  Granularities = {0, 1}
  q_size = 3
  TagMod = 4
  MaxPushes = 3
  Waiters = {t1, t2}
  Notifiers = {m1, m2}
  Locations = {x, y}
  MaxChanges = 1
  Strategies = {"direct", "condvar"}
  Sleepers = {t1, t2, t3}
  ToSpawn = {j1, j2, j3}
  Aliasing = FALSE
  Vals = {v1, v2}
  Tasks = {t1, t2}
  Raw = Raw
  Moved = Moved
  Inline = Inline
  None = None
  num_users = 2
  Elements = {e1, e2}
  Addresses <- StackAddresses
  Filled = {2}
  StackCalls <- CallsMade
  threshold = 1
SYMMETRY Symmetry
VIEW View
INVARIANTS
  TypeOK
  SleepSafe
  ForkSafe
  SequencesRight
  NodesSafe
  BlocksKept
PROPERTIES
  AgeGrows
  IsDeque
  Contract
  Linearizable
CHECK_DEADLOCK FALSE
