SPECIFICATION MCSpec
CONSTANTS
  owner = owner
  NoJob = NoJob
  NoThread = NoJob
  Main = owner
  NoWork = NoJob
  Unused = Unused
  Parts = {"deque"}
  Workers = {owner, t1, t2}
  Crew = {owner, t1, t2}
  main = owner
  NoCall = NoJob
  Depth = 2
  Calls <- LoopCalls
  Chunks = 384
  Granularities = {0, 1}
  q_size = 3
  TagMod = 5
  MaxPushes = 3
  Waiters = {t1}
  Notifiers = {m1, m2}
  Locations = {x}
  MaxChanges = 2
  Strategies = {"table"}
  Sleepers = {t1, t2}
  ToSpawn = {j1}
  Aliasing = FALSE
  Vals = {v1, v2}
  Tasks = {t1, t2}
  Raw = Raw
  Moved = Moved
  Inline = Inline
  None = None
  num_users = 2
  Elements = {v1, v2}
  Addresses <- StackAddresses
  Filled = {0, 2}
  StackCalls <- CallsMade
  threshold = 1
PROPERTY
  FirstTold
CHECK_DEADLOCK FALSE
