SPECIFICATION Spec
CONSTANTS
  Threads = {1, 2, 3}
  Consumers = {c1, c2}
  hash_thread_id <- Hashes
  InitialSize = 2
  MaxFailures = 1
  MaxElements <- Elems
  MaxCalls = 2
  Overlapping = FALSE
INVARIANTS
  OwnProducer
  NotOverlooked
CHECK_DEADLOCK FALSE
SYMMETRY Symmetry
