\* The tables stay on the device: offload_engram = False.
CONSTANTS
  Layers = 2
  Drafts = 1
  Experts = 4
  MaxRanks = 2
  Jobs <- EngramJobs
  t1 = t1
  t2 = t2
  Tokens = {t1, t2}
  Routes <- SomeRoutes
  Heads <- SomeHeads
  Chunk = 2
SPECIFICATION ForwardSpec
CHECK_DEADLOCK FALSE
INVARIANT EngramFilled
