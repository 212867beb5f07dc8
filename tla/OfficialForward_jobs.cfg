\* Every loader, loaded twice; two ranks that serve two calls.
CONSTANTS
  Layers = 2
  Drafts = 1
  Experts = 4
  MaxRanks = 2
  Jobs <- AllJobs
  t1 = t1
  t2 = t2
  Tokens = {t1, t2}
  Routes <- SomeRoutes
  Heads <- SomeHeads
  Chunk = 2
SPECIFICATION FairSpec
CHECK_DEADLOCK FALSE
INVARIANTS
  ConstructorsRestored
  ShardsPartition
  LoadedComplete
  ForwardExact
PROPERTIES
  CallsReturn
