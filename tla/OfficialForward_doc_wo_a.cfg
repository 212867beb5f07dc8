\* A shard boundary between wo_a.scale and wo_a.weight.
CONSTANTS
  Layers = 2
  Drafts = 1
  Experts = 4
  MaxRanks = 2
  Jobs <- WoAJobs
  t1 = t1
  t2 = t2
  Tokens = {t1, t2}
  Routes <- SomeRoutes
  Heads <- SomeHeads
  Chunk = 2
SPECIFICATION ForwardSpec
CHECK_DEADLOCK FALSE
INVARIANT WoADequantized
