\* Two layers against a cache of two: three experts under the per-expert loop and
\* the grouped call, four under the executor; loads may fail.
CONSTANTS
  Blocks = {b1, b2, b3, b4, b5, b6, b7, b8}
  Layers = {L1, L2}
  Experts = {0, 1, 2}
  ProviderExperts = {0, 1, 2, 3}
  Keys <- AllKeys
  Unset = Unset
  MaxResident = 2
  Paths = {TRUE, FALSE}
  MayRaise = TRUE
  MaxActive = 3
  ProviderActive = 4
  MaxCalls = 3
SPECIFICATION OffloadSpec
INVARIANTS
  KernelsReadTheirExperts
  DeviceCacheBounded
  PrefetchHolds
