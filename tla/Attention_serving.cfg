\* Two attention modules, registered (twice, with calls that raise), sharing a
\* class, or adapted to the latent cache of two sequences.
CONSTANTS
  Modules <- TwoModules
  Kinds = {"qwen3", "olmoe", "mla_v2", "mla_v3"}
  Indices = {0, 1, none}
  NoIndex = none
  StorageSizes = {1, 2}
  Batches <- Mixed
  MaxRegisters = 2
  BackendTakesLayer = TRUE
  MayRaise = TRUE
  HistoryLengths = {0, 1}
  MaxForwards = 2
  Seqs = {s1, s2}
  Blocks = {b1, b2, b3}
  StaleBlocks = {b1, b2}
  BlockSize = 2
  MaxQuery = 2
  MaxTokens = 3
SPECIFICATION AttentionSpec
CONSTRAINT Scope
CHECK_DEADLOCK FALSE
INVARIANTS
  RegistriesSound
  ResultsInPlace
  TokensInOwnSlots
  LatentsOfOwnPrefix
PROPERTIES
  NeverSharedAgain
  LatentWritesOwned
