\* Every kind of checkpoint, with and without expert quantization; every family of names.
CONSTANTS
  Roots <- AllRoots
  Modes = {"none", "fp8", "fp4", "int8"}
  Subfolders = {"none", "vae"}
  ComputeDtype = "bfloat16"
  Fp8Block = 2
  Fp4Block = 2
  Scanned <- Families
  Importable = {"deepseekv4", "deepseekv41", "qwen3_5", "glmmoedsa", "glm5next", "qwen3vlmoe", "qwen3omnimoe", "minimaxm3", "hyv3"}
SPECIFICATION ReadSpec
CHECK_DEADLOCK FALSE
INVARIANTS
  RowsStoredOnce
  StoredUnderItsName
  BytesAsAnnounced
  OneWeightHeld
  QuantizedWhole
  GroupsAreExperts
  OffloadedExactly
