SPECIFICATION Spec
CONSTANTS
  a1 = a1
  a2 = a2
  a3 = a3
  a4 = a4
  a5 = a5
  a6 = a6
  Addrs = {a1, a2, a3, a4, a5, a6}
  Names = {"mixtral", "mixtral_gptq", "olmoe", "jamba", "dbrx", "nllb", "qwen3", "qwen3_vl", "qwen3_5", "deepseek_v2", "deepseek_v3", "deepseek_native", "deepseek_logits", "glm", "hy_v3", "minimax", "v4", "v4_hash", "gpt_oss", "gpt_oss_mxfp4"}
  ExpertCount = 6
  TopK = 2
  Groups <- MCGroups
  TopGroups = 2
  Tokens = {"text", "pad"}
  Padded = {"pad"}
  Versions <- MCVersions
  Reloaded = {"glm", "qwen3"}
  Score <- MCScore
  BiasOf <- MCBias
  TableRow <- MCTable
  OpBatches <- MCBatches
CONSTRAINT Scope
SYMMETRY Symmetric
INVARIANTS RouterReadsCurrent FusedAgrees OutputOwed
