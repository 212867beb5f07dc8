-------------------------------- MODULE Naming --------------------------------
(***************************************************************************)
(* parsing/hf_config.py and registry/: which tensors of a checkpoint are   *)
(* members of which expert.  Four chains of substring tests over one       *)
(* architecture name choose the family: the shape of the model             *)
(* (parse_moe_param), the pattern of its expert names (parse_expert_id),   *)
(* the engine's expert type (parse_expert_type) and the slot table         *)
(* (slot_table_for_arch).  The checkpoint's names are scanned one by one,  *)
(* in any order, and grouped as plan_layout groups them.                   *)
(***************************************************************************)
EXTENDS Integers, Sequences, FiniteSets, SequencesExt

CONSTANTS
  Checkpoints, \* [config, names]; config: [arch, place, layers, denseLayers, encLayers,
               \* experts, step, encStep, period, offset]; denseLayers, which no parser reads, have no experts
  Importable   \* guarded architectures the installed transformers has

VARIABLES
  ckpt,    \* the checkpoint scanned
  todo,    \* names not scanned yet
  groups,  \* (layer_id, expert_id) -> names
  dense,   \* names in no expert
  failed   \* a parse raised

vars == <<ckpt, todo, groups, dense, failed>>

Nobody == <<-1, -1>>   \* (None, None)
Conf   == ckpt.config
(* The keys an architecture name holds as substrings, once lowered.        *)
Holds(arch) ==
  {arch} \cup CASE arch = "deepseekv41" -> {"deepseekv4", "deepseek"}
                [] arch \in {"deepseekv4", "deepseekv3"} -> {"deepseek"}
                [] arch \in {"qwen3_5", "qwen3vlmoe", "qwen3omnimoe"} -> {"qwen3", "qwen"}
                [] arch = "qwen3" -> {"qwen"}
                [] arch \in {"glmmoedsa", "glm5next"} -> {"glm"}
                [] arch = "qwenimage" -> {"qwen"}
                [] OTHER -> {}
(* if a in arch: ... elif b in arch: ...                                   *)
First(chain, arch) ==
  LET hit == {i \in DOMAIN chain : chain[i] \in Holds(arch)}
  IN  IF hit = {} THEN "none" ELSE chain[CHOOSE i \in hit : \A j \in hit : i <= j]
-----------------------------------------------------------------------------
MoeChain == <<"nllb", "mixtral", "qwen3_5", "qwen3vlmoe", "qwen3omnimoe", "minimaxm3", "qwen3", "olmoe", "glmmoedsa",
              "glm5next", "hyv3", "deepseekv41", "deepseek", "gptoss", "dbrx", "jamba", "opt">>
(* moe_text_config and _thinker_text_config: a flat config stands for its  *)
(* own text config; a nested one has no layer count at the top.            *)
Place(branch) ==
  CASE branch \in {"qwen3_5", "qwen3vlmoe", "minimaxm3", "glm5next", "deepseekv41"} -> "text"
    [] branch = "qwen3omnimoe" -> "thinker"
    [] OTHER -> "top"
IsDense(arch) == arch \in {"qwenimage", "minimaxh3"}   \* DENSE_MODEL_CLASSES; never parsed
Readable(branch, c) == IsDense(c.arch) \/ (branch # "none" /\ c.place \in {"top", Place(branch)})
(* parse_moe_param: layers, experts, encoder layers of the store.          *)
MoeParam(c) ==
  LET branch == First(MoeChain, c.arch)
      enc == c.encLayers \div c.encStep
      layers == CASE branch = "nllb"  -> enc + c.layers \div c.step
                  [] branch = "jamba" -> Cardinality({l \in 0 .. c.layers - 1 : l % c.period = c.offset})
                  [] OTHER -> c.layers
  IN  [layers |-> layers, experts |-> IF branch = "opt" THEN 0 ELSE c.experts,
       encoder |-> IF branch = "nllb" THEN enc ELSE 0]

IdChain == <<"nllb", "mixtral", "deepseekv41", "deepseekv4", "qwen3_5", "qwen3vlmoe", "qwen3omnimoe", "minimaxm3",
             "glmmoedsa", "glm5next", "hyv3", "deepseek", "qwen3", "olmoe", "dbrx", "jamba", "gptoss">>
(* The regular expression of each branch, on a name of the form            *)
(* <tower>.<word>.<layer>.<block>.experts.<expert>.<tail>.                 *)
LanguageModel == {"language_model", "model.language_model"}
EndsInModel   == LanguageModel \cup {"model", "thinker.model", "talker.model"}
Block(branch) ==
  CASE branch = "nllb"    -> "ffn.expert_"
    [] branch = "mixtral" -> "block_sparse_moe"
    [] branch \in {"deepseekv41", "deepseekv4"} -> "ffn"
    [] branch = "dbrx"    -> "ffn.mlp"
    [] branch = "jamba"   -> "feed_forward"
    [] OTHER -> "mlp"
Anchored(branch, tower) ==
  CASE branch = "nllb" -> tower \in {"encoder", "decoder"}
    [] branch \in {"qwen3_5", "qwen3vlmoe", "minimaxm3", "glm5next"} -> tower \in LanguageModel
    [] branch = "qwen3omnimoe" -> tower = "thinker.model"
    [] branch \in {"glmmoedsa", "hyv3"} -> tower \in EndsInModel
    [] OTHER -> TRUE
Matches(branch, n) ==
  /\ branch # "none" /\ n.expert >= 0 /\ n.block = Block(branch) /\ Anchored(branch, n.tower)
  /\ n.word = IF branch = "dbrx" THEN "blocks" ELSE "layers"
  /\ branch = "gptoss" => n.packed

(* The guards after a match: MTP layers kept at index num_hidden_layers,   *)
(* layers without experts, indices of a mismatched config.                 *)
GuardedLate(branch, n) ==   \* mutant: the family added last without its guard
  CASE branch \in {"glmmoedsa", "glm5next"} -> n.layer < MoeParam(Conf).layers
    [] branch = "jamba"  -> n.layer % Conf.period = Conf.offset
    [] branch = "gptoss" -> n.layer < MoeParam(Conf).layers /\ n.expert < Conf.experts
    [] OTHER -> TRUE
Guarded(branch, n) ==
  CASE branch \in {"glmmoedsa", "glm5next", "hyv3"} -> n.layer < MoeParam(Conf).layers
    [] branch = "jamba"  -> n.layer % Conf.period = Conf.offset
    [] branch = "gptoss" -> n.layer < MoeParam(Conf).layers /\ n.expert < Conf.experts
    [] OTHER -> TRUE
StoreLayerTowers(branch, n) ==   \* mutant: the decoder not put behind the encoder
  CASE branch = "nllb"  -> n.layer \div Conf.step
    [] branch = "jamba" -> (n.layer - Conf.offset) \div Conf.period
    [] OTHER -> n.layer
StoreLayer(branch, n) ==
  CASE branch = "nllb" /\ n.tower = "encoder" -> n.layer \div Conf.encStep
    [] branch = "nllb" /\ n.tower = "decoder" -> n.layer \div Conf.step + MoeParam(Conf).encoder
    [] branch = "jamba" -> (n.layer - Conf.offset) \div Conf.period
    [] OTHER -> n.layer
ExpertId(n) ==
  LET branch == First(IdChain, Conf.arch)
  IN  IF ~IsDense(Conf.arch) /\ Matches(branch, n) /\ Guarded(branch, n) THEN <<StoreLayer(branch, n), n.expert>> ELSE Nobody

(* What published checkpoints are like, and the grouping relies on: the    *)
(* names that read as experts are of one model (nllb has two towers of     *)
(* them), their layers and experts are those of its config but for the     *)
(* MTP layers behind the last and what gpt-oss is guarded against, and     *)
(* every layer with experts has one.                                       *)
ReadsAsExpert(c) == {n \in c.names : Matches(First(IdChain, c.config.arch), n)}
Towers(g)        == IF g.arch = "nllb" THEN {"encoder", "decoder"} ELSE {"the model"}
Depth(g, tower)  == IF g.arch = "nllb" /\ tower = "encoder" THEN g.encLayers ELSE g.layers
Step(g, tower)   == IF tower = "encoder" THEN g.encStep ELSE g.step
IsSparse(g, tower, l) ==
  CASE g.arch = "nllb"  -> (l + 1) % Step(g, tower) = 0
    [] g.arch = "jamba" -> l % g.period = g.offset
    [] OTHER -> l \notin g.denseLayers
MayTrail(arch) ==
  First(IdChain, arch) \in {"glmmoedsa", "glm5next", "hyv3", "gptoss", "deepseek", "qwen3", "olmoe"}
Published(c) ==
  LET g == c.config  experts == ReadsAsExpert(c)
  IN  /\ g.layers \in Nat /\ g.encLayers \in Nat /\ g.experts \in Nat
      /\ {g.step, g.encStep, g.period} \subseteq Nat \ {0} /\ g.offset \in 0 .. g.period - 1
      /\ g.arch \in {"nllb", "jamba"} => g.denseLayers = {}
      /\ c.names # {} /\ \A n \in c.names : n.layer \in Nat /\ n.expert \in Int
      /\ g.arch # "nllb" => \A n, m \in experts : n.tower = m.tower
      /\ \A n \in experts :
           /\ n.layer >= Depth(g, n.tower) => MayTrail(g.arch)
           /\ n.layer < Depth(g, n.tower) => n.expert < g.experts \/ g.arch = "gptoss"
           /\ g.arch # "jamba" => IsSparse(g, n.tower, n.layer)
      /\ First(IdChain, g.arch) # "none" =>
           \A t \in Towers(g) : \A l \in 0 .. Depth(g, t) - 1 : IsSparse(g, t, l) =>
             \E n \in experts : n.layer = l /\ n.expert < g.experts /\ (g.arch = "nllb" => n.tower = t)
-----------------------------------------------------------------------------
(* parse_expert_type over the registered keys, the longest first.          *)
LongestFirst == <<"qwen3omnimoe", "deepseek_v3", "deepseekv41", "deepseekv4", "qwen3vlmoe", "glmmoedsa", "minimaxm3",
                  "deepseek", "glm5next", "mixtral", "qwen3_5", "gptoss", "qwen3", "olmoe", "jamba", "nllb", "dbrx",
                  "hyv3", "opt">>
Optional == {"deepseekv4", "deepseekv41", "qwen3_5", "glmmoedsa", "glm5next", "qwen3vlmoe", "qwen3omnimoe", "minimaxm3", "hyv3"}
ExpertType(arch) ==
  LET key == First(SelectSeq(LongestFirst, LAMBDA k : k \in Optional => k \in Importable), arch)
  IN  CASE IsDense(arch) -> 0
        [] key = "none" /\ ~IsDense(arch) -> -1   \* raises
        [] key = "nllb" -> 2
        [] key = "opt"  -> 3
        [] key \in {"mixtral", "dbrx"} -> 4
        [] key = "gptoss" -> 6
        [] OTHER -> 5
SlotChain == <<"mixtral", "gptoss", "nllb", "dbrx", "deepseek", "qwen", "olmoe", "glm", "jamba">>
SlotFamily(arch) ==
  LET key == First(SlotChain, arch)
  IN  IF key \in {"deepseek", "qwen", "olmoe", "glm", "jamba"} THEN "gate_up_down" ELSE key
-----------------------------------------------------------------------------
Init ==
  /\ ckpt \in Checkpoints /\ todo = ckpt.names
  /\ groups = <<>> /\ dense = {} /\ failed = FALSE

(* One tensor of plan_layout's first loop.                                 *)
ScanExpert(n) ==
  LET key == ExpertId(n)
  IN  /\ Readable(First(MoeChain, Conf.arch), Conf) /\ key # Nobody
      /\ groups' = [k \in DOMAIN groups \cup {key} |->
                      {m \in {n} : k = key} \cup IF k \in DOMAIN groups THEN groups[k] ELSE {}]
      /\ UNCHANGED <<dense, failed>>
ScanDense(n) ==
  /\ Readable(First(MoeChain, Conf.arch), Conf) /\ ExpertId(n) = Nobody
  /\ dense' = dense \cup {n} /\ UNCHANGED <<groups, failed>>
ParseRaises(n) ==
  /\ ~Readable(First(MoeChain, Conf.arch), Conf)
  /\ failed' = TRUE /\ UNCHANGED <<groups, dense>>
Scan ==
  \E n \in todo : /\ ~failed /\ todo' = todo \ {n} /\ UNCHANGED ckpt
                  /\ (ScanExpert(n) \/ ScanDense(n) \/ ParseRaises(n))
Spec == Init /\ [][Scan]_vars
-----------------------------------------------------------------------------
(* A group of the store is one expert of the model: the maps from tower    *)
(* and layer to store layer (two towers of nllb over one range, the sparse *)
(* layers of nllb and jamba packed) never make two experts meet.           *)
OneExpertPerGroup ==
  \A k \in DOMAIN groups : \A n, m \in groups[k] : <<n.tower, n.layer, n.expert>> = <<m.tower, m.layer, m.expert>>

(* Store layers and experts are in the range parse_moe_param gives the     *)
(* engine, and once all is scanned every layer of that range has experts,  *)
(* the dense ones of a family that counts them too apart: the packing of   *)
(* sparse layers and the count of them agree.  The plain                   *)
(* deepseek, qwen3 and olmoe branch has no MTP guard: of its checkpoints   *)
(* those with an MTP layer among model.layers are left out.                *)
InLayerMtp == First(IdChain, Conf.arch) \in {"deepseek", "qwen3", "olmoe"}
              /\ \E n \in ckpt.names : n.expert >= 0 /\ n.layer >= Conf.layers
LayersFilled ==
  ~InLayerMtp =>
    /\ \A k \in DOMAIN groups : k[1] \in 0 .. MoeParam(Conf).layers - 1 /\ k[2] \in 0 .. MoeParam(Conf).experts - 1
    /\ (todo = {} /\ ~failed /\ Conf.arch # "opt" /\ ~IsDense(Conf.arch)) =>
         {k[1] : k \in DOMAIN groups} = (0 .. MoeParam(Conf).layers - 1) \ Conf.denseLayers

(* Only experts of the model that is offloaded are grouped: those of       *)
(* vision and talker towers, of MTP stacks and the shared ones stay dense, *)
(* and each offloaded expert is found.                                     *)
OffloadedExactly ==
  (todo = {} /\ ~failed /\ ~InLayerMtp) => \A n \in ckpt.names : (n.routed <=> n \notin dense)

(* The chains agree on the family: the branch that reads the shape is the  *)
(* one that reads the names, except that parse_moe_param treats DeepSeek   *)
(* V4 as deepseek, and no name of a known family fails to parse.           *)
ChainsAgree ==
  /\ failed => First(MoeChain, Conf.arch) = "none"
  /\ LET ofShape == First(MoeChain, Conf.arch)
         ofNames == First(IdChain, Conf.arch)
     IN  ofShape = ofNames \/ <<ofShape, ofNames>> \in {<<"deepseek", "deepseekv4">>, <<"opt", "none">>}
  /\ ExpertType(Conf.arch) = 6 <=> SlotFamily(Conf.arch) = "gptoss"
  /\ ExpertType(Conf.arch) = 2 <=> SlotFamily(Conf.arch) = "nllb"
  /\ ExpertType(Conf.arch) = 4 <=> SlotFamily(Conf.arch) \in {"mixtral", "dbrx"}

(* Grouping and counting agree: one expert per group, groups in the range  *)
(* the engine is told, and none of that range empty.                       *)
GroupsAreExperts == OneExpertPerGroup /\ LayersFilled
=============================================================================
