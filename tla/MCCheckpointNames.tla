-------------------------- MODULE MCCheckpointNames --------------------------
(* Checkpoints for model checking CheckpointNames: two experts per layer,  *)
(* a few rows per matrix to convert; names of every family to scan, with   *)
(* the other towers and stacks their published indices list.               *)
EXTENDS CheckpointNames

N(d, block, layer, expert, field, aux) ==
  [at |-> d, block |-> block, layer |-> layer, expert |-> expert, field |-> field, aux |-> aux]
T(n, shape, dtype) == [name |-> n, shape |-> shape, dtype |-> dtype, shard |-> 1]
Dir(arch, quant, tensors) ==
  [arch |-> arch, quant |-> quant, experts |-> 2, tensors |-> tensors, index |-> FALSE]
Plain(dir) == [index |-> FALSE, dirs |-> [d \in {"."} |-> dir]]
Root(arch, quant, tensors) == Plain(Dir(arch, quant, tensors))

E(field, aux) == [e \in 0 .. 1 |-> N(".", "mlp", 0, e, field, aux)]
Attn   == T(N(".", "self_attn", 0, NoExpert, "q_proj", "weight"), <<2, 2>>, "float32")
Router == T(N(".", "mlp", 0, NoExpert, "gate", "weight"), <<2, 2>>, "bfloat16")
FusedOf(layer, rows, inner, dtype) ==
  <<T(N(".", "mlp", layer, Fused, "down_proj", ""), <<2, 2, inner>>, dtype),
    T(N(".", "mlp", layer, Fused, "gate_up_proj", ""), <<2, rows, 2>>, dtype)>>
V5Checkpoints ==
  {Root(a, "none", ts) : a \in {"mixtral", "qwen3"},
     ts \in {FusedOf(0, 4, 2, "bfloat16") \o <<Router, Attn>>, <<Attn, Router>> \o Reverse(FusedOf(0, 4, 2, "bfloat16")),
             FusedOf(0, 3, 2, "bfloat16"), FusedOf(0, 4, 3, "bfloat16"), FusedOf(0, 4, 2, "float32") \o <<Router>>,
             <<Router>> \o FusedOf(0, 4, 2, "bfloat16") \o FusedOf(1, 2, 2, "float16")}}

W(e, field) == T(E(field, "weight")[e], <<3, 2>>, "bfloat16")
Aux(e, field, aux, shape, dtype) == T(E(field, aux)[e], shape, dtype)
V4Checkpoints ==
  {Root("mixtral", "none", <<W(0, "w1"), W(0, "w2"), W(0, "w3"), Attn>>),
   Root("qwen3", "none", <<W(1, "down_proj"), W(0, "down_proj"), Aux(0, "gate_proj", "bias", <<3, 1>>, "float32"),
                           W(0, "gate_proj"), W(0, "up_proj")>>),
   Root("hyv3", "none", <<W(0, "down_proj"), W(0, "gate_proj"), W(0, "up_proj")>>),
   Root("glm", "fp8", <<Aux(0, "gate_proj", "weight", <<3, 2>>, "float8_e4m3fn"),
                        Aux(0, "gate_proj", "weight_scale_inv", <<1, 1>>, "float32"), Attn>>),
   Root("qwen3", "gptq", <<Aux(0, "gate_proj", "g_idx", <<2, 1>>, "int32"), Aux(0, "gate_proj", "qweight", <<1, 2>>, "int32"),
                           Aux(0, "gate_proj", "scales", <<1, 2>>, "float16"), Attn>>)}

P(field, shape, dtype) == T(N(".", "mlp", 0, Fused, field, ""), shape, dtype)
PackedCheckpoints ==
  {Root("gpt_oss", "mxfp4", <<P("gate_up_proj_bias", <<k, 2>>, "bfloat16"), P("gate_up_proj_blocks", <<k, 2, 2, 1>>, "uint8"),
                              P("gate_up_proj_scales", <<k, 2, 2>>, "uint8"), Attn>>) : k \in {2, 3}}
  \cup {Root("dbrx", "none", <<T(N(".", "ffn", 0, Fused, "v1", ""), <<r, 2>>, "bfloat16"),
                               T(N(".", "ffn", 0, Fused, "w1", ""), <<r, 2>>, "bfloat16"),
                               T(N(".", "ffn", 0, Fused, "w2", ""), <<r, 2>>, "bfloat16")>>) : r \in {4, 3}}

C(d, field, dtype) == T(N(d, "net", 0, NoExpert, field, "weight"), <<2, 2>>, dtype)
H3  == Dir("h3", "none", <<T(N("transformer", "adaln", 0, NoExpert, "a", "weight"), <<2, 2>>, "float32"),
                           C("transformer", "x", "bfloat16")>>)
Vae == Dir("vae", "none", <<C("vae", "x", "float32"), [C("vae", "y", "float16") EXCEPT !.shard = 2]>>)
Nested == [Dir("vae", "none", <<C("sub", "x", "float32")>>) EXCEPT !.index = TRUE]
Pipelines ==
  {[index |-> i, dirs |-> [d \in ds |-> CASE d = "transformer" -> H3 [] d = "vae" -> Vae [] OTHER -> Nested]] :
     i \in BOOLEAN, ds \in {{"transformer", "vae"}, {"transformer", "vae", "sub"}, {"transformer"}, {"vae", "sub"}}}

AllRoots == V5Checkpoints \cup V4Checkpoints \cup PackedCheckpoints \cup Pipelines
-----------------------------------------------------------------------------
Shape(arch, place, layers) ==
  [arch |-> arch, place |-> place, layers |-> layers, denseLayers |-> {}, encLayers |-> 0, experts |-> 2,
   step |-> 1, encStep |-> 1, period |-> 1, offset |-> 0]
X(tower, word, layer, block, expert, tail, routed) ==
  [tower |-> tower, word |-> word, layer |-> layer, block |-> block, expert |-> expert, tail |-> tail,
   packed |-> tail \in {"down_proj_bias", "gate_up_proj_bias"}, routed |-> routed]
Experts(tower, layers, block, tail) == {X(tower, "layers", l, block, e, tail, TRUE) : l \in layers, e \in 0 .. 1}
Resident(tower, word, block)  == {X(tower, word, 0, block, e, "gate_proj", FALSE) : e \in {0, -1}}
Of(config, listed) == [config |-> config, names |-> listed]

Shared == {X("model", "layers", 0, "mlp", -1, "shared_experts.gate_proj", FALSE)}
Flat(arch, block, tail) ==
  Of(Shape(arch, "top", 2), Experts("model", 0 .. 1, block, tail) \cup Shared \cup
     {X("model", "layers", 0, block, 0, IF arch = "gptoss" THEN "gate_up_proj_bias" ELSE "up", TRUE)})
Tower(arch, place, tower) ==
  Of(Shape(arch, place, 2), Experts(tower, 0 .. 1, "mlp", "gate_proj") \cup Resident("model.visual", "layers", "mlp"))
Mtp(c, layer) == [c EXCEPT !.names = @ \cup {X("model", "layers", layer, "mlp", 0, "gate_proj", FALSE)}]
MtpStack(c, word, block) == [c EXCEPT !.names = @ \cup Resident("mtp", word, block)]

DenseFirst(arch) ==
  Of([Shape(arch, "top", 2) EXCEPT !.denseLayers = {0}], Experts("model", {1}, "mlp", "gate_proj") \cup Shared)

Families ==
  {DenseFirst("deepseekv3"), Mtp(DenseFirst("glmmoedsa"), 2),
   Flat("mixtral", "block_sparse_moe", "w1"), Flat("qwen3", "mlp", "gate_proj"), Flat("olmoe", "mlp", "gate_proj"),
   Flat("deepseekv3", "mlp", "gate_proj"), Mtp(Flat("deepseekv3", "mlp", "gate_proj"), 2),
   [Flat("gptoss", "mlp", "down_proj_bias") EXCEPT !.names =
      @ \cup {X("model", "layers", le[1], "mlp", le[2], "down_proj_bias", FALSE) : le \in {<<2, 0>>, <<0, 2>>}}],
   Flat("mamba", "mlp", "gate_proj"),
   Of(Shape("qwenimage", "top", 0), Resident("transformer_blocks", "layers", "mlp")),
   Mtp(Flat("glmmoedsa", "mlp", "gate_proj"), 2), Mtp(Flat("hyv3", "mlp", "gate_proj"), 2),
   MtpStack(Flat("deepseekv4", "ffn", "w1"), "mtp", "ffn"),
   MtpStack(Of(Shape("deepseekv41", "text", 2), Experts("", 0 .. 1, "ffn", "w1")), "mtp", "ffn"),
   MtpStack(Tower("qwen3_5", "text", "model.language_model"), "layers", "mlp"),
   Tower("qwen3vlmoe", "text", "model.language_model"), Tower("minimaxm3", "text", "model.language_model"),
   MtpStack(Tower("glm5next", "text", "model.language_model"), "layers", "mlp"),
   [Tower("qwen3omnimoe", "thinker", "thinker.model") EXCEPT !.names = @ \cup Resident("talker.model", "layers", "mlp")],
   Of(Shape("dbrx", "top", 2), {[n EXCEPT !.word = "blocks"] : n \in Experts("transformer", 0 .. 1, "ffn.mlp", "w1")}),
   Of(Shape("opt", "top", 2), Resident("decoder", "layers", "fc1") \ {X("decoder", "layers", 0, "fc1", 0, "gate_proj", FALSE)})}
   \cup
  {[Of([Shape("nllb", "top", dec) EXCEPT !.encLayers = enc, !.encStep = 2, !.step = s], {}) EXCEPT !.names =
      Experts("encoder", {l \in 0 .. enc - 1 : l % 2 = 1}, "ffn.expert_", "fc1")
      \cup Experts("decoder", {l \in 0 .. dec - 1 : l % s = s - 1}, "ffn.expert_", "fc1")] :
     enc \in {2, 3}, dec \in {4, 5}, s \in {2, 3}}
   \cup
  {[Of([Shape("jamba", "top", layers) EXCEPT !.period = 2, !.offset = o], {}) EXCEPT !.names =
      Experts("model", {l \in 0 .. layers - 1 : l % 2 = o}, "feed_forward", "gate_proj")
      \cup Resident("model", "layers", "feed_forward")] : layers \in {4, 5}, o \in {1}}
=============================================================================
