------------------------------ MODULE Conversion ------------------------------
(***************************************************************************)
(* convert/convert.py with the passes it drives: the resolution of the     *)
(* checkpoint directory, the three expansions of fused expert tensors      *)
(* (v5_remap.py), the expert quantizers and the cast policy                *)
(* (cast_policy.py), and the pipeline converter (pipeline.py).  Names are  *)
(* records: directory, block, layer, expert, field, and what follows the   *)
(* field.  A tensor is its shape, dtype and the source rows it is made of. *)
(***************************************************************************)
EXTENDS Integers, Sequences, FiniteSets, SequencesExt

CONSTANTS
  Roots,        \* checkpoint roots: [index, dirs]; a directory has arch, quant, experts and tensors
  Modes,        \* values of quantize_experts, "none" among them
  Subfolders,   \* values of subfolder, "none" among them
  ComputeDtype, \* config dtype the cast policy casts to
  Fp8Block, Fp4Block

ASSUME ConversionAssumption == Fp8Block \in Nat \ {0} /\ Fp4Block \in Nat \ {0, 1} /\ "none" \in Modes

VARIABLES
  root, mode, subfolder,
  step,       \* the step convert_checkpoint is at; "done" or "raised" at the end
  at,         \* directories being converted: several for a pipeline
  names,      \* names after the passes so far
  virtual,    \* source, expert and part of every name an expansion made
  weights,    \* names the quantizer quantizes
  plan,       \* planned members: [name, shape, dtype], in the order of the index
  cache,      \* weights quantized and still held
  quantized,  \* times each weight was quantized
  store       \* members written: [name, rows, shape, dtype]

inputs == <<root, mode, subfolder>>
passes == <<at, names, virtual, weights, plan>>
conversion == <<inputs, step, passes, cache, quantized, store>>

Fused    == -1   \* all experts of a layer in one tensor
NoExpert == -2
Floats   == {"float32", "float16", "bfloat16", "float8_e4m3fn"}
ItemSize(dtype) == CASE dtype \in {"float32", "int32"} -> 4
                     [] dtype \in {"float16", "bfloat16"} -> 2
                     [] OTHER -> 1
Prod(s)  == LET p[i \in 0 .. Len(s)] == IF i = 0 THEN 1 ELSE p[i - 1] * s[i] IN p[Len(s)]
Bytes(t) == Prod(t.shape) * ItemSize(t.dtype)
Up(a, b) == (a + b - 1) \div b
-----------------------------------------------------------------------------
PackedFields == <<"gate_up_proj_blocks", "gate_up_proj_scales", "gate_up_proj_bias",
                  "down_proj_blocks", "down_proj_scales", "down_proj_bias">>
(* registry.slots: the order of an expert's members.                       *)
SlotTable(arch) ==
  CASE arch = "mixtral" -> <<"w1", "w2", "w3">>
    [] arch = "gpt_oss" -> PackedFields
    [] arch = "dbrx"    -> <<"w1", "v1", "w2">>
    [] arch \in {"qwen3", "glm"} -> <<"gate_proj", "up_proj", "down_proj">>
    [] OTHER -> <<>>   \* hyv3 and minimaxm3 have none

(* What published checkpoints are like, and the conversion relies on.  A   *)
(* tensor has one name and no empty dimension.                             *)
WellNamed(d, dir) ==
  /\ dir.experts \in Nat
  /\ dir.tensors \in Seq(ToSet(dir.tensors))
  /\ \A i, j \in DOMAIN dir.tensors : dir.tensors[i].name = dir.tensors[j].name => i = j
  /\ \A t \in ToSet(dir.tensors) : LET n == t.name IN
       /\ n = [at |-> d, block |-> n.block, layer |-> n.layer, expert |-> n.expert, field |-> n.field, aux |-> n.aux]
       /\ n.expert \in Nat \cup {Fused, NoExpert}
       /\ t.shape \in Seq(Nat \ {0}) /\ (n.expert = Fused => Len(t.shape) > 1)
(* A layer keeps its experts fused or apart, in one block; a Mixtral       *)
(* router is in the block of its experts, which is mlp when they are fused.*)
OneLayout(dir) ==
  \A s, t \in ToSet(dir.tensors) : LET n == s.name  m == t.name IN
    n.layer = m.layer =>
      /\ n.expert = Fused => m.expert < 0 /\ (m.expert = Fused => m.block = n.block)
      /\ (dir.arch = "mixtral" /\ m.field = "gate") =>
           /\ n.expert >= 0 => m.block = n.block
           /\ n.expert = Fused =>
                /\ n.block = "mlp" /\ m.block = "mlp" /\ m.aux = "weight"
                /\ \E u \in ToSet(dir.tensors) :
                     u.name.expert = Fused /\ u.name.field = "gate_up_proj" /\ u.name.layer = n.layer
(* A family names its experts' weights as its slot table does, has scales  *)
(* only when it is quantized, and then its payloads in one of the formats  *)
(* the cast policy knows.                                                  *)
KnownFormat(dir) ==
  \A t \in ToSet(dir.tensors) : LET n == t.name IN
    /\ n.expert >= 0 /\ n.aux = "weight" /\ SlotTable(dir.arch) # <<>> => n.field \in ToSet(SlotTable(dir.arch))
    /\ dir.arch = "dbrx" /\ n.expert = Fused => n.field \in ToSet(SlotTable("dbrx"))
    /\ dir.quant = "none" => n.aux \notin {"weight_scale_inv", "weight_scales"}
    /\ (dir.quant # "none" /\ n.expert # NoExpert
        /\ n.field \notin {"gate_up_proj_bias", "down_proj_bias"} /\ n.aux # "bias") =>
         \/ t.dtype \notin Floats
         \/ dir.arch = "gpt_oss" /\ dir.quant = "mxfp4" /\ n.field \in {PackedFields[i] : i \in {1, 2, 4, 5}}
         \/ dir.arch = "glm" /\ dir.quant = "fp8" /\ t.dtype = "float8_e4m3fn"
         \/ dir.arch = "glm" /\ dir.quant = "fp8" /\ n.expert >= 0 /\ n.aux = "weight_scale_inv"
         \/ dir.quant \in {"gptq", "awq"} /\ n.expert >= 0 /\ n.aux \in {"qweight", "qzeros", "scales", "g_idx"}
ASSUME CheckpointsAssumption ==
  \A r \in Roots : IsFiniteSet(DOMAIN r.dirs) /\ \A d \in DOMAIN r.dirs :
    WellNamed(d, r.dirs[d]) /\ OneLayout(r.dirs[d]) /\ KnownFormat(r.dirs[d])
-----------------------------------------------------------------------------
Pipeline == Cardinality(at) > 1
Conf(n)  == root.dirs[n.at]
Mixtral(n) == Conf(n).arch = "mixtral"

(* _ShardedCheckpoint.spec and load.                                       *)
Source(n) == CHOOSE t \in ToSet(Conf(n).tensors) : t.name = n
SourceLoad(n) ==
  LET t == Source(n)
  IN  [shape |-> t.shape, dtype |-> t.dtype,
       rows |-> [i \in 1 .. Prod(Front(t.shape)) |-> <<n, i>>]]

(* V5Expansion.expand_names: the virtual members of one name.              *)
V5Field(n, part) ==
  CASE part = "gate" -> IF Mixtral(n) THEN "w1" ELSE "gate_proj"
    [] part = "up"   -> IF Mixtral(n) THEN "w3" ELSE "up_proj"
    [] OTHER         -> IF Mixtral(n) THEN "w2" ELSE "down_proj"
OutBlock(n) == IF Mixtral(n) /\ n.block = "mlp" THEN "block_sparse_moe" ELSE n.block
V5Member(n, e, part) ==
  [n EXCEPT !.block = OutBlock(n), !.expert = e, !.aux = "weight", !.field = V5Field(n, part)]
V5Expands(n) ==
  /\ Conf(n).arch # "gpt_oss" /\ n.expert = Fused /\ n.aux = ""
  /\ n.field \in {"gate_up_proj", "down_proj"} /\ Len(Source(n).shape) = 3
V5Parts(n) == IF n.field = "gate_up_proj" THEN <<"gate", "up">> ELSE <<"down">>
V5RouterSeen(n) ==   \* mutant: only the names before it are searched
  /\ Mixtral(n) /\ n.block = "mlp" /\ n.field = "gate" /\ n.aux = "weight"
  /\ \E i, j \in DOMAIN names : /\ i < j /\ names[j] = n
                              /\ names[i].expert = Fused /\ names[i].field = "gate_up_proj"
                              /\ names[i].layer = n.layer /\ names[i].block = n.block
V5Router(n) ==
  /\ Mixtral(n) /\ n.block = "mlp" /\ n.field = "gate" /\ n.aux = "weight"
  /\ \E m \in ToSet(names) :   \* the router's block is a prefix of it
       m.expert = Fused /\ m.field = "gate_up_proj" /\ m.layer = n.layer /\ m.block = n.block
V5Lists(n) ==   \* expert by expert
  [i \in 1 .. Source(n).shape[1] |->
     [p \in DOMAIN V5Parts(n) |-> [name |-> V5Member(n, i - 1, V5Parts(n)[p]), kind |-> "v5",
                                   of |-> n, expert |-> i - 1, part |-> V5Parts(n)[p]]]]
V5Of(n) ==
  CASE V5Expands(n) -> FlattenSeq(V5Lists(n))
    [] V5Router(n) -> <<[name |-> [n EXCEPT !.block = "block_sparse_moe"], kind |-> "renamed",
                         of |-> n, expert |-> NoExpert, part |-> ""]>>
    [] OTHER -> <<[name |-> n, kind |-> "raw"]>>

(* GptOssExpansion and DbrxExpansion: one member per expert.               *)
GptOssExpands(n) == Conf(n).arch = "gpt_oss" /\ n.expert = Fused /\ n.field \in ToSet(PackedFields)
DbrxExpands(n)   == Conf(n).arch = "dbrx" /\ Conf(n).experts > 0 /\ n.expert = Fused /\ n.field \in {"w1", "v1", "w2"}
PerExpert(n, kind) ==
  [i \in 1 .. Conf(n).experts |->
     [name |-> [n EXCEPT !.expert = i - 1], kind |-> kind, of |-> n, expert |-> i - 1, part |-> ""]]
GptOssOfFirst(n) ==   \* mutant: the loop returns after its first expert
  IF GptOssExpands(n) THEN <<PerExpert(n, "gpt_oss")[1]>> ELSE <<[name |-> n, kind |-> "raw"]>>
GptOssOf(n) == IF GptOssExpands(n) THEN PerExpert(n, "gpt_oss") ELSE <<[name |-> n, kind |-> "raw"]>>
DbrxOf(n)   == IF DbrxExpands(n)   THEN PerExpert(n, "dbrx")    ELSE <<[name |-> n, kind |-> "raw"]>>
GptOssRaises == \E n \in ToSet(names) : GptOssExpands(n) /\ Source(n).shape[1] # Conf(n).experts
DbrxRaises   == \E n \in ToSet(names) : DbrxExpands(n) /\ Source(n).shape[1] % Conf(n).experts # 0
-----------------------------------------------------------------------------
V5ShapeFlat(v, s) ==   \* mutant: down_proj promised transposed
  CASE v.kind = "renamed" -> s [] v.kind = "v5" /\ v.part = "down" -> <<s[3], s[2]>>
    [] OTHER -> <<s[2] \div 2>> \o SubSeq(s, 3, Len(s))
(* raw_spec: what each expansion promises of a name it made.               *)
V5Shape(v, s) ==
  CASE v.kind = "renamed" -> s [] v.kind = "v5" /\ v.part = "down" -> Tail(s)
    [] OTHER -> <<s[2] \div 2>> \o SubSeq(s, 3, Len(s))
Collapse(n, s) ==
  IF n.field \in {"gate_up_proj_blocks", "down_proj_blocks"} /\ Len(s) = 3 THEN <<s[1], s[2] * s[3]>> ELSE s
DbrxShape(n, s) == <<s[1] \div Conf(n).experts>> \o Tail(s)
RawSpec(n) ==
  IF n \notin DOMAIN virtual THEN [shape |-> Source(n).shape, dtype |-> Source(n).dtype]
  ELSE LET v == virtual[n]
           s == Source(v.of)
       IN  [dtype |-> s.dtype,
            shape |-> CASE v.kind \in {"v5", "renamed"} -> V5Shape(v, s.shape)
                        [] v.kind = "gpt_oss" -> Collapse(n, Tail(s.shape))
                        [] OTHER -> DbrxShape(n, s.shape)]

(* raw_load: what each expansion returns for it.                           *)
Part(t, count, e) ==   \* the e-th of count equal parts of the rows
  LET k == Len(t.rows) \div count IN SubSeq(t.rows, e * k + 1, (e + 1) * k)
V5Load(v, t) ==
  LET row  == Part(t, t.shape[1], v.expert)
      half == Up(Len(row), 2)   \* torch.chunk: the first half is the larger
  IN  CASE v.kind = "renamed" -> t
        [] v.kind = "v5" /\ v.part = "down" -> [t EXCEPT !.rows = row, !.shape = Tail(@)]
        [] v.kind = "v5" /\ v.part = "gate" -> [t EXCEPT !.rows = SubSeq(row, 1, half), !.shape = <<half>> \o SubSeq(@, 3, Len(@))]
        [] OTHER -> [t EXCEPT !.rows = SubSeq(row, half + 1, Len(row)),
                              !.shape = <<Len(row) - half>> \o SubSeq(@, 3, Len(@))]
GptOssLoad(n, v, t) == [t EXCEPT !.rows = Part(t, t.shape[1], v.expert), !.shape = Collapse(n, Tail(@))]
DbrxLoad(n, v, t)   == [t EXCEPT !.rows = Part(t, Conf(n).experts, v.expert), !.shape = DbrxShape(n, @)]
RawLoad(n) ==
  IF n \notin DOMAIN virtual THEN SourceLoad(n)
  ELSE LET v == virtual[n]
           t == SourceLoad(v.of)
       IN  CASE v.kind \in {"v5", "renamed"} -> V5Load(v, t)
             [] v.kind = "gpt_oss" -> GptOssLoad(n, v, t)
             [] OTHER -> DbrxLoad(n, v, t)

(* CastPolicy.keeps_raw_dtype and target_dtype.                            *)
KeepsRaw(n, dtype) ==
  \/ Conf(n).quant = "mxfp4" /\ n.field \in {PackedFields[i] : i \in {1, 2, 4, 5}}
  \/ Conf(n).arch = "glm" /\ Conf(n).quant = "fp8" /\ (n.aux = "weight_scale_inv" \/ dtype = "float8_e4m3fn")
  \/ Conf(n).quant \in {"gptq", "awq"} /\ n.aux \in {"qweight", "qzeros", "scales", "g_idx"}
  \/ dtype \notin Floats
Cast(n, t) == IF KeepsRaw(n, t.dtype) THEN t ELSE [t EXCEPT !.dtype = ComputeDtype]

(* registry.slots.member_slot_rank, 0 for None.                            *)
SlotIn(table, field) == IF field \in ToSet(table) THEN CHOOSE r \in DOMAIN table : table[r] = field ELSE 0
Rank(n) == IF n.expert >= 0 THEN SlotIn(SlotTable(Conf(n).arch), n.field) ELSE 0
IsExpert(n) == ~Pipeline /\ n.expert >= 0

QuantizesGate(n) == IsExpert(n) /\ Rank(n) > 1 /\ n.aux = "weight"   \* mutant: falsy rank taken for None
(* FP8ExpertQuantizer and FP4ExpertQuantizer.                              *)
Quantizes(n)  == IsExpert(n) /\ Rank(n) # 0 /\ n.aux = "weight"
ScaleAux      == IF mode = "fp8" THEN "weight_scale_inv" ELSE "weight_scales"
ScaleOf(n)    == [n EXCEPT !.aux = ScaleAux]
WeightOf(n)   == IF n.aux = ScaleAux THEN [n EXCEPT !.aux = "weight"] ELSE n
QuantizerRaises ==
  \/ \E n \in ToSet(names) : Quantizes(n) /\ LET s == RawSpec(n) IN
       \/ Len(s.shape) # 2 \/ s.dtype \notin {"bfloat16", "float16"}
       \/ mode = "fp4" /\ s.shape[2] % Fp4Block # 0
  \/ ~\E n \in ToSet(names) : Quantizes(n)
WithScaleFirst(n) == IF Quantizes(n) THEN <<ScaleOf(n), n>> ELSE <<n>>   \* mutant
WithScale(n)  == IF Quantizes(n) THEN <<n, ScaleOf(n)>> ELSE <<n>>
QuantSpec(n) ==
  LET s == RawSpec(WeightOf(n)).shape
  IN  CASE mode = "fp8" /\ n.aux = ScaleAux -> [dtype |-> "float32", shape |-> <<Up(s[1], Fp8Block), Up(s[2], Fp8Block)>>]
        [] mode = "fp8" /\ n.aux # ScaleAux -> [dtype |-> "float8_e4m3fn", shape |-> s]
        [] mode # "fp8" /\ n.aux = ScaleAux -> [dtype |-> "uint8", shape |-> <<s[1], s[2] \div Fp4Block>>]
        [] OTHER -> [dtype |-> "uint8", shape |-> <<s[1], s[2] \div 2>>]
(* fp8.quant_fp8_blockwise pads to whole blocks; fp4.quant_mxfp4 packs two *)
(* values per byte.                                                        *)
Fp8Quant(t) ==
  LET rows == Up(t.shape[1], Fp8Block) * Fp8Block
      cols == Up(t.shape[2], Fp8Block) * Fp8Block
  IN  [weight |-> [t EXCEPT !.dtype = "float8_e4m3fn"],
       scale  |-> [rows |-> <<>>, dtype |-> "float32", shape |-> <<rows \div Fp8Block, cols \div Fp8Block>>]]
Fp4Quant(t) ==
  [weight |-> [t EXCEPT !.dtype = "uint8", !.shape = <<@[1], @[2] \div 2>>],
   scale  |-> [rows |-> <<>>, dtype |-> "uint8", shape |-> <<t.shape[1], t.shape[2] \div Fp4Block>>]]
Quant(t) == IF mode = "fp8" THEN Fp8Quant(t) ELSE Fp4Quant(t)
-----------------------------------------------------------------------------
(* spec_of and the order of the planned members: stages by first name,     *)
(* experts ascending, slot ranks when every member has one.                *)
SpecOf(n) ==
  LET t == IF Pipeline THEN Source(n) ELSE IF WeightOf(n) \in weights THEN QuantSpec(n) ELSE Cast(n, RawSpec(n))
  IN  [name |-> n, shape |-> t.shape, dtype |-> t.dtype]
(* pipeline._component_stage: blocks of an H3 transformer apart, their     *)
(* AdaLN branches bundled; other components by shard.                      *)
Stage(n) ==
  CASE Pipeline /\ Conf(n).arch = "h3" /\ n.layer >= 0 -> <<IF n.block = "adaln" THEN "adaln" ELSE "block", n.at, n.layer>>
    [] Pipeline /\ Conf(n).arch # "h3" -> <<"shard", n.at, Source(n).shard>>
    [] IsExpert(n) -> <<"experts", n.at, n.layer>>
    [] OTHER -> <<"dense", n.at, n.layer>>
Ranked(n) ==
  IsExpert(n) /\ \A m \in ToSet(names) : m.layer = n.layer /\ m.expert = n.expert => Rank(m) # 0
Place(i) ==
  LET n == names[i]
      first == CHOOSE k \in DOMAIN names :
                 Stage(names[k]) = Stage(n) /\ \A j \in 1 .. k - 1 : Stage(names[j]) # Stage(n)
  IN  <<first, IF IsExpert(n) THEN n.expert ELSE 0, IF Ranked(n) THEN Rank(n) ELSE 0, i>>
Before(i, j) == \E k \in 1 .. 4 : Place(i)[k] < Place(j)[k] /\ \A l \in 1 .. k - 1 : Place(i)[l] = Place(j)[l]
PlanOrder ==
  [k \in DOMAIN names |-> CHOOSE j \in DOMAIN names : Cardinality({i \in DOMAIN names : Before(i, j)}) = k - 1]
-----------------------------------------------------------------------------
ConvertInit ==
  /\ root \in Roots /\ mode \in Modes /\ subfolder \in Subfolders
  /\ step = "resolve" /\ at = {} /\ names = <<>> /\ virtual = <<>> /\ weights = {} /\ plan = <<>>
  /\ cache = <<>> /\ quantized = <<>> /\ store = <<>>

Refuse == step' = "raised" /\ UNCHANGED <<inputs, passes, cache, quantized, store>>
Components == {d \in DOMAIN root.dirs \ {"."} : ~root.dirs[d].index}
MultiComponent == subfolder = "none" /\ root.index /\ Cardinality(Components) >= 2

Open(dirs) ==
  /\ at' = dirs
  /\ names' = FlattenSeq([i \in 1 .. Cardinality(dirs) |->
       LET order == SetToSeq(dirs) IN [k \in DOMAIN root.dirs[order[i]].tensors |-> root.dirs[order[i]].tensors[k].name]])
  /\ UNCHANGED <<inputs, virtual, weights, plan, cache, quantized, store>>

(* The mode is checked, then a pipeline goes its own way.                  *)
StartPipeline ==
  /\ step = "resolve" /\ mode = "none" /\ MultiComponent
  /\ Open(Components) /\ step' = "plan"

(* _resolve_checkpoint_dir.                                                *)
Resolved ==
  CASE subfolder # "none" -> {subfolder} \cap DOMAIN root.dirs
    [] subfolder = "none" /\ root.index -> {"transformer"} \cap DOMAIN root.dirs
    [] OTHER -> {"."} \cap DOMAIN root.dirs
ResolveDir ==
  /\ step = "resolve" /\ mode \in {"none", "fp8", "fp4"} /\ ~MultiComponent /\ Resolved # {}
  /\ mode # "none" => \A d \in Resolved : root.dirs[d].quant = "none"
  /\ Open(Resolved) /\ step' = "v5"
RefuseSource ==
  /\ step = "resolve"
  /\ \/ mode \notin {"none", "fp8", "fp4"}
     \/ MultiComponent /\ mode # "none"
     \/ ~MultiComponent /\ Resolved = {}
     \/ ~MultiComponent /\ mode # "none" /\ \E d \in Resolved : root.dirs[d].quant # "none"
  /\ Refuse

(* One pass of expand_names, which gives each name the list of its parts.  *)
ExpandTo(parts, next) ==
  LET made == FlattenSeq(parts)
      new  == {m \in ToSet(made) : m.kind # "raw"}
  IN  /\ names' = [i \in DOMAIN made |-> made[i].name]
      /\ virtual' = [n \in {m.name : m \in new} \cup DOMAIN virtual |->
                       IF \E m \in new : m.name = n THEN CHOOSE m \in new : m.name = n ELSE virtual[n]]
      /\ step' = next /\ UNCHANGED <<inputs, at, weights, plan, cache, quantized, store>>
ExpandV5     == step = "v5" /\ ExpandTo([i \in DOMAIN names |-> V5Of(names[i])], "gpt_oss")
ExpandGptOss == step = "gpt_oss" /\ ~GptOssRaises /\ ExpandTo([i \in DOMAIN names |-> GptOssOf(names[i])], "dbrx")
ExpandDbrx   ==
  /\ step = "dbrx" /\ ~DbrxRaises
  /\ ExpandTo([i \in DOMAIN names |-> DbrxOf(names[i])], IF mode = "none" THEN "plan" ELSE "prepare")
PassRaises ==
  /\ \/ step = "gpt_oss" /\ GptOssRaises
     \/ step = "dbrx" /\ DbrxRaises
     \/ step = "prepare" /\ QuantizerRaises
  /\ Refuse

Prepare ==
  /\ step = "prepare" /\ ~QuantizerRaises
  /\ names' = FlattenSeq([i \in DOMAIN names |-> WithScale(names[i])])
  /\ weights' = {n \in ToSet(names) : Quantizes(n)}
  /\ step' = "plan" /\ UNCHANGED <<inputs, at, virtual, plan, cache, quantized, store>>

Plan ==
  /\ step = "plan"
  /\ plan' = [i \in DOMAIN names |-> SpecOf(names[PlanOrder[i]])]
  /\ step' = "write" /\ UNCHANGED <<inputs, at, names, virtual, weights, cache, quantized, store>>

(* write_store checks the number of bytes of every member it writes.       *)
Write(n, t) ==
  IF Bytes(t) = Bytes(plan[Len(store) + 1])
  THEN store' = Append(store, [name |-> n, rows |-> t.rows, shape |-> t.shape, dtype |-> t.dtype]) /\ UNCHANGED step
  ELSE step' = "raised" /\ UNCHANGED store
LoadRaw ==
  /\ step = "write" /\ Len(store) < Len(plan)
  /\ LET n == plan[Len(store) + 1].name
     IN  /\ WeightOf(n) \notin weights
         /\ Write(n, IF Pipeline THEN SourceLoad(n) ELSE Cast(n, RawLoad(n)))
  /\ UNCHANGED <<inputs, passes, cache, quantized>>
LoadQuantized ==
  /\ step = "write" /\ Len(store) < Len(plan)
  /\ LET n == plan[Len(store) + 1].name
         w == WeightOf(n)
         hit  == w \in DOMAIN cache
         pair == IF hit THEN cache[w] ELSE Quant(RawLoad(w))
     IN  /\ w \in weights
         /\ quantized' = IF hit THEN quantized
                         ELSE [x \in DOMAIN quantized \cup {w} |->
                                 (IF x \in DOMAIN quantized THEN quantized[x] ELSE 0) + (IF x = w THEN 1 ELSE 0)]
         /\ cache' = IF n = w THEN [x \in DOMAIN cache \cup {w} |-> IF x = w THEN pair ELSE cache[x]]
                     ELSE [x \in DOMAIN cache \ {w} |-> cache[x]]
         /\ Write(n, IF n = w THEN pair.weight ELSE pair.scale)
  /\ UNCHANGED <<inputs, passes>>
Publish ==
  /\ step = "write" /\ Len(store) = Len(plan)
  /\ step' = "done" /\ UNCHANGED <<inputs, passes, cache, quantized, store>>

ConvertNext ==
  \/ StartPipeline \/ ResolveDir \/ RefuseSource
  \/ ExpandV5 \/ ExpandGptOss \/ ExpandDbrx \/ PassRaises
  \/ Prepare \/ Plan \/ LoadRaw \/ LoadQuantized \/ Publish
ConvertSpec == ConvertInit /\ [][ConvertNext]_conversion
-----------------------------------------------------------------------------
Proj(n) == CASE n.field \in {"w1", "gate_proj"} -> "gate"
             [] n.field \in {"w3", "up_proj", "v1"} -> "up"
             [] n.field \in {"w2", "down_proj"} -> "down"
             [] OTHER -> n.field
(* What a row of the checkpoint is: layer, expert and projection, said of  *)
(* the fused layouts as their model classes read them.                     *)
Meaning(row) ==
  LET s == row[1]
      t == Source(s)
      per == Prod(Front(t.shape)) \div (IF Conf(s).arch \in {"gpt_oss", "dbrx"} THEN Conf(s).experts ELSE t.shape[1])
      e == (row[2] - 1) \div per
      upper == (row[2] - 1) % per >= per \div 2
      half  == IF upper THEN "up" ELSE "gate"
  IN  IF s.expert # Fused THEN <<s.at, s.layer, s.expert, Proj(s)>>
      ELSE <<s.at, s.layer, e, IF s.field = "gate_up_proj" THEN half ELSE Proj(s)>>

(* Every row of the checkpoint is in the finished store once: no expansion *)
(* drops, repeats or overlaps a slice (V5Expansion, GptOssExpansion,       *)
(* DbrxExpansion, both quantizers).                                        *)
RowsStoredOnce ==
  step = "done" => LET written == FlattenSeq([i \in DOMAIN store |-> store[i].rows])
                    IN  /\ IsInjective(written)
                        /\ ToSet(written) = UNION {LET t == SourceLoad(n) IN ToSet(t.rows) :
                             n \in UNION {{t.name : t \in ToSet(root.dirs[d].tensors)} : d \in at}}

(* A stored tensor holds the expert and the projection its name says.      *)
UnderItsName ==
  \A i \in DOMAIN store : LET n == store[i].name IN
    n.expert # Fused => \A r \in ToSet(store[i].rows) : Meaning(r) = <<n.at, n.layer, n.expert, Proj(n)>>

(* Mixtral's router moves to the block its experts move to, whatever order *)
(* the names came in (the any() over all names in V5Expansion).            *)
RouterBesideItsExperts ==
  step = "done" => \A i, j \in DOMAIN store : LET n == store[i].name  m == store[j].name IN
    (Mixtral(n) /\ n.field = "gate" /\ m.at = n.at /\ m.expert >= 0 /\ m.layer = n.layer) => n.block = m.block

(* Whatever the order of its names, every tensor is stored under the name  *)
(* of the module that reads it.                                            *)
StoredUnderItsName == UnderItsName /\ RouterBesideItsExperts

(* The index describes the bytes: the shape and dtype planned from spec    *)
(* alone are those of the tensor load returned much later.  The writer     *)
(* itself compares only their number of bytes.                             *)
IndexDescribesBytes ==
  \A i \in DOMAIN store : store[i].shape = plan[i].shape /\ store[i].dtype = plan[i].dtype

(* A quantizer holds at most one weight of the checkpoint at a time, drops *)
(* it with its scale, and quantizes no weight twice.                       *)
OneWeightHeld ==
  /\ Cardinality(DOMAIN cache) <= 1
  /\ step = "done" => cache = <<>>
  /\ \A w \in DOMAIN quantized : quantized[w] = 1

(* A store said to hold quantized experts has each ranked expert weight    *)
(* quantized with its own scale right behind it, and has at least one      *)
(* (docs/store-format-v2.md, 4.5 and G4).                                  *)
QuantizedWhole ==
  (step = "done" /\ mode # "none") =>
    /\ \E i \in DOMAIN store : store[i].name.aux = ScaleAux
    /\ \A i \in DOMAIN store : (store[i].name.expert >= 0 /\ store[i].name.aux = "weight") =>
         /\ store[i].dtype = IF mode = "fp8" THEN "float8_e4m3fn" ELSE "uint8"
         /\ i < Len(store) /\ store[i + 1].name = ScaleOf(store[i].name)

(* Payloads of GPTQ, AWQ, MXFP4 and GLM FP8 sources keep the dtype their   *)
(* bits are written in; components of a pipeline keep all of theirs.       *)
PayloadUntouched ==
  mode = "none" => \A i \in DOMAIN store : LET m == store[i] IN
    (Pipeline \/ (Conf(m.name).quant # "none" /\ m.name.expert >= 0
                  /\ m.name.field \notin {"gate_up_proj_bias", "down_proj_bias"} /\ m.name.aux # "bias")) =>
      \A r \in ToSet(m.rows) : m.dtype = Source(r[1]).dtype

(* The bytes of the store are those its index announces, and bits that are *)
(* not numbers of the compute dtype are never cast.                        *)
BytesAsAnnounced == IndexDescribesBytes /\ PayloadUntouched
=============================================================================
