------------------------------- MODULE MoeBlock -------------------------------
(***************************************************************************)
(* One sparse MoE block of the model wrappers, of any family, and the      *)
(* fused router it caches (wrappers/fused_routing.py).  A row is the dense *)
(* mask and weights of one token.  Expert e contributes num[e] / den of    *)
(* its output; a scoring function is increasing, so its value on a logit   *)
(* is a number of Score, and distinct experts have distinct numbers.       *)
(* Weights are stored at addresses and a kept router keeps what it points  *)
(* to alive.  The routing kernel, the expert executor and the gates of     *)
(* transformers are external.                                              *)
(***************************************************************************)
EXTENDS Integers, Sequences, FiniteSets, FiniteSetsExt, Functions

CONSTANTS
  Names,        \* families of the instance
  ExpertCount,  \* experts of the block
  TopK,         \* num_experts_per_tok
  Groups,       \* n_group sets of experts
  TopGroups,    \* topk_group
  Tokens,       \* tokens a call may carry, one per call: rows are independent
  Padded,       \* tokens the padding mask covers
  Versions,     \* contents of the gate weight and of the selection bias, per family
  Score,        \* Score[v][t][e]: token t at expert e with gate weight v
  BiasOf,       \* BiasOf[v][e]
  TableRow,     \* tid2eid: the experts of each token
  Addrs,        \* storages there can be at a time
  OpBatches     \* keyword arguments of the calls of register_engine_ops

Experts == 0 .. ExpertCount - 1
Devices == {"cpu", "old", "tuned"}     \* two GPUs; the kernels are tuned for one
OpNames == {"topk_softmax", "fused_mxfp4_gemm", "fused_moe_mxfp4", "union_experts_from_mask", "route_ahead_ctx"}

ASSUME BlockAssumption ==
  /\ ExpertCount \in Nat /\ TopK \in 1 .. ExpertCount /\ TopGroups \in 1 .. Cardinality(Groups)
  /\ UNION Groups = Experts /\ \A g, h \in Groups : g = h \/ g \cap h = {}
  /\ \A g \in Groups : Cardinality(g) >= 2
  /\ Padded \subseteq Tokens /\ Cardinality(Addrs) >= 6 /\ 0 \notin Addrs
  /\ \A n \in Names : 0 \notin Versions[n]
  /\ \A G \in SUBSET Groups : Cardinality(G) >= TopGroups => Cardinality(UNION G) >= TopK
\* SyncMixtralSparseMoeBlock takes the first two choices for the mask.
ASSUME MixtralAssumption == "mixtral" \in Names => TopK = 2
\* No score is zero, and none equals another: which of equals torch.topk or a
\* kernel takes is not specified.
ASSUME ScoreAssumption ==
  \A n \in Names : \A v, u \in Versions[n], t \in Tokens :
    /\ Score[v][t] \in [Experts -> Nat \ {0}] /\ BiasOf[u] \in [Experts -> Int]
    /\ \A d, e \in Experts : d # e => /\ Score[v][t][d] # Score[v][t][e]
                                     /\ Score[v][t][d] + BiasOf[u][d] # Score[v][t][e] + BiasOf[u][e]

VARIABLES
  kind,      \* the block's class and configuration
  attached,  \* the engine gave it an expert executor
  device,    \* where the gate weight and the hidden states are
  weight,    \* address of the gate weight
  bias,      \* address and device of the selection bias
  memory,    \* content of each address, Free when nothing refers to it
  lib,       \* _LOAD_TRIED and _MAKE
  cached,    \* _moe_fused_router; from: whose storages it was built from
  ops,       \* engine ops that are registered
  last       \* the last call: what it had, read, dispatched and returned

vars == <<kind, attached, device, weight, bias, memory, lib, cached, ops, last>>

Free == 0    \* no content, and no bias among what a router points to
None == [none |-> TRUE]
-----------------------------------------------------------------------------
(* The families: how a token is routed, what route() is passed when it is  *)
(* called (fused), what runs without an executor, what is added after.     *)
NotFused == [none |-> TRUE]
Plain == [name |-> "", scoring |-> "softmax", bias |-> FALSE, grouped |-> FALSE, renorm |-> TRUE, scaled |-> FALSE,
          table |-> FALSE, firstTwo |-> FALSE, fused |-> NotFused, alone |-> "raises", after |-> 0, shared |-> 0,
          pads |-> FALSE]
Args(scoring, b, g, renorm, scaled) ==
  [scoring |-> scoring, bias |-> b, grouped |-> g, renorm |-> renorm, scaled |-> scaled]

Mixtral == [Plain EXCEPT !.name = "mixtral", !.firstTwo = TRUE]
MixtralGptq == [Plain EXCEPT !.name = "mixtral_gptq", !.alone = "loop"]
Olmoe(norm) == [Plain EXCEPT !.name = "olmoe", !.renorm = norm]
Jamba == [Plain EXCEPT !.name = "jamba"]
Dbrx == [Plain EXCEPT !.name = "dbrx"]
Nllb == [Plain EXCEPT !.name = "nllb", !.pads = TRUE]
Qwen3(norm) ==
  [Plain EXCEPT !.name = "qwen3", !.renorm = norm, !.fused = Args("softmax", FALSE, FALSE, norm, FALSE)]
Qwen3Vl == [Plain EXCEPT !.name = "qwen3_vl", !.alone = "loop"]
Qwen35 ==
  [Plain EXCEPT !.name = "qwen3_5", !.fused = Args("softmax", FALSE, FALSE, TRUE, FALSE), !.alone = "loop", !.shared = 1]
DeepseekV2 == [Plain EXCEPT !.name = "deepseek_v2", !.renorm = FALSE, !.shared = 1]
DeepseekV3 == [Plain EXCEPT !.name = "deepseek_v3", !.renorm = FALSE, !.shared = 1]
DeepseekNative == [Plain EXCEPT !.name = "deepseek_native", !.scoring = "sigmoid", !.bias = TRUE, !.grouped = TRUE,
                                !.scaled = TRUE, !.shared = 1]
DeepseekLogits == [Plain EXCEPT !.name = "deepseek_logits", !.shared = 1]
\* mutant: the wrapper leaves n_group and topk_group at their defaults
GlmArgsUngrouped(norm) == Args("sigmoid", TRUE, FALSE, norm, TRUE)
GlmArgs(norm) == Args("sigmoid", TRUE, TRUE, norm, TRUE)
Glm(norm) == [Plain EXCEPT !.name = "glm", !.scoring = "sigmoid", !.bias = TRUE, !.grouped = TRUE, !.renorm = norm,
                           !.scaled = TRUE, !.fused = GlmArgs(norm), !.alone = "zeros", !.shared = 1]
HyV3 == [Glm(TRUE) EXCEPT !.name = "hy_v3", !.grouped = FALSE, !.fused = NotFused]
MiniMax == [Plain EXCEPT !.name = "minimax", !.scoring = "sigmoid", !.bias = TRUE, !.alone = "loop", !.after = 1, !.shared = 1]
V4(norm) == [Plain EXCEPT !.name = "v4", !.scoring = "sqrtsoftplus", !.bias = TRUE, !.renorm = norm, !.scaled = TRUE,
                          !.fused = Args("sqrtsoftplus", TRUE, FALSE, norm, TRUE)]
V4Hash == [V4(TRUE) EXCEPT !.name = "v4_hash", !.bias = FALSE, !.table = TRUE, !.fused = NotFused]
GptOss == [Plain EXCEPT !.name = "gpt_oss", !.alone = "loop"]
GptOssPacked == [Plain EXCEPT !.name = "gpt_oss_mxfp4", !.alone = "packed"]

Kinds == {Mixtral, MixtralGptq, Jamba, Dbrx, Nllb, Qwen3Vl, Qwen35, DeepseekV2, DeepseekV3, DeepseekNative,
          DeepseekLogits, HyV3, MiniMax, V4Hash, GptOss, GptOssPacked}
         \cup UNION {{Olmoe(n), Qwen3(n), Glm(n), V4(n)} : n \in BOOLEAN}
LateBias == {"glm", "hy_v3"}    \* their bias may be on another device than the block
-----------------------------------------------------------------------------
(* Routing one token with gate weight v and bias b.                        *)
Select(how, v, b, t) == [e \in Experts |-> Score[v][t][e] + (IF how.bias THEN BiasOf[b][e] ELSE 0)]
GroupScore(x, g) == LET best == Max({x[e] : e \in g})
                    IN  best + Max({x[e] : e \in g} \ {best})
BestGroups(x) == {g \in Groups : Cardinality({h \in Groups : GroupScore(x, h) > GroupScore(x, g)}) < TopGroups}
Pool(how, x)  == IF how.grouped THEN UNION BestGroups(x) ELSE Experts
(* torch.topk: the i-th choice has i - 1 of the pool above it.             *)
Above(x, S, e) == {d \in S : x[d] > x[e]}
Largest(x, S) == [i \in 1 .. TopK |-> CHOOSE e \in S : Cardinality(Above(x, S, e)) = i - 1]

(* The experts a token chooses, in torch.topk's order.                     *)
Slots(f, v, b, t) ==
  IF f.table THEN TableRow[t]
  ELSE IF f.pads /\ t \in Padded THEN <<>>
  ELSE LET x == Select(f, v, b, t) IN Largest(x, Pool(f, x))
Times(slots, e)  == Cardinality({i \in DOMAIN slots : slots[i] = e})
(* The scores a token's slots gather, by expert, and what divides them.    *)
Gathered(s, slots) == [e \in Experts |-> s[e] * Times(slots, e)]
Den(how, s, num) == IF how.renorm THEN SumFunction(num)
                    ELSE IF how.scoring = "softmax" THEN SumFunction(s) ELSE 1

\* mutant: scatter_ where the code has scatter_add_
DenseScatter(f, s, slots) ==
  [mask |-> [e \in Experts |-> e \in Range(slots)],
   num  |-> [e \in Experts |-> IF e \in Range(slots) THEN s[e] ELSE 0],
   den  |-> Den(f, s, Gathered(s, slots)), scaled |-> f.scaled]
(* router_mask and routing_weights_mask of the torch path.                 *)
Dense(f, s, slots) ==
  [mask |-> [e \in Experts |-> e \in Range(IF f.firstTwo THEN SubSeq(slots, 1, 2) ELSE slots)],
   num  |-> Gathered(s, slots), den |-> Den(f, s, Gathered(s, slots)), scaled |-> f.scaled]
TorchRow(f, v, b, t) == Dense(f, Score[v][t], Slots(f, v, b, t))

(* The row of make_router's kernel, from the arguments it was built with.  *)
FusedRow(args, v, b, t) ==
  LET x == Select(args, v, b, t)
      pool == Pool(args, x)
      chosen == {e \in pool : Cardinality(Above(x, pool, e)) < TopK}
      s == Score[v][t]
      num == [e \in Experts |-> IF e \in chosen THEN s[e] ELSE 0]
  IN  [mask |-> [e \in Experts |-> e \in chosen], num |-> num, den |-> Den(args, s, num), scaled |-> args.scaled]
-----------------------------------------------------------------------------
(* What a row gives: the executor and the loops read the mask first.       *)
Masked(row) == [e \in Experts |-> IF row.mask[e] THEN row.num[e] ELSE 0]
(* Scaling, shared experts, and NLLB's next_states == 0 that keep the input. *)
Finish(f, num, row) == [num |-> num, den |-> row.den, scaled |-> (IF row.scaled THEN 1 ELSE 0) + f.after,
                        shared |-> f.shared, kept |-> f.pads /\ \A e \in Experts : num[e] = 0]

Gptq == kind.name = "mixtral_gptq"
(* How the experts of a call run.  resident: every packed tensor of the    *)
(* block is on the hidden states' device.                                  *)
Via(resident) ==
  IF attached /\ ~Gptq THEN "executor"
  ELSE IF kind.alone = "packed"
       THEN IF "fused_moe_mxfp4" \in ops /\ device # "cpu" /\ resident THEN "grouped" ELSE "packed"
  ELSE kind.alone
Needs(via) ==
  (IF kind.name = "deepseek_logits" THEN {"topk_softmax"} ELSE {}) \cup
  (IF via = "packed" THEN {"fused_mxfp4_gemm"} ELSE {}) \cup
  (IF ~attached /\ kind.name \in {"gpt_oss", "gpt_oss_mxfp4"} /\ "route_ahead_ctx" \in ops
   THEN {"union_experts_from_mask"} ELSE {})

Output(via, row, slots, s) ==
  CASE via = "zeros"   -> Finish(kind, [e \in Experts |-> 0], row)
    [] via = "grouped" -> Finish(kind, Gathered(s, slots), row)
    [] OTHER           -> Finish(kind, Masked(row), row)
-----------------------------------------------------------------------------
Points(c)  == IF c = None \/ c.router = None THEN {} ELSE {c.router.weight, c.router.bias} \ {Free}
Live(w, b, c) == {w, b.at} \cup Points(c)
Kept(m, w, b, c) == [a \in Addrs |-> IF a \in Live(w, b, c) THEN m[a] ELSE Free]
Unused == {a \in Addrs : memory[a] = Free}

Init ==
  /\ kind \in {k \in Kinds : k.name \in Names} /\ attached \in BOOLEAN /\ device \in Devices
  /\ \E w, b \in Addrs, v, u \in Versions[kind.name], d \in Devices :
       /\ w # b /\ d \in {device} \cup (IF kind.name \in LateBias THEN {"cpu"} ELSE {})
       /\ weight = w /\ bias = [at |-> b, on |-> d]
       /\ memory = [a \in Addrs |-> CASE a = w -> v [] a = b -> u [] OTHER -> Free]
  /\ lib = "untried" /\ cached = None /\ ops = {} /\ last = None

(* The engine attaches its executor to the blocks it offloads.             *)
Attach == /\ ~attached /\ attached' = TRUE /\ last' = None
          /\ UNCHANGED <<kind, device, weight, bias, memory, lib, cached, ops>>

(* register_engine_ops: one name after another up to an unknown one.       *)
RegisterOps ==
  \E batch \in OpBatches :
    /\ ops' = ops \cup {batch[i] : i \in {j \in DOMAIN batch : \A h \in 1 .. j : batch[h] \in OpNames}}
    /\ last' = None
    /\ UNCHANGED <<kind, attached, device, weight, bias, memory, lib, cached>>

(* The loader writes new contents where the tensors are.                   *)
Load ==
  \E v, u \in Versions[kind.name] :
    /\ memory' = [memory EXCEPT ![weight] = v, ![bias.at] = u]
    /\ last' = None
    /\ UNCHANGED <<kind, attached, device, weight, bias, lib, cached, ops>>

(* A reload that gives the gate or the bias another storage.               *)
Reload ==
  \E a \in Unused, v \in Versions[kind.name] :
    /\ \/ weight' = a /\ bias' = bias
       \/ weight' = weight /\ bias' = [bias EXCEPT !.at = a]
    /\ memory' = Kept([memory EXCEPT ![a] = v], weight', bias', cached)
    /\ last' = None
    /\ UNCHANGED <<kind, attached, device, lib, cached, ops>>

(* A device move copies the gate; a late bias comes along or stays.        *)
Move ==
  \E d \in Devices \ {device}, w, b \in Unused :
    /\ w # b /\ device' = d /\ weight' = w
    /\ \/ bias' = [at |-> b, on |-> d]
       \/ kind.name \in LateBias /\ bias' = bias
    /\ memory' = Kept([memory EXCEPT ![w] = memory[weight], ![b] = memory[bias.at]], w, bias', cached)
    /\ last' = None
    /\ UNCHANGED <<kind, attached, lib, cached, ops>>
-----------------------------------------------------------------------------
(* The fused route applies to CUDA tensors when the package is installed:  *)
(* imported once, at the first call that gets so far.                      *)
Fusable == kind.fused # NotFused /\ device # "cpu"
Loaded(l) == l \in IF Fusable /\ lib = "untried" THEN {"absent", "present"} ELSE {lib}

(* bias.to(device): the bias itself, or a copy at temp for this call.      *)
BiasSeen(temp) == IF ~kind.fused.bias THEN Free ELSE IF bias.on = device THEN bias.at ELSE temp
\* mutant: the key leaves the bias out
KeyWithoutBias(temp) == [weight |-> weight, bias |-> Free]
Key(temp) == [weight |-> weight, bias |-> BiasSeen(temp)]
(* The router of this call: the cached one under the same key, or a new    *)
(* one, None where the kernels are not tuned for the device.               *)
CachedRouter(temp) ==
  IF cached # None /\ cached.key = Key(temp) THEN cached
  ELSE [key |-> Key(temp), router |-> IF device = "tuned" THEN [weight |-> weight, bias |-> BiasSeen(temp)] ELSE None,
        from |-> <<weight, bias.at>>]

Had == [weight |-> memory[weight], bias |-> memory[bias.at]]

(* The rest of forward, once the row is known.                             *)
Compute(t, row, fused, saw, slots) ==
  \E resident \in BOOLEAN :
    LET via == Via(resident)
        ran == via # "raises" /\ Needs(via) \subseteq ops
    IN  last' = [token |-> t, fused |-> fused, had |-> Had, saw |-> saw, row |-> row, via |-> via,
                 out |-> IF ran THEN Output(via, row, slots, Score[saw.weight][t]) ELSE None]

ForwardFused ==
  \E t \in Tokens, temp \in Unused :
    /\ Fusable /\ Loaded("present")
    /\ LET c == CachedRouter(temp)
           m == IF BiasSeen(temp) = temp THEN [memory EXCEPT ![temp] = memory[bias.at]] ELSE memory
           saw == [weight |-> m[c.router.weight], bias |-> IF c.router.bias = Free THEN Had.bias ELSE m[c.router.bias]]
           row == FusedRow(kind.fused, saw.weight, saw.bias, t)
       IN  /\ c.router # None
           /\ cached' = c /\ lib' = "present"
           /\ memory' = Kept(m, weight, bias, c)
           /\ Compute(t, row, TRUE, saw, <<>>)
    /\ UNCHANGED <<kind, attached, device, weight, bias, ops>>

(* The torch path: fused routing does not apply.  It moves a late bias.    *)
ForwardTorch ==
  \E t \in Tokens, temp \in Unused, l \in {"untried", "absent", "present"} :
    /\ Loaded(l) /\ lib' = l
    /\ cached' = IF Fusable /\ l = "present" THEN CachedRouter(temp) ELSE cached
    /\ Fusable /\ l = "present" => cached'.router = None
    /\ bias' = IF bias.on = device THEN bias ELSE [at |-> temp, on |-> device]
    /\ memory' = Kept([memory EXCEPT ![bias'.at] = memory[bias.at]], weight, bias', cached')
    /\ LET slots == Slots(kind, Had.weight, Had.bias, t)
       IN  Compute(t, TorchRow(kind, Had.weight, Had.bias, t), FALSE, Had, slots)
    /\ UNCHANGED <<kind, attached, device, weight, ops>>

Next == Attach \/ RegisterOps \/ Load \/ Reload \/ Move \/ ForwardFused \/ ForwardTorch
Spec == Init /\ [][Next]_vars
-----------------------------------------------------------------------------
Called == last # None

(* fused_routing.py:73-80 caches by storage address: whatever was loaded,  *)
(* moved or freed since, the router a call uses reads the weight and the   *)
(* bias the block has at that call.                                        *)
RouterReadsCurrent ==
  Called /\ last.fused => /\ last.saw.weight = last.had.weight
                          /\ kind.fused.bias => last.saw.bias = last.had.bias

(* fused_routing.py:8-13: the fused route gives the mask and weights of    *)
(* the torch code it replaces, in every family that calls it.              *)
FusedAgrees ==
  Called /\ last.fused => last.row = TorchRow(kind, last.had.weight, last.had.bias, last.token)

(* The sum a block owes a token: each choice of the gate by its weight,    *)
(* scaled once where the family scales, the shared expert once, and its    *)
(* input where NLLB routes it nowhere.                                     *)
Owed(f, v, b, t) ==
  LET s == Score[v][t]
      slots == Slots(f, v, b, t)
  IN  [num |-> Gathered(s, slots), den |-> Den(f, s, Gathered(s, slots)),
       scaled |-> IF f.name \in {"deepseek_native", "glm", "hy_v3", "minimax", "v4", "v4_hash"} THEN 1 ELSE 0,
       shared |-> f.shared, kept |-> f.name = "nllb" /\ t \in Padded]

(* Every way a call may run (executor, per-expert loop, grouped kernel,    *)
(* fused or torch routing, half-registered ops) returns that sum, but for  *)
(* the GLM blocks, whose _local_experts (glm_moe_dsa.py:133) returns zeros *)
(* when no executor is attached.                                           *)
OutputOwed ==
  Called /\ last.out # None /\ last.via # "zeros" => last.out = Owed(kind, last.had.weight, last.had.bias, last.token)
=============================================================================
