---------------------------- MODULE OfficialLoader ----------------------------
(***************************************************************************)
(* The three loaders of the official DeepSeek reference model:             *)
(* load_sharded_v4_flash (deepseek_v4/inmem_shard_loader.py), one process  *)
(* per rank, load_offloaded_v4_flash and load_offloaded_v41_flash (the two *)
(* official_offload_adapter.py).  Each swaps constructors of the official  *)
(* module while the model is built without its experts, rebinds the MoE    *)
(* forwards, and copies the rest of the checkpoint tensor by tensor.       *)
(***************************************************************************)
EXTENDS Integers, Sequences, FiniteSets, SequencesExt

CONSTANTS
  Layers,    \* decoder blocks; all of them are MoE
  Drafts,    \* blocks of the mtp list
  Experts,   \* n_routed_experts
  MaxRanks,  \* bound on the processes of a job
  Jobs       \* what is launched: a loader, its arguments, a checkpoint, and the bounds of the instance

Loaders == {"sharded", "v4", "v41"}

(* A key is [place, layer, part, name, leaf]: `layers.3.attn.wq_b.weight'  *)
(* is place "layers", layer 3, part "attn", name "wq_b", leaf "weight".    *)
Keys    == [place: STRING, layer: Nat, part: STRING, name: STRING, leaf: STRING]
Tensors == [key: Keys, shape: Seq(Nat), dtype: STRING]

(* places: parameters and buffers of the full model -> [shape, dtype];     *)
(* files: a sequence of files, each a sequence of tensors;                 *)
(* mayRaise: building the model may raise; maxLoads: loads of a process.   *)
ASSUME LoaderAssumption ==
  /\ Layers \in Nat /\ Drafts \in Nat /\ Experts \in Nat /\ MaxRanks \in Nat \ {0}
  /\ \A j \in Jobs :
       /\ \A k \in DOMAIN j.places : k \in Keys /\ j.places[k] \in [shape: Seq(Nat), dtype: STRING]
       /\ j.files \in Seq(Seq(Tensors))
       /\ j.loader \in Loaders /\ j.world \in 1 .. MaxRanks /\ (j.loader # "sharded" => j.world = 1)
       /\ {j.textOnly, j.offloadEngram, j.visionExp, j.mayRaise} \subseteq BOOLEAN
       /\ j.engramLayers \subseteq 0 .. Layers - 1 /\ j.maxLoads \in Nat

VARIABLES
  job,      \* what was launched
  pc,       \* statement of the loader, per rank
  official, \* the official module's globals: class hooks, sparse_attn, per rank
  saved,    \* M.Expert as the running MoE constructor found it
  blocks,   \* MoE blocks built: class of the shared expert, store layer of forward
  weights,  \* what was copied into each parameter
  todo,     \* checkpoint tensors not reached, with the index of their file
  lookup,   \* engram layer -> layer whose table its embed.forward reads
  loads

vars == <<job, pc, official, saved, blocks, weights, todo, lookup, loads>>

Loader == job.loader
World  == job.world   \* processes
Ranks  == 0 .. World - 1
TextOnly == job.textOnly
OffloadEngram == job.offloadEngram
Places == job.places
files  == job.files

Unset == [form |-> "unset"]   \* what torch.empty left
-----------------------------------------------------------------------------
Routed(k) == k.part = "experts"   \* ".ffn.experts." in key
Vision(k) == k.place = "vision"   \* "vision.", "aligner.", image tokens
(* classify_vision_exp_tensor *)
Class(k) ==
  CASE Vision(k) -> "resident_vision"
    [] k.place = "mtp" -> "mtp_nextn"
    [] k.place = "layers" /\ Routed(k) /\ k.layer < Layers -> "routed_expert"
    [] OTHER -> "resident_text"

(* The tensors a loader passes over by name.                               *)
SkippedTop(k) ==   \* mutant: only what is below layers is loaded
  Routed(k) \/ k.part = "engram.embed" \/ k.place # "layers"
Skipped(k) ==
  CASE Loader = "sharded" -> Routed(k)
    [] Loader = "v4" /\ ~job.visionExp -> Routed(k)
    [] Loader = "v4" /\ job.visionExp ->
         Class(k) = "routed_expert" \/ (TextOnly /\ Class(k) = "mtp_nextn")
    [] Loader = "v41" ->
         \/ Routed(k) /\ k.place = "layers"
         \/ k.part = "engram.embed"
         \/ k.place = "mtp"
         \/ TextOnly /\ Vision(k)

(* _NATIVE_TP_SHARD_DIMS counted from 1; 0: the tensor is not split.       *)
ShardDim(name) ==
  CASE name \in {"attn_sink", "embed", "head", "weights_proj", "wo_a", "wq", "wq_b", "wkv_b"} -> 1
    [] name \in {"wo", "wo_b"} -> 2
    [] OTHER -> 0

(* The split the official parallel layers make of their own parameters.    *)
OfficialDim(name) ==
  CASE name \in {"embed", "head", "attn_sink", "wq_b", "wo_a", "weights_proj"} -> 1
    [] name = "wo_b" -> 2
    [] OTHER -> 0

Divided(shape, dim, by) == IF dim = 0 THEN shape ELSE [shape EXCEPT ![dim] = @ \div by]
TargetShape(r, k) ==
  Divided(Places[k].shape, OfficialDim(k.name), official[r].world)

ShardRemainder(r, t, dim) ==   \* mutant: rank r starts at r
  LET size == t.shape[dim] \div World
  IN  r .. r + size - 1
(* _shard_tensor: the indices along dim that rank r keeps.                 *)
Shard(r, t, dim) ==
  LET size == t.shape[dim] \div World
  IN  r * size .. r * size + size - 1
Whole(t) == 0 .. t.shape[1] - 1

Present(r) == {k \in DOMAIN Places : /\ ~Routed(k)
                                     /\ ~(Loader = "v41" /\ OffloadEngram /\ k.part = "engram.embed")}
Flat == FlattenSeq([i \in DOMAIN files |-> [j \in DOMAIN files[i] |-> [t |-> files[i][j], file |-> i]]])

Init ==
  /\ job \in Jobs
  /\ pc = [r \in Ranks |-> "idle"]
  /\ official = [r \in Ranks |-> [moe |-> "orig", expert |-> "orig", engram |-> "orig",
                                  sparse |-> "orig", world |-> 1, rank |-> 0]]
  /\ saved = [r \in Ranks |-> "orig"]
  /\ blocks = [r \in Ranks |-> <<>>]
  /\ weights = [r \in Ranks |-> <<>>]
  /\ todo = [r \in Ranks |-> <<>>]
  /\ lookup = [r \in Ranks |-> <<>>]
  /\ loads = [r \in Ranks |-> 0]

Goto(r, label) == pc' = [pc EXCEPT ![r] = label]

(* The arguments against torch.distributed, then the module's globals; the *)
(* sharded loader splits sparse_attn into head chunks once per module.     *)
Start(r, agrees) ==
  /\ pc[r] = "idle"
  /\ loads[r] < job.maxLoads
  /\ loads' = [loads EXCEPT ![r] = @ + 1]
  /\ blocks' = [blocks EXCEPT ![r] = <<>>]
  /\ lookup' = [lookup EXCEPT ![r] = <<>>]
  /\ weights' = [weights EXCEPT ![r] = <<>>]
  /\ IF Loader # "sharded" THEN Goto(r, "config") /\ UNCHANGED official
     ELSE IF ~agrees THEN Goto(r, "failed") /\ UNCHANGED official
     ELSE /\ official' = [official EXCEPT ![r].world = World, ![r].rank = r, ![r].sparse = "chunked"]
          /\ Goto(r, "config")
  /\ UNCHANGED <<job, saved, todo>>

(* The configuration is read, then the constructors are swapped.           *)
SwapHooks(r) ==
  /\ pc[r] = "config"
  /\ official' = [official EXCEPT ![r].moe = "null",
                    ![r].engram = IF Loader = "v41" /\ OffloadEngram THEN "null" ELSE @]
  /\ Goto(r, "build")
  /\ UNCHANGED <<job, saved, blocks, weights, todo, lookup, loads>>

ConfigRaises(r) ==
  /\ pc[r] = "config"
  /\ job.mayRaise
  /\ Goto(r, "failed")
  /\ UNCHANGED <<job, official, saved, blocks, weights, todo, lookup, loads>>

(* _null_routed_moe_init, up to the call of the original constructor.      *)
EnterMoeInit(r) ==
  /\ pc[r] = "build"
  /\ Len(blocks[r]) < Layers + Drafts
  /\ saved' = [saved EXCEPT ![r] = official[r].expert]
  /\ official' = [official EXCEPT ![r].expert = "null"]
  /\ Goto(r, "moe")
  /\ UNCHANGED <<job, blocks, weights, todo, lookup, loads>>

(* finally: M.Expert again; then the shared expert and no routed ones.     *)
LeaveMoeInit(r) ==
  /\ pc[r] = "moe"
  /\ official' = [official EXCEPT ![r].expert = saved[r]]
  /\ blocks' = [blocks EXCEPT ![r] = Append(@, [shared |-> saved[r], forward |-> -1])]
  /\ Goto(r, "build")
  /\ UNCHANGED <<job, saved, weights, todo, lookup, loads>>

(* Both finally clauses.                                                   *)
RestoredOuter(r) == [official EXCEPT ![r].moe = "orig", ![r].engram = "orig"]   \* mutant: no finally around the MoE constructor
Restored(r) ==
  [official EXCEPT ![r].moe = "orig", ![r].engram = "orig",
     ![r].expert = IF pc[r] = "moe" THEN saved[r] ELSE @]

BuildRaises(r) ==
  /\ pc[r] \in {"build", "moe"}
  /\ job.mayRaise
  /\ official' = Restored(r)
  /\ Goto(r, "failed")
  /\ UNCHANGED <<job, saved, blocks, weights, todo, lookup, loads>>

Built(r) ==
  /\ pc[r] = "build"
  /\ Len(blocks[r]) = Layers + Drafts
  /\ official' = Restored(r)
  /\ weights' = [weights EXCEPT ![r] = [k \in Present(r) |-> Unset]]
  /\ Goto(r, "built")
  /\ UNCHANGED <<job, saved, blocks, todo, lookup, loads>>

(* The range of experts the official MoE gives a rank.                     *)
Local(r) == LET n == Experts \div official[r].world
            IN  official[r].rank * n .. official[r].rank * n + n - 1

(* _verify_local_expert_ranges, over decoder and mtp blocks.               *)
VerifyRanges(r) ==
  /\ pc[r] = "built"
  /\ LET n == Cardinality(Local(r))
         own == r * n .. r * n + n - 1
     IN  IF Loader = "sharded" /\ Layers + Drafts > 0 /\ (n * World # Experts \/ Local(r) # own)
         THEN Goto(r, "failed") ELSE Goto(r, "verified")
  /\ UNCHANGED <<job, official, saved, blocks, weights, todo, lookup, loads>>

(* The host store is made and the MoE forwards of model.layers are bound   *)
(* to it, numbered by a counter of their own.                              *)
PatchForwards(r) ==
  /\ pc[r] = "verified"
  /\ blocks' = [blocks EXCEPT ![r] =
                  [i \in DOMAIN @ |-> IF i <= Layers THEN [@[i] EXCEPT !.forward = i - 1] ELSE @[i]]]
  /\ todo' = [todo EXCEPT ![r] = Flat]
  /\ Goto(r, "loading")
  /\ UNCHANGED <<job, official, saved, weights, lookup, loads>>

Remains(r) == todo' = [todo EXCEPT ![r] = Tail(@)]
Store(r, k, v) == weights' = [weights EXCEPT ![r][k] = v]

(* _load_non_expert_weights_sharded: a tensor that does not fit raises.    *)
LoadSharded(r) ==
  LET t == Head(todo[r]).t
      dim == ShardDim(t.key.name)
      split == dim # 0 /\ World > 1
  IN  IF Skipped(t.key) \/ t.key \notin DOMAIN weights[r] THEN UNCHANGED weights /\ Remains(r) /\ UNCHANGED pc
      ELSE IF \/ split /\ t.shape[dim] % World # 0
              \/ Divided(t.shape, dim, World) # TargetShape(r, t.key)
      THEN Goto(r, "failed") /\ UNCHANGED <<weights, todo>>
      ELSE /\ Store(r, t.key, [of |-> t.key, form |-> t.dtype, dim |-> IF split THEN dim ELSE 0,
                               index |-> IF split THEN Shard(r, t, dim) ELSE Whole(t)])
           /\ Remains(r) /\ UNCHANGED pc

(* wo_a is kept in bf16: an fp8 one is multiplied by the scale of its      *)
(* block, if the scale is in the same file.  Others keep their format.     *)
Form(e) ==
  CASE /\ Loader = "v41" /\ e.t.key.name = "wo_a" /\ e.t.key.leaf = "weight" /\ e.t.dtype = "fp8"
       /\ \E other \in ToSet(Flat) : /\ other.file = e.file
                                     /\ other.t.key = [e.t.key EXCEPT !.leaf = "scale"] -> "bf16"
    [] Loader = "v41" /\ Places[e.t.key].dtype = "fp4" -> "fp4"   \* the bytes, whatever their dtype
    [] OTHER -> e.t.dtype

(* _load_non_expert_weights and _load_non_expert_weights_v41: a tensor     *)
(* that does not fit is passed over; a scale goes to its weight's scale.   *)
LoadWhole(r) ==
  LET e == Head(todo[r])
      t == e.t
      owner == IF t.key.leaf = "scale" THEN [t.key EXCEPT !.leaf = "weight"] ELSE t.key
  IN  /\ IF \/ Skipped(t.key)
            \/ owner \notin DOMAIN weights[r] \/ t.key \notin DOMAIN weights[r]
            \/ t.shape # TargetShape(r, t.key)
         THEN UNCHANGED weights
         ELSE Store(r, t.key, [of |-> t.key, form |-> Form(e), dim |-> 0, index |-> Whole(t)])
      /\ Remains(r)
      /\ UNCHANGED pc

LoadTensor(r) ==
  /\ pc[r] = "loading"
  /\ todo[r] # <<>>
  /\ IF Loader = "sharded" THEN LoadSharded(r) ELSE LoadWhole(r)
  /\ UNCHANGED <<job, official, saved, blocks, lookup, loads>>

LoadedAll(r) ==
  /\ pc[r] = "loading"
  /\ todo[r] = <<>>
  /\ Goto(r, IF Loader = "v41" /\ OffloadEngram THEN "attach" ELSE "loaded")
  /\ UNCHANGED <<job, official, saved, blocks, weights, todo, lookup, loads>>

InFiles(k) == \E e \in ToSet(Flat) : e.t.key = k
EngramKey(l, leaf) == [place |-> "layers", layer |-> l, part |-> "engram.embed", name |-> "embed", leaf |-> leaf]
Entry(k) == (CHOOSE e \in ToSet(Flat) : e.t.key = k).t
(* EngramHostStore: the checks of the table against its scales.            *)
TableFits(l) ==
  /\ \A leaf \in {"weight", "scale"} : InFiles(EngramKey(l, leaf))
  /\ LET w == Entry(EngramKey(l, "weight"))  s == Entry(EngramKey(l, "scale"))
     IN  /\ w.dtype = "fp8" /\ s.dtype = "e8m0"
         /\ w.shape[1] = s.shape[1] /\ w.shape[2] % s.shape[2] = 0

(* embed.forward = _lookup, with the layer's own store.                    *)
Bound(r, l) == [n \in DOMAIN lookup[r] \cup {l} |-> IF n = l THEN l ELSE lookup[r][n]]

(* _attach_engram_offload, one layer at a time, then the loader returns.   *)
AttachEngram(r) ==
  /\ pc[r] = "attach"
  /\ LET left == job.engramLayers \ DOMAIN lookup[r]
         l == CHOOSE n \in left : \A o \in left : n <= o
     IN  IF left = {} THEN Goto(r, "loaded") /\ UNCHANGED lookup
         ELSE IF TableFits(l) THEN lookup' = [lookup EXCEPT ![r] = Bound(r, l)] /\ UNCHANGED pc
         ELSE Goto(r, "failed") /\ UNCHANGED lookup
  /\ UNCHANGED <<job, official, saved, blocks, weights, todo, loads>>

(* The caller loads again in the same process, after an error or not.      *)
Again(r) ==
  /\ pc[r] \in {"loaded", "failed"}
  /\ loads[r] < job.maxLoads
  /\ todo' = [todo EXCEPT ![r] = <<>>]
  /\ Goto(r, "idle")
  /\ UNCHANGED <<job, official, saved, blocks, weights, lookup, loads>>

Step(r) ==
  \/ \E agrees \in BOOLEAN : Start(r, agrees)
  \/ SwapHooks(r) \/ ConfigRaises(r)
  \/ EnterMoeInit(r) \/ LeaveMoeInit(r) \/ BuildRaises(r) \/ Built(r)
  \/ VerifyRanges(r) \/ PatchForwards(r)
  \/ LoadTensor(r) \/ LoadedAll(r) \/ AttachEngram(r) \/ Again(r)
Next == \E r \in Ranks : Step(r)
Spec == Init /\ [][Next]_vars
-----------------------------------------------------------------------------
(* Outside the construction of a model the official module's classes are   *)
(* its own, whatever was raised where (the two finally clauses of          *)
(* load_sharded_v4_flash and load_offloaded_v41_flash).                    *)
HooksRestored ==
  \A r \in Ranks : pc[r] \notin {"build", "moe"} =>
    official[r].moe = "orig" /\ official[r].expert = "orig" /\ official[r].engram = "orig"

(* No shared expert is made from the null class, not even by a load after  *)
(* one that raised inside a MoE constructor (_null_routed_moe_init).       *)
SharedExpertsReal ==
  \A r \in Ranks : \A i \in DOMAIN blocks[r] : blocks[r][i].shared = "orig"

(* However a load ends, the next one in the process, and the rest of the   *)
(* program, find the constructors of MoE, Expert and engram the official   *)
(* module's own; sparse_attn, world and rank stay what a load made them.   *)
ConstructorsRestored == HooksRestored /\ SharedExpertsReal

(* What generation reads of the parameters that were not nulled: a V4.1    *)
(* model never runs mtp, a Vision-Exp one only with text_only = False.  A  *)
(* V4.1 loader copies no engram table, wherever it is (EngramFilled).      *)
UsedIn(r) ==
  {k \in Present(r) :
     /\ ~(k.place = "mtp" /\ (Loader = "v41" \/ (Loader = "v4" /\ job.visionExp /\ TextOnly)))
     /\ ~(Vision(k) /\ Loader = "v41" /\ TextOnly)
     /\ ~(k.part = "engram.embed" /\ Loader = "v41")}

(* The checkpoint has a tensor of this name in the shape of the model.     *)
Offers(e, k) == e.t.key = k /\ e.t.shape = Places[k].shape
Offered(k) == \E e \in ToSet(Flat) : Offers(e, k)

(* A loader that returns has filled every parameter generation reads and   *)
(* the checkpoint offers, from the tensor of its own name, in the format   *)
(* and size the parameter has; in one the checkpoint does not have, or has *)
(* in another shape, it leaves what torch.empty left, and says nothing.    *)
ResidentComplete ==
  \A r \in Ranks : pc[r] = "loaded" =>
    \A k \in UsedIn(r) :
      LET w == weights[r][k]
      IN  IF Offered(k)
          THEN /\ w # Unset
               /\ w.of = k /\ w.form = Places[k].dtype
               /\ Cardinality(w.index) = TargetShape(r, k)[IF w.dim = 0 THEN 1 ELSE w.dim]
          ELSE w = Unset

(* Once all ranks have loaded, each row or column of a split parameter the *)
(* checkpoint offers is on one rank, rank by rank in order, and other      *)
(* parameters are whole on every rank (_shard_tensor against the official  *)
(* parallel layers).                                                       *)
ShardsPartition ==
  (\A r \in Ranks : pc[r] = "loaded") =>
    \A k \in {u \in UsedIn(0) : Offered(u)} :
      LET d == OfficialDim(k.name)
          along == IF d = 0 \/ World = 1 THEN 1 ELSE d   \* whole tensors are counted by rows
          all == 0 .. Places[k].shape[along] - 1
      IN  IF d = 0 \/ World = 1 THEN \A r \in Ranks : weights[r][k].index = all
          ELSE /\ UNION {weights[r][k].index : r \in Ranks} = all
               /\ \A q, r \in Ranks : q < r =>
                    \A i \in weights[q][k].index, j \in weights[r][k].index : i < j

(* Every engram layer of a loaded V4.1 model looks its rows up in its own  *)
(* table on the host (_attach_engram_offload).                             *)
EngramOwnTable ==
  \A r \in Ranks : pc[r] = "loaded" /\ Loader = "v41" /\ OffloadEngram =>
    lookup[r] = [l \in job.engramLayers |-> l]

(* A model that was returned has what its checkpoint offers of all it      *)
(* computes with on the device or, for the engram tables, on the host.     *)
LoadedComplete == ResidentComplete /\ EngramOwnTable

(* "offloaded by EngramHostStore" of the loop over checkpoint tensors: an  *)
(* engram table that it passes over is read from a host store.             *)
EngramFilled ==
  \A r \in Ranks : pc[r] = "loaded" =>
    \A k \in DOMAIN Places : k.part = "engram.embed" /\ k.layer \in job.engramLayers =>
      k.layer \in DOMAIN lookup[r] \/ weights[r][k] # Unset

(* "Hub shards keep it fp8+scale, so mirror that dequant": wo_a, which the *)
(* model holds in bf16, is multiplied by its scale.                        *)
WoADequantized ==
  \A r \in Ranks : pc[r] = "loaded" =>
    \A k \in DOMAIN weights[r] :
      k.name = "wo_a" /\ weights[r][k] # Unset => weights[r][k].form = "bf16"
=============================================================================
