---------------------------- MODULE PagedRegistry ----------------------------
(***************************************************************************)
(* wrappers/paged_attention_registry.py: attention modules of a model are  *)
(* rebound one by one to a class of their own, and a paged context (a      *)
(* backend and the metadata of a batch) is installed on those classes.     *)
(* Models nobody registers share the context of their common class.        *)
(***************************************************************************)
EXTENDS Integers, FiniteSets, Sequences

CONSTANTS
  Modules,       \* attention modules, numbered in the order of model.modules()
  Kinds,         \* their classes: "qwen3", "olmoe", "mla_v2", "mla_v3"
  Indices,       \* values of layer_idx, NoIndex among them when it may be unset
  NoIndex,
  StorageSizes,  \* values of storage.spec.num_layers over the calls of register
  Batches,       \* what metadata may describe
  MaxRegisters   \* bound on the calls of register

ASSUME RegistryAssumption ==
  /\ IsFiniteSet(Modules) /\ Modules = 1 .. Cardinality(Modules)
  /\ Indices \subseteq Nat \cup {NoIndex}
  /\ StorageSizes \subseteq Nat /\ MaxRegisters \in Nat

VARIABLES
  kind, index,   \* class and layer_idx of each module, fixed
  bound,         \* modules whose class is a class of their own
  ownContext,    \* context on that class
  classContext,  \* context on the classes of Kinds
  scan,          \* module register looks at, 0 outside of a call
  storage,       \* num_layers of the storage of that call
  found,         \* modules that call has bound
  registries,    \* the registries returned, as sets of modules
  raised         \* number of calls of register that raised

model    == <<kind, index>>
contexts == <<ownContext, classContext>>
progress == <<scan, storage, found, registries, raised>>
registryVars == <<model, bound, contexts, progress>>

Inherit  == [state |-> "inherit"]    \* the class has no attribute of its own
Cleared  == [state |-> "cleared"]    \* backend and metadata are None
(* The proxy of module m, or the backend itself for m = 0.                 *)
Live(m, b) == [state |-> "live", proxy |-> m, batch |-> b]
Contexts == {Inherit, Cleared} \cup {Live(m, b) : m \in {0} \cup Modules, b \in Batches}
-----------------------------------------------------------------------------
RegistryInit ==
  /\ kind \in [Modules -> Kinds]
  /\ index \in [Modules -> Indices]
  /\ bound = {}
  /\ ownContext = [m \in Modules |-> Inherit]
  /\ classContext = [k \in Kinds |-> Cleared]
  /\ scan = 0 /\ storage = 0 /\ found = {}
  /\ registries = <<>> /\ raised = 0

(* What a module finds as an attribute of its class.                       *)
ContextOf(m) ==
  IF m \in bound /\ ownContext[m] # Inherit THEN ownContext[m] ELSE classContext[kind[m]]

(* inspect_module, whose tests register repeats: the type must be exact.   *)
(* Of the classes its table names as unsupported only                      *)
(* DeepseekV2PagedAttention resolves; DeepseekV3PagedAttention is looked   *)
(* for in modules that do not exist.                                       *)
Reason(m) ==
  CASE kind[m] = "mla_v2" /\ m \notin bound -> "mla_layout_unsupported"
    [] kind[m] = "qwen3" /\ m \notin bound -> "eligible"
    [] OTHER -> "paged_class_unregistered"

(* layer_idx is an integer of the storage no other binding has.            *)
Bindable(m) ==
  /\ index[m] # NoIndex
  /\ index[m] < storage
  /\ index[m] \notin {index[n] : n \in found}

StartRegister(size) ==
  /\ scan = 0
  /\ Len(registries) + raised < MaxRegisters
  /\ scan' = 1 /\ storage' = size /\ found' = {}
  /\ UNCHANGED <<model, bound, contexts, registries, raised>>

(* One iteration of the loop of register.                                  *)
SkipModule ==
  /\ scan \in Modules
  /\ Reason(scan) = "paged_class_unregistered"
  /\ scan' = scan + 1
  /\ UNCHANGED <<model, bound, contexts, storage, found, registries, raised>>

BindModule ==
  /\ scan \in Modules
  /\ Reason(scan) = "eligible" /\ Bindable(scan)
  /\ bound' = bound \cup {scan}
  /\ found' = found \cup {scan}
  /\ scan' = scan + 1
  /\ UNCHANGED <<model, contexts, storage, registries, raised>>

RegisterRaises ==
  /\ scan \in Modules
  /\ \/ Reason(scan) = "mla_layout_unsupported"
     \/ Reason(scan) = "eligible" /\ ~Bindable(scan)
  /\ scan' = 0 /\ raised' = raised + 1
  /\ UNCHANGED <<model, bound, contexts, storage, found, registries>>

Registered ==
  /\ scan = Cardinality(Modules) + 1
  /\ registries' = Append(registries, found)
  /\ scan' = 0
  /\ UNCHANGED <<model, bound, contexts, storage, found, raised>>

InstallRaw(r, b) ==   \* mutant: the backend itself is installed
  /\ scan = 0
  /\ ownContext' = [m \in Modules |-> IF m \in registries[r] THEN Live(0, b) ELSE ownContext[m]]
  /\ UNCHANGED <<model, bound, classContext, progress>>

InstallMetadata(r, b) ==
  /\ scan = 0
  /\ ownContext' = [m \in Modules |-> IF m \in registries[r] THEN Live(m, b) ELSE ownContext[m]]
  /\ UNCHANGED <<model, bound, classContext, progress>>

ClearDelete(r) ==   \* mutant: the attributes are deleted
  /\ scan = 0
  /\ ownContext' = [m \in Modules |-> IF m \in registries[r] THEN Inherit ELSE ownContext[m]]
  /\ UNCHANGED <<model, bound, classContext, progress>>

ClearMetadata(r) ==
  /\ scan = 0
  /\ ownContext' = [m \in Modules |-> IF m \in registries[r] THEN Cleared ELSE ownContext[m]]
  /\ UNCHANGED <<model, bound, classContext, progress>>

(* set_paged_context and clear_paged_context on a shared class.            *)
SetPagedContext(k, b) ==
  /\ scan = 0
  /\ classContext' = [classContext EXCEPT ![k] = Live(0, b)]
  /\ UNCHANGED <<model, bound, ownContext, progress>>

ClearPagedContext(k) ==
  /\ scan = 0
  /\ classContext' = [classContext EXCEPT ![k] = Cleared]
  /\ UNCHANGED <<model, bound, ownContext, progress>>

RegistryNext ==
  \/ \E size \in StorageSizes : StartRegister(size)
  \/ SkipModule \/ BindModule \/ RegisterRaises \/ Registered
  \/ \E r \in DOMAIN registries : ClearMetadata(r) \/ \E b \in Batches : InstallMetadata(r, b)
  \/ \E k \in Kinds : ClearPagedContext(k) \/ \E b \in Batches : SetPagedContext(k, b)
-----------------------------------------------------------------------------
RegistryTypeOK ==
  /\ kind \in [Modules -> Kinds] /\ index \in [Modules -> Indices]
  /\ bound \subseteq Modules /\ found \subseteq bound
  /\ ownContext \in [Modules -> Contexts] /\ classContext \in [Kinds -> Contexts]
  /\ scan \in 0 .. Cardinality(Modules) + 1 /\ storage \in StorageSizes \cup {0}
  /\ registries \in Seq(SUBSET Modules) /\ raised \in Nat

(* A module belongs to one registry at most, however often register is     *)
(* called and raises: two registries never install or clear the context of *)
(* the same module, and within one no two modules share a cache layer.     *)
OneRegistryPerModule ==
  /\ \A r, s \in DOMAIN registries : r # s => registries[r] \cap registries[s] = {}
  /\ \A r \in DOMAIN registries : \A m, n \in registries[r] : m # n => index[m] # index[n]

(* The class of a bound module holds the proxy of that module's layer, so  *)
(* a context cannot reach the cache layer of another module.               *)
ProxyOfOwnLayer ==
  \A m \in bound : ownContext[m] \in {Inherit, Cleared} \cup {Live(m, b) : b \in Batches}

(* A registry is returned for no model that has a DeepSeek-V2 module,      *)
(* whatever is registered before it.  When no call of register raised,     *)
(* every Qwen3 module of the model is in a registry as soon as one is      *)
(* returned: install_metadata reaches them all.  (A call that raises       *)
(* leaves modules that are bound, in no registry, and skipped by the next  *)
(* call.  OLMoE and DeepSeek-V3 modules are passed over without a word: of *)
(* a model that has them a registry covers the Qwen3 modules only.)        *)
RegistryCovers ==
  registries # <<>> =>
    \A m \in Modules :
      /\ kind[m] # "mla_v2"
      /\ raised = 0 /\ kind[m] = "qwen3" => \E r \in DOMAIN registries : m \in registries[r]

(* A module that had its proxy as context never falls back to a backend    *)
(* shared through its base class: clearing leaves it eager, and what is    *)
(* set on the base class afterwards does not reach it.                     *)
NeverSharedAgain ==
  [][\A m \in Modules, b \in Batches :
       ContextOf(m) = Live(m, b)
         => ContextOf(m)' \in {Cleared} \cup {Live(m, c) : c \in Batches}]_registryVars
=============================================================================
