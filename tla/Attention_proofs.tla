--------------------------- MODULE Attention_proofs ---------------------------
(***************************************************************************)
(* The attention wrappers for every number of modules, sequences, blocks   *)
(* and tokens.                                                             *)
(***************************************************************************)
EXTENDS Attention, SequenceFacts, FiniteSetTheorems, SequenceTheorems

Registered_(m) == \E r \in DOMAIN registries : m \in registries[r]

(* What each module of the model may hold as context: its own proxy, and   *)
(* only once a registry with it was returned; the classes that nobody      *)
(* registers hold backends, never a proxy.                                 *)
ContextInv ==
  /\ \A m \in Modules : /\ ownContext[m] \in {Inherit, Cleared} \cup {Live(m, b) : b \in Batches}
                        /\ ownContext[m].state = "live" => Registered_(m)
  /\ \A k \in Kinds : classContext[k] \in {Cleared} \cup {Live(0, b) : b \in Batches}

(* A call of register leaves every Qwen3 module it has passed bound, so    *)
(* the calls after one that returned bind nothing more, and passes no      *)
(* DeepSeek-V2 module.                                                     *)
ScanInv ==
  /\ \A r \in DOMAIN registries : registries[r] \subseteq bound
  /\ \A m \in bound : kind[m] = "qwen3"
  /\ registries # <<>> => \A m \in Modules : kind[m] # "mla_v2" /\ (kind[m] = "qwen3" => m \in bound)
  /\ scan # 0 => /\ \A m \in Modules : m < scan => kind[m] # "mla_v2" /\ (kind[m] = "qwen3" => m \in bound)
                 /\ \A m, n \in found : m # n => index[m] # index[n]
                 /\ registries # <<>> => found = {}
  /\ raised = 0 => \A m \in bound : (scan # 0 /\ m \in found) \/ Registered_(m)

(* No two modules of any registries share a cache layer.                   *)
LayersInv ==
  \A r, s \in DOMAIN registries : \A m \in registries[r], n \in registries[s] :
    m # n => index[m] # index[n]

RegistryInv == RegistryTypeOK /\ OneRegistryPerModule /\ ContextInv /\ ScanInv /\ LayersInv
-----------------------------------------------------------------------------
(* The three kinds of context are told apart by their state.               *)
LEMMA ContextStates ==
  /\ Inherit.state = "inherit" /\ Cleared.state = "cleared" /\ Inherit # Cleared
  /\ \A m, b : /\ Live(m, b).state = "live" /\ Live(m, b).proxy = m /\ Live(m, b).batch = b
               /\ Live(m, b) # Inherit /\ Live(m, b) # Cleared
  /\ \A m, n, b, c : Live(m, b) = Live(n, c) => m = n /\ b = c
<1>1. /\ Inherit.state = "inherit" /\ Cleared.state = "cleared"
      /\ \A m, b : Live(m, b).state = "live" /\ Live(m, b).proxy = m /\ Live(m, b).batch = b
      BY DEF Inherit, Cleared, Live
<1> QED  BY <1>1

(* The modules are numbered from one, without end marks among them.        *)
LEMMA ModuleNumbers ==
  /\ Cardinality(Modules) \in Nat
  /\ Modules = 1 .. Cardinality(Modules)
  /\ \A m \in Modules : m \in Nat /\ m # 0
<1>1. Cardinality(Modules) \in Nat
      BY RegistryAssumption, FS_CardinalityType
<1> QED  BY <1>1, RegistryAssumption

(* The registry's variables in the first state.                            *)
LEMMA RegistryInitInv == RegistryInit => RegistryInv
<1> SUFFICES ASSUME RegistryInit PROVE RegistryInv  OBVIOUS
<1> USE DEF RegistryInit
<1>1. RegistryTypeOK  BY ModuleNumbers DEF RegistryTypeOK, Contexts
<1>2. OneRegistryPerModule  BY DEF OneRegistryPerModule
<1>3. ContextInv  BY ContextStates DEF ContextInv
<1>4. ScanInv  BY DEF ScanInv
<1>5. LayersInv  BY DEF LayersInv
<1> QED  BY <1>1, <1>2, <1>3, <1>4, <1>5 DEF RegistryInv

(* A registry that was returned covers the model, unless a call raised.    *)
LEMMA Covers == RegistryInv => RegistryCovers
BY DEF RegistryInv, RegistryCovers, ScanInv, Registered_

(* The scan starts with nothing found.                                     *)
LEMMA StartRegisterInv ==
  ASSUME RegistryInv, NEW size \in StorageSizes, StartRegister(size)
  PROVE  RegistryInv'
<1> USE DEF StartRegister, model, contexts
<1>1. RegistryTypeOK'  BY ModuleNumbers DEF RegistryInv, RegistryTypeOK
<1>2. OneRegistryPerModule'  BY DEF RegistryInv, OneRegistryPerModule
<1>3. ContextInv'  BY DEF RegistryInv, ContextInv, Registered_
<1>4. ScanInv'
  <2>1. \A m \in Modules : ~(m < scan')  BY ModuleNumbers
  <2> QED  BY <2>1 DEF RegistryInv, ScanInv, Registered_
<1>5. LayersInv'  BY DEF RegistryInv, LayersInv
<1> QED  BY <1>1, <1>2, <1>3, <1>4, <1>5 DEF RegistryInv

(* A module without a known class is passed over and stays unregistered.   *)
LEMMA SkipModuleInv ==
  ASSUME RegistryInv, SkipModule
  PROVE  RegistryInv'
<1> USE DEF SkipModule, model, contexts
<1>1. RegistryTypeOK'  BY ModuleNumbers DEF RegistryInv, RegistryTypeOK
<1>2. OneRegistryPerModule'  BY DEF RegistryInv, OneRegistryPerModule
<1>3. ContextInv'  BY DEF RegistryInv, ContextInv, Registered_
<1>4. ScanInv'
  <2>1. kind[scan] # "mla_v2" /\ (kind[scan] = "qwen3" => scan \in bound)
    <3>1. kind[scan] = "mla_v2" => scan \notin bound  BY DEF RegistryInv, ScanInv
    <3> QED  BY <3>1 DEF Reason
  <2>2. \A m \in Modules : m < scan + 1 => m < scan \/ m = scan  BY ModuleNumbers
  <2>3. scan # 0 /\ scan + 1 # 0  BY ModuleNumbers
  <2> QED  BY <2>1, <2>2, <2>3 DEF RegistryInv, ScanInv, Registered_
<1>5. LayersInv'  BY DEF RegistryInv, LayersInv
<1> QED  BY <1>1, <1>2, <1>3, <1>4, <1>5 DEF RegistryInv

(* A module that is bound is new to the registry and its index follows.    *)
LEMMA BindModuleInv ==
  ASSUME RegistryInv, BindModule
  PROVE  RegistryInv'
<1> USE DEF BindModule, model, contexts
<1>0. scan \notin bound /\ kind[scan] = "qwen3"  BY DEF Reason
<1>1. RegistryTypeOK'  BY ModuleNumbers DEF RegistryInv, RegistryTypeOK
<1>2. OneRegistryPerModule'  BY DEF RegistryInv, OneRegistryPerModule
<1>3. ContextInv'  BY DEF RegistryInv, ContextInv, Registered_
<1>4. ScanInv'
  <2>1. registries = <<>>  BY <1>0 DEF RegistryInv, ScanInv
  <2>2. \A m \in Modules : m < scan + 1 => m < scan \/ m = scan  BY ModuleNumbers
  <2>3. scan # 0 /\ scan + 1 # 0  BY ModuleNumbers
  <2>4. \A m, n \in found' : m # n => index[m] # index[n]
        BY <2>3 DEF RegistryInv, ScanInv, Bindable
  <2>5. \A m \in Modules : m < scan' => kind'[m] # "mla_v2" /\ (kind'[m] = "qwen3" => m \in bound')
        BY <1>0, <2>2, <2>3 DEF RegistryInv, ScanInv
  <2>8. \A m \in bound' : kind'[m] = "qwen3"  BY <1>0 DEF RegistryInv, ScanInv
  <2>6. raised' = 0 => \A m \in bound' : m \in found' \/ Registered_(m)'
        BY <2>3 DEF RegistryInv, ScanInv, Registered_
  <2>7. \A r \in DOMAIN registries' : registries'[r] \subseteq bound'  BY <2>1
  <2> QED  BY <2>1, <2>3, <2>4, <2>5, <2>6, <2>7, <2>8 DEF ScanInv
<1>5. LayersInv'  BY DEF RegistryInv, LayersInv
<1> QED  BY <1>1, <1>2, <1>3, <1>4, <1>5 DEF RegistryInv

(* A registration that raises leaves the registry as far as it came.       *)
LEMMA RegisterRaisesInv ==
  ASSUME RegistryInv, RegisterRaises
  PROVE  RegistryInv'
<1> USE DEF RegisterRaises, model, contexts
<1>1. RegistryTypeOK'  BY ModuleNumbers DEF RegistryInv, RegistryTypeOK
<1>2. OneRegistryPerModule'  BY DEF RegistryInv, OneRegistryPerModule
<1>3. ContextInv'  BY DEF RegistryInv, ContextInv, Registered_
<1>4. ScanInv'
  <2>1. raised' # 0  BY DEF RegistryInv, RegistryTypeOK
  <2> QED  BY <2>1 DEF RegistryInv, ScanInv, Registered_
<1>5. LayersInv'  BY DEF RegistryInv, LayersInv
<1> QED  BY <1>1, <1>2, <1>3, <1>4, <1>5 DEF RegistryInv

(* At the end of the scan every eligible module has been seen.             *)
LEMMA RegisteredInv ==
  ASSUME RegistryInv, Registered
  PROVE  RegistryInv'
<1> USE DEF Registered, model, contexts
<1>n. PICK n \in Nat : n = Len(registries)  BY DEF RegistryInv, RegistryTypeOK
<1>g. /\ registries \in Seq(SUBSET Modules) /\ found \subseteq Modules /\ found \subseteq bound
      /\ DOMAIN registries = 1 .. n /\ DOMAIN registries' = 1 .. n + 1
      /\ registries'[n + 1] = found
      /\ \A r \in 1 .. n : registries'[r] = registries[r]
      /\ scan # 0 /\ scan' = 0
      BY <1>n, ModuleNumbers DEF RegistryInv, RegistryTypeOK
<1>e. n # 0 => found = {}  BY <1>n, <1>g DEF RegistryInv, ScanInv
<1>f. \A r \in 1 .. n + 1 : r \in 1 .. n \/ r = n + 1  OBVIOUS
<1>r. \A m : Registered_(m)' <=> (Registered_(m) \/ m \in found)
  <2>1. ASSUME NEW m, Registered_(m)' PROVE Registered_(m) \/ m \in found
    BY <1>f, <1>g, <2>1 DEF Registered_
  <2>2. ASSUME NEW m, Registered_(m) \/ m \in found PROVE Registered_(m)'
    <3>1. CASE m \in found  BY <1>g, <3>1 DEF Registered_
    <3>2. CASE Registered_(m)
      <4>1. PICK r \in 1 .. n : m \in registries[r]  BY <1>g, <3>2 DEF Registered_
      <4>2. r \in 1 .. n + 1 /\ m \in registries'[r]  BY <1>g, <4>1
      <4> QED  BY <1>g, <4>2 DEF Registered_
    <3> QED  BY <2>2, <3>1, <3>2
  <2> QED  BY <2>1, <2>2
<1>1. RegistryTypeOK'
      BY <1>g, ModuleNumbers DEF RegistryInv, RegistryTypeOK
<1>2. OneRegistryPerModule'
  <2>1. ASSUME NEW r \in 1 .. n + 1, NEW s \in 1 .. n + 1, r # s
        PROVE  registries'[r] \cap registries'[s] = {}
    <3>1. CASE r \in 1 .. n /\ s \in 1 .. n
          BY <1>g, <2>1, <3>1 DEF RegistryInv, OneRegistryPerModule
    <3>2. CASE r = n + 1 \/ s = n + 1
      <4>1. n # 0  BY <2>1, <3>2
      <4> QED  BY <1>e, <1>g, <3>2, <4>1
    <3> QED  BY <1>f, <3>1, <3>2
  <2>2. ASSUME NEW r \in 1 .. n + 1, NEW m \in registries'[r], NEW k \in registries'[r], m # k
        PROVE  index[m] # index[k]
    <3>1. CASE r \in 1 .. n  BY <1>g, <2>2, <3>1 DEF RegistryInv, OneRegistryPerModule
    <3>2. CASE r = n + 1  BY <1>g, <2>2, <3>2 DEF RegistryInv, ScanInv
    <3> QED  BY <1>f, <3>1, <3>2
  <2> QED  BY <1>g, <2>1, <2>2 DEF OneRegistryPerModule
<1>3. ContextInv'  BY <1>r DEF RegistryInv, ContextInv
<1>4. ScanInv'
  <2>1. \A m \in Modules : m < scan  BY ModuleNumbers
  <2>2. \A r \in DOMAIN registries' : registries'[r] \subseteq bound
        BY <1>f, <1>g DEF RegistryInv, ScanInv
  <2>3. raised = 0 => \A m \in bound : Registered_(m)'  BY <1>r DEF RegistryInv, ScanInv
  <2>4. \A m \in Modules : kind[m] # "mla_v2" /\ (kind[m] = "qwen3" => m \in bound)
        BY <1>g, <2>1 DEF RegistryInv, ScanInv
  <2>5. \A m \in bound : kind[m] = "qwen3"  BY DEF RegistryInv, ScanInv
  <2> QED  BY <1>g, <2>2, <2>3, <2>4, <2>5 DEF ScanInv
<1>5. LayersInv'
  <2>1. SUFFICES ASSUME NEW r \in 1 .. n + 1, NEW s \in 1 .. n + 1,
                        NEW m \in registries'[r], NEW k \in registries'[s], m # k
                 PROVE  index[m] # index[k]
        BY <1>g DEF LayersInv
  <2>2. CASE r \in 1 .. n /\ s \in 1 .. n  BY <1>g, <2>1, <2>2 DEF RegistryInv, LayersInv
  <2>3. CASE n = 0
    <3>1. r = n + 1 /\ s = n + 1  BY <2>3
    <3> QED  BY <1>g, <2>1, <3>1 DEF RegistryInv, ScanInv
  <2>4. CASE n # 0 /\ (r = n + 1 \/ s = n + 1)  BY <1>e, <1>g, <2>4
  <2> QED  BY <1>f, <2>2, <2>3, <2>4
<1> QED  BY <1>1, <1>2, <1>3, <1>4, <1>5 DEF RegistryInv

(* Installing or clearing a registry's context touches its modules only.   *)
LEMMA OwnContextInv ==
  ASSUME RegistryInv, NEW r \in DOMAIN registries, UNCHANGED <<model, bound, classContext, progress>>,
         \/ \E b \in Batches :
              ownContext' = [m \in Modules |-> IF m \in registries[r] THEN Live(m, b) ELSE ownContext[m]]
         \/ ownContext' = [m \in Modules |-> IF m \in registries[r] THEN Cleared ELSE ownContext[m]]
  PROVE  RegistryInv'
<1> USE DEF model, progress
<1>1. RegistryTypeOK'
  <2>0. /\ \A m \in Modules, b \in Batches : Live(m, b) \in Contexts
        /\ \A m \in Modules : ownContext[m] \in Contexts
    <3>1. ASSUME NEW m \in Modules, NEW b \in Batches PROVE Live(m, b) \in Contexts
      <4>1. m \in {0} \cup Modules  OBVIOUS
      <4>2. Live(m, b) \in {Live(n, c) : n \in {0} \cup Modules, c \in Batches}  BY <4>1
      <4> QED  BY <4>2 DEF Contexts
    <3> QED  BY <3>1 DEF RegistryInv, RegistryTypeOK
  <2>1. \A m \in Modules : ownContext'[m] \in Contexts
    <3>1. CASE ownContext' = [m \in Modules |-> IF m \in registries[r] THEN Cleared ELSE ownContext[m]]
          BY <3>1 DEF RegistryInv, RegistryTypeOK, Contexts
    <3>2. ASSUME NEW b \in Batches,
                 ownContext' = [m \in Modules |-> IF m \in registries[r] THEN Live(m, b) ELSE ownContext[m]]
          PROVE  \A m \in Modules : ownContext'[m] \in Contexts
          BY <2>0, <3>2
    <3> QED  BY <3>1, <3>2
  <2>2. ownContext' \in [Modules -> Contexts]  BY <2>1
  <2> QED  BY <2>2 DEF RegistryInv, RegistryTypeOK
<1>2. OneRegistryPerModule'  BY DEF RegistryInv, OneRegistryPerModule
<1>3. ContextInv'
  <2>1. \A m : Registered_(m)' <=> Registered_(m)  BY DEF Registered_
  <2>2. \A m \in registries[r] : Registered_(m)  BY DEF Registered_
  <2>3. ASSUME NEW m \in Modules
        PROVE  /\ ownContext'[m] \in {Inherit, Cleared} \cup {Live(m, c) : c \in Batches}
               /\ ownContext'[m].state = "live" => Registered_(m)
    <3>1. CASE m \in registries[r]
      <4>1. (\E b \in Batches : ownContext'[m] = Live(m, b)) \/ ownContext'[m] = Cleared  BY <3>1
      <4> QED  BY <2>2, <3>1, <4>1, ContextStates
    <3>2. CASE m \notin registries[r]
      <4>1. ownContext'[m] = ownContext[m]  BY <3>2
      <4> QED  BY <4>1 DEF RegistryInv, ContextInv
    <3> QED  BY <3>1, <3>2
  <2> QED  BY <2>1, <2>3 DEF RegistryInv, ContextInv
<1>4. ScanInv'  BY DEF RegistryInv, ScanInv, Registered_
<1>5. LayersInv'  BY DEF RegistryInv, LayersInv
<1> QED  BY <1>1, <1>2, <1>3, <1>4, <1>5 DEF RegistryInv

(* Installing or clearing the context of a class keeps it sound.           *)
LEMMA ClassContextInv ==
  ASSUME RegistryInv, UNCHANGED <<model, bound, ownContext, progress>>, NEW k \in Kinds,
         NEW c \in {Cleared} \cup {Live(0, b) : b \in Batches},
         classContext' = [classContext EXCEPT ![k] = c]
  PROVE  RegistryInv'
<1> USE DEF model, progress
<1>0. \A j \in Kinds : classContext'[j] = IF j = k THEN c ELSE classContext[j]
      BY DEF RegistryInv, RegistryTypeOK
<1>1. RegistryTypeOK'
  <2>1. c \in Contexts  BY DEF Contexts
  <2>2. classContext' \in [Kinds -> Contexts]  BY <2>1 DEF RegistryInv, RegistryTypeOK
  <2> QED  BY <2>2 DEF RegistryInv, RegistryTypeOK
<1>2. OneRegistryPerModule'  BY DEF RegistryInv, OneRegistryPerModule
<1>3. ContextInv'  BY <1>0 DEF RegistryInv, ContextInv, Registered_
<1>4. ScanInv'  BY DEF RegistryInv, ScanInv, Registered_
<1>5. LayersInv'  BY DEF RegistryInv, LayersInv
<1> QED  BY <1>1, <1>2, <1>3, <1>4, <1>5 DEF RegistryInv

(* Every step of the registry keeps its invariant.                         *)
LEMMA RegistryNextInv == RegistryInv /\ [RegistryNext]_registryVars => RegistryInv'
<1> SUFFICES ASSUME RegistryInv, [RegistryNext]_registryVars PROVE RegistryInv'  OBVIOUS
<1>1. ASSUME NEW size \in StorageSizes, StartRegister(size) PROVE RegistryInv'
      BY <1>1, StartRegisterInv
<1>2. ASSUME NEW r \in DOMAIN registries, NEW b \in Batches, InstallMetadata(r, b)
      PROVE  RegistryInv'
      BY <1>2, OwnContextInv DEF InstallMetadata
<1>3. ASSUME NEW r \in DOMAIN registries, ClearMetadata(r) PROVE RegistryInv'
      BY <1>3, OwnContextInv DEF ClearMetadata
<1>4. ASSUME NEW k \in Kinds, ClearPagedContext(k) PROVE RegistryInv'
      BY <1>4, ClassContextInv DEF ClearPagedContext
<1>5. ASSUME NEW k \in Kinds, NEW b \in Batches, SetPagedContext(k, b) PROVE RegistryInv'
      BY <1>5, ClassContextInv DEF SetPagedContext
<1>6. CASE UNCHANGED registryVars
      BY <1>6 DEF registryVars, model, contexts, progress, RegistryInv, RegistryTypeOK,
                  OneRegistryPerModule, ContextInv, ScanInv, LayersInv, Registered_
<1> QED  BY <1>1, <1>2, <1>3, <1>4, <1>5, <1>6, SkipModuleInv, BindModuleInv, RegisterRaisesInv,
            RegisteredInv DEF RegistryNext

(* A live context a module finds is its own proxy, of a registry that was  *)
(* returned, or a backend shared by its class.                             *)
LEMMA LiveContext ==
  ASSUME RegistryInv, NEW m \in Modules, ContextOf(m).state = "live"
  PROVE  /\ ContextOf(m).batch \in Batches
         /\ ContextOf(m).proxy \in {0, m}
         /\ ContextOf(m).proxy = m => /\ m \in bound
                                      /\ Registered_(m)
                                      /\ \E b \in Batches : ContextOf(m) = Live(m, b) /\ ownContext[m] = Live(m, b)
<1>1. CASE m \in bound /\ ownContext[m] # Inherit
  <2>1. ContextOf(m) = ownContext[m]  BY <1>1 DEF ContextOf
  <2>2. PICK b \in Batches : ownContext[m] = Live(m, b)
        BY <1>1, <2>1, ContextStates DEF RegistryInv, ContextInv
  <2>3. Registered_(m)  BY <2>2, ContextStates DEF RegistryInv, ContextInv
  <2> QED  BY <1>1, <2>1, <2>2, <2>3, ContextStates
<1>2. CASE ~(m \in bound /\ ownContext[m] # Inherit)
  <2>1. ContextOf(m) = classContext[kind[m]] /\ kind[m] \in Kinds
        BY <1>2 DEF ContextOf, RegistryInv, RegistryTypeOK
  <2>2. PICK b \in Batches : ContextOf(m) = Live(0, b)
        BY <2>1, ContextStates DEF RegistryInv, ContextInv
  <2> QED  BY <2>2, ContextStates, ModuleNumbers
<1> QED  BY <1>1, <1>2

(* A module whose context is of itself has one of itself, or none, after a *)
(* step.                                                                   *)
LEMMA NotSharedStep ==
  ASSUME RegistryInv, [RegistryNext]_registryVars,
         NEW m \in Modules, NEW b \in Batches, ContextOf(m) = Live(m, b)
  PROVE  ContextOf(m)' \in {Cleared} \cup {Live(m, c) : c \in Batches}
<1>1. m \in bound /\ ownContext[m] = Live(m, b)
  <2>1. ContextOf(m).state = "live" /\ ContextOf(m).proxy = m  BY ContextStates
  <2> QED  BY <2>1, LiveContext
<1> USE DEF model, contexts, progress
<1>2. \/ ownContext'[m] = ownContext[m]
      \/ ownContext'[m] = Cleared
      \/ \E c \in Batches : ownContext'[m] = Live(m, c)
  <2>1. ASSUME NEW r \in DOMAIN registries, NEW c \in Batches, InstallMetadata(r, c)
        PROVE  ownContext'[m] = Live(m, c) \/ ownContext'[m] = ownContext[m]
        BY <2>1 DEF InstallMetadata
  <2>2. ASSUME NEW r \in DOMAIN registries, ClearMetadata(r)
        PROVE  ownContext'[m] = Cleared \/ ownContext'[m] = ownContext[m]
        BY <2>2 DEF ClearMetadata
  <2>3. CASE UNCHANGED ownContext  BY <2>3
  <2> QED
    BY <2>1, <2>2, <2>3 DEF RegistryNext, registryVars, StartRegister, SkipModule, BindModule,
       RegisterRaises, Registered, ClearPagedContext, SetPagedContext
<1>3. m \in bound'
  BY <1>1 DEF RegistryNext, registryVars, StartRegister, SkipModule, BindModule, RegisterRaises,
     Registered, InstallMetadata, ClearMetadata, ClearPagedContext, SetPagedContext
<1>4. ownContext'[m] \in {Cleared} \cup {Live(m, c) : c \in Batches}  BY <1>1, <1>2
<1>5. ownContext'[m] # Inherit  BY <1>4, ContextStates
<1> QED  BY <1>3, <1>4, <1>5 DEF ContextOf

-----------------------------------------------------------------------------
(* Packing.  A batch is a sequence of query lengths.                       *)
LEMMA BatchFacts ==
  ASSUME NEW b \in Batches
  PROVE  b \in Seq(Nat) /\ Len(b) \in Nat /\ Len(b) # 0 /\ DOMAIN b = 1 .. Len(b)
BY AttentionAssumption DEF NoBatch

(* Among the first lengths of a batch there is a longest one.              *)
LEMMA LongestExists ==
  ASSUME NEW b \in Batches
  PROVE  \E i \in 1 .. Len(b) : \A j \in 1 .. Len(b) : b[j] <= b[i]
<1> DEFINE T == {n \in Nat : n + 1 <= Len(b) => \E i \in 1 .. n + 1 : \A j \in 1 .. n + 1 : b[j] <= b[i]}
<1>0. b \in Seq(Nat) /\ Len(b) \in Nat /\ Len(b) # 0  BY BatchFacts
<1>b. \A i \in 1 .. Len(b) : b[i] \in Nat  BY <1>0
<1>1. 0 \in T
  <2> SUFFICES ASSUME 0 + 1 <= Len(b)
               PROVE  \E i \in 1 .. 0 + 1 : \A j \in 1 .. 0 + 1 : b[j] <= b[i]
      OBVIOUS
  <2>1. \A j \in 1 .. 0 + 1 : j = 1  OBVIOUS
  <2>2. 1 \in 1 .. Len(b) /\ b[1] \in Nat  BY <1>0, <1>b
  <2> QED  BY <2>1, <2>2
<1>2. ASSUME NEW n \in Nat, n \in T PROVE n + 1 \in T
  <2>1. PICK k \in Nat : k = n + 1  OBVIOUS
  <2> SUFFICES ASSUME k + 1 <= Len(b)
               PROVE  \E i \in 1 .. k + 1 : \A j \in 1 .. k + 1 : b[j] <= b[i]
      BY <2>1
  <2>2. PICK i \in 1 .. k : \A j \in 1 .. k : b[j] <= b[i]  BY <1>0, <1>2, <2>1
  <2>3. i \in 1 .. Len(b) /\ k + 1 \in 1 .. Len(b) /\ i \in 1 .. k + 1 /\ k + 1 \in 1 .. k + 1
        BY <1>0
  <2>4. b[i] \in Nat /\ b[k + 1] \in Nat  BY <1>b, <2>3
  <2>5. \A j \in 1 .. k + 1 : j \in 1 .. k \/ j = k + 1  OBVIOUS
  <2>6. \A j \in 1 .. k : b[j] \in Nat  BY <1>0, <1>b
  <2>7. CASE b[k + 1] <= b[i]  BY <2>2, <2>3, <2>5, <2>7
  <2>8. CASE b[i] <= b[k + 1]
    <3>1. \A j \in 1 .. k + 1 : b[j] <= b[k + 1]  BY <2>2, <2>4, <2>5, <2>6, <2>8
    <3> QED  BY <2>3, <3>1
  <2>9. b[k + 1] <= b[i] \/ b[i] <= b[k + 1]
    <3> HIDE DEF T
    <3> QED  BY <2>4
  <2> QED  BY <2>7, <2>8, <2>9, Zenon
<1> HIDE DEF T
<1>3. \A n \in Nat : n \in T  BY <1>1, <1>2, InductionOnSet
<1>4. Len(b) - 1 \in Nat /\ Len(b) - 1 + 1 = Len(b) /\ Len(b) <= Len(b)  BY <1>0
<1>5. Len(b) - 1 + 1 <= Len(b) =>
        \E i \in 1 .. Len(b) - 1 + 1 : \A j \in 1 .. Len(b) - 1 + 1 : b[j] <= b[i]
      BY <1>3, <1>4 DEF T
<1> QED  BY <1>4, <1>5

(* No row is longer than the padded length.                                *)
LEMMA Longest ==
  ASSUME NEW b \in Batches
  PROVE  /\ QLen(b) \in Nat
         /\ \A r \in 1 .. Len(b) : b[r] \in Nat /\ b[r] <= QLen(b)
<1>1. PICK i \in 1 .. Len(b) : \A j \in 1 .. Len(b) : b[j] <= b[i]  BY LongestExists
<1>2. b \in Seq(Nat) /\ Len(b) \in Nat /\ DOMAIN b = 1 .. Len(b)  BY BatchFacts
<1>3. ToSet(b) = {b[j] : j \in 1 .. Len(b)}  BY <1>2 DEF ToSet
<1>4. b[i] \in ToSet(b) /\ \A l \in ToSet(b) : l <= b[i]  BY <1>1, <1>3
<1>5. QLen(b) \in ToSet(b) /\ \A l \in ToSet(b) : l <= QLen(b)  BY <1>4 DEF QLen
<1>6. \A j \in 1 .. Len(b) : b[j] \in Nat  BY <1>2
<1> QED  BY <1>3, <1>5, <1>6

(* The rows of a batch, and the same places counted through the padding.   *)
Rows(b)     == [r \in DOMAIN b |-> [c \in 1 .. b[r] |-> <<r, c>>]]
Wide(b, w)  == [r \in DOMAIN b |-> [c \in 1 .. b[r] |-> (r - 1) * w + c]]

(* The slots of a batch are the cells of its rows, end to end.             *)
LEMMA RowsFacts ==
  ASSUME NEW b \in Batches
  PROVE  /\ Rows(b) \in Seq(Seq(Nat \X Nat))
         /\ Len(Rows(b)) = Len(b) /\ DOMAIN Rows(b) = 1 .. Len(b)
         /\ \A r \in 1 .. Len(b) : /\ Len(Rows(b)[r]) = b[r] /\ DOMAIN Rows(b)[r] = 1 .. b[r]
                                   /\ \A c \in 1 .. b[r] : Rows(b)[r][c] = <<r, c>>
         /\ Slots(b) = FlattenSeq(Rows(b))
<1>1. b \in Seq(Nat) /\ Len(b) \in Nat /\ DOMAIN b = 1 .. Len(b)  BY BatchFacts
<1>2. \A r \in 1 .. Len(b) : b[r] \in Nat  BY <1>1
<1>3. ASSUME NEW r \in 1 .. Len(b)
      PROVE  /\ Rows(b)[r] \in Seq(Nat \X Nat)
             /\ Len(Rows(b)[r]) = b[r] /\ DOMAIN Rows(b)[r] = 1 .. b[r]
             /\ \A c \in 1 .. b[r] : Rows(b)[r][c] = <<r, c>>
  <2>1. Rows(b)[r] = [c \in 1 .. b[r] |-> <<r, c>>]  BY <1>1 DEF Rows
  <2>2. b[r] \in Nat /\ r \in Nat  BY <1>2
  <2> QED  BY <2>1, <2>2
<1>4. DOMAIN Rows(b) = 1 .. Len(b) /\ Rows(b) = [r \in 1 .. Len(b) |-> Rows(b)[r]]
      BY <1>1 DEF Rows
<1>5. Rows(b) \in Seq(Seq(Nat \X Nat)) /\ Len(Rows(b)) = Len(b)
  <2> HIDE DEF Rows
  <2>1. Rows(b) \in [1 .. Len(b) -> Seq(Nat \X Nat)]  BY <1>3, <1>4
  <2> QED  BY <1>1, <2>1
<1> QED  BY <1>3, <1>4, <1>5 DEF Slots, Rows

(* The padded cells of a batch, row by row.                                *)
LEMMA WideFacts ==
  ASSUME NEW b \in Batches, NEW w \in Nat
  PROVE  /\ Wide(b, w) \in Seq(Seq(Nat))
         /\ Len(Wide(b, w)) = Len(b) /\ DOMAIN Wide(b, w) = 1 .. Len(b)
         /\ \A r \in 1 .. Len(b) : /\ Len(Wide(b, w)[r]) = b[r] /\ DOMAIN Wide(b, w)[r] = 1 .. b[r]
                                   /\ \A c \in 1 .. b[r] : Wide(b, w)[r][c] = (r - 1) * w + c
         /\ Pack(b, w) = FlattenSeq(Wide(b, w))
<1>1. b \in Seq(Nat) /\ Len(b) \in Nat /\ DOMAIN b = 1 .. Len(b)  BY BatchFacts
<1>2. \A r \in 1 .. Len(b) : b[r] \in Nat  BY <1>1
<1>3. ASSUME NEW r \in 1 .. Len(b)
      PROVE  /\ Wide(b, w)[r] \in Seq(Nat)
             /\ Len(Wide(b, w)[r]) = b[r] /\ DOMAIN Wide(b, w)[r] = 1 .. b[r]
             /\ \A c \in 1 .. b[r] : Wide(b, w)[r][c] = (r - 1) * w + c
  <2>1. Wide(b, w)[r] = [c \in 1 .. b[r] |-> (r - 1) * w + c]  BY <1>1 DEF Wide
  <2>2. PICK z \in Nat : z = (r - 1) * w
    <3>1. r - 1 \in Nat  OBVIOUS
    <3> QED  BY <3>1
  <2>3. b[r] \in Nat /\ \A c \in 1 .. b[r] : z + c \in Nat  BY <1>2
  <2> QED  BY <2>1, <2>2, <2>3
<1>4. DOMAIN Wide(b, w) = 1 .. Len(b) /\ Wide(b, w) = [r \in 1 .. Len(b) |-> Wide(b, w)[r]]
      BY <1>1 DEF Wide
<1>5. Wide(b, w) \in Seq(Seq(Nat)) /\ Len(Wide(b, w)) = Len(b)
  <2> HIDE DEF Wide
  <2>1. Wide(b, w) \in [1 .. Len(b) -> Seq(Nat)]  BY <1>3, <1>4
  <2> QED  BY <1>1, <2>1
<1> QED  BY <1>3, <1>4, <1>5 DEF Pack, Wide

(* The cache slots of a batch are its valid places, each once.             *)
LEMMA SlotsFacts ==
  ASSUME NEW b \in Batches
  PROVE  /\ Slots(b) \in Seq(Nat \X Nat)
         /\ \A i, k \in 1 .. Len(Slots(b)) : Slots(b)[i] = Slots(b)[k] => i = k
         /\ \A p \in Places(b) : Valid(b, p) => \E i \in 1 .. Len(Slots(b)) : Slots(b)[i] = p
<1>r. PICK rows : rows = Rows(b)  OBVIOUS
<1>f. /\ rows \in Seq(Seq(Nat \X Nat)) /\ Len(rows) = Len(b) /\ DOMAIN rows = 1 .. Len(b)
      /\ \A r \in 1 .. Len(b) : /\ Len(rows[r]) = b[r] /\ DOMAIN rows[r] = 1 .. b[r]
                                /\ \A c \in 1 .. b[r] : rows[r][c] = <<r, c>>
      /\ Slots(b) = FlattenSeq(rows)
      BY <1>r, RowsFacts
<1>s. rows \in Seq(Seq(Nat \X Nat))  BY <1>f
<1>1. PICK off : IsOffsets(rows, off)  BY <1>s, OffsetsExist
<1>2. /\ Slots(b) \in Seq(Nat \X Nat)
      /\ Len(Slots(b)) = off[Len(rows) + 1]
      /\ \A i \in 1 .. Len(rows) : \A j \in 1 .. Len(rows[i]) : Slots(b)[off[i] + j] = rows[i][j]
  <2>1. /\ FlattenSeq(rows) \in Seq(Nat \X Nat)
        /\ Len(FlattenSeq(rows)) = off[Len(rows) + 1]
        /\ \A i \in 1 .. Len(rows) : \A j \in 1 .. Len(rows[i]) :
             FlattenSeq(rows)[off[i] + j] = rows[i][j]
        BY <1>1, <1>s, FlattenSeqPlaces
  <2>2. Slots(b) = FlattenSeq(rows)  BY <1>f
  <2> QED  BY <2>1, <2>2, Zenon
<1>3. ASSUME NEW i \in 1 .. Len(Slots(b)), NEW k \in 1 .. Len(Slots(b)), Slots(b)[i] = Slots(b)[k]
      PROVE  i = k
  <2>1. \A h, m \in DOMAIN rows : \A j \in DOMAIN rows[h], l \in DOMAIN rows[m] :
          rows[h][j] = rows[m][l] => h = m /\ j = l
    <3> SUFFICES ASSUME NEW h \in DOMAIN rows, NEW m \in DOMAIN rows, NEW j \in DOMAIN rows[h],
                        NEW l \in DOMAIN rows[m], rows[h][j] = rows[m][l]
                 PROVE  h = m /\ j = l
        OBVIOUS
    <3>1. h \in 1 .. Len(b) /\ m \in 1 .. Len(b) /\ j \in 1 .. b[h] /\ l \in 1 .. b[m]  BY <1>f
    <3>2. rows[h][j] = <<h, j>> /\ rows[m][l] = <<m, l>>  BY <1>f, <3>1
    <3>3. <<h, j>> = <<m, l>>  BY <3>2
    <3> QED  BY <3>3
  <2>2. Slots(b) = FlattenSeq(rows) /\ rows \in Seq(Seq(Nat \X Nat))  BY <1>f
  <2>3. i \in DOMAIN FlattenSeq(rows) /\ k \in DOMAIN FlattenSeq(rows)  BY <1>2, <2>2
  <2>4. FlattenSeq(rows)[i] = FlattenSeq(rows)[k]  BY <1>3, <2>2
  <2> QED  BY <2>1, <2>2, <2>3, <2>4, FlattenSeqInjective
<1>4. ASSUME NEW p \in Places(b), Valid(b, p) PROVE \E i \in 1 .. Len(Slots(b)) : Slots(b)[i] = p
  <2>1. PICK r \in 1 .. Len(b), c \in 1 .. QLen(b) : p = <<r, c>>  BY DEF Places
  <2>2. p[1] = r /\ p[2] = c /\ c <= b[r]  BY <1>4, <2>1 DEF Valid
  <2>3. b[r] \in Nat /\ QLen(b) \in Nat  BY Longest
  <2>4. c \in 1 .. b[r]  BY <2>2, <2>3
  <2>5. r \in 1 .. Len(rows) /\ c \in 1 .. Len(rows[r]) /\ rows[r][c] = <<r, c>>
        BY <1>f, <2>4
  <2>6. Slots(b)[off[r] + c] = p
    <3>1. Slots(b)[off[r] + c] = rows[r][c]  BY <1>2, <2>5
    <3>2. p = rows[r][c]  BY <2>1, <2>5, Zenon
    <3> QED  BY <3>1, <3>2, Zenon
  <2>7. off[r] + c \in 1 .. Len(Slots(b))
    <3>1. PICK n \in Nat : n = Len(rows)  BY <1>s
    <3>2. off \in [1 .. n + 1 -> Nat]  BY <1>1, <3>1 DEF IsOffsets
    <3>3. r \in 1 .. n /\ r \in 1 .. n + 1 /\ n + 1 \in 1 .. n + 1 /\ r < n + 1  BY <2>5, <3>1
    <3>4. off[r] \in Nat /\ off[n + 1] \in Nat  BY <3>2, <3>3
    <3>5. off[r] + Len(rows[r]) <= off[n + 1]  BY <1>1, <1>f, <3>1, <3>3, OffsetsMonotone
    <3>6. Len(rows[r]) = b[r] /\ Len(Slots(b)) = off[n + 1]  BY <1>2, <1>f, <3>1
    <3> QED  BY <2>3, <2>4, <3>4, <3>5, <3>6
  <2> QED  BY <2>6, <2>7
<1> QED  BY <1>2, <1>3, <1>4

(* Rows of one width: the k-th place is found by division.                 *)
LEMMA EvenOffsets ==
  ASSUME NEW S, NEW seqs \in Seq(Seq(S)), NEW off, IsOffsets(seqs, off),
         NEW w \in Nat, \A i \in 1 .. Len(seqs) : Len(seqs[i]) = w
  PROVE  \A i \in 1 .. Len(seqs) + 1 : off[i] = (i - 1) * w
<1> DEFINE T == {n \in Nat : n + 1 <= Len(seqs) + 1 => off[n + 1] = n * w}
<1>l. PICK l \in Nat : l = Len(seqs)  OBVIOUS
<1>1. 0 \in T  BY DEF IsOffsets
<1>2. ASSUME NEW n \in Nat, n \in T PROVE n + 1 \in T
  <2> SUFFICES ASSUME n + 1 + 1 <= l + 1 PROVE off[n + 1 + 1] = (n + 1) * w  BY <1>l
  <2>1. n + 1 \in 1 .. l  OBVIOUS
  <2>2. off[n + 1 + 1] = off[n + 1] + w  BY <1>l, <2>1 DEF IsOffsets
  <2>3. off[n + 1] = n * w  BY <1>2, <1>l
  <2>4. (n + 1) * w = n * w + w
    <3> HIDE DEF T
    <3> QED  OBVIOUS
  <2> QED  BY <2>2, <2>3, <2>4
<1> HIDE DEF T
<1>3. \A n \in Nat : n \in T  BY <1>1, <1>2, InductionOnSet
<1>4. ASSUME NEW i \in 1 .. Len(seqs) + 1 PROVE off[i] = (i - 1) * w
  <2>1. PICK n \in Nat : n = i - 1  OBVIOUS
  <2>2. n + 1 = i /\ i <= Len(seqs) + 1  BY <1>l, <2>1
  <2>3. off[n + 1] = n * w  BY <1>3, <2>2 DEF T
  <2> QED  BY <2>1, <2>2, <2>3
<1> QED  BY <1>4

(* Without earlier tokens the keys of a batch are its places row by row.   *)
LEMMA KeysFacts ==
  ASSUME batch \in Batches
  PROVE  /\ KeysWith(0) \in Seq(Nat \X Nat)
         /\ \A r \in 1 .. Len(batch) : \A c \in 1 .. QLen(batch) :
              KeysWith(0)[(r - 1) * QLen(batch) + c] = <<r, c>>
         /\ (\A r \in DOMAIN batch : batch[r] = QLen(batch)) => KeysWith(0) = Slots(batch)
<1> DEFINE keys == [r \in DOMAIN batch |-> [c \in 1 .. 0 + QLen(batch) |-> <<r, c - 0>>]]
<1>w. PICK w \in Nat : w = QLen(batch)  BY Longest
<1>b. batch \in Seq(Nat) /\ Len(batch) \in Nat /\ DOMAIN batch = 1 .. Len(batch)  BY BatchFacts
<1>1. ASSUME NEW r \in 1 .. Len(batch)
      PROVE  /\ keys[r] \in Seq(Nat \X Nat) /\ Len(keys[r]) = w /\ keys[r] = [c \in 1 .. w |-> <<r, c>>]
             /\ \A c \in 1 .. w : keys[r][c] = <<r, c>>
  <2>1. keys[r] = [c \in 1 .. 0 + w |-> <<r, c - 0>>]  BY <1>b, <1>w
  <2>2. 0 + w = w /\ \A c \in 1 .. w : c - 0 = c  OBVIOUS
  <2>3. keys[r] = [c \in 1 .. w |-> <<r, c>>]  BY <2>1, <2>2
  <2>4. PICK s : s = [c \in 1 .. w |-> <<r, c>>]  OBVIOUS
  <2>5. s \in Seq(Nat \X Nat) /\ Len(s) = w /\ \A c \in 1 .. w : s[c] = <<r, c>>
        BY <1>b, <2>4
  <2> HIDE DEF keys
  <2> QED  BY <2>3, <2>4, <2>5
<1>2. DOMAIN keys = 1 .. Len(batch) /\ keys = [r \in 1 .. Len(batch) |-> keys[r]]  BY <1>b
<1>3. KeysWith(0) = FlattenSeq(keys)  BY DEF KeysWith
<1> HIDE DEF keys
<1>4. keys \in [1 .. Len(batch) -> Seq(Nat \X Nat)]  BY <1>1, <1>2
<1>5. keys \in Seq(Seq(Nat \X Nat)) /\ Len(keys) = Len(batch)  BY <1>b, <1>4
<1>6. PICK off : IsOffsets(keys, off)  BY <1>5, OffsetsExist
<1>l. \A i \in 1 .. Len(keys) : Len(keys[i]) = w  BY <1>1, <1>5
<1>7. \A i \in 1 .. Len(keys) + 1 : off[i] = (i - 1) * w  BY <1>5, <1>6, <1>l, EvenOffsets
<1>8. /\ KeysWith(0) \in Seq(Nat \X Nat)
      /\ \A i \in 1 .. Len(keys) : \A j \in 1 .. Len(keys[i]) : KeysWith(0)[off[i] + j] = keys[i][j]
      BY <1>3, <1>5, <1>6, FlattenSeqPlaces
<1>9. ASSUME NEW r \in 1 .. Len(batch), NEW c \in 1 .. w
      PROVE  KeysWith(0)[(r - 1) * w + c] = <<r, c>>
  <2>1. off[r] = (r - 1) * w
    <3>1. r \in 1 .. Len(keys) + 1  BY <1>b, <1>5
    <3> QED  BY <1>7, <3>1
  <2>2. r \in 1 .. Len(keys) /\ c \in 1 .. Len(keys[r]) /\ keys[r][c] = <<r, c>>  BY <1>1, <1>5
  <2>3. KeysWith(0)[off[r] + c] = keys[r][c]  BY <1>8, <2>2
  <2> QED  BY <2>1, <2>2, <2>3
<1>10. ASSUME \A r \in DOMAIN batch : batch[r] = QLen(batch) PROVE KeysWith(0) = Slots(batch)
  <2>1. \A r \in 1 .. Len(batch) : Rows(batch)[r] = keys[r]
        BY <1>1, <1>b, <1>w, <1>10 DEF Rows
  <2>2. DOMAIN Rows(batch) = 1 .. Len(batch) /\ Rows(batch) = [r \in 1 .. Len(batch) |-> Rows(batch)[r]]
        BY <1>b DEF Rows
  <2>3. Rows(batch) = keys  BY <1>2, <2>1, <2>2
  <2> QED  BY <1>3, <2>3, RowsFacts
<1> QED  BY <1>8, <1>9, <1>10, <1>w

(* With earlier tokens before those of each row there are more keys.       *)
LEMMA KeysLength ==
  ASSUME batch \in Batches, NEW h \in Nat
  PROVE  Len(KeysWith(h)) = Len(batch) * (h + QLen(batch))
<1> DEFINE keys == [r \in DOMAIN batch |-> [c \in 1 .. h + QLen(batch) |-> <<r, c - h>>]]
<1>w. PICK w \in Nat : w = QLen(batch)  BY Longest
<1>v. PICK v \in Nat : v = h + w  OBVIOUS
<1>b. batch \in Seq(Nat) /\ Len(batch) \in Nat /\ DOMAIN batch = 1 .. Len(batch)  BY BatchFacts
<1>1. ASSUME NEW r \in 1 .. Len(batch)
      PROVE  keys[r] \in Seq(Nat \X Int) /\ Len(keys[r]) = v
  <2>1. keys[r] = [c \in 1 .. v |-> <<r, c - h>>]  BY <1>b, <1>v, <1>w
  <2>2. PICK s : s = [c \in 1 .. v |-> <<r, c - h>>]  OBVIOUS
  <2>3. s \in Seq(Nat \X Int) /\ Len(s) = v  BY <1>b, <2>2
  <2> HIDE DEF keys
  <2> QED  BY <2>1, <2>2, <2>3
<1>2. DOMAIN keys = 1 .. Len(batch) /\ keys = [r \in 1 .. Len(batch) |-> keys[r]]  BY <1>b
<1>3. KeysWith(h) = FlattenSeq(keys)  BY DEF KeysWith
<1> HIDE DEF keys
<1>4. keys \in [1 .. Len(batch) -> Seq(Nat \X Int)]  BY <1>1, <1>2
<1>5. keys \in Seq(Seq(Nat \X Int)) /\ Len(keys) = Len(batch)  BY <1>b, <1>4
<1>6. PICK off : IsOffsets(keys, off)  BY <1>5, OffsetsExist
<1>l. \A i \in 1 .. Len(keys) : Len(keys[i]) = v  BY <1>1, <1>5
<1>7. \A i \in 1 .. Len(keys) + 1 : off[i] = (i - 1) * v  BY <1>5, <1>6, <1>l, EvenOffsets
<1>8. Len(FlattenSeq(keys)) = off[Len(keys) + 1]  BY <1>5, <1>6, FlattenSeqPlaces
<1>9. off[Len(keys) + 1] = Len(batch) * v
  <2>1. PICK n \in Nat : n = Len(keys) /\ n = Len(batch)  BY <1>b, <1>5
  <2>2. n + 1 \in 1 .. n + 1 /\ (n + 1) - 1 = n  OBVIOUS
  <2>3. off[n + 1] = ((n + 1) - 1) * v  BY <1>7, <2>1, <2>2
  <2> QED  BY <2>1, <2>2, <2>3
<1> QED  BY <1>3, <1>8, <1>9, <1>v, <1>w

(* What the backend packs and the slots it writes are in step: under the   *)
(* batch's own metadata each valid token meets its own slot.               *)
LEMMA PackedKeys ==
  ASSUME batch \in Batches, Packed(batch)
  PROVE  /\ Index(batch) \in Seq(Nat)
         /\ Len(Index(batch)) = Len(Slots(batch))
         /\ \A i \in 1 .. Len(Slots(batch)) : KeysWith(0)[Index(batch)[i]] = Slots(batch)[i]
<1>w. PICK w \in Nat : w = QLen(batch)  BY Longest
<1>b. \A r \in 1 .. Len(batch) : batch[r] \in Nat /\ batch[r] <= w  BY Longest, <1>w
<1>r. PICK rows : rows = Rows(batch)  OBVIOUS
<1>v. PICK wide : wide = Wide(batch, w)  OBVIOUS
<1>f. /\ rows \in Seq(Seq(Nat \X Nat)) /\ Len(rows) = Len(batch)
      /\ \A r \in 1 .. Len(batch) : /\ Len(rows[r]) = batch[r]
                                    /\ \A c \in 1 .. batch[r] : rows[r][c] = <<r, c>>
      /\ Slots(batch) = FlattenSeq(rows)
      BY <1>r, RowsFacts
<1>g. /\ wide \in Seq(Seq(Nat)) /\ Len(wide) = Len(batch)
      /\ \A r \in 1 .. Len(batch) : /\ Len(wide[r]) = batch[r]
                                    /\ \A c \in 1 .. batch[r] : wide[r][c] = (r - 1) * w + c
      /\ Index(batch) = FlattenSeq(wide)
      BY <1>v, <1>w, WideFacts DEF Index
<1>s. rows \in Seq(Seq(Nat \X Nat)) /\ wide \in Seq(Seq(Nat))  BY <1>f, <1>g
<1>1. PICK off : IsOffsets(rows, off)  BY <1>s, OffsetsExist
<1>c. \A k \in 1 .. off[Len(rows) + 1] :
        \E r \in 1 .. Len(rows) : \E c \in 1 .. Len(rows[r]) : k = off[r] + c
  <2>1. PICK S : S = Nat \X Nat  OBVIOUS
  <2>2. rows \in Seq(Seq(S))  BY <1>s, <2>1, Zenon
  <2> HIDE <2>1
  <2> SUFFICES ASSUME NEW k \in 1 .. off[Len(rows) + 1]
               PROVE  \E r \in 1 .. Len(rows) : \E c \in 1 .. Len(rows[r]) : k = off[r] + c
      OBVIOUS
  <2> QED  BY <1>1, <2>2, OffsetsCover
<1>2. IsOffsets(wide, off)
  <2>1. \A i \in 1 .. Len(batch) : Len(wide[i]) = Len(rows[i])  BY <1>f, <1>g
  <2>2. Len(wide) = Len(rows) /\ Len(rows) = Len(batch)  BY <1>f, <1>g
  <2> QED  BY <1>1, <2>1, <2>2 DEF IsOffsets
<1>3. /\ FlattenSeq(rows) \in Seq(Nat \X Nat)
      /\ Len(FlattenSeq(rows)) = off[Len(rows) + 1]
      /\ \A i \in 1 .. Len(rows) : \A j \in 1 .. Len(rows[i]) : FlattenSeq(rows)[off[i] + j] = rows[i][j]
      BY <1>1, <1>s, FlattenSeqPlaces
<1>4. /\ FlattenSeq(wide) \in Seq(Nat)
      /\ Len(FlattenSeq(wide)) = off[Len(wide) + 1]
      /\ \A i \in 1 .. Len(wide) : \A j \in 1 .. Len(wide[i]) : FlattenSeq(wide)[off[i] + j] = wide[i][j]
      BY <1>2, <1>s, FlattenSeqPlaces
<1>5. Len(FlattenSeq(wide)) = Len(FlattenSeq(rows))  BY <1>3, <1>4, <1>f, <1>g
<1>6. ASSUME NEW i \in 1 .. Len(Slots(batch))
      PROVE  KeysWith(0)[Index(batch)[i]] = Slots(batch)[i]
  <2>1. i \in 1 .. off[Len(rows) + 1]
    <3>1. Slots(batch) = FlattenSeq(rows)  BY <1>f
    <3> QED  BY <1>3, <3>1, Zenon
  <2>2. PICK r \in 1 .. Len(rows) : \E c \in 1 .. Len(rows[r]) : i = off[r] + c  BY <1>c, <2>1
  <2>3. PICK c \in 1 .. Len(rows[r]) : i = off[r] + c  BY <2>2
  <2>4. r \in 1 .. Len(batch) /\ c \in 1 .. batch[r] /\ r \in 1 .. Len(wide) /\ c \in 1 .. Len(wide[r])
        BY <1>f, <1>g
  <2>5. Slots(batch)[i] = <<r, c>>
    <3>1. FlattenSeq(rows)[off[r] + c] = rows[r][c]  BY <1>3
    <3>2. rows[r][c] = <<r, c>>  BY <1>f, <2>4
    <3>3. Slots(batch) = FlattenSeq(rows)  BY <1>f
    <3> QED  BY <2>3, <3>1, <3>2, <3>3, Zenon
  <2>6. Index(batch)[i] = (r - 1) * w + c
    <3>1. FlattenSeq(wide)[off[r] + c] = wide[r][c]  BY <1>4, <2>4
    <3>2. wide[r][c] = (r - 1) * w + c  BY <1>g, <2>4
    <3>3. Index(batch) = FlattenSeq(wide)  BY <1>g
    <3> QED  BY <2>3, <3>1, <3>2, <3>3, Zenon
  <2>7. c \in 1 .. w  BY <1>b, <2>4
  <2>8. KeysWith(0)[(r - 1) * w + c] = <<r, c>>  BY <1>w, <2>4, <2>7, KeysFacts
  <2> QED  BY <2>5, <2>6, <2>8, Zenon
<1>7. Index(batch) \in Seq(Nat) /\ Len(Index(batch)) = Len(Slots(batch))
  <2>1. Slots(batch) = FlattenSeq(rows) /\ Index(batch) = FlattenSeq(wide)  BY <1>f, <1>g
  <2> QED  BY <1>4, <1>5, <2>1, Zenon
<1> QED  BY <1>6, <1>7

(* The places that get a result, found by division.                        *)
LEMMA Division ==
  ASSUME NEW w \in Nat, w # 0, NEW i \in Nat
  PROVE  i \div w \in Nat /\ i % w \in 0 .. w - 1 /\ i = w * (i \div w) + (i % w)
<1>1. i % w \in 0 .. w - 1  OBVIOUS
<1>2. i = w * (i \div w) + (i % w)
  <2>1. w \in Int /\ 0 < w /\ i \in Int  OBVIOUS
  <2> QED  BY <2>1, Z3
<1>3. i \div w \in Int  OBVIOUS
<1>4. i \div w >= 0  OBVIOUS
<1> QED  BY <1>1, <1>2, <1>3, <1>4

(* A position has one row and one column.                                  *)
LEMMA DivisionUnique ==
  ASSUME NEW w \in Nat, NEW q \in Nat, NEW m \in Nat, NEW r \in Nat, NEW c \in Nat,
         m < w, c < w, w * q + m = w * r + c
  PROVE  q = r /\ m = c
<1>1. ~(q < r)
  <2> SUFFICES ASSUME q < r PROVE FALSE  OBVIOUS
  <2>1. PICK d \in Nat : r = q + 1 + d
    <3>1. r - (q + 1) \in Nat /\ r = q + 1 + (r - (q + 1))  OBVIOUS
    <3> QED  BY <3>1
  <2>2. w * r = w * q + w + w * d /\ w * d \in Nat  BY <2>1
  <2>3. w * q \in Nat  OBVIOUS
  <2>4. PICK a \in Nat, e \in Nat, f \in Nat : a = w * q /\ e = w * d /\ f = w * r  BY <2>2, <2>3
  <2> HIDE <2>1
  <2>5. f = a + w + e /\ a + m = f + c  BY <2>2, <2>4
  <2> QED  BY <2>5
<1>2. ~(r < q)
  <2> SUFFICES ASSUME r < q PROVE FALSE  OBVIOUS
  <2>1. PICK d \in Nat : q = r + 1 + d
    <3>1. q - (r + 1) \in Nat /\ q = r + 1 + (q - (r + 1))  OBVIOUS
    <3> QED  BY <3>1
  <2>2. w * q = w * r + w + w * d /\ w * d \in Nat  BY <2>1
  <2>3. w * r \in Nat  OBVIOUS
  <2>4. PICK a \in Nat, e \in Nat, f \in Nat : a = w * q /\ e = w * d /\ f = w * r  BY <2>2, <2>3
  <2>5. a = f + w + e /\ a + m = f + c  BY <2>2, <2>4
  <2> QED  BY <2>5
<1>3. q = r  BY <1>1, <1>2
<1>4. PICK a \in Nat : a = w * q
  <2>1. w * q \in Nat  OBVIOUS
  <2> QED  BY <2>1
<1>5. a + m = a + c  BY <1>3, <1>4
<1> QED  BY <1>3, <1>5

(* Row and column, from 0, of the i-th place of rows of width w.           *)
RowOf(i, w) == (i - 1) \div w
ColOf(i, w) == (i - 1) % w

(* n rows of width w have z places.                                        *)
Fills(z, n, w) == z = n * w

(* Every place of the padded batch lies in one of its rows.                *)
LEMMA PlaceRows ==
  ASSUME NEW n \in Nat, NEW w \in Nat, NEW z \in Nat, Fills(z, n, w), NEW i \in 1 .. z
  PROVE  \E q \in Nat, m \in Nat :
           /\ q = RowOf(i, w) /\ m = ColOf(i, w)
           /\ q + 1 \in 1 .. n /\ m < w /\ i = w * q + m + 1
<1>z. z = n * w  BY DEF Fills
<1>1. w # 0
  <2> SUFFICES ASSUME w = 0 PROVE FALSE  OBVIOUS
  <2>1. n * w = 0  OBVIOUS
  <2> QED  BY <1>z, <2>1
<1>2. PICK k \in Nat : k = i - 1
  <2>1. i - 1 \in Nat  OBVIOUS
  <2> QED  BY <2>1
<1>3. k \div w \in Nat /\ k % w \in 0 .. w - 1 /\ k = w * (k \div w) + (k % w)
      BY <1>1, Division
<1>4. PICK q \in Nat : q = k \div w  BY <1>3
<1>5. PICK m \in 0 .. w - 1 : m = k % w  BY <1>3
<1>6. k = w * q + m /\ k < z
  <2>1. k = w * q + m  BY <1>3, <1>4, <1>5
  <2>2. k < z  BY <1>2
  <2> QED  BY <2>1, <2>2
<1>7. q < n
  <2> SUFFICES ASSUME n <= q PROVE FALSE  OBVIOUS
  <2>1. PICK d \in Nat : q = n + d
    <3>1. q - n \in Nat /\ q = n + (q - n)  OBVIOUS
    <3> QED  BY <3>1
  <2>2. w * q = n * w + w * d /\ w * d \in Nat /\ w * q \in Nat  BY <2>1
  <2>3. PICK a \in Nat, e \in Nat : a = w * q /\ e = w * d  BY <2>2
  <2>4. a = z + e /\ k = a + m  BY <1>6, <1>z, <2>2, <2>3
  <2> QED  BY <1>6, <2>4
<1>8. q + 1 \in 1 .. n  BY <1>7
<1>9. i = w * q + m + 1
  <2>1. PICK a \in Nat : a = w * q
    <3>1. w * q \in Nat  OBVIOUS
    <3> QED  BY <3>1
  <2>2. k = a + m /\ i = k + 1  BY <1>2, <1>6, <2>1
  <2>3. i = a + m + 1  BY <2>2
  <2> QED  BY <2>1, <2>3
<1>10. q = RowOf(i, w) /\ m = ColOf(i, w)  BY <1>2, <1>4, <1>5 DEF RowOf, ColOf
<1>11. m \in Nat /\ m < w  OBVIOUS
<1> QED  BY <1>8, <1>9, <1>10, <1>11, Zenon

(* _valid_token_index: what the packing keeps, row by row.                 *)
LEMMA PackedRange ==
  ASSUME batch \in Batches, Packed(batch), NEW w \in Nat, w = QLen(batch), NEW k
  PROVE  k \in ToSet(Index(batch)) <=>
           \E r \in 1 .. Len(batch) : \E c \in 1 .. batch[r] : k = (r - 1) * w + c
<1>n. PICK n \in Nat : n = Len(batch)  BY BatchFacts
<1>b. \A r \in 1 .. n : batch[r] \in Nat  BY Longest, <1>n
<1>v. PICK wide : wide = Wide(batch, w)  OBVIOUS
<1>g. /\ wide \in Seq(Seq(Nat)) /\ Len(wide) = n
      /\ \A r \in 1 .. n : /\ Len(wide[r]) = batch[r]
                           /\ \A c \in 1 .. batch[r] : wide[r][c] = (r - 1) * w + c
      /\ Index(batch) = FlattenSeq(wide)
      BY <1>v, <1>n, WideFacts DEF Index
<1>s. wide \in Seq(Seq(Nat))  BY <1>g
<1>1. PICK off : IsOffsets(wide, off)  BY <1>s, OffsetsExist
<1>f. PICK flat : flat = FlattenSeq(wide)  OBVIOUS
<1>2. /\ flat \in Seq(Nat)
      /\ Len(flat) = off[Len(wide) + 1]
      /\ \A r \in 1 .. Len(wide) : \A j \in 1 .. Len(wide[r]) : flat[off[r] + j] = wide[r][j]
  <2>1. /\ FlattenSeq(wide) \in Seq(Nat)
        /\ Len(FlattenSeq(wide)) = off[Len(wide) + 1]
        /\ \A r \in 1 .. Len(wide) : \A j \in 1 .. Len(wide[r]) : FlattenSeq(wide)[off[r] + j] = wide[r][j]
        BY <1>1, <1>s, FlattenSeqPlaces
  <2> QED  BY <1>f, <2>1, Zenon
<1>3. ToSet(Index(batch)) = {flat[j] : j \in 1 .. Len(flat)}
  <2>1. Index(batch) = flat  BY <1>f, <1>g
  <2>2. DOMAIN flat = 1 .. Len(flat)  BY <1>2
  <2> QED  BY <2>1, <2>2 DEF ToSet
<1>4. ASSUME k \in ToSet(Index(batch))
      PROVE  \E r \in 1 .. Len(batch) : \E c \in 1 .. batch[r] : k = (r - 1) * w + c
  <2>1. PICK j \in 1 .. Len(flat) : flat[j] = k  BY <1>3, <1>4
  <2>2. j \in 1 .. off[Len(wide) + 1]  BY <1>2
  <2>3. PICK r \in 1 .. Len(wide) : \E c \in 1 .. Len(wide[r]) : j = off[r] + c
        BY <1>1, <1>s, <2>2, OffsetsCover
  <2>4. PICK c \in 1 .. Len(wide[r]) : j = off[r] + c  BY <2>3
  <2>5. r \in 1 .. n /\ c \in 1 .. batch[r]  BY <1>g
  <2>6. k = (r - 1) * w + c
    <3>1. flat[off[r] + c] = wide[r][c]  BY <1>2
    <3>2. wide[r][c] = (r - 1) * w + c  BY <1>g, <2>5
    <3> QED  BY <2>1, <2>4, <3>1, <3>2, Zenon
  <2> QED  BY <1>n, <2>5, <2>6
<1>5. ASSUME NEW r \in 1 .. Len(batch), NEW c \in 1 .. batch[r], k = (r - 1) * w + c
      PROVE  k \in ToSet(Index(batch))
  <2>1. r \in 1 .. n  BY <1>n
  <2>2. r \in 1 .. Len(wide) /\ c \in 1 .. Len(wide[r])  BY <1>g, <2>1
  <2>3. flat[off[r] + c] = k
    <3>1. flat[off[r] + c] = wide[r][c]  BY <1>2, <2>2
    <3>2. wide[r][c] = (r - 1) * w + c  BY <1>g, <2>1
    <3> QED  BY <1>5, <3>1, <3>2, Zenon
  <2>3a. off[r] \in Nat /\ off[n + 1] \in Nat /\ off[r] + Len(wide[r]) <= off[n + 1]
    <3>1. off \in [1 .. n + 1 -> Nat]  BY <1>1, <1>g DEF IsOffsets
    <3>2. r \in 1 .. n + 1 /\ n + 1 \in 1 .. n + 1 /\ r < n + 1  BY <2>1
    <3>3. off[r] \in Nat /\ off[n + 1] \in Nat  BY <3>1, <3>2
    <3>4. Len(wide) = n  BY <1>g
    <3>5. n + 1 \in 1 .. Len(wide) + 1  BY <3>2, <3>4
    <3> QED  BY <1>1, <1>s, <2>2, <3>2, <3>3, <3>5, OffsetsMonotone
  <2>4. off[r] + c \in 1 .. Len(flat)
    <3>1. Len(wide[r]) = batch[r] /\ Len(flat) = off[n + 1] /\ batch[r] \in Nat
          BY <1>2, <1>b, <1>g, <2>1
    <3> QED  BY <2>3a, <3>1
  <2> QED  BY <1>3, <2>3, <2>4
<1> QED  BY <1>4, <1>5

(* Under the batch's own metadata exactly the valid tokens get a result.   *)
LEMMA PackedTokens ==
  ASSUME batch \in Batches, NEW i \in 1 .. Len(batch) * QLen(batch)
  PROVE  i \in ToSet(Index(batch)) <=> Valid(batch, RowMajor(batch)[i])
<1>w. PICK w \in Nat : w = QLen(batch)  BY Longest
<1>n. PICK n \in Nat : n = Len(batch)  BY BatchFacts
<1>b. /\ \A r \in 1 .. n : batch[r] \in Nat /\ batch[r] <= w
      /\ DOMAIN batch = 1 .. n
      BY Longest, BatchFacts, <1>w, <1>n
<1>z. PICK z \in Nat : z = n * w
  <2>1. n * w \in Nat  OBVIOUS
  <2> QED  BY <2>1
<1>f. Fills(z, n, w)  BY <1>z DEF Fills
<1>i. i \in 1 .. z  BY <1>w, <1>n, <1>z
<1>1. PICK q \in Nat, m \in Nat :
           /\ q = RowOf(i, w) /\ m = ColOf(i, w)
           /\ q + 1 \in 1 .. n /\ m < w /\ i = w * q + m + 1
      BY <1>i, <1>f, PlaceRows
<1>3. RowMajor(batch)[i] = <<q + 1, m + 1>>  BY <1>w, <1>1 DEF RowMajor, RowOf, ColOf
<1>4. Valid(batch, RowMajor(batch)[i]) <=> m + 1 <= batch[q + 1]
      BY <1>3 DEF Valid
<1>5. CASE ~Packed(batch)
  <2>1. Index(batch) = [k \in 1 .. Len(batch) * QLen(batch) |-> k]  BY <1>5 DEF Index
  <2>2. i \in ToSet(Index(batch))  BY <2>1 DEF ToSet
  <2>3. \A r \in 1 .. n : batch[r] = w  BY <1>5, <1>b, <1>w DEF Packed
  <2>4. batch[q + 1] = w /\ m + 1 <= w  BY <1>1, <2>3
  <2> QED  BY <1>4, <2>2, <2>4
<1>6. CASE Packed(batch)
  <2>1. i \in ToSet(Index(batch)) <=>
          \E r \in 1 .. Len(batch) : \E c \in 1 .. batch[r] : i = (r - 1) * w + c
        BY <1>6, <1>w, PackedRange
  <2>2. ASSUME NEW r \in 1 .. n, NEW c \in 1 .. batch[r], i = (r - 1) * w + c
        PROVE  m + 1 <= batch[q + 1]
    <3>1. PICK s \in Nat, d \in Nat : s = r - 1 /\ d = c - 1
      <4>1. r - 1 \in Nat /\ c - 1 \in Nat  BY <1>b
      <4> QED  BY <4>1
    <3>2. r = s + 1 /\ c = d + 1 /\ d < w  BY <1>b, <3>1
    <3>3. w * q + m = w * s + d
      <4>1. (r - 1) * w = w * s  BY <3>1
      <4>2. PICK a \in Nat, e \in Nat : a = w * q /\ e = w * s
        <5>1. w * q \in Nat /\ w * s \in Nat  OBVIOUS
        <5> QED  BY <5>1
      <4>3. i = a + m + 1 /\ i = e + d + 1
        <5>1. i = a + m + 1  BY <1>1, <4>2
        <5>2. i = e + c  BY <2>2, <4>1, <4>2
        <5> QED  BY <3>2, <5>1, <5>2
      <4>4. a + m = e + d  BY <4>3
      <4> QED  BY <4>2, <4>4
    <3>4. q = s /\ m = d  BY <1>1, <3>2, <3>3, DivisionUnique
    <3> QED  BY <1>b, <3>2, <3>4
  <2>3. ASSUME m + 1 <= batch[q + 1]
        PROVE  \E r \in 1 .. n : \E c \in 1 .. batch[r] : i = (r - 1) * w + c
    <3>1. PICK r \in 1 .. n : r = q + 1  BY <1>1
    <3>2. m + 1 \in 1 .. batch[r]  BY <1>b, <2>3, <3>1
    <3>3. i = (r - 1) * w + (m + 1)
      <4>1. r - 1 = q  BY <3>1
      <4>2. (r - 1) * w = w * q  BY <4>1
      <4> QED  BY <1>1, <4>2
    <3> QED  BY <3>2, <3>3
  <2> QED  BY <1>4, <1>n, <2>1, <2>2, <2>3
<1> QED  BY <1>5, <1>6

-----------------------------------------------------------------------------
(* What a call of the backend leaves in the cache.  Each slot of a layer   *)
(* holds one write; what a call writes replaces what was in its slots.     *)
CacheOK(C) ==
  /\ \A w \in C : w.layer \in Indices \cup {0} /\ w.writer \in Modules
  /\ \A w, v \in C : w.layer = v.layer /\ w.slot = v.slot => w = v

Merge(W, C) == W \cup {w \in C : \A v \in W : v.layer # w.layer \/ v.slot # w.slot}

Fresh(m, b, keys, layer) ==
  {[layer |-> layer, slot |-> Slots(b)[i], token |-> keys[i], writer |-> m] : i \in 1 .. Len(keys)}

(* The keys a module hands to the backend under metadata b.                *)
Keys(b, past) ==
  IF Packed(b) THEN [i \in DOMAIN Index(b) |-> KeysWith(past)[Index(b)[i]]] ELSE KeysWith(past)

(* What a call writes is merged into the cache.                            *)
LEMMA WrittenMerges ==
  ASSUME NEW m, NEW b, NEW keys, NEW layer
  PROVE  Written(m, b, keys, layer) = Merge(Fresh(m, b, keys, layer), cache)
<1>1. PICK F : F = Fresh(m, b, keys, layer)  OBVIOUS
<1>2. Written(m, b, keys, layer) =
        {w \in cache : \A f \in F : w.layer # f.layer \/ w.slot # f.slot} \cup F
      BY <1>1 DEF Written, Fresh
<1>3. {w \in cache : \A f \in F : w.layer # f.layer \/ w.slot # f.slot} =
        {w \in cache : \A f \in F : f.layer # w.layer \/ f.slot # w.slot}
      OBVIOUS
<1> QED  BY <1>1, <1>2, <1>3 DEF Merge

(* A merge keeps one value per slot.                                       *)
LEMMA MergeOK ==
  ASSUME NEW W, NEW C, CacheOK(W), CacheOK(C)
  PROVE  CacheOK(Merge(W, C))
BY DEF CacheOK, Merge

(* A merge keeps the values of other layers.                               *)
LEMMA MergeKeeps ==
  ASSUME NEW W, NEW C, NEW w \in C, \A v \in W : v.layer # w.layer
  PROVE  w \in Merge(W, C)
BY DEF Merge

(* The values a call writes are one per slot and of its own layer.         *)
LEMMA FreshFacts ==
  ASSUME NEW m \in Modules, NEW b \in Batches, NEW keys, Len(keys) = Len(Slots(b)),
         NEW layer \in Indices \cup {0}
  PROVE  /\ CacheOK(Fresh(m, b, keys, layer))
         /\ \A w \in Fresh(m, b, keys, layer) : w.layer = layer
<1>1. \A i, k \in 1 .. Len(keys) : Slots(b)[i] = Slots(b)[k] => i = k  BY SlotsFacts
<1>2. ASSUME NEW w \in Fresh(m, b, keys, layer)
      PROVE  /\ w.layer = layer /\ w.writer = m
             /\ \E i \in 1 .. Len(keys) : w.slot = Slots(b)[i] /\
                  w = [layer |-> layer, slot |-> Slots(b)[i], token |-> keys[i], writer |-> m]
      BY DEF Fresh
<1>3. ASSUME NEW w \in Fresh(m, b, keys, layer), NEW v \in Fresh(m, b, keys, layer), w.slot = v.slot
      PROVE  w = v
  <2>1. PICK i \in 1 .. Len(keys) : /\ w.slot = Slots(b)[i]
                                    /\ w = [layer |-> layer, slot |-> Slots(b)[i], token |-> keys[i], writer |-> m]
        BY <1>2
  <2>2. PICK k \in 1 .. Len(keys) : /\ v.slot = Slots(b)[k]
                                    /\ v = [layer |-> layer, slot |-> Slots(b)[k], token |-> keys[k], writer |-> m]
        BY <1>2
  <2>3. i = k  BY <1>1, <1>3, <2>1, <2>2
  <2> QED  BY <2>1, <2>2, <2>3
<1> QED  BY <1>2, <1>3 DEF CacheOK

(* A call that returns has written, and writes only keys that match the    *)
(* slots.                                                                  *)
LEMMA OutcomeFacts ==
  ASSUME NEW c, NEW layer, NEW keys, NEW o \in Outcomes(c, layer, keys)
  PROVE  /\ o.writes \in BOOLEAN
         /\ o.writes => Len(keys) = Len(Slots(c.batch))
         /\ o.ends = "returns" => o.writes
<1>1. CASE ~Accepts(c, layer)
  <2>1. o = [ends |-> "type_error", writes |-> FALSE]  BY <1>1 DEF Outcomes
  <2> QED  BY <2>1
<1>2. CASE Accepts(c, layer) /\ Len(keys) # Len(Slots(c.batch))
  <2>1. o = [ends |-> "raises", writes |-> FALSE]  BY <1>2 DEF Outcomes
  <2> QED  BY <2>1
<1>3. CASE Accepts(c, layer) /\ Len(keys) = Len(Slots(c.batch))
  <2>1. \/ o = [ends |-> "returns", writes |-> TRUE]
        \/ o \in [ends : {"type_error", "raises"}, writes : BOOLEAN]
        BY <1>3 DEF Outcomes
  <2>2. CASE o = [ends |-> "returns", writes |-> TRUE]  BY <1>3, <2>2
  <2>3. CASE o \in [ends : {"type_error", "raises"}, writes : BOOLEAN]
    <3>1. o.ends \in {"type_error", "raises"} /\ o.writes \in BOOLEAN  BY <2>3, Zenon
    <3>2. o.ends # "returns"  BY <3>1
    <3> QED  BY <1>3, <3>1, <3>2
  <2> QED  BY <2>1, <2>2, <2>3
<1> QED  BY <1>1, <1>2, <1>3

(* One call of a module's forward that reaches the backend, or fails       *)
(* before it.                                                              *)
PagedEnds(m, c, layer, past, mode, again) ==
  /\ results' = Append(results,
        [module |-> m, mode |-> mode, meta |-> c.batch, proxy |-> c.proxy, packed |-> Packed(c.batch),
         retried |-> again, outputs |-> Scatter(Index(c.batch), Len(batch) * QLen(batch))])
  /\ todo' = IF mode = "paged" THEN Tail(todo) ELSE <<>>
  /\ CacheOK(cache')
  /\ \A w \in cache : w.layer # LayerAt(c, layer) /\ (again => w.layer # LayerAt(c, NoIndex)) => w \in cache'
  /\ mode = "paged" =>
       /\ Len(Keys(c.batch, past)) = Len(Slots(c.batch))
       /\ Fresh(m, c.batch, Keys(c.batch, past), LayerAt(c, IF again THEN NoIndex ELSE layer)) \subseteq cache'

First_(m, c, layer, keys, o) ==
  IF o.writes THEN Written(m, c.batch, keys, LayerAt(c, layer)) ELSE cache
Result_(m, c, o, again, out) ==
  [module |-> m, mode |-> IF o.ends = "returns" THEN "paged" ELSE "raised",
   meta |-> c.batch, proxy |-> c.proxy, packed |-> Packed(c.batch), retried |-> again, outputs |-> out]

(* A forward of module m under context c, with its call and its retry.     *)
PagedCall(m, c, layer, keys, out) ==
  /\ c.state = "live"
  /\ UNCHANGED <<registryVars, batch, history, forwards>>
  /\ \/ results' = results /\ todo' = <<>> /\ cache' = cache
     \/ \E o \in Outcomes(c, layer, keys) :
          /\ cache' = First_(m, c, layer, keys, o)
          /\ results' = Append(results, Result_(m, c, o, FALSE, out))
          /\ todo' = IF o.ends = "returns" THEN Tail(todo) ELSE <<>>
     \/ \E o \in Outcomes(c, layer, keys) : \E p \in Outcomes(c, NoIndex, keys) :
          /\ cache' = IF p.writes THEN Merge(Written(m, c.batch, keys, LayerAt(c, NoIndex)),
                                             First_(m, c, layer, keys, o))
                      ELSE First_(m, c, layer, keys, o)
          /\ results' = Append(results, Result_(m, c, p, TRUE, out))
          /\ todo' = IF p.ends = "returns" THEN Tail(todo) ELSE <<>>

(* The parts of a paged call, named.                                       *)
LEMMA PagedUnfolds ==
  ASSUME NEW layer, NEW retries, NEW past, Paged(layer, retries, past)
  PROVE  LET c == ContextOf(Head(todo))
         IN  PagedCall(Head(todo), c, layer, Keys(c.batch, past),
                       Scatter(Index(c.batch), Len(batch) * QLen(batch)))
<1> DEFINE m    == Head(todo)
           c    == ContextOf(m)
           keys == Keys(c.batch, past)
           out  == Scatter(Index(c.batch), Len(batch) * QLen(batch))
<1>1. c.state = "live" /\ UNCHANGED <<registryVars, batch, history, forwards>>
      BY DEF Paged
<1>2. CASE Raises /\ UNCHANGED cache
  <2>1. results' = results /\ todo' = <<>> /\ cache' = cache
        BY <1>2 DEF Raises
  <2> QED  BY <1>1, <2>1 DEF PagedCall
<1>3. CASE ~(Raises /\ UNCHANGED cache)
  <2>1. PICK o \in Outcomes(c, layer, keys) :
          \/ /\ cache' = First_(m, c, layer, keys, o)
             /\ results' = Append(results, Result_(m, c, o, FALSE, out))
             /\ todo' = IF o.ends = "returns" THEN Tail(todo) ELSE <<>>
          \/ \E p \in Outcomes(c, NoIndex, keys) :
             /\ cache' = IF p.writes
                         THEN LET W == Written(m, c.batch, keys, LayerAt(c, NoIndex))
                              IN  W \cup {w \in First_(m, c, layer, keys, o) : \A v \in W : v.layer # w.layer \/ v.slot # w.slot}
                         ELSE First_(m, c, layer, keys, o)
             /\ results' = Append(results, Result_(m, c, p, TRUE, out))
             /\ todo' = IF p.ends = "returns" THEN Tail(todo) ELSE <<>>
        BY <1>3, Zenon DEF Paged, Keys, First_, Result_
  <2> QED  BY <1>1, <2>1 DEF Merge, PagedCall
<1> QED  BY <1>2, <1>3

(* After a call the cache is sound, has the other layers, and what was     *)
(* written.                                                                *)
LEMMA FirstFacts ==
  ASSUME CacheOK(cache), NEW m \in Modules, NEW c, c.batch \in Batches, NEW layer, NEW keys,
         LayerAt(c, layer) \in Indices \cup {0}, NEW o \in Outcomes(c, layer, keys)
  PROVE  /\ CacheOK(First_(m, c, layer, keys, o))
         /\ \A w \in cache : w.layer # LayerAt(c, layer) => w \in First_(m, c, layer, keys, o)
         /\ o.writes => /\ Fresh(m, c.batch, keys, LayerAt(c, layer)) \subseteq First_(m, c, layer, keys, o)
                        /\ Len(keys) = Len(Slots(c.batch))
<1>1. CASE ~o.writes  BY <1>1 DEF First_
<1>2. CASE o.writes
  <2>1. PICK W : W = Fresh(m, c.batch, keys, LayerAt(c, layer))  OBVIOUS
  <2>2. First_(m, c, layer, keys, o) = Merge(W, cache)
        BY <1>2, <2>1, WrittenMerges DEF First_
  <2>3. Len(keys) = Len(Slots(c.batch))  BY <1>2, OutcomeFacts
  <2>4. CacheOK(W) /\ \A w \in W : w.layer = LayerAt(c, layer)
        BY <2>1, <2>3, FreshFacts
  <2>5. CacheOK(Merge(W, cache))  BY <2>4, MergeOK
  <2>6. \A w \in cache : w.layer # LayerAt(c, layer) => w \in Merge(W, cache)
        BY <2>4, MergeKeeps
  <2>7. W \subseteq Merge(W, cache)  BY DEF Merge
  <2> QED  BY <2>1, <2>2, <2>3, <2>5, <2>6, <2>7
<1> QED  BY <1>1, <1>2

(* What a call of a module's forward does, whether or not it is retried.   *)
LEMMA PagedShape ==
  ASSUME RegistryInv, CacheOK(cache), NEW m \in Modules, m = Head(todo), NEW layer, NEW retries, NEW past,
         layer \in {index[m], OrZero(index[m])}, Paged(layer, retries, past)
  PROVE  /\ ContextOf(m).state = "live"
         /\ UNCHANGED <<registryVars, batch, history, forwards>>
         /\ \/ results' = results /\ todo' = <<>> /\ cache' = cache
            \/ \E mode \in {"paged", "raised"}, again \in BOOLEAN :
                 PagedEnds(m, ContextOf(m), layer, past, mode, again)
<1>c. PICK c : c = ContextOf(m)  OBVIOUS
<1>k. PICK keys : keys = Keys(c.batch, past)  OBVIOUS
<1>o. PICK out : out = Scatter(Index(c.batch), Len(batch) * QLen(batch))  OBVIOUS
<1>1. PagedCall(m, c, layer, keys, out)  BY <1>c, <1>k, <1>o, PagedUnfolds, Zenon
<1>2. c.batch \in Batches /\ c.proxy \in {0, m}  BY <1>1, <1>c, LiveContext DEF PagedCall
<1>3. index[m] \in Indices  BY DEF RegistryInv, RegistryTypeOK
<1>4. LayerAt(c, layer) \in Indices \cup {0} /\ LayerAt(c, NoIndex) \in Indices \cup {0}
      BY <1>2, <1>3 DEF LayerAt, OrZero
<1>5. ASSUME NEW o \in Outcomes(c, layer, keys),
             cache' = First_(m, c, layer, keys, o),
             results' = Append(results, Result_(m, c, o, FALSE, out)),
             todo' = IF o.ends = "returns" THEN Tail(todo) ELSE <<>>
      PROVE  \E mode \in {"paged", "raised"} : PagedEnds(m, c, layer, past, mode, FALSE)
  <2>1. PICK mode \in {"paged", "raised"} : mode = IF o.ends = "returns" THEN "paged" ELSE "raised"
        OBVIOUS
  <2>2. mode = "paged" <=> o.ends = "returns"  BY <2>1
  <2>3. results' = Append(results, [module |-> m, mode |-> mode, meta |-> c.batch, proxy |-> c.proxy,
                            packed |-> Packed(c.batch), retried |-> FALSE, outputs |-> out])
        BY <1>5, <2>1 DEF Result_
  <2>4. /\ CacheOK(cache')
        /\ \A w \in cache : w.layer # LayerAt(c, layer) => w \in cache'
        /\ o.writes => /\ Fresh(m, c.batch, keys, LayerAt(c, layer)) \subseteq cache'
                       /\ Len(keys) = Len(Slots(c.batch))
        BY <1>2, <1>4, <1>5, FirstFacts
  <2>5. mode = "paged" => o.writes  BY <2>2, OutcomeFacts
  <2>6. todo' = IF mode = "paged" THEN Tail(todo) ELSE <<>>  BY <1>5, <2>2
  <2>7. PagedEnds(m, c, layer, past, mode, FALSE)
        BY <1>k, <1>o, <2>3, <2>4, <2>5, <2>6 DEF PagedEnds
  <2> QED  BY <2>7
<1>6. ASSUME NEW o \in Outcomes(c, layer, keys), NEW p \in Outcomes(c, NoIndex, keys),
             cache' = IF p.writes THEN Merge(Written(m, c.batch, keys, LayerAt(c, NoIndex)),
                                             First_(m, c, layer, keys, o))
                      ELSE First_(m, c, layer, keys, o),
             results' = Append(results, Result_(m, c, p, TRUE, out)),
             todo' = IF p.ends = "returns" THEN Tail(todo) ELSE <<>>
      PROVE  \E mode \in {"paged", "raised"} : PagedEnds(m, c, layer, past, mode, TRUE)
  <2>1. PICK mode \in {"paged", "raised"} : mode = IF p.ends = "returns" THEN "paged" ELSE "raised"
        OBVIOUS
  <2>2. mode = "paged" <=> p.ends = "returns"  BY <2>1
  <2>3. results' = Append(results, [module |-> m, mode |-> mode, meta |-> c.batch, proxy |-> c.proxy,
                            packed |-> Packed(c.batch), retried |-> TRUE, outputs |-> out])
        BY <1>6, <2>1 DEF Result_
  <2>f. PICK F : F = First_(m, c, layer, keys, o)  OBVIOUS
  <2>w. PICK W : W = Written(m, c.batch, keys, LayerAt(c, NoIndex))  OBVIOUS
  <2>4. /\ CacheOK(F)
        /\ \A w \in cache : w.layer # LayerAt(c, layer) => w \in F
        BY <1>2, <1>4, <2>f, FirstFacts
  <2>5. /\ CacheOK(cache')
        /\ \A w \in cache : w.layer # LayerAt(c, layer) /\ w.layer # LayerAt(c, NoIndex) => w \in cache'
        /\ p.writes => /\ Fresh(m, c.batch, keys, LayerAt(c, NoIndex)) \subseteq cache'
                       /\ Len(keys) = Len(Slots(c.batch))
    <3>1. CASE ~p.writes
      <4>1. cache' = F  BY <1>6, <2>f, <3>1
      <4> QED  BY <2>4, <3>1, <4>1
    <3>2. CASE p.writes
      <4>1. cache' = Merge(W, F)  BY <1>6, <2>f, <2>w, <3>2
      <4>2. W = First_(m, c, NoIndex, keys, p)  BY <2>w, <3>2 DEF First_
      <4>3. /\ CacheOK(W)
            /\ \A w \in cache : w.layer # LayerAt(c, NoIndex) => w \in W
            /\ Fresh(m, c.batch, keys, LayerAt(c, NoIndex)) \subseteq W
            /\ Len(keys) = Len(Slots(c.batch))
            BY <1>2, <1>4, <3>2, <4>2, FirstFacts
      <4>4. CacheOK(Merge(W, F))  BY <2>4, <4>3, MergeOK
      <4>5. W \subseteq Merge(W, F)  BY DEF Merge
      <4> QED  BY <4>1, <4>3, <4>4, <4>5
    <3> QED  BY <3>1, <3>2
  <2>6. mode = "paged" => p.writes  BY <2>2, OutcomeFacts
  <2>7. todo' = IF mode = "paged" THEN Tail(todo) ELSE <<>>  BY <1>6, <2>2
  <2>8. PagedEnds(m, c, layer, past, mode, TRUE)
        BY <1>k, <1>o, <2>3, <2>5, <2>6, <2>7 DEF PagedEnds
  <2> QED  BY <2>8
<1> QED  BY <1>1, <1>c, <1>5, <1>6 DEF PagedCall

-----------------------------------------------------------------------------
(* What the forwards of a batch leave.  Modules run in the model's order;  *)
(* a result was packed under the metadata its module found, through the    *)
(* module's own proxy or a backend its class shares.                       *)
Kept(b, meta) ==
  Scatter(IF Len(meta) = Len(b) /\ \E r \in DOMAIN meta : meta[r] # QLen(b)
          THEN Pack(meta, QLen(b)) ELSE [i \in 1 .. Len(b) * QLen(b) |-> i],
          Len(b) * QLen(b))

ResultSet ==
  [module : Modules, mode : {"eager"}] \cup
  [module : Modules, mode : {"paged", "raised"}, meta : Batches, proxy : {0} \cup Modules,
   packed : BOOLEAN, retried : BOOLEAN, outputs : Seq(Nat)]

RunInv ==
  /\ batch \in Batches \cup {NoBatch} /\ history \in HistoryLengths \cup {0}
  /\ todo \in Seq(Modules) /\ forwards \in 0 .. MaxForwards
  /\ results \in Seq(ResultSet)
  /\ \A i \in DOMAIN results : results[i].module = i
  /\ \A i \in DOMAIN results : results[i].mode # "eager" =>
       /\ results[i].outputs = Kept(batch, results[i].meta)
       /\ results[i].proxy \in {0, i}
       /\ results[i].proxy # 0 => Registered_(i)
  /\ results # <<>> \/ todo # <<>> => batch \in Batches
  /\ todo # <<>> => \A k \in 1 .. Len(todo) : todo[k] = Len(results) + k

PagedInv == RegistryInv /\ RunInv /\ CacheOK(cache) /\ TokensInOwnSlots

(* The cells that a scatter fills are those of valid tokens.               *)
LEMMA KeptFacts ==
  ASSUME batch \in Batches, NEW meta \in Batches
  PROVE  /\ Kept(batch, meta) = Scatter(Index(meta), Len(batch) * QLen(batch))
         /\ Kept(batch, meta) \in Seq(Nat)
         /\ \A i \in DOMAIN Kept(batch, meta) : Kept(batch, meta)[i] \in {0, i}
         /\ \A i \in DOMAIN Kept(batch, batch) :
              Kept(batch, batch)[i] = i <=> Valid(batch, RowMajor(batch)[i])
<1>z. PICK z \in Nat : z = Len(batch) * QLen(batch)
  <2>1. Len(batch) \in Nat /\ QLen(batch) \in Nat  BY BatchFacts, Longest
  <2>2. Len(batch) * QLen(batch) \in Nat  BY <2>1
  <2> QED  BY <2>2
<1>1. ASSUME NEW b \in Batches
      PROVE  Kept(batch, b) = [i \in 1 .. z |-> IF i \in ToSet(Index(b)) THEN i ELSE 0]
  <2>1. Kept(batch, b) = Scatter(Index(b), z)  BY <1>z DEF Kept, Index, Packed
  <2> QED  BY <2>1 DEF Scatter
<1>2. Kept(batch, meta) = Scatter(Index(meta), Len(batch) * QLen(batch))
      BY DEF Kept, Index, Packed
<1>3. Kept(batch, meta) \in Seq(Nat)
  <2>1. Kept(batch, meta) \in [1 .. z -> Nat]  BY <1>1
  <2> QED  BY <2>1
<1>4. \A i \in DOMAIN Kept(batch, meta) : Kept(batch, meta)[i] \in {0, i}  BY <1>1
<1>5. ASSUME NEW i \in DOMAIN Kept(batch, batch)
      PROVE  Kept(batch, batch)[i] = i <=> Valid(batch, RowMajor(batch)[i])
  <2>1. i \in 1 .. z /\ Kept(batch, batch)[i] = IF i \in ToSet(Index(batch)) THEN i ELSE 0
        BY <1>1
  <2>2. i # 0  BY <2>1
  <2>3. i \in 1 .. Len(batch) * QLen(batch)  BY <1>z, <2>1
  <2> QED  BY <2>1, <2>2, <2>3, PackedTokens
<1> QED  BY <1>2, <1>3, <1>4, <1>5

(* A result that does not come from the stock attention has every field.   *)
LEMMA ResultFields ==
  ASSUME NEW r \in ResultSet, r.mode # "eager"
  PROVE  /\ r.mode \in {"paged", "raised"} /\ r.meta \in Batches
         /\ r.proxy \in {0} \cup Modules /\ r.retried \in BOOLEAN
<1>1. r \notin [module : Modules, mode : {"eager"}]  OBVIOUS
<1>2. r \in [module : Modules, mode : {"paged", "raised"}, meta : Batches, proxy : {0} \cup Modules,
             packed : BOOLEAN, retried : BOOLEAN, outputs : Seq(Nat)]
      BY <1>1 DEF ResultSet
<1> QED  BY <1>2, Zenon

(* What the run invariant says of every result is that it is in place.     *)
LEMMA InPlace == RunInv => ResultsInPlace
<1> SUFFICES ASSUME RunInv, NEW r \in PagedResults, NEW i \in DOMAIN r.outputs
             PROVE  /\ r.outputs[i] \in {0, i}
                    /\ r.meta = batch => (r.outputs[i] = i <=> Valid(batch, RowMajor(batch)[i]))
    BY DEF ResultsInPlace
<1>1. PICK k \in DOMAIN results : r = results[k] /\ results[k].mode = "paged"  BY DEF PagedResults
<1>2. results \in Seq(ResultSet) /\ batch \in Batches /\ r.outputs = Kept(batch, r.meta)
      BY <1>1 DEF RunInv
<1>3. r \in ResultSet /\ r.mode # "eager"  BY <1>1, <1>2
<1>4. r.meta \in Batches  BY <1>3, ResultFields
<1> QED  BY <1>2, <1>4, KeptFacts

(* Nothing has run at first.                                               *)
LEMMA PagedInitInv == Init => PagedInv
<1> SUFFICES ASSUME Init PROVE PagedInv  OBVIOUS
<1>1. RegistryInv  BY RegistryInitInv DEF Init
<1>2. RunInv  BY AttentionAssumption DEF Init, RunInv
<1>3. CacheOK(cache)  BY DEF Init, CacheOK
<1>4. TokensInOwnSlots  BY DEF Init, TokensInOwnSlots, PagedResults
<1> QED  BY <1>1, <1>2, <1>3, <1>4 DEF PagedInv

(* Registries only grow, so the registry's steps leave the run as it was.  *)
LEMMA RegistriesGrow ==
  ASSUME RegistryInv, [RegistryNext]_registryVars, NEW m, Registered_(m)
  PROVE  Registered_(m)'
<1>1. registries \in Seq(SUBSET Modules)  BY DEF RegistryInv, RegistryTypeOK
<1>2. CASE registries' = registries  BY <1>2 DEF Registered_
<1>3. CASE registries' = Append(registries, found)
  <2>1. PICK r \in DOMAIN registries : m \in registries[r]  BY DEF Registered_
  <2>2. r \in DOMAIN registries' /\ registries'[r] = registries[r]  BY <1>1, <1>3
  <2> QED  BY <2>1, <2>2 DEF Registered_
<1>4. registries' = registries \/ registries' = Append(registries, found)
  BY DEF RegistryNext, registryVars, StartRegister, SkipModule, BindModule, RegisterRaises, Registered,
     InstallMetadata, ClearMetadata, SetPagedContext, ClearPagedContext, progress
<1> QED  BY <1>2, <1>3, <1>4

(* What kind a module is, and its layer index, are fixed.                  *)
LEMMA ModelFixed ==
  ASSUME [RegistryNext]_registryVars PROVE UNCHANGED <<kind, index>>
BY DEF RegistryNext, registryVars, StartRegister, SkipModule, BindModule, RegisterRaises, Registered,
   InstallMetadata, ClearMetadata, SetPagedContext, ClearPagedContext, model

(* A step of the registry leaves the running forward sound.                *)
LEMMA RegistryStep ==
  ASSUME PagedInv, [RegistryNext]_registryVars, UNCHANGED <<run, cache>>
  PROVE  PagedInv'
<1> USE DEF run
<1>1. RegistryInv'  BY RegistryNextInv DEF PagedInv
<1>2. RunInv'
  <2>1. \A m : Registered_(m) => Registered_(m)'  BY RegistriesGrow DEF PagedInv
  <2> QED  BY <2>1 DEF PagedInv, RunInv
<1>3. CacheOK(cache)'  BY DEF PagedInv, CacheOK
<1>4. TokensInOwnSlots'
      BY ModelFixed DEF PagedInv, TokensInOwnSlots, TakesPast, PagedResults
<1> QED  BY <1>1, <1>2, <1>3, <1>4 DEF PagedInv

(* A batch starts with no results and all modules to run.                  *)
LEMMA StartBatchStep ==
  ASSUME PagedInv, NEW b \in Batches, NEW h \in HistoryLengths, StartBatch(b, h)
  PROVE  PagedInv'
<1> USE DEF StartBatch
<1>1. RegistryInv'
      BY DEF PagedInv, RegistryInv, RegistryTypeOK, OneRegistryPerModule, ContextInv, ScanInv, LayersInv,
             Registered_, registryVars, model, contexts, progress
<1>2. RunInv'
  <2>1. PICK n \in Nat : n = Cardinality(Modules) /\ Modules = 1 .. n  BY ModuleNumbers
  <2>2. todo' = [m \in 1 .. n |-> m] /\ results' = <<>>  BY <2>1
  <2>3. todo' \in Seq(Modules) /\ Len(todo') = n /\ \A k \in 1 .. n : todo'[k] = Len(results') + k
    <3>1. todo' \in [1 .. n -> Modules]  BY <2>1, <2>2
    <3>2. Len(todo') = n  BY <2>2
    <3>3. Len(results') = 0 /\ \A k \in 1 .. n : todo'[k] = k  BY <2>2
    <3>4. \A k \in 1 .. n : k = 0 + k  OBVIOUS
    <3>5. todo' \in Seq(Modules)  BY <2>1, <3>1
    <3> QED  BY <3>2, <3>3, <3>4, <3>5
  <2>4. forwards' \in 0 .. MaxForwards  BY AttentionAssumption DEF PagedInv, RunInv
  <2> QED  BY <2>2, <2>3, <2>4 DEF PagedInv, RunInv
<1>3. CacheOK(cache)'  BY DEF PagedInv, CacheOK
<1>4. TokensInOwnSlots'  BY DEF TokensInOwnSlots, PagedResults
<1> QED  BY <1>1, <1>2, <1>3, <1>4 DEF PagedInv

(* The steps of forwards leave the registry alone.                         *)
LEMMA RegistryStays ==
  ASSUME RegistryInv, UNCHANGED registryVars
  PROVE  RegistryInv' /\ \A m : Registered_(m)' <=> Registered_(m)
BY DEF RegistryInv, RegistryTypeOK, OneRegistryPerModule, ContextInv, ScanInv, LayersInv,
       Registered_, registryVars, model, contexts, progress

(* The module whose turn it is follows the results so far.                 *)
LEMMA Turn ==
  ASSUME RunInv, todo # <<>>
  PROVE  /\ batch \in Batches
         /\ Len(results) \in Nat /\ DOMAIN results = 1 .. Len(results)
         /\ Head(todo) = Len(results) + 1 /\ Head(todo) \in Modules
         /\ Tail(todo) \in Seq(Modules)
         /\ \A k \in 1 .. Len(Tail(todo)) : Tail(todo)[k] = Len(results) + 1 + k
<1>1. todo \in Seq(Modules) /\ results \in Seq(ResultSet) /\ batch \in Batches
      BY DEF RunInv
<1>2. PICK n \in Nat : n = Len(todo)  BY <1>1
<1>3. n # 0 /\ Head(todo) = todo[1] /\ 1 \in 1 .. n /\ \A k \in 1 .. n : todo[k] \in Modules
      BY <1>1, <1>2
<1>4. Tail(todo) \in Seq(Modules) /\ Len(Tail(todo)) = n - 1
      /\ \A k \in 1 .. n - 1 : Tail(todo)[k] = todo[k + 1]
      BY <1>1, <1>2, <1>3
<1>5. \A k \in 1 .. n : todo[k] = Len(results) + k  BY <1>2 DEF RunInv
<1>6. PICK l \in Nat : l = Len(results)  BY <1>1
<1>7. ASSUME NEW k \in 1 .. n - 1 PROVE todo[k + 1] = l + 1 + k
  <2>1. k + 1 \in 1 .. n  OBVIOUS
  <2>2. todo[k + 1] = l + (k + 1)  BY <1>5, <1>6, <2>1
  <2> QED  BY <2>2
<1> QED  BY <1>1, <1>3, <1>4, <1>5, <1>6, <1>7

(* A result is appended.                                                   *)
LEMMA Appended ==
  ASSUME RunInv, todo # <<>>, UNCHANGED <<registryVars, batch, history, forwards>>,
         NEW r \in ResultSet, results' = Append(results, r), r.module = Head(todo),
         r.mode # "eager" => /\ r.outputs = Kept(batch, r.meta)
                             /\ r.proxy \in {0, Head(todo)}
                             /\ r.proxy # 0 => Registered_(Head(todo)),
         todo' \in {Tail(todo), <<>>},
         \A m : Registered_(m)' <=> Registered_(m)
  PROVE  RunInv'
<1>1. PICK n \in Nat : n = Len(results)  BY Turn
<1>2. /\ results \in Seq(ResultSet) /\ results' \in Seq(ResultSet)
      /\ DOMAIN results' = 1 .. n + 1 /\ Len(results') = n + 1
      /\ \A i \in 1 .. n : results'[i] = results[i]
      /\ results'[n + 1] = r /\ DOMAIN results = 1 .. n
      BY <1>1 DEF RunInv
<1>3. \A i \in 1 .. n + 1 : i \in 1 .. n \/ i = n + 1  OBVIOUS
<1>4. Head(todo) = n + 1  BY <1>1, Turn
<1>5. todo' \in Seq(Modules)
  <2>1. Tail(todo) \in Seq(Modules)  BY Turn
  <2>2. <<>> \in Seq(Modules)  OBVIOUS
  <2>3. todo' = Tail(todo) \/ todo' = <<>>  OBVIOUS
  <2> QED  BY <2>1, <2>2, <2>3, Zenon
<1>6. todo' # <<>> => \A k \in 1 .. Len(todo') : todo'[k] = Len(results') + k
  <2> SUFFICES ASSUME todo' = Tail(todo), NEW k \in 1 .. Len(todo') PROVE todo'[k] = Len(results') + k
      OBVIOUS
  <2>1. Tail(todo)[k] = Len(results) + 1 + k  BY Turn
  <2> QED  BY <1>1, <1>2, <2>1
<1>7. \A i \in DOMAIN results' : results'[i].module = i
  <2>1. \A i \in 1 .. n : results[i].module = i  BY <1>2 DEF RunInv
  <2> QED  BY <1>2, <1>3, <1>4, <2>1
<1>8. \A i \in DOMAIN results' : results'[i].mode # "eager" =>
       /\ results'[i].outputs = Kept(batch, results'[i].meta)
       /\ results'[i].proxy \in {0, i}
       /\ results'[i].proxy # 0 => Registered_(i)
  <2>1. \A i \in 1 .. n : results[i].mode # "eager" =>
          /\ results[i].outputs = Kept(batch, results[i].meta)
          /\ results[i].proxy \in {0, i}
          /\ results[i].proxy # 0 => Registered_(i)
        BY <1>2 DEF RunInv
  <2> QED  BY <1>2, <1>3, <1>4, <2>1
<1>9. batch \in Batches  BY Turn
<1> QED  BY <1>2, <1>5, <1>6, <1>7, <1>8, <1>9 DEF RunInv

(* An eager call changes no cache.                                         *)
LEMMA EagerStep ==
  ASSUME PagedInv, EagerForward
  PROVE  PagedInv'
<1>0. todo # <<>> /\ RunInv /\ RegistryInv  BY DEF EagerForward, PagedInv
<1>1. UNCHANGED <<registryVars, batch, history, forwards, cache>>  BY DEF EagerForward
<1>2. RegistryInv' /\ \A m : Registered_(m)' <=> Registered_(m)  BY <1>0, <1>1, RegistryStays
<1>r. PICK r : r = [module |-> Head(todo), mode |-> "eager"]  OBVIOUS
<1>3. /\ r \in ResultSet /\ r.module = Head(todo) /\ r.mode = "eager"
      /\ results' = Append(results, r) /\ todo' = Tail(todo)
  <2>1. Head(todo) \in Modules  BY <1>0, Turn
  <2> QED  BY <1>r, <2>1 DEF EagerForward, ResultSet
<1>4. RunInv'  BY <1>0, <1>1, <1>2, <1>3, Appended
<1>5. CacheOK(cache)'  BY <1>1 DEF PagedInv, CacheOK
<1>6. TokensInOwnSlots'
  <2>1. PICK n \in Nat : n = Len(results)  BY <1>0, Turn
  <2>2. /\ DOMAIN results' = 1 .. n + 1 /\ DOMAIN results = 1 .. n
        /\ \A i \in 1 .. n : results'[i] = results[i]
        /\ results'[n + 1] = r
        BY <1>0, <1>3, <2>1 DEF RunInv
  <2>3. \A i \in 1 .. n + 1 : i \in 1 .. n \/ i = n + 1  OBVIOUS
  <2>4. \A i \in 1 .. n : i \in 1 .. n + 1  OBVIOUS
  <2>5. PagedResults' = PagedResults  BY <1>3, <2>2, <2>3, <2>4 DEF PagedResults
  <2>6. index' = index /\ kind' = kind /\ batch' = batch /\ cache' = cache /\ history' = history
        BY <1>1 DEF registryVars, model
  <2>7. TokensInOwnSlots  BY DEF PagedInv
  <2> QED  BY <2>2, <2>4, <2>5, <2>6, <2>7 DEF TokensInOwnSlots, TakesPast
<1> QED  BY <1>2, <1>4, <1>5, <1>6 DEF PagedInv

(* The forward ends without a result: the call of the model is given up.   *)
LEMMA RaisesStep ==
  ASSUME PagedInv, UNCHANGED <<registryVars, batch, history, forwards, cache, results>>, todo' = <<>>
  PROVE  PagedInv'
<1>1. RegistryInv' /\ \A m : Registered_(m)' <=> Registered_(m)  BY RegistryStays DEF PagedInv
<1>2. RunInv'  BY <1>1 DEF PagedInv, RunInv
<1>3. CacheOK(cache)'  BY DEF PagedInv, CacheOK
<1>4. TokensInOwnSlots'
      BY DEF PagedInv, TokensInOwnSlots, TakesPast, PagedResults, registryVars, model
<1> QED  BY <1>1, <1>2, <1>3, <1>4 DEF PagedInv

(* Without earlier tokens a call that writes stores the token of every     *)
(* valid place in the slot of that place.                                  *)
LEMMA OwnTokensWritten ==
  ASSUME batch \in Batches, NEW m, NEW layer,
         Len(Keys(batch, 0)) = Len(Slots(batch)),
         NEW p \in Places(batch), Valid(batch, p)
  PROVE  [layer |-> layer, slot |-> p, token |-> p, writer |-> m] \in Fresh(m, batch, Keys(batch, 0), layer)
<1>1. PICK i \in 1 .. Len(Slots(batch)) : Slots(batch)[i] = p  BY SlotsFacts
<1>2. Keys(batch, 0)[i] = p
  <2>1. CASE Packed(batch)
    <3>1. Index(batch) \in Seq(Nat) /\ Len(Index(batch)) = Len(Slots(batch))  BY <2>1, PackedKeys
    <3>2. i \in DOMAIN Index(batch)  BY <3>1
    <3>3. Keys(batch, 0)[i] = KeysWith(0)[Index(batch)[i]]  BY <2>1, <3>2 DEF Keys
    <3>4. KeysWith(0)[Index(batch)[i]] = Slots(batch)[i]  BY <2>1, PackedKeys
    <3> QED  BY <1>1, <3>3, <3>4
  <2>2. CASE ~Packed(batch)
    <3>1. \A r \in DOMAIN batch : batch[r] = QLen(batch)  BY <2>2 DEF Packed
    <3>2. Keys(batch, 0) = Slots(batch)  BY <2>2, <3>1, KeysFacts DEF Keys
    <3> QED  BY <1>1, <3>2
  <2> QED  BY <2>1, <2>2
<1>3. i \in 1 .. Len(Keys(batch, 0))  BY <1>1
<1>4. PICK k : k = Keys(batch, 0)  OBVIOUS
<1>5. i \in 1 .. Len(k) /\ Slots(batch)[i] = p /\ k[i] = p  BY <1>1, <1>2, <1>3, <1>4
<1>6. [layer |-> layer, slot |-> Slots(batch)[i], token |-> k[i], writer |-> m] \in Fresh(m, batch, k, layer)
      BY <1>5 DEF Fresh
<1> QED  BY <1>4, <1>5, <1>6

(* A batch of one width has a slot for each key only without earlier ones. *)
LEMMA UniformPast ==
  ASSUME batch \in Batches, ~Packed(batch), NEW past \in Nat, Len(Keys(batch, past)) = Len(Slots(batch))
  PROVE  past = 0
<1>1. \A r \in DOMAIN batch : batch[r] = QLen(batch)  BY DEF Packed
<1>2. Slots(batch) = KeysWith(0) /\ Keys(batch, past) = KeysWith(past)  BY <1>1, KeysFacts DEF Keys
<1>3. PICK n \in Nat, w \in Nat : n = Len(batch) /\ w = QLen(batch) /\ n # 0
  <2>1. batch # <<>>  BY AttentionAssumption DEF NoBatch
  <2> QED  BY <2>1, BatchFacts, Longest
<1>4. n * (past + w) = n * (0 + w)
  <2>1. Len(KeysWith(past)) = n * (past + w)  BY <1>3, KeysLength
  <2>2. 0 \in Nat  OBVIOUS
  <2>3. Len(KeysWith(0)) = n * (0 + w)  BY <1>3, <2>2, KeysLength
  <2> QED  BY <1>2, <2>1, <2>3
<1>5. n * (past + w) = n * past + n * w /\ n * (0 + w) = n * w  OBVIOUS
<1>6. n * past \in Nat /\ n * w \in Nat  OBVIOUS
<1>7. n * past = 0
  <2>1. PICK a \in Nat, b \in Nat : a = n * past /\ b = n * w  BY <1>6
  <2>2. a + b = b  BY <1>4, <1>5, <2>1
  <2> QED  BY <2>1, <2>2
<1> QED  BY <1>3, <1>7

(* The conditions under which TokensInOwnSlots holds the batch to account. *)
Proxied == \A i \in DOMAIN results : results[i].mode # "eager" => results[i].proxy # 0
Indexed == /\ BackendTakesLayer
           /\ \A m, n \in Modules : index[m] # NoIndex /\ (m # n => index[m] # index[n])
           /\ \A i \in DOMAIN results : results[i].mode # "eager" => ~results[i].retried
HoldsTokens(r) ==
  \A p \in Places(batch) : Valid(batch, p) =>
    [layer |-> index[r.module], slot |-> p, token |-> p, writer |-> r.module] \in cache

(* The property about tokens, result by result.                            *)
LEMMA TokensOf ==
  TokensInOwnSlots <=>
    (\A i \in DOMAIN results :
       /\ results[i].mode = "paged" /\ results[i].meta = batch /\ ~(results[i].packed /\ TakesPast(results[i]))
       /\ Proxied \/ Indexed
       => HoldsTokens(results[i]))
<1>1. ASSUME NEW i \in DOMAIN results, results[i].mode = "paged", Proxied PROVE results[i].proxy # 0
  <2>1. results[i].mode # "eager"  BY <1>1
  <2> QED  BY <1>1, <2>1 DEF Proxied
<1> QED  BY <1>1 DEF TokensInOwnSlots, PagedResults, Proxied, Indexed, HoldsTokens

(* One call of a paged forward leaves the tokens of the modules before it, *)
(* and stores its own.                                                     *)
LEMMA PagedStep ==
  ASSUME PagedInv, todo # <<>>, NEW layer, layer \in {index[Head(todo)], OrZero(index[Head(todo)])},
         NEW retries, NEW past \in {0, history}, Paged(layer, retries, past),
         past # 0 => kind[Head(todo)] \in {"qwen3", "olmoe"}
  PROVE  PagedInv'
<1>0. RegistryInv /\ RunInv /\ CacheOK(cache) /\ TokensInOwnSlots  BY DEF PagedInv
<1>m. PICK m \in Modules : m = Head(todo)  BY <1>0, Turn
<1>n. PICK n \in Nat : n = Len(results) /\ m = n + 1 /\ DOMAIN results = 1 .. n  BY <1>0, <1>m, Turn
<1>c. PICK c : c = ContextOf(m)  OBVIOUS
<1>l. layer \in {index[m], OrZero(index[m])}  BY <1>m
<1>1. /\ c.state = "live"
      /\ UNCHANGED <<registryVars, batch, history, forwards>>
      /\ \/ results' = results /\ todo' = <<>> /\ cache' = cache
         \/ \E mode \in {"paged", "raised"}, again \in BOOLEAN : PagedEnds(m, c, layer, past, mode, again)
      BY <1>0, <1>m, <1>l, <1>c, PagedShape
<1>2. CASE results' = results /\ todo' = <<>> /\ cache' = cache
      BY <1>1, <1>2, RaisesStep
<1>3. ASSUME NEW mode \in {"paged", "raised"}, NEW again \in BOOLEAN,
             PagedEnds(m, c, layer, past, mode, again)
      PROVE  PagedInv'
  <2>1. RegistryInv' /\ \A k : Registered_(k)' <=> Registered_(k)  BY <1>0, <1>1, RegistryStays
  <2>2. /\ c.batch \in Batches /\ c.proxy \in {0, m}
        /\ c.proxy = m => Registered_(m)
        BY <1>0, <1>1, <1>c, LiveContext
  <2>b. batch \in Batches  BY <1>0, Turn
  <2>3. PICK r : r = [module |-> m, mode |-> mode, meta |-> c.batch, proxy |-> c.proxy,
                      packed |-> Packed(c.batch), retried |-> again,
                      outputs |-> Kept(batch, c.batch)]
        OBVIOUS
  <2>4. /\ r.module = m /\ r.mode = mode /\ r.meta = c.batch /\ r.proxy = c.proxy
        /\ r.retried = again /\ r.outputs = Kept(batch, c.batch)
        BY <2>3
  <2>5. r \in ResultSet
    <3>1. Packed(c.batch) \in BOOLEAN  BY DEF Packed
    <3>2. Kept(batch, c.batch) \in Seq(Nat)  BY <2>2, <2>b, KeptFacts
    <3>3. c.proxy \in {0} \cup Modules  BY <2>2
    <3> QED  BY <2>2, <2>3, <3>1, <3>2, <3>3 DEF ResultSet
  <2>6. results' = Append(results, r)
    <3>1. Kept(batch, c.batch) = Scatter(Index(c.batch), Len(batch) * QLen(batch))
          BY <2>2, <2>b, KeptFacts
    <3> QED  BY <1>3, <2>3, <3>1 DEF PagedEnds
  <2>7. todo' \in {Tail(todo), <<>>}  BY <1>3 DEF PagedEnds
  <2>8. RunInv'
    <3>1. r.mode # "eager" => /\ r.outputs = Kept(batch, r.meta)
                              /\ r.proxy \in {0, Head(todo)}
                              /\ r.proxy # 0 => Registered_(Head(todo))
          BY <1>m, <2>2, <2>4
    <3>2. r.module = Head(todo)  BY <1>m, <2>4
    <3> QED  BY <1>0, <1>1, <2>1, <2>5, <2>6, <2>7, <3>1, <3>2, Appended
  <2>9. CacheOK(cache)'
    <3>1. CacheOK(cache')  BY <1>3 DEF PagedEnds
    <3> QED  BY <3>1 DEF CacheOK
  <2>10. /\ DOMAIN results' = 1 .. n + 1 /\ \A i \in 1 .. n : results'[i] = results[i]
         /\ results'[n + 1] = r /\ \A i \in 1 .. n + 1 : i \in 1 .. n \/ i = n + 1
         /\ \A i \in 1 .. n : i \in 1 .. n + 1
    <3>1. results \in Seq(ResultSet)  BY <1>0 DEF RunInv
    <3> QED  BY <1>n, <2>6, <3>1
  <2>11. index' = index /\ kind' = kind /\ batch' = batch /\ history' = history  BY <1>1 DEF registryVars, model
  <2>12. ASSUME Proxied' \/ Indexed'
         PROVE  /\ Proxied \/ Indexed
                /\ LayerAt(c, IF again THEN NoIndex ELSE layer) = index[m]
                /\ \A w \in cache : w.layer # index[m] => w \in cache'
                /\ \A i \in 1 .. n : results[i].mode # "eager" => index[i] # index[m]
    <3>e. r.mode # "eager"  BY <2>4
    <3>w. \A w \in cache : w.layer # LayerAt(c, layer) /\ (again => w.layer # LayerAt(c, NoIndex)) => w \in cache'
          BY <1>3 DEF PagedEnds
    <3>1. CASE Proxied'
      <4>1. Proxied  BY <1>n, <2>10, <3>1 DEF Proxied
      <4>2. r.proxy # 0
        <5>1. n + 1 \in DOMAIN results' /\ results'[n + 1] = r  BY <2>10
        <5> QED  BY <3>1, <3>e, <5>1 DEF Proxied
      <4>3. c.proxy = m /\ m # 0 /\ Registered_(m)  BY <2>2, <2>4, <4>2
      <4>4. LayerAt(c, layer) = index[m] /\ LayerAt(c, NoIndex) = index[m]  BY <4>3 DEF LayerAt
      <4>5. ASSUME NEW i \in 1 .. n, results[i].mode # "eager" PROVE index[i] # index[m]
        <5>1. results[i].proxy # 0  BY <1>n, <4>1, <4>5 DEF Proxied
        <5>2. Registered_(i)  BY <1>0, <1>n, <4>5, <5>1 DEF RunInv
        <5>3. i # m  BY <1>n
        <5> QED  BY <1>0, <4>3, <5>2, <5>3 DEF RegistryInv, LayersInv, Registered_
      <4> QED  BY <3>w, <4>1, <4>4, <4>5
    <3>2. CASE Indexed'
      <4>1. Indexed  BY <1>n, <2>10, <2>11, <3>2 DEF Indexed
      <4>2. ~again
        <5>1. n + 1 \in DOMAIN results' /\ results'[n + 1] = r  BY <2>10
        <5> QED  BY <2>4, <3>2, <3>e, <5>1 DEF Indexed
      <4>3. \A k, j \in Modules : index[k] # NoIndex /\ (k # j => index[k] # index[j])
            BY <4>1 DEF Indexed
      <4>4. layer = index[m]  BY <1>l, <4>3 DEF OrZero
      <4>5. LayerAt(c, layer) = index[m]  BY <2>2, <4>3, <4>4 DEF LayerAt
      <4>6. ASSUME NEW i \in 1 .. n, results[i].mode # "eager" PROVE index[i] # index[m]
        <5>1. i # m  BY <1>n
        <5>2. i \in Modules
          <6>1. results \in Seq(ResultSet) /\ results[i].module = i  BY <1>0, <1>n DEF RunInv
          <6>2. results[i] \in ResultSet  BY <1>n, <6>1
          <6>3. results[i].module \in Modules  BY <6>2 DEF ResultSet
          <6> QED  BY <6>1, <6>3
        <5> QED  BY <4>3, <5>1, <5>2
      <4> QED  BY <3>w, <4>1, <4>2, <4>5, <4>6
    <3> QED  BY <2>12, <3>1, <3>2
  <2>13. ASSUME NEW i \in DOMAIN results', results'[i].mode = "paged",
                results'[i].meta = batch', ~(results'[i].packed /\ TakesPast(results[i])'), (Proxied \/ Indexed)'
         PROVE  HoldsTokens(results[i])'
    <3>1. /\ Proxied \/ Indexed
          /\ LayerAt(c, IF again THEN NoIndex ELSE layer) = index[m]
          /\ \A w \in cache : w.layer # index[m] => w \in cache'
          /\ \A k \in 1 .. n : results[k].mode # "eager" => index[k] # index[m]
          BY <2>12, <2>13
    <3>2. CASE i \in 1 .. n
      <4>1. results'[i] = results[i] /\ i \in DOMAIN results  BY <1>n, <2>10, <3>2
      <4>2. HoldsTokens(results[i])
        <5>1. /\ results[i].mode = "paged" /\ results[i].meta = batch
              /\ ~(results[i].packed /\ TakesPast(results[i]))
              BY <2>11, <2>13, <4>1 DEF TakesPast
        <5> QED  BY <1>0, <3>1, <4>1, <5>1, TokensOf
      <4>3. results[i].module = i  BY <1>0, <4>1 DEF RunInv
      <4>4. index[i] # index[m]
        <5>1. results[i].mode # "eager"  BY <2>13, <4>1
        <5> QED  BY <3>1, <3>2, <5>1
      <4>5. ASSUME NEW p \in Places(batch), Valid(batch, p)
            PROVE  [layer |-> index[i], slot |-> p, token |-> p, writer |-> i] \in cache'
        <5>1. PICK w : w = [layer |-> index[i], slot |-> p, token |-> p, writer |-> i]  OBVIOUS
        <5>2. w \in cache  BY <4>2, <4>3, <4>5, <5>1 DEF HoldsTokens
        <5>3. w.layer = index[i]  BY <5>1
        <5>4. w \in cache'  BY <3>1, <4>4, <5>2, <5>3
        <5> QED  BY <5>1, <5>4
      <4> QED  BY <2>11, <4>1, <4>3, <4>5 DEF HoldsTokens
    <3>3. CASE i = n + 1
      <4>1. results'[i] = r  BY <2>10, <3>3
      <4>a. mode = "paged" /\ c.batch = batch  BY <2>4, <2>11, <2>13, <4>1
      <4>2. mode = "paged" /\ c.batch = batch /\ past = 0
        <5>1. past \in Nat  BY <1>0, AttentionAssumption DEF RunInv
        <5>2. CASE Packed(batch)
          <6>1. r.packed  BY <2>3, <4>a, <5>2
          <6>2. ~TakesPast(r)  BY <2>11, <2>13, <4>1, <6>1 DEF TakesPast
          <6>3. ~(history > 0 /\ kind[m] \in {"qwen3", "olmoe"})  BY <2>4, <6>2 DEF TakesPast
          <6>4. past = 0  BY <1>m, <5>1, <6>3
          <6> QED  BY <4>a, <6>4
        <5>3. CASE ~Packed(batch)
          <6>1. Len(Keys(batch, past)) = Len(Slots(batch))  BY <1>3, <4>a DEF PagedEnds
          <6> QED  BY <2>b, <4>a, <5>1, <5>3, <6>1, UniformPast
        <5> QED  BY <5>2, <5>3
      <4>3. /\ Len(Keys(batch, 0)) = Len(Slots(batch))
            /\ Fresh(m, batch, Keys(batch, 0), index[m]) \subseteq cache'
            BY <1>3, <3>1, <4>2 DEF PagedEnds
      <4>4. \A p \in Places(batch) : Valid(batch, p) =>
              [layer |-> index[m], slot |-> p, token |-> p, writer |-> m] \in cache'
            BY <2>b, <4>3, OwnTokensWritten
      <4> QED  BY <2>4, <2>11, <4>1, <4>4 DEF HoldsTokens
    <3> QED  BY <2>10, <3>2, <3>3
  <2>14. TokensInOwnSlots'
    <3>1. (TokensInOwnSlots <=>
           (\A i \in DOMAIN results :
             /\ results[i].mode = "paged" /\ results[i].meta = batch /\ ~(results[i].packed /\ TakesPast(results[i]))
             /\ Proxied \/ Indexed
             => HoldsTokens(results[i])))'
          BY TokensOf, PTL
    <3> QED  BY <2>13, <3>1
  <2> QED  BY <2>1, <2>8, <2>9, <2>14 DEF PagedInv
<1> QED  BY <1>1, <1>2, <1>3

(* Every step keeps the invariant of the paged run.                        *)
LEMMA PagedNext == PagedInv /\ [Next]_vars => PagedInv'
<1> SUFFICES ASSUME PagedInv, [Next]_vars PROVE PagedInv'  OBVIOUS
<1>1. ASSUME RegistryNext, UNCHANGED <<run, cache>> PROVE PagedInv'
      BY <1>1, RegistryStep
<1>2. ASSUME NEW b \in Batches, NEW h \in HistoryLengths, StartBatch(b, h) PROVE PagedInv'
      BY <1>2, StartBatchStep
<1>3. CASE EagerForward  BY <1>3, EagerStep
<1>4. CASE Qwen3Forward
  <2>1. todo # <<>> /\ Paged(index[Head(todo)], TRUE, history) /\ kind[Head(todo)] = "qwen3"
        BY <1>4 DEF Qwen3Forward, Next1
  <2> QED  BY <2>1, PagedStep
<1>5. CASE OlmoeForward
  <2>1. todo # <<>> /\ Paged(OrZero(index[Head(todo)]), TRUE, history) /\ kind[Head(todo)] = "olmoe"
        BY <1>5 DEF OlmoeForward, Next1
  <2> QED  BY <2>1, PagedStep
<1>6. CASE MlaV2Forward
  <2>1. CASE Paged(OrZero(index[Head(todo)]), FALSE, 0)
    <3>1. todo # <<>>  BY <1>6 DEF MlaV2Forward, Next1
    <3> QED  BY <2>1, <3>1, PagedStep
  <2>2. CASE Raises /\ UNCHANGED <<registryVars, batch, history, forwards, cache>>
        BY <2>2, RaisesStep DEF Raises
  <2> QED  BY <1>6, <2>1, <2>2 DEF MlaV2Forward
<1>7. CASE MlaV3Forward
  <2>1. todo # <<>> /\ Paged(OrZero(index[Head(todo)]), FALSE, 0)  BY <1>7 DEF MlaV3Forward, Next1
  <2> QED  BY <2>1, PagedStep
<1>8. CASE UNCHANGED vars  BY <1>8, RegistryStep DEF vars
<1> QED  BY <1>1, <1>2, <1>3, <1>4, <1>5, <1>6, <1>7, <1>8 DEF Next

(* Under a wrapper for the latent cache no paged batch is run.             *)
AttentionInv ==
  /\ wrapper = "paged" => PagedInv
  /\ wrapper # "paged" => results = <<>>

(* The two wrappers take turns without touching one another.               *)
LEMMA AttentionInvStep ==
  /\ AttentionInit => AttentionInv
  /\ AttentionInv /\ [AttentionNext]_<<wrapper, vars, mla>> => AttentionInv'
<1>1. AttentionInit => AttentionInv
      BY PagedInitInv DEF AttentionInit, AttentionInv, PagedIdle
<1>2. ASSUME AttentionInv, [AttentionNext]_<<wrapper, vars, mla>> PROVE AttentionInv'
  <2>1. CASE wrapper = "paged" /\ Next /\ UNCHANGED <<wrapper, mla>>
        BY <1>2, <2>1, PagedNext DEF AttentionInv
  <2>2. CASE wrapper # "paged" /\ UNCHANGED <<wrapper, pagedOnly>>
        BY <1>2, <2>2 DEF AttentionInv, pagedOnly
  <2>3. CASE UNCHANGED <<wrapper, vars, mla>>
    <3>1. UNCHANGED vars /\ wrapper' = wrapper  BY <2>3
    <3>2. results' = results  BY <3>1 DEF vars, run
    <3> QED  BY <1>2, <3>1, <3>2, PagedNext DEF AttentionInv
  <2> QED  BY <1>2, <2>1, <2>2, <2>3 DEF AttentionNext
<1> QED  BY <1>1, <1>2

(* The paged invariant holds in every state of the composed system.        *)
LEMMA AttentionAlways == AttentionSpec => []AttentionInv
BY AttentionInvStep, PTL DEF AttentionSpec

(* However calls of register raise or are repeated, two registries never   *)
(* hold the same module or cache layer, the class of a bound module holds  *)
(* a proxy of its own layer, no registry is returned for a model with a    *)
(* DeepSeek-V2 module, and one that is returned has all the Qwen3 modules  *)
(* of the model unless a call raised (OLMoE and DeepSeek-V3 modules are in *)
(* none); a cache slot holds one token of one module's layer.              *)
THEOREM RegistriesAreSound == AttentionSpec => []RegistriesSound
<1>1. ASSUME PagedInv PROVE TypeOK /\ OneRegistryPerModule /\ ProxyOfOwnLayer /\ RegistryCovers
  <2>1. TypeOK  BY <1>1 DEF PagedInv, RegistryInv, RunInv, CacheOK, TypeOK
  <2>2. ProxyOfOwnLayer  BY <1>1 DEF PagedInv, RegistryInv, RegistryTypeOK, ContextInv, ProxyOfOwnLayer
  <2>3. RegistryCovers /\ OneRegistryPerModule  BY <1>1, Covers DEF PagedInv, RegistryInv
  <2> QED  BY <2>1, <2>2, <2>3
<1>2. AttentionInv => RegistriesSound  BY <1>1 DEF AttentionInv, RegistriesSound
<1> QED  BY <1>2, AttentionAlways, PTL

(* Whatever metadata a module finds, a place of the padded batch gets the  *)
(* result of its own token or zeros, and under the batch's own metadata    *)
(* exactly the valid tokens get theirs: for every batch.                   *)
THEOREM ResultsAreInPlace == AttentionSpec => []ResultsInPlace
<1>1. ASSUME results = <<>> PROVE ResultsInPlace  BY <1>1 DEF ResultsInPlace, PagedResults
<1>2. AttentionInv => ResultsInPlace  BY <1>1, InPlace DEF AttentionInv, PagedInv
<1> QED  BY <1>2, AttentionAlways, PTL

(* Through the proxies of registries, or with distinct layer indices and   *)
(* no repeated call, a batch leaves every valid token of each module in    *)
(* the token's own slot of the module's own layer, with or without         *)
(* past_key_values, but for the ragged batches of Qwen3 and OLMoE that     *)
(* have them (the packed selection takes earlier tokens there).            *)
THEOREM TokensAreInOwnSlots == AttentionSpec => []TokensInOwnSlots
<1>1. ASSUME results = <<>> PROVE TokensInOwnSlots  BY <1>1 DEF TokensInOwnSlots, PagedResults
<1>2. AttentionInv => TokensInOwnSlots  BY <1>1 DEF AttentionInv, PagedInv
<1> QED  BY <1>2, AttentionAlways, PTL

(* A module that had its proxy as context is never left to a backend its   *)
(* class shares: it gets another batch's metadata, or none.                *)
THEOREM ProxiesStay == AttentionSpec => NeverSharedAgain
<1> DEFINE Step == \A m \in Modules, b \in Batches :
                     ContextOf(m) = Live(m, b) => ContextOf(m)' \in {Cleared} \cup {Live(m, c) : c \in Batches}
<1>1. ASSUME AttentionInv, [AttentionNext]_<<wrapper, vars, mla>> PROVE [Step]_registryVars
  <2>1. CASE PagedInv /\ RegistryNext
        BY <2>1, NotSharedStep DEF PagedInv
  <2>2. CASE UNCHANGED registryVars  BY <2>2
  <2>3. CASE UNCHANGED pagedOnly
    <3>1. \A m \in Modules : ContextOf(m)' = ContextOf(m)
          BY <2>3 DEF ContextOf, pagedOnly, contexts
    <3> QED  BY <3>1
  <2>4. ASSUME wrapper = "paged", Next PROVE (PagedInv /\ RegistryNext) \/ UNCHANGED registryVars
    <3>1. PagedInv  BY <1>1, <2>4 DEF AttentionInv
    <3>2. ASSUME NEW layer, NEW retries, NEW past, Paged(layer, retries, past) PROVE UNCHANGED registryVars
          BY <3>2, PagedUnfolds DEF PagedCall
    <3> QED  BY <2>4, <3>1, <3>2 DEF Next, StartBatch, EagerForward, Qwen3Forward, OlmoeForward,
                                     MlaV2Forward, MlaV3Forward
  <2> QED  BY <1>1, <2>1, <2>2, <2>3, <2>4 DEF AttentionNext, vars
<1> QED  BY <1>1, AttentionAlways, PTL DEF AttentionSpec, NeverSharedAgain

-----------------------------------------------------------------------------
(* The latent cache.  Tokens 1 .. Len(blocks) * BlockSize of a sequence    *)
(* each have a slot of their own in its blocks.                            *)
LEMMA SlotOf ==
  ASSUME NEW blocks \in Seq(Blocks), NEW z \in Nat, z = Len(blocks) * BlockSize, NEW p \in 1 .. z
  PROVE  \E q \in Nat, o \in Nat :
           /\ q + 1 \in 1 .. Len(blocks) /\ o < BlockSize /\ p = BlockSize * q + o + 1
           /\ Mla!Slot(blocks, p) = <<blocks[q + 1], o>>
           /\ blocks[q + 1] \in Blocks /\ o \in 0 .. BlockSize - 1
<1>n. PICK n \in Nat : n = Len(blocks)  OBVIOUS
<1>w. PICK w \in Nat : w = BlockSize  BY MlaAssumption
<1>y. PICK y \in Nat : y = n * w /\ y = z  BY <1>n, <1>w
<1>z. Fills(y, n, w)  BY <1>y DEF Fills
<1>p. p \in 1 .. y  BY <1>y
<1>1. PICK q \in Nat, o \in Nat :
           /\ q = RowOf(p, w) /\ o = ColOf(p, w)
           /\ q + 1 \in 1 .. n /\ o < w /\ p = w * q + o + 1
      BY <1>z, <1>p, PlaceRows
<1>2. Mla!Slot(blocks, p) = <<blocks[q + 1], o>>  BY <1>1, <1>w DEF Mla!Slot, RowOf, ColOf
<1>3. q + 1 \in 1 .. Len(blocks) /\ blocks[q + 1] \in Blocks  BY <1>n, <1>1
<1>4. o \in 0 .. BlockSize - 1 /\ o < BlockSize  BY <1>w, <1>1
<1>5. p = BlockSize * q + o + 1  BY <1>w, <1>1
<1> QED  BY <1>2, <1>3, <1>4, <1>5, Zenon

(* Two places of a table are two slots.                                    *)
LEMMA SlotsApart ==
  ASSUME NEW blocks \in Seq(Blocks), NEW z \in Nat, z = Len(blocks) * BlockSize,
         \A i, k \in 1 .. Len(blocks) : blocks[i] = blocks[k] => i = k,
         NEW p \in 1 .. z, NEW r \in 1 .. z, Mla!Slot(blocks, p) = Mla!Slot(blocks, r)
  PROVE  p = r
<1>1. PICK q \in Nat, o \in Nat :
           /\ q + 1 \in 1 .. Len(blocks) /\ o < BlockSize /\ p = BlockSize * q + o + 1
           /\ Mla!Slot(blocks, p) = <<blocks[q + 1], o>>
           /\ blocks[q + 1] \in Blocks /\ o \in 0 .. BlockSize - 1
      BY SlotOf
<1>2. PICK t \in Nat, u \in Nat :
           /\ t + 1 \in 1 .. Len(blocks) /\ u < BlockSize /\ r = BlockSize * t + u + 1
           /\ Mla!Slot(blocks, r) = <<blocks[t + 1], u>>
           /\ blocks[t + 1] \in Blocks /\ u \in 0 .. BlockSize - 1
      BY SlotOf
<1>3. blocks[q + 1] = blocks[t + 1] /\ o = u  BY <1>1, <1>2
<1>4. q + 1 = t + 1  BY <1>1, <1>2, <1>3
<1>5. q = t  BY <1>4
<1> QED  BY <1>1, <1>2, <1>3, <1>5

(* Appending a block to a table keeps the slots of the others.             *)
LEMMA SlotsAppended ==
  ASSUME NEW blocks \in Seq(Blocks), NEW b, NEW z \in Nat, z = Len(blocks) * BlockSize,
         NEW p \in 1 .. z
  PROVE  Mla!Slot(Append(blocks, b), p) = Mla!Slot(blocks, p)
<1>n. PICK n \in Nat : n = Len(blocks)  OBVIOUS
<1>w. PICK w \in Nat : w = BlockSize  BY MlaAssumption
<1>y. PICK y \in Nat : y = n * w /\ y = z  BY <1>n, <1>w
<1>z. Fills(y, n, w)  BY <1>y DEF Fills
<1>p. p \in 1 .. y  BY <1>y
<1>1. PICK q \in Nat, o \in Nat :
           /\ q = RowOf(p, w) /\ o = ColOf(p, w)
           /\ q + 1 \in 1 .. n /\ o < w /\ p = w * q + o + 1
      BY <1>z, <1>p, PlaceRows
<1>2. Append(blocks, b)[q + 1] = blocks[q + 1]  BY <1>1, <1>n
<1> QED  BY <1>1, <1>2, <1>w DEF Mla!Slot, RowOf, ColOf

(* A pair after one element is a triple.                                   *)
LEMMA TripleOf == ASSUME NEW a, NEW b, NEW c PROVE <<a>> \o <<b, c>> = <<a, b, c>>
<1>1. PICK S : S = {a, b, c}  OBVIOUS
<1>2. <<a>> \in Seq(S) /\ <<b, c>> \in Seq(S) /\ <<a, b, c>> \in Seq(S)  BY <1>1
<1>3. PICK s : s = <<a>>  OBVIOUS
<1>4. PICK t : t = <<b, c>>  OBVIOUS
<1>5. PICK u : u = <<a, b, c>>  OBVIOUS
<1>6. /\ s \in Seq(S) /\ t \in Seq(S) /\ u \in Seq(S)
      /\ Len(s) = 1 /\ Len(t) = 2 /\ Len(u) = 3
      /\ s[1] = a /\ t[1] = b /\ t[2] = c /\ u[1] = a /\ u[2] = b /\ u[3] = c
      BY <1>2, <1>3, <1>4, <1>5
<1>7. s \o t \in Seq(S) /\ Len(s \o t) = 3 /\ (s \o t)[1] = a /\ (s \o t)[2] = b /\ (s \o t)[3] = c
  <2>1. /\ s \o t \in Seq(S) /\ Len(s \o t) = Len(s) + Len(t)
        /\ \A i \in 1 .. Len(s) + Len(t) : (s \o t)[i] = IF i <= Len(s) THEN s[i] ELSE t[i - Len(s)]
        BY <1>6, ConcatProperties
  <2> QED  BY <1>6, <2>1
<1>8. s \o t = u  BY <1>6, <1>7
<1> QED  BY <1>3, <1>4, <1>5, <1>8, Zenon

(* Tokens for which a list of blocks has room.                             *)
Room(blocks) == Len(blocks) * BlockSize

(* The room of a table is a number.                                        *)
LEMMA RoomNat == ASSUME NEW blocks \in Seq(Blocks) PROVE Room(blocks) \in Nat
<1>1. PICK n \in Nat, w \in Nat : n = Len(blocks) /\ w = BlockSize  BY MlaAssumption
<1>2. n * w \in Nat  OBVIOUS
<1> QED  BY <1>1, <1>2 DEF Room

LatentTypes ==
  /\ index \in [Modules -> Modules \cup {NoIndex}] /\ \A m \in Modules : index[m] \in {m, NoIndex}
  /\ adapted \subseteq Modules /\ \A m \in adapted : index[m] = m
  /\ adapting \in 0 .. Mla!Done
  /\ eligible /\ adapting # 0 => adapted = {m \in Modules : m < adapting}
  /\ install \subseteq adapted
  /\ todo \in Seq(Modules) /\ \A j, k \in 1 .. Len(todo) : todo[j] = todo[k] => j = k
  /\ table \in [Seqs -> Seq(Blocks)] /\ cached \in [Seqs -> 0 .. MaxTokens]
  /\ DOMAIN context = Modules /\ DOMAIN attended = Modules
  /\ \A m \in Modules : context[m] # Mla!None => m \in adapted

(* A block belongs to one place of one sequence's table.                   *)
TablesInv ==
  /\ \A s \in Seqs : \A i, k \in 1 .. Len(table[s]) : table[s][i] = table[s][k] => i = k
  /\ \A r, s \in Seqs : r # s =>
       \A i \in 1 .. Len(table[r]), k \in 1 .. Len(table[s]) : table[r][i] # table[s][k]
  /\ \A s \in Seqs : cached[s] <= Room(table[s])

(* While a step runs its sequence stands still, and the modules whose      *)
(* context the runner has set hold the step's own metadata.                *)
StepInv ==
  /\ adapting # Mla!Done => \A s \in Seqs : cached[s] = 0
  /\ step # Mla!NoStep =>
       /\ adapting = Mla!Done
       /\ step.metadata.seq \in Seqs
       /\ step.query \in Nat /\ step.query # 0
       /\ step.metadata.total \in 0 .. MaxTokens /\ step.query <= step.metadata.total
       /\ step.metadata.seq \notin ended => step.metadata.total <= Room(table[step.metadata.seq])
  /\ todo # <<>> \/ install # {} => step # Mla!NoStep
  /\ todo # <<>> =>
       /\ step.metadata.seq \notin ended
       /\ step.metadata.blocks = table[step.metadata.seq]
       /\ step.metadata.total = cached[step.metadata.seq] + step.query
       /\ step.metadata.slots =
            [i \in 1 .. step.query |-> Mla!Slot(table[step.metadata.seq], cached[step.metadata.seq] + i)]
       /\ \A m \in adapted \ install : context[m] = step.metadata
       /\ \A k \in 1 .. Len(todo) : attended[todo[k]] = <<>>

(* The layer of module m holds token p of sequence s in the token's slot.  *)
Held(m, s, p) == content[<<m>> \o Mla!Slot(table[s], p)] = [seq |-> s, at |-> p]

(* The cached tokens of every sequence are held in every adapted module's  *)
(* layer, and those of the step in the layers of the modules it has run.   *)
ContentInv ==
  /\ \A m \in adapted, s \in Seqs : \A p \in 1 .. cached[s] : Held(m, s, p)
  /\ step # Mla!NoStep /\ step.metadata.seq \notin ended =>
       \A m \in adapted : attended[m] # <<>> =>
         \A p \in 1 .. step.metadata.total : Held(m, step.metadata.seq, p)

LatentInv == LatentTypes /\ TablesInv /\ StepInv /\ ContentInv /\ Mla!AttendsOwnPrefix

(* The step number that ends a batch is no module.                         *)
LEMMA DoneFacts == /\ Mla!Done = Cardinality(Modules) + 1 /\ Mla!Done \in Nat /\ Mla!Done # 0
                   /\ Mla!Done \notin Modules
<1>1. Mla!Done = Cardinality(Modules) + 1  BY DEF Mla!Done, Mla!Cardinality, Cardinality
<1> QED  BY <1>1, ModuleNumbers

(* No request is there at first.                                           *)
LEMMA LatentInitInv == Mla!Init => LatentInv
<1> SUFFICES ASSUME Mla!Init PROVE LatentInv  OBVIOUS
<1> USE DEF Mla!Init
<1>1. LatentTypes
  <2>1. 1 \in 0 .. Mla!Done  BY DoneFacts
  <2>2. \A m \in Modules : ~(m < 1)  BY ModuleNumbers
  <2>3. cached \in [Seqs -> 0 .. MaxTokens]  BY MlaAssumption
  <2> QED  BY <2>1, <2>2, <2>3 DEF LatentTypes
<1>2. TablesInv
  <2>1. \A s \in Seqs : cached[s] = 0 /\ table[s] = <<>>  OBVIOUS
  <2>2. Room(<<>>) \in Nat
    <3>1. <<>> \in Seq(Blocks)  OBVIOUS
    <3> QED  BY <3>1, RoomNat
  <2>3. \A n \in Nat : 0 <= n  OBVIOUS
  <2> QED  BY <2>1, <2>2, <2>3 DEF TablesInv
<1>3. StepInv  BY DEF StepInv
<1>4. ContentInv  BY DEF ContentInv
<1>5. Mla!AttendsOwnPrefix  BY DEF Mla!AttendsOwnPrefix
<1> QED  BY <1>1, <1>2, <1>3, <1>4, <1>5 DEF LatentInv

(* Nothing has been cached while modules are still being adapted.          *)
LEMMA NothingYet ==
  ASSUME LatentInv, adapting # Mla!Done
  PROVE  /\ step = Mla!NoStep /\ todo = <<>> /\ install = {}
         /\ \A s \in Seqs : cached[s] = 0
BY DEF LatentInv, StepInv

(* Modules are adapted before any batch runs.                              *)
LEMMA AdaptStep ==
  ASSUME LatentInv, Mla!AdaptModule
  PROVE  LatentInv'
<1> USE DEF Mla!AdaptModule, Mla!pool
<1>0. adapting # Mla!Done /\ adapting \in Modules  BY DoneFacts
<1>1. /\ step = Mla!NoStep /\ todo = <<>> /\ install = {}
      /\ \A s \in Seqs : cached[s] = 0
      BY <1>0, NothingYet
<1>2. LatentTypes'
  <2>1. PICK n \in Nat : n = Cardinality(Modules) /\ Modules = 1 .. n /\ Mla!Done = n + 1
        BY ModuleNumbers, DoneFacts
  <2>2. adapting' \in 0 .. Mla!Done
    <3>1. adapting \in 1 .. n /\ adapting' = adapting + 1  BY <1>0, <2>1
    <3>2. adapting + 1 \in 0 .. n + 1  BY <3>1
    <3> QED  BY <2>1, <3>1, <3>2
  <2>3. index[adapting] = adapting  BY <1>0 DEF LatentInv, LatentTypes
  <2>4. eligible' /\ adapting' # 0 => adapted' = {m \in Modules : m < adapting'}
    <3>1. adapted = {m \in Modules : m < adapting}  BY <1>0, <2>1 DEF LatentInv, LatentTypes
    <3>2. \A m \in Modules : m < adapting + 1 <=> m < adapting \/ m = adapting  BY <1>0, <2>1
    <3> QED  BY <1>0, <3>1, <3>2
  <2>5. \A m \in Modules : context'[m] # Mla!None => m \in adapted'
        BY DEF LatentInv, LatentTypes
  <2>6. DOMAIN context' = Modules /\ adapted' \subseteq Modules /\ install' \subseteq adapted'
        BY <1>0 DEF LatentInv, LatentTypes
  <2> QED  BY <2>2, <2>3, <2>4, <2>5, <2>6 DEF LatentInv, LatentTypes
<1>3. TablesInv'  BY DEF LatentInv, TablesInv
<1>4. StepInv'  BY <1>1 DEF StepInv
<1>5. ContentInv'
  <2>1. \A s \in Seqs : \A p \in 1 .. cached[s] : FALSE  BY <1>1
  <2> QED  BY <1>1, <2>1 DEF ContentInv
<1>6. Mla!AttendsOwnPrefix'  BY DEF LatentInv, Mla!AttendsOwnPrefix
<1> QED  BY <1>2, <1>3, <1>4, <1>5, <1>6 DEF LatentInv

(* Nor does an adaptation that ends change what the blocks hold.           *)
LEMMA NoAdaptStep ==
  ASSUME LatentInv, Mla!AdaptRaises \/ Mla!NotEligible
  PROVE  LatentInv'
<1> USE DEF Mla!AdaptRaises, Mla!NotEligible, Mla!pool
<1>1. adapting' = Mla!Done \/ (step = Mla!NoStep /\ \A s \in Seqs : cached[s] = 0)
  <2>1. CASE Mla!AdaptRaises
    <3>1. adapting # Mla!Done  BY <2>1, DoneFacts
    <3>2. step = Mla!NoStep /\ todo = <<>> /\ install = {} /\ \A s \in Seqs : cached[s] = 0
          BY <3>1, NothingYet
    <3> QED  BY <3>2
  <2>2. CASE Mla!NotEligible  BY <2>2
  <2> QED  BY <2>1, <2>2
<1>2. LatentTypes'  BY DoneFacts DEF LatentInv, LatentTypes
<1>3. TablesInv'  BY DEF LatentInv, TablesInv
<1>4. StepInv'  BY <1>1 DEF LatentInv, StepInv
<1>5. ContentInv'  BY DEF LatentInv, ContentInv, Held
<1>6. Mla!AttendsOwnPrefix'  BY DEF LatentInv, Mla!AttendsOwnPrefix
<1> QED  BY <1>2, <1>3, <1>4, <1>5, <1>6 DEF LatentInv

(* The runner gives a sequence a block nobody has.                         *)
LEMMA GrowStep ==
  ASSUME LatentInv, NEW s \in Seqs, NEW b \in Blocks, Mla!GrowTable(s, b)
  PROVE  LatentInv'
<1> USE DEF Mla!GrowTable, Mla!setup
<1>0. LatentTypes /\ TablesInv /\ StepInv /\ ContentInv  BY DEF LatentInv
<1>1. /\ table \in [Seqs -> Seq(Blocks)] /\ table[s] \in Seq(Blocks)
      /\ table'[s] = Append(table[s], b)
      /\ \A r \in Seqs : r # s => table'[r] = table[r]
      BY <1>0 DEF LatentTypes
<1>n. PICK n \in Nat : n = Len(table[s])  BY <1>1
<1>2. /\ Len(table'[s]) = n + 1 /\ table'[s][n + 1] = b
      /\ \A i \in 1 .. n : table'[s][i] = table[s][i]
      /\ \A i \in 1 .. n + 1 : i \in 1 .. n \/ i = n + 1
      BY <1>1, <1>n
<1>3. \A r \in Seqs : \A i \in 1 .. Len(table[r]) : table[r][i] # b
  <2>1. \A r \in Seqs : b \notin Mla!ToSet(table[r])  OBVIOUS
  <2>2. \A r \in Seqs : DOMAIN table[r] = 1 .. Len(table[r])  BY <1>1
  <2> QED  BY <2>1, <2>2 DEF Mla!ToSet
<1>4. \A r \in Seqs : Room(table[r]) \in Nat /\ Room(table'[r]) \in Nat /\ Room(table[r]) <= Room(table'[r])
  <2>1. table'[s] \in Seq(Blocks)  BY <1>1
  <2>2. \A r \in Seqs : Room(table[r]) \in Nat  BY <1>1, RoomNat
  <2>3. Room(table'[s]) \in Nat  BY <2>1, RoomNat
  <2>4. Room(table[s]) <= Room(table'[s])
    <3>1. PICK w \in Nat : w = BlockSize  BY MlaAssumption
    <3>2. Room(table[s]) = n * w /\ Room(table'[s]) = (n + 1) * w  BY <1>n, <1>2, <3>1 DEF Room
    <3>3. (n + 1) * w = n * w + w  OBVIOUS
    <3> QED  BY <2>2, <3>2, <3>3
  <2> QED  BY <1>1, <2>2, <2>3, <2>4
<1>5. \A r \in Seqs : \A p \in 1 .. Room(table[r]) : Mla!Slot(table'[r], p) = Mla!Slot(table[r], p)
  <2>1. ASSUME NEW p \in 1 .. Room(table[s]) PROVE Mla!Slot(table'[s], p) = Mla!Slot(table[s], p)
    <3>1. PICK z \in Nat : z = Room(table[s])  BY <1>4
    <3>2. z = Len(table[s]) * BlockSize /\ p \in 1 .. z  BY <3>1 DEF Room
    <3> QED  BY <1>1, <3>2, SlotsAppended
  <2> QED  BY <1>1, <2>1
<1>6. LatentTypes'  BY <1>0, <1>1 DEF LatentTypes
<1>7. TablesInv'
  <2>1. \A i, k \in 1 .. n + 1 : table'[s][i] = table'[s][k] => i = k
    <3>1. \A i, k \in 1 .. n : table[s][i] = table[s][k] => i = k  BY <1>0, <1>n DEF TablesInv
    <3>2. \A i \in 1 .. n : table[s][i] # b  BY <1>3, <1>n
    <3> QED  BY <1>2, <3>1, <3>2
  <2>2. ASSUME NEW r \in Seqs, r # s, NEW i \in 1 .. Len(table[r]), NEW k \in 1 .. n + 1
        PROVE  table[r][i] # table'[s][k]
    <3>1. CASE k \in 1 .. n  BY <1>0, <1>2, <1>n, <2>2, <3>1 DEF TablesInv
    <3>2. CASE k = n + 1  BY <1>2, <1>3, <3>2
    <3> QED  BY <1>2, <3>1, <3>2
  <2>3. \A r \in Seqs : cached[r] <= Room(table'[r])
    <3>1. \A r \in Seqs : cached[r] <= Room(table[r]) /\ cached[r] \in Nat
          BY <1>0 DEF TablesInv, LatentTypes
    <3> QED  BY <1>4, <3>1
  <2>4. \A r \in Seqs : \A i, k \in 1 .. Len(table'[r]) : table'[r][i] = table'[r][k] => i = k
        BY <1>0, <1>1, <1>2, <2>1 DEF TablesInv
  <2>5. \A q, r \in Seqs : q # r => \A i \in 1 .. Len(table'[q]), k \in 1 .. Len(table'[r]) : table'[q][i] # table'[r][k]
    <3> SUFFICES ASSUME NEW q \in Seqs, NEW r \in Seqs, q # r,
                        NEW i \in 1 .. Len(table'[q]), NEW k \in 1 .. Len(table'[r])
                 PROVE  table'[q][i] # table'[r][k]
        OBVIOUS
    <3>1. CASE q = s  BY <1>1, <1>2, <2>2, <3>1
    <3>2. CASE r = s  BY <1>1, <1>2, <2>2, <3>2
    <3>3. CASE q # s /\ r # s  BY <1>0, <1>1, <3>3 DEF TablesInv
    <3> QED  BY <3>1, <3>2, <3>3
  <2> QED  BY <2>3, <2>4, <2>5 DEF TablesInv
<1>8. StepInv'
  <2>1. step.metadata.seq \in Seqs /\ step.metadata.total \in Nat /\ step.metadata.total <= Room(table[step.metadata.seq])
          => step.metadata.total <= Room(table'[step.metadata.seq])
        BY <1>4
  <2> QED  BY <1>0, <2>1 DEF StepInv
<1>9. ContentInv'
  <2>1. ASSUME NEW m \in adapted, NEW r \in Seqs, NEW p \in 1 .. Room(table[r]), Held(m, r, p)
        PROVE  Held(m, r, p)'
        BY <1>5, <2>1 DEF Held
  <2>2. ASSUME NEW m \in adapted, NEW r \in Seqs, NEW p \in 1 .. cached[r] PROVE Held(m, r, p)'
    <3>1. Held(m, r, p)  BY <1>0 DEF ContentInv
    <3>2. cached[r] \in Nat /\ cached[r] <= Room(table[r])  BY <1>0 DEF LatentTypes, TablesInv
    <3>3. p \in 1 .. Room(table[r])  BY <1>4, <3>2
    <3> QED  BY <2>1, <3>1, <3>3
  <2>3. ASSUME step # Mla!NoStep, step.metadata.seq \notin ended,
               NEW m \in adapted, attended[m] # <<>>, NEW p \in 1 .. step.metadata.total
        PROVE  Held(m, step.metadata.seq, p)'
    <3>0. PICK r \in Seqs : r = step.metadata.seq  BY <1>0, <2>3 DEF StepInv
    <3>1. Held(m, r, p)  BY <1>0, <2>3, <3>0 DEF ContentInv
    <3>2. step.metadata.total \in Nat /\ step.metadata.total <= Room(table[r])
          BY <1>0, <2>3, <3>0 DEF StepInv
    <3>3. p \in 1 .. Room(table[r])  BY <1>4, <3>2
    <3>4. Held(m, r, p)'  BY <2>1, <3>1, <3>3
    <3>5. Mla!Slot(table'[r], p) = Mla!Slot(table'[step.metadata.seq], p)  BY <3>0
    <3> QED  BY <3>0, <3>4, <3>5 DEF Held
  <2>4. /\ \A m \in adapted, r \in Seqs : \A p \in 1 .. cached[r] : Held(m, r, p)'
        /\ step # Mla!NoStep /\ step.metadata.seq \notin ended =>
             \A m \in adapted : attended[m] # <<>> =>
               \A p \in 1 .. step.metadata.total : Held(m, step.metadata.seq, p)'
        BY <2>2, <2>3
  <2> QED  BY <2>4 DEF ContentInv
<1>10. Mla!AttendsOwnPrefix'  BY DEF LatentInv, Mla!AttendsOwnPrefix
<1> QED  BY <1>6, <1>7, <1>8, <1>9, <1>10 DEF LatentInv

(* The blocks of a request that ends are free again and nobody reads them. *)
LEMMA EndStep ==
  ASSUME LatentInv, NEW s \in Seqs, Mla!EndSequence(s)
  PROVE  LatentInv'
<1> USE DEF Mla!EndSequence, Mla!setup
<1>0. LatentTypes /\ TablesInv /\ StepInv /\ ContentInv  BY DEF LatentInv
<1>1. /\ table \in [Seqs -> Seq(Blocks)] /\ cached \in [Seqs -> 0 .. MaxTokens]
      /\ table'[s] = <<>> /\ cached'[s] = 0
      /\ \A r \in Seqs : r # s => table'[r] = table[r] /\ cached'[r] = cached[r]
      BY <1>0 DEF LatentTypes
<1>2. LatentTypes'
  <2>1. 0 \in 0 .. MaxTokens  BY MlaAssumption
  <2>2. <<>> \in Seq(Blocks)  OBVIOUS
  <2>3. table' \in [Seqs -> Seq(Blocks)] /\ cached' \in [Seqs -> 0 .. MaxTokens]  BY <1>1, <2>1, <2>2
  <2> QED  BY <1>0, <2>3 DEF LatentTypes
<1>3. TablesInv'
  <2>1. Room(<<>>) \in Nat
    <3>1. <<>> \in Seq(Blocks)  OBVIOUS
    <3> QED  BY <3>1, RoomNat
  <2>2. \A r \in Seqs : cached'[r] <= Room(table'[r])
    <3>1. cached'[s] <= Room(table'[s])  BY <1>1, <2>1
    <3> QED  BY <1>0, <1>1, <3>1 DEF TablesInv
  <2>3. \A r \in Seqs : \A i, k \in 1 .. Len(table'[r]) : table'[r][i] = table'[r][k] => i = k
        BY <1>0, <1>1 DEF TablesInv
  <2>4. \A q, r \in Seqs : q # r => \A i \in 1 .. Len(table'[q]), k \in 1 .. Len(table'[r]) : table'[q][i] # table'[r][k]
        BY <1>0, <1>1 DEF TablesInv
  <2> QED  BY <2>2, <2>3, <2>4 DEF TablesInv
<1>4. StepInv'
  <2>1. adapting' # Mla!Done => \A r \in Seqs : cached'[r] = 0  BY <1>0, <1>1 DEF StepInv
  <2>2. step' # Mla!NoStep =>
          /\ adapting' = Mla!Done
          /\ step'.metadata.seq \in Seqs
          /\ step'.query \in Nat /\ step'.query # 0
          /\ step'.metadata.total \in 0 .. MaxTokens /\ step'.query <= step'.metadata.total
          /\ step'.metadata.seq \notin ended' => step'.metadata.total <= Room(table'[step'.metadata.seq])
        BY <1>0, <1>1 DEF StepInv
  <2> QED  BY <2>1, <2>2 DEF StepInv
<1>5. ContentInv'
  <2>1. ASSUME NEW m \in adapted, NEW r \in Seqs, r # s, NEW p, Held(m, r, p)
        PROVE  Held(m, r, p)'
        BY <1>1, <2>1 DEF Held
  <2>2. ASSUME NEW m \in adapted, NEW r \in Seqs, NEW p \in 1 .. cached'[r] PROVE Held(m, r, p)'
    <3>1. r # s  BY <1>1
    <3>2. Held(m, r, p)  BY <1>0, <1>1, <3>1 DEF ContentInv
    <3> QED  BY <2>1, <3>1, <3>2
  <2>3. ASSUME step # Mla!NoStep, step.metadata.seq \notin ended',
               NEW m \in adapted, attended[m] # <<>>, NEW p \in 1 .. step.metadata.total
        PROVE  Held(m, step.metadata.seq, p)'
    <3>0. PICK r \in Seqs : r = step.metadata.seq  BY <1>0, <2>3 DEF StepInv
    <3>1. Held(m, r, p)  BY <1>0, <2>3, <3>0 DEF ContentInv
    <3>2. r # s  BY <2>3, <3>0
    <3>3. Held(m, r, p)'  BY <2>1, <3>1, <3>2
    <3>4. Mla!Slot(table'[r], p) = Mla!Slot(table'[step.metadata.seq], p)  BY <3>0
    <3> QED  BY <3>0, <3>3, <3>4 DEF Held
  <2> QED  BY <2>2, <2>3 DEF ContentInv
<1>6. Mla!AttendsOwnPrefix'  BY DEF LatentInv, Mla!AttendsOwnPrefix
<1> QED  BY <1>2, <1>3, <1>4, <1>5, <1>6 DEF LatentInv

(* A step takes the next tokens of a sequence and their slots.             *)
LEMMA StartsStep ==
  ASSUME LatentInv, NEW s \in Seqs, NEW q \in 1 .. MaxQuery, NEW rows \in 1 .. 2, NEW short \in BOOLEAN,
         Mla!StartStep(s, q, rows, short)
  PROVE  LatentInv'
<1> USE DEF Mla!StartStep, Mla!setup, Mla!pool
<1>0. LatentTypes /\ TablesInv /\ StepInv /\ ContentInv  BY DEF LatentInv
<1>q. q \in Nat /\ q # 0  BY MlaAssumption
<1>t. PICK t \in Nat : t = cached[s] + q /\ t <= MaxTokens /\ t <= Room(table[s]) /\ q <= t
  <2>1. cached[s] \in 0 .. MaxTokens  BY <1>0 DEF LatentTypes
  <2>2. PICK c \in Nat : c = cached[s]  BY <2>1
  <2>3. c + q \in Nat /\ q <= c + q  BY <1>q
  <2>4. c + q <= MaxTokens /\ c + q <= Room(table[s])  BY <2>2 DEF Room
  <2> QED  BY <2>2, <2>3, <2>4
<1>1. /\ step'.rows = rows /\ step'.query = q
      /\ step'.metadata.seq = s /\ step'.metadata.total = t /\ step'.metadata.blocks = table[s]
      /\ step'.metadata.slots = [i \in 1 .. q |-> Mla!Slot(table[s], cached[s] + i)]
      BY <1>t
<1>2. /\ todo' = [m \in Modules |-> m] /\ install' = adapted
      /\ attended' = [m \in Modules |-> <<>>]
      /\ UNCHANGED <<table, cached, ended, eligible, index, adapted, adapting, content, context>>
      OBVIOUS
<1>3. todo' \in Seq(Modules) /\ \A j, k \in 1 .. Len(todo') : todo'[j] = todo'[k] => j = k
  <2>1. PICK n \in Nat : Modules = 1 .. n  BY ModuleNumbers
  <2>2. todo' = [m \in 1 .. n |-> m]  BY <1>2, <2>1
  <2> QED  BY <2>1, <2>2
<1>4. LatentTypes'  BY <1>0, <1>2, <1>3 DEF LatentTypes
<1>5. TablesInv'  BY <1>0, <1>2 DEF TablesInv
<1>6. StepInv'
  <2>1. \A k \in 1 .. Len(todo') : attended'[todo'[k]] = <<>>
    <3>1. \A k \in 1 .. Len(todo') : todo'[k] \in Modules  BY <1>3
    <3> QED  BY <1>2, <3>1
  <2>2. \A m \in adapted \ install' : FALSE  BY <1>2
  <2>3. adapting = Mla!Done /\ s \notin ended  OBVIOUS
  <2>4. t \in 0 .. MaxTokens  BY <1>t, MlaAssumption
  <2>5. step' # Mla!NoStep =>
          /\ adapting' = Mla!Done
          /\ step'.metadata.seq \in Seqs
          /\ step'.query \in Nat /\ step'.query # 0
          /\ step'.metadata.total \in 0 .. MaxTokens /\ step'.query <= step'.metadata.total
          /\ step'.metadata.seq \notin ended' => step'.metadata.total <= Room(table'[step'.metadata.seq])
        BY <1>q, <1>t, <1>1, <1>2, <2>3, <2>4
  <2>6. step' # Mla!NoStep
    <3>1. step'.rows # 0  BY <1>1
    <3> QED  BY <3>1 DEF Mla!NoStep
  <2>7. /\ step'.metadata.seq \notin ended'
        /\ step'.metadata.blocks = table'[step'.metadata.seq]
        /\ step'.metadata.total = cached'[step'.metadata.seq] + step'.query
        /\ step'.metadata.slots =
             [i \in 1 .. step'.query |-> Mla!Slot(table'[step'.metadata.seq], cached'[step'.metadata.seq] + i)]
        BY <1>t, <1>1, <1>2, <2>3
  <2> QED  BY <1>2, <2>1, <2>2, <2>3, <2>5, <2>6, <2>7 DEF StepInv
<1>7. ContentInv'
  <2>1. \A m \in adapted : attended'[m] = <<>>  BY <1>0, <1>2 DEF LatentTypes
  <2> QED  BY <1>0, <1>2, <2>1 DEF ContentInv, Held
<1>8. Mla!AttendsOwnPrefix'
  <2>1. \A m \in Modules : DOMAIN attended'[m] = {}  BY <1>2
  <2> QED  BY <2>1 DEF Mla!AttendsOwnPrefix
<1> QED  BY <1>4, <1>5, <1>6, <1>7, <1>8 DEF LatentInv

(* The runner sets and clears the contexts of modules.                     *)
LEMMA ContextStep ==
  ASSUME LatentInv, NEW m \in Modules, Mla!SetContext(m) \/ Mla!SkipContext(m) \/ Mla!ClearContext(m)
  PROVE  LatentInv'
<1> USE DEF Mla!SetContext, Mla!SkipContext, Mla!ClearContext, Mla!setup, Mla!pool
<1>0. LatentTypes /\ TablesInv /\ StepInv /\ ContentInv  BY DEF LatentInv
<1>1. /\ UNCHANGED <<eligible, index, adapted, adapting, table, cached, ended, step, todo, content, attended>>
      /\ install' \subseteq install /\ m \in adapted
      /\ DOMAIN context' = DOMAIN context
      /\ \A l \in Modules : l # m => context'[l] = context[l]
      /\ \/ install' = install \ {m} /\ context'[m] = step.metadata
         \/ todo = <<>> /\ install' = install
  <2>1. DOMAIN context = Modules /\ install \subseteq adapted  BY <1>0 DEF LatentTypes
  <2>2. CASE Mla!SetContext(m)  BY <2>1, <2>2
  <2>3. CASE Mla!ClearContext(m)  BY <2>1, <2>3
  <2>4. ~Mla!SkipContext(m)  OBVIOUS
  <2> QED  BY <2>2, <2>3, <2>4
<1>2. LatentTypes'  BY <1>0, <1>1 DEF LatentTypes
<1>3. TablesInv'  BY <1>0, <1>1 DEF TablesInv
<1>4. StepInv'
  <2>1. todo # <<>> => \A l \in adapted \ install' : context'[l] = step.metadata
    <3> SUFFICES ASSUME todo # <<>>, NEW l \in adapted \ install' PROVE context'[l] = step.metadata
        OBVIOUS
    <3>1. install' = install \ {m} /\ context'[m] = step.metadata  BY <1>1
    <3>2. CASE l = m  BY <3>1, <3>2
    <3>3. CASE l # m
      <4>1. l \in adapted \ install /\ l \in Modules  BY <1>0, <3>1, <3>3 DEF LatentTypes
      <4>2. context[l] = step.metadata  BY <1>0, <4>1 DEF StepInv
      <4> QED  BY <1>1, <3>3, <4>1, <4>2
    <3> QED  BY <3>2, <3>3
  <2> QED  BY <1>0, <1>1, <2>1 DEF StepInv
<1>5. ContentInv'  BY <1>0, <1>1 DEF ContentInv, Held
<1>6. Mla!AttendsOwnPrefix'  BY <1>1 DEF LatentInv, Mla!AttendsOwnPrefix
<1> QED  BY <1>2, <1>3, <1>4, <1>5, <1>6 DEF LatentInv

(* A forward that leaves the cache alone.                                  *)
LEMMA NoWriteStep ==
  ASSUME LatentInv, Mla!ForwardRaises \/ Mla!StockForward
  PROVE  LatentInv'
<1> USE DEF Mla!ForwardRaises, Mla!StockForward, Mla!setup, Mla!pool
<1>0. LatentTypes /\ TablesInv /\ StepInv /\ ContentInv  BY DEF LatentInv
<1>1. /\ UNCHANGED <<eligible, index, adapted, adapting, context, table, cached, ended, step, install, content, attended>>
      /\ todo # <<>> /\ install = {}
      /\ todo' \in {<<>>, Tail(todo)}
      OBVIOUS
<1>t. PICK T : T \in Seq(Modules) /\ T = todo  BY <1>0 DEF LatentTypes
<1>2. /\ todo' \in Seq(Modules)
      /\ \A k \in 1 .. Len(todo') : k + 1 \in 1 .. Len(todo) /\ todo'[k] = todo[k + 1]
  <2>1. CASE todo' = <<>>  BY <2>1
  <2>2. CASE todo' = Tail(todo)
    <3>1. Tail(T) \in Seq(Modules) /\ Len(Tail(T)) = Len(T) - 1
          /\ \A k \in 1 .. Len(T) - 1 : Tail(T)[k] = T[k + 1]
          BY <1>1, <1>t
    <3>2. Len(T) \in Nat  BY <1>t
    <3> QED  BY <1>t, <2>2, <3>1, <3>2
  <2> QED  BY <1>1, <2>1, <2>2
<1>3. LatentTypes'
  <2>1. \A j, k \in 1 .. Len(todo') : todo'[j] = todo'[k] => j = k
    <3> SUFFICES ASSUME NEW j \in 1 .. Len(todo'), NEW k \in 1 .. Len(todo'), todo'[j] = todo'[k] PROVE j = k
        OBVIOUS
    <3>1. j + 1 = k + 1  BY <1>0, <1>2 DEF LatentTypes
    <3> QED  BY <3>1
  <2> QED  BY <1>0, <1>1, <1>2, <2>1 DEF LatentTypes
<1>4. TablesInv'  BY <1>0, <1>1 DEF TablesInv
<1>5. StepInv'
  <2>1. \A k \in 1 .. Len(todo') : attended'[todo'[k]] = <<>>
    <3>1. \A k \in 1 .. Len(todo) : attended[todo[k]] = <<>>  BY <1>0, <1>1 DEF StepInv
    <3> QED  BY <1>1, <1>2, <3>1
  <2> QED  BY <1>0, <1>1, <2>1 DEF StepInv
<1>6. ContentInv'  BY <1>0, <1>1 DEF ContentInv, Held
<1>7. Mla!AttendsOwnPrefix'  BY <1>1 DEF LatentInv, Mla!AttendsOwnPrefix
<1> QED  BY <1>3, <1>4, <1>5, <1>6, <1>7 DEF LatentInv

(* The tokens of a step are cached once every module has run.              *)
LEMMA CachedStep ==
  ASSUME LatentInv, Mla!StepDone
  PROVE  LatentInv'
<1> USE DEF Mla!StepDone, Mla!setup
<1>0. LatentTypes /\ TablesInv /\ StepInv /\ ContentInv  BY DEF LatentInv
<1>1. PICK s \in Seqs : s = step.metadata.seq  BY <1>0 DEF StepInv
<1>2. PICK t \in 0 .. MaxTokens : t = step.metadata.total /\ t <= Room(table[s])
  <2>1. step.metadata.total \in 0 .. MaxTokens /\ step.metadata.total <= Room(table[step.metadata.seq])
        BY <1>0 DEF StepInv
  <2> QED  BY <1>1, <2>1
<1>3. /\ cached' = [cached EXCEPT ![s] = t] /\ s \notin ended
      /\ UNCHANGED <<eligible, index, adapted, adapting, context, table, ended, step, install, todo, content, attended>>
      /\ todo = <<>> /\ install = {} /\ step # Mla!NoStep /\ \A m \in adapted : attended[m] # <<>>
      BY <1>1, <1>2
<1>4. cached' \in [Seqs -> 0 .. MaxTokens] /\ cached'[s] = t /\ \A r \in Seqs : r # s => cached'[r] = cached[r]
  <2>1. PICK C : C = cached /\ C \in [Seqs -> 0 .. MaxTokens]  BY <1>0 DEF LatentTypes
  <2>2. PICK S : S = 0 .. MaxTokens  OBVIOUS
  <2>3. C \in [Seqs -> S] /\ t \in S  BY <2>1, <2>2
  <2>4. cached' = [C EXCEPT ![s] = t]  BY <1>3, <2>1
  <2>5. cached' \in [Seqs -> S] /\ cached'[s] = t /\ \A r \in Seqs : r # s => cached'[r] = C[r]
        BY <2>3, <2>4
  <2> QED  BY <2>1, <2>2, <2>5
<1>5. LatentTypes'  BY <1>0, <1>3, <1>4 DEF LatentTypes
<1>6. TablesInv'
  <2>1. \A r \in Seqs : cached'[r] <= Room(table'[r])  BY <1>0, <1>2, <1>3, <1>4 DEF TablesInv
  <2> QED  BY <1>0, <1>3, <2>1 DEF TablesInv
<1>7. StepInv'  BY <1>0, <1>3 DEF StepInv
<1>8. ContentInv'
  <2>1. \A m \in adapted : \A p \in 1 .. t : Held(m, s, p)  BY <1>0, <1>1, <1>2, <1>3 DEF ContentInv
  <2>2. ASSUME NEW m \in adapted, NEW r \in Seqs, NEW p \in 1 .. cached'[r] PROVE Held(m, r, p)
    <3>1. CASE r = s
      <4>1. p \in 1 .. t  BY <1>4, <3>1
      <4> QED  BY <2>1, <3>1, <4>1
    <3>2. CASE r # s
      <4>1. p \in 1 .. cached[r]  BY <1>4, <3>2
      <4> QED  BY <1>0, <4>1 DEF ContentInv
    <3> QED  BY <3>1, <3>2
  <2>3. ASSUME NEW m \in adapted, NEW r \in Seqs, NEW p \in 1 .. cached'[r] PROVE Held(m, r, p)'
    <3>1. Held(m, r, p)  BY <2>2
    <3> QED  BY <1>3, <3>1 DEF Held
  <2> QED  BY <1>0, <1>3, <2>3 DEF ContentInv, Held
<1>9. Mla!AttendsOwnPrefix'  BY <1>3 DEF LatentInv, Mla!AttendsOwnPrefix
<1> QED  BY <1>5, <1>6, <1>7, <1>8, <1>9 DEF LatentInv

Cells == Modules \X Blocks \X (0 .. BlockSize - 1)

(* The cell of a token in the layer of a module.                           *)
Cell(m, blocks, p, i, o) ==
  /\ i \in 1 .. Len(blocks)
  /\ Mla!Slot(blocks, p) = <<blocks[i], o>>
  /\ <<m>> \o Mla!Slot(blocks, p) = <<m, blocks[i], o>>
  /\ <<m, blocks[i], o>> \in Cells

(* Every position of a table is a cell of one of its blocks.               *)
LEMMA CellOf ==
  ASSUME NEW m \in Modules, NEW blocks \in Seq(Blocks), NEW p \in 1 .. Room(blocks)
  PROVE  \E i, o : Cell(m, blocks, p, i, o)
<1>z. PICK z \in Nat : z = Room(blocks)  BY RoomNat
<1>w. z = Len(blocks) * BlockSize /\ p \in 1 .. z  BY <1>z DEF Room
<1>1. PICK q \in Nat, o \in Nat :
           /\ q + 1 \in 1 .. Len(blocks) /\ o < BlockSize /\ p = BlockSize * q + o + 1
           /\ Mla!Slot(blocks, p) = <<blocks[q + 1], o>>
           /\ blocks[q + 1] \in Blocks /\ o \in 0 .. BlockSize - 1
      BY <1>w, SlotOf
<1>i. PICK i : i = q + 1  OBVIOUS
<1>2. <<m>> \o Mla!Slot(blocks, p) = <<m, blocks[i], o>>
  <2>1. <<m>> \o <<blocks[i], o>> = <<m, blocks[i], o>>  BY TripleOf
  <2> QED  BY <1>1, <1>i, <2>1, Zenon
<1>3. <<m, blocks[i], o>> \in Cells  BY <1>1, <1>i DEF Cells
<1>4. Mla!Slot(blocks, p) = <<blocks[i], o>> /\ i \in 1 .. Len(blocks)  BY <1>1, <1>i, Zenon
<1> QED  BY <1>2, <1>3, <1>4, Zenon DEF Cell

(* The slots of the next q tokens of s.                                    *)
SlotsFrom(md, s, c, q) == md.slots = [i \in 1 .. q |-> Mla!Slot(table[s], c + i)]

(* A step's write puts its tokens into their places in the layer of its    *)
(* module and changes no other place of any sequence.                      *)
LEMMA WriteFacts ==
  ASSUME LatentTypes, TablesInv, NEW m \in Modules, index[m] = m,
         NEW s \in Seqs, s = step.metadata.seq, NEW c \in Nat, c = cached[s],
         NEW q \in Nat, c + q <= Room(table[s]),
         NEW md, SlotsFrom(md, s, c, q),
         content' = Mla!Written(m, md)
  PROVE  /\ \A p \in 1 .. c + q : p > c =>
              content'[<<m>> \o Mla!Slot(table[s], p)] = [seq |-> s, at |-> p]
         /\ \A l \in Modules, r \in Seqs : \A p \in 1 .. Room(table[r]) :
              ~(l = m /\ r = s /\ p > c) =>
                content'[<<l>> \o Mla!Slot(table[r], p)] = content[<<l>> \o Mla!Slot(table[r], p)]
<1>T. \A r \in Seqs : table[r] \in Seq(Blocks) /\ Room(table[r]) \in Nat  BY RoomNat DEF LatentTypes
<1>t. table[s] \in Seq(Blocks)  BY <1>T
<1>d. \A i, k \in 1 .. Len(table[s]) : table[s][i] = table[s][k] => i = k  BY DEF TablesInv
<1>z. PICK z \in Nat : z = Room(table[s])  BY <1>T
<1>1. \A p, r \in 1 .. z : Mla!Slot(table[s], p) = Mla!Slot(table[s], r) => p = r
  <2>1. PICK B \in Seq(Blocks) : B = table[s]  BY <1>T
  <2>2. z = Len(B) * BlockSize  BY <1>z, <2>1 DEF Room
  <2>3. \A i, k \in 1 .. Len(B) : B[i] = B[k] => i = k  BY <1>d, <2>1
  <2>4. \A p, r \in 1 .. z : Mla!Slot(B, p) = Mla!Slot(B, r) => p = r  BY <2>2, <2>3, SlotsApart
  <2> QED  BY <2>1, <2>4
<1>2. DOMAIN md.slots = 1 .. q /\ \A i \in 1 .. q : c + i \in 1 .. z /\ md.slots[i] = Mla!Slot(table[s], c + i)
      BY <1>z DEF SlotsFrom
<1>3. \A i, k \in 1 .. q : md.slots[i] = md.slots[k] => i = k
  <2> SUFFICES ASSUME NEW i \in 1 .. q, NEW k \in 1 .. q, md.slots[i] = md.slots[k] PROVE i = k  OBVIOUS
  <2>1. PICK a, b : a = c + i /\ b = c + k  OBVIOUS
  <2>2. a \in 1 .. z /\ b \in 1 .. z /\ Mla!Slot(table[s], a) = Mla!Slot(table[s], b)  BY <1>2, <2>1
  <2>3. a = b  BY <1>1, <2>2
  <2> QED  BY <2>1, <2>3
<1>4. ASSUME NEW p \in 1 .. c + q, p > c
      PROVE  content'[<<m>> \o Mla!Slot(table[s], p)] = [seq |-> s, at |-> p]
  <2>1. PICK j \in 1 .. q : p = c + j
    <3>1. p - c \in 1 .. q /\ p = c + (p - c)  BY <1>4
    <3> QED  BY <3>1
  <2>2. p \in 1 .. Room(table[s])  BY <1>2, <1>z, <2>1
  <2>3. PICK i, o : Cell(m, table[s], p, i, o)
        BY <1>t, <2>2, CellOf
  <2>x. PICK x : x = <<m, table[s][i], o>>  OBVIOUS
  <2>4. x[1] = m /\ <<x[2], x[3]>> = Mla!Slot(table[s], p)  BY <2>3, <2>x DEF Cell
  <2>5. x \in Cells  BY <2>3, <2>x, Zenon DEF Cell
  <2>6. /\ j \in DOMAIN md.slots /\ md.slots[j] = <<x[2], x[3]>>
        /\ \A k \in DOMAIN md.slots : md.slots[k] = md.slots[j] => k = j
        BY <1>2, <1>3, <2>1, <2>4
  <2>7. content'[x] = [seq |-> step.metadata.seq, at |-> cached[step.metadata.seq] + j]
    <3> DEFINE Here == \E k \in DOMAIN md.slots : md.slots[k] = <<x[2], x[3]>>
    <3> DEFINE At   == CHOOSE k \in DOMAIN md.slots : md.slots[k] = <<x[2], x[3]>>
    <3>1. content'[x] = IF x[1] = index[m] /\ Here
                        THEN [seq |-> step.metadata.seq, at |-> cached[step.metadata.seq] + At]
                        ELSE content[x]
          BY <2>5, Zenon DEF Mla!Written, Cells
    <3>2. Here => At \in DOMAIN md.slots /\ md.slots[At] = <<x[2], x[3]>>  BY Zenon
    <3>3. Here /\ At = j  BY <2>6, <3>2
    <3> HIDE DEF Here, At
    <3> QED  BY <2>4, <3>1, <3>3
  <2>8. content'[x] = [seq |-> s, at |-> p]
    <3>1. step.metadata.seq = s /\ cached[step.metadata.seq] + j = p  BY <2>1
    <3> QED  BY <2>7, <3>1, Zenon
  <2> QED  BY <2>3, <2>x, <2>8, Zenon DEF Cell
<1>5. ASSUME NEW l \in Modules, NEW r \in Seqs, NEW p \in 1 .. Room(table[r]), ~(l = m /\ r = s /\ p > c)
      PROVE  content'[<<l>> \o Mla!Slot(table[r], p)] = content[<<l>> \o Mla!Slot(table[r], p)]
  <2>t. table[r] \in Seq(Blocks)  BY <1>T
  <2>1. PICK i, o : Cell(l, table[r], p, i, o)
        BY <2>t, CellOf
  <2>x. PICK x : x = <<l, table[r][i], o>>  OBVIOUS
  <2>2. x[1] = l /\ <<x[2], x[3]>> = Mla!Slot(table[r], p) /\ x[2] = table[r][i]  BY <2>1, <2>x DEF Cell
  <2>3. x \in Cells  BY <2>1, <2>x, Zenon DEF Cell
  <2>4. x[1] # m \/ (\A j \in DOMAIN md.slots : md.slots[j] # <<x[2], x[3]>>)
    <3> SUFFICES ASSUME l = m, NEW j \in 1 .. q, Mla!Slot(table[s], c + j) = Mla!Slot(table[r], p) PROVE FALSE
        BY <1>2, <2>2
    <3>0. c + j \in 1 .. z /\ c + j > c /\ c + j \in 1 .. Room(table[s])  BY <1>2, <1>z
    <3>1. CASE r = s
      <4>1. p \in 1 .. z /\ ~(p > c)  BY <1>5, <1>z, <3>1
      <4>2. c + j = p  BY <1>1, <3>0, <3>1, <4>1
      <4> QED  BY <3>0, <4>1, <4>2
    <3>2. CASE r # s
      <4>1. PICK k, u : Cell(m, table[s], c + j, k, u)
            BY <1>t, <3>0, CellOf
      <4>2. table[s][k] = table[r][i]  BY <2>1, <4>1 DEF Cell
      <4>3. k \in 1 .. Len(table[s]) /\ i \in 1 .. Len(table[r])  BY <2>1, <4>1 DEF Cell
      <4> QED  BY <3>2, <4>2, <4>3 DEF TablesInv
    <3> QED  BY <3>1, <3>2
  <2>5. content'[x] = content[x]  BY <2>3, <2>4, Zenon DEF Mla!Written, Cells
  <2> QED  BY <2>1, <2>x, <2>5, Zenon DEF Cell
<1> QED  BY <1>4, <1>5

(* What the forward of module m does for tokens c + 1 .. c + q of s.       *)
ForwardOf(m, s, c, q) ==
  /\ m \in adapted /\ m \in Modules /\ index[m] = m /\ attended[m] = <<>> /\ m = Head(todo)
  /\ s \in Seqs /\ s \notin ended
  /\ c \in Nat /\ q \in Nat /\ q # 0 /\ c = cached[s] /\ c + q <= Room(table[s])
  /\ step # Mla!NoStep /\ step.metadata.seq = s /\ step.metadata.total = c + q /\ step.query = q
  /\ \A p \in 1 .. c + q : p > c =>
       content'[<<m>> \o Mla!Slot(table[s], p)] = [seq |-> s, at |-> p]
  /\ \A l \in Modules, r \in Seqs : \A p \in 1 .. Room(table[r]) :
       ~(l = m /\ r = s /\ p > c) =>
         content'[<<l>> \o Mla!Slot(table[r], p)] = content[<<l>> \o Mla!Slot(table[r], p)]
  /\ attended' = [attended EXCEPT ![m] =
       [i \in 1 .. q |-> [p \in 1 .. c + i |-> content'[<<m>> \o Mla!Slot(table[s], p)]]]]
  /\ todo # <<>> /\ todo' = Tail(todo) /\ install = {}
  /\ UNCHANGED <<eligible, index, adapted, adapting, context, table, cached, ended, step, install>>

(* The parts of a forward of the runner, named.                            *)
LEMMA ForwardFacts ==
  ASSUME LatentInv, Mla!Forward
  PROVE  \E m, s, c, q : ForwardOf(m, s, c, q)
<1>0. LatentTypes /\ TablesInv /\ StepInv  BY DEF LatentInv
<1>m. PICK m : m = Head(todo)  OBVIOUS
<1>d. PICK md : md = context[m]  OBVIOUS
<1>1. /\ install = {} /\ todo # <<>> /\ m \in adapted
      /\ content' = Mla!Written(m, md)
      /\ attended' = [attended EXCEPT ![m] = [i \in 1 .. step.query |->
           [p \in 1 .. (IF Mla!Limit(md, i) <= md.total THEN Mla!Limit(md, i) ELSE md.total) |->
              content'[<<index[m]>> \o Mla!Slot(md.blocks, p)]]]]
      /\ todo' = Tail(todo)
      /\ UNCHANGED <<eligible, index, adapted, adapting, context, table, cached, ended, step, install>>
      BY <1>m, <1>d, Zenon DEF Mla!Forward, Mla!setup, Mla!pool
<1>2. m \in Modules /\ index[m] = m  BY <1>0, <1>1 DEF LatentTypes
<1>3. m = todo[1] /\ 1 \in 1 .. Len(todo)  BY <1>0, <1>1, <1>m DEF LatentTypes
<1>s. PICK s \in Seqs : s = step.metadata.seq  BY <1>0, <1>1 DEF StepInv
<1>c. PICK c \in Nat : c = cached[s]  BY <1>0 DEF LatentTypes
<1>q. PICK q \in Nat : q = step.query /\ q # 0  BY <1>0, <1>1 DEF StepInv
<1>4. /\ step # Mla!NoStep /\ s \notin ended /\ attended[m] = <<>>
      /\ md = step.metadata /\ md.blocks = table[s] /\ md.total = c + q /\ md.seq = s
      /\ md.slots = [i \in 1 .. q |-> Mla!Slot(table[s], c + i)]
      /\ c + q <= Room(table[s])
  <2>1. /\ step # Mla!NoStep /\ s \notin ended
        /\ step.metadata.blocks = table[s] /\ step.metadata.total = c + q
        /\ step.metadata.slots = [i \in 1 .. q |-> Mla!Slot(table[s], c + i)]
        /\ step.metadata.total <= Room(table[s])
        BY <1>0, <1>1, <1>s, <1>c, <1>q DEF StepInv
  <2>2. context[m] = step.metadata
    <3>1. m \in adapted \ install  BY <1>1
    <3> QED  BY <1>0, <1>1, <3>1 DEF StepInv
  <2>3. attended[m] = <<>>  BY <1>0, <1>1, <1>3 DEF StepInv
  <2>4. md = step.metadata  BY <1>d, <2>2
  <2>5. c + q <= Room(table[s])  BY <2>1
  <2>6. md.blocks = table[s] /\ md.total = c + q /\ md.seq = s
        /\ md.slots = [i \in 1 .. q |-> Mla!Slot(table[s], c + i)]
        BY <1>s, <2>1, <2>4, Zenon
  <2> QED  BY <2>1, <2>3, <2>4, <2>5, <2>6, Zenon
<1>5. /\ \A p \in 1 .. c + q : p > c =>
              content'[<<m>> \o Mla!Slot(table[s], p)] = [seq |-> s, at |-> p]
      /\ \A l \in Modules, r \in Seqs : \A p \in 1 .. Room(table[r]) :
              ~(l = m /\ r = s /\ p > c) =>
                content'[<<l>> \o Mla!Slot(table[r], p)] = content[<<l>> \o Mla!Slot(table[r], p)]
  <2>1. SlotsFrom(md, s, c, q)  BY <1>4 DEF SlotsFrom
  <2>2. c + q <= Room(table[s]) /\ content' = Mla!Written(m, md)  BY <1>1, <1>4
  <2> QED  BY <1>0, <1>2, <1>s, <1>c, <2>1, <2>2, WriteFacts
<1>6. attended' = [attended EXCEPT ![m] =
       [i \in 1 .. q |-> [p \in 1 .. c + i |-> content'[<<m>> \o Mla!Slot(table[s], p)]]]]
  <2>1. ASSUME NEW i \in 1 .. q
        PROVE  (IF Mla!Limit(md, i) <= md.total THEN Mla!Limit(md, i) ELSE md.total) = c + i
    <3>1. Mla!Limit(md, i) = c + i  BY <1>q, <1>4 DEF Mla!Limit
    <3>2. c + i <= c + q  OBVIOUS
    <3> QED  BY <1>4, <3>1, <3>2
  <2>2. [i \in 1 .. step.query |->
           [p \in 1 .. (IF Mla!Limit(md, i) <= md.total THEN Mla!Limit(md, i) ELSE md.total) |->
              content'[<<index[m]>> \o Mla!Slot(md.blocks, p)]]]
        = [i \in 1 .. q |-> [p \in 1 .. c + i |-> content'[<<m>> \o Mla!Slot(table[s], p)]]]
    <3> DEFINE Top(i) == IF Mla!Limit(md, i) <= md.total THEN Mla!Limit(md, i) ELSE md.total
    <3> DEFINE Cut(i) == c + i
    <3> DEFINE Cell1(p) == content'[<<m>> \o Mla!Slot(table[s], p)]
    <3>1. index[m] = m /\ md.blocks = table[s] /\ step.query = q  BY <1>2, <1>q, <1>4
    <3>2. \A i \in 1 .. q : Top(i) = Cut(i)  BY <2>1
    <3> HIDE DEF Top, Cut
    <3>3. [i \in 1 .. q |-> [p \in 1 .. Top(i) |-> content'[<<m>> \o Mla!Slot(table[s], p)]]]
          = [i \in 1 .. q |-> [p \in 1 .. Cut(i) |-> content'[<<m>> \o Mla!Slot(table[s], p)]]]
      <4> HIDE DEF Cell1
      <4>1. \A i \in 1 .. q : [p \in 1 .. Top(i) |-> Cell1(p)] = [p \in 1 .. Cut(i) |-> Cell1(p)]
            BY <3>2
      <4>2. [i \in 1 .. q |-> [p \in 1 .. Top(i) |-> Cell1(p)]]
            = [i \in 1 .. q |-> [p \in 1 .. Cut(i) |-> Cell1(p)]]
            BY <4>1, Zenon
      <4> QED  BY <4>2 DEF Cell1
    <3> QED  BY <3>1, <3>3, Zenon DEF Top, Cut
  <2> QED  BY <1>1, <2>2
<1>7. ForwardOf(m, s, c, q)
  <2>1. step.metadata.total = c + q  BY <1>4
  <2> QED  BY <1>m, <1>1, <1>2, <1>s, <1>c, <1>q, <1>4, <1>5, <1>6, <2>1, Zenon DEF ForwardOf
<1> QED  BY <1>7

(* A forward writes the new tokens to cells of their own table only.       *)
LEMMA ForwardStep ==
  ASSUME LatentInv, Mla!Forward
  PROVE  LatentInv'
<1>0. LatentTypes /\ TablesInv /\ StepInv /\ ContentInv  BY DEF LatentInv
<1>f. PICK m, s, c, q : ForwardOf(m, s, c, q)  BY ForwardFacts
<1>1. /\ m \in adapted /\ m \in Modules /\ index[m] = m /\ attended[m] = <<>> /\ m = Head(todo)
      /\ s \in Seqs /\ s \notin ended
      /\ c \in Nat /\ q \in Nat /\ q # 0 /\ c = cached[s] /\ c + q <= Room(table[s])
      /\ step # Mla!NoStep /\ step.metadata.seq = s /\ step.metadata.total = c + q /\ step.query = q
      /\ todo # <<>> /\ todo' = Tail(todo) /\ install = {}
      BY <1>f DEF ForwardOf
<1>2. UNCHANGED <<eligible, index, adapted, adapting, context, table, cached, ended, step, install>>
      BY <1>f DEF ForwardOf
<1>3. /\ \A p \in 1 .. c + q : p > c =>
           content'[<<m>> \o Mla!Slot(table[s], p)] = [seq |-> s, at |-> p]
      /\ \A l \in Modules, r \in Seqs : \A p \in 1 .. Room(table[r]) :
           ~(l = m /\ r = s /\ p > c) =>
             content'[<<l>> \o Mla!Slot(table[r], p)] = content[<<l>> \o Mla!Slot(table[r], p)]
      BY <1>f DEF ForwardOf
<1>4. attended' = [attended EXCEPT ![m] =
        [i \in 1 .. q |-> [p \in 1 .. c + i |-> content'[<<m>> \o Mla!Slot(table[s], p)]]]]
      BY <1>f DEF ForwardOf
<1>5. /\ DOMAIN attended' = Modules
      /\ attended'[m] = [i \in 1 .. q |-> [p \in 1 .. c + i |-> content'[<<m>> \o Mla!Slot(table[s], p)]]]
      /\ \A l \in Modules : l # m => attended'[l] = attended[l]
  <2>1. DOMAIN attended = Modules  BY <1>0 DEF LatentTypes
  <2>2. PICK F : F = [i \in 1 .. q |-> [p \in 1 .. c + i |-> content'[<<m>> \o Mla!Slot(table[s], p)]]]
        OBVIOUS
  <2>3. attended' = [attended EXCEPT ![m] = F]  BY <1>4, <2>2, Zenon
  <2>4. DOMAIN attended' = Modules /\ attended'[m] = F /\ \A l \in Modules : l # m => attended'[l] = attended[l]
        BY <1>1, <2>1, <2>3
  <2> QED  BY <2>2, <2>4, Zenon
<1>T. \A r \in Seqs : Room(table[r]) \in Nat /\ cached[r] \in Nat /\ cached[r] <= Room(table[r])
      BY <1>0, RoomNat DEF LatentTypes, TablesInv
<1>t. PICK T : T \in Seq(Modules) /\ T = todo  BY <1>0 DEF LatentTypes
<1>6. /\ todo' \in Seq(Modules)
      /\ \A k \in 1 .. Len(todo') : k + 1 \in 1 .. Len(todo) /\ todo'[k] = todo[k + 1]
      /\ 1 \in 1 .. Len(todo) /\ todo[1] = m
  <2>1. /\ Tail(T) \in Seq(Modules) /\ Len(Tail(T)) = Len(T) - 1 /\ Head(T) = T[1]
        /\ \A k \in 1 .. Len(T) - 1 : Tail(T)[k] = T[k + 1]
        BY <1>1, <1>t
  <2>2. Len(T) \in Nat /\ Len(T) # 0  BY <1>1, <1>t
  <2> QED  BY <1>1, <1>t, <2>1, <2>2
<1>7. LatentTypes'
  <2>1. \A j, k \in 1 .. Len(todo') : todo'[j] = todo'[k] => j = k
    <3> SUFFICES ASSUME NEW j \in 1 .. Len(todo'), NEW k \in 1 .. Len(todo'), todo'[j] = todo'[k] PROVE j = k
        OBVIOUS
    <3>0. PICK a, b : a = j + 1 /\ b = k + 1  OBVIOUS
    <3>1. a \in 1 .. Len(todo) /\ b \in 1 .. Len(todo) /\ todo[a] = todo[b]  BY <1>6, <3>0
    <3>2. a = b  BY <1>0, <3>1 DEF LatentTypes
    <3> QED  BY <3>0, <3>2
  <2> QED  BY <1>0, <1>2, <1>5, <1>6, <2>1 DEF LatentTypes
<1>8. TablesInv'  BY <1>0, <1>2 DEF TablesInv
<1>9. StepInv'
  <2>1. \A k \in 1 .. Len(todo') : attended'[todo'[k]] = <<>>
    <3> SUFFICES ASSUME NEW k \in 1 .. Len(todo') PROVE attended'[todo'[k]] = <<>>  OBVIOUS
    <3>1. k + 1 \in 1 .. Len(todo) /\ todo'[k] = todo[k + 1]  BY <1>6
    <3>2. todo'[k] # m
      <4>1. k + 1 # 1  OBVIOUS
      <4> QED  BY <1>0, <1>6, <3>1, <4>1 DEF LatentTypes
    <3>3. todo'[k] \in Modules  BY <1>6
    <3>4. attended[todo'[k]] = <<>>  BY <1>0, <1>1, <3>1 DEF StepInv
    <3> QED  BY <1>5, <3>2, <3>3, <3>4
  <2> QED  BY <1>0, <1>1, <1>2, <2>1 DEF StepInv
<1>10. ASSUME NEW l \in adapted, NEW r \in Seqs, NEW p \in 1 .. Room(table[r]),
              Held(l, r, p), ~(l = m /\ r = s /\ p > c)
       PROVE  content'[<<l>> \o Mla!Slot(table[r], p)] = [seq |-> r, at |-> p]
  <2>1. l \in Modules  BY <1>0 DEF LatentTypes
  <2>2. content'[<<l>> \o Mla!Slot(table[r], p)] = content[<<l>> \o Mla!Slot(table[r], p)]
        BY <1>3, <1>10, <2>1
  <2> QED  BY <1>10, <2>2 DEF Held
<1>11. ASSUME NEW l \in adapted, NEW r \in Seqs, NEW p \in 1 .. cached[r]
       PROVE  content'[<<l>> \o Mla!Slot(table[r], p)] = [seq |-> r, at |-> p]
  <2>1. Held(l, r, p)  BY <1>0 DEF ContentInv
  <2>2. p \in 1 .. Room(table[r])  BY <1>T
  <2>3. ~(l = m /\ r = s /\ p > c)  BY <1>1
  <2> QED  BY <1>10, <2>1, <2>2, <2>3
<1>12. ASSUME NEW l \in adapted, attended'[l] # <<>>, NEW p \in 1 .. c + q
       PROVE  content'[<<l>> \o Mla!Slot(table[s], p)] = [seq |-> s, at |-> p]
  <2>0. p \in 1 .. Room(table[s]) /\ s \in Seqs  BY <1>1, <1>T
  <2>1. CASE l = m /\ p > c  BY <1>3, <2>1
  <2>2. CASE l = m /\ ~(p > c)
    <3>1. p \in 1 .. cached[s]  BY <1>1, <2>2
    <3> QED  BY <1>11, <2>0, <3>1
  <2>3. CASE l # m
    <3>1. l \in Modules  BY <1>0 DEF LatentTypes
    <3>2. attended[l] # <<>>  BY <1>5, <1>12, <2>3, <3>1
    <3>3. Held(l, s, p)
      <4>1. \A k \in adapted : attended[k] # <<>> =>
              \A u \in 1 .. step.metadata.total : Held(k, step.metadata.seq, u)
            BY <1>0, <1>1 DEF ContentInv
      <4> QED  BY <1>1, <3>2, <4>1
    <3> QED  BY <1>10, <2>0, <2>3, <3>3
  <2> QED  BY <2>1, <2>2, <2>3
<1>13. ContentInv'
  <2>1. ASSUME NEW l \in adapted, NEW r \in Seqs, NEW p \in 1 .. cached[r] PROVE Held(l, r, p)'
        BY <1>2, <1>11 DEF Held
  <2>2. ASSUME NEW l \in adapted, attended'[l] # <<>>, NEW p \in 1 .. c + q PROVE Held(l, s, p)'
        BY <1>2, <1>12, <2>2 DEF Held
  <2>3. step'.metadata.total = c + q /\ step'.metadata.seq = s  BY <1>1, <1>2
  <2>4. \A l \in adapted' : attended'[l] # <<>> =>
          \A p \in 1 .. step'.metadata.total : Held(l, step.metadata.seq, p)'
    <3> SUFFICES ASSUME NEW l \in adapted, attended'[l] # <<>>, NEW p \in 1 .. c + q
                 PROVE  Held(l, step.metadata.seq, p)'
        BY <1>2, <2>3
    <3>1. Held(l, s, p)'  BY <2>2
    <3> QED  BY <2>3, <3>1 DEF Held
  <2> QED  BY <1>2, <2>1, <2>4 DEF ContentInv
<1>14. Mla!AttendsOwnPrefix'
  <2>1. step'.metadata.total - step'.query = c /\ step'.metadata.seq = s
    <3>1. (c + q) - q = c  BY <1>1
    <3> QED  BY <1>1, <1>2, <3>1
  <2>2. attended'[m] # <<>>
    <3>1. 1 \in 1 .. q  BY <1>1
    <3>2. 1 \in DOMAIN attended'[m]  BY <1>5, <3>1
    <3> QED  BY <3>2
  <2>3. ASSUME NEW i \in DOMAIN attended'[m]
        PROVE  attended'[m][i] = [p \in 1 .. c + i |-> [seq |-> s, at |-> p]]
    <3>1. i \in 1 .. q  BY <1>5
    <3>2. attended'[m][i] = [p \in 1 .. c + i |-> content'[<<m>> \o Mla!Slot(table[s], p)]]
          BY <1>5, <3>1, Zenon
    <3>3. \A p \in 1 .. c + i : p \in 1 .. c + q  BY <1>1, <3>1
    <3>4. \A p \in 1 .. c + i : content'[<<m>> \o Mla!Slot(table[s], p)] = [seq |-> s, at |-> p]
          BY <1>1, <1>12, <2>2, <3>3
    <3> QED  BY <3>2, <3>4, Zenon
  <2>4. ASSUME NEW l \in Modules, l # m, NEW i \in DOMAIN attended'[l]
        PROVE  attended'[l][i] = [p \in 1 .. c + i |-> [seq |-> s, at |-> p]]
    <3>1. attended'[l] = attended[l]  BY <1>5, <2>4
    <3>2. attended[l][i] = [p \in 1 .. step.metadata.total - step.query + i |->
                              [seq |-> step.metadata.seq, at |-> p]]
          BY <3>1 DEF LatentInv, Mla!AttendsOwnPrefix
    <3>3. step.metadata.total - step.query = c  BY <1>2, <2>1
    <3> QED  BY <1>1, <3>1, <3>2, <3>3, Zenon
  <2>5. \A l \in Modules : \A i \in DOMAIN attended'[l] :
          attended'[l][i] = [p \in 1 .. step'.metadata.total - step'.query + i |->
                               [seq |-> step'.metadata.seq, at |-> p]]
    <3> SUFFICES ASSUME NEW l \in Modules, NEW i \in DOMAIN attended'[l]
                 PROVE  attended'[l][i] = [p \in 1 .. step'.metadata.total - step'.query + i |->
                                            [seq |-> step'.metadata.seq, at |-> p]]
        OBVIOUS
    <3>1. attended'[l][i] = [p \in 1 .. c + i |-> [seq |-> s, at |-> p]]  BY <2>3, <2>4
    <3>2. PICK d : d = step'.metadata.total - step'.query  OBVIOUS
    <3>3. d = c  BY <2>1, <3>2
    <3>4. attended'[l][i] = [p \in 1 .. d + i |-> [seq |-> s, at |-> p]]  BY <3>1, <3>3, Zenon
    <3> QED  BY <2>1, <3>2, <3>4, Zenon
  <2> QED  BY <2>5, Zenon DEF Mla!AttendsOwnPrefix
<1> QED  BY <1>7, <1>8, <1>9, <1>13, <1>14 DEF LatentInv

(* Every step keeps the invariant of the latent cache.                     *)
LEMMA LatentStep ==
  ASSUME LatentInv, [Mla!Next]_(Mla!vars)
  PROVE  LatentInv'
<1>1. CASE Mla!AdaptModule  BY <1>1, AdaptStep
<1>2. CASE Mla!AdaptRaises \/ Mla!NotEligible  BY <1>2, NoAdaptStep
<1>3. ASSUME NEW s \in Seqs, Mla!EndSequence(s) PROVE LatentInv'  BY <1>3, EndStep
<1>4. ASSUME NEW s \in Seqs, NEW b \in Blocks, Mla!GrowTable(s, b) PROVE LatentInv'  BY <1>4, GrowStep
<1>5. ASSUME NEW s \in Seqs, NEW q \in 1 .. MaxQuery, NEW rows \in 1 .. 2, NEW short \in BOOLEAN,
             Mla!StartStep(s, q, rows, short)
      PROVE  LatentInv'
      BY <1>5, StartsStep
<1>6. ASSUME NEW m \in Modules, Mla!SetContext(m) \/ Mla!SkipContext(m) \/ Mla!ClearContext(m)
      PROVE  LatentInv'
      BY <1>6, ContextStep
<1>7. CASE Mla!Forward  BY <1>7, ForwardStep
<1>8. CASE Mla!ForwardRaises \/ Mla!StockForward  BY <1>8, NoWriteStep
<1>9. CASE Mla!StepDone  BY <1>9, CachedStep
<1>10. CASE UNCHANGED Mla!vars
  <2>1. UNCHANGED <<eligible, index, adapted, adapting, context, table, cached, ended, step, install, todo, content, attended>>
        BY <1>10 DEF Mla!vars, Mla!setup, Mla!pool
  <2>2. LatentTypes' /\ TablesInv' /\ StepInv'  BY <2>1 DEF LatentInv, LatentTypes, TablesInv, StepInv
  <2>3. ContentInv'  BY <2>1 DEF LatentInv, ContentInv, Held
  <2>4. Mla!AttendsOwnPrefix'  BY <2>1 DEF LatentInv, Mla!AttendsOwnPrefix
  <2> QED  BY <2>2, <2>3, <2>4 DEF LatentInv
<1> QED  BY <1>1, <1>2, <1>3, <1>4, <1>5, <1>6, <1>7, <1>8, <1>9, <1>10, Zenon DEF Mla!Next

(* A forward that raises has not written.                                  *)
LEMMA Refused ==
  ASSUME LatentInv, [Mla!Next]_(Mla!vars)
  PROVE  Mla!RefusedBeforeWriting
<1> SUFFICES ASSUME content' # content PROVE attended' # attended  BY DEF Mla!RefusedBeforeWriting
<1>1. Mla!Forward
  <2>1. Mla!Next
    <3>1. content' = content \/ Mla!Next  BY DEF Mla!vars
    <3> QED  BY <3>1
  <2> QED  BY <2>1, Zenon DEF Mla!Next, Mla!AdaptModule, Mla!AdaptRaises, Mla!NotEligible, Mla!GrowTable,
             Mla!EndSequence, Mla!StartStep, Mla!SetContext, Mla!SkipContext, Mla!ClearContext,
             Mla!ForwardRaises, Mla!StockForward, Mla!StepDone
<1>2. PICK m, s, c, q : ForwardOf(m, s, c, q)  BY <1>1, ForwardFacts
<1>3. /\ m \in Modules /\ attended[m] = <<>> /\ q \in Nat /\ q # 0
      /\ attended' = [attended EXCEPT ![m] =
            [i \in 1 .. q |-> [p \in 1 .. c + i |-> content'[<<m>> \o Mla!Slot(table[s], p)]]]]
      BY <1>2 DEF ForwardOf
<1>4. PICK F : F = [i \in 1 .. q |-> [p \in 1 .. c + i |-> content'[<<m>> \o Mla!Slot(table[s], p)]]]
      OBVIOUS
<1>5. DOMAIN F = 1 .. q  BY <1>4
<1>6. F # <<>>
  <2>1. 1 \in DOMAIN F  BY <1>3, <1>5
  <2> QED  BY <2>1
<1>7. attended' = [attended EXCEPT ![m] = F]  BY <1>3, <1>4, Zenon
<1>8. DOMAIN attended = Modules  BY DEF LatentInv, LatentTypes
<1>9. attended'[m] = F  BY <1>3, <1>7, <1>8
<1> QED  BY <1>3, <1>6, <1>9

(* The invariant has the types.                                            *)
LEMMA LatentTypeOK == LatentInv => Mla!TypeOK
<1> SUFFICES ASSUME LatentInv PROVE Mla!TypeOK  OBVIOUS
<1>0. LatentTypes /\ TablesInv  BY DEF LatentInv
<1>1. \A s \in Seqs : /\ DOMAIN table[s] = 1 .. Len(table[s])
                      /\ \A i \in 1 .. Len(table[s]) : table[s][i] \in Blocks
      BY <1>0 DEF LatentTypes
<1>2. \A s \in Seqs : Mla!ToSet(table[s]) \subseteq Blocks /\ cached[s] \in 0 .. MaxTokens
      BY <1>0, <1>1 DEF LatentTypes, Mla!ToSet
<1>3. \A r, s \in Seqs : r # s => Mla!ToSet(table[r]) \cap Mla!ToSet(table[s]) = {}
      BY <1>0, <1>1 DEF TablesInv, Mla!ToSet
<1>4. \A s \in Seqs : cached[s] <= Len(table[s]) * BlockSize  BY <1>0 DEF TablesInv, Room
<1> QED  BY <1>0, <1>2, <1>3, <1>4 DEF LatentTypes, Mla!TypeOK

(* The runner that passes modules over: whatever step a context is of, it  *)
(* names a sequence and lists blocks.                                      *)
Describes(md) == md.seq \in Seqs /\ md.blocks \in Seq(StaleBlocks)

TablesApart ==
  \A r, s \in Seqs : r # s =>
    \A i \in 1 .. Len(table[r]), k \in 1 .. Len(table[s]) : table[r][i] # table[s][k]

StaleInv ==
  /\ table \in [Seqs -> Seq(StaleBlocks)]
  /\ TablesApart
  /\ \A m \in Modules : index[m] \in {m, NoIndex}
  /\ adapted \subseteq Modules /\ install \subseteq adapted /\ DOMAIN context = Modules
  /\ \A m \in adapted : index[m] = m
  /\ install # {} => step # MlaStale!NoStep
  /\ step # MlaStale!NoStep => Describes(step.metadata)
  /\ \A m \in Modules : context[m] # MlaStale!None => Describes(context[m])

(* A context of the stale runner describes no batch at first.              *)
LEMMA StaleInitInv == MlaStale!Init => StaleInv
BY DEF MlaStale!Init, StaleInv, TablesApart

(* Every step of the runner keeps its metadata those of a batch.           *)
LEMMA StaleStep ==
  ASSUME StaleInv, [MlaStale!Next]_(MlaStale!vars)
  PROVE  StaleInv'
<1>a. table \in [Seqs -> Seq(StaleBlocks)]  BY DEF StaleInv
<1>b. TablesApart  BY DEF StaleInv
<1> USE DEF MlaStale!setup, MlaStale!pool, StaleInv
<1>0. UNCHANGED table => TablesApart'  BY DEF TablesApart
<1>1. CASE MlaStale!AdaptModule
  <2>1. adapting \in Modules /\ index[adapting] = adapting  BY <1>1 DEF MlaStale!AdaptModule
  <2>2. adapted' = adapted \cup {adapting} /\ context' = [context EXCEPT ![adapting] = MlaStale!None]
        /\ UNCHANGED <<index, table, step, install>>
        BY <1>1 DEF MlaStale!AdaptModule
  <2>3. DOMAIN context' = Modules /\ \A m \in Modules : context'[m] \in {MlaStale!None, context[m]}
        BY <2>1, <2>2
  <2> QED  BY <1>0, <2>1, <2>2, <2>3
<1>2. CASE \/ MlaStale!AdaptRaises \/ MlaStale!NotEligible \/ MlaStale!ForwardRaises
           \/ MlaStale!StockForward \/ MlaStale!StepDone \/ MlaStale!Forward
           \/ UNCHANGED MlaStale!vars
  <2>1. UNCHANGED <<index, adapted, context, table, step, install>>
        BY <1>2, Zenon DEF MlaStale!AdaptRaises, MlaStale!NotEligible, MlaStale!ForwardRaises,
              MlaStale!StockForward, MlaStale!StepDone, MlaStale!Forward, MlaStale!vars
  <2> QED  BY <1>0, <2>1
<1>3. ASSUME NEW s \in Seqs, MlaStale!EndSequence(s) PROVE StaleInv'
  <2>1. /\ UNCHANGED <<index, adapted, context, step, install>>
        /\ table' = [table EXCEPT ![s] = <<>>]
        BY <1>3 DEF MlaStale!EndSequence
  <2>2. table' \in [Seqs -> Seq(StaleBlocks)] /\ table'[s] = <<>>
        /\ \A r \in Seqs : r # s => table'[r] = table[r]
    <3>1. <<>> \in Seq(StaleBlocks)  OBVIOUS
    <3> QED  BY <2>1, <3>1
  <2>3. TablesApart'
    <3> HIDE DEF StaleInv
    <3>1. Len(table'[s]) = 0  BY <2>2
    <3> SUFFICES ASSUME NEW q \in Seqs, NEW r \in Seqs, q # r,
                        NEW i \in 1 .. Len(table'[q]), NEW k \in 1 .. Len(table'[r])
                 PROVE  table'[q][i] # table'[r][k]
        BY DEF TablesApart
    <3>2. q # s /\ r # s  BY <3>1
    <3>3. table'[q] = table[q] /\ table'[r] = table[r]  BY <2>2, <3>2
    <3> QED  BY <1>b, <3>3 DEF TablesApart
  <2> QED  BY <2>1, <2>2, <2>3
<1>4. ASSUME NEW s \in Seqs, NEW b \in StaleBlocks, MlaStale!GrowTable(s, b) PROVE StaleInv'
  <2>1. /\ UNCHANGED <<index, adapted, context, step, install>>
        /\ table' = [table EXCEPT ![s] = Append(@, b)]
        /\ \A r \in Seqs : b \notin MlaStale!ToSet(table[r])
        BY <1>4 DEF MlaStale!GrowTable
  <2>2. /\ table[s] \in Seq(StaleBlocks) /\ table'[s] = Append(table[s], b)
        /\ table' \in [Seqs -> Seq(StaleBlocks)]
        /\ \A r \in Seqs : r # s => table'[r] = table[r]
        BY <2>1
  <2>n. PICK n \in Nat : n = Len(table[s])  BY <2>2
  <2>3. /\ Len(table'[s]) = n + 1 /\ table'[s][n + 1] = b
        /\ \A i \in 1 .. n : table'[s][i] = table[s][i]
        /\ \A i \in 1 .. n + 1 : i \in 1 .. n \/ i = n + 1
        BY <2>2, <2>n
  <2>4. \A r \in Seqs : \A i \in 1 .. Len(table[r]) : table[r][i] # b
    <3>1. \A r \in Seqs : DOMAIN table[r] = 1 .. Len(table[r])  OBVIOUS
    <3> QED  BY <2>1, <3>1 DEF MlaStale!ToSet
  <2>5. ASSUME NEW r \in Seqs, r # s, NEW i \in 1 .. Len(table[r]), NEW k \in 1 .. n + 1
        PROVE  table[r][i] # table'[s][k]
    <3> HIDE DEF StaleInv
    <3>1. CASE k \in 1 .. n  BY <1>b, <2>3, <2>n, <2>5, <3>1 DEF TablesApart
    <3>2. CASE k = n + 1  BY <2>3, <2>4, <3>2
    <3> QED  BY <2>3, <3>1, <3>2
  <2>6. TablesApart'
    <3> SUFFICES ASSUME NEW q \in Seqs, NEW r \in Seqs, q # r,
                        NEW i \in 1 .. Len(table'[q]), NEW k \in 1 .. Len(table'[r])
                 PROVE  table'[q][i] # table'[r][k]
        BY DEF TablesApart
    <3>1. CASE q = s  BY <2>2, <2>3, <2>5, <3>1
    <3>2. CASE r = s  BY <2>2, <2>3, <2>5, <3>2
    <3>3. CASE q # s /\ r # s  BY <1>b, <2>2, <3>3 DEF TablesApart
    <3> QED  BY <3>1, <3>2, <3>3
  <2> QED  BY <2>1, <2>2, <2>6
<1>5. ASSUME NEW s \in Seqs, NEW q, NEW rows \in 1 .. 2, NEW short, MlaStale!StartStep(s, q, rows, short)
      PROVE  StaleInv'
  <2>1. /\ UNCHANGED <<index, adapted, context, table>> /\ install' = adapted
        /\ step'.metadata.seq = s /\ step'.metadata.blocks = table[s] /\ step'.rows = rows
        BY <1>5 DEF MlaStale!StartStep
  <2>2. Describes(step.metadata)'  BY <2>1 DEF Describes
  <2>3. step' # MlaStale!NoStep
    <3>1. step'.rows # 0  BY <2>1
    <3> QED  BY <3>1 DEF MlaStale!NoStep
  <2> QED  BY <1>0, <2>1, <2>2, <2>3
<1>6. ASSUME NEW m \in Modules, MlaStale!SetContext(m) PROVE StaleInv'
  <2>1. /\ UNCHANGED <<index, adapted, table, step>> /\ install' = install \ {m} /\ m \in install
        /\ context' = [context EXCEPT ![m] = step.metadata]
        BY <1>6 DEF MlaStale!SetContext
  <2>2. Describes(step.metadata)  BY <2>1
  <2>3. DOMAIN context' = Modules /\ \A l \in Modules : context'[l] \in {step.metadata, context[l]}
        BY <2>1
  <2> QED  BY <1>0, <2>1, <2>2, <2>3 DEF Describes
<1>7. ASSUME NEW m \in Modules, MlaStale!SkipContext(m) PROVE StaleInv'
  <2>1. UNCHANGED <<index, adapted, table, step, context>> /\ install' = install \ {m} /\ m \in install
        BY <1>7 DEF MlaStale!SkipContext
  <2> QED  BY <1>0, <2>1
<1>8. ASSUME NEW m \in Modules, MlaStale!ClearContext(m) PROVE StaleInv'
  <2>1. UNCHANGED <<index, adapted, table, step, install>>
        /\ context' = [context EXCEPT ![m] = MlaStale!None]
        BY <1>8 DEF MlaStale!ClearContext
  <2>2. DOMAIN context' = Modules /\ \A l \in Modules : context'[l] \in {MlaStale!None, context[l]}
        BY <2>1
  <2> QED  BY <1>0, <2>1, <2>2
<1> HIDE DEF StaleInv
<1> QED  BY <1>1, <1>2, <1>3, <1>4, <1>5, <1>6, <1>7, <1>8, Zenon DEF MlaStale!Next

(* The blocks of a prefix are blocks of the table.                         *)
LEMMA PrefixHolds ==
  ASSUME NEW B \in Seq(StaleBlocks), NEW U \in Seq(StaleBlocks), MlaStale!IsPrefix(B, U), NEW b \in MlaStale!ToSet(B)
  PROVE  b \in MlaStale!ToSet(U)
<1>1. Len(B) <= Len(U) /\ SubSeq(B, 1, Len(B)) = SubSeq(U, 1, Len(B))  BY DEF MlaStale!IsPrefix
<1>2. PICK i \in 1 .. Len(B) : B[i] = b  BY DEF MlaStale!ToSet
<1>n. PICK n \in Nat, k \in Nat : n = Len(B) /\ k = Len(U)  OBVIOUS
<1>3. i \in 1 .. n /\ n <= k /\ DOMAIN U = 1 .. k  BY <1>1, <1>2, <1>n
<1>4. SubSeq(B, 1, n)[i] = B[i] /\ SubSeq(U, 1, n)[i] = U[i]
  <2>1. SubSeq(B, 1, n) = [j \in 1 .. n |-> B[j]]  BY <1>n
  <2>2. SubSeq(U, 1, n) = [j \in 1 .. n |-> U[j]]  BY <1>n, <1>3
  <2> QED  BY <1>3, <2>1, <2>2
<1>5. U[i] = b /\ i \in DOMAIN U  BY <1>1, <1>2, <1>n, <1>3, <1>4
<1> QED  BY <1>5 DEF MlaStale!ToSet

(* Under its context a module writes only blocks of the context's sequence.*)
LEMMA StaleWrites ==
  ASSUME StaleInv, [MlaStale!Next]_(MlaStale!vars)
  PROVE  MlaStale!LeavesOthers
<1>0. /\ table \in [Seqs -> Seq(StaleBlocks)] /\ TablesApart
      /\ adapted \subseteq Modules /\ \A m \in Modules : context[m] # MlaStale!None => Describes(context[m])
      BY DEF StaleInv
<1>1. content' = content \/ MlaStale!Forward
  <2>1. content' = content \/ MlaStale!Next  BY DEF MlaStale!vars
  <2> QED  BY <2>1, Zenon DEF MlaStale!Next, MlaStale!AdaptModule, MlaStale!AdaptRaises, MlaStale!NotEligible,
             MlaStale!GrowTable, MlaStale!EndSequence, MlaStale!StartStep, MlaStale!SetContext,
             MlaStale!SkipContext, MlaStale!ClearContext, MlaStale!ForwardRaises,
             MlaStale!StockForward, MlaStale!StepDone
<1> SUFFICES ASSUME NEW s \in Seqs, NEW b \in MlaStale!ToSet(table[s]), NEW l \in Modules, NEW o \in 0 .. 1 - 1,
                    content'[<<l, b, o>>] # content[<<l, b, o>>]
             PROVE  \E m \in adapted : context[m].seq = s /\ index[m] = l
    BY DEF MlaStale!LeavesOthers
<1>2. MlaStale!Forward  BY <1>1
<1>m. PICK m : m = Head(todo)  OBVIOUS
<1>d. PICK md : md = context[m]  OBVIOUS
<1>3. m \in adapted /\ MlaStale!Accepts(md) /\ content' = MlaStale!Written(m, md)
      BY <1>2, <1>m, <1>d, Zenon DEF MlaStale!Forward
<1>4. md # MlaStale!None /\ MlaStale!Owned(md)  BY <1>3 DEF MlaStale!Accepts
<1>5. m \in Modules /\ Describes(md)  BY <1>0, <1>3, <1>4, <1>d
<1>t. \A r \in Seqs : table[r] \in Seq(StaleBlocks) /\ DOMAIN table[r] = 1 .. Len(table[r])
  <2>1. table \in [Seqs -> Seq(StaleBlocks)]  BY <1>0
  <2>2. \A r \in Seqs : table[r] \in Seq(StaleBlocks)  BY <2>1
  <2> QED  BY <2>2
<1>x. PICK x : x = <<l, b, o>>  OBVIOUS
<1>6. x[1] = l /\ x[2] = b /\ x[3] = o /\ content'[x] # content[x]  BY <1>x
<1>7. x \in Modules \X StaleBlocks \X (0 .. 1 - 1)
  <2>1. b \in StaleBlocks
    <3>1. PICK i \in DOMAIN table[s] : b = table[s][i]  BY DEF MlaStale!ToSet
    <3> QED  BY <1>t, <3>1
  <2> QED  BY <1>x, <2>1, Zenon
<1>8. l = index[m] /\ \E i \in DOMAIN md.slots : md.slots[i] = <<b, o>>
  <2>1. x[1] = index[m] /\ \E i \in DOMAIN md.slots : md.slots[i] = <<x[2], x[3]>>
        BY <1>3, <1>6, <1>7, Zenon DEF MlaStale!Written
  <2> QED  BY <1>6, <2>1, Zenon
<1>9. b \in MlaStale!ToSet(md.blocks)
  <2>1. PICK i \in DOMAIN md.slots : md.slots[i] = <<b, o>>  BY <1>8
  <2>2. md.slots[i][1] \in MlaStale!ToSet(md.blocks)  BY <1>4 DEF MlaStale!Owned
  <2> QED  BY <2>1, <2>2
<1>10. md.seq \in Seqs /\ b \in MlaStale!ToSet(table[md.seq])
  <2>1. md.seq \in Seqs /\ md.blocks \in Seq(StaleBlocks) /\ table[md.seq] \in Seq(StaleBlocks)
        BY <1>5, <1>t DEF Describes
  <2>2. MlaStale!IsPrefix(md.blocks, table[md.seq])  BY <1>4 DEF MlaStale!Owned
  <2> QED  BY <1>9, <2>1, <2>2, PrefixHolds
<1>11. md.seq = s
  <2> SUFFICES ASSUME md.seq # s PROVE FALSE  OBVIOUS
  <2>1. PICK i \in 1 .. Len(table[md.seq]) : table[md.seq][i] = b  BY <1>t, <1>10 DEF MlaStale!ToSet
  <2>2. PICK k \in 1 .. Len(table[s]) : table[s][k] = b  BY <1>t DEF MlaStale!ToSet
  <2> QED  BY <1>0, <1>10, <2>1, <2>2 DEF TablesApart
<1> QED  BY <1>3, <1>8, <1>11, <1>d

-----------------------------------------------------------------------------
(* The latent cache of either runner.                                      *)
CacheInv ==
  /\ wrapper = "mla" => LatentInv
  /\ wrapper = "mla_stale" => StaleInv

(* The composed system keeps the invariants of both runners.               *)
LEMMA CacheInvStep ==
  /\ AttentionInit => CacheInv
  /\ CacheInv /\ [AttentionNext]_<<wrapper, vars, mla>> => CacheInv'
<1>1. AttentionInit => CacheInv
      BY LatentInitInv, StaleInitInv DEF AttentionInit, CacheInv
<1>2. UNCHANGED <<wrapper, vars, mla>> => UNCHANGED Mla!vars /\ UNCHANGED MlaStale!vars
      BY DEF vars, mla, run, registryVars, model, Mla!vars, Mla!setup, Mla!pool,
             MlaStale!vars, MlaStale!setup, MlaStale!pool
<1>3. [AttentionNext]_<<wrapper, vars, mla>> =>
        /\ wrapper' = wrapper
        /\ wrapper = "mla" => [Mla!Next]_(Mla!vars)
        /\ wrapper = "mla_stale" => [MlaStale!Next]_(MlaStale!vars)
      BY <1>2, Zenon DEF AttentionNext
<1>4. ASSUME CacheInv, [AttentionNext]_<<wrapper, vars, mla>> PROVE CacheInv'
      BY <1>3, <1>4, LatentStep, StaleStep DEF CacheInv
<1> QED  BY <1>1, <1>4

(* They hold in every state.                                               *)
LEMMA CacheAlways == AttentionSpec => []CacheInv
BY CacheInvStep, PTL DEF AttentionSpec

(* However sequences alternate, blocks are reused, and steps that a module *)
(* refused are repeated, every query of every adapted module attends to    *)
(* the tokens of its own sequence up to itself, in order.                  *)
THEOREM LatentsAreOwn == AttentionSpec => []LatentsOfOwnPrefix
<1>1. CacheInv => LatentsOfOwnPrefix
      BY LatentTypeOK DEF CacheInv, LatentsOfOwnPrefix, LatentInv
<1> QED  BY <1>1, CacheAlways, PTL

(* A forward that refuses has written nothing, and with a context of any   *)
(* earlier step a module writes only blocks that are its sequence's now.   *)
THEOREM LatentsAreWrittenByOwners == AttentionSpec => LatentWritesOwned
<1> DEFINE Step == /\ wrapper = "mla" => Mla!RefusedBeforeWriting
                   /\ wrapper = "mla_stale" => MlaStale!LeavesOthers
<1>1. ASSUME CacheInv, [AttentionNext]_<<wrapper, vars, mla>> PROVE [Step]_<<wrapper, vars, mla>>
  <2>1. CASE AttentionNext
    <3>1. CASE wrapper = "mla"
      <4>1. Mla!Next  BY <2>1, <3>1 DEF AttentionNext
      <4> QED  BY <1>1, <3>1, <4>1, Refused DEF CacheInv
    <3>2. CASE wrapper = "mla_stale"
      <4>1. MlaStale!Next  BY <2>1, <3>2 DEF AttentionNext
      <4> QED  BY <1>1, <3>2, <4>1, StaleWrites DEF CacheInv
    <3> QED  BY <3>1, <3>2
  <2> QED  BY <1>1, <2>1
<1> QED  BY <1>1, CacheAlways, PTL DEF AttentionSpec, LatentWritesOwned
==============================================================================
