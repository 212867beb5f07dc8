------------------------------ MODULE Attention ------------------------------
(***************************************************************************)
(* The attention wrappers a serving process may use: modules registered    *)
(* for a paged cache, or DeepSeek modules adapted to the latent cache.     *)
(* The runner of the latter sets the context of every module before each   *)
(* step, or passes some over.                                              *)
(***************************************************************************)
EXTENDS PagedAttention

CONSTANTS
  Seqs, Blocks, BlockSize, MaxQuery, MaxTokens,
  StaleBlocks   \* blocks of one token, for the runner that passes modules over

ASSUME MlaAssumption == BlockSize \in Nat \ {0} /\ MaxQuery \in Nat /\ MaxTokens \in Nat

VARIABLES
  wrapper,   \* "paged", "mla" or "mla_stale"
  eligible, adapted, adapting, context, table, cached, ended, step, install, content, attended

mla == <<eligible, adapted, adapting, context, table, cached, ended, step, install, content, attended>>

Mla      == INSTANCE MlaAttention WITH MaySkip <- FALSE
MlaStale == INSTANCE MlaAttention WITH MaySkip <- TRUE, BlockSize <- 1, MaxQuery <- 1,
                                       Blocks <- StaleBlocks, MaxTokens <- MaxTokens - 1

\* What the wrapper that is not used leaves alone.
NoMla   == <<"none">>
MlaIdle == /\ eligible = NoMla /\ adapted = NoMla /\ adapting = NoMla /\ context = NoMla
           /\ table = NoMla /\ cached = NoMla /\ ended = NoMla /\ step = NoMla
           /\ install = NoMla /\ content = NoMla /\ attended = NoMla
PagedIdle == /\ kind = [m \in Modules |-> "mla_v2"] /\ bound = {}
             /\ ownContext = [m \in Modules |-> Inherit] /\ classContext = [k \in Kinds |-> Cleared]
             /\ scan = 0 /\ storage = 0 /\ found = {} /\ registries = <<>> /\ raised = 0
             /\ batch = NoBatch /\ history = 0 /\ cache = {} /\ results = <<>> /\ forwards = 0

pagedOnly == <<kind, bound, contexts, progress, batch, history, cache, results, forwards>>

AttentionInit ==
  \/ wrapper = "paged" /\ Init /\ MlaIdle
  \/ wrapper = "mla" /\ PagedIdle /\ Mla!Init
  \/ wrapper = "mla_stale" /\ PagedIdle /\ MlaStale!Init

AttentionNext ==
  \/ wrapper = "paged" /\ Next /\ UNCHANGED <<wrapper, mla>>
  \/ wrapper = "mla" /\ Mla!Next /\ UNCHANGED <<wrapper, pagedOnly>>
  \/ wrapper = "mla_stale" /\ MlaStale!Next /\ UNCHANGED <<wrapper, pagedOnly>>

AttentionSpec == AttentionInit /\ [][AttentionNext]_<<wrapper, vars, mla>>
-----------------------------------------------------------------------------
(* Registrations that raise half-way or are repeated leave every module to *)
(* one registry at most, with the proxy of its own layer.  No registry is  *)
(* returned for a model with a DeepSeek-V2 module, and one that was        *)
(* returned has all the Qwen3 modules unless some call raised; the OLMoE   *)
(* and DeepSeek-V3 modules of the model are in none.                       *)
RegistriesSound ==
  wrapper = "paged" => TypeOK /\ OneRegistryPerModule /\ ProxyOfOwnLayer /\ RegistryCovers

(* However sequences alternate over reused blocks, and steps that a module *)
(* refused are repeated, every query of the latent attention reads its own *)
(* sequence up to itself.                                                  *)
LatentsOfOwnPrefix == wrapper = "mla" => Mla!TypeOK /\ Mla!AttendsOwnPrefix

(* A module left with the context of an earlier step never writes a block  *)
(* that has gone to another sequence, and one that refuses a step has      *)
(* written nothing for it.                                                 *)
LatentWritesOwned ==
  [][/\ wrapper = "mla" => Mla!RefusedBeforeWriting
     /\ wrapper = "mla_stale" => MlaStale!LeavesOthers]_<<wrapper, vars, mla>>
=============================================================================
