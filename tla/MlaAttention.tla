----------------------------- MODULE MlaAttention -----------------------------
(***************************************************************************)
(* wrappers/deepseek_mla_attention.py: DeepSeek attention modules adapted  *)
(* in place to write the latents of one sequence at a time to a paged      *)
(* cache and to read the whole sequence back.  The serving runner and the  *)
(* paged cache (blocks, owners, validate_owned_access) are external.       *)
(***************************************************************************)
EXTENDS Integers, Sequences, SequencesExt

CONSTANTS
  Modules,      \* attention modules, in the order of model.modules()
  NoIndex,      \* layer_idx is None
  Seqs, Blocks, BlockSize,
  MaxQuery,     \* bound on the tokens of one step
  MaxTokens,    \* bound on the tokens of a sequence
  MaySkip       \* the runner may leave the context of an earlier step on a module

VARIABLES
  eligible,    \* the flag and is_deepseek_mla_eligible(config)
  index,       \* layer_idx of each module
  adapted,     \* modules whose class is the paged one
  adapting,    \* the module adapt_deepseek_model is at, 0 when it has raised
  context,     \* _mla_metadata of each module
  table,       \* block table of each sequence
  cached,      \* tokens of each sequence the runner counts as cached
  ended,       \* sequences whose blocks were freed
  step,        \* the step being run, and its metadata
  install,     \* modules whose context the runner has yet to set for this step
  todo,        \* modules its forward has not reached
  content,     \* cache: the token in each slot of each layer
  attended     \* tokens each query of each module of this step attended to

setup == <<eligible, index, adapted, adapting>>
pool  == <<table, cached, ended>>
vars  == <<setup, context, pool, step, install, todo, content, attended>>

Done   == Cardinality(Modules) + 1   \* adapt_deepseek_model has returned
None   == [seq |-> "none"]
NoStep == [rows |-> 0]
Slot(blocks, p) == <<blocks[((p - 1) \div BlockSize) + 1], (p - 1) % BlockSize>>
-----------------------------------------------------------------------------
Init ==
  /\ eligible \in BOOLEAN
  /\ index \in {f \in [Modules -> Modules \cup {NoIndex}] : \A m \in Modules : f[m] \in {m, NoIndex}}
  /\ adapted = {} /\ adapting = 1
  /\ context = [m \in Modules |-> None]
  /\ table = [s \in Seqs |-> <<>>] /\ cached = [s \in Seqs |-> 0] /\ ended = {}
  /\ step = NoStep /\ install = {} /\ todo = <<>>
  /\ content = [x \in Modules \X Blocks \X (0 .. BlockSize - 1) |-> None]
  /\ attended = [m \in Modules |-> <<>>]

(* One module of adapt_deepseek_model.  Without eligibility it returns.    *)
AdaptModule ==
  /\ adapting \in Modules /\ eligible
  /\ index[adapting] # NoIndex
  /\ adapted' = adapted \cup {adapting}
  /\ context' = [context EXCEPT ![adapting] = None]
  /\ adapting' = adapting + 1
  /\ UNCHANGED <<eligible, index, pool, step, install, todo, content, attended>>

AdaptRaises ==
  /\ adapting \in Modules /\ eligible
  /\ index[adapting] = NoIndex
  /\ adapting' = 0
  /\ UNCHANGED <<eligible, index, adapted, context, pool, step, install, todo, content, attended>>

NotEligible ==
  /\ adapting = 1 /\ ~eligible
  /\ adapting' = Done
  /\ UNCHANGED <<eligible, index, adapted, context, pool, step, install, todo, content, attended>>

(* The runner gives a sequence a free block, and takes all of them back.   *)
GrowTable(s, b) ==
  /\ install = {} /\ todo = <<>> /\ s \notin ended
  /\ \A r \in Seqs : b \notin ToSet(table[r])
  /\ Len(table[s]) * BlockSize < MaxTokens
  /\ table' = [table EXCEPT ![s] = Append(@, b)]
  /\ UNCHANGED <<setup, context, cached, ended, step, install, todo, content, attended>>

EndSequence(s) ==
  /\ install = {} /\ todo = <<>> /\ cached[s] > 0
  /\ table' = [table EXCEPT ![s] = <<>>]
  /\ cached' = [cached EXCEPT ![s] = 0]
  /\ ended' = ended \cup {s}
  /\ UNCHANGED <<setup, context, step, install, todo, content, attended>>

(* The runner takes the next tokens of a sequence and describes them; two  *)
(* rows or a short attention mask are what the forward has to refuse.      *)
StartStep(s, q, rows, short) ==
  /\ adapting = Done /\ install = {} /\ todo = <<>> /\ s \notin ended
  /\ cached[s] + q <= MaxTokens /\ cached[s] + q <= Len(table[s]) * BlockSize
  /\ step' = [rows |-> rows, short |-> short, query |-> q,
              metadata |-> [seq |-> s, total |-> cached[s] + q, blocks |-> table[s],
                            slots |-> [i \in 1 .. q |-> Slot(table[s], cached[s] + i)]]]
  /\ install' = adapted
  /\ todo' = [m \in Modules |-> m]
  /\ attended' = [m \in Modules |-> <<>>]
  /\ UNCHANGED <<setup, context, pool, content>>

SetContext(m) ==
  /\ m \in install
  /\ install' = install \ {m}
  /\ context' = [context EXCEPT ![m] = step.metadata]
  /\ UNCHANGED <<setup, pool, step, todo, content, attended>>

SkipContext(m) ==
  /\ MaySkip /\ m \in install
  /\ install' = install \ {m}
  /\ UNCHANGED <<setup, context, pool, step, todo, content, attended>>

ClearContext(m) ==
  /\ install = {} /\ todo = <<>> /\ m \in adapted
  /\ context' = [context EXCEPT ![m] = None]
  /\ UNCHANGED <<setup, pool, step, install, todo, content, attended>>

(* validate_owned_access: the blocks are those of the sequence now, they   *)
(* hold its tokens, and the slots lie in them.                             *)
Owned(md) ==
  /\ md.seq \notin ended
  /\ IsPrefix(md.blocks, table[md.seq])
  /\ md.total <= Len(md.blocks) * BlockSize
  /\ \A i \in DOMAIN md.slots : md.slots[i][1] \in ToSet(md.blocks)

AcceptsUnowned(md) ==   \* mutant: validate_owned_access is not called
  /\ md # None
  /\ step.rows = 1
  /\ md.total >= step.query /\ Len(md.slots) = step.query
  /\ ~step.short

(* The checks of _mla_forward, all of them before the cache is touched.    *)
Accepts(md) ==
  /\ md # None
  /\ step.rows = 1
  /\ md.total >= step.query /\ Len(md.slots) = step.query
  /\ ~step.short
  /\ Owned(md)

(* The cache after write(layer_idx, latent, k_rope, slot_mapping).         *)
Written(m, md) ==
  [x \in Modules \X Blocks \X (0 .. BlockSize - 1) |->
     IF x[1] = index[m] /\ \E i \in DOMAIN md.slots : md.slots[i] = <<x[2], x[3]>>
     THEN [seq |-> step.metadata.seq,
           at |-> cached[step.metadata.seq] + (CHOOSE i \in DOMAIN md.slots : md.slots[i] = <<x[2], x[3]>>)]
     ELSE content[x]]

LimitAhead(md, i) == md.total - step.query + i + 1   \* mutant: one token too far

(* Query i of the step may attend to the tokens up to past_len + i.        *)
Limit(md, i) == md.total - step.query + i

Forward ==
  /\ install = {} /\ todo # <<>>
  /\ LET m == Head(todo)  md == context[m] IN
     /\ m \in adapted /\ Accepts(md)
     /\ content' = Written(m, md)
     /\ attended' = [attended EXCEPT ![m] = [i \in 1 .. step.query |->
          [p \in 1 .. (IF Limit(md, i) <= md.total THEN Limit(md, i) ELSE md.total) |->
             content'[<<index[m]>> \o Slot(md.blocks, p)]]]]
  /\ todo' = Tail(todo)
  /\ UNCHANGED <<setup, context, pool, step, install>>

(* The runner gives up the step; it may run it again.                      *)
ForwardRaises ==
  /\ install = {} /\ todo # <<>>
  /\ Head(todo) \in adapted /\ ~Accepts(context[Head(todo)])
  /\ todo' = <<>>
  /\ UNCHANGED <<setup, context, pool, step, install, content, attended>>

StockForward ==
  /\ install = {} /\ todo # <<>> /\ Head(todo) \notin adapted
  /\ todo' = Tail(todo)
  /\ UNCHANGED <<setup, context, pool, step, install, content, attended>>

(* The runner counts the tokens as cached once every module has run.       *)
StepDone ==
  /\ step # NoStep /\ install = {} /\ todo = <<>>
  /\ \A m \in adapted : attended[m] # <<>>
  /\ step.metadata.seq \notin ended
  /\ cached[step.metadata.seq] < step.metadata.total
  /\ cached' = [cached EXCEPT ![step.metadata.seq] = step.metadata.total]
  /\ UNCHANGED <<setup, context, table, ended, step, install, todo, content, attended>>

Next ==
  \/ AdaptModule \/ AdaptRaises \/ NotEligible
  \/ \E s \in Seqs :
       \/ EndSequence(s)
       \/ \E b \in Blocks : GrowTable(s, b)
       \/ \E q \in 1 .. MaxQuery, rows \in 1 .. 2, short \in BOOLEAN : StartStep(s, q, rows, short)
  \/ \E m \in Modules : SetContext(m) \/ SkipContext(m) \/ ClearContext(m)
  \/ Forward \/ ForwardRaises \/ StockForward \/ StepDone

Spec == Init /\ [][Next]_vars
-----------------------------------------------------------------------------
TypeOK ==
  /\ adapted \subseteq Modules /\ adapting \in 0 .. Done
  /\ eligible /\ adapting # 0 => adapted = {m \in Modules : m < adapting}
  /\ install \subseteq adapted /\ todo \in Seq(Modules)
  /\ \A s \in Seqs : ToSet(table[s]) \subseteq Blocks /\ cached[s] \in 0 .. MaxTokens
  /\ \A r, s \in Seqs : r # s => ToSet(table[r]) \cap ToSet(table[s]) = {}
  /\ \A s \in Seqs : cached[s] <= Len(table[s]) * BlockSize
  /\ \A m \in Modules : context[m] # None => m \in adapted

(* Every query attends to exactly the tokens of its own sequence up to     *)
(* itself, in order and from the module's own layer, however sequences     *)
(* alternate, blocks are reused and steps that failed half-way are run     *)
(* again.                                                                  *)
AttendsOwnPrefix ==
  \A m \in Modules : \A i \in DOMAIN attended[m] :
    attended[m][i] = [p \in 1 .. step.metadata.total - step.query + i |->
                        [seq |-> step.metadata.seq, at |-> p]]

(* Whatever metadata a module was left with, its forward only changes      *)
(* blocks that now belong to the sequence of that metadata: a block table  *)
(* of a sequence whose blocks went to another one is refused.              *)
LeavesOthers ==
  \A s \in Seqs : \A b \in ToSet(table[s]) : \A l \in Modules, o \in 0 .. BlockSize - 1 :
    content'[<<l, b, o>>] # content[<<l, b, o>>] =>
      \E m \in adapted : context[m].seq = s /\ index[m] = l

(* The cache changes only when a module also returns a result: a forward   *)
(* that raises has written nothing.                                        *)
RefusedBeforeWriting == content' # content => attended' # attended
=============================================================================
