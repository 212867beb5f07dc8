---------------------------- MODULE PagedAttention ----------------------------
(***************************************************************************)
(* The forwards of Qwen3PagedAttention, OlmoePagedAttention and            *)
(* DeepseekV2/V3PagedAttention under the contexts of PagedRegistry.  A     *)
(* batch is padded to its longest query; the valid tokens are packed for   *)
(* the backend, which writes one cache slot per token, and the results     *)
(* are scattered back.                                                     *)
(***************************************************************************)
EXTENDS PagedRegistry, SequencesExt

CONSTANTS
  BackendTakesLayer,  \* the backend has the parameter layer_idx
  MayRaise,           \* the backend may raise inside its forward
  HistoryLengths,     \* tokens per row already in past_key_values, 0 if it is unset
  MaxForwards         \* bound on the batches run

VARIABLES
  batch,     \* the batch being run, or the last one
  history,   \* tokens per row in its past_key_values
  todo,      \* modules its forward has not reached
  cache,     \* the set of writes [layer, slot, token, writer] the cache holds
  results,   \* what the forwards of this batch returned
  forwards

NoBatch == <<>>   \* nothing has been run yet
run  == <<batch, history, todo, results, forwards>>
vars == <<registryVars, run, cache>>

ASSUME AttentionAssumption ==
  /\ Batches \subseteq Seq(Nat) \ {NoBatch}     \* the query lengths of the rows
  /\ HistoryLengths \subseteq Nat /\ MaxForwards \in Nat
  /\ BackendTakesLayer \in BOOLEAN /\ MayRaise \in BOOLEAN
-----------------------------------------------------------------------------
QLen(b)      == CHOOSE n \in ToSet(b) : \A l \in ToSet(b) : l <= n
Places(b)    == (1 .. Len(b)) \X (1 .. QLen(b))
Valid(b, p)  == p[2] <= b[p[1]]
RowMajor(b)  == [i \in 1 .. Len(b) * QLen(b) |-> <<((i - 1) \div QLen(b)) + 1, ((i - 1) % QLen(b)) + 1>>]
Uniform(b)   == \A r \in DOMAIN b : b[r] = QLen(b)

(* _valid_token_index: the rows' first tokens, by their index in the batch.*)
Pack(lens, width) ==
  FlattenSeq([r \in DOMAIN lens |-> [c \in 1 .. lens[r] |-> (r - 1) * width + c]])

Packed(meta) == Len(meta) = Len(batch) /\ \E r \in DOMAIN meta : meta[r] # QLen(batch)
Index(meta)  == IF Packed(meta) THEN Pack(meta, QLen(batch)) ELSE [i \in 1 .. Len(batch) * QLen(batch) |-> i]

(* past_key_values.update returns the earlier tokens of each row before    *)
(* the new ones: a token of column 0 or less is an earlier one.            *)
KeysWith(past) ==
  FlattenSeq([r \in DOMAIN batch |-> [c \in 1 .. past + QLen(batch) |-> <<r, c - past>>]])

(* Cache slots of the metadata's batch, in the order of its tokens.        *)
Slots(meta) == FlattenSeq([r \in DOMAIN meta |-> [c \in 1 .. meta[r] |-> <<r, c>>]])

(* The layer a context's backend is called for: a proxy restores its own   *)
(* layer and passes it whatever the module gives; the default is 0.        *)

LayerAtCalled(c, layer) == IF layer = NoIndex THEN 0 ELSE layer   \* mutant: no layer is restored

LayerAt(c, layer) ==
  IF c.proxy # 0 THEN index[c.proxy] ELSE IF layer = NoIndex THEN 0 ELSE layer
Accepts(c, layer) == BackendTakesLayer \/ (c.proxy = 0 /\ layer = NoIndex)

Written(m, meta, keys, layer) ==
  LET fresh == {[layer |-> layer, slot |-> Slots(meta)[i], token |-> keys[i], writer |-> m] :
                  i \in 1 .. Len(keys)}
  IN  {w \in cache : \A f \in fresh : w.layer # f.layer \/ w.slot # f.slot} \cup fresh

ScatterInOrder(index_, places) ==   \* mutant: the results stay where the backend put them
  [i \in 1 .. places |-> IF i <= Len(index_) THEN index_[i] ELSE 0]

(* index_copy_ into zeros: the token whose result each place holds, or 0.  *)
Scatter(index_, places) == [i \in 1 .. places |-> IF i \in ToSet(index_) THEN i ELSE 0]

(* How a call of the backend may end, and whether it wrote the cache.      *)
Outcomes(c, layer, keys) ==
  IF ~Accepts(c, layer) THEN {[ends |-> "type_error", writes |-> FALSE]}
  ELSE IF Len(keys) # Len(Slots(c.batch)) THEN {[ends |-> "raises", writes |-> FALSE]}
  ELSE {[ends |-> "returns", writes |-> TRUE]}
         \cup IF MayRaise THEN [ends : {"type_error", "raises"}, writes : BOOLEAN] ELSE {}

Init ==
  /\ RegistryInit
  /\ batch = NoBatch /\ history = 0 /\ todo = <<>>
  /\ cache = {} /\ results = <<>> /\ forwards = 0

(* The serving runner runs its attention layers in order.                  *)
StartBatch(b, h) ==
  /\ scan = 0 /\ todo = <<>>
  /\ forwards < MaxForwards
  /\ batch' = b /\ history' = h
  /\ todo' = [m \in Modules |-> m]
  /\ results' = <<>> /\ forwards' = forwards + 1
  /\ UNCHANGED <<registryVars, cache>>

Next1(k)  == todo # <<>> /\ kind[Head(todo)] = k
Raises    == todo' = <<>> /\ UNCHANGED results

(* No backend or no metadata: the stock attention of transformers runs.    *)
EagerForward ==
  /\ todo # <<>> /\ ContextOf(Head(todo)).state # "live"
  /\ results' = Append(results, [module |-> Head(todo), mode |-> "eager"])
  /\ todo' = Tail(todo)
  /\ UNCHANGED <<registryVars, batch, history, forwards, cache>>

(* Packing, the call of the backend, and scattering.                       *)
Paged(layer, retries, past) ==
  LET m      == Head(todo)
      c      == ContextOf(m)
      places == Len(batch) * QLen(batch)
      at     == Index(c.batch)
      keys   == IF Packed(c.batch) THEN [i \in DOMAIN at |-> KeysWith(past)[at[i]]] ELSE KeysWith(past)
      Ends(o, again) ==
        /\ results' = Append(results,
              [module |-> m, mode |-> IF o.ends = "returns" THEN "paged" ELSE "raised",
               meta |-> c.batch, proxy |-> c.proxy, packed |-> Packed(c.batch),
               retried |-> again, outputs |-> Scatter(at, places)])
        /\ todo' = IF o.ends = "returns" THEN Tail(todo) ELSE <<>>
      First(o) == IF o.writes THEN Written(m, c.batch, keys, LayerAt(c, layer)) ELSE cache
  IN  /\ c.state = "live"
      /\ UNCHANGED <<registryVars, batch, history, forwards>>
      /\ \/ /\ \E i \in DOMAIN at : at[i] > places        \* index_select raises
            /\ Raises /\ UNCHANGED cache
         \/ /\ \A i \in DOMAIN at : at[i] <= places
            /\ \E o \in Outcomes(c, layer, keys) :
                 \/ /\ o.ends # "type_error" \/ ~retries
                    /\ cache' = First(o) /\ Ends(o, FALSE)
                 \/ /\ o.ends = "type_error" /\ retries
                    /\ \E p \in Outcomes(c, NoIndex, keys) :
                         /\ cache' = IF p.writes
                                     THEN LET W == Written(m, c.batch, keys, LayerAt(c, NoIndex))
                                          IN  W \cup {w \in First(o) : \A v \in W : v.layer # w.layer \/ v.slot # w.slot}
                                     ELSE First(o)
                         /\ Ends(p, TRUE)

OrZero(i) == IF i = NoIndex THEN 0 ELSE i

Qwen3Forward == Next1("qwen3") /\ Paged(index[Head(todo)], TRUE, history)
OlmoeForward == Next1("olmoe") /\ Paged(OrZero(index[Head(todo)]), TRUE, history)

(* past_key_values is ignored, and nothing is retried.                     *)
MlaV2Forward ==
  /\ Next1("mla_v2")
  /\ \/ Paged(OrZero(index[Head(todo)]), FALSE, 0)
     \/ /\ ContextOf(Head(todo)).state = "live"    \* position_embeddings is None
        /\ Raises
        /\ UNCHANGED <<registryVars, batch, history, forwards, cache>>
MlaV3Forward == Next1("mla_v3") /\ Paged(OrZero(index[Head(todo)]), FALSE, 0)

Next ==
  \/ /\ todo = <<>> /\ RegistryNext
     /\ UNCHANGED <<run, cache>>
  \/ \E b \in Batches, h \in HistoryLengths : StartBatch(b, h)
  \/ EagerForward \/ Qwen3Forward \/ OlmoeForward \/ MlaV2Forward \/ MlaV3Forward

Spec == Init /\ [][Next]_vars
-----------------------------------------------------------------------------
(* Every part of the state has its kind, and a slot of the cache holds one *)
(* token of one module's layer.                                            *)
TypeOK ==
  /\ RegistryTypeOK
  /\ batch \in Batches \cup {NoBatch} /\ history \in HistoryLengths \cup {0}
  /\ todo \in Seq(Modules) /\ forwards \in 0 .. MaxForwards
  /\ \A w \in cache : w.layer \in Indices \cup {0} /\ w.writer \in Modules
  /\ \A w, v \in cache : w.layer = v.layer /\ w.slot = v.slot => w = v

PagedResults == {results[i] : i \in {j \in DOMAIN results : results[j].mode = "paged"}}

(* Whatever metadata drives the packing, stale ones included, a place of   *)
(* the batch gets the result of its own token or zeros, and under the      *)
(* batch's own metadata every valid token gets its result.                 *)
ResultsInPlace ==
  \A r \in PagedResults : \A i \in DOMAIN r.outputs :
    /\ r.outputs[i] \in {0, i}
    /\ r.meta = batch => (r.outputs[i] = i <=> Valid(batch, RowMajor(batch)[i]))

(* Qwen3 and OLMoE modules put the keys of past_key_values before those of *)
(* the batch, and the packed selection still counts from the first key.    *)
TakesPast(r) == history > 0 /\ kind[r.module] \in {"qwen3", "olmoe"}

(* Through the proxies of a registry a batch leaves every token of it in   *)
(* its own slot of its own layer, though a TypeError inside the backend    *)
(* makes the module call it again without a layer.  Without a registry it  *)
(* needs distinct layer indices and a backend that is not called twice.    *)
(* Excluded is a ragged batch of Qwen3 or OLMoE run with past_key_values,  *)
(* whose packed selection takes earlier tokens into the slots; the         *)
(* DeepSeek modules do not look at past_key_values.                        *)
TokensInOwnSlots ==
  \A r \in PagedResults :
    /\ r.meta = batch
    /\ ~(r.packed /\ TakesPast(r))
    /\ \/ /\ r.proxy # 0
          /\ \A i \in DOMAIN results : results[i].mode # "eager" => results[i].proxy # 0
       \/ /\ BackendTakesLayer
          /\ \A m, n \in Modules : index[m] # NoIndex /\ (m # n => index[m] # index[n])
          /\ \A i \in DOMAIN results : results[i].mode # "eager" => ~results[i].retried
    => \A p \in Places(batch) : Valid(batch, p) =>
         [layer |-> index[r.module], slot |-> p, token |-> p, writer |-> r.module] \in cache
=============================================================================
