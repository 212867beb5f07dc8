---------------------------- MODULE OfficialForward ----------------------------
(***************************************************************************)
(* The forwards the loaders bind: ranks that hold shards of one model run  *)
(* the same layers over the same tokens, each the experts of its own       *)
(* range, and meet in dist.all_reduce.  Attention is called in chunks of   *)
(* heads by the sharded loader.                                            *)
(***************************************************************************)
EXTENDS OfficialLoader

CONSTANTS
  Tokens,
  Routes,    \* answers of the gate: token -> experts
  Heads,     \* numbers of heads a rank may have
  Chunk      \* heads of one sparse_attn call; 16 in the code

ASSUME ForwardAssumption ==
  /\ Heads \subseteq Nat \ {0} /\ Chunk \in Nat \ {0}
  /\ \A j \in Jobs : /\ j.maxCalls \in Nat   \* bound on the MoE calls of a rank
                     /\ j.getRaises \in BOOLEAN   \* a bundle may fail to be read
  /\ Routes \subseteq [Tokens -> SUBSET (0 .. Experts - 1)]

VARIABLES
  at,        \* statement of forward, per rank
  calls,     \* MoE calls a rank has begun; call i is that of block i % Layers
  routes,    \* what the gate answers in each call: token -> experts
  active,    \* experts of the rank that some token chose, still to run
  y,         \* how often each term was added to each token
  attended   \* <<head of q, head of attn_sink>> in the order of the output

forward == <<at, calls, routes, active, y, attended>>
allVars == <<vars, forward>>

SharedTerm == -1
Terms == (0 .. Layers - 1) \X (0 .. Experts - 1 \cup {SharedTerm})
Nothing == [p \in Tokens \X Terms |-> 0]
Block(r) == (calls[r] - 1) % Layers
Route(r) == routes[calls[r]]
-----------------------------------------------------------------------------
Width(h, start) == IF h - start < Chunk THEN h - start ELSE Chunk
(* sparse_attn of h heads: q and attn_sink are narrowed together.          *)
SparseAttn(r, h) ==
  LET pair(i) == <<i, i>>
      starts == {s \in 0 .. h - 1 : s % Chunk = 0}
      part(s) == [i \in 1 .. Width(h, s) |-> pair(s + i - 1)]
  IN  IF official[r].sparse = "orig" \/ h <= Chunk THEN [i \in 1 .. h |-> pair(i - 1)]
      ELSE FlattenSeq([n \in 1 .. Cardinality(starts) |-> part((n - 1) * Chunk)])

ForwardInit ==
  /\ Init
  /\ at = [r \in Ranks |-> "idle"]
  /\ calls = [r \in Ranks |-> 0]
  /\ routes \in [1 .. job.maxCalls -> Routes]
  /\ active = [r \in Ranks |-> {}]
  /\ y = [r \in Ranks |-> Nothing]
  /\ attended = [r \in Ranks |-> <<>>]

(* The serving loop gives every rank the next block's attention.           *)
Attend(r) ==
  /\ pc[r] = "loaded"
  /\ at[r] \in {"idle", "done"}
  /\ calls[r] < job.maxCalls
  /\ \E h \in Heads : attended' = [attended EXCEPT ![r] = SparseAttn(r, h)]
  /\ at' = [at EXCEPT ![r] = "gate"]
  /\ calls' = [calls EXCEPT ![r] = @ + 1]
  /\ UNCHANGED <<vars, routes, active, y>>

ActiveIn(r) == {e \in Local(r) : \E t \in Tokens : e \in Route(r)[t]}

(* forward up to the loop: y is zero, active the chosen of the range.      *)
RouteTokens(r) ==
  /\ at[r] = "gate"
  /\ active' = [active EXCEPT ![r] = ActiveIn(r)]
  /\ y' = [y EXCEPT ![r] = Nothing]
  /\ at' = [at EXCEPT ![r] = "experts"]
  /\ UNCHANGED <<vars, calls, routes, attended>>

(* One iteration: y[idx] += out * weights, with the store's bundle of the  *)
(* layer number the forward was bound with.                                *)
RunExpert(r) ==
  /\ at[r] = "experts"
  /\ active[r] # {}
  /\ LET e == CHOOSE x \in active[r] : \A o \in active[r] : x <= o
         term == <<blocks[r][Block(r) + 1].forward, e>>
     IN  /\ y' = [y EXCEPT ![r] = [p \in DOMAIN @ |->
                    IF p[2] = term /\ e \in Route(r)[p[1]] THEN @[p] + 1 ELSE @[p]]]
         /\ active' = [active EXCEPT ![r] = @ \ {e}]
  /\ UNCHANGED <<vars, at, calls, routes, attended>>

(* prefetch or get raises: no such layer or expert, or the file cannot be  *)
(* read.  The forward ends on this rank alone; its y is never returned.    *)
ExpertRaises(r) ==
  /\ at[r] = "experts"
  /\ active[r] # {}
  /\ job.getRaises
  /\ at' = [at EXCEPT ![r] = "raised"]
  /\ UNCHANGED <<vars, calls, routes, active, y, attended>>

(* y += shared(x), once the sum is there.                                  *)
WithShared(r, sum) ==
  [p \in DOMAIN sum |-> IF p[2] = <<Block(r), SharedTerm>> THEN sum[p] + 1 ELSE sum[p]]
SumOver(ranks) ==
  [p \in Tokens \X Terms |-> FoldSet(LAMBDA r, n : n + y[r][p], 0, ranks)]

EnterReduceIfAny(r) ==   \* mutant: a rank with nothing to run returns before the collective
  /\ at[r] = "experts"
  /\ active[r] = {}
  /\ at' = [at EXCEPT ![r] = IF \E p \in DOMAIN y[r] : y[r][p] > 0 THEN "reduce" ELSE "done"]
  /\ UNCHANGED <<vars, calls, routes, active, y, attended>>

EnterReduce(r) ==
  /\ at[r] = "experts"
  /\ active[r] = {}
  /\ at' = [at EXCEPT ![r] = "reduce"]
  /\ UNCHANGED <<vars, calls, routes, active, y, attended>>

SharedThenReduced ==   \* mutant: the shared expert is added before the sum
  [r \in Ranks |-> [p \in Tokens \X Terms |->
     SumOver(Ranks)[p] + (IF p[2] = <<Block(r), SharedTerm>> THEN World ELSE 0)]]
Reduced == [r \in Ranks |-> WithShared(r, SumOver(Ranks))]

(* dist.all_reduce, which a single rank skips: nobody leaves before        *)
(* everybody is in; then the shared expert.                                *)
AllReduce ==
  /\ \A r \in Ranks : at[r] = "reduce"
  /\ y' = Reduced
  /\ at' = [r \in Ranks |-> "done"]
  /\ UNCHANGED <<vars, calls, routes, active, attended>>

Forward(r) == r \in Ranks /\ (Attend(r) \/ RouteTokens(r) \/ RunExpert(r) \/ EnterReduce(r))

(* A rank in a forward has no loader running.                              *)
Loading(r) == r \in Ranks /\ at[r] = "idle" /\ Step(r) /\ UNCHANGED forward
ForwardNext == AllReduce \/ \E r \in Ranks : Loading(r) \/ Forward(r) \/ ExpertRaises(r)
ForwardSpec == ForwardInit /\ [][ForwardNext]_allVars

(* Every rank keeps running and is given every call, the collective ends   *)
(* once all have entered it; that a read fails is never owed.              *)
FairSpec ==
  /\ ForwardSpec
  /\ \A r \in 0 .. MaxRanks - 1 : WF_allVars(Loading(r)) /\ WF_allVars(Forward(r))
  /\ WF_allVars(AllReduce)
-----------------------------------------------------------------------------
(* When forward returns, each token has each expert the gate chose for it  *)
(* once and the shared expert once, all of this block, on every rank: the  *)
(* ranges of the ranks, the counter that numbers the forwards and the      *)
(* order of all_reduce and shared make it so.                              *)
EveryTermOnce ==
  \A r \in Ranks : at[r] = "done" =>
    \A t \in Tokens : \A term \in Terms :
      y[r][<<t, term>>] =
        IF term[1] = Block(r) /\ term[2] \in Route(r)[t] \cup {SharedTerm} THEN 1 ELSE 0

(* The chunked sparse_attn gives as many heads as it got, in their order,  *)
(* each with its own sink (_patch_sparse_attn_head_chunks).                *)
HeadsInOrder ==
  \A r \in Ranks : attended[r] # <<>> =>
    /\ Len(attended[r]) \in Heads
    /\ \A i \in DOMAIN attended[r] : attended[r][i] = <<i - 1, i - 1>>

(* What a call returns is what the official forward would have returned,   *)
(* and none returns a sum without the experts of a rank that raised.       *)
ForwardExact == EveryTermOnce /\ HeadsInOrder

(* Ranks that have all loaded wait for one another for ever only if the    *)
(* store raised on one of them: otherwise a forward begun by one is ended  *)
(* by all, whatever experts each has to run.                               *)
CallsReturn ==
  \A r \in 0 .. MaxRanks - 1 :
    (r \in Ranks /\ at[r] = "gate" /\ \A q \in Ranks : pc[q] = "loaded") ~>
      ((r \in Ranks /\ at[r] = "done") \/ \E q \in Ranks : at[q] = "raised")
=============================================================================
