---------------------------- MODULE MoeBlock_proofs ----------------------------
(***************************************************************************)
(* Theorems of MoeBlock, for every family, number of experts, groups and   *)
(* choices, content, number of addresses and order of loads, moves, calls. *)
(* The router cache compares addresses only.  That is enough because a     *)
(* router that was built is the key it is kept under, and keeps every      *)
(* storage it points to alive: an address of the key cannot have become    *)
(* another tensor's since, so an equal key names the very same storages.   *)
(* With the same contents the kernel and the torch code choose the same    *)
(* experts: the i-th of torch.topk exists and is the only one with i - 1   *)
(* above it, and these are the ones with fewer than TopK above them.       *)
(***************************************************************************)
EXTENDS MoeBlock, SequenceFacts, FiniteSetTheorems

(* The block's own storages hold a gate weight and a bias.                 *)
BlockInv ==
  /\ kind \in Kinds
  /\ kind.name \in Names
  /\ weight \in Addrs
  /\ device \in Devices
  /\ bias \in [at : Addrs, on : Devices]
  /\ DOMAIN memory = Addrs
  /\ memory[weight] \in Versions[kind.name]
  /\ memory[bias.at] \in Versions[kind.name]

(* A router that was built is its own key, and its storages are allocated. *)
RouterInv ==
  cached # None /\ cached.router # None =>
    /\ cached.router = cached.key
    /\ \A a \in Points(cached) : a \in Addrs /\ memory[a] # Free

IndInv == BlockInv /\ RouterInv /\ RouterReadsCurrent

(* What a storage holds is allocated.                                      *)
LEMMA ContentsAllocated == BlockInv => Free \notin Versions[kind.name] /\ memory[weight] # Free /\ memory[bias.at] # Free
BY BlockAssumption DEF BlockInv, Free
-----------------------------------------------------------------------------
(* Releasing what nothing refers to any more leaves every storage of the   *)
(* block and of its router as it was.                                      *)
LEMMA KeptLive ==
  ASSUME NEW m, NEW w, NEW b, NEW c, NEW a \in Addrs, a \in Live(w, b, c)
  PROVE  Kept(m, w, b, c)[a] = m[a]
BY DEF Kept

(* What the parameter, the buffer and the cache refer to is live.          *)
LEMMA LiveStorages ==
  ASSUME NEW w, NEW b, NEW c
  PROVE  w \in Live(w, b, c) /\ b.at \in Live(w, b, c) /\ Points(c) \subseteq Live(w, b, c)
BY DEF Live

(* A step that keeps the router keeps it sound when it writes to none of   *)
(* the router's storages but with new content.                             *)
LEMMA RouterStays ==
  ASSUME RouterInv, NEW m, NEW w, NEW b,
         cached' = cached, memory' = Kept(m, w, b, cached),
         \A a \in Addrs : memory[a] # Free => m[a] # Free
  PROVE  RouterInv'
<1> SUFFICES ASSUME cached # None, cached.router # None, NEW a \in Points(cached)
             PROVE  cached.router = cached.key /\ a \in Addrs /\ memory'[a] # Free
    BY DEF RouterInv, Points
<1>1. cached.router = cached.key /\ a \in Addrs /\ memory[a] # Free  BY DEF RouterInv
<1>2. memory'[a] = m[a]  BY <1>1, KeptLive, LiveStorages
<1> QED  BY <1>1, <1>2

(* A block is new: its cache points to nothing.                            *)
LEMMA InitInv == Init => IndInv
<1> SUFFICES ASSUME Init PROVE IndInv  OBVIOUS
<1>1. PICK w \in Addrs, b \in Addrs, v \in Versions[kind.name], u \in Versions[kind.name], d \in Devices :
        /\ w # b
        /\ weight = w /\ bias = [at |-> b, on |-> d]
        /\ memory = [a \in Addrs |-> CASE a = w -> v [] a = b -> u [] OTHER -> Free]
      BY DEF Init
<1>2. kind.name \in Names /\ device \in Devices /\ cached = None /\ last = None  BY DEF Init
<1>3. memory[w] = v /\ memory[b] = u /\ bias.at = b /\ d \in Devices  BY <1>1, <1>2 DEF Devices
<1>4. kind \in Kinds  BY DEF Init
<1> QED  BY <1>1, <1>2, <1>3, <1>4 DEF IndInv, BlockInv, RouterInv, RouterReadsCurrent, Called

(* Nothing of the block or of its router changes.                          *)
LEMMA QuietInv ==
  ASSUME IndInv, UNCHANGED <<kind, device, weight, bias, memory, cached>>, last' = None \/ last' = last
  PROVE  IndInv'
BY DEF IndInv, BlockInv, RouterInv, RouterReadsCurrent, Called, Points

(* Loading writes the parameters and leaves the cache to be checked.       *)
LEMMA LoadInv == IndInv /\ Load => IndInv'
<1> SUFFICES ASSUME IndInv, Load PROVE IndInv'  OBVIOUS
<1>1. PICK v \in Versions[kind.name], u \in Versions[kind.name] :
        memory' = [memory EXCEPT ![weight] = v, ![bias.at] = u]
      BY DEF Load
<1>2. last' = None /\ UNCHANGED <<kind, device, weight, bias, cached>>  BY DEF Load
<1>3. v # Free /\ u # Free  BY ContentsAllocated DEF IndInv
<1>4. DOMAIN memory' = Addrs /\ \A a \in Addrs : memory[a] # Free => memory'[a] # Free
      BY <1>1, <1>3 DEF IndInv, BlockInv
<1>5. BlockInv'  BY <1>1, <1>2, <1>4 DEF IndInv, BlockInv
<1>6. RouterInv'  BY <1>2, <1>4 DEF IndInv, RouterInv, Points
<1> QED  BY <1>2, <1>5, <1>6 DEF IndInv, RouterReadsCurrent, Called

(* Loading again replaces the storage or writes to it, with a new version. *)
LEMMA ReloadInv == IndInv /\ Reload => IndInv'
<1> SUFFICES ASSUME IndInv, Reload PROVE IndInv'  OBVIOUS
<1>1. PICK a \in Unused, v \in Versions[kind.name] :
        /\ \/ weight' = a /\ bias' = bias
           \/ weight' = weight /\ bias' = [bias EXCEPT !.at = a]
        /\ memory' = Kept([memory EXCEPT ![a] = v], weight', bias', cached)
      BY DEF Reload
<1> DEFINE m == [memory EXCEPT ![a] = v]
<1>2. last' = None /\ UNCHANGED <<kind, device, cached>>  BY DEF Reload
<1>3. v # Free /\ a \in Addrs /\ memory[a] = Free  BY ContentsAllocated DEF IndInv, Unused
<1>4. \A x \in Addrs : memory[x] # Free => m[x] # Free
      BY <1>3 DEF IndInv, BlockInv
<1>5. weight' \in Addrs /\ bias' \in [at : Addrs, on : Devices]
      /\ m[weight'] \in Versions[kind.name] /\ m[bias'.at] \in Versions[kind.name]
      BY <1>1, <1>3, <1>4 DEF IndInv, BlockInv
<1>6. memory' = Kept(m, weight', bias', cached)  BY <1>1
<1> HIDE DEF m
<1>7. memory'[weight'] = m[weight'] /\ memory'[bias'.at] = m[bias'.at]
      BY <1>5, <1>6, KeptLive, LiveStorages
<1>8. BlockInv'  BY <1>2, <1>5, <1>6, <1>7 DEF IndInv, BlockInv, Kept
<1>9. RouterInv'  BY <1>2, <1>4, <1>6, RouterStays DEF IndInv
<1> QED  BY <1>2, <1>8, <1>9 DEF IndInv, RouterReadsCurrent, Called

(* A move to another device gives every tensor a storage of its own.       *)
LEMMA MoveInv == IndInv /\ Move => IndInv'
<1> SUFFICES ASSUME IndInv, Move PROVE IndInv'  OBVIOUS
<1>1. PICK d \in Devices \ {device}, w \in Unused, b \in Unused :
        /\ w # b /\ device' = d /\ weight' = w
        /\ \/ bias' = [at |-> b, on |-> d]
           \/ kind.name \in LateBias /\ bias' = bias
        /\ memory' = Kept([memory EXCEPT ![w] = memory[weight], ![b] = memory[bias.at]], w, bias', cached)
      BY DEF Move
<1> DEFINE m == [memory EXCEPT ![w] = memory[weight], ![b] = memory[bias.at]]
<1>2. last' = None /\ UNCHANGED <<kind, cached>> /\ device' = d
      BY <1>1 DEF Move
<1>3. w \in Addrs /\ b \in Addrs /\ memory[w] = Free /\ memory[b] = Free  BY DEF Unused
<1>4. \A x \in Addrs : memory[x] # Free => m[x] # Free
      BY <1>1, <1>3, ContentsAllocated DEF IndInv, BlockInv
<1>5. weight' \in Addrs /\ bias' \in [at : Addrs, on : Devices]
      /\ m[weight'] \in Versions[kind.name] /\ m[bias'.at] \in Versions[kind.name]
      BY <1>1, <1>3, <1>4 DEF IndInv, BlockInv
<1>6. memory' = Kept(m, weight', bias', cached)  BY <1>1
<1> HIDE DEF m
<1>7. memory'[weight'] = m[weight'] /\ memory'[bias'.at] = m[bias'.at]
      BY <1>5, <1>6, KeptLive, LiveStorages
<1>8. BlockInv'  BY <1>2, <1>5, <1>6, <1>7 DEF IndInv, BlockInv, Kept
<1>9. RouterInv'  BY <1>2, <1>4, <1>6, RouterStays DEF IndInv
<1> QED  BY <1>2, <1>8, <1>9 DEF IndInv, RouterReadsCurrent, Called

(* The router of a call points to the block's own weight and, where the    *)
(* family has one, to the bias of this call: a kept router has the key of  *)
(* this call, and a new one is built from it.                              *)
LEMMA CachedRouterIsKey ==
  ASSUME IndInv, NEW temp, CachedRouter(temp).router # None
  PROVE  CachedRouter(temp).router = Key(temp)
<1>1. CASE cached # None /\ cached.key = Key(temp)
  <2>1. CachedRouter(temp) = cached  BY <1>1 DEF CachedRouter
  <2> QED  BY <1>1, <2>1 DEF IndInv, RouterInv
<1>2. CASE ~(cached # None /\ cached.key = Key(temp))
  <2>1. CachedRouter(temp) =
          [key |-> Key(temp), router |-> IF device = "tuned" THEN [weight |-> weight, bias |-> BiasSeen(temp)] ELSE None,
           from |-> <<weight, bias.at>>]
        BY <1>2 DEF CachedRouter
  <2>2. CachedRouter(temp).router = [weight |-> weight, bias |-> BiasSeen(temp)]  BY <2>1
  <2> QED  BY <2>2 DEF Key
<1> QED  BY <1>1, <1>2

(* and is kept under that key.                                             *)
LEMMA CachedRouterKey == \A temp : CachedRouter(temp).key = Key(temp)
BY DEF CachedRouter

(* A fused forward refreshes what is stale before it reads.                *)
LEMMA ForwardFusedInv == IndInv /\ ForwardFused => IndInv'
<1> SUFFICES ASSUME IndInv, ForwardFused PROVE IndInv'  OBVIOUS
<1> DEFINE m(temp) == IF BiasSeen(temp) = temp THEN [memory EXCEPT ![temp] = memory[bias.at]] ELSE memory
           saw(temp) == LET r == CachedRouter(temp).router
                        IN  [weight |-> m(temp)[r.weight],
                             bias |-> IF r.bias = Free THEN Had.bias ELSE m(temp)[r.bias]]
<1>1. PICK t \in Tokens, temp \in Unused :
        /\ CachedRouter(temp).router # None
        /\ cached' = CachedRouter(temp)
        /\ memory' = Kept(m(temp), weight, bias, CachedRouter(temp))
        /\ Compute(t, FusedRow(kind.fused, saw(temp).weight, saw(temp).bias, t), TRUE, saw(temp), <<>>)
      BY DEF ForwardFused
<1>2. UNCHANGED <<kind, device, weight, bias>>  BY DEF ForwardFused
<1>3. PICK c : c = CachedRouter(temp)  OBVIOUS
<1>4. PICK n : n = m(temp)  OBVIOUS
<1>5. c.router = Key(temp) /\ c.key = Key(temp) /\ c.router # None
      BY <1>1, <1>3, CachedRouterIsKey, CachedRouterKey
<1>6. c.router.weight = weight /\ c.router.bias = BiasSeen(temp)  BY <1>5 DEF Key
<1>7. temp \in Addrs /\ memory[temp] = Free  BY DEF Unused
<1>8. n[weight] = memory[weight] /\ n[bias.at] = memory[bias.at]
      BY <1>4, <1>7, ContentsAllocated DEF IndInv, BlockInv
<1>9. BiasSeen(temp) # Free => BiasSeen(temp) \in Addrs /\ n[BiasSeen(temp)] = memory[bias.at]
      BY <1>4, <1>7, <1>8 DEF BiasSeen, IndInv, BlockInv
<1>10. kind.fused.bias => BiasSeen(temp) # Free
      BY <1>7, BlockAssumption DEF BiasSeen, Free, IndInv, BlockInv
<1>11. BlockInv'
  <2>1. memory' = Kept(n, weight, bias, c)  BY <1>1, <1>3, <1>4
  <2>2. memory'[weight] = n[weight] /\ memory'[bias.at] = n[bias.at]
        BY <2>1, KeptLive, LiveStorages DEF IndInv, BlockInv
  <2>3. DOMAIN memory' = Addrs  BY <2>1 DEF Kept
  <2> QED  BY <1>2, <1>8, <2>2, <2>3 DEF IndInv, BlockInv
<1>12. RouterInv'
  <2> SUFFICES ASSUME cached' # None, NEW a \in Points(c)
               PROVE  a \in Addrs /\ memory'[a] # Free
      BY <1>1, <1>3, <1>5 DEF RouterInv
  <2>1. memory' = Kept(n, weight, bias, c)  BY <1>1, <1>3, <1>4
  <2>2. a \in {weight, BiasSeen(temp)} \ {Free}  BY <1>6 DEF Points
  <2>3. a \in Addrs /\ n[a] # Free  BY <1>8, <1>9, <2>2, ContentsAllocated DEF IndInv, BlockInv
  <2>4. memory'[a] = n[a]  BY <2>1, <2>3, KeptLive, LiveStorages
  <2> QED  BY <2>3, <2>4
<1>13. RouterReadsCurrent'
  <2>1. last'.had = Had /\ last'.saw = saw(temp)  BY <1>1 DEF Compute
  <2>2. saw(temp) = [weight |-> n[c.router.weight],
                     bias |-> IF c.router.bias = Free THEN Had.bias ELSE n[c.router.bias]]
        BY <1>3, <1>4
  <2>3. last'.saw.weight = last'.had.weight  BY <1>6, <1>8, <2>1, <2>2 DEF Had
  <2>4. kind.fused.bias => last'.saw.bias = last'.had.bias
        BY <1>6, <1>9, <1>10, <2>1, <2>2 DEF Had
  <2> QED  BY <1>2, <2>3, <2>4 DEF RouterReadsCurrent
<1> QED  BY <1>11, <1>12, <1>13 DEF IndInv

(* A forward in torch reads the parameters themselves.                     *)
LEMMA ForwardTorchInv == IndInv /\ ForwardTorch => IndInv'
<1> SUFFICES ASSUME IndInv, ForwardTorch PROVE IndInv'  OBVIOUS
<1>1. PICK t \in Tokens, temp \in Unused, l \in {"untried", "absent", "present"} :
        /\ cached' = IF Fusable /\ l = "present" THEN CachedRouter(temp) ELSE cached
        /\ Fusable /\ l = "present" => cached'.router = None
        /\ bias' = IF bias.on = device THEN bias ELSE [at |-> temp, on |-> device]
        /\ memory' = Kept([memory EXCEPT ![bias'.at] = memory[bias.at]], weight, bias', cached')
        /\ LET slots == Slots(kind, Had.weight, Had.bias, t)
           IN  Compute(t, TorchRow(kind, Had.weight, Had.bias, t), FALSE, Had, slots)
      BY DEF ForwardTorch
<1>2. UNCHANGED <<kind, device, weight>>  BY DEF ForwardTorch
<1>3. PICK m : m = [memory EXCEPT ![bias'.at] = memory[bias.at]]  OBVIOUS
<1>4. temp \in Addrs  BY DEF Unused
<1>5. bias' \in [at : Addrs, on : Devices]  BY <1>1, <1>4 DEF IndInv, BlockInv
<1>6. /\ \A x \in Addrs : memory[x] # Free => m[x] # Free
      /\ m[weight] \in Versions[kind.name] /\ m[bias'.at] \in Versions[kind.name]
      BY <1>3, <1>5, ContentsAllocated DEF IndInv, BlockInv
<1>7. memory' = Kept(m, weight, bias', cached')  BY <1>1, <1>3
<1>8. memory'[weight] = m[weight] /\ memory'[bias'.at] = m[bias'.at]
      BY <1>5, <1>7, KeptLive, LiveStorages DEF IndInv, BlockInv
<1>9. BlockInv'  BY <1>2, <1>5, <1>6, <1>7, <1>8 DEF IndInv, BlockInv, Kept
<1>10. RouterInv'
  <2>1. CASE Fusable /\ l = "present"  BY <1>1, <2>1 DEF RouterInv
  <2>2. CASE ~(Fusable /\ l = "present")
    <3>1. cached' = cached  BY <1>1, <2>2
    <3>2. memory' = Kept(m, weight, bias', cached)  BY <1>7, <3>1
    <3> QED  BY <1>6, <3>1, <3>2, RouterStays DEF IndInv
  <2> QED  BY <2>1, <2>2
<1>11. RouterReadsCurrent'
  <2>1. last'.fused = FALSE  BY <1>1 DEF Compute
  <2> QED  BY <2>1 DEF RouterReadsCurrent
<1> QED  BY <1>9, <1>10, <1>11 DEF IndInv

(* In every state the router is sound and reads what the parameters hold.  *)
THEOREM RouterInvariant == Spec => []IndInv
<1>1. IndInv /\ [Next]_vars => IndInv'
  <2> SUFFICES ASSUME IndInv, [Next]_vars PROVE IndInv'  OBVIOUS
  <2>1. CASE Attach  BY <2>1, QuietInv DEF Attach
  <2>2. CASE RegisterOps  BY <2>2, QuietInv DEF RegisterOps
  <2>3. CASE UNCHANGED vars  BY <2>3, QuietInv DEF vars
  <2> QED  BY <2>1, <2>2, <2>3, LoadInv, ReloadInv, MoveInv, ForwardFusedInv, ForwardTorchInv DEF Next
<1> QED  BY <1>1, InitInv, PTL DEF Spec

(* Whatever was loaded, moved, freed and reallocated since it was built,   *)
(* the router a fused call uses reads the gate weight and the selection    *)
(* bias the block has at that call (fused_routing.py:73-80).               *)
THEOREM RouterReads == Spec => []RouterReadsCurrent
BY RouterInvariant, PTL DEF IndInv
-----------------------------------------------------------------------------
(* Numbers for the members of a set, none twice.                           *)
Scores(x, S)  == \A e \in S : x[e] \in Int
Untied(x, S)  == \A d, e \in S : d # e => x[d] # x[e]

(* Fewer are above the larger of two.                                      *)
LEMMA AboveShrinks ==
  ASSUME NEW S, IsFiniteSet(S), NEW x, Scores(x, S), NEW d \in S, NEW e \in S, x[d] > x[e]
  PROVE  Cardinality(Above(x, S, d)) < Cardinality(Above(x, S, e))
<1>1. Above(x, S, d) \subseteq Above(x, S, e)  BY DEF Above, Scores
<1>2. d \in Above(x, S, e) /\ d \notin Above(x, S, d)  BY DEF Above, Scores
<1>3. IsFiniteSet(Above(x, S, e))  BY FS_Subset DEF Above
<1>4. IsFiniteSet(Above(x, S, d)) /\ Cardinality(Above(x, S, d)) <= Cardinality(Above(x, S, e))
      BY <1>1, <1>3, FS_Subset
<1>5. Cardinality(Above(x, S, d)) # Cardinality(Above(x, S, e))  BY <1>1, <1>2, <1>3, FS_Subset
<1> QED  BY <1>3, <1>4, <1>5, FS_CardinalityType

(* A finite set has a member with a largest number.                        *)
LEMMA Greatest ==
  ASSUME NEW S, IsFiniteSet(S), S # {}, NEW x, Scores(x, S)
  PROVE  \E e \in S : \A d \in S : x[d] <= x[e]
<1> DEFINE N == {Cardinality(Above(x, S, e)) : e \in S}
<1>1. \A e \in S : Cardinality(Above(x, S, e)) \in Nat
  <2> SUFFICES ASSUME NEW e \in S PROVE Cardinality(Above(x, S, e)) \in Nat  OBVIOUS
  <2>1. IsFiniteSet(Above(x, S, e))  BY FS_Subset DEF Above
  <2> QED  BY <2>1, FS_CardinalityType
<1>2. N \subseteq Nat /\ N # {}  BY <1>1
<1>3. PICK n \in N : \A m \in N : n <= m  BY <1>2, LeastNat
<1>4. PICK e \in S : n = Cardinality(Above(x, S, e))  OBVIOUS
<1>5. ASSUME NEW d \in S PROVE x[d] <= x[e]
  <2> SUFFICES ASSUME x[d] > x[e] PROVE FALSE  BY DEF Scores
  <2>1. Cardinality(Above(x, S, d)) < Cardinality(Above(x, S, e))  BY AboveShrinks
  <2>2. Cardinality(Above(x, S, e)) <= Cardinality(Above(x, S, d))  BY <1>3, <1>4
  <2> QED  BY <1>1, <2>1, <2>2
<1> QED  BY <1>5

(* Max of numbers is one of them.                                          *)
LEMMA MaxInSet ==
  ASSUME NEW T, T \subseteq Int, IsFiniteSet(T), T # {}
  PROVE  Max(T) \in T
<1> DEFINE x == [e \in T |-> e]
<1>1. Scores(x, T)  BY DEF Scores
<1>2. PICK e \in T : \A d \in T : x[d] <= x[e]  BY <1>1, Greatest
<1>3. \A d \in T : e >= d  BY <1>2
<1> QED  BY <1>3 DEF Max

(* Without ties every rank below the size of the set is taken once.        *)
LEMMA RankTaken ==
  ASSUME NEW S, IsFiniteSet(S), NEW x, Scores(x, S), Untied(x, S)
  PROVE  /\ \A d, e \in S : Cardinality(Above(x, S, d)) = Cardinality(Above(x, S, e)) => d = e
         /\ \A k \in 0 .. Cardinality(S) - 1 : \E e \in S : Cardinality(Above(x, S, e)) = k
<1> DEFINE n == Cardinality(S)
           r == [e \in S |-> Cardinality(Above(x, S, e))]
<1>1. n \in Nat  BY FS_CardinalityType
<1>2. ASSUME NEW e \in S PROVE Cardinality(Above(x, S, e)) \in 0 .. n - 1
  <2>1. Above(x, S, e) \subseteq S \ {e}  BY DEF Above, Scores
  <2>2. IsFiniteSet(S \ {e}) /\ Cardinality(S \ {e}) = n - 1  BY FS_RemoveElement
  <2>3. IsFiniteSet(Above(x, S, e)) /\ Cardinality(Above(x, S, e)) <= Cardinality(S \ {e})
        BY <2>1, <2>2, FS_Subset
  <2> QED  BY <1>1, <2>2, <2>3, FS_CardinalityType
<1>3. ASSUME NEW d \in S, NEW e \in S, Cardinality(Above(x, S, d)) = Cardinality(Above(x, S, e)) PROVE d = e
  <2>1. ~ x[d] > x[e] /\ ~ x[e] > x[d]  BY <1>1, <1>2, <1>3, AboveShrinks
  <2> QED  BY <2>1 DEF Scores, Untied
<1>4. IsFiniteSet(0 .. n - 1) /\ Cardinality(0 .. n - 1) = n  BY <1>1, FS_Interval
<1>5. r \in Injection(S, 0 .. n - 1)  BY <1>2, <1>3 DEF Injection, IsInjective
<1>6. r \in Surjection(S, 0 .. n - 1)  BY <1>4, <1>5, FS_Injection
<1> QED  BY <1>3, <1>6 DEF Surjection

(* With or without ties, at least k members have fewer than k above them.  *)
LEMMA EnoughBest ==
  ASSUME NEW S, IsFiniteSet(S), NEW x, Scores(x, S), NEW k \in Nat, k <= Cardinality(S)
  PROVE  Cardinality({e \in S : Cardinality(Above(x, S, e)) < k}) >= k
<1> DEFINE B == {e \in S : Cardinality(Above(x, S, e)) < k}
<1>1. IsFiniteSet(B) /\ Cardinality(B) \in Nat /\ B \subseteq S  BY FS_Subset, FS_CardinalityType
<1> SUFFICES ASSUME Cardinality(B) < k PROVE FALSE  BY <1>1
<1>2. S \ B # {}
  <2> SUFFICES ASSUME S = B PROVE FALSE  BY <1>1
  <2> QED  BY <1>1
<1>3. IsFiniteSet(S \ B) /\ Scores(x, S \ B)  BY FS_Difference DEF Scores
<1>4. PICK e \in S \ B : \A d \in S \ B : x[d] <= x[e]  BY <1>2, <1>3, Greatest
<1>5. Above(x, S, e) \subseteq B
  <2> SUFFICES ASSUME NEW d \in S, x[d] > x[e], d \notin B PROVE FALSE  BY DEF Above
  <2> HIDE DEF B
  <2>1. d \in S \ B /\ e \in S  OBVIOUS
  <2>2. x[d] <= x[e] /\ x[d] \in Int /\ x[e] \in Int  BY <1>4, <2>1 DEF Scores
  <2> QED  BY <2>2
<1>6. IsFiniteSet(Above(x, S, e)) /\ Cardinality(Above(x, S, e)) <= Cardinality(B)
      BY <1>1, <1>5, FS_Subset
<1>7. Cardinality(Above(x, S, e)) < k  BY <1>1, <1>6, FS_CardinalityType
<1> QED  BY <1>4, <1>7
-----------------------------------------------------------------------------
(* torch.topk takes each of the TopK best once, and nothing else.          *)
LEMMA LargestTakesBest ==
  ASSUME NEW S, IsFiniteSet(S), NEW x, Scores(x, S), Untied(x, S), Cardinality(S) >= TopK
  PROVE  /\ \A e : Times(Largest(x, S), e) = IF e \in S /\ Cardinality(Above(x, S, e)) < TopK THEN 1 ELSE 0
         /\ Range(Largest(x, S)) = {e \in S : Cardinality(Above(x, S, e)) < TopK}
         /\ Largest(x, S) \in [1 .. TopK -> S]
<1> DEFINE L == Largest(x, S)
<1>1. TopK \in Nat /\ Cardinality(S) \in Nat  BY BlockAssumption, FS_CardinalityType
<1>2. DOMAIN L = 1 .. TopK  BY DEF Largest
<1>3. ASSUME NEW i \in 1 .. TopK PROVE L[i] \in S /\ Cardinality(Above(x, S, L[i])) = i - 1
  <2>1. i - 1 \in 0 .. Cardinality(S) - 1  BY <1>1
  <2>2. \E e \in S : Cardinality(Above(x, S, e)) = i - 1  BY <2>1, RankTaken
  <2>3. L[i] = CHOOSE e \in S : Cardinality(Above(x, S, e)) = i - 1  BY DEF Largest
  <2> QED  BY <2>2, <2>3
<1>4. L \in [1 .. TopK -> S]  BY <1>2, <1>3 DEF Largest
<1>5. \A e \in S : Cardinality(Above(x, S, e)) \in Nat
  <2> SUFFICES ASSUME NEW e \in S PROVE Cardinality(Above(x, S, e)) \in Nat  OBVIOUS
  <2>1. IsFiniteSet(Above(x, S, e))  BY FS_Subset DEF Above
  <2> QED  BY <2>1, FS_CardinalityType
<1>6. ASSUME NEW e \in S, Cardinality(Above(x, S, e)) < TopK
      PROVE  /\ Cardinality(Above(x, S, e)) + 1 \in 1 .. TopK
             /\ L[Cardinality(Above(x, S, e)) + 1] = e
  <2>1. Cardinality(Above(x, S, e)) + 1 \in 1 .. TopK  BY <1>1, <1>5, <1>6
  <2>2. PICK i \in 1 .. TopK : i = Cardinality(Above(x, S, e)) + 1  BY <2>1
  <2>3. Cardinality(Above(x, S, L[i])) = Cardinality(Above(x, S, e)) /\ L[i] \in S  BY <1>3, <1>5, <2>2
  <2>4. L[i] = e  BY <2>3, RankTaken
  <2> QED  BY <2>1, <2>2, <2>4
<1> HIDE DEF L
<1>7. ASSUME NEW e PROVE Times(L, e) = IF e \in S /\ Cardinality(Above(x, S, e)) < TopK THEN 1 ELSE 0
  <2>1. CASE e \in S /\ Cardinality(Above(x, S, e)) < TopK
    <3>1. {i \in DOMAIN L : L[i] = e} = {Cardinality(Above(x, S, e)) + 1}
          BY <1>1, <1>2, <1>3, <1>5, <1>6, <2>1
    <3> QED  BY <2>1, <3>1, FS_Singleton DEF Times
  <2>2. CASE ~ (e \in S /\ Cardinality(Above(x, S, e)) < TopK)
    <3>1. {i \in DOMAIN L : L[i] = e} = {}  BY <1>1, <1>2, <1>3, <2>2
    <3> QED  BY <2>2, <3>1, FS_EmptySet DEF Times
  <2> QED  BY <2>1, <2>2
<1>8. Range(L) = {e \in S : Cardinality(Above(x, S, e)) < TopK}
  <2>1. ASSUME NEW i \in DOMAIN L PROVE L[i] \in S /\ Cardinality(Above(x, S, L[i])) < TopK
        BY <1>1, <1>2, <1>3
  <2>2. ASSUME NEW e \in S, Cardinality(Above(x, S, e)) < TopK PROVE e \in Range(L)
        BY <1>2, <1>6, <2>2 DEF Range
  <2> QED  BY <2>1, <2>2 DEF Range
<1> QED  BY <1>4, <1>7, <1>8 DEF L
-----------------------------------------------------------------------------
(* The experts are finitely many, and so are their groups.                 *)
LEMMA FiniteBlock ==
  /\ IsFiniteSet(Experts) /\ Cardinality(Experts) = ExpertCount
  /\ IsFiniteSet(Groups) /\ \A g \in Groups : g \subseteq Experts /\ IsFiniteSet(g)
<1>1. IsFiniteSet(Experts) /\ Cardinality(Experts) = ExpertCount
  <2>1. ExpertCount \in Nat /\ TopK \in 1 .. ExpertCount  BY BlockAssumption
  <2>2. ExpertCount - 1 \in Int /\ ExpertCount >= 1  BY <2>1
  <2>3. /\ IsFiniteSet(0 .. ExpertCount - 1)
        /\ Cardinality(0 .. ExpertCount - 1) = IF 0 > ExpertCount - 1 THEN 0 ELSE ExpertCount - 1 - 0 + 1
        BY <2>2, FS_Interval
  <2>4. Cardinality(0 .. ExpertCount - 1) = ExpertCount  BY <2>1, <2>2, <2>3
  <2> QED  BY <2>3, <2>4 DEF Experts
<1>2. \A g \in Groups : g \subseteq Experts  BY BlockAssumption
<1>3. \A g \in Groups : IsFiniteSet(g)  BY <1>1, <1>2, FS_Subset
<1>4. Groups \subseteq SUBSET Experts  BY <1>2
<1>5. IsFiniteSet(SUBSET Experts)  BY <1>1, FS_SUBSET
<1> QED  BY <1>1, <1>2, <1>3, <1>4, <1>5, FS_Subset

(* What a family selects by has no ties.                                   *)
LEMMA SelectUntied ==
  ASSUME NEW n \in Names, NEW v \in Versions[n], NEW u \in Versions[n], NEW t \in Tokens, NEW how
  PROVE  /\ Score[v][t] \in [Experts -> Nat \ {0}]
         /\ Scores(Select(how, v, u, t), Experts) /\ Untied(Select(how, v, u, t), Experts)
<1>1. /\ Score[v][t] \in [Experts -> Nat \ {0}] /\ BiasOf[u] \in [Experts -> Int]
      /\ \A d, e \in Experts : d # e => /\ Score[v][t][d] # Score[v][t][e]
                                        /\ Score[v][t][d] + BiasOf[u][d] # Score[v][t][e] + BiasOf[u][e]
      BY ScoreAssumption
<1>2. CASE how.bias
  <2>1. \A e \in Experts : Select(how, v, u, t)[e] = Score[v][t][e] + BiasOf[u][e]  BY <1>2 DEF Select
  <2> QED  BY <1>1, <2>1 DEF Scores, Untied
<1>3. CASE ~ how.bias
  <2>1. \A e \in Experts : Select(how, v, u, t)[e] = Score[v][t][e] + 0  BY <1>3 DEF Select
  <2> QED  BY <1>1, <2>1 DEF Scores, Untied
<1> QED  BY <1>1, <1>2, <1>3

(* A group's score is the sum of two numbers of its experts.               *)
LEMMA GroupScoreInt ==
  ASSUME NEW x, Scores(x, Experts), Untied(x, Experts), NEW g \in Groups
  PROVE  GroupScore(x, g) \in Int
<1> DEFINE V == {x[e] : e \in g}
           best == Max(V)
<1>1. g \subseteq Experts /\ IsFiniteSet(g) /\ Cardinality(g) >= 2 /\ Cardinality(g) \in Nat
      BY FiniteBlock, BlockAssumption, FS_CardinalityType
<1>2. [e \in g |-> x[e]] \in Surjection(g, V)  BY DEF Surjection
<1>3. IsFiniteSet(V) /\ V \subseteq Int  BY <1>1, <1>2, FS_Surjection DEF Scores
<1>4. g # {}  BY <1>1, FS_EmptySet
<1>5. best \in V  BY <1>3, <1>4, MaxInSet
<1>6. V \ {best} # {}
  <2> SUFFICES ASSUME V \ {best} = {} PROVE FALSE  OBVIOUS
  <2>1. PICK e \in g : best = x[e]  BY <1>5
  <2> HIDE DEF best
  <2>2. \A d \in g : x[d] = best  OBVIOUS
  <2>3. g = {e}  BY <1>1, <2>1, <2>2 DEF Untied
  <2>4. Cardinality(g) = 1  BY <2>3, FS_Singleton
  <2> QED  BY <1>1, <2>4
<1>7. IsFiniteSet(V \ {best}) /\ V \ {best} \subseteq Int  BY <1>3, FS_Difference
<1>8. Max(V \ {best}) \in V \ {best}  BY <1>6, <1>7, MaxInSet
<1>9. GroupScore(x, g) = best + Max(V \ {best})  BY DEF GroupScore
<1> HIDE DEF best
<1>10. PICK second : second = Max(V \ {best})  OBVIOUS
<1>11. best \in Int /\ second \in Int  BY <1>3, <1>5, <1>7, <1>8, <1>10
<1> QED  BY <1>9, <1>10, <1>11

(* The experts a token may choose from are enough for its choices.         *)
LEMMA PoolHoldsTopK ==
  ASSUME NEW x, Scores(x, Experts), Untied(x, Experts), NEW how
  PROVE  Pool(how, x) \subseteq Experts /\ IsFiniteSet(Pool(how, x)) /\ Cardinality(Pool(how, x)) >= TopK
<1>1. CASE ~ how.grouped
  <2>1. Pool(how, x) = Experts  BY <1>1 DEF Pool
  <2>2. ExpertCount >= TopK  BY BlockAssumption
  <2> QED  BY <2>1, <2>2, FiniteBlock
<1>2. CASE how.grouped
  <2> DEFINE y == [g \in Groups |-> GroupScore(x, g)]
             B == {g \in Groups : Cardinality(Above(y, Groups, g)) < TopGroups}
  <2>1. Scores(y, Groups)  BY GroupScoreInt DEF Scores
  <2>2. TopGroups \in Nat /\ TopGroups <= Cardinality(Groups) /\ Cardinality(Groups) \in Nat
    <3>1. Cardinality(Groups) \in Nat  BY FiniteBlock, FS_CardinalityType
    <3> QED  BY <3>1, BlockAssumption
  <2>3. Cardinality(B) >= TopGroups  BY <2>1, <2>2, FiniteBlock, EnoughBest
  <2>4. \A g \in Groups : Above(y, Groups, g) = {h \in Groups : GroupScore(x, h) > GroupScore(x, g)}
        BY DEF Above
  <2>5. BestGroups(x) = B  BY <2>4 DEF BestGroups
  <2>6. Pool(how, x) = UNION B  BY <1>2, <2>5 DEF Pool
  <2>7. B \in SUBSET Groups  OBVIOUS
  <2> HIDE DEF B
  <2>8. Cardinality(UNION B) >= TopK  BY <2>3, <2>7, BlockAssumption
  <2>9. UNION B \subseteq Experts  BY <2>7, FiniteBlock
  <2> QED  BY <2>6, <2>8, <2>9, FiniteBlock, FS_Subset
<1> QED  BY <1>1, <1>2
-----------------------------------------------------------------------------
(* What the families have in common: the router's arguments are those of   *)
(* the torch path, only Mixtral takes two of its choices for the mask, only*)
(* NLLB pads, and the families that scale do it once.                      *)
SameArguments(a, k) ==
  /\ a.scoring = k.scoring /\ a.bias = k.bias /\ a.grouped = k.grouped
  /\ a.renorm = k.renorm /\ a.scaled = k.scaled
Consistent(k) ==
  /\ k.fused # NotFused => SameArguments(k.fused, k) /\ ~ k.firstTwo /\ ~ k.table /\ ~ k.pads /\ k.alone # "packed"
  /\ k.firstTwo => k.name = "mixtral" /\ ~ k.table /\ ~ k.pads
  /\ k.pads <=> k.name = "nllb"
  /\ k.table => ~ k.pads
  /\ (IF k.scaled THEN 1 ELSE 0) + k.after =
       IF k.name \in {"deepseek_native", "glm", "hy_v3", "minimax", "v4", "v4_hash"} THEN 1 ELSE 0

(* All families are consistent.                                            *)
LEMMA KindsConsistent == \A k \in Kinds : Consistent(k)
<1>1. Consistent(Mixtral) /\ Consistent(MixtralGptq) /\ Consistent(Jamba) /\ Consistent(Dbrx)
      BY DEF Consistent, SameArguments, Mixtral, MixtralGptq, Jamba, Dbrx, Plain
<1>2. Consistent(Nllb) /\ Consistent(Qwen3Vl) /\ Consistent(GptOss) /\ Consistent(GptOssPacked)
      BY DEF Consistent, SameArguments, Nllb, Qwen3Vl, GptOss, GptOssPacked, Plain
<1>3. Consistent(DeepseekV2) /\ Consistent(DeepseekV3) /\ Consistent(DeepseekLogits)
      BY DEF Consistent, SameArguments, DeepseekV2, DeepseekV3, DeepseekLogits, Plain
<1>4. Consistent(DeepseekNative) /\ Consistent(MiniMax)  BY DEF Consistent, SameArguments, DeepseekNative, MiniMax, Plain
<1>5. Consistent(Qwen35)
  <2>1. Qwen35.fused = Args("softmax", FALSE, FALSE, TRUE, FALSE)  BY DEF Qwen35, Plain
  <2>2. /\ Qwen35.scoring = "softmax" /\ Qwen35.name = "qwen3_5" /\ Qwen35.after = 0
        /\ Qwen35.bias = FALSE /\ Qwen35.grouped = FALSE /\ Qwen35.renorm = TRUE /\ Qwen35.scaled = FALSE
        /\ ~ Qwen35.firstTwo /\ ~ Qwen35.table /\ Qwen35.pads = FALSE /\ Qwen35.alone # "packed"
        BY DEF Qwen35, Plain
  <2>3. PICK a : a = Args("softmax", FALSE, FALSE, TRUE, FALSE)  OBVIOUS
  <2>4. /\ a.scoring = "softmax" /\ a.bias = FALSE /\ a.grouped = FALSE /\ a.renorm = TRUE /\ a.scaled = FALSE
        BY <2>3 DEF Args
  <2>5. SameArguments(Qwen35.fused, Qwen35)  BY <2>1, <2>2, <2>3, <2>4, Zenon DEF SameArguments
  <2>6. (IF Qwen35.scaled THEN 1 ELSE 0) + Qwen35.after =
          IF Qwen35.name \in {"deepseek_native", "glm", "hy_v3", "minimax", "v4", "v4_hash"} THEN 1 ELSE 0
        BY <2>2
  <2>7. Qwen35.name # "nllb"  BY <2>2
  <2> QED  BY <2>2, <2>5, <2>6, <2>7, Zenon DEF Consistent
<1>6. ASSUME NEW n \in BOOLEAN PROVE Consistent(Olmoe(n))  BY DEF Consistent, SameArguments, Olmoe, Plain
<1>7. ASSUME NEW n \in BOOLEAN PROVE Consistent(Qwen3(n))
  <2>1. Qwen3(n).fused = Args("softmax", FALSE, FALSE, n, FALSE)  BY DEF Qwen3, Plain
  <2>2. /\ Qwen3(n).scoring = "softmax" /\ Qwen3(n).name = "qwen3" /\ Qwen3(n).after = 0
        /\ Qwen3(n).bias = FALSE /\ Qwen3(n).grouped = FALSE /\ Qwen3(n).renorm = n /\ Qwen3(n).scaled = FALSE
        /\ ~ Qwen3(n).firstTwo /\ ~ Qwen3(n).table /\ Qwen3(n).pads = FALSE /\ Qwen3(n).alone # "packed"
        BY DEF Qwen3, Plain
  <2>3. PICK a : a = Args("softmax", FALSE, FALSE, n, FALSE)  OBVIOUS
  <2>4. /\ a.scoring = "softmax" /\ a.bias = FALSE /\ a.grouped = FALSE /\ a.renorm = n /\ a.scaled = FALSE
        BY <2>3 DEF Args
  <2>5. SameArguments(Qwen3(n).fused, Qwen3(n))  BY <2>1, <2>2, <2>3, <2>4, Zenon DEF SameArguments
  <2>6. (IF Qwen3(n).scaled THEN 1 ELSE 0) + Qwen3(n).after =
          IF Qwen3(n).name \in {"deepseek_native", "glm", "hy_v3", "minimax", "v4", "v4_hash"} THEN 1 ELSE 0
        BY <2>2
  <2>7. Qwen3(n).name # "nllb"  BY <2>2
  <2> QED  BY <2>2, <2>5, <2>6, <2>7, Zenon DEF Consistent
<1>8. ASSUME NEW n \in BOOLEAN PROVE Consistent(V4(n))
  <2>1. V4(n).fused = Args("sqrtsoftplus", TRUE, FALSE, n, TRUE)  BY DEF V4, Plain
  <2>2. /\ V4(n).scoring = "sqrtsoftplus" /\ V4(n).name = "v4" /\ V4(n).after = 0
        /\ V4(n).bias = TRUE /\ V4(n).grouped = FALSE /\ V4(n).renorm = n /\ V4(n).scaled = TRUE
        /\ ~ V4(n).firstTwo /\ ~ V4(n).table /\ V4(n).pads = FALSE /\ V4(n).alone # "packed"
        BY DEF V4, Plain
  <2>3. PICK a : a = Args("sqrtsoftplus", TRUE, FALSE, n, TRUE)  OBVIOUS
  <2>4. /\ a.scoring = "sqrtsoftplus" /\ a.bias = TRUE /\ a.grouped = FALSE /\ a.renorm = n /\ a.scaled = TRUE
        BY <2>3 DEF Args
  <2>5. SameArguments(V4(n).fused, V4(n))  BY <2>1, <2>2, <2>3, <2>4, Zenon DEF SameArguments
  <2>6. (IF V4(n).scaled THEN 1 ELSE 0) + V4(n).after =
          IF V4(n).name \in {"deepseek_native", "glm", "hy_v3", "minimax", "v4", "v4_hash"} THEN 1 ELSE 0
        BY <2>2
  <2>7. V4(n).name # "nllb"  BY <2>2
  <2> QED  BY <2>2, <2>5, <2>6, <2>7, Zenon DEF Consistent
<1>13. ASSUME NEW n \in BOOLEAN PROVE Consistent(Glm(n))
  <2>1. Glm(n).fused = Args("sigmoid", TRUE, TRUE, n, TRUE)  BY DEF Glm, GlmArgs, Plain
  <2>2. /\ Glm(n).scoring = "sigmoid" /\ Glm(n).name = "glm" /\ Glm(n).after = 0
        /\ Glm(n).bias = TRUE /\ Glm(n).grouped = TRUE /\ Glm(n).renorm = n /\ Glm(n).scaled = TRUE
        /\ ~ Glm(n).firstTwo /\ ~ Glm(n).table /\ Glm(n).pads = FALSE /\ Glm(n).alone # "packed"
        BY DEF Glm, GlmArgs, Plain
  <2>3. PICK a : a = Args("sigmoid", TRUE, TRUE, n, TRUE)  OBVIOUS
  <2>4. /\ a.scoring = "sigmoid" /\ a.bias = TRUE /\ a.grouped = TRUE /\ a.renorm = n /\ a.scaled = TRUE
        BY <2>3 DEF Args
  <2>5. SameArguments(Glm(n).fused, Glm(n))  BY <2>1, <2>2, <2>3, <2>4, Zenon DEF SameArguments
  <2>6. (IF Glm(n).scaled THEN 1 ELSE 0) + Glm(n).after =
          IF Glm(n).name \in {"deepseek_native", "glm", "hy_v3", "minimax", "v4", "v4_hash"} THEN 1 ELSE 0
        BY <2>2
  <2>7. Glm(n).name # "nllb"  BY <2>2
  <2> QED  BY <2>2, <2>5, <2>6, <2>7, Zenon DEF Consistent
<1>9. Consistent(HyV3)  BY DEF Consistent, SameArguments, HyV3, Glm, Plain
<1>10. Consistent(V4Hash)  BY DEF Consistent, SameArguments, V4Hash, V4, Plain
<1> SUFFICES ASSUME NEW k \in Kinds PROVE Consistent(k)  OBVIOUS
<1>11. CASE k \in {Mixtral, MixtralGptq, Jamba, Dbrx, Nllb, Qwen3Vl, Qwen35, DeepseekV2, DeepseekV3, DeepseekNative,
                   DeepseekLogits, HyV3, MiniMax, V4Hash, GptOss, GptOssPacked}
      BY <1>1, <1>2, <1>3, <1>4, <1>5, <1>9, <1>10, <1>11, Zenon
<1>12. CASE \E n \in BOOLEAN : k \in {Olmoe(n), Qwen3(n), Glm(n), V4(n)}
      BY <1>6, <1>7, <1>8, <1>12, <1>13, Zenon
<1> QED  BY <1>11, <1>12, Zenon DEF Kinds
-----------------------------------------------------------------------------
(* What a token's slots hold, where the family chooses by score.           *)
LEMMA ChosenSlots ==
  ASSUME NEW k, NEW n \in Names, NEW v \in Versions[n], NEW u \in Versions[n], NEW t \in Tokens,
         ~ k.table, ~ (k.pads /\ t \in Padded)
  PROVE  LET x == Select(k, v, u, t)
             best == {e \in Pool(k, x) : Cardinality(Above(x, Pool(k, x), e)) < TopK}
         IN  /\ Slots(k, v, u, t) \in [1 .. TopK -> Experts]
             /\ Range(Slots(k, v, u, t)) = best
             /\ \A e : Times(Slots(k, v, u, t), e) = IF e \in best THEN 1 ELSE 0
<1>1. PICK x : x = Select(k, v, u, t)  OBVIOUS
<1>2. PICK S : S = Pool(k, x)  OBVIOUS
<1>3. Scores(x, Experts) /\ Untied(x, Experts)  BY <1>1, SelectUntied
<1>4. S \subseteq Experts /\ IsFiniteSet(S) /\ Cardinality(S) >= TopK  BY <1>2, <1>3, PoolHoldsTopK
<1>5. Scores(x, S) /\ Untied(x, S)  BY <1>3, <1>4 DEF Scores, Untied
<1>6. Slots(k, v, u, t) = Largest(x, S)  BY <1>1, <1>2 DEF Slots
<1>7. /\ \A e : Times(Largest(x, S), e) = IF e \in S /\ Cardinality(Above(x, S, e)) < TopK THEN 1 ELSE 0
      /\ Range(Largest(x, S)) = {e \in S : Cardinality(Above(x, S, e)) < TopK}
      /\ Largest(x, S) \in [1 .. TopK -> S]
      BY <1>4, <1>5, LargestTakesBest
<1>8. Largest(x, S) \in [1 .. TopK -> Experts]  BY <1>4, <1>7
<1> QED  BY <1>1, <1>2, <1>6, <1>7, <1>8

(* The kernel's row is the torch code's.                                   *)
LEMMA FusedIsTorch ==
  ASSUME NEW k \in Kinds, k.fused # NotFused, NEW n \in Names, NEW v \in Versions[n], NEW u \in Versions[n],
         NEW t \in Tokens, NEW w, k.fused.bias => w = u
  PROVE  FusedRow(k.fused, v, w, t) = TorchRow(k, v, u, t)
<1>1. /\ k.fused.scoring = k.scoring /\ k.fused.bias = k.bias /\ k.fused.grouped = k.grouped
      /\ k.fused.renorm = k.renorm /\ k.fused.scaled = k.scaled
      /\ ~ k.firstTwo /\ ~ k.table /\ ~ k.pads
      BY KindsConsistent DEF Consistent, SameArguments
<1>2. Select(k.fused, v, w, t) = Select(k, v, u, t)
  <2>1. CASE k.fused.bias  BY <1>1, <2>1 DEF Select
  <2>2. CASE ~ k.fused.bias  BY <1>1, <2>2 DEF Select
  <2> QED  BY <2>1, <2>2
<1>3. PICK x : x = Select(k, v, u, t)  OBVIOUS
<1>4. PICK S : S = Pool(k, x)  OBVIOUS
<1>5. Pool(k.fused, x) = S  BY <1>1, <1>4 DEF Pool
<1>6. PICK best : best = {e \in S : Cardinality(Above(x, S, e)) < TopK}  OBVIOUS
<1>7. PICK s : s = Score[v][t]  OBVIOUS
<1>8. PICK slots : slots = Slots(k, v, u, t)  OBVIOUS
<1>9. /\ Range(slots) = best
      /\ \A e : Times(slots, e) = IF e \in best THEN 1 ELSE 0
      BY <1>1, <1>3, <1>4, <1>6, <1>8, ChosenSlots
<1>10. s \in [Experts -> Nat \ {0}]  BY <1>7, SelectUntied
<1>11. Gathered(s, slots) = [e \in Experts |-> IF e \in best THEN s[e] ELSE 0]
  <2>1. \A e \in Experts : s[e] * Times(slots, e) = IF e \in best THEN s[e] ELSE 0  BY <1>9, <1>10
  <2> QED  BY <2>1 DEF Gathered
<1>12. PICK num : num = Gathered(s, slots)  OBVIOUS
<1>13. FusedRow(k.fused, v, w, t) =
         [mask |-> [e \in Experts |-> e \in best], num |-> num, den |-> Den(k.fused, s, num), scaled |-> k.fused.scaled]
       BY <1>2, <1>3, <1>5, <1>6, <1>7, <1>11, <1>12 DEF FusedRow
<1>14. TorchRow(k, v, u, t) =
         [mask |-> [e \in Experts |-> e \in Range(slots)], num |-> num, den |-> Den(k, s, num), scaled |-> k.scaled]
       BY <1>1, <1>7, <1>8, <1>12 DEF TorchRow, Dense
<1>15. Den(k.fused, s, num) = Den(k, s, num)  BY <1>1 DEF Den
<1> QED  BY <1>1, <1>9, <1>13, <1>14, <1>15
-----------------------------------------------------------------------------
(* What the dense row of the torch path gives is what the gate owes, by    *)
(* the mask or, in the grouped kernel, by the choices themselves.          *)
LEMMA OutputIsOwed ==
  ASSUME kind \in Kinds, kind.name \in Names, NEW v \in Versions[kind.name], NEW u \in Versions[kind.name],
         NEW t \in Tokens, NEW via, via # "zeros", NEW used, via = "grouped" => used = Slots(kind, v, u, t)
  PROVE  Output(via, TorchRow(kind, v, u, t), used, Score[v][t]) = Owed(kind, v, u, t)
<1>1. PICK s : s = Score[v][t]  OBVIOUS
<1>2. PICK slots : slots = Slots(kind, v, u, t)  OBVIOUS
<1>3. PICK row : row = TorchRow(kind, v, u, t)  OBVIOUS
<1>4. PICK num : num = Gathered(s, slots)  OBVIOUS
<1>5. s \in [Experts -> Nat \ {0}]  BY <1>1, SelectUntied
<1>6. /\ kind.firstTwo => kind.name = "mixtral" /\ ~ kind.table /\ ~ kind.pads
      /\ kind.pads <=> kind.name = "nllb"
      /\ kind.table => ~ kind.pads
      /\ (IF kind.scaled THEN 1 ELSE 0) + kind.after =
           IF kind.name \in {"deepseek_native", "glm", "hy_v3", "minimax", "v4", "v4_hash"} THEN 1 ELSE 0
      BY KindsConsistent DEF Consistent
<1>7. row = [mask |-> [e \in Experts |-> e \in Range(IF kind.firstTwo THEN SubSeq(slots, 1, 2) ELSE slots)],
             num |-> num, den |-> Den(kind, s, num), scaled |-> kind.scaled]
      BY <1>1, <1>2, <1>3, <1>4 DEF TorchRow, Dense
<1>8. Range(IF kind.firstTwo THEN SubSeq(slots, 1, 2) ELSE slots) = Range(slots)
  <2>1. CASE ~ kind.firstTwo  BY <2>1
  <2>2. CASE kind.firstTwo
    <3>1. slots \in [1 .. TopK -> Experts]  BY <1>2, <1>6, <2>2, ChosenSlots
    <3>2. TopK = 2  BY <1>6, <2>2, MixtralAssumption
    <3>3. slots \in [1 .. 2 -> Experts]  BY <3>1, <3>2
    <3>4. SubSeq(slots, 1, 2) = slots  BY <3>3
    <3> QED  BY <2>2, <3>4
  <2> QED  BY <2>1, <2>2
<1>9. \A e \in Experts : e \notin Range(slots) => Times(slots, e) = 0
  <2> SUFFICES ASSUME NEW e \in Experts, e \notin Range(slots) PROVE Times(slots, e) = 0  OBVIOUS
  <2>1. {i \in DOMAIN slots : slots[i] = e} = {}  BY DEF Range
  <2> QED  BY <2>1, FS_EmptySet DEF Times
<1>10. num = [e \in Experts |-> s[e] * Times(slots, e)]  BY <1>4 DEF Gathered
<1>11. Masked(row) = num
  <2>1. \A e \in Experts : row.mask[e] <=> e \in Range(slots)  BY <1>7, <1>8
  <2>2. \A e \in Experts : ~ row.mask[e] => num[e] = 0
        BY <1>5, <1>9, <1>10, <2>1
  <2>3. row.num = num  BY <1>7
  <2>4. \A e \in Experts : (IF row.mask[e] THEN row.num[e] ELSE 0) = num[e]  BY <2>2, <2>3
  <2> QED  BY <1>10, <2>4 DEF Masked
<1>12. Output(via, row, used, s) = Finish(kind, num, row)
  <2>1. CASE via = "grouped"  BY <1>2, <1>4, <2>1 DEF Output
  <2>2. CASE via # "grouped"  BY <1>11, <2>2 DEF Output
  <2> QED  BY <2>1, <2>2
<1>13. (kind.pads /\ \A e \in Experts : num[e] = 0) <=> (kind.name = "nllb" /\ t \in Padded)
  <2>1. CASE ~ kind.pads  BY <1>6, <2>1
  <2>2. CASE kind.pads /\ t \in Padded
    <3>1. slots = << >>  BY <1>2, <1>6, <2>2 DEF Slots
    <3>2. \A e \in Experts : e \notin Range(slots)  BY <3>1 DEF Range
    <3>3. \A e \in Experts : num[e] = 0  BY <1>5, <1>9, <1>10, <3>2
    <3> QED  BY <1>6, <2>2, <3>3
  <2>3. CASE kind.pads /\ t \notin Padded
    <3>1. ~ kind.table /\ slots \in [1 .. TopK -> Experts]
          BY <1>2, <1>6, <2>3, ChosenSlots
    <3>2. TopK \in Nat /\ 1 \in 1 .. TopK  BY BlockAssumption
    <3>3. slots[1] \in Experts /\ slots[1] \in Range(slots)  BY <3>1, <3>2 DEF Range
    <3>4. Times(slots, slots[1]) = 1  BY <1>2, <2>3, <3>1, <3>3, ChosenSlots
    <3>5. num[slots[1]] = s[slots[1]] * 1  BY <1>10, <3>3, <3>4
    <3>6. num[slots[1]] # 0  BY <1>5, <3>3, <3>5
    <3> QED  BY <2>3, <3>3, <3>6
  <2> QED  BY <2>1, <2>2, <2>3
<1>14. row.den = Den(kind, s, num) /\ row.scaled = kind.scaled  BY <1>7
<1>15. Finish(kind, num, row) =
         [num |-> num, den |-> Den(kind, s, num), scaled |-> (IF kind.scaled THEN 1 ELSE 0) + kind.after,
          shared |-> kind.shared, kept |-> kind.pads /\ \A e \in Experts : num[e] = 0]
       BY <1>14 DEF Finish
<1>16. Owed(kind, v, u, t) =
         [num |-> num, den |-> Den(kind, s, num),
          scaled |-> IF kind.name \in {"deepseek_native", "glm", "hy_v3", "minimax", "v4", "v4_hash"} THEN 1 ELSE 0,
          shared |-> kind.shared, kept |-> kind.name = "nllb" /\ t \in Padded]
       BY <1>1, <1>2, <1>4 DEF Owed
<1> QED  BY <1>1, <1>3, <1>6, <1>12, <1>13, <1>15, <1>16
-----------------------------------------------------------------------------
(* What a call recorded: it had the block's contents, read its row from    *)
(* what the router saw, and ran the experts on that row.                   *)
CallInv ==
  Called =>
    /\ last.token \in Tokens
    /\ last.had.weight \in Versions[kind.name] /\ last.had.bias \in Versions[kind.name]
    /\ last.fused => /\ kind.fused # NotFused
                     /\ last.row = FusedRow(kind.fused, last.saw.weight, last.saw.bias, last.token)
    /\ ~ last.fused => /\ last.saw = last.had
                       /\ last.row = TorchRow(kind, last.had.weight, last.had.bias, last.token)
    /\ last.out # None =>
         \E used : /\ last.out = Output(last.via, last.row, used, Score[last.saw.weight][last.token])
                   /\ last.via = "grouped" => used = Slots(kind, last.had.weight, last.had.bias, last.token)

(* Only a block whose experts are packed runs them grouped.                *)
LEMMA GroupedIsPacked ==
  ASSUME kind \in Kinds, NEW resident, Via(resident) = "grouped"
  PROVE  kind.alone = "packed"
<1>1. \A k \in Kinds : k.alone # "grouped"
  <2>1. \A k \in {Mixtral, MixtralGptq, Jamba, Dbrx, Nllb, Qwen3Vl, GptOss, GptOssPacked} : k.alone # "grouped"
        BY DEF Mixtral, MixtralGptq, Jamba, Dbrx, Nllb, Qwen3Vl, GptOss, GptOssPacked, Plain
  <2>2. \A k \in {Qwen35, DeepseekV2, DeepseekV3, DeepseekNative, DeepseekLogits, MiniMax} : k.alone # "grouped"
        BY DEF Qwen35, DeepseekV2, DeepseekV3, DeepseekNative, DeepseekLogits, MiniMax, Plain
  <2>3. HyV3.alone # "grouped" /\ V4Hash.alone # "grouped"  BY DEF HyV3, Glm, V4Hash, V4, Plain
  <2>4. \A n \in BOOLEAN : Olmoe(n).alone # "grouped" /\ Qwen3(n).alone # "grouped"  BY DEF Olmoe, Qwen3, Plain
  <2>5. \A n \in BOOLEAN : Glm(n).alone # "grouped" /\ V4(n).alone # "grouped"  BY DEF Glm, V4, Plain
  <2> QED  BY <2>1, <2>2, <2>3, <2>4, <2>5, Zenon DEF Kinds
<1> QED  BY <1>1 DEF Via

(* Every call is as recorded.                                              *)
LEMMA CallStep == IndInv /\ CallInv /\ [Next]_vars => CallInv'
<1> SUFFICES ASSUME IndInv, CallInv, [Next]_vars PROVE CallInv'  OBVIOUS
<1>1. CASE Attach \/ RegisterOps \/ Load \/ Reload \/ Move
  <2>1. last' = None  BY <1>1 DEF Attach, RegisterOps, Load, Reload, Move
  <2> QED  BY <2>1 DEF CallInv, Called
<1>2. CASE UNCHANGED vars
  <2>1. last' = last /\ kind' = kind  BY <1>2 DEF vars
  <2> QED  BY <2>1 DEF CallInv, Called, Output
<1>3. Had.weight \in Versions[kind.name] /\ Had.bias \in Versions[kind.name]  BY DEF Had, IndInv, BlockInv
<1>4. CASE ForwardFused
  <2>1. PICK t \in Tokens : \E saw, row :
          /\ row = FusedRow(kind.fused, saw.weight, saw.bias, t)
          /\ Compute(t, row, TRUE, saw, <<>>)
        BY <1>4 DEF ForwardFused
  <2>0. PICK saw, row : row = FusedRow(kind.fused, saw.weight, saw.bias, t) /\ Compute(t, row, TRUE, saw, <<>>)
        BY <2>1
  <2>2. PICK via : \E resident \in BOOLEAN :
          /\ via = Via(resident)
          /\ last' = [token |-> t, fused |-> TRUE, had |-> Had, saw |-> saw, row |-> row, via |-> via,
                      out |-> IF via # "raises" /\ Needs(via) \subseteq ops
                              THEN Output(via, row, <<>>, Score[saw.weight][t]) ELSE None]
        BY <2>0 DEF Compute
  <2>3. kind' = kind /\ kind.fused # NotFused  BY <1>4 DEF ForwardFused, Fusable
  <2>4. via # "grouped"
    <3>1. kind.alone # "packed"  BY <2>3, KindsConsistent DEF Consistent, IndInv, BlockInv
    <3> QED  BY <2>2, <3>1, GroupedIsPacked DEF IndInv, BlockInv
  <2>5. PICK h, o : h = Had /\ o = last'.out  OBVIOUS
  <2>6. /\ last'.token = t /\ last'.fused = TRUE /\ last'.had = h /\ last'.saw = saw /\ last'.row = row
        /\ last'.via = via
        /\ o # None => o = Output(via, row, <<>>, Score[saw.weight][t])
        BY <2>2, <2>5
  <2>7. Output(via, row, <<>>, Score[saw.weight][t])' = Output(via, row, <<>>, Score[saw.weight][t])
        BY <2>3 DEF Output
  <2>8. CallInv'
    BY <1>3, <2>0, <2>3, <2>4, <2>5, <2>6, <2>7 DEF CallInv
  <2> QED  BY <2>8
<1>5. CASE ForwardTorch
  <2>1. PICK t \in Tokens : \E slots, row :
          /\ slots = Slots(kind, Had.weight, Had.bias, t)
          /\ row = TorchRow(kind, Had.weight, Had.bias, t)
          /\ Compute(t, row, FALSE, Had, slots)
        BY <1>5 DEF ForwardTorch
  <2>0. PICK slots, row, h :
          /\ slots = Slots(kind, Had.weight, Had.bias, t)
          /\ row = TorchRow(kind, Had.weight, Had.bias, t)
          /\ Compute(t, row, FALSE, Had, slots)
          /\ h = Had
        BY <2>1
  <2>2. PICK via : \E resident \in BOOLEAN :
          /\ last' = [token |-> t, fused |-> FALSE, had |-> h, saw |-> h, row |-> row, via |-> via,
                      out |-> IF via # "raises" /\ Needs(via) \subseteq ops
                              THEN Output(via, row, slots, Score[h.weight][t]) ELSE None]
        BY <2>0 DEF Compute
  <2>3. kind' = kind  BY <1>5 DEF ForwardTorch
  <2>5. PICK o : o = last'.out  OBVIOUS
  <2>6. /\ last'.token = t /\ last'.fused = FALSE /\ last'.had = h /\ last'.saw = h /\ last'.row = row
        /\ last'.via = via
        /\ o # None => o = Output(via, row, slots, Score[h.weight][t])
        BY <2>2, <2>5
  <2>7. Output(via, row, slots, Score[h.weight][t])' = Output(via, row, slots, Score[h.weight][t])
        BY <2>3 DEF Output
  <2> QED  BY <1>3, <2>0, <2>3, <2>5, <2>6, <2>7 DEF CallInv
<1> QED  BY <1>1, <1>2, <1>4, <1>5 DEF Next

(* In every state the last call is as recorded.                            *)
LEMMA CallInvariant == Spec => []CallInv
<1>1. Init => CallInv  BY DEF Init, CallInv, Called
<1> QED  BY <1>1, CallStep, RouterInvariant, PTL DEF Spec

(* The row a call computed is the one of the torch code.                   *)
LEMMA RowIsTorch ==
  ASSUME IndInv, CallInv, Called
  PROVE  last.row = TorchRow(kind, last.had.weight, last.had.bias, last.token)
<1>1. CASE ~ last.fused  BY <1>1 DEF CallInv
<1>2. CASE last.fused
  <2>1. last.saw.weight = last.had.weight /\ (kind.fused.bias => last.saw.bias = last.had.bias)
        BY <1>2 DEF IndInv, RouterReadsCurrent
  <2>2. /\ last.token \in Tokens /\ last.had.weight \in Versions[kind.name] /\ last.had.bias \in Versions[kind.name]
        /\ kind.fused # NotFused
        /\ last.row = FusedRow(kind.fused, last.saw.weight, last.saw.bias, last.token)
        BY <1>2 DEF CallInv
  <2>3. kind \in Kinds /\ kind.name \in Names  BY DEF IndInv, BlockInv
  <2>4. PICK v, u, t, w : v = last.had.weight /\ u = last.had.bias /\ t = last.token /\ w = last.saw.bias  OBVIOUS
  <2>5. /\ v \in Versions[kind.name] /\ u \in Versions[kind.name] /\ t \in Tokens /\ (kind.fused.bias => w = u)
        BY <2>1, <2>2, <2>4
  <2>6. FusedRow(kind.fused, v, w, t) = TorchRow(kind, v, u, t)
    <3>1. PICK k, n : k = kind /\ n = kind.name  OBVIOUS
    <3>2. k \in Kinds /\ k.fused # NotFused /\ n \in Names /\ v \in Versions[n] /\ u \in Versions[n]
          /\ (k.fused.bias => w = u)
          BY <2>2, <2>3, <2>5, <3>1
    <3>3. FusedRow(k.fused, v, w, t) = TorchRow(k, v, u, t)  BY <2>5, <3>2, FusedIsTorch
    <3> QED  BY <3>1, <3>3
  <2> QED  BY <2>1, <2>2, <2>4, <2>6
<1> QED  BY <1>1, <1>2, Zenon

(* The fused route gives the mask and the weights of the torch code it     *)
(* replaces (fused_routing.py:8-13), in every family that calls it, with   *)
(* any number of experts, groups and choices and any scores without ties.  *)
THEOREM FusedRoutesAgree == Spec => []FusedAgrees
<1>1. IndInv /\ CallInv => FusedAgrees  BY RowIsTorch DEF FusedAgrees
<1> QED  BY <1>1, RouterInvariant, CallInvariant, PTL

(* Whatever way the experts of a call run, the block returns the sum its   *)
(* gate owes the token, scaled once, with the shared expert once.          *)
THEOREM OutputsAreOwed == Spec => []OutputOwed
<1>1. IndInv /\ CallInv => OutputOwed
  <2> SUFFICES ASSUME IndInv, CallInv, Called, last.out # None, last.via # "zeros"
               PROVE  last.out = Owed(kind, last.had.weight, last.had.bias, last.token)
      BY DEF OutputOwed
  <2>1. PICK used : /\ last.out = Output(last.via, last.row, used, Score[last.saw.weight][last.token])
                    /\ last.via = "grouped" => used = Slots(kind, last.had.weight, last.had.bias, last.token)
        BY DEF CallInv
  <2>2. last.saw.weight = last.had.weight
        BY DEF CallInv, IndInv, RouterReadsCurrent
  <2>3. last.row = TorchRow(kind, last.had.weight, last.had.bias, last.token)  BY RowIsTorch
  <2>4. /\ last.token \in Tokens /\ last.had.weight \in Versions[kind.name] /\ last.had.bias \in Versions[kind.name]
        BY DEF CallInv
  <2>5. kind \in Kinds /\ kind.name \in Names  BY DEF IndInv, BlockInv
  <2>6. PICK v, u, t, row, via :
          /\ v = last.had.weight /\ u = last.had.bias /\ t = last.token /\ row = last.row /\ via = last.via
        OBVIOUS
  <2>7. /\ v \in Versions[kind.name] /\ u \in Versions[kind.name] /\ t \in Tokens /\ via # "zeros"
        /\ row = TorchRow(kind, v, u, t) /\ (via = "grouped" => used = Slots(kind, v, u, t))
        BY <2>1, <2>3, <2>4, <2>6
  <2>8. Output(via, TorchRow(kind, v, u, t), used, Score[v][t]) = Owed(kind, v, u, t)
        BY <2>5, <2>7, OutputIsOwed
  <2> QED  BY <2>1, <2>2, <2>6, <2>7, <2>8
<1> QED  BY <1>1, RouterInvariant, CallInvariant, PTL
==============================================================================
