------------------------ MODULE OfficialForward_proofs ------------------------
(***************************************************************************)
(* Proofs about OfficialLoader and OfficialForward, for every number of    *)
(* ranks, layers and experts, every checkpoint and every gate.             *)
(***************************************************************************)
EXTENDS OfficialForward, SequenceFacts, FiniteSetTheorems, TLAPS

Hook    == {"orig", "null"}
Globals == [moe: Hook, expert: Hook, engram: Hook, sparse: {"orig", "chunked"},
            world: Nat \ {0}, rank: Nat]
Labels  == {"idle", "config", "build", "moe", "built", "verified", "loading", "attach",
            "loaded", "failed"}
Verified == {"verified", "loading", "attach", "loaded"}
BlockRecord == [shared: Hook, forward: Int]
MoeBlocks   == Seq(BlockRecord)

(* What a rank at label l knows of its official module o, the class s it   *)
(* saved and the blocks b it built: the module is its own outside the      *)
(* construction and names this rank inside a load, the experts divide      *)
(* among the ranks once verified, and the forwards count the layers once   *)
(* patched.                                                                *)
RankOK(r, l, o, s, b) ==
  /\ l \in Labels /\ o \in Globals /\ s \in Hook /\ b \in MoeBlocks
  /\ l \notin {"build", "moe"} => o.moe = "orig" /\ o.engram = "orig"
  /\ IF l = "moe" THEN s = "orig" ELSE o.expert = "orig"
  /\ \A i \in DOMAIN b : b[i].shared = "orig"
  /\ l \notin {"idle", "failed"} \/ Loader # "sharded" => o.world = World /\ o.rank = r
  /\ l \in Verified \cup {"built"} => Len(b) = Layers + Drafts
  /\ l \in Verified /\ Layers > 0 => (Experts \div World) * World = Experts
  /\ l \in Verified \ {"verified"} => \A i \in 1 .. Layers : b[i].forward = i - 1

LoaderInv ==
  /\ job \in Jobs
  /\ pc \in [Ranks -> Labels] /\ official \in [Ranks -> Globals]
  /\ saved \in [Ranks -> Hook] /\ blocks \in [Ranks -> MoeBlocks]
  /\ \A r \in Ranks : RankOK(r, pc[r], official[r], saved[r], blocks[r])

(* A rank takes a step: its own label, module and blocks change.           *)
Moves(r, l, o, s, b) ==
  /\ job' = job
  /\ pc' = [pc EXCEPT ![r] = l] /\ official' = [official EXCEPT ![r] = o]
  /\ saved' = [saved EXCEPT ![r] = s] /\ blocks' = [blocks EXCEPT ![r] = b]

-----------------------------------------------------------------------------
(* A job has at least one process, and only the sharded loader more.       *)
LEMMA JobFacts ==
  ASSUME NEW j \in Jobs
  PROVE  /\ j.world \in Nat \ {0} /\ (j.loader # "sharded" => j.world = 1)
         /\ Layers \in Nat /\ Drafts \in Nat /\ Experts \in Nat
BY LoaderAssumption

(* Whole division of naturals.                                             *)
LEMMA DivNat ==
  ASSUME NEW x \in Nat, NEW a \in Nat \ {0}
  PROVE  /\ x \div a \in Nat /\ x % a \in 0 .. a - 1
         /\ x = a * (x \div a) + (x % a)
OBVIOUS

(* The same of the job that runs.                                          *)
LEMMA WorldFacts ==
  ASSUME job \in Jobs
  PROVE  /\ World \in Nat \ {0} /\ Ranks = 0 .. World - 1
         /\ Loader # "sharded" => World = 1
         /\ Layers \in Nat /\ Drafts \in Nat /\ Experts \in Nat
BY JobFacts DEF World, Ranks, Loader

(* A new process finds the official module as it is.                       *)
LEMMA InitLoader == Init => LoaderInv
<1> SUFFICES ASSUME Init PROVE LoaderInv  OBVIOUS
<1>1. job \in Jobs  BY DEF Init
<1>2. /\ World \in Nat \ {0} /\ Ranks = 0 .. World - 1
      /\ Loader # "sharded" => World = 1
      BY <1>1, WorldFacts
<1> DEFINE o == [moe |-> "orig", expert |-> "orig", engram |-> "orig",
                 sparse |-> "orig", world |-> 1, rank |-> 0]
<1>3. /\ pc = [r \in Ranks |-> "idle"] /\ official = [r \in Ranks |-> o]
      /\ saved = [r \in Ranks |-> "orig"] /\ blocks = [r \in Ranks |-> <<>>]
      BY DEF Init
<1>4. /\ o \in Globals /\ o.moe = "orig" /\ o.expert = "orig" /\ o.engram = "orig"
      /\ o.world = 1 /\ o.rank = 0
      BY DEF Globals, Hook
<1> HIDE DEF o
<1>5. "idle" \in Labels /\ "orig" \in Hook /\ <<>> \in MoeBlocks
      BY DEF Labels, Hook, MoeBlocks
<1>6. ASSUME NEW r \in Ranks PROVE RankOK(r, "idle", o, "orig", <<>>)
  <2>1. Loader # "sharded" => o.world = World /\ o.rank = r  BY <1>2, <1>4
  <2> QED  BY <1>4, <1>5, <2>1 DEF RankOK, Verified
<1> QED  BY <1>1, <1>3, <1>4, <1>5, <1>6 DEF LoaderInv

(* The step of one rank is the others' business only through the job.      *)
LEMMA RankMoves ==
  ASSUME LoaderInv, NEW r \in Ranks, NEW l, NEW o, NEW s, NEW b,
         Moves(r, l, o, s, b), RankOK(r, l, o, s, b)
  PROVE  LoaderInv'
<1>1. /\ job' = job
      /\ pc' = [pc EXCEPT ![r] = l] /\ official' = [official EXCEPT ![r] = o]
      /\ saved' = [saved EXCEPT ![r] = s] /\ blocks' = [blocks EXCEPT ![r] = b]
      BY DEF Moves
<1>2. l \in Labels /\ o \in Globals /\ s \in Hook /\ b \in MoeBlocks  BY DEF RankOK
<1>3. World' = World /\ Loader' = Loader /\ Ranks' = Ranks  BY <1>1 DEF World, Loader, Ranks
<1>4. \A q, l2, o2, s2, b2 : RankOK(q, l2, o2, s2, b2)' <=> RankOK(q, l2, o2, s2, b2)
      BY <1>3 DEF RankOK
<1>5. /\ pc' \in [Ranks -> Labels] /\ official' \in [Ranks -> Globals]
      /\ saved' \in [Ranks -> Hook] /\ blocks' \in [Ranks -> MoeBlocks]
      BY <1>1, <1>2 DEF LoaderInv
<1>6. ASSUME NEW q \in Ranks PROVE RankOK(q, pc'[q], official'[q], saved'[q], blocks'[q])
  <2>1. CASE q = r
    <3>1. pc'[q] = l /\ official'[q] = o /\ saved'[q] = s /\ blocks'[q] = b
          BY <1>1, <2>1 DEF LoaderInv
    <3> QED  BY <2>1, <3>1
  <2>2. CASE q # r
    <3>1. /\ pc'[q] = pc[q] /\ official'[q] = official[q]
          /\ saved'[q] = saved[q] /\ blocks'[q] = blocks[q]
          BY <1>1, <2>2 DEF LoaderInv
    <3> QED  BY <3>1 DEF LoaderInv
  <2> QED  BY <2>1, <2>2
<1>7. (\A q \in Ranks : RankOK(q, pc[q], official[q], saved[q], blocks[q]))'
      BY <1>3, <1>4, <1>6
<1> QED  BY <1>1, <1>3, <1>5, <1>7 DEF LoaderInv

(* A step that keeps the module, the saved class and the blocks only moves *)
(* the label.                                                              *)
LEMMA LabelMoves ==
  ASSUME LoaderInv, NEW r \in Ranks, NEW l, Goto(r, l), UNCHANGED <<job, official, saved, blocks>>
  PROVE  Moves(r, l, official[r], saved[r], blocks[r])
BY DEF LoaderInv, Moves, Goto

(* What leaves labels, modules and blocks alone leaves the invariant.      *)
LEMMA StaysPut ==
  ASSUME LoaderInv, UNCHANGED <<job, pc, official, saved, blocks>>
  PROVE  LoaderInv'
BY DEF LoaderInv, RankOK, World, Loader, Ranks

(* What a rank knows before its step.                                      *)
LEMMA RankKnows ==
  ASSUME LoaderInv, NEW r \in Ranks
  PROVE  /\ RankOK(r, pc[r], official[r], saved[r], blocks[r])
         /\ official \in [Ranks -> Globals] /\ official[r] \in Globals
         /\ World \in Nat \ {0} /\ r \in 0 .. World - 1
         /\ Loader # "sharded" => World = 1 /\ r = 0
         /\ Layers \in Nat /\ Drafts \in Nat /\ Experts \in Nat
<1>1. /\ World \in Nat \ {0} /\ Ranks = 0 .. World - 1
      /\ Loader # "sharded" => World = 1
      /\ Layers \in Nat /\ Drafts \in Nat /\ Experts \in Nat
      BY WorldFacts DEF LoaderInv
<1>2. Loader # "sharded" => r = 0  BY <1>1
<1> QED  BY <1>1, <1>2 DEF LoaderInv

(* Start: the blocks are gone; the sharded loader names the rank.          *)
LEMMA StartLoader ==
  ASSUME LoaderInv, NEW r \in Ranks, NEW agrees, Start(r, agrees)
  PROVE  LoaderInv'
<1>1. /\ RankOK(r, "idle", official[r], saved[r], blocks[r])
      /\ official \in [Ranks -> Globals] /\ official[r] \in Globals
      /\ World \in Nat \ {0} /\ r \in 0 .. World - 1
      /\ Loader # "sharded" => World = 1 /\ r = 0
      BY RankKnows DEF Start
<1>2. /\ job' = job /\ saved' = saved /\ blocks' = [blocks EXCEPT ![r] = <<>>]
      BY DEF Start
<1>3. saved' = [saved EXCEPT ![r] = saved[r]]  BY <1>2 DEF LoaderInv
<1>4. CASE UNCHANGED official /\ \E l \in {"config", "failed"} :
             Goto(r, l) /\ (l = "config" => Loader # "sharded")
  <2>1. PICK l \in {"config", "failed"} : Goto(r, l) /\ (l = "config" => Loader # "sharded")
        BY <1>4
  <2>2. Moves(r, l, official[r], saved[r], <<>>)
    <3>1. official' = [official EXCEPT ![r] = official[r]]  BY <1>4 DEF LoaderInv
    <3> QED  BY <1>2, <1>3, <2>1, <3>1 DEF Moves, Goto
  <2>3. RankOK(r, l, official[r], saved[r], <<>>)
        BY <1>1, <2>1 DEF RankOK, Labels, Verified, MoeBlocks
  <2> QED  BY <2>2, <2>3, RankMoves
<1>5. CASE /\ official' = [official EXCEPT ![r].world = World, ![r].rank = r, ![r].sparse = "chunked"]
           /\ Goto(r, "config")
  <2> DEFINE o == [official[r] EXCEPT !.world = World, !.rank = r, !.sparse = "chunked"]
  <2>1. official' = [official EXCEPT ![r] = o]  BY <1>5
  <2>2. /\ o \in Globals /\ o.moe = official[r].moe /\ o.engram = official[r].engram
        /\ o.expert = official[r].expert /\ o.world = World /\ o.rank = r
    <3>1. r \in Nat /\ World \in Nat \ {0}  BY <1>1
    <3>2. PICK w \in Nat \ {0} : w = World  BY <3>1
    <3>3. o = [official[r] EXCEPT !.world = w, !.rank = r, !.sparse = "chunked"]  BY <3>2
    <3> HIDE DEF o
    <3>4. official[r] \in Globals  BY <1>1
    <3> QED  BY <3>1, <3>2, <3>3, <3>4 DEF Globals
  <2> HIDE DEF o
  <2>3. Moves(r, "config", o, saved[r], <<>>)
        BY <1>2, <1>3, <1>5, <2>1 DEF Moves, Goto
  <2>4. RankOK(r, "config", o, saved[r], <<>>)
        BY <1>1, <2>2 DEF RankOK, Labels, Verified, MoeBlocks
  <2> QED  BY <2>3, <2>4, RankMoves
<1> QED  BY <1>4, <1>5 DEF Start

(* The classes are swapped: the construction begins.                       *)
LEMMA SwapHooksLoader ==
  ASSUME LoaderInv, NEW r \in Ranks, SwapHooks(r)
  PROVE  LoaderInv'
<1>1. /\ RankOK(r, "config", official[r], saved[r], blocks[r])
      /\ official \in [Ranks -> Globals] /\ official[r] \in Globals
      BY RankKnows DEF SwapHooks
<1> DEFINE o == [official[r] EXCEPT !.moe = "null",
                   !.engram = IF Loader = "v41" /\ OffloadEngram THEN "null" ELSE @]
<1>2. official' = [official EXCEPT ![r] = o]  BY <1>1 DEF SwapHooks
<1>3. /\ o \in Globals /\ o.expert = official[r].expert
      /\ o.world = official[r].world /\ o.rank = official[r].rank
      BY <1>1 DEF Globals, Hook
<1> HIDE DEF o
<1>4. Moves(r, "build", o, saved[r], blocks[r])
      BY <1>2 DEF SwapHooks, Moves, Goto, LoaderInv
<1>5. RankOK(r, "build", o, saved[r], blocks[r])
      BY <1>1, <1>3 DEF RankOK, Labels, Verified
<1> QED  BY <1>4, <1>5, RankMoves

(* The class is swapped with the original in saved, then put back.         *)
LEMMA MoeInitLoader ==
  ASSUME LoaderInv, NEW r \in Ranks, EnterMoeInit(r) \/ LeaveMoeInit(r)
  PROVE  LoaderInv'
<1>1. /\ RankOK(r, pc[r], official[r], saved[r], blocks[r])
      /\ official \in [Ranks -> Globals] /\ official[r] \in Globals
      BY RankKnows
<1>2. CASE EnterMoeInit(r)
  <2> DEFINE o == [official[r] EXCEPT !.expert = "null"]
  <2>1. official' = [official EXCEPT ![r] = o]  BY <1>1, <1>2 DEF EnterMoeInit
  <2>2. /\ o \in Globals /\ o.moe = official[r].moe /\ o.engram = official[r].engram
        /\ o.world = official[r].world /\ o.rank = official[r].rank
        BY <1>1 DEF Globals, Hook
  <2> HIDE DEF o
  <2>3. pc[r] = "build" /\ official[r].expert = "orig"  BY <1>1, <1>2 DEF EnterMoeInit, RankOK
  <2>4. Moves(r, "moe", o, "orig", blocks[r])
        BY <1>2, <2>1, <2>3 DEF EnterMoeInit, Moves, Goto, LoaderInv
  <2>5. RankOK(r, "moe", o, "orig", blocks[r])
        BY <1>1, <2>2, <2>3 DEF RankOK, Labels, Verified, Hook
  <2> QED  BY <2>4, <2>5, RankMoves
<1>3. CASE LeaveMoeInit(r)
  <2>1. pc[r] = "moe" /\ saved[r] = "orig"  BY <1>1, <1>3 DEF LeaveMoeInit, RankOK
  <2> DEFINE o == [official[r] EXCEPT !.expert = "orig"]
             x == [shared |-> "orig", forward |-> -1]
  <2>2. official' = [official EXCEPT ![r] = o]  BY <1>1, <1>3, <2>1 DEF LeaveMoeInit
  <2>3. /\ o \in Globals /\ o.moe = official[r].moe /\ o.engram = official[r].engram
        /\ o.world = official[r].world /\ o.rank = official[r].rank /\ o.expert = "orig"
        BY <1>1 DEF Globals, Hook
  <2>4. x \in BlockRecord /\ x.shared = "orig"  BY DEF Hook, BlockRecord
  <2> HIDE DEF o, x
  <2>5. PICK b : b = Append(blocks[r], x)  OBVIOUS
  <2>6. b \in MoeBlocks /\ \A i \in DOMAIN b : b[i].shared = "orig"
    <3>1. blocks[r] \in MoeBlocks /\ \A i \in DOMAIN blocks[r] : blocks[r][i].shared = "orig"
          BY <1>1 DEF RankOK
    <3> QED  BY <2>4, <2>5, <3>1 DEF MoeBlocks
  <2>7. Moves(r, "build", o, saved[r], b)
    <3>1. blocks' = [blocks EXCEPT ![r] = b]  BY <1>3, <2>1, <2>5 DEF LeaveMoeInit, x
    <3> QED  BY <1>3, <2>2, <3>1 DEF LeaveMoeInit, Moves, Goto, LoaderInv
  <2>8. RankOK(r, "build", o, saved[r], b)
        BY <1>1, <2>1, <2>3, <2>6 DEF RankOK, Labels, Verified
  <2> QED  BY <2>7, <2>8, RankMoves
<1> QED  BY <1>2, <1>3

(* Both ways out of the construction restore the module.                   *)
LEMMA RestoredLoader ==
  ASSUME LoaderInv, NEW r \in Ranks, pc[r] \in {"build", "moe"}
  PROVE  \E o : /\ Restored(r) = [official EXCEPT ![r] = o]
                /\ RankOK(r, "failed", o, saved[r], blocks[r])
                /\ pc[r] = "build" /\ Len(blocks[r]) = Layers + Drafts =>
                     RankOK(r, "built", o, saved[r], blocks[r])
<1>1. /\ RankOK(r, pc[r], official[r], saved[r], blocks[r])
      /\ official \in [Ranks -> Globals] /\ official[r] \in Globals
      BY RankKnows
<1> DEFINE o == [official[r] EXCEPT !.moe = "orig", !.engram = "orig",
                   !.expert = IF pc[r] = "moe" THEN saved[r] ELSE @]
<1>2. Restored(r) = [official EXCEPT ![r] = o]  BY <1>1 DEF Restored
<1>3. /\ o \in Globals /\ o.moe = "orig" /\ o.engram = "orig"
      /\ o.expert = (IF pc[r] = "moe" THEN saved[r] ELSE official[r].expert)
      /\ o.world = official[r].world /\ o.rank = official[r].rank
      BY <1>1 DEF Globals, Hook, RankOK
<1> HIDE DEF o
<1>4. o.expert = "orig"  BY <1>1, <1>3 DEF RankOK
<1>5. RankOK(r, "failed", o, saved[r], blocks[r])
      BY <1>1, <1>3, <1>4 DEF RankOK, Labels, Verified
<1>6. pc[r] = "build" /\ Len(blocks[r]) = Layers + Drafts =>
        RankOK(r, "built", o, saved[r], blocks[r])
      BY <1>1, <1>3, <1>4 DEF RankOK, Labels, Verified
<1> QED  BY <1>2, <1>5, <1>6

(* A construction that raises, or ends, leaves the module restored.        *)
LEMMA BuildEndsLoader ==
  ASSUME LoaderInv, NEW r \in Ranks, BuildRaises(r) \/ Built(r)
  PROVE  LoaderInv'
<1>1. pc[r] \in {"build", "moe"}  BY DEF BuildRaises, Built
<1>2. PICK o : /\ Restored(r) = [official EXCEPT ![r] = o]
               /\ RankOK(r, "failed", o, saved[r], blocks[r])
               /\ pc[r] = "build" /\ Len(blocks[r]) = Layers + Drafts =>
                    RankOK(r, "built", o, saved[r], blocks[r])
      BY <1>1, RestoredLoader
<1>3. CASE BuildRaises(r)
  <2>1. Moves(r, "failed", o, saved[r], blocks[r])
        BY <1>2, <1>3 DEF BuildRaises, Moves, Goto, LoaderInv
  <2> QED  BY <1>2, <2>1, RankMoves
<1>4. CASE Built(r)
  <2>1. Moves(r, "built", o, saved[r], blocks[r])
        BY <1>2, <1>4 DEF Built, Moves, Goto, LoaderInv
  <2>2. RankOK(r, "built", o, saved[r], blocks[r])  BY <1>2, <1>4 DEF Built
  <2> QED  BY <2>1, <2>2, RankMoves
<1> QED  BY <1>3, <1>4

(* Verified: every rank has its own range, or there are no blocks.         *)
LEMMA VerifyLoader ==
  ASSUME LoaderInv, NEW r \in Ranks, VerifyRanges(r)
  PROVE  LoaderInv'
<1>1. /\ RankOK(r, "built", official[r], saved[r], blocks[r])
      /\ World \in Nat \ {0} /\ r \in 0 .. World - 1
      /\ Loader # "sharded" => World = 1 /\ r = 0
      /\ Layers \in Nat /\ Drafts \in Nat /\ Experts \in Nat
      BY RankKnows DEF VerifyRanges
<1>2. PICK l : /\ Goto(r, l) /\ l \in {"failed", "verified"}
               /\ l = "verified" => ~ (/\ Loader = "sharded" /\ Layers + Drafts > 0
                                       /\ Cardinality(Local(r)) * World # Experts)
      BY DEF VerifyRanges
<1>3. Moves(r, l, official[r], saved[r], blocks[r])
      BY <1>2, LabelMoves DEF VerifyRanges
<1>4. l = "verified" /\ Layers > 0 => (Experts \div World) * World = Experts
  <2> SUFFICES ASSUME l = "verified", Layers > 0 PROVE (Experts \div World) * World = Experts
      OBVIOUS
  <2>1. CASE Loader # "sharded"
    <3>1. World = 1 /\ Experts \div 1 = Experts  BY <1>1, <2>1
    <3> QED  BY <1>1, <3>1
  <2>2. CASE Loader = "sharded"
    <3>1. Layers + Drafts > 0  BY <1>1
    <3>2. Cardinality(Local(r)) * World = Experts  BY <1>2, <2>2, <3>1
    <3>3. PICK n \in Nat : n = Experts \div World  BY <1>1, DivNat
    <3>4. official[r].world = World /\ official[r].rank = r  BY <1>1 DEF RankOK
    <3>5. Local(r) = r * n .. r * n + n - 1  BY <3>3, <3>4 DEF Local
    <3>6. PICK a \in Nat : a = r * n  BY <1>1
    <3>7. Cardinality(a .. a + n - 1) = n  BY FS_Interval
    <3> QED  BY <3>2, <3>3, <3>5, <3>6, <3>7
  <2> QED  BY <2>1, <2>2
<1>5. RankOK(r, l, official[r], saved[r], blocks[r])
      BY <1>1, <1>2, <1>4 DEF RankOK, Labels, Verified
<1> QED  BY <1>3, <1>5, RankMoves

(* The forwards count the layers.                                          *)
LEMMA PatchLoader ==
  ASSUME LoaderInv, NEW r \in Ranks, PatchForwards(r)
  PROVE  LoaderInv'
<1>1. /\ RankOK(r, "verified", official[r], saved[r], blocks[r])
      /\ Layers \in Nat /\ Drafts \in Nat
      BY RankKnows DEF PatchForwards
<1>2. PICK b : b = [i \in DOMAIN blocks[r] |->
                      IF i <= Layers THEN [blocks[r][i] EXCEPT !.forward = i - 1] ELSE blocks[r][i]]
      OBVIOUS
<1>3. /\ blocks[r] \in MoeBlocks /\ Len(blocks[r]) = Layers + Drafts
      /\ \A i \in DOMAIN blocks[r] : blocks[r][i].shared = "orig"
      BY <1>1 DEF RankOK, Verified
<1>4. ASSUME NEW i \in DOMAIN blocks[r]
      PROVE  /\ b[i] \in BlockRecord /\ b[i].shared = "orig"
             /\ i <= Layers => b[i].forward = i - 1
  <2>1. blocks[r][i] \in BlockRecord /\ i - 1 \in Int  BY <1>3 DEF MoeBlocks
  <2>2. PICK n \in Int : n = i - 1  BY <2>1
  <2>3. /\ [blocks[r][i] EXCEPT !.forward = n] \in BlockRecord
        /\ [blocks[r][i] EXCEPT !.forward = n].shared = blocks[r][i].shared
        /\ [blocks[r][i] EXCEPT !.forward = n].forward = n
        BY <2>1 DEF BlockRecord
  <2> QED  BY <1>2, <1>3, <2>1, <2>2, <2>3
<1>5. /\ DOMAIN b = 1 .. Len(blocks[r]) /\ DOMAIN blocks[r] = 1 .. Len(blocks[r])
      /\ Len(blocks[r]) \in Nat
      BY <1>2, <1>3 DEF MoeBlocks
<1>6. b \in MoeBlocks /\ Len(b) = Layers + Drafts
  <2>1. b \in [1 .. Len(blocks[r]) -> BlockRecord]  BY <1>2, <1>4, <1>5
  <2> QED  BY <1>3, <1>5, <2>1 DEF MoeBlocks
<1>7. Moves(r, "loading", official[r], saved[r], b)
  <2>1. blocks' = [blocks EXCEPT ![r] = b]  BY <1>2 DEF PatchForwards
  <2> QED  BY <2>1 DEF PatchForwards, Moves, Goto, LoaderInv
<1>8. RankOK(r, "loading", official[r], saved[r], b)
      BY <1>1, <1>3, <1>4, <1>5, <1>6 DEF RankOK, Labels, Verified
<1> QED  BY <1>7, <1>8, RankMoves

(* The copying of the weights goes from label to label.                    *)
LEMMA LabelsLoader ==
  ASSUME LoaderInv, NEW r \in Ranks,
         ConfigRaises(r) \/ LoadTensor(r) \/ LoadedAll(r) \/ AttachEngram(r) \/ Again(r)
  PROVE  LoaderInv'
<1>1. /\ RankOK(r, pc[r], official[r], saved[r], blocks[r])
      BY RankKnows
<1>2. UNCHANGED <<job, official, saved, blocks>>
      BY DEF ConfigRaises, LoadTensor, LoadedAll, AttachEngram, Again
<1>3. \/ UNCHANGED pc
      \/ \E l : /\ Goto(r, l)
                /\ \/ l = "failed" /\ pc[r] \in {"config", "loading", "attach"}
                   \/ l \in {"attach", "loaded"} /\ pc[r] \in {"loading", "attach"}
                   \/ l = "idle" /\ pc[r] \in {"loaded", "failed"}
  <2>1. CASE ConfigRaises(r)  BY <2>1 DEF ConfigRaises
  <2>2. CASE LoadTensor(r)
        BY <2>2, Zenon DEF LoadTensor, LoadSharded, LoadWhole
  <2>3. CASE LoadedAll(r)  BY <2>3 DEF LoadedAll
  <2>4. CASE AttachEngram(r)  BY <2>4 DEF AttachEngram
  <2>5. CASE Again(r)  BY <2>5 DEF Again
  <2> QED  BY <2>1, <2>2, <2>3, <2>4, <2>5
<1>4. CASE UNCHANGED pc  BY <1>2, <1>4, StaysPut
<1>5. CASE ~ UNCHANGED pc
  <2>1. PICK l : /\ Goto(r, l)
                 /\ \/ l = "failed" /\ pc[r] \in {"config", "loading", "attach"}
                    \/ l \in {"attach", "loaded"} /\ pc[r] \in {"loading", "attach"}
                    \/ l = "idle" /\ pc[r] \in {"loaded", "failed"}
        BY <1>3, <1>5
  <2>2. Moves(r, l, official[r], saved[r], blocks[r])  BY <1>2, <2>1, LabelMoves
  <2>3. RankOK(r, l, official[r], saved[r], blocks[r])
        BY <1>1, <2>1 DEF RankOK, Labels, Verified
  <2> QED  BY <2>2, <2>3, RankMoves
<1> QED  BY <1>4, <1>5

(* Every step of a loader keeps the invariant.                             *)
LEMMA NextLoader == LoaderInv /\ [Next]_vars => LoaderInv'
<1> SUFFICES ASSUME LoaderInv, [Next]_vars PROVE LoaderInv'  OBVIOUS
<1>1. CASE UNCHANGED vars  BY <1>1, StaysPut DEF vars
<1>2. ASSUME NEW r \in Ranks, Step(r) PROVE LoaderInv'
      BY <1>2, StartLoader, SwapHooksLoader, MoeInitLoader, BuildEndsLoader, VerifyLoader,
         PatchLoader, LabelsLoader DEF Step
<1> QED  BY <1>1, <1>2 DEF Next

(* The forwards leave the loaders where they are.                          *)
LEMMA LoaderInvariant == ForwardSpec => []LoaderInv
<1>1. ForwardInit => LoaderInv  BY InitLoader DEF ForwardInit
<1>2. LoaderInv /\ [ForwardNext]_allVars => LoaderInv'
  <2> SUFFICES ASSUME LoaderInv, [ForwardNext]_allVars PROVE LoaderInv'  OBVIOUS
  <2>1. [Next]_vars
        BY DEF ForwardNext, allVars, AllReduce, Loading, Forward, Attend, RouteTokens,
               RunExpert, ExpertRaises, EnterReduce, Next
  <2> QED  BY <2>1, NextLoader
<1> QED  BY <1>1, <1>2, PTL DEF ForwardSpec

(* Outside the construction of a model the constructors the loaders swap   *)
(* are the official module's own, and every shared expert is real,         *)
(* whatever was raised where and however often a process loads.            *)
THEOREM ModuleIsRestored == ForwardSpec => []ConstructorsRestored
<1>1. LoaderInv => ConstructorsRestored
      BY DEF LoaderInv, RankOK, ConstructorsRestored, HooksRestored, SharedExpertsReal
<1> QED  BY <1>1, LoaderInvariant, PTL

-----------------------------------------------------------------------------
(* The recursion of the sum over the ranks in SumOver, for the term p.     *)
Summing(S, z, p, f) ==
  f = [s \in SUBSET S |-> IF s = {} THEN 0
                          ELSE f[s \ {CHOOSE x \in s : TRUE}] + z[CHOOSE x \in s : TRUE][p]]

(* Where at most one of the ranks has the term, and once, that recursion   *)
(* has a solution,                                                         *)
LEMMA HotSumExists ==
  ASSUME NEW S, NEW O, \A a, b \in O : a = b,
         NEW z, NEW p, \A r \in S : z[r][p] = IF r \in O THEN 1 ELSE 0
  PROVE  Summing(S, z, p, [s \in SUBSET S |-> IF s \cap O = {} THEN 0 ELSE 1])
<1> DEFINE f == [s \in SUBSET S |-> IF s \cap O = {} THEN 0 ELSE 1]
           g == [s \in SUBSET S |-> IF s = {} THEN 0
                    ELSE f[s \ {CHOOSE x \in s : TRUE}] + z[CHOOSE x \in s : TRUE][p]]
<1>1. ASSUME NEW s \in SUBSET S PROVE f[s] = g[s]
  <2>1. CASE s = {}  BY <2>1
  <2>2. CASE s # {}
    <3>1. PICK x : x = CHOOSE e \in s : TRUE  OBVIOUS
    <3>2. x \in s /\ x \in S  BY <2>2, <3>1
    <3>3. g[s] = f[s \ {x}] + z[x][p]  BY <2>2, <3>1
    <3>4. f[s \ {x}] = IF (s \ {x}) \cap O = {} THEN 0 ELSE 1  OBVIOUS
    <3>5. CASE x \in O
      <4>1. (s \ {x}) \cap O = {} /\ s \cap O # {}  BY <3>2, <3>5
      <4> QED  BY <3>2, <3>3, <3>4, <3>5, <4>1
    <3>6. CASE x \notin O
      <4>1. (s \ {x}) \cap O = s \cap O  BY <3>6
      <4> QED  BY <3>2, <3>3, <3>4, <3>6, <4>1
    <3> QED  BY <3>5, <3>6
  <2> QED  BY <2>1, <2>2
<1>2. f = g  BY <1>1
<1> QED  BY <1>2 DEF Summing

(* and no other.                                                           *)
LEMMA SummingUnique ==
  ASSUME NEW S, IsFiniteSet(S), NEW z, NEW p, NEW f, NEW g,
         Summing(S, z, p, f), Summing(S, z, p, g)
  PROVE  f[S] = g[S]
<1> DEFINE T == {n \in Nat : \A s \in SUBSET S : Cardinality(s) = n => f[s] = g[s]}
<1>0. /\ \A s \in SUBSET S : f[s] = IF s = {} THEN 0
             ELSE f[s \ {CHOOSE x \in s : TRUE}] + z[CHOOSE x \in s : TRUE][p]
      /\ \A s \in SUBSET S : g[s] = IF s = {} THEN 0
             ELSE g[s \ {CHOOSE x \in s : TRUE}] + z[CHOOSE x \in s : TRUE][p]
  <2>1. \A s \in SUBSET S : f[s] = IF s = {} THEN 0
             ELSE f[s \ {CHOOSE x \in s : TRUE}] + z[CHOOSE x \in s : TRUE][p]
        BY DEF Summing
  <2>2. \A s \in SUBSET S : g[s] = IF s = {} THEN 0
             ELSE g[s \ {CHOOSE x \in s : TRUE}] + z[CHOOSE x \in s : TRUE][p]
        BY DEF Summing
  <2> QED  BY <2>1, <2>2
<1>1. 0 \in T
  <2>1. ASSUME NEW s \in SUBSET S, Cardinality(s) = 0 PROVE f[s] = g[s]
    <3>1. IsFiniteSet(s)  BY FS_Subset
    <3>2. s = {}  BY <2>1, <3>1, FS_EmptySet
    <3> QED  BY <1>0, <3>2
  <2> QED  BY <2>1
<1>2. ASSUME NEW n \in Nat, n \in T PROVE n + 1 \in T
  <2>1. ASSUME NEW s \in SUBSET S, Cardinality(s) = n + 1 PROVE f[s] = g[s]
    <3>1. IsFiniteSet(s)  BY FS_Subset
    <3>2. s # {}  BY <2>1, <3>1, FS_EmptySet
    <3>3. PICK x : x = CHOOSE e \in s : TRUE  OBVIOUS
    <3>4. x \in s  BY <3>2, <3>3
    <3>5. Cardinality(s \ {x}) = n
      <4>1. Cardinality(s \ {x}) = Cardinality(s) - 1  BY <3>1, <3>4, FS_RemoveElement
      <4> QED  BY <2>1, <4>1
    <3>6. f[s \ {x}] = g[s \ {x}]  BY <1>2, <3>5
    <3> QED  BY <1>0, <3>2, <3>3, <3>6
  <2> QED  BY <2>1
<1> HIDE DEF T
<1>3. \A n \in Nat : n \in T  BY <1>1, <1>2, InductionOnSet
<1>4. Cardinality(S) \in Nat  BY FS_CardinalityType
<1>5. Cardinality(S) \in T  BY <1>3, <1>4
<1> QED  BY <1>5 DEF T

(* So the sum is one if a rank has the term and zero if none has.          *)
LEMMA HotSum ==
  ASSUME NEW S, IsFiniteSet(S), NEW O, \A a, b \in O : a = b,
         NEW p \in Tokens \X Terms, \A r \in S : y[r][p] = IF r \in O THEN 1 ELSE 0
  PROVE  SumOver(S)[p] = IF S \cap O = {} THEN 0 ELSE 1
<1> DEFINE f == CHOOSE f : Summing(S, y, p, f)
           h == [s \in SUBSET S |-> IF s \cap O = {} THEN 0 ELSE 1]
<1>1. Summing(S, y, p, h)  BY HotSumExists
<1>2. Summing(S, y, p, f)  BY <1>1
<1>3. SumOver(S)[p] = f[S]
      BY DEF SumOver, FoldSet, MapThenFoldSet, Summing
<1> HIDE DEF f
<1>4. f[S] = h[S]
  <2> HIDE DEF h
  <2> QED  BY <1>1, <1>2, SummingUnique
<1> QED  BY <1>3, <1>4

-----------------------------------------------------------------------------
(* The ranges of the ranks cover the experts and do not meet.              *)
LEMMA RangesCover ==
  ASSUME NEW n \in Nat, NEW w \in Nat \ {0}, NEW e \in 0 .. n * w - 1
  PROVE  \E r \in 0 .. w - 1 : e \in r * n .. r * n + n - 1
<1>1. n # 0
  <2>1. n = 0 => n * w = 0  OBVIOUS
  <2> QED  BY <2>1
<1>2. e \in Nat /\ e < n * w
  <2>1. PICK m \in Nat : m = n * w  OBVIOUS
  <2> QED  BY <2>1
<1>3. PICK r \in Nat : r = e \div n  BY <1>1, <1>2, DivNat
<1>4. PICK k \in 0 .. n - 1 : k = e % n  BY <1>1, <1>2, DivNat
<1>5. e = n * r + k  BY <1>1, <1>2, <1>3, <1>4, DivNat
<1>6. r < w
  <2>1. SUFFICES ASSUME w <= r PROVE FALSE  OBVIOUS
  <2>2. PICK d \in Nat : r = w + d
    <3>1. r - w \in Nat /\ r = w + (r - w)  BY <2>1
    <3> QED  BY <3>1
  <2>3. n * r = n * w + n * d  BY <2>2
  <2>4. n * d \in Nat /\ n * w \in Nat  OBVIOUS
  <2> QED  BY <1>2, <1>4, <1>5, <2>3, <2>4
<1>7. e \in r * n .. r * n + n - 1
  <2>1. PICK m \in Nat : m = n * r /\ m = r * n  OBVIOUS
  <2> QED  BY <1>4, <1>5, <2>1
<1>8. r \in 0 .. w - 1  BY <1>6
<1> QED  BY <1>7, <1>8, Zenon

(* The ranges of two ranks have no expert in common.                       *)
LEMMA RangesApart ==
  ASSUME NEW n \in Nat, NEW q \in Nat, NEW r \in Nat, q < r,
         NEW e \in q * n .. q * n + n - 1
  PROVE  e \notin r * n .. r * n + n - 1
<1>1. PICK d \in Nat : r = q + 1 + d
  <2>1. r - (q + 1) \in Nat /\ r = q + 1 + (r - (q + 1))  OBVIOUS
  <2> QED  BY <2>1
<1>2. r * n = q * n + n + d * n  BY <1>1
<1>3. d * n \in Nat /\ q * n \in Nat  OBVIOUS
<1> QED  BY <1>2, <1>3

(* What a loaded rank knows of itself: its experts are those of its range, *)
(* and the ranges of all ranks are the experts.                            *)
LEMMA LocalRange ==
  ASSUME LoaderInv, NEW r \in Ranks, pc[r] = "loaded", Layers > 0
  PROVE  \E n \in Nat : /\ n = Experts \div World /\ n * World = Experts
                        /\ Local(r) = r * n .. r * n + n - 1
<1>1. /\ RankOK(r, "loaded", official[r], saved[r], blocks[r])
      /\ World \in Nat \ {0} /\ r \in 0 .. World - 1
      /\ Experts \in Nat
      BY RankKnows
<1>2. PICK n \in Nat : n = Experts \div World  BY <1>1, DivNat
<1>3. official[r].world = World /\ official[r].rank = r  BY <1>1 DEF RankOK
<1>4. n * World = Experts  BY <1>1, <1>2 DEF RankOK, Verified
<1>5. Local(r) = r * n .. r * n + n - 1  BY <1>2, <1>3 DEF Local
<1> QED  BY <1>2, <1>4, <1>5

(* Once all have loaded, each expert is of exactly one rank.               *)
LEMMA OneOwner ==
  ASSUME LoaderInv, \A r \in Ranks : pc[r] = "loaded", Layers > 0,
         NEW e \in 0 .. Experts - 1
  PROVE  /\ \E r \in Ranks : e \in Local(r)
         /\ \A q, r \in Ranks : e \in Local(q) /\ e \in Local(r) => q = r
<1>1. World \in Nat \ {0} /\ Ranks = 0 .. World - 1  BY WorldFacts DEF LoaderInv
<1>2. PICK z \in Ranks : z = 0  BY <1>1
<1>3. PICK n \in Nat : n = Experts \div World /\ n * World = Experts  BY <1>2, LocalRange
<1>4. ASSUME NEW r \in Ranks PROVE Local(r) = r * n .. r * n + n - 1
  <2>1. PICK m \in Nat : m = Experts \div World /\ Local(r) = r * m .. r * m + m - 1
        BY LocalRange
  <2> QED  BY <1>3, <2>1
<1>5. \E r \in Ranks : e \in Local(r)
  <2>1. e \in 0 .. n * World - 1  BY <1>3
  <2>2. PICK r \in 0 .. World - 1 : e \in r * n .. r * n + n - 1  BY <1>1, <2>1, RangesCover
  <2> QED  BY <1>1, <1>4, <2>2
<1>6. ASSUME NEW q \in Ranks, NEW r \in Ranks, e \in Local(q), e \in Local(r) PROVE q = r
  <2>1. q \in Nat /\ r \in Nat  BY <1>1
  <2>2. e \in q * n .. q * n + n - 1 /\ e \in r * n .. r * n + n - 1  BY <1>4, <1>6
  <2>3. ~ (q < r)  BY <2>1, <2>2, RangesApart
  <2>4. ~ (r < q)  BY <2>1, <2>2, RangesApart
  <2> QED  BY <2>1, <2>3, <2>4
<1> QED  BY <1>5, <1>6

(* The experts of a rank are natural numbers: the loop takes the least.    *)
LEMMA LocalNat ==
  ASSUME LoaderInv, NEW r \in Ranks, pc[r] = "loaded"
  PROVE  Local(r) \subseteq Nat
<1>1. /\ RankOK(r, "loaded", official[r], saved[r], blocks[r])
      /\ World \in Nat \ {0} /\ r \in 0 .. World - 1
      /\ Experts \in Nat
      BY RankKnows
<1>2. PICK n \in Nat : n = Experts \div World  BY <1>1, DivNat
<1>3. official[r].world = World /\ official[r].rank = r  BY <1>1 DEF RankOK
<1>4. Local(r) = r * n .. r * n + n - 1  BY <1>2, <1>3 DEF Local
<1>5. r * n \in Nat  BY <1>1
<1> QED  BY <1>4, <1>5

-----------------------------------------------------------------------------
(* The multiples of the chunk below the number of heads, counted.          *)
LEMMA MultipleOf ==
  ASSUME NEW c \in Nat \ {0}, NEW k \in Nat
  PROVE  (c * k) % c = 0
<1>1. PICK x \in Nat : x = c * k  OBVIOUS
<1>2. PICK d \in Nat : d = x \div c  BY <1>1, DivNat
<1>3. PICK m \in 0 .. c - 1 : m = x % c  BY <1>1, DivNat
<1>4. c * k = c * d + m  BY <1>1, <1>2, <1>3, DivNat
<1>5. CASE d < k
  <2>1. PICK e \in Nat : k = d + 1 + e
    <3>1. k - (d + 1) \in Nat /\ k = d + 1 + (k - (d + 1))  BY <1>5
    <3> QED  BY <3>1
  <2>2. c * k = c * d + c + c * e  BY <2>1
  <2>3. c * e \in Nat /\ c * d \in Nat  OBVIOUS
  <2> QED  BY <1>4, <2>2, <2>3
<1>6. CASE k <= d
  <2>1. PICK e \in Nat : d = k + e
    <3>1. d - k \in Nat /\ d = k + (d - k)  BY <1>6
    <3> QED  BY <3>1
  <2>2. c * d = c * k + c * e  BY <2>1
  <2>3. c * e \in Nat /\ c * k \in Nat  OBVIOUS
  <2>4. m = 0  BY <1>4, <2>2, <2>3
  <2> QED  BY <1>1, <1>3, <2>4
<1> QED  BY <1>5, <1>6

(* There are as many chunks as multiples of the chunk below the number of  *)
(* heads, and the last ends with the last head.                            *)
LEMMA StartsCounted ==
  ASSUME NEW c \in Nat \ {0}, NEW h \in Nat \ {0}
  PROVE  \E q \in Nat : /\ Cardinality({s \in 0 .. h - 1 : s % c = 0}) = q + 1
                        /\ q * c < h /\ h <= q * c + c
<1>1. h - 1 \in Nat  OBVIOUS
<1>2. PICK q \in Nat : q = (h - 1) \div c  BY <1>1, DivNat
<1>3. PICK m \in 0 .. c - 1 : m = (h - 1) % c  BY <1>1, DivNat
<1>4. h - 1 = c * q + m  BY <1>1, <1>2, <1>3, DivNat
<1>5. PICK a \in Nat : a = c * q /\ a = q * c  OBVIOUS
<1>6. q * c < h /\ h <= q * c + c  BY <1>3, <1>4, <1>5
<1> DEFINE S == {s \in 0 .. h - 1 : s % c = 0}
           f == [k \in 1 .. q + 1 |-> (k - 1) * c]
<1>7. ASSUME NEW k \in 1 .. q + 1 PROVE f[k] \in S
  <2>1. PICK j \in Nat : j = k - 1 /\ j <= q  OBVIOUS
  <2>2. PICK d \in Nat : q = j + d
    <3>1. q - j \in Nat /\ q = j + (q - j)  BY <2>1
    <3> QED  BY <3>1
  <2>3. q * c = j * c + d * c  BY <2>2
  <2>4. d * c \in Nat /\ j * c \in Nat  OBVIOUS
  <2>5. j * c \in 0 .. h - 1  BY <1>6, <2>3, <2>4
  <2>6. (j * c) % c = 0
    <3>1. j * c = c * j  OBVIOUS
    <3> QED  BY <3>1, MultipleOf
  <2> QED  BY <2>1, <2>5, <2>6
<1>8. ASSUME NEW s \in S PROVE \E k \in 1 .. q + 1 : f[k] = s
  <2>1. s \in Nat /\ s <= h - 1 /\ s % c = 0  OBVIOUS
  <2>2. PICK j \in Nat : j = s \div c  BY <2>1, DivNat
  <2>3. s = c * j  BY <2>1, <2>2, DivNat
  <2>4. j <= q
    <3>1. SUFFICES ASSUME q < j PROVE FALSE  OBVIOUS
    <3>2. PICK d \in Nat : j = q + 1 + d
      <4>1. j - (q + 1) \in Nat /\ j = q + 1 + (j - (q + 1))  BY <3>1
      <4> QED  BY <4>1
    <3>3. c * j = c * q + c + c * d  BY <3>2
    <3>4. c * d \in Nat  OBVIOUS
    <3> QED  BY <1>3, <1>4, <1>5, <2>1, <2>3, <3>3, <3>4
  <2>5. PICK k \in 1 .. q + 1 : k - 1 = j
    <3>1. j + 1 \in 1 .. q + 1 /\ j + 1 - 1 = j  BY <2>4
    <3> QED  BY <3>1
  <2>6. f[k] = s
    <3>1. f[k] = j * c  BY <2>5
    <3> QED  BY <2>3, <3>1
  <2> QED  BY <2>6
<1>9. ASSUME NEW k \in 1 .. q + 1, NEW l \in 1 .. q + 1, f[k] = f[l] PROVE k = l
  <2>1. PICK i \in Nat : i = k - 1  OBVIOUS
  <2>2. PICK j \in Nat : j = l - 1  OBVIOUS
  <2>3. i * c = j * c  BY <1>9, <2>1, <2>2
  <2>4. i * c \in i * c .. i * c + c - 1 /\ i * c \in j * c .. j * c + c - 1
    <3>1. PICK b \in Nat : b = i * c  OBVIOUS
    <3>2. b \in b .. b + c - 1  BY <3>1
    <3> QED  BY <2>3, <3>1, <3>2
  <2>5. ~ (i < j) /\ ~ (j < i)  BY <2>4, RangesApart
  <2> QED  BY <2>1, <2>2, <2>5
<1>10. Cardinality(S) = q + 1
  <2>1. f \in Bijection(1 .. q + 1, S)
    <3>1. f \in [1 .. q + 1 -> S]  BY <1>7
    <3> HIDE DEF f, S
    <3> QED  BY <1>8, <1>9, <3>1 DEF Bijection, Injection, Surjection, IsInjective
  <2>2. IsFiniteSet(1 .. q + 1) /\ Cardinality(1 .. q + 1) = q + 1  BY FS_Interval
  <2> HIDE DEF f, S
  <2> QED  BY <2>1, <2>2, FS_Bijection DEF ExistsBijection
<1> QED  BY <1>6, <1>10

(* Heads in chunks: each head once, at its own place.                      *)
LEMMA HeadsKeepOrder ==
  ASSUME NEW r, NEW h \in Heads
  PROVE  /\ Len(SparseAttn(r, h)) = h
         /\ \A i \in DOMAIN SparseAttn(r, h) : SparseAttn(r, h)[i] = <<i - 1, i - 1>>
<1>1. h \in Nat \ {0} /\ Chunk \in Nat \ {0}  BY ForwardAssumption
<1>2. CASE official[r].sparse = "orig" \/ h <= Chunk
  <2>1. PICK whole : whole = [i \in 1 .. h |-> <<i - 1, i - 1>>]  OBVIOUS
  <2>2. SparseAttn(r, h) = whole  BY <1>2, <2>1 DEF SparseAttn
  <2>3. Len(whole) = h /\ DOMAIN whole = 1 .. h  BY <1>1, <2>1
  <2> QED  BY <2>1, <2>2, <2>3
<1>3. CASE ~ (official[r].sparse = "orig" \/ h <= Chunk)
  <2> DEFINE starts == {s \in 0 .. h - 1 : s % Chunk = 0}
             part(s) == [i \in 1 .. Width(h, s) |-> <<s + i - 1, s + i - 1>>]
  <2>1. PICK q \in Nat : Cardinality(starts) = q + 1 /\ q * Chunk < h /\ h <= q * Chunk + Chunk
        BY <1>1, StartsCounted
  <2>2. PICK seqs : seqs = [n \in 1 .. q + 1 |-> part((n - 1) * Chunk)]  OBVIOUS
  <2>3. SparseAttn(r, h) = FlattenSeq(seqs)
    <3>1. SparseAttn(r, h) =
            FlattenSeq([n \in 1 .. Cardinality(starts) |-> part((n - 1) * Chunk)])
          BY <1>3 DEF SparseAttn
    <3> QED  BY <2>1, <2>2, <3>1
  <2>o. PICK off : off = [n \in 1 .. q + 2 |-> IF n = q + 2 THEN h ELSE (n - 1) * Chunk]
        OBVIOUS
  <2>4. ASSUME NEW n \in 1 .. q + 1
        PROVE  /\ (n - 1) * Chunk \in Nat
               /\ Width(h, (n - 1) * Chunk) \in Nat
               /\ off[n + 1] = (n - 1) * Chunk + Width(h, (n - 1) * Chunk)
    <3>1. PICK k \in Nat : k = n - 1 /\ k <= q  OBVIOUS
    <3>2. PICK a \in Nat : a = k * Chunk  BY <1>1
    <3>3. CASE k = q
      <4>1. n + 1 = q + 2 /\ off[n + 1] = h  BY <2>o, <3>1, <3>3
      <4>2. a < h /\ h <= a + Chunk  BY <2>1, <3>2, <3>3
      <4>3. Width(h, a) = h - a  BY <1>1, <4>2 DEF Width
      <4> QED  BY <1>1, <3>1, <3>2, <4>1, <4>2, <4>3
    <3>4. CASE k # q
      <4>1. PICK d \in Nat : q = k + 1 + d
        <5>1. q - (k + 1) \in Nat /\ q = k + 1 + (q - (k + 1))  BY <3>1, <3>4
        <5> QED  BY <5>1
      <4>2. q * Chunk = a + Chunk + d * Chunk /\ d * Chunk \in Nat  BY <1>1, <3>2, <4>1
      <4>3. a + Chunk < h  BY <1>1, <2>1, <4>2
      <4>4. Width(h, a) = Chunk  BY <1>1, <4>3 DEF Width
      <4>5. off[n + 1] = n * Chunk  BY <2>o, <3>1, <3>4
      <4>6. n * Chunk = a + Chunk
        <5>1. n = k + 1  BY <3>1
        <5> QED  BY <1>1, <3>2, <5>1
      <4> QED  BY <1>1, <3>1, <3>2, <4>4, <4>5, <4>6
    <3> QED  BY <3>3, <3>4
  <2>5. /\ DOMAIN seqs = 1 .. q + 1 /\ Len(seqs) = q + 1
        /\ \A n \in 1 .. q + 1 : /\ seqs[n] \in Seq(Nat \X Nat)
                                 /\ Len(seqs[n]) = Width(h, (n - 1) * Chunk)
    <3>1. ASSUME NEW n \in 1 .. q + 1
          PROVE  /\ seqs[n] \in Seq(Nat \X Nat)
                 /\ Len(seqs[n]) = Width(h, (n - 1) * Chunk)
      <4>1. PICK a \in Nat : a = (n - 1) * Chunk  BY <2>4
      <4>2. PICK w \in Nat : w = Width(h, a)  BY <2>4, <4>1
      <4>3. seqs[n] = [i \in 1 .. w |-> <<a + i - 1, a + i - 1>>]  BY <2>2, <4>1, <4>2
      <4>4. \A i \in 1 .. w : a + i - 1 \in Nat  OBVIOUS
      <4>5. [i \in 1 .. w |-> <<a + i - 1, a + i - 1>>] \in [1 .. w -> Nat \X Nat]  BY <4>4
      <4>6. seqs[n] \in [1 .. w -> Nat \X Nat]  BY <4>3, <4>5
      <4>7. \A g \in [1 .. w -> Nat \X Nat] : g \in Seq(Nat \X Nat) /\ Len(g) = w  OBVIOUS
      <4> QED  BY <4>1, <4>2, <4>6, <4>7
    <3>2. DOMAIN seqs = 1 .. q + 1  BY <2>2
    <3>3. Len(seqs) = q + 1  BY <3>2
    <3> QED  BY <3>1, <3>2, <3>3
  <2>S. PICK S : S = Seq(Nat \X Nat)  OBVIOUS
  <2>P. PICK P : P = Nat \X Nat  OBVIOUS
  <2>6. seqs \in Seq(Seq(P))
    <3>1. seqs \in [1 .. q + 1 -> S]  BY <2>2, <2>5, <2>S
    <3>2. seqs \in Seq(S)  BY <3>1
    <3> QED  BY <2>P, <2>S, <3>2
  <2>7. IsOffsets(seqs, off)
    <3>1. off \in [1 .. Len(seqs) + 1 -> Nat]
      <4>1. ASSUME NEW n \in 1 .. q + 2 PROVE off[n] \in Nat
        <5>1. CASE n = q + 2  BY <1>1, <2>o, <5>1
        <5>2. CASE n # q + 2
          <6>1. n \in 1 .. q + 1 /\ off[n] = (n - 1) * Chunk  BY <2>o, <5>2
          <6> QED  BY <2>4, <6>1
        <5> QED  BY <5>1, <5>2
      <4>2. Len(seqs) + 1 = q + 2  BY <2>5
      <4> QED  BY <2>o, <4>1, <4>2
    <3>2. off[1] = 0
      <4>1. 1 # q + 2 /\ 1 \in 1 .. q + 2 /\ (1 - 1) * Chunk = 0  BY <1>1
      <4> QED  BY <2>o, <4>1
    <3>3. ASSUME NEW n \in 1 .. Len(seqs) PROVE off[n + 1] = off[n] + Len(seqs[n])
      <4>1. n \in 1 .. q + 1  BY <2>5
      <4>2. off[n] = (n - 1) * Chunk
        <5>1. n # q + 2 /\ n \in 1 .. q + 2  BY <4>1
        <5> QED  BY <2>o, <5>1
      <4> QED  BY <2>4, <2>5, <4>1, <4>2
    <3> QED  BY <3>1, <3>2, <3>3 DEF IsOffsets
  <2>8. Len(seqs) + 1 = q + 2 /\ off[q + 2] = h  BY <2>5, <2>o
  <2>9. FlattenSeq(seqs) \in Seq(P) /\ Len(FlattenSeq(seqs)) = h
    <3> QED  BY <2>6, <2>7, <2>8, FlattenSeqPlaces
  <2>10. ASSUME NEW i \in 1 .. h PROVE FlattenSeq(seqs)[i] = <<i - 1, i - 1>>
    <3>1. PICK n \in 1 .. Len(seqs) : \E j \in 1 .. Len(seqs[n]) : i = off[n] + j
      <4>1. i \in 1 .. off[Len(seqs) + 1]  BY <2>8
      <4> QED  BY <2>6, <2>7, <4>1, OffsetsCover
    <3>2. PICK j \in 1 .. Len(seqs[n]) : i = off[n] + j  BY <3>1
    <3>3. FlattenSeq(seqs)[off[n] + j] = seqs[n][j]
      <4> QED  BY <2>6, <2>7, FlattenSeqPlaces
    <3>4. n \in 1 .. q + 1 /\ n # q + 2 /\ n \in 1 .. q + 2  BY <2>5
    <3>5. PICK a \in Nat : a = (n - 1) * Chunk  BY <2>4, <3>4
    <3>6. off[n] = a  BY <2>o, <3>4, <3>5
    <3>7. PICK w \in Nat : w = Width(h, a)  BY <2>4, <3>4, <3>5
    <3>8. seqs[n] = [k \in 1 .. w |-> <<a + k - 1, a + k - 1>>]  BY <2>2, <3>4, <3>5, <3>7
    <3>9. j \in 1 .. w  BY <2>5, <3>4, <3>5, <3>7
    <3>10. seqs[n][j] = <<a + j - 1, a + j - 1>>  BY <3>8, <3>9
    <3> QED  BY <3>2, <3>3, <3>6, <3>10
  <2>11. DOMAIN FlattenSeq(seqs) = 1 .. h  BY <2>9
  <2> QED  BY <2>3, <2>9, <2>10, <2>11
<1> QED  BY <1>2, <1>3

-----------------------------------------------------------------------------
Statements == {"idle", "gate", "experts", "reduce", "done", "raised"}
Counts     == [Tokens \X Terms -> Nat]

(* The term is of the block of call c and an expert of the set chosen.     *)
Due(c, chosen, term) == term[1] = (c - 1) % Layers /\ term[2] \in chosen

(* What a rank at statement l of its call c has, with the experts a still  *)
(* to run, the terms z added so far and the heads h of its attention: in   *)
(* the loop each chosen expert of its range that has run, once, and when   *)
(* forward returns each chosen expert and the shared one, once.            *)
Serves(r, l, c, a, z, h) ==
  /\ l \in Statements /\ c \in Nat /\ a \in SUBSET Int /\ z \in Counts
  /\ l # "idle" => pc[r] = "loaded" /\ c \in 1 .. job.maxCalls
  /\ l \in {"experts", "reduce"} =>
       /\ a \subseteq Local(r)
       /\ \A t \in Tokens, term \in Terms :
            z[<<t, term>>] = IF Due(c, (routes[c][t] \cap Local(r)) \ a, term) THEN 1 ELSE 0
  /\ l = "reduce" => a = {}
  /\ l = "done" => \A t \in Tokens, term \in Terms :
       z[<<t, term>>] = IF Due(c, routes[c][t] \cup {SharedTerm}, term) THEN 1 ELSE 0
  /\ h # <<>> => Len(h) \in Heads /\ \A i \in DOMAIN h : h[i] = <<i - 1, i - 1>>

(* The calls a rank has ended, or not begun.                               *)
Ended(l, c) == IF l \in {"idle", "done"} THEN c ELSE c - 1

(* The ranks are in the same call, since none leaves the sum before all    *)
(* are in it.                                                              *)
ServesInv ==
  /\ LoaderInv
  /\ routes \in [1 .. job.maxCalls -> Routes]
  /\ at \in [Ranks -> Statements] /\ calls \in [Ranks -> Nat]
  /\ active \in [Ranks -> SUBSET Int] /\ y \in [Ranks -> Counts]
  /\ attended = [r \in Ranks |-> attended[r]]
  /\ \A q, r \in Ranks : Ended(at[q], calls[q]) = Ended(at[r], calls[r])
  /\ \A r \in Ranks : Serves(r, at[r], calls[r], active[r], y[r], attended[r])

(* A rank takes a step of its forward.                                     *)
Advances(r, l, c, a, z, h) ==
  /\ UNCHANGED <<vars, routes>>
  /\ at' = [at EXCEPT ![r] = l] /\ calls' = [calls EXCEPT ![r] = c]
  /\ active' = [active EXCEPT ![r] = a] /\ y' = [y EXCEPT ![r] = z]
  /\ attended' = [attended EXCEPT ![r] = h]

(* While the loaders stand still the conjunct means the same.              *)
LEMMA ServesStands ==
  ASSUME UNCHANGED <<vars, routes>>, NEW r, NEW l, NEW c, NEW a, NEW z, NEW h,
         Serves(r, l, c, a, z, h)
  PROVE  Serves(r, l, c, a, z, h)'
<1>1. pc' = pc /\ job' = job /\ routes' = routes /\ official' = official  BY DEF vars
<1>2. Local(r)' = Local(r)  BY <1>1 DEF Local
<1> QED  BY <1>1, <1>2 DEF Serves

(* The step of one rank leaves what the others have computed.              *)
LEMMA RankAdvances ==
  ASSUME ServesInv, NEW r \in Ranks, NEW l, NEW c, NEW a, NEW z, NEW h,
         Advances(r, l, c, a, z, h), Serves(r, l, c, a, z, h),
         Ended(l, c) = Ended(at[r], calls[r])
  PROVE  ServesInv'
<1>1. /\ UNCHANGED <<vars, routes>>
      /\ at' = [at EXCEPT ![r] = l] /\ calls' = [calls EXCEPT ![r] = c]
      /\ active' = [active EXCEPT ![r] = a] /\ y' = [y EXCEPT ![r] = z]
      /\ attended' = [attended EXCEPT ![r] = h]
      BY DEF Advances
<1>2. job' = job /\ routes' = routes /\ Ranks' = Ranks  BY <1>1 DEF vars, Ranks, World
<1>3. LoaderInv'
  <2>1. UNCHANGED <<job, pc, official, saved, blocks>>  BY <1>1 DEF vars
  <2> QED  BY <2>1, StaysPut DEF ServesInv
<1>4. l \in Statements /\ c \in Nat /\ a \in SUBSET Int /\ z \in Counts  BY DEF Serves
<1>5. /\ at' \in [Ranks -> Statements] /\ calls' \in [Ranks -> Nat]
      /\ active' \in [Ranks -> SUBSET Int] /\ y' \in [Ranks -> Counts]
      BY <1>1, <1>4 DEF ServesInv
<1>6. attended' = [q \in Ranks |-> attended'[q]]
  <2>1. attended = [q \in Ranks |-> attended[q]]  BY DEF ServesInv
  <2>2. DOMAIN attended = Ranks  BY <2>1
  <2>3. attended' = [q \in Ranks |-> IF q = r THEN h ELSE attended[q]]  BY <1>1, <2>2
  <2> QED  BY <2>3
<1>7. ASSUME NEW q \in Ranks
      PROVE  \/ /\ q = r /\ at'[q] = l /\ calls'[q] = c /\ active'[q] = a /\ y'[q] = z
                /\ attended'[q] = h
             \/ /\ q # r /\ at'[q] = at[q] /\ calls'[q] = calls[q] /\ active'[q] = active[q]
                /\ y'[q] = y[q] /\ attended'[q] = attended[q]
  <2>1. /\ at \in [Ranks -> Statements] /\ calls \in [Ranks -> Nat]
        /\ active \in [Ranks -> SUBSET Int] /\ y \in [Ranks -> Counts]
        BY DEF ServesInv
  <2>2. DOMAIN attended = Ranks  BY DEF ServesInv
  <2> QED  BY <1>1, <2>1, <2>2
<1>8. ASSUME NEW q \in Ranks
      PROVE  /\ Serves(q, at'[q], calls'[q], active'[q], y'[q], attended'[q])
             /\ Ended(at'[q], calls'[q]) = Ended(at[q], calls[q])
  <2>1. Serves(q, at[q], calls[q], active[q], y[q], attended[q])  BY DEF ServesInv
  <2>2. CASE q = r  BY <1>7, <2>2
  <2>3. CASE q # r  BY <1>7, <2>1, <2>3
  <2> QED  BY <2>2, <2>3
<1>9. ASSUME NEW q \in Ranks
      PROVE  Serves(q, at[q], calls[q], active[q], y[q], attended[q])'
  <2>1. PICK l2, c2, a2, z2, h2 : /\ l2 = at'[q] /\ c2 = calls'[q] /\ a2 = active'[q]
                                  /\ z2 = y'[q] /\ h2 = attended'[q]
        OBVIOUS
  <2>2. Serves(q, l2, c2, a2, z2, h2)  BY <1>8, <2>1
  <2>3. Serves(q, l2, c2, a2, z2, h2)'  BY <1>1, <2>2, ServesStands
  <2> QED  BY <2>1, <2>3
<1>10. \A p, q \in Ranks : Ended(at'[p], calls'[p]) = Ended(at'[q], calls'[q])
       BY <1>8 DEF ServesInv
<1>11. routes' \in [1 .. job'.maxCalls -> Routes]  BY <1>2 DEF ServesInv
<1>12. (\A p, q \in Ranks : Ended(at[p], calls[p]) = Ended(at[q], calls[q]))'
       BY <1>2, <1>10 DEF Ended
<1>13. (\A q \in Ranks : Serves(q, at[q], calls[q], active[q], y[q], attended[q]))'
       BY <1>2, <1>9
<1>14. (attended = [q \in Ranks |-> attended[q]])'  BY <1>2, <1>6
<1>15. /\ (at \in [Ranks -> Statements] /\ calls \in [Ranks -> Nat])'
       /\ (active \in [Ranks -> SUBSET Int] /\ y \in [Ranks -> Counts])'
       BY <1>2, <1>5 DEF Counts
<1> QED  BY <1>3, <1>11, <1>12, <1>13, <1>14, <1>15 DEF ServesInv

-----------------------------------------------------------------------------
(* Nothing is served before the loaders have run.                          *)
LEMMA InitServes == ForwardInit => ServesInv
<1> SUFFICES ASSUME ForwardInit PROVE ServesInv  OBVIOUS
<1>1. LoaderInv  BY InitLoader DEF ForwardInit
<1>2. /\ at = [r \in Ranks |-> "idle"] /\ calls = [r \in Ranks |-> 0]
      /\ active = [r \in Ranks |-> {}] /\ y = [r \in Ranks |-> Nothing]
      /\ attended = [r \in Ranks |-> <<>>]
      /\ routes \in [1 .. job.maxCalls -> Routes]
      BY DEF ForwardInit
<1>3. "idle" \in Statements /\ 0 \in Nat /\ {} \in SUBSET Int  BY DEF Statements
<1>4. Nothing \in Counts  BY DEF Nothing, Counts
<1>5. \A r \in Ranks : Serves(r, "idle", 0, {}, Nothing, <<>>)  BY <1>3, <1>4 DEF Serves
<1>6. \A q, r \in Ranks : Ended(at[q], calls[q]) = Ended(at[r], calls[r])  BY <1>2
<1>7. /\ at \in [Ranks -> Statements] /\ calls \in [Ranks -> Nat]
      /\ active \in [Ranks -> SUBSET Int] /\ y \in [Ranks -> Counts]
      BY <1>2, <1>3, <1>4
<1>8. attended = [r \in Ranks |-> attended[r]]  BY <1>2
<1>9. ASSUME NEW r \in Ranks PROVE Serves(r, at[r], calls[r], active[r], y[r], attended[r])
  <2>1. at[r] = "idle" /\ calls[r] = 0 /\ active[r] = {} /\ y[r] = Nothing /\ attended[r] = <<>>
        BY <1>2
  <2> QED  BY <1>5, <2>1
<1> QED  BY <1>1, <1>2, <1>6, <1>7, <1>8, <1>9 DEF ServesInv

(* A loader's step is of its own process and touches no running forward.   *)
LEMMA LoadingOwn ==
  ASSUME LoaderInv, NEW r \in Ranks, Step(r)
  PROVE  /\ job' = job
         /\ \A q \in Ranks : q # r => pc'[q] = pc[q] /\ official'[q] = official[q]
<1>0. pc \in [Ranks -> Labels] /\ official \in [Ranks -> Globals]  BY DEF LoaderInv
<1>1. job' = job
      BY DEF Step, Start, SwapHooks, ConfigRaises, EnterMoeInit, LeaveMoeInit, BuildRaises,
             Built, VerifyRanges, PatchForwards, LoadTensor, LoadedAll, AttachEngram, Again
<1>2. UNCHANGED pc \/ \E l : Goto(r, l)
  <2>1. ASSUME NEW agrees \in BOOLEAN, Start(r, agrees) PROVE \E l : Goto(r, l)
        BY <2>1 DEF Start
  <2>2. CASE \/ SwapHooks(r) \/ ConfigRaises(r) \/ EnterMoeInit(r) \/ LeaveMoeInit(r)
             \/ BuildRaises(r) \/ Built(r) \/ PatchForwards(r) \/ LoadedAll(r) \/ Again(r)
        BY <2>2 DEF SwapHooks, ConfigRaises, EnterMoeInit, LeaveMoeInit, BuildRaises, Built,
                    PatchForwards, LoadedAll, Again
  <2>3. CASE VerifyRanges(r)
    <3>1. Goto(r, "failed") \/ Goto(r, "verified")  BY <2>3 DEF VerifyRanges
    <3> QED  BY <3>1
  <2>4. CASE LoadTensor(r)
    <3>1. UNCHANGED pc \/ Goto(r, "failed")  BY <2>4, Zenon DEF LoadTensor, LoadSharded, LoadWhole
    <3> QED  BY <3>1
  <2>5. CASE AttachEngram(r)
    <3>1. UNCHANGED pc \/ Goto(r, "loaded") \/ Goto(r, "failed")  BY <2>5 DEF AttachEngram
    <3> QED  BY <3>1
  <2> QED  BY <2>1, <2>2, <2>3, <2>4, <2>5 DEF Step
<1>3. \A q \in Ranks : q # r => pc'[q] = pc[q]
  <2>1. CASE UNCHANGED pc  BY <2>1
  <2>2. CASE \E l : Goto(r, l)
    <3>1. PICK l : pc' = [pc EXCEPT ![r] = l]  BY <2>2 DEF Goto
    <3> QED  BY <1>0, <3>1
  <2> QED  BY <1>2, <2>1, <2>2
<1>4. UNCHANGED official \/ \E o : official' = [official EXCEPT ![r] = o]
  <2>1. ASSUME NEW agrees \in BOOLEAN, Start(r, agrees)
        PROVE  UNCHANGED official \/ \E o : official' = [official EXCEPT ![r] = o]
    <3>1. \/ UNCHANGED official
          \/ official' = [official EXCEPT ![r].world = World, ![r].rank = r,
                                          ![r].sparse = "chunked"]
          BY <2>1 DEF Start
    <3>2. [official EXCEPT ![r].world = World, ![r].rank = r, ![r].sparse = "chunked"]
            = [official EXCEPT ![r] = [official[r] EXCEPT !.world = World, !.rank = r,
                                                          !.sparse = "chunked"]]
          BY <1>0
    <3> QED  BY <3>1, <3>2
  <2>2. CASE SwapHooks(r)
    <3>1. official' = [official EXCEPT ![r] = [official[r] EXCEPT !.moe = "null",
                         !.engram = IF Loader = "v41" /\ OffloadEngram THEN "null" ELSE @]]
          BY <1>0, <2>2 DEF SwapHooks
    <3> QED  BY <3>1
  <2>3. CASE EnterMoeInit(r)
    <3>1. official' = [official EXCEPT ![r] = [official[r] EXCEPT !.expert = "null"]]
          BY <1>0, <2>3 DEF EnterMoeInit
    <3> QED  BY <3>1
  <2>4. CASE LeaveMoeInit(r)
    <3>1. official' = [official EXCEPT ![r] = [official[r] EXCEPT !.expert = saved[r]]]
          BY <1>0, <2>4 DEF LeaveMoeInit
    <3> QED  BY <3>1
  <2>5. CASE BuildRaises(r) \/ Built(r)
    <3>1. PICK o : Restored(r) = [official EXCEPT ![r] = o]
      <4>1. pc[r] \in {"build", "moe"}  BY <2>5 DEF BuildRaises, Built
      <4> QED  BY <4>1, RestoredLoader
    <3> QED  BY <2>5, <3>1 DEF BuildRaises, Built
  <2>6. CASE \/ ConfigRaises(r) \/ VerifyRanges(r) \/ PatchForwards(r) \/ LoadTensor(r)
             \/ LoadedAll(r) \/ AttachEngram(r) \/ Again(r)
        BY <2>6 DEF ConfigRaises, VerifyRanges, PatchForwards, LoadTensor, LoadedAll,
                    AttachEngram, Again
  <2> QED  BY <2>1, <2>2, <2>3, <2>4, <2>5, <2>6 DEF Step
<1>5. \A q \in Ranks : q # r => official'[q] = official[q]
  <2>1. CASE UNCHANGED official  BY <2>1
  <2>2. CASE \E o : official' = [official EXCEPT ![r] = o]
    <3>1. PICK o : official' = [official EXCEPT ![r] = o]  BY <2>2
    <3> QED  BY <1>0, <3>1
  <2> QED  BY <1>4, <2>1, <2>2
<1> QED  BY <1>1, <1>3, <1>5

(* A rank that loads is in no forward.                                     *)
LEMMA LoadingServes ==
  ASSUME ServesInv, NEW r, Loading(r)
  PROVE  ServesInv'
<1>1. r \in Ranks /\ at[r] = "idle" /\ Step(r) /\ UNCHANGED forward  BY DEF Loading
<1>2. /\ job' = job
      /\ \A q \in Ranks : q # r => pc'[q] = pc[q] /\ official'[q] = official[q]
      BY <1>1, LoadingOwn DEF ServesInv
<1>3. /\ at' = at /\ calls' = calls /\ routes' = routes /\ active' = active /\ y' = y
      /\ attended' = attended /\ Ranks' = Ranks
      BY <1>1, <1>2 DEF forward, Ranks, World
<1>4. LoaderInv'
  <2>1. [Next]_vars /\ LoaderInv  BY <1>1 DEF Next, ServesInv
  <2> QED  BY <2>1, NextLoader
<1>5. ASSUME NEW q \in Ranks
      PROVE  Serves(q, at[q], calls[q], active[q], y[q], attended[q])'
  <2>1. Serves(q, at[q], calls[q], active[q], y[q], attended[q])  BY DEF ServesInv
  <2>2. CASE q = r
    <3>1. at[q] = "idle"  BY <1>1, <2>2
    <3> QED  BY <1>3, <2>1, <3>1 DEF Serves, Counts
  <2>3. CASE q # r
    <3>1. pc'[q] = pc[q] /\ official'[q] = official[q]  BY <1>2, <2>3
    <3>2. Local(q)' = Local(q)  BY <3>1 DEF Local
    <3> QED  BY <1>2, <1>3, <2>1, <3>1, <3>2 DEF Serves, Counts
  <2> QED  BY <2>2, <2>3
<1>6. (\A q \in Ranks : Serves(q, at[q], calls[q], active[q], y[q], attended[q]))'
      BY <1>3, <1>5
<1> QED  BY <1>2, <1>3, <1>4, <1>6 DEF ServesInv, Counts, Ended

-----------------------------------------------------------------------------
(* What a rank in a forward knows.                                         *)
LEMMA ServerKnows ==
  ASSUME ServesInv, NEW r \in Ranks, at[r] # "idle"
  PROVE  /\ Serves(r, at[r], calls[r], active[r], y[r], attended[r])
         /\ pc[r] = "loaded" /\ calls[r] \in 1 .. job.maxCalls /\ job.maxCalls \in Nat
         /\ calls[r] \in Nat /\ y[r] \in Counts /\ active[r] \in SUBSET Int
         /\ routes[calls[r]] \in Routes
         /\ Local(r) \subseteq Nat /\ LoaderInv
<1>1. Serves(r, at[r], calls[r], active[r], y[r], attended[r]) /\ LoaderInv  BY DEF ServesInv
<1>2. pc[r] = "loaded" /\ calls[r] \in 1 .. job.maxCalls  BY <1>1 DEF Serves
<1>3. job.maxCalls \in Nat  BY <1>1, ForwardAssumption DEF LoaderInv
<1>4. calls[r] \in Nat /\ y[r] \in Counts /\ active[r] \in SUBSET Int  BY <1>1 DEF Serves
<1>5. routes[calls[r]] \in Routes  BY <1>2 DEF ServesInv
<1>6. Local(r) \subseteq Nat  BY <1>1, <1>2, LocalNat
<1> QED  BY <1>1, <1>2, <1>3, <1>4, <1>5, <1>6

(* What the variables of the others keep.                                  *)
LEMMA ServesTypes ==
  ASSUME ServesInv
  PROVE  /\ at \in [Ranks -> Statements] /\ calls \in [Ranks -> Nat]
         /\ active \in [Ranks -> SUBSET Int] /\ y \in [Ranks -> Counts]
         /\ DOMAIN attended = Ranks /\ attended = [q \in Ranks |-> attended[q]]
<1>1. attended = [q \in Ranks |-> attended[q]]  BY DEF ServesInv
<1>2. DOMAIN attended = Ranks  BY <1>1
<1> QED  BY <1>1, <1>2 DEF ServesInv

(* A rank enters its next call; it is never a call ahead of one that has   *)
(* not ended this one.                                                     *)
LEMMA AttendServes ==
  ASSUME ServesInv, NEW r \in Ranks, Attend(r)
  PROVE  ServesInv'
<1>1. PICK h \in Heads : attended' = [attended EXCEPT ![r] = SparseAttn(r, h)]  BY DEF Attend
<1>2. PICK a : a = SparseAttn(r, h)  OBVIOUS
<1>3. Len(a) \in Heads /\ \A i \in DOMAIN a : a[i] = <<i - 1, i - 1>>
  <2>1. Len(SparseAttn(r, h)) = h  BY HeadsKeepOrder
  <2>2. \A i \in DOMAIN SparseAttn(r, h) : SparseAttn(r, h)[i] = <<i - 1, i - 1>>
        BY HeadsKeepOrder
  <2> QED  BY <1>2, <2>1, <2>2
<1>4. /\ at \in [Ranks -> Statements] /\ calls \in [Ranks -> Nat]
      /\ active \in [Ranks -> SUBSET Int] /\ y \in [Ranks -> Counts]
      BY ServesTypes
<1>5. PICK c \in Nat : c = calls[r]  BY <1>4
<1>6. /\ pc[r] = "loaded" /\ at[r] \in {"idle", "done"} /\ c < job.maxCalls
      BY <1>5 DEF Attend
<1>7. job.maxCalls \in Nat  BY ForwardAssumption DEF ServesInv, LoaderInv
<1>8. Advances(r, "gate", c + 1, active[r], y[r], a)
  <2>1. UNCHANGED <<vars, routes, active, y>>  BY DEF Attend
  <2>2. at' = [at EXCEPT ![r] = "gate"] /\ calls' = [calls EXCEPT ![r] = c + 1]
        BY <1>5 DEF Attend
  <2>3. active' = [active EXCEPT ![r] = active[r]] /\ y' = [y EXCEPT ![r] = y[r]]
        BY <1>4, <2>1
  <2> QED  BY <1>1, <1>2, <2>1, <2>2, <2>3 DEF Advances
<1>9. Serves(r, "gate", c + 1, active[r], y[r], a)
  <2>1. active[r] \in SUBSET Int /\ y[r] \in Counts  BY <1>4
  <2>2. "gate" \in Statements  BY DEF Statements
  <2>3. c + 1 \in Nat /\ c + 1 \in 1 .. job.maxCalls  BY <1>6, <1>7
  <2> QED  BY <1>3, <1>6, <2>1, <2>2, <2>3 DEF Serves
<1>10. Ended("gate", c + 1) = Ended(at[r], calls[r])
  <2>1. Ended("gate", c + 1) = c  BY DEF Ended
  <2>2. Ended(at[r], calls[r]) = c  BY <1>5, <1>6 DEF Ended
  <2> QED  BY <2>1, <2>2
<1> QED  BY <1>8, <1>9, <1>10, RankAdvances

(* y is zero, and no expert of the range outside of active was chosen.     *)
LEMMA RouteServes ==
  ASSUME ServesInv, NEW r \in Ranks, RouteTokens(r)
  PROVE  ServesInv'
<1>1. /\ Serves(r, "gate", calls[r], active[r], y[r], attended[r])
      /\ pc[r] = "loaded" /\ calls[r] \in 1 .. job.maxCalls /\ calls[r] \in Nat
      /\ Local(r) \subseteq Nat
  <2>1. at[r] = "gate" /\ at[r] # "idle"  BY DEF RouteTokens
  <2> QED  BY <2>1, ServerKnows
<1>2. /\ at \in [Ranks -> Statements] /\ calls \in [Ranks -> Nat]
      /\ active \in [Ranks -> SUBSET Int] /\ y \in [Ranks -> Counts]
      /\ DOMAIN attended = Ranks /\ attended = [q \in Ranks |-> attended[q]]
      BY ServesTypes
<1>3. PICK c \in Nat : c = calls[r]  BY <1>1
<1>4. PICK a : a = ActiveIn(r)  OBVIOUS
<1>5. Advances(r, "experts", c, a, Nothing, attended[r])
  <2>1. UNCHANGED <<vars, calls, routes, attended>>  BY DEF RouteTokens
  <2>2. calls' = [calls EXCEPT ![r] = c]  BY <1>2, <1>3, <2>1
  <2>3. attended' = [attended EXCEPT ![r] = attended[r]]
    <3>1. \A f : f = [q \in DOMAIN f |-> f[q]] /\ r \in DOMAIN f => f = [f EXCEPT ![r] = f[r]]
          OBVIOUS
    <3> QED  BY <1>2, <2>1, <3>1
  <2> QED  BY <1>4, <2>1, <2>2, <2>3 DEF RouteTokens, Advances
<1>6. Serves(r, "experts", c, a, Nothing, attended[r])
  <2>1. a \subseteq Local(r) /\ a \in SUBSET Int  BY <1>1, <1>4 DEF ActiveIn
  <2>2. ASSUME NEW t \in Tokens, NEW term \in Terms
        PROVE  Nothing[<<t, term>>] =
                 IF Due(c, (routes[c][t] \cap Local(r)) \ a, term) THEN 1 ELSE 0
    <3>1. <<t, term>> \in Tokens \X Terms  OBVIOUS
    <3>2. Nothing[<<t, term>>] = 0  BY <3>1 DEF Nothing
    <3>3. term[2] \in routes[c][t] /\ term[2] \in Local(r) => term[2] \in a
          BY <1>3, <1>4 DEF ActiveIn, Route
    <3> QED  BY <3>2, <3>3 DEF Due
  <2>3. Nothing \in Counts /\ "experts" \in Statements  BY DEF Nothing, Counts, Statements
  <2>4. attended[r] # <<>> => /\ Len(attended[r]) \in Heads
                              /\ \A i \in DOMAIN attended[r] : attended[r][i] = <<i - 1, i - 1>>
        BY <1>1 DEF Serves
  <2> QED  BY <1>1, <1>3, <2>1, <2>2, <2>3, <2>4 DEF Serves
<1>7. Ended("experts", c) = Ended(at[r], calls[r])
      BY <1>3 DEF Ended, RouteTokens
<1> QED  BY <1>5, <1>6, <1>7, RankAdvances

(* A rank enters the sum when all experts of its range have run.           *)
LEMMA EnterServes ==
  ASSUME ServesInv, NEW r \in Ranks, EnterReduce(r) \/ ExpertRaises(r)
  PROVE  ServesInv'
<1>0. PICK l \in {"reduce", "raised"} :
        /\ at' = [at EXCEPT ![r] = l]
        /\ l = "reduce" => active[r] = {}
      BY DEF EnterReduce, ExpertRaises
<1>1. /\ Serves(r, "experts", calls[r], active[r], y[r], attended[r])
      /\ at[r] = "experts"
  <2>1. at[r] = "experts" /\ at[r] # "idle"  BY DEF EnterReduce, ExpertRaises
  <2> QED  BY <2>1, ServerKnows
<1>2. /\ at \in [Ranks -> Statements] /\ calls \in [Ranks -> Nat]
      /\ active \in [Ranks -> SUBSET Int] /\ y \in [Ranks -> Counts]
      /\ DOMAIN attended = Ranks /\ attended = [q \in Ranks |-> attended[q]]
      BY ServesTypes
<1>3. Advances(r, l, calls[r], active[r], y[r], attended[r])
  <2>1. UNCHANGED <<vars, calls, routes, active, y, attended>>
        BY DEF EnterReduce, ExpertRaises
  <2>2. attended' = [attended EXCEPT ![r] = attended[r]]
    <3>1. \A f : f = [q \in DOMAIN f |-> f[q]] /\ r \in DOMAIN f => f = [f EXCEPT ![r] = f[r]]
          OBVIOUS
    <3> QED  BY <1>2, <2>1, <3>1
  <2>3. /\ calls' = [calls EXCEPT ![r] = calls[r]] /\ active' = [active EXCEPT ![r] = active[r]]
        /\ y' = [y EXCEPT ![r] = y[r]]
        BY <1>2, <2>1
  <2>4. UNCHANGED <<vars, routes>> /\ at' = [at EXCEPT ![r] = l]  BY <1>0, <2>1
  <2> QED  BY <2>2, <2>3, <2>4 DEF Advances
<1>4. Serves(r, l, calls[r], active[r], y[r], attended[r])
  <2>1. CASE l = "reduce"  BY <1>0, <1>1, <2>1 DEF Serves, Statements
  <2>2. CASE l = "raised"  BY <1>1, <2>2 DEF Serves, Statements
  <2> QED  BY <2>1, <2>2
<1>5. Ended(l, calls[r]) = Ended(at[r], calls[r])  BY <1>1 DEF Ended
<1> QED  BY <1>3, <1>4, <1>5, RankAdvances

(* The forwards are numbered as their blocks, so a rank runs the bundle of *)
(* the block it is in.                                                     *)
LEMMA ForwardNumber ==
  ASSUME ServesInv, NEW r \in Ranks, at[r] # "idle", Layers > 0
  PROVE  /\ Block(r) \in 0 .. Layers - 1
         /\ blocks[r][Block(r) + 1].forward = Block(r)
<1>1. /\ pc[r] = "loaded" /\ calls[r] \in 1 .. job.maxCalls /\ job.maxCalls \in Nat /\ LoaderInv
      BY ServerKnows
<1>2. /\ RankOK(r, pc[r], official[r], saved[r], blocks[r])
      /\ Layers \in Nat
      BY <1>1, RankKnows
<1>3. \A i \in 1 .. Layers : blocks[r][i].forward = i - 1  BY <1>1, <1>2 DEF RankOK, Verified
<1>4. PICK n \in Nat : n = calls[r] - 1  BY <1>1
<1>5. PICK b \in 0 .. Layers - 1 : b = n % Layers  BY <1>2, DivNat
<1>6. Block(r) = b  BY <1>4, <1>5 DEF Block
<1>7. b + 1 \in 1 .. Layers /\ (b + 1) - 1 = b  BY <1>2, <1>5
<1> QED  BY <1>3, <1>5, <1>6, <1>7

(* One more expert of the range has run, once, for the tokens that chose   *)
(* it.                                                                     *)
LEMMA RunServes ==
  ASSUME ServesInv, NEW r \in Ranks, RunExpert(r)
  PROVE  ServesInv'
<1>1. at[r] = "experts" /\ at[r] # "idle" /\ active[r] # {}  BY DEF RunExpert
<1>2. /\ Serves(r, "experts", calls[r], active[r], y[r], attended[r])
      /\ pc[r] = "loaded" /\ calls[r] \in 1 .. job.maxCalls
      /\ Local(r) \subseteq Nat
      BY <1>1, ServerKnows
<1>3. /\ at \in [Ranks -> Statements] /\ calls \in [Ranks -> Nat]
      /\ active \in [Ranks -> SUBSET Int] /\ y \in [Ranks -> Counts]
      /\ DOMAIN attended = Ranks /\ attended = [q \in Ranks |-> attended[q]]
      BY ServesTypes
<1>4. PICK c, a, z, h : c = calls[r] /\ a = active[r] /\ z = y[r] /\ h = attended[r]
      OBVIOUS
<1>5. a \subseteq Local(r) /\ a # {} /\ a \in SUBSET Int /\ z \in Counts /\ c \in Nat
      BY <1>1, <1>2, <1>4 DEF Serves
<1>6. PICK e : e = CHOOSE x \in a : \A o \in a : x <= o  OBVIOUS
<1>7. e \in a
  <2>1. \E x \in a : \A o \in a : x <= o
    <3>1. a \subseteq Nat /\ a # {}  BY <1>2, <1>5
    <3> QED  BY <3>1, LeastNat
  <2> QED  BY <1>6, <2>1
<1>8. PICK b : b = blocks[r][Block(r) + 1].forward  OBVIOUS
<1>9. PICK w : w = [p \in DOMAIN z |->
                      IF p[2] = <<b, e>> /\ e \in Route(r)[p[1]] THEN z[p] + 1 ELSE z[p]]
      OBVIOUS
<1>10. Advances(r, "experts", c, a \ {e}, w, h)
  <2>1. UNCHANGED <<vars, at, calls, routes, attended>>  BY DEF RunExpert
  <2>2. attended' = [attended EXCEPT ![r] = h]
    <3>1. \A f : f = [q \in DOMAIN f |-> f[q]] /\ r \in DOMAIN f => f = [f EXCEPT ![r] = f[r]]
          OBVIOUS
    <3> QED  BY <1>3, <1>4, <2>1, <3>1
  <2>3. at' = [at EXCEPT ![r] = "experts"] /\ calls' = [calls EXCEPT ![r] = c]
        BY <1>1, <1>3, <1>4, <2>1
  <2>4. active' = [active EXCEPT ![r] = a \ {e}] /\ y' = [y EXCEPT ![r] = w]
    <3>1. active' = [active EXCEPT ![r] = active[r] \ {e}]  BY <1>4, <1>6 DEF RunExpert
    <3>2. y' = [y EXCEPT ![r] = [p \in DOMAIN y[r] |->
                   IF p[2] = <<b, e>> /\ e \in Route(r)[p[1]] THEN y[r][p] + 1 ELSE y[r][p]]]
          BY <1>4, <1>6, <1>8 DEF RunExpert
    <3> QED  BY <1>4, <1>9, <3>1, <3>2
  <2> QED  BY <2>1, <2>2, <2>3, <2>4 DEF Advances
<1>11. w \in Counts
  <2>1. \A p \in DOMAIN z : z[p] \in Nat  BY <1>5 DEF Counts
  <2>2. DOMAIN z = Tokens \X Terms  BY <1>5 DEF Counts
  <2> QED  BY <1>9, <2>1, <2>2 DEF Counts
<1>12. ASSUME NEW t \in Tokens, NEW term \in Terms
       PROVE  w[<<t, term>>] =
                IF Due(c, (routes[c][t] \cap Local(r)) \ (a \ {e}), term) THEN 1 ELSE 0
  <2>1. <<t, term>> \in DOMAIN z /\ <<t, term>>[1] = t /\ <<t, term>>[2] = term
    <3>1. DOMAIN z = Tokens \X Terms  BY <1>5 DEF Counts
    <3> QED  BY <3>1
  <2>2. w[<<t, term>>] = IF term = <<b, e>> /\ e \in routes[c][t]
                         THEN z[<<t, term>>] + 1 ELSE z[<<t, term>>]
        BY <1>4, <1>9, <2>1 DEF Route
  <2>3. z[<<t, term>>] = IF Due(c, (routes[c][t] \cap Local(r)) \ a, term) THEN 1 ELSE 0
        BY <1>2, <1>4 DEF Serves
  <2>4. b = (c - 1) % Layers
    <3>1. Layers > 0
      <4>1. term[1] \in 0 .. Layers - 1  BY DEF Terms
      <4>2. Layers \in Nat  BY LoaderAssumption
      <4> QED  BY <4>1, <4>2
    <3>2. b = Block(r)  BY <1>1, <1>8, <3>1, ForwardNumber
    <3> QED  BY <1>4, <3>2 DEF Block
  <2>5. term = <<term[1], term[2]>>  BY DEF Terms
  <2>6. e \in Local(r)  BY <1>5, <1>7
  <2>7. CASE term = <<b, e>>
    <3>1. term[1] = b /\ term[2] = e  BY <2>7
    <3>2. ~ Due(c, (routes[c][t] \cap Local(r)) \ a, term)  BY <1>7, <3>1 DEF Due
    <3>3. Due(c, (routes[c][t] \cap Local(r)) \ (a \ {e}), term) <=> e \in routes[c][t]
          BY <2>4, <2>6, <3>1 DEF Due
    <3> QED  BY <2>2, <2>3, <2>7, <3>2, <3>3
  <2>8. CASE term # <<b, e>>
    <3>1. term[1] # b \/ term[2] # e  BY <2>5, <2>8
    <3>2. Due(c, (routes[c][t] \cap Local(r)) \ (a \ {e}), term) <=>
            Due(c, (routes[c][t] \cap Local(r)) \ a, term)
          BY <2>4, <3>1 DEF Due
    <3> QED  BY <2>2, <2>3, <2>8, <3>2
  <2> QED  BY <2>7, <2>8
<1>13. Serves(r, "experts", c, a \ {e}, w, h)
  <2>1. /\ "experts" \in Statements /\ c \in Nat /\ pc[r] = "loaded" /\ c \in 1 .. job.maxCalls
        /\ a \ {e} \subseteq Local(r) /\ a \ {e} \in SUBSET Int
        BY <1>2, <1>4, <1>5 DEF Statements
  <2>2. h # <<>> => Len(h) \in Heads /\ \A i \in DOMAIN h : h[i] = <<i - 1, i - 1>>
        BY <1>2, <1>4 DEF Serves
  <2> QED  BY <1>11, <1>12, <2>1, <2>2 DEF Serves
<1>14. Ended("experts", c) = Ended(at[r], calls[r])  BY <1>1, <1>4
<1> QED  BY <1>10, <1>13, <1>14, RankAdvances

(* The ranks have their terms apart, and the sum has them all.             *)
LEMMA SumHasTerms ==
  ASSUME ServesInv, \A r \in Ranks : at[r] = "reduce",
         NEW c \in Nat, \A r \in Ranks : calls[r] = c,
         NEW t \in Tokens, NEW term \in Terms
  PROVE  SumOver(Ranks)[<<t, term>>] =
           IF Due(c, routes[c][t], term) THEN 1 ELSE 0
<1>1. /\ World \in Nat \ {0} /\ Ranks = 0 .. World - 1 /\ LoaderInv
      /\ Layers \in Nat /\ Experts \in Nat
      BY WorldFacts DEF ServesInv, LoaderInv
<1>2. IsFiniteSet(Ranks)  BY <1>1, FS_Interval
<1>3. ASSUME NEW r \in Ranks
      PROVE  /\ pc[r] = "loaded" /\ Local(r) \subseteq Nat
             /\ y[r][<<t, term>>] = IF Due(c, routes[c][t] \cap Local(r), term) THEN 1 ELSE 0
             /\ routes[c] \in Routes
  <2>1. at[r] = "reduce" /\ at[r] # "idle" /\ calls[r] = c  OBVIOUS
  <2>2. /\ Serves(r, "reduce", c, active[r], y[r], attended[r])
        /\ pc[r] = "loaded" /\ Local(r) \subseteq Nat /\ routes[c] \in Routes
        BY <2>1, ServerKnows
  <2>3. active[r] = {}  BY <2>2 DEF Serves
  <2>4. y[r][<<t, term>>] =
          IF Due(c, (routes[c][t] \cap Local(r)) \ active[r], term) THEN 1 ELSE 0
        BY <2>2 DEF Serves
  <2>5. (routes[c][t] \cap Local(r)) \ active[r] = routes[c][t] \cap Local(r)  BY <2>3
  <2> QED  BY <2>2, <2>4, <2>5
<1>4. Layers > 0
  <2>1. term[1] \in 0 .. Layers - 1  BY DEF Terms
  <2> QED  BY <1>1, <2>1
<1>5. PICK p : p = <<t, term>>  OBVIOUS
<1>6. p \in Tokens \X Terms  BY <1>5
<1>7. PICK O : O = {r \in Ranks : Due(c, routes[c][t] \cap Local(r), term)}  OBVIOUS
<1>8. \A r \in Ranks : y[r][p] = IF r \in O THEN 1 ELSE 0  BY <1>3, <1>5, <1>7
<1>9. routes[c][t] \subseteq 0 .. Experts - 1
  <2>1. 0 \in Ranks  BY <1>1
  <2>2. routes[c] \in Routes  BY <1>3, <2>1
  <2> QED  BY <2>2, ForwardAssumption
<1>10. ASSUME term[2] \in routes[c][t]
       PROVE  /\ \E r \in Ranks : term[2] \in Local(r)
              /\ \A q, r \in Ranks : term[2] \in Local(q) /\ term[2] \in Local(r) => q = r
  <2>1. PICK e \in 0 .. Experts - 1 : e = term[2]  BY <1>9, <1>10
  <2>2. /\ \E r \in Ranks : e \in Local(r)
        /\ \A q, r \in Ranks : e \in Local(q) /\ e \in Local(r) => q = r
        BY <1>1, <1>3, <1>4, OneOwner
  <2> QED  BY <2>1, <2>2
<1>11. \A q, r \in O : q = r  BY <1>7, <1>10 DEF Due
<1>12. SumOver(Ranks)[p] = IF Ranks \cap O = {} THEN 0 ELSE 1
       BY <1>2, <1>6, <1>8, <1>11, HotSum
<1>13. Ranks \cap O = {} <=> ~ Due(c, routes[c][t], term)
  <2>1. ASSUME Due(c, routes[c][t], term) PROVE Ranks \cap O # {}
    <3>1. term[2] \in routes[c][t]  BY <2>1 DEF Due
    <3>2. PICK r \in Ranks : term[2] \in Local(r)  BY <1>10, <3>1
    <3>3. r \in O  BY <1>7, <2>1, <3>1, <3>2 DEF Due
    <3> QED  BY <3>3
  <2>2. ASSUME NEW r \in O PROVE Due(c, routes[c][t], term)  BY <1>7 DEF Due
  <2> QED  BY <2>1, <2>2
<1> QED  BY <1>5, <1>12, <1>13

(* The sum over the ranks has every chosen expert once, and the shared     *)
(* expert is added once to each.                                           *)
LEMMA ReduceServes ==
  ASSUME ServesInv, AllReduce
  PROVE  ServesInv'
<1>1. /\ World \in Nat \ {0} /\ Ranks = 0 .. World - 1 /\ LoaderInv
      BY WorldFacts DEF ServesInv, LoaderInv
<1>2. /\ at \in [Ranks -> Statements] /\ calls \in [Ranks -> Nat]
      /\ active \in [Ranks -> SUBSET Int] /\ y \in [Ranks -> Counts]
      BY ServesTypes
<1>3. \A r \in Ranks : at[r] = "reduce"  BY DEF AllReduce
<1>4. \E c \in Nat : \A r \in Ranks : calls[r] = c
  <2>1. 0 \in Ranks  BY <1>1
  <2>2. ASSUME NEW r \in Ranks PROVE calls[r] = calls[0]
    <3>1. Ended("reduce", calls[r]) = Ended("reduce", calls[0])
          BY <1>3, <2>1 DEF ServesInv
    <3>2. calls[r] - 1 = calls[0] - 1  BY <3>1 DEF Ended
    <3>3. calls[r] \in Nat /\ calls[0] \in Nat  BY <1>2, <2>1
    <3> QED  BY <3>2, <3>3
  <2> QED  BY <1>2, <2>1, <2>2
<1>5. PICK c \in Nat : \A r \in Ranks : calls[r] = c  BY <1>4
<1>6. /\ y' = Reduced /\ at' = [r \in Ranks |-> "done"]
      /\ UNCHANGED <<vars, calls, routes, active, attended>>
      BY DEF AllReduce
<1>7. /\ job' = job /\ pc' = pc /\ official' = official /\ saved' = saved /\ blocks' = blocks
      /\ Ranks' = Ranks
      BY <1>6 DEF vars, Ranks, World
<1>8. LoaderInv'  BY <1>1, <1>7, StaysPut
<1>9. ASSUME NEW r \in Ranks
      PROVE  /\ y'[r] \in Counts
             /\ \A t \in Tokens, term \in Terms :
                  y'[r][<<t, term>>] =
                    IF Due(c, routes[c][t] \cup {SharedTerm}, term) THEN 1 ELSE 0
  <2>1. PICK s : s = SumOver(Ranks)  OBVIOUS
  <2>2. DOMAIN s = Tokens \X Terms  BY <2>1 DEF SumOver
  <2>3. PICK b : b = Block(r)  OBVIOUS
  <2>4. y'[r] = [p \in Tokens \X Terms |->
                   IF p[2] = <<b, SharedTerm>> THEN s[p] + 1 ELSE s[p]]
        BY <1>6, <2>1, <2>2, <2>3 DEF Reduced, WithShared
  <2>5. b = (c - 1) % Layers  BY <1>5, <2>3 DEF Block
  <2>6. ASSUME NEW t \in Tokens, NEW term \in Terms
        PROVE  s[<<t, term>>] = IF Due(c, routes[c][t], term) THEN 1 ELSE 0
    <3>1. \A q \in Ranks : calls[q] = c  BY <1>5
    <3> QED  BY <1>3, <2>1, <3>1, SumHasTerms
  <2>8. ASSUME NEW t \in Tokens PROVE SharedTerm \notin routes[c][t]
    <3>1. at[r] # "idle" /\ calls[r] = c  BY <1>3, <1>5
    <3>2. routes[c] \in Routes  BY <3>1, ServerKnows
    <3>3. routes[c][t] \subseteq 0 .. Experts - 1  BY <3>2, ForwardAssumption
    <3> QED  BY <3>3 DEF SharedTerm
  <2>9. ASSUME NEW t \in Tokens, NEW term \in Terms
        PROVE  y'[r][<<t, term>>] =
                 IF Due(c, routes[c][t] \cup {SharedTerm}, term) THEN 1 ELSE 0
    <3>1. <<t, term>> \in Tokens \X Terms /\ <<t, term>>[2] = term  OBVIOUS
    <3>2. y'[r][<<t, term>>] = IF term = <<b, SharedTerm>>
                               THEN s[<<t, term>>] + 1 ELSE s[<<t, term>>]
          BY <2>4, <3>1
    <3>3. term = <<term[1], term[2]>>  BY DEF Terms
    <3>4. CASE term = <<b, SharedTerm>>
      <4>1. term[1] = b /\ term[2] = SharedTerm  BY <3>4
      <4>2. ~ Due(c, routes[c][t], term)  BY <2>8, <4>1 DEF Due
      <4>3. Due(c, routes[c][t] \cup {SharedTerm}, term)  BY <2>5, <4>1 DEF Due
      <4> QED  BY <2>6, <3>2, <3>4, <4>2, <4>3
    <3>5. CASE term # <<b, SharedTerm>>
      <4>1. term[1] # b \/ term[2] # SharedTerm  BY <3>3, <3>5
      <4>2. Due(c, routes[c][t] \cup {SharedTerm}, term) <=> Due(c, routes[c][t], term)
            BY <2>5, <4>1 DEF Due
      <4> QED  BY <2>6, <3>2, <3>5, <4>2
    <3> QED  BY <3>4, <3>5
  <2>10. y'[r] \in Counts
    <3>1. ASSUME NEW p \in Tokens \X Terms PROVE s[p] \in Nat
      <4>1. PICK t \in Tokens : \E term \in Terms : p = <<t, term>>  OBVIOUS
      <4>2. PICK term \in Terms : p = <<t, term>>  BY <4>1
      <4> QED  BY <2>6, <4>2
    <3> QED  BY <2>4, <3>1 DEF Counts
  <2> QED  BY <2>9, <2>10
<1>10. ASSUME NEW r \in Ranks
       PROVE  Serves(r, at[r], calls[r], active[r], y[r], attended[r])'
  <2>1. at[r] = "reduce" /\ at[r] # "idle" /\ calls[r] = c  BY <1>3, <1>5
  <2>2. Serves(r, "reduce", c, active[r], y[r], attended[r])  BY <2>1 DEF ServesInv
  <2>3. at'[r] = "done" /\ calls'[r] = c /\ active'[r] = active[r] /\ attended'[r] = attended[r]
        BY <1>6, <2>1
  <2>4. routes' = routes  BY <1>6
  <2>5. PICK z : z = y'[r]  OBVIOUS
  <2>6. Serves(r, "done", c, active[r], z, attended[r])
        BY <1>9, <2>2, <2>5 DEF Serves, Statements
  <2>7. PICK a, h : a = active[r] /\ h = attended[r]  OBVIOUS
  <2>8. Serves(r, "done", c, a, z, h)  BY <2>6, <2>7
  <2>9. Serves(r, "done", c, a, z, h)'  BY <1>6, <2>8, ServesStands
  <2> QED  BY <2>3, <2>5, <2>7, <2>9
<1>11. (\A r \in Ranks : Serves(r, at[r], calls[r], active[r], y[r], attended[r]))'
       BY <1>7, <1>10
<1>12. (\A q, r \in Ranks : Ended(at[q], calls[q]) = Ended(at[r], calls[r]))'
  <2>1. ASSUME NEW r \in Ranks PROVE Ended(at'[r], calls'[r]) = c
        BY <1>5, <1>6 DEF Ended
  <2> QED  BY <1>7, <2>1 DEF Ended
<1>13. (y \in [Ranks -> Counts])'
  <2>1. y' = [r \in Ranks |-> WithShared(r, SumOver(Ranks))]  BY <1>6 DEF Reduced
  <2>2. DOMAIN y' = Ranks /\ y' = [r \in Ranks |-> y'[r]]  BY <2>1
  <2>3. y' \in [Ranks -> Counts]  BY <1>9, <2>2
  <2> QED  BY <1>7, <2>3 DEF Counts
<1>14. (at \in [Ranks -> Statements])'  BY <1>6, <1>7 DEF Statements
<1>15. /\ (routes \in [1 .. job.maxCalls -> Routes])' /\ (calls \in [Ranks -> Nat])'
       /\ (active \in [Ranks -> SUBSET Int])'
       /\ (attended = [r \in Ranks |-> attended[r]])'
       BY <1>6, <1>7 DEF ServesInv
<1> QED  BY <1>8, <1>11, <1>12, <1>13, <1>14, <1>15 DEF ServesInv

(* In every state each rank has computed what its statement says.          *)
LEMMA ServesInvariant == ForwardSpec => []ServesInv
<1>1. ServesInv /\ [ForwardNext]_allVars => ServesInv'
  <2> SUFFICES ASSUME ServesInv, [ForwardNext]_allVars PROVE ServesInv'  OBVIOUS
  <2>1. CASE UNCHANGED allVars
    <3>1. LoaderInv'
      <4>1. LoaderInv /\ UNCHANGED <<job, pc, official, saved, blocks>>
            BY <2>1 DEF allVars, vars, ServesInv
      <4> QED  BY <4>1, StaysPut
    <3>2. /\ UNCHANGED <<vars, routes>> /\ UNCHANGED forward /\ Ranks' = Ranks /\ job' = job
          BY <2>1 DEF allVars, forward, vars, Ranks, World
    <3>3. /\ at' = at /\ calls' = calls /\ routes' = routes /\ active' = active /\ y' = y
          /\ attended' = attended
          BY <3>2 DEF forward
    <3>4. ASSUME NEW r \in Ranks
          PROVE  Serves(r, at[r], calls[r], active[r], y[r], attended[r])'
      <4>1. PICK l, c, a, z, h : /\ l = at[r] /\ c = calls[r] /\ a = active[r] /\ z = y[r]
                                 /\ h = attended[r]
            OBVIOUS
      <4>2. Serves(r, l, c, a, z, h)  BY <4>1 DEF ServesInv
      <4>3. Serves(r, l, c, a, z, h)'  BY <3>2, <4>2, ServesStands
      <4> QED  BY <3>3, <4>1, <4>3
    <3>5. (\A r \in Ranks : Serves(r, at[r], calls[r], active[r], y[r], attended[r]))'
          BY <3>2, <3>4
    <3> QED  BY <3>1, <3>2, <3>3, <3>5 DEF ServesInv, Counts, Ended
  <2>2. CASE AllReduce  BY <2>2, ReduceServes
  <2>3. ASSUME NEW r \in Ranks, Loading(r) PROVE ServesInv'  BY <2>3, LoadingServes
  <2>4. ASSUME NEW r \in Ranks, Forward(r) PROVE ServesInv'
        BY <2>4, AttendServes, RouteServes, RunServes, EnterServes DEF Forward
  <2>5. ASSUME NEW r \in Ranks, ExpertRaises(r) PROVE ServesInv'  BY <2>5, EnterServes
  <2> QED  BY <2>1, <2>2, <2>3, <2>4, <2>5 DEF ForwardNext
<1> QED  BY <1>1, InitServes, PTL DEF ForwardSpec

(* A call that returns has what the official forward would have returned:  *)
(* every expert the gate chose once, the shared expert once, on every      *)
(* rank, and every head of the attention in its place, for any number of   *)
(* ranks, any gate and any size of chunk, whatever reads fail.             *)
THEOREM ForwardsAreExact == ForwardSpec => []ForwardExact
<1>1. ServesInv => ForwardExact
  <2> SUFFICES ASSUME ServesInv, NEW r \in Ranks
               PROVE  /\ at[r] = "done" =>
                           \A t \in Tokens : \A term \in Terms :
                             y[r][<<t, term>>] =
                               IF term[1] = Block(r) /\ term[2] \in Route(r)[t] \cup {SharedTerm}
                               THEN 1 ELSE 0
                      /\ attended[r] # <<>> =>
                           /\ Len(attended[r]) \in Heads
                           /\ \A i \in DOMAIN attended[r] : attended[r][i] = <<i - 1, i - 1>>
      BY DEF ForwardExact, EveryTermOnce, HeadsInOrder
  <2>1. Serves(r, at[r], calls[r], active[r], y[r], attended[r])  BY DEF ServesInv
  <2> QED  BY <2>1 DEF Serves, Due, Block, Route
<1> QED  BY <1>1, ServesInvariant, PTL

-----------------------------------------------------------------------------
Entries == [t: Tensors, file: Nat]

(* What the proofs assume of a checkpoint, which may lack any tensor: no   *)
(* shape of the model is empty, a tensor of the model's shape is in a      *)
(* format read as the parameter's, those of a sharded load have the        *)
(* model's shapes, and the others' scales belong to a weight.              *)
WellFormed ==
  /\ \A k \in DOMAIN Places :
       /\ Places[k].shape # <<>>
       /\ \A d \in DOMAIN Places[k].shape : Places[k].shape[d] > 0
       /\ ShardDim(k.name) # 0 => ShardDim(k.name) \in DOMAIN Places[k].shape
  /\ \A e \in ToSet(Flat) : e.t.key \in DOMAIN Places =>
       /\ e.t.shape = Places[e.t.key].shape => Form(e) = Places[e.t.key].dtype
       /\ Loader = "sharded" => e.t.shape = Places[e.t.key].shape
  /\ \A k \in UsedIn(0) :
       Loader # "sharded" /\ k.leaf = "scale" => [k EXCEPT !.leaf = "weight"] \in Present(0)

(* What rank r is to have of the parameter k.                              *)
SplitDim(k) == IF World > 1 THEN OfficialDim(k.name) ELSE 0
Owed(r, k) ==
  [of |-> k, form |-> Places[k].dtype, dim |-> SplitDim(k),
   index |-> IF SplitDim(k) = 0 THEN 0 .. Places[k].shape[1] - 1
             ELSE LET size == Places[k].shape[SplitDim(k)] \div World
                  IN  r * size .. r * size + size - 1]

(* A value of k that rank r stored, and no part of k is lost by the split. *)
IsOwed(r, k, v) ==
  /\ v = Owed(r, k)
  /\ SplitDim(k) # 0 => Places[k].shape[SplitDim(k)] % World = 0

(* Of the tensors of the checkpoint the last Len(q) are still to be        *)
(* copied; what the others offered is in w and the rest is not set.        *)
Copied(q) == 1 .. Len(Flat) - Len(q)
Reached(k, q) == \E i \in Copied(q) : Offers(Flat[i], k)
Filled(r, k, v, offered) == IF offered THEN IsOwed(r, k, v) ELSE v = Unset
Filling(r, w, q) ==
  /\ q \in Seq(Entries) /\ Len(q) <= Len(Flat)
  /\ \A i \in 1 .. Len(q) : q[i] = Flat[Len(Flat) - Len(q) + i]
  /\ WellFormed => \A k \in UsedIn(0) : Filled(r, k, w[k], Reached(k, q))

(* What a rank at label l knows of its parameters w, the tensors q still   *)
(* to copy and the tables u its engram layers look up.                     *)
LoadOK(r, l, w, q, u) ==
  /\ l \in {"built", "verified"} => w = [k \in Present(0) |-> Unset]
  /\ l = "loading" => DOMAIN w = Present(0) /\ Filling(r, w, q)
  /\ l \in {"attach", "loaded"} /\ WellFormed =>
       \A k \in UsedIn(0) : Filled(r, k, w[k], Offered(k))
  /\ l \notin {"idle", "attach", "loaded", "failed"} => u = <<>>
  /\ l = "attach" => /\ Loader = "v41" /\ OffloadEngram
                     /\ DOMAIN u \subseteq job.engramLayers /\ u = [n \in DOMAIN u |-> n]
  /\ l = "loaded" /\ Loader = "v41" /\ OffloadEngram => u = [n \in job.engramLayers |-> n]

LoadInv ==
  /\ LoaderInv
  /\ weights = [r \in Ranks |-> weights[r]] /\ todo = [r \in Ranks |-> todo[r]]
  /\ lookup = [r \in Ranks |-> lookup[r]]
  /\ \A r \in Ranks : LoadOK(r, pc[r], weights[r], todo[r], lookup[r])

LoadMoves(r, l, w, q, u) ==
  /\ job' = job /\ pc' = [pc EXCEPT ![r] = l] /\ weights' = [weights EXCEPT ![r] = w]
  /\ todo' = [todo EXCEPT ![r] = q] /\ lookup' = [lookup EXCEPT ![r] = u]
-----------------------------------------------------------------------------
(* The files end to end are a sequence of tensors.                         *)
LEMMA FlatIsSequence ==
  ASSUME job \in Jobs
  PROVE  Flat \in Seq(Entries) /\ Len(Flat) \in Nat
<1>1. files \in Seq(Seq(Tensors))  BY LoaderAssumption DEF files
<1>2. PICK F : F = Seq(Tensors)  OBVIOUS
<1>3. files \in Seq(F) /\ DOMAIN files = 1 .. Len(files) /\ Len(files) \in Nat  BY <1>1, <1>2
<1>4. PICK seqs : seqs = [i \in DOMAIN files |->
                            [j \in DOMAIN files[i] |-> [t |-> files[i][j], file |-> i]]]
      OBVIOUS
<1>5. ASSUME NEW i \in DOMAIN files PROVE seqs[i] \in Seq(Entries)
  <2>1. files[i] \in Seq(Tensors)  BY <1>2, <1>3
  <2>2. PICK n \in Nat : n = Len(files[i]) /\ DOMAIN files[i] = 1 .. n  BY <2>1
  <2>3. \A j \in 1 .. n : files[i][j] \in Tensors  BY <2>1, <2>2
  <2>4. i \in Nat  BY <1>3
  <2>5. \A j \in 1 .. n : [t |-> files[i][j], file |-> i] \in Entries
        BY <2>3, <2>4 DEF Entries
  <2>6. seqs[i] = [j \in 1 .. n |-> [t |-> files[i][j], file |-> i]]  BY <1>4, <2>2
  <2>7. seqs[i] \in [1 .. n -> Entries]  BY <2>5, <2>6
  <2> QED  BY <2>2, <2>7
<1>6. PICK E : E = Seq(Entries)  OBVIOUS
<1>7. seqs \in [1 .. Len(files) -> E]  BY <1>3, <1>4, <1>5, <1>6
<1>8. seqs \in Seq(E)  BY <1>3, <1>7
<1>9. seqs \in Seq(Seq(Entries))  BY <1>6, <1>8
<1>10. Flat = FlattenSeq(seqs)  BY <1>4 DEF Flat
<1>11. PICK off : IsOffsets(seqs, off)  BY <1>9, OffsetsExist
<1>12. FlattenSeq(seqs) \in Seq(Entries)  BY <1>9, <1>11, FlattenSeqPlaces
<1> QED  BY <1>10, <1>12

(* The parameters of a model are the same on every rank.                   *)
LEMMA SameEverywhere == \A r : Present(r) = Present(0) /\ UsedIn(r) = UsedIn(0)
BY DEF Present, UsedIn

(* Nothing that generation reads is passed over by name.                   *)
LEMMA UsedNotSkipped ==
  ASSUME job \in Jobs, NEW k \in UsedIn(0)
  PROVE  ~ Skipped(k) /\ k \in Present(0) /\ k \in DOMAIN Places
<1>1. k \in Present(0) /\ k \in DOMAIN Places /\ ~ Routed(k)  BY DEF UsedIn, Present
<1>2. Loader = "v41" => k.part # "engram.embed"  BY DEF UsedIn
<1>3. /\ ~(k.place = "mtp" /\ (Loader = "v41" \/ (Loader = "v4" /\ job.visionExp /\ TextOnly)))
      /\ ~(Vision(k) /\ Loader = "v41" /\ TextOnly)
      BY DEF UsedIn
<1>4. ASSUME Class(k) = "mtp_nextn" PROVE k.place = "mtp"
      BY <1>4 DEF Class
<1>5. ASSUME Class(k) = "routed_expert" PROVE FALSE
      BY <1>1, <1>5 DEF Class
<1>6. Loader \in Loaders /\ job.visionExp \in BOOLEAN  BY LoaderAssumption DEF Loader
<1>7. CASE Loader = "sharded"  BY <1>1, <1>7 DEF Skipped
<1>8. CASE Loader = "v4" /\ ~ job.visionExp  BY <1>1, <1>8 DEF Skipped
<1>9. CASE Loader = "v4" /\ job.visionExp
  <2>1. Skipped(k) = (Class(k) = "routed_expert" \/ (TextOnly /\ Class(k) = "mtp_nextn"))
        BY <1>9 DEF Skipped
  <2> QED  BY <1>1, <1>3, <1>4, <1>5, <1>9, <2>1
<1>10. CASE Loader = "v41"
  <2>1. Loader # "sharded" /\ Loader # "v4"  BY <1>10
  <2>2. Skipped(k) = (\/ (Routed(k) /\ k.place = "layers") \/ (k.part = "engram.embed")
                      \/ (k.place = "mtp") \/ (TextOnly /\ Vision(k)))
        BY <1>10, <2>1, Zenon DEF Skipped
  <2> QED  BY <1>1, <1>2, <1>3, <1>10, <2>2
<1> QED  BY <1>6, <1>7, <1>8, <1>9, <1>10 DEF Loaders

(* What these say of a load depends on the job alone.                      *)
LEMMA JobStands ==
  ASSUME job' = job
  PROVE  /\ Ranks' = Ranks /\ Loader' = Loader /\ Flat' = Flat /\ Places' = Places
         /\ WellFormed' = WellFormed
         /\ UsedIn(0)' = UsedIn(0) /\ Present(0)' = Present(0)
         /\ \A e, k : Offers(e, k)' <=> Offers(e, k)
         /\ \A k : Offered(k)' <=> Offered(k)
         /\ \A r, k, v, offered : Filled(r, k, v, offered)' <=> Filled(r, k, v, offered)
<1>1. /\ Ranks' = Ranks /\ Loader' = Loader /\ Places' = Places /\ World' = World
      /\ OffloadEngram' = OffloadEngram /\ TextOnly' = TextOnly /\ files' = files
      BY DEF Ranks, World, Loader, Places, OffloadEngram, TextOnly, files
<1>2. Flat' = Flat  BY <1>1 DEF Flat
<1>3. \A e : Form(e)' = Form(e)  BY <1>1, <1>2 DEF Form
<1>4. Present(0)' = Present(0)  BY <1>1 DEF Present
<1>5. UsedIn(0)' = UsedIn(0)  BY <1>1, <1>4 DEF UsedIn
<1>6. WellFormed' = WellFormed  BY <1>1, <1>2, <1>3, <1>4, <1>5 DEF WellFormed
<1>7. \A k : SplitDim(k)' = SplitDim(k)  BY <1>1 DEF SplitDim
<1>8. \A r, k : Owed(r, k)' = Owed(r, k)  BY <1>1, <1>7 DEF Owed
<1>9. \A r, k, v : IsOwed(r, k, v)' <=> IsOwed(r, k, v)  BY <1>1, <1>7, <1>8 DEF IsOwed
<1>10. \A r, k, v, offered : Filled(r, k, v, offered)' <=> Filled(r, k, v, offered)
       BY <1>9 DEF Filled
<1>11. \A e, k : Offers(e, k)' <=> Offers(e, k)  BY <1>1 DEF Offers
<1>12. \A k : Offered(k)' <=> Offered(k)  BY <1>2, <1>11 DEF Offered
<1> QED  BY <1>1, <1>2, <1>4, <1>5, <1>6, <1>10, <1>11, <1>12

(* So does what a rank at a label has.                                     *)
LEMMA LoadStands ==
  ASSUME job' = job, NEW r, NEW l, NEW w, NEW q, NEW u, LoadOK(r, l, w, q, u)
  PROVE  LoadOK(r, l, w, q, u)'
<1>1. /\ Loader' = Loader /\ Flat' = Flat /\ Present(0)' = Present(0)
      /\ WellFormed' = WellFormed
      /\ UsedIn(0)' = UsedIn(0)
      /\ \A e, k : Offers(e, k)' <=> Offers(e, k)
      /\ \A k : Offered(k)' <=> Offered(k)
      /\ \A q2, k, v, offered : Filled(q2, k, v, offered)' <=> Filled(q2, k, v, offered)
      BY JobStands
<1>2. OffloadEngram' = OffloadEngram  BY DEF OffloadEngram
<1>3. Filling(r, w, q) => Filling(r, w, q)'
  <2>1. Copied(q)' = Copied(q)  BY <1>1 DEF Copied
  <2>2. \A k : Reached(k, q)' <=> Reached(k, q)  BY <1>1, <2>1 DEF Reached
  <2>3. \A k : Filled(r, k, w[k], Reached(k, q))' <=> Filled(r, k, w[k], Reached(k, q))
        BY <1>1, <2>2 DEF Filled
  <2> QED  BY <1>1, <2>3 DEF Filling
<1>4. (l \in {"built", "verified"} => w = [k \in Present(0) |-> Unset])'
      BY <1>1 DEF LoadOK, Unset
<1>5. (l = "loading" => DOMAIN w = Present(0) /\ Filling(r, w, q))'  BY <1>1, <1>3 DEF LoadOK
<1>6. (l \in {"attach", "loaded"} /\ WellFormed =>
         \A k \in UsedIn(0) : Filled(r, k, w[k], Offered(k)))'
  <2>1. \A k : Filled(r, k, w[k], Offered(k))' <=> Filled(r, k, w[k], Offered(k))
        BY <1>1 DEF Filled
  <2> QED  BY <1>1, <2>1 DEF LoadOK
<1> QED  BY <1>1, <1>2, <1>4, <1>5, <1>6 DEF LoadOK

(* A rank takes a step of its load.                                        *)
LEMMA RankLoads ==
  ASSUME LoadInv, LoaderInv', NEW r \in Ranks, NEW l, NEW w, NEW q, NEW u,
         LoadMoves(r, l, w, q, u), LoadOK(r, l, w, q, u)
  PROVE  LoadInv'
<1>1. /\ job' = job
      /\ pc' = [pc EXCEPT ![r] = l] /\ weights' = [weights EXCEPT ![r] = w]
      /\ todo' = [todo EXCEPT ![r] = q] /\ lookup' = [lookup EXCEPT ![r] = u]
      BY DEF LoadMoves
<1>2. Ranks' = Ranks  BY <1>1 DEF Ranks, World
<1>3. /\ weights = [p \in Ranks |-> weights[p]] /\ todo = [p \in Ranks |-> todo[p]]
      /\ lookup = [p \in Ranks |-> lookup[p]]
      BY DEF LoadInv
<1>4. /\ weights' = [p \in Ranks |-> weights'[p]] /\ todo' = [p \in Ranks |-> todo'[p]]
      /\ lookup' = [p \in Ranks |-> lookup'[p]]
  <2>1. \A f, v : f = [p \in Ranks |-> f[p]]
                    => [f EXCEPT ![r] = v] = [p \in Ranks |-> [f EXCEPT ![r] = v][p]]
        OBVIOUS
  <2> QED  BY <1>1, <1>3, <2>1
<1>5. ASSUME NEW p \in Ranks PROVE LoadOK(p, pc[p], weights[p], todo[p], lookup[p])'
  <2>1. PICK l2, w2, q2, u2 : l2 = pc'[p] /\ w2 = weights'[p] /\ q2 = todo'[p] /\ u2 = lookup'[p]
        OBVIOUS
  <2>2. /\ DOMAIN weights = Ranks /\ DOMAIN todo = Ranks /\ DOMAIN lookup = Ranks
        /\ pc \in [Ranks -> Labels]
        BY <1>3 DEF LoadInv, LoaderInv
  <2>3. LoadOK(p, l2, w2, q2, u2)
    <3>1. CASE p = r
      <4>1. l2 = l /\ w2 = w /\ q2 = q /\ u2 = u  BY <1>1, <2>1, <2>2, <3>1
      <4> QED  BY <3>1, <4>1
    <3>2. CASE p # r
      <4>1. l2 = pc[p] /\ w2 = weights[p] /\ q2 = todo[p] /\ u2 = lookup[p]
            BY <1>1, <2>1, <2>2, <3>2
      <4> QED  BY <4>1 DEF LoadInv
    <3> QED  BY <3>1, <3>2
  <2>4. LoadOK(p, l2, w2, q2, u2)'  BY <1>1, <2>3, LoadStands
  <2> QED  BY <2>1, <2>4
<1>6. (\A p \in Ranks : LoadOK(p, pc[p], weights[p], todo[p], lookup[p]))'  BY <1>2, <1>5
<1>7. /\ (weights = [p \in Ranks |-> weights[p]])' /\ (todo = [p \in Ranks |-> todo[p]])'
      /\ (lookup = [p \in Ranks |-> lookup[p]])'
      BY <1>2, <1>4
<1> QED  BY <1>6, <1>7 DEF LoadInv

(* What a rank has, written as the step that changes none of it.           *)
LEMMA LoadKnows ==
  ASSUME LoadInv, NEW r \in Ranks
  PROVE  /\ LoadOK(r, pc[r], weights[r], todo[r], lookup[r])
         /\ weights = [weights EXCEPT ![r] = weights[r]]
         /\ todo = [todo EXCEPT ![r] = todo[r]]
         /\ lookup = [lookup EXCEPT ![r] = lookup[r]]
         /\ pc = [pc EXCEPT ![r] = pc[r]]
         /\ DOMAIN weights = Ranks /\ DOMAIN todo = Ranks /\ DOMAIN lookup = Ranks
<1>1. \A f : f = [p \in Ranks |-> f[p]] => f = [f EXCEPT ![r] = f[r]] /\ DOMAIN f = Ranks
      OBVIOUS
<1>2. /\ weights = [p \in Ranks |-> weights[p]] /\ todo = [p \in Ranks |-> todo[p]]
      /\ lookup = [p \in Ranks |-> lookup[p]]
      BY DEF LoadInv
<1>3. pc = [pc EXCEPT ![r] = pc[r]]  BY DEF LoadInv, LoaderInv
<1> QED  BY <1>1, <1>2, <1>3 DEF LoadInv

-----------------------------------------------------------------------------
(* The first labels of a load touch no parameter.                          *)
LEMMA StartLoads ==
  ASSUME LoadInv, LoaderInv', NEW r \in Ranks, NEW agrees, Start(r, agrees)
  PROVE  LoadInv'
<1>1. PICK l \in {"config", "failed"} : Goto(r, l)  BY DEF Start
<1>2. LoadMoves(r, l, <<>>, todo[r], <<>>)
  <2>1. todo = [todo EXCEPT ![r] = todo[r]]  BY LoadKnows
  <2>2. /\ job' = job /\ weights' = [weights EXCEPT ![r] = <<>>]
        /\ lookup' = [lookup EXCEPT ![r] = <<>>] /\ todo' = todo
        BY DEF Start
  <2> QED  BY <1>1, <2>1, <2>2 DEF LoadMoves, Goto
<1>3. LoadOK(r, l, <<>>, todo[r], <<>>)  BY <1>1 DEF LoadOK
<1> QED  BY <1>2, <1>3, RankLoads

(* Neither do the other labels up to the model being built.                *)
LEMMA LabelsLoad ==
  ASSUME LoadInv, LoaderInv', NEW r \in Ranks,
         \/ SwapHooks(r) \/ ConfigRaises(r) \/ EnterMoeInit(r) \/ LeaveMoeInit(r)
         \/ BuildRaises(r) \/ VerifyRanges(r)
  PROVE  LoadInv'
<1>1. LoadOK(r, pc[r], weights[r], todo[r], lookup[r])  BY LoadKnows
<1>2. UNCHANGED <<job, weights, todo, lookup>>
      BY DEF SwapHooks, ConfigRaises, EnterMoeInit, LeaveMoeInit, BuildRaises, VerifyRanges
<1>3. PICK l : /\ Goto(r, l)
               /\ \/ pc[r] \in {"config", "build", "moe"} /\ l \in {"build", "moe", "failed"}
                  \/ pc[r] = "built" /\ l \in {"verified", "failed"}
  <2>1. CASE SwapHooks(r) \/ ConfigRaises(r)  BY <2>1 DEF SwapHooks, ConfigRaises
  <2>2. CASE EnterMoeInit(r) \/ LeaveMoeInit(r)  BY <2>2 DEF EnterMoeInit, LeaveMoeInit
  <2>3. CASE BuildRaises(r)  BY <2>3 DEF BuildRaises
  <2>4. CASE VerifyRanges(r)
    <3>1. pc[r] = "built" /\ (Goto(r, "verified") \/ Goto(r, "failed"))
          BY <2>4 DEF VerifyRanges
    <3> QED  BY <3>1
  <2> QED  BY <2>1, <2>2, <2>3, <2>4
<1>4. LoadMoves(r, l, weights[r], todo[r], lookup[r])
      BY <1>2, <1>3, LoadKnows DEF LoadMoves, Goto
<1>5. LoadOK(r, l, weights[r], todo[r], lookup[r])  BY <1>1, <1>3 DEF LoadOK
<1> QED  BY <1>4, <1>5, RankLoads

(* torch.empty for every parameter that the model has.                     *)
LEMMA BuiltLoads ==
  ASSUME LoadInv, LoaderInv', NEW r \in Ranks, Built(r)
  PROVE  LoadInv'
<1>1. LoadOK(r, "build", weights[r], todo[r], lookup[r])
  <2>1. pc[r] = "build"  BY DEF Built
  <2> QED  BY <2>1, LoadKnows
<1>2. PICK w : w = [k \in Present(r) |-> Unset]  OBVIOUS
<1>3. w = [k \in Present(0) |-> Unset]  BY <1>2, SameEverywhere
<1>4. LoadMoves(r, "built", w, todo[r], lookup[r])
      BY <1>2, LoadKnows DEF Built, LoadMoves, Goto
<1>5. LoadOK(r, "built", w, todo[r], lookup[r])  BY <1>1, <1>3 DEF LoadOK
<1> QED  BY <1>4, <1>5, RankLoads

(* The whole checkpoint is still to be copied.                             *)
LEMMA PatchLoads ==
  ASSUME LoadInv, LoaderInv', NEW r \in Ranks, PatchForwards(r)
  PROVE  LoadInv'
<1>1. LoadOK(r, "verified", weights[r], todo[r], lookup[r])
  <2>1. pc[r] = "verified"  BY DEF PatchForwards
  <2> QED  BY <2>1, LoadKnows
<1>2. LoadMoves(r, "loading", weights[r], Flat, lookup[r])
      BY LoadKnows DEF PatchForwards, LoadMoves, Goto
<1>3. Filling(r, weights[r], Flat)
  <2>1. Flat \in Seq(Entries) /\ Len(Flat) \in Nat
        BY FlatIsSequence DEF LoadInv, LoaderInv
  <2>2. Len(Flat) - Len(Flat) = 0  BY <2>1
  <2>3. Copied(Flat) = {}  BY <2>2 DEF Copied
  <2>4. \A i \in 1 .. Len(Flat) : Flat[i] = Flat[Len(Flat) - Len(Flat) + i]  BY <2>1
  <2>5. ASSUME NEW k \in UsedIn(0) PROVE Filled(r, k, weights[r][k], Reached(k, Flat))
    <3>1. ~ Reached(k, Flat)  BY <2>3 DEF Reached
    <3>2. k \in Present(0) /\ weights[r] = [n \in Present(0) |-> Unset]
          BY <1>1 DEF LoadOK, UsedIn
    <3>3. weights[r][k] = Unset  BY <3>2
    <3> QED  BY <3>1, <3>3 DEF Filled
  <2> QED  BY <2>1, <2>4, <2>5 DEF Filling
<1>4. LoadOK(r, "loading", weights[r], Flat, lookup[r])
  <2>1. weights[r] = [n \in Present(0) |-> Unset]  BY <1>1 DEF LoadOK
  <2>2. DOMAIN weights[r] = Present(0)  BY <2>1
  <2> QED  BY <1>1, <1>3, <2>2 DEF LoadOK
<1> QED  BY <1>2, <1>4, RankLoads

(* Everything reached is everything the checkpoint offers.                 *)
LEMMA LoadedLoads ==
  ASSUME LoadInv, LoaderInv', NEW r \in Ranks, LoadedAll(r)
  PROVE  LoadInv'
<1>1. LoadOK(r, "loading", weights[r], <<>>, lookup[r])
  <2>1. pc[r] = "loading" /\ todo[r] = <<>>  BY DEF LoadedAll
  <2> QED  BY <2>1, LoadKnows
<1>2. PICK l : l = IF Loader = "v41" /\ OffloadEngram THEN "attach" ELSE "loaded"  OBVIOUS
<1>3. LoadMoves(r, l, weights[r], todo[r], lookup[r])
      BY <1>2, LoadKnows DEF LoadedAll, LoadMoves, Goto
<1>4. ASSUME WellFormed, NEW k \in UsedIn(0) PROVE Filled(r, k, weights[r][k], Offered(k))
  <2>1. Flat \in Seq(Entries) /\ Len(Flat) \in Nat
        BY FlatIsSequence DEF LoadInv, LoaderInv
  <2>2. Copied(<<>>) = 1 .. Len(Flat)
    <3>1. Len(<<>>) = 0 /\ Len(Flat) - 0 = Len(Flat)  BY <2>1
    <3> QED  BY <3>1 DEF Copied
  <2>3. ToSet(Flat) = {Flat[i] : i \in 1 .. Len(Flat)}  BY <2>1 DEF ToSet
  <2>4. Reached(k, <<>>) <=> Offered(k)  BY <2>2, <2>3 DEF Reached, Offered
  <2>5. Filling(r, weights[r], <<>>)  BY <1>1 DEF LoadOK
  <2>6. Filled(r, k, weights[r][k], Reached(k, <<>>))  BY <1>4, <2>5 DEF Filling
  <2> QED  BY <2>4, <2>6 DEF Filled
<1>5. lookup[r] = <<>>  BY <1>1 DEF LoadOK
<1>6. DOMAIN lookup[r] = {} /\ lookup[r] = [n \in DOMAIN lookup[r] |-> n]  BY <1>5
<1>7. LoadOK(r, l, weights[r], todo[r], lookup[r])  BY <1>2, <1>4, <1>5, <1>6 DEF LoadOK
<1> QED  BY <1>3, <1>7, RankLoads

(* The tables are bound one by one, the first unbound layer next.          *)
LEMMA AttachLoads ==
  ASSUME LoadInv, LoaderInv', NEW r \in Ranks, AttachEngram(r)
  PROVE  LoadInv'
<1>1. LoadOK(r, "attach", weights[r], todo[r], lookup[r])
  <2>1. pc[r] = "attach"  BY DEF AttachEngram
  <2> QED  BY <2>1, LoadKnows
<1>2. /\ Loader = "v41" /\ OffloadEngram
      /\ DOMAIN lookup[r] \subseteq job.engramLayers /\ lookup[r] = [n \in DOMAIN lookup[r] |-> n]
      BY <1>1 DEF LoadOK
<1>3. PICK left : left = job.engramLayers \ DOMAIN lookup[r]  OBVIOUS
<1>4. PICK l : l = CHOOSE n \in left : \A o \in left : n <= o  OBVIOUS
<1>5. UNCHANGED <<job, weights, todo>>  BY DEF AttachEngram
<1>6. \/ left = {} /\ Goto(r, "loaded") /\ UNCHANGED lookup
      \/ left # {} /\ lookup' = [lookup EXCEPT ![r] = Bound(r, l)] /\ UNCHANGED pc
      \/ Goto(r, "failed") /\ UNCHANGED lookup
      BY <1>3, <1>4 DEF AttachEngram
<1>7. CASE left = {} /\ Goto(r, "loaded") /\ UNCHANGED lookup
  <2>1. LoadMoves(r, "loaded", weights[r], todo[r], lookup[r])
        BY <1>5, <1>7, LoadKnows DEF LoadMoves, Goto
  <2>2. lookup[r] = [n \in job.engramLayers |-> n]
    <3>1. DOMAIN lookup[r] = job.engramLayers  BY <1>2, <1>3, <1>7
    <3> QED  BY <1>2, <3>1
  <2>3. LoadOK(r, "loaded", weights[r], todo[r], lookup[r])  BY <1>1, <2>2 DEF LoadOK
  <2> QED  BY <2>1, <2>3, RankLoads
<1>8. CASE left # {} /\ lookup' = [lookup EXCEPT ![r] = Bound(r, l)] /\ UNCHANGED pc
  <2>1. l \in left
    <3>1. left \subseteq Nat
      <4>1. job.engramLayers \subseteq 0 .. Layers - 1 /\ Layers \in Nat
            BY LoaderAssumption DEF LoadInv, LoaderInv
      <4> QED  BY <1>3, <4>1
    <3>2. \E n \in left : \A o \in left : n <= o  BY <1>8, <3>1, LeastNat
    <3> QED  BY <1>4, <3>2
  <2>2. PICK u : u = Bound(r, l)  OBVIOUS
  <2>3. u = [n \in DOMAIN lookup[r] \cup {l} |-> n]
    <3>1. \A n \in DOMAIN lookup[r] : lookup[r][n] = n  BY <1>2
    <3> QED  BY <2>2, <3>1 DEF Bound
  <2>4. DOMAIN u \subseteq job.engramLayers /\ u = [n \in DOMAIN u |-> n]
        BY <1>2, <1>3, <2>1, <2>3
  <2>5. LoadMoves(r, "attach", weights[r], todo[r], u)
    <3>1. pc' = [pc EXCEPT ![r] = "attach"]  BY <1>8, LoadKnows DEF AttachEngram
    <3> QED  BY <1>5, <1>8, <2>2, <3>1, LoadKnows DEF LoadMoves
  <2>6. LoadOK(r, "attach", weights[r], todo[r], u)  BY <1>1, <1>2, <2>4 DEF LoadOK
  <2> QED  BY <2>5, <2>6, RankLoads
<1>9. CASE Goto(r, "failed") /\ UNCHANGED lookup
  <2>1. LoadMoves(r, "failed", weights[r], todo[r], lookup[r])
        BY <1>5, <1>9, LoadKnows DEF LoadMoves, Goto
  <2>2. LoadOK(r, "failed", weights[r], todo[r], lookup[r])  BY DEF LoadOK
  <2> QED  BY <2>1, <2>2, RankLoads
<1> QED  BY <1>6, <1>7, <1>8, <1>9

(* The next load of a process starts from nothing.                         *)
LEMMA AgainLoads ==
  ASSUME LoadInv, LoaderInv', NEW r \in Ranks, Again(r)
  PROVE  LoadInv'
<1>1. LoadMoves(r, "idle", weights[r], <<>>, lookup[r])
      BY LoadKnows DEF Again, LoadMoves, Goto
<1>2. LoadOK(r, "idle", weights[r], <<>>, lookup[r])  BY DEF LoadOK
<1> QED  BY <1>1, <1>2, RankLoads

-----------------------------------------------------------------------------
(* A shape that generation needs is nowhere empty, and the dimension along *)
(* which a parameter may be split is one of it.                            *)
LEMMA ShapeFacts ==
  ASSUME job \in Jobs, WellFormed, NEW k \in DOMAIN Places
  PROVE  /\ Places[k].shape \in Seq(Nat) /\ 1 \in DOMAIN Places[k].shape
         /\ \A d \in DOMAIN Places[k].shape : Places[k].shape[d] \in Nat \ {0}
         /\ ShardDim(k.name) # 0 => ShardDim(k.name) \in DOMAIN Places[k].shape
         /\ OfficialDim(k.name) \in {0, ShardDim(k.name)}
<1>1. PICK s : s = Places[k].shape  OBVIOUS
<1>2. s \in Seq(Nat)
  <2>1. Places[k] \in [shape: Seq(Nat), dtype: STRING]  BY LoaderAssumption DEF Places
  <2> QED  BY <1>1, <2>1
<1>3. /\ s # <<>> /\ \A d \in DOMAIN s : s[d] > 0
      /\ ShardDim(k.name) # 0 => ShardDim(k.name) \in DOMAIN s
      BY <1>1 DEF WellFormed
<1>4. 1 \in DOMAIN s /\ \A d \in DOMAIN s : s[d] \in Nat \ {0}  BY <1>2, <1>3
<1>5. OfficialDim(k.name) \in {0, ShardDim(k.name)}  BY DEF OfficialDim, ShardDim
<1> QED  BY <1>1, <1>2, <1>3, <1>4, <1>5

(* A parameter that is whole to the official model but split by the loader *)
(* would be smaller: it does not fit.                                      *)
LEMMA HalvesDiffer ==
  ASSUME NEW s \in Seq(Nat), NEW d \in DOMAIN s, s[d] > 0, NEW n \in Nat, n > 1
  PROVE  Divided(s, d, n) # s
<1>1. d # 0  OBVIOUS
<1>2. s[d] \div n # s[d]
  <2>1. PICK a \in Nat \ {0} : a = s[d]  OBVIOUS
  <2>2. PICK b \in Nat : b = a \div n
    <3>1. a \in Nat /\ n \in Nat \ {0}  BY <2>1
    <3> QED  BY <3>1, DivNat
  <2>3. PICK m \in 0 .. n - 1 : a = n * b + m
    <3>1. a \in Nat /\ n \in Nat \ {0}  BY <2>1
    <3> QED  BY <2>2, <3>1, DivNat
  <2>4. CASE b = a
    <3>1. n * b = b + (n - 1) * b  OBVIOUS
    <3>2. PICK c \in Nat : c = n - 1 /\ c > 0
      <4>1. n - 1 \in Nat /\ n - 1 > 0  OBVIOUS
      <4> QED  BY <4>1
    <3>3. c * b >= b
      <4>1. PICK e \in Nat : c = 1 + e
        <5>1. c - 1 \in Nat /\ c = 1 + (c - 1)  BY <3>2
        <5> QED  BY <5>1
      <4>2. c * b = b + e * b /\ e * b \in Nat  BY <4>1
      <4> QED  BY <4>2
    <3>4. n * b = b + c * b  BY <3>1, <3>2
    <3> QED  BY <2>1, <2>3, <2>4, <3>3, <3>4
  <2> QED  BY <2>1, <2>2, <2>4
<1>3. [s EXCEPT ![d] = s[d] \div n][d] = s[d] \div n  OBVIOUS
<1> QED  BY <1>1, <1>2, <1>3 DEF Divided

(* Dividing by one process changes nothing.                                *)
LEMMA WholeByOne ==
  ASSUME NEW s \in Seq(Nat), NEW d
  PROVE  Divided(s, d, 1) = s
<1>1. CASE d = 0  BY <1>1 DEF Divided
<1>2. CASE d # 0 /\ d \in DOMAIN s
  <2>1. s[d] \div 1 = s[d]
    <3>1. s[d] \in Nat  BY <1>2
    <3> QED  BY <3>1
  <2>2. [s EXCEPT ![d] = s[d]] = s  OBVIOUS
  <2> QED  BY <1>2, <2>1, <2>2 DEF Divided
<1>3. CASE d # 0 /\ d \notin DOMAIN s
  <2>1. \A v : [s EXCEPT ![d] = v] = s  BY <1>3
  <2> QED  BY <1>3, <2>1 DEF Divided
<1> QED  BY <1>1, <1>2, <1>3

(* What the sharded loader stores of a tensor that fits.                   *)
LEMMA StoredSharded ==
  ASSUME job \in Jobs, WellFormed, NEW r \in Ranks, NEW e \in ToSet(Flat),
         NEW k \in UsedIn(0), k = e.t.key, Loader = "sharded", official[r].world = World,
         NEW dim, dim = ShardDim(k.name), Divided(e.t.shape, dim, World) = TargetShape(r, k),
         NEW v, v = [of |-> k, form |-> e.t.dtype,
                     dim |-> IF dim # 0 /\ World > 1 THEN dim ELSE 0,
                     index |-> IF dim # 0 /\ World > 1 THEN Shard(r, e.t, dim) ELSE Whole(e.t)]
  PROVE  /\ v = Owed(r, k) /\ Offers(e, k)
         /\ SplitDim(k) # 0 => /\ dim # 0 /\ World > 1
                               /\ e.t.shape[dim] = Places[k].shape[SplitDim(k)]
<1>1. k = e.t.key  OBVIOUS
<1>2. k \in DOMAIN Places  BY <1>1, UsedNotSkipped
<1>3. PICK s \in Seq(Nat) : s = Places[k].shape  BY <1>2, ShapeFacts
<1>4. /\ \A d \in DOMAIN s : s[d] \in Nat \ {0}
      /\ ShardDim(k.name) # 0 => ShardDim(k.name) \in DOMAIN s
      /\ OfficialDim(k.name) \in {0, ShardDim(k.name)}
      BY <1>2, <1>3, ShapeFacts
<1>5. e.t.shape = s /\ e.t.dtype = Places[k].dtype
  <2>1. e.t.shape = s /\ Form(e) = Places[k].dtype  BY <1>1, <1>2, <1>3 DEF WellFormed
  <2>2. Form(e) = e.t.dtype  BY DEF Form
  <2> QED  BY <2>1, <2>2
<1>6. Offers(e, k)  BY <1>1, <1>3, <1>5 DEF Offers
<1>7. World \in Nat \ {0}  BY WorldFacts
<1>8. World > 1 => OfficialDim(k.name) = ShardDim(k.name)
  <2> SUFFICES ASSUME World > 1, OfficialDim(k.name) # ShardDim(k.name) PROVE FALSE  OBVIOUS
  <2>1. OfficialDim(k.name) = 0 /\ ShardDim(k.name) \in DOMAIN s  BY <1>4
  <2>2. TargetShape(r, k) = s  BY <1>3, <2>1 DEF TargetShape, Divided
  <2>3. Divided(s, ShardDim(k.name), World) = s  BY <1>1, <1>5, <2>2
  <2>4. s[ShardDim(k.name)] > 0  BY <1>4, <2>1
  <2> QED  BY <1>7, <2>1, <2>3, <2>4, HalvesDiffer
<1>9. CASE ShardDim(k.name) # 0 /\ World > 1
  <2>1. SplitDim(k) = ShardDim(k.name)  BY <1>8, <1>9 DEF SplitDim
  <2>2. Shard(r, e.t, ShardDim(k.name)) =
          LET size == s[ShardDim(k.name)] \div World IN r * size .. r * size + size - 1
        BY <1>5 DEF Shard
  <2>3. e.t.shape[ShardDim(k.name)] = Places[k].shape[SplitDim(k)]  BY <1>3, <1>5, <2>1
  <2> QED  BY <1>1, <1>3, <1>5, <1>9, <1>6, <2>1, <2>2, <2>3 DEF Owed
<1>10. CASE ~ (ShardDim(k.name) # 0 /\ World > 1)
  <2>1. SplitDim(k) = 0  BY <1>4, <1>10 DEF SplitDim
  <2>2. Whole(e.t) = 0 .. s[1] - 1  BY <1>5 DEF Whole
  <2> QED  BY <1>1, <1>3, <1>5, <1>10, <1>6, <2>1, <2>2 DEF Owed
<1> QED  BY <1>9, <1>10

(* What the others store of a tensor that fits, and that they do.          *)
LEMMA StoredWhole ==
  ASSUME job \in Jobs, WellFormed, NEW r \in Ranks, NEW e \in ToSet(Flat),
         e.t.key \in UsedIn(0), Loader # "sharded", official[r].world = World
  PROVE  /\ Offers(e, e.t.key) <=> e.t.shape = TargetShape(r, e.t.key)
         /\ Offers(e, e.t.key)
              => [of |-> e.t.key, form |-> Form(e), dim |-> 0, index |-> Whole(e.t)]
                   = Owed(r, e.t.key)
         /\ SplitDim(e.t.key) = 0
         /\ e.t.key.leaf = "scale" => [e.t.key EXCEPT !.leaf = "weight"] \in Present(0)
<1>1. PICK k : k = e.t.key  OBVIOUS
<1>2. k \in DOMAIN Places  BY <1>1, UsedNotSkipped
<1>3. PICK s \in Seq(Nat) : s = Places[k].shape  BY <1>2, ShapeFacts
<1>4. Offers(e, k) <=> e.t.shape = s  BY <1>1, <1>3 DEF Offers
<1>5. World = 1  BY WorldFacts
<1>6. TargetShape(r, k) = s
  <2>1. TargetShape(r, k) = Divided(s, OfficialDim(k.name), 1)
        BY <1>3, <1>5 DEF TargetShape
  <2> QED  BY <2>1, WholeByOne
<1>7. SplitDim(k) = 0  BY <1>5 DEF SplitDim
<1>8. ASSUME Offers(e, k)
      PROVE  [of |-> k, form |-> Form(e), dim |-> 0, index |-> Whole(e.t)] = Owed(r, k)
  <2>1. e.t.shape = s  BY <1>4, <1>8
  <2>2. Form(e) = Places[k].dtype  BY <1>1, <1>2, <1>3, <2>1 DEF WellFormed
  <2>3. Whole(e.t) = 0 .. s[1] - 1  BY <2>1 DEF Whole
  <2> QED  BY <1>3, <1>7, <2>2, <2>3 DEF Owed
<1>10. k.leaf = "scale" => [k EXCEPT !.leaf = "weight"] \in Present(0)
       BY <1>1 DEF WellFormed
<1> QED  BY <1>1, <1>4, <1>6, <1>7, <1>8, <1>10

-----------------------------------------------------------------------------
(* What a loader makes of the tensor e of the key k: it passes over what   *)
(* generation does not need or does not fit and stores what is owed.       *)
PassesOrStores(r, e, k, w, w2) ==
  \/ w2 = w /\ (WellFormed /\ k \in UsedIn(0) => ~ Offers(e, k))
  \/ \E v : /\ w2 = [w EXCEPT ![k] = v] /\ k \in DOMAIN w
            /\ WellFormed /\ k \in UsedIn(0) => Offers(e, k) /\ IsOwed(r, k, v)

(* One more tensor copied or passed over.                                  *)
LEMMA CopyOne ==
  ASSUME job \in Jobs, NEW r, NEW w, NEW w2, NEW q, Filling(r, w, q), q # <<>>,
         NEW k, k = Head(q).t.key, DOMAIN w = Present(0),
         PassesOrStores(r, Head(q), k, w, w2)
  PROVE  Filling(r, w2, Tail(q)) /\ DOMAIN w2 = DOMAIN w
<1>1. Flat \in Seq(Entries) /\ Len(Flat) \in Nat  BY FlatIsSequence
<1>2. PICK n \in Nat : n = Len(Flat)  BY <1>1
<1>3. q \in Seq(Entries) /\ Len(q) <= n /\ \A i \in 1 .. Len(q) : q[i] = Flat[n - Len(q) + i]
      BY <1>2 DEF Filling
<1>4. PICK m \in Nat \ {0} : m = Len(q)
  <2>1. Len(q) \in Nat \ {0}  BY <1>3
  <2> QED  BY <2>1
<1>5. PICK p : p = Tail(q)  OBVIOUS
<1>6. p \in Seq(Entries) /\ Len(p) = m - 1 /\ \A i \in 1 .. m - 1 : p[i] = q[i + 1]
      BY <1>3, <1>4, <1>5
<1>7. \A i \in 1 .. Len(p) : p[i] = Flat[n - Len(p) + i]
  <2> SUFFICES ASSUME NEW i \in 1 .. m - 1 PROVE p[i] = Flat[n - (m - 1) + i]  BY <1>6
  <2>1. p[i] = q[i + 1] /\ i + 1 \in 1 .. m  BY <1>4, <1>6
  <2>2. q[i + 1] = Flat[n - m + (i + 1)]  BY <1>3, <1>4, <2>1
  <2>3. n - m + (i + 1) = n - (m - 1) + i  BY <1>2, <1>4
  <2> QED  BY <2>1, <2>2, <2>3
<1>8. Head(q) = Flat[n - m + 1]
  <2>1. Head(q) = q[1] /\ 1 \in 1 .. m  BY <1>3, <1>4
  <2> QED  BY <1>3, <1>4, <2>1
<1>9. DOMAIN w2 = DOMAIN w  BY DEF PassesOrStores
<1>10. ASSUME WellFormed, NEW u \in UsedIn(0) PROVE Filled(r, u, w2[u], Reached(u, p))
  <2>1. Copied(p) = Copied(q) \cup {n - m + 1}
    <3>1. Copied(p) = 1 .. n - m + 1 /\ Copied(q) = 1 .. n - m  BY <1>2, <1>4, <1>6 DEF Copied
    <3>2. n - m \in Nat  BY <1>3, <1>4
    <3> QED  BY <3>1, <3>2
  <2>2. Reached(u, p) <=> Reached(u, q) \/ Offers(Head(q), u)  BY <1>8, <2>1 DEF Reached
  <2>3. Filled(r, u, w[u], Reached(u, q))  BY <1>10 DEF Filling
  <2>4. u \in DOMAIN w  BY DEF UsedIn
  <2>5. CASE u = k
    <3>1. CASE w2 = w /\ ~ Offers(Head(q), k)  BY <2>2, <2>3, <2>5, <3>1 DEF Filled
    <3>2. ASSUME NEW v, w2 = [w EXCEPT ![k] = v], Offers(Head(q), k), IsOwed(r, k, v)
          PROVE  Filled(r, u, w2[u], Reached(u, p))
      <4>1. w2[u] = v  BY <2>4, <2>5, <3>2
      <4> QED  BY <2>2, <2>5, <3>2, <4>1 DEF Filled
    <3> QED  BY <1>10, <2>5, <3>1, <3>2 DEF PassesOrStores
  <2>6. CASE u # k
    <3>1. ~ Offers(Head(q), u)  BY <2>6 DEF Offers
    <3>2. w2[u] = w[u]
      <4>1. CASE w2 = w  BY <4>1
      <4>2. ASSUME NEW v, w2 = [w EXCEPT ![k] = v] PROVE w2[u] = w[u]  BY <2>4, <2>6, <4>2
      <4> QED  BY <4>1, <4>2 DEF PassesOrStores
    <3> QED  BY <2>2, <2>3, <3>1, <3>2 DEF Filled
  <2> QED  BY <2>5, <2>6
<1>11. Len(p) <= Len(Flat)  BY <1>2, <1>3, <1>4, <1>6
<1>12. \A i \in 1 .. Len(p) : p[i] = Flat[Len(Flat) - Len(p) + i]  BY <1>2, <1>7
<1>13. Filling(r, w2, p)  BY <1>6, <1>10, <1>11, <1>12 DEF Filling
<1> QED  BY <1>5, <1>9, <1>13

(* The tensor at the head is one of the checkpoint.                        *)
LEMMA HeadOfFlat ==
  ASSUME job \in Jobs, NEW r, NEW w, NEW q, Filling(r, w, q), q # <<>>
  PROVE  Head(q) \in ToSet(Flat)
<1>1. Flat \in Seq(Entries) /\ Len(Flat) \in Nat  BY FlatIsSequence
<1>2. q \in Seq(Entries) /\ Len(q) <= Len(Flat)
      /\ \A i \in 1 .. Len(q) : q[i] = Flat[Len(Flat) - Len(q) + i]
      BY DEF Filling
<1>3. Len(q) \in Nat \ {0} /\ Head(q) = q[1]  BY <1>2
<1>4. PICK j : j = Len(Flat) - Len(q) + 1  OBVIOUS
<1>5. Head(q) = Flat[j] /\ j \in 1 .. Len(Flat)
  <2>1. 1 \in 1 .. Len(q)  BY <1>3
  <2>2. j \in 1 .. Len(Flat)  BY <1>1, <1>2, <1>3, <1>4
  <2> QED  BY <1>2, <1>3, <1>4, <2>1, <2>2
<1> QED  BY <1>5 DEF ToSet

(* One iteration over the tensors of the checkpoint.                       *)
LEMMA TensorLoads ==
  ASSUME LoadInv, LoaderInv', NEW r \in Ranks, LoadTensor(r)
  PROVE  LoadInv'
<1>0. job \in Jobs /\ pc[r] = "loading" /\ todo[r] # <<>>
      BY DEF LoadInv, LoaderInv, LoadTensor
<1>1. PICK w, q, u : w = weights[r] /\ q = todo[r] /\ u = lookup[r]  OBVIOUS
<1>2. LoadOK(r, "loading", w, q, u)
  <2>1. LoadOK(r, pc[r], weights[r], todo[r], lookup[r])  BY LoadKnows
  <2> QED  BY <1>0, <1>1, <2>1
<1>3. DOMAIN w = Present(0) /\ Filling(r, w, q) /\ u = <<>>  BY <1>2 DEF LoadOK
<1>4. PICK e : e = Head(q)  OBVIOUS
<1>5. e \in ToSet(Flat)  BY <1>0, <1>1, <1>3, <1>4, HeadOfFlat
<1>6. PICK k : k = e.t.key  OBVIOUS
<1>7. official[r].world = World
  <2>1. RankOK(r, "loading", official[r], saved[r], blocks[r])
        BY <1>0, RankKnows DEF LoadInv
  <2> QED  BY <2>1 DEF RankOK
<1>8. k \in UsedIn(0) => ~ Skipped(k) /\ k \in DOMAIN w
      BY <1>0, <1>3, UsedNotSkipped
<1>9. UNCHANGED <<job, lookup>>  BY DEF LoadTensor
<1>10. ASSUME Remains(r), UNCHANGED pc, NEW w2, weights' = [weights EXCEPT ![r] = w2],
              PassesOrStores(r, e, k, w, w2)
       PROVE  LoadInv'
  <2>1. Filling(r, w2, Tail(q)) /\ DOMAIN w2 = DOMAIN w
    <3>1. q # <<>> /\ k = Head(q).t.key /\ e = Head(q)  BY <1>0, <1>1, <1>4, <1>6
    <3>2. job \in Jobs /\ Filling(r, w, q) /\ DOMAIN w = Present(0)  BY <1>0, <1>3
    <3> QED  BY <1>10, <3>1, <3>2, CopyOne
  <2>2. LoadMoves(r, "loading", w2, Tail(q), u)
    <3>1. pc' = [pc EXCEPT ![r] = "loading"]  BY <1>0, <1>10, LoadKnows
    <3>2. todo' = [todo EXCEPT ![r] = Tail(q)]  BY <1>1, <1>10 DEF Remains
    <3>3. lookup' = [lookup EXCEPT ![r] = u]  BY <1>1, <1>9, LoadKnows
    <3> QED  BY <1>9, <1>10, <3>1, <3>2, <3>3 DEF LoadMoves
  <2>3. LoadOK(r, "loading", w2, Tail(q), u)  BY <1>3, <2>1 DEF LoadOK
  <2> QED  BY <2>2, <2>3, RankLoads
<1>11. weights = [weights EXCEPT ![r] = w]  BY <1>1, LoadKnows
<1>12. CASE Loader = "sharded"
  <2>1. LoadSharded(r)  BY <1>12 DEF LoadTensor
  <2>2. PICK dim : dim = ShardDim(k.name)  OBVIOUS
  <2>3. PICK v : v = [of |-> k, form |-> e.t.dtype, dim |-> IF dim # 0 /\ World > 1 THEN dim ELSE 0,
                      index |-> IF dim # 0 /\ World > 1 THEN Shard(r, e.t, dim) ELSE Whole(e.t)]
        OBVIOUS
  <2>4. \/ (Skipped(k) \/ k \notin DOMAIN w) /\ UNCHANGED weights /\ Remains(r) /\ UNCHANGED pc
        \/ Goto(r, "failed") /\ UNCHANGED <<weights, todo>>
        \/ /\ k \in DOMAIN w /\ Divided(e.t.shape, dim, World) = TargetShape(r, k)
           /\ ~ (dim # 0 /\ World > 1 /\ e.t.shape[dim] % World # 0)
           /\ Store(r, k, v) /\ Remains(r) /\ UNCHANGED pc
        BY <1>1, <1>4, <1>6, <2>1, <2>2, <2>3, Zenon DEF LoadSharded
  <2>5. CASE (Skipped(k) \/ k \notin DOMAIN w) /\ UNCHANGED weights /\ Remains(r) /\ UNCHANGED pc
    <3>1. k \notin UsedIn(0)  BY <1>8, <2>5
    <3>2. weights' = [weights EXCEPT ![r] = w]  BY <1>11, <2>5
    <3> QED  BY <1>10, <2>5, <3>1, <3>2 DEF PassesOrStores
  <2>6. CASE Goto(r, "failed") /\ UNCHANGED <<weights, todo>>
    <3>1. LoadMoves(r, "failed", w, q, u)
          BY <1>1, <1>9, <2>6, LoadKnows DEF LoadMoves, Goto
    <3>2. LoadOK(r, "failed", w, q, u)  BY DEF LoadOK
    <3> QED  BY <3>1, <3>2, RankLoads
  <2>7. CASE /\ k \in DOMAIN w /\ Divided(e.t.shape, dim, World) = TargetShape(r, k)
             /\ ~ (dim # 0 /\ World > 1 /\ e.t.shape[dim] % World # 0)
             /\ Store(r, k, v) /\ Remains(r) /\ UNCHANGED pc
    <3>1. WellFormed /\ k \in UsedIn(0) => Offers(e, k) /\ IsOwed(r, k, v)
      <4> SUFFICES ASSUME WellFormed, k \in UsedIn(0) PROVE Offers(e, k) /\ IsOwed(r, k, v)
          OBVIOUS
      <4>1. /\ v = Owed(r, k) /\ Offers(e, k)
            /\ SplitDim(k) # 0 => /\ dim # 0 /\ World > 1
                                  /\ e.t.shape[dim] = Places[k].shape[SplitDim(k)]
        <5>1. Divided(e.t.shape, dim, World) = TargetShape(r, k)  BY <2>7
        <5> QED  BY <1>0, <1>5, <1>6, <1>7, <1>12, <2>2, <2>3, <5>1, StoredSharded
      <4> QED  BY <2>7, <4>1 DEF IsOwed
    <3>2. PICK w2 : w2 = [w EXCEPT ![k] = v]  OBVIOUS
    <3>3. weights' = [weights EXCEPT ![r] = w2]  BY <1>1, <2>7, <3>2 DEF Store
    <3> QED  BY <1>10, <2>7, <3>1, <3>2, <3>3 DEF PassesOrStores
  <2> QED  BY <2>4, <2>5, <2>6, <2>7
<1>13. CASE Loader # "sharded"
  <2>1. LoadWhole(r)  BY <1>13 DEF LoadTensor
  <2>2. PICK owner : owner = IF k.leaf = "scale" THEN [k EXCEPT !.leaf = "weight"] ELSE k
        OBVIOUS
  <2>3. PICK v : v = [of |-> k, form |-> Form(e), dim |-> 0, index |-> Whole(e.t)]  OBVIOUS
  <2>4. /\ Remains(r) /\ UNCHANGED pc
        /\ \/ /\ UNCHANGED weights
              /\ \/ Skipped(k) \/ owner \notin DOMAIN w \/ k \notin DOMAIN w
                 \/ e.t.shape # TargetShape(r, k)
           \/ k \in DOMAIN w /\ e.t.shape = TargetShape(r, k) /\ Store(r, k, v)
        BY <1>1, <1>4, <1>6, <2>1, <2>2, <2>3, Zenon DEF LoadWhole
  <2>5. WellFormed /\ k \in UsedIn(0)
          => /\ Offers(e, k) <=> e.t.shape = TargetShape(r, k)
             /\ Offers(e, k) => IsOwed(r, k, v)
             /\ owner \in DOMAIN w
    <3> SUFFICES ASSUME WellFormed, k \in UsedIn(0)
                 PROVE  /\ Offers(e, k) <=> e.t.shape = TargetShape(r, k)
                        /\ Offers(e, k) => IsOwed(r, k, v)
                        /\ owner \in DOMAIN w
        OBVIOUS
    <3>1. /\ Offers(e, k) <=> e.t.shape = TargetShape(r, k)
          /\ Offers(e, k) => v = Owed(r, k)
          /\ SplitDim(k) = 0
          /\ k.leaf = "scale" => [k EXCEPT !.leaf = "weight"] \in Present(0)
          BY <1>0, <1>5, <1>6, <1>7, <1>13, <2>3, StoredWhole
    <3>2. owner \in DOMAIN w  BY <1>3, <1>8, <2>2, <3>1
    <3> QED  BY <3>1, <3>2 DEF IsOwed
  <2>6. CASE UNCHANGED weights /\ (\/ Skipped(k) \/ owner \notin DOMAIN w \/ k \notin DOMAIN w
                                   \/ e.t.shape # TargetShape(r, k))
    <3>1. WellFormed /\ k \in UsedIn(0) => ~ Offers(e, k)  BY <1>8, <2>5, <2>6
    <3>2. weights' = [weights EXCEPT ![r] = w]  BY <1>11, <2>6
    <3> QED  BY <1>10, <2>4, <3>1, <3>2 DEF PassesOrStores
  <2>7. CASE k \in DOMAIN w /\ e.t.shape = TargetShape(r, k) /\ Store(r, k, v)
    <3>1. PICK w2 : w2 = [w EXCEPT ![k] = v]  OBVIOUS
    <3>2. weights' = [weights EXCEPT ![r] = w2]  BY <1>1, <2>7, <3>1 DEF Store
    <3> QED  BY <1>10, <2>4, <2>5, <2>7, <3>1, <3>2 DEF PassesOrStores
  <2> QED  BY <2>4, <2>6, <2>7
<1> QED  BY <1>12, <1>13

-----------------------------------------------------------------------------
(* A new process has loaded nothing.                                       *)
LEMMA InitLoads == Init => LoadInv
<1> SUFFICES ASSUME Init PROVE LoadInv  OBVIOUS
<1>1. LoaderInv  BY InitLoader
<1>2. /\ pc = [r \in Ranks |-> "idle"] /\ weights = [r \in Ranks |-> <<>>]
      /\ todo = [r \in Ranks |-> <<>>] /\ lookup = [r \in Ranks |-> <<>>]
      BY DEF Init
<1>3. \A r \in Ranks : LoadOK(r, "idle", <<>>, <<>>, <<>>)  BY DEF LoadOK
<1>4. ASSUME NEW r \in Ranks PROVE LoadOK(r, pc[r], weights[r], todo[r], lookup[r])
  <2>1. pc[r] = "idle" /\ weights[r] = <<>> /\ todo[r] = <<>> /\ lookup[r] = <<>>  BY <1>2
  <2> QED  BY <1>3, <2>1
<1>5. /\ weights = [r \in Ranks |-> weights[r]] /\ todo = [r \in Ranks |-> todo[r]]
      /\ lookup = [r \in Ranks |-> lookup[r]]
      BY <1>2
<1> QED  BY <1>1, <1>4, <1>5 DEF LoadInv

(* Between its steps, and those of the forwards, a load stands still.      *)
LEMMA LoadsStand ==
  ASSUME LoadInv, LoaderInv', UNCHANGED vars
  PROVE  LoadInv'
<1>1. /\ job' = job /\ pc' = pc /\ weights' = weights /\ todo' = todo /\ lookup' = lookup
      BY DEF vars
<1>2. Ranks' = Ranks  BY <1>1 DEF Ranks, World
<1>3. ASSUME NEW p \in Ranks PROVE LoadOK(p, pc[p], weights[p], todo[p], lookup[p])'
  <2>1. PICK l, w, q, u : l = pc[p] /\ w = weights[p] /\ q = todo[p] /\ u = lookup[p]
        OBVIOUS
  <2>2. LoadOK(p, l, w, q, u)  BY <2>1 DEF LoadInv
  <2>3. LoadOK(p, l, w, q, u)'  BY <1>1, <2>2, LoadStands
  <2> QED  BY <1>1, <2>1, <2>3
<1>4. (\A p \in Ranks : LoadOK(p, pc[p], weights[p], todo[p], lookup[p]))'  BY <1>2, <1>3
<1> QED  BY <1>1, <1>2, <1>4 DEF LoadInv

(* In every state each rank has copied what its label says.                *)
LEMMA LoadInvariant == ForwardSpec => []LoadInv
<1>1. ForwardInit => LoadInv  BY InitLoads DEF ForwardInit
<1>2. LoadInv /\ [ForwardNext]_allVars => LoadInv'
  <2> SUFFICES ASSUME LoadInv, [ForwardNext]_allVars PROVE LoadInv'  OBVIOUS
  <2>1. [Next]_vars
        BY DEF ForwardNext, allVars, AllReduce, Loading, Forward, Attend, RouteTokens,
               RunExpert, ExpertRaises, EnterReduce, Next
  <2>2. LoaderInv'  BY <2>1, NextLoader DEF LoadInv
  <2>3. CASE UNCHANGED vars  BY <2>2, <2>3, LoadsStand
  <2>4. ASSUME NEW r \in Ranks, Step(r) PROVE LoadInv'
        BY <2>2, <2>4, StartLoads, LabelsLoad, BuiltLoads, PatchLoads, TensorLoads,
           LoadedLoads, AttachLoads, AgainLoads DEF Step
  <2> QED  BY <2>1, <2>3, <2>4 DEF Next
<1> QED  BY <1>1, <1>2, PTL DEF ForwardSpec

(* Every engram layer of a loaded model looks its rows up in its own       *)
(* table, whatever the checkpoint.                                         *)
THEOREM TablesAreOwn == ForwardSpec => []EngramOwnTable
<1>1. LoadInv => EngramOwnTable
  <2> SUFFICES ASSUME LoadInv, NEW r \in Ranks, pc[r] = "loaded", Loader = "v41", OffloadEngram
               PROVE  lookup[r] = [l \in job.engramLayers |-> l]
      BY DEF EngramOwnTable
  <2>1. LoadOK(r, "loaded", weights[r], todo[r], lookup[r])  BY LoadKnows
  <2> QED  BY <2>1 DEF LoadOK
<1> QED  BY <1>1, LoadInvariant, PTL

(* A share of a parameter, in numbers.                                     *)
LEMMA OwedFacts ==
  ASSUME LoadInv, WellFormed, NEW r \in Ranks, pc[r] = "loaded", NEW k \in UsedIn(0),
         Offered(k)
  PROVE  /\ weights[r][k] = Owed(r, k)
         /\ k \in DOMAIN Places /\ official[r].world = World
         /\ World \in Nat \ {0} /\ r \in 0 .. World - 1
         /\ SplitDim(k) # 0 => World > 1 /\ SplitDim(k) = OfficialDim(k.name)
         /\ SplitDim(k) = 0 => World = 1 \/ OfficialDim(k.name) = 0
         /\ 1 \in DOMAIN Places[k].shape /\ Places[k].shape \in Seq(Nat)
         /\ SplitDim(k) # 0 => SplitDim(k) \in DOMAIN Places[k].shape
         /\ \A d \in DOMAIN Places[k].shape : Places[k].shape[d] \in Nat \ {0}
         /\ SplitDim(k) # 0 => Places[k].shape[SplitDim(k)] % World = 0
<1>1. job \in Jobs  BY DEF LoadInv, LoaderInv
<1>2. LoadOK(r, "loaded", weights[r], todo[r], lookup[r])  BY LoadKnows
<1>3. IsOwed(r, k, weights[r][k])  BY <1>2 DEF LoadOK, Filled
<1>4. k \in DOMAIN Places  BY <1>1, UsedNotSkipped
<1>5. /\ RankOK(r, "loaded", official[r], saved[r], blocks[r])
      /\ World \in Nat \ {0} /\ r \in 0 .. World - 1
      BY RankKnows DEF LoadInv
<1>6. official[r].world = World  BY <1>5 DEF RankOK
<1>7. /\ Places[k].shape \in Seq(Nat) /\ 1 \in DOMAIN Places[k].shape
      /\ \A d \in DOMAIN Places[k].shape : Places[k].shape[d] \in Nat \ {0}
      /\ ShardDim(k.name) # 0 => ShardDim(k.name) \in DOMAIN Places[k].shape
      /\ OfficialDim(k.name) \in {0, ShardDim(k.name)}
      BY <1>1, <1>4, ShapeFacts
<1>8. /\ SplitDim(k) # 0 => World > 1 /\ SplitDim(k) = OfficialDim(k.name)
      /\ SplitDim(k) = 0 => World = 1 \/ OfficialDim(k.name) = 0
      BY <1>5 DEF SplitDim
<1>9. SplitDim(k) # 0 => SplitDim(k) \in DOMAIN Places[k].shape  BY <1>7, <1>8
<1> QED  BY <1>3, <1>4, <1>5, <1>6, <1>7, <1>8, <1>9 DEF IsOwed

(* A loader that returns has filled every parameter that generation reads  *)
(* and the checkpoint offers, from its own tensor, in its format and size, *)
(* and has left the others as torch.empty made them.                       *)
THEOREM LoadsAreComplete == ForwardSpec => [](WellFormed => LoadedComplete)
<1>1. LoadInv => (WellFormed => ResidentComplete)
  <2> SUFFICES ASSUME LoadInv, WellFormed, NEW r \in Ranks, pc[r] = "loaded",
                      NEW k \in UsedIn(r)
               PROVE  /\ Offered(k) =>
                           LET w == weights[r][k]
                           IN  /\ w # Unset /\ w.of = k /\ w.form = Places[k].dtype
                               /\ Cardinality(w.index)
                                    = TargetShape(r, k)[IF w.dim = 0 THEN 1 ELSE w.dim]
                      /\ ~ Offered(k) => weights[r][k] = Unset
      BY DEF ResidentComplete
  <2>0. k \in UsedIn(0)  BY SameEverywhere
  <2>1. ASSUME ~ Offered(k) PROVE weights[r][k] = Unset
    <3>1. LoadOK(r, "loaded", weights[r], todo[r], lookup[r])  BY LoadKnows
    <3> QED  BY <2>0, <2>1, <3>1 DEF LoadOK, Filled
  <2> SUFFICES ASSUME Offered(k)
               PROVE  LET w == weights[r][k]
                      IN  /\ w # Unset /\ w.of = k /\ w.form = Places[k].dtype
                          /\ Cardinality(w.index)
                               = TargetShape(r, k)[IF w.dim = 0 THEN 1 ELSE w.dim]
      BY <2>1
  <2>2. PICK w, s, d : w = Owed(r, k) /\ s = Places[k].shape /\ d = SplitDim(k)  OBVIOUS
  <2>3. /\ weights[r][k] = w
        /\ official[r].world = World /\ World \in Nat \ {0} /\ r \in 0 .. World - 1
        /\ d # 0 => World > 1 /\ d = OfficialDim(k.name)
        /\ d = 0 => World = 1 \/ OfficialDim(k.name) = 0
        /\ 1 \in DOMAIN s /\ s \in Seq(Nat) /\ (d # 0 => d \in DOMAIN s)
        /\ \A i \in DOMAIN s : s[i] \in Nat \ {0}
        BY <2>0, <2>2, OwedFacts
  <2>4. /\ w.of = k /\ w.form = Places[k].dtype /\ w.dim = d
        /\ w.index = IF d = 0 THEN 0 .. s[1] - 1
                     ELSE LET size == s[d] \div World IN  r * size .. r * size + size - 1
        BY <2>2 DEF Owed
  <2>5. w # Unset
    <3>1. DOMAIN w = {"of", "form", "dim", "index"}  BY <2>2 DEF Owed
    <3>2. DOMAIN Unset = {"form"}  BY DEF Unset
    <3> QED  BY <3>1, <3>2
  <2>6. TargetShape(r, k) = Divided(s, OfficialDim(k.name), World)
        BY <2>2, <2>3 DEF TargetShape
  <2>7. Cardinality(w.index) = TargetShape(r, k)[IF w.dim = 0 THEN 1 ELSE w.dim]
    <3>1. CASE d = 0
      <4>1. TargetShape(r, k) = s
        <5>1. CASE World = 1  BY <2>3, <2>6, <5>1, WholeByOne
        <5>2. CASE OfficialDim(k.name) = 0  BY <2>6, <5>2 DEF Divided
        <5> QED  BY <2>3, <3>1, <5>1, <5>2
      <4>2. PICK n \in Nat : n = s[1]  BY <2>3
      <4>3. Cardinality(0 .. n - 1) = n  BY FS_Interval
      <4> QED  BY <2>4, <3>1, <4>1, <4>2, <4>3
    <3>2. CASE d # 0
      <4>1. PICK x \in Nat : x = s[d]  BY <2>3, <3>2
      <4>2. PICK n \in Nat : n = x \div World  BY <2>3, DivNat
      <4>3. TargetShape(r, k)[d] = n
        <5>1. TargetShape(r, k) = [s EXCEPT ![d] = x \div World]
              BY <2>3, <2>6, <3>2, <4>1 DEF Divided
        <5> QED  BY <2>3, <3>2, <4>2, <5>1
      <4>4. PICK a \in Nat : a = r * n  BY <2>3
      <4>5. Cardinality(a .. a + n - 1) = n  BY FS_Interval
      <4>6. w.index = a .. a + n - 1  BY <2>4, <3>2, <4>1, <4>2, <4>4
      <4> QED  BY <2>4, <3>2, <4>3, <4>5, <4>6
    <3> QED  BY <3>1, <3>2
  <2> QED  BY <2>3, <2>4, <2>5, <2>7
<1>2. LoadInv /\ EngramOwnTable => (WellFormed => LoadedComplete)
      BY <1>1 DEF LoadedComplete
<1> QED  BY <1>2, LoadInvariant, TablesAreOwn, PTL

(* The ranges of lower ranks come first, and all lie in the whole.          *)
LEMMA RangesInOrder ==
  ASSUME NEW n \in Nat, NEW q \in Nat, NEW r \in Nat, q < r,
         NEW i \in q * n .. q * n + n - 1, NEW j \in r * n .. r * n + n - 1
  PROVE  i < j
<1>1. PICK d \in Nat : r = q + 1 + d
  <2>1. r - (q + 1) \in Nat /\ r = q + 1 + (r - (q + 1))  OBVIOUS
  <2> QED  BY <2>1
<1>2. r * n = q * n + n + d * n  BY <1>1
<1>3. d * n \in Nat /\ q * n \in Nat  OBVIOUS
<1> QED  BY <1>2, <1>3

(* They lie in the whole.                                                  *)
LEMMA RangeBelow ==
  ASSUME NEW n \in Nat, NEW w \in Nat \ {0}, NEW r \in 0 .. w - 1,
         NEW e \in r * n .. r * n + n - 1
  PROVE  e \in 0 .. n * w - 1
<1>1. PICK d \in Nat : w = r + 1 + d
  <2>1. w - (r + 1) \in Nat /\ w = r + 1 + (w - (r + 1))  OBVIOUS
  <2> QED  BY <2>1
<1>2. n * w = r * n + n + d * n  BY <1>1
<1>3. d * n \in Nat /\ r * n \in Nat  OBVIOUS
<1> QED  BY <1>2, <1>3

(* Each row or column of a split parameter the checkpoint offers is on one *)
(* rank, rank by rank in order, and what is not split is whole on every    *)
(* rank: the loader's table of dimensions and the official parallel        *)
(* layers agree, or a tensor that does not fit stops the load.             *)
THEOREM ShardsAreExact == ForwardSpec => [](WellFormed => ShardsPartition)
<1>1. LoadInv => (WellFormed => ShardsPartition)
  <2> SUFFICES ASSUME LoadInv, WellFormed, \A r \in Ranks : pc[r] = "loaded",
                      NEW k \in UsedIn(0), Offered(k)
               PROVE  LET d == OfficialDim(k.name)
                          along == IF d = 0 \/ World = 1 THEN 1 ELSE d
                          all == 0 .. Places[k].shape[along] - 1
                      IN  IF d = 0 \/ World = 1 THEN \A r \in Ranks : weights[r][k].index = all
                          ELSE /\ UNION {weights[r][k].index : r \in Ranks} = all
                               /\ \A q, r \in Ranks : q < r =>
                                    \A i \in weights[q][k].index, j \in weights[r][k].index : i < j
      BY DEF ShardsPartition
  <2>1. PICK s, d : s = Places[k].shape /\ d = SplitDim(k)  OBVIOUS
  <2>2. World \in Nat \ {0} /\ Ranks = 0 .. World - 1  BY WorldFacts DEF LoadInv, LoaderInv
  <2>3. ASSUME NEW r \in Ranks
        PROVE  weights[r][k].index = IF d = 0 THEN 0 .. s[1] - 1
                                     ELSE LET size == s[d] \div World
                                          IN  r * size .. r * size + size - 1
    <3>1. weights[r][k] = Owed(r, k)  BY OwedFacts
    <3> QED  BY <2>1, <3>1 DEF Owed
  <2>4. /\ d # 0 => World > 1 /\ d = OfficialDim(k.name) /\ d \in DOMAIN s /\ s[d] % World = 0
        /\ d = 0 => World = 1 \/ OfficialDim(k.name) = 0
        /\ \A i \in DOMAIN s : s[i] \in Nat \ {0}
    <3>1. PICK z \in Ranks : z = 0  BY <2>2
    <3> QED  BY <2>1, <3>1, OwedFacts
  <2>5. CASE d = 0
    <3>1. OfficialDim(k.name) = 0 \/ World = 1  BY <2>4, <2>5
    <3>2. \A r \in Ranks : weights[r][k].index = 0 .. s[1] - 1  BY <2>3, <2>5
    <3> QED  BY <2>1, <3>1, <3>2
  <2>6. CASE d # 0
    <3>1. d = OfficialDim(k.name) /\ World # 1 /\ d # 0  BY <2>2, <2>4, <2>6
    <3>2. PICK x \in Nat : x = s[d] /\ x % World = 0  BY <2>4, <2>6
    <3>3. PICK n \in Nat : n = x \div World  BY <2>2, DivNat
    <3>4. n * World = x
      <4>1. x = World * n + (x % World)  BY <2>2, <3>3, DivNat
      <4>2. x = World * n + 0  BY <3>2, <4>1
      <4> QED  BY <2>2, <4>2
    <3>5. \A r \in Ranks : weights[r][k].index = r * n .. r * n + n - 1
          BY <2>3, <2>6, <3>2, <3>3
    <3>6. UNION {weights[r][k].index : r \in Ranks} = 0 .. x - 1
      <4>1. ASSUME NEW e \in 0 .. x - 1 PROVE \E r \in Ranks : e \in weights[r][k].index
        <5>1. e \in 0 .. n * World - 1  BY <3>4
        <5>2. PICK r \in 0 .. World - 1 : e \in r * n .. r * n + n - 1  BY <2>2, <5>1, RangesCover
        <5> QED  BY <2>2, <3>5, <5>2
      <4>2. ASSUME NEW r \in Ranks, NEW e \in weights[r][k].index PROVE e \in 0 .. x - 1
        <5>1. e \in r * n .. r * n + n - 1 /\ r \in 0 .. World - 1  BY <2>2, <3>5
        <5> QED  BY <2>2, <3>4, <5>1, RangeBelow
      <4> QED  BY <4>1, <4>2
    <3>7. ASSUME NEW q \in Ranks, NEW r \in Ranks, q < r,
                 NEW i \in weights[q][k].index, NEW j \in weights[r][k].index
          PROVE  i < j
      <4>1. q \in Nat /\ r \in Nat  BY <2>2
      <4>2. i \in q * n .. q * n + n - 1 /\ j \in r * n .. r * n + n - 1  BY <3>5
      <4> QED  BY <3>7, <4>1, <4>2, RangesInOrder
    <3>8. s[d] = x /\ s = Places[k].shape  BY <2>1, <3>2
    <3> QED  BY <3>1, <3>6, <3>7, <3>8
  <2> QED  BY <2>5, <2>6
<1> QED  BY <1>1, LoadInvariant, PTL
==============================================================================
