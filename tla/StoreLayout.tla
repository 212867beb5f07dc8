----------------------------- MODULE StoreLayout -----------------------------
(***************************************************************************)
(* The layout planner of moe_store/convert/planner.py (plan_layout) and    *)
(* the validator of moe_store/index.py (validate_index).                   *)
(*                                                                         *)
(* The planner scans the checkpoint's tensors once, collecting them into   *)
(* groups (one per routed expert, one per dense module), then places the   *)
(* groups stage by stage into fixed-size partition files, and finally      *)
(* validates the index it built.  One action is one iteration of one of    *)
(* those loops, so that the invariants hold of every prefix of the plan.   *)
(*                                                                         *)
(* A tensor is its position in the scan, `specs[t]' what the planner knows *)
(* of it.  The checkpoint is arbitrary: each scan step chooses the next    *)
(* tensor.  A tensor's name is abstracted to its home (what expert_of and  *)
(* the dense stage rule return), its slot (the component of the name that  *)
(* member_slot_rank looks up) and its part: the weight of that slot, its   *)
(* bias, or an aux tensor (scale, zero-point, index) of the weight.        *)
(***************************************************************************)
EXTENDS Integers, Sequences, FiniteSets, Functions

CONSTANTS
  Layers,               \* sparse layers: the layer_id of an expert tensor
  DenseStages,          \* names of dense stages
  Experts,              \* expert ids
  Slots,                \* slot components of tensor names
  SlotTable,            \* canonical slot order of the architecture
  Parts,                \* subset of {"weight", "bias", "aux"}
  Sizes,                \* payload sizes a tensor may have
  Dtypes,               \* dtype tokens a checkpoint may carry
  DTYPE_TOKENS,         \* dtype tokens the index format knows
  Sources,              \* subset of {"raw", "quantize"}: see ScanTensor
  PARTITION_SIZE, GROUP_ALIGNMENT, MEMBER_ALIGNMENT, MEMBER_ALIGNMENT_MIN,
  END_OF_PIPELINE,      \* high half of the group_ids of the last stage
  MaxTensors            \* bound on the scan, for model checking

Stages   == Layers \cup DenseStages
NoExpert == -1          \* expert_id of a dense group
Homes    == (Layers \X Experts) \cup (DenseStages \X {NoExpert})

ASSUME AlignmentAssumption ==
  /\ GROUP_ALIGNMENT \in Nat \ {0}
  /\ MEMBER_ALIGNMENT \in Nat \ {0}
  /\ MEMBER_ALIGNMENT_MIN \in Nat \ {0}
  /\ MEMBER_ALIGNMENT % MEMBER_ALIGNMENT_MIN = 0
  /\ PARTITION_SIZE \in Nat

ASSUME NameAssumption ==
  /\ Layers \cap DenseStages = {}
  /\ Experts \subseteq Nat
  /\ IsFiniteSet(Experts)
  /\ Sizes \subseteq Nat
  /\ Parts \subseteq {"weight", "bias", "aux"}
  /\ Sources \subseteq {"raw", "quantize"}
  /\ MaxTensors \in Nat
  /\ END_OF_PIPELINE \in Nat

(* The slot tables of registry/slots.py hold distinct slots.               *)
ASSUME SlotAssumption ==
  /\ SlotTable \in Seq(Slots)
  /\ \A i, j \in DOMAIN SlotTable : SlotTable[i] = SlotTable[j] => i = j

VARIABLES
  source,        \* "raw" checkpoint, or one the converter quantizes
  specs,         \* the tensors scanned so far
  scale_due,     \* the scan must next deliver the scale of the last weight
  expert_groups, \* home -> scan positions (expert_groups and dense_groups)
  stage_order,   \* stages in order of first appearance
  status,        \* "scan", "place", "done", or the error raised
  stage_idx,     \* stage being placed, counted from 1
  group_idx,     \* index within that stage of the group being placed
  todo,          \* expert ids of that stage not yet placed
  expert_id,     \* expert id of the open group, NoExpert for a dense one
  pending,       \* tensors of the open group not yet placed, in slot order
  members,       \* member records of the open group
  cursor,        \* end of the last member of the open group
  tensor_id, file_id, file_offset,
  groups         \* the group table

scanVars  == <<source, specs, scale_due, expert_groups, stage_order>>
openVars  == <<expert_id, pending, members, cursor, tensor_id>>
placeVars == <<file_id, file_offset, groups, stage_idx, group_idx, todo>>
vars == <<scanVars, status, openVars, placeVars>>
-----------------------------------------------------------------------------
(***************************************************************************)
(* Helpers of the planner.                                                 *)
(***************************************************************************)

(* Mutants of Align: a sign error, and no rounding.                        *)
AlignWrongSign(value, alignment) ==
  LET r == value % alignment
  IN  IF r = 0 THEN value ELSE value - (alignment - r)
AlignNot(value, alignment) == value

(* _align: for a power of two the bit trick rounds up to a multiple.       *)
Align(value, alignment) ==
  LET r == value % alignment
  IN  IF r = 0 THEN value ELSE value + (alignment - r)

(* member_slot_rank: the index of the slot in the table, None elsewhere.   *)
Ranked(t)   == specs[t].slot \in Range(SlotTable)
SlotRank(t) == CHOOSE i \in DOMAIN SlotTable : SlotTable[i] = specs[t].slot

Home(spec) == <<spec.stage, spec.expert>>

(* What one scan step can deliver.                                         *)
TensorSpec ==
  {spec \in [stage: Stages, expert: Experts \cup {NoExpert}, slot: Slots,
             part: Parts, size: Sizes, dtype: Dtypes] : Home(spec) \in Homes}

(* is_expert_slot of FP8ExpertQuantizer.prepare.                           *)
Quantizable(spec) ==
  /\ spec.stage \in Layers
  /\ spec.slot \in Range(SlotTable)
  /\ spec.part = "weight"

ExpertsOf(stage) ==
  {e \in Experts \cup {NoExpert} :
     /\ <<stage, e>> \in Homes
     /\ expert_groups[<<stage, e>>] # <<>>}

(***************************************************************************)
(* Member order of a group.  Expert groups whose members all have a slot   *)
(* rank are sorted by (rank, scan index); every other group keeps the scan *)
(* order.                                                                  *)
(***************************************************************************)
PrecedesUnstable(stage, ms, i, j) ==             \* mutant: an unstable sort
  IF stage \in Layers /\ \A k \in DOMAIN ms : Ranked(ms[k])
  THEN \/ SlotRank(ms[i]) < SlotRank(ms[j])
       \/ SlotRank(ms[i]) = SlotRank(ms[j]) /\ i > j
  ELSE i < j

Precedes(stage, ms, i, j) ==
  IF stage \in Layers /\ \A k \in DOMAIN ms : Ranked(ms[k])
  THEN \/ SlotRank(ms[i]) < SlotRank(ms[j])
       \/ SlotRank(ms[i]) = SlotRank(ms[j]) /\ i < j
  ELSE i < j

MemberOrders(stage, ms) ==
  {p \in [DOMAIN ms -> DOMAIN ms] :
     \A a, b \in DOMAIN ms : a < b => Precedes(stage, ms, p[a], p[b])}

GroupId ==
  <<IF stage_idx = Len(stage_order) THEN END_OF_PIPELINE ELSE group_idx, stage_idx>>
-----------------------------------------------------------------------------
Init ==
  /\ source \in Sources
  /\ specs = <<>>
  /\ scale_due = FALSE
  /\ expert_groups = [h \in Homes |-> <<>>]
  /\ stage_order = <<>>
  /\ status = "scan"
  /\ stage_idx = 1 /\ group_idx = 0 /\ todo = {}
  /\ expert_id = NoExpert /\ pending = <<>> /\ members = <<>> /\ cursor = 0
  /\ tensor_id = 0 /\ file_id = 0 /\ file_offset = 0
  /\ groups = <<>>

CollectedLast(h, t) == [expert_groups EXCEPT ![h] = <<t>>]   \* mutant: overwrites

Collected(h, t) == [expert_groups EXCEPT ![h] = Append(@, t)]

(***************************************************************************)
(* The body of the scan loop.  With source "quantize" the scan order is    *)
(* the one the quantizer's prepare produced: the source has no scales, and *)
(* every routed weight it quantizes is followed at once by its scale.      *)
(***************************************************************************)
ScanTensor(spec) ==
  /\ status = "scan"
  /\ Len(specs) < MaxTensors \/ scale_due
  /\ IF scale_due
     THEN /\ Home(spec) = Home(specs[Len(specs)])
          /\ spec.slot = specs[Len(specs)].slot
          /\ spec.part = "aux"
     ELSE source = "quantize" => spec.part # "aux"
  /\ specs' = Append(specs, spec)
  /\ scale_due' = (source = "quantize" /\ Quantizable(spec))
  /\ expert_groups' = Collected(Home(spec), Len(specs) + 1)
  /\ stage_order' = IF spec.stage \in Range(stage_order)
                    THEN stage_order ELSE Append(stage_order, spec.stage)
  /\ UNCHANGED <<source, status, openVars, placeVars>>

(* "no tensors to plan", or the start of the placement loop.               *)
FinishScan ==
  /\ status = "scan"
  /\ ~scale_due
  /\ IF stage_order = <<>>
     THEN status' = "no_tensors" /\ UNCHANGED todo
     ELSE status' = "place" /\ todo' = ExpertsOf(stage_order[1])
  /\ UNCHANGED <<scanVars, openVars, file_id, file_offset, groups, stage_idx, group_idx>>

(* The main loop calls place_group for the smallest expert id of the stage *)
(* that is left; a dense stage has one group.                              *)
OpenGroup ==
  /\ status = "place"
  /\ pending = <<>> /\ members = <<>>
  /\ \E e \in todo :
       /\ \A x \in todo : e <= x
       /\ expert_id' = e
       /\ LET stage == stage_order[stage_idx]
              ms    == expert_groups[<<stage, e>>]
          IN  \E p \in MemberOrders(stage, ms) :
                pending' = [k \in DOMAIN ms |-> ms[p[k]]]
  /\ cursor' = 0
  /\ UNCHANGED <<scanVars, status, members, tensor_id, placeVars>>

(* One iteration of the member loop of place_group.                        *)
PlaceMember ==
  /\ status = "place"
  /\ pending # <<>>
  /\ LET spec == specs[Head(pending)]
         rel  == Align(cursor, MEMBER_ALIGNMENT)
     IN  /\ members' = Append(members,
              [tensor_id |-> tensor_id, tensor |-> Head(pending),
               rel_offset |-> rel, size |-> spec.size, dtype |-> spec.dtype])
         /\ cursor' = rel + spec.size
  /\ tensor_id' = tensor_id + 1
  /\ pending' = Tail(pending)
  /\ UNCHANGED <<scanVars, status, expert_id, placeVars>>

(***************************************************************************)
(* The rest of place_group: reject a group larger than a partition, roll   *)
(* to a new file when the group does not fit, append the record; then the  *)
(* main loop moves to the next expert or stage.                            *)
(***************************************************************************)
GroupTooLarge ==
  /\ status = "place"
  /\ pending = <<>> /\ members # <<>>
  /\ Align(cursor, GROUP_ALIGNMENT) > PARTITION_SIZE
  /\ status' = "group_too_large"
  /\ UNCHANGED <<scanVars, openVars, placeVars>>

Rolls(total_size) == file_offset + total_size > PARTITION_SIZE

NextOffsetLost(offset, total_size) == total_size   \* mutant: forgets the offset

NextOffset(offset, total_size) == offset + total_size

CloseGroup ==
  /\ status = "place"
  /\ pending = <<>> /\ members # <<>>
  /\ LET total_size == Align(cursor, GROUP_ALIGNMENT)
         file   == IF Rolls(total_size) THEN file_id + 1 ELSE file_id
         offset == IF Rolls(total_size) THEN 0 ELSE file_offset
         rest   == todo \ {expert_id}
     IN  /\ total_size <= PARTITION_SIZE
         /\ groups' = Append(groups,
              [group_id |-> GroupId, stage |-> stage_order[stage_idx],
               expert |-> expert_id, file_id |-> file, offset |-> offset,
               total_size |-> total_size, members |-> members])
         /\ file_id' = file
         /\ file_offset' = NextOffset(offset, total_size)
         /\ IF rest = {} /\ stage_idx < Len(stage_order)
            THEN /\ stage_idx' = stage_idx + 1
                 /\ group_idx' = 0
                 /\ todo' = ExpertsOf(stage_order[stage_idx + 1])
            ELSE /\ stage_idx' = stage_idx
                 /\ group_idx' = group_idx + 1
                 /\ todo' = rest
  /\ members' = <<>>
  /\ UNCHANGED <<scanVars, status, expert_id, pending, cursor, tensor_id>>
-----------------------------------------------------------------------------
(***************************************************************************)
(* validate_index, over the group table.  expected_tensor_id runs through  *)
(* the members of all groups in order from 0.                              *)
(***************************************************************************)
End(m) == m.rel_offset + m.size

GroupValid(g) ==
  /\ g.offset % GROUP_ALIGNMENT = 0                        \* G2
  /\ g.offset + g.total_size <= PARTITION_SIZE             \* G1
  /\ g.members # <<>>
  /\ \A k \in DOMAIN g.members : g.members[k].rel_offset % MEMBER_ALIGNMENT_MIN = 0
  /\ \A k \in DOMAIN g.members :                           \* no member overlap
       k > 1 => g.members[k].rel_offset >= End(g.members[k - 1])
  /\ End(g.members[Len(g.members)]) <= g.total_size

FirstId(g) == g.members[1].tensor_id
NextId(g)  == g.members[Len(g.members)].tensor_id + 1

IdsDense(gs) ==                                            \* G5
  /\ gs # <<>> => FirstId(gs[1]) = 0
  /\ \A i \in DOMAIN gs : i > 1 => FirstId(gs[i]) = NextId(gs[i - 1])
  /\ \A i \in DOMAIN gs : \A k \in DOMAIN gs[i].members :
       gs[i].members[k].tensor_id = FirstId(gs[i]) + k - 1

DtypesKnown(gs) ==
  \A i \in DOMAIN gs : \A k \in DOMAIN gs[i].members :
    gs[i].members[k].dtype \in DTYPE_TOKENS

Valid(gs) ==
  /\ \A i \in DOMAIN gs : GroupValid(gs[i])
  /\ IdsDense(gs)
  /\ DtypesKnown(gs)

Validate ==
  /\ status = "place"
  /\ todo = {}
  /\ status' = IF Valid(groups) THEN "done" ELSE "invalid_index"
  /\ UNCHANGED <<scanVars, openVars, placeVars>>

Errors   == {"no_tensors", "group_too_large", "invalid_index"}
Finished == status \in Errors \cup {"done"} /\ UNCHANGED vars

Next ==
  \/ \E spec \in TensorSpec : ScanTensor(spec)
  \/ FinishScan
  \/ OpenGroup
  \/ PlaceMember
  \/ GroupTooLarge
  \/ CloseGroup
  \/ Validate
  \/ Finished

Spec == Init /\ [][Next]_vars
-----------------------------------------------------------------------------
(***************************************************************************)
(* Properties.                                                             *)
(***************************************************************************)
MemberRecord ==
  [tensor_id: Nat, tensor: Nat \ {0}, rel_offset: Nat, size: Nat, dtype: Dtypes]
GroupRecord ==
  [group_id: Nat \X Nat, stage: Stages, expert: Experts \cup {NoExpert},
   file_id: Nat, offset: Nat, total_size: Nat, members: Seq(MemberRecord)]

(* Type invariant of the planner's state.                                  *)
TypeOK ==
  /\ source \in Sources
  /\ specs \in Seq(TensorSpec)
  /\ scale_due \in BOOLEAN
  /\ expert_groups \in [Homes -> Seq(Nat \ {0})]
  /\ stage_order \in Seq(Stages)
  /\ status \in {"scan", "place", "done"} \cup Errors
  /\ stage_idx \in Nat \ {0}
  /\ group_idx \in Nat
  /\ expert_id \in Experts \cup {NoExpert}
  /\ todo \subseteq Experts \cup {NoExpert}
  /\ pending \in Seq(Nat \ {0})
  /\ members \in Seq(MemberRecord)
  /\ cursor \in Nat /\ tensor_id \in Nat /\ file_id \in Nat /\ file_offset \in Nat
  /\ groups \in Seq(GroupRecord)

(* No two groups of the plan claim the same byte of a partition file, in   *)
(* whatever order stages, experts and rolls came: otherwise writing the    *)
(* later group would overwrite the earlier one.  validate_index does not   *)
(* check this; only the placement loop of plan_layout provides it.         *)
GroupsDisjoint ==
  \A i, j \in DOMAIN groups :
    i < j => \/ groups[i].file_id < groups[j].file_id
             \/ /\ groups[i].file_id = groups[j].file_id
                /\ groups[i].offset + groups[i].total_size <= groups[j].offset

(* validate_index accepts every plan of plan_layout (G1, G2, G5, packing)  *)
(* unless the checkpoint has a dtype the format does not know: conversion  *)
(* never fails validation because of a layout the planner chose itself.    *)
PlanAlwaysValid ==
  status = "invalid_index" =>
    \E t \in DOMAIN specs : specs[t].dtype \notin DTYPE_TOKENS

(* A finished plan stores every scanned tensor once and only once, in the  *)
(* group of its own expert or dense module (G4: all of one expert in one   *)
(* group), whatever the scan order interleaved.                            *)
Places(t) == {at \in (DOMAIN groups) \X (1 .. Len(specs)) :
                /\ at[2] \in DOMAIN groups[at[1]].members
                /\ groups[at[1]].members[at[2]].tensor = t}

EveryTensorPlacedOnce ==
  status = "done" =>
    \A t \in DOMAIN specs :
      /\ Cardinality(Places(t)) = 1
      /\ \A at \in Places(t) :
           <<groups[at[1]].stage, groups[at[1]].expert>> = Home(specs[t])

TensorAt(g, k) == specs[g.members[k].tensor]

WeightOf(g, k) ==
  {j \in DOMAIN g.members : /\ TensorAt(g, j).part = "weight"
                            /\ TensorAt(g, j).slot = TensorAt(g, k).slot}

ScaleFollowsItsWeight(g) ==
  \A k \in DOMAIN g.members :
    TensorAt(g, k).part = "aux" /\ WeightOf(g, k) # {} =>
      \E j \in WeightOf(g, k) :
        /\ j < k
        /\ \A x \in j + 1 .. k : /\ TensorAt(g, x).part = "aux"
                                 /\ TensorAt(g, x).slot = TensorAt(g, k).slot

InSlotOrder(g) ==
  (\A k \in DOMAIN g.members : Ranked(g.members[k].tensor)) =>
    \A a, b \in DOMAIN g.members :
      a < b => SlotRank(g.members[a].tensor) <= SlotRank(g.members[b].tensor)

ExpertGroups == {g \in Range(groups) : g.stage \in Layers}

QuantizedSlotsAdjacent ==
  source = "quantize" => \A g \in ExpertGroups : ScaleFollowsItsWeight(g)

SlotOrderKept == \A g \in ExpertGroups : InSlotOrder(g)

(* G3 and G4 for a store the converter quantizes: in every expert group    *)
(* the weights follow the slot table when all slots are known, and each    *)
(* scale stands right behind the weight of its slot, although sorting by   *)
(* slot rank moves the members and the scale has no rank of its own.       *)
MembersInSlotOrder == SlotOrderKept /\ QuantizedSlotsAdjacent

(* A group_id names one group, except in a last stage that is sparse: there *)
(* every expert gets the same end-of-pipeline id.  The rest of the pipeline *)
(* can be addressed by group_id.                                           *)
GroupIdsDistinct ==
  \A i, j \in DOMAIN groups :
    i # j /\ groups[i].group_id = groups[j].group_id =>
      /\ groups[i].stage = groups[j].stage
      /\ groups[i].stage = stage_order[Len(stage_order)]

(* Partition files are numbered contiguously from 0: the writer creates    *)
(* exactly store_data_0 .. store_data_N and no reader meets a gap.         *)
FilesContiguous ==
  groups # <<>> => {groups[i].file_id : i \in DOMAIN groups} = 0 .. file_id

(* Together: a reader of the plan meets every tensor of the checkpoint     *)
(* once, in the group and the file its record names, without gaps.         *)
PlanComplete == EveryTensorPlacedOnce /\ GroupIdsDistinct /\ FilesContiguous

(***************************************************************************)
(* The inductive invariant behind GroupsDisjoint and PlanAlwaysValid.      *)
(***************************************************************************)

(* Scan positions name scanned tensors; the experts left to place have a   *)
(* group, and the open group is that of one of them.                       *)
ScanInv ==
  /\ \A h \in Homes : \A k \in DOMAIN expert_groups[h] : expert_groups[h][k] \in DOMAIN specs
  /\ \A k \in DOMAIN pending : pending[k] \in DOMAIN specs
  /\ status \in {"scan", "no_tensors"} => todo = {} /\ pending = <<>> /\ members = <<>> /\ stage_idx = 1
  /\ pending # <<>> \/ members # <<>> => expert_id \in todo
  /\ todo # {} => stage_idx \in DOMAIN stage_order
  /\ \A e \in todo : /\ <<stage_order[stage_idx], e>> \in Homes
                     /\ expert_groups[<<stage_order[stage_idx], e>>] # <<>>

(* What a member record keeps of the tensor it places.                     *)
MemberOfSpec(m) == m.tensor \in DOMAIN specs /\ m.dtype = specs[m.tensor].dtype

(* Members of the open group are aligned, packed, and numbered up to        *)
(* tensor_id.                                                              *)
OpenGroupInv ==
  /\ \A k \in DOMAIN members :
       /\ members[k].rel_offset % MEMBER_ALIGNMENT_MIN = 0
       /\ k > 1 => members[k].rel_offset >= End(members[k - 1])
       /\ members[k].tensor_id = tensor_id - Len(members) + k - 1
       /\ MemberOfSpec(members[k])
  /\ members # <<>> => cursor = End(members[Len(members)])
  /\ tensor_id >= Len(members)

(* Placed groups are valid, end at or before the place where the next      *)
(* group goes, and are numbered up to the open group's first member.       *)
GroupsInv ==
  /\ file_offset % GROUP_ALIGNMENT = 0
  /\ \A i \in DOMAIN groups :
       /\ GroupValid(groups[i])
       /\ \/ groups[i].file_id < file_id
          \/ groups[i].file_id = file_id /\ groups[i].offset + groups[i].total_size <= file_offset
       /\ \A k \in DOMAIN groups[i].members : MemberOfSpec(groups[i].members[k])
  /\ IdsDense(groups)
  /\ IF groups = <<>> THEN tensor_id = Len(members)
     ELSE NextId(groups[Len(groups)]) = tensor_id - Len(members)
  /\ GroupsDisjoint

(* The planner's bookkeeping in every state of the scan and placement      *)
(* loops: cursors, tensor ids, file offsets and the groups built so far    *)
(* agree with one another.                                                 *)
LayoutInv == ScanInv /\ OpenGroupInv /\ GroupsInv
=============================================================================
