-------------------------- MODULE StoreLayout_proofs --------------------------
(***************************************************************************)
(* Proofs about StoreLayout, for every checkpoint, partition size and      *)
(* alignment.                                                              *)
(***************************************************************************)
EXTENDS StoreLayout, FiniteSetTheorems, TLAPS

(***************************************************************************)
(* Arithmetic of alignment.                                                *)
(***************************************************************************)

(* Division with remainder, in the form the prover can use.                *)
LEMMA DivMod ==
  ASSUME NEW x \in Nat, NEW a \in Nat \ {0}
  PROVE  x \div a \in Nat /\ x % a \in 0 .. a - 1 /\ x = a * (x \div a) + (x % a)
OBVIOUS

(* A multiple leaves no remainder.                                         *)
LEMMA MultipleMod ==
  ASSUME NEW q \in Nat, NEW a \in Nat \ {0}
  PROVE  (a * q) % a = 0
OBVIOUS

(* The sum of two multiples of a is a multiple of a: a group's end is a    *)
(* valid start for the next group.                                         *)
LEMMA SumAligned ==
  ASSUME NEW x \in Nat, NEW y \in Nat, NEW a \in Nat \ {0}, x % a = 0, y % a = 0
  PROVE  (x + y) % a = 0
<1> DEFINE q == x \div a
           r == y \div a
<1>1. x = a * q /\ y = a * r /\ q \in Nat /\ r \in Nat  BY DivMod
<1> HIDE DEF q, r
<1>2. x + y = a * (q + r) /\ q + r \in Nat  BY <1>1
<1> QED  BY <1>1, <1>2, MultipleMod

(* A multiple of a is a multiple of every divisor of a: member alignment   *)
(* implies the minimum alignment readers rely on.                          *)
LEMMA CoarserAligned ==
  ASSUME NEW x \in Nat, NEW a \in Nat \ {0}, NEW b \in Nat \ {0}, x % a = 0, a % b = 0
  PROVE  x % b = 0
<1> DEFINE q == x \div a
           r == a \div b
<1>1. x = a * q /\ a = b * r /\ q \in Nat /\ r \in Nat  BY DivMod
<1> HIDE DEF q, r
<1>2. x = b * (r * q) /\ r * q \in Nat  BY <1>1
<1> QED  BY <1>1, <1>2, MultipleMod

(* _align rounds up to a multiple of the alignment.                        *)
LEMMA AlignRoundsUp ==
  ASSUME NEW x \in Nat, NEW a \in Nat \ {0}
  PROVE  Align(x, a) \in Nat /\ Align(x, a) >= x /\ Align(x, a) % a = 0
<1> DEFINE q == x \div a
           r == x % a
<1>1. x = a * q + r /\ q \in Nat /\ r \in 0 .. a - 1  BY DivMod
<1>2. Align(x, a) = IF r = 0 THEN x ELSE x + (a - r)  BY DEF Align
<1>3. CASE r = 0  BY <1>2, <1>3
<1>4. CASE r # 0
  <2> HIDE DEF q, r
  <2>1. x + (a - r) = a * (q + 1) /\ q + 1 \in Nat  BY <1>1
  <2>2. (x + (a - r)) % a = 0  BY <2>1, MultipleMod
  <2> QED  BY <1>1, <1>2, <1>4, <2>2
<1> QED  BY <1>3, <1>4
-----------------------------------------------------------------------------
(* A home is a stage with an expert id, or a dense stage without.          *)
LEMMA HomeTypes ==
  ASSUME NEW h \in Homes
  PROVE  h[1] \in Stages /\ h[2] \in Experts \cup {NoExpert} /\ h = <<h[1], h[2]>>
BY DEF Homes, Stages

(* The experts of a stage have homes with a nonempty group.                *)
LEMMA ExpertsOfHomes ==
  ASSUME NEW stage, NEW e \in ExpertsOf(stage)
  PROVE  <<stage, e>> \in Homes /\ expert_groups[<<stage, e>>] # <<>> /\ e \in Experts \cup {NoExpert}
BY DEF ExpertsOf

TypeInv == TypeOK /\ ScanInv

(* The planner starts with empty collections and zero cursors.             *)
LEMMA InitTypeInv == Init => TypeInv
<1> SUFFICES ASSUME Init PROVE TypeInv  OBVIOUS
<1>1. TypeOK
  <2>1. expert_groups \in [Homes -> Seq(Nat \ {0})]  BY DEF Init
  <2>2. /\ specs \in Seq(TensorSpec) /\ stage_order \in Seq(Stages)
        /\ pending \in Seq(Nat \ {0}) /\ members \in Seq(MemberRecord)
        /\ groups \in Seq(GroupRecord)
        BY DEF Init
  <2>3. scale_due \in BOOLEAN /\ todo \subseteq Experts \cup {NoExpert}  BY DEF Init
  <2>4. source \in Sources /\ status \in {"scan", "place", "done"} \cup Errors
        BY DEF Init
  <2>5. /\ stage_idx \in Nat \ {0} /\ group_idx \in Nat /\ cursor \in Nat
        /\ tensor_id \in Nat /\ file_id \in Nat /\ file_offset \in Nat
        BY DEF Init
  <2>6. expert_id \in Experts \cup {NoExpert}  BY DEF Init
  <2> QED  BY <2>1, <2>2, <2>3, <2>4, <2>5, <2>6 DEF TypeOK
<1>2. ScanInv  BY DEF Init, ScanInv
<1> QED  BY <1>1, <1>2 DEF TypeInv

(* A scan step keeps types, and scan positions of groups stay in range.    *)
LEMMA ScanTensorTypeInv ==
  ASSUME TypeInv, NEW spec \in TensorSpec, ScanTensor(spec)
  PROVE  TypeInv'
<1> USE DEF TypeInv
<1> DEFINE h == Home(spec)
<1>1. h \in Homes /\ spec.stage \in Stages  BY DEF TensorSpec
<1>2. /\ specs' = Append(specs, spec)
      /\ scale_due' \in BOOLEAN
      /\ expert_groups' = [expert_groups EXCEPT ![h] = Append(@, Len(specs) + 1)]
      /\ stage_order' = IF spec.stage \in Range(stage_order)
                        THEN stage_order ELSE Append(stage_order, spec.stage)
      BY DEF ScanTensor, Collected
<1>u. UNCHANGED <<source, status, openVars, placeVars>>  BY DEF ScanTensor, Collected
<1> HIDE DEF h
<1>3. specs' \in Seq(TensorSpec) /\ Len(specs') = Len(specs) + 1
      BY <1>2 DEF TypeOK
<1>4. expert_groups' \in [Homes -> Seq(Nat \ {0})]
  <2>1. Len(specs) + 1 \in Nat \ {0}  BY DEF TypeOK
  <2>2. expert_groups \in [Homes -> Seq(Nat \ {0})] /\ expert_groups[h] \in Seq(Nat \ {0})
        BY <1>1 DEF TypeOK, h
  <2>3. Append(expert_groups[h], Len(specs) + 1) \in Seq(Nat \ {0})  BY <2>1, <2>2
  <2> QED  BY <1>2, <2>2, <2>3
<1>5. stage_order' \in Seq(Stages)  BY <1>1, <1>2 DEF TypeOK
<1>6. TypeOK'  BY <1>2, <1>u, <1>3, <1>4, <1>5 DEF TypeOK, openVars, placeVars
<1>7. ScanInv'
  <2>1. ASSUME NEW g \in Homes, NEW k \in DOMAIN expert_groups'[g]
        PROVE  expert_groups'[g][k] \in DOMAIN specs'
    <3>1. DOMAIN specs' = 1 .. Len(specs) + 1 /\ DOMAIN specs = 1 .. Len(specs) /\ Len(specs) \in Nat
          BY <1>3 DEF TypeOK
    <3>2. CASE g = h
      <4>1. expert_groups'[g] = Append(expert_groups[g], Len(specs) + 1)
            BY <1>1, <1>2, <3>2 DEF TypeOK
      <4>2. expert_groups[g] \in Seq(Nat \ {0})  BY DEF TypeOK
      <4>3. CASE k \in DOMAIN expert_groups[g]
            BY <4>1, <4>2, <4>3, <3>1 DEF ScanInv
      <4>4. CASE k = Len(expert_groups[g]) + 1
            BY <4>1, <4>2, <4>4, <3>1
      <4> QED  BY <2>1, <4>1, <4>2, <4>3, <4>4
    <3>3. CASE g # h
      <4>1. expert_groups'[g] = expert_groups[g]  BY <1>2, <3>3 DEF TypeOK
      <4> QED  BY <2>1, <4>1, <3>1 DEF ScanInv
    <3> QED  BY <3>2, <3>3
  <2>2. pending' = <<>> /\ todo' = {} /\ members' = <<>> /\ stage_idx' = 1
        BY <1>u DEF ScanTensor, Collected, ScanInv, openVars, placeVars
  <2> QED  BY <2>1, <2>2 DEF ScanInv
<1> QED  BY <1>6, <1>7

(* The placement loop starts with the experts of the first stage.          *)
LEMMA FinishScanTypeInv == TypeInv /\ FinishScan => TypeInv'
<1> SUFFICES ASSUME TypeInv, FinishScan PROVE TypeInv'  OBVIOUS
<1> USE DEF TypeInv
<1>1. pending = <<>> /\ members = <<>> /\ todo = {}  BY DEF FinishScan, ScanInv
<1>2. UNCHANGED <<specs, expert_groups, stage_order, pending, members, stage_idx>>
      BY DEF FinishScan, scanVars, openVars
<1>3. CASE stage_order = <<>>
      BY <1>1, <1>2, <1>3 DEF FinishScan, TypeOK, ScanInv, scanVars, openVars, Errors
<1>4. CASE stage_order # <<>>
  <2>1. status' = "place" /\ todo' = ExpertsOf(stage_order[1])  BY <1>4 DEF FinishScan
  <2>2. TypeOK'
        BY <2>1, ExpertsOfHomes DEF FinishScan, TypeOK, scanVars, openVars
  <2>3. stage_idx = 1  BY DEF FinishScan, ScanInv
  <2>4. 1 \in DOMAIN stage_order  BY <1>4 DEF TypeOK
  <2>5. ScanInv'
        BY <1>1, <1>2, <2>1, <2>3, <2>4, ExpertsOfHomes DEF ScanInv
  <2> QED  BY <2>2, <2>5
<1> QED  BY <1>3, <1>4

(* The tensors of an opened group are scan positions of its home.          *)
LEMMA OpenGroupTypeInv == TypeInv /\ OpenGroup => TypeInv'
<1> SUFFICES ASSUME TypeInv, OpenGroup PROVE TypeInv'  OBVIOUS
<1> USE DEF TypeInv
<1>1. PICK e \in todo :
        /\ expert_id' = e
        /\ LET stage == stage_order[stage_idx]
               ms    == expert_groups[<<stage, e>>]
           IN  \E p \in MemberOrders(stage, ms) :
                 pending' = [k \in DOMAIN ms |-> ms[p[k]]]
      BY DEF OpenGroup
<1> DEFINE stage == stage_order[stage_idx]
           ms    == expert_groups[<<stage, e>>]
<1>2. PICK p \in MemberOrders(stage, ms) : pending' = [k \in DOMAIN ms |-> ms[p[k]]]
      BY <1>1
<1>3. p \in [DOMAIN ms -> DOMAIN ms]  BY DEF MemberOrders
<1>4. <<stage, e>> \in Homes  BY DEF ScanInv
<1>5. ms \in Seq(Nat \ {0}) /\ \A k \in DOMAIN ms : ms[k] \in DOMAIN specs
      BY <1>4 DEF TypeOK, ScanInv
<1> HIDE DEF ms, stage
<1>6. pending' \in Seq(Nat \ {0}) /\ \A k \in DOMAIN pending' : pending'[k] \in DOMAIN specs
      BY <1>2, <1>3, <1>5
<1>7. UNCHANGED <<specs, expert_groups, stage_order, stage_idx, todo, members, status>>
      BY DEF OpenGroup, scanVars, placeVars
<1>8. TypeOK'
      BY <1>1, <1>6, <1>7 DEF OpenGroup, TypeOK, scanVars, placeVars
<1>9. ScanInv'  BY <1>6, <1>7 DEF ScanInv, OpenGroup
<1> QED  BY <1>8, <1>9

(* The size a placed tensor contributes is a natural number.               *)
LEMMA TensorTypes ==
  ASSUME TypeOK, NEW t \in DOMAIN specs
  PROVE  specs[t].size \in Nat /\ specs[t].dtype \in Dtypes
<1>1. specs[t] \in TensorSpec  BY DEF TypeOK
<1>2. specs[t].size \in Sizes /\ specs[t].dtype \in Dtypes  BY <1>1 DEF TensorSpec
<1> QED  BY <1>2, NameAssumption

(* Placing a member keeps types: offsets and sizes stay natural.           *)
LEMMA PlaceMemberTypeInv == TypeInv /\ PlaceMember => TypeInv'
<1> SUFFICES ASSUME TypeInv, PlaceMember PROVE TypeInv'  OBVIOUS
<1> USE DEF TypeInv
<1> DEFINE t   == Head(pending)
           rel == Align(cursor, MEMBER_ALIGNMENT)
           m   == [tensor_id |-> tensor_id, tensor |-> t, rel_offset |-> rel,
                   size |-> specs[t].size, dtype |-> specs[t].dtype]
<1>1. /\ members' = Append(members, m) /\ cursor' = rel + specs[t].size
      /\ tensor_id' = tensor_id + 1 /\ pending' = Tail(pending)
      BY DEF PlaceMember
<1>u. UNCHANGED <<scanVars, status, expert_id, placeVars>>  BY DEF PlaceMember
<1>2. pending # <<>> /\ pending \in Seq(Nat \ {0})  BY DEF PlaceMember, TypeOK
<1>3. t \in DOMAIN specs /\ t \in Nat \ {0}  BY <1>2 DEF ScanInv
<1>4. rel \in Nat  BY AlignRoundsUp, AlignmentAssumption DEF TypeOK
<1>5. specs[t].size \in Nat /\ specs[t].dtype \in Dtypes  BY <1>3, TensorTypes
<1> HIDE DEF t, rel
<1>6. m \in MemberRecord  BY <1>3, <1>4, <1>5 DEF MemberRecord, TypeOK
<1>7. pending' \in Seq(Nat \ {0}) /\ \A k \in DOMAIN pending' : pending'[k] \in DOMAIN specs
      BY <1>1, <1>2 DEF ScanInv
<1>8. TypeOK'
  <2>1. members' \in Seq(MemberRecord)  BY <1>1, <1>6 DEF TypeOK
  <2>2. tensor_id \in Nat  BY DEF TypeOK
  <2>3. tensor_id' \in Nat  BY <1>1, <2>2
  <2>4. cursor' \in Nat  BY <1>1, <1>4, <1>5
  <2> QED  BY <1>u, <1>7, <2>1, <2>3, <2>4 DEF TypeOK, scanVars, placeVars
<1>9. ScanInv'
      BY <1>u, <1>7 DEF ScanInv, PlaceMember, scanVars, placeVars
<1> QED  BY <1>8, <1>9

(* Closing a group keeps types, and moves on to experts that exist.        *)
LEMMA CloseGroupTypeInv == TypeInv /\ CloseGroup => TypeInv'
<1> SUFFICES ASSUME TypeInv, CloseGroup PROVE TypeInv'  OBVIOUS
<1> USE DEF TypeInv
<1> DEFINE total_size == Align(cursor, GROUP_ALIGNMENT)
           file   == IF Rolls(total_size) THEN file_id + 1 ELSE file_id
           offset == IF Rolls(total_size) THEN 0 ELSE file_offset
           rest   == todo \ {expert_id}
           g      == [group_id |-> GroupId, stage |-> stage_order[stage_idx],
                      expert |-> expert_id, file_id |-> file, offset |-> offset,
                      total_size |-> total_size, members |-> members]
<1>1. /\ groups' = Append(groups, g) /\ file_id' = file
      /\ file_offset' = offset + total_size /\ members' = <<>> /\ status = "place"
      /\ pending = <<>>
      BY DEF CloseGroup, NextOffset
<1>u. UNCHANGED <<scanVars, status, expert_id, pending, cursor, tensor_id>>  BY DEF CloseGroup, NextOffset
<1>2. total_size \in Nat  BY AlignRoundsUp, AlignmentAssumption DEF TypeOK
<1> HIDE DEF total_size
<1>3. file \in Nat /\ offset \in Nat  BY DEF TypeOK
<1> HIDE DEF file, offset
<1>4. stage_order[stage_idx] \in Stages
  <2>1. expert_id \in todo  BY DEF CloseGroup, NextOffset, ScanInv
  <2>2. stage_idx \in DOMAIN stage_order  BY <2>1 DEF ScanInv
  <2> QED  BY <2>2 DEF TypeOK
<1>5. GroupId \in Nat \X Nat  BY NameAssumption DEF GroupId, TypeOK
<1>6. g \in GroupRecord  BY <1>2, <1>3, <1>4, <1>5 DEF GroupRecord, TypeOK
<1>7. CASE rest = {} /\ stage_idx < Len(stage_order)
  <2>1. /\ stage_idx' = stage_idx + 1 /\ group_idx' = 0
        /\ todo' = ExpertsOf(stage_order[stage_idx + 1])
        BY <1>7 DEF CloseGroup, NextOffset
  <2>2. TypeOK'
    <3>1. stage_idx' \in Nat \ {0} /\ group_idx' \in Nat  BY <2>1 DEF TypeOK
    <3>2. todo' \subseteq Experts \cup {NoExpert}  BY <2>1, ExpertsOfHomes
    <3>3. groups' \in Seq(GroupRecord) /\ members' \in Seq(MemberRecord)
          BY <1>1, <1>6 DEF TypeOK
    <3>4. file_id' \in Nat /\ file_offset' \in Nat  BY <1>1, <1>2, <1>3
    <3> QED  BY <1>u, <3>1, <3>2, <3>3, <3>4 DEF TypeOK, scanVars
  <2>3. stage_idx + 1 \in DOMAIN stage_order  BY <1>7 DEF TypeOK
  <2>4. ScanInv'  BY <1>1, <1>u, <2>1, <2>3, ExpertsOfHomes DEF ScanInv, scanVars
  <2> QED  BY <2>2, <2>4
<1>8. CASE ~(rest = {} /\ stage_idx < Len(stage_order))
  <2>1. stage_idx' = stage_idx /\ group_idx' = group_idx + 1 /\ todo' = rest
        BY <1>8 DEF CloseGroup, NextOffset
  <2>2. TypeOK'  BY <1>1, <1>u, <1>2, <1>3, <1>6, <2>1 DEF TypeOK, scanVars
  <2>4. ScanInv'  BY <1>1, <1>u, <2>1 DEF ScanInv, scanVars
  <2> QED  BY <2>2, <2>4
<1> QED  BY <1>7, <1>8

(* GroupTooLarge, Validate and Finished only change the status.            *)
LEMMA StatusStepTypeInv == TypeInv /\ (GroupTooLarge \/ Validate) => TypeInv'
<1> SUFFICES ASSUME TypeInv, GroupTooLarge \/ Validate PROVE TypeInv'  OBVIOUS
<1>1. UNCHANGED <<scanVars, openVars, placeVars>> /\ status = "place"
      BY DEF GroupTooLarge, Validate
<1>2. status' \in {"done"} \cup Errors /\ status' \notin {"scan", "no_tensors"}
      BY DEF GroupTooLarge, Validate, Errors
<1>3. TypeOK'  BY <1>1, <1>2 DEF TypeInv, TypeOK, scanVars, openVars, placeVars
<1>4. ScanInv'  BY <1>1, <1>2 DEF TypeInv, ScanInv, scanVars, openVars, placeVars
<1> QED  BY <1>3, <1>4 DEF TypeInv

(* A stuttering step keeps types.                                          *)
LEMMA StutterTypeInv == TypeInv /\ UNCHANGED vars => TypeInv'
BY DEF TypeInv, TypeOK, ScanInv, vars, scanVars, openVars, placeVars

(* Every step of the planner keeps types.                                  *)
LEMMA NextTypeInv == TypeInv /\ [Next]_vars => TypeInv'
<1> SUFFICES ASSUME TypeInv, [Next]_vars PROVE TypeInv'  OBVIOUS
<1>1. CASE \E spec \in TensorSpec : ScanTensor(spec)  BY <1>1, ScanTensorTypeInv
<1>2. CASE FinishScan  BY <1>2, FinishScanTypeInv
<1>3. CASE OpenGroup  BY <1>3, OpenGroupTypeInv
<1>4. CASE PlaceMember  BY <1>4, PlaceMemberTypeInv
<1>5. CASE GroupTooLarge \/ Validate  BY <1>5, StatusStepTypeInv
<1>6. CASE CloseGroup  BY <1>6, CloseGroupTypeInv
<1>7. CASE Finished \/ UNCHANGED vars  BY <1>7, StutterTypeInv DEF Finished
<1> QED  BY <1>1, <1>2, <1>3, <1>4, <1>5, <1>6, <1>7 DEF Next

(* The planner's variables keep their types; in particular no action reads *)
(* a scan position, stage or home that does not exist.                     *)
THEOREM TypeCorrect == Spec => []TypeOK
<1>1. TypeInv => TypeOK  BY DEF TypeInv
<1> QED  BY <1>1, InitTypeInv, NextTypeInv, PTL DEF Spec

(* Types hold throughout, with the bookkeeping of the scan.                *)
LEMMA TypeInvariant == Spec => []TypeInv
BY InitTypeInv, NextTypeInv, PTL DEF Spec
-----------------------------------------------------------------------------
(***************************************************************************)
(* The layout itself.                                                      *)
(***************************************************************************)
(* Scanning more tensors does not change what a placed member refers to.   *)
LEMMA ScanKeepsMembers ==
  ASSUME TypeOK, NEW spec \in TensorSpec, ScanTensor(spec), NEW m, MemberOfSpec(m)
  PROVE  MemberOfSpec(m)'
<1>1. specs' = Append(specs, spec) /\ specs \in Seq(TensorSpec)  BY DEF ScanTensor, Collected, TypeOK
<1>2. m.tensor \in DOMAIN specs /\ m.dtype = specs[m.tensor].dtype  BY DEF MemberOfSpec
<1>3. m.tensor \in DOMAIN specs' /\ specs'[m.tensor] = specs[m.tensor]  BY <1>1, <1>2
<1> QED  BY <1>2, <1>3 DEF MemberOfSpec

(* Scanning does not disturb the layout of placed members and groups.      *)
LEMMA ScanLayout ==
  ASSUME TypeInv, OpenGroupInv, GroupsInv, NEW spec \in TensorSpec, ScanTensor(spec)
  PROVE  OpenGroupInv' /\ GroupsInv'
<1>1. UNCHANGED <<members, cursor, tensor_id, file_id, file_offset, groups>>
      BY DEF ScanTensor, Collected, openVars, placeVars
<1>2. \A m : MemberOfSpec(m) => MemberOfSpec(m)'  BY ScanKeepsMembers DEF TypeInv
<1>3. OpenGroupInv'  BY <1>1, <1>2 DEF OpenGroupInv, End
<1>4. GroupsInv'
  <2>1. GroupsDisjoint' /\ IdsDense(groups')
        BY <1>1 DEF GroupsInv, GroupsDisjoint
  <2> QED  BY <1>1, <1>2, <2>1 DEF GroupsInv, GroupValid, NextId, End
<1> QED  BY <1>3, <1>4

(* FinishScan, OpenGroup and the status steps leave the layout alone; only *)
(* OpenGroup resets the cursor, when no group is open.                     *)
LEMMA FrameLayout ==
  ASSUME OpenGroupInv, GroupsInv,
         UNCHANGED <<specs, members, tensor_id, file_id, file_offset, groups>>,
         UNCHANGED cursor \/ members = <<>>
  PROVE  OpenGroupInv' /\ GroupsInv'
<1>1. \A m : MemberOfSpec(m)' <=> MemberOfSpec(m)  BY DEF MemberOfSpec
<1>2. OpenGroupInv'  BY <1>1 DEF OpenGroupInv, End
<1>3. GroupsDisjoint' /\ IdsDense(groups')  BY DEF GroupsInv, GroupsDisjoint
<1>4. GroupsInv'  BY <1>1, <1>3 DEF GroupsInv, GroupValid, NextId, End
<1> QED  BY <1>2, <1>4

(* A placed member is aligned and starts after the one before it.          *)
LEMMA PlaceMemberLayout ==
  ASSUME TypeInv, OpenGroupInv, GroupsInv, PlaceMember
  PROVE  OpenGroupInv' /\ GroupsInv'
<1> DEFINE t   == Head(pending)
           rel == Align(cursor, MEMBER_ALIGNMENT)
           m   == [tensor_id |-> tensor_id, tensor |-> t, rel_offset |-> rel,
                   size |-> specs[t].size, dtype |-> specs[t].dtype]
<1>1. /\ members' = Append(members, m) /\ cursor' = rel + specs[t].size
      /\ tensor_id' = tensor_id + 1
      BY DEF PlaceMember
<1>2. UNCHANGED <<specs, file_id, file_offset, groups>>
      BY DEF PlaceMember, scanVars, placeVars
<1>3. /\ members \in Seq(MemberRecord) /\ Len(members) \in Nat
      /\ tensor_id \in Nat /\ cursor \in Nat
      BY DEF TypeInv, TypeOK
<1>4. rel \in Nat /\ rel >= cursor /\ rel % MEMBER_ALIGNMENT = 0
      BY <1>3, AlignRoundsUp, AlignmentAssumption
<1> HIDE DEF rel
<1>5. rel % MEMBER_ALIGNMENT_MIN = 0  BY <1>4, CoarserAligned, AlignmentAssumption
<1>6. t \in DOMAIN specs  BY DEF TypeInv, TypeOK, ScanInv, PlaceMember
<1> HIDE DEF t
<1>7. \A x : MemberOfSpec(x)' <=> MemberOfSpec(x)  BY <1>2 DEF MemberOfSpec
<1>m. MemberOfSpec(m)  BY <1>6 DEF MemberOfSpec
<1>8. Len(members') = Len(members) + 1 /\ members'[Len(members) + 1] = m
      BY <1>1, <1>3
<1>9. \A k \in DOMAIN members : k \in DOMAIN members' /\ members'[k] = members[k]
      BY <1>1, <1>3
<1>10. \A k \in DOMAIN members' : k \in DOMAIN members \/ k = Len(members) + 1
      BY <1>1, <1>3
<1>11. ASSUME NEW k \in DOMAIN members'
       PROVE  /\ members'[k].rel_offset % MEMBER_ALIGNMENT_MIN = 0
              /\ k > 1 => members'[k].rel_offset >= End(members'[k - 1])
              /\ members'[k].tensor_id = tensor_id' - Len(members') + k - 1
              /\ MemberOfSpec(members'[k])
  <2>1. CASE k \in DOMAIN members
    <3>1. k > 1 => k - 1 \in DOMAIN members /\ members'[k - 1] = members[k - 1]
          BY <1>3, <1>9, <2>1
    <3>2. members[k].tensor_id = tensor_id - Len(members) + k - 1  BY <2>1 DEF OpenGroupInv
    <3>3. k \in Nat  BY <1>3, <2>1
    <3>4. members'[k].tensor_id = tensor_id' - Len(members') + k - 1
          BY <1>1, <1>3, <1>8, <1>9, <2>1, <3>2, <3>3
    <3> QED  BY <1>9, <2>1, <3>1, <3>4 DEF OpenGroupInv
  <2>2. CASE k = Len(members) + 1
    <3>1. members'[k] = m  BY <1>8, <2>2
    <3>2. k > 1 => members'[k - 1] = members[Len(members)] /\ members # <<>>
          BY <1>3, <1>9, <2>2
    <3>3. k > 1 => cursor = End(members'[k - 1])  BY <3>2 DEF OpenGroupInv
    <3>4. members'[k].tensor_id = tensor_id' - Len(members') + k - 1
          BY <1>1, <1>3, <1>8, <2>2, <3>1
    <3> QED  BY <1>4, <1>5, <1>m, <3>1, <3>3, <3>4
  <2> QED  BY <1>10, <2>1, <2>2
<1>12. cursor' = End(members'[Len(members')])  BY <1>1, <1>8 DEF End
<1>13. tensor_id' >= Len(members')  BY <1>1, <1>3, <1>8 DEF OpenGroupInv
<1>14. OpenGroupInv'
      BY <1>2, <1>11, <1>12, <1>13 DEF OpenGroupInv, MemberOfSpec, End
<1>15. GroupsInv'
  <2>1. tensor_id' - Len(members') = tensor_id - Len(members)  BY <1>1, <1>3, <1>8
  <2>2. tensor_id = Len(members) => tensor_id' = Len(members')  BY <1>1, <1>3, <1>8
  <2>3. GroupsDisjoint' /\ IdsDense(groups')  BY <1>2 DEF GroupsInv, GroupsDisjoint
  <2> QED  BY <1>2, <1>7, <2>1, <2>2, <2>3 DEF GroupsInv, GroupValid, NextId, End
<1> QED  BY <1>14, <1>15

(* A closed group is valid and starts at or after the end of the last.     *)
LEMMA CloseGroupLayout ==
  ASSUME TypeInv, OpenGroupInv, GroupsInv, CloseGroup
  PROVE  OpenGroupInv' /\ GroupsInv'
<1> DEFINE total_size == Align(cursor, GROUP_ALIGNMENT)
           file   == IF Rolls(total_size) THEN file_id + 1 ELSE file_id
           offset == IF Rolls(total_size) THEN 0 ELSE file_offset
           g      == [group_id |-> GroupId, stage |-> stage_order[stage_idx],
                      expert |-> expert_id, file_id |-> file, offset |-> offset,
                      total_size |-> total_size, members |-> members]
<1>1. /\ groups' = Append(groups, g) /\ file_id' = file
      /\ file_offset' = offset + total_size /\ members' = <<>>
      /\ members # <<>> /\ total_size <= PARTITION_SIZE
      BY DEF CloseGroup, NextOffset
<1>u. UNCHANGED <<specs, cursor, tensor_id>>  BY DEF CloseGroup, NextOffset, scanVars
<1>2. /\ cursor \in Nat /\ file_id \in Nat /\ file_offset \in Nat /\ tensor_id \in Nat
      /\ members \in Seq(MemberRecord) /\ Len(members) \in Nat \ {0}
      /\ groups \in Seq(GroupRecord) /\ Len(groups) \in Nat
      BY <1>1 DEF TypeInv, TypeOK
<1>3. total_size \in Nat /\ total_size >= cursor /\ total_size % GROUP_ALIGNMENT = 0
      BY <1>2, AlignRoundsUp, AlignmentAssumption
<1> HIDE DEF total_size
<1>4. /\ offset \in Nat /\ file \in Nat
      /\ offset % GROUP_ALIGNMENT = 0
      /\ offset + total_size <= PARTITION_SIZE
      /\ \/ file = file_id /\ offset = file_offset
         \/ file = file_id + 1 /\ offset = 0
  <2>1. 0 % GROUP_ALIGNMENT = 0  BY AlignmentAssumption
  <2> QED  BY <1>1, <1>2, <1>3, <2>1, AlignmentAssumption DEF GroupsInv, Rolls
<1> HIDE DEF file, offset
<1>5. (offset + total_size) % GROUP_ALIGNMENT = 0
      BY <1>3, <1>4, SumAligned, AlignmentAssumption
<1>6. /\ g.members = members /\ g.offset = offset /\ g.total_size = total_size
      /\ g.file_id = file
      OBVIOUS
<1> HIDE DEF g
<1>7. GroupValid(g)
      BY <1>1, <1>3, <1>4, <1>6 DEF GroupValid, OpenGroupInv
<1>8. FirstId(g) = tensor_id - Len(members) /\ NextId(g) = tensor_id
  <2>1. 1 \in DOMAIN members /\ Len(members) \in DOMAIN members  BY <1>2
  <2>2. /\ members[1].tensor_id = tensor_id - Len(members) + 1 - 1
        /\ members[Len(members)].tensor_id = tensor_id - Len(members) + Len(members) - 1
        BY <2>1 DEF OpenGroupInv
  <2> QED  BY <1>2, <1>6, <2>2 DEF FirstId, NextId
<1>9. \A k \in DOMAIN g.members : g.members[k].tensor_id = FirstId(g) + k - 1
      BY <1>6, <1>8 DEF OpenGroupInv
<1>10. /\ DOMAIN groups' = 1 .. Len(groups) + 1 /\ DOMAIN groups = 1 .. Len(groups)
       /\ Len(groups') = Len(groups) + 1
       /\ groups'[Len(groups) + 1] = g
       /\ \A i \in DOMAIN groups : groups'[i] = groups[i]
       BY <1>1, <1>2
<1>11. OpenGroupInv'
  <2>1. members' = <<>> /\ Len(members') = 0 /\ DOMAIN members' = {}  BY <1>1
  <2> QED  BY <1>2, <1>u, <2>1 DEF OpenGroupInv
<1>12. ASSUME NEW i \in DOMAIN groups'
       PROVE  /\ GroupValid(groups'[i])
              /\ \/ groups'[i].file_id < file_id'
                 \/ /\ groups'[i].file_id = file_id'
                    /\ groups'[i].offset + groups'[i].total_size <= file_offset'
              /\ \A k \in DOMAIN groups'[i].members : MemberOfSpec(groups'[i].members[k])
  <2>1. CASE i \in DOMAIN groups
    <3>1. groups'[i] = groups[i] /\ groups[i] \in GroupRecord  BY <1>2, <1>10, <2>1
    <3>2. /\ groups[i].file_id \in Nat /\ groups[i].offset \in Nat
          /\ groups[i].total_size \in Nat
          BY <3>1 DEF GroupRecord
    <3>3. \/ groups[i].file_id < file_id
          \/ /\ groups[i].file_id = file_id
             /\ groups[i].offset + groups[i].total_size <= file_offset
          BY <2>1 DEF GroupsInv
    <3>4. \/ groups'[i].file_id < file_id'
          \/ /\ groups'[i].file_id = file_id'
             /\ groups'[i].offset + groups'[i].total_size <= file_offset'
      <4>1. CASE file = file_id /\ offset = file_offset
        <5>1. file_id' = file_id /\ file_offset' = file_offset + total_size
              BY <1>1, <4>1
        <5> QED  BY <1>2, <1>3, <3>1, <3>2, <3>3, <5>1
      <4>2. CASE file = file_id + 1
        <5>1. file_id' = file_id + 1  BY <1>1, <4>2
        <5> QED  BY <1>2, <3>1, <3>2, <3>3, <5>1
      <4> QED  BY <1>4, <4>1, <4>2
    <3> QED  BY <2>1, <3>1, <3>4 DEF GroupsInv
  <2>2. CASE i = Len(groups) + 1
    <3>1. groups'[i] = g  BY <1>10, <2>2
    <3>2. \A k \in DOMAIN g.members : MemberOfSpec(g.members[k])  BY <1>6 DEF OpenGroupInv
    <3>3. g.offset + g.total_size <= file_offset' /\ g.file_id = file_id'
          BY <1>1, <1>3, <1>4, <1>6
    <3> QED  BY <1>7, <3>1, <3>2, <3>3
  <2> QED  BY <1>10, <2>1, <2>2
<1>13. GroupsDisjoint'
  <2>1. ASSUME NEW i \in DOMAIN groups', NEW j \in DOMAIN groups', i < j
        PROVE  \/ groups'[i].file_id < groups'[j].file_id
               \/ /\ groups'[i].file_id = groups'[j].file_id
                  /\ groups'[i].offset + groups'[i].total_size <= groups'[j].offset
    <3>1. i \in DOMAIN groups /\ groups'[i] = groups[i]  BY <1>2, <1>10, <2>1
    <3>2. CASE j \in DOMAIN groups
          BY <1>10, <2>1, <3>1, <3>2 DEF GroupsInv, GroupsDisjoint
    <3>3. CASE j = Len(groups) + 1
      <4>1. groups'[j] = g  BY <1>10, <3>3
      <4>2. \/ groups[i].file_id < file_id
            \/ /\ groups[i].file_id = file_id
               /\ groups[i].offset + groups[i].total_size <= file_offset
            BY <3>1 DEF GroupsInv
      <4>3. groups[i] \in GroupRecord  BY <1>2, <3>1
      <4>4. groups[i].file_id \in Nat  BY <4>3 DEF GroupRecord
      <4> QED  BY <1>2, <1>4, <1>6, <3>1, <4>1, <4>2, <4>4
    <3> QED  BY <1>10, <3>2, <3>3
  <2> QED  BY <2>1 DEF GroupsDisjoint
<1>14. IdsDense(groups')
  <2>1. groups # <<>> => groups'[1] = groups[1]  BY <1>2, <1>10
  <2>2. groups = <<>> => groups'[1] = g /\ tensor_id = Len(members)
        BY <1>2, <1>10 DEF GroupsInv
  <2>3. FirstId(groups'[1]) = 0  BY <1>2, <1>8, <2>1, <2>2 DEF GroupsInv, IdsDense
  <2>4. ASSUME NEW i \in DOMAIN groups', i > 1
        PROVE  FirstId(groups'[i]) = NextId(groups'[i - 1])
    <3>1. CASE i \in DOMAIN groups
      <4>1. i - 1 \in DOMAIN groups  BY <1>10, <2>4, <3>1
      <4> QED  BY <1>10, <2>4, <3>1, <4>1 DEF GroupsInv, IdsDense
    <3>2. CASE i = Len(groups) + 1
      <4>1. groups # <<>> /\ i - 1 = Len(groups) /\ Len(groups) \in DOMAIN groups
            BY <1>2, <1>10, <2>4, <3>2
      <4>2. NextId(groups[Len(groups)]) = tensor_id - Len(members)
            BY <4>1 DEF GroupsInv
      <4> QED  BY <1>8, <1>10, <3>2, <4>1, <4>2
    <3> QED  BY <1>10, <3>1, <3>2
  <2>5. ASSUME NEW i \in DOMAIN groups', NEW k \in DOMAIN groups'[i].members
        PROVE  groups'[i].members[k].tensor_id = FirstId(groups'[i]) + k - 1
    <3>1. CASE i \in DOMAIN groups
          BY <1>10, <2>5, <3>1 DEF GroupsInv, IdsDense
    <3>2. CASE i = Len(groups) + 1  BY <1>9, <1>10, <2>5, <3>2
    <3> QED  BY <1>10, <3>1, <3>2
  <2> QED  BY <2>3, <2>4, <2>5 DEF IdsDense
<1>15. GroupsInv'
  <2>1. file_offset' % GROUP_ALIGNMENT = 0  BY <1>1, <1>5
  <2>2. groups' # <<>> /\ NextId(groups'[Len(groups')]) = tensor_id' - Len(members')
    <3>1. groups' # <<>> /\ NextId(groups'[Len(groups')]) = tensor_id
          BY <1>1, <1>2, <1>8, <1>10
    <3>2. Len(members') = 0  BY <1>1
    <3> QED  BY <1>2, <1>u, <3>1, <3>2
  <2>3. \A x : MemberOfSpec(x)' <=> MemberOfSpec(x)  BY <1>u DEF MemberOfSpec
  <2>4. IdsDense(groups)'  BY <1>14
  <2> QED  BY <1>u, <1>12, <1>13, <2>1, <2>2, <2>4 DEF GroupsInv, MemberOfSpec
<1> QED  BY <1>11, <1>15
-----------------------------------------------------------------------------
(* Everything validate_index checks, except the dtypes, follows from the    *)
(* invariant of the placement loop.                                        *)
LEMMA OnlyDtypesCanFail ==
  ASSUME GroupsInv, ~Valid(groups)
  PROVE  \E t \in DOMAIN specs : specs[t].dtype \notin DTYPE_TOKENS
<1>1. ~DtypesKnown(groups)  BY DEF Valid, GroupsInv
<1>2. PICK i \in DOMAIN groups :
        \E k \in DOMAIN groups[i].members : groups[i].members[k].dtype \notin DTYPE_TOKENS
      BY <1>1 DEF DtypesKnown
<1>k. PICK k \in DOMAIN groups[i].members : groups[i].members[k].dtype \notin DTYPE_TOKENS
      BY <1>2
<1>3. MemberOfSpec(groups[i].members[k])  BY DEF GroupsInv
<1> QED  BY <1>k, <1>3 DEF MemberOfSpec

IndInv == TypeInv /\ OpenGroupInv /\ GroupsInv /\ PlanAlwaysValid

(* The inductive invariant holds initially.                                *)
LEMMA InitIndInv == Init => IndInv
<1> SUFFICES ASSUME Init PROVE IndInv  OBVIOUS
<1>1. OpenGroupInv  BY DEF Init, OpenGroupInv
<1>2. 0 % GROUP_ALIGNMENT = 0  BY AlignmentAssumption
<1>3. GroupsInv  BY <1>2 DEF Init, GroupsInv, IdsDense, GroupsDisjoint
<1>4. PlanAlwaysValid  BY DEF Init, PlanAlwaysValid
<1> QED  BY <1>1, <1>3, <1>4, InitTypeInv DEF IndInv

(* Every step of the planner preserves the inductive invariant.            *)
LEMMA NextIndInv == IndInv /\ [Next]_vars => IndInv'
<1> SUFFICES ASSUME IndInv, [Next]_vars PROVE IndInv'  OBVIOUS
<1> USE DEF IndInv
<1>t. TypeInv'  BY NextTypeInv
<1>1. ASSUME NEW spec \in TensorSpec, ScanTensor(spec) PROVE IndInv'
  <2>1. PlanAlwaysValid'  BY <1>1 DEF ScanTensor, Collected, PlanAlwaysValid
  <2> QED  BY <1>t, <1>1, <2>1, ScanLayout
<1>2. CASE FinishScan \/ OpenGroup
  <2>1. /\ UNCHANGED <<specs, members, tensor_id, file_id, file_offset, groups>>
        /\ UNCHANGED cursor \/ members = <<>>
        /\ status' # "invalid_index"
        BY <1>2 DEF FinishScan, OpenGroup, scanVars, openVars, placeVars
  <2>2. PlanAlwaysValid'  BY <2>1 DEF PlanAlwaysValid
  <2> QED  BY <1>t, <2>1, <2>2, FrameLayout
<1>3. CASE PlaceMember
  <2>1. PlanAlwaysValid'  BY <1>3 DEF PlaceMember, PlanAlwaysValid
  <2> QED  BY <1>t, <1>3, <2>1, PlaceMemberLayout
<1>4. CASE CloseGroup
  <2>1. PlanAlwaysValid'  BY <1>4 DEF CloseGroup, NextOffset, PlanAlwaysValid
  <2> QED  BY <1>t, <1>4, <2>1, CloseGroupLayout
<1>5. CASE GroupTooLarge \/ Validate
  <2>1. UNCHANGED <<specs, cursor, members, tensor_id, file_id, file_offset, groups>>
        BY <1>5 DEF GroupTooLarge, Validate, scanVars, openVars, placeVars
  <2>2. status' = "invalid_index" => ~Valid(groups)  BY <1>5 DEF GroupTooLarge, Validate
  <2>3. PlanAlwaysValid'  BY <2>1, <2>2, OnlyDtypesCanFail DEF PlanAlwaysValid
  <2> QED  BY <1>t, <2>1, <2>3, FrameLayout
<1>6. CASE Finished \/ UNCHANGED vars
  <2>1. /\ UNCHANGED <<specs, cursor, members, tensor_id, file_id, file_offset, groups>>
        /\ UNCHANGED status
        BY <1>6 DEF Finished, vars, scanVars, openVars, placeVars
  <2>2. PlanAlwaysValid'  BY <2>1 DEF PlanAlwaysValid
  <2> QED  BY <1>t, <2>1, <2>2, FrameLayout
<1> QED  BY <1>1, <1>2, <1>3, <1>4, <1>5, <1>6 DEF Next

(* The inductive invariant holds throughout plan_layout.                   *)
LEMMA IndInvariant == Spec => []IndInv
BY InitIndInv, NextIndInv, PTL DEF Spec

(* The planner's cursors, ids, offsets and groups agree in every state of  *)
(* plan_layout, for every checkpoint, alignment and partition size.        *)
THEOREM LayoutConsistent == Spec => []LayoutInv
<1>1. IndInv => LayoutInv  BY DEF IndInv, TypeInv, LayoutInv
<1> QED  BY <1>1, IndInvariant, PTL

(* No two groups of a plan share a byte of a partition file, for every     *)
(* checkpoint, alignment and partition size.                               *)
THEOREM NoTwoGroupsOverlap == Spec => []GroupsDisjoint
<1>1. IndInv => GroupsDisjoint  BY DEF IndInv, GroupsInv
<1> QED  BY <1>1, IndInvariant, PTL

(* validate_index rejects a plan of plan_layout only for an unknown dtype. *)
THEOREM PlannerMeetsValidator == Spec => []PlanAlwaysValid
<1>1. IndInv => PlanAlwaysValid  BY DEF IndInv
<1> QED  BY <1>1, IndInvariant, PTL

-----------------------------------------------------------------------------
(***************************************************************************)
(* The plan as a whole.  The invariant says what the collection of the     *)
(* scan, the open group and the group table are to each other.             *)
(***************************************************************************)
(* The tensors of a home, in scan order.                                   *)
Tensors(stage, e) == expert_groups[<<stage, e>>]

(* The scan sorts the positions of the checkpoint by home; every stage it  *)
(* met has experts to place.                                               *)
CollectInv ==
  /\ \A h \in Homes :
       /\ Len(expert_groups[h]) <= Len(specs)
       /\ expert_groups[h] # <<>> => h[1] \in Range(stage_order)
       /\ \A k \in DOMAIN expert_groups[h] : Home(specs[expert_groups[h][k]]) = h
       /\ \A j, k \in DOMAIN expert_groups[h] :
            j < k => expert_groups[h][j] < expert_groups[h][k]
  /\ \A t \in DOMAIN specs : t \in Range(expert_groups[Home(specs[t])])
  /\ \A i, j \in DOMAIN stage_order : stage_order[i] = stage_order[j] => i = j
  /\ \A i \in DOMAIN stage_order : ExpertsOf(stage_order[i]) # {}

(* A scale of a quantized checkpoint was scanned right behind its weight.  *)
ScaleInv ==
  source = "quantize" =>
    /\ scale_due => specs # <<>> /\ Quantizable(specs[Len(specs)])
    /\ \A t \in DOMAIN specs : specs[t].part = "aux" =>
         /\ t - 1 \in DOMAIN specs
         /\ specs[t - 1].part = "weight"
         /\ Home(specs[t - 1]) = Home(specs[t])
         /\ specs[t - 1].slot = specs[t].slot

(* The members ms followed by the tensors rest are the tensors of a group, *)
(* in one of its orders.                                                   *)
Arranges(p, stage, e, ms, rest) ==
  /\ p \in MemberOrders(stage, Tensors(stage, e))
  /\ Len(ms) + Len(rest) = Len(Tensors(stage, e))
  /\ \A k \in DOMAIN ms : ms[k].tensor = Tensors(stage, e)[p[k]]
  /\ \A k \in DOMAIN rest : rest[k] = Tensors(stage, e)[p[Len(ms) + k]]

(* Placement goes through the stages in order; the open group is the next  *)
(* one of its stage, in slot order.                                        *)
ProgressInv ==
  /\ status \in {"scan", "no_tensors"} => groups = <<>>
  /\ status \notin {"scan", "no_tensors"} =>
       /\ stage_idx \in DOMAIN stage_order
       /\ todo = {} => stage_idx = Len(stage_order)
  /\ status \in {"done", "invalid_index"} => todo = {}
  /\ pending # <<>> \/ members # <<>> =>
       \E p : Arranges(p, stage_order[stage_idx], expert_id, members, pending)

(* The group table has one group for each expert placed so far, with all   *)
(* its tensors.                                                            *)
IsPlaced(n, e) == n \in 1 .. stage_idx /\ (n = stage_idx => e \notin todo)

PlacedInv ==
  status \notin {"scan", "no_tensors"} =>
    /\ \A i \in DOMAIN groups :
         /\ groups[i].group_id[2] \in DOMAIN stage_order
         /\ groups[i].stage = stage_order[groups[i].group_id[2]]
         /\ groups[i].expert \in ExpertsOf(groups[i].stage)
         /\ IsPlaced(groups[i].group_id[2], groups[i].expert)
         /\ \E p : Arranges(p, groups[i].stage, groups[i].expert, groups[i].members, <<>>)
    /\ \A i, j \in DOMAIN groups :
         groups[i].stage = groups[j].stage /\ groups[i].expert = groups[j].expert => i = j
    /\ \A n \in DOMAIN stage_order : \A e \in ExpertsOf(stage_order[n]) : IsPlaced(n, e) =>
         \E i \in DOMAIN groups : groups[i].stage = stage_order[n] /\ groups[i].expert = e

(* Ids are given in order within a stage, except in the last.              *)
IdsInv ==
  /\ \A i \in DOMAIN groups :
       groups[i].group_id[2] = stage_idx /\ stage_idx # Len(stage_order) =>
         groups[i].group_id[1] < group_idx
  /\ \A i, j \in DOMAIN groups :
       i # j /\ groups[i].group_id = groups[j].group_id =>
         groups[i].group_id[2] = Len(stage_order)

(* Files are begun one after the other, the first with the first group.    *)
FilesInv ==
  /\ groups = <<>> => file_id = 0 /\ file_offset = 0
  /\ FilesContiguous

(* The first tensor, stage and group are still to come.                    *)
LEMMA InitPlan == Init => CollectInv /\ ScaleInv /\ ProgressInv /\ PlacedInv /\ IdsInv /\ FilesInv
<1> SUFFICES ASSUME Init
             PROVE  CollectInv /\ ScaleInv /\ ProgressInv /\ PlacedInv /\ IdsInv /\ FilesInv
    OBVIOUS
<1>1. \A h \in Homes : expert_groups[h] = <<>>  BY DEF Init
<1>2. specs = <<>> /\ stage_order = <<>> /\ groups = <<>>  BY DEF Init
<1>3. CollectInv  BY <1>1, <1>2 DEF CollectInv
<1>4. ScaleInv  BY <1>2 DEF Init, ScaleInv
<1>5. ProgressInv /\ PlacedInv /\ IdsInv
      BY <1>2 DEF Init, ProgressInv, PlacedInv, IdsInv
<1>6. FilesInv  BY <1>2 DEF Init, FilesInv, FilesContiguous
<1> QED  BY <1>3, <1>4, <1>5, <1>6

(* A scanned tensor goes to the end of its own home, and of no other.      *)
LEMMA ScanCollect ==
  ASSUME TypeInv, CollectInv, NEW spec \in TensorSpec, ScanTensor(spec)
  PROVE  CollectInv'
<1>h. PICK h : h = Home(spec)  OBVIOUS
<1>n. PICK n : n = Len(specs) + 1  OBVIOUS
<1>1. h \in Homes /\ spec.stage = h[1] /\ h = <<h[1], h[2]>>
      BY <1>h DEF TensorSpec, Home
<1>2. /\ specs' = Append(specs, spec) /\ specs \in Seq(TensorSpec)
      /\ expert_groups' = [expert_groups EXCEPT ![h] = Append(@, n)]
      /\ expert_groups \in [Homes -> Seq(Nat \ {0})]
      /\ stage_order' = IF h[1] \in Range(stage_order)
                        THEN stage_order ELSE Append(stage_order, h[1])
      /\ stage_order \in Seq(Stages)
      BY <1>1, <1>h, <1>n DEF ScanTensor, Collected, TypeInv, TypeOK
<1>3. /\ n \in Nat /\ Len(specs) \in Nat /\ Len(specs') = n
      /\ DOMAIN specs' = 1 .. n /\ DOMAIN specs = 1 .. n - 1 /\ Len(specs) < n
      /\ specs'[n] = spec /\ \A t \in DOMAIN specs : specs'[t] = specs[t]
      BY <1>2, <1>n
<1>4. /\ expert_groups'[h] = Append(expert_groups[h], n)
      /\ \A g \in Homes : g # h => expert_groups'[g] = expert_groups[g]
      BY <1>1, <1>2
<1>5. /\ Range(stage_order) \subseteq Range(stage_order') /\ h[1] \in Range(stage_order')
      /\ \A i \in DOMAIN stage_order' : stage_order'[i] = h[1] \/
           (i \in DOMAIN stage_order /\ stage_order'[i] = stage_order[i])
      /\ \A i, j \in DOMAIN stage_order' : stage_order'[i] = stage_order'[j] => i = j
  <2>1. \A i, j \in DOMAIN stage_order : stage_order[i] = stage_order[j] => i = j
        BY DEF CollectInv
  <2>2. CASE h[1] \in Range(stage_order)  BY <1>2, <2>1, <2>2
  <2>3. CASE h[1] \notin Range(stage_order)
    <3>1. /\ DOMAIN stage_order' = 1 .. Len(stage_order) + 1
          /\ stage_order'[Len(stage_order) + 1] = h[1]
          /\ \A i \in DOMAIN stage_order : stage_order'[i] = stage_order[i]
          /\ DOMAIN stage_order = 1 .. Len(stage_order) /\ Len(stage_order) \in Nat
          BY <1>2, <2>3
    <3>2. \A i \in DOMAIN stage_order : stage_order[i] # h[1]  BY <2>3 DEF Range
    <3> QED  BY <2>1, <3>1, <3>2 DEF Range
  <2> QED  BY <2>2, <2>3
<1>6. ASSUME NEW g \in Homes
      PROVE  /\ Len(expert_groups'[g]) <= Len(specs')
             /\ expert_groups'[g] # <<>> => g[1] \in Range(stage_order')
             /\ \A k \in DOMAIN expert_groups'[g] : Home(specs'[expert_groups'[g][k]]) = g
             /\ \A j, k \in DOMAIN expert_groups'[g] :
                  j < k => expert_groups'[g][j] < expert_groups'[g][k]
  <2>1. /\ Len(expert_groups[g]) <= Len(specs)
        /\ expert_groups[g] # <<>> => g[1] \in Range(stage_order)
        /\ \A k \in DOMAIN expert_groups[g] : Home(specs[expert_groups[g][k]]) = g
        /\ \A j, k \in DOMAIN expert_groups[g] :
             j < k => expert_groups[g][j] < expert_groups[g][k]
        BY DEF CollectInv
  <2>2. \A k \in DOMAIN expert_groups[g] : expert_groups[g][k] \in DOMAIN specs
        BY DEF TypeInv, ScanInv
  <2>3. \A k \in DOMAIN expert_groups[g] : Home(specs'[expert_groups[g][k]]) = g
        BY <1>3, <2>1, <2>2
  <2>4. expert_groups[g] \in Seq(Nat \ {0}) /\ Len(expert_groups[g]) \in Nat  BY <1>2
  <2>5. CASE g # h
    <3>1. expert_groups'[g] = expert_groups[g]  BY <1>4, <2>5
    <3> QED  BY <1>3, <1>5, <2>1, <2>3, <2>4, <3>1
  <2>6. CASE g = h
    <3>1. PICK q : q = expert_groups[h]  OBVIOUS
    <3>2. /\ expert_groups'[g] = Append(q, n) /\ q \in Seq(Nat \ {0}) /\ Len(q) \in Nat
          /\ Len(Append(q, n)) = Len(q) + 1 /\ DOMAIN Append(q, n) = 1 .. Len(q) + 1
          /\ DOMAIN q = 1 .. Len(q)
          /\ Append(q, n)[Len(q) + 1] = n /\ \A k \in DOMAIN q : Append(q, n)[k] = q[k]
          BY <1>4, <2>4, <2>6, <3>1
    <3>3. Len(Append(q, n)) <= n  BY <1>3, <2>1, <2>6, <3>1, <3>2
    <3>4. \A k \in 1 .. Len(q) + 1 : Home(specs'[Append(q, n)[k]]) = h
      <4>1. Home(specs'[n]) = h  BY <1>3, <1>h
      <4>2. \A k \in 1 .. Len(q) + 1 : k \in DOMAIN q \/ k = Len(q) + 1  BY <3>2
      <4>3. ASSUME NEW k \in DOMAIN q PROVE Home(specs'[Append(q, n)[k]]) = h
        <5>1. Append(q, n)[k] = q[k]  BY <3>2
        <5> QED  BY <2>3, <2>6, <3>1, <5>1
      <4> QED  BY <3>2, <4>1, <4>2, <4>3
    <3>5. \A k \in DOMAIN q : q[k] < n /\ q[k] \in Nat  BY <1>3, <2>2, <2>6, <3>1
    <3>6. ASSUME NEW j \in 1 .. Len(q) + 1, NEW k \in 1 .. Len(q) + 1, j < k
          PROVE  Append(q, n)[j] < Append(q, n)[k]
      <4>1. j \in DOMAIN q /\ Append(q, n)[j] = q[j]  BY <3>2, <3>6
      <4>2. CASE k \in DOMAIN q  BY <2>1, <2>6, <3>1, <3>2, <3>6, <4>1, <4>2
      <4>3. CASE k = Len(q) + 1  BY <3>2, <3>5, <4>1, <4>3
      <4> QED  BY <3>2, <3>6, <4>2, <4>3
    <3> QED  BY <1>3, <1>5, <2>6, <3>2, <3>3, <3>4, <3>6
  <2> QED  BY <2>5, <2>6
<1>7. ASSUME NEW t \in DOMAIN specs'
      PROVE  t \in Range(expert_groups'[Home(specs'[t])])
  <2>1. CASE t = n
    <3>1. Home(specs'[t]) = h /\ expert_groups[h] \in Seq(Nat \ {0})
          BY <1>1, <1>2, <1>3, <1>h, <2>1
    <3>2. PICK q : q = Append(expert_groups[h], n)  OBVIOUS
    <3>3. /\ Len(expert_groups[h]) + 1 \in DOMAIN q
          /\ q[Len(expert_groups[h]) + 1] = n
          BY <3>1, <3>2
    <3>4. n \in Range(q)  BY <3>3 DEF Range
    <3> QED  BY <1>4, <2>1, <3>1, <3>2, <3>4
  <2>2. CASE t # n
    <3>1. t \in DOMAIN specs /\ specs'[t] = specs[t]  BY <1>3, <2>2
    <3>2. PICK g : g = Home(specs[t])  OBVIOUS
    <3>3. specs[t] \in TensorSpec /\ g \in Homes  BY <1>2, <3>1, <3>2 DEF TensorSpec
    <3>4. PICK k \in DOMAIN expert_groups[g] : expert_groups[g][k] = t
          BY <3>1, <3>2 DEF CollectInv, Range
    <3>5. k \in DOMAIN expert_groups'[g] /\ expert_groups'[g][k] = t
      <4>1. CASE g # h  BY <1>4, <3>3, <3>4, <4>1
      <4>2. CASE g = h
        <5>1. expert_groups[h] \in Seq(Nat \ {0})  BY <1>1, <1>2
        <5> QED  BY <1>4, <3>4, <4>2, <5>1
      <4> QED  BY <4>1, <4>2
    <3>6. t \in Range(expert_groups'[g])  BY <3>5 DEF Range
    <3> QED  BY <3>1, <3>2, <3>6
  <2> QED  BY <2>1, <2>2
<1>8. ASSUME NEW i \in DOMAIN stage_order' PROVE ExpertsOf(stage_order[i])' # {}
  <2>1. ASSUME NEW s, NEW e \in Experts \cup {NoExpert}, <<s, e>> \in Homes,
               expert_groups'[<<s, e>>] # <<>>
        PROVE  e \in {x \in Experts \cup {NoExpert} :
                        <<s, x>> \in Homes /\ expert_groups'[<<s, x>>] # <<>>}
        BY <2>1
  <2>2. CASE stage_order'[i] = h[1]
    <3>1. expert_groups[h] \in Seq(Nat \ {0})  BY <1>1, <1>2
    <3>2. expert_groups'[<<h[1], h[2]>>] # <<>>  BY <1>1, <1>4, <3>1
    <3>3. h[2] \in Experts \cup {NoExpert}  BY <1>1, HomeTypes
    <3> QED  BY <1>1, <2>2, <3>2, <3>3 DEF ExpertsOf
  <2>3. CASE i \in DOMAIN stage_order /\ stage_order'[i] = stage_order[i]
    <3>1. PICK e \in ExpertsOf(stage_order[i]) : TRUE  BY <2>3 DEF CollectInv
    <3>2. PICK g : g = <<stage_order[i], e>>  OBVIOUS
    <3>3. /\ g \in Homes /\ expert_groups[g] # <<>>
          /\ e \in Experts \cup {NoExpert}
          BY <3>1, <3>2, ExpertsOfHomes
    <3>4. expert_groups'[g] # <<>>
      <4>1. expert_groups[g] \in Seq(Nat \ {0})  BY <1>2, <3>3
      <4> QED  BY <1>4, <3>3, <4>1
    <3> QED  BY <2>3, <3>2, <3>3, <3>4 DEF ExpertsOf
  <2> QED  BY <1>5, <2>2, <2>3
<1>9. \A t \in DOMAIN specs' : t \in Range(expert_groups'[Home(specs'[t])])  BY <1>7
<1> QED  BY <1>5, <1>6, <1>8, <1>9 DEF CollectInv

(* With a source to quantize, an aux tensor is only scanned behind its     *)
(* weight.                                                                 *)
LEMMA ScanScale ==
  ASSUME TypeInv, ScaleInv, NEW spec \in TensorSpec, ScanTensor(spec)
  PROVE  ScaleInv'
<1>n. PICK n : n = Len(specs) + 1  OBVIOUS
<1>1. /\ specs' = Append(specs, spec) /\ specs \in Seq(TensorSpec) /\ source' = source
      BY DEF ScanTensor, Collected, TypeInv, TypeOK
<1>2. /\ n \in Nat /\ Len(specs) \in Nat /\ Len(specs') = n /\ specs' # <<>>
      /\ DOMAIN specs' = 1 .. n /\ DOMAIN specs = 1 .. n - 1 /\ Len(specs) = n - 1
      /\ specs'[n] = spec /\ \A t \in DOMAIN specs : specs'[t] = specs[t]
      BY <1>1, <1>n
<1>3. SUFFICES ASSUME source = "quantize" PROVE ScaleInv'  BY <1>1 DEF ScaleInv
<1>4. /\ scale_due => specs # <<>> /\ Quantizable(specs[Len(specs)])
      /\ \A t \in DOMAIN specs : specs[t].part = "aux" =>
           /\ t - 1 \in DOMAIN specs
           /\ specs[t - 1].part = "weight"
           /\ Home(specs[t - 1]) = Home(specs[t])
           /\ specs[t - 1].slot = specs[t].slot
      BY <1>3 DEF ScaleInv
<1>5. /\ scale_due' <=> Quantizable(spec)
      /\ scale_due => /\ Home(spec) = Home(specs[Len(specs)])
                      /\ spec.slot = specs[Len(specs)].slot
      /\ ~scale_due => spec.part # "aux"
      BY <1>3, Zenon DEF ScanTensor
<1>6. scale_due' => specs' # <<>> /\ Quantizable(specs'[Len(specs')])  BY <1>2, <1>5
<1>7. ASSUME NEW t \in DOMAIN specs', specs'[t].part = "aux"
      PROVE  /\ t - 1 \in DOMAIN specs'
             /\ specs'[t - 1].part = "weight"
             /\ Home(specs'[t - 1]) = Home(specs'[t])
             /\ specs'[t - 1].slot = specs'[t].slot
  <2>1. CASE t \in DOMAIN specs
    <3>1. specs'[t] = specs[t]  BY <1>2, <2>1
    <3>2. /\ t - 1 \in DOMAIN specs
          /\ specs[t - 1].part = "weight"
          /\ Home(specs[t - 1]) = Home(specs[t])
          /\ specs[t - 1].slot = specs[t].slot
          BY <1>4, <1>7, <2>1, <3>1
    <3>3. t - 1 \in DOMAIN specs' /\ specs'[t - 1] = specs[t - 1]  BY <1>2, <3>2
    <3> QED  BY <3>1, <3>2, <3>3
  <2>2. CASE t = n
    <3>1. specs'[t] = spec /\ scale_due  BY <1>2, <1>5, <1>7, <2>2
    <3>2. specs # <<>> /\ Quantizable(specs[n - 1])  BY <1>2, <1>4, <3>1
    <3>3. n - 1 \in DOMAIN specs /\ n - 1 \in DOMAIN specs' /\ specs'[n - 1] = specs[n - 1]
          BY <1>1, <1>2, <3>2
    <3>4. specs[n - 1].part = "weight"  BY <3>2 DEF Quantizable
    <3> QED  BY <1>2, <1>5, <2>2, <3>1, <3>3, <3>4
  <2> QED  BY <1>2, <1>7, <2>1, <2>2
<1> QED  BY <1>6, <1>7 DEF ScaleInv, Quantizable

(* Scanning precedes placement.                                            *)
LEMMA ScanPlan ==
  ASSUME TypeInv, ProgressInv, PlacedInv, IdsInv, FilesInv,
         NEW spec \in TensorSpec, ScanTensor(spec)
  PROVE  ProgressInv' /\ PlacedInv' /\ IdsInv' /\ FilesInv'
<1>1. /\ status = "scan" /\ status' = "scan"
      /\ groups' = groups /\ pending' = pending /\ members' = members
      /\ file_id' = file_id /\ file_offset' = file_offset
      BY DEF ScanTensor, openVars, placeVars
<1>2. groups = <<>> /\ pending = <<>> /\ members = <<>>
      BY <1>1 DEF ProgressInv, TypeInv, ScanInv
<1>3. ProgressInv' /\ PlacedInv'  BY <1>1, <1>2 DEF ProgressInv, PlacedInv
<1>4. IdsInv' /\ FilesInv'  BY <1>1, <1>2 DEF IdsInv, FilesInv, FilesContiguous
<1> QED  BY <1>3, <1>4
-----------------------------------------------------------------------------
(* Once scanned, a checkpoint does not change.                             *)
LEMMA FrameScan ==
  ASSUME UNCHANGED scanVars
  PROVE  /\ CollectInv => CollectInv'
         /\ ScaleInv => ScaleInv'
         /\ \A s : ExpertsOf(s)' = ExpertsOf(s)
         /\ \A s, e : Tensors(s, e)' = Tensors(s, e)
         /\ \A p, s, e, ms, rest : Arranges(p, s, e, ms, rest)' <=> Arranges(p, s, e, ms, rest)
<1>1. UNCHANGED <<source, specs, scale_due, expert_groups, stage_order>>  BY DEF scanVars
<1>2. \A s : ExpertsOf(s)' = ExpertsOf(s)  BY <1>1 DEF ExpertsOf
<1>3. \A s, e : Tensors(s, e)' = Tensors(s, e)  BY <1>1 DEF Tensors
<1>4. \A t : (Ranked(t)' <=> Ranked(t)) /\ SlotRank(t)' = SlotRank(t)
      BY <1>1 DEF Ranked, SlotRank
<1>5. \A s, ms, i, j : Precedes(s, ms, i, j)' <=> Precedes(s, ms, i, j)  BY <1>4 DEF Precedes
<1>6. \A s, ms : MemberOrders(s, ms)' = MemberOrders(s, ms)  BY <1>5 DEF MemberOrders
<1>7. \A p, s, e, ms, rest : Arranges(p, s, e, ms, rest)' <=> Arranges(p, s, e, ms, rest)
      BY <1>3, <1>6 DEF Arranges
<1>8. CollectInv => CollectInv'  BY <1>1, <1>2 DEF CollectInv
<1>9. ScaleInv => ScaleInv'  BY <1>1 DEF ScaleInv, Quantizable
<1> QED  BY <1>2, <1>3, <1>7, <1>8, <1>9

(* The group table does not change before the next group is closed.        *)
LEMMA FrameGroups ==
  ASSUME UNCHANGED <<scanVars, file_id, file_offset, groups, stage_idx, group_idx, todo>>,
         status' \in {"scan", "no_tensors"} <=> status \in {"scan", "no_tensors"},
         PlacedInv, IdsInv, FilesInv
  PROVE  PlacedInv' /\ IdsInv' /\ FilesInv'
<1>1. UNCHANGED <<stage_order, file_id, file_offset, groups, stage_idx, group_idx, todo>>
      BY DEF scanVars
<1>2. \A n, e : IsPlaced(n, e)' <=> IsPlaced(n, e)  BY <1>1 DEF IsPlaced
<1>3. PlacedInv'  BY <1>1, <1>2, FrameScan DEF PlacedInv
<1>4. IdsInv' /\ FilesInv'  BY <1>1 DEF IdsInv, FilesInv, FilesContiguous
<1> QED  BY <1>3, <1>4

(* Placement starts with the experts of the first stage.                   *)
LEMMA FinishScanPlan ==
  ASSUME TypeInv, CollectInv, ProgressInv, PlacedInv, IdsInv, FilesInv, FinishScan
  PROVE  ProgressInv' /\ PlacedInv' /\ IdsInv' /\ FilesInv'
<1>1. /\ status = "scan" /\ UNCHANGED <<scanVars, file_id, file_offset, groups, stage_idx, group_idx>>
      /\ pending' = pending /\ members' = members
      BY DEF FinishScan, openVars
<1>2. groups = <<>> /\ pending = <<>> /\ members = <<>> /\ stage_idx = 1
      BY <1>1 DEF ProgressInv, TypeInv, ScanInv
<1>3. IdsInv' /\ FilesInv'  BY <1>1, <1>2 DEF IdsInv, FilesInv, FilesContiguous
<1>4. CASE stage_order = <<>>
  <2>1. status' = "no_tensors"  BY <1>4 DEF FinishScan
  <2> QED  BY <1>1, <1>2, <1>3, <2>1 DEF ProgressInv, PlacedInv
<1>5. CASE stage_order # <<>>
  <2>1. status' = "place" /\ todo' = ExpertsOf(stage_order[1])  BY <1>5 DEF FinishScan
  <2>2. stage_order \in Seq(Stages) /\ 1 \in DOMAIN stage_order
        BY <1>5 DEF TypeInv, TypeOK
  <2>3. todo' # {}  BY <2>1, <2>2 DEF CollectInv
  <2>4. stage_order' = stage_order /\ stage_idx' = 1  BY <1>1, <1>2 DEF scanVars
  <2>5. ProgressInv'  BY <1>1, <1>2, <2>1, <2>2, <2>3, <2>4 DEF ProgressInv
  <2>6. ASSUME NEW n \in DOMAIN stage_order, NEW e \in ExpertsOf(stage_order[n]) PROVE ~ IsPlaced(n, e)'
    <3>1. CASE n = 1  BY <2>1, <2>4, <2>6, <3>1 DEF IsPlaced
    <3>2. CASE n # 1  BY <2>4, <3>2 DEF IsPlaced
    <3> QED  BY <3>1, <3>2
  <2>7. PlacedInv'  BY <1>1, <1>2, <2>4, <2>6, FrameScan DEF PlacedInv
  <2> QED  BY <1>3, <2>5, <2>7
<1> QED  BY <1>4, <1>5

(* The next group of the stage is opened, in one of its orders.            *)
LEMMA OpenGroupPlan ==
  ASSUME TypeInv, ProgressInv, PlacedInv, IdsInv, FilesInv, OpenGroup
  PROVE  ProgressInv' /\ PlacedInv' /\ IdsInv' /\ FilesInv'
<1>1. /\ UNCHANGED <<scanVars, file_id, file_offset, groups, stage_idx, group_idx, todo>>
      /\ status = "place" /\ status' = status /\ members' = <<>>
      BY DEF OpenGroup, placeVars
<1>2. PICK e \in todo :
        /\ expert_id' = e
        /\ LET stage == stage_order[stage_idx]
               ms    == expert_groups[<<stage, e>>]
           IN  \E p \in MemberOrders(stage, ms) :
                 pending' = [k \in DOMAIN ms |-> ms[p[k]]]
      BY DEF OpenGroup
<1> DEFINE stage == stage_order[stage_idx]
<1>3. PICK ms : ms = Tensors(stage, e)  OBVIOUS
<1>4. PICK p \in MemberOrders(stage, ms) : pending' = [k \in DOMAIN ms |-> ms[p[k]]]
      BY <1>2, <1>3 DEF Tensors
<1>5. <<stage, e>> \in Homes  BY DEF TypeInv, ScanInv
<1>6. ms \in Seq(Nat \ {0})  BY <1>3, <1>5 DEF TypeInv, TypeOK, Tensors
<1> HIDE DEF stage
<1>7. Arranges(p, stage, e, <<>>, pending')
  <2>1. pending' \in Seq(Nat \ {0}) /\ Len(pending') = Len(ms) /\ DOMAIN pending' = DOMAIN ms
        BY <1>4, <1>6 DEF MemberOrders
  <2>2. \A k \in DOMAIN pending' : pending'[k] = ms[p[k]]  BY <1>4
  <2>3. Len(<<>>) = 0 /\ \A k \in DOMAIN pending' : Len(<<>>) + k = k  BY <1>6, <2>1
  <2>4. Len(<<>>) + Len(pending') = Len(ms)  BY <1>6, <2>1
  <2> QED  BY <1>3, <1>4, <2>2, <2>3, <2>4 DEF Arranges
<1>8. stage' = stage  BY <1>1 DEF stage, scanVars
<1>9. \E q : Arranges(q, stage_order[stage_idx], expert_id, members, pending)'
      BY <1>1, <1>2, <1>7, <1>8, FrameScan DEF stage
<1>10. ProgressInv'  BY <1>1, <1>9 DEF ProgressInv, scanVars
<1> QED  BY <1>1, <1>10, FrameGroups

(* A member moves from the pending tensors to the placed ones.             *)
LEMMA PlaceMemberPlan ==
  ASSUME TypeInv, ProgressInv, PlacedInv, IdsInv, FilesInv, PlaceMember
  PROVE  ProgressInv' /\ PlacedInv' /\ IdsInv' /\ FilesInv'
<1>1. /\ UNCHANGED <<scanVars, file_id, file_offset, groups, stage_idx, group_idx, todo>>
      /\ status = "place" /\ status' = status /\ expert_id' = expert_id /\ pending # <<>>
      BY DEF PlaceMember, placeVars
<1>2. PICK m : members' = Append(members, m) /\ m.tensor = Head(pending) /\ pending' = Tail(pending)
      BY DEF PlaceMember
<1>3. PICK stage : stage = stage_order[stage_idx]  OBVIOUS
<1>4. PICK p : Arranges(p, stage, expert_id, members, pending)  BY <1>1, <1>3 DEF ProgressInv
<1>5. PICK ts : ts = Tensors(stage, expert_id)  OBVIOUS
<1>6. /\ p \in MemberOrders(stage, ts)
      /\ Len(members) + Len(pending) = Len(ts)
      /\ \A k \in DOMAIN members : members[k].tensor = ts[p[k]]
      /\ \A k \in DOMAIN pending : pending[k] = ts[p[Len(members) + k]]
      BY <1>4, <1>5 DEF Arranges
<1>7. members \in Seq(MemberRecord) /\ pending \in Seq(Nat \ {0})  BY DEF TypeInv, TypeOK
<1>8. /\ Len(members') = Len(members) + 1
      /\ members'[Len(members) + 1] = m /\ \A k \in DOMAIN members : members'[k] = members[k]
      /\ DOMAIN members' = 1 .. Len(members) + 1 /\ DOMAIN members = 1 .. Len(members)
      /\ Len(members) \in Nat
      BY <1>2, <1>7
<1>p. /\ Len(pending) \in Nat \ {0} /\ DOMAIN pending = 1 .. Len(pending)
      /\ Head(pending) = pending[1]
      BY <1>1, <1>7
<1>t. /\ Len(pending') = Len(pending) - 1 /\ DOMAIN pending' = 1 .. Len(pending) - 1
      /\ \A k \in DOMAIN pending' : pending'[k] = pending[k + 1]
      BY <1>1, <1>2, <1>7
<1>h. m.tensor = pending[1]  BY <1>2, <1>p
<1>9. Len(members') + Len(pending') = Len(ts)  BY <1>6, <1>8, <1>p, <1>t, <1>h
<1>10. \A k \in DOMAIN members' : members'[k].tensor = ts[p[k]]
  <2>1. m.tensor = ts[p[Len(members) + 1]]  BY <1>6, <1>8, <1>p, <1>t, <1>h
  <2>2. \A k \in DOMAIN members' : k \in DOMAIN members \/ k = Len(members) + 1  BY <1>8, <1>p, <1>t, <1>h
  <2> QED  BY <1>6, <1>8, <1>p, <1>t, <1>h, <2>1, <2>2
<1>11. ASSUME NEW k \in DOMAIN pending' PROVE pending'[k] = ts[p[Len(members') + k]]
  <2>1. k + 1 \in DOMAIN pending /\ Len(members) + (k + 1) = Len(members') + k  BY <1>8, <1>p, <1>t, <1>h
  <2>2. pending'[k] = ts[p[Len(members) + (k + 1)]]  BY <1>6, <1>8, <1>p, <1>t, <1>h, <2>1
  <2> QED  BY <2>1, <2>2
<1>12. Arranges(p, stage, expert_id, members', pending')
       BY <1>5, <1>6, <1>9, <1>10, <1>11 DEF Arranges
<1>13. stage_order[stage_idx]' = stage  BY <1>1, <1>3 DEF scanVars
<1>14. \E q : Arranges(q, stage_order[stage_idx], expert_id, members, pending)'
       BY <1>1, <1>12, <1>13, FrameScan
<1>15. ProgressInv'  BY <1>1, <1>14 DEF ProgressInv, scanVars
<1> QED  BY <1>1, <1>15, FrameGroups

(* A status step leaves plan and progress alone.                           *)
LEMMA StatusStepPlan ==
  ASSUME TypeInv, ProgressInv, PlacedInv, IdsInv, FilesInv, GroupTooLarge \/ Validate \/ UNCHANGED vars
  PROVE  ProgressInv' /\ PlacedInv' /\ IdsInv' /\ FilesInv'
<1>1. /\ UNCHANGED <<scanVars, file_id, file_offset, groups, stage_idx, group_idx, todo>>
      /\ UNCHANGED <<expert_id, pending, members>>
      /\ status' \in {"scan", "no_tensors"} <=> status \in {"scan", "no_tensors"}
      BY DEF GroupTooLarge, Validate, openVars, placeVars, vars
<1>d. status' \in {"done", "invalid_index"} => todo' = {}
      BY DEF GroupTooLarge, Validate, vars, placeVars, ProgressInv
<1>2. ProgressInv'
  <2>1. stage_order[stage_idx]' = stage_order[stage_idx]  BY <1>1 DEF scanVars
  <2>2. (\E p : Arranges(p, stage_order[stage_idx], expert_id, members, pending)) =>
          \E p : Arranges(p, stage_order[stage_idx], expert_id, members, pending)'
        BY <1>1, <2>1, FrameScan
  <2> QED  BY <1>1, <1>d, <2>2 DEF ProgressInv, scanVars
<1> QED  BY <1>1, <1>2, FrameGroups

(* Closing a group moves on to the next expert of the stage, or to the     *)
(* next stage when it was the last.                                        *)
Advances == todo \ {expert_id} = {} /\ stage_idx < Len(stage_order)

(* Closing a group moves on to the next expert, or to the next stage.      *)
LEMMA CloseGroupMoves ==
  ASSUME TypeInv, CollectInv, ProgressInv, CloseGroup
  PROVE  /\ UNCHANGED scanVars /\ status = "place" /\ status' = "place"
         /\ pending = <<>> /\ pending' = <<>> /\ members # <<>> /\ members' = <<>>
         /\ expert_id \in todo /\ stage_idx \in DOMAIN stage_order
         /\ expert_id \in ExpertsOf(stage_order[stage_idx])
         /\ Advances => /\ stage_idx' = stage_idx + 1 /\ stage_idx + 1 \in DOMAIN stage_order
                        /\ todo' = ExpertsOf(stage_order[stage_idx + 1])
         /\ ~Advances => stage_idx' = stage_idx /\ todo' = todo \ {expert_id}
         /\ ~Advances => group_idx' = group_idx + 1
         /\ todo' = {} => stage_idx' = Len(stage_order)
<1>1. /\ UNCHANGED scanVars /\ status = "place" /\ status' = "place"
      /\ pending = <<>> /\ pending' = <<>> /\ members # <<>> /\ members' = <<>>
      BY DEF CloseGroup
<1>2. expert_id \in todo  BY <1>1 DEF TypeInv, ScanInv
<1>3. stage_idx \in DOMAIN stage_order /\ stage_order \in Seq(Stages) /\ stage_idx \in Nat
      BY <1>2 DEF TypeInv, TypeOK, ScanInv
<1>4. expert_id \in ExpertsOf(stage_order[stage_idx])
      BY <1>2 DEF TypeInv, TypeOK, ScanInv, ExpertsOf
<1>5. ASSUME Advances
      PROVE  /\ stage_idx' = stage_idx + 1 /\ stage_idx + 1 \in DOMAIN stage_order
             /\ todo' = ExpertsOf(stage_order[stage_idx + 1]) /\ todo' # {}
  <2>1. stage_idx' = stage_idx + 1 /\ todo' = ExpertsOf(stage_order[stage_idx + 1])
        BY <1>5 DEF CloseGroup, Advances
  <2>2. stage_idx + 1 \in DOMAIN stage_order  BY <1>3, <1>5 DEF Advances
  <2> QED  BY <2>1, <2>2 DEF CollectInv
<1>6. ASSUME ~Advances
      PROVE  /\ stage_idx' = stage_idx /\ todo' = todo \ {expert_id}
             /\ group_idx' = group_idx + 1
      BY <1>6 DEF CloseGroup, Advances
<1>7. todo' = {} => stage_idx' = Len(stage_order)
  <2>1. ~Advances /\ todo' = {} => ~ (stage_idx < Len(stage_order))  BY <1>6 DEF Advances
  <2>2. ~ (stage_idx < Len(stage_order)) => stage_idx = Len(stage_order)  BY <1>3
  <2> QED  BY <1>5, <1>6, <2>1, <2>2
<1> QED  BY <1>1, <1>2, <1>3, <1>4, <1>5, <1>6, <1>7

(* A closed group is the open one, with the id and file it was given.      *)
LEMMA ClosedGroup ==
  ASSUME TypeInv, CloseGroup
  PROVE  \E g : /\ groups' = Append(groups, g)
                /\ g.group_id = GroupId /\ g.stage = stage_order[stage_idx]
                /\ g.expert = expert_id /\ g.members = members /\ g.file_id = file_id'
                /\ Len(groups) \in Nat /\ Len(groups') = Len(groups) + 1
                /\ DOMAIN groups = 1 .. Len(groups) /\ DOMAIN groups' = 1 .. Len(groups) + 1
                /\ groups'[Len(groups) + 1] = g
                /\ \A i \in DOMAIN groups : groups'[i] = groups[i]
<1> DEFINE total_size == Align(cursor, GROUP_ALIGNMENT)
           file   == IF Rolls(total_size) THEN file_id + 1 ELSE file_id
           offset == IF Rolls(total_size) THEN 0 ELSE file_offset
           g      == [group_id |-> GroupId, stage |-> stage_order[stage_idx],
                      expert |-> expert_id, file_id |-> file, offset |-> offset,
                      total_size |-> total_size, members |-> members]
<1>1. groups' = Append(groups, g) /\ file_id' = file  BY DEF CloseGroup
<1>2. /\ g.group_id = GroupId /\ g.stage = stage_order[stage_idx]
      /\ g.expert = expert_id /\ g.members = members /\ g.file_id = file
      OBVIOUS
<1> HIDE DEF g, file
<1>3. groups \in Seq(GroupRecord)  BY DEF TypeInv, TypeOK
<1>4. /\ Len(groups) \in Nat /\ Len(groups') = Len(groups) + 1
      /\ DOMAIN groups = 1 .. Len(groups) /\ DOMAIN groups' = 1 .. Len(groups) + 1
      /\ groups'[Len(groups) + 1] = g
      /\ \A i \in DOMAIN groups : groups'[i] = groups[i]
      BY <1>1, <1>3
<1> QED  BY <1>1, <1>2, <1>4

(* The closed group is the group of the expert that was open, and of no    *)
(* other.                                                                  *)
LEMMA CloseGroupPlan ==
  ASSUME TypeInv, CollectInv, ProgressInv, PlacedInv, CloseGroup
  PROVE  ProgressInv' /\ PlacedInv'
<1>1. /\ UNCHANGED scanVars /\ status = "place" /\ status' = "place"
      /\ pending = <<>> /\ pending' = <<>> /\ members # <<>> /\ members' = <<>>
      /\ expert_id \in todo /\ stage_idx \in DOMAIN stage_order
      /\ expert_id \in ExpertsOf(stage_order[stage_idx])
      BY CloseGroupMoves
<1>2. /\ Advances => /\ stage_idx' = stage_idx + 1 /\ stage_idx + 1 \in DOMAIN stage_order
                     /\ todo' = ExpertsOf(stage_order[stage_idx + 1])
      /\ ~Advances => stage_idx' = stage_idx /\ todo' = todo \ {expert_id}
      /\ todo' = {} => stage_idx' = Len(stage_order)
      BY CloseGroupMoves
<1>3. PICK g : /\ groups' = Append(groups, g)
               /\ g.group_id = GroupId /\ g.stage = stage_order[stage_idx]
               /\ g.expert = expert_id /\ g.members = members /\ g.file_id = file_id'
               /\ Len(groups) \in Nat /\ Len(groups') = Len(groups) + 1
               /\ DOMAIN groups = 1 .. Len(groups) /\ DOMAIN groups' = 1 .. Len(groups) + 1
               /\ groups'[Len(groups) + 1] = g
               /\ \A i \in DOMAIN groups : groups'[i] = groups[i]
      BY ClosedGroup
<1>4. stage_idx \in Nat \ {0} /\ stage_order \in Seq(Stages) /\ stage_order' = stage_order
      BY <1>1 DEF TypeInv, TypeOK, scanVars
<1>5. PICK p : Arranges(p, stage_order[stage_idx], expert_id, members, <<>>)
      BY <1>1 DEF ProgressInv
<1>6. ProgressInv'  BY <1>1, <1>2, <1>4 DEF ProgressInv
<1>7. \A n, e : IsPlaced(n, e) => IsPlaced(n, e)'
  <2>1. CASE Advances  BY <1>2, <1>4, <2>1 DEF IsPlaced
  <2>2. CASE ~Advances  BY <1>2, <1>4, <2>2 DEF IsPlaced
  <2> QED  BY <2>1, <2>2
<1>8. ASSUME NEW n, NEW e, n = stage_idx, e = expert_id PROVE IsPlaced(n, e)'
  <2>1. CASE Advances  BY <1>2, <1>4, <1>8, <2>1 DEF IsPlaced
  <2>2. CASE ~Advances  BY <1>2, <1>4, <1>8, <2>2 DEF IsPlaced
  <2> QED  BY <2>1, <2>2
<1>9. g.group_id[2] = stage_idx  BY <1>3 DEF GroupId
<1>10. ASSUME NEW i \in DOMAIN groups
       PROVE  /\ groups[i].group_id[2] \in DOMAIN stage_order
              /\ groups[i].stage = stage_order[groups[i].group_id[2]]
              /\ groups[i].expert \in ExpertsOf(groups[i].stage)
              /\ IsPlaced(groups[i].group_id[2], groups[i].expert)
              /\ \E q : Arranges(q, groups[i].stage, groups[i].expert, groups[i].members, <<>>)
       BY <1>1 DEF PlacedInv
<1>11. ASSUME NEW i \in DOMAIN groups'
       PROVE  /\ groups'[i].group_id[2] \in DOMAIN stage_order
              /\ groups'[i].stage = stage_order[groups'[i].group_id[2]]
              /\ groups'[i].expert \in ExpertsOf(groups'[i].stage)
              /\ IsPlaced(groups[i].group_id[2], groups[i].expert)'
              /\ \E q : Arranges(q, groups'[i].stage, groups'[i].expert, groups'[i].members, <<>>)
  <2>1. CASE i \in DOMAIN groups
    <3>1. groups'[i] = groups[i]  BY <1>3, <2>1
    <3>2. IsPlaced(groups[i].group_id[2], groups[i].expert)'  BY <1>7, <1>10, <2>1, <3>1
    <3> QED  BY <1>10, <2>1, <3>1, <3>2
  <2>2. CASE i = Len(groups) + 1
    <3>1. groups'[i] = g  BY <1>3, <2>2
    <3>2. IsPlaced(groups[i].group_id[2], groups[i].expert)'
      <4>1. g.group_id[2] = stage_idx /\ g.expert = expert_id  BY <1>3, <1>9
      <4>2. PICK n, e : n = g.group_id[2] /\ e = g.expert  OBVIOUS
      <4>3. IsPlaced(n, e)'  BY <1>8, <4>1, <4>2
      <4> QED  BY <3>1, <4>2, <4>3
    <3>3. \E q : Arranges(q, g.stage, g.expert, g.members, <<>>)  BY <1>3, <1>5
    <3> QED  BY <1>1, <1>3, <1>9, <3>1, <3>2, <3>3
  <2> QED  BY <1>3, <2>1, <2>2
<1>12. ASSUME NEW i \in DOMAIN groups
       PROVE  ~ (groups[i].stage = g.stage /\ groups[i].expert = g.expert)
  <2> SUFFICES ASSUME groups[i].stage = g.stage, groups[i].expert = g.expert PROVE FALSE
      OBVIOUS
  <2>1. groups[i].group_id[2] = stage_idx
        BY <1>1, <1>3, <1>10 DEF CollectInv
  <2> QED  BY <1>1, <1>3, <1>10, <2>1 DEF IsPlaced
<1>13. ASSUME NEW i \in DOMAIN groups', NEW j \in DOMAIN groups',
              groups'[i].stage = groups'[j].stage, groups'[i].expert = groups'[j].expert
       PROVE  i = j
  <2>1. CASE i \in DOMAIN groups /\ j \in DOMAIN groups
        BY <1>1, <1>3, <1>13, <2>1 DEF PlacedInv
  <2>2. CASE i \notin DOMAIN groups \/ j \notin DOMAIN groups
        BY <1>3, <1>12, <1>13, <2>2
  <2> QED  BY <2>1, <2>2
<1>14. ASSUME NEW n \in DOMAIN stage_order, NEW e \in ExpertsOf(stage_order[n]), IsPlaced(n, e)'
       PROVE  \E i \in DOMAIN groups' : groups'[i].stage = stage_order[n] /\ groups'[i].expert = e
  <2>1. CASE IsPlaced(n, e)
    <3>1. PICK i \in DOMAIN groups : groups[i].stage = stage_order[n] /\ groups[i].expert = e
          BY <1>1, <2>1 DEF PlacedInv
    <3>2. i \in DOMAIN groups' /\ groups'[i] = groups[i]  BY <1>3
    <3> QED  BY <3>1, <3>2
  <2>2. CASE n = stage_idx /\ e = expert_id  BY <1>3, <2>2
  <2>3. ~IsPlaced(n, e) => n = stage_idx /\ e = expert_id
    <3> SUFFICES ASSUME ~IsPlaced(n, e) PROVE n = stage_idx /\ e = expert_id  OBVIOUS
    <3>1. n \in Nat \ {0}  BY <1>4
    <3>2. CASE Advances
      <4>1. n \in 1 .. stage_idx + 1 /\ (n = stage_idx + 1 => e \notin ExpertsOf(stage_order[stage_idx + 1]))
            BY <1>2, <1>14, <3>2 DEF IsPlaced
      <4>2. n = stage_idx /\ e \in todo  BY <1>4, <3>1, <4>1 DEF IsPlaced
      <4> QED  BY <3>2, <4>2 DEF Advances
    <3>3. CASE ~Advances
      <4>1. n \in 1 .. stage_idx /\ (n = stage_idx => e \notin todo \ {expert_id})
            BY <1>2, <1>14, <3>3 DEF IsPlaced
      <4> QED  BY <4>1 DEF IsPlaced
    <3> QED  BY <3>2, <3>3
  <2> QED  BY <2>1, <2>2, <2>3
<1>15. PlacedInv'
  <2>1. /\ \A s : ExpertsOf(s)' = ExpertsOf(s)
        /\ \A q, s, e, ms, rest : Arranges(q, s, e, ms, rest)' <=> Arranges(q, s, e, ms, rest)
        BY <1>1, FrameScan
  <2>2. ASSUME NEW i \in DOMAIN groups'
        PROVE  (\E q : Arranges(q, groups[i].stage, groups[i].expert, groups[i].members, <<>>))'
        BY <1>11, <2>1
  <2>3. \A i \in DOMAIN groups' : (groups[i].expert \in ExpertsOf(groups[i].stage))'
        BY <1>11, <2>1
  <2>4. \A n \in DOMAIN stage_order' : \A e \in ExpertsOf(stage_order[n])' : IsPlaced(n, e)' =>
          \E i \in DOMAIN groups' : groups'[i].stage = stage_order'[n] /\ groups'[i].expert = e
        BY <1>4, <1>14, <2>1
  <2> QED  BY <1>4, <1>11, <1>13, <2>2, <2>3, <2>4 DEF PlacedInv
<1> QED  BY <1>6, <1>15

(* The id of the closed group is new in its stage, unless that is the last; *)
(* its file is the one before or the next.                                 *)
LEMMA CloseGroupIds ==
  ASSUME TypeInv, CollectInv, ProgressInv, PlacedInv, IdsInv, CloseGroup
  PROVE  IdsInv'
<1>1. /\ UNCHANGED scanVars /\ status = "place"
      /\ Advances => stage_idx' = stage_idx + 1
      /\ ~Advances => stage_idx' = stage_idx /\ group_idx' = group_idx + 1
      BY CloseGroupMoves
<1>2. PICK g : /\ groups' = Append(groups, g)
               /\ g.group_id = GroupId /\ g.stage = stage_order[stage_idx]
               /\ g.expert = expert_id /\ g.members = members /\ g.file_id = file_id'
               /\ Len(groups) \in Nat /\ Len(groups') = Len(groups) + 1
               /\ DOMAIN groups = 1 .. Len(groups) /\ DOMAIN groups' = 1 .. Len(groups) + 1
               /\ groups'[Len(groups) + 1] = g
               /\ \A i \in DOMAIN groups : groups'[i] = groups[i]
      BY ClosedGroup
<1>3. /\ stage_idx \in Nat \ {0} /\ group_idx \in Nat /\ stage_order' = stage_order
      /\ groups \in Seq(GroupRecord)
      BY <1>1 DEF TypeInv, TypeOK, scanVars
<1>4. ASSUME NEW i \in DOMAIN groups
      PROVE  /\ groups[i].group_id[1] \in Nat /\ groups[i].group_id[2] \in 1 .. stage_idx
             /\ groups[i].group_id[2] = stage_idx /\ stage_idx # Len(stage_order) =>
                  groups[i].group_id[1] < group_idx
  <2>1. groups[i] \in GroupRecord  BY <1>3
  <2>2. groups[i].group_id \in Nat \X Nat  BY <2>1 DEF GroupRecord
  <2>3. IsPlaced(groups[i].group_id[2], groups[i].expert)  BY <1>1 DEF PlacedInv
  <2> QED  BY <2>2, <2>3 DEF IsPlaced, IdsInv
<1>5. /\ g.group_id[2] = stage_idx
      /\ stage_idx # Len(stage_order) => g.group_id[1] = group_idx
      BY <1>2 DEF GroupId
<1>6. ASSUME NEW i \in DOMAIN groups', groups'[i].group_id[2] = stage_idx',
             stage_idx' # Len(stage_order)
      PROVE  groups'[i].group_id[1] < group_idx'
  <2>1. CASE i \in DOMAIN groups
    <3>1. groups'[i] = groups[i]  BY <1>2, <2>1
    <3>2. ~Advances  BY <1>1, <1>3, <1>4, <1>6, <2>1, <3>1
    <3> QED  BY <1>1, <1>3, <1>4, <1>6, <2>1, <3>1, <3>2
  <2>2. CASE i = Len(groups) + 1
    <3>1. groups'[i] = g  BY <1>2, <2>2
    <3>2. ~Advances  BY <1>1, <1>3, <1>5, <1>6, <3>1
    <3> QED  BY <1>1, <1>3, <1>5, <1>6, <3>1, <3>2
  <2> QED  BY <1>2, <2>1, <2>2
<1>7. ASSUME NEW i \in DOMAIN groups, groups[i].group_id = g.group_id
      PROVE  g.group_id[2] = Len(stage_order)
      BY <1>3, <1>4, <1>5, <1>7
<1>8. ASSUME NEW i \in DOMAIN groups', NEW j \in DOMAIN groups', i # j,
             groups'[i].group_id = groups'[j].group_id
      PROVE  groups'[i].group_id[2] = Len(stage_order)
  <2>1. CASE i \in DOMAIN groups /\ j \in DOMAIN groups
        BY <1>2, <1>8, <2>1 DEF IdsInv
  <2>2. CASE i \in DOMAIN groups /\ j = Len(groups) + 1
    <3>1. groups'[i] = groups[i] /\ groups'[j] = g  BY <1>2, <2>2
    <3> QED  BY <1>7, <1>8, <2>2, <3>1
  <2>3. CASE j \in DOMAIN groups /\ i = Len(groups) + 1
    <3>1. groups'[j] = groups[j] /\ groups'[i] = g  BY <1>2, <2>3
    <3> QED  BY <1>7, <1>8, <2>3, <3>1
  <2> QED  BY <1>2, <1>8, <2>1, <2>2, <2>3
<1> QED  BY <1>3, <1>6, <1>8 DEF IdsInv

(* A group that is closed gets the next number and lies in the open file,  *)
(* or in a new one.                                                        *)
LEMMA CloseGroupFiles ==
  ASSUME TypeInv, FilesInv, CloseGroup
  PROVE  FilesInv'
<1>1. PICK g : /\ groups' = Append(groups, g)
               /\ g.group_id = GroupId /\ g.stage = stage_order[stage_idx]
               /\ g.expert = expert_id /\ g.members = members /\ g.file_id = file_id'
               /\ Len(groups) \in Nat /\ Len(groups') = Len(groups) + 1
               /\ DOMAIN groups = 1 .. Len(groups) /\ DOMAIN groups' = 1 .. Len(groups) + 1
               /\ groups'[Len(groups) + 1] = g
               /\ \A i \in DOMAIN groups : groups'[i] = groups[i]
      BY ClosedGroup
<1> DEFINE total_size == Align(cursor, GROUP_ALIGNMENT)
<1>2. /\ total_size <= PARTITION_SIZE
      /\ file_id' = IF Rolls(total_size) THEN file_id + 1 ELSE file_id
      BY DEF CloseGroup
<1>3. total_size \in Nat  BY AlignRoundsUp, AlignmentAssumption DEF TypeInv, TypeOK
<1> HIDE DEF total_size
<1>4. file_id \in Nat /\ groups \in Seq(GroupRecord)  BY DEF TypeInv, TypeOK
<1> DEFINE Files  == {groups[i].file_id : i \in DOMAIN groups}
           Files2 == {groups'[i].file_id : i \in DOMAIN groups'}
<1>5. Files2 = Files \cup {file_id'}
  <2>1. \A i \in DOMAIN groups' : i \in DOMAIN groups \/ i = Len(groups) + 1  BY <1>1
  <2>2. \A i \in DOMAIN groups : i \in DOMAIN groups' /\ groups'[i] = groups[i]  BY <1>1
  <2>3. Len(groups) + 1 \in DOMAIN groups' /\ groups'[Len(groups) + 1].file_id = file_id'
        BY <1>1
  <2> QED  BY <2>1, <2>2, <2>3
<1>6. CASE groups = <<>>
  <2>1. file_id = 0 /\ file_offset = 0 /\ Files = {}  BY <1>6 DEF FilesInv
  <2>2. file_id' = 0  BY <1>2, <1>3, <2>1, AlignmentAssumption DEF Rolls
  <2>3. Files2 = 0 .. file_id'  BY <1>5, <2>1, <2>2
  <2> QED  BY <1>1, <1>4, <2>3 DEF FilesInv, FilesContiguous
<1>7. CASE groups # <<>>
  <2>1. Files = 0 .. file_id  BY <1>7 DEF FilesInv, FilesContiguous
  <2>2. file_id' = file_id \/ file_id' = file_id + 1  BY <1>2
  <2> HIDE DEF Files, Files2
  <2>3. Files2 = 0 .. file_id'  BY <1>4, <1>5, <2>1, <2>2
  <2> QED  BY <1>1, <1>4, <2>3 DEF FilesInv, FilesContiguous, Files2
<1> QED  BY <1>6, <1>7

(* The plan invariant holds throughout plan_layout.                        *)
PlanInv == /\ IndInv /\ CollectInv /\ ScaleInv
           /\ ProgressInv /\ PlacedInv /\ IdsInv /\ FilesInv

(* Every step of the planner keeps the invariant.                          *)
LEMMA NextPlanInv == PlanInv /\ [Next]_vars => PlanInv'
<1> SUFFICES ASSUME PlanInv, [Next]_vars PROVE PlanInv'  OBVIOUS
<1>t. IndInv' /\ TypeInv  BY NextIndInv DEF PlanInv, IndInv
<1> USE DEF PlanInv
<1>1. ASSUME NEW spec \in TensorSpec, ScanTensor(spec) PROVE PlanInv'
      BY <1>t, <1>1, ScanCollect, ScanScale, ScanPlan
<1>2. CASE FinishScan
  <2>1. UNCHANGED scanVars  BY <1>2 DEF FinishScan
  <2> QED  BY <1>t, <1>2, <2>1, FrameScan, FinishScanPlan
<1>3. CASE OpenGroup
  <2>1. UNCHANGED scanVars  BY <1>3 DEF OpenGroup
  <2> QED  BY <1>t, <1>3, <2>1, FrameScan, OpenGroupPlan
<1>4. CASE PlaceMember
  <2>1. UNCHANGED scanVars  BY <1>4 DEF PlaceMember
  <2> QED  BY <1>t, <1>4, <2>1, FrameScan, PlaceMemberPlan
<1>5. CASE CloseGroup
  <2>1. UNCHANGED scanVars  BY <1>5 DEF CloseGroup
  <2> QED  BY <1>t, <1>5, <2>1, FrameScan, CloseGroupPlan, CloseGroupIds, CloseGroupFiles
<1>6. CASE GroupTooLarge \/ Validate \/ UNCHANGED vars
  <2>1. UNCHANGED scanVars  BY <1>6 DEF GroupTooLarge, Validate, vars
  <2> QED  BY <1>t, <1>6, <2>1, FrameScan, StatusStepPlan
<1> QED  BY <1>1, <1>2, <1>3, <1>4, <1>5, <1>6 DEF Next, Finished

(* In every state the plan is complete as far as it goes.                  *)
LEMMA PlanInvariant == Spec => []PlanInv
<1>1. Init => PlanInv  BY InitIndInv, InitPlan DEF PlanInv
<1> QED  BY <1>1, NextPlanInv, PTL DEF Spec
-----------------------------------------------------------------------------
(***************************************************************************)
(* Orders of the members of a group.                                       *)
(***************************************************************************)

(* The rank of a tensor is the position of its slot in the table.          *)
LEMMA RankOfSlot ==
  ASSUME NEW t, Ranked(t)
  PROVE  SlotRank(t) \in 1 .. Len(SlotTable) /\ SlotTable[SlotRank(t)] = specs[t].slot
<1>1. \E i \in DOMAIN SlotTable : SlotTable[i] = specs[t].slot  BY DEF Ranked, Range
<1>2. SlotRank(t) \in DOMAIN SlotTable /\ SlotTable[SlotRank(t)] = specs[t].slot
      BY <1>1 DEF SlotRank
<1> QED  BY <1>2, SlotAssumption

(* Nothing precedes itself, and nothing fits between two neighbours of one *)
(* slot.                                                                   *)
LEMMA PrecedesStrict ==
  ASSUME NEW stage, NEW n \in Nat, NEW ms, DOMAIN ms = 1 .. n, NEW i \in 1 .. n
  PROVE  /\ ~ Precedes(stage, ms, i, i)
         /\ i + 1 \in 1 .. n /\ specs[ms[i]].slot = specs[ms[i + 1]].slot =>
              /\ ~ Precedes(stage, ms, i + 1, i)
              /\ \A x \in 1 .. n : ~ (Precedes(stage, ms, i, x) /\ Precedes(stage, ms, x, i + 1))
<1>1. CASE ~ (stage \in Layers /\ \A k \in DOMAIN ms : Ranked(ms[k]))
      BY <1>1 DEF Precedes
<1>2. CASE stage \in Layers /\ \A k \in DOMAIN ms : Ranked(ms[k])
  <2>1. \A k \in 1 .. n : SlotRank(ms[k]) \in Nat  BY <1>2, RankOfSlot, SlotAssumption
  <2>2. \A j, k \in 1 .. n : Precedes(stage, ms, j, k) <=>
          \/ SlotRank(ms[j]) < SlotRank(ms[k])
          \/ SlotRank(ms[j]) = SlotRank(ms[k]) /\ j < k
        BY <1>2 DEF Precedes
  <2>3. specs[ms[i]].slot = specs[ms[i + 1]].slot => SlotRank(ms[i]) = SlotRank(ms[i + 1])
        BY DEF SlotRank
  <2> QED  BY <2>1, <2>2, <2>3
<1> QED  BY <1>1, <1>2

(* A member order of n tensors is a permutation of them.                   *)
Permutes(p, n) ==
  /\ p \in [1 .. n -> 1 .. n]
  /\ \A a, b \in 1 .. n : p[a] = p[b] => a = b
  /\ \A i \in 1 .. n : \E a \in 1 .. n : p[a] = i

IsOrder(p, n, stage, ms) == DOMAIN ms = 1 .. n /\ p \in MemberOrders(stage, ms)

(* An order of the members names each of them once.                        *)
LEMMA OrdersPermute ==
  ASSUME NEW stage, NEW n \in Nat, NEW ms, NEW p, IsOrder(p, n, stage, ms)
  PROVE  Permutes(p, n)
<1>0. DOMAIN ms = 1 .. n  BY DEF IsOrder
<1>1. p \in [1 .. n -> 1 .. n]  BY DEF IsOrder, MemberOrders
<1>2. \A a, b \in 1 .. n : a < b => Precedes(stage, ms, p[a], p[b])  BY DEF IsOrder, MemberOrders
<1>3. ASSUME NEW a \in 1 .. n, NEW b \in 1 .. n, p[a] = p[b] PROVE a = b
  <2>1. ~ Precedes(stage, ms, p[a], p[b]) /\ ~ Precedes(stage, ms, p[b], p[a])
        BY <1>0, <1>1, <1>3, PrecedesStrict
  <2> QED  BY <1>2, <2>1
<1>4. IsFiniteSet(1 .. n)  BY FS_Interval
<1>5. p \in Injection(1 .. n, 1 .. n)  BY <1>1, <1>3 DEF Injection, IsInjective
<1>6. p \in Surjection(1 .. n, 1 .. n)  BY <1>4, <1>5, FS_Injection
<1> QED  BY <1>1, <1>3, <1>6 DEF Surjection, Permutes

(* A tensor behind another of its slot in the scan stays right behind it.  *)
SameSlotNext(ms, i) == i + 1 \in DOMAIN ms /\ specs[ms[i]].slot = specs[ms[i + 1]].slot

(* Two tensors of one slot that follow one another in the file follow one  *)
(* another in the group.                                                   *)
LEMMA NeighboursStay ==
  ASSUME NEW stage, NEW n \in Nat, NEW ms, NEW p, IsOrder(p, n, stage, ms),
         NEW i \in 1 .. n, SameSlotNext(ms, i)
  PROVE  \A k \in 1 .. n : p[k] = i + 1 => k - 1 \in 1 .. n /\ p[k - 1] = i
<1> SUFFICES ASSUME NEW k \in 1 .. n, p[k] = i + 1
             PROVE  k - 1 \in 1 .. n /\ p[k - 1] = i
    OBVIOUS
<1>0. i + 1 \in 1 .. n /\ specs[ms[i]].slot = specs[ms[i + 1]].slot
      BY DEF SameSlotNext, IsOrder
<1>1. /\ p \in [1 .. n -> 1 .. n]
      /\ \A a, b \in 1 .. n : p[a] = p[b] => a = b
      /\ \A h \in 1 .. n : \E a \in 1 .. n : p[a] = h
  <2>1. Permutes(p, n)  BY OrdersPermute
  <2> QED  BY <2>1, Zenon DEF Permutes
<1>2. PICK j \in 1 .. n : p[j] = i  BY <1>1
<1>3. DOMAIN ms = 1 .. n /\ \A a, b \in 1 .. n : a < b => Precedes(stage, ms, p[a], p[b])
      BY DEF IsOrder, MemberOrders
<1>4. j < k
  <2>1. ~ (k < j)  BY <1>0, <1>2, <1>3, PrecedesStrict
  <2>2. j # k  BY <1>2
  <2> QED  BY <2>1, <2>2
<1>5. k - 1 \in 1 .. n /\ ~ (j < k - 1)
  <2>1. k - 1 \in 1 .. n  BY <1>4
  <2>2. ASSUME j < k - 1 PROVE FALSE
    <3>1. PICK x \in 1 .. n : x = p[k - 1]  BY <1>1, <2>1
    <3>2. Precedes(stage, ms, i, x) /\ Precedes(stage, ms, x, i + 1)
          BY <1>2, <1>3, <2>1, <2>2, <3>1
    <3> QED  BY <1>0, <1>3, <3>2, PrecedesStrict
  <2> QED  BY <2>1, <2>2
<1> QED  BY <1>2, <1>4, <1>5

(* Group i holds the n tensors ts of its home, in the order p.             *)
HoldsTensors(i, n, ts, p) ==
  /\ ts = expert_groups[<<groups[i].stage, groups[i].expert>>]
  /\ n <= Len(specs) /\ DOMAIN groups[i].members = 1 .. n
  /\ <<groups[i].stage, groups[i].expert>> \in Homes
  /\ IsOrder(p, n, groups[i].stage, ts)
  /\ \A k \in 1 .. n : groups[i].members[k].tensor = ts[p[k]]
  /\ \A k \in 1 .. n : ts[k] \in DOMAIN specs
  /\ \A k \in 1 .. n : Home(specs[ts[k]]) = <<groups[i].stage, groups[i].expert>>
  /\ \A j, k \in 1 .. n : j < k => ts[j] < ts[k]

(* A closed group is an arrangement of the tensors of its expert.          *)
LEMMA GroupTensors ==
  ASSUME PlanInv, NEW i \in DOMAIN groups
  PROVE  \E n \in Nat : \E ts, p : HoldsTensors(i, n, ts, p)
<1> DEFINE h == <<groups[i].stage, groups[i].expert>>
<1>1. TypeInv /\ CollectInv /\ PlacedInv /\ ProgressInv  BY DEF PlanInv, IndInv
<1>2. groups \in Seq(GroupRecord) /\ groups # <<>>  BY <1>1 DEF TypeInv, TypeOK
<1>3. status \notin {"scan", "no_tensors"}  BY <1>1, <1>2 DEF ProgressInv
<1>4. groups[i].expert \in ExpertsOf(groups[i].stage)  BY <1>1, <1>3 DEF PlacedInv
<1>5. h \in Homes  BY <1>4, ExpertsOfHomes
<1>6. PICK ts : ts = expert_groups[h]  OBVIOUS
<1>7. PICK p : Arranges(p, groups[i].stage, groups[i].expert, groups[i].members, <<>>)
      BY <1>1, <1>3 DEF PlacedInv
<1>8. /\ p \in MemberOrders(groups[i].stage, ts)
      /\ Len(groups[i].members) + Len(<<>>) = Len(ts)
      /\ \A k \in DOMAIN groups[i].members : groups[i].members[k].tensor = ts[p[k]]
      BY <1>6, <1>7 DEF Arranges, Tensors
<1>9. groups[i].members \in Seq(MemberRecord)
  <2>1. groups[i] \in GroupRecord  BY <1>2
  <2> QED  BY <2>1 DEF GroupRecord
<1>10. ts \in Seq(Nat \ {0}) /\ Len(ts) <= Len(specs)
       BY <1>1, <1>5, <1>6 DEF TypeInv, TypeOK, CollectInv
<1>11. PICK n \in Nat : n = Len(ts)  BY <1>10
<1>12. DOMAIN ts = 1 .. n /\ DOMAIN groups[i].members = 1 .. n
  <2>1. Len(groups[i].members) = n  BY <1>8, <1>9, <1>11
  <2> QED  BY <1>9, <1>10, <1>11, <2>1
<1>13. \A k \in 1 .. n : ts[k] \in DOMAIN specs  BY <1>1, <1>5, <1>6, <1>12 DEF TypeInv, ScanInv
<1>14. /\ \A k \in 1 .. n : Home(specs[ts[k]]) = h
       /\ \A j, k \in 1 .. n : j < k => ts[j] < ts[k]
       BY <1>1, <1>5, <1>6, <1>12 DEF CollectInv
<1>15. \A k \in 1 .. n : groups[i].members[k].tensor = ts[p[k]]  BY <1>8, <1>12
<1>16. IsOrder(p, n, groups[i].stage, ts)  BY <1>8, <1>12 DEF IsOrder
<1>17. n <= Len(specs) /\ DOMAIN groups[i].members = 1 .. n  BY <1>10, <1>11, <1>12
<1>18. HoldsTensors(i, n, ts, p)
       BY <1>5, <1>6, <1>13, <1>14, <1>15, <1>16, <1>17, Zenon DEF HoldsTensors
<1> QED  BY <1>18

(* Two places of one tensor are the same.                                  *)
LEMMA PlacesAgree ==
  ASSUME PlanInv, NEW i \in DOMAIN groups, NEW k \in DOMAIN groups[i].members,
         NEW j \in DOMAIN groups, NEW l \in DOMAIN groups[j].members,
         groups[i].members[k].tensor = groups[j].members[l].tensor
  PROVE  i = j /\ k = l
<1>n. PICK n \in Nat : \E ts, p : HoldsTensors(i, n, ts, p)  BY GroupTensors
<1>1. PICK ts, p : HoldsTensors(i, n, ts, p)  BY <1>n
<1>2. /\ n <= Len(specs) /\ DOMAIN groups[i].members = 1 .. n
      /\ \A x \in 1 .. n : groups[i].members[x].tensor = ts[p[x]]
      /\ \A x \in 1 .. n : ts[x] \in DOMAIN specs
      /\ \A x \in 1 .. n : Home(specs[ts[x]]) = <<groups[i].stage, groups[i].expert>>
      /\ \A w, x \in 1 .. n : w < x => ts[w] < ts[x]
      BY <1>1 DEF HoldsTensors
<1>3. PICK t : t = groups[i].members[k].tensor  OBVIOUS
<1>4. p \in [1 .. n -> 1 .. n] /\ \A a, b \in 1 .. n : p[a] = p[b] => a = b
  <2>1. Permutes(p, n)  BY <1>1, OrdersPermute DEF HoldsTensors
  <2> QED  BY <2>1, Zenon DEF Permutes
<1>5. Home(specs[t]) = <<groups[i].stage, groups[i].expert>>
  <2>1. PICK a \in 1 .. n : a = p[k]  BY <1>2, <1>4
  <2>2. t = ts[a]  BY <1>2, <1>3, <2>1
  <2>3. Home(specs[ts[a]]) = <<groups[i].stage, groups[i].expert>>  BY <1>2
  <2> QED  BY <2>2, <2>3
<1>6. Home(specs[t]) = <<groups[j].stage, groups[j].expert>>
  <2>n. PICK n2 \in Nat : \E ts2, p2 : HoldsTensors(j, n2, ts2, p2)  BY GroupTensors
  <2>1. PICK ts2, p2 : HoldsTensors(j, n2, ts2, p2)  BY <2>n
  <2>p. Permutes(p2, n2)  BY <2>1, OrdersPermute DEF HoldsTensors
  <2>2. p2 \in [1 .. n2 -> 1 .. n2]  BY <2>p, Zenon DEF Permutes
  <2>3. PICK a \in 1 .. n2 : a = p2[l]  BY <2>1, <2>2 DEF HoldsTensors
  <2>4. t = ts2[a]  BY <1>3, <2>1, <2>3 DEF HoldsTensors
  <2>5. Home(specs[ts2[a]]) = <<groups[j].stage, groups[j].expert>>
        BY <2>1, Zenon DEF HoldsTensors
  <2> QED  BY <2>4, <2>5
<1>7. i = j
  <2>1. groups[i].stage = groups[j].stage /\ groups[i].expert = groups[j].expert
        BY <1>5, <1>6
  <2>2. TypeInv /\ PlacedInv /\ ProgressInv  BY DEF PlanInv, IndInv
  <2>3. groups # <<>>  BY <2>2 DEF TypeInv, TypeOK
  <2> QED  BY <2>1, <2>2, <2>3 DEF PlacedInv, ProgressInv
<1>8. ts[p[k]] = ts[p[l]] /\ p[k] \in 1 .. n /\ p[l] \in 1 .. n  BY <1>2, <1>4, <1>7
<1>9. p[k] = p[l]
  <2>1. PICK a \in 1 .. n, b \in 1 .. n : a = p[k] /\ b = p[l]  BY <1>8
  <2>2. ts[a] = ts[b] /\ ts[a] \in Nat
    <3>1. DOMAIN specs \subseteq Nat  BY DEF PlanInv, IndInv, TypeInv, TypeOK
    <3>2. ts[a] \in DOMAIN specs  BY <1>2
    <3> QED  BY <1>8, <2>1, <3>1, <3>2
  <2>3. ~ (a < b) /\ ~ (b < a)  BY <1>2, <2>2
  <2> QED  BY <2>1, <2>3
<1> QED  BY <1>2, <1>4, <1>7, <1>9

-----------------------------------------------------------------------------
(* Every scanned tensor has a place once the plan is done.                 *)
LEMMA TensorHasPlace ==
  ASSUME PlanInv, status = "done", NEW t \in DOMAIN specs
  PROVE  \E i \in DOMAIN groups : \E a \in 1 .. Len(specs) :
           /\ a \in DOMAIN groups[i].members /\ groups[i].members[a].tensor = t
           /\ <<groups[i].stage, groups[i].expert>> = Home(specs[t])
<1>1. TypeInv /\ CollectInv /\ ProgressInv /\ PlacedInv  BY DEF PlanInv, IndInv
<1>2. /\ todo = {} /\ stage_idx = Len(stage_order) /\ stage_order \in Seq(Stages)
      /\ specs \in Seq(TensorSpec)
      BY <1>1 DEF ProgressInv, TypeInv, TypeOK
<1>3. PICK h : h = Home(specs[t])  OBVIOUS
<1>4. h \in Homes /\ h = <<h[1], h[2]>>
  <2>1. specs[t] \in TensorSpec  BY <1>2
  <2> QED  BY <1>3, <2>1 DEF TensorSpec, Home
<1>5. PICK k \in DOMAIN expert_groups[h] : expert_groups[h][k] = t
      BY <1>1, <1>3 DEF CollectInv, Range
<1>6. expert_groups[h] # <<>>  BY <1>5
<1>7. PICK n \in DOMAIN stage_order : stage_order[n] = h[1]
      BY <1>1, <1>4, <1>6 DEF CollectInv, Range
<1>8. h[2] \in ExpertsOf(stage_order[n])  BY <1>4, <1>6, <1>7, HomeTypes DEF ExpertsOf
<1>9. IsPlaced(n, h[2])  BY <1>2 DEF IsPlaced
<1>10. PICK i \in DOMAIN groups : groups[i].stage = stage_order[n] /\ groups[i].expert = h[2]
       BY <1>1, <1>8, <1>9 DEF PlacedInv
<1>11. <<groups[i].stage, groups[i].expert>> = h  BY <1>4, <1>7, <1>10
<1>12. PICK l \in Nat : \E ts, p : HoldsTensors(i, l, ts, p)  BY GroupTensors
<1>13. PICK ts, p : HoldsTensors(i, l, ts, p)  BY <1>12
<1>14. ts = expert_groups[h]  BY <1>11, <1>13 DEF HoldsTensors
<1>15. Permutes(p, l) /\ DOMAIN ts = 1 .. l  BY <1>13, OrdersPermute DEF HoldsTensors, IsOrder
<1>16. PICK a \in 1 .. l : p[a] = k  BY <1>5, <1>14, <1>15 DEF Permutes
<1>17. /\ l <= Len(specs) /\ DOMAIN groups[i].members = 1 .. l
       /\ groups[i].members[a].tensor = ts[p[a]]
       BY <1>13 DEF HoldsTensors
<1>18. a \in 1 .. Len(specs)  BY <1>2, <1>17
<1> QED  BY <1>3, <1>5, <1>11, <1>14, <1>16, <1>17, <1>18

(* A finished plan places every tensor of the checkpoint exactly once, in  *)
(* its own group; the groups but those of a sparse last stage have ids of  *)
(* their own; the partition files are numbered without a gap: for every    *)
(* checkpoint, alignment and partition size.                               *)
THEOREM PlansAreComplete == Spec => []PlanComplete
<1> SUFFICES ASSUME PlanInv PROVE PlanComplete  BY PlanInvariant, PTL
<1>1. EveryTensorPlacedOnce
  <2> SUFFICES ASSUME status = "done", NEW t \in DOMAIN specs
               PROVE  /\ Cardinality(Places(t)) = 1
                      /\ \A at \in Places(t) :
                           <<groups[at[1]].stage, groups[at[1]].expert>> = Home(specs[t])
      BY DEF EveryTensorPlacedOnce
  <2>1. PICK i \in DOMAIN groups, a \in 1 .. Len(specs) :
           /\ a \in DOMAIN groups[i].members /\ groups[i].members[a].tensor = t
           /\ <<groups[i].stage, groups[i].expert>> = Home(specs[t])
        BY TensorHasPlace
  <2>2. <<i, a>> \in Places(t)  BY <2>1 DEF Places
  <2>3. ASSUME NEW at \in Places(t) PROVE at = <<i, a>>
    <3>1. PICK j \in DOMAIN groups, k \in 1 .. Len(specs) : at = <<j, k>>  BY DEF Places
    <3>2. k \in DOMAIN groups[j].members /\ groups[j].members[k].tensor = t
          BY <3>1 DEF Places
    <3>3. j = i /\ k = a  BY <2>1, <3>2, PlacesAgree
    <3> QED  BY <3>1, <3>3
  <2>4. Places(t) = {<<i, a>>}  BY <2>2, <2>3
  <2>5. Cardinality(Places(t)) = 1  BY <2>4, FS_Singleton
  <2>6. ASSUME NEW at \in Places(t) PROVE at[1] = i  BY <2>3
  <2> QED  BY <2>1, <2>5, <2>6
<1>2. GroupIdsDistinct
  <2> SUFFICES ASSUME NEW i \in DOMAIN groups, NEW j \in DOMAIN groups, i # j,
                      groups[i].group_id = groups[j].group_id
               PROVE  /\ groups[i].stage = groups[j].stage
                      /\ groups[i].stage = stage_order[Len(stage_order)]
      BY DEF GroupIdsDistinct
  <2>1. groups # <<>>  BY DEF PlanInv, IndInv, TypeInv, TypeOK
  <2>2. /\ groups[i].stage = stage_order[groups[i].group_id[2]]
        /\ groups[j].stage = stage_order[groups[j].group_id[2]]
        BY <2>1 DEF PlanInv, ProgressInv, PlacedInv
  <2>3. groups[i].group_id[2] = Len(stage_order)  BY DEF PlanInv, IdsInv
  <2> QED  BY <2>2, <2>3
<1>3. FilesContiguous  BY DEF PlanInv, FilesInv
<1> QED  BY <1>1, <1>2, <1>3 DEF PlanComplete

(* In every expert group the members follow the slot table when all slots  *)
(* are known.                                                              *)
LEMMA GroupInSlotOrder ==
  ASSUME PlanInv, NEW i \in DOMAIN groups, groups[i].stage \in Layers
  PROVE  InSlotOrder(groups[i])
<1>1. PICK n \in Nat : \E ts, p : HoldsTensors(i, n, ts, p)  BY GroupTensors
<1>2. PICK ts, p : HoldsTensors(i, n, ts, p)  BY <1>1
<1>3. Permutes(p, n)  BY <1>2, OrdersPermute DEF HoldsTensors
<1>4. /\ DOMAIN ts = 1 .. n /\ DOMAIN groups[i].members = 1 .. n
      /\ p \in MemberOrders(groups[i].stage, ts)
      /\ \A x \in 1 .. n : groups[i].members[x].tensor = ts[p[x]]
      BY <1>2 DEF HoldsTensors, IsOrder
<1> SUFFICES ASSUME \A k \in 1 .. n : Ranked(groups[i].members[k].tensor),
                    NEW a \in 1 .. n, NEW b \in 1 .. n, a < b
             PROVE  SlotRank(groups[i].members[a].tensor) <= SlotRank(groups[i].members[b].tensor)
    BY <1>4 DEF InSlotOrder
<1>5. ASSUME NEW x \in 1 .. n PROVE Ranked(ts[x])
  <2>1. PICK k \in 1 .. n : p[k] = x  BY <1>3 DEF Permutes
  <2> QED  BY <1>4, <2>1
<1>6. PICK x \in 1 .. n, y \in 1 .. n : x = p[a] /\ y = p[b]  BY <1>3 DEF Permutes
<1>7. Precedes(groups[i].stage, ts, x, y)  BY <1>4, <1>6 DEF MemberOrders
<1>8. SlotRank(ts[x]) <= SlotRank(ts[y])
  <2>1. SlotRank(ts[x]) \in Nat /\ SlotRank(ts[y]) \in Nat
        BY <1>5, RankOfSlot, SlotAssumption
  <2>2. \/ SlotRank(ts[x]) < SlotRank(ts[y])
        \/ SlotRank(ts[x]) = SlotRank(ts[y])
        BY <1>4, <1>5, <1>7 DEF Precedes
  <2> QED  BY <2>1, <2>2
<1> QED  BY <1>4, <1>6, <1>8

(* A scale of a quantized expert stands right behind its weight.           *)
LEMMA GroupScales ==
  ASSUME PlanInv, source = "quantize", NEW i \in DOMAIN groups
  PROVE  ScaleFollowsItsWeight(groups[i])
<1>n. PICK n \in Nat : \E ts, p : HoldsTensors(i, n, ts, p)  BY GroupTensors
<1>0. PICK ts, p : HoldsTensors(i, n, ts, p)  BY <1>n
<1>1. Permutes(p, n)  BY <1>0, OrdersPermute DEF HoldsTensors
<1>2. PICK ms : ms = groups[i].members  OBVIOUS
<1>3. /\ DOMAIN ts = 1 .. n /\ DOMAIN ms = 1 .. n
      /\ \A x \in 1 .. n : ms[x].tensor = ts[p[x]]
      /\ \A x \in 1 .. n : ts[x] \in DOMAIN specs
      /\ \A w, x \in 1 .. n : w < x => ts[w] < ts[x]
      BY <1>0, <1>2 DEF HoldsTensors, IsOrder
<1> SUFFICES ASSUME NEW k \in 1 .. n, specs[ms[k].tensor].part = "aux"
             PROVE  \E j \in WeightOf(groups[i], k) :
                      /\ j < k
                      /\ \A x \in j + 1 .. k :
                           /\ TensorAt(groups[i], x).part = "aux"
                           /\ TensorAt(groups[i], x).slot = TensorAt(groups[i], k).slot
    BY <1>2, <1>3 DEF ScaleFollowsItsWeight, TensorAt
<1>4. PICK y \in 1 .. n : y = p[k]  BY <1>1 DEF Permutes
<1>5. PICK t \in DOMAIN specs : t = ts[y] /\ t = ms[k].tensor  BY <1>3, <1>4
<1>6. /\ t - 1 \in DOMAIN specs /\ specs[t - 1].part = "weight"
      /\ Home(specs[t - 1]) = Home(specs[t]) /\ specs[t - 1].slot = specs[t].slot
      BY <1>5 DEF PlanInv, ScaleInv
<1>7. specs \in Seq(TensorSpec)  BY DEF PlanInv, IndInv, TypeInv, TypeOK
<1>8. PICK x \in 1 .. n : ts[x] = t - 1
  <2>1. Home(specs[ts[y]]) = <<groups[i].stage, groups[i].expert>>  BY <1>0 DEF HoldsTensors
  <2>2. t - 1 \in Range(expert_groups[Home(specs[t - 1])])  BY <1>6 DEF PlanInv, CollectInv
  <2>3. expert_groups[Home(specs[t - 1])] = ts  BY <1>0, <1>5, <1>6, <2>1 DEF HoldsTensors
  <2> QED  BY <1>3, <2>2, <2>3 DEF Range
<1>9. y = x + 1
  <2>0. DOMAIN specs \subseteq Nat  BY <1>7
  <2>1. \A w \in 1 .. n : ts[w] \in Nat  BY <1>3, <2>0
  <2>2. ~ (y < x) /\ y # x
    <3>1. t \in Nat /\ ts[y] = t /\ ts[x] = t - 1  BY <1>5, <1>8, <2>0
    <3>2. y < x => ts[y] < ts[x]  BY <1>3
    <3> QED  BY <3>1, <3>2
  <2>3. ~ (x + 1 < y)
    <3> SUFFICES ASSUME x + 1 < y PROVE FALSE  OBVIOUS
    <3>1. PICK w \in 1 .. n : w = x + 1  OBVIOUS
    <3>2. ts[x] < ts[w] /\ ts[w] < ts[y]  BY <1>3, <3>1
    <3> QED  BY <1>5, <1>7, <1>8, <2>1, <3>2
  <2> QED  BY <2>2, <2>3
<1>10. k - 1 \in 1 .. n /\ p[k - 1] = x
  <2>1. IsOrder(p, n, groups[i].stage, ts)  BY <1>0 DEF HoldsTensors
  <2>2. specs[ts[x]].slot = specs[ts[x + 1]].slot  BY <1>5, <1>6, <1>8, <1>9
  <2>3. x + 1 \in 1 .. n /\ p[k] = x + 1  BY <1>4, <1>9
  <2>4. SameSlotNext(ts, x)  BY <1>3, <2>2, <2>3 DEF SameSlotNext
  <2> QED  BY <2>1, <2>3, <2>4, NeighboursStay
<1>11. PICK j \in 1 .. n : j = k - 1  BY <1>10
<1>12. ms[j].tensor = t - 1  BY <1>3, <1>8, <1>10, <1>11
<1>13. j \in WeightOf(groups[i], k)  BY <1>2, <1>3, <1>5, <1>6, <1>12 DEF WeightOf, TensorAt
<1>14. j < k /\ \A w \in j + 1 .. k : w = k  BY <1>11
<1> QED  BY <1>2, <1>13, <1>14 DEF TensorAt

(* Members keep the slot order, and scales their weights, in every plan.   *)
THEOREM MembersFollowSlots == Spec => []MembersInSlotOrder
<1> SUFFICES ASSUME PlanInv PROVE MembersInSlotOrder  BY PlanInvariant, PTL
<1>1. \A g \in ExpertGroups : \E i \in DOMAIN groups : g = groups[i] /\ groups[i].stage \in Layers
      BY DEF ExpertGroups, Range
<1>2. SlotOrderKept  BY <1>1, GroupInSlotOrder DEF SlotOrderKept
<1>3. QuantizedSlotsAdjacent  BY <1>1, GroupScales DEF QuantizedSlotsAdjacent
<1> QED  BY <1>2, <1>3 DEF MembersInSlotOrder
==============================================================================
