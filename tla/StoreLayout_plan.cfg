\* Placement, member order and validation: partitions that roll, fill and are
\* exceeded, a member alignment that does not divide the group alignment.
CONSTANTS
  w1 = w1
  w2 = w2
  other = other
  ok = ok
  odd = odd
  L1 = L1
  L2 = L2
  Layers = {L1, L2}
  DenseStages = {D1}
  Experts = {0, 1}
  Slots = {w1, w2, other}
  SlotTable <- TwoSlotTable
  Parts = {"weight", "bias", "aux"}
  Sizes = {0, 1, 9, 17}
  Dtypes = {ok, odd}
  DTYPE_TOKENS = {ok}
  Sources = {"raw", "quantize"}
  PARTITION_SIZE = 24
  GROUP_ALIGNMENT = 6
  MEMBER_ALIGNMENT = 4
  MEMBER_ALIGNMENT_MIN = 2
  END_OF_PIPELINE = 1000
  MaxTensors = 4
SPECIFICATION Spec
CONSTRAINT ScanBound
INVARIANTS
  TypeOK
  LayoutInv
  PlanAlwaysValid
  GroupsDisjoint
  PlanComplete
  MembersInSlotOrder
