------------------------------ MODULE IndexCodec ------------------------------
(***************************************************************************)
(* The binary index: write_index of index.py, and the two readers that     *)
(* must agree on it, read_index of index.py and ReadIndex of               *)
(* csrc/store/index_v2.cc.  A file is a sequence of cells, one for each    *)
(* packed number or string; an incomplete copy ends anywhere, inside a     *)
(* cell included.  An altered file is one with another of five header      *)
(* cells, or one whose values are those of another index (Foreign); its    *)
(* strings are UTF-8 and its numbers no larger than the sums the           *)
(* validators make of them can hold.                                       *)
(***************************************************************************)
EXTENDS Integers, Sequences, FiniteSets, SequencesExt

CONSTANTS
  Indexes,   \* indexes write_index is given; a string is a sequence of characters
  Foreign,   \* indexes an altered file holds
  MaxString, \* 0xFFFF in the code
  MaxDims,   \* 255, what the one byte of ndim can hold
  GroupAlignment, MemberAlignment,   \* 4096 and 64
  DtypeTokens                        \* the dtypes index.py knows

Chars == Seq(STRING)
MemberMeta == [tensor_id: Nat, name: Chars, rel_offset: Nat, size: Nat, dtype: Chars, shape: Seq(Nat)]
GroupMeta  == [group_id: Nat, kind: {0, 1}, layer_id: Int, expert_id: Int, file_id: Nat, offset: Nat,
               total_size: Nat, members: Seq(MemberMeta)]
StageMeta  == [name: Chars, is_sparse: {0, 1}, num_groups: Nat]
StoreIndex == [partition_size: Nat, model_type: Chars, checkpoint_name: Chars,
               stages: Seq(StageMeta), groups: Seq(GroupMeta)]
ASSUME IndexAssumption ==
  /\ Indexes \cup Foreign \subseteq StoreIndex /\ MaxString \in Nat /\ MaxDims \in Nat
  /\ GroupAlignment \in Nat \ {0} /\ MemberAlignment \in Nat \ {0} /\ DtypeTokens \subseteq Chars
\* What the planner gives: an expert has one group, a dense one carries -1, a
\* tensor id is one member's.
ASSUME ValidAssumption ==
  \A x \in Indexes : \A h, i \in DOMAIN x.groups :
    /\ x.groups[i].kind = 0 => x.groups[i].expert_id = -1
    /\ x.groups[i].kind = 1 => x.groups[i].expert_id >= 0
    /\ (x.groups[h].kind = 1 /\ x.groups[i].kind = 1 /\ x.groups[h].layer_id = x.groups[i].layer_id
        /\ x.groups[h].expert_id = x.groups[i].expert_id) => h = i
    /\ \A j \in DOMAIN x.groups[h].members, k \in DOMAIN x.groups[i].members :
         x.groups[h].members[j].tensor_id = x.groups[i].members[k].tensor_id => h = i /\ j = k

Readers == {"python", "cpp"}

VARIABLES
  index,    \* what write_index is given, and an altered file holds
  file,     \* the cells written; <<>> before
  end,      \* the reader finds [cells |-> whole cells, chars |-> of the next string]
  status,   \* reader -> "reading", "done" or "raised"; "writer" while writing
  expect,   \* reader -> fields it has yet to read, each with the record it is of
  got,      \* reader -> field -> value
  pos       \* reader -> cells consumed

vars == <<index, file, end, status, expect, got, pos>>

Magic == 77   \* MOESTOR2
Version == 2
Number(n) == [number |-> n, text |-> <<>>]
Text(t) == [number |-> -1, text |-> t]
Strings == {"model_type", "checkpoint_name", "name", "dtype"}
Loops   == {"stages", "groups", "members"}
-----------------------------------------------------------------------------
(* The order of the fields in the three programs.                          *)
HeaderOrder == [
  writer |-> <<"magic", "version", "flags", "partition_size", "model_type", "checkpoint_name",
               "num_stages", "num_groups", "num_tensors", "stages", "groups">>,
  python |-> <<"magic", "version", "flags", "partition_size", "model_type", "checkpoint_name",
               "num_stages", "num_groups", "num_tensors", "stages", "groups">>,
  cpp    |-> <<"magic", "version", "flags", "partition_size", "model_type", "checkpoint_name",
               "num_stages", "num_groups", "num_tensors", "stages", "groups">>]
StageOrder == [
  writer |-> <<"name", "is_sparse", "num_groups">>,
  python |-> <<"name", "is_sparse", "num_groups">>,
  cpp    |-> <<"name", "is_sparse", "num_groups">>]

GroupOrderCpp == [   \* mutant: the C++ reader takes the pair in reverse
  writer |-> <<"group_id", "kind", "layer_id", "expert_id", "file_id", "offset", "total_size", "num_members", "members">>,
  python |-> <<"group_id", "kind", "layer_id", "expert_id", "file_id", "offset", "total_size", "num_members", "members">>,
  cpp    |-> <<"group_id", "kind", "expert_id", "layer_id", "file_id", "offset", "total_size", "num_members", "members">>]
GroupOrder == [
  writer |-> <<"group_id", "kind", "layer_id", "expert_id", "file_id", "offset", "total_size", "num_members", "members">>,
  python |-> <<"group_id", "kind", "layer_id", "expert_id", "file_id", "offset", "total_size", "num_members", "members">>,
  cpp    |-> <<"group_id", "kind", "layer_id", "expert_id", "file_id", "offset", "total_size", "num_members", "members">>]

MemberOrder == [
  writer |-> <<"tensor_id", "name", "rel_offset", "size", "dtype", "shape">>,
  python |-> <<"tensor_id", "name", "rel_offset", "size", "dtype", "shape">>,
  cpp    |-> <<"tensor_id", "name", "rel_offset", "size", "dtype", "shape">>]

NumTensors(i) == FoldSeq(LAMBDA g, n : n + Len(g.members), 0, i.groups)

(* One field as write_index packs it.                                      *)
Packed(rec, f) ==
  CASE f \in Strings -> <<Number(Len(rec[f])), Text(rec[f])>>
    [] f = "shape"   -> <<Number(Len(rec.shape))>> \o [d \in DOMAIN rec.shape |-> Number(rec.shape[d])]
    [] OTHER         -> <<Number(rec[f])>>
PackedMember(m) == FlattenSeq([i \in DOMAIN MemberOrder.writer |-> Packed(m, MemberOrder.writer[i])])
GroupField(g, f) ==
  CASE f = "num_members" -> <<Number(Len(g.members))>>
    [] f = "members"     -> FlattenSeq([j \in DOMAIN g.members |-> PackedMember(g.members[j])])
    [] OTHER             -> Packed(g, f)
PackedGroup(g) == FlattenSeq([i \in DOMAIN GroupOrder.writer |-> GroupField(g, GroupOrder.writer[i])])
PackedStage(s) == FlattenSeq([i \in DOMAIN StageOrder.writer |-> Packed(s, StageOrder.writer[i])])
HeaderField(x, f) ==
  CASE f = "magic" -> <<Number(Magic)>>
    [] f = "version" -> <<Number(Version)>>
    [] f = "flags" -> <<Number(0)>>
    [] f = "num_stages" -> <<Number(Len(x.stages))>>
    [] f = "num_groups" -> <<Number(Len(x.groups))>>
    [] f = "num_tensors" -> <<Number(NumTensors(x))>>
    [] f = "stages" -> FlattenSeq([j \in DOMAIN x.stages |-> PackedStage(x.stages[j])])
    [] f = "groups" -> FlattenSeq([j \in DOMAIN x.groups |-> PackedGroup(x.groups[j])])
    [] OTHER -> Packed(x, f)
PackedIndex(x) == FlattenSeq([i \in DOMAIN HeaderOrder.writer |-> HeaderField(x, HeaderOrder.writer[i])])

Members(x) == UNION {ToSet(g.members) : g \in ToSet(x.groups)}
Packable(x) ==
  /\ \A s \in {x.model_type, x.checkpoint_name} \cup {st.name : st \in ToSet(x.stages)}
              \cup {m.name : m \in Members(x)} : Len(s) <= MaxString
  /\ \A m \in Members(x) : Len(m.shape) <= MaxDims

(* What both validators ask of an index, one group after the other, and    *)
(* what only the one of index.py does.                                     *)
Laid(x) ==
  /\ \A g \in ToSet(x.groups) : g.members # <<>>
  /\ \A i \in DOMAIN x.groups :
       LET g == x.groups[i]
           ended(j) == IF j = 0 THEN 0 ELSE g.members[j].rel_offset + g.members[j].size
       IN  /\ g.offset % GroupAlignment = 0
           /\ g.offset + g.total_size <= x.partition_size
           /\ \A j \in DOMAIN g.members :
                /\ g.members[j].rel_offset % MemberAlignment = 0
                /\ g.members[j].rel_offset >= ended(j - 1)
                /\ g.members[j].tensor_id = IF j > 1 THEN g.members[j - 1].tensor_id + 1
                                           ELSE IF i > 1 THEN Last(x.groups[i - 1].members).tensor_id + 1 ELSE 0
           /\ ended(Len(g.members)) <= g.total_size
DtypesKnown(x) ==
  \A i \in DOMAIN x.groups : \A j \in DOMAIN x.groups[i].members : x.groups[i].members[j].dtype \in DtypeTokens
Validated(r, x) == Laid(x) /\ (r = "python" => DtypesKnown(x))

(* A field of the header, of stage or group i, or of member j of group i.  *)
At(part, i, j, f) == [part |-> part, i |-> i, j |-> j, field |-> f]
Header(f)    == At("header", 0, 0, f)
Fields(order, part, i, j) == [k \in DOMAIN order |-> At(part, i, j, order[k])]

Init ==
  /\ index \in Indexes
  /\ file = <<>> /\ end = [cells |-> 0, chars |-> 0]
  /\ status = [r \in Readers |-> "writer"]
  /\ expect = [r \in Readers |-> Fields(HeaderOrder[r], "header", 0, 0)]
  /\ got = [r \in Readers |-> <<>>]
  /\ pos = [r \in Readers |-> 0]

(* The index is validated, and the buffer packed as a whole, before the    *)
(* file is opened.                                                         *)
Write ==
  /\ file = <<>>
  /\ status["cpp"] = "writer"
  /\ IF Validated("python", index) /\ Packable(index)
     THEN file' = PackedIndex(index) /\ status' = status
     ELSE status' = [r \in Readers |-> "raised"] /\ file' = file
  /\ UNCHANGED <<index, end, expect, got, pos>>

(* The file's values become others, cell for cell those of another index.  *)
Alter ==
  /\ file # <<>>
  /\ status["cpp"] = "writer"
  /\ \E x \in Foreign : Packable(x) /\ index' = x /\ file' = PackedIndex(x)
  /\ UNCHANGED <<end, status, expect, got, pos>>

Damaged(f, how) ==
  CASE how = "magic" -> [f EXCEPT ![1].number = 0]
    [] how = "version" -> [f EXCEPT ![2].number = Version + 1]
    [] how = "flags" -> [f EXCEPT ![3].number = 1]
    [] how = "tensors" -> [f EXCEPT ![11].number = @ + 1]
    [] how = "longer" -> Append(f, Number(0))
    [] OTHER -> f

(* The file reaches the readers: whole, cut short, or with a header cell   *)
(* that is not what was written.                                           *)
Open ==
  /\ file # <<>>
  /\ status["cpp"] = "writer"
  /\ \/ \E how \in {"none", "magic", "version", "flags", "tensors", "longer"} :
          /\ file' = Damaged(file, how)
          /\ end' = [cells |-> Len(file'), chars |-> 0]
     \/ /\ file' = file
        /\ \E n \in 0 .. Len(file) - 1 :
             \E c \in 0 .. (IF file[n + 1].text # <<>> THEN Len(file[n + 1].text) - 1 ELSE 0) :
               end' = [cells |-> n, chars |-> c]
  /\ status' = [r \in Readers |-> "reading"]
  /\ UNCHANGED <<index, expect, got, pos>>

Raise(r) == status' = [status EXCEPT ![r] = "raised"] /\ UNCHANGED <<expect, got, pos>>
Take(r, n, value) ==
  /\ pos' = [pos EXCEPT ![r] = @ + n]
  /\ got' = [got EXCEPT ![r] = [p \in DOMAIN @ \cup {expect[r][1]} |-> IF p = expect[r][1] THEN value ELSE @[p]]]
  /\ expect' = [expect EXCEPT ![r] = Tail(@)]
  /\ UNCHANGED status
Has(r, n) == pos[r] + n <= end.cells
Cell(r, n) == file[pos[r] + n].number
String(r)  == file[pos[r] + 2].text
HeadIs(r, fields) == status[r] = "reading" /\ expect[r] # <<>> /\ expect[r][1].field \in fields

(* A number: struct.unpack of a short read raises, and so does Require.    *)
ReadNumber(r) ==
  /\ status[r] = "reading" /\ expect[r] # <<>>
  /\ expect[r][1].field \notin Strings \cup Loops \cup {"shape"}
  /\ IF ~Has(r, 1) THEN Raise(r)
     ELSE IF \/ expect[r][1].field = "magic" /\ Cell(r, 1) # Magic
             \/ expect[r][1].field = "version" /\ Cell(r, 1) # Version THEN Raise(r)
     ELSE Take(r, 1, Cell(r, 1))

(* A string: buf.read gives what there is and decode takes it; ReadString  *)
(* requires the length it has read.                                        *)
ReadString(r) ==
  /\ HeadIs(r, Strings)
  /\ IF ~Has(r, 1) THEN Raise(r)
     ELSE IF Cell(r, 1) = 0 THEN Take(r, 2, <<>>)
     ELSE IF Has(r, 2) THEN Take(r, 2, String(r))
     ELSE IF r = "cpp" THEN Raise(r)
     ELSE Take(r, 1, SubSeq(String(r), 1, end.chars))

(* ndim and the dimensions.                                                *)
ReadShape(r) ==
  /\ HeadIs(r, {"shape"})
  /\ IF ~Has(r, 1) \/ ~Has(r, 1 + Cell(r, 1)) THEN Raise(r)
     ELSE Take(r, 1 + Cell(r, 1), [d \in 1 .. Cell(r, 1) |-> Cell(r, 1 + d)])

(* The loops over the counts just read.                                    *)
Loop(r) ==
  /\ HeadIs(r, Loops)
  /\ LET p == expect[r][1]
         of(count) == got[r][[p EXCEPT !.field = count]]
         items == CASE p.field = "stages" -> [i \in 1 .. of("num_stages") |-> Fields(StageOrder[r], "stages", i, 0)]
                    [] p.field = "groups" -> [i \in 1 .. of("num_groups") |-> Fields(GroupOrder[r], "groups", i, 0)]
                    [] OTHER -> [j \in 1 .. of("num_members") |-> Fields(MemberOrder[r], "members", p.i, j)]
     IN  expect' = [expect EXCEPT ![r] = FlattenSeq(items) \o Tail(@)]
  /\ UNCHANGED <<status, got, pos>>

MembersRead(r) == {p \in DOMAIN got[r] : p.field = "tensor_id"}

(* The part of the index read that is validated.                           *)
Assembled(g) ==
  [partition_size |-> g[Header("partition_size")],
   groups |-> [i \in 1 .. g[Header("num_groups")] |->
     [f \in {"offset", "total_size", "members"} |->
        IF f # "members" THEN g[At("groups", i, 0, f)]
        ELSE [j \in 1 .. g[At("groups", i, 0, "num_members")] |->
                [d \in {"tensor_id", "rel_offset", "size", "dtype"} |-> g[At("members", i, j, d)]]]]]]

(* The count of tensors and the validator; bytes after the last member are *)
(* not looked at.                                                          *)
Finish(r) ==
  /\ status[r] = "reading"
  /\ expect[r] = <<>>
  /\ status' = [status EXCEPT ![r] =
                  IF /\ Cardinality(MembersRead(r)) = got[r][Header("num_tensors")]
                     /\ Validated(r, Assembled(got[r])) THEN "done" ELSE "raised"]
  /\ UNCHANGED <<expect, got, pos>>

ReadStep(r) ==
  /\ ReadNumber(r) \/ ReadString(r) \/ ReadShape(r) \/ Loop(r) \/ Finish(r)
  /\ UNCHANGED <<index, file, end>>
Next == Write \/ Alter \/ Open \/ \E r \in Readers : ReadStep(r)
Spec == Init /\ [][Next]_vars
-----------------------------------------------------------------------------
GroupRead(r, i, f)     == got[r][At("groups", i, 0, f)]
MemberRead(r, i, j, f) == got[r][At("members", i, j, f)]
GroupsRead(r) == 1 .. got[r][Header("num_groups")]

First(is) == IF is = {} THEN 0 ELSE CHOOSE i \in is : \A j \in is : i <= j   \* 0: none

ExpertGroupAny(r, layer, expert) ==   \* mutant: the kind is not looked at
  First({i \in GroupsRead(r) : GroupRead(r, i, "expert_id") = expert})
(* expert_group and FindExpertGroup: the first that matches.               *)
ExpertGroup(r, layer, expert) ==
  First({i \in GroupsRead(r) : /\ GroupRead(r, i, "kind") = 1
                               /\ GroupRead(r, i, "layer_id") = layer
                               /\ GroupRead(r, i, "expert_id") = expert})
(* group_of_tensor and GroupOfTensor.                                      *)
GroupOfTensor(r, id) ==
  First({i \in GroupsRead(r) : \E j \in 1 .. GroupRead(r, i, "num_members") : MemberRead(r, i, j, "tensor_id") = id})

(* A file that lost its end anywhere is refused by both readers, although  *)
(* the Python one takes a short string for a string (_read_str): some      *)
(* number always comes after it.                                           *)
PrefixRefused ==
  \A r \in Readers : status[r] = "done" => end.cells >= Len(PackedIndex(index))

(* What read_index accepts the C++ reader accepts too and reads alike,     *)
(* from a file that was cut, has become longer, has another header cell or *)
(* holds another index; what the C++ reader alone accepts has a dtype that *)
(* only read_index refuses, Validate having no check of it.                *)
ReadersAgree ==
  (\A r \in Readers : status[r] \in {"done", "raised"}) =>
    /\ status["python"] = "done" => status["cpp"] = "done" /\ got["python"] = got["cpp"]
    /\ status["python"] # status["cpp"] => ~DtypesKnown(Assembled(got["cpp"]))

(* A store that was cut short is refused by both readers.  One that was    *)
(* altered in its values is refused by both or read alike by both, but for *)
(* an unknown dtype, which the C++ reader takes.                           *)
DamageNoticed == PrefixRefused /\ ReadersAgree

(* A group that was written is found again, with its place and members:    *)
(* an expert's by layer and expert, one with a given tensor by its id; the *)
(* numbers of dense groups find nothing.                                   *)
GroupsFoundAgain ==
  index \in Indexes => \A r \in Readers : status[r] = "done" =>
    \A i \in DOMAIN index.groups :
      LET g == index.groups[i]
      IN  /\ ExpertGroup(r, g.layer_id, g.expert_id) = IF g.kind = 1 THEN i ELSE 0
          /\ \A j \in DOMAIN g.members :
               /\ GroupOfTensor(r, g.members[j].tensor_id) = i
               /\ \A f \in {"name", "rel_offset", "size", "dtype", "shape"} :
                    MemberRead(r, i, j, f) = g.members[j][f]
          /\ \A f \in {"file_id", "offset", "total_size"} : GroupRead(r, i, f) = g[f]
=============================================================================
