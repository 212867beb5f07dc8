--------------------------- MODULE IndexCodec_proofs ---------------------------
(***************************************************************************)
(* A damaged index is refused by both readers or read alike by both, but   *)
(* for a dtype that only one knows to refuse, and what is read finds the   *)
(* groups that were written, for every index the planner can give.  The    *)
(* argument is that the cells a reader has before it are those of the      *)
(* fields it expects, one field behind the other: each read takes the      *)
(* cells of its field, and a loop puts the fields of its items where it    *)
(* stood, whose cells are its own; both validators then judge the same     *)
(* contents.                                                               *)
(***************************************************************************)
EXTENDS IndexCodec, SequenceFacts

HeaderNames == {"magic", "version", "flags", "partition_size", "model_type", "checkpoint_name",
                "num_stages", "num_groups", "num_tensors", "stages", "groups"}
StageNames  == {"name", "is_sparse", "num_groups"}
GroupNames  == {"group_id", "kind", "layer_id", "expert_id", "file_id", "offset", "total_size",
                "num_members", "members"}
MemberNames == {"tensor_id", "name", "rel_offset", "size", "dtype", "shape"}
Records == [part : {"header", "stages", "groups", "members"}, i : Nat, j : Nat,
            field : HeaderNames \cup StageNames \cup GroupNames \cup MemberNames]

(* The fields of an index, and those that are not loops.                   *)
IsField(x, p) ==
  \/ \E f \in HeaderNames : p = Header(f)
  \/ \E i \in 1 .. Len(x.stages), f \in StageNames : p = At("stages", i, 0, f)
  \/ \E i \in 1 .. Len(x.groups), f \in GroupNames : p = At("groups", i, 0, f)
  \/ \E i \in 1 .. Len(x.groups) : \E j \in 1 .. Len(x.groups[i].members), f \in MemberNames :
       p = At("members", i, j, f)
AllFields(x) == {p \in Records : IsField(x, p)}
Leaves(x) == {p \in AllFields(x) : p.field \notin Loops}

(* The cells of each field in the file the readers open: those written,    *)
(* but for the header cells that may have become others.                   *)
CellOf == [magic |-> 1, version |-> 2, flags |-> 3, num_tensors |-> 11]
CellsOf(x, f, p) ==
  CASE p.part = "header"  -> IF p.field \in DOMAIN CellOf THEN <<f[CellOf[p.field]]>> ELSE HeaderField(x, p.field)
    [] p.part = "stages"  -> Packed(x.stages[p.i], p.field)
    [] p.part = "groups"  -> GroupField(x.groups[p.i], p.field)
    [] OTHER              -> Packed(x.groups[p.i].members[p.j], p.field)
Pack(x, f) == [p \in AllFields(x) |-> CellsOf(x, f, p)]

(* What a reader takes from the cells of a field.                          *)
Taken(field, cells) ==
  CASE field \in Strings -> cells[2].text
    [] field = "shape"   -> [d \in 1 .. cells[1].number |-> cells[1 + d].number]
    [] OTHER             -> cells[1].number
Value(x, f, p) == Taken(p.field, Pack(x, f)[p])
Contents(x, f) == [p \in Leaves(x) |-> Value(x, f, p)]

Count(p) == [p EXCEPT !.field = CASE p.field = "stages" -> "num_stages"
                                  [] p.field = "groups" -> "num_groups"
                                  [] OTHER              -> "num_members"]
HeaderFields == Fields(HeaderOrder.writer, "header", 0, 0)

(* The cells from n on are those of the fields e.                          *)
Aligned(x, f, e, n) ==
  LET cells == Spread(Pack(x, f), e)
  IN  /\ Len(PackedIndex(x)) = n + Len(cells)
      /\ \A k \in 1 .. Len(cells) : f[n + k] = cells[k]
(* A string is followed by a field, a loop comes after its count.          *)
Ordered(D, e) ==
  \A k \in DOMAIN e :
    /\ e[k].field \in Strings => k + 1 \in DOMAIN e /\ e[k + 1].field \notin Loops
    /\ e[k].field \in Loops => Count(e[k]) \in D \/ \E h \in 1 .. k - 1 : e[h] = Count(e[k])
Below(p, q) ==
  \/ p = q
  \/ q.field = "stages" /\ p.part = "stages"
  \/ q.field = "groups" /\ p.part \in {"groups", "members"}
  \/ q.field = "members" /\ p.part = "members" /\ p.i = q.i
Covered(x, D, e) == \A p \in Leaves(x) : p \in D \/ \E k \in DOMAIN e : Below(p, e[k])
Known(x, f, g) == DOMAIN g \subseteq Leaves(x) /\ g = [p \in DOMAIN g |-> Value(x, f, p)]
Passed(f, g) == /\ Header("magic") \in DOMAIN g => f[1].number = Magic
                /\ Header("version") \in DOMAIN g => f[2].number = Version

Good(x, f, c, e, g, n) ==
  /\ e \in Seq(AllFields(x)) /\ n \in Nat /\ n <= c
  /\ Aligned(x, f, e, n) /\ Ordered(DOMAIN g, e) /\ Covered(x, DOMAIN g, e)
  /\ Known(x, f, g) /\ Passed(f, g)
(* The next field, which is no loop, is not in the file.                   *)
Stuck(x, c, e, n) ==
  /\ e # <<>> /\ e[1] \in AllFields(x) /\ e[1].field \notin Loops
  /\ n \in Nat /\ n >= c /\ c < Len(PackedIndex(x))
TensorIds(x) == {p \in Leaves(x) : p.field = "tensor_id"}
Bad(x, f, c) ==
  \/ c < Len(PackedIndex(x)) \/ f[1].number # Magic \/ f[2].number # Version
  \/ Cardinality(TensorIds(x)) # f[11].number

(* The validator's verdict is on the contents of the file.                 *)
Accepted(r, x, f) == Validated(r, Assembled(Contents(x, f)))
ReaderInv(r, x, f, c, s, e, g, n) ==
  /\ s = "reading" => Stuck(x, c, e, n) \/ Good(x, f, c, e, g, n)
  /\ s = "done" => c >= Len(PackedIndex(x)) /\ g = Contents(x, f) /\ ~Bad(x, f, c) /\ Accepted(r, x, f)
  /\ s = "raised" => Bad(x, f, c) \/ ~Accepted(r, x, f)

(* A file has the cells written, but for those four.                       *)
Opened(x, f, c) == Aligned(x, f, HeaderFields, 0) /\ c \in Nat
Fresh == /\ expect = [r \in Readers |-> Fields(HeaderOrder[r], "header", 0, 0)]
         /\ got = [r \in Readers |-> <<>>] /\ pos = [r \in Readers |-> 0]
Inv ==
  /\ index \in Indexes \cup Foreign
  /\ \/ file = <<>> /\ status = [r \in Readers |-> "writer"] /\ Fresh
     \/ file = <<>> /\ status = [r \in Readers |-> "raised"]
     \/ file = PackedIndex(index) /\ status = [r \in Readers |-> "writer"] /\ Fresh
     \/ /\ Opened(index, file, end.cells)
        /\ status \in [Readers -> {"reading", "done", "raised"}]
        /\ DOMAIN expect = Readers /\ DOMAIN got = Readers /\ DOMAIN pos = Readers
        /\ \A r \in Readers : ReaderInv(r, index, file, end.cells, status[r], expect[r], got[r], pos[r])
-----------------------------------------------------------------------------
(* The names of the fields.                                                *)
LEMMA HeaderIn == ASSUME NEW x, NEW f \in HeaderNames PROVE Header(f) \in AllFields(x)
<1>2. Header(f) \in Records  BY DEF Header, At, Records
<1>3. IsField(x, Header(f))  BY DEF IsField
<1> QED  BY <1>2, <1>3 DEF AllFields

(* The fields of a stage.                                                  *)
LEMMA StageIn ==
  ASSUME NEW x \in StoreIndex, NEW i \in 1 .. Len(x.stages), NEW f \in StageNames
  PROVE  At("stages", i, 0, f) \in AllFields(x)
<1>1. i \in Nat  OBVIOUS
<1>2. At("stages", i, 0, f) \in Records  BY <1>1 DEF At, Records
<1>3. IsField(x, At("stages", i, 0, f))  BY DEF IsField
<1> QED  BY <1>2, <1>3 DEF AllFields

(* The fields of a group.                                                  *)
LEMMA GroupIn ==
  ASSUME NEW x \in StoreIndex, NEW i \in 1 .. Len(x.groups), NEW f \in GroupNames
  PROVE  At("groups", i, 0, f) \in AllFields(x)
<1>1. i \in Nat  OBVIOUS
<1>2. At("groups", i, 0, f) \in Records  BY <1>1 DEF At, Records
<1>3. IsField(x, At("groups", i, 0, f))  BY DEF IsField
<1> QED  BY <1>2, <1>3 DEF AllFields

(* The fields of a member.                                                 *)
LEMMA MemberIn ==
  ASSUME NEW x \in StoreIndex, NEW i \in 1 .. Len(x.groups), NEW j \in 1 .. Len(x.groups[i].members), NEW f \in MemberNames
  PROVE  At("members", i, j, f) \in AllFields(x)
<1>1. i \in Nat /\ j \in Nat  OBVIOUS
<1>2. At("members", i, j, f) \in Records  BY <1>1 DEF At, Records
<1>3. IsField(x, At("members", i, j, f))  BY DEF IsField
<1> QED  BY <1>2, <1>3 DEF AllFields

(* A packed number, string or shape.                                       *)
Plain == [number : Int, text : Chars]
LeafCells(f, cells) ==
  IF f \in Strings THEN Len(cells) = 2 /\ cells[1].number = Len(cells[2].text) /\ cells[2].text \in Chars
  ELSE IF f = "shape" THEN cells[1].number \in Nat /\ Len(cells) = 1 + cells[1].number
  ELSE Len(cells) = 1
FieldIn(f, v) == IF f \in Strings THEN v \in Chars ELSE IF f = "shape" THEN v \in Seq(Nat) ELSE v \in Int

(* A packed field has as many cells as a reader takes, and what it takes   *)
(* from them is the field.                                                 *)
LEMMA PackedCells ==
  ASSUME NEW rec, NEW f, FieldIn(f, rec[f])
  PROVE  /\ Packed(rec, f) \in Seq(Plain) /\ LeafCells(f, Packed(rec, f))
         /\ Taken(f, Packed(rec, f)) = rec[f]
<1>1. CASE f \in Strings
  <2>0. f # "shape"  BY <1>1 DEF Strings
  <2>1. Packed(rec, f) = <<Number(Len(rec[f])), Text(rec[f])>>  BY <1>1, <2>0, Zenon DEF Packed
  <2>2. rec[f] \in Chars /\ Len(rec[f]) \in Nat  BY <1>1 DEF FieldIn, Chars
  <2>3. Number(Len(rec[f])) \in Plain /\ Text(rec[f]) \in Plain  BY <2>2 DEF Number, Text, Plain, Chars
  <2>4. Taken(f, Packed(rec, f)) = rec[f]  
    <3>1. Taken(f, Packed(rec, f)) = Packed(rec, f)[2].text  BY <1>1, <2>0, Zenon DEF Taken
    <3> QED  BY <2>1, <3>1 DEF Text
  <2>5. LeafCells(f, Packed(rec, f))  BY <1>1, <2>1, <2>2 DEF LeafCells, Number, Text
  <2> QED  BY <2>1, <2>3, <2>4, <2>5
<1>2. CASE f = "shape"
  <2>0. f \notin Strings  BY <1>2 DEF Strings
  <2>1. PICK s \in Seq(Nat) : s = rec[f]  BY <1>2, <2>0 DEF FieldIn
  <2>2. PICK c : c = [d \in DOMAIN s |-> Number(s[d])]  OBVIOUS
  <2>3. c \in Seq(Plain) /\ Len(c) = Len(s) /\ \A d \in 1 .. Len(s) : c[d] = Number(s[d])
    <3>1. PICK n \in Nat : n = Len(s) /\ DOMAIN s = 1 .. n  OBVIOUS
    <3>2. \A d \in 1 .. n : s[d] \in Nat  BY <3>1
    <3>3. \A d \in 1 .. n : Number(s[d]) \in Plain  BY <3>2 DEF Number, Plain, Chars
    <3> QED  BY <2>2, <3>1, <3>3
  <2>4. Packed(rec, f) = <<Number(Len(s))>> \o c
    <3>1. rec.shape = s  BY <1>2, <2>1
    <3> QED  BY <1>2, <2>0, <2>2, <3>1 DEF Packed
  <2>5. Len(s) \in Nat /\ Number(Len(s)) \in Plain  BY DEF Number, Plain, Chars
  <2>a. PICK b : b = <<Number(Len(s))>>  OBVIOUS
  <2>6. b \in Seq(Plain) /\ Len(b) = 1 /\ b[1].number = Len(s)  BY <2>5, <2>a DEF Number
  <2>7. PICK p : p = b \o c  OBVIOUS
  <2>8. p \in Seq(Plain) /\ Len(p) = 1 + Len(s) /\ p[1] = b[1] /\ \A d \in 1 .. Len(s) : p[1 + d] = c[d]
    <3>1. c \in Seq(Plain)  BY <2>3
    <3>2. /\ b \o c \in Seq(Plain) /\ Len(b \o c) = Len(b) + Len(c)
          /\ \A d \in 1 .. Len(b) : (b \o c)[d] = b[d]
          /\ \A d \in 1 .. Len(c) : (b \o c)[Len(b) + d] = c[d]
      <4>1. b \in Seq(Plain) /\ c \in Seq(Plain)  BY <2>6, <3>1
      <4> QED  BY <4>1, ConcatPlaces
    <3> QED  BY <2>3, <2>6, <2>7, <3>2
  <2>9. p = Packed(rec, f) /\ p[1].number = Len(s)  BY <2>4, <2>a, <2>6, <2>7, <2>8
  <2>10. LeafCells(f, p)  BY <1>2, <2>0, <2>5, <2>8, <2>9 DEF LeafCells
  <2>11. Taken(f, p) = s
    <3>1. Taken(f, p) = [d \in 1 .. Len(s) |-> p[1 + d].number]  BY <1>2, <2>0, <2>9 DEF Taken
    <3>2. \A d \in 1 .. Len(s) : p[1 + d].number = s[d]
      <4> TAKE d \in 1 .. Len(s)
      <4>1. p[1 + d] = Number(s[d])  BY <2>3, <2>8
      <4> QED  BY <4>1 DEF Number
    <3> QED  BY <3>1, <3>2
  <2> QED  BY <2>1, <2>8, <2>9, <2>10, <2>11
<1>3. CASE f \notin Strings /\ f # "shape"
  <2>1. Packed(rec, f) = <<Number(rec[f])>> /\ rec[f] \in Int  BY <1>3 DEF Packed, FieldIn
  <2>2. Number(rec[f]) \in Plain  BY <2>1 DEF Number, Plain, Chars
  <2>3. Taken(f, Packed(rec, f)) = rec[f]  BY <1>3, <2>1 DEF Taken, Number
  <2> QED  BY <1>3, <2>1, <2>2, <2>3 DEF LeafCells
<1> QED  BY <1>1, <1>2, <1>3

(* What lies in the file for a field of each part.                         *)
LEMMA PackStage ==
  ASSUME NEW x \in StoreIndex, NEW f, NEW i \in 1 .. Len(x.stages), NEW d \in StageNames
  PROVE  Pack(x, f)[At("stages", i, 0, d)] = Packed(x.stages[i], d)
<1>1. PICK p : p = At("stages", i, 0, d)  OBVIOUS
<1>2. p.part = "stages" /\ p.i = i /\ p.field = d /\ p.part # "header"  BY <1>1 DEF At
<1>3. p \in AllFields(x)  BY <1>1, StageIn
<1>4. CellsOf(x, f, p) = Packed(x.stages[p.i], p.field)
  <2>1. p.part # "groups"  BY <1>2
  <2> QED  BY <1>2, <2>1, Zenon DEF CellsOf
<1> QED  BY <1>1, <1>2, <1>3, <1>4 DEF Pack

(* For a field of a group lies what write_index packs for it.              *)
LEMMA PackGroup ==
  ASSUME NEW x \in StoreIndex, NEW f, NEW i \in 1 .. Len(x.groups), NEW d \in GroupNames
  PROVE  Pack(x, f)[At("groups", i, 0, d)] = GroupField(x.groups[i], d)
<1>1. PICK p : p = At("groups", i, 0, d)  OBVIOUS
<1>2. p.part = "groups" /\ p.i = i /\ p.field = d /\ p.part # "header" /\ p.part # "stages"  BY <1>1 DEF At
<1>3. p \in AllFields(x)  BY <1>1, GroupIn
<1>4. CellsOf(x, f, p) = GroupField(x.groups[p.i], p.field)  BY <1>2, Zenon DEF CellsOf
<1> QED  BY <1>1, <1>2, <1>3, <1>4 DEF Pack

(* For a field of a member lies what write_index packs for it.             *)
LEMMA PackMember ==
  ASSUME NEW x \in StoreIndex, NEW f, NEW i \in 1 .. Len(x.groups),
         NEW j \in 1 .. Len(x.groups[i].members), NEW d \in MemberNames
  PROVE  Pack(x, f)[At("members", i, j, d)] = Packed(x.groups[i].members[j], d)
<1>1. PICK p : p = At("members", i, j, d)  OBVIOUS
<1>2. /\ p.part = "members" /\ p.i = i /\ p.j = j /\ p.field = d
      /\ p.part # "header" /\ p.part # "stages" /\ p.part # "groups"
      BY <1>1 DEF At
<1>3. p \in AllFields(x)  BY <1>1, MemberIn
<1>4. CellsOf(x, f, p) = Packed(x.groups[p.i].members[p.j], p.field)  BY <1>2, Zenon DEF CellsOf
<1> QED  BY <1>1, <1>2, <1>3, <1>4 DEF Pack

Altered == {"magic", "version", "flags", "num_tensors"}
(* For a field of the header lies what write_index packs for it, but for   *)
(* the four cells that may have become others.                             *)
LEMMA PackHeader ==
  ASSUME NEW x \in StoreIndex, NEW f, NEW d \in HeaderNames
  PROVE  Pack(x, f)[Header(d)] = IF d \in Altered THEN <<f[CellOf[d]]>> ELSE HeaderField(x, d)
<1>1. PICK p : p = Header(d)  OBVIOUS
<1>2. p.part = "header" /\ p.field = d  BY <1>1 DEF Header, At
<1>3. p \in AllFields(x)  BY <1>1, HeaderIn
<1>4. DOMAIN CellOf = Altered  BY DEF CellOf, Altered
<1>5. CellsOf(x, f, p) = IF p.field \in DOMAIN CellOf THEN <<f[CellOf[p.field]]>> ELSE HeaderField(x, p.field)
  <2>1. p.part # "stages" /\ p.part # "groups"  BY <1>2
  <2> QED  BY <1>2, <2>1, Zenon DEF CellsOf
<1> QED  BY <1>1, <1>2, <1>3, <1>4, <1>5 DEF Pack

(* The fields of the records are numbers, strings and shapes.              *)
LEMMA MemberTypes ==
  ASSUME NEW x \in StoreIndex, NEW i \in 1 .. Len(x.groups), NEW j \in 1 .. Len(x.groups[i].members),
         NEW d \in MemberNames
  PROVE  FieldIn(d, x.groups[i].members[j][d])
<1>1. x.groups \in Seq(GroupMeta)  BY DEF StoreIndex
<1>2. x.groups[i] \in GroupMeta  BY <1>1
<1>3. x.groups[i].members \in Seq(MemberMeta)  BY <1>2 DEF GroupMeta
<1>4. PICK m \in MemberMeta : m = x.groups[i].members[j]  BY <1>3
<1>5. FieldIn(d, m[d])  BY <1>4 DEF MemberMeta, MemberNames, FieldIn, Strings
<1> QED  BY <1>4, <1>5

(* So are those of a group, its counts apart.                              *)
LEMMA GroupTypes ==
  ASSUME NEW x \in StoreIndex, NEW i \in 1 .. Len(x.groups), NEW d \in GroupNames \ {"num_members", "members"}
  PROVE  FieldIn(d, x.groups[i][d])
<1>1. x.groups \in Seq(GroupMeta)  BY DEF StoreIndex
<1>2. PICK g \in GroupMeta : g = x.groups[i]  BY <1>1
<1>3. FieldIn(d, g[d])  BY <1>2 DEF GroupMeta, GroupNames, FieldIn, Strings
<1> QED  BY <1>2, <1>3

(* So are those of a stage.                                                *)
LEMMA StageTypes ==
  ASSUME NEW x \in StoreIndex, NEW i \in 1 .. Len(x.stages), NEW d \in StageNames
  PROVE  FieldIn(d, x.stages[i][d])
<1>1. x.stages \in Seq(StageMeta)  BY DEF StoreIndex
<1>2. PICK g \in StageMeta : g = x.stages[i]  BY <1>1
<1>3. FieldIn(d, g[d])  BY <1>2 DEF StageMeta, StageNames, FieldIn, Strings
<1> QED  BY <1>2, <1>3

(* So are those of the index.                                              *)
LEMMA IndexTypes ==
  ASSUME NEW x \in StoreIndex, NEW d \in {"partition_size", "model_type", "checkpoint_name"}
  PROVE  FieldIn(d, x[d])
BY DEF StoreIndex, FieldIn, Strings

CellSet(f) == Plain \cup {f[CellOf[d]] : d \in Altered}

(* A sequence over a set is one over a larger set.                         *)
LEMMA SeqWider == ASSUME NEW S, NEW T, S \subseteq T, NEW s \in Seq(S) PROVE s \in Seq(T)
OBVIOUS

(* How many fields the writer packs for each record, and that they are     *)
(* fields of it.                                                           *)
LEMMA WriterOrders ==
  /\ DOMAIN HeaderOrder.writer = 1 .. 11 /\ DOMAIN StageOrder.writer = 1 .. 3
  /\ DOMAIN GroupOrder.writer = 1 .. 9 /\ DOMAIN MemberOrder.writer = 1 .. 6
  /\ \A k \in 1 .. 11 : HeaderOrder.writer[k] \in HeaderNames
  /\ \A k \in 1 .. 3 : StageOrder.writer[k] \in StageNames
  /\ \A k \in 1 .. 9 : GroupOrder.writer[k] \in GroupNames
  /\ \A k \in 1 .. 6 : MemberOrder.writer[k] \in MemberNames
<1>1. DOMAIN HeaderOrder.writer = 1 .. 11 /\ \A k \in 1 .. 11 : HeaderOrder.writer[k] \in HeaderNames
      BY DEF HeaderOrder, HeaderNames
<1>2. DOMAIN StageOrder.writer = 1 .. 3 /\ \A k \in 1 .. 3 : StageOrder.writer[k] \in StageNames
      BY DEF StageOrder, StageNames
<1>3. DOMAIN GroupOrder.writer = 1 .. 9 /\ \A k \in 1 .. 9 : GroupOrder.writer[k] \in GroupNames
      BY DEF GroupOrder, GroupNames
<1>4. DOMAIN MemberOrder.writer = 1 .. 6 /\ \A k \in 1 .. 6 : MemberOrder.writer[k] \in MemberNames
      BY DEF MemberOrder, MemberNames
<1> QED  BY <1>1, <1>2, <1>3, <1>4

(* A field of a group that is no loop: the count of members, or a packed   *)
(* field.                                                                  *)
LEMMA GroupLeaf ==
  ASSUME NEW g, NEW d \in GroupNames \ {"members"}
  PROVE  GroupField(g, d) = IF d = "num_members" THEN <<Number(Len(g.members))>> ELSE Packed(g, d)
<1>1. CASE d = "num_members"
  <2>1. d # "members"  OBVIOUS
  <2> QED  BY <1>1, <2>1, Zenon DEF GroupField
<1>2. CASE d # "num_members"
  <2>1. d # "members"  OBVIOUS
  <2> QED  BY <1>2, <2>1, Zenon DEF GroupField
<1> QED  BY <1>1, <1>2

(* A field of the header that is packed as it stands.                      *)
LEMMA HeaderLeaf ==
  ASSUME NEW x, NEW d \in {"partition_size", "model_type", "checkpoint_name"}
  PROVE  HeaderField(x, d) = Packed(x, d)
<1>1. /\ d # "magic" /\ d # "version" /\ d # "flags" /\ d # "num_stages" /\ d # "num_groups"
      /\ d # "num_tensors" /\ d # "stages" /\ d # "groups"
      OBVIOUS
<1> QED  BY <1>1, Zenon DEF HeaderField

(* The counts of stages and groups in the header.                          *)
LEMMA HeaderCounts ==
  ASSUME NEW x
  PROVE  /\ HeaderField(x, "num_stages") = <<Number(Len(x.stages))>>
         /\ HeaderField(x, "num_groups") = <<Number(Len(x.groups))>>
<1>1. PICK d : d = "num_stages"  OBVIOUS
<1>2. d # "magic" /\ d # "version" /\ d # "flags" /\ d # "num_groups" /\ d # "num_tensors" /\ d # "stages"
      /\ d # "groups"  BY <1>1
<1>3. HeaderField(x, d) = <<Number(Len(x.stages))>>  BY <1>1, <1>2, Zenon DEF HeaderField
<1>4. PICK c : c = "num_groups"  OBVIOUS
<1>5. c # "magic" /\ c # "version" /\ c # "flags" /\ c # "num_stages" /\ c # "num_tensors" /\ c # "stages"
      /\ c # "groups"  BY <1>4
<1>6. HeaderField(x, c) = <<Number(Len(x.groups))>>  BY <1>4, <1>5, Zenon DEF HeaderField
<1> QED  BY <1>1, <1>3, <1>4, <1>6

(* A number is one cell.                                                   *)
LEMMA OneCell ==
  ASSUME NEW n \in Int, NEW d, d \notin Strings, d # "shape"
  PROVE  <<Number(n)>> \in Seq(Plain) /\ LeafCells(d, <<Number(n)>>)
<1>1. Number(n) \in Plain  BY DEF Number, Plain, Chars
<1> QED  BY <1>1 DEF LeafCells

(* An index has finitely many stages, groups and members in each group.    *)
LEMMA Lengths ==
  ASSUME NEW x \in StoreIndex
  PROVE  /\ x.stages \in Seq(StageMeta) /\ Len(x.stages) \in Nat
         /\ x.groups \in Seq(GroupMeta) /\ Len(x.groups) \in Nat
         /\ \A i \in 1 .. Len(x.groups) : /\ x.groups[i].members \in Seq(MemberMeta)
                                          /\ Len(x.groups[i].members) \in Nat
<1>1. x.stages \in Seq(StageMeta) /\ x.groups \in Seq(GroupMeta)  BY DEF StoreIndex
<1>2. ASSUME NEW i \in 1 .. Len(x.groups)
      PROVE  x.groups[i].members \in Seq(MemberMeta) /\ Len(x.groups[i].members) \in Nat
  <2>1. x.groups[i] \in GroupMeta  BY <1>1
  <2> QED  BY <2>1 DEF GroupMeta
<1> QED  BY <1>1, <1>2

(* The cells of a field that is no loop: as many as the reader takes.      *)
LEMMA LeafPacked ==
  ASSUME NEW x \in StoreIndex, NEW f, NEW p \in Leaves(x)
  PROVE  Pack(x, f)[p] \in Seq(CellSet(f)) /\ LeafCells(p.field, Pack(x, f)[p])
<1>0. p \in AllFields(x) /\ IsField(x, p) /\ p.field \notin Loops  BY DEF Leaves, AllFields
<1>s. Plain \subseteq CellSet(f)  BY DEF CellSet
<1>w. ASSUME Pack(x, f)[p] \in Seq(Plain) PROVE Pack(x, f)[p] \in Seq(CellSet(f))
      BY <1>s, <1>w, SeqWider
<1>1. CASE \E d \in HeaderNames : p = Header(d)
  <2>1. PICK d \in HeaderNames : p = Header(d)  BY <1>1
  <2>2. p.field = d /\ d \notin Loops  BY <1>0, <2>1 DEF Header, At
  <2>3. CASE d \in Altered
    <3>1. Pack(x, f)[p] = <<f[CellOf[d]]>>  BY <2>1, <2>3, PackHeader
    <3>2. f[CellOf[d]] \in CellSet(f)  BY <2>3 DEF CellSet
    <3>3. d \notin Strings /\ d # "shape"  BY <2>3 DEF Altered, Strings
    <3> QED  BY <2>2, <3>1, <3>2, <3>3 DEF LeafCells
  <2>4. CASE d \notin Altered
    <3>1. Pack(x, f)[p] = HeaderField(x, d)  BY <2>1, <2>4, PackHeader
    <3>2. d \in {"partition_size", "model_type", "checkpoint_name"} \/ d = "num_stages" \/ d = "num_groups"
          BY <2>2, <2>4 DEF HeaderNames, Altered, Loops
    <3>3. CASE d \in {"partition_size", "model_type", "checkpoint_name"}
      <4>1. FieldIn(d, x[d])  BY <3>3, IndexTypes
      <4>2. Packed(x, d) \in Seq(Plain) /\ LeafCells(d, Packed(x, d))  BY <4>1, PackedCells
      <4>3. HeaderField(x, d) = Packed(x, d)  BY <3>3, HeaderLeaf
      <4> QED  BY <1>w, <2>2, <3>1, <4>2, <4>3
    <3>4. CASE d = "num_stages"
      <4>1. HeaderField(x, d) = <<Number(Len(x.stages))>>  BY <3>4, HeaderCounts
      <4>2. d \notin Strings /\ d # "shape" /\ Len(x.stages) \in Int  BY <3>4, Lengths DEF Strings
      <4>3. <<Number(Len(x.stages))>> \in Seq(Plain) /\ LeafCells(d, <<Number(Len(x.stages))>>)  BY <4>2, OneCell
      <4> QED  BY <1>w, <2>2, <3>1, <4>1, <4>3
    <3>5. CASE d = "num_groups"
      <4>1. HeaderField(x, d) = <<Number(Len(x.groups))>>  BY <3>5, HeaderCounts
      <4>2. d \notin Strings /\ d # "shape" /\ Len(x.groups) \in Int  BY <3>5, Lengths DEF Strings
      <4>3. <<Number(Len(x.groups))>> \in Seq(Plain) /\ LeafCells(d, <<Number(Len(x.groups))>>)  BY <4>2, OneCell
      <4> QED  BY <1>w, <2>2, <3>1, <4>1, <4>3
    <3> QED  BY <3>2, <3>3, <3>4, <3>5
  <2> QED  BY <2>3, <2>4
<1>2. CASE \E i \in 1 .. Len(x.stages), d \in StageNames : p = At("stages", i, 0, d)
  <2>1. PICK i \in 1 .. Len(x.stages), d \in StageNames : p = At("stages", i, 0, d)  BY <1>2
  <2>2. p.field = d  BY <2>1 DEF At
  <2>3. FieldIn(d, x.stages[i][d])  BY StageTypes
  <2>4. Packed(x.stages[i], d) \in Seq(Plain) /\ LeafCells(d, Packed(x.stages[i], d))  BY <2>3, PackedCells
  <2>5. Pack(x, f)[p] = Packed(x.stages[i], d)  BY <2>1, PackStage
  <2> QED  BY <1>w, <2>2, <2>4, <2>5
<1>3. CASE \E i \in 1 .. Len(x.groups), d \in GroupNames : p = At("groups", i, 0, d)
  <2>1. PICK i \in 1 .. Len(x.groups), d \in GroupNames : p = At("groups", i, 0, d)  BY <1>3
  <2>2. p.field = d /\ d # "members"  BY <1>0, <2>1 DEF At, Loops
  <2>3. Pack(x, f)[p] = GroupField(x.groups[i], d)  BY <2>1, PackGroup
  <2>4. GroupField(x.groups[i], d) = IF d = "num_members" THEN <<Number(Len(x.groups[i].members))>>
                                     ELSE Packed(x.groups[i], d)
        BY <2>2, GroupLeaf
  <2>5. CASE d = "num_members"
    <3>1. d \notin Strings /\ d # "shape" /\ Len(x.groups[i].members) \in Int  BY <2>5, Lengths DEF Strings
    <3>2. /\ <<Number(Len(x.groups[i].members))>> \in Seq(Plain)
          /\ LeafCells(d, <<Number(Len(x.groups[i].members))>>)
          BY <3>1, OneCell
    <3> QED  BY <1>w, <2>2, <2>3, <2>4, <2>5, <3>2
  <2>6. CASE d # "num_members"
    <3>1. FieldIn(d, x.groups[i][d])  BY <2>2, <2>6, GroupTypes
    <3>2. Packed(x.groups[i], d) \in Seq(Plain) /\ LeafCells(d, Packed(x.groups[i], d))  BY <3>1, PackedCells
    <3> QED  BY <1>w, <2>2, <2>3, <2>4, <2>6, <3>2
  <2> QED  BY <2>5, <2>6
<1>4. CASE \E i \in 1 .. Len(x.groups) : \E j \in 1 .. Len(x.groups[i].members), d \in MemberNames :
             p = At("members", i, j, d)
  <2>a. PICK i \in 1 .. Len(x.groups) : \E j \in 1 .. Len(x.groups[i].members), d \in MemberNames :
             p = At("members", i, j, d)
        BY <1>4
  <2>1. PICK j \in 1 .. Len(x.groups[i].members), d \in MemberNames : p = At("members", i, j, d)  BY <2>a
  <2>2. p.field = d  BY <2>1 DEF At
  <2>m. PICK m : m = x.groups[i].members[j]  OBVIOUS
  <2>3. FieldIn(d, m[d])  BY <2>m, MemberTypes
  <2>4. Packed(m, d) \in Seq(Plain) /\ LeafCells(d, Packed(m, d))  BY <2>3, PackedCells
  <2>5. Pack(x, f)[p] = Packed(m, d)  BY <2>1, <2>m, PackMember
  <2> QED  BY <1>w, <2>2, <2>4, <2>5
<1> QED  BY <1>0, <1>1, <1>2, <1>3, <1>4 DEF IsField
-----------------------------------------------------------------------------
(* The fields of the items a loop goes through.                            *)
StageItems(x)     == [i \in 1 .. Len(x.stages) |-> Fields(StageOrder.writer, "stages", i, 0)]
GroupItems(x)     == [i \in 1 .. Len(x.groups) |-> Fields(GroupOrder.writer, "groups", i, 0)]
MemberItems(x, i) == [j \in 1 .. Len(x.groups[i].members) |-> Fields(MemberOrder.writer, "members", i, j)]
MemberCells(x, i) == [j \in DOMAIN x.groups[i].members |-> PackedMember(x.groups[i].members[j])]
Inner(x) == {p \in AllFields(x) : p.field \notin {"stages", "groups"}}

(* The fields of a stage, one behind the other, are the packed stage.      *)
LEMMA StageFields ==
  ASSUME NEW x \in StoreIndex, NEW f, NEW i \in 1 .. Len(x.stages), NEW e, e = Fields(StageOrder.writer, "stages", i, 0)
  PROVE  e \in Seq(Leaves(x)) /\ Len(e) = 3 /\ Spread(Pack(x, f), e) = PackedStage(x.stages[i])
<1>1. DOMAIN e = 1 .. 3 /\ \A k \in 1 .. 3 : e[k] = At("stages", i, 0, StageOrder.writer[k])
      BY WriterOrders DEF Fields
<1>2. ASSUME NEW k \in 1 .. 3 PROVE e[k] \in Leaves(x)
  <2>1. StageOrder.writer[k] \in StageNames  BY WriterOrders
  <2>2. e[k] \in AllFields(x)  BY <1>1, <2>1, StageIn
  <2>3. e[k].field \in StageNames  BY <1>1, <2>1 DEF At
  <2>4. e[k].field \notin Loops  BY <2>3 DEF StageNames, Loops
  <2> QED  BY <2>2, <2>4 DEF Leaves
<1>3. e \in Seq(Leaves(x)) /\ Len(e) = 3
  <2>1. ListOf(e, 3, Leaves(x))  BY <1>1, <1>2 DEF Fields, ListOf
  <2> QED  BY <2>1, ListIsSeq
<1>4. Mapped(Pack(x, f), e) = [k \in DOMAIN StageOrder.writer |-> Packed(x.stages[i], StageOrder.writer[k])]
  <2>1. ASSUME NEW k \in 1 .. 3 PROVE Pack(x, f)[e[k]] = Packed(x.stages[i], StageOrder.writer[k])
    <3>1. StageOrder.writer[k] \in StageNames  BY WriterOrders
    <3> QED  BY <1>1, <3>1, PackStage
  <2>2. DOMAIN StageOrder.writer = 1 .. 3  BY WriterOrders
  <2> QED  BY <1>1, <2>1, <2>2 DEF Mapped
<1> QED  BY <1>3, <1>4 DEF Spread, PackedStage

(* The fields of a member are the packed member.                           *)
LEMMA MemberFields ==
  ASSUME NEW x \in StoreIndex, NEW f, NEW i \in 1 .. Len(x.groups), NEW j \in 1 .. Len(x.groups[i].members)
  PROVE  /\ Fields(MemberOrder.writer, "members", i, j) \in Seq(Leaves(x))
         /\ Len(Fields(MemberOrder.writer, "members", i, j)) = 6
         /\ Spread(Pack(x, f), Fields(MemberOrder.writer, "members", i, j)) = PackedMember(x.groups[i].members[j])
<1>e. PICK e : e = Fields(MemberOrder.writer, "members", i, j)  OBVIOUS
<1>1. DOMAIN e = 1 .. 6 /\ \A k \in 1 .. 6 : e[k] = At("members", i, j, MemberOrder.writer[k])
      BY <1>e, WriterOrders DEF Fields
<1>2. ASSUME NEW k \in 1 .. 6 PROVE e[k] \in Leaves(x)
  <2>1. MemberOrder.writer[k] \in MemberNames  BY WriterOrders
  <2>2. e[k] \in AllFields(x)  BY <1>1, <2>1, MemberIn
  <2>3. e[k].field \in MemberNames  BY <1>1, <2>1 DEF At
  <2>4. e[k].field \notin Loops  BY <2>3 DEF MemberNames, Loops
  <2> QED  BY <2>2, <2>4 DEF Leaves
<1>3. e \in Seq(Leaves(x)) /\ Len(e) = 6
  <2>1. ListOf(e, 6, Leaves(x))  BY <1>e, <1>1, <1>2 DEF Fields, ListOf
  <2> QED  BY <2>1, ListIsSeq
<1>m. PICK m : m = x.groups[i].members[j]  OBVIOUS
<1>4. Mapped(Pack(x, f), e) = [k \in DOMAIN MemberOrder.writer |-> Packed(m, MemberOrder.writer[k])]
  <2>1. ASSUME NEW k \in 1 .. 6 PROVE Pack(x, f)[e[k]] = Packed(m, MemberOrder.writer[k])
    <3>1. MemberOrder.writer[k] \in MemberNames  BY WriterOrders
    <3>2. PICK d \in MemberNames : d = MemberOrder.writer[k]  BY <3>1
    <3>3. Pack(x, f)[At("members", i, j, d)] = Packed(x.groups[i].members[j], d)  BY PackMember
    <3> QED  BY <1>1, <1>m, <3>2, <3>3
  <2>2. DOMAIN MemberOrder.writer = 1 .. 6  BY WriterOrders
  <2> QED  BY <1>1, <2>1, <2>2 DEF Mapped
<1> QED  BY <1>e, <1>3, <1>4, <1>m DEF Spread, PackedMember

(* The fields of a group, the loop over its members among them, are the    *)
(* packed group.                                                           *)
LEMMA GroupFields ==
  ASSUME NEW x \in StoreIndex, NEW f, NEW i \in 1 .. Len(x.groups), NEW e, e = Fields(GroupOrder.writer, "groups", i, 0)
  PROVE  e \in Seq(Inner(x)) /\ Len(e) = 9 /\ Spread(Pack(x, f), e) = PackedGroup(x.groups[i])
<1>1. DOMAIN e = 1 .. 9 /\ \A k \in 1 .. 9 : e[k] = At("groups", i, 0, GroupOrder.writer[k])
      BY WriterOrders DEF Fields
<1>2. ASSUME NEW k \in 1 .. 9 PROVE e[k] \in Inner(x)
  <2>1. GroupOrder.writer[k] \in GroupNames  BY WriterOrders
  <2>2. e[k] \in AllFields(x)  BY <1>1, <2>1, GroupIn
  <2>3. e[k].field \in GroupNames  BY <1>1, <2>1 DEF At
  <2>4. e[k].field \notin {"stages", "groups"}  BY <2>3 DEF GroupNames
  <2> QED  BY <2>2, <2>4 DEF Inner
<1>3. e \in Seq(Inner(x)) /\ Len(e) = 9
  <2>1. ListOf(e, 9, Inner(x))  BY <1>1, <1>2 DEF Fields, ListOf
  <2> QED  BY <2>1, ListIsSeq
<1>4. Mapped(Pack(x, f), e) = [k \in DOMAIN GroupOrder.writer |-> GroupField(x.groups[i], GroupOrder.writer[k])]
  <2>1. ASSUME NEW k \in 1 .. 9 PROVE Pack(x, f)[e[k]] = GroupField(x.groups[i], GroupOrder.writer[k])
    <3>1. GroupOrder.writer[k] \in GroupNames  BY WriterOrders
    <3> QED  BY <1>1, <3>1, PackGroup
  <2>2. DOMAIN GroupOrder.writer = 1 .. 9  BY WriterOrders
  <2> QED  BY <1>1, <2>1, <2>2 DEF Mapped
<1> QED  BY <1>3, <1>4 DEF Spread, PackedGroup

(* A packed member consists of cells.                                      *)
LEMMA MemberCellsType ==
  ASSUME NEW x \in StoreIndex, NEW f, NEW i \in 1 .. Len(x.groups), NEW j \in 1 .. Len(x.groups[i].members)
  PROVE  PackedMember(x.groups[i].members[j]) \in Seq(CellSet(f))
<1>1. PICK e : e = Fields(MemberOrder.writer, "members", i, j)  OBVIOUS
<1>2. e \in Seq(Leaves(x)) /\ Spread(Pack(x, f), e) = PackedMember(x.groups[i].members[j])
      BY <1>1, MemberFields
<1>3. Maps(Pack(x, f), Leaves(x), Seq(CellSet(f)))  BY LeafPacked DEF Maps
<1>4. Spread(Pack(x, f), e) \in Seq(CellSet(f))  BY <1>2, <1>3, SpreadType
<1> QED  BY <1>2, <1>4

(* What lies in the file for a loop is what lies there for its items.      *)
LEMMA MemberLoop ==
  ASSUME NEW x \in StoreIndex, NEW f, NEW i \in 1 .. Len(x.groups), NEW p, p = At("groups", i, 0, "members"),
         NEW tt, tt = MemberCells(x, i)
  PROVE  Pack(x, f)[p] = FlattenSeq(tt) /\ tt \in Seq(Seq(CellSet(f))) /\ Len(tt) = Len(x.groups[i].members)
<1>0. tt = [j \in DOMAIN x.groups[i].members |-> PackedMember(x.groups[i].members[j])]  BY DEF MemberCells
<1>1. PICK g : g = x.groups[i]  OBVIOUS
<1>2. Pack(x, f)[p] = GroupField(g, "members")
  <2>1. "members" \in GroupNames  BY DEF GroupNames
  <2> QED  BY <1>1, <2>1, PackGroup
<1>3. GroupField(g, "members") = FlattenSeq([j \in DOMAIN g.members |-> PackedMember(g.members[j])])
  <2>1. PICK d : d = "members"  OBVIOUS
  <2>2. d # "num_members"  BY <2>1
  <2>3. GroupField(g, d) = FlattenSeq([j \in DOMAIN g.members |-> PackedMember(g.members[j])])
        BY <2>1, <2>2, Zenon DEF GroupField
  <2> QED  BY <2>1, <2>3
<1>4. PICK n \in Nat : n = Len(g.members) /\ DOMAIN g.members = 1 .. n
  <2>1. g.members \in Seq(MemberMeta)  BY <1>1, Lengths
  <2> QED  BY <2>1
<1>5. ASSUME NEW j \in 1 .. n PROVE tt[j] \in Seq(CellSet(f))
  <2>1. j \in 1 .. Len(x.groups[i].members)  BY <1>1, <1>4
  <2>2. PackedMember(x.groups[i].members[j]) \in Seq(CellSet(f))  BY <2>1, MemberCellsType
  <2>3. tt[j] = PackedMember(x.groups[i].members[j])  BY <1>0, <1>1, <1>4
  <2> QED  BY <2>2, <2>3
<1>6. ListOf(tt, n, Seq(CellSet(f)))  BY <1>0, <1>1, <1>4, <1>5 DEF ListOf
<1>7. tt \in Seq(Seq(CellSet(f))) /\ Len(tt) = n  BY <1>6, ListIsSeq
<1> QED  BY <1>0, <1>1, <1>2, <1>3, <1>4, <1>7

(* For the loop over the stages lie the packed stages.                     *)
LEMMA StageLoop ==
  ASSUME NEW x \in StoreIndex, NEW f, NEW tt, tt = [j \in DOMAIN x.stages |-> PackedStage(x.stages[j])]
  PROVE  /\ Pack(x, f)[Header("stages")] = FlattenSeq(tt)
         /\ tt \in Seq(Seq(CellSet(f))) /\ Len(tt) = Len(x.stages)
<1>2. Pack(x, f)[Header("stages")] = HeaderField(x, "stages")
  <2>1. "stages" \in HeaderNames /\ "stages" \notin Altered  BY DEF HeaderNames, Altered
  <2> QED  BY <2>1, PackHeader
<1>3. HeaderField(x, "stages") = FlattenSeq([j \in DOMAIN x.stages |-> PackedStage(x.stages[j])])
  <2>1. PICK d : d = "stages"  OBVIOUS
  <2>2. d # "magic" /\ d # "version" /\ d # "flags" /\ d # "num_stages" /\ d # "num_tensors" /\ d # "num_groups"
        /\ d # "groups"
        BY <2>1
  <2>3. HeaderField(x, d) = FlattenSeq([j \in DOMAIN x.stages |-> PackedStage(x.stages[j])])
        BY <2>1, <2>2, Zenon DEF HeaderField
  <2> QED  BY <2>1, <2>3
<1>4. PICK n \in Nat : n = Len(x.stages) /\ DOMAIN x.stages = 1 .. n
  <2>1. x.stages \in Seq(StageMeta)  BY Lengths
  <2> QED  BY <2>1
<1>5. ASSUME NEW j \in 1 .. n PROVE tt[j] \in Seq(CellSet(f))
  <2>1. PICK e : e = Fields(StageOrder.writer, "stages", j, 0)  OBVIOUS
  <2>2. e \in Seq(Leaves(x)) /\ Spread(Pack(x, f), e) = PackedStage(x.stages[j])
        BY <1>4, <2>1, StageFields
  <2>3. Maps(Pack(x, f), Leaves(x), Seq(CellSet(f)))  BY LeafPacked DEF Maps
  <2>4. Spread(Pack(x, f), e) \in Seq(CellSet(f))  BY <2>2, <2>3, SpreadType
  <2>5. tt[j] = PackedStage(x.stages[j])  BY <1>4
  <2> QED  BY <2>2, <2>4, <2>5
<1>6. ListOf(tt, n, Seq(CellSet(f)))  BY <1>4, <1>5 DEF ListOf
<1>7. tt \in Seq(Seq(CellSet(f))) /\ Len(tt) = n  BY <1>6, ListIsSeq
<1> QED  BY <1>2, <1>3, <1>4, <1>7

(* The loops there are.                                                    *)
LEMMA LoopIs ==
  ASSUME NEW x, NEW p \in AllFields(x), p.field \in Loops
  PROVE  \/ p = Header("stages") \/ p = Header("groups")
         \/ \E i \in 1 .. Len(x.groups) : p = At("groups", i, 0, "members")
<1>0. IsField(x, p)  BY DEF AllFields
<1>1. CASE \E d \in HeaderNames : p = Header(d)
  <2>1. PICK d \in HeaderNames : p = Header(d)  BY <1>1
  <2>2. d \in Loops  BY <2>1 DEF Header, At
  <2>3. d = "stages" \/ d = "groups"  BY <2>2 DEF HeaderNames, Loops
  <2> QED  BY <2>1, <2>3
<1>2. CASE \E i \in 1 .. Len(x.stages), d \in StageNames : p = At("stages", i, 0, d)
      BY <1>2 DEF At, StageNames, Loops
<1>3. CASE \E i \in 1 .. Len(x.groups), d \in GroupNames : p = At("groups", i, 0, d)
  <2>1. PICK i \in 1 .. Len(x.groups), d \in GroupNames : p = At("groups", i, 0, d)  BY <1>3
  <2>2. d \in Loops  BY <2>1 DEF At
  <2>3. d = "members"  BY <2>2 DEF GroupNames, Loops
  <2> QED  BY <2>1, <2>3
<1>4. CASE \E i \in 1 .. Len(x.groups) : \E j \in 1 .. Len(x.groups[i].members), d \in MemberNames :
             p = At("members", i, j, d)
      BY <1>4 DEF At, MemberNames, Loops
<1> QED  BY <1>0, <1>1, <1>2, <1>3, <1>4 DEF IsField

(* Every field but the two loops of the header stands for a sequence of    *)
(* cells.                                                                  *)
LEMMA InnerMaps == ASSUME NEW x \in StoreIndex, NEW f PROVE Maps(Pack(x, f), Inner(x), Seq(CellSet(f)))
<1> SUFFICES ASSUME NEW p \in Inner(x) PROVE Pack(x, f)[p] \in Seq(CellSet(f))
    BY DEF Maps
<1>1. CASE p \in Leaves(x)  BY <1>1, LeafPacked
<1>2. CASE p \notin Leaves(x)
  <2>1. IsField(x, p) /\ p.field = "members"  BY <1>2 DEF Inner, Leaves, AllFields, Loops
  <2>2. \E i \in 1 .. Len(x.groups) : p = At("groups", i, 0, "members")
    <3>1. p \in AllFields(x) /\ p.field \in Loops  BY <2>1 DEF Inner, Loops
    <3>2. p # Header("stages") /\ p # Header("groups")  BY <2>1 DEF Header, At
    <3> QED  BY <3>1, <3>2, LoopIs
  <2>3. PICK i \in 1 .. Len(x.groups) : p = At("groups", i, 0, "members")  BY <2>2
  <2>4. PICK tt : tt = MemberCells(x, i)  OBVIOUS
  <2>5. Pack(x, f)[p] = FlattenSeq(tt) /\ tt \in Seq(Seq(CellSet(f)))  BY <2>3, <2>4, MemberLoop
  <2> QED  BY <2>5, FlattenSeqType
<1> QED  BY <1>1, <1>2

(* For the loop over the groups lie the packed groups.                     *)
LEMMA GroupLoop ==
  ASSUME NEW x \in StoreIndex, NEW f, NEW tt, tt = [j \in DOMAIN x.groups |-> PackedGroup(x.groups[j])]
  PROVE  /\ Pack(x, f)[Header("groups")] = FlattenSeq(tt)
         /\ tt \in Seq(Seq(CellSet(f))) /\ Len(tt) = Len(x.groups)
<1>2. Pack(x, f)[Header("groups")] = HeaderField(x, "groups")
  <2>1. "groups" \in HeaderNames /\ "groups" \notin Altered  BY DEF HeaderNames, Altered
  <2> QED  BY <2>1, PackHeader
<1>3. HeaderField(x, "groups") = FlattenSeq([j \in DOMAIN x.groups |-> PackedGroup(x.groups[j])])
  <2>1. PICK d : d = "groups"  OBVIOUS
  <2>2. d # "magic" /\ d # "version" /\ d # "flags" /\ d # "num_stages" /\ d # "num_tensors" /\ d # "num_groups"
        /\ d # "stages"
        BY <2>1
  <2>3. HeaderField(x, d) = FlattenSeq([j \in DOMAIN x.groups |-> PackedGroup(x.groups[j])])
        BY <2>1, <2>2, Zenon DEF HeaderField
  <2> QED  BY <2>1, <2>3
<1>4. PICK n \in Nat : n = Len(x.groups) /\ DOMAIN x.groups = 1 .. n
  <2>1. x.groups \in Seq(GroupMeta)  BY Lengths
  <2> QED  BY <2>1
<1>5. ASSUME NEW j \in 1 .. n PROVE tt[j] \in Seq(CellSet(f))
  <2>1. PICK e : e = Fields(GroupOrder.writer, "groups", j, 0)  OBVIOUS
  <2>2. e \in Seq(Inner(x)) /\ Spread(Pack(x, f), e) = PackedGroup(x.groups[j])
        BY <1>4, <2>1, GroupFields
  <2>4. Spread(Pack(x, f), e) \in Seq(CellSet(f))  BY <2>2, InnerMaps, SpreadType
  <2>5. tt[j] = PackedGroup(x.groups[j])  BY <1>4
  <2> QED  BY <2>2, <2>4, <2>5
<1>6. ListOf(tt, n, Seq(CellSet(f)))  BY <1>4, <1>5 DEF ListOf
<1>7. tt \in Seq(Seq(CellSet(f))) /\ Len(tt) = n  BY <1>6, ListIsSeq
<1> QED  BY <1>2, <1>3, <1>4, <1>7

(* Every field stands for a sequence of cells.                             *)
LEMMA PackMaps == ASSUME NEW x \in StoreIndex, NEW f PROVE Maps(Pack(x, f), AllFields(x), Seq(CellSet(f)))
<1> SUFFICES ASSUME NEW p \in AllFields(x) PROVE Pack(x, f)[p] \in Seq(CellSet(f))
    BY DEF Maps
<1>1. CASE p.field \notin {"stages", "groups"}
  <2>1. p \in Inner(x)  BY <1>1 DEF Inner
  <2> QED  BY <2>1, InnerMaps DEF Maps
<1>2. CASE p.field \in {"stages", "groups"}
  <2>1. p = Header("stages") \/ p = Header("groups")
    <3>1. p.field \in Loops  BY <1>2 DEF Loops
    <3>2. ~ \E i \in 1 .. Len(x.groups) : p = At("groups", i, 0, "members")  BY <1>2 DEF At
    <3> QED  BY <3>1, <3>2, LoopIs
  <2>2. CASE p = Header("stages")
    <3>1. PICK tt : tt = [j \in DOMAIN x.stages |-> PackedStage(x.stages[j])]  OBVIOUS
    <3>2. Pack(x, f)[p] = FlattenSeq(tt) /\ tt \in Seq(Seq(CellSet(f)))  BY <2>2, <3>1, StageLoop
    <3> QED  BY <3>2, FlattenSeqType
  <2>3. CASE p = Header("groups")
    <3>1. PICK tt : tt = [j \in DOMAIN x.groups |-> PackedGroup(x.groups[j])]  OBVIOUS
    <3>2. Pack(x, f)[p] = FlattenSeq(tt) /\ tt \in Seq(Seq(CellSet(f)))  BY <2>3, <3>1, GroupLoop
    <3> QED  BY <3>2, FlattenSeqType
  <2> QED  BY <2>1, <2>2, <2>3
<1> QED  BY <1>1, <1>2
-----------------------------------------------------------------------------
(* The orders of the fields: a string is followed by a number or a shape,  *)
(* the members of a group come right after their count.                    *)
LEMMA OrderFacts ==
  /\ \A k \in 1 .. 3 : StageOrder.writer[k] \notin Loops /\ (StageOrder.writer[k] \in Strings => k # 3)
  /\ \A k \in 1 .. 6 : MemberOrder.writer[k] \notin Loops /\ (MemberOrder.writer[k] \in Strings => k # 6)
  /\ \A k \in 1 .. 9 : GroupOrder.writer[k] \notin Strings /\ (GroupOrder.writer[k] \in Loops => k = 9)
  /\ GroupOrder.writer[9] = "members" /\ GroupOrder.writer[8] = "num_members"
<1>1. \A k \in 1 .. 3 : StageOrder.writer[k] \notin Loops /\ (StageOrder.writer[k] \in Strings => k # 3)
      BY DEF StageOrder, Loops, Strings
<1>2. \A k \in 1 .. 6 : MemberOrder.writer[k] \notin Loops /\ (MemberOrder.writer[k] \in Strings => k # 6)
      BY DEF MemberOrder, Loops, Strings
<1>3. \A k \in 1 .. 9 : GroupOrder.writer[k] \notin Strings /\ (GroupOrder.writer[k] \in Loops => k = 9)
      BY DEF GroupOrder, Loops, Strings
<1>4. GroupOrder.writer[9] = "members" /\ GroupOrder.writer[8] = "num_members"  BY DEF GroupOrder
<1> QED  BY <1>1, <1>2, <1>3, <1>4

(* Where the strings, the counts and the loops are in the header.          *)
LEMMA HeaderFacts ==
  /\ \A k \in 1 .. 11 : HeaderOrder.writer[k] \in Strings => k \in {5, 6}
  /\ \A k \in 1 .. 11 : HeaderOrder.writer[k] \in Loops => k \in {10, 11}
  /\ HeaderOrder.writer[6] \notin Loops /\ HeaderOrder.writer[7] = "num_stages" /\ HeaderOrder.writer[8] = "num_groups"
  /\ HeaderOrder.writer[10] = "stages" /\ HeaderOrder.writer[11] = "groups"
<1>1. \A k \in 1 .. 11 : HeaderOrder.writer[k] \in Strings => k \in {5, 6}  BY DEF HeaderOrder, Strings
<1>2. \A k \in 1 .. 11 : HeaderOrder.writer[k] \in Loops => k \in {10, 11}  BY DEF HeaderOrder, Loops
<1>3. HeaderOrder.writer[6] \notin Loops  BY DEF HeaderOrder, Loops
<1>4. HeaderOrder.writer[7] = "num_stages" /\ HeaderOrder.writer[8] = "num_groups"  BY DEF HeaderOrder
<1>5. HeaderOrder.writer[10] = "stages" /\ HeaderOrder.writer[11] = "groups"  BY DEF HeaderOrder
<1> QED  BY <1>1, <1>2, <1>3, <1>4, <1>5

(* The writer packs every field of a record.                               *)
LEMMA EveryName ==
  /\ \A d \in HeaderNames : \E k \in 1 .. 11 : HeaderOrder.writer[k] = d
  /\ \A d \in StageNames : \E k \in 1 .. 3 : StageOrder.writer[k] = d
  /\ \A d \in GroupNames : \E k \in 1 .. 9 : GroupOrder.writer[k] = d
  /\ \A d \in MemberNames : \E k \in 1 .. 6 : MemberOrder.writer[k] = d
<1>1. \A d \in HeaderNames : \E k \in 1 .. 11 : HeaderOrder.writer[k] = d  BY DEF HeaderOrder, HeaderNames
<1>2. \A d \in StageNames : \E k \in 1 .. 3 : StageOrder.writer[k] = d  BY DEF StageOrder, StageNames
<1>3. \A d \in GroupNames : \E k \in 1 .. 9 : GroupOrder.writer[k] = d  BY DEF GroupOrder, GroupNames
<1>4. \A d \in MemberNames : \E k \in 1 .. 6 : MemberOrder.writer[k] = d  BY DEF MemberOrder, MemberNames
<1> QED  BY <1>1, <1>2, <1>3, <1>4

(* In a list of fields strings are followed and loops preceded at once.    *)
InOrder(e) ==
  \A k \in DOMAIN e : /\ e[k].field \in Strings => k # Len(e) /\ e[k + 1].field \notin Loops
                      /\ e[k].field \in Loops => k # 1 /\ e[k - 1] = Count(e[k])

(* Items that are each in order are in order one behind the other.         *)
LEMMA FlattenOrdered ==
  ASSUME NEW A, NEW ss \in Seq(Seq(A)), \A i \in DOMAIN ss : InOrder(ss[i])
  PROVE  Ordered({}, FlattenSeq(ss))
<1>1. PICK u : u = FlattenSeq(ss)  OBVIOUS
<1>2. u \in Seq(A)  BY <1>1, FlattenSeqType
<1>3. ASSUME NEW k \in DOMAIN u
      PROVE  /\ u[k].field \in Strings => k + 1 \in DOMAIN u /\ u[k + 1].field \notin Loops
             /\ u[k].field \in Loops => \E h \in 1 .. k - 1 : u[h] = Count(u[k])
  <2>a. PICK i \in DOMAIN ss : \E j \in DOMAIN ss[i] : Beside(u, k, ss[i], j)
    <3>1. k \in DOMAIN FlattenSeq(ss)  BY <1>1
    <3>2. \E i \in DOMAIN ss : \E j \in DOMAIN ss[i] : Beside(FlattenSeq(ss), k, ss[i], j)
          BY <3>1, FlattenSeqWhere
    <3> QED  BY <1>1, <3>2
  <2>1. PICK j \in DOMAIN ss[i] : Beside(u, k, ss[i], j)  BY <2>a
  <2>2. /\ ss[i][j].field \in Strings => j # Len(ss[i]) /\ ss[i][j + 1].field \notin Loops
        /\ ss[i][j].field \in Loops => j # 1 /\ ss[i][j - 1] = Count(ss[i][j])
    <3>1. InOrder(ss[i])  OBVIOUS
    <3> QED  BY <3>1 DEF InOrder
  <2>3. u[k].field \in Strings => k + 1 \in DOMAIN u /\ u[k + 1].field \notin Loops  BY <2>1, <2>2 DEF Beside
  <2>4. ASSUME u[k].field \in Loops PROVE \E h \in 1 .. k - 1 : u[h] = Count(u[k])
    <3>1. k - 1 \in DOMAIN u /\ u[k - 1] = Count(u[k])  BY <2>1, <2>2, <2>4 DEF Beside
    <3>2. k - 1 \in 1 .. k - 1  BY <1>2, <3>1
    <3> QED  BY <3>1, <3>2
  <2> QED  BY <2>3, <2>4
<1> QED  BY <1>1, <1>3 DEF Ordered

(* Fields without a loop that do not end in a string are in order.         *)
LEMMA PlainInOrder ==
  ASSUME NEW e, NEW n \in Nat, DOMAIN e = 1 .. n, Len(e) = n,
         \A k \in 1 .. n : e[k].field \notin Loops /\ (e[k].field \in Strings => k # n)
  PROVE  InOrder(e)
<1> SUFFICES ASSUME NEW k \in 1 .. n, e[k].field \in Strings PROVE k # n /\ e[k + 1].field \notin Loops
    BY DEF InOrder
<1>1. k # n  OBVIOUS
<1>2. k + 1 \in 1 .. n  BY <1>1
<1> QED  BY <1>1, <1>2

(* The fields of a stage are in order.                                     *)
LEMMA StageInOrder ==
  ASSUME NEW i, NEW e, e = Fields(StageOrder.writer, "stages", i, 0), Len(e) = 3 PROVE InOrder(e)
<1>1. DOMAIN e = 1 .. 3 /\ \A k \in 1 .. 3 : e[k] = At("stages", i, 0, StageOrder.writer[k])
      BY WriterOrders DEF Fields
<1>2. \A k \in 1 .. 3 : e[k].field \notin Loops /\ (e[k].field \in Strings => k # 3)
  <2> TAKE k \in 1 .. 3
  <2>1. e[k].field = StageOrder.writer[k]  BY <1>1 DEF At
  <2> QED  BY <2>1, OrderFacts
<1> QED  BY <1>1, <1>2, PlainInOrder

(* The fields of a member are in order.                                    *)
LEMMA MemberInOrder ==
  ASSUME NEW i, NEW j, NEW e, e = Fields(MemberOrder.writer, "members", i, j), Len(e) = 6 PROVE InOrder(e)
<1>1. DOMAIN e = 1 .. 6 /\ \A k \in 1 .. 6 : e[k] = At("members", i, j, MemberOrder.writer[k])
      BY WriterOrders DEF Fields
<1>2. \A k \in 1 .. 6 : e[k].field \notin Loops /\ (e[k].field \in Strings => k # 6)
  <2> TAKE k \in 1 .. 6
  <2>1. e[k].field = MemberOrder.writer[k]  BY <1>1 DEF At
  <2> QED  BY <2>1, OrderFacts
<1> QED  BY <1>1, <1>2, PlainInOrder

(* The fields of a group are in order: the loop over the members is the    *)
(* last, behind their count.                                               *)
LEMMA GroupInOrder ==
  ASSUME NEW i, NEW e, e = Fields(GroupOrder.writer, "groups", i, 0), Len(e) = 9 PROVE InOrder(e)
<1>1. DOMAIN e = 1 .. 9 /\ \A k \in 1 .. 9 : e[k] = At("groups", i, 0, GroupOrder.writer[k])
      BY WriterOrders DEF Fields
<1> SUFFICES ASSUME NEW k \in 1 .. 9
             PROVE  /\ e[k].field \in Strings => k # 9 /\ e[k + 1].field \notin Loops
                    /\ e[k].field \in Loops => k # 1 /\ e[k - 1] = Count(e[k])
    BY <1>1 DEF InOrder
<1>2. e[k].field = GroupOrder.writer[k]  BY <1>1 DEF At
<1>3. e[k].field \notin Strings  BY <1>2, OrderFacts
<1>4. ASSUME e[k].field \in Loops PROVE k # 1 /\ e[k - 1] = Count(e[k])
  <2>1. k = 9  BY <1>2, <1>4, OrderFacts
  <2>2. e[9] = At("groups", i, 0, "members") /\ e[8] = At("groups", i, 0, "num_members")  BY <1>1, OrderFacts
  <2>3. Count(At("groups", i, 0, "members")) = At("groups", i, 0, "num_members")
    <3>1. PICK p : p = At("groups", i, 0, "members")  OBVIOUS
    <3>2. p.field # "stages" /\ p.field # "groups"  BY <3>1 DEF At
    <3>3. Count(p) = [p EXCEPT !.field = "num_members"]  BY <3>2, Zenon DEF Count
    <3> QED  BY <3>1, <3>3 DEF At
  <2> QED  BY <2>1, <2>2, <2>3
<1> QED  BY <1>3, <1>4

(* A loop gives way to the fields of its items: they have its cells, are   *)
(* in order, and all that is below the loop is below one of them.          *)
Unfolds(x, f, p, u) ==
  /\ u \in Seq(AllFields(x)) /\ Spread(Pack(x, f), u) = Pack(x, f)[p] /\ Ordered({}, u)
  /\ \A q \in Leaves(x) : Below(q, p) => \E k \in DOMAIN u : Below(q, u[k])

(* The loop over the stages unfolds into the fields of the stages.         *)
LEMMA UnfoldStages ==
  ASSUME NEW x \in StoreIndex, NEW f PROVE Unfolds(x, f, Header("stages"), FlattenSeq(StageItems(x)))
<1>1. PICK ss : ss = StageItems(x)  OBVIOUS
<1>2. PICK n \in Nat : n = Len(x.stages) /\ DOMAIN x.stages = 1 .. n  BY Lengths
<1>3. DOMAIN ss = 1 .. n /\ \A i \in 1 .. n : ss[i] = Fields(StageOrder.writer, "stages", i, 0)
      BY <1>1, <1>2 DEF StageItems
<1>4. ASSUME NEW i \in 1 .. n
      PROVE  /\ ss[i] \in Seq(Leaves(x)) /\ Len(ss[i]) = 3 /\ ss[i] \in Seq(AllFields(x)) /\ InOrder(ss[i])
             /\ Spread(Pack(x, f), ss[i]) = PackedStage(x.stages[i])
  <2>1. PICK e : e = Fields(StageOrder.writer, "stages", i, 0)  OBVIOUS
  <2>2. e \in Seq(Leaves(x)) /\ Len(e) = 3 /\ Spread(Pack(x, f), e) = PackedStage(x.stages[i])
        BY <1>2, <2>1, StageFields
  <2>3. InOrder(e)  BY <2>1, <2>2, StageInOrder
  <2>4. Leaves(x) \subseteq AllFields(x)  BY DEF Leaves
  <2>5. e \in Seq(AllFields(x))  BY <2>2, <2>4, SeqWider
  <2> QED  BY <1>3, <2>1, <2>2, <2>3, <2>5
<1>5. ss \in Seq(Seq(AllFields(x))) /\ Len(ss) = n
  <2>1. ListOf(ss, n, Seq(AllFields(x)))  BY <1>1, <1>2, <1>3, <1>4 DEF ListOf, StageItems
  <2> QED  BY <2>1, ListIsSeq
<1>6. PICK u : u = FlattenSeq(ss)  OBVIOUS
<1>7. u \in Seq(AllFields(x))  BY <1>5, <1>6, FlattenSeqType
<1>8. Spread(Pack(x, f), u) = Pack(x, f)[Header("stages")]
  <2>1. PICK tt : tt = [j \in DOMAIN x.stages |-> PackedStage(x.stages[j])]  OBVIOUS
  <2>2. /\ Pack(x, f)[Header("stages")] = FlattenSeq(tt) /\ tt \in Seq(Seq(CellSet(f))) /\ Len(tt) = Len(ss)
        BY <1>2, <1>5, <2>1, StageLoop
  <2>3. \A i \in 1 .. Len(ss) : tt[i] = Spread(Pack(x, f), ss[i])  BY <1>2, <1>4, <1>5, <2>1
  <2>4. Maps(Pack(x, f), AllFields(x), Seq(CellSet(f)))  BY PackMaps
  <2>5. Spread(Pack(x, f), FlattenSeq(ss)) = FlattenSeq(tt)  BY <1>5, <2>2, <2>3, <2>4, SpreadFlatten
  <2> QED  BY <1>6, <2>2, <2>5
<1>9. Ordered({}, u)
  <2>1. \A i \in DOMAIN ss : InOrder(ss[i])  BY <1>3, <1>4
  <2> QED  BY <1>5, <1>6, <2>1, FlattenOrdered
<1>10. ASSUME NEW q \in Leaves(x), Below(q, Header("stages")) PROVE \E k \in DOMAIN u : Below(q, u[k])
  <2>1. q.part = "stages"
    <3>1. q # Header("stages")  BY DEF Leaves, Loops, Header, At
    <3> QED  BY <1>10, <3>1 DEF Below, Header, At
  <2>2. IsField(x, q)  BY DEF Leaves, AllFields
  <2>3. PICK i \in 1 .. n, d \in StageNames : q = At("stages", i, 0, d)
        BY <1>2, <2>1, <2>2 DEF IsField, Header, At
  <2>4. PICK j \in 1 .. 3 : StageOrder.writer[j] = d  BY EveryName
  <2>5. ss[i][j] = q  BY <1>3, <2>3, <2>4, WriterOrders DEF Fields
  <2>6. i \in 1 .. Len(ss) /\ j \in 1 .. Len(ss[i])  BY <1>4, <1>5
  <2>7. \E k \in DOMAIN FlattenSeq(ss) : FlattenSeq(ss)[k] = ss[i][j]  BY <1>5, <2>6, FlattenSeqHas
  <2> QED  BY <1>6, <2>5, <2>7 DEF Below
<1> QED  BY <1>1, <1>6, <1>7, <1>8, <1>9, <1>10 DEF Unfolds

(* The loop over the groups unfolds into the fields of the groups.         *)
LEMMA UnfoldGroups ==
  ASSUME NEW x \in StoreIndex, NEW f PROVE Unfolds(x, f, Header("groups"), FlattenSeq(GroupItems(x)))
<1>1. PICK ss : ss = GroupItems(x)  OBVIOUS
<1>2. PICK n \in Nat : n = Len(x.groups) /\ DOMAIN x.groups = 1 .. n  BY Lengths
<1>3. DOMAIN ss = 1 .. n /\ \A i \in 1 .. n : ss[i] = Fields(GroupOrder.writer, "groups", i, 0)
      BY <1>1, <1>2 DEF GroupItems
<1>4. ASSUME NEW i \in 1 .. n
      PROVE  /\ Len(ss[i]) = 9 /\ ss[i] \in Seq(AllFields(x)) /\ InOrder(ss[i])
             /\ Spread(Pack(x, f), ss[i]) = PackedGroup(x.groups[i])
  <2>1. PICK e : e = Fields(GroupOrder.writer, "groups", i, 0)  OBVIOUS
  <2>2. e \in Seq(Inner(x)) /\ Len(e) = 9 /\ Spread(Pack(x, f), e) = PackedGroup(x.groups[i])
        BY <1>2, <2>1, GroupFields
  <2>3. InOrder(e)  BY <2>1, <2>2, GroupInOrder
  <2>4. Inner(x) \subseteq AllFields(x)  BY DEF Inner
  <2>5. e \in Seq(AllFields(x))  BY <2>2, <2>4, SeqWider
  <2> QED  BY <1>3, <2>1, <2>2, <2>3, <2>5
<1>5. ss \in Seq(Seq(AllFields(x))) /\ Len(ss) = n
  <2>1. ListOf(ss, n, Seq(AllFields(x)))  BY <1>1, <1>2, <1>3, <1>4 DEF ListOf, GroupItems
  <2> QED  BY <2>1, ListIsSeq
<1>6. PICK u : u = FlattenSeq(ss)  OBVIOUS
<1>7. u \in Seq(AllFields(x))  BY <1>5, <1>6, FlattenSeqType
<1>8. Spread(Pack(x, f), u) = Pack(x, f)[Header("groups")]
  <2>1. PICK tt : tt = [j \in DOMAIN x.groups |-> PackedGroup(x.groups[j])]  OBVIOUS
  <2>2. /\ Pack(x, f)[Header("groups")] = FlattenSeq(tt) /\ tt \in Seq(Seq(CellSet(f))) /\ Len(tt) = Len(ss)
        BY <1>2, <1>5, <2>1, GroupLoop
  <2>3. \A i \in 1 .. Len(ss) : tt[i] = Spread(Pack(x, f), ss[i])  BY <1>2, <1>4, <1>5, <2>1
  <2>4. Maps(Pack(x, f), AllFields(x), Seq(CellSet(f)))  BY PackMaps
  <2>5. Spread(Pack(x, f), FlattenSeq(ss)) = FlattenSeq(tt)  BY <1>5, <2>2, <2>3, <2>4, SpreadFlatten
  <2> QED  BY <1>6, <2>2, <2>5
<1>9. Ordered({}, u)
  <2>1. \A i \in DOMAIN ss : InOrder(ss[i])  BY <1>3, <1>4
  <2> QED  BY <1>5, <1>6, <2>1, FlattenOrdered
<1>10. ASSUME NEW q \in Leaves(x), Below(q, Header("groups")) PROVE \E k \in DOMAIN u : Below(q, u[k])
  <2>1. q.part \in {"groups", "members"}
    <3>1. q # Header("groups")  BY DEF Leaves, Loops, Header, At
    <3> QED  BY <1>10, <3>1 DEF Below, Header, At
  <2>2. IsField(x, q)  BY DEF Leaves, AllFields
  <2>3. \E i \in 1 .. n : \E j \in 1 .. 9 :
          q = At("groups", i, 0, GroupOrder.writer[j]) \/ (j = 9 /\ q.part = "members" /\ q.i = i)
    <3>1. CASE q.part = "groups"
      <4>1. PICK i \in 1 .. n, d \in GroupNames : q = At("groups", i, 0, d)
            BY <1>2, <3>1, <2>2 DEF IsField, Header, At
      <4>2. PICK j \in 1 .. 9 : GroupOrder.writer[j] = d  BY EveryName
      <4> QED  BY <4>1, <4>2
    <3>2. CASE q.part = "members"
      <4>1. PICK i \in 1 .. n : \E j \in 1 .. Len(x.groups[i].members), d \in MemberNames :
               q = At("members", i, j, d)
            BY <1>2, <3>2, <2>2 DEF IsField, Header, At
      <4>2. q.i = i  BY <4>1 DEF At
      <4> QED  BY <3>2, <4>2
    <3> QED  BY <2>1, <3>1, <3>2
  <2>4. PICK i \in 1 .. n : \E j \in 1 .. 9 :
          q = At("groups", i, 0, GroupOrder.writer[j]) \/ (j = 9 /\ q.part = "members" /\ q.i = i)
        BY <2>3
  <2>b. PICK j \in 1 .. 9 : q = At("groups", i, 0, GroupOrder.writer[j]) \/ (j = 9 /\ q.part = "members" /\ q.i = i)
        BY <2>4
  <2>5. Below(q, ss[i][j])
    <3>1. ss[i][j] = At("groups", i, 0, GroupOrder.writer[j])  BY <1>3, WriterOrders DEF Fields
    <3>2. j = 9 => ss[i][j].field = "members" /\ ss[i][j].i = i  BY <3>1, OrderFacts DEF At
    <3> QED  BY <2>b, <3>1, <3>2 DEF Below
  <2>6. i \in 1 .. Len(ss) /\ j \in 1 .. Len(ss[i])  BY <1>4, <1>5
  <2>7. \E k \in DOMAIN FlattenSeq(ss) : FlattenSeq(ss)[k] = ss[i][j]  BY <1>5, <2>6, FlattenSeqHas
  <2> QED  BY <1>6, <2>5, <2>7
<1> QED  BY <1>1, <1>6, <1>7, <1>8, <1>9, <1>10 DEF Unfolds

(* The loop over the members of a group unfolds into the fields of the     *)
(* members.                                                                *)
LEMMA UnfoldMembers ==
  ASSUME NEW x \in StoreIndex, NEW f, NEW i \in 1 .. Len(x.groups), NEW p, p = At("groups", i, 0, "members")
  PROVE  Unfolds(x, f, p, FlattenSeq(MemberItems(x, i)))
<1>g. PICK g : g = x.groups[i]  OBVIOUS
<1>1. PICK ss : ss = MemberItems(x, i)  OBVIOUS
<1>2. PICK n \in Nat : n = Len(g.members) /\ DOMAIN g.members = 1 .. n
  <2>1. g.members \in Seq(MemberMeta)  BY <1>g, Lengths
  <2> QED  BY <2>1
<1>3. DOMAIN ss = 1 .. n /\ \A j \in 1 .. n : ss[j] = Fields(MemberOrder.writer, "members", i, j)
      BY <1>1, <1>g, <1>2 DEF MemberItems
<1>4. ASSUME NEW j \in 1 .. n
      PROVE  /\ Len(ss[j]) = 6 /\ ss[j] \in Seq(AllFields(x)) /\ InOrder(ss[j])
             /\ Spread(Pack(x, f), ss[j]) = PackedMember(g.members[j])
  <2>1. PICK e : e = Fields(MemberOrder.writer, "members", i, j)  OBVIOUS
  <2>2. e \in Seq(Leaves(x)) /\ Len(e) = 6 /\ Spread(Pack(x, f), e) = PackedMember(g.members[j])
    <3>1. j \in 1 .. Len(x.groups[i].members)  BY <1>g, <1>2
    <3>2. /\ Fields(MemberOrder.writer, "members", i, j) \in Seq(Leaves(x))
          /\ Len(Fields(MemberOrder.writer, "members", i, j)) = 6
          /\ Spread(Pack(x, f), Fields(MemberOrder.writer, "members", i, j)) = PackedMember(x.groups[i].members[j])
          BY <3>1, MemberFields
    <3> QED  BY <1>g, <2>1, <3>2
  <2>3. InOrder(e)  BY <2>1, <2>2, MemberInOrder
  <2>4. Leaves(x) \subseteq AllFields(x)  BY DEF Leaves
  <2>5. e \in Seq(AllFields(x))  BY <2>2, <2>4, SeqWider
  <2> QED  BY <1>3, <2>1, <2>2, <2>3, <2>5
<1>5. ss \in Seq(Seq(AllFields(x))) /\ Len(ss) = n
  <2>1. ListOf(ss, n, Seq(AllFields(x)))  BY <1>1, <1>g, <1>2, <1>3, <1>4 DEF ListOf, MemberItems
  <2> QED  BY <2>1, ListIsSeq
<1>6. PICK u : u = FlattenSeq(ss)  OBVIOUS
<1>7. u \in Seq(AllFields(x))  BY <1>5, <1>6, FlattenSeqType
<1>8. Spread(Pack(x, f), u) = Pack(x, f)[p]
  <2>1. PICK tt : tt = MemberCells(x, i)  OBVIOUS
  <2>2. Pack(x, f)[p] = FlattenSeq(tt) /\ tt \in Seq(Seq(CellSet(f))) /\ Len(tt) = Len(x.groups[i].members)
        BY <2>1, MemberLoop
  <2>3. \A j \in 1 .. Len(ss) : tt[j] = Spread(Pack(x, f), ss[j])  BY <1>g, <1>2, <1>4, <1>5, <2>1 DEF MemberCells
  <2>4. Maps(Pack(x, f), AllFields(x), Seq(CellSet(f)))  BY PackMaps
  <2>5. Len(tt) = Len(ss)  BY <1>g, <1>2, <1>5, <2>2
  <2>6. Spread(Pack(x, f), FlattenSeq(ss)) = FlattenSeq(tt)  BY <1>5, <2>2, <2>3, <2>4, <2>5, SpreadFlatten
  <2> QED  BY <1>6, <2>2, <2>6
<1>9. Ordered({}, u)
  <2>1. \A j \in DOMAIN ss : InOrder(ss[j])  BY <1>3, <1>4
  <2> QED  BY <1>5, <1>6, <2>1, FlattenOrdered
<1>10. ASSUME NEW q \in Leaves(x), Below(q, p) PROVE \E k \in DOMAIN u : Below(q, u[k])
  <2>1. q.part = "members" /\ q.i = i
    <3>1. p.field = "members" /\ p.i = i /\ p.field # "stages" /\ p.field # "groups"  BY DEF At
    <3>2. q # p  BY <3>1 DEF Leaves, Loops
    <3> QED  BY <1>10, <3>1, <3>2 DEF Below
  <2>2. IsField(x, q)  BY DEF Leaves, AllFields
  <2>3. \E j \in 1 .. n, d \in MemberNames : q = At("members", i, j, d)
    <3>1. PICK h \in 1 .. Len(x.groups) : \E j \in 1 .. Len(x.groups[h].members), d \in MemberNames :
             q = At("members", h, j, d)
          BY <2>1, <2>2 DEF IsField, Header, At
    <3>2. h = i  BY <2>1, <3>1 DEF At
    <3> QED  BY <1>g, <1>2, <3>1, <3>2
  <2>b. PICK j \in 1 .. n, d \in MemberNames : q = At("members", i, j, d)  BY <2>3
  <2>4. PICK k \in 1 .. 6 : MemberOrder.writer[k] = d  BY EveryName
  <2>5. ss[j][k] = q  BY <1>3, <2>b, <2>4, WriterOrders DEF Fields
  <2>6. j \in 1 .. Len(ss) /\ k \in 1 .. Len(ss[j])  BY <1>4, <1>5
  <2>7. \E m \in DOMAIN FlattenSeq(ss) : FlattenSeq(ss)[m] = ss[j][k]  BY <1>5, <2>6, FlattenSeqHas
  <2> QED  BY <1>6, <2>5, <2>7 DEF Below
<1> QED  BY <1>1, <1>6, <1>7, <1>8, <1>9, <1>10 DEF Unfolds
-----------------------------------------------------------------------------
(* A list of fields without its first.                                     *)
LEMMA TailFacts ==
  ASSUME NEW A, NEW e \in Seq(A), e # <<>>
  PROVE  /\ e[1] \in A /\ Tail(e) \in Seq(A) /\ Len(e) = 1 + Len(Tail(e)) /\ Len(Tail(e)) \in Nat
         /\ DOMAIN e = 1 .. Len(e) /\ DOMAIN Tail(e) = 1 .. Len(Tail(e))
         /\ \A k \in 1 .. Len(Tail(e)) : Tail(e)[k] = e[k + 1]
         /\ e = <<e[1]>> \o Tail(e)
OBVIOUS

(* The cells of the first field come first.                                *)
LEMMA SpreadTail ==
  ASSUME NEW A, NEW S, NEW P, Maps(P, A, Seq(S)), NEW e \in Seq(A), e # <<>>
  PROVE  Spread(P, e) = P[e[1]] \o Spread(P, Tail(e))
<1>1. PICK h : h = <<e[1]>>  OBVIOUS
<1>2. PICK t : t = Tail(e)  OBVIOUS
<1>3. e[1] \in A /\ t \in Seq(A)  BY <1>2
<1>4. h \in Seq(A) /\ e = h \o t  BY <1>1, <1>2, <1>3
<1>5. Spread(P, h \o t) = Spread(P, h) \o Spread(P, t)  BY <1>3, <1>4, SpreadConcat
<1>6. Spread(P, h) = P[e[1]]  BY <1>1, <1>3, SpreadOne
<1> QED  BY <1>2, <1>4, <1>5, <1>6

(* Reading a field leaves what comes after it,                             *)
LEMMA AlignedTail ==
  ASSUME NEW x \in StoreIndex, NEW f, NEW e \in Seq(AllFields(x)), e # <<>>, NEW n \in Nat, Aligned(x, f, e, n),
         NEW c, c = Pack(x, f)[e[1]]
  PROVE  /\ Aligned(x, f, Tail(e), n + Len(c)) /\ Len(c) \in Nat
         /\ n + Len(c) <= Len(PackedIndex(x)) /\ Len(PackedIndex(x)) \in Nat
         /\ \A k \in 1 .. Len(c) : f[n + k] = c[k]
<1>1. PICK P : P = Pack(x, f)  OBVIOUS
<1>2. PICK S : S = CellSet(f)  OBVIOUS
<1>3. Maps(P, AllFields(x), Seq(S))  BY <1>1, <1>2, PackMaps
<1>4. PICK t \in Seq(AllFields(x)) : t = Tail(e)  BY TailFacts
<1>5. PICK w : w = Spread(P, t)  OBVIOUS
<1>6. w \in Seq(S)  BY <1>3, <1>5, SpreadType
<1>7. c \in Seq(S)
  <2>1. e[1] \in AllFields(x)  BY TailFacts
  <2> QED  BY <1>1, <1>3, <2>1 DEF Maps
<1>8. Spread(P, e) = c \o w  BY <1>1, <1>3, <1>4, <1>5, SpreadTail
<1>9. PICK v : v = c \o w  OBVIOUS
<1>10. /\ Len(v) = Len(c) + Len(w)
       /\ \A i \in 1 .. Len(c) : v[i] = c[i]
       /\ \A i \in 1 .. Len(w) : v[Len(c) + i] = w[i]
       BY <1>6, <1>7, <1>9, ConcatPlaces
<1>11. Len(PackedIndex(x)) = n + Len(v) /\ \A k \in 1 .. Len(v) : f[n + k] = v[k]
       BY <1>1, <1>8, <1>9 DEF Aligned
<1>12. PICK a \in Nat : a = Len(c)  BY <1>7
<1>13. PICK b \in Nat : b = Len(w)  BY <1>6
<1>14. Len(PackedIndex(x)) = (n + a) + b /\ Len(v) = a + b  BY <1>10, <1>11, <1>12, <1>13
<1>15. \A k \in 1 .. a : f[n + k] = c[k]
  <2> TAKE k \in 1 .. a
  <2>1. k \in 1 .. Len(v)  BY <1>14
  <2> QED  BY <1>10, <1>11, <1>12, <2>1
<1>16. \A k \in 1 .. b : f[(n + a) + k] = w[k]
  <2> TAKE k \in 1 .. b
  <2>1. a + k \in 1 .. Len(v) /\ n + (a + k) = (n + a) + k  BY <1>14
  <2>2. f[n + (a + k)] = v[a + k] /\ v[a + k] = w[k]  BY <1>10, <1>11, <1>12, <1>13, <2>1
  <2> QED  BY <2>1, <2>2
<1>17. Aligned(x, f, t, n + a)  BY <1>1, <1>5, <1>13, <1>14, <1>16 DEF Aligned
<1> QED  BY <1>4, <1>12, <1>14, <1>15, <1>17

(* Once the first field has been read, the rest is still in order.         *)
LEMMA OrderedTail ==
  ASSUME NEW A, NEW e \in Seq(A), e # <<>>, NEW D, Ordered(D, e)
  PROVE  Ordered(D \cup {e[1]}, Tail(e))
<1>1. PICK t \in Seq(A) : t = Tail(e)  BY TailFacts
<1>2. PICK n \in Nat : n = Len(t) /\ DOMAIN t = 1 .. n /\ DOMAIN e = 1 .. n + 1
      BY <1>1, TailFacts
<1>3. \A k \in 1 .. n : t[k] = e[k + 1]  BY <1>1, <1>2, TailFacts
<1> SUFFICES ASSUME NEW k \in 1 .. n
             PROVE  /\ t[k].field \in Strings => k + 1 \in 1 .. n /\ t[k + 1].field \notin Loops
                    /\ t[k].field \in Loops => Count(t[k]) \in D \cup {e[1]} \/ \E h \in 1 .. k - 1 : t[h] = Count(t[k])
    BY <1>1, <1>2 DEF Ordered
<1>4. k + 1 \in DOMAIN e /\ t[k] = e[k + 1]  BY <1>2, <1>3
<1>5. ASSUME t[k].field \in Strings PROVE k + 1 \in 1 .. n /\ t[k + 1].field \notin Loops
  <2>1. (k + 1) + 1 \in DOMAIN e /\ e[(k + 1) + 1].field \notin Loops  BY <1>4, <1>5 DEF Ordered
  <2>2. k + 1 \in 1 .. n  BY <1>2, <2>1
  <2> QED  BY <1>3, <2>1, <2>2
<1>6. ASSUME t[k].field \in Loops
      PROVE  Count(t[k]) \in D \cup {e[1]} \/ \E h \in 1 .. k - 1 : t[h] = Count(t[k])
  <2>1. Count(e[k + 1]) \in D \/ \E h \in 1 .. (k + 1) - 1 : e[h] = Count(e[k + 1])
        BY <1>4, <1>6 DEF Ordered
  <2>2. CASE Count(e[k + 1]) \in D  BY <1>4, <2>2
  <2>3. CASE \E h \in 1 .. (k + 1) - 1 : e[h] = Count(e[k + 1])
    <3>1. PICK h \in 1 .. (k + 1) - 1 : e[h] = Count(e[k + 1])  BY <2>3
    <3>2. CASE h = 1  BY <1>4, <3>1, <3>2
    <3>3. CASE h # 1
      <4>1. h - 1 \in 1 .. k - 1 /\ h - 1 \in 1 .. n /\ (h - 1) + 1 = h  BY <3>3
      <4>2. t[h - 1] = e[h]  BY <1>3, <4>1
      <4> QED  BY <1>4, <3>1, <4>1, <4>2
    <3> QED  BY <3>2, <3>3
  <2> QED  BY <2>1, <2>2, <2>3
<1> QED  BY <1>5, <1>6

(* Nothing but itself lies below a field that is no loop.                  *)
LEMMA LeafNotLoop ==
  ASSUME NEW p, p.field \notin Loops, NEW q, Below(q, p) PROVE q = p
BY DEF Below, Loops

(* Once the first field has been read, the rest still covers what has not  *)
(* been read.                                                              *)
LEMMA CoveredTail ==
  ASSUME NEW x, NEW A, NEW e \in Seq(A), e # <<>>, e[1].field \notin Loops, NEW D, Covered(x, D, e)
  PROVE  Covered(x, D \cup {e[1]}, Tail(e))
<1>1. PICK t \in Seq(A) : t = Tail(e)  BY TailFacts
<1>2. PICK n \in Nat : n = Len(t) /\ DOMAIN t = 1 .. n /\ DOMAIN e = 1 .. n + 1
      BY <1>1, TailFacts
<1>3. \A k \in 1 .. n : t[k] = e[k + 1]  BY <1>1, <1>2, TailFacts
<1> SUFFICES ASSUME NEW q \in Leaves(x), q \notin D, q # e[1] PROVE \E k \in DOMAIN t : Below(q, t[k])
    BY <1>1 DEF Covered
<1>4. PICK k \in DOMAIN e : Below(q, e[k])  BY DEF Covered
<1>5. k # 1  BY <1>4, LeafNotLoop
<1>6. k - 1 \in 1 .. n /\ (k - 1) + 1 = k  BY <1>2, <1>5
<1>7. t[k - 1] = e[k]  BY <1>3, <1>6
<1> QED  BY <1>2, <1>4, <1>6, <1>7

(* What a reader has got, and one more field.                              *)
Put(g, p, v) == [q \in DOMAIN g \cup {p} |-> IF q = p THEN v ELSE g[q]]

(* What a reader knows stays true when the value of one more field is put  *)
(* to it.                                                                  *)
LEMMA KnownPut ==
  ASSUME NEW x, NEW f, NEW g, Known(x, f, g), NEW p \in Leaves(x)
  PROVE  /\ Known(x, f, Put(g, p, Value(x, f, p))) /\ DOMAIN Put(g, p, Value(x, f, p)) = DOMAIN g \cup {p}
<1>1. PICK h : h = Put(g, p, Value(x, f, p))  OBVIOUS
<1>2. DOMAIN h = DOMAIN g \cup {p}  BY <1>1 DEF Put
<1>3. \A q \in DOMAIN g : g[q] = Value(x, f, q)  BY DEF Known
<1>4. h = [q \in DOMAIN g \cup {p} |-> IF q = p THEN Value(x, f, p) ELSE g[q]]  BY <1>1 DEF Put
<1>5. \A q \in DOMAIN h : (IF q = p THEN Value(x, f, p) ELSE g[q]) = Value(x, f, q)  BY <1>2, <1>3
<1>6. h = [q \in DOMAIN h |-> Value(x, f, q)]  BY <1>2, <1>4, <1>5
<1>7. DOMAIN h \subseteq Leaves(x)  BY <1>2 DEF Known
<1> QED  BY <1>1, <1>2, <1>6, <1>7 DEF Known

(* What a reader that stands before a leaf has before it.                  *)
LEMMA HeadFacts ==
  ASSUME NEW x \in StoreIndex, NEW f, NEW c, NEW e, NEW g, NEW n, Good(x, f, c, e, g, n),
         e # <<>>, e[1].field \notin Loops, NEW w, w = Pack(x, f)[e[1]]
  PROVE  /\ e[1] \in Leaves(x) /\ LeafCells(e[1].field, w) /\ Len(w) \in Nat /\ n \in Nat
         /\ n + Len(w) <= Len(PackedIndex(x)) /\ Len(PackedIndex(x)) \in Nat
         /\ \A k \in 1 .. Len(w) : f[n + k] = w[k]
         /\ Value(x, f, e[1]) = Taken(e[1].field, w)
<1>1. e \in Seq(AllFields(x)) /\ n \in Nat /\ Aligned(x, f, e, n)  BY DEF Good
<1>2. e[1] \in AllFields(x)  BY <1>1, TailFacts
<1>3. e[1] \in Leaves(x)  BY <1>2 DEF Leaves
<1>4. LeafCells(e[1].field, w)  BY <1>3, LeafPacked
<1>5. Value(x, f, e[1]) = Taken(e[1].field, w)  BY DEF Value
<1> QED  BY <1>1, <1>3, <1>4, <1>5, AlignedTail

(* a field that lies in the file whole can be taken.                       *)
LEMMA TakeGood ==
  ASSUME NEW x \in StoreIndex, NEW f, NEW c \in Nat, NEW e, NEW g, NEW n, Good(x, f, c, e, g, n),
         e # <<>>, e[1].field \notin Loops, n + Len(Pack(x, f)[e[1]]) <= c,
         e[1] = Header("magic") => f[1].number = Magic, e[1] = Header("version") => f[2].number = Version
  PROVE  Good(x, f, c, Tail(e), Put(g, e[1], Value(x, f, e[1])), n + Len(Pack(x, f)[e[1]]))
<1>1. /\ e \in Seq(AllFields(x)) /\ n \in Nat /\ Aligned(x, f, e, n) /\ Ordered(DOMAIN g, e)
      /\ Covered(x, DOMAIN g, e) /\ Known(x, f, g) /\ Passed(f, g)
      BY DEF Good
<1>2. PICK w : w = Pack(x, f)[e[1]]  OBVIOUS
<1>3. e[1] \in Leaves(x) /\ Len(w) \in Nat  BY <1>2, HeadFacts
<1>4. PICK t : t = Tail(e)  OBVIOUS
<1>5. t \in Seq(AllFields(x))  BY <1>1, <1>4, TailFacts
<1>6. Aligned(x, f, t, n + Len(w))  BY <1>1, <1>2, <1>4, AlignedTail
<1>7. PICK h : h = Put(g, e[1], Value(x, f, e[1]))  OBVIOUS
<1>8. Known(x, f, h) /\ DOMAIN h = DOMAIN g \cup {e[1]}
  <2>1. PICK p \in Leaves(x) : p = e[1]  BY <1>3
  <2>2. Known(x, f, g)  BY <1>1
  <2>3. Known(x, f, Put(g, p, Value(x, f, p)))  BY <2>2, KnownPut
  <2>4. DOMAIN h = DOMAIN g \cup {p}  BY <1>7, <2>1 DEF Put
  <2> QED  BY <1>7, <2>1, <2>3, <2>4
<1>9. Ordered(DOMAIN h, t)  BY <1>1, <1>4, <1>8, OrderedTail
<1>10. Covered(x, DOMAIN h, t)  BY <1>1, <1>4, <1>8, CoveredTail
<1>11. Passed(f, h)  BY <1>1, <1>8 DEF Passed
<1>12. n + Len(w) \in Nat /\ n + Len(w) <= c  BY <1>1, <1>2, <1>3
<1>13. Good(x, f, c, t, h, n + Len(w))
       BY <1>5, <1>6, <1>8, <1>9, <1>10, <1>11, <1>12 DEF Good
<1> QED  BY <1>2, <1>4, <1>7, <1>13

(* The magic and the version are the first and the second cell.            *)
LEMMA MagicIs ==
  ASSUME NEW x \in StoreIndex, NEW f, NEW p \in Leaves(x)
  PROVE  /\ p.field = "magic" => p = Header("magic") /\ Value(x, f, p) = f[1].number
         /\ p.field = "version" => p = Header("version") /\ Value(x, f, p) = f[2].number
         /\ p.field = "num_tensors" => p = Header("num_tensors") /\ Value(x, f, p) = f[11].number
<1>1. IsField(x, p)  BY DEF Leaves, AllFields
<1>2. ASSUME NEW d \in {"magic", "version", "num_tensors"}, p.field = d PROVE p = Header(d)
  <2>1. d \notin StageNames /\ d \notin GroupNames /\ d \notin MemberNames
        BY <1>2 DEF StageNames, GroupNames, MemberNames
  <2> QED  BY <1>1, <1>2, <2>1 DEF IsField, Header, At
<1>3. ASSUME NEW d \in Altered \ {"flags"}, p = Header(d) PROVE Value(x, f, p) = f[CellOf[d]].number
  <2>1. Pack(x, f)[p] = <<f[CellOf[d]]>>
    <3>1. d \in HeaderNames  BY DEF Altered, HeaderNames
    <3> QED  BY <1>3, <3>1, PackHeader
  <2>2. PICK w : w = Pack(x, f)[p]  OBVIOUS
  <2>3. w[1] = f[CellOf[d]]  BY <2>1, <2>2
  <2>4. p.field = d  BY <1>3 DEF Header, At
  <2>5. p.field \notin Strings /\ p.field # "shape"  BY <2>4 DEF Altered, Strings
  <2>6. Taken(p.field, w) = w[1].number  BY <2>5, Zenon DEF Taken
  <2> QED  BY <2>2, <2>3, <2>6 DEF Value
<1>4. CellOf["magic"] = 1 /\ CellOf["version"] = 2 /\ CellOf["num_tensors"] = 11  BY DEF CellOf
<1>5. "magic" \in Altered \ {"flags"} /\ "version" \in Altered \ {"flags"} /\ "num_tensors" \in Altered \ {"flags"}
      BY DEF Altered
<1> QED  BY <1>2, <1>3, <1>4, <1>5

(* Reading a number, with the reader before its cell.                      *)
LEMMA NumberStep ==
  ASSUME NEW x \in StoreIndex, NEW f, NEW c \in Nat, NEW e, NEW g, NEW n, e # <<>>,
         Good(x, f, c, e, g, n), e[1].field \notin Strings \cup Loops \cup {"shape"}
  PROVE  /\ n + 1 > c => Bad(x, f, c)
         /\ n + 1 <= c => /\ e[1].field = "magic" /\ f[n + 1].number # Magic => Bad(x, f, c)
                          /\ e[1].field = "version" /\ f[n + 1].number # Version => Bad(x, f, c)
                          /\ ~ (e[1].field = "magic" /\ f[n + 1].number # Magic) /\
                             ~ (e[1].field = "version" /\ f[n + 1].number # Version)
                             => Good(x, f, c, Tail(e), Put(g, e[1], f[n + 1].number), n + 1)
<1>1. PICK w : w = Pack(x, f)[e[1]]  OBVIOUS
<1>2. e[1].field \notin Loops /\ e[1].field \notin Strings /\ e[1].field # "shape"  OBVIOUS
<1>3. /\ e[1] \in Leaves(x) /\ LeafCells(e[1].field, w) /\ Len(w) \in Nat /\ n \in Nat
      /\ n + Len(w) <= Len(PackedIndex(x)) /\ Len(PackedIndex(x)) \in Nat
      /\ \A k \in 1 .. Len(w) : f[n + k] = w[k]
      /\ Value(x, f, e[1]) = Taken(e[1].field, w)
      BY <1>1, <1>2, HeadFacts
<1>4. Len(w) = 1  BY <1>2, <1>3 DEF LeafCells
<1>5. f[n + 1] = w[1]  BY <1>3, <1>4
<1>6. Value(x, f, e[1]) = f[n + 1].number
  <2>1. Taken(e[1].field, w) = w[1].number  BY <1>2, Zenon DEF Taken
  <2> QED  BY <1>3, <1>5, <2>1
<1>7. n + 1 > c => Bad(x, f, c)
  <2>1. n + 1 > c => c < Len(PackedIndex(x))  BY <1>3, <1>4
  <2> QED  BY <2>1 DEF Bad
<1>8. PICK p \in Leaves(x) : p = e[1]  BY <1>3
<1>9. e[1].field = "magic" => f[n + 1].number = f[1].number  BY <1>6, <1>8, MagicIs
<1>10. e[1].field = "version" => f[n + 1].number = f[2].number  BY <1>6, <1>8, MagicIs
<1>11. ASSUME n + 1 <= c, ~ (e[1].field = "magic" /\ f[n + 1].number # Magic),
              ~ (e[1].field = "version" /\ f[n + 1].number # Version)
       PROVE  Good(x, f, c, Tail(e), Put(g, e[1], f[n + 1].number), n + 1)
  <2>1. n + Len(Pack(x, f)[e[1]]) <= c  BY <1>1, <1>4, <1>11
  <2>2. e[1] = Header("magic") => f[1].number = Magic
    <3>1. e[1] = Header("magic") => e[1].field = "magic"  BY DEF Header, At
    <3> QED  BY <1>9, <1>11, <3>1
  <2>3. e[1] = Header("version") => f[2].number = Version
    <3>1. e[1] = Header("version") => e[1].field = "version"  BY DEF Header, At
    <3> QED  BY <1>10, <1>11, <3>1
  <2>4. Good(x, f, c, Tail(e), Put(g, e[1], Value(x, f, e[1])), n + Len(Pack(x, f)[e[1]]))
        BY <1>2, <2>1, <2>2, <2>3, TakeGood
  <2> QED  BY <1>1, <1>4, <1>6, <2>4
<1> QED  BY <1>7, <1>9, <1>10, <1>11 DEF Bad

(* a string: the Python reader takes what there is of it,                  *)
LEMMA StringStep ==
  ASSUME NEW x \in StoreIndex, NEW f, NEW c \in Nat, NEW e, NEW g, NEW n, e # <<>>,
         Good(x, f, c, e, g, n), e[1].field \in Strings
  PROVE  /\ n + 1 > c => Bad(x, f, c)
         /\ n + 1 <= c /\ f[n + 1].number = 0 =>
              \/ Good(x, f, c, Tail(e), Put(g, e[1], <<>>), n + 2)
              \/ Stuck(x, c, Tail(e), n + 2)
         /\ n + 1 <= c /\ n + 2 <= c => Good(x, f, c, Tail(e), Put(g, e[1], f[n + 2].text), n + 2)
         /\ n + 1 <= c /\ n + 2 > c => Bad(x, f, c) /\ Stuck(x, c, Tail(e), n + 1)
<1>1. PICK w : w = Pack(x, f)[e[1]]  OBVIOUS
<1>2. e[1].field \notin Loops /\ e[1].field # "shape" /\ e[1].field # "magic" /\ e[1].field # "version"
      BY DEF Strings, Loops
<1>3. /\ e[1] \in Leaves(x) /\ LeafCells(e[1].field, w) /\ Len(w) \in Nat /\ n \in Nat
      /\ n + Len(w) <= Len(PackedIndex(x)) /\ Len(PackedIndex(x)) \in Nat
      /\ \A k \in 1 .. Len(w) : f[n + k] = w[k]
      /\ Value(x, f, e[1]) = Taken(e[1].field, w)
      BY <1>1, <1>2, HeadFacts
<1>4. Len(w) = 2 /\ w[1].number = Len(w[2].text) /\ w[2].text \in Chars  BY <1>3 DEF LeafCells
<1>5. f[n + 1] = w[1] /\ f[n + 2] = w[2]  BY <1>3, <1>4
<1>6. Value(x, f, e[1]) = f[n + 2].text
  <2>1. Taken(e[1].field, w) = w[2].text  BY <1>2, Zenon DEF Taken
  <2> QED  BY <1>3, <1>5, <2>1
<1>7. ASSUME n + 2 <= c PROVE Good(x, f, c, Tail(e), Put(g, e[1], f[n + 2].text), n + 2)
  <2>1. n + Len(Pack(x, f)[e[1]]) <= c  BY <1>1, <1>4, <1>7
  <2>2. e[1] # Header("magic") /\ e[1] # Header("version")  BY <1>2 DEF Header, At
  <2>3. Good(x, f, c, Tail(e), Put(g, e[1], Value(x, f, e[1])), n + Len(Pack(x, f)[e[1]]))
        BY <1>2, <2>1, <2>2, TakeGood
  <2> QED  BY <1>1, <1>4, <1>6, <2>3
<1>8. ASSUME n + 2 > c, NEW m \in Nat, m >= c PROVE Stuck(x, c, Tail(e), m)
  <2>1. e \in Seq(AllFields(x)) /\ Ordered(DOMAIN g, e)  BY DEF Good
  <2>2. PICK t : t = Tail(e)  OBVIOUS
  <2>3. 1 \in DOMAIN e /\ 1 + 1 \in DOMAIN e /\ e[1 + 1].field \notin Loops
    <3>1. 1 \in DOMAIN e  BY <2>1, TailFacts
    <3> QED  BY <2>1, <3>1 DEF Ordered
  <2>4. /\ DOMAIN e = 1 .. Len(e) /\ Len(e) = 1 + Len(t) /\ Len(t) \in Nat /\ t \in Seq(AllFields(x))
        /\ \A k \in 1 .. Len(t) : t[k] = e[k + 1]
        BY <2>1, <2>2, TailFacts
  <2>5. 1 \in 1 .. Len(t)  BY <2>3, <2>4
  <2>6. t[1] = e[1 + 1] /\ t[1] \in AllFields(x) /\ t # <<>>
    <3>1. t[1] = e[1 + 1]  BY <2>4, <2>5
    <3>2. t # <<>>  BY <2>5
    <3> QED  BY <2>4, <3>1, <3>2
  <2>7. c < Len(PackedIndex(x))  BY <1>3, <1>4, <1>8
  <2> QED  BY <1>8, <2>2, <2>3, <2>6, <2>7 DEF Stuck
<1>9. n + 1 > c => Bad(x, f, c)
  <2>1. n + 1 > c => c < Len(PackedIndex(x))  BY <1>3, <1>4
  <2> QED  BY <2>1 DEF Bad
<1>10. n + 2 > c => Bad(x, f, c)
  <2>1. n + 2 > c => c < Len(PackedIndex(x))  BY <1>3, <1>4
  <2> QED  BY <2>1 DEF Bad
<1>11. f[n + 1].number = 0 => f[n + 2].text = <<>>
  <2>1. PICK t \in Seq(STRING) : t = w[2].text  BY <1>4 DEF Chars
  <2>2. Len(t) = 0 => t = <<>>  OBVIOUS
  <2>3. f[n + 1].number = Len(t) /\ f[n + 2].text = t  BY <1>4, <1>5, <2>1
  <2> QED  BY <2>2, <2>3
<1>12. ASSUME n + 1 <= c, f[n + 1].number = 0
       PROVE  Good(x, f, c, Tail(e), Put(g, e[1], <<>>), n + 2) \/ Stuck(x, c, Tail(e), n + 2)
  <2>1. CASE n + 2 <= c  BY <1>7, <1>11, <1>12, <2>1
  <2>2. CASE n + 2 > c
    <3>1. n + 2 \in Nat /\ n + 2 >= c  BY <1>3, <2>2
    <3> QED  BY <1>8, <2>2, <3>1
  <2> QED  BY <1>3, <2>1, <2>2
<1>13. ASSUME n + 1 <= c, n + 2 > c PROVE Stuck(x, c, Tail(e), n + 1)
  <2>1. n + 1 \in Nat /\ n + 1 >= c  BY <1>3, <1>13
  <2> QED  BY <1>8, <1>13, <2>1
<1> QED  BY <1>7, <1>9, <1>10, <1>12, <1>13

(* a shape,                                                                *)
LEMMA ShapeStep ==
  ASSUME NEW x \in StoreIndex, NEW f, NEW c \in Nat, NEW e, NEW g, NEW n, e # <<>>,
         Good(x, f, c, e, g, n), e[1].field = "shape", NEW m, m = f[n + 1].number
  PROVE  /\ m \in Nat /\ (n + 1 > c => Bad(x, f, c))
         /\ n + (1 + m) > c => Bad(x, f, c)
         /\ n + (1 + m) <= c =>
              Good(x, f, c, Tail(e), Put(g, e[1], [d \in 1 .. m |-> f[n + (1 + d)].number]), n + (1 + m))
<1>1. PICK w : w = Pack(x, f)[e[1]]  OBVIOUS
<1>2. e[1].field \notin Loops /\ e[1].field \notin Strings /\ e[1].field # "magic" /\ e[1].field # "version"
      BY DEF Strings, Loops
<1>3. /\ e[1] \in Leaves(x) /\ LeafCells(e[1].field, w) /\ Len(w) \in Nat /\ n \in Nat
      /\ n + Len(w) <= Len(PackedIndex(x)) /\ Len(PackedIndex(x)) \in Nat
      /\ \A k \in 1 .. Len(w) : f[n + k] = w[k]
      /\ Value(x, f, e[1]) = Taken(e[1].field, w)
      BY <1>1, <1>2, HeadFacts
<1>4. w[1].number \in Nat /\ Len(w) = 1 + w[1].number  BY <1>2, <1>3 DEF LeafCells
<1>5. f[n + 1] = w[1] /\ m \in Nat /\ Len(w) = 1 + m
  <2>1. 1 \in 1 .. Len(w)  BY <1>3, <1>4
  <2>2. f[n + 1] = w[1]  BY <1>3, <2>1
  <2> QED  BY <1>4, <2>2
<1>6. Value(x, f, e[1]) = [d \in 1 .. m |-> f[n + (1 + d)].number]
  <2>1. Taken(e[1].field, w) = [d \in 1 .. w[1].number |-> w[1 + d].number]
    <3>1. e[1].field \notin Strings  BY <1>2
    <3> QED  BY <3>1, Zenon DEF Taken
  <2>2. w[1].number = m  BY <1>5
  <2>3. \A d \in 1 .. m : w[1 + d] = f[n + (1 + d)]
    <3> TAKE d \in 1 .. m
    <3>1. 1 + d \in 1 .. Len(w)  BY <1>5
    <3> QED  BY <1>3, <3>1
  <2> QED  BY <1>3, <2>1, <2>2, <2>3
<1>7. ASSUME n + (1 + m) <= c PROVE Good(x, f, c, Tail(e), Put(g, e[1], [d \in 1 .. m |-> f[n + (1 + d)].number]), n + (1 + m))
  <2>1. n + Len(Pack(x, f)[e[1]]) <= c  BY <1>1, <1>5, <1>7
  <2>2. e[1] # Header("magic") /\ e[1] # Header("version")  BY <1>2 DEF Header, At
  <2>3. Good(x, f, c, Tail(e), Put(g, e[1], Value(x, f, e[1])), n + Len(Pack(x, f)[e[1]]))
        BY <1>2, <2>1, <2>2, TakeGood
  <2> QED  BY <1>1, <1>5, <1>6, <2>3
<1>8. n + 1 > c => Bad(x, f, c)
  <2>1. n + 1 > c => c < Len(PackedIndex(x))  BY <1>3, <1>5
  <2> QED  BY <2>1 DEF Bad
<1>9. n + (1 + m) > c => Bad(x, f, c)
  <2>1. n + (1 + m) <= Len(PackedIndex(x)) /\ m \in Nat /\ n \in Nat /\ Len(PackedIndex(x)) \in Nat  BY <1>3, <1>5
  <2>2. PICK l \in Nat : l = Len(PackedIndex(x)) /\ n + (1 + m) <= l  BY <2>1
  <2>3. n + (1 + m) > c => c < l  BY <2>1, <2>2
  <2> QED  BY <2>2, <2>3 DEF Bad
<1> QED  BY <1>5, <1>7, <1>8, <1>9

(* and the end: everything has been read.                                  *)
LEMMA FinishStep ==
  ASSUME NEW x \in StoreIndex, NEW f, NEW c \in Nat, NEW e, NEW g, NEW n, e = <<>>, Good(x, f, c, e, g, n)
  PROVE  /\ c >= Len(PackedIndex(x)) /\ g = Contents(x, f)
         /\ {p \in DOMAIN g : p.field = "tensor_id"} = TensorIds(x)
         /\ g[Header("num_tensors")] = f[11].number
         /\ f[1].number = Magic /\ f[2].number = Version
<1>1. /\ n \in Nat /\ n <= c /\ Aligned(x, f, e, n) /\ Covered(x, DOMAIN g, e) /\ Known(x, f, g) /\ Passed(f, g)
      BY DEF Good
<1>2. c >= Len(PackedIndex(x))
  <2>1. Spread(Pack(x, f), e) = <<>>  BY SpreadEmpty
  <2>2. Len(PackedIndex(x)) = n + 0  BY <1>1, <2>1 DEF Aligned
  <2> QED  BY <1>1, <2>2
<1>3. DOMAIN g = Leaves(x)
  <2>1. DOMAIN e = {}  OBVIOUS
  <2>2. Leaves(x) \subseteq DOMAIN g  BY <1>1, <2>1 DEF Covered
  <2> QED  BY <1>1, <2>2 DEF Known
<1>4. g = Contents(x, f)  BY <1>1, <1>3 DEF Known, Contents
<1>5. {p \in DOMAIN g : p.field = "tensor_id"} = TensorIds(x)  BY <1>3 DEF TensorIds
<1>6. Header("magic") \in Leaves(x) /\ Header("version") \in Leaves(x) /\ Header("num_tensors") \in Leaves(x)
  <2>1. \A d \in {"magic", "version", "num_tensors"} : Header(d) \in Leaves(x)
    <3> TAKE d \in {"magic", "version", "num_tensors"}
    <3>1. Header(d) \in AllFields(x)
      <4>1. d \in HeaderNames  BY DEF HeaderNames
      <4> QED  BY <4>1, HeaderIn
    <3>2. Header(d).field \notin Loops  BY DEF Header, At, Loops
    <3> QED  BY <3>1, <3>2 DEF Leaves
  <2> QED  BY <2>1
<1>7. f[1].number = Magic /\ f[2].number = Version  BY <1>1, <1>3, <1>6 DEF Passed
<1>8. g[Header("num_tensors")] = f[11].number
  <2>1. PICK p \in Leaves(x) : p = Header("num_tensors")  BY <1>6
  <2>2. p.field = "num_tensors"  BY <2>1 DEF Header, At
  <2>3. Value(x, f, p) = f[11].number  BY <2>2, MagicIs
  <2>4. g[p] = Value(x, f, p)  BY <1>4 DEF Contents
  <2> QED  BY <2>1, <2>3, <2>4
<1> QED  BY <1>2, <1>4, <1>5, <1>7, <1>8
-----------------------------------------------------------------------------
(* A count is no loop.                                                     *)
LEMMA CountPlain == ASSUME NEW x, NEW p \in AllFields(x), p.field \in Loops PROVE Count(p).field \notin Loops
<1>1. PICK d : d = CASE p.field = "stages" -> "num_stages"
                     [] p.field = "groups" -> "num_groups"
                     [] OTHER              -> "num_members"
      OBVIOUS
<1>2. d \in {"num_stages", "num_groups", "num_members"}
  <2>1. CASE p.field = "stages"
    <3>1. p.field # "groups"  BY <2>1
    <3>2. d = "num_stages"  BY <1>1, <2>1, <3>1, Zenon
    <3> QED  BY <3>2
  <2>2. CASE p.field = "groups"
    <3>1. p.field # "stages"  BY <2>2
    <3>2. d = "num_groups"  BY <1>1, <2>2, <3>1, Zenon
    <3> QED  BY <3>2
  <2>3. CASE p.field # "stages" /\ p.field # "groups"
    <3>1. d = "num_members"  BY <1>1, <2>3, Zenon
    <3> QED  BY <3>1
  <2> QED  BY <2>1, <2>2, <2>3
<1>3. p \in Records  BY DEF AllFields
<1>4. Count(p) = [p EXCEPT !.field = d]  BY <1>1, Zenon DEF Count
<1>5. Count(p).field = d  BY <1>3, <1>4 DEF Records
<1> QED  BY <1>2, <1>5 DEF Loops
(* The fields of the items may stand where the loop stood.                 *)
LEMMA OrderedConcat ==
  ASSUME NEW x, NEW A, A = AllFields(x), NEW u \in Seq(A), NEW e \in Seq(A), e # <<>>, e[1].field \in Loops,
         NEW D, Ordered({}, u), Ordered(D, e)
  PROVE  Ordered(D, u \o Tail(e))
<1>1. PICK t \in Seq(A) : t = Tail(e)  BY TailFacts
<1>2. PICK n \in Nat : n = Len(t) /\ DOMAIN t = 1 .. n /\ DOMAIN e = 1 .. n + 1  BY <1>1, TailFacts
<1>3. \A k \in 1 .. n : t[k] = e[k + 1]  BY <1>1, <1>2, TailFacts
<1>4. PICK m \in Nat : m = Len(u) /\ DOMAIN u = 1 .. m  OBVIOUS
<1>5. PICK v : v = u \o t  OBVIOUS
<1>6. /\ v \in Seq(A) /\ Len(v) = m + n
      /\ \A i \in 1 .. m : v[i] = u[i]
      /\ \A i \in 1 .. n : v[m + i] = t[i]
      BY <1>2, <1>4, <1>5, ConcatPlaces
<1>7. DOMAIN v = 1 .. m + n  BY <1>6
<1>8. ASSUME NEW k \in 1 .. m
      PROVE  /\ v[k].field \in Strings => k + 1 \in DOMAIN v /\ v[k + 1].field \notin Loops
             /\ v[k].field \in Loops => Count(v[k]) \in D \/ \E h \in 1 .. k - 1 : v[h] = Count(v[k])
  <2>1. v[k] = u[k]  BY <1>6
  <2>2. ASSUME v[k].field \in Strings PROVE k + 1 \in DOMAIN v /\ v[k + 1].field \notin Loops
    <3>1. k + 1 \in 1 .. m /\ u[k + 1].field \notin Loops  BY <1>4, <2>1, <2>2 DEF Ordered
    <3> QED  BY <1>6, <1>7, <3>1
  <2>3. ASSUME v[k].field \in Loops PROVE \E h \in 1 .. k - 1 : v[h] = Count(v[k])
    <3>1. PICK h \in 1 .. k - 1 : u[h] = Count(u[k])  BY <1>4, <2>1, <2>3 DEF Ordered
    <3>2. h \in 1 .. m  OBVIOUS
    <3> QED  BY <1>6, <2>1, <3>1, <3>2
  <2> QED  BY <2>2, <2>3
<1>9. ASSUME NEW k \in 1 .. n
      PROVE  /\ v[m + k].field \in Strings => (m + k) + 1 \in DOMAIN v /\ v[(m + k) + 1].field \notin Loops
             /\ v[m + k].field \in Loops => Count(v[m + k]) \in D \/ \E h \in 1 .. (m + k) - 1 : v[h] = Count(v[m + k])
  <2>1. v[m + k] = e[k + 1] /\ k + 1 \in DOMAIN e  BY <1>2, <1>3, <1>6
  <2>2. ASSUME v[m + k].field \in Strings PROVE (m + k) + 1 \in DOMAIN v /\ v[(m + k) + 1].field \notin Loops
    <3>1. (k + 1) + 1 \in DOMAIN e /\ e[(k + 1) + 1].field \notin Loops  BY <2>1, <2>2 DEF Ordered
    <3>2. k + 1 \in 1 .. n /\ (m + k) + 1 = m + (k + 1) /\ m + (k + 1) \in 1 .. m + n  BY <1>2, <3>1
    <3>3. v[m + (k + 1)] = e[(k + 1) + 1]  BY <1>3, <1>6, <3>2
    <3> QED  BY <1>7, <3>1, <3>2, <3>3
  <2>3. ASSUME v[m + k].field \in Loops, Count(v[m + k]) \notin D
        PROVE  \E h \in 1 .. (m + k) - 1 : v[h] = Count(v[m + k])
    <3>1. PICK h \in 1 .. (k + 1) - 1 : e[h] = Count(e[k + 1])  BY <2>1, <2>3 DEF Ordered
    <3>2. h # 1
      <4>1. Count(e[k + 1]).field \notin Loops
        <5>1. e[k + 1] \in A  BY <2>1
        <5> QED  BY <2>1, <2>3, CountPlain
      <4> QED  BY <3>1, <4>1
    <3>3. h - 1 \in 1 .. n /\ (h - 1) + 1 = h /\ m + (h - 1) \in 1 .. (m + k) - 1  BY <3>2
    <3>4. v[m + (h - 1)] = e[h]  BY <1>3, <1>6, <3>3
    <3> QED  BY <2>1, <3>1, <3>3, <3>4
  <2> QED  BY <2>2, <2>3
<1>10. ASSUME NEW k \in DOMAIN v
       PROVE  /\ v[k].field \in Strings => k + 1 \in DOMAIN v /\ v[k + 1].field \notin Loops
              /\ v[k].field \in Loops => Count(v[k]) \in D \/ \E h \in 1 .. k - 1 : v[h] = Count(v[k])
  <2>1. k \in 1 .. m + n  BY <1>7
  <2>2. CASE k <= m
    <3>1. k \in 1 .. m  BY <2>1, <2>2
    <3> QED  BY <1>8, <3>1
  <2>3. CASE k > m
    <3>1. k - m \in 1 .. n /\ k = m + (k - m)  BY <2>1, <2>3
    <3>2. PICK i \in 1 .. n : k = m + i  BY <3>1
    <3> QED  BY <1>9, <3>2
  <2> QED  BY <2>1, <2>2, <2>3
<1> QED  BY <1>1, <1>5, <1>10 DEF Ordered

(* A loop gives way to the fields of its items.                            *)
LEMMA LoopGood ==
  ASSUME NEW x \in StoreIndex, NEW f, NEW c \in Nat, NEW e, NEW g, NEW n, Good(x, f, c, e, g, n),
         e # <<>>, e[1].field \in Loops, NEW u, Unfolds(x, f, e[1], u)
  PROVE  Good(x, f, c, u \o Tail(e), g, n)
<1>1. /\ e \in Seq(AllFields(x)) /\ n \in Nat /\ n <= c /\ Aligned(x, f, e, n) /\ Ordered(DOMAIN g, e)
      /\ Covered(x, DOMAIN g, e) /\ Known(x, f, g) /\ Passed(f, g)
      BY DEF Good
<1>2. /\ u \in Seq(AllFields(x)) /\ Spread(Pack(x, f), u) = Pack(x, f)[e[1]] /\ Ordered({}, u)
      /\ \A q \in Leaves(x) : Below(q, e[1]) => \E k \in DOMAIN u : Below(q, u[k])
      BY DEF Unfolds
<1>3. PICK t \in Seq(AllFields(x)) : t = Tail(e)  BY <1>1, TailFacts
<1>4. PICK v : v = u \o t  OBVIOUS
<1>5. /\ v \in Seq(AllFields(x)) /\ Len(v) = Len(u) + Len(t)
      /\ \A i \in 1 .. Len(u) : v[i] = u[i]
      /\ \A i \in 1 .. Len(t) : v[Len(u) + i] = t[i]
      BY <1>2, <1>4, ConcatPlaces
<1>6. Spread(Pack(x, f), v) = Spread(Pack(x, f), e)
  <2>1. PICK P : P = Pack(x, f)  OBVIOUS
  <2>2. PICK S : S = CellSet(f)  OBVIOUS
  <2>3. Maps(P, AllFields(x), Seq(S))  BY <2>1, <2>2, PackMaps
  <2>4. Spread(P, u \o t) = Spread(P, u) \o Spread(P, t)  BY <1>2, <2>3, SpreadConcat
  <2>5. Spread(P, e) = P[e[1]] \o Spread(P, t)  BY <1>1, <1>3, <2>3, SpreadTail
  <2> QED  BY <1>2, <1>4, <2>1, <2>4, <2>5
<1>7. Aligned(x, f, v, n)  BY <1>1, <1>6 DEF Aligned
<1>8. Ordered(DOMAIN g, v)
  <2>1. PICK A : A = AllFields(x)  OBVIOUS
  <2>2. u \in Seq(A) /\ e \in Seq(A)  BY <1>1, <1>2, <2>1
  <2>3. Ordered(DOMAIN g, u \o Tail(e))  BY <1>1, <1>2, <2>1, <2>2, OrderedConcat
  <2> QED  BY <1>3, <1>4, <2>3
<1>9. Covered(x, DOMAIN g, v)
  <2> SUFFICES ASSUME NEW q \in Leaves(x), q \notin DOMAIN g PROVE \E k \in DOMAIN v : Below(q, v[k])
      BY DEF Covered
  <2>1. PICK k \in DOMAIN e : Below(q, e[k])  BY <1>1 DEF Covered
  <2>2. PICK l \in Nat : l = Len(t) /\ DOMAIN t = 1 .. l /\ DOMAIN e = 1 .. l + 1  BY <1>1, <1>3, TailFacts
  <2>3. PICK m \in Nat : m = Len(u) /\ DOMAIN u = 1 .. m  BY <1>2
  <2>4. DOMAIN v = 1 .. m + l  BY <1>5, <2>2, <2>3
  <2>5. CASE k = 1
    <3>1. PICK h \in DOMAIN u : Below(q, u[h])  BY <1>2, <2>1, <2>5
    <3>2. h \in 1 .. m /\ h \in 1 .. m + l  BY <2>3, <3>1
    <3>3. v[h] = u[h]  BY <1>5, <2>3, <3>2
    <3> QED  BY <2>4, <3>1, <3>2, <3>3
  <2>6. CASE k # 1
    <3>1. k - 1 \in 1 .. l /\ (k - 1) + 1 = k  BY <2>2, <2>6
    <3>2. PICK h \in 1 .. l : h + 1 = k  BY <3>1
    <3>3. t[h] = e[h + 1]  BY <1>1, <1>3, <2>2, <3>2, TailFacts
    <3>4. m + h \in 1 .. m + l /\ v[m + h] = t[h]  BY <1>5, <2>2, <2>3
    <3> QED  BY <2>1, <2>4, <3>2, <3>3, <3>4
  <2> QED  BY <2>5, <2>6
<1>10. Good(x, f, c, v, g, n)  BY <1>1, <1>5, <1>7, <1>8, <1>9 DEF Good
<1> QED  BY <1>3, <1>4, <1>10

(* The counts the loops go by.                                             *)
LEMMA CountValues ==
  ASSUME NEW x \in StoreIndex, NEW f
  PROVE  /\ Value(x, f, Header("num_stages")) = Len(x.stages)
         /\ Value(x, f, Header("num_groups")) = Len(x.groups)
         /\ \A i \in 1 .. Len(x.groups) : Value(x, f, At("groups", i, 0, "num_members")) = Len(x.groups[i].members)
<1>1. ASSUME NEW p, p.field \in {"num_stages", "num_groups", "num_members"}, NEW k, Pack(x, f)[p] = <<Number(k)>>
      PROVE  Value(x, f, p) = k
  <2>1. p.field \notin Strings /\ p.field # "shape"  BY <1>1 DEF Strings
  <2>2. PICK w : w = Pack(x, f)[p]  OBVIOUS
  <2>3. w[1].number = k  BY <1>1, <2>2 DEF Number
  <2>4. Taken(p.field, w) = w[1].number  BY <2>1, Zenon DEF Taken
  <2> QED  BY <2>2, <2>3, <2>4 DEF Value
<1>2. Pack(x, f)[Header("num_stages")] = <<Number(Len(x.stages))>>
  <2>1. PICK d : d = "num_stages"  OBVIOUS
  <2>2. d \in HeaderNames /\ d \notin Altered  BY <2>1 DEF HeaderNames, Altered
  <2>3. Pack(x, f)[Header(d)] = HeaderField(x, d)  BY <2>2, PackHeader
  <2> QED  BY <2>1, <2>3, HeaderCounts
<1>3. Pack(x, f)[Header("num_groups")] = <<Number(Len(x.groups))>>
  <2>1. PICK d : d = "num_groups"  OBVIOUS
  <2>2. d \in HeaderNames /\ d \notin Altered  BY <2>1 DEF HeaderNames, Altered
  <2>3. Pack(x, f)[Header(d)] = HeaderField(x, d)  BY <2>2, PackHeader
  <2> QED  BY <2>1, <2>3, HeaderCounts
<1>4. Header("num_stages").field = "num_stages" /\ Header("num_groups").field = "num_groups"  BY DEF Header, At
<1>5. ASSUME NEW i \in 1 .. Len(x.groups)
      PROVE  Value(x, f, At("groups", i, 0, "num_members")) = Len(x.groups[i].members)
  <2>1. PICK d : d = "num_members"  OBVIOUS
  <2>2. d \in GroupNames \ {"members"}  BY <2>1 DEF GroupNames
  <2>3. Pack(x, f)[At("groups", i, 0, d)] = GroupField(x.groups[i], d)  BY <2>2, PackGroup
  <2>4. GroupField(x.groups[i], d) = <<Number(Len(x.groups[i].members))>>  BY <2>1, <2>2, GroupLeaf
  <2>5. PICK p : p = At("groups", i, 0, d)  OBVIOUS
  <2>6. p.field = "num_members"  BY <2>1, <2>5 DEF At
  <2> QED  BY <1>1, <2>1, <2>3, <2>4, <2>5, <2>6
<1>6. Value(x, f, Header("num_stages")) = Len(x.stages)  BY <1>1, <1>2, <1>4
<1>7. Value(x, f, Header("num_groups")) = Len(x.groups)  BY <1>1, <1>3, <1>4
<1> QED  BY <1>5, <1>6, <1>7

(* Both readers take the fields in the order in which the writer packs     *)
(* them.                                                                   *)
LEMMA ReaderOrders ==
  ASSUME NEW r \in Readers
  PROVE  /\ HeaderOrder[r] = HeaderOrder.writer /\ StageOrder[r] = StageOrder.writer
         /\ GroupOrder[r] = GroupOrder.writer /\ MemberOrder[r] = MemberOrder.writer
<1>1. r = "python" \/ r = "cpp"  BY DEF Readers
<1>2. HeaderOrder[r] = HeaderOrder.writer  BY <1>1 DEF HeaderOrder
<1>3. StageOrder[r] = StageOrder.writer  BY <1>1 DEF StageOrder
<1>4. GroupOrder[r] = GroupOrder.writer  BY <1>1 DEF GroupOrder
<1>5. MemberOrder[r] = MemberOrder.writer  BY <1>1 DEF MemberOrder
<1> QED  BY <1>2, <1>3, <1>4, <1>5

(* The items a reader r goes through for the loop p, as its program does.  *)
Items(r, g, p) ==
  LET of(count) == g[[p EXCEPT !.field = count]]
  IN  CASE p.field = "stages" -> [i \in 1 .. of("num_stages") |-> Fields(StageOrder[r], "stages", i, 0)]
        [] p.field = "groups" -> [i \in 1 .. of("num_groups") |-> Fields(GroupOrder[r], "groups", i, 0)]
        [] OTHER -> [j \in 1 .. of("num_members") |-> Fields(MemberOrder[r], "members", p.i, j)]

(* The loop of a reader over the count it has read goes over the items     *)
(* that were written.                                                      *)
LEMMA LoopStep ==
  ASSUME NEW x \in StoreIndex, NEW f, NEW c \in Nat, NEW e, NEW g, NEW n, Good(x, f, c, e, g, n),
         e # <<>>, e[1].field \in Loops, NEW r \in Readers
  PROVE  Good(x, f, c, FlattenSeq(Items(r, g, e[1])) \o Tail(e), g, n)
<1>1. e \in Seq(AllFields(x)) /\ Ordered(DOMAIN g, e) /\ Known(x, f, g)  BY DEF Good
<1>2. PICK p \in AllFields(x) : p = e[1]  BY <1>1, TailFacts
<1>3. Count(p) \in DOMAIN g
  <2>1. 1 \in DOMAIN e  BY <1>1, TailFacts
  <2>2. Count(e[1]) \in DOMAIN g \/ \E h \in 1 .. 1 - 1 : e[h] = Count(e[1])  BY <1>1, <2>1 DEF Ordered
  <2>3. 1 .. 1 - 1 = {}  OBVIOUS
  <2> QED  BY <1>2, <2>2, <2>3
<1>4. g[Count(p)] = Value(x, f, Count(p))  BY <1>1, <1>3 DEF Known
<1>5. \/ p = Header("stages") \/ p = Header("groups")
      \/ \E i \in 1 .. Len(x.groups) : p = At("groups", i, 0, "members")
      BY <1>2, LoopIs
<1>6. Unfolds(x, f, p, FlattenSeq(Items(r, g, p)))
  <2>1. CASE p = Header("stages")
    <3>1. p.field = "stages" /\ p.field # "groups"  BY <2>1 DEF Header, At
    <3>2. PICK q : q = [p EXCEPT !.field = "num_stages"]  OBVIOUS
    <3>3. Count(p) = q  BY <3>1, <3>2, Zenon DEF Count
    <3>4. q = Header("num_stages")  BY <2>1, <3>2 DEF Header, At
    <3>5. g[q] = Len(x.stages)  BY <1>4, <3>3, <3>4, CountValues
    <3>6. Items(r, g, p) = [i \in 1 .. g[q] |-> Fields(StageOrder[r], "stages", i, 0)]
          BY <3>1, <3>2, Zenon DEF Items
    <3>7. StageOrder[r] = StageOrder.writer  BY ReaderOrders
    <3>8. Items(r, g, p) = StageItems(x)  BY <3>5, <3>6, <3>7 DEF StageItems
    <3> QED  BY <2>1, <3>8, UnfoldStages
  <2>2. CASE p = Header("groups")
    <3>1. p.field = "groups" /\ p.field # "stages"  BY <2>2 DEF Header, At
    <3>2. PICK q : q = [p EXCEPT !.field = "num_groups"]  OBVIOUS
    <3>3. Count(p) = q  BY <3>1, <3>2, Zenon DEF Count
    <3>4. q = Header("num_groups")  BY <2>2, <3>2 DEF Header, At
    <3>5. g[q] = Len(x.groups)  BY <1>4, <3>3, <3>4, CountValues
    <3>6. Items(r, g, p) = [i \in 1 .. g[q] |-> Fields(GroupOrder[r], "groups", i, 0)]
          BY <3>1, <3>2, Zenon DEF Items
    <3>7. GroupOrder[r] = GroupOrder.writer  BY ReaderOrders
    <3>8. Items(r, g, p) = GroupItems(x)  BY <3>5, <3>6, <3>7 DEF GroupItems
    <3> QED  BY <2>2, <3>8, UnfoldGroups
  <2>3. ASSUME NEW i \in 1 .. Len(x.groups), p = At("groups", i, 0, "members")
        PROVE  Unfolds(x, f, p, FlattenSeq(Items(r, g, p)))
    <3>1. p.field = "members" /\ p.field # "stages" /\ p.field # "groups" /\ p.i = i  BY <2>3 DEF At
    <3>2. PICK q : q = [p EXCEPT !.field = "num_members"]  OBVIOUS
    <3>3. Count(p) = q  BY <3>1, <3>2, Zenon DEF Count
    <3>4. q = At("groups", i, 0, "num_members")  BY <2>3, <3>2 DEF At
    <3>5. g[q] = Len(x.groups[i].members)  BY <1>4, <3>3, <3>4, CountValues
    <3>6. Items(r, g, p) = [j \in 1 .. g[q] |-> Fields(MemberOrder[r], "members", p.i, j)]
          BY <3>1, <3>2, Zenon DEF Items
    <3>7. MemberOrder[r] = MemberOrder.writer  BY ReaderOrders
    <3>8. Items(r, g, p) = MemberItems(x, i)  BY <3>1, <3>5, <3>6, <3>7 DEF MemberItems
    <3> QED  BY <2>3, <3>8, UnfoldMembers
  <2> QED  BY <1>5, <2>1, <2>2, <2>3
<1>7. PICK u : u = FlattenSeq(Items(r, g, p))  OBVIOUS
<1>8. Unfolds(x, f, e[1], u)  BY <1>2, <1>6, <1>7
<1>9. Good(x, f, c, u \o Tail(e), g, n)  BY <1>8, LoopGood
<1> QED  BY <1>2, <1>7, <1>9
-----------------------------------------------------------------------------
(* The readers of an open file, and what a step of one must leave.         *)
Typed == /\ status \in [Readers -> {"reading", "done", "raised"}]
         /\ DOMAIN expect = Readers /\ DOMAIN got = Readers /\ DOMAIN pos = Readers
StepOf(r) ==
  /\ Typed'
  /\ ReaderInv(r, index, file, end.cells, status'[r], expect'[r], got'[r], pos'[r])
  /\ \A s \in Readers \ {r} : /\ status'[s] = status[s] /\ expect'[s] = expect[s]
                              /\ got'[s] = got[s] /\ pos'[s] = pos[s]

(* A reader that raises in mid-file does so on one that both refuse.       *)
LEMMA Raises ==
  ASSUME Typed, NEW r \in Readers, Raise(r), Bad(index, file, end.cells) PROVE StepOf(r)
<1>1. /\ status' = [status EXCEPT ![r] = "raised"] /\ expect' = expect /\ got' = got /\ pos' = pos
      BY DEF Raise
<1>2. status'[r] = "raised" /\ \A s \in Readers \ {r} : status'[s] = status[s]  BY <1>1 DEF Typed
<1>3. Typed'  BY <1>1 DEF Typed
<1>4. ReaderInv(r, index, file, end.cells, status'[r], expect'[r], got'[r], pos'[r])  BY <1>2 DEF ReaderInv
<1> QED  BY <1>1, <1>2, <1>3, <1>4 DEF StepOf

(* A reader that takes cells leaves the other reader alone.                *)
LEMMA Takes ==
  ASSUME Typed, NEW r \in Readers, status[r] = "reading", NEW m, NEW v, Take(r, m, v),
         \/ Good(index, file, end.cells, Tail(expect[r]), Put(got[r], expect[r][1], v), pos[r] + m)
         \/ Stuck(index, end.cells, Tail(expect[r]), pos[r] + m)
  PROVE  StepOf(r)
<1>1. /\ pos' = [pos EXCEPT ![r] = @ + m]
      /\ got' = [got EXCEPT ![r] = [p \in DOMAIN @ \cup {expect[r][1]} |-> IF p = expect[r][1] THEN v ELSE @[p]]]
      /\ expect' = [expect EXCEPT ![r] = Tail(@)]
      /\ status' = status
      BY DEF Take
<1>2. /\ pos'[r] = pos[r] + m /\ expect'[r] = Tail(expect[r]) /\ status'[r] = "reading"
      /\ \A s \in Readers \ {r} : pos'[s] = pos[s] /\ expect'[s] = expect[s] /\ status'[s] = status[s]
      BY <1>1 DEF Typed
<1>3. got'[r] = Put(got[r], expect[r][1], v) /\ \A s \in Readers \ {r} : got'[s] = got[s]
      BY <1>1 DEF Typed, Put
<1>4. Typed'  BY <1>1 DEF Typed
<1>5. ReaderInv(r, index, file, end.cells, status'[r], expect'[r], got'[r], pos'[r])
      BY <1>2, <1>3 DEF ReaderInv
<1> QED  BY <1>2, <1>3, <1>4, <1>5 DEF StepOf

(* A stuck reader raises.                                                  *)
LEMMA StuckStep ==
  ASSUME index \in StoreIndex, end.cells \in Nat, Typed, NEW r \in Readers, ReadStep(r),
         Stuck(index, end.cells, expect[r], pos[r])
  PROVE  Raise(r) /\ Bad(index, file, end.cells)
<1>1. /\ expect[r] # <<>> /\ expect[r][1].field \notin Loops /\ pos[r] \in Nat /\ pos[r] >= end.cells
      /\ end.cells < Len(PackedIndex(index))
      BY DEF Stuck
<1>2. ~Has(r, 1)  BY <1>1 DEF Has
<1>3. ReadNumber(r) => Raise(r)  BY <1>2 DEF ReadNumber
<1>4. ReadString(r) => Raise(r)  BY <1>2 DEF ReadString
<1>5. ReadShape(r) => Raise(r)  BY <1>2 DEF ReadShape
<1>6. ~Loop(r)  BY <1>1 DEF Loop, HeadIs
<1>7. ~Finish(r)  BY <1>1 DEF Finish
<1>8. Bad(index, file, end.cells)  BY <1>1 DEF Bad
<1> QED  BY <1>3, <1>4, <1>5, <1>6, <1>7, <1>8 DEF ReadStep

(* Reading a number leaves a reader that is in step with the file in step  *)
(* with it, stuck, or refusing.                                            *)
LEMMA NumberLeaves ==
  ASSUME index \in StoreIndex, end.cells \in Nat, Typed, NEW r \in Readers, ReadNumber(r),
         Good(index, file, end.cells, expect[r], got[r], pos[r])
  PROVE  StepOf(r)
<1>1. status[r] = "reading" /\ expect[r] # <<>> /\ expect[r][1].field \notin Strings \cup Loops \cup {"shape"}
      BY DEF ReadNumber
<1>p. PICK x \in StoreIndex : x = index  OBVIOUS
<1>q. PICK c \in Nat : c = end.cells  OBVIOUS
<1>r. PICK f : f = file  OBVIOUS
<1>s. PICK e : e = expect[r]  OBVIOUS
<1>t. PICK g : g = got[r]  OBVIOUS
<1>u. PICK n : n = pos[r]  OBVIOUS
<1>2. Good(x, f, c, e, g, n) /\ e # <<>> /\ e[1].field \notin Strings \cup Loops \cup {"shape"}
      BY <1>1, <1>p, <1>q, <1>r, <1>s, <1>t, <1>u
<1>n. n \in Nat  BY <1>2 DEF Good
<1>3. /\ n + 1 > c => Bad(x, f, c)
      /\ n + 1 <= c => /\ e[1].field = "magic" /\ f[n + 1].number # Magic => Bad(x, f, c)
                       /\ e[1].field = "version" /\ f[n + 1].number # Version => Bad(x, f, c)
                       /\ ~ (e[1].field = "magic" /\ f[n + 1].number # Magic) /\
                          ~ (e[1].field = "version" /\ f[n + 1].number # Version)
                          => Good(x, f, c, Tail(e), Put(g, e[1], f[n + 1].number), n + 1)
      BY <1>2, NumberStep
<1>4. (Has(r, 1) <=> n + 1 <= c) /\ Cell(r, 1) = f[n + 1].number
      BY <1>q, <1>r, <1>u DEF Has, Cell
<1>5. CASE ~ (n + 1 <= c)
  <2>1. Raise(r)  BY <1>4, <1>5 DEF ReadNumber
  <2>2. Bad(x, f, c)  BY <1>3, <1>5, <1>n
  <2> QED  BY <1>p, <1>q, <1>r, <2>1, <2>2, Raises
<1>6. CASE n + 1 <= c /\ e[1].field = "magic" /\ f[n + 1].number # Magic
  <2>1. Raise(r)  BY <1>4, <1>6, <1>s DEF ReadNumber
  <2>2. Bad(x, f, c)  BY <1>3, <1>6
  <2> QED  BY <1>p, <1>q, <1>r, <2>1, <2>2, Raises
<1>7. CASE n + 1 <= c /\ e[1].field = "version" /\ f[n + 1].number # Version
  <2>1. Raise(r)  BY <1>4, <1>7, <1>s DEF ReadNumber
  <2>2. Bad(x, f, c)  BY <1>3, <1>7
  <2> QED  BY <1>p, <1>q, <1>r, <2>1, <2>2, Raises
<1>8. CASE /\ n + 1 <= c /\ ~ (e[1].field = "magic" /\ f[n + 1].number # Magic)
           /\ ~ (e[1].field = "version" /\ f[n + 1].number # Version)
  <2>1. Take(r, 1, f[n + 1].number)  BY <1>4, <1>8, <1>s DEF ReadNumber
  <2>2. Good(x, f, c, Tail(e), Put(g, e[1], f[n + 1].number), n + 1)  BY <1>3, <1>8
  <2>3. Good(index, file, end.cells, Tail(expect[r]), Put(got[r], expect[r][1], f[n + 1].number), pos[r] + 1)
        BY <1>p, <1>q, <1>r, <1>s, <1>t, <1>u, <2>2
  <2> QED  BY <1>1, <2>1, <2>3, Takes
<1> QED  BY <1>5, <1>6, <1>7, <1>8

(* So does reading a string; a Python reader at the end of the file takes  *)
(* what there is and is stuck.                                             *)
LEMMA StringLeaves ==
  ASSUME index \in StoreIndex, end.cells \in Nat, Typed, NEW r \in Readers, ReadString(r),
         Good(index, file, end.cells, expect[r], got[r], pos[r])
  PROVE  StepOf(r)
<1>1. status[r] = "reading" /\ expect[r] # <<>> /\ expect[r][1].field \in Strings  BY DEF ReadString, HeadIs
<1>p. PICK x \in StoreIndex : x = index  OBVIOUS
<1>q. PICK c \in Nat : c = end.cells  OBVIOUS
<1>r. PICK f : f = file  OBVIOUS
<1>s. PICK e : e = expect[r]  OBVIOUS
<1>t. PICK g : g = got[r]  OBVIOUS
<1>u. PICK n : n = pos[r]  OBVIOUS
<1>2. Good(x, f, c, e, g, n) /\ e # <<>> /\ e[1].field \in Strings
      BY <1>1, <1>p, <1>q, <1>r, <1>s, <1>t, <1>u
<1>n. n \in Nat  BY <1>2 DEF Good
<1>3. /\ n + 1 > c => Bad(x, f, c)
      /\ n + 1 <= c /\ f[n + 1].number = 0 =>
           \/ Good(x, f, c, Tail(e), Put(g, e[1], <<>>), n + 2)
           \/ Stuck(x, c, Tail(e), n + 2)
      /\ n + 1 <= c /\ n + 2 <= c => Good(x, f, c, Tail(e), Put(g, e[1], f[n + 2].text), n + 2)
      /\ n + 1 <= c /\ n + 2 > c => Bad(x, f, c) /\ Stuck(x, c, Tail(e), n + 1)
      BY <1>2, StringStep
<1>4. /\ (Has(r, 1) <=> n + 1 <= c) /\ (Has(r, 2) <=> n + 2 <= c)
      /\ Cell(r, 1) = f[n + 1].number /\ String(r) = f[n + 2].text
      BY <1>q, <1>r, <1>u DEF Has, Cell, String
<1>5. CASE ~ (n + 1 <= c)
  <2>1. Raise(r)  BY <1>4, <1>5 DEF ReadString
  <2>2. Bad(x, f, c)  BY <1>3, <1>5, <1>n
  <2> QED  BY <1>p, <1>q, <1>r, <2>1, <2>2, Raises
<1>6. CASE n + 1 <= c /\ f[n + 1].number = 0
  <2>1. Take(r, 2, <<>>)  BY <1>4, <1>6 DEF ReadString
  <2>2. \/ Good(index, file, end.cells, Tail(expect[r]), Put(got[r], expect[r][1], <<>>), pos[r] + 2)
        \/ Stuck(index, end.cells, Tail(expect[r]), pos[r] + 2)
        BY <1>3, <1>6, <1>p, <1>q, <1>r, <1>s, <1>t, <1>u
  <2> QED  BY <1>1, <2>1, <2>2, Takes
<1>7. CASE n + 1 <= c /\ f[n + 1].number # 0 /\ n + 2 <= c
  <2>1. Take(r, 2, f[n + 2].text)  BY <1>4, <1>7 DEF ReadString
  <2>2. Good(index, file, end.cells, Tail(expect[r]), Put(got[r], expect[r][1], f[n + 2].text), pos[r] + 2)
        BY <1>3, <1>7, <1>p, <1>q, <1>r, <1>s, <1>t, <1>u
  <2> QED  BY <1>1, <2>1, <2>2, Takes
<1>8. CASE n + 1 <= c /\ f[n + 1].number # 0 /\ ~ (n + 2 <= c)
  <2>1. Bad(x, f, c) /\ Stuck(x, c, Tail(e), n + 1)
    <3>1. n + 2 > c  BY <1>8, <1>n
    <3> QED  BY <1>3, <1>8, <3>1
  <2>2. CASE r = "cpp"
    <3>1. Raise(r)  BY <1>4, <1>8, <2>2 DEF ReadString
    <3> QED  BY <1>p, <1>q, <1>r, <2>1, <3>1, Raises
  <2>3. CASE r # "cpp"
    <3>1. PICK v : v = SubSeq(String(r), 1, end.chars)  OBVIOUS
    <3>2. Take(r, 1, v)  BY <1>4, <1>8, <2>3, <3>1 DEF ReadString
    <3>3. Stuck(index, end.cells, Tail(expect[r]), pos[r] + 1)  BY <2>1, <1>p, <1>q, <1>s, <1>u
    <3> QED  BY <1>1, <3>2, <3>3, Takes
  <2> QED  BY <2>2, <2>3
<1> QED  BY <1>5, <1>6, <1>7, <1>8

(* So does reading a shape.                                                *)
LEMMA ShapeLeaves ==
  ASSUME index \in StoreIndex, end.cells \in Nat, Typed, NEW r \in Readers, ReadShape(r),
         Good(index, file, end.cells, expect[r], got[r], pos[r])
  PROVE  StepOf(r)
<1>1. status[r] = "reading" /\ expect[r] # <<>> /\ expect[r][1].field = "shape"  BY DEF ReadShape, HeadIs
<1>p. PICK x \in StoreIndex : x = index  OBVIOUS
<1>q. PICK c \in Nat : c = end.cells  OBVIOUS
<1>r. PICK f : f = file  OBVIOUS
<1>s. PICK e : e = expect[r]  OBVIOUS
<1>t. PICK g : g = got[r]  OBVIOUS
<1>u. PICK n : n = pos[r]  OBVIOUS
<1>2. Good(x, f, c, e, g, n) /\ e # <<>> /\ e[1].field = "shape"
      BY <1>1, <1>p, <1>q, <1>r, <1>s, <1>t, <1>u
<1>m. PICK m : m = f[n + 1].number  OBVIOUS
<1>v. PICK v : v = [d \in 1 .. m |-> f[n + (1 + d)].number]  OBVIOUS
<1>3. /\ m \in Nat /\ (n + 1 > c => Bad(x, f, c))
      /\ n + (1 + m) > c => Bad(x, f, c)
      /\ n + (1 + m) <= c => Good(x, f, c, Tail(e), Put(g, e[1], v), n + (1 + m))
      BY <1>2, <1>m, <1>v, ShapeStep
<1>4. /\ (Has(r, 1) <=> n + 1 <= c) /\ Cell(r, 1) = m
      /\ (Has(r, 1 + Cell(r, 1)) <=> n + (1 + m) <= c)
      /\ [d \in 1 .. Cell(r, 1) |-> Cell(r, 1 + d)] = v
      BY <1>m, <1>v, <1>q, <1>r, <1>u DEF Has, Cell
<1>n. n \in Nat  BY <1>2 DEF Good
<1>5. CASE ~ (n + 1 <= c)
  <2>1. Raise(r)  BY <1>4, <1>5 DEF ReadShape
  <2>2. Bad(x, f, c)  BY <1>3, <1>5, <1>n
  <2> QED  BY <1>p, <1>q, <1>r, <2>1, <2>2, Raises
<1>6. CASE ~ (n + (1 + m) <= c)
  <2>1. Raise(r)  BY <1>4, <1>6 DEF ReadShape
  <2>2. Bad(x, f, c)  BY <1>3, <1>6, <1>n
  <2> QED  BY <1>p, <1>q, <1>r, <2>1, <2>2, Raises
<1>7. CASE n + 1 <= c /\ n + (1 + m) <= c
  <2>1. Take(r, 1 + m, v)  BY <1>4, <1>7 DEF ReadShape
  <2>2. Good(index, file, end.cells, Tail(expect[r]), Put(got[r], expect[r][1], v), pos[r] + (1 + m))
        BY <1>3, <1>7, <1>p, <1>q, <1>r, <1>s, <1>t, <1>u
  <2> QED  BY <1>1, <2>1, <2>2, Takes
<1> QED  BY <1>5, <1>6, <1>7

(* So does starting a loop.                                                *)
LEMMA LoopLeaves ==
  ASSUME index \in StoreIndex, end.cells \in Nat, Typed, NEW r \in Readers, Loop(r),
         Good(index, file, end.cells, expect[r], got[r], pos[r])
  PROVE  StepOf(r)
<1>1. status[r] = "reading" /\ expect[r] # <<>> /\ expect[r][1].field \in Loops  BY DEF Loop, HeadIs
<1>p. PICK x \in StoreIndex : x = index  OBVIOUS
<1>q. PICK c \in Nat : c = end.cells  OBVIOUS
<1>r. PICK f : f = file  OBVIOUS
<1>s. PICK e : e = expect[r]  OBVIOUS
<1>t. PICK g : g = got[r]  OBVIOUS
<1>u. PICK n : n = pos[r]  OBVIOUS
<1>2. Good(x, f, c, e, g, n) /\ e # <<>> /\ e[1].field \in Loops
      BY <1>1, <1>p, <1>q, <1>r, <1>s, <1>t, <1>u
<1>3. Good(x, f, c, FlattenSeq(Items(r, g, e[1])) \o Tail(e), g, n)  BY <1>2, LoopStep
<1>4. /\ expect' = [expect EXCEPT ![r] = FlattenSeq(Items(r, got[r], expect[r][1])) \o Tail(@)]
      /\ status' = status /\ got' = got /\ pos' = pos
      BY Zenon DEF Loop, Items
<1>5. PICK v : v = FlattenSeq(Items(r, g, e[1])) \o Tail(e)  OBVIOUS
<1>6. expect' = [expect EXCEPT ![r] = v]
  <2>1. expect' = [expect EXCEPT ![r] = FlattenSeq(Items(r, got[r], expect[r][1])) \o Tail(expect[r])]
        BY <1>4, Zenon
  <2> QED  BY <1>5, <1>s, <1>t, <2>1
<1>7. expect'[r] = v /\ \A s \in Readers \ {r} : expect'[s] = expect[s]  BY <1>6 DEF Typed
<1>8. Typed'  BY <1>4, <1>6 DEF Typed
<1>9. ReaderInv(r, index, file, end.cells, status'[r], expect'[r], got'[r], pos'[r])
  <2>1. Good(index, file, end.cells, expect'[r], got[r], pos[r])
        BY <1>3, <1>5, <1>7, <1>p, <1>q, <1>r, <1>t, <1>u
  <2> QED  BY <1>1, <1>4, <2>1 DEF ReaderInv
<1> QED  BY <1>4, <1>7, <1>8, <1>9 DEF StepOf

(* A reader with nothing left to read is done with the whole index, or its *)
(* count of tensors was wrong, or its validator refuses.                   *)
LEMMA FinishLeaves ==
  ASSUME index \in StoreIndex, end.cells \in Nat, Typed, NEW r \in Readers, Finish(r),
         Good(index, file, end.cells, expect[r], got[r], pos[r])
  PROVE  StepOf(r)
<1>1. status[r] = "reading" /\ expect[r] = <<>>  BY DEF Finish
<1>p. PICK x \in StoreIndex : x = index  OBVIOUS
<1>q. PICK c \in Nat : c = end.cells  OBVIOUS
<1>r. PICK f : f = file  OBVIOUS
<1>s. PICK e : e = expect[r]  OBVIOUS
<1>t. PICK g : g = got[r]  OBVIOUS
<1>u. PICK n : n = pos[r]  OBVIOUS
<1>2. Good(x, f, c, e, g, n) /\ e = <<>>  BY <1>1, <1>p, <1>q, <1>r, <1>s, <1>t, <1>u
<1>3. /\ c >= Len(PackedIndex(x)) /\ g = Contents(x, f)
      /\ {p \in DOMAIN g : p.field = "tensor_id"} = TensorIds(x)
      /\ g[Header("num_tensors")] = f[11].number
      /\ f[1].number = Magic /\ f[2].number = Version
      BY <1>2, FinishStep
<1>4. MembersRead(r) = TensorIds(x)  BY <1>3, <1>t DEF MembersRead
<1>5. PICK o : o = IF /\ Cardinality(MembersRead(r)) = got[r][Header("num_tensors")]
                      /\ Validated(r, Assembled(got[r])) THEN "done" ELSE "raised"
      OBVIOUS
<1>v. Validated(r, Assembled(got[r])) <=> Accepted(r, x, f)  BY <1>3, <1>t DEF Accepted
<1>6. status' = [status EXCEPT ![r] = o] /\ expect' = expect /\ got' = got /\ pos' = pos  BY <1>5 DEF Finish
<1>7. o \in {"done", "raised"}  BY <1>5
<1>8. status'[r] = o /\ \A s \in Readers \ {r} : status'[s] = status[s]  BY <1>6 DEF Typed
<1>9. Typed'  BY <1>6, <1>7 DEF Typed
<1>10. ReaderInv(r, index, file, end.cells, status'[r], expect'[r], got'[r], pos'[r])
  <2>1. CASE Cardinality(TensorIds(x)) = f[11].number /\ Accepted(r, x, f)
    <3>1. o = "done"  BY <1>3, <1>4, <1>5, <1>t, <1>v, <2>1
    <3>2. ~ Bad(x, f, c)
      <4>1. ~ (c < Len(PackedIndex(x)))
        <5>1. n \in Nat /\ Aligned(x, f, e, n)  BY <1>2 DEF Good
        <5>2. Spread(Pack(x, f), e) = <<>>  BY <1>2, SpreadEmpty
        <5>3. Len(PackedIndex(x)) = n + 0  BY <5>1, <5>2 DEF Aligned
        <5> QED  BY <1>3, <5>1, <5>3
      <4> QED  BY <1>3, <2>1, <4>1 DEF Bad
    <3> QED  BY <1>3, <1>6, <1>8, <1>p, <1>q, <1>r, <1>t, <2>1, <3>1, <3>2 DEF ReaderInv
  <2>2. CASE ~ (Cardinality(TensorIds(x)) = f[11].number /\ Accepted(r, x, f))
    <3>1. o = "raised"  BY <1>3, <1>4, <1>5, <1>t, <1>v, <2>2
    <3>2. Bad(x, f, c) \/ ~Accepted(r, x, f)  BY <2>2 DEF Bad
    <3> QED  BY <1>8, <1>p, <1>q, <1>r, <3>1, <3>2 DEF ReaderInv
  <2> QED  BY <2>1, <2>2
<1> QED  BY <1>6, <1>8, <1>9, <1>10 DEF StepOf

(* Every step of a reader keeps what is known of it.                       *)
LEMMA ReaderStepLeaves ==
  ASSUME index \in StoreIndex, end.cells \in Nat, Typed, NEW r \in Readers, ReadStep(r),
         ReaderInv(r, index, file, end.cells, status[r], expect[r], got[r], pos[r])
  PROVE  StepOf(r)
<1>1. status[r] = "reading"
      BY DEF ReadStep, ReadNumber, ReadString, ReadShape, Loop, Finish, HeadIs
<1>2. \/ Stuck(index, end.cells, expect[r], pos[r])
      \/ Good(index, file, end.cells, expect[r], got[r], pos[r])
      BY <1>1 DEF ReaderInv
<1>3. CASE Stuck(index, end.cells, expect[r], pos[r])  BY <1>3, StuckStep, Raises
<1>4. CASE Good(index, file, end.cells, expect[r], got[r], pos[r])
  <2>1. ReadNumber(r) \/ ReadString(r) \/ ReadShape(r) \/ Loop(r) \/ Finish(r)  BY DEF ReadStep
  <2> QED  BY <1>4, <2>1, NumberLeaves, StringLeaves, ShapeLeaves, LoopLeaves, FinishLeaves
<1> QED  BY <1>2, <1>3, <1>4
-----------------------------------------------------------------------------
(* The header: eleven fields, of which the four that may come altered are  *)
(* the cells 1, 2, 3 and 11.                                               *)
HeaderCells(x) == [i \in DOMAIN HeaderOrder.writer |-> HeaderField(x, HeaderOrder.writer[i])]
AnyCells(x, f) == CellSet(f) \cup {Number(Magic), Number(Version), Number(0), Number(NumTensors(x))}
Same(x, f) == \A k \in 1 .. Len(PackedIndex(x)) : k \notin {1, 2, 3, 11} => f[k] = PackedIndex(x)[k]

(* Where the four cells that may become others are among the fields of the *)
(* header.                                                                 *)
LEMMA HeaderNamesAt ==
  /\ \A i \in 1 .. 11 : HeaderOrder.writer[i] \in Altered <=> i \in {1, 2, 3, 9}
  /\ \A i \in 1 .. 11 : HeaderOrder.writer[i] \in Strings <=> i \in {5, 6}
  /\ \A i \in 1 .. 11 : HeaderOrder.writer[i] # "shape"
  /\ HeaderOrder.writer[1] = "magic" /\ HeaderOrder.writer[2] = "version" /\ HeaderOrder.writer[3] = "flags"
  /\ HeaderOrder.writer[9] = "num_tensors"
  /\ CellOf["magic"] = 1 /\ CellOf["version"] = 2 /\ CellOf["flags"] = 3 /\ CellOf["num_tensors"] = 11
<1>1. \A i \in 1 .. 11 : HeaderOrder.writer[i] \in Altered <=> i \in {1, 2, 3, 9}  BY DEF HeaderOrder, Altered
<1>2. \A i \in 1 .. 11 : HeaderOrder.writer[i] \in Strings <=> i \in {5, 6}  BY DEF HeaderOrder, Strings
<1>3. \A i \in 1 .. 11 : HeaderOrder.writer[i] # "shape"  BY DEF HeaderOrder
<1>4. /\ HeaderOrder.writer[1] = "magic" /\ HeaderOrder.writer[2] = "version" /\ HeaderOrder.writer[3] = "flags"
      /\ HeaderOrder.writer[9] = "num_tensors"
      BY DEF HeaderOrder
<1>5. CellOf["magic"] = 1 /\ CellOf["version"] = 2 /\ CellOf["flags"] = 3 /\ CellOf["num_tensors"] = 11  BY DEF CellOf
<1> QED  BY <1>1, <1>2, <1>3, <1>4, <1>5

(* Each of those four fields is one cell.                                  *)
LEMMA HeaderAltered ==
  ASSUME NEW x, NEW d \in Altered
  PROVE  /\ HeaderField(x, d) \in {<<Number(Magic)>>, <<Number(Version)>>, <<Number(0)>>, <<Number(NumTensors(x))>>}
         /\ Len(HeaderField(x, d)) = 1
<1>1. CASE d = "magic"  
  <2>1. HeaderField(x, d) = <<Number(Magic)>>
    <3>1. /\ d # "version" /\ d # "flags" /\ d # "num_stages" /\ d # "num_groups" /\ d # "num_tensors"
          /\ d # "stages" /\ d # "groups"  BY <1>1
    <3> QED  BY <1>1, <3>1, Zenon DEF HeaderField
  <2> QED  BY <2>1
<1>2. CASE d = "version"
  <2>1. HeaderField(x, d) = <<Number(Version)>>
    <3>1. /\ d # "magic" /\ d # "flags" /\ d # "num_stages" /\ d # "num_groups" /\ d # "num_tensors"
          /\ d # "stages" /\ d # "groups"  BY <1>2
    <3> QED  BY <1>2, <3>1, Zenon DEF HeaderField
  <2> QED  BY <2>1
<1>3. CASE d = "flags"
  <2>1. HeaderField(x, d) = <<Number(0)>>
    <3>1. /\ d # "magic" /\ d # "version" /\ d # "num_stages" /\ d # "num_groups" /\ d # "num_tensors"
          /\ d # "stages" /\ d # "groups"  BY <1>3
    <3> QED  BY <1>3, <3>1, Zenon DEF HeaderField
  <2> QED  BY <2>1
<1>4. CASE d = "num_tensors"
  <2>1. HeaderField(x, d) = <<Number(NumTensors(x))>>
    <3>1. /\ d # "magic" /\ d # "version" /\ d # "flags" /\ d # "num_stages" /\ d # "num_groups"
          /\ d # "stages" /\ d # "groups"  BY <1>4
    <3> QED  BY <1>4, <3>1, Zenon DEF HeaderField
  <2> QED  BY <2>1
<1> QED  BY <1>1, <1>2, <1>3, <1>4 DEF Altered

(* What is written and what is found have the header fields alike, but for *)
(* those four, and all of them are as long.                                *)
LengthsOf(a) == [i \in 1 .. 11 |-> Len(a[i])]
HeaderLengths(l) ==
  /\ \A i \in 1 .. 11 : l[i] \in Nat
  /\ l[1] = 1 /\ l[2] = 1 /\ l[3] = 1 /\ l[4] = 1 /\ l[5] = 2 /\ l[6] = 2 /\ l[7] = 1 /\ l[8] = 1 /\ l[9] = 1
Alike(f, a, b) == /\ \A i \in 1 .. 11 : i \notin {1, 2, 3, 9} => a[i] = b[i]
                  /\ a[1] = <<f[1]>> /\ a[2] = <<f[2]>> /\ a[3] = <<f[3]>> /\ a[9] = <<f[11]>>
(* The cells of the header in the file have the lengths of those written,  *)
(* and are those written but for the four.                                 *)
LEMMA HeaderParts ==
  ASSUME NEW x \in StoreIndex, NEW f, NEW a, a = Mapped(Pack(x, f), HeaderFields), NEW b, b = HeaderCells(x)
  PROVE  /\ ListOf(a, 11, Seq(AnyCells(x, f))) /\ ListOf(b, 11, Seq(AnyCells(x, f)))
         /\ LengthsOf(b) = LengthsOf(a) /\ HeaderLengths(LengthsOf(a)) /\ Alike(f, a, b)
<1>1. DOMAIN HeaderOrder.writer = 1 .. 11 /\ \A i \in 1 .. 11 : HeaderOrder.writer[i] \in HeaderNames
      BY WriterOrders
<1>2. DOMAIN HeaderFields = 1 .. 11 /\ \A i \in 1 .. 11 : HeaderFields[i] = Header(HeaderOrder.writer[i])
      BY <1>1 DEF HeaderFields, Fields, Header
<1>3. a = [i \in 1 .. 11 |-> Pack(x, f)[Header(HeaderOrder.writer[i])]]  BY <1>2 DEF Mapped
<1>4. b = [i \in 1 .. 11 |-> HeaderField(x, HeaderOrder.writer[i])]  BY <1>1 DEF HeaderCells
<1>5. CellSet(f) \subseteq AnyCells(x, f)  BY DEF AnyCells
<1>6. ASSUME NEW i \in 1 .. 11
      PROVE  /\ a[i] \in Seq(AnyCells(x, f)) /\ b[i] \in Seq(AnyCells(x, f)) /\ Len(a[i]) = Len(b[i])
             /\ i \notin {1, 2, 3, 9} => a[i] = b[i]
             /\ i \in 1 .. 9 => Len(a[i]) = IF i \in {5, 6} THEN 2 ELSE 1
  <2>1. PICK d \in HeaderNames : d = HeaderOrder.writer[i]  BY <1>1
  <2>2. PICK p : p = Header(d)  OBVIOUS
  <2>3. p \in AllFields(x)  BY <2>2, HeaderIn
  <2>4. a[i] = Pack(x, f)[p] /\ b[i] = HeaderField(x, d)  BY <1>3, <1>4, <2>1, <2>2
  <2>5. Pack(x, f)[p] = IF d \in Altered THEN <<f[CellOf[d]]>> ELSE HeaderField(x, d)  BY <2>2, PackHeader
  <2>6. a[i] \in Seq(AnyCells(x, f))
    <3>1. Pack(x, f)[p] \in Seq(CellSet(f))  BY <2>3, PackMaps DEF Maps
    <3> QED  BY <1>5, <2>4, <3>1, SeqWider
  <2>7. CASE d \in Altered
    <3>1. i \in {1, 2, 3, 9}  BY <2>1, <2>7, HeaderNamesAt
    <3>2. Len(a[i]) = 1  BY <2>4, <2>5, <2>7
    <3>3. Len(b[i]) = 1  BY <2>4, <2>7, HeaderAltered
    <3>4. b[i] \in {<<Number(Magic)>>, <<Number(Version)>>, <<Number(0)>>, <<Number(NumTensors(x))>>}
          BY <2>4, <2>7, HeaderAltered
    <3>5. b[i] \in Seq(AnyCells(x, f))
      <4>1. PICK v \in AnyCells(x, f) : b[i] = <<v>>  BY <3>4 DEF AnyCells
      <4> QED  BY <4>1
    <3> QED  BY <2>6, <3>1, <3>2, <3>3, <3>5
  <2>8. CASE d \notin Altered
    <3>1. i \notin {1, 2, 3, 9}  BY <2>1, <2>8, HeaderNamesAt
    <3>2. a[i] = b[i]  BY <2>4, <2>5, <2>8
    <3>3. ASSUME i \in 1 .. 9 PROVE Len(a[i]) = IF i \in {5, 6} THEN 2 ELSE 1
      <4>1. p.field = d  BY <2>2 DEF Header, At
      <4>2. d \notin Loops
        <5>1. i \notin {10, 11}  BY <3>3
        <5> QED  BY <2>1, <5>1, HeaderFacts
      <4>3. p \in Leaves(x)  BY <2>3, <4>1, <4>2 DEF Leaves
      <4>4. LeafCells(d, a[i])  BY <2>4, <4>1, <4>3, LeafPacked
      <4>5. (d \in Strings <=> i \in {5, 6}) /\ d # "shape"  BY <2>1, HeaderNamesAt
      <4> QED  BY <4>4, <4>5 DEF LeafCells
    <3> QED  BY <2>6, <3>1, <3>2, <3>3
  <2> QED  BY <2>7, <2>8
<1>7. ASSUME NEW i \in {1, 2, 3, 9} PROVE a[i] = <<f[CellOf[HeaderOrder.writer[i]]]>>
  <2>1. PICK d \in HeaderNames : d = HeaderOrder.writer[i]
    <3>1. i \in 1 .. 11  OBVIOUS
    <3> QED  BY <1>1, <3>1
  <2>2. d \in Altered
    <3>1. i \in 1 .. 11  OBVIOUS
    <3> QED  BY <2>1, <3>1, HeaderNamesAt
  <2>3. Pack(x, f)[Header(d)] = <<f[CellOf[d]]>>  BY <2>2, PackHeader
  <2> QED  BY <1>3, <2>1, <2>3
<1>8. a[1] = <<f[1]>> /\ a[2] = <<f[2]>> /\ a[3] = <<f[3]>> /\ a[9] = <<f[11]>>  BY <1>7, HeaderNamesAt
<1>9. ListOf(a, 11, Seq(AnyCells(x, f)))  BY <1>3, <1>6 DEF ListOf
<1>10. ListOf(b, 11, Seq(AnyCells(x, f)))  BY <1>4, <1>6 DEF ListOf
<1>11. \A i \in 1 .. 11 : Len(a[i]) = Len(b[i]) /\ Len(a[i]) \in Nat
  <2> TAKE i \in 1 .. 11
  <2>1. a[i] \in Seq(AnyCells(x, f))  BY <1>6
  <2>2. PICK s \in Seq(AnyCells(x, f)) : s = a[i]  BY <2>1
  <2>3. Len(s) \in Nat  OBVIOUS
  <2>4. Len(a[i]) = Len(b[i])  BY <1>6
  <2> QED  BY <2>2, <2>3, <2>4
<1>12. \A i \in 1 .. 11 : i \notin {1, 2, 3, 9} => a[i] = b[i]  BY <1>6
<1>13. \A i \in 1 .. 9 : Len(a[i]) = IF i \in {5, 6} THEN 2 ELSE 1
  <2> TAKE i \in 1 .. 9
  <2>1. PICK h \in 1 .. 11 : h = i  OBVIOUS
  <2>2. h \in 1 .. 9 => Len(a[h]) = IF h \in {5, 6} THEN 2 ELSE 1  BY <1>6
  <2> QED  BY <2>1, <2>2
<1>14. LengthsOf(b) = LengthsOf(a)  BY <1>11 DEF LengthsOf
<1>15. HeaderLengths(LengthsOf(a))
  <2>1. PICK l : l = LengthsOf(a)  OBVIOUS
  <2>2. \A i \in 1 .. 11 : l[i] = Len(a[i])  BY <2>1 DEF LengthsOf
  <2>3. \A i \in 1 .. 11 : l[i] \in Nat  BY <1>11, <2>2
  <2>4. \A i \in 1 .. 9 : l[i] = IF i \in {5, 6} THEN 2 ELSE 1
    <3> TAKE i \in 1 .. 9
    <3>1. i \in 1 .. 11  OBVIOUS
    <3> QED  BY <1>13, <2>2, <3>1
  <2> QED  BY <2>1, <2>3, <2>4 DEF HeaderLengths
<1>16. Alike(f, a, b)  BY <1>8, <1>12 DEF Alike
<1> QED  BY <1>9, <1>10, <1>14, <1>15, <1>16

(* Where the header fields are in the file.                                *)
HeaderStarts(off) ==
  /\ off[1] = 0 /\ off[2] = 1 /\ off[3] = 2 /\ off[4] = 3 /\ off[5] = 4 /\ off[6] = 6 /\ off[7] = 8
  /\ off[8] = 9 /\ off[9] = 10 /\ off[10] = 11 /\ off[11] \in Nat /\ off[11] >= 11
  /\ off[12] \in Nat /\ off[12] >= 11
(* The first ten cells of a file are those of the fields up to the         *)
(* checkpoint name; the count of tensors is the eleventh.                  *)
LEMMA HeaderSums ==
  ASSUME NEW a, Len(a) = 11, NEW off, IsOffsets(a, off), NEW l, l = LengthsOf(a), HeaderLengths(l)
  PROVE  HeaderStarts(off)
<1>1. off \in [1 .. 12 -> Nat] /\ off[1] = 0 /\ \A i \in 1 .. 11 : off[i + 1] = off[i] + Len(a[i])
  <2>1. 11 + 1 = 12  OBVIOUS
  <2> QED  BY <2>1 DEF IsOffsets
<1>2. \A i \in 1 .. 11 : l[i] = Len(a[i])  BY DEF LengthsOf
<1>3. \A i \in 1 .. 11 : off[i + 1] = off[i] + l[i]  BY <1>1, <1>2
<1>4. /\ off[1 + 1] = off[1] + l[1] /\ off[2 + 1] = off[2] + l[2] /\ off[3 + 1] = off[3] + l[3]
      /\ off[4 + 1] = off[4] + l[4] /\ off[5 + 1] = off[5] + l[5] /\ off[6 + 1] = off[6] + l[6]
      /\ off[7 + 1] = off[7] + l[7] /\ off[8 + 1] = off[8] + l[8] /\ off[9 + 1] = off[9] + l[9]
      /\ off[10 + 1] = off[10] + l[10] /\ off[11 + 1] = off[11] + l[11]
      BY <1>3
<1>5. /\ l[1] = 1 /\ l[2] = 1 /\ l[3] = 1 /\ l[4] = 1 /\ l[5] = 2 /\ l[6] = 2 /\ l[7] = 1 /\ l[8] = 1 /\ l[9] = 1
      /\ l[10] \in Nat /\ l[11] \in Nat
      BY DEF HeaderLengths
<1>6. off[1] = 0  BY <1>1
<1> QED  BY <1>4, <1>5, <1>6 DEF HeaderStarts

(* The flattened header, one part after the other.                         *)
HeaderIs(v, off, a) ==
  /\ \A k \in 1 .. Len(v) : \E i \in 1 .. 11 : \E j \in 1 .. LengthsOf(a)[i] : k = off[i] + j
  /\ \A i \in 1 .. 11 : \A j \in 1 .. LengthsOf(a)[i] : v[off[i] + j] = a[i][j]
LaidOut(v, off, a) ==
  /\ Len(v) = off[Len(a) + 1]
  /\ \A k \in 1 .. off[Len(a) + 1] : \E i \in 1 .. Len(a) : \E j \in 1 .. Len(a[i]) : k = off[i] + j
  /\ \A i \in 1 .. Len(a) : \A j \in 1 .. Len(a[i]) : v[off[i] + j] = a[i][j]
(* Every cell of the flattened parts is one of one part, at its offset.    *)
LEMMA FlattenLaidOut ==
  ASSUME NEW S, NEW a \in Seq(Seq(S)), NEW off, IsOffsets(a, off)
  PROVE  LaidOut(FlattenSeq(a), off, a) /\ FlattenSeq(a) \in Seq(S)
<1>1. \A k \in 1 .. off[Len(a) + 1] : \E i \in 1 .. Len(a) : \E j \in 1 .. Len(a[i]) : k = off[i] + j
      BY OffsetsCover
<1> QED  BY <1>1, FlattenSeqPlaces DEF LaidOut

(* The eleven parts of the header lie one behind the other.                *)
LEMMA HeaderLaid ==
  ASSUME NEW S, NEW a \in Seq(Seq(S)), Len(a) = 11, NEW off, IsOffsets(a, off), NEW v, v = FlattenSeq(a)
  PROVE  Len(v) = off[12] /\ v \in Seq(S) /\ HeaderIs(v, off, a)
<1>1. LaidOut(v, off, a)  BY FlattenLaidOut
<1>2. v \in Seq(S)  BY FlattenLaidOut
<1>3. PICK l : l = LengthsOf(a)  OBVIOUS
<1>4. \A i \in 1 .. 11 : l[i] = Len(a[i])  BY <1>3 DEF LengthsOf
<1>5. PICK n : n = Len(a)  OBVIOUS
<1>6. /\ Len(v) = off[n + 1]
      /\ \A k \in 1 .. off[n + 1] : \E i \in 1 .. n : \E j \in 1 .. Len(a[i]) : k = off[i] + j
      /\ \A i \in 1 .. n : \A j \in 1 .. Len(a[i]) : v[off[i] + j] = a[i][j]
      BY <1>1, <1>5 DEF LaidOut
<1>7. n = 11 /\ n + 1 = 12  BY <1>5
<1>8. Len(v) = off[12]  BY <1>6, <1>7
<1>9. \A i \in 1 .. 11 : \A j \in 1 .. l[i] : v[off[i] + j] = a[i][j]  BY <1>4, <1>6, <1>7
<1>10. \A k \in 1 .. Len(v) : \E i \in 1 .. 11 : \E j \in 1 .. l[i] : k = off[i] + j
  <2> TAKE k \in 1 .. Len(v)
  <2>1. PICK i \in 1 .. n : \E j \in 1 .. Len(a[i]) : k = off[i] + j  BY <1>6
  <2>2. i \in 1 .. 11 /\ l[i] = Len(a[i])  BY <1>4, <1>7
  <2> QED  BY <2>1, <2>2
<1> QED  BY <1>2, <1>3, <1>8, <1>9, <1>10 DEF HeaderIs

(* The whole file lies before a reader that opens it.                      *)
LEMMA HeaderAligned ==
  ASSUME NEW x \in StoreIndex, NEW f, Same(x, f) PROVE Aligned(x, f, HeaderFields, 0)
<1>1. PICK S : S = AnyCells(x, f)  OBVIOUS
<1>2. PICK a : a = Mapped(Pack(x, f), HeaderFields)  OBVIOUS
<1>3. PICK b : b = HeaderCells(x)  OBVIOUS
<1>4. ListOf(a, 11, Seq(S))  BY <1>1, <1>2, <1>3, HeaderParts
<1>5. ListOf(b, 11, Seq(S))  BY <1>1, <1>2, <1>3, HeaderParts
<1>6. PICK l : l = LengthsOf(a)  OBVIOUS
<1>7. l = LengthsOf(b) /\ HeaderLengths(l)  BY <1>2, <1>3, <1>6, HeaderParts
<1>8. Alike(f, a, b)  BY <1>2, <1>3, HeaderParts
<1>10. a \in Seq(Seq(S)) /\ Len(a) = 11  BY <1>4, ListIsSeq
<1>11. b \in Seq(Seq(S)) /\ Len(b) = 11  BY <1>5, ListIsSeq
<1>12. PICK off : IsOffsets(a, off)  BY <1>10, OffsetsExist
<1>14. IsOffsets(b, off)
  <2>1. \A i \in 1 .. 11 : Len(a[i]) = l[i]  BY <1>6 DEF LengthsOf
  <2>2. \A i \in 1 .. 11 : Len(b[i]) = l[i]  BY <1>7 DEF LengthsOf
  <2>3. off \in [1 .. 11 + 1 -> Nat] /\ off[1] = 0 /\ \A i \in 1 .. 11 : off[i + 1] = off[i] + Len(a[i])
        BY <1>10, <1>12 DEF IsOffsets
  <2>4. \A i \in 1 .. 11 : off[i + 1] = off[i] + Len(b[i])  BY <2>1, <2>2, <2>3
  <2> QED  BY <1>11, <2>3, <2>4 DEF IsOffsets
<1>15. PICK v : v = FlattenSeq(a)  OBVIOUS
<1>16. PICK w : w = FlattenSeq(b)  OBVIOUS
<1>17. Len(v) = off[12] /\ HeaderIs(v, off, a)  BY <1>10, <1>12, <1>15, HeaderLaid
<1>18. Len(w) = off[12] /\ HeaderIs(w, off, b)  BY <1>11, <1>14, <1>16, HeaderLaid
<1>19. w = PackedIndex(x) /\ v = Spread(Pack(x, f), HeaderFields)
       BY <1>2, <1>3, <1>15, <1>16 DEF PackedIndex, HeaderCells, Spread
<1>20. HeaderStarts(off)  BY <1>6, <1>7, <1>10, <1>12, HeaderSums
<1>21. ASSUME NEW k \in 1 .. Len(v) PROVE f[k] = v[k]
  <2>1. \E i \in 1 .. 11 : \E j \in 1 .. l[i] : k = off[i] + j  BY <1>6, <1>17 DEF HeaderIs
  <2>2. PICK i \in 1 .. 11 : \E j \in 1 .. l[i] : k = off[i] + j  BY <2>1
  <2>3. PICK j \in 1 .. l[i] : k = off[i] + j  BY <2>2
  <2>j. l[i] \in Nat /\ j \in Nat /\ j >= 1
    <3>0. HeaderLengths(l)  BY <1>7
    <3>1. l[i] \in Nat  BY <3>0 DEF HeaderLengths
    <3>2. PICK m \in Nat : m = l[i]  BY <3>1
    <3>3. j \in 1 .. m  BY <3>2
    <3> QED  BY <3>1, <3>3
  <2>4. v[k] = a[i][j]  BY <1>6, <1>17, <2>3 DEF HeaderIs
  <2>5. CASE i \in {1, 2, 3, 9}
    <3>1. l[i] = 1  BY <1>7, <2>5 DEF HeaderLengths
    <3>2. j = 1  BY <2>3, <3>1
    <3>3. k = off[i] + 1  BY <2>3, <3>2
    <3>4. (i = 1 => k = 1) /\ (i = 2 => k = 2) /\ (i = 3 => k = 3) /\ (i = 9 => k = 11)
          BY <1>20, <3>3 DEF HeaderStarts
    <3>5. a[i][1] = f[k]  BY <1>8, <2>5, <3>4 DEF Alike
    <3> QED  BY <2>4, <3>2, <3>5
  <2>6. CASE i \notin {1, 2, 3, 9}
    <3>1. a[i] = b[i]  BY <1>8, <2>6 DEF Alike
    <3>2. w[k] = b[i][j]  BY <1>7, <1>18, <2>3 DEF HeaderIs
    <3>3. k \notin {1, 2, 3, 11}
      <4>1. /\ off[4] = 3 /\ off[5] = 4 /\ off[6] = 6 /\ off[7] = 8 /\ off[8] = 9 /\ off[10] = 11
            /\ off[11] \in Nat /\ off[11] >= 11
            BY <1>20 DEF HeaderStarts
      <4>2. l[4] = 1 /\ l[5] = 2 /\ l[6] = 2 /\ l[7] = 1 /\ l[8] = 1  BY <1>7 DEF HeaderLengths
      <4>3. i \in {4, 5, 6, 7, 8, 10, 11}  BY <2>6
      <4>4. CASE i = 4  BY <2>3, <2>j, <4>1, <4>2, <4>4
      <4>5. CASE i = 5  BY <2>3, <2>j, <4>1, <4>2, <4>5
      <4>6. CASE i = 6  BY <2>3, <2>j, <4>1, <4>2, <4>6
      <4>7. CASE i = 7  BY <2>3, <2>j, <4>1, <4>2, <4>7
      <4>8. CASE i = 8  BY <2>3, <2>j, <4>1, <4>2, <4>8
      <4>9. CASE i = 10  BY <2>3, <2>j, <4>1, <4>9
      <4>10. CASE i = 11  BY <2>3, <2>j, <4>1, <4>10
      <4> QED  BY <4>3, <4>4, <4>5, <4>6, <4>7, <4>8, <4>9, <4>10
    <3>4. k \in 1 .. Len(PackedIndex(x))  BY <1>17, <1>18, <1>19
    <3>5. f[k] = w[k]  BY <1>19, <3>3, <3>4 DEF Same
    <3> QED  BY <2>4, <3>1, <3>2, <3>5
  <2> QED  BY <2>5, <2>6
<1>22. Len(v) \in Nat /\ Len(PackedIndex(x)) = 0 + Len(v)
  <2>1. off[12] \in Nat  BY <1>20 DEF HeaderStarts
  <2> QED  BY <1>17, <1>18, <1>19, <2>1
<1>23. \A k \in 1 .. Len(v) : f[0 + k] = v[k]
  <2> TAKE k \in 1 .. Len(v)
  <2>1. 0 + k = k  BY <1>22
  <2> QED  BY <1>21, <2>1
<1> QED  BY <1>19, <1>22, <1>23 DEF Aligned

(* A file that was written consists of cells, eleven at least.             *)
LEMMA PackedType ==
  ASSUME NEW x \in StoreIndex, NEW f
  PROVE  /\ PackedIndex(x) \in Seq(AnyCells(x, f)) /\ Len(PackedIndex(x)) \in Nat
         /\ Len(PackedIndex(x)) >= 11
<1>1. PICK S : S = AnyCells(x, f)  OBVIOUS
<1>2. PICK a : a = Mapped(Pack(x, f), HeaderFields)  OBVIOUS
<1>3. PICK b : b = HeaderCells(x)  OBVIOUS
<1>4. ListOf(b, 11, Seq(S))  BY <1>1, <1>2, <1>3, HeaderParts
<1>5. b \in Seq(Seq(S)) /\ Len(b) = 11  BY <1>4, ListIsSeq
<1>6. PICK off : IsOffsets(b, off)  BY <1>5, OffsetsExist
<1>7. PICK l : l = LengthsOf(b)  OBVIOUS
<1>8. HeaderLengths(l)
  <2>1. LengthsOf(b) = LengthsOf(a) /\ HeaderLengths(LengthsOf(a))  BY <1>2, <1>3, HeaderParts
  <2> QED  BY <1>7, <2>1
<1>9. PICK w : w = FlattenSeq(b)  OBVIOUS
<1>10. Len(w) = off[12] /\ w \in Seq(S)  BY <1>5, <1>6, <1>9, HeaderLaid
<1>11. HeaderStarts(off)  BY <1>5, <1>6, <1>7, <1>8, HeaderSums
<1>12. Len(w) \in Nat /\ Len(w) >= 11  BY <1>10, <1>11 DEF HeaderStarts
<1>13. w = PackedIndex(x)  BY <1>3, <1>9 DEF PackedIndex, HeaderCells
<1> QED  BY <1>1, <1>10, <1>12, <1>13

(* A reader that has read nothing is in step with the file.                *)
LEMMA HeaderGood ==
  ASSUME NEW x \in StoreIndex, NEW f, Aligned(x, f, HeaderFields, 0), NEW c \in Nat
  PROVE  Good(x, f, c, HeaderFields, <<>>, 0)
<1>e. PICK e : e = HeaderFields  OBVIOUS
<1>1. DOMAIN HeaderOrder.writer = 1 .. 11 /\ \A i \in 1 .. 11 : HeaderOrder.writer[i] \in HeaderNames
      BY WriterOrders
<1>2. /\ DOMAIN e = 1 .. 11 /\ e = [i \in 1 .. 11 |-> Header(HeaderOrder.writer[i])]
      BY <1>e, <1>1 DEF HeaderFields, Fields, Header
<1>3. \A i \in 1 .. 11 : e[i] \in AllFields(x) /\ e[i].field = HeaderOrder.writer[i] /\ e[i] = Header(HeaderOrder.writer[i])
  <2> TAKE i \in 1 .. 11
  <2>1. e[i] = Header(HeaderOrder.writer[i]) /\ HeaderOrder.writer[i] \in HeaderNames  BY <1>1, <1>2
  <2>2. e[i] \in AllFields(x)  BY <2>1, HeaderIn
  <2>3. e[i].field = HeaderOrder.writer[i]  BY <2>1 DEF Header, At
  <2> QED  BY <2>1, <2>2, <2>3
<1>4. e \in Seq(AllFields(x))
  <2>1. ListOf(e, 11, AllFields(x))  BY <1>2, <1>3 DEF ListOf
  <2> QED  BY <2>1, ListIsSeq
<1>5. Ordered({}, e)
  <2> SUFFICES ASSUME NEW k \in 1 .. 11
               PROVE  /\ e[k].field \in Strings => k + 1 \in 1 .. 11 /\ e[k + 1].field \notin Loops
                      /\ e[k].field \in Loops => \E h \in 1 .. k - 1 : e[h] = Count(e[k])
      BY <1>2 DEF Ordered
  <2>1. ASSUME e[k].field \in Strings PROVE k + 1 \in 1 .. 11 /\ e[k + 1].field \notin Loops
    <3>1. k \in {5, 6}  BY <1>3, <2>1, HeaderFacts
    <3>2. k + 1 \in 1 .. 11 /\ k + 1 \notin {10, 11}  BY <3>1
    <3>3. e[k + 1].field = HeaderOrder.writer[k + 1]  BY <1>3, <3>2
    <3> QED  BY <3>2, <3>3, HeaderFacts
  <2>2. ASSUME e[k].field \in Loops PROVE \E h \in 1 .. k - 1 : e[h] = Count(e[k])
    <3>1. k \in {10, 11}  BY <1>3, <2>2, HeaderFacts
    <3>2. CASE k = 10
      <4>1. PICK p : p = Header("stages")  OBVIOUS
      <4>2. p.field = "stages" /\ p.field # "groups"  BY <4>1 DEF Header, At
      <4>3. Count(p) = [p EXCEPT !.field = "num_stages"]  BY <4>2, Zenon DEF Count
      <4>4. Count(p) = Header("num_stages")  BY <4>1, <4>3 DEF Header, At
      <4>5. e[10] = p /\ e[7] = Header("num_stages")  BY <1>3, <4>1, HeaderFacts
      <4>6. 7 \in 1 .. k - 1  BY <3>2
      <4> QED  BY <3>2, <4>4, <4>5, <4>6
    <3>3. CASE k = 11
      <4>1. PICK p : p = Header("groups")  OBVIOUS
      <4>2. p.field = "groups" /\ p.field # "stages"  BY <4>1 DEF Header, At
      <4>3. Count(p) = [p EXCEPT !.field = "num_groups"]  BY <4>2, Zenon DEF Count
      <4>4. Count(p) = Header("num_groups")  BY <4>1, <4>3 DEF Header, At
      <4>5. e[11] = p /\ e[8] = Header("num_groups")  BY <1>3, <4>1, HeaderFacts
      <4>6. 8 \in 1 .. k - 1  BY <3>3
      <4> QED  BY <3>3, <4>4, <4>5, <4>6
    <3> QED  BY <3>1, <3>2, <3>3
  <2> QED  BY <2>1, <2>2
<1>6. Covered(x, {}, e)
  <2> SUFFICES ASSUME NEW q \in Leaves(x) PROVE \E k \in DOMAIN e : Below(q, e[k])
      BY DEF Covered
  <2>1. IsField(x, q)  BY DEF Leaves, AllFields
  <2>2. CASE \E d \in HeaderNames : q = Header(d)
    <3>1. PICK d \in HeaderNames : q = Header(d)  BY <2>2
    <3>2. PICK k \in 1 .. 11 : HeaderOrder.writer[k] = d  BY EveryName
    <3>3. e[k] = q  BY <1>3, <3>1, <3>2
    <3> QED  BY <1>2, <3>3 DEF Below
  <2>3. CASE q.part = "stages"
    <3>1. e[10].field = "stages" /\ 10 \in DOMAIN e  BY <1>2, <1>3, HeaderFacts
    <3> QED  BY <2>3, <3>1 DEF Below
  <2>4. CASE q.part \in {"groups", "members"}
    <3>1. e[11].field = "groups" /\ 11 \in DOMAIN e  BY <1>2, <1>3, HeaderFacts
    <3> QED  BY <2>4, <3>1 DEF Below
  <2>5. (\E d \in HeaderNames : q = Header(d)) \/ q.part = "stages" \/ q.part \in {"groups", "members"}
        BY <2>1 DEF IsField, At
  <2> QED  BY <2>2, <2>3, <2>4, <2>5
<1>7. DOMAIN <<>> = {}  OBVIOUS
<1>8. Known(x, f, <<>>)
  <2>1. <<>> = [p \in DOMAIN <<>> |-> Value(x, f, p)]  BY <1>7
  <2> QED  BY <1>7, <2>1 DEF Known
<1>9. Passed(f, <<>>)  BY <1>7 DEF Passed
<1>10. Good(x, f, c, e, <<>>, 0)  BY <1>e, <1>4, <1>5, <1>6, <1>7, <1>8, <1>9 DEF Good
<1> QED  BY <1>e, <1>10
-----------------------------------------------------------------------------
(* A file that reaches the readers, damaged or not.                        *)
LEMMA ExceptCell ==
  ASSUME NEW S, NEW w \in Seq(S), NEW h, NEW v, NEW f, f = [w EXCEPT ![h] = v]
  PROVE  Len(f) = Len(w) /\ Len(f) \in Nat /\ \A k \in 1 .. Len(w) : k # h => f[k] = w[k]
<1>1. PICK n \in Nat : n = Len(w) /\ DOMAIN w = 1 .. n  OBVIOUS
<1>2. PICK T : T = {f[i] : i \in 1 .. n}  OBVIOUS
<1>3. f = [i \in 1 .. n |-> f[i]]  BY <1>1
<1>4. ListOf(f, n, T)  BY <1>2, <1>3 DEF ListOf
<1>5. Len(f) = n  BY <1>4, ListIsSeq
<1>6. \A k \in 1 .. n : k # h => f[k] = w[k]  BY <1>1
<1> QED  BY <1>1, <1>5, <1>6

(* A longer file begins with the shorter one.                              *)
LEMMA AppendCell ==
  ASSUME NEW S, NEW w \in Seq(S), NEW v \in S, NEW f, f = Append(w, v)
  PROVE  Len(f) \in Nat /\ \A k \in 1 .. Len(w) : f[k] = w[k]
OBVIOUS

(* A damaged file has the cells written, but for the four of the header.   *)
LEMMA DamagedSame ==
  ASSUME NEW x \in StoreIndex, NEW how, NEW f, f = Damaged(PackedIndex(x), how)
  PROVE  Same(x, f) /\ Len(f) \in Nat
<1>1. PICK w : w = PackedIndex(x)  OBVIOUS
<1>2. PICK S : S = AnyCells(x, f)  OBVIOUS
<1>3. w \in Seq(S) /\ Len(w) \in Nat  BY <1>1, <1>2, PackedType
<1>4. Number(0) \in S  BY <1>2 DEF AnyCells
<1>5. ASSUME NEW h \in {1, 2, 3, 11}, NEW v, f = [w EXCEPT ![h] = v] PROVE Same(x, f) /\ Len(f) \in Nat
  <2>1. Len(f) = Len(w) /\ Len(f) \in Nat /\ \A k \in 1 .. Len(w) : k # h => f[k] = w[k]
        BY <1>3, <1>5, ExceptCell
  <2> QED  BY <1>1, <2>1 DEF Same
<1>6. CASE how = "magic"
  <2>1. how # "version" /\ how # "flags" /\ how # "tensors" /\ how # "longer"  BY <1>6
  <2>2. f = [w EXCEPT ![1].number = 0]  BY <1>1, <1>6, <2>1, Zenon DEF Damaged
  <2>3. f = [w EXCEPT ![1] = [w[1] EXCEPT !.number = 0]]  BY <2>2
  <2> QED  BY <1>5, <2>3
<1>7. CASE how = "version"
  <2>1. how # "magic" /\ how # "flags" /\ how # "tensors" /\ how # "longer"  BY <1>7
  <2>2. f = [w EXCEPT ![2].number = Version + 1]  BY <1>1, <1>7, <2>1, Zenon DEF Damaged
  <2>3. f = [w EXCEPT ![2] = [w[2] EXCEPT !.number = Version + 1]]  BY <2>2
  <2> QED  BY <1>5, <2>3
<1>8. CASE how = "flags"
  <2>1. how # "magic" /\ how # "version" /\ how # "tensors" /\ how # "longer"  BY <1>8
  <2>2. f = [w EXCEPT ![3].number = 1]  BY <1>1, <1>8, <2>1, Zenon DEF Damaged
  <2>3. f = [w EXCEPT ![3] = [w[3] EXCEPT !.number = 1]]  BY <2>2
  <2> QED  BY <1>5, <2>3
<1>9. CASE how = "tensors"
  <2>1. how # "magic" /\ how # "version" /\ how # "flags" /\ how # "longer"  BY <1>9
  <2>2. f = [w EXCEPT ![11].number = @ + 1]  BY <1>1, <1>9, <2>1, Zenon DEF Damaged
  <2>3. f = [w EXCEPT ![11] = [w[11] EXCEPT !.number = @ + 1]]  BY <2>2
  <2> QED  BY <1>5, <2>3
<1>10. CASE how = "longer"
  <2>1. how # "magic" /\ how # "version" /\ how # "flags" /\ how # "tensors"  BY <1>10
  <2>2. f = Append(w, Number(0))  BY <1>1, <1>10, <2>1, Zenon DEF Damaged
  <2>3. Len(f) \in Nat /\ \A k \in 1 .. Len(w) : f[k] = w[k]  BY <1>3, <1>4, <2>2, AppendCell
  <2> QED  BY <1>1, <2>3 DEF Same
<1>11. CASE how \notin {"magic", "version", "flags", "tensors", "longer"}
  <2>1. f = w
    <3>1. how # "magic" /\ how # "version" /\ how # "flags" /\ how # "tensors" /\ how # "longer"  BY <1>11
    <3> QED  BY <1>1, <3>1, Zenon DEF Damaged
  <2> QED  BY <1>1, <1>3, <2>1 DEF Same
<1> QED  BY <1>6, <1>7, <1>8, <1>9, <1>10, <1>11
-----------------------------------------------------------------------------
(* The invariant is inductive.                                             *)
LEMMA InitInv == ASSUME Init PROVE Inv
<1>1. status = [r \in Readers |-> "writer"]  BY DEF Init
<1> QED  BY <1>1 DEF Init, Inv, Fresh

(* Writing the file keeps the invariant.                                   *)
LEMMA WriteInv == ASSUME Inv, Write PROVE Inv'
<1>1. /\ file = <<>> /\ status["cpp"] = "writer"
      /\ index' = index /\ end' = end /\ expect' = expect /\ got' = got /\ pos' = pos
      BY DEF Write
<1>2. "cpp" \in Readers  BY DEF Readers
<1>3. status = [r \in Readers |-> "writer"] /\ Fresh
  <2>1. status # [r \in Readers |-> "raised"]  BY <1>1, <1>2
  <2>2. status \notin [Readers -> {"reading", "done", "raised"}]  BY <1>1, <1>2
  <2> QED  BY <2>1, <2>2 DEF Inv
<1>4. Fresh'  BY <1>1, <1>3 DEF Fresh
<1>5. index' \in Indexes \cup Foreign  BY <1>1 DEF Inv
<1>6. CASE Validated("python", index) /\ Packable(index)
  <2>1. file' = PackedIndex(index) /\ status' = status  BY <1>6 DEF Write
  <2> QED  BY <1>1, <1>3, <1>4, <1>5, <2>1 DEF Inv
<1>7. CASE ~ (Validated("python", index) /\ Packable(index))
  <2>1. file' = file /\ status' = [r \in Readers |-> "raised"]  BY <1>7 DEF Write
  <2> QED  BY <1>1, <1>5, <2>1 DEF Inv
<1> QED  BY <1>6, <1>7

(* So does altering it to hold another index.                              *)
LEMMA AlterInv == ASSUME Inv, Alter PROVE Inv'
<1>1. /\ file # <<>> /\ status["cpp"] = "writer"
      /\ end' = end /\ status' = status /\ expect' = expect /\ got' = got /\ pos' = pos
      BY DEF Alter
<1>2. PICK x \in Foreign : index' = x /\ file' = PackedIndex(x)  BY DEF Alter
<1>3. "cpp" \in Readers  BY DEF Readers
<1>4. status = [r \in Readers |-> "writer"] /\ Fresh
  <2>1. status # [r \in Readers |-> "raised"]  BY <1>1, <1>3
  <2>2. status \notin [Readers -> {"reading", "done", "raised"}]  BY <1>1, <1>3
  <2> QED  BY <2>1, <2>2 DEF Inv
<1>5. Fresh'  BY <1>1, <1>4 DEF Fresh
<1>6. file' = PackedIndex(index') /\ index' \in Indexes \cup Foreign  BY <1>2
<1> QED  BY <1>1, <1>4, <1>5, <1>6 DEF Inv

(* Opening the file, whole, cut short or altered, keeps the invariant.     *)
LEMMA OpenInv == ASSUME Inv, Open PROVE Inv'
<1>1. /\ file # <<>> /\ status["cpp"] = "writer" /\ status' = [r \in Readers |-> "reading"]
      /\ index' = index /\ expect' = expect /\ got' = got /\ pos' = pos
      BY DEF Open
<1>2. "cpp" \in Readers  BY DEF Readers
<1>3. file = PackedIndex(index) /\ Fresh
  <2>1. status # [r \in Readers |-> "raised"]  BY <1>1, <1>2
  <2>2. status \notin [Readers -> {"reading", "done", "raised"}]  BY <1>1, <1>2
  <2> QED  BY <1>1, <2>1, <2>2 DEF Inv
<1>x. PICK x \in StoreIndex : x = index  BY IndexAssumption DEF Inv
<1>4. Same(x, file') /\ end'.cells \in Nat
  <2>1. ASSUME NEW how, file' = Damaged(file, how), end' = [cells |-> Len(file'), chars |-> 0]
        PROVE  Same(x, file') /\ end'.cells \in Nat
    <3>1. PICK f : f = Damaged(PackedIndex(x), how)  OBVIOUS
    <3>2. Same(x, f) /\ Len(f) \in Nat  BY <3>1, DamagedSame
    <3> QED  BY <1>3, <1>x, <2>1, <3>1, <3>2
  <2>2. ASSUME file' = file, NEW n \in 0 .. Len(file) - 1, NEW c, end' = [cells |-> n, chars |-> c]
        PROVE  Same(x, file') /\ end'.cells \in Nat
    <3>1. Same(x, file)  BY <1>3, <1>x DEF Same
    <3> QED  BY <2>2, <3>1
  <2> QED  BY <2>1, <2>2 DEF Open
<1>5. PICK f, c : f = file' /\ c = end'.cells  OBVIOUS
<1>6. Aligned(x, f, HeaderFields, 0)  BY <1>4, <1>5, HeaderAligned
<1>7. Opened(x, f, c)  BY <1>4, <1>5, <1>6 DEF Opened
<1>8. ASSUME NEW r \in Readers
      PROVE  ReaderInv(r, x, f, c, status'[r], expect'[r], got'[r], pos'[r])
  <2>1. status'[r] = "reading"  BY <1>1
  <2>2. expect'[r] = HeaderFields
    <3>1. expect[r] = Fields(HeaderOrder[r], "header", 0, 0)  BY <1>3 DEF Fresh
    <3>2. HeaderOrder[r] = HeaderOrder.writer  BY ReaderOrders
    <3> QED  BY <1>1, <3>1, <3>2 DEF HeaderFields
  <2>3. got'[r] = <<>> /\ pos'[r] = 0  BY <1>1, <1>3 DEF Fresh
  <2>4. c \in Nat  BY <1>4, <1>5
  <2>5. Good(x, f, c, HeaderFields, <<>>, 0)  BY <1>6, <2>4, HeaderGood
  <2> QED  BY <2>1, <2>2, <2>3, <2>5 DEF ReaderInv
<1>9. DOMAIN expect' = Readers /\ DOMAIN got' = Readers /\ DOMAIN pos' = Readers  BY <1>1, <1>3 DEF Fresh
<1>10. status' \in [Readers -> {"reading", "done", "raised"}]  BY <1>1
<1>11. index' = x /\ index' \in Indexes \cup Foreign  BY <1>1, <1>x DEF Inv
<1>12. Opened(index', file', end'.cells)  BY <1>5, <1>7, <1>11
<1>13. \A r \in Readers : ReaderInv(r, index', file', end'.cells, status'[r], expect'[r], got'[r], pos'[r])
       BY <1>5, <1>8, <1>11
<1> QED  BY <1>9, <1>10, <1>11, <1>12, <1>13 DEF Inv

(* A step of a reader keeps the invariant.                                 *)
LEMMA ReadInv == ASSUME Inv, NEW r \in Readers, ReadStep(r) PROVE Inv'
<1>1. status[r] = "reading" /\ index' = index /\ file' = file /\ end' = end
      BY DEF ReadStep, ReadNumber, ReadString, ReadShape, Loop, Finish, HeadIs
<1>2. /\ Opened(index, file, end.cells) /\ Typed /\ index \in Indexes \cup Foreign
      /\ \A s \in Readers : ReaderInv(s, index, file, end.cells, status[s], expect[s], got[s], pos[s])
  <2>1. status # [s \in Readers |-> "raised"] /\ status # [s \in Readers |-> "writer"]  BY <1>1
  <2> QED  BY <2>1 DEF Inv, Typed
<1>3. index \in StoreIndex /\ end.cells \in Nat  BY <1>2, IndexAssumption DEF Opened
<1>4. StepOf(r)  BY <1>2, <1>3, ReaderStepLeaves
<1>5. ASSUME NEW s \in Readers
      PROVE  ReaderInv(s, index, file, end.cells, status'[s], expect'[s], got'[s], pos'[s])
  <2>1. CASE s = r  BY <1>4, <2>1 DEF StepOf
  <2>2. CASE s # r
    <3>1. status'[s] = status[s] /\ expect'[s] = expect[s] /\ got'[s] = got[s] /\ pos'[s] = pos[s]
          BY <1>4, <2>2 DEF StepOf
    <3>2. ReaderInv(s, index, file, end.cells, status[s], expect[s], got[s], pos[s])  BY <1>2
    <3> QED  BY <3>1, <3>2
  <2> QED  BY <2>1, <2>2
<1>6. \A s \in Readers : ReaderInv(s, index', file', end'.cells, status'[s], expect'[s], got'[s], pos'[s])
      BY <1>1, <1>5
<1>7. Opened(index', file', end'.cells) /\ index' \in Indexes \cup Foreign  BY <1>1, <1>2
<1>8. /\ status' \in [Readers -> {"reading", "done", "raised"}]
      /\ DOMAIN expect' = Readers /\ DOMAIN got' = Readers /\ DOMAIN pos' = Readers
      BY <1>4 DEF StepOf, Typed
<1> QED  BY <1>6, <1>7, <1>8 DEF Inv

(* The invariant is about the variables alone.                             *)
LEMMA StutterInv == ASSUME Inv, UNCHANGED vars PROVE Inv'
<1>1. /\ index' = index /\ file' = file /\ end' = end /\ status' = status
      /\ expect' = expect /\ got' = got /\ pos' = pos
      BY DEF vars
<1>2. Fresh => Fresh'  BY <1>1 DEF Fresh
<1> QED  BY <1>1, <1>2 DEF Inv

(* The invariant holds in every reachable state.                           *)
LEMMA SpecInv == Spec => []Inv
<1>1. Init => Inv  BY InitInv
<1>2. Inv /\ [Next]_vars => Inv'
  <2> SUFFICES ASSUME Inv, [Next]_vars PROVE Inv'  OBVIOUS
  <2>1. CASE Next  BY <2>1, WriteInv, AlterInv, OpenInv, ReadInv DEF Next
  <2>2. CASE UNCHANGED vars  BY <2>2, StutterInv
  <2> QED  BY <2>1, <2>2
<1> QED  BY <1>1, <1>2, PTL DEF Spec

(* A store that was cut short is refused by both readers, and what they    *)
(* take of an altered one is what lies in the file.                        *)
LEMMA InvDamageNoticed == ASSUME Inv PROVE DamageNoticed
<1>1. PrefixRefused
  <2> SUFFICES ASSUME NEW r \in Readers, status[r] = "done" PROVE end.cells >= Len(PackedIndex(index))
      BY DEF PrefixRefused
  <2>1. status # [s \in Readers |-> "raised"] /\ status # [s \in Readers |-> "writer"]  OBVIOUS
  <2>2. ReaderInv(r, index, file, end.cells, status[r], expect[r], got[r], pos[r])  BY <2>1 DEF Inv
  <2> QED  BY <2>2 DEF ReaderInv
<1>2. ReadersAgree
  <2> SUFFICES ASSUME \A r \in Readers : status[r] \in {"done", "raised"}
               PROVE  /\ status["python"] = "done" => status["cpp"] = "done" /\ got["python"] = got["cpp"]
                      /\ status["python"] # status["cpp"] => ~DtypesKnown(Assembled(got["cpp"]))
      BY DEF ReadersAgree
  <2>1. "python" \in Readers /\ "cpp" \in Readers  BY DEF Readers
  <2>2. CASE status = [s \in Readers |-> "raised"]  BY <2>1, <2>2
  <2>3. CASE status # [s \in Readers |-> "raised"]
    <3>1. status # [s \in Readers |-> "writer"]  BY <2>1
    <3>2. \A r \in Readers : ReaderInv(r, index, file, end.cells, status[r], expect[r], got[r], pos[r])
          BY <2>3, <3>1 DEF Inv
    <3>3. ASSUME NEW r \in Readers
          PROVE  /\ status[r] = "done" => /\ ~ Bad(index, file, end.cells) /\ got[r] = Contents(index, file)
                                         /\ Accepted(r, index, file)
                 /\ status[r] = "raised" => Bad(index, file, end.cells) \/ ~Accepted(r, index, file)
          BY <3>2 DEF ReaderInv
    <3>4. /\ Accepted("python", index, file) => Accepted("cpp", index, file)
          /\ Accepted("cpp", index, file) /\ ~Accepted("python", index, file)
             => ~DtypesKnown(Assembled(Contents(index, file)))
          BY DEF Accepted, Validated
    <3>5. CASE status["python"] = "done"  BY <2>1, <3>3, <3>4, <3>5
    <3>6. CASE status["python"] = "raised"  BY <2>1, <3>3, <3>4, <3>6
    <3> QED  BY <2>1, <3>5, <3>6
  <2> QED  BY <2>2, <2>3
<1> QED  BY <1>1, <1>2 DEF DamageNoticed

(* Of a file that is cut short anywhere, has become longer, has another    *)
(* header cell or holds another index: a reader that is done had the whole *)
(* index before it, what read_index accepts ReadIndex accepts and reads    *)
(* alike, and what ReadIndex alone accepts has an unknown dtype.           *)
THEOREM DamageIsNoticed == Spec => []DamageNoticed
BY SpecInv, InvDamageNoticed, PTL
-----------------------------------------------------------------------------
(* A field of a group that is no count is read as it was written.          *)
LEMMA GroupValue ==
  ASSUME NEW x \in StoreIndex, NEW f, NEW i \in 1 .. Len(x.groups), NEW d \in GroupNames \ {"num_members", "members"}
  PROVE  Contents(x, f)[At("groups", i, 0, d)] = x.groups[i][d]
<1>1. PICK p : p = At("groups", i, 0, d)  OBVIOUS
<1>2. p.field = d /\ d \notin Loops  BY <1>1 DEF At, GroupNames, Loops
<1>3. p \in Leaves(x)  BY <1>1, <1>2, GroupIn DEF Leaves
<1>4. Pack(x, f)[p] = Packed(x.groups[i], d)
  <2>1. Pack(x, f)[p] = GroupField(x.groups[i], d)  BY <1>1, PackGroup
  <2>2. GroupField(x.groups[i], d) = IF d = "num_members" THEN <<Number(Len(x.groups[i].members))>>
                                     ELSE Packed(x.groups[i], d)
        BY GroupLeaf
  <2> QED  BY <2>1, <2>2
<1>5. FieldIn(d, x.groups[i][d])  BY GroupTypes
<1>6. Taken(d, Packed(x.groups[i], d)) = x.groups[i][d]  BY <1>5, PackedCells
<1> QED  BY <1>1, <1>2, <1>3, <1>4, <1>6 DEF Contents, Value

(* A field of a member is read as it was written.                          *)
LEMMA MemberValue ==
  ASSUME NEW x \in StoreIndex, NEW f, NEW i \in 1 .. Len(x.groups),
         NEW j \in 1 .. Len(x.groups[i].members), NEW d \in MemberNames
  PROVE  Contents(x, f)[At("members", i, j, d)] = x.groups[i].members[j][d]
<1>1. PICK p : p = At("members", i, j, d)  OBVIOUS
<1>2. p.field = d /\ d \notin Loops  BY <1>1 DEF At, MemberNames, Loops
<1>3. p \in Leaves(x)  BY <1>1, <1>2, MemberIn DEF Leaves
<1>4. Pack(x, f)[p] = Packed(x.groups[i].members[j], d)  BY <1>1, PackMember
<1>5. FieldIn(d, x.groups[i].members[j][d])  BY MemberTypes
<1>6. Taken(d, Packed(x.groups[i].members[j], d)) = x.groups[i].members[j][d]  BY <1>5, PackedCells
<1> QED  BY <1>1, <1>2, <1>3, <1>4, <1>6 DEF Contents, Value

(* The counts of the groups and of a group's members are those written.    *)
LEMMA CountsRead ==
  ASSUME NEW x \in StoreIndex, NEW f
  PROVE  /\ Contents(x, f)[Header("num_groups")] = Len(x.groups)
         /\ \A i \in 1 .. Len(x.groups) : Contents(x, f)[At("groups", i, 0, "num_members")] = Len(x.groups[i].members)
<1>1. Header("num_groups") \in Leaves(x)
  <2>1. PICK d : d = "num_groups"  OBVIOUS
  <2>2. d \in HeaderNames /\ d \notin Loops  BY <2>1 DEF HeaderNames, Loops
  <2>3. Header(d) \in AllFields(x) /\ Header(d).field = d  BY <2>2, HeaderIn DEF Header, At
  <2> QED  BY <2>1, <2>2, <2>3 DEF Leaves
<1>2. ASSUME NEW i \in 1 .. Len(x.groups) PROVE At("groups", i, 0, "num_members") \in Leaves(x)
  <2>1. PICK d : d = "num_members"  OBVIOUS
  <2>2. d \in GroupNames /\ d \notin Loops  BY <2>1 DEF GroupNames, Loops
  <2>3. At("groups", i, 0, d) \in AllFields(x) /\ At("groups", i, 0, d).field = d  BY <2>2, GroupIn DEF At
  <2> QED  BY <2>1, <2>2, <2>3 DEF Leaves
<1>3. Value(x, f, Header("num_groups")) = Len(x.groups)  BY CountValues
<1>4. \A i \in 1 .. Len(x.groups) : Value(x, f, At("groups", i, 0, "num_members")) = Len(x.groups[i].members)
      BY CountValues
<1> QED  BY <1>1, <1>2, <1>3, <1>4 DEF Contents

(* The least of a set of one number is that number.                        *)
LEMMA LeastOfOne ==
  ASSUME NEW i \in Int, NEW is, is = {i}
  PROVE  First(is) = i
<1>1. i \in is /\ \A j \in is : i <= j  OBVIOUS
<1>2. First(is) \in is  BY <1>1 DEF First
<1> QED  BY <1>2

(* A reader that is done has read the contents of the index.               *)
LEMMA DoneContents ==
  ASSUME Inv, NEW r \in Readers, status[r] = "done"
  PROVE  index \in StoreIndex /\ got[r] = Contents(index, file)
<1>1. index \in StoreIndex  BY IndexAssumption DEF Inv
<1>2. status # [s \in Readers |-> "raised"] /\ status # [s \in Readers |-> "writer"]  OBVIOUS
<1>3. ReaderInv(r, index, file, end.cells, status[r], expect[r], got[r], pos[r])  BY <1>2 DEF Inv
<1> QED  BY <1>1, <1>3 DEF ReaderInv

(* A group that was written is found again, with its place and its members.*)
LEMMA InvGroupsFoundAgain == ASSUME Inv PROVE GroupsFoundAgain
<1> SUFFICES ASSUME index \in Indexes, NEW r \in Readers, status[r] = "done", NEW i \in DOMAIN index.groups
             PROVE  LET g == index.groups[i]
                    IN  /\ ExpertGroup(r, g.layer_id, g.expert_id) = IF g.kind = 1 THEN i ELSE 0
                        /\ \A j \in DOMAIN g.members :
                             /\ GroupOfTensor(r, g.members[j].tensor_id) = i
                             /\ \A f \in {"name", "rel_offset", "size", "dtype", "shape"} :
                                  MemberRead(r, i, j, f) = g.members[j][f]
                        /\ \A f \in {"file_id", "offset", "total_size"} : GroupRead(r, i, f) = g[f]
    BY DEF GroupsFoundAgain
<1>1. PICK x : x = index  OBVIOUS
<1>2. x \in StoreIndex /\ got[r] = Contents(x, file) /\ x \in Indexes  BY <1>1, DoneContents
<1>3. /\ DOMAIN x.groups = 1 .. Len(x.groups) /\ Len(x.groups) \in Nat
      /\ \A h \in 1 .. Len(x.groups) : /\ x.groups[h] \in GroupMeta /\ Len(x.groups[h].members) \in Nat
                                       /\ DOMAIN x.groups[h].members = 1 .. Len(x.groups[h].members)
  <2>1. x.groups \in Seq(GroupMeta) /\ Len(x.groups) \in Nat  BY <1>2, Lengths
  <2>2. ASSUME NEW h \in 1 .. Len(x.groups)
        PROVE  Len(x.groups[h].members) \in Nat /\ DOMAIN x.groups[h].members = 1 .. Len(x.groups[h].members)
    <3>1. x.groups[h].members \in Seq(MemberMeta)  BY <1>2, Lengths
    <3> QED  BY <3>1
  <2> QED  BY <2>1, <2>2
<1>4. i \in 1 .. Len(x.groups)  BY <1>1, <1>3
<1>5. GroupsRead(r) = 1 .. Len(x.groups)
  <2>1. got[r][Header("num_groups")] = Len(x.groups)  BY <1>2, CountsRead
  <2> QED  BY <2>1 DEF GroupsRead
<1>6. ASSUME NEW h \in 1 .. Len(x.groups), NEW d \in GroupNames \ {"num_members", "members"}
      PROVE  GroupRead(r, h, d) = x.groups[h][d]
      BY <1>2, GroupValue DEF GroupRead
<1>7. ASSUME NEW h \in 1 .. Len(x.groups), NEW j \in 1 .. Len(x.groups[h].members), NEW d \in MemberNames
      PROVE  MemberRead(r, h, j, d) = x.groups[h].members[j][d]
  <2>1. Contents(x, file)[At("members", h, j, d)] = x.groups[h].members[j][d]  BY <1>2, <1>7, MemberValue
  <2> QED  BY <1>2, <2>1 DEF MemberRead
<1>8. ASSUME NEW h \in 1 .. Len(x.groups) PROVE GroupRead(r, h, "num_members") = Len(x.groups[h].members)
      BY <1>2, CountsRead DEF GroupRead
<1>9. ASSUME NEW h \in 1 .. Len(x.groups)
      PROVE  /\ GroupRead(r, h, "kind") = x.groups[h].kind
             /\ GroupRead(r, h, "layer_id") = x.groups[h].layer_id
             /\ GroupRead(r, h, "expert_id") = x.groups[h].expert_id
  <2>1. "kind" \in GroupNames \ {"num_members", "members"}  BY DEF GroupNames
  <2>2. "layer_id" \in GroupNames \ {"num_members", "members"}  BY DEF GroupNames
  <2>3. "expert_id" \in GroupNames \ {"num_members", "members"}  BY DEF GroupNames
  <2> QED  BY <1>6, <2>1, <2>2, <2>3
<1>10. ExpertGroup(r, x.groups[i].layer_id, x.groups[i].expert_id) = IF x.groups[i].kind = 1 THEN i ELSE 0
  <2>1. PICK is : is = {h \in 1 .. Len(x.groups) : /\ x.groups[h].kind = 1
                                                  /\ x.groups[h].layer_id = x.groups[i].layer_id
                                                  /\ x.groups[h].expert_id = x.groups[i].expert_id}
        OBVIOUS
  <2>2. PICK js : js = {h \in GroupsRead(r) : /\ GroupRead(r, h, "kind") = 1
                                             /\ GroupRead(r, h, "layer_id") = x.groups[i].layer_id
                                             /\ GroupRead(r, h, "expert_id") = x.groups[i].expert_id}
        OBVIOUS
  <2>3. js = is  BY <1>5, <1>9, <2>1, <2>2
  <2>4. ExpertGroup(r, x.groups[i].layer_id, x.groups[i].expert_id) = First(is)
        BY <2>2, <2>3, Zenon DEF ExpertGroup
  <2>5. CASE x.groups[i].kind = 1
    <3>1. i \in is  BY <1>4, <2>1, <2>5
    <3>2. ASSUME NEW h \in is PROVE h = i
      <4>1. h \in DOMAIN x.groups /\ i \in DOMAIN x.groups  BY <1>3, <1>4, <2>1
      <4>2. x.groups[h].kind = 1 /\ x.groups[h].layer_id = x.groups[i].layer_id
            /\ x.groups[h].expert_id = x.groups[i].expert_id
            BY <2>1
      <4> QED  BY <1>2, <2>5, <4>1, <4>2, ValidAssumption
    <3>3. is = {i} /\ i \in Int  BY <1>4, <3>1, <3>2
    <3>4. First(is) = i  BY <3>3, LeastOfOne
    <3> QED  BY <2>4, <2>5, <3>4
  <2>6. CASE x.groups[i].kind # 1
    <3>1. x.groups[i].kind = 0  BY <1>3, <1>4, <2>6 DEF GroupMeta
    <3>2. x.groups[i].expert_id = -1  BY <1>2, <1>3, <1>4, <3>1, ValidAssumption
    <3>3. ASSUME NEW h \in is PROVE FALSE
      <4>1. h \in DOMAIN x.groups /\ x.groups[h].kind = 1  BY <1>3, <2>1
      <4>2. x.groups[h].expert_id >= 0  BY <1>2, <4>1, ValidAssumption
      <4>3. x.groups[h].expert_id = -1  BY <2>1, <3>2
      <4> QED  BY <4>2, <4>3
    <3>4. First(is) = 0  BY <3>3 DEF First
    <3> QED  BY <2>4, <2>6, <3>4
  <2> QED  BY <2>5, <2>6
<1>11. ASSUME NEW j \in 1 .. Len(x.groups[i].members)
       PROVE  GroupOfTensor(r, x.groups[i].members[j].tensor_id) = i
  <2>0. PICK t : t = x.groups[i].members[j].tensor_id  OBVIOUS
  <2>1. PICK is : is = {h \in GroupsRead(r) : \E k \in 1 .. GroupRead(r, h, "num_members") :
                                                MemberRead(r, h, k, "tensor_id") = t}
        OBVIOUS
  <2>2. GroupOfTensor(r, t) = First(is)  BY <2>1, Zenon DEF GroupOfTensor
  <2>3. ASSUME NEW h \in 1 .. Len(x.groups), NEW k \in 1 .. Len(x.groups[h].members)
        PROVE  MemberRead(r, h, k, "tensor_id") = x.groups[h].members[k].tensor_id
    <3>1. "tensor_id" \in MemberNames  BY DEF MemberNames
    <3> QED  BY <1>7, <3>1
  <2>4. i \in is  BY <1>4, <1>5, <1>8, <2>0, <2>1, <2>3
  <2>5. ASSUME NEW h \in is PROVE h = i
    <3>1. h \in 1 .. Len(x.groups)  BY <1>5, <2>1
    <3>2. PICK k \in 1 .. Len(x.groups[h].members) : MemberRead(r, h, k, "tensor_id") = t
          BY <1>8, <2>1, <3>1
    <3>3. x.groups[h].members[k].tensor_id = x.groups[i].members[j].tensor_id  BY <2>0, <2>3, <3>1, <3>2
    <3>4. /\ h \in DOMAIN x.groups /\ i \in DOMAIN x.groups
          /\ k \in DOMAIN x.groups[h].members /\ j \in DOMAIN x.groups[i].members
          BY <1>3, <1>4, <3>1
    <3> QED  BY <1>2, <3>3, <3>4, ValidAssumption
  <2>6. is = {i} /\ i \in Int  BY <1>4, <2>4, <2>5
  <2>7. First(is) = i  BY <2>6, LeastOfOne
  <2> QED  BY <2>0, <2>2, <2>7
<1>12. ASSUME NEW j \in 1 .. Len(x.groups[i].members), NEW d \in {"name", "rel_offset", "size", "dtype", "shape"}
       PROVE  MemberRead(r, i, j, d) = x.groups[i].members[j][d]
  <2>1. d \in MemberNames  BY DEF MemberNames
  <2> QED  BY <1>4, <1>7, <2>1
<1>13. ASSUME NEW d \in {"file_id", "offset", "total_size"} PROVE GroupRead(r, i, d) = x.groups[i][d]
  <2>1. d \in GroupNames \ {"num_members", "members"}  BY DEF GroupNames
  <2> QED  BY <1>4, <1>6, <2>1
<1>14. DOMAIN x.groups[i].members = 1 .. Len(x.groups[i].members)  BY <1>3, <1>4
<1> QED  BY <1>1, <1>10, <1>11, <1>12, <1>13, <1>14, Zenon

(* Every group that was written is found again by both readers: an         *)
(* expert's by its layer and number, any by the id of a tensor it holds,   *)
(* with its place and its members; a dense group answers to no expert.     *)
THEOREM GroupsAreFoundAgain == Spec => []GroupsFoundAgain
BY SpecInv, InvGroupsFoundAgain, PTL
================================================================================
