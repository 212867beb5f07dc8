----------------------------- MODULE MCIndexCodec -----------------------------
(* Constant definitions for model checking IndexCodec.                     *)
EXTENDS IndexCodec

Member(id, name, rel, dtype, shape) ==
  [tensor_id |-> id, name |-> name, rel_offset |-> rel, size |-> 4 + id, dtype |-> dtype, shape |-> shape]
Group(id, kind, layer, expert, offset, members) ==
  [group_id |-> id, kind |-> kind, layer_id |-> layer, expert_id |-> expert, file_id |-> 0,
   offset |-> offset, total_size |-> 16, members |-> members]
Index(checkpoint, stages, groups) ==
  [partition_size |-> 64, model_type |-> <<"m">>, checkpoint_name |-> checkpoint,
   stages |-> stages, groups |-> groups]
Stage(sparse, n) == [name |-> <<"s", "t">>, is_sparse |-> sparse, num_groups |-> n]

F == <<"f", "p">>
Tokens == {F}
Dense == Group(7, 0, -1, -1, 0, <<Member(0, <<"a">>, 0, F, <<>>), Member(1, <<"b", "c">>, 8, F, <<2, 3>>)>>)
E00 == Group(8, 1, 0, 0, 16, <<Member(2, <<"d">>, 0, F, <<2>>)>>)
E01 == Group(9, 1, 0, 1, 32, <<Member(3, <<"e">>, 0, F, <<2>>)>>)
E10 == Group(10, 1, 1, 0, 48, <<Member(4, <<"g">>, 0, F, <<2, 2>>)>>)

(* Experts that are the first of their index.                              *)
E10first == Group(10, 1, 1, 0, 48, <<Member(0, <<"g">>, 0, F, <<2, 2>>)>>)
E01next  == Group(9, 1, 0, 1, 32, <<Member(1, <<"e">>, 0, F, <<2>>)>>)

(* The third has tensor ids of another order, the fifth a string and the   *)
(* sixth a shape too long to pack.                                         *)
SomeIndexes ==
  {Index(<<>>, <<>>, <<>>),
   Index(<<>>, <<Stage(0, 1), Stage(1, 3)>>, <<Dense, E00, E01, E10>>),
   Index(<<"x", "y">>, <<Stage(1, 2)>>, <<E10, E01>>),
   Index(<<"x", "y">>, <<Stage(1, 2)>>, <<E10first, E01next>>),
   Index(<<"x", "y", "z">>, <<Stage(0, 1)>>, <<Dense>>),
   Index(<<>>, <<>>, <<Group(7, 0, -1, -1, 0, <<Member(0, <<"a">>, 0, F, <<2, 3, 4>>)>>)>>)}

(* What a file that was altered may hold: one group with the given offset  *)
(* and members, each of which a validator has something to ask of.         *)
Alone(offset, members) == Index(<<>>, <<>>, <<Group(7, 0, -1, -1, offset, members)>>)
ForeignIndexes ==
  {Alone(0, <<Member(0, <<"a">>, 0, <<"q">>, <<>>)>>),
   Alone(0, <<Member(0, <<"b">>, 0, F, <<>>)>>),
   Alone(8, <<Member(0, <<"a">>, 0, F, <<>>)>>),
   Alone(64, <<Member(0, <<"a">>, 0, F, <<>>)>>),
   Alone(0, <<>>),
   Alone(0, <<Member(0, <<"a">>, 4, F, <<>>)>>),
   Alone(0, <<Member(0, <<"a">>, 8, F, <<>>), Member(1, <<"b">>, 8, F, <<>>)>>),
   Alone(0, <<Member(1, <<"a">>, 0, F, <<>>)>>),
   Alone(0, <<Member(0, <<"a">>, 16, F, <<>>)>>)}
=============================================================================
