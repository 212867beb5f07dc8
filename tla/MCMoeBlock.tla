------------------------------ MODULE MCMoeBlock ------------------------------
(* Six experts in three groups, two contents of the gate and of the bias,  *)
(* two tokens, for model checking MoeBlock.                                *)
EXTENDS MoeBlock, TLC

CONSTANTS
  Reloaded,   \* families whose weights change
  a1, a2, a3, a4, a5, a6

From(s) == [e \in 0 .. 5 |-> s[e + 1]]
MCGroups == {{0, 1}, {2, 3}, {4, 5}}
MCScore == <<[text |-> From(<<9, 1, 6, 5, 8, 4>>), pad |-> From(<<3, 7, 2, 10, 5, 6>>)],
             [text |-> From(<<2, 11, 8, 3, 4, 6>>), pad |-> From(<<10, 1, 7, 6, 9, 5>>)]>>
MCBias == <<From(<<0, 0, 0, 20, 0, 0>>), From(<<0, 30, 0, 0, 0, 40>>)>>
MCTable == [text |-> <<4, 1>>, pad |-> <<3, 3>>]
MCBatches == {<<"topk_softmax", "fused_mxfp4_gemm", "nvtx", "union_experts_from_mask">>,
              <<"fused_moe_mxfp4", "route_ahead_ctx", "union_experts_from_mask">>}
MCVersions == [n \in Names |-> IF n \in Reloaded THEN {1, 2} ELSE {1}]
\* No forward of these families looks at an engine op.
Scope == kind.name \in Reloaded => ops = {}
Symmetric == Permutations(Addrs)
=============================================================================
