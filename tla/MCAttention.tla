----------------------------- MODULE MCAttention -----------------------------
(* Constant definitions for model checking Attention.                      *)
EXTENDS Attention

TwoModules == 1 .. 2
(* Query lengths of the rows: two ragged batches of as many rows, a        *)
(* uniform one, and one of as many tokens in other rows.                   *)
Mixed == {<<1, 2>>, <<2, 1>>, <<2, 2>>, <<3>>}

(* Three scopes, each with what it is sensitive to: registrations and      *)
(* contexts without a forward; two batches of Qwen3 modules registered     *)
(* once; one batch of the modules that nobody registers.                   *)
BatchesUsed ==
  {c.batch : c \in {x \in {ownContext[m] : m \in Modules} \cup {classContext[k] : k \in Kinds} : x.state = "live"}}
  \cup ({batch} \ {NoBatch})
KindsUsed   == {kind[m] : m \in Modules}
Registering == forwards = 0 /\ BatchesUsed \subseteq {<<1, 2>>} /\ KindsUsed \subseteq {"qwen3", "mla_v2", "mla_v3"}
Qwen3       == /\ Len(registries) + raised <= 1 /\ storage # 1
               /\ BatchesUsed \subseteq {<<1, 2>>, <<2, 2>>} /\ KindsUsed = {"qwen3"}
Siblings    == /\ registries = <<>> /\ raised = 0 /\ scan = 0 /\ forwards <= 1
               /\ \E b \in {<<2, 1>>, <<3>>} : BatchesUsed \subseteq {<<1, 2>>, b}
               /\ history = 0 \/ "olmoe" \notin KindsUsed
               /\ "qwen3" \notin KindsUsed
Scope == wrapper = "paged" =>
  /\ \A k \in Kinds \ KindsUsed : classContext[k] = Cleared
  /\ Registering \/ Qwen3 \/ Siblings
=============================================================================
