---------------------------- MODULE MCStoreLayout ----------------------------
(* Constant definitions for model checking StoreLayout.                    *)
EXTENDS StoreLayout

CONSTANTS w1, w2, other, ok, odd, L1, L2

TwoSlotTable == <<w1, w2>>

(* Three kinds of checkpoint, so that one instance reaches what placement, *)
(* the sort and validation each depend on: sizes around the alignment over *)
(* two layers and a dense stage; slots in and out of the table with their  *)
(* biases and aux tensors; dtypes the format does not know.                *)
Plain(t) == t.slot = other /\ t.part = "weight"
BySize   == \A t \in Range(specs) : Plain(t) /\ t.dtype = ok /\ t.size # 1
BySlot   == \A t \in Range(specs) : t.size = 1 /\ t.dtype = ok /\ t.stage # L2 /\ t.expert # 1
ByDtype  == Len(specs) <= 3 /\ \A t \in Range(specs) : Plain(t) /\ t.stage # L2 /\ t.size < 9
ScanBound ==
  IF source = "raw" THEN BySize \/ ByDtype \/ (BySlot /\ Len(specs) <= 3) ELSE BySlot
=============================================================================
