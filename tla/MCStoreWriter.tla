---------------------------- MODULE MCStoreWriter ----------------------------
(* Constant definitions for model checking StoreWriter: a store of two     *)
(* groups in one partition file and a third in a second, and a store of    *)
(* two groups in one file.                                                 *)
EXTENDS StoreWriter

CONSTANTS d0, d1

ThreeGroups    == <<d0, d0, d1>>
EntryOrder     == <<d0, Index, d1, Meta>>

TwoGroups      == <<d0, d0>>
ThreeEntries   == <<d0, Index, Meta>>
=============================================================================
