---------------------------- MODULE MCStoreReader ----------------------------
(* A store of two groups in two partition files, for model checking        *)
(* StoreReader.                                                            *)
EXTENDS StoreReader

CONSTANTS d0, d1

TwoGroups == <<d0, d1>>
(* The reader is there until the second kill or power loss.               *)
ReaderBound == faults = 2 => index = None /\ got = None
EntryOrder  == <<d0, Index, d1, Meta>>
=============================================================================
