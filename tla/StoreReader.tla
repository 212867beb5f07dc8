----------------------------- MODULE StoreReader -----------------------------
(***************************************************************************)
(* A reader of the store path while converters work on it: read_index,     *)
(* read_store_meta and read_group_bytes, each of which opens a file by its  *)
(* path, in the order the caller likes.  An index read is kept and group   *)
(* reads go by it.  An open file outlives its name, so that a read is one  *)
(* step; a power loss ends the reader too.                                 *)
(***************************************************************************)
EXTENDS StoreWriter

VARIABLES
  index,   \* inode whose index the reader holds, or None
  got      \* what it has just read of another file, and from which inode

read == <<index, got>>

NothingRead == index' = None /\ got' = None

ReaderInit == Init /\ index = None /\ got = None

(* What open(store_dir / f) leads to: absent, torn or whole.               *)
At(f) == IF dir[StorePath] = None THEN "absent" ELSE content[dir[StorePath]][f]

(* A missing index raises, and one that lost its tail is refused.          *)
ReadIndex ==
  /\ At(Index) = "whole"
  /\ index' = dir[StorePath] /\ got' = None
  /\ UNCHANGED vars

Gets(f) == got' = [from |-> dir[StorePath], bytes |-> At(f)]

(* A missing file is None, a torn one no JSON.                             *)
ReadStoreMeta == At(Meta) # "torn" /\ Gets(Meta) /\ UNCHANGED <<vars, index>>

(* read_group_bytes trusts the index: it reads what the file has there.    *)
ReadGroup ==
  \E f \in DataFiles : /\ index # None /\ At(f) # "absent"
                       /\ Gets(f) /\ UNCHANGED <<vars, index>>

(* A converter goes on while the reader holds its index.                   *)
Meanwhile == UNCHANGED index /\ got' = None

ReaderNext ==
  \/ \E w \in Writers : Step(w) /\ Meanwhile
  \/ \E w \in Writers : Raise(w) /\ Meanwhile
  \/ \E w \in Writers : Kill(w) /\ Meanwhile
  \/ PowerLoss /\ NothingRead
  \/ Finished /\ UNCHANGED read
  \/ ReadIndex \/ ReadStoreMeta \/ ReadGroup

ReaderSpec == ReaderInit /\ [][ReaderNext]_<<vars, read>>
-----------------------------------------------------------------------------
(* writer.py:70-75: neither a converter at work, nor one that raised or    *)
(* was killed, nor a power loss lets a reader see index, metadata or       *)
(* payloads of a store that was not finished: what it holds has been       *)
(* published, and the bytes it reads are those that were written.          *)
ReadsFinishedStores ==
  /\ index # None => index \in published
  /\ got # None /\ got.bytes # "absent" => got.from \in published /\ got.bytes = "whole"
=============================================================================
