----------------------------- MODULE StoreWriter -----------------------------
(***************************************************************************)
(* write_store of moe_store/convert/writer.py, run by several converter    *)
(* processes on one store path, over a file system with crashes.           *)
(*                                                                         *)
(* A directory is an inode: `Old' is the store that may be there at first, *)
(* and a writer's own directory is named by the writer.  Paths lead to     *)
(* inodes: the store path, and one temporary path for each process id.     *)
(* Every file operation of write_store that another process can observe is *)
(* an action of its own; an exception raised by any of them leads to the   *)
(* `except BaseException' handler.                                         *)
(***************************************************************************)
EXTENDS Naturals, Sequences

CONSTANTS
  Writers,      \* conversions of this store
  Pids,         \* process ids; a pid is reused once its process has ended
  Old,          \* the inode of the store that is there at first
  None,
  DataFiles, Index, Meta,
  GroupFile,    \* the partition file of each group, in index order
  Listing,      \* the order in which a directory lists its entries
  StorePath,
  MayRaise,     \* exceptions of any cause (load, disk, ^C) are considered
  MaxFaults     \* bound on process kills and power losses

Files  == DataFiles \cup {Index, Meta}
Inodes == Writers \cup {Old}
Paths  == Pids \cup {StorePath}

ASSUME NamesDistinct ==
  /\ Old \notin Writers
  /\ None \notin Inodes
  /\ StorePath \notin Pids
  /\ Index # Meta
  /\ {Index, Meta} \cap DataFiles = {}

ASSUME FilesAssumption ==
  /\ GroupFile \in Seq(DataFiles)
  /\ \A f \in DataFiles : \E g \in DOMAIN GroupFile : GroupFile[g] = f
  /\ Listing \in Seq(Files)
  /\ \A f \in Files : \E i \in DOMAIN Listing : Listing[i] = f
  /\ \A i, j \in DOMAIN Listing : Listing[i] = Listing[j] => i = j

ASSUME FaultAssumption == MaxFaults \in Nat /\ MayRaise \in BOOLEAN

VARIABLES
  dir,        \* path -> inode or None
  content,    \* inode -> file -> "absent", "torn" or "whole"
  synced,     \* inode -> files that were fsynced
  has_meta,   \* inodes whose store carries a store_meta.json
  pid,        \* writer -> its process id
  phase,      \* writer -> the statement it is at
  next_group, \* writer -> number of groups written
  opened,     \* writer -> inode its rmtree(store_dir) opened
  listing,    \* writer -> entries that rmtree still has to unlink
  published,  \* history: inodes that have been at the store path
  faults

fs    == <<dir, published, content, synced>>
fixed == <<has_meta, pid>>
rm    == <<opened, listing>>
vars  == <<fs, fixed, phase, next_group, rm, faults>>
-----------------------------------------------------------------------------
Empty == [f \in Files |-> "absent"]
IsEmpty(n) == content[n] = Empty

(* The files a complete store of inode n consists of.                      *)
FilesOf(n) == DataFiles \cup {Index} \cup (IF n \in has_meta THEN {Meta} ELSE {})

Whole(n) == \A f \in FilesOf(n) : content[n][f] = "whole"

Written(w) == /\ \A f \in FilesOf(w) : content[w][f] # "absent"
              /\ DataFiles \subseteq synced[w]

StoreWhole == dir[StorePath] # None /\ Whole(dir[StorePath])

Ended    == {"done", "failed", "crashed"}
InTry    == {"data", "index", "meta", "check", "list", "unlink", "rename", "return"}
Phases   == {"new", "cleanup"} \cup InTry \cup Ended

Init ==
  /\ has_meta \in SUBSET Inodes
  /\ pid \in [Writers -> Pids]
  /\ dir \in {[p \in Paths |-> IF p = StorePath THEN s ELSE None] : s \in {Old, None}}
  /\ content = [n \in Inodes |->
       [f \in Files |-> IF n = dir[StorePath] /\ (f = Meta => n \in has_meta)
                        THEN "whole" ELSE "absent"]]
  /\ synced = [n \in Inodes |-> IF n = dir[StorePath] THEN Files ELSE {}]
  /\ phase = [w \in Writers |-> "new"]
  /\ next_group = [w \in Writers |-> 0]
  /\ opened = [w \in Writers |-> None]
  /\ listing = [w \in Writers |-> {}]
  /\ published = {dir[StorePath]} \ {None}
  /\ faults = 0

Goto(w, p) == phase' = [phase EXCEPT ![w] = p]

(* Remove what the pid left behind in an earlier life, and make the        *)
(* temporary directory.                                                    *)
Begin(w) ==
  /\ phase[w] = "new"
  /\ \A x \in Writers \ {w} : pid[x] = pid[w] => phase[x] \in {"new"} \cup Ended
  /\ dir' = [dir EXCEPT ![pid[w]] = w]
  /\ Goto(w, "data")
  /\ UNCHANGED <<published, content, synced, fixed, next_group, rm, faults>>

(* One iteration of the group loop: the file is complete once its last     *)
(* group and that group's padding are written.                             *)
LastOfFile(g) == \A h \in DOMAIN GroupFile : GroupFile[h] = GroupFile[g] => h <= g

WriteGroup(w) ==
  /\ phase[w] = "data"
  /\ next_group[w] < Len(GroupFile)
  /\ LET g == next_group[w] + 1
     IN  content' = [content EXCEPT ![w][GroupFile[g]] =
                       IF LastOfFile(g) THEN "whole" ELSE "torn"]
  /\ next_group' = [next_group EXCEPT ![w] = @ + 1]
  /\ UNCHANGED <<dir, published, synced, fixed, phase, rm, faults>>

SyncDataNot(w) ==   \* mutant: flushed and closed, not fsynced
  /\ phase[w] = "data"
  /\ next_group[w] = Len(GroupFile)
  /\ Goto(w, "index")
  /\ UNCHANGED <<fs, fixed, next_group, rm, faults>>

SyncDataLast(w) ==   \* mutant: the old store is removed before the index is written
  /\ phase[w] = "data"
  /\ next_group[w] = Len(GroupFile)
  /\ synced' = [synced EXCEPT ![w] = DataFiles]
  /\ Goto(w, "check")
  /\ UNCHANGED <<dir, published, content, fixed, next_group, rm, faults>>

SyncDataEarly(w) ==   \* mutant: the loop stops one group early
  /\ phase[w] = "data"
  /\ next_group[w] + 1 >= Len(GroupFile)
  /\ synced' = [synced EXCEPT ![w] = DataFiles]
  /\ Goto(w, "index")
  /\ UNCHANGED <<dir, published, content, fixed, next_group, rm, faults>>

SyncData(w) ==
  /\ phase[w] = "data"
  /\ next_group[w] = Len(GroupFile)
  /\ synced' = [synced EXCEPT ![w] = DataFiles]
  /\ Goto(w, "index")
  /\ UNCHANGED <<dir, published, content, fixed, next_group, rm, faults>>

WriteIndexOnly(w) ==   \* mutant: store_meta is forgotten
  /\ phase[w] = "index"
  /\ content' = [content EXCEPT ![w][Index] = "whole"]
  /\ Goto(w, "check")
  /\ UNCHANGED <<dir, published, synced, fixed, next_group, rm, faults>>

WriteIndex(w) ==
  /\ phase[w] = "index"
  /\ content' = [content EXCEPT ![w][Index] = "whole"]
  /\ Goto(w, "meta")
  /\ UNCHANGED <<dir, published, synced, fixed, next_group, rm, faults>>

WriteMeta(w) ==
  /\ phase[w] = "meta"
  /\ content' = IF w \in has_meta THEN [content EXCEPT ![w][Meta] = "whole"] ELSE content
  /\ Goto(w, "check")
  /\ UNCHANGED <<dir, published, synced, fixed, next_group, rm, faults>>

CheckStore(w) ==
  /\ phase[w] = "check"
  /\ Goto(w, IF dir[StorePath] = None THEN "rename" ELSE "list")
  /\ UNCHANGED <<fs, fixed, next_group, rm, faults>>

(***************************************************************************)
(* shutil.rmtree(store_dir): open and list the directory, unlink the       *)
(* entries of that listing one by one through the open directory, and      *)
(* remove the directory by its path.                                       *)
(***************************************************************************)
ListStorePath(w) ==   \* mutant: the path is kept in place of the directory
  /\ phase[w] = "list"
  /\ IF dir[StorePath] = None
     THEN Goto(w, "cleanup") /\ UNCHANGED rm
     ELSE /\ opened' = [opened EXCEPT ![w] = StorePath]
          /\ listing' = [listing EXCEPT ![w] = Files]
          /\ Goto(w, "unlink")
  /\ UNCHANGED <<fs, fixed, next_group, faults>>

ListStore(w) ==
  /\ phase[w] = "list"
  /\ LET n == dir[StorePath]
     IN  IF n = None
         THEN Goto(w, "cleanup") /\ UNCHANGED rm
         ELSE /\ opened' = [opened EXCEPT ![w] = n]
              /\ listing' = [listing EXCEPT ![w] = {f \in Files : content[n][f] # "absent"}]
              /\ Goto(w, "unlink")
  /\ UNCHANGED <<fs, fixed, next_group, faults>>

(* Every process sees the entries of a directory in the same order.        *)
NextEntryAny(w, f) == f \in listing[w]   \* mutant: each in an order of its own

NextEntry(w, f) ==
  /\ f \in listing[w]
  /\ \E i \in DOMAIN Listing :
       Listing[i] = f /\ \A h \in 1 .. i - 1 : Listing[h] \notin listing[w]

(* An entry that is gone raises, or (Python 3.13) is passed over.          *)
Unlink(w) ==
  /\ phase[w] = "unlink"
  /\ \E f \in Files :
       /\ NextEntry(w, f)
       /\ content' = [content EXCEPT ![opened[w]][f] = "absent"]
       /\ \/ listing' = [listing EXCEPT ![w] = @ \ {f}] /\ UNCHANGED phase
          \/ content[opened[w]][f] = "absent" /\ Goto(w, "cleanup") /\ UNCHANGED listing
  /\ UNCHANGED <<dir, published, synced, fixed, next_group, opened, faults>>

RemoveStore(w) ==
  /\ phase[w] = "unlink"
  /\ listing[w] = {}
  /\ LET n == dir[StorePath]
     IN  IF n # None /\ IsEmpty(n)
         THEN dir' = [dir EXCEPT ![StorePath] = None] /\ Goto(w, "rename")
         ELSE Goto(w, "cleanup") /\ UNCHANGED dir
  /\ UNCHANGED <<published, content, synced, fixed, next_group, rm, faults>>

(* os.rename fails when a non-empty directory is in the way.               *)
Rename(w) ==
  /\ phase[w] = "rename"
  /\ LET n == dir[StorePath]
     IN  IF n = None \/ IsEmpty(n)
         THEN /\ dir' = [dir EXCEPT ![StorePath] = w, ![pid[w]] = None]
              /\ published' = published \cup {w}
              /\ Goto(w, "return")
         ELSE Goto(w, "cleanup") /\ UNCHANGED <<dir, published>>
  /\ UNCHANGED <<content, synced, fixed, next_group, rm, faults>>

Return(w) ==
  /\ phase[w] = "return"
  /\ Goto(w, "done")
  /\ UNCHANGED <<fs, fixed, next_group, rm, faults>>

(***************************************************************************)
(* Exceptions and crashes.                                                 *)
(***************************************************************************)
Raise(w) ==
  /\ MayRaise
  /\ phase[w] \in InTry
  /\ Goto(w, "cleanup")
  /\ UNCHANGED <<fs, fixed, next_group, rm, faults>>

CleanupNothing(w) ==   \* mutant: the exception is passed on at once
  /\ phase[w] = "cleanup"
  /\ Goto(w, "failed")
  /\ UNCHANGED <<fs, fixed, next_group, rm, faults>>

(* The except clause: remove the temporary directory, and re-raise.        *)
Cleanup(w) ==
  /\ phase[w] = "cleanup"
  /\ dir' = [dir EXCEPT ![pid[w]] = None]
  /\ Goto(w, "failed")
  /\ UNCHANGED <<published, content, synced, fixed, next_group, rm, faults>>

Running == {w \in Writers : phase[w] \notin {"new"} \cup Ended}

Kill(w) ==
  /\ faults < MaxFaults
  /\ w \in Running
  /\ Goto(w, "crashed")
  /\ faults' = faults + 1
  /\ UNCHANGED <<fs, fixed, next_group, rm>>

(* Files that were not fsynced may lose their data; names survive.         *)
PowerLoss ==
  /\ faults < MaxFaults
  /\ phase' = [w \in Writers |-> IF w \in Running THEN "crashed" ELSE phase[w]]
  /\ \E lost \in SUBSET {x \in Inodes \X Files :
                           content[x[1]][x[2]] = "whole" /\ x[2] \notin synced[x[1]]} :
       content' = [n \in Inodes |-> [f \in Files |->
                     IF <<n, f>> \in lost THEN "torn" ELSE content[n][f]]]
  /\ faults' = faults + 1
  /\ UNCHANGED <<dir, published, synced, fixed, next_group, rm>>

Step(w) ==
  \/ Begin(w) \/ WriteGroup(w) \/ SyncData(w) \/ WriteIndex(w) \/ WriteMeta(w)
  \/ CheckStore(w) \/ ListStore(w) \/ Unlink(w) \/ RemoveStore(w)
  \/ Rename(w) \/ Return(w) \/ Cleanup(w)

Finished == (\A w \in Writers : phase[w] \in Ended) /\ UNCHANGED vars

Next ==
  \/ \E w \in Writers : Step(w) \/ Raise(w) \/ Kill(w)
  \/ PowerLoss
  \/ Finished

(* A converter is an ordinary process: the scheduler runs it again and     *)
(* again until it ends.                                                    *)
Fairness == \A w \in Writers : WF_vars(Step(w))

Spec == Init /\ [][Next]_vars /\ Fairness

(* Converters that only have each other to fear: no exception from         *)
(* outside, no kill, no power loss.                                        *)
RaceNext == (\E w \in Writers : Step(w)) \/ Finished
RaceSpec == Init /\ [][RaceNext]_vars /\ Fairness
-----------------------------------------------------------------------------
(***************************************************************************)
(* Properties.                                                             *)
(***************************************************************************)

(* Type invariant of the writers and the file system.                      *)
TypeOK ==
  /\ dir \in [Paths -> Inodes \cup {None}]
  /\ content \in [Inodes -> [Files -> {"absent", "torn", "whole"}]]
  /\ synced \in [Inodes -> SUBSET Files]
  /\ has_meta \subseteq Inodes
  /\ pid \in [Writers -> Pids]
  /\ published \subseteq Inodes
  /\ phase \in [Writers -> Phases]
  /\ next_group \in [Writers -> 0 .. Len(GroupFile)]
  /\ opened \in [Writers -> Inodes \cup {None}]
  /\ listing \in [Writers -> SUBSET Files]
  /\ faults \in 0 .. MaxFaults

(***************************************************************************)
(* The invariant the proofs rest on: how the paths, the pids, the work     *)
(* done so far and the fsyncs of each writer fit together.                 *)
(***************************************************************************)
BeforeRename == InTry \ {"return"}
AfterData    == BeforeRename \ {"data"}

(* What is at the store path, or being removed, has been published; a      *)
(* writer that has yet to rename has not.                                  *)
PathsInv ==
  /\ dir[StorePath] # None => dir[StorePath] \in published
  /\ \A w \in Writers :
       /\ opened[w] # None => opened[w] \in published
       /\ phase[w] = "unlink" => opened[w] # None
       /\ phase[w] \in {"new"} \cup BeforeRename => w \notin published

(* A running writer has its pid, and its temporary path, to itself.        *)
PidInv ==
  /\ \A w, x \in Running : pid[w] = pid[x] => w = x
  /\ \A w \in Writers : /\ phase[w] \in BeforeRename => dir[pid[w]] = w
                        /\ phase[w] = "return" => dir[pid[w]] = None
  /\ \A p \in Pids : dir[p] # None =>
       /\ dir[p] \in Writers /\ pid[dir[p]] = p
       /\ phase[dir[p]] \notin {"new", "failed", "done"}

(* What a writer has written when it reaches a statement.                  *)
WorkInv ==
  \A w \in Writers :
    /\ phase[w] = "new" => IsEmpty(w) /\ next_group[w] = 0
    /\ phase[w] = "data" =>
         \A f \in DataFiles :
           \/ content[w][f] = "whole"
           \/ \E h \in DOMAIN GroupFile : h > next_group[w] /\ GroupFile[h] = f
    /\ phase[w] \in AfterData =>
         DataFiles \subseteq synced[w] /\ \A f \in DataFiles : content[w][f] = "whole"
    /\ phase[w] \in AfterData \ {"index"} => content[w][Index] = "whole"
    /\ phase[w] \in AfterData \ {"index", "meta"} /\ w \in has_meta =>
         content[w][Meta] = "whole"

(* Partition files of a published store are fsynced.                       *)
SyncInv ==
  \A n \in published :
    DataFiles \subseteq synced[n] /\ \A f \in DataFiles : content[n][f] # "torn"

(* Each writer holds its own pid, its own directory, and work that fits    *)
(* the statement it is at; what was ever published is fsynced.             *)
WriterInv == PathsInv /\ PidInv /\ WorkInv /\ SyncInv

(* The writers implement the promise of StorePublish: whatever the race,   *)
(* exception or crash, a store appears whole and in one step, no conversion *)
(* appears twice, and a visible store is never written to.                 *)
Publishing == INSTANCE StorePublish WITH
  Versions <- Inodes, shown <- dir[StorePath], intact <- StoreWhole

PublishesWhole == Publishing!Spec

(* Partition files are fsynced before the store is published: after any    *)
(* power loss a store at the path has no torn partition file (its index    *)
(* and metadata, which are not fsynced, may be torn).                      *)
PublishedDataSurvives ==
  dir[StorePath] # None =>
    \A f \in DataFiles : content[dir[StorePath]][f] # "torn"

(* A temporary directory belongs to a conversion that runs or was killed:  *)
(* one that failed or was published leaves none behind, and a reused pid   *)
(* never works in the directory of its predecessor.                        *)
TmpBelongsToRunning ==
  \A p \in Pids : dir[p] # None =>
    \E w \in Writers : /\ dir[p] = w /\ pid[w] = p
                       /\ phase[w] \notin {"new", "failed", "done"}

(* write_store touches the store that is there only when the replacement   *)
(* is finished: whenever an entry of it is unlinked, some complete new     *)
(* store waits in a temporary directory.                                   *)
ReplacementFirst ==
  [][\A f \in Files :
       LET n == dir[StorePath] IN
       n # None /\ content[n][f] # "absent" /\ content'[n][f] = "absent" =>
         \E w \in Running : dir[pid[w]] = w /\ opened[w] = n /\ Written(w)]_vars

(* Without exceptions and crashes, converters racing on one path all end,  *)
(* and leave a complete store: never do both lose, although each of them   *)
(* may remove entries, directories and stores under the other.             *)
RaceLeavesAStore ==
  <>[](StoreWhole /\ \A w \in Writers : phase[w] \in Ended)

(***************************************************************************)
(* What writer.py:8 and docs/store-format-v2.md:184 say and the code does  *)
(* not do: "conversion is atomic per store".  A conversion that ends,      *)
(* whichever way, should leave the old store or the new one.               *)
(***************************************************************************)
ConversionIsAtomic ==
  published # {} /\ (\A w \in Writers : phase[w] \in Ended) => StoreWhole
=============================================================================
