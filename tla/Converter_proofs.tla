--------------------------- MODULE Converter_proofs ---------------------------
(***************************************************************************)
(* Proofs about the converter, for any checkpoints, modes, converters,     *)
(* process ids, groups, files and faults.  First write_store, which        *)
(* publishes a store: IndInv of StoreWriter is inductive; that the writers *)
(* implement StorePublish, and the safety properties, follow.  A reader of *)
(* the path sees finished stores only: the writers' invariant says what is *)
(* at the path, and a store once published stays so.  Then convert.py,     *)
(* which makes the members: three inductive invariants of Conversion say   *)
(* what the plan and the store hold, that the names of a checkpoint are    *)
(* cut whole and once, and that weights are quantized beside their scales; *)
(* every property of the conversion follows from them.  Last Naming, which *)
(* groups the names: arithmetic of the layers that have experts shows that *)
(* the groups are experts and fill the range the engine is told.           *)
(***************************************************************************)
EXTENDS StoreReader, CheckpointNames, SequenceFacts, FiniteSetTheorems, SequenceTheorems, TLAPS

(* A process works under a temporary path, which is never the store path.  *)
LEMMA PidIsNoStore == TypeOK => \A w \in Writers : pid[w] \in Paths /\ pid[w] # StorePath
BY NamesDistinct DEF TypeOK, Paths

(* Types hold at first.                                                    *)
LEMMA InitTypeOK == Init => TypeOK
<1> SUFFICES ASSUME Init PROVE TypeOK  OBVIOUS
<1> USE DEF Init
<1>1. dir \in [Paths -> Inodes \cup {None}]  BY DEF Inodes
<1>2. dir[StorePath] \in {Old, None}  BY DEF Paths
<1>3. published \subseteq Inodes  BY <1>2 DEF Inodes
<1>4. 0 \in 0 .. Len(GroupFile) /\ 0 \in 0 .. MaxFaults
      BY FilesAssumption, FaultAssumption
<1>5. content \in [Inodes -> [Files -> {"absent", "torn", "whole"}]]  OBVIOUS
<1>6. synced \in [Inodes -> SUBSET Files]  OBVIOUS
<1>7. phase \in [Writers -> Phases]  BY DEF Phases
<1> QED  BY <1>1, <1>3, <1>4, <1>5, <1>6, <1>7 DEF TypeOK

(* Every step keeps the types.                                             *)
LEMMA NextTypeOK == TypeOK /\ [Next]_vars => TypeOK'
<1> SUFFICES ASSUME TypeOK, [Next]_vars PROVE TypeOK'  OBVIOUS
<1> USE DEF TypeOK, vars, fs, fixed, rm
<1>p. InTry \subseteq Phases /\ Ended \subseteq Phases /\ "new" \in Phases /\ "cleanup" \in Phases
      BY DEF Phases
<1>d. DataFiles \subseteq Files /\ Index \in Files /\ Meta \in Files  BY DEF Files
<1>i. Writers \subseteq Inodes  BY DEF Inodes
<1>1. ASSUME NEW w \in Writers, Begin(w) PROVE TypeOK'
      BY <1>1, <1>p, <1>i DEF Begin, Goto, InTry
<1>2. ASSUME NEW w \in Writers, WriteGroup(w) PROVE TypeOK'
  <2> DEFINE g == next_group[w] + 1
  <2>1. g \in DOMAIN GroupFile /\ g \in 0 .. Len(GroupFile)
        BY <1>2, FilesAssumption DEF WriteGroup
  <2>2. GroupFile[g] \in Files  BY <2>1, <1>d, FilesAssumption
  <2>3. content' \in [Inodes -> [Files -> {"absent", "torn", "whole"}]]
        BY <1>2, <2>2, <1>i DEF WriteGroup
  <2>4. next_group' \in [Writers -> 0 .. Len(GroupFile)]
        BY <1>2, <2>1 DEF WriteGroup
  <2> QED  BY <1>2, <2>3, <2>4 DEF WriteGroup
<1>3. ASSUME NEW w \in Writers, SyncData(w) \/ WriteIndex(w) \/ WriteMeta(w) PROVE TypeOK'
  <2>1. CASE SyncData(w)  BY <2>1, <1>p, <1>d, <1>i DEF SyncData, Goto, InTry
  <2>2. CASE WriteIndex(w)  BY <2>2, <1>p, <1>d, <1>i DEF WriteIndex, Goto, InTry
  <2>3. CASE WriteMeta(w)  BY <2>3, <1>p, <1>d, <1>i DEF WriteMeta, Goto, InTry
  <2> QED  BY <1>3, <2>1, <2>2, <2>3
<1>4. ASSUME NEW w \in Writers, CheckStore(w) \/ Return(w) \/ Raise(w) PROVE TypeOK'
      BY <1>4, <1>p DEF CheckStore, Return, Raise, Goto, InTry, Ended
<1>5. ASSUME NEW w \in Writers, ListStore(w) PROVE TypeOK'
  <2>1. dir[StorePath] \in Inodes \cup {None}  BY DEF Paths
  <2>2. opened' \in [Writers -> Inodes \cup {None}]  BY <1>5, <2>1 DEF ListStore
  <2>3. listing' \in [Writers -> SUBSET Files]  BY <1>5 DEF ListStore
  <2>4. phase' \in [Writers -> Phases]  BY <1>5, <1>p DEF ListStore, Goto, InTry
  <2> QED  BY <1>5, <2>2, <2>3, <2>4 DEF ListStore
<1>6. ASSUME NEW w \in Writers, Unlink(w) PROVE TypeOK'
  <2>1. PICK f \in Files :
          /\ content' = [content EXCEPT ![opened[w]][f] = "absent"]
          /\ \/ listing' = [listing EXCEPT ![w] = @ \ {f}] /\ UNCHANGED phase
             \/ Goto(w, "cleanup") /\ UNCHANGED listing
        BY <1>6 DEF Unlink
  <2>2. content' \in [Inodes -> [Files -> {"absent", "torn", "whole"}]]  BY <2>1
  <2>3. listing' \in [Writers -> SUBSET Files]  BY <2>1
  <2>4. phase' \in [Writers -> Phases]  BY <2>1, <1>p DEF Goto
  <2> QED  BY <1>6, <2>2, <2>3, <2>4 DEF Unlink
<1>7. ASSUME NEW w \in Writers, RemoveStore(w) \/ Rename(w) \/ Cleanup(w) PROVE TypeOK'
      BY <1>7, <1>p, <1>i DEF RemoveStore, Rename, Cleanup, Goto, InTry, Ended
<1>8. ASSUME NEW w \in Writers, Kill(w) PROVE TypeOK'
      BY <1>8, <1>p, FaultAssumption DEF Kill, Goto, Ended
<1>9. CASE PowerLoss
  <2>1. faults' \in 0 .. MaxFaults  BY <1>9, FaultAssumption DEF PowerLoss
  <2>2. content' \in [Inodes -> [Files -> {"absent", "torn", "whole"}]]
        BY <1>9 DEF PowerLoss
  <2>3. phase' \in [Writers -> Phases]  BY <1>9, <1>p DEF PowerLoss, Ended
  <2> QED  BY <1>9, <2>1, <2>2, <2>3 DEF PowerLoss
<1>10. CASE Finished \/ UNCHANGED vars  BY <1>10 DEF Finished
<1> QED
  BY <1>1, <1>2, <1>3, <1>4, <1>5, <1>6, <1>7, <1>8, <1>9, <1>10 DEF Next, Step

(* The writers and the file system keep their types, for any number of     *)
(* converters, groups and faults.                                          *)
THEOREM TypeCorrect == Spec => []TypeOK
BY InitTypeOK, NextTypeOK, PTL DEF Spec
-----------------------------------------------------------------------------
(* The parts of the invariant hold at first.                               *)
LEMMA InitWriterInv == Init => WriterInv
<1> SUFFICES ASSUME Init PROVE WriterInv  OBVIOUS
<1> USE DEF Init
<1>1. dir[StorePath] \in {Old, None} /\ published \subseteq {Old}
      BY DEF Paths
<1>2. \A p \in Pids : dir[p] = None  BY NamesDistinct DEF Paths
<1>3. \A w \in Writers : phase[w] = "new" /\ w \notin published /\ w # dir[StorePath]
      BY <1>1, NamesDistinct DEF Inodes
<1>4. PathsInv  BY <1>1, <1>3 DEF PathsInv, BeforeRename, InTry
<1>5. PidInv  BY <1>2, <1>3 DEF PidInv, Running, BeforeRename, InTry
<1>6. WorkInv
  <2>1. \A w \in Writers : content[w] = Empty
        BY <1>3 DEF Empty, Inodes
  <2> QED  BY <1>3, <2>1 DEF WorkInv, IsEmpty, AfterData, BeforeRename, InTry
<1>7. SyncInv
  <2>1. \A n \in published : synced[n] = Files /\ \A f \in Files : content[n][f] # "torn"
    <3>1. \A n \in published : n = dir[StorePath] /\ n \in Inodes
          BY <1>1 DEF Inodes
    <3> QED  BY <3>1
  <2> QED  BY <2>1 DEF SyncInv, Files
<1> QED  BY <1>4, <1>5, <1>6, <1>7 DEF WriterInv

(* Only Rename publishes, and only what no writer is still working on.     *)
LEMMA NextPathsInv == TypeOK /\ PathsInv /\ [Next]_vars => PathsInv'
<1> SUFFICES ASSUME TypeOK, PathsInv, [Next]_vars PROVE PathsInv'  OBVIOUS
<1> USE DEF TypeOK, PathsInv, vars, fs, fixed, rm, BeforeRename, InTry
<1>p. \A w \in Writers : pid[w] \in Paths /\ pid[w] # StorePath
      BY PidIsNoStore
<1>s. StorePath \in Paths  BY DEF Paths
<1>1. ASSUME NEW w \in Writers, Begin(w) PROVE PathsInv'
  <2>1. dir'[StorePath] = dir[StorePath]  BY <1>1, <1>p, <1>s DEF Begin
  <2> QED  BY <1>1, <2>1 DEF Begin, Goto
<1>2. ASSUME NEW w \in Writers,
             WriteGroup(w) \/ SyncData(w) \/ WriteIndex(w) \/ WriteMeta(w) \/ CheckStore(w)
      PROVE  PathsInv'
      BY <1>2 DEF WriteGroup, SyncData, WriteIndex, WriteMeta, CheckStore, Goto
<1>3. ASSUME NEW w \in Writers, ListStore(w) PROVE PathsInv'
  <2>1. CASE dir[StorePath] = None
    <3>1. UNCHANGED <<dir, published, opened>> /\ Goto(w, "cleanup")  BY <1>3, <2>1 DEF ListStore
    <3> QED  BY <3>1 DEF Goto
  <2>2. CASE dir[StorePath] # None
    <3>1. /\ UNCHANGED <<dir, published>> /\ phase[w] = "list" /\ Goto(w, "unlink")
          /\ opened' = [opened EXCEPT ![w] = dir[StorePath]]
          BY <1>3, <2>2 DEF ListStore
    <3> QED  BY <3>1, <2>2 DEF Goto
  <2> QED  BY <2>1, <2>2
<1>4. ASSUME NEW w \in Writers, Unlink(w) PROVE PathsInv'
  <2>1. UNCHANGED <<dir, published, opened>> /\ (UNCHANGED phase \/ Goto(w, "cleanup"))
        BY <1>4 DEF Unlink
  <2> QED  BY <2>1 DEF Goto
<1>5. ASSUME NEW w \in Writers, RemoveStore(w) PROVE PathsInv'
  <2>1. dir'[StorePath] \in {dir[StorePath], None}  BY <1>5, <1>s DEF RemoveStore
  <2> QED  BY <1>5, <2>1 DEF RemoveStore, Goto
<1>6. ASSUME NEW w \in Writers, Rename(w) PROVE PathsInv'
  <2>1. CASE dir[StorePath] = None \/ IsEmpty(dir[StorePath])
    <3>1. dir'[StorePath] = w  BY <1>6, <2>1, <1>p, <1>s DEF Rename
    <3>2. published' = published \cup {w} /\ Goto(w, "return") /\ UNCHANGED opened
          BY <1>6, <2>1 DEF Rename
    <3> QED  BY <3>1, <3>2 DEF Goto
  <2>2. CASE ~(dir[StorePath] = None \/ IsEmpty(dir[StorePath]))
        BY <1>6, <2>2 DEF Rename, Goto
  <2> QED  BY <2>1, <2>2
<1>7. ASSUME NEW w \in Writers, Cleanup(w) PROVE PathsInv'
  <2>1. dir'[StorePath] = dir[StorePath]  BY <1>7, <1>p, <1>s DEF Cleanup
  <2> QED  BY <1>7, <2>1 DEF Cleanup, Goto
<1>8. ASSUME NEW w \in Writers, Return(w) \/ Raise(w) \/ Kill(w) PROVE PathsInv'
      BY <1>8 DEF Return, Raise, Kill, Goto
<1>9. CASE PowerLoss
  <2>1. \A w \in Writers : phase'[w] = phase[w] \/ phase'[w] = "crashed"
        BY <1>9 DEF PowerLoss
  <2> QED  BY <1>9, <2>1 DEF PowerLoss
<1>10. CASE Finished \/ UNCHANGED vars  BY <1>10 DEF Finished
<1> QED
  BY <1>1, <1>2, <1>3, <1>4, <1>5, <1>6, <1>7, <1>8, <1>9, <1>10 DEF Next, Step

(* A step that takes a running writer elsewhere keeps PidInv, if the       *)
(* temporary path is clear whenever the writer has left it.                *)
LEMMA PidStep ==
  ASSUME TypeOK, PidInv, UNCHANGED pid,
         NEW w \in Running, NEW q, Goto(w, q),
         \/ /\ q \in {"cleanup", "crashed"}
            /\ \A p \in Pids : dir'[p] = dir[p]
         \/ /\ q \in BeforeRename /\ phase[w] \in BeforeRename
            /\ \A p \in Pids : dir'[p] = dir[p]
         \/ /\ q \in {"return", "failed", "done"}
            /\ \A p \in Pids : dir'[p] = IF p = pid[w] THEN None ELSE dir[p]
  PROVE  PidInv'
<1> USE DEF TypeOK, PidInv, BeforeRename, InTry, Ended
<1>1. /\ w \in Writers
      /\ phase'[w] = q
      /\ \A x \in Writers \ {w} : phase'[x] = phase[x]
      BY DEF Goto, Running
<1>2. Running' \subseteq Running /\ \A x \in Writers \ {w} : x \in Running' <=> x \in Running
      BY <1>1 DEF Running
<1>3. \A x, y \in Running' : pid'[x] = pid'[y] => x = y  BY <1>2
<1>4. ASSUME NEW x \in Writers
      PROVE  /\ phase'[x] \in BeforeRename => dir'[pid'[x]] = x
             /\ phase'[x] = "return" => dir'[pid'[x]] = None
  <2>1. CASE x = w  BY <2>1, <1>1
  <2>2. CASE x # w /\ x \notin Running  BY <2>2, <1>1 DEF Running
  <2>3. CASE x # w /\ x \in Running
    <3>1. pid[x] # pid[w] /\ pid[x] \in Pids  BY <2>3
    <3>2. dir'[pid[x]] = dir[pid[x]]  BY <3>1
    <3> QED  BY <3>2, <2>3, <1>1
  <2> QED  BY <2>1, <2>2, <2>3
<1>5. ASSUME NEW p \in Pids, dir'[p] # None
      PROVE  /\ dir'[p] \in Writers /\ pid'[dir'[p]] = p
             /\ phase'[dir'[p]] \notin {"new", "failed", "done"}
  <2>1. dir'[p] = dir[p]  BY <1>5
  <2>2. dir[p] \in Writers /\ pid[dir[p]] = p /\ phase[dir[p]] \notin {"new", "failed", "done"}
        BY <2>1, <1>5
  <2>3. dir[p] = w => q \notin {"new", "failed", "done"}  BY <2>1, <2>2, <1>5
  <2> QED  BY <2>1, <2>2, <2>3, <1>1
<1> QED  BY <1>3, <1>4, <1>5

(* Pids stay exclusive, and every temporary directory has its writer.      *)
LEMMA NextPidInv == TypeOK /\ PidInv /\ [Next]_vars => PidInv'
<1> SUFFICES ASSUME TypeOK, PidInv, [Next]_vars PROVE PidInv'  OBVIOUS
<1> USE DEF TypeOK, PidInv, vars, fs, fixed, rm, BeforeRename, InTry, Running, Ended
<1>p. \A w \in Writers : pid[w] \in Paths /\ pid[w] # StorePath
      BY PidIsNoStore
<1>t. \A q \in Pids : q \in Paths /\ q # StorePath  BY NamesDistinct DEF Paths
<1>1. ASSUME NEW w \in Writers, Begin(w) PROVE PidInv'
  <2>1. /\ UNCHANGED pid /\ phase'[w] = "data"
        /\ \A x \in Writers \ {w} : phase'[x] = phase[x]
        /\ \A q \in Pids : dir'[q] = IF q = pid[w] THEN w ELSE dir[q]
        BY <1>1, <1>p, <1>t DEF Begin, Goto
  <2>2. \A x \in Running : pid[x] # pid[w]  BY <1>1 DEF Begin
  <2>3. \A x, y \in Running' : pid'[x] = pid'[y] => x = y
    <3>1. \A x \in Running' : x = w \/ x \in Running  BY <2>1
    <3> QED  BY <3>1, <2>1, <2>2
  <2>4. \A x \in Writers : /\ phase'[x] \in BeforeRename => dir'[pid'[x]] = x
                           /\ phase'[x] = "return" => dir'[pid'[x]] = None
    <3> SUFFICES ASSUME NEW x \in Writers, phase'[x] \in BeforeRename \cup {"return"}
                 PROVE  /\ phase'[x] \in BeforeRename => dir'[pid'[x]] = x
                        /\ phase'[x] = "return" => dir'[pid'[x]] = None
        OBVIOUS
    <3>1. CASE x = w  BY <3>1, <2>1
    <3>2. CASE x # w
      <4>1. x \in Running /\ phase'[x] = phase[x]  BY <3>2, <2>1
      <4>2. dir'[pid'[x]] = dir[pid[x]]  BY <4>1, <2>1, <2>2
      <4> QED  BY <4>1, <4>2
    <3> QED  BY <3>1, <3>2
  <2>5. ASSUME NEW q \in Pids, dir'[q] # None
        PROVE  /\ dir'[q] \in Writers /\ pid'[dir'[q]] = q
               /\ phase'[dir'[q]] \notin {"new", "failed", "done"}
    <3>1. CASE q = pid[w]  BY <3>1, <2>1
    <3>2. CASE q # pid[w]  BY <3>2, <2>1, <2>5
    <3> QED  BY <3>1, <3>2
  <2> QED  BY <2>3, <2>4, <2>5
<1>2. ASSUME NEW w \in Writers,
             \/ WriteGroup(w) \/ SyncData(w) \/ WriteIndex(w) \/ WriteMeta(w)
             \/ CheckStore(w) \/ ListStore(w) \/ Raise(w) \/ Kill(w)
      PROVE  PidInv'
  <2>1. UNCHANGED <<dir, pid>>
        BY <1>2 DEF WriteGroup, SyncData, WriteIndex, WriteMeta, CheckStore, ListStore,
                    Raise, Kill
  <2>2. \/ UNCHANGED phase
        \/ phase[w] \in BeforeRename /\ \E q \in BeforeRename : Goto(w, q)
        \/ w \in Running /\ \E q \in {"cleanup", "crashed"} : Goto(w, q)
        BY <1>2 DEF WriteGroup, SyncData, WriteIndex, WriteMeta, CheckStore, ListStore,
                    Raise, Kill
  <2>3. CASE UNCHANGED phase  BY <2>1, <2>3
  <2>4. CASE phase[w] \in BeforeRename /\ \E q \in BeforeRename : Goto(w, q)
    <3>1. PICK q \in BeforeRename : Goto(w, q)  BY <2>4
    <3> HIDE DEF PidInv
    <3> QED  BY <3>1, <2>4, <2>1, PidStep
  <2>5. CASE w \in Running /\ \E q \in {"cleanup", "crashed"} : Goto(w, q)
    <3>1. PICK q \in {"cleanup", "crashed"} : Goto(w, q)  BY <2>5
    <3> HIDE DEF PidInv
    <3> QED  BY <3>1, <2>5, <2>1, PidStep
  <2> QED  BY <2>2, <2>3, <2>4, <2>5
<1>3. ASSUME NEW w \in Writers, Return(w) PROVE PidInv'
  <2>1. /\ UNCHANGED <<dir, pid>> /\ w \in Running /\ Goto(w, "done")
        /\ dir[pid[w]] = None
        BY <1>3 DEF Return
  <2> HIDE DEF PidInv
  <2> QED  BY <2>1, PidStep
<1>4. ASSUME NEW w \in Writers, Unlink(w) PROVE PidInv'
  <2>1. UNCHANGED <<dir, pid>> /\ w \in Running
        /\ (UNCHANGED phase \/ Goto(w, "cleanup"))
        BY <1>4 DEF Unlink
  <2>2. CASE UNCHANGED phase  BY <2>1, <2>2
  <2>3. CASE Goto(w, "cleanup")
    <3> HIDE DEF PidInv
    <3> QED  BY <2>1, <2>3, PidStep
  <2> QED  BY <2>1, <2>2, <2>3
<1>5. ASSUME NEW w \in Writers, RemoveStore(w) PROVE PidInv'
  <2>1. \A q \in Pids : dir'[q] = dir[q]  BY <1>5, <1>t DEF RemoveStore
  <2>2. UNCHANGED pid /\ phase[w] = "unlink" /\ (Goto(w, "rename") \/ Goto(w, "cleanup"))
        BY <1>5 DEF RemoveStore
  <2> HIDE DEF PidInv
  <2> QED  BY <2>1, <2>2, PidStep
<1>6. ASSUME NEW w \in Writers, Rename(w) PROVE PidInv'
  <2>1. UNCHANGED pid /\ phase[w] = "rename" /\ w \in Running  BY <1>6 DEF Rename
  <2>2. CASE dir[StorePath] = None \/ IsEmpty(dir[StorePath])
    <3>1. \A q \in Pids : dir'[q] = IF q = pid[w] THEN None ELSE dir[q]
          BY <1>6, <2>2, <1>p, <1>t DEF Rename
    <3>2. Goto(w, "return")  BY <1>6, <2>2 DEF Rename
    <3> HIDE DEF PidInv
    <3> QED  BY <2>1, <3>1, <3>2, PidStep
  <2>3. CASE ~(dir[StorePath] = None \/ IsEmpty(dir[StorePath]))
    <3>1. UNCHANGED dir /\ Goto(w, "cleanup")  BY <1>6, <2>3 DEF Rename
    <3> HIDE DEF PidInv
    <3> QED  BY <2>1, <3>1, PidStep
  <2> QED  BY <2>2, <2>3
<1>7. ASSUME NEW w \in Writers, Cleanup(w) PROVE PidInv'
  <2>1. UNCHANGED pid /\ phase[w] = "cleanup" /\ w \in Running /\ Goto(w, "failed")
        BY <1>7 DEF Cleanup
  <2>2. \A q \in Pids : dir'[q] = IF q = pid[w] THEN None ELSE dir[q]
        BY <1>7, <1>t DEF Cleanup
  <2> HIDE DEF PidInv
  <2> QED  BY <2>1, <2>2, PidStep
<1>9. CASE PowerLoss
  <2>1. \A w \in Writers : phase'[w] = IF w \in Running THEN "crashed" ELSE phase[w]
        BY <1>9 DEF PowerLoss
  <2>2. UNCHANGED <<dir, pid>>  BY <1>9 DEF PowerLoss
  <2> QED  BY <2>1, <2>2
<1>10. CASE Finished \/ UNCHANGED vars  BY <1>10 DEF Finished
<1> QED
  BY <1>1, <1>2, <1>3, <1>4, <1>5, <1>6, <1>7, <1>9, <1>10 DEF Next, Step

(* What a writer has written stays written: no other writer ever holds the *)
(* directory of one that has not renamed yet.                              *)
LEMMA NextWorkInv == TypeOK /\ PathsInv /\ WorkInv /\ [Next]_vars => WorkInv'
<1> SUFFICES ASSUME TypeOK, PathsInv, WorkInv, [Next]_vars,
                    NEW x \in Writers
             PROVE  WorkInv!(x)'
    BY DEF WorkInv
<1> USE DEF TypeOK, vars, fs, fixed, rm, AfterData, BeforeRename, InTry, IsEmpty, Empty
<1>d. /\ DataFiles \subseteq Files /\ Index \in Files /\ Meta \in Files
      /\ Index \notin DataFiles /\ Meta \notin DataFiles /\ Index # Meta
      BY NamesDistinct DEF Files
<1>i. Writers \subseteq Inodes  BY DEF Inodes
<1>w. WorkInv!(x)  BY DEF WorkInv
<1>1. ASSUME NEW w \in Writers, Begin(w) PROVE WorkInv!(x)'
  <2>1. \A f \in DataFiles : \E h \in DOMAIN GroupFile : h > 0 /\ GroupFile[h] = f
        BY FilesAssumption
  <2> QED  BY <1>1, <1>w, <2>1 DEF Begin, Goto
<1>2. ASSUME NEW w \in Writers, WriteGroup(w) PROVE WorkInv!(x)'
  <2>1. CASE x # w  BY <1>2, <2>1, <1>w, <1>i DEF WriteGroup
  <2>2. CASE x = w
    <3> DEFINE g == next_group[w] + 1
    <3>1. /\ g \in DOMAIN GroupFile /\ next_group'[x] = g
          /\ phase'[x] = "data" /\ phase[x] = "data"
          BY <1>2, <2>2, FilesAssumption DEF WriteGroup
    <3>2. \A f \in Files : content'[x][f] =
            IF f = GroupFile[g] THEN IF LastOfFile(g) THEN "whole" ELSE "torn"
            ELSE content[x][f]
          BY <1>2, <2>2, <1>i DEF WriteGroup
    <3>3. ASSUME NEW f \in DataFiles
          PROVE  \/ content'[x][f] = "whole"
                 \/ \E h \in DOMAIN GroupFile : h > next_group'[x] /\ GroupFile[h] = f
      <4>1. CASE f = GroupFile[g]
        <5>1. CASE LastOfFile(g)  BY <5>1, <4>1, <3>2, <1>d
        <5>2. CASE ~LastOfFile(g)
          <6>1. PICK h \in DOMAIN GroupFile : GroupFile[h] = GroupFile[g] /\ ~(h <= g)
                BY <5>2 DEF LastOfFile
          <6>2. h > g  BY <6>1, <3>1, FilesAssumption
          <6> QED  BY <6>1, <6>2, <4>1, <3>1
        <5> QED  BY <5>1, <5>2
      <4>2. CASE f # GroupFile[g]
        <5>1. content'[x][f] = content[x][f]  BY <4>2, <3>2, <1>d
        <5>2. CASE content[x][f] = "whole"  BY <5>1, <5>2
        <5>3. ASSUME NEW h \in DOMAIN GroupFile, h > next_group[x], GroupFile[h] = f
              PROVE  h > next_group'[x]
          <6>1. h # g  BY <5>3, <4>2
          <6> QED  BY <6>1, <5>3, <3>1, <2>2, FilesAssumption
        <5> QED  BY <5>2, <5>3, <3>1, <1>w
      <4> QED  BY <4>1, <4>2
    <3> QED  BY <3>1, <3>3
  <2> QED  BY <2>1, <2>2
<1>3. ASSUME NEW w \in Writers, SyncData(w) PROVE WorkInv!(x)'
  <2>1. CASE x # w  BY <1>3, <2>1, <1>w, <1>i DEF SyncData, Goto
  <2>2. CASE x = w
    <3>1. ~\E h \in DOMAIN GroupFile : h > next_group[w]
          BY <1>3, FilesAssumption DEF SyncData
    <3>2. \A f \in DataFiles : content[x][f] = "whole"
          BY <1>3, <2>2, <3>1, <1>w DEF SyncData
    <3> QED  BY <1>3, <2>2, <3>2, <1>i DEF SyncData, Goto
  <2> QED  BY <2>1, <2>2
<1>4. ASSUME NEW w \in Writers, WriteIndex(w) PROVE WorkInv!(x)'
  <2>1. CASE x # w  BY <1>4, <2>1, <1>w, <1>i DEF WriteIndex, Goto
  <2>2. CASE x = w
    <3>1. \A f \in Files : content'[x][f] = IF f = Index THEN "whole" ELSE content[x][f]
          BY <1>4, <2>2, <1>i DEF WriteIndex
    <3> QED  BY <1>4, <2>2, <3>1, <1>w, <1>d DEF WriteIndex, Goto
  <2> QED  BY <2>1, <2>2
<1>5. ASSUME NEW w \in Writers, WriteMeta(w) PROVE WorkInv!(x)'
  <2>1. CASE x # w  BY <1>5, <2>1, <1>w, <1>i DEF WriteMeta, Goto
  <2>2. CASE x = w
    <3>1. \A f \in Files : content'[x][f] =
            IF f = Meta /\ w \in has_meta THEN "whole" ELSE content[x][f]
          BY <1>5, <2>2, <1>i DEF WriteMeta
    <3> QED  BY <1>5, <2>2, <3>1, <1>w, <1>d DEF WriteMeta, Goto
  <2> QED  BY <2>1, <2>2
<1>6. ASSUME NEW w \in Writers, CheckStore(w) \/ ListStore(w) PROVE WorkInv!(x)'
      BY <1>6, <1>w DEF CheckStore, ListStore, Goto
<1>7. ASSUME NEW w \in Writers, Unlink(w) PROVE WorkInv!(x)'
  <2>1. opened[w] \in published  BY <1>7 DEF Unlink, PathsInv
  <2>2. \/ phase'[x] = phase[x]
        \/ phase'[x] = "cleanup"
        BY <1>7 DEF Unlink, Goto
  <2>3. UNCHANGED <<synced, has_meta, next_group>>  BY <1>7 DEF Unlink
  <2>4. CASE phase[x] \in {"new"} \cup BeforeRename
    <3>1. x # opened[w]  BY <2>1, <2>4 DEF PathsInv
    <3>2. content'[x] = content[x]  BY <1>7, <3>1, <1>i DEF Unlink
    <3> QED  BY <3>2, <2>2, <2>3, <1>w
  <2>5. CASE phase[x] \notin {"new"} \cup BeforeRename  BY <2>2, <2>5
  <2> QED  BY <2>4, <2>5
<1>8. ASSUME NEW w \in Writers, RemoveStore(w) \/ Rename(w) PROVE WorkInv!(x)'
      BY <1>8, <1>w DEF RemoveStore, Rename, Goto
<1>9. ASSUME NEW w \in Writers, Return(w) \/ Cleanup(w) \/ Raise(w) \/ Kill(w) PROVE WorkInv!(x)'
      BY <1>9, <1>w DEF Return, Cleanup, Raise, Kill, Goto, Ended
<1>10. CASE PowerLoss
  <2>1. phase'[x] = IF phase[x] \in {"new"} \cup Ended THEN phase[x] ELSE "crashed"
        BY <1>10 DEF PowerLoss, Running
  <2>2. phase'[x] \notin BeforeRename  BY <2>1 DEF Ended
  <2>3. phase[x] = "new" => content'[x] = Empty /\ UNCHANGED next_group
    <3>1. ASSUME NEW f \in Files, phase[x] = "new" PROVE content'[x][f] = "absent"
          BY <1>10, <3>1, <1>w, <1>i DEF PowerLoss
    <3>2. content'[x] = [f \in Files |-> content'[x][f]]  BY <1>10, <1>i DEF PowerLoss
    <3> QED  BY <3>1, <3>2, <1>10 DEF PowerLoss
  <2> QED  BY <2>1, <2>2, <2>3, <1>w DEF Ended
<1>11. CASE Finished \/ UNCHANGED vars  BY <1>11, <1>w DEF Finished
<1> QED
  BY <1>1, <1>2, <1>3, <1>4, <1>5, <1>6, <1>7, <1>8, <1>9, <1>10, <1>11 DEF Next, Step

(* A directory is fsynced before it is published, and is only ever         *)
(* dismantled afterwards.                                                  *)
LEMMA NextSyncInv ==
  TypeOK /\ PathsInv /\ WorkInv /\ SyncInv /\ [Next]_vars => SyncInv'
<1> SUFFICES ASSUME TypeOK, PathsInv, WorkInv, SyncInv, [Next]_vars PROVE SyncInv'
    OBVIOUS
<1> USE DEF TypeOK, SyncInv, vars, fs, fixed, rm
<1>d. DataFiles \subseteq Files  BY DEF Files
<1>1. ASSUME NEW w \in Writers,
             WriteGroup(w) \/ SyncData(w) \/ WriteIndex(w) \/ WriteMeta(w)
      PROVE  SyncInv'
  <2>1. w \notin published
        BY <1>1 DEF PathsInv, BeforeRename, InTry, WriteGroup, SyncData, WriteIndex, WriteMeta
  <2>2. UNCHANGED published
        BY <1>1 DEF WriteGroup, SyncData, WriteIndex, WriteMeta
  <2>3. \A n \in published : content'[n] = content[n] /\ synced'[n] = synced[n]
        BY <1>1, <2>1 DEF WriteGroup, SyncData, WriteIndex, WriteMeta
  <2> QED  BY <2>2, <2>3
<1>2. ASSUME NEW w \in Writers, Unlink(w) PROVE SyncInv'
  <2>1. \A n \in Inodes, f \in Files : content'[n][f] \in {content[n][f], "absent"}
        BY <1>2 DEF Unlink
  <2>2. UNCHANGED <<published, synced>>  BY <1>2 DEF Unlink
  <2> QED  BY <2>1, <2>2, <1>d
<1>3. ASSUME NEW w \in Writers, Rename(w) PROVE SyncInv'
  <2>1. DataFiles \subseteq synced[w] /\ \A f \in DataFiles : content[w][f] = "whole"
        BY <1>3 DEF Rename, WorkInv, AfterData, BeforeRename, InTry
  <2>2. UNCHANGED <<content, synced>> /\ published' \subseteq published \cup {w}
        BY <1>3 DEF Rename
  <2> QED  BY <2>1, <2>2
<1>4. CASE PowerLoss
  <2>1. UNCHANGED <<published, synced>>  BY <1>4 DEF PowerLoss
  <2>2. \A n \in Inodes, f \in Files : f \in synced[n] => content'[n][f] = content[n][f]
        BY <1>4 DEF PowerLoss
  <2> QED  BY <2>1, <2>2, <1>d
<1>5. ASSUME NEW w \in Writers,
             \/ Begin(w) \/ CheckStore(w) \/ ListStore(w) \/ RemoveStore(w) \/ Return(w)
             \/ Raise(w) \/ Cleanup(w) \/ Kill(w)
      PROVE  SyncInv'
      BY <1>5 DEF Begin, CheckStore, ListStore, RemoveStore, Return, Raise, Cleanup, Kill
<1>6. CASE Finished \/ UNCHANGED vars  BY <1>6 DEF Finished
<1> QED  BY <1>1, <1>2, <1>3, <1>4, <1>5, <1>6 DEF Next, Step

(* The inductive invariant holds in every state of every conversion.       *)
LEMMA Invariant == Spec => [](TypeOK /\ WriterInv)
<1>1. TypeOK /\ WriterInv /\ [Next]_vars => (TypeOK /\ WriterInv)'
      BY NextTypeOK, NextPathsInv, NextPidInv, NextWorkInv, NextSyncInv DEF WriterInv
<1> QED  BY InitTypeOK, InitWriterInv, <1>1, PTL DEF Spec
-----------------------------------------------------------------------------
(* The bookkeeping of the writers is consistent in every state, for any    *)
(* number of converters, pids, groups and faults.                          *)
THEOREM WriterConsistent == Spec => []WriterInv
BY Invariant, PTL

(* No power loss tears a partition file of a store at the path.            *)
THEOREM DataSurvives == Spec => []PublishedDataSurvives
<1>1. WriterInv => PublishedDataSurvives
      BY DEF WriterInv, PathsInv, SyncInv, PublishedDataSurvives
<1> QED  BY <1>1, Invariant, PTL

(* A conversion that failed or was published leaves no temporary directory *)
(* behind, and none is shared, however pids are reused.                    *)
THEOREM TmpOwned == Spec => []TmpBelongsToRunning
<1>1. WriterInv => TmpBelongsToRunning
      BY DEF WriterInv, PidInv, TmpBelongsToRunning
<1> QED  BY <1>1, Invariant, PTL

(* A writer that may unlink entries has finished its own store.            *)
LEMMA UnlinkerIsReady ==
  ASSUME WriterInv, NEW w \in Writers, phase[w] = "unlink"
  PROVE  dir[pid[w]] = w /\ w \in Running /\ Written(w)
<1> USE DEF AfterData, BeforeRename, InTry
<1>1. dir[pid[w]] = w /\ w \in Running  BY DEF WriterInv, PidInv, Running, Ended
<1>2. /\ DataFiles \subseteq synced[w] /\ content[w][Index] = "whole"
      /\ \A f \in DataFiles : content[w][f] = "whole"
      /\ w \in has_meta => content[w][Meta] = "whole"
      BY DEF WriterInv, WorkInv
<1> QED  BY <1>1, <1>2 DEF Written, FilesOf

(* The old store is only dismantled when a finished replacement waits.     *)
THEOREM ReplacementIsFirst == Spec => ReplacementFirst
<1> DEFINE Removed(f) ==
      LET n == dir[StorePath] IN
      n # None /\ content[n][f] # "absent" /\ content'[n][f] = "absent" =>
        \E w \in Running : dir[pid[w]] = w /\ opened[w] = n /\ Written(w)
<1>1. ASSUME TypeOK, WriterInv, [Next]_vars, NEW f \in Files PROVE Removed(f)
  <2> DEFINE n == dir[StorePath]
  <2> SUFFICES ASSUME n # None, content[n][f] # "absent", content'[n][f] = "absent"
               PROVE  \E w \in Running : dir[pid[w]] = w /\ opened[w] = n /\ Written(w)
      OBVIOUS
  <2>n. n \in published /\ n \in Inodes  BY <1>1 DEF WriterInv, PathsInv, TypeOK
  <2>1. ASSUME NEW w \in Writers, Unlink(w)
        PROVE  \E v \in Running : dir[pid[v]] = v /\ opened[v] = n /\ Written(v)
    <3>1. phase[w] = "unlink"  BY <2>1 DEF Unlink
    <3>2. opened[w] = n  BY <1>1, <2>1, <2>n DEF Unlink, TypeOK
    <3> QED  BY <1>1, <3>1, <3>2, UnlinkerIsReady
  <2>2. ASSUME NEW w \in Writers, WriteGroup(w) \/ WriteIndex(w) \/ WriteMeta(w)
        PROVE  FALSE
    <3>1. w # n
          BY <1>1, <2>2, <2>n
          DEF WriterInv, PathsInv, BeforeRename, InTry, WriteGroup, WriteIndex, WriteMeta
    <3> QED  BY <1>1, <2>2, <2>n, <3>1 DEF WriteGroup, WriteIndex, WriteMeta, TypeOK
  <2>3. CASE PowerLoss  BY <1>1, <2>3, <2>n DEF PowerLoss, TypeOK
  <2>4. CASE UNCHANGED content  BY <2>4
  <2> QED
    BY <1>1, <2>1, <2>2, <2>3, <2>4
    DEF Next, Step, Begin, SyncData, CheckStore, ListStore, RemoveStore, Rename, Return,
        Raise, Cleanup, Kill, Finished, vars, fs
<1>2. TypeOK /\ WriterInv /\ [Next]_vars => \A f \in Files : Removed(f)  BY <1>1
<1> QED  BY <1>2, Invariant, PTL DEF Spec, ReplacementFirst
-----------------------------------------------------------------------------
(* A writer at the rename has a whole store in its hands.                  *)
LEMMA RenamerIsWhole ==
  ASSUME WorkInv, NEW w \in Writers, phase[w] = "rename"
  PROVE  Whole(w)
BY DEF WorkInv, Whole, FilesOf, AfterData, BeforeRename, InTry

(* What an emptied directory holds is no store.                            *)
LEMMA EmptyIsNotWhole == \A n : IsEmpty(n) => ~Whole(n)
BY DEF IsEmpty, Empty, Whole, FilesOf, Files

(* Every step of the converters maps to a step of StorePublish or to none, *)
(* whatever fairness there is.                                             *)
LEMMA StepsPublish == Init /\ [][Next]_vars => PublishesWhole
<1> DEFINE shown == dir[StorePath]
           absvars == <<shown, StoreWhole, published>>
<1>1. ASSUME Init PROVE Publishing!Init
  <2> USE <1>1 DEF Init
  <2>1. shown \in Inodes \cup {None}  BY DEF Paths, Inodes
  <2>2. shown # None => Whole(shown)
        BY <2>1, NamesDistinct DEF Whole, FilesOf, Files
  <2> QED  BY <2>1, <2>2 DEF Publishing!Init, StoreWhole
<1>2. ASSUME TypeOK, WriterInv, [Next]_vars
      PROVE  [Publishing!Next]_absvars
  <2> USE <1>2 DEF TypeOK, WriterInv, vars, fs, fixed, rm
  <2>s. StorePath \in Paths /\ shown \in Inodes \cup {None}  BY DEF Paths
  <2>b. StoreWhole \in BOOLEAN /\ StoreWhole' \in BOOLEAN  BY DEF StoreWhole, Whole
  <2>p. \A w \in Writers : pid[w] # StorePath  BY PidIsNoStore
  <2>1. ASSUME shown' = shown, UNCHANGED <<published, has_meta>>,
               shown # None => content'[shown] = content[shown]
        PROVE  UNCHANGED absvars
    <3>1. StoreWhole' = StoreWhole  BY <2>1 DEF StoreWhole, Whole, FilesOf
    <3> QED  BY <2>1, <3>1
  <2>2. ASSUME shown' = shown, UNCHANGED <<published, has_meta>>,
               \A n \in Inodes, f \in Files :
                 content'[n][f] = "whole" => content[n][f] = "whole"
        PROVE  [Publishing!Next]_absvars
    <3>1. StoreWhole' => StoreWhole
          BY <2>2, <2>s DEF StoreWhole, Whole, FilesOf, Files
    <3>2. CASE StoreWhole' = StoreWhole  BY <2>2, <3>2
    <3>3. CASE StoreWhole /\ ~StoreWhole'
      <4>1. Publishing!Withdraw  BY <2>2, <3>3 DEF Publishing!Withdraw
      <4> QED  BY <4>1 DEF Publishing!Next
    <3> QED  BY <3>1, <3>2, <3>3, <2>b
  <2>3. ASSUME NEW w \in Writers, Begin(w) \/ Cleanup(w) PROVE UNCHANGED absvars
    <3>1. shown' = shown  BY <2>3, <2>p, <2>s DEF Begin, Cleanup
    <3> QED  BY <2>3, <3>1, <2>1 DEF Begin, Cleanup
  <2>4. ASSUME NEW w \in Writers, WriteGroup(w) \/ WriteIndex(w) \/ WriteMeta(w)
        PROVE  UNCHANGED absvars
    <3>1. w # shown
          BY <2>4, NamesDistinct
          DEF PathsInv, BeforeRename, InTry, Inodes, WriteGroup, WriteIndex, WriteMeta
    <3> QED  BY <2>4, <3>1, <2>1, <2>s DEF WriteGroup, WriteIndex, WriteMeta
  <2>5. ASSUME NEW w \in Writers,
               \/ SyncData(w) \/ CheckStore(w) \/ ListStore(w)
               \/ Return(w) \/ Raise(w) \/ Kill(w)
        PROVE  UNCHANGED absvars
        BY <2>5, <2>1 DEF SyncData, CheckStore, ListStore, Return, Raise, Kill
  <2>6. ASSUME NEW w \in Writers, Unlink(w) PROVE [Publishing!Next]_absvars
        BY <2>6, <2>2 DEF Unlink
  <2>7. CASE PowerLoss  BY <2>7, <2>2 DEF PowerLoss
  <2>8. ASSUME NEW w \in Writers, RemoveStore(w) PROVE [Publishing!Next]_absvars
    <3>1. CASE shown # None /\ IsEmpty(shown)
      <4>1. shown' = None /\ ~StoreWhole'
            BY <2>8, <3>1, <2>s DEF RemoveStore, StoreWhole
      <4>2. ~StoreWhole  BY <3>1, EmptyIsNotWhole DEF StoreWhole
      <4>3. Publishing!Vanish
            BY <2>8, <4>1, <4>2, <2>b DEF Publishing!Vanish, RemoveStore
      <4> QED  BY <4>3 DEF Publishing!Next
    <3>2. CASE ~(shown # None /\ IsEmpty(shown))
          BY <2>8, <3>2, <2>1 DEF RemoveStore
    <3> QED  BY <3>1, <3>2
  <2>9. ASSUME NEW w \in Writers, Rename(w) PROVE [Publishing!Next]_absvars
    <3>1. CASE shown = None \/ IsEmpty(shown)
      <4>1. shown' = w /\ published' = published \cup {w} /\ UNCHANGED <<content, has_meta>>
            BY <2>9, <3>1, <2>s, <2>p DEF Rename
      <4>2. w \notin published /\ w \in Inodes
            BY <2>9 DEF Rename, PathsInv, BeforeRename, InTry, Inodes
      <4>3. ~StoreWhole  BY <3>1, EmptyIsNotWhole DEF StoreWhole
      <4>4. StoreWhole'
        <5>1. Whole(w)  BY <2>9, RenamerIsWhole DEF Rename
        <5>2. w # None  BY <4>2, NamesDistinct
        <5> QED  BY <4>1, <5>1, <5>2 DEF StoreWhole, Whole, FilesOf
      <4>5. Publishing!Publish
            BY <4>1, <4>2, <4>3, <4>4, <2>b DEF Publishing!Publish
      <4> QED  BY <4>5 DEF Publishing!Next
    <3>2. CASE ~(shown = None \/ IsEmpty(shown))
          BY <2>9, <3>2, <2>1 DEF Rename
    <3> QED  BY <3>1, <3>2
  <2>10. CASE Finished \/ UNCHANGED vars  BY <2>10, <2>1 DEF Finished
  <2> QED
    BY <2>3, <2>4, <2>5, <2>6, <2>7, <2>8, <2>9, <2>10 DEF Next, Step
<1>3. TypeOK /\ WriterInv /\ [Next]_vars => (TypeOK /\ WriterInv)'
      BY NextTypeOK, NextPathsInv, NextPidInv, NextWorkInv, NextSyncInv DEF WriterInv
<1> QED
  BY <1>1, <1>2, <1>3, InitTypeOK, InitWriterInv, PTL DEF PublishesWhole, Publishing!Spec

(* The converters together implement StorePublish, for any number of them: *)
(* whatever interleaving, exception, kill or power loss, a store appears   *)
(* at the path in one step, whole, and once, and no visible store is ever  *)
(* written to.                                                             *)
THEOREM ImplementsPublish == Spec => PublishesWhole
BY StepsPublish, PTL DEF Spec
-----------------------------------------------------------------------------
(* Whatever the reader does, the writers take a step of theirs or none.    *)
LEMMA ReaderStepIsWriterStep == [ReaderNext]_<<vars, read>> => [Next]_vars
BY DEF ReaderNext, Next, ReadIndex, ReadStoreMeta, ReadGroup

(* The writers' invariant holds with a reader, too.                        *)
LEMMA ReaderStepKeepsWriterInv ==
  TypeOK /\ WriterInv /\ [ReaderNext]_<<vars, read>> => (TypeOK /\ WriterInv)'
BY ReaderStepIsWriterStep, NextTypeOK, NextPathsInv, NextPidInv, NextWorkInv, NextSyncInv DEF WriterInv

(* What was published stays published.                                     *)
LEMMA PublishedGrows == [Next]_vars => published \subseteq published'
<1> SUFFICES ASSUME [Next]_vars PROVE published \subseteq published'  OBVIOUS
<1> USE DEF fs
<1>1. ASSUME NEW w \in Writers, Step(w) PROVE published \subseteq published'
  <2>1. CASE Rename(w)  BY <2>1 DEF Rename
  <2>2. CASE ~Rename(w)
    BY <1>1, <2>2 DEF Step, Begin, WriteGroup, SyncData, WriteIndex, WriteMeta, CheckStore,
                      ListStore, Unlink, RemoveStore, Return, Cleanup
  <2> QED  BY <2>1, <2>2
<1>2. ASSUME NEW w \in Writers, Raise(w) \/ Kill(w) PROVE published \subseteq published'
  BY <1>2 DEF Raise, Kill
<1>3. CASE PowerLoss  BY <1>3 DEF PowerLoss
<1>4. CASE Finished \/ UNCHANGED vars  BY <1>4 DEF Finished, vars
<1> QED  BY <1>1, <1>2, <1>3, <1>4 DEF Next

(* What a path leads to is absent, torn or whole.                          *)
LEMMA PathLeadsToBytes == TypeOK => \A f \in Files : At(f) \in {"absent", "torn", "whole"}
BY DEF TypeOK, At, Paths

(* A step of a converter keeps the index that was read and forgets bytes.  *)
LEMMA ReaderStepKeepsReads ==
  TypeOK /\ WriterInv /\ ReadsFinishedStores /\ [ReaderNext]_<<vars, read>> => ReadsFinishedStores'
<1> SUFFICES ASSUME TypeOK, WriterInv, ReadsFinishedStores, [ReaderNext]_<<vars, read>>
             PROVE  ReadsFinishedStores'
  OBVIOUS
<1>0. published \subseteq published'  BY ReaderStepIsWriterStep, PublishedGrows
<1>1. dir[StorePath] # None => dir[StorePath] \in published  BY DEF WriterInv, PathsInv
<1>2. ASSUME index' = index, got' = None PROVE ReadsFinishedStores'
  BY <1>0, <1>2 DEF ReadsFinishedStores
<1>3. CASE NothingRead  BY <1>3 DEF NothingRead, ReadsFinishedStores
<1>4. CASE ReadIndex
  <2>1. dir[StorePath] # None  BY <1>4 DEF ReadIndex, At
  <2> QED  BY <1>0, <1>1, <1>4, <2>1 DEF ReadIndex, ReadsFinishedStores, vars, fs
<1>5. CASE ReadStoreMeta
  <2>1. /\ got' = [from |-> dir[StorePath], bytes |-> At(Meta)]
        /\ index' = index /\ At(Meta) # "torn" /\ published' = published
    BY <1>5 DEF ReadStoreMeta, Gets, vars, fs
  <2>2. At(Meta) # "absent" => dir[StorePath] \in published /\ At(Meta) = "whole"
    BY <1>1, <2>1, PathLeadsToBytes DEF At, Files
  <2> QED  BY <1>0, <2>1, <2>2 DEF ReadsFinishedStores
<1>6. CASE ReadGroup
  <2>1. PICK f \in DataFiles : /\ index # None /\ At(f) # "absent"
                               /\ Gets(f) /\ UNCHANGED <<vars, index>>
    BY <1>6 DEF ReadGroup
  <2>2. dir[StorePath] \in published /\ At(f) \in {"torn", "whole"}
    BY <1>1, <2>1, PathLeadsToBytes DEF At, Files
  <2>3. At(f) # "torn"  BY <1>1, <2>1, <2>2 DEF WriterInv, SyncInv, At
  <2> QED  BY <2>1, <2>2, <2>3 DEF ReadsFinishedStores, Gets, vars, fs
<1>7. CASE UNCHANGED <<vars, read>>  BY <1>7 DEF ReadsFinishedStores, vars, fs, read
<1> QED
  BY <1>2, <1>3, <1>4, <1>5, <1>6, <1>7 DEF ReaderNext, Meanwhile, Finished, vars, fs, read, ReadsFinishedStores

(* The reader never holds the index, or bytes, of a store that was not     *)
(* finished, whatever the converters behind the path do and whoever raises *)
(* or is killed.                                                           *)
THEOREM ReaderSeesFinished == ReaderSpec => []ReadsFinishedStores
<1>1. ReaderInit => TypeOK /\ WriterInv /\ ReadsFinishedStores
  BY InitTypeOK, InitWriterInv DEF ReaderInit, ReadsFinishedStores
<1>2. TypeOK /\ WriterInv /\ ReadsFinishedStores /\ [ReaderNext]_<<vars, read>>
      => (TypeOK /\ WriterInv /\ ReadsFinishedStores)'
  BY ReaderStepKeepsWriterInv, ReaderStepKeepsReads
<1> QED  BY <1>1, <1>2, PTL DEF ReaderSpec

(* A reader's steps leave the writers alone: with one, too, they implement *)
(* StorePublish.                                                           *)
THEOREM ReaderSeesPublish == ReaderSpec => PublishesWhole
<1>1. ReaderInit => Init  BY DEF ReaderInit
<1>2. [ReaderNext]_<<vars, read>> => [Next]_vars  BY ReaderStepIsWriterStep
<1> QED  BY <1>1, <1>2, StepsPublish, PTL DEF ReaderSpec
-----------------------------------------------------------------------------
(* The products of prefixes solve the recursion of Prod.                   *)
LEMMA ProdIs ==
  ASSUME NEW s \in Seq(Nat), NEW f, Products(s, Len(s), f)
  PROVE  Prod(s) = f[Len(s)]
<1> DEFINE g == CHOOSE h : ProdFrom(s, Len(s), h)
<1>0. Len(s) \in Nat  OBVIOUS
<1>1. ProdFrom(s, Len(s), f)
  <2>1. \A i \in 0 .. Len(s) : f[i] = IF i = 0 THEN 1 ELSE f[i - 1] * s[i]
    <3>1. \A i \in 0 .. Len(s) : i # 0 => i \in 1 .. Len(s)  BY <1>0
    <3> QED  BY <3>1 DEF Products
  <2>2. f = [i \in 0 .. Len(s) |-> f[i]]  BY DEF Products
  <2> QED  BY <2>1, <2>2 DEF ProdFrom
<1>2. ProdFrom(s, Len(s), g)  BY <1>1
<1>3. Prod(s) = g[Len(s)]  BY DEF Prod, ProdFrom
<1> HIDE DEF g
<1> DEFINE T == {n \in Nat : n <= Len(s) => g[n] = f[n]}
<1>4. 0 \in T
  <2>1. 0 \in 0 .. Len(s)  BY <1>0
  <2>2. g[0] = 1  BY <1>2, <2>1 DEF ProdFrom
  <2> QED  BY <2>2 DEF Products
<1>5. ASSUME NEW n \in Nat, n \in T PROVE n + 1 \in T
  <2> SUFFICES ASSUME n + 1 <= Len(s) PROVE g[n + 1] = f[n + 1]  OBVIOUS
  <2>1. n + 1 \in 1 .. Len(s) /\ n + 1 \in 0 .. Len(s) /\ n + 1 # 0 /\ n + 1 - 1 = n  BY <1>0
  <2>2. g[n + 1] = g[n] * s[n + 1]  BY <1>2, <2>1 DEF ProdFrom
  <2>3. f[n + 1] = f[n] * s[n + 1]  BY <2>1 DEF Products
  <2> QED  BY <1>5, <2>2, <2>3
<1> HIDE DEF T
<1>6. Len(s) \in T  BY <1>0, <1>4, <1>5, InductionOnSet
<1> QED  BY <1>0, <1>3, <1>6 DEF T

(* A product of natural numbers is one, and positive if they are.          *)
LEMMA ProdType ==
  ASSUME NEW s \in Seq(Nat)
  PROVE  Prod(s) \in Nat
<1>1. PICK f : Products(s, Len(s), f)  BY ProductsExist
<1>2. f[Len(s)] \in Nat
  <2>1. Len(s) \in 0 .. Len(s)  OBVIOUS
  <2> QED  BY <1>1, <2>1 DEF Products
<1> QED  BY <1>1, <1>2, ProdIs

(* A matrix has rows times columns entries.                                *)
LEMMA ProdTwo ==
  ASSUME NEW a \in Nat, NEW b \in Nat
  PROVE  Prod(<<a, b>>) = a * b
<1>0. PICK s : s = <<a, b>>  OBVIOUS
<1>1. s \in Seq(Nat) /\ Len(s) = 2 /\ s[1] = a /\ s[2] = b  BY <1>0
<1>2. PICK f : Products(s, Len(s), f)  BY <1>1, ProductsExist
<1>3. f[0] = 1 /\ f[1] = f[0] * a /\ f[2] = f[1] * b
  <2>1. 1 \in 1 .. Len(s) /\ 2 \in 1 .. Len(s)  BY <1>1
  <2>2. f[0] = 1 /\ f[1] = f[1 - 1] * s[1] /\ f[2] = f[2 - 1] * s[2]  BY <1>2, <2>1 DEF Products
  <2> QED  BY <1>1, <2>2
<1>4. f[1] = a /\ f[2] = a * b  BY <1>3
<1> QED  BY <1>0, <1>1, <1>2, <1>4, ProdIs

(* Without its last dimension a stack of matrices has its rows.            *)
LEMMA FrontOfThree ==
  ASSUME NEW a \in Nat, NEW b \in Nat, NEW c \in Nat
  PROVE  Prod(Front(<<a, b, c>>)) = a * b
<1>0. PICK s : s = <<a, b, c>>  OBVIOUS
<1>1. s \in Seq(Nat) /\ Len(s) = 3 /\ s[1] = a /\ s[2] = b  BY <1>0
<1>2. PICK f : f = SubSeq(s, 1, 2)  OBVIOUS
<1>3. f \in Seq(Nat) /\ Len(f) = 2 /\ f[1] = a /\ f[2] = b  BY <1>1, <1>2
<1>4. f = <<a, b>>  BY <1>3
<1>5. Front(s) = f  BY <1>1, <1>2 DEF Front
<1> QED  BY <1>0, <1>4, <1>5, ProdTwo
-----------------------------------------------------------------------------
(* What a checkpoint lists.                                                *)
Listed == UNION {{t.name : t \in ToSet(root.dirs[d].tensors)} : d \in at}
InputOK == root \in Roots /\ mode \in Modes /\ at \subseteq DOMAIN root.dirs
IsName(n) ==
  n = [at |-> n.at, block |-> n.block, layer |-> n.layer, expert |-> n.expert, field |-> n.field, aux |-> n.aux]

(* Names agree when their fields do.                                       *)
LEMMA SameName ==
  ASSUME NEW n, NEW m, IsName(n), IsName(m), n.at = m.at, n.block = m.block, n.layer = m.layer,
         n.expert = m.expert, n.field = m.field, n.aux = m.aux
  PROVE  n = m
BY DEF IsName

(* What a directory is like.                                               *)
LEMMA DirOK ==
  ASSUME InputOK, NEW d \in at
  PROVE  WellNamed(d, root.dirs[d]) /\ OneLayout(root.dirs[d]) /\ KnownFormat(root.dirs[d])
BY CheckpointsAssumption DEF InputOK

(* A listed name has its tensor.                                           *)
LEMMA ListedSource ==
  ASSUME InputOK, NEW n \in Listed
  PROVE  /\ n.at \in at /\ Source(n) \in ToSet(Conf(n).tensors) /\ Source(n).name = n
         /\ WellNamed(n.at, Conf(n)) /\ OneLayout(Conf(n)) /\ KnownFormat(Conf(n))
<1>1. PICK d \in at : \E t \in ToSet(root.dirs[d].tensors) : n = t.name  BY DEF Listed
<1>2. PICK t \in ToSet(root.dirs[d].tensors) : n = t.name  BY <1>1
<1>3. WellNamed(d, root.dirs[d]) /\ OneLayout(root.dirs[d]) /\ KnownFormat(root.dirs[d])  BY DirOK
<1>4. n = [at |-> d, block |-> n.block, layer |-> n.layer, expert |-> n.expert, field |-> n.field, aux |-> n.aux]
      BY <1>2, <1>3 DEF WellNamed
<1>5. n.at = d  BY <1>4
<1>6. Conf(n) = root.dirs[d]  BY <1>5 DEF Conf
<1>7. \E u \in ToSet(Conf(n).tensors) : u.name = n  BY <1>2, <1>6
<1>8. Source(n) \in ToSet(Conf(n).tensors) /\ Source(n).name = n  BY <1>7 DEF Source
<1> QED  BY <1>3, <1>5, <1>6, <1>8

(* It is a name, and its tensor has positive dimensions.                   *)
LEMMA ListedName ==
  ASSUME InputOK, NEW n \in Listed
  PROVE  /\ IsName(n) /\ n.expert \in Nat \cup {Fused, NoExpert} /\ Source(n).shape \in Seq(Nat \ {0})
         /\ n.expert = Fused => Len(Source(n).shape) > 1
         /\ Conf(n).experts \in Nat
<1>1. PICK t : t = Source(n)  OBVIOUS
<1>2. t \in ToSet(Conf(n).tensors) /\ t.name = n /\ WellNamed(n.at, Conf(n))  BY <1>1, ListedSource
<1>3. /\ n = [at |-> n.at, block |-> n.block, layer |-> n.layer, expert |-> n.expert, field |-> n.field, aux |-> n.aux]
      /\ n.expert \in Nat \cup {Fused, NoExpert}
      /\ t.shape \in Seq(Nat \ {0}) /\ (n.expert = Fused => Len(t.shape) > 1)
      /\ Conf(n).experts \in Nat
      BY <1>2 DEF WellNamed
<1> QED  BY <1>1, <1>3 DEF IsName

(* Two names of a layer keep its layout.                                   *)
LEMMA Layout ==
  ASSUME InputOK, NEW n \in Listed, NEW m \in Listed, n.at = m.at, n.layer = m.layer
  PROVE  /\ n.expert = Fused => m.expert < 0 /\ (m.expert = Fused => m.block = n.block)
         /\ (Mixtral(m) /\ m.field = "gate") =>
              /\ n.expert >= 0 => m.block = n.block
              /\ n.expert = Fused =>
                   /\ n.block = "mlp" /\ m.block = "mlp" /\ m.aux = "weight"
                   /\ \E u \in ToSet(Conf(n).tensors) :
                        u.name.expert = Fused /\ u.name.field = "gate_up_proj" /\ u.name.layer = n.layer
<1>1. PICK s : s = Source(n)  OBVIOUS
<1>2. PICK t : t = Source(m)  OBVIOUS
<1>3. s \in ToSet(Conf(n).tensors) /\ s.name = n /\ OneLayout(Conf(n))  BY <1>1, ListedSource
<1>4. t \in ToSet(Conf(m).tensors) /\ t.name = m  BY <1>2, ListedSource
<1>5. Conf(m) = Conf(n)  BY DEF Conf
<1>6. t \in ToSet(Conf(n).tensors)  BY <1>4, <1>5
<1>7. \A a, b \in ToSet(Conf(n).tensors) :
        a.name.layer = b.name.layer =>
          /\ a.name.expert = Fused => b.name.expert < 0 /\ (b.name.expert = Fused => b.name.block = a.name.block)
          /\ (Conf(n).arch = "mixtral" /\ b.name.field = "gate") =>
               /\ a.name.expert >= 0 => b.name.block = a.name.block
               /\ a.name.expert = Fused =>
                    /\ a.name.block = "mlp" /\ b.name.block = "mlp" /\ b.name.aux = "weight"
                    /\ \E u \in ToSet(Conf(n).tensors) :
                         u.name.expert = Fused /\ u.name.field = "gate_up_proj" /\ u.name.layer = a.name.layer
      BY <1>3, Zenon DEF OneLayout
<1>8. Mixtral(m) => Conf(n).arch = "mixtral"  BY <1>5 DEF Mixtral
<1> QED  BY <1>3, <1>4, <1>6, <1>7, <1>8
-----------------------------------------------------------------------------
(* The fields of a name with some of them replaced.                        *)
Changed(n, block, expert, field, aux) ==
  [at |-> n.at, block |-> block, layer |-> n.layer, expert |-> expert, field |-> field, aux |-> aux]

(* What a name with other parts is made of,                                *)
LEMMA ChangedFields ==
  ASSUME NEW n, NEW b, NEW e, NEW f, NEW a, NEW x, x = Changed(n, b, e, f, a)
  PROVE  /\ IsName(x) /\ x.at = n.at /\ x.layer = n.layer
         /\ x.block = b /\ x.expert = e /\ x.field = f /\ x.aux = a
BY DEF Changed, IsName

(* and each of the updates of the passes, as one:                          *)
LEMMA ChangedBlock ==
  ASSUME NEW n, IsName(n), NEW b
  PROVE  [n EXCEPT !.block = b] = Changed(n, b, n.expert, n.field, n.aux)
BY DEF Changed, IsName

(* of the expert,                                                          *)
LEMMA ChangedExpert ==
  ASSUME NEW n, IsName(n), NEW e
  PROVE  [n EXCEPT !.expert = e] = Changed(n, n.block, e, n.field, n.aux)
BY DEF Changed, IsName

(* of what follows the field.                                              *)
LEMMA ChangedAux ==
  ASSUME NEW n, IsName(n), NEW a
  PROVE  [n EXCEPT !.aux = a] = Changed(n, n.block, n.expert, n.field, a)
BY DEF Changed, IsName

(* The name a member of a fused tensor gets.                               *)
LEMMA MemberFields ==
  ASSUME NEW n, IsName(n), NEW e, NEW part, NEW x, x = V5Member(n, e, part)
  PROVE  /\ IsName(x) /\ x.at = n.at /\ x.layer = n.layer
         /\ x.expert = e /\ x.aux = "weight" /\ x.field = V5Field(n, part)
         /\ x.block = OutBlock(n)
<1>1. PICK b : b = OutBlock(n)  OBVIOUS
<1>2. PICK f : f = V5Field(n, part)  OBVIOUS
<1>3. V5Member(n, e, part) = [n EXCEPT !.block = b, !.expert = e, !.aux = "weight", !.field = f]
      BY <1>1, <1>2 DEF V5Member
<1>4. x = Changed(n, b, e, f, "weight")  BY <1>3 DEF Changed, IsName
<1> QED  BY <1>1, <1>2, <1>4, ChangedFields

(* Which fields those are.                                                 *)
LEMMA FieldIs ==
  ASSUME NEW n
  PROVE  /\ Mixtral(n) => V5Field(n, "gate") = "w1" /\ V5Field(n, "up") = "w3" /\ V5Field(n, "down") = "w2"
         /\ ~Mixtral(n) => /\ V5Field(n, "gate") = "gate_proj" /\ V5Field(n, "up") = "up_proj"
                           /\ V5Field(n, "down") = "down_proj"
<1>0. "up" # "gate" /\ "down" # "gate" /\ "down" # "up"  OBVIOUS
<1>1. V5Field(n, "gate") = IF Mixtral(n) THEN "w1" ELSE "gate_proj"  BY <1>0, Zenon DEF V5Field
<1>2. V5Field(n, "up") = IF Mixtral(n) THEN "w3" ELSE "up_proj"  BY <1>0, Zenon DEF V5Field
<1>3. V5Field(n, "down") = IF Mixtral(n) THEN "w2" ELSE "down_proj"  BY <1>0, Zenon DEF V5Field
<1> QED  BY <1>1, <1>2, <1>3
-----------------------------------------------------------------------------
(* What a name an expansion made stands for.                               *)
PartOf(n, part) ==
  \/ n.field = "gate_up_proj" /\ part \in {"gate", "up"}
  \/ n.field = "down_proj" /\ part = "down"
V5Name(x, v) ==
  /\ v.kind = "v5" /\ v.of \in Listed /\ V5Expands(v.of) /\ PartOf(v.of, v.part)
  /\ v.expert \in 0 .. Source(v.of).shape[1] - 1 /\ x = V5Member(v.of, v.expert, v.part)
RenamedName(x, v) ==
  /\ v.kind = "renamed" /\ v.of \in Listed
  /\ Mixtral(v.of) /\ v.of.block = "mlp" /\ v.of.field = "gate" /\ v.of.aux = "weight"
  /\ \E m \in Listed : m.at = v.of.at /\ m.expert = Fused /\ m.field = "gate_up_proj" /\ m.layer = v.of.layer
  /\ x = [v.of EXCEPT !.block = "block_sparse_moe"]
GptOssName(x, v) ==
  /\ v.kind = "gpt_oss" /\ v.of \in Listed /\ GptOssExpands(v.of)
  /\ Source(v.of).shape[1] = Conf(v.of).experts
  /\ v.expert \in 0 .. Conf(v.of).experts - 1 /\ x = [v.of EXCEPT !.expert = v.expert]
DbrxName(x, v) ==
  /\ v.kind = "dbrx" /\ v.of \in Listed /\ DbrxExpands(v.of)
  /\ Source(v.of).shape[1] % Conf(v.of).experts = 0
  /\ v.expert \in 0 .. Conf(v.of).experts - 1 /\ x = [v.of EXCEPT !.expert = v.expert]
Virtual(x, v) == V5Name(x, v) \/ RenamedName(x, v) \/ GptOssName(x, v) \/ DbrxName(x, v)

(* The fields of such a name.                                              *)
LEMMA VirtualFields ==
  ASSUME InputOK, NEW x, NEW v, Virtual(x, v)
  PROVE  /\ v.of \in Listed /\ IsName(x) /\ x.at = v.of.at /\ x.layer = v.of.layer
         /\ v.kind \in {"v5", "renamed", "gpt_oss", "dbrx"}
         /\ v.kind \in {"v5", "gpt_oss", "dbrx"} => x.expert = v.expert /\ x.expert \in Nat /\ v.of.expert = Fused
         /\ v.kind \in {"gpt_oss", "dbrx"} => x.block = v.of.block /\ x.field = v.of.field /\ x.aux = v.of.aux
         /\ v.kind = "renamed" => /\ x.expert = v.of.expert /\ x.field = "gate" /\ x.aux = "weight"
                                  /\ x.block = "block_sparse_moe" /\ Mixtral(x)
         /\ v.kind = "v5" => /\ x.aux = "weight" /\ x.field = V5Field(v.of, v.part) /\ v.of.aux = ""
                             /\ x.block = OutBlock(v.of)
<1>1. v.of \in Listed  BY DEF Virtual, V5Name, RenamedName, GptOssName, DbrxName
<1>2. IsName(v.of) /\ Conf(v.of).experts \in Nat /\ Source(v.of).shape \in Seq(Nat \ {0})  BY <1>1, ListedName
<1>3. CASE V5Name(x, v)
  <2>1. v.kind = "v5" /\ x = V5Member(v.of, v.expert, v.part) /\ v.of.expert = Fused /\ v.of.aux = ""
        /\ Len(Source(v.of).shape) = 3 /\ v.expert \in 0 .. Source(v.of).shape[1] - 1
        BY <1>3 DEF V5Name, V5Expands
  <2>2. v.expert \in Nat
    <3>1. PICK s : s = Source(v.of).shape  OBVIOUS
    <3>2. s \in Seq(Nat \ {0}) /\ Len(s) = 3 /\ v.expert \in 0 .. s[1] - 1  BY <1>2, <2>1, <3>1
    <3>3. s[1] \in Nat
      <4>1. 1 \in 1 .. Len(s)  BY <3>2
      <4> QED  BY <3>2, <4>1, Dimension
    <3>4. PICK c : c = s[1]  OBVIOUS
    <3> QED  BY <3>2, <3>3, <3>4
  <2>n. PICK n : n = v.of  OBVIOUS
  <2>e. PICK e : e = v.expert  OBVIOUS
  <2>p. PICK p : p = v.part  OBVIOUS
  <2>m. x = V5Member(n, e, p) /\ IsName(n)  BY <1>2, <2>1, <2>n, <2>e, <2>p
  <2>f. /\ IsName(x) /\ x.at = n.at /\ x.layer = n.layer
        /\ x.expert = e /\ x.aux = "weight" /\ x.field = V5Field(n, p)
        /\ x.block = OutBlock(n)
        BY <2>m, MemberFields
  <2>3. /\ IsName(x) /\ x.at = v.of.at /\ x.layer = v.of.layer
        /\ x.expert = v.expert /\ x.aux = "weight" /\ x.field = V5Field(v.of, v.part)
        /\ x.block = OutBlock(v.of)
        BY <2>f, <2>n, <2>e, <2>p
  <2> QED  BY <1>1, <2>1, <2>2, <2>3
<1>4. CASE RenamedName(x, v)
  <2>1. v.kind = "renamed" /\ x = Changed(v.of, "block_sparse_moe", v.of.expert, v.of.field, v.of.aux)
        /\ v.of.field = "gate" /\ v.of.aux = "weight" /\ Mixtral(v.of)
        BY <1>2, <1>4, ChangedBlock DEF RenamedName
  <2>2. /\ IsName(x) /\ x.at = v.of.at /\ x.layer = v.of.layer /\ x.block = "block_sparse_moe"
        /\ x.expert = v.of.expert /\ x.field = "gate" /\ x.aux = "weight"
        BY <2>1, ChangedFields
  <2>3. Mixtral(x)  BY <2>1, <2>2 DEF Mixtral, Conf
  <2> QED  BY <1>1, <2>1, <2>2, <2>3
<1>5. CASE GptOssName(x, v) \/ DbrxName(x, v)
  <2>1. /\ v.kind \in {"gpt_oss", "dbrx"} /\ v.of.expert = Fused
        /\ v.expert \in 0 .. Conf(v.of).experts - 1 /\ x = [v.of EXCEPT !.expert = v.expert]
        BY <1>5 DEF GptOssName, DbrxName, GptOssExpands, DbrxExpands
  <2>2. x = Changed(v.of, v.of.block, v.expert, v.of.field, v.of.aux)  BY <1>2, <2>1, ChangedExpert
  <2>3. v.expert \in Nat  BY <1>2, <2>1
  <2>4. /\ IsName(x) /\ x.at = v.of.at /\ x.layer = v.of.layer /\ x.block = v.of.block
        /\ x.expert = v.expert /\ x.field = v.of.field /\ x.aux = v.of.aux
        BY <2>2, ChangedFields
  <2> QED  BY <1>1, <2>1, <2>3, <2>4
<1> QED  BY <1>3, <1>4, <1>5 DEF Virtual
-----------------------------------------------------------------------------
(* What a pass may make of a name.                                         *)
Raw(n) == [name |-> n, kind |-> "raw"]
Made(m, n) == m = Raw(n) \/ (m.of = n /\ Virtual(m.name, m))
Parts(parts, lists) ==
  /\ DOMAIN parts = DOMAIN lists
  /\ parts = [i \in DOMAIN lists |-> parts[i]]
  /\ \A i \in DOMAIN lists : IsSeq(parts[i])
  /\ \A i \in DOMAIN lists : \A k \in DOMAIN parts[i] : Made(parts[i][k], lists[i])

(* A pass over the names leaves a name alone or replaces it by names it    *)
(* made, and what they stand for.                                          *)
LEMMA ExpandKeeps ==
  ASSUME InputOK, NEW parts, NEW next, ExpandTo(parts, next), IsSeq(names), Parts(parts, names)
  PROVE  /\ IsSeq(names')
         /\ \A x \in ToSet(names') : x \in ToSet(names) \/ x \in DOMAIN virtual'
         /\ \A x \in DOMAIN virtual : x \in DOMAIN virtual'
         /\ \A x \in DOMAIN virtual' :
              \/ x \in DOMAIN virtual /\ virtual'[x] = virtual[x]
              \/ Virtual(x, virtual'[x]) /\ \E i \in DOMAIN names : \E k \in DOMAIN parts[i] : virtual'[x] = parts[i][k]
<1> DEFINE made == FlattenSeq(parts)
           new  == {m \in ToSet(made) : m.kind # "raw"}
<1>1. IsSeqs(parts)
  <2>1. Len(names) \in Nat /\ DOMAIN names = 1 .. Len(names)  BY SeqEntries
  <2> QED  BY <2>1 DEF IsSeqs, Parts
<1>2. IsSeq(made) /\ \A k \in DOMAIN made : \E i \in DOMAIN parts : \E j \in DOMAIN parts[i] : made[k] = parts[i][j]
      BY <1>1, FlatEntries
<1>3. ASSUME NEW m \in ToSet(made)
      PROVE  \E i \in DOMAIN names : \E k \in DOMAIN parts[i] : m = parts[i][k] /\ Made(m, names[i])
  <2>1. PICK k \in DOMAIN made : m = made[k]  BY DEF ToSet
  <2>2. PICK i \in DOMAIN parts : \E j \in DOMAIN parts[i] : made[k] = parts[i][j]  BY <1>2
  <2>3. PICK j \in DOMAIN parts[i] : made[k] = parts[i][j]  BY <2>2
  <2> QED  BY <2>1, <2>3 DEF Parts
<1>4. /\ names' = [i \in DOMAIN made |-> made[i].name]
      /\ virtual' = [n \in {m.name : m \in new} \cup DOMAIN virtual |->
                       IF \E m \in new : m.name = n THEN CHOOSE m \in new : m.name = n ELSE virtual[n]]
      BY DEF ExpandTo
<1> HIDE DEF made
<1>5. IsSeq(names')
  <2>1. Len(made) \in Nat /\ DOMAIN made = 1 .. Len(made)  BY <1>2, SeqEntries
  <2>2. DOMAIN names' = 1 .. Len(made)  BY <1>4, <2>1
  <2>3. names' = [i \in 1 .. Len(made) |-> names'[i]]  BY <1>4, <2>1
  <2> QED  BY <2>1, <2>2, <2>3, IsSeqIf
<1>6. ASSUME NEW m \in new
      PROVE  Virtual(m.name, m) /\ \E i \in DOMAIN names : \E k \in DOMAIN parts[i] : m = parts[i][k]
  <2>1. PICK i \in DOMAIN names : \E k \in DOMAIN parts[i] : m = parts[i][k] /\ Made(m, names[i])  BY <1>3
  <2>2. m # Raw(names[i])  BY DEF Raw
  <2> QED  BY <2>1, <2>2 DEF Made
<1>7. ASSUME NEW x \in ToSet(names') PROVE x \in ToSet(names) \/ x \in DOMAIN virtual'
  <2>1. PICK k \in DOMAIN names' : x = names'[k]  BY DEF ToSet
  <2>2. PICK m : m = made[k]  OBVIOUS
  <2>3. k \in DOMAIN made /\ x = m.name  BY <1>4, <2>1, <2>2
  <2>4. m \in ToSet(made)  BY <2>2, <2>3 DEF ToSet
  <2>5. CASE m.kind # "raw"
    <3>1. m \in new  BY <2>4, <2>5
    <3> QED  BY <1>4, <2>3, <3>1
  <2>6. CASE m.kind = "raw"
    <3>1. PICK i \in DOMAIN names : \E h \in DOMAIN parts[i] : m = parts[i][h] /\ Made(m, names[i])  BY <1>3, <2>4
    <3>2. m = Raw(names[i])
      <4>1. ~Virtual(m.name, m)  BY <2>6 DEF Virtual, V5Name, RenamedName, GptOssName, DbrxName
      <4> QED  BY <3>1, <4>1 DEF Made
    <3>3. x = names[i]  BY <2>3, <3>2 DEF Raw
    <3> QED  BY <3>3 DEF ToSet
  <2> QED  BY <2>5, <2>6
<1>8. ASSUME NEW x \in DOMAIN virtual'
      PROVE  \/ x \in DOMAIN virtual /\ virtual'[x] = virtual[x]
             \/ Virtual(x, virtual'[x]) /\ \E i \in DOMAIN names : \E k \in DOMAIN parts[i] : virtual'[x] = parts[i][k]
  <2>1. x \in {m.name : m \in new} \cup DOMAIN virtual  BY <1>4
  <2>2. CASE \E m \in new : m.name = x
    <3>1. PICK c : c = CHOOSE m \in new : m.name = x  OBVIOUS
    <3>2. c \in new /\ c.name = x  BY <2>2, <3>1
    <3>3. virtual'[x] = c  BY <1>4, <2>1, <2>2, <3>1
    <3> QED  BY <1>6, <3>2, <3>3
  <2>3. CASE ~\E m \in new : m.name = x
    <3>1. x \in DOMAIN virtual  BY <2>1, <2>3
    <3>2. virtual'[x] = virtual[x]  BY <1>4, <2>1, <2>3
    <3> QED  BY <3>1, <3>2
  <2> QED  BY <2>2, <2>3
<1>9. \A x \in DOMAIN virtual : x \in DOMAIN virtual'  BY <1>4
<1> QED  BY <1>5, <1>7, <1>8, <1>9
-----------------------------------------------------------------------------
(* V5Expansion: what it makes of one name.                                 *)
V5Record(n, e, part) == [name |-> V5Member(n, e, part), kind |-> "v5", of |-> n, expert |-> e, part |-> part]
Renamed(n) ==
  [name |-> [n EXCEPT !.block = "block_sparse_moe"], kind |-> "renamed", of |-> n, expert |-> NoExpert, part |-> ""]

(* V5Expansion's answer to a name, case by case.                           *)
LEMMA V5OfIs ==
  ASSUME NEW n
  PROVE  /\ V5Expands(n) => V5Of(n) = FlattenSeq(V5Lists(n))
         /\ ~V5Expands(n) /\ V5Router(n) => V5Of(n) = <<Renamed(n)>>
         /\ ~V5Expands(n) /\ ~V5Router(n) => V5Of(n) = <<Raw(n)>>
<1>1. CASE V5Expands(n)
  <2>0. ~V5Router(n)  BY <1>1 DEF V5Expands, V5Router
  <2>1. V5Of(n) = FlattenSeq(V5Lists(n))  BY <1>1, <2>0, Zenon DEF V5Of
  <2> QED  BY <1>1, <2>1
<1>2. CASE ~V5Expands(n) /\ V5Router(n)
  <2>1. V5Of(n) = <<[name |-> [n EXCEPT !.block = "block_sparse_moe"], kind |-> "renamed",
                     of |-> n, expert |-> NoExpert, part |-> ""]>>
        BY <1>2, Zenon DEF V5Of
  <2> QED  BY <1>2, <2>1 DEF Renamed
<1>3. CASE ~V5Expands(n) /\ ~V5Router(n)
  <2>1. V5Of(n) = <<[name |-> n, kind |-> "raw"]>>  BY <1>3, Zenon DEF V5Of
  <2> QED  BY <1>3, <2>1 DEF Raw
<1> QED  BY <1>1, <1>2, <1>3

(* The parts of a fused tensor.                                            *)
LEMMA V5PartsAre ==
  ASSUME NEW n, V5Expands(n)
  PROVE  \/ n.field = "gate_up_proj" /\ V5Parts(n) = <<"gate", "up">>
         \/ n.field = "down_proj" /\ V5Parts(n) = <<"down">>
BY DEF V5Parts, V5Expands

(* The parts of a fused tensor: one or two, each once.                     *)
LEMMA V5PartsPlaces ==
  ASSUME NEW n, V5Expands(n)
  PROVE  /\ \E c \in 1 .. 2 : DOMAIN V5Parts(n) = 1 .. c
         /\ \A p \in DOMAIN V5Parts(n) : PartOf(n, V5Parts(n)[p])
         /\ \A p, q \in DOMAIN V5Parts(n) : V5Parts(n)[p] = V5Parts(n)[q] => p = q
         /\ \A part : PartOf(n, part) => \E p \in DOMAIN V5Parts(n) : V5Parts(n)[p] = part
<1>1. PICK s : s = V5Parts(n)  OBVIOUS
<1>2. CASE n.field = "gate_up_proj" /\ s = <<"gate", "up">>
  <2>1. DOMAIN s = 1 .. 2 /\ s[1] = "gate" /\ s[2] = "up" /\ "gate" # "up" /\ n.field # "down_proj"  BY <1>2
  <2>2. \A p \in 1 .. 2 : p = 1 \/ p = 2  OBVIOUS
  <2>3. \A p \in DOMAIN s : PartOf(n, s[p])  BY <1>2, <2>1, <2>2 DEF PartOf
  <2>4. \A p, q \in DOMAIN s : s[p] = s[q] => p = q  BY <2>1, <2>2
  <2>5. \A part : PartOf(n, part) => \E p \in DOMAIN s : s[p] = part
    <3>1. 1 \in DOMAIN s /\ 2 \in DOMAIN s  BY <2>1
    <3> QED  BY <1>2, <2>1, <3>1 DEF PartOf
  <2>6. \E c \in 1 .. 2 : DOMAIN s = 1 .. c  BY <2>1
  <2> QED  BY <1>1, <2>3, <2>4, <2>5, <2>6
<1>3. CASE n.field = "down_proj" /\ s = <<"down">>
  <2>1. DOMAIN s = 1 .. 1 /\ s[1] = "down" /\ n.field # "gate_up_proj"  BY <1>3
  <2>2. \A p \in 1 .. 1 : p = 1  OBVIOUS
  <2>3. \A p \in DOMAIN s : PartOf(n, s[p])  BY <1>3, <2>1, <2>2 DEF PartOf
  <2>4. \A p, q \in DOMAIN s : s[p] = s[q] => p = q  BY <2>1, <2>2
  <2>5. \A part : PartOf(n, part) => \E p \in DOMAIN s : s[p] = part
    <3>1. 1 \in DOMAIN s  BY <2>1
    <3> QED  BY <1>3, <2>1, <3>1 DEF PartOf
  <2>6. \E c \in 1 .. 2 : DOMAIN s = 1 .. c  BY <2>1
  <2> QED  BY <1>1, <2>3, <2>4, <2>5, <2>6
<1> QED  BY <1>1, <1>2, <1>3, V5PartsAre

(* The lists of a fused tensor are sequences,                              *)
LEMMA V5ListsType ==
  ASSUME InputOK, NEW n \in Listed, V5Expands(n)
  PROVE  /\ IsSeqs(V5Lists(n)) /\ DOMAIN V5Lists(n) = 1 .. Source(n).shape[1] /\ Source(n).shape[1] \in Nat
         /\ \A i \in DOMAIN V5Lists(n) : DOMAIN V5Lists(n)[i] = DOMAIN V5Parts(n)
         /\ \A i \in DOMAIN V5Lists(n) : \A p \in DOMAIN V5Parts(n) :
              V5Lists(n)[i][p] = V5Record(n, i - 1, V5Parts(n)[p])
<1>1. PICK c : c = Source(n).shape[1]  OBVIOUS
<1>2. c \in Nat
  <2>1. PICK s \in Seq(Nat \ {0}) : s = Source(n).shape  BY ListedName
  <2>l. Len(s) = 3  BY <2>1 DEF V5Expands
  <2>2. 1 \in 1 .. Len(s)  BY <2>l
  <2> QED  BY <1>1, <2>1, <2>2, Dimension
<1>3. PICK k \in 1 .. 2 : DOMAIN V5Parts(n) = 1 .. k  BY V5PartsPlaces
<1>l. PICK l : l = V5Lists(n)  OBVIOUS
<1>4. l = [i \in 1 .. c |-> [p \in 1 .. k |-> V5Record(n, i - 1, V5Parts(n)[p])]]
      BY <1>1, <1>3, <1>l DEF V5Lists, V5Record
<1>5. ASSUME NEW i \in 1 .. c PROVE IsSeq(l[i])
  <2>1. PICK s : s = l[i]  OBVIOUS
  <2>2. s = [p \in 1 .. k |-> V5Record(n, i - 1, V5Parts(n)[p])]  BY <1>4, <2>1
  <2>3. k \in Nat /\ DOMAIN s = 1 .. k /\ s = [p \in 1 .. k |-> s[p]]  BY <2>2
  <2>4. IsSeq(s)  BY <2>3, IsSeqIf
  <2> QED  BY <2>1, <2>4
<1>6. IsSeqs(l)
  <2>1. DOMAIN l = 1 .. c /\ l = [i \in 1 .. c |-> l[i]]  BY <1>4
  <2> QED  BY <1>2, <1>5, <2>1 DEF IsSeqs
<1>7. DOMAIN l = 1 .. c  BY <1>4
<1>8. \A i \in 1 .. c : DOMAIN l[i] = 1 .. k  BY <1>4
<1>9. \A i \in 1 .. c : \A p \in 1 .. k : l[i][p] = V5Record(n, i - 1, V5Parts(n)[p])  BY <1>4
<1> QED  BY <1>1, <1>2, <1>3, <1>l, <1>6, <1>7, <1>8, <1>9

(* and what the pass makes of a name is a list of what it may make.        *)
LEMMA V5Made ==
  ASSUME InputOK, \A m \in ToSet(names) : m \in Listed, NEW d, at = {d}, NEW n \in ToSet(names)
  PROVE  IsSeq(V5Of(n)) /\ \A k \in DOMAIN V5Of(n) : Made(V5Of(n)[k], n)
<1>0. n \in Listed  OBVIOUS
<1>1. CASE V5Expands(n)
  <2>1. V5Of(n) = FlattenSeq(V5Lists(n))  BY <1>1, V5OfIs
  <2>2. /\ IsSeqs(V5Lists(n)) /\ DOMAIN V5Lists(n) = 1 .. Source(n).shape[1] /\ Source(n).shape[1] \in Nat
        /\ \A i \in DOMAIN V5Lists(n) : DOMAIN V5Lists(n)[i] = DOMAIN V5Parts(n)
        /\ \A i \in DOMAIN V5Lists(n) : \A p \in DOMAIN V5Parts(n) :
             V5Lists(n)[i][p] = V5Record(n, i - 1, V5Parts(n)[p])
        BY <1>0, <1>1, V5ListsType
  <2>3. ASSUME NEW k \in DOMAIN V5Of(n) PROVE Made(V5Of(n)[k], n)
    <3>1. PICK i \in DOMAIN V5Lists(n) : \E j \in DOMAIN V5Lists(n)[i] : V5Of(n)[k] = V5Lists(n)[i][j]
          BY <2>1, <2>2, <2>3, FlatEntries
    <3>2. PICK j \in DOMAIN V5Lists(n)[i] : V5Of(n)[k] = V5Lists(n)[i][j]  BY <3>1
    <3>3. j \in DOMAIN V5Parts(n)  BY <2>2, <3>2
    <3>4. PICK part : part = V5Parts(n)[j]  OBVIOUS
    <3>5. PICK e : e = i - 1  OBVIOUS
    <3>6. PICK m : m = V5Record(n, e, part)  OBVIOUS
    <3>7. V5Of(n)[k] = m  BY <2>2, <3>2, <3>3, <3>4, <3>5, <3>6
    <3>8. PartOf(n, part)  BY <1>1, <3>3, <3>4, V5PartsPlaces
    <3>9. e \in 0 .. Source(n).shape[1] - 1
      <4>1. PICK c \in Nat : c = Source(n).shape[1] /\ i \in 1 .. c  BY <2>2
      <4>2. i - 1 \in 0 .. c - 1  BY <4>1
      <4> QED  BY <3>5, <4>1, <4>2
    <3>10. m.kind = "v5" /\ m.of = n /\ m.expert = e /\ m.part = part /\ m.name = V5Member(n, e, part)
           BY <3>6 DEF V5Record
    <3>11. V5Name(m.name, m)  BY <1>0, <1>1, <3>8, <3>9, <3>10 DEF V5Name
    <3> QED  BY <3>7, <3>10, <3>11 DEF Made, Virtual
  <2>4. IsSeq(V5Of(n))  BY <2>1, <2>2, FlatEntries
  <2> QED  BY <2>3, <2>4
<1>2. CASE ~V5Expands(n) /\ V5Router(n)
  <2>1. V5Of(n) = <<Renamed(n)>>  BY <1>2, V5OfIs
  <2>2. PICK m : m = Renamed(n)  OBVIOUS
  <2>3. m.kind = "renamed" /\ m.of = n /\ m.name = [n EXCEPT !.block = "block_sparse_moe"]  BY <2>2 DEF Renamed
  <2>4. \E u \in Listed : u.at = n.at /\ u.expert = Fused /\ u.field = "gate_up_proj" /\ u.layer = n.layer
    <3>1. PICK u \in ToSet(names) : u.expert = Fused /\ u.field = "gate_up_proj" /\ u.layer = n.layer
          BY <1>2 DEF V5Router
    <3>2. u \in Listed  OBVIOUS
    <3>3. u.at \in at /\ n.at \in at  BY <1>0, <3>2, ListedSource
    <3> QED  BY <3>1, <3>2, <3>3
  <2>5. RenamedName(m.name, m)  BY <1>0, <1>2, <2>3, <2>4 DEF RenamedName, V5Router
  <2>6. Made(m, n)  BY <2>3, <2>5 DEF Made, Virtual
  <2>7. PICK s : s = V5Of(n)  OBVIOUS
  <2>8. s = <<m>>  BY <2>1, <2>2, <2>7
  <2>9. DOMAIN s = 1 .. 1 /\ s = [i \in 1 .. 1 |-> s[i]] /\ s[1] = m  BY <2>8
  <2>10. IsSeq(s)  BY <2>9, IsSeqIf
  <2> QED  BY <2>6, <2>7, <2>9, <2>10
<1>3. CASE ~V5Expands(n) /\ ~V5Router(n)
  <2>1. V5Of(n) = <<Raw(n)>>  BY <1>3, V5OfIs
  <2>2. PICK m : m = Raw(n)  OBVIOUS
  <2>7. PICK s : s = V5Of(n)  OBVIOUS
  <2>8. s = <<m>>  BY <2>1, <2>2, <2>7
  <2>9. DOMAIN s = 1 .. 1 /\ s = [i \in 1 .. 1 |-> s[i]] /\ s[1] = m  BY <2>8
  <2>10. IsSeq(s)  BY <2>9, IsSeqIf
  <2>11. Made(m, n)  BY <2>2 DEF Made
  <2> QED  BY <2>7, <2>9, <2>10, <2>11
<1> QED  BY <1>1, <1>2, <1>3

(* GptOssExpansion and DbrxExpansion: one name for every expert.           *)
ExpertRecord(n, kind, e) == [name |-> [n EXCEPT !.expert = e], kind |-> kind, of |-> n, expert |-> e, part |-> ""]

(* One member per expert, in the order of the experts.                     *)
LEMMA PerExpertIs ==
  ASSUME InputOK, NEW n \in Listed, NEW kind
  PROVE  /\ IsSeq(PerExpert(n, kind)) /\ DOMAIN PerExpert(n, kind) = 1 .. Conf(n).experts /\ Conf(n).experts \in Nat
         /\ \A k \in 1 .. Conf(n).experts : PerExpert(n, kind)[k] = ExpertRecord(n, kind, k - 1)
<1>1. PICK c \in Nat : c = Conf(n).experts  BY ListedName
<1>2. PICK s : s = PerExpert(n, kind)  OBVIOUS
<1>3. s = [i \in 1 .. c |-> ExpertRecord(n, kind, i - 1)]  BY <1>1, <1>2 DEF PerExpert, ExpertRecord
<1>4. DOMAIN s = 1 .. c /\ s = [i \in 1 .. c |-> s[i]] /\ \A i \in 1 .. c : s[i] = ExpertRecord(n, kind, i - 1)
      BY <1>3
<1>5. IsSeq(s)  BY <1>4, IsSeqIf
<1> QED  BY <1>1, <1>2, <1>4, <1>5

(* A name that is not expanded is its own only part.                       *)
LEMMA RawIs == ASSUME NEW n PROVE IsSeq(<<Raw(n)>>) /\ \A k \in DOMAIN <<Raw(n)>> : <<Raw(n)>>[k] = Raw(n)
<1>1. PICK s : s = <<Raw(n)>>  OBVIOUS
<1>2. DOMAIN s = 1 .. 1 /\ s = [i \in 1 .. 1 |-> s[i]] /\ s[1] = Raw(n)  BY <1>1
<1>3. IsSeq(s)  BY <1>2, IsSeqIf
<1> QED  BY <1>1, <1>2, <1>3

(* What GptOssExpansion makes of a name is described by where it came      *)
(* from,                                                                   *)
LEMMA GptOssMade ==
  ASSUME InputOK, ~GptOssRaises, NEW n \in ToSet(names), GptOssExpands(n) => n \in Listed
  PROVE  IsSeq(GptOssOf(n)) /\ \A k \in DOMAIN GptOssOf(n) : Made(GptOssOf(n)[k], n)
<1>1. CASE GptOssExpands(n)
  <2>1. GptOssOf(n) = PerExpert(n, "gpt_oss")  BY <1>1 DEF GptOssOf
  <2>2. PICK c \in Nat : c = Conf(n).experts  BY <1>1, ListedName
  <2>3. /\ IsSeq(GptOssOf(n)) /\ DOMAIN GptOssOf(n) = 1 .. c
        /\ \A k \in 1 .. c : GptOssOf(n)[k] = ExpertRecord(n, "gpt_oss", k - 1)
        BY <1>1, <2>1, <2>2, PerExpertIs
  <2>4. ASSUME NEW k \in 1 .. c PROVE Made(GptOssOf(n)[k], n)
    <3>1. PICK m : m = ExpertRecord(n, "gpt_oss", k - 1)  OBVIOUS
    <3>2. m.kind = "gpt_oss" /\ m.of = n /\ m.expert = k - 1 /\ m.name = [n EXCEPT !.expert = k - 1]
          BY <3>1 DEF ExpertRecord
    <3>3. k - 1 \in 0 .. c - 1  OBVIOUS
    <3>4. Source(n).shape[1] = Conf(n).experts  BY <1>1 DEF GptOssRaises
    <3>5. GptOssName(m.name, m)  BY <1>1, <2>2, <3>2, <3>3, <3>4 DEF GptOssName
    <3> QED  BY <2>3, <3>1, <3>2, <3>5 DEF Made, Virtual
  <2> QED  BY <2>3, <2>4
<1>2. CASE ~GptOssExpands(n)
  <2>1. GptOssOf(n) = <<Raw(n)>>  BY <1>2 DEF GptOssOf, Raw
  <2> QED  BY <2>1, RawIs DEF Made
<1> QED  BY <1>1, <1>2

(* and what DbrxExpansion makes.                                           *)
LEMMA DbrxMade ==
  ASSUME InputOK, ~DbrxRaises, NEW n \in ToSet(names), DbrxExpands(n) => n \in Listed
  PROVE  IsSeq(DbrxOf(n)) /\ \A k \in DOMAIN DbrxOf(n) : Made(DbrxOf(n)[k], n)
<1>1. CASE DbrxExpands(n)
  <2>1. DbrxOf(n) = PerExpert(n, "dbrx")  BY <1>1 DEF DbrxOf
  <2>2. PICK c \in Nat : c = Conf(n).experts  BY <1>1, ListedName
  <2>3. /\ IsSeq(DbrxOf(n)) /\ DOMAIN DbrxOf(n) = 1 .. c
        /\ \A k \in 1 .. c : DbrxOf(n)[k] = ExpertRecord(n, "dbrx", k - 1)
        BY <1>1, <2>1, <2>2, PerExpertIs
  <2>4. ASSUME NEW k \in 1 .. c PROVE Made(DbrxOf(n)[k], n)
    <3>1. PICK m : m = ExpertRecord(n, "dbrx", k - 1)  OBVIOUS
    <3>2. m.kind = "dbrx" /\ m.of = n /\ m.expert = k - 1 /\ m.name = [n EXCEPT !.expert = k - 1]
          BY <3>1 DEF ExpertRecord
    <3>3. k - 1 \in 0 .. c - 1  OBVIOUS
    <3>4. Source(n).shape[1] % Conf(n).experts = 0  BY <1>1 DEF DbrxRaises
    <3>5. DbrxName(m.name, m)  BY <1>1, <2>2, <3>2, <3>3, <3>4 DEF DbrxName
    <3> QED  BY <2>3, <3>1, <3>2, <3>5 DEF Made, Virtual
  <2> QED  BY <2>3, <2>4
<1>2. CASE ~DbrxExpands(n)
  <2>1. DbrxOf(n) = <<Raw(n)>>  BY <1>2 DEF DbrxOf, Raw
  <2> QED  BY <2>1, RawIs DEF Made
<1> QED  BY <1>1, <1>2
-----------------------------------------------------------------------------
(* The steps that leave the inputs alone leave what is read from them.     *)
LEMMA FrozenRoot ==
  ASSUME root' = root, at' = at
  PROVE  /\ Listed' = Listed
         /\ \A n : Conf(n)' = Conf(n) /\ Source(n)' = Source(n) /\ SourceLoad(n)' = SourceLoad(n)
         /\ \A n : (Mixtral(n)' <=> Mixtral(n)) /\ (IsExpert(n)' <=> IsExpert(n))
         /\ \A n : Rank(n)' = Rank(n) /\ (Quantizes(n)' <=> Quantizes(n))
         /\ (Pipeline' <=> Pipeline)
<1>1. Listed' = Listed  BY DEF Listed
<1>2. ASSUME NEW n PROVE Conf(n)' = Conf(n)  BY DEF Conf
<1>3. ASSUME NEW n PROVE Source(n)' = Source(n)  BY <1>2 DEF Source
<1>4. ASSUME NEW n PROVE SourceLoad(n)' = SourceLoad(n)  BY <1>3 DEF SourceLoad
<1>5. ASSUME NEW n PROVE Mixtral(n)' <=> Mixtral(n)  BY <1>2 DEF Mixtral
<1>6. Pipeline' <=> Pipeline  BY DEF Pipeline
<1>7. ASSUME NEW n PROVE IsExpert(n)' <=> IsExpert(n)  BY <1>6 DEF IsExpert
<1>8. ASSUME NEW n PROVE Rank(n)' = Rank(n)  BY <1>2 DEF Rank
<1>9. ASSUME NEW n PROVE Quantizes(n)' <=> Quantizes(n)  BY <1>7, <1>8 DEF Quantizes
<1> QED  BY <1>1, <1>2, <1>3, <1>4, <1>5, <1>6, <1>7, <1>8, <1>9

(* While the input stays, so does what a virtual name may be,              *)
LEMMA FrozenVirtual ==
  ASSUME root' = root, at' = at
  PROVE  \A x, v : Virtual(x, v)' <=> Virtual(x, v)
<1>1. Listed' = Listed /\ \A n : Conf(n)' = Conf(n) /\ Source(n)' = Source(n) /\ (Mixtral(n)' <=> Mixtral(n))
      BY FrozenRoot
<1> SUFFICES ASSUME NEW x, NEW v PROVE Virtual(x, v)' <=> Virtual(x, v)  OBVIOUS
<1>2. V5Expands(v.of)' <=> V5Expands(v.of)  BY <1>1 DEF V5Expands
<1>3. GptOssExpands(v.of)' <=> GptOssExpands(v.of)  BY <1>1 DEF GptOssExpands
<1>4. DbrxExpands(v.of)' <=> DbrxExpands(v.of)  BY <1>1 DEF DbrxExpands
<1>5. V5Member(v.of, v.expert, v.part)' = V5Member(v.of, v.expert, v.part)
  <2>1. V5Field(v.of, v.part)' = V5Field(v.of, v.part)  BY <1>1 DEF V5Field
  <2> QED  BY <1>1, <2>1 DEF V5Member, OutBlock
<1>6. V5Name(x, v)' <=> V5Name(x, v)  BY <1>1, <1>2, <1>5 DEF V5Name, PartOf
<1>7. RenamedName(x, v)' <=> RenamedName(x, v)  BY <1>1 DEF RenamedName
<1>8. GptOssName(x, v)' <=> GptOssName(x, v)  BY <1>1, <1>3 DEF GptOssName
<1>9. DbrxName(x, v)' <=> DbrxName(x, v)  BY <1>1, <1>4 DEF DbrxName
<1> QED  BY <1>6, <1>7, <1>8, <1>9 DEF Virtual

(* What load returns for a member.                                         *)
Value(n) ==
  IF Pipeline THEN SourceLoad(n)
  ELSE IF WeightOf(n) \notin weights THEN Cast(n, RawLoad(n))
  ELSE IF n = WeightOf(n) THEN Quant(RawLoad(WeightOf(n))).weight
  ELSE Quant(RawLoad(WeightOf(n))).scale

(* and, with the passes done, what is announced and loaded,                *)
LEMMA FrozenLoad ==
  ASSUME root' = root, at' = at, mode' = mode, virtual' = virtual
  PROVE  /\ \A n : RawSpec(n)' = RawSpec(n) /\ RawLoad(n)' = RawLoad(n)
         /\ \A n, t : Cast(n, t)' = Cast(n, t)
         /\ \A t : Quant(t)' = Quant(t)
         /\ \A n : QuantSpec(n)' = QuantSpec(n) /\ WeightOf(n)' = WeightOf(n) /\ ScaleOf(n)' = ScaleOf(n)
<1>1. \A n : Conf(n)' = Conf(n) /\ Source(n)' = Source(n) /\ SourceLoad(n)' = SourceLoad(n)  BY FrozenRoot
<1>2. \A n, s : DbrxShape(n, s)' = DbrxShape(n, s)  BY <1>1 DEF DbrxShape
<1>3. \A n, v, t : DbrxLoad(n, v, t)' = DbrxLoad(n, v, t)  BY <1>1, <1>2 DEF DbrxLoad
<1>4. \A n : RawSpec(n)' = RawSpec(n)  BY <1>1, <1>2 DEF RawSpec
<1>5. \A n : RawLoad(n)' = RawLoad(n)  BY <1>1, <1>3 DEF RawLoad
<1>6. ASSUME NEW n, NEW t PROVE Cast(n, t)' = Cast(n, t)
  <2>1. KeepsRaw(n, t.dtype)' <=> KeepsRaw(n, t.dtype)  BY <1>1 DEF KeepsRaw
  <2> QED  BY <2>1 DEF Cast
<1>7. \A t : Quant(t)' = Quant(t)  BY DEF Quant
<1>8. ScaleAux' = ScaleAux  BY DEF ScaleAux
<1>9. \A n : WeightOf(n)' = WeightOf(n) /\ ScaleOf(n)' = ScaleOf(n)  BY <1>8 DEF WeightOf, ScaleOf
<1>10. \A n : QuantSpec(n)' = QuantSpec(n)  BY <1>4, <1>8, <1>9 DEF QuantSpec
<1> QED  BY <1>4, <1>5, <1>6, <1>7, <1>9, <1>10

(* planned and written.                                                    *)
LEMMA FrozenValue ==
  ASSUME root' = root, at' = at, mode' = mode, virtual' = virtual, weights' = weights
  PROVE  \A n : SpecOf(n)' = SpecOf(n) /\ Value(n)' = Value(n)
<1> SUFFICES ASSUME NEW n PROVE SpecOf(n)' = SpecOf(n) /\ Value(n)' = Value(n)  OBVIOUS
<1>1. Source(n)' = Source(n) /\ SourceLoad(n)' = SourceLoad(n) /\ (Pipeline' <=> Pipeline)  BY FrozenRoot
<1>2. RawSpec(n)' = RawSpec(n) /\ RawLoad(n)' = RawLoad(n) /\ WeightOf(n)' = WeightOf(n) /\ QuantSpec(n)' = QuantSpec(n)
      BY FrozenLoad
<1>3. Cast(n, RawSpec(n))' = Cast(n, RawSpec(n))
  <2>1. PICK t : t = RawSpec(n)  OBVIOUS
  <2>2. KeepsRaw(n, t.dtype)' <=> KeepsRaw(n, t.dtype)  BY FrozenRoot DEF KeepsRaw
  <2>3. (RawSpec(n)').dtype = t.dtype  BY <1>2, <2>1
  <2> QED  BY <1>2, <2>1, <2>2 DEF Cast
<1>4. Cast(n, RawLoad(n))' = Cast(n, RawLoad(n))
  <2>1. PICK t : t = RawLoad(n)  OBVIOUS
  <2>2. KeepsRaw(n, t.dtype)' <=> KeepsRaw(n, t.dtype)  BY FrozenRoot DEF KeepsRaw
  <2> QED  BY <1>2, <2>1, <2>2 DEF Cast
<1>5. Quant(RawLoad(WeightOf(n)))' = Quant(RawLoad(WeightOf(n)))
  <2>1. PICK w : w = WeightOf(n)  OBVIOUS
  <2>2. RawLoad(w)' = RawLoad(w)  BY FrozenLoad
  <2>3. RawLoad(WeightOf(n))' = RawLoad(WeightOf(n))  BY <1>2, <2>1, <2>2
  <2> QED  BY <2>3 DEF Quant
<1>6. SpecOf(n)' = SpecOf(n)  BY <1>1, <1>2, <1>3 DEF SpecOf
<1>7. Value(n)' = Value(n)  BY <1>1, <1>2, <1>4, <1>5 DEF Value
<1> QED  BY <1>6, <1>7
-----------------------------------------------------------------------------
(* The slot tables are sequences, so the rank of a member is a number.     *)
LEMMA SlotTableType == ASSUME NEW a PROVE IsSeq(SlotTable(a))
<1>1. IsSeq(<<"w1", "w2", "w3">>) /\ IsSeq(<<"w1", "v1", "w2">>) /\ IsSeq(<<"gate_proj", "up_proj", "down_proj">>)
      /\ IsSeq(<<>>) /\ IsSeq(PackedFields)
  <2>1. ASSUME NEW x, NEW y, NEW z PROVE IsSeq(<<x, y, z>>)
    <3>1. PICK X : X = {x, y, z}  OBVIOUS
    <3>2. x \in X /\ y \in X /\ z \in X  BY <3>1
    <3>3. <<x, y, z>> \in Seq(X)  BY <3>2
    <3> QED  BY <3>3, IsSeqOver
  <2>2. IsSeq(<<>>)
    <3>1. <<>> \in Seq(Nat)  OBVIOUS
    <3> QED  BY <3>1, IsSeqOver
  <2>3. IsSeq(PackedFields)
    <3>1. PICK X : X = {"gate_up_proj_blocks", "gate_up_proj_scales", "gate_up_proj_bias",
                        "down_proj_blocks", "down_proj_scales", "down_proj_bias"}  OBVIOUS
    <3>2. PackedFields \in Seq(X)  BY <3>1 DEF PackedFields
    <3> QED  BY <3>2, IsSeqOver
  <2> QED  BY <2>1, <2>2, <2>3
<1>2. CASE a = "mixtral"
  <2>1. a # "gpt_oss" /\ a # "dbrx" /\ a \notin {"qwen3", "glm"}  BY <1>2
  <2> QED  BY <1>1, <1>2, <2>1, Zenon DEF SlotTable
<1>3. CASE a = "gpt_oss"
  <2>1. a # "mixtral" /\ a # "dbrx" /\ a \notin {"qwen3", "glm"}  BY <1>3
  <2> QED  BY <1>1, <1>3, <2>1, Zenon DEF SlotTable
<1>4. CASE a = "dbrx"
  <2>1. a # "mixtral" /\ a # "gpt_oss" /\ a \notin {"qwen3", "glm"}  BY <1>4
  <2> QED  BY <1>1, <1>4, <2>1, Zenon DEF SlotTable
<1>5. CASE a \in {"qwen3", "glm"}
  <2>1. a # "mixtral" /\ a # "gpt_oss" /\ a # "dbrx"  BY <1>5
  <2> QED  BY <1>1, <1>5, <2>1, Zenon DEF SlotTable
<1>6. CASE a # "mixtral" /\ a # "gpt_oss" /\ a # "dbrx" /\ a \notin {"qwen3", "glm"}
  <2> QED  BY <1>1, <1>6, Zenon DEF SlotTable
<1> QED  BY <1>2, <1>3, <1>4, <1>5, <1>6

(* A rank is a number.                                                     *)
LEMMA RankType == ASSUME NEW n PROVE Rank(n) \in Nat
<1>1. ASSUME NEW table, IsSeq(table), NEW field PROVE SlotIn(table, field) \in Nat
  <2>1. CASE field \in ToSet(table)
    <3>1. \E r \in DOMAIN table : table[r] = field  BY <2>1 DEF ToSet
    <3>2. SlotIn(table, field) \in DOMAIN table  BY <2>1, <3>1 DEF SlotIn
    <3>3. DOMAIN table = 1 .. Len(table) /\ Len(table) \in Nat  BY <1>1, SeqEntries
    <3> QED  BY <3>2, <3>3
  <2> QED  BY <2>1 DEF SlotIn
<1> QED  BY <1>1, SlotTableType DEF Rank

(* The place of a name in the plan is four numbers, the last its own.      *)
Named == IsSeq(names) /\ \A x \in ToSet(names) : x.expert \in Int
(* A place is four numbers, the last its index.                            *)
LEMMA PlaceType ==
  ASSUME Named, NEW i \in DOMAIN names
  PROVE  \E a, b, c \in Int : Place(i) = <<a, b, c, i>>
<1>1. PICK n : n = names[i]  OBVIOUS
<1>2. n \in ToSet(names) /\ n.expert \in Int  BY <1>1, SeqEntries DEF Named
<1>3. DOMAIN names \subseteq Nat /\ \A k \in DOMAIN names : k \in 1 .. Len(names)
      BY SeqEntries DEF Named
<1> DEFINE T == {k \in DOMAIN names : Stage(names[k]) = Stage(n)}
<1>4. PICK k \in T : \A j \in T : k <= j
  <2>1. i \in T /\ T \subseteq Nat  BY <1>1, <1>3
  <2> QED  BY <2>1, LeastNat
<1>5. Stage(names[k]) = Stage(n) /\ \A j \in 1 .. k - 1 : Stage(names[j]) # Stage(n)
  <2>1. \A j \in 1 .. k - 1 : j \in DOMAIN names /\ ~ (k <= j)  BY <1>3, SeqEntries DEF Named
  <2> QED  BY <1>4, <2>1
<1>6. PICK first \in DOMAIN names : first = CHOOSE h \in DOMAIN names :
        Stage(names[h]) = Stage(n) /\ \A j \in 1 .. h - 1 : Stage(names[j]) # Stage(n)
      BY <1>5
<1>7. PICK b : b = IF IsExpert(n) THEN n.expert ELSE 0  OBVIOUS
<1>8. PICK c : c = IF Ranked(n) THEN Rank(n) ELSE 0  OBVIOUS
<1>9. first \in Int /\ b \in Int /\ c \in Int  BY <1>2, <1>3, <1>6, <1>7, <1>8, RankType
<1>10. Place(i) = <<first, b, c, i>>  BY <1>1, <1>6, <1>7, <1>8 DEF Place
<1> QED  BY <1>9, <1>10

(* One place is before another by the first number that differs.           *)
LexLess(p, q) ==
  \/ p[1] < q[1]
  \/ p[1] = q[1] /\ p[2] < q[2]
  \/ p[1] = q[1] /\ p[2] = q[2] /\ p[3] < q[3]
  \/ p[1] = q[1] /\ p[2] = q[2] /\ p[3] = q[3] /\ p[4] < q[4]
(* The order of the plan is lexicographic.                                 *)
LEMMA BeforeIs ==
  ASSUME NEW i, NEW j
  PROVE  Before(i, j) <=> LexLess(Place(i), Place(j))
<1>1. PICK p : p = Place(i)  OBVIOUS
<1>2. PICK q : q = Place(j)  OBVIOUS
<1>4. Before(i, j) <=> \E k \in 1 .. 4 : p[k] < q[k] /\ \A l \in 1 .. k - 1 : p[l] = q[l]
      BY <1>1, <1>2 DEF Before
<1>5. /\ \A l \in 1 .. 1 - 1 : p[l] = q[l]
      /\ (\A l \in 1 .. 2 - 1 : p[l] = q[l]) <=> p[1] = q[1]
      /\ (\A l \in 1 .. 3 - 1 : p[l] = q[l]) <=> p[1] = q[1] /\ p[2] = q[2]
      /\ (\A l \in 1 .. 4 - 1 : p[l] = q[l]) <=> p[1] = q[1] /\ p[2] = q[2] /\ p[3] = q[3]
  <2>1. 1 .. 1 - 1 = {} /\ 1 .. 2 - 1 = {1} /\ 1 .. 3 - 1 = {1, 2} /\ 1 .. 4 - 1 = {1, 2, 3}  OBVIOUS
  <2> QED  BY <2>1, Zenon
<1>6. Before(i, j) <=>
        \/ p[1] < q[1]
        \/ p[2] < q[2] /\ p[1] = q[1]
        \/ p[3] < q[3] /\ p[1] = q[1] /\ p[2] = q[2]
        \/ p[4] < q[4] /\ p[1] = q[1] /\ p[2] = q[2] /\ p[3] = q[3]
  <2>1. 1 .. 4 = {1, 2, 3, 4}  OBVIOUS
  <2>2. Before(i, j) <=> \E k \in {1, 2, 3, 4} : p[k] < q[k] /\ \A l \in 1 .. k - 1 : p[l] = q[l]
        BY <1>4, <2>1
  <2> QED  BY <1>5, <2>2, Zenon
<1> QED  BY <1>1, <1>2, <1>6, Zenon DEF LexLess

(* The same, with the numbers named.                                       *)
LEMMA PlaceInts ==
  ASSUME Named, NEW i \in DOMAIN names
  PROVE  \E a, b, c, p : /\ a \in Int /\ b \in Int /\ c \in Int /\ i \in Int
                         /\ p = Place(i) /\ p[1] = a /\ p[2] = b /\ p[3] = c /\ p[4] = i
<1>0. i \in Int  BY SeqEntries DEF Named
<1>1. PICK a, b, c \in Int : Place(i) = <<a, b, c, i>>  BY PlaceType
<1>2. PICK p : p = <<a, b, c, i>>  OBVIOUS
<1>3. p[1] = a /\ p[2] = b /\ p[3] = c /\ p[4] = i  BY <1>2
<1> QED  BY <1>0, <1>1, <1>2, <1>3

(* Before is a strict order in which any two names have their places.      *)
LEMMA BeforeOrders ==
  ASSUME Named, NEW i \in DOMAIN names, NEW j \in DOMAIN names
  PROVE  /\ ~Before(i, i)
         /\ i # j => Before(i, j) \/ Before(j, i)
         /\ \A k \in DOMAIN names : Before(i, j) /\ Before(j, k) => Before(i, k)
<1>1. PICK a, b, c, p : /\ a \in Int /\ b \in Int /\ c \in Int /\ i \in Int
                        /\ p = Place(i) /\ p[1] = a /\ p[2] = b /\ p[3] = c /\ p[4] = i
      BY PlaceInts
<1>2. PICK d, e, f, q : /\ d \in Int /\ e \in Int /\ f \in Int /\ j \in Int
                        /\ q = Place(j) /\ q[1] = d /\ q[2] = e /\ q[3] = f /\ q[4] = j
      BY PlaceInts
<1>3. ~Before(i, i)
  <2>1. Before(i, i) <=> LexLess(p, p)  BY <1>1, BeforeIs
  <2> QED  BY <1>1, <2>1 DEF LexLess
<1>4. Before(i, j) <=> LexLess(p, q)  BY <1>1, <1>2, BeforeIs
<1>5. Before(j, i) <=> LexLess(q, p)  BY <1>1, <1>2, BeforeIs
<1>6. i # j => Before(i, j) \/ Before(j, i)  BY <1>1, <1>2, <1>4, <1>5 DEF LexLess
<1>7. ASSUME NEW k \in DOMAIN names, Before(i, j), Before(j, k) PROVE Before(i, k)
  <2>1. PICK x, y, z, r : /\ x \in Int /\ y \in Int /\ z \in Int /\ k \in Int
                          /\ r = Place(k) /\ r[1] = x /\ r[2] = y /\ r[3] = z /\ r[4] = k
        BY PlaceInts
  <2>2. Before(j, k) <=> LexLess(q, r)  BY <1>2, <2>1, BeforeIs
  <2>3. Before(i, k) <=> LexLess(p, r)  BY <1>1, <2>1, BeforeIs
  <2>4. LexLess(p, q) /\ LexLess(q, r)  BY <1>4, <1>7, <2>2
  <2>5. LexLess(p, r)  BY <1>1, <1>2, <2>1, <2>4 DEF LexLess
  <2> QED  BY <2>3, <2>5
<1> QED  BY <1>3, <1>6, <1>7

(* How many names come before one.                                         *)
Earlier(j) == {i \in DOMAIN names : Before(i, j)}
(* There are finitely many earlier names, fewer than all.                  *)
LEMMA EarlierCount ==
  ASSUME Named, NEW j \in DOMAIN names
  PROVE  IsFiniteSet(Earlier(j)) /\ Cardinality(Earlier(j)) \in 0 .. Len(names) - 1
<1>1. PICK n \in Nat : n = Len(names) /\ DOMAIN names = 1 .. n  BY SeqEntries DEF Named
<1>2. IsFiniteSet(1 .. n) /\ Cardinality(1 .. n) = n
  <2>1. 1 \in Int /\ n \in Int /\ 1 .. n = 1 .. n  OBVIOUS
  <2>2. IsFiniteSet(1 .. n) /\ Cardinality(1 .. n) = IF 1 > n THEN 0 ELSE n - 1 + 1  BY FS_Interval
  <2> QED  BY <2>2
<1>3. Earlier(j) \subseteq (1 .. n) \ {j}
  <2>1. ~Before(j, j)  BY BeforeOrders
  <2> QED  BY <1>1, <2>1 DEF Earlier
<1>4. IsFiniteSet((1 .. n) \ {j}) /\ Cardinality((1 .. n) \ {j}) = n - 1
  <2>1. j \in 1 .. n  BY <1>1
  <2> QED  BY <1>2, <2>1, FS_RemoveElement
<1>5. IsFiniteSet(Earlier(j)) /\ Cardinality(Earlier(j)) <= n - 1  BY <1>3, <1>4, FS_Subset
<1>6. Cardinality(Earlier(j)) \in Nat  BY <1>5, FS_CardinalityType
<1>7. Cardinality(Earlier(j)) \in 0 .. n - 1  BY <1>5, <1>6
<1> QED  BY <1>1, <1>5, <1>7

(* A name before another has fewer before it,                              *)
LEMMA EarlierGrows ==
  ASSUME Named, NEW i \in DOMAIN names, NEW j \in DOMAIN names, Before(i, j)
  PROVE  Cardinality(Earlier(i)) < Cardinality(Earlier(j))
<1>1. i \notin Earlier(i)  BY BeforeOrders DEF Earlier
<1>2. Earlier(i) \cup {i} \subseteq Earlier(j)
  <2>1. ASSUME NEW h \in Earlier(i) PROVE h \in Earlier(j)
    <3>1. h \in DOMAIN names /\ Before(h, i)  BY DEF Earlier
    <3>2. Before(h, j)  BY <3>1, BeforeOrders
    <3> QED  BY <3>1, <3>2 DEF Earlier
  <2> QED  BY <2>1 DEF Earlier
<1>3. IsFiniteSet(Earlier(i)) /\ IsFiniteSet(Earlier(j))  BY EarlierCount
<1>4. IsFiniteSet(Earlier(i) \cup {i}) /\ Cardinality(Earlier(i) \cup {i}) = Cardinality(Earlier(i)) + 1
      BY <1>1, <1>3, FS_AddElement
<1>5. Cardinality(Earlier(i) \cup {i}) <= Cardinality(Earlier(j))  BY <1>2, <1>3, FS_Subset
<1>6. Cardinality(Earlier(i)) \in Nat /\ Cardinality(Earlier(j)) \in Nat  BY <1>3, FS_CardinalityType
<1> QED  BY <1>4, <1>5, <1>6

(* so no two have as many, and the plan has every name once.               *)
LEMMA PlanPermutes ==
  ASSUME Named
  PROVE  /\ \A k \in DOMAIN names : PlanOrder[k] \in DOMAIN names /\ Cardinality(Earlier(PlanOrder[k])) = k - 1
         /\ \A j \in DOMAIN names : \E k \in DOMAIN names : PlanOrder[k] = j
         /\ \A i, j \in DOMAIN names : Cardinality(Earlier(i)) = Cardinality(Earlier(j)) => i = j
<1>1. PICK n \in Nat : n = Len(names) /\ DOMAIN names = 1 .. n  BY SeqEntries DEF Named
<1>2. ASSUME NEW i \in 1 .. n, NEW j \in 1 .. n, Cardinality(Earlier(i)) = Cardinality(Earlier(j)) PROVE i = j
  <2>1. Cardinality(Earlier(i)) \in Int  BY <1>1, EarlierCount
  <2>2. ~Before(i, j) /\ ~Before(j, i)
    <3>1. ~ (Cardinality(Earlier(i)) < Cardinality(Earlier(i)))  BY <2>1
    <3> QED  BY <1>1, <1>2, <3>1, EarlierGrows
  <2> QED  BY <1>1, <2>2, BeforeOrders
<1> DEFINE p == [j \in 1 .. n |-> Cardinality(Earlier(j)) + 1]
<1>3. ASSUME NEW j \in 1 .. n PROVE p[j] \in 1 .. n
  <2>1. PICK c : c = Cardinality(Earlier(j))  OBVIOUS
  <2>2. c \in 0 .. n - 1  BY <1>1, <2>1, EarlierCount
  <2>3. c + 1 \in 1 .. n  BY <2>2
  <2> QED  BY <2>1, <2>3
<1>4. p \in [1 .. n -> 1 .. n]  BY <1>3
<1>5. \A i, j \in 1 .. n : p[i] = p[j] => i = j
  <2>1. ASSUME NEW i \in 1 .. n, NEW j \in 1 .. n, p[i] = p[j] PROVE i = j
    <3>1. PICK c : c = Cardinality(Earlier(i))  OBVIOUS
    <3>2. PICK d : d = Cardinality(Earlier(j))  OBVIOUS
    <3>3. c \in 0 .. n - 1 /\ d \in 0 .. n - 1  BY <1>1, <3>1, <3>2, EarlierCount
    <3>4. c + 1 = d + 1  BY <2>1, <3>1, <3>2
    <3>5. c = d  BY <3>3, <3>4
    <3> QED  BY <1>2, <3>1, <3>2, <3>5
  <2> QED  BY <2>1
<1>6. IsFiniteSet(1 .. n)  BY FS_Interval
<1>7. p \in Injection(1 .. n, 1 .. n)  BY <1>4, <1>5 DEF Injection, IsInjective
<1>8. p \in Surjection(1 .. n, 1 .. n)  BY <1>6, <1>7, FS_Injection
<1>9. ASSUME NEW k \in 1 .. n PROVE \E j \in 1 .. n : Cardinality(Earlier(j)) = k - 1
  <2>1. PICK j \in 1 .. n : p[j] = k  BY <1>8 DEF Surjection
  <2>2. PICK c : c = Cardinality(Earlier(j))  OBVIOUS
  <2>3. c \in 0 .. n - 1 /\ c + 1 = k  BY <1>1, <2>1, <2>2, EarlierCount
  <2>4. c = k - 1  BY <2>3
  <2> QED  BY <2>2, <2>4
<1>10. ASSUME NEW k \in 1 .. n PROVE PlanOrder[k] \in 1 .. n /\ Cardinality(Earlier(PlanOrder[k])) = k - 1
  <2>1. PlanOrder[k] = CHOOSE j \in 1 .. n : Cardinality({i \in 1 .. n : Before(i, j)}) = k - 1
        BY <1>1 DEF PlanOrder
  <2>2. PlanOrder[k] = CHOOSE j \in 1 .. n : Cardinality(Earlier(j)) = k - 1  BY <1>1, <2>1 DEF Earlier
  <2> QED  BY <1>9, <2>2
<1>11. ASSUME NEW j \in 1 .. n PROVE \E k \in 1 .. n : PlanOrder[k] = j
  <2>1. PICK c : c = Cardinality(Earlier(j))  OBVIOUS
  <2>2. c \in 0 .. n - 1  BY <1>1, <2>1, EarlierCount
  <2>3. PICK k \in 1 .. n : k = c + 1  BY <2>2
  <2>4. k - 1 = c  BY <2>2, <2>3
  <2>5. PlanOrder[k] \in 1 .. n /\ Cardinality(Earlier(PlanOrder[k])) = Cardinality(Earlier(j))
        BY <1>10, <2>1, <2>4
  <2>6. PlanOrder[k] = j  BY <1>2, <2>5
  <2> QED  BY <2>6
<1> QED  BY <1>1, <1>2, <1>10, <1>11
-----------------------------------------------------------------------------
(* The inductive invariant, in parts.  Where the conversion is,            *)
Early == {"resolve", "v5", "gpt_oss", "dbrx", "prepare"}
StepInv ==
  /\ InputOK
  /\ step \in Early \cup {"plan", "write", "done", "raised"}
  /\ step = "resolve" => at = {} /\ names = <<>>
  /\ step \in {"resolve", "v5"} => virtual = <<>>
  /\ step \in {"v5", "gpt_oss", "dbrx", "prepare"} => (\E d : at = {d}) /\ mode \in {"none", "fp8", "fp4"}
  /\ step = "prepare" => mode # "none"
  /\ weights # {} => mode \in {"fp8", "fp4"} /\ ~Pipeline
  /\ step \in Early => weights = {}
  /\ step \in Early \cup {"plan"} => plan = <<>> /\ store = <<>> /\ cache = <<>> /\ quantized = <<>>
(* where its names come from,                                              *)
NamesInv ==
  /\ IsSeq(names)
  /\ \A x \in ToSet(names) : x \in Listed \/ x \in DOMAIN virtual \/ \E w \in weights : x = ScaleOf(w)
  /\ \A x \in DOMAIN virtual : Virtual(x, virtual[x])
(* what is quantized,                                                      *)
WeightsInv ==
  \A w \in weights :
    /\ w \in Listed \/ w \in DOMAIN virtual
    /\ Quantizes(w) /\ Len(RawSpec(w).shape) = 2 /\ (mode = "fp4" => RawSpec(w).shape[2] % Fp4Block = 0)
(* that the plan is the one the specs give, the store what load returns    *)
(* for the members planned, and the cache what the quantizer returned.     *)
PlanInv == IsSeq(plan) /\ \A i \in DOMAIN plan : plan[i].name \in ToSet(names) /\ plan[i] = SpecOf(plan[i].name)
Stored(i) ==
  LET n == plan[i].name
      t == Value(n)
  IN  /\ store[i] = [name |-> n, rows |-> t.rows, shape |-> t.shape, dtype |-> t.dtype]
      /\ Bytes(t) = Bytes(plan[i])
StoreInv == IsSeq(store) /\ Len(store) <= Len(plan) /\ \A i \in DOMAIN store : Stored(i)
CacheInv == DOMAIN cache \subseteq weights /\ \A w \in DOMAIN cache : cache[w] = Quant(RawLoad(w))
ConvertInv == StepInv /\ NamesInv /\ WeightsInv /\ PlanInv /\ StoreInv /\ CacheInv

(* A name is a record with a number for its expert.                        *)
LEMMA NameType ==
  ASSUME StepInv, NamesInv, WeightsInv, NEW x \in ToSet(names)
  PROVE  IsName(x) /\ x.expert \in Int /\ x.at \in at
<1>0. InputOK  BY DEF StepInv
<1>1. ASSUME NEW y, y \in Listed \/ y \in DOMAIN virtual PROVE IsName(y) /\ y.expert \in Int /\ y.at \in at
  <2>1. CASE y \in Listed
    <3>1. IsName(y) /\ y.expert \in Nat \cup {Fused, NoExpert} /\ y.at \in at  BY <1>0, <2>1, ListedName, ListedSource
    <3> QED  BY <3>1 DEF Fused, NoExpert
  <2>2. CASE y \in DOMAIN virtual
    <3>1. PICK v : v = virtual[y]  OBVIOUS
    <3>2. Virtual(y, v)  BY <2>2, <3>1 DEF NamesInv
    <3>3. /\ v.of \in Listed /\ IsName(y) /\ y.at = v.of.at /\ v.kind \in {"v5", "renamed", "gpt_oss", "dbrx"}
          /\ v.kind \in {"v5", "gpt_oss", "dbrx"} => y.expert \in Nat
          /\ v.kind = "renamed" => y.expert = v.of.expert
          BY <1>0, <3>2, VirtualFields
    <3>4. v.of.expert \in Nat \cup {Fused, NoExpert} /\ v.of.at \in at  BY <1>0, <3>3, ListedName, ListedSource
    <3> QED  BY <3>3, <3>4 DEF Fused, NoExpert
  <2> QED  BY <1>1, <2>1, <2>2
<1>2. CASE x \in Listed \/ x \in DOMAIN virtual  BY <1>1, <1>2
<1>3. CASE \E w \in weights : x = ScaleOf(w)
  <2>1. PICK w \in weights : x = ScaleOf(w)  BY <1>3
  <2>2. IsName(w) /\ w.expert \in Int /\ w.at \in at  BY <1>1 DEF WeightsInv
  <2>3. PICK a : a = ScaleAux  OBVIOUS
  <2>4. x = Changed(w, w.block, w.expert, w.field, a)  BY <2>1, <2>2, <2>3, ChangedAux DEF ScaleOf
  <2> QED  BY <2>2, <2>4, ChangedFields
<1> QED  BY <1>2, <1>3 DEF NamesInv

(* The names can be ranked.                                                *)
LEMMA NamedOK == StepInv /\ NamesInv /\ WeightsInv => Named
BY NameType DEF Named, NamesInv

(* The invariant holds at first,                                           *)
LEMMA ConvertInitInv == ConvertInit => ConvertInv
<1> SUFFICES ASSUME ConvertInit PROVE ConvertInv  OBVIOUS
<1> USE DEF ConvertInit
<1>1. IsSeq(<<>>)
  <2>1. <<>> \in Seq(Nat)  OBVIOUS
  <2> QED  BY <2>1, IsSeqOver
<1>2. DOMAIN <<>> = {} /\ ToSet(<<>>) = {} /\ Len(<<>>) = 0  BY DEF ToSet
<1>3. StepInv  BY DEF StepInv, Early, InputOK
<1>4. NamesInv  BY <1>1, <1>2 DEF NamesInv
<1>5. WeightsInv /\ PlanInv /\ StoreInv /\ CacheInv  BY <1>1, <1>2 DEF WeightsInv, PlanInv, StoreInv, CacheInv
<1> QED  BY <1>3, <1>4, <1>5 DEF ConvertInv

(* and is kept where only the step changes,                                *)
LEMMA SameParts ==
  ASSUME ConvertInv, root' = root, mode' = mode, at' = at, names' = names, virtual' = virtual,
         weights' = weights, plan' = plan
  PROVE  /\ InputOK' /\ NamesInv' /\ WeightsInv' /\ PlanInv'
         /\ store' = store => StoreInv'
         /\ cache' = cache => CacheInv'
<1>1. InputOK'  BY DEF ConvertInv, StepInv, InputOK
<1>2. /\ Listed' = Listed
      /\ \A n : (Quantizes(n)' <=> Quantizes(n)) /\ RawSpec(n)' = RawSpec(n) /\ RawLoad(n)' = RawLoad(n)
      /\ \A n : ScaleOf(n)' = ScaleOf(n)
      BY FrozenRoot, FrozenLoad
<1>3. \A x, v : Virtual(x, v)' <=> Virtual(x, v)  BY FrozenVirtual
<1>4. \A n : SpecOf(n)' = SpecOf(n) /\ Value(n)' = Value(n)  BY FrozenValue
<1>5. NamesInv'
  <2>1. NamesInv  BY DEF ConvertInv
  <2>2. \A x \in DOMAIN virtual : Virtual(x, virtual[x])'
    <3>1. ASSUME NEW x \in DOMAIN virtual PROVE Virtual(x, virtual[x])'
      <4>1. PICK v : v = virtual[x]  OBVIOUS
      <4>2. Virtual(x, v)'  BY <1>3, <2>1, <4>1 DEF NamesInv
      <4>3. virtual'[x] = v  BY <4>1
      <4> QED  BY <4>2, <4>3
    <3> QED  BY <3>1
  <2> QED  BY <1>2, <2>1, <2>2 DEF NamesInv
<1>6. WeightsInv'  BY <1>2 DEF ConvertInv, WeightsInv
<1>7. PlanInv'
  <2>1. PlanInv  BY DEF ConvertInv
  <2>2. ASSUME NEW i \in DOMAIN plan PROVE plan'[i] = SpecOf(plan[i].name)'
    <3>1. PICK n : n = plan[i].name  OBVIOUS
    <3>2. SpecOf(n)' = SpecOf(n) /\ plan[i] = SpecOf(n) /\ plan'[i].name = n  BY <1>4, <2>1, <3>1 DEF PlanInv
    <3> QED  BY <3>1, <3>2
  <2> QED  BY <2>1, <2>2 DEF PlanInv
<1>8. ASSUME store' = store PROVE StoreInv'
  <2>1. StoreInv  BY DEF ConvertInv
  <2>2. ASSUME NEW i \in DOMAIN store PROVE Stored(i)'
    <3>1. PICK n : n = plan[i].name  OBVIOUS
    <3>2. PICK t : t = Value(n)  OBVIOUS
    <3>3. Value(n)' = t  BY <1>4, <3>2
    <3>4. Value(plan[i].name)' = t  BY <3>1, <3>3
    <3>5. Stored(i)  BY <2>1 DEF StoreInv
    <3> QED  BY <1>8, <3>1, <3>2, <3>4, <3>5 DEF Stored
  <2> QED  BY <1>8, <2>1, <2>2 DEF StoreInv
<1>9. ASSUME cache' = cache PROVE CacheInv'
  <2>1. CacheInv  BY DEF ConvertInv
  <2>2. ASSUME NEW w \in DOMAIN cache PROVE cache'[w] = Quant(RawLoad(w))'
    <3>1. PICK t : t = RawLoad(w)  OBVIOUS
    <3>2. RawLoad(w)' = t  BY <1>2, <3>1
    <3>3. Quant(RawLoad(w))' = Quant(t)  BY <3>2 DEF Quant
    <3> QED  BY <1>9, <2>1, <3>1, <3>3 DEF CacheInv
  <2> QED  BY <1>9, <2>1, <2>2 DEF CacheInv
<1> QED  BY <1>1, <1>5, <1>6, <1>7, <1>8, <1>9
-----------------------------------------------------------------------------
(* The names of the directories opened are those their indices list.       *)
NameList(d) == [k \in DOMAIN root.dirs[d].tensors |-> root.dirs[d].tensors[k].name]
(* Opening directories lists the names of their tensors, each once.        *)
LEMMA OpenNames ==
  ASSUME root \in Roots, NEW dirs, dirs \subseteq DOMAIN root.dirs, Open(dirs)
  PROVE  /\ IsSeq(names')
         /\ ToSet(names') = UNION {{t.name : t \in ToSet(root.dirs[d].tensors)} : d \in dirs}
         /\ \A i, j \in DOMAIN names' : names'[i] = names'[j] => i = j
<1>1. IsFiniteSet(dirs)
  <2>1. IsFiniteSet(DOMAIN root.dirs)  BY CheckpointsAssumption
  <2> QED  BY <2>1, FS_Subset
<1>2. PICK c \in Nat : c = Cardinality(dirs) /\ ExistsBijection(1 .. c, dirs)  BY <1>1, FS_CardinalityType
<1>3. PICK order : order = SetToSeq(dirs)  OBVIOUS
<1>4. order \in [1 .. c -> dirs] /\ (\A a, b \in 1 .. c : order[a] = order[b] => a = b)
      /\ \A d \in dirs : \E a \in 1 .. c : order[a] = d
  <2>1. \E f \in [1 .. c -> dirs] : IsInjective(f)
    <3>1. PICK f \in Bijection(1 .. c, dirs) : TRUE  BY <1>2 DEF ExistsBijection
    <3> QED  BY <3>1 DEF Bijection, Injection
  <2>2. order \in [1 .. c -> dirs] /\ IsInjective(order)  BY <1>2, <1>3, <2>1 DEF SetToSeq
  <2>3. order \in Injection(1 .. c, dirs)  BY <2>2 DEF Injection
  <2>4. IsFiniteSet(1 .. c) /\ Cardinality(1 .. c) = c
    <3>1. c \in Int /\ 1 \in Int  OBVIOUS
    <3>2. IsFiniteSet(1 .. c) /\ Cardinality(1 .. c) = IF 1 > c THEN 0 ELSE c - 1 + 1  BY <3>1, FS_Interval
    <3> QED  BY <3>2
  <2>5. order \in Surjection(1 .. c, dirs)  BY <1>1, <1>2, <2>3, <2>4, FS_Injection
  <2> QED  BY <2>2, <2>5 DEF IsInjective, Surjection
<1> DEFINE lists == [i \in 1 .. c |-> NameList(order[i])]
<1>5. names' = FlattenSeq(lists)
  <2>1. names' = FlattenSeq([i \in 1 .. Cardinality(dirs) |->
          [k \in DOMAIN root.dirs[SetToSeq(dirs)[i]].tensors |-> root.dirs[SetToSeq(dirs)[i]].tensors[k].name]])
        BY DEF Open
  <2> QED  BY <1>2, <1>3, <2>1 DEF NameList
<1>6. ASSUME NEW d \in dirs
      PROVE  /\ WellNamed(d, root.dirs[d]) /\ IsSeq(NameList(d)) /\ DOMAIN NameList(d) = DOMAIN root.dirs[d].tensors
             /\ \A k \in DOMAIN root.dirs[d].tensors :
                  /\ root.dirs[d].tensors[k] \in ToSet(root.dirs[d].tensors)
                  /\ NameList(d)[k] = root.dirs[d].tensors[k].name
             /\ \A h, k \in DOMAIN NameList(d) : NameList(d)[h] = NameList(d)[k] => h = k
             /\ \A k \in DOMAIN NameList(d) : NameList(d)[k].at = d
  <2>1. WellNamed(d, root.dirs[d])  BY CheckpointsAssumption
  <2>2. PICK ts : ts = root.dirs[d].tensors  OBVIOUS
  <2>3. IsSeq(ts) /\ \A i, j \in DOMAIN ts : ts[i].name = ts[j].name => i = j  BY <2>1, <2>2 DEF WellNamed, IsSeq
  <2>4. Len(ts) \in Nat /\ DOMAIN ts = 1 .. Len(ts) /\ \A k \in DOMAIN ts : ts[k] \in ToSet(ts)
        BY <2>3, SeqEntries
  <2>5. PICK l : l = NameList(d)  OBVIOUS
  <2>6. l = [k \in 1 .. Len(ts) |-> ts[k].name]  BY <2>2, <2>4, <2>5 DEF NameList
  <2>7. DOMAIN l = 1 .. Len(ts) /\ l = [k \in 1 .. Len(ts) |-> l[k]] /\ \A k \in 1 .. Len(ts) : l[k] = ts[k].name
        BY <2>6
  <2>8. IsSeq(l)  BY <2>4, <2>7, IsSeqIf
  <2>9. \A h, k \in DOMAIN l : l[h] = l[k] => h = k  BY <2>3, <2>4, <2>7
  <2>10. ASSUME NEW k \in DOMAIN l PROVE l[k].at = d
    <3>1. PICK t : t = ts[k]  OBVIOUS
    <3>2. t \in ToSet(ts)  BY <2>4, <2>7, <3>1
    <3>3. t.name = [at |-> d, block |-> t.name.block, layer |-> t.name.layer, expert |-> t.name.expert,
                    field |-> t.name.field, aux |-> t.name.aux]
          BY <2>1, <2>2, <3>2 DEF WellNamed
    <3>4. t.name.at = d  BY <3>3
    <3> QED  BY <2>7, <3>1, <3>4
  <2>11. WellNamed(d, root.dirs[d])  BY <2>1
  <2> QED  BY <2>2, <2>4, <2>5, <2>7, <2>8, <2>9, <2>10, <2>11
<1>7. IsSeqs(lists)
  <2>1. ASSUME NEW i \in 1 .. c PROVE IsSeq(lists[i])
    <3>1. order[i] \in dirs  BY <1>4
    <3> QED  BY <1>6, <3>1
  <2>2. DOMAIN lists = 1 .. c /\ lists = [i \in 1 .. c |-> lists[i]]  OBVIOUS
  <2> HIDE DEF lists
  <2> QED  BY <2>1, <2>2 DEF IsSeqs
<1>8. DOMAIN lists = 1 .. c /\ \A i \in 1 .. c : lists[i] = NameList(order[i])  OBVIOUS
<1> HIDE DEF lists
<1>9. /\ IsSeq(FlattenSeq(lists))
      /\ \A k \in DOMAIN FlattenSeq(lists) : \E i \in DOMAIN lists : \E j \in DOMAIN lists[i] :
           FlattenSeq(lists)[k] = lists[i][j]
      /\ \A i \in DOMAIN lists : \A j \in DOMAIN lists[i] : \E k \in DOMAIN FlattenSeq(lists) :
           FlattenSeq(lists)[k] = lists[i][j]
      BY <1>7, FlatEntries
<1>10. ToSet(names') = UNION {{t.name : t \in ToSet(root.dirs[d].tensors)} : d \in dirs}
  <2>1. ASSUME NEW x \in ToSet(names') PROVE \E d \in dirs : \E t \in ToSet(root.dirs[d].tensors) : x = t.name
    <3>1. PICK k \in DOMAIN names' : x = names'[k]  BY DEF ToSet
    <3>2. PICK i \in DOMAIN lists : \E j \in DOMAIN lists[i] : x = lists[i][j]  BY <1>5, <1>9, <3>1
    <3>3. PICK j \in DOMAIN lists[i] : x = lists[i][j]  BY <3>2
    <3>4. PICK d \in dirs : d = order[i]  BY <1>4, <1>8
    <3>5. j \in DOMAIN NameList(d) /\ x = NameList(d)[j]  BY <1>8, <3>3, <3>4
    <3> QED  BY <1>6, <3>5
  <2>2. ASSUME NEW d \in dirs, NEW t \in ToSet(root.dirs[d].tensors) PROVE t.name \in ToSet(names')
    <3>1. PICK k \in DOMAIN root.dirs[d].tensors : t = root.dirs[d].tensors[k]  BY DEF ToSet
    <3>2. k \in DOMAIN NameList(d) /\ NameList(d)[k] = t.name  BY <1>6, <3>1
    <3>3. PICK i \in 1 .. c : order[i] = d  BY <1>4
    <3>4. PICK h \in DOMAIN FlattenSeq(lists) : FlattenSeq(lists)[h] = t.name  BY <1>8, <1>9, <3>2, <3>3
    <3> QED  BY <1>5, <3>4 DEF ToSet
  <2> QED  BY <2>1, <2>2
<1>11. ASSUME NEW k \in DOMAIN names', NEW m \in DOMAIN names', names'[k] = names'[m] PROVE k = m
  <2>1. PICK X : X = EntriesOf(lists)  OBVIOUS
  <2>2. lists \in Seq(Seq(X))  BY <1>7, <2>1, SeqsType
  <2>3. \A h, i \in DOMAIN lists : \A j \in DOMAIN lists[h], l \in DOMAIN lists[i] :
          lists[h][j] = lists[i][l] => h = i /\ j = l
    <3>1. ASSUME NEW h \in DOMAIN lists, NEW i \in DOMAIN lists, NEW j \in DOMAIN lists[h], NEW l \in DOMAIN lists[i],
                 lists[h][j] = lists[i][l]
          PROVE  h = i /\ j = l
      <4>1. PICK d \in dirs : d = order[h]  BY <1>4, <1>8
      <4>2. PICK e \in dirs : e = order[i]  BY <1>4, <1>8
      <4>3. lists[h] = NameList(d) /\ lists[i] = NameList(e)  BY <1>8, <4>1, <4>2
      <4>4. lists[h][j].at = d /\ lists[i][l].at = e  BY <1>6, <4>3
      <4>5. d = e  BY <3>1, <4>4
      <4>6. h = i  BY <1>4, <1>8, <4>1, <4>2, <4>5
      <4>7. j = l  BY <1>6, <3>1, <4>3, <4>5
      <4> QED  BY <4>6, <4>7
    <3> QED  BY <3>1
  <2>4. k \in DOMAIN FlattenSeq(lists) /\ m \in DOMAIN FlattenSeq(lists) /\ FlattenSeq(lists)[k] = FlattenSeq(lists)[m]
        BY <1>5, <1>11
  <2> QED  BY <2>2, <2>3, <2>4, FlattenSeqInjective
<1> QED  BY <1>5, <1>9, <1>10, <1>11

(* Opening directories keeps the invariant.                                *)
LEMMA OpenKeeps ==
  ASSUME ConvertInv, step = "resolve", NEW dirs, dirs \subseteq DOMAIN root.dirs, Open(dirs), at' = dirs,
         \/ step' = "plan"
         \/ step' = "v5" /\ (\E d : dirs = {d}) /\ mode \in {"none", "fp8", "fp4"}
  PROVE  ConvertInv'
<1>1. /\ root \in Roots /\ InputOK /\ virtual = <<>> /\ weights = {} /\ plan = <<>> /\ store = <<>>
      /\ cache = <<>> /\ quantized = <<>>
      BY DEF ConvertInv, StepInv, InputOK, Early
<1>2. /\ root' = root /\ mode' = mode /\ virtual' = virtual /\ weights' = weights /\ plan' = plan
      /\ cache' = cache /\ quantized' = quantized /\ store' = store
      BY DEF Open, inputs
<1>3. IsSeq(names') /\ ToSet(names') = UNION {{t.name : t \in ToSet(root.dirs[d].tensors)} : d \in dirs}
      BY <1>1, OpenNames
<1>4. ToSet(names') = Listed'  BY <1>2, <1>3 DEF Listed
<1>5. DOMAIN <<>> = {} /\ Len(<<>>) = 0 /\ IsSeq(<<>>)
  <2>1. <<>> \in Seq(Nat)  OBVIOUS
  <2>2. IsSeq(<<>>)  BY <2>1, IsSeqOver
  <2> QED  BY <2>2
<1>6. StepInv'  BY <1>1, <1>2 DEF StepInv, Early, InputOK
<1>7. NamesInv'  BY <1>1, <1>2, <1>3, <1>4, <1>5 DEF NamesInv
<1>8. WeightsInv' /\ PlanInv' /\ StoreInv' /\ CacheInv'
      BY <1>1, <1>2, <1>5 DEF WeightsInv, PlanInv, StoreInv, CacheInv
<1> QED  BY <1>6, <1>7, <1>8 DEF ConvertInv

(* A pipeline opens its components,                                        *)
LEMMA StartPipelineKeeps == ConvertInv /\ StartPipeline => ConvertInv'
<1> SUFFICES ASSUME ConvertInv, StartPipeline PROVE ConvertInv'  OBVIOUS
<1>1. Components \subseteq DOMAIN root.dirs  BY DEF Components
<1>2. Open(Components) /\ at' = Components /\ step = "resolve" /\ step' = "plan"  BY DEF StartPipeline, Open
<1> QED  BY <1>1, <1>2, OpenKeeps

(* any other source one directory.                                         *)
LEMMA ResolvedOne == Resolved # {} => \E d : Resolved = {d} /\ d \in DOMAIN root.dirs
<1>1. CASE subfolder # "none"
  <2>1. Resolved = {subfolder} \cap DOMAIN root.dirs  BY <1>1 DEF Resolved
  <2> QED  BY <2>1
<1>2. CASE subfolder = "none" /\ root.index
  <2>1. Resolved = {"transformer"} \cap DOMAIN root.dirs  BY <1>2, Zenon DEF Resolved
  <2> QED  BY <2>1
<1>3. CASE subfolder = "none" /\ ~root.index
  <2>1. Resolved = {"."} \cap DOMAIN root.dirs  BY <1>3, Zenon DEF Resolved
  <2> QED  BY <2>1
<1> QED  BY <1>1, <1>2, <1>3

(* Opening it keeps the invariant.                                         *)
LEMMA ResolveDirKeeps == ConvertInv /\ ResolveDir => ConvertInv'
<1> SUFFICES ASSUME ConvertInv, ResolveDir PROVE ConvertInv'  OBVIOUS
<1>1. PICK d \in DOMAIN root.dirs : Resolved = {d}  BY ResolvedOne DEF ResolveDir
<1>2. PICK dirs : dirs = Resolved  OBVIOUS
<1>3. Open(dirs) /\ at' = dirs /\ step = "resolve" /\ step' = "v5" /\ mode \in {"none", "fp8", "fp4"}
      BY <1>2 DEF ResolveDir, Open
<1>4. dirs \subseteq DOMAIN root.dirs /\ \E e : dirs = {e}  BY <1>1, <1>2
<1> QED  BY <1>3, <1>4, OpenKeeps
-----------------------------------------------------------------------------
(* A step that raises keeps the invariant,                                 *)
LEMMA RefuseKeeps == ConvertInv /\ Refuse => ConvertInv'
<1> SUFFICES ASSUME ConvertInv, Refuse PROVE ConvertInv'  OBVIOUS
<1>1. /\ root' = root /\ mode' = mode /\ at' = at /\ names' = names /\ virtual' = virtual /\ weights' = weights
      /\ plan' = plan /\ cache' = cache /\ quantized' = quantized /\ store' = store /\ step' = "raised"
      BY DEF Refuse, inputs, passes
<1>2. InputOK' /\ NamesInv' /\ WeightsInv' /\ PlanInv' /\ StoreInv' /\ CacheInv'  BY <1>1, SameParts
<1>3. StepInv'
  <2>1. StepInv  BY DEF ConvertInv
  <2>2. Pipeline' <=> Pipeline  BY <1>1 DEF Pipeline
  <2> QED  BY <1>1, <1>2, <2>1, <2>2 DEF StepInv, Early
<1> QED  BY <1>2, <1>3 DEF ConvertInv

(* as does one that finishes the store.                                    *)
LEMMA PublishKeeps == ConvertInv /\ Publish => ConvertInv'
<1> SUFFICES ASSUME ConvertInv, Publish PROVE ConvertInv'  OBVIOUS
<1>1. /\ root' = root /\ mode' = mode /\ at' = at /\ names' = names /\ virtual' = virtual /\ weights' = weights
      /\ plan' = plan /\ cache' = cache /\ quantized' = quantized /\ store' = store /\ step' = "done"
      BY DEF Publish, inputs, passes
<1>2. InputOK' /\ NamesInv' /\ WeightsInv' /\ PlanInv' /\ StoreInv' /\ CacheInv'  BY <1>1, SameParts
<1>3. StepInv'
  <2>1. StepInv  BY DEF ConvertInv
  <2>2. Pipeline' <=> Pipeline  BY <1>1 DEF Pipeline
  <2> QED  BY <1>1, <1>2, <2>1, <2>2 DEF StepInv, Early
<1> QED  BY <1>2, <1>3 DEF ConvertInv

(* A pass over the names keeps it when it makes of each what it may.       *)
LEMMA PassKeeps ==
  ASSUME ConvertInv, step \in {"v5", "gpt_oss", "dbrx"}, NEW parts, NEW next, ExpandTo(parts, next), Parts(parts, names),
         next \in {"gpt_oss", "dbrx"} \/ next = IF mode = "none" THEN "plan" ELSE "prepare"
  PROVE  ConvertInv'
<1>1. /\ root' = root /\ mode' = mode /\ at' = at /\ weights' = weights
      /\ plan' = plan /\ cache' = cache /\ quantized' = quantized /\ store' = store /\ step' = next
      BY DEF ExpandTo, inputs
<1>2. StepInv /\ InputOK /\ NamesInv  BY DEF ConvertInv, StepInv
<1>3. weights = {} /\ plan = <<>> /\ store = <<>> /\ cache = <<>> /\ quantized = <<>>  BY <1>2 DEF StepInv, Early
<1>4. /\ IsSeq(names')
      /\ \A x \in ToSet(names') : x \in ToSet(names) \/ x \in DOMAIN virtual'
      /\ \A x \in DOMAIN virtual : x \in DOMAIN virtual'
      /\ \A x \in DOMAIN virtual' :
              \/ x \in DOMAIN virtual /\ virtual'[x] = virtual[x]
              \/ Virtual(x, virtual'[x])
      BY <1>2, ExpandKeeps DEF NamesInv
<1>5. Listed' = Listed /\ (Pipeline' <=> Pipeline)  BY <1>1, FrozenRoot
<1>6. StepInv'
  <2>1. InputOK'  BY <1>1, <1>2 DEF InputOK
  <2> QED  BY <1>1, <1>2, <1>3, <1>5, <2>1 DEF StepInv, Early
<1>7. NamesInv'
  <2>1. ASSUME NEW x \in ToSet(names') PROVE x \in Listed' \/ x \in DOMAIN virtual'
        BY <1>2, <1>3, <1>4, <1>5 DEF NamesInv
  <2>2. ASSUME NEW x \in DOMAIN virtual' PROVE Virtual(x, virtual[x])'
    <3>1. PICK v : v = virtual'[x]  OBVIOUS
    <3>2. Virtual(x, v)  BY <1>2, <1>4, <3>1 DEF NamesInv
    <3>3. Virtual(x, v)'  BY <1>1, <3>2, FrozenVirtual
    <3> QED  BY <3>1, <3>3
  <2> QED  BY <1>4, <2>1, <2>2 DEF NamesInv
<1>8. DOMAIN <<>> = {} /\ Len(<<>>) = 0 /\ IsSeq(<<>>)
  <2>1. <<>> \in Seq(Nat)  OBVIOUS
  <2>2. IsSeq(<<>>)  BY <2>1, IsSeqOver
  <2> QED  BY <2>2
<1>9. WeightsInv' /\ PlanInv' /\ StoreInv' /\ CacheInv'
      BY <1>1, <1>3, <1>8 DEF WeightsInv, PlanInv, StoreInv, CacheInv
<1> QED  BY <1>6, <1>7, <1>9 DEF ConvertInv

(* Each pass keeps it: the first,                                          *)
LEMMA ExpandV5Keeps == ConvertInv /\ ExpandV5 => ConvertInv'
<1> SUFFICES ASSUME ConvertInv, ExpandV5 PROVE ConvertInv'  OBVIOUS
<1>1. PICK parts : parts = [i \in DOMAIN names |-> V5Of(names[i])]  OBVIOUS
<1>2. step = "v5" /\ ExpandTo(parts, "gpt_oss")  BY <1>1 DEF ExpandV5
<1>3. StepInv /\ InputOK /\ NamesInv  BY DEF ConvertInv, StepInv
<1>4. virtual = <<>> /\ weights = {} /\ (\E d : at = {d})  BY <1>2, <1>3 DEF StepInv, Early
<1>5. \A m \in ToSet(names) : m \in Listed  BY <1>3, <1>4 DEF NamesInv
<1>6. Parts(parts, names)
  <2>1. ASSUME NEW i \in DOMAIN names
        PROVE  IsSeq(parts[i]) /\ \A k \in DOMAIN parts[i] : Made(parts[i][k], names[i])
    <3>1. PICK n \in ToSet(names) : n = names[i]  BY DEF ToSet
    <3>2. parts[i] = V5Of(n)  BY <1>1, <3>1
    <3> QED  BY <1>3, <1>4, <1>5, <3>1, <3>2, V5Made
  <2> QED  BY <1>1, <2>1 DEF Parts
<1> QED  BY <1>2, <1>6, PassKeeps

(* A fused tensor of a later pass is one of the checkpoint's.              *)
LEMMA FusedListed ==
  ASSUME ConvertInv, step \in {"gpt_oss", "dbrx"}, NEW n \in ToSet(names), n.expert = Fused, ~Mixtral(n)
  PROVE  n \in Listed
<1>1. InputOK /\ NamesInv /\ weights = {}  BY DEF ConvertInv, StepInv, Early
<1>2. CASE n \in DOMAIN virtual
  <2>1. PICK v : v = virtual[n]  OBVIOUS
  <2>2. Virtual(n, v)  BY <1>1, <1>2, <2>1 DEF NamesInv
  <2>3. /\ v.kind \in {"v5", "renamed", "gpt_oss", "dbrx"}
        /\ v.kind \in {"v5", "gpt_oss", "dbrx"} => n.expert \in Nat
        /\ v.kind = "renamed" => Mixtral(n)
        BY <1>1, <2>2, VirtualFields
  <2> QED  BY <2>3 DEF Fused
<1> QED  BY <1>1, <1>2 DEF NamesInv

(* the second                                                              *)
LEMMA ExpandGptOssKeeps == ConvertInv /\ ExpandGptOss => ConvertInv'
<1> SUFFICES ASSUME ConvertInv, ExpandGptOss PROVE ConvertInv'  OBVIOUS
<1>1. PICK parts : parts = [i \in DOMAIN names |-> GptOssOf(names[i])]  OBVIOUS
<1>2. step = "gpt_oss" /\ ExpandTo(parts, "dbrx") /\ ~GptOssRaises  BY <1>1 DEF ExpandGptOss
<1>3. InputOK  BY DEF ConvertInv, StepInv
<1>4. Parts(parts, names)
  <2>1. ASSUME NEW i \in DOMAIN names
        PROVE  IsSeq(parts[i]) /\ \A k \in DOMAIN parts[i] : Made(parts[i][k], names[i])
    <3>1. PICK n \in ToSet(names) : n = names[i]  BY DEF ToSet
    <3>2. parts[i] = GptOssOf(n)  BY <1>1, <3>1
    <3>3. GptOssExpands(n) => n.expert = Fused /\ ~Mixtral(n)  BY DEF GptOssExpands, Mixtral
    <3>4. GptOssExpands(n) => n \in Listed  BY <1>2, <3>3, FusedListed
    <3> QED  BY <1>2, <1>3, <3>1, <3>2, <3>4, GptOssMade
  <2> QED  BY <1>1, <2>1 DEF Parts
<1> QED  BY <1>2, <1>4, PassKeeps

(* and the third.                                                          *)
LEMMA ExpandDbrxKeeps == ConvertInv /\ ExpandDbrx => ConvertInv'
<1> SUFFICES ASSUME ConvertInv, ExpandDbrx PROVE ConvertInv'  OBVIOUS
<1>1. PICK parts : parts = [i \in DOMAIN names |-> DbrxOf(names[i])]  OBVIOUS
<1>n. PICK next : next = IF mode = "none" THEN "plan" ELSE "prepare"  OBVIOUS
<1>2. step = "dbrx" /\ ExpandTo(parts, next) /\ ~DbrxRaises  BY <1>1, <1>n DEF ExpandDbrx
<1>3. InputOK  BY DEF ConvertInv, StepInv
<1>4. Parts(parts, names)
  <2>1. ASSUME NEW i \in DOMAIN names
        PROVE  IsSeq(parts[i]) /\ \A k \in DOMAIN parts[i] : Made(parts[i][k], names[i])
    <3>1. PICK n \in ToSet(names) : n = names[i]  BY DEF ToSet
    <3>2. parts[i] = DbrxOf(n)  BY <1>1, <3>1
    <3>3. DbrxExpands(n) => n.expert = Fused /\ ~Mixtral(n)  BY DEF DbrxExpands, Mixtral
    <3>4. DbrxExpands(n) => n \in Listed  BY <1>2, <3>3, FusedListed
    <3> QED  BY <1>2, <1>3, <3>1, <3>2, <3>4, DbrxMade
  <2> QED  BY <1>1, <2>1 DEF Parts
<1> QED  BY <1>2, <1>n, <1>4, PassKeeps
-----------------------------------------------------------------------------
(* A list of lists, one for each name, whose entries are the name or its   *)
(* scale.                                                                  *)
LEMMA WithScaleIs ==
  ASSUME NEW n
  PROVE  /\ IsSeq(WithScale(n))
         /\ Quantizes(n) => WithScale(n) = <<n, ScaleOf(n)>>
         /\ ~Quantizes(n) => WithScale(n) = <<n>>
         /\ \A k \in DOMAIN WithScale(n) : WithScale(n)[k] = n \/ (Quantizes(n) /\ WithScale(n)[k] = ScaleOf(n))
<1>1. PICK m : m = ScaleOf(n)  OBVIOUS
<1>2. PICK s : s = WithScale(n)  OBVIOUS
<1>3. CASE Quantizes(n)
  <2>1. s = <<n, m>>  BY <1>1, <1>2, <1>3 DEF WithScale
  <2>2. s \in Seq({n, m})  BY <2>1
  <2>3. \A k \in DOMAIN s : s[k] = n \/ s[k] = m  BY <2>1
  <2> QED  BY <1>1, <1>2, <1>3, <2>1, <2>2, <2>3, IsSeqOver
<1>4. CASE ~Quantizes(n)
  <2>1. s = <<n>>  BY <1>2, <1>4 DEF WithScale
  <2>2. s \in Seq({n})  BY <2>1
  <2>3. \A k \in DOMAIN s : s[k] = n  BY <2>1
  <2> QED  BY <1>2, <1>4, <2>1, <2>2, <2>3, IsSeqOver
<1> QED  BY <1>3, <1>4

(* Preparing adds the scales.                                              *)
LEMMA PrepareKeeps == ConvertInv /\ Prepare => ConvertInv'
<1> SUFFICES ASSUME ConvertInv, Prepare PROVE ConvertInv'  OBVIOUS
<1>1. /\ root' = root /\ mode' = mode /\ at' = at /\ virtual' = virtual /\ step = "prepare" /\ step' = "plan"
      /\ plan' = plan /\ cache' = cache /\ quantized' = quantized /\ store' = store
      /\ weights' = {n \in ToSet(names) : Quantizes(n)} /\ ~QuantizerRaises
      BY DEF Prepare, inputs
<1>2. StepInv /\ InputOK /\ NamesInv  BY DEF ConvertInv, StepInv
<1>3. /\ weights = {} /\ plan = <<>> /\ store = <<>> /\ cache = <<>> /\ quantized = <<>> /\ mode \in {"fp8", "fp4"}
      BY <1>1, <1>2 DEF StepInv, Early
<1>4. PICK lists : lists = [i \in DOMAIN names |-> WithScale(names[i])]  OBVIOUS
<1>5. names' = FlattenSeq(lists) /\ DOMAIN lists = DOMAIN names /\ \A i \in DOMAIN names : lists[i] = WithScale(names[i])
      BY <1>4 DEF Prepare
<1>6. IsSeqs(lists)
  <2>1. Len(names) \in Nat /\ DOMAIN names = 1 .. Len(names)  BY <1>2, SeqEntries DEF NamesInv
  <2>2. \A i \in DOMAIN names : IsSeq(lists[i])  BY <1>5, WithScaleIs
  <2>3. lists = [i \in DOMAIN names |-> lists[i]]  BY <1>4
  <2> QED  BY <1>5, <2>1, <2>2, <2>3 DEF IsSeqs
<1>7. /\ IsSeq(names')
      /\ \A k \in DOMAIN names' : \E i \in DOMAIN lists : \E j \in DOMAIN lists[i] : names'[k] = lists[i][j]
      BY <1>5, <1>6, FlatEntries
<1>8. \A x \in ToSet(names') : x \in ToSet(names) \/ \E w \in weights' : x = ScaleOf(w)
  <2>1. ASSUME NEW x \in ToSet(names') PROVE x \in ToSet(names) \/ \E w \in weights' : x = ScaleOf(w)
    <3>1. PICK k \in DOMAIN names' : x = names'[k]  BY DEF ToSet
    <3>2. PICK i \in DOMAIN lists : \E j \in DOMAIN lists[i] : x = lists[i][j]  BY <1>7, <3>1
    <3>3. PICK j \in DOMAIN lists[i] : x = lists[i][j]  BY <3>2
    <3>4. PICK n : n = names[i]  OBVIOUS
    <3>5. n \in ToSet(names) /\ lists[i] = WithScale(n)  BY <1>5, <3>2, <3>4 DEF ToSet
    <3>6. x = n \/ (Quantizes(n) /\ x = ScaleOf(n))  BY <3>3, <3>5, WithScaleIs
    <3> QED  BY <1>1, <3>5, <3>6
  <2> QED  BY <2>1
<1>9. /\ Listed' = Listed /\ (Pipeline' <=> Pipeline) /\ \A n : (Quantizes(n)' <=> Quantizes(n))
      /\ \A n : RawSpec(n)' = RawSpec(n) /\ ScaleOf(n)' = ScaleOf(n)
      BY <1>1, FrozenRoot, FrozenLoad
<1>10. ASSUME NEW w \in weights'
       PROVE  /\ w \in Listed \/ w \in DOMAIN virtual
              /\ Quantizes(w) /\ Len(RawSpec(w).shape) = 2 /\ (mode = "fp4" => RawSpec(w).shape[2] % Fp4Block = 0)
  <2>1. w \in ToSet(names) /\ Quantizes(w)  BY <1>1
  <2>2. w \in Listed \/ w \in DOMAIN virtual  BY <1>2, <1>3, <2>1 DEF NamesInv
  <2>3. PICK s : s = RawSpec(w)  OBVIOUS
  <2>4. Len(s.shape) = 2 /\ (mode = "fp4" => s.shape[2] % Fp4Block = 0)  BY <1>1, <2>1, <2>3 DEF QuantizerRaises
  <2> QED  BY <2>1, <2>2, <2>3, <2>4
<1>11. StepInv'
  <2>1. InputOK'  BY <1>1, <1>2 DEF InputOK
  <2>2. weights' # {} => ~Pipeline  BY <1>10 DEF Quantizes, IsExpert
  <2> QED  BY <1>1, <1>2, <1>3, <1>9, <2>1, <2>2 DEF StepInv, Early
<1>12. NamesInv'
  <2>1. ASSUME NEW x \in ToSet(names')
        PROVE  x \in Listed' \/ x \in DOMAIN virtual' \/ \E w \in weights' : x = ScaleOf(w)'
        BY <1>1, <1>2, <1>3, <1>8, <1>9 DEF NamesInv
  <2>2. ASSUME NEW x \in DOMAIN virtual' PROVE Virtual(x, virtual[x])'
    <3>1. PICK v : v = virtual[x]  OBVIOUS
    <3>2. Virtual(x, v)  BY <1>1, <1>2, <3>1 DEF NamesInv
    <3>3. Virtual(x, v)'  BY <1>1, <3>2, FrozenVirtual
    <3>4. v = virtual'[x]  BY <1>1, <3>1
    <3> QED  BY <3>3, <3>4
  <2> QED  BY <1>7, <2>1, <2>2 DEF NamesInv
<1>13. WeightsInv'  BY <1>1, <1>9, <1>10 DEF WeightsInv
<1>14. DOMAIN <<>> = {} /\ Len(<<>>) = 0 /\ IsSeq(<<>>)
  <2>1. <<>> \in Seq(Nat)  OBVIOUS
  <2>2. IsSeq(<<>>)  BY <2>1, IsSeqOver
  <2> QED  BY <2>2
<1>15. PlanInv' /\ StoreInv' /\ CacheInv'  BY <1>1, <1>3, <1>14 DEF PlanInv, StoreInv, CacheInv
<1> QED  BY <1>11, <1>12, <1>13, <1>15 DEF ConvertInv

(* Planning gives every name its member.                                   *)
LEMMA PlannedIs ==
  ASSUME ConvertInv, Plan
  PROVE  /\ IsSeq(plan') /\ DOMAIN plan' = DOMAIN names /\ Len(plan') = Len(names)
         /\ \A k \in DOMAIN names :
              /\ PlanOrder[k] \in DOMAIN names /\ names[PlanOrder[k]] \in ToSet(names)
              /\ plan'[k] = SpecOf(names[PlanOrder[k]]) /\ plan'[k].name = names[PlanOrder[k]]
<1>1. Named  BY NamedOK DEF ConvertInv
<1>2. PICK n \in Nat : n = Len(names) /\ DOMAIN names = 1 .. n /\ \A i \in DOMAIN names : names[i] \in ToSet(names)
      BY <1>1, SeqEntries DEF Named
<1>3. plan' = [i \in 1 .. n |-> SpecOf(names[PlanOrder[i]])]  BY <1>2 DEF Plan
<1>4. DOMAIN plan' = 1 .. n /\ plan' = [i \in 1 .. n |-> plan'[i]] /\ \A i \in 1 .. n : plan'[i] = SpecOf(names[PlanOrder[i]])
      BY <1>3
<1>5. IsSeq(plan') /\ Len(plan') = n  BY <1>4, IsSeqIf
<1>6. \A x : SpecOf(x).name = x  BY DEF SpecOf
<1>7. \A k \in DOMAIN names : PlanOrder[k] \in DOMAIN names  BY <1>1, PlanPermutes
<1> QED  BY <1>2, <1>4, <1>5, <1>6, <1>7

(* Planning keeps the invariant.                                           *)
LEMMA PlanKeeps == ConvertInv /\ Plan => ConvertInv'
<1> SUFFICES ASSUME ConvertInv, Plan PROVE ConvertInv'  OBVIOUS
<1>1. /\ root' = root /\ mode' = mode /\ at' = at /\ names' = names /\ virtual' = virtual /\ weights' = weights
      /\ cache' = cache /\ quantized' = quantized /\ store' = store /\ step = "plan" /\ step' = "write"
      BY DEF Plan, inputs
<1>2. StepInv /\ InputOK /\ NamesInv /\ WeightsInv  BY DEF ConvertInv, StepInv
<1>3. plan = <<>> /\ store = <<>> /\ cache = <<>> /\ quantized = <<>>  BY <1>1, <1>2 DEF StepInv, Early
<1>4. /\ Listed' = Listed /\ (Pipeline' <=> Pipeline) /\ \A n : (Quantizes(n)' <=> Quantizes(n))
      /\ \A n : RawSpec(n)' = RawSpec(n) /\ ScaleOf(n)' = ScaleOf(n) /\ SpecOf(n)' = SpecOf(n)
      BY <1>1, FrozenRoot, FrozenLoad, FrozenValue
<1>5. StepInv'
  <2>1. InputOK'  BY <1>1, <1>2 DEF InputOK
  <2> QED  BY <1>1, <1>2, <1>3, <1>4, <2>1 DEF StepInv, Early
<1>6. NamesInv'
  <2>2. ASSUME NEW x \in DOMAIN virtual' PROVE Virtual(x, virtual[x])'
    <3>1. PICK v : v = virtual[x]  OBVIOUS
    <3>2. Virtual(x, v)  BY <1>1, <1>2, <3>1 DEF NamesInv
    <3>3. Virtual(x, v)'  BY <1>1, <3>2, FrozenVirtual
    <3>4. v = virtual'[x]  BY <1>1, <3>1
    <3> QED  BY <3>3, <3>4
  <2> QED  BY <1>1, <1>2, <1>4, <2>2 DEF NamesInv
<1>7. WeightsInv'  BY <1>1, <1>2, <1>4 DEF WeightsInv
<1>8. PlanInv'
  <2>1. ASSUME NEW i \in DOMAIN plan'
        PROVE  plan'[i].name \in ToSet(names)' /\ plan'[i] = SpecOf(plan[i].name)'
    <3>1. i \in DOMAIN names  BY PlannedIs
    <3>2. PICK n : n = names[PlanOrder[i]]  OBVIOUS
    <3>3. n \in ToSet(names) /\ plan'[i] = SpecOf(n) /\ plan'[i].name = n  BY <3>1, <3>2, PlannedIs
    <3>4. SpecOf(n)' = SpecOf(n)  BY <1>4
    <3>5. (plan[i].name)' = n  BY <3>3
    <3>6. SpecOf(plan[i].name)' = SpecOf(n)'  BY <3>5
    <3> QED  BY <1>1, <3>3, <3>4, <3>6
  <2> QED  BY <2>1, PlannedIs DEF PlanInv
<1>9. StoreInv' /\ CacheInv'
  <2>1. Len(plan') \in Nat  BY PlannedIs, SeqEntries
  <2>2. DOMAIN <<>> = {} /\ Len(<<>>) = 0 /\ IsSeq(<<>>)
    <3>1. <<>> \in Seq(Nat)  OBVIOUS
    <3>2. IsSeq(<<>>)  BY <3>1, IsSeqOver
    <3> QED  BY <3>2
  <2> QED  BY <1>1, <1>3, <2>1, <2>2 DEF StoreInv, CacheInv
<1> QED  BY <1>5, <1>6, <1>7, <1>8, <1>9 DEF ConvertInv
-----------------------------------------------------------------------------
(* What is written is what load returns for the member planned next.       *)
LEMMA WriteKeeps ==
  ASSUME ConvertInv, Len(store) < Len(plan), NEW n, n = plan[Len(store) + 1].name, NEW t, t = Value(n), Write(n, t),
         root' = root, mode' = mode, at' = at, names' = names, virtual' = virtual, weights' = weights, plan' = plan
  PROVE  StoreInv' /\ (step' = step \/ step' = "raised")
<1>1. \A x : Value(x)' = Value(x) /\ SpecOf(x)' = SpecOf(x)  BY FrozenValue
<1>2. StoreInv  BY DEF ConvertInv
<1>3. CASE store' = store
  <2>1. StoreInv'  BY <1>3, SameParts
  <2> QED  BY <1>3, <2>1 DEF Write
<1>4. CASE store' # store
  <2>0. PICK m : m = [name |-> n, rows |-> t.rows, shape |-> t.shape, dtype |-> t.dtype]  OBVIOUS
  <2>1. step' = step /\ Bytes(t) = Bytes(plan[Len(store) + 1]) /\ store' = Append(store, m)
        BY <1>4, <2>0 DEF Write
  <2>2. PICK r : r = Append(store, m)  OBVIOUS
  <2>3. /\ IsSeq(r) /\ Len(r) = Len(store) + 1 /\ r[Len(store) + 1] = m
        /\ \A i \in DOMAIN store : i \in DOMAIN r /\ r[i] = store[i]
        /\ DOMAIN r = DOMAIN store \cup {Len(store) + 1} /\ Len(store) + 1 \notin DOMAIN store
    <3>1. PICK s : s = store  OBVIOUS
    <3>2. IsSeq(s) /\ LongerBy(r, s, m)  BY <1>2, <2>2, <3>1 DEF StoreInv, LongerBy
    <3>3. /\ IsSeq(r) /\ Len(r) = Len(s) + 1 /\ r[Len(s) + 1] = m
          /\ \A i \in DOMAIN s : i \in DOMAIN r /\ r[i] = s[i]
          /\ DOMAIN r = DOMAIN s \cup {Len(s) + 1} /\ Len(s) + 1 \notin DOMAIN s
          BY <3>2, AppendIs
    <3> QED  BY <3>1, <3>3
  <2>4. Len(r) <= Len(plan)
    <3>1. Len(store) \in Nat /\ Len(plan) \in Nat  BY <1>2, SeqEntries DEF StoreInv, ConvertInv, PlanInv
    <3> QED  BY <2>3, <3>1
  <2>5. ASSUME NEW i \in DOMAIN r PROVE Stored(i)'
    <3>1. PICK x : x = plan[i].name  OBVIOUS
    <3>2. PICK u : u = Value(x)  OBVIOUS
    <3>3. Value(x)' = u  BY <1>1, <3>2
    <3>4. Value(plan[i].name)' = u  BY <3>1, <3>3
    <3>5. r[i] = [name |-> x, rows |-> u.rows, shape |-> u.shape, dtype |-> u.dtype] /\ Bytes(u) = Bytes(plan[i])
      <4>1. CASE i \in DOMAIN store
        <5>1. Stored(i)  BY <1>2, <4>1 DEF StoreInv
        <5> QED  BY <2>3, <3>1, <3>2, <4>1, <5>1 DEF Stored
      <4>2. CASE i = Len(store) + 1
        <5>1. x = n /\ u = t  BY <3>1, <3>2, <4>2
        <5> QED  BY <2>0, <2>1, <2>3, <4>2, <5>1
      <4> QED  BY <2>3, <4>1, <4>2
    <3> QED  BY <2>1, <2>2, <3>1, <3>4, <3>5 DEF Stored
  <2> QED  BY <2>1, <2>2, <2>3, <2>4, <2>5 DEF StoreInv
<1> QED  BY <1>3, <1>4

(* Loading a member and writing it keeps the invariant.                    *)
LEMMA LoadRawKeeps == ConvertInv /\ LoadRaw => ConvertInv'
<1> SUFFICES ASSUME ConvertInv, LoadRaw PROVE ConvertInv'  OBVIOUS
<1>1. /\ root' = root /\ mode' = mode /\ at' = at /\ names' = names /\ virtual' = virtual /\ weights' = weights
      /\ plan' = plan /\ cache' = cache /\ quantized' = quantized /\ step = "write" /\ Len(store) < Len(plan)
      BY DEF LoadRaw, inputs, passes
<1>2. PICK n : n = plan[Len(store) + 1].name  OBVIOUS
<1>3. PICK t : t = IF Pipeline THEN SourceLoad(n) ELSE Cast(n, RawLoad(n))  OBVIOUS
<1>4. WeightOf(n) \notin weights /\ Write(n, t)  BY <1>2, <1>3 DEF LoadRaw
<1>5. t = Value(n)  BY <1>3, <1>4 DEF Value
<1>6. StoreInv' /\ (step' = "write" \/ step' = "raised")  BY <1>1, <1>2, <1>4, <1>5, WriteKeeps
<1>7. InputOK' /\ NamesInv' /\ WeightsInv' /\ PlanInv' /\ CacheInv'  BY <1>1, SameParts
<1>8. StepInv'
  <2>1. StepInv  BY DEF ConvertInv
  <2>2. Pipeline' <=> Pipeline  BY <1>1 DEF Pipeline
  <2> QED  BY <1>1, <1>6, <1>7, <2>1, <2>2 DEF StepInv, Early
<1> QED  BY <1>6, <1>7, <1>8 DEF ConvertInv

(* A quantized member written keeps it too.                                *)
LEMMA LoadQuantizedKeeps == ConvertInv /\ LoadQuantized => ConvertInv'
<1> SUFFICES ASSUME ConvertInv, LoadQuantized PROVE ConvertInv'  OBVIOUS
<1>1. /\ root' = root /\ mode' = mode /\ at' = at /\ names' = names /\ virtual' = virtual /\ weights' = weights
      /\ plan' = plan /\ step = "write" /\ Len(store) < Len(plan)
      BY DEF LoadQuantized, inputs, passes
<1>2. PICK n : n = plan[Len(store) + 1].name  OBVIOUS
<1>3. PICK w : w = WeightOf(n)  OBVIOUS
<1>4. PICK pair : pair = IF w \in DOMAIN cache THEN cache[w] ELSE Quant(RawLoad(w))  OBVIOUS
<1>5. PICK t : t = IF n = w THEN pair.weight ELSE pair.scale  OBVIOUS
<1>6. /\ w \in weights /\ Write(n, t)
      /\ cache' = IF n = w THEN [x \in DOMAIN cache \cup {w} |-> IF x = w THEN pair ELSE cache[x]]
                  ELSE [x \in DOMAIN cache \ {w} |-> cache[x]]
      BY <1>2, <1>3, <1>4, <1>5 DEF LoadQuantized
<1>7. CacheInv /\ ~Pipeline  BY <1>6 DEF ConvertInv, StepInv
<1>8. pair = Quant(RawLoad(w))  BY <1>4, <1>7 DEF CacheInv
<1>9. t = Value(n)
  <2>1. Value(n) = IF n = w THEN Quant(RawLoad(w)).weight ELSE Quant(RawLoad(w)).scale
        BY <1>3, <1>6, <1>7 DEF Value
  <2> QED  BY <1>5, <1>8, <2>1
<1>10. StoreInv' /\ (step' = "write" \/ step' = "raised")  BY <1>1, <1>2, <1>6, <1>9, WriteKeeps
<1>11. InputOK' /\ NamesInv' /\ WeightsInv' /\ PlanInv'  BY <1>1, SameParts
<1>12. CacheInv'
  <2>1. \A x : Quant(RawLoad(x))' = Quant(RawLoad(x))
    <3>1. ASSUME NEW x PROVE Quant(RawLoad(x))' = Quant(RawLoad(x))
      <4>1. PICK u : u = RawLoad(x)  OBVIOUS
      <4>2. RawLoad(x)' = u  BY <1>1, <4>1, FrozenLoad
      <4>3. Quant(RawLoad(x))' = Quant(u)  BY <1>1, <4>2 DEF Quant
      <4> QED  BY <4>1, <4>3
    <3> QED  BY <3>1
  <2>2. DOMAIN cache' \subseteq weights  BY <1>6, <1>7 DEF CacheInv
  <2>3. ASSUME NEW x \in DOMAIN cache' PROVE cache'[x] = Quant(RawLoad(x))
    <3>1. CASE n = w
      <4>1. cache'[x] = IF x = w THEN pair ELSE cache[x]  BY <1>6, <3>1
      <4>2. x = w \/ x \in DOMAIN cache  BY <1>6, <3>1
      <4> QED  BY <1>7, <1>8, <4>1, <4>2 DEF CacheInv
    <3>2. CASE n # w
      <4>1. cache'[x] = cache[x] /\ x \in DOMAIN cache  BY <1>6, <3>2
      <4> QED  BY <1>7, <4>1 DEF CacheInv
    <3> QED  BY <3>1, <3>2
  <2> QED  BY <1>1, <2>1, <2>2, <2>3 DEF CacheInv
<1>13. StepInv'
  <2>1. StepInv  BY DEF ConvertInv
  <2>2. Pipeline' <=> Pipeline  BY <1>1 DEF Pipeline
  <2> QED  BY <1>1, <1>10, <1>11, <2>1, <2>2 DEF StepInv, Early
<1> QED  BY <1>10, <1>11, <1>12, <1>13 DEF ConvertInv
-----------------------------------------------------------------------------
(* Every step keeps the invariant,                                         *)
LEMMA ConvertNextInv == ConvertInv /\ [ConvertNext]_conversion => ConvertInv'
<1> SUFFICES ASSUME ConvertInv, [ConvertNext]_conversion PROVE ConvertInv'  OBVIOUS
<1>1. CASE StartPipeline  BY <1>1, StartPipelineKeeps
<1>2. CASE ResolveDir     BY <1>2, ResolveDirKeeps
<1>3. CASE RefuseSource   BY <1>3, RefuseKeeps DEF RefuseSource
<1>4. CASE ExpandV5       BY <1>4, ExpandV5Keeps
<1>5. CASE ExpandGptOss   BY <1>5, ExpandGptOssKeeps
<1>6. CASE ExpandDbrx     BY <1>6, ExpandDbrxKeeps
<1>7. CASE PassRaises     BY <1>7, RefuseKeeps DEF PassRaises
<1>8. CASE Prepare        BY <1>8, PrepareKeeps
<1>9. CASE Plan           BY <1>9, PlanKeeps
<1>10. CASE LoadRaw       BY <1>10, LoadRawKeeps
<1>11. CASE LoadQuantized BY <1>11, LoadQuantizedKeeps
<1>12. CASE Publish       BY <1>12, PublishKeeps
<1>13. CASE UNCHANGED conversion
  <2>1. /\ root' = root /\ mode' = mode /\ at' = at /\ names' = names /\ virtual' = virtual /\ weights' = weights
        /\ plan' = plan /\ cache' = cache /\ quantized' = quantized /\ store' = store /\ step' = step
        BY <1>13 DEF conversion, inputs, passes
  <2>2. InputOK' /\ NamesInv' /\ WeightsInv' /\ PlanInv' /\ StoreInv' /\ CacheInv'  BY <2>1, SameParts
  <2>3. Pipeline' <=> Pipeline  BY <2>1 DEF Pipeline
  <2>4. StepInv'  BY <2>1, <2>2, <2>3 DEF StepInv, Early, ConvertInv
  <2> QED  BY <2>2, <2>4 DEF ConvertInv
<1> QED  BY <1>1, <1>2, <1>3, <1>4, <1>5, <1>6, <1>7, <1>8, <1>9, <1>10, <1>11, <1>12, <1>13 DEF ConvertNext

(* so it always holds: the store is the plan's members as load returns     *)
(* them, whatever steps came between planning and loading.                 *)
THEOREM ConversionInvariant == ConvertSpec => []ConvertInv
<1>1. ConvertInit => ConvertInv  BY ConvertInitInv
<1>2. ConvertInv /\ [ConvertNext]_conversion => ConvertInv'  BY ConvertNextInv
<1> QED  BY <1>1, <1>2, PTL DEF ConvertSpec
-----------------------------------------------------------------------------
(* A tensor read whole has all its rows,                                   *)
RowCount(n) == Prod(Front(Source(n).shape))
(* as many as its leading dimensions make.                                 *)
LEMMA SourceSpan ==
  ASSUME InputOK, NEW n \in Listed
  PROVE  RowCount(n) \in Nat /\ Span(SourceLoad(n).rows, n, 0, RowCount(n))
<1>1. PICK s \in Seq(Nat \ {0}) : s = Source(n).shape  BY ListedName
<1>2. PICK f : f = Front(s)  OBVIOUS
<1>3. f \in Seq(Nat)
  <2>1. f = SubSeq(s, 1, Len(s) - 1)  BY <1>2 DEF Front
  <2>2. s \in Seq(Nat)  OBVIOUS
  <2>3. CASE Len(s) = 0
    <3>1. SubSeq(s, 1, 0 - 1) = <<>>  BY <2>3
    <3> QED  BY <2>1, <2>3, <3>1
  <2>4. CASE Len(s) # 0
    <3>1. Len(s) - 1 \in Nat /\ Len(s) - 1 <= Len(s)  BY <2>4
    <3> QED  BY <2>1, <2>2, <3>1
  <2> QED  BY <2>3, <2>4
<1>4. PICK c \in Nat : c = RowCount(n)  BY <1>1, <1>2, <1>3, ProdType DEF RowCount
<1>5. PICK r : r = SourceLoad(n).rows  OBVIOUS
<1>6. r = [i \in 1 .. c |-> <<n, i>>]  BY <1>4, <1>5 DEF SourceLoad, RowCount
<1>7. DOMAIN r = 1 .. c /\ r = [i \in 1 .. c |-> r[i]] /\ \A i \in 1 .. c : r[i] = <<n, i>> /\ 0 + i = i  BY <1>6
<1>8. IsSeq(r) /\ Len(r) = c  BY <1>7, IsSeqIf
<1>9. \A j \in 1 .. c : r[j] = <<n, 0 + j>>
  <2>1. ASSUME NEW j \in 1 .. c PROVE r[j] = <<n, 0 + j>>
    <3>1. r[j] = <<n, j>> /\ 0 + j = j  BY <1>7
    <3> QED  BY <3>1
  <2> QED  BY <2>1
<1> QED  BY <1>4, <1>5, <1>8, <1>9 DEF Span

(* Of a count of equal parts one is as long as any.                        *)
LEMMA PartSpan ==
  ASSUME NEW t, NEW n, NEW l, Span(t.rows, n, 0, l), NEW count \in Nat \ {0}, NEW e \in 0 .. count - 1
  PROVE  Span(Part(t, count, e), n, e * (l \div count), l \div count)
<1>1. l \in Nat /\ Len(t.rows) = l  BY DEF Span
<1>2. PICK k : k = l \div count  OBVIOUS
<1>3. k \in Nat /\ e * k \in Nat /\ e * k + k <= l /\ (e + 1) * k = e * k + k  BY <1>1, <1>2, PartBound
<1>4. PICK a \in Nat : a = e * k  BY <1>3
<1>5. PICK p : p = Part(t, count, e)  OBVIOUS
<1>6. p = SubSeq(t.rows, a + 1, a + k)  BY <1>1, <1>2, <1>3, <1>4, <1>5 DEF Part
<1>7. a + k <= l  BY <1>3, <1>4
<1>8. Span(p, n, 0 + a, k)  BY <1>3, <1>6, <1>7, SubSpan
<1>9. 0 + a = a  OBVIOUS
<1> QED  BY <1>2, <1>4, <1>5, <1>8, <1>9
-----------------------------------------------------------------------------
(* How many parts an expansion cuts a tensor into, and the rows in each.   *)
Cuts(v) == IF v.kind = "v5" THEN Source(v.of).shape[1] ELSE Conf(v.of).experts
Per(v)  == RowCount(v.of) \div Cuts(v)
FirstRow(v) ==
  IF v.kind = "renamed" THEN 0
  ELSE v.expert * Per(v) + (IF v.kind = "v5" /\ v.part = "up" THEN Up(Per(v), 2) ELSE 0)
Rows(v) ==
  IF v.kind = "renamed" THEN RowCount(v.of)
  ELSE IF v.kind = "v5" /\ v.part = "gate" THEN Up(Per(v), 2)
  ELSE IF v.kind = "v5" /\ v.part = "up" THEN Per(v) - Up(Per(v), 2)
  ELSE Per(v)

(* The halves of torch.chunk.                                              *)
LEMMA UpHalf ==
  ASSUME NEW k \in Nat
  PROVE  Up(k, 2) \in Nat /\ Up(k, 2) <= k /\ (k - Up(k, 2)) = k \div 2
         /\ (Up(k, 2) = k \div 2 \/ Up(k, 2) = k \div 2 + 1) /\ k \div 2 \in Nat
BY DEF Up

(* The cuts are positive, and the member one of them.                      *)
LEMMA CutsType ==
  ASSUME InputOK, NEW x, NEW v, Virtual(x, v), v.kind # "renamed"
  PROVE  Cuts(v) \in Nat \ {0} /\ v.expert \in 0 .. Cuts(v) - 1 /\ Per(v) \in Nat
<1>1. v.of \in Listed  BY VirtualFields
<1>2. RowCount(v.of) \in Nat  BY <1>1, SourceSpan
<1>3. PICK c : c = Cuts(v)  OBVIOUS
<1>4. c \in Nat /\ v.expert \in 0 .. c - 1
  <2>1. CASE V5Name(x, v)
    <3>1. PICK s \in Seq(Nat \ {0}) : s = Source(v.of).shape  BY <1>1, ListedName
    <3>2. v.kind = "v5" /\ Len(s) = 3 /\ v.expert \in 0 .. s[1] - 1  BY <2>1, <3>1 DEF V5Name, V5Expands
    <3>3. 1 \in 1 .. Len(s)  BY <3>2
    <3>4. s[1] \in Nat  BY <3>3, Dimension
    <3>5. c = s[1]  BY <1>3, <3>1, <3>2 DEF Cuts
    <3> QED  BY <3>2, <3>4, <3>5
  <2>2. CASE GptOssName(x, v) \/ DbrxName(x, v)
    <3>1. v.kind # "v5" /\ v.expert \in 0 .. Conf(v.of).experts - 1  BY <2>2 DEF GptOssName, DbrxName
    <3>2. c = Conf(v.of).experts /\ c \in Nat  BY <1>1, <1>3, <3>1, ListedName DEF Cuts
    <3> QED  BY <3>1, <3>2
  <2>3. CASE RenamedName(x, v)  BY <2>3 DEF RenamedName
  <2> QED  BY <2>1, <2>2, <2>3 DEF Virtual
<1>5. c \in Nat \ {0}  BY <1>4
<1>6. PICK l \in Nat : l = RowCount(v.of)  BY <1>2
<1>7. l \div c \in Nat  BY <1>5
<1> QED  BY <1>3, <1>4, <1>5, <1>6, <1>7 DEF Per

(* V5Load, by the part.                                                    *)
IsTensor(t) == t = [shape |-> t.shape, dtype |-> t.dtype, rows |-> t.rows]
Row(v, t)   == Part(t, t.shape[1], v.expert)
Loaded(u, rows, shape, dtype) == u.rows = rows /\ u.shape = shape /\ u.dtype = dtype
(* An update of a tensor, field by field.                                  *)
LEMMA LoadedIf ==
  ASSUME NEW t, IsTensor(t), NEW rows, NEW shape
  PROVE  Loaded([t EXCEPT !.rows = rows, !.shape = shape], rows, shape, t.dtype)
BY DEF IsTensor, Loaded

(* V5Expansion's load, case by case.                                       *)
LEMMA V5LoadIs ==
  ASSUME NEW v, NEW t, IsTensor(t)
  PROVE  /\ v.kind = "renamed" => V5Load(v, t) = t
         /\ v.kind = "v5" /\ v.part = "down" => Loaded(V5Load(v, t), Row(v, t), Tail(t.shape), t.dtype)
         /\ v.kind = "v5" /\ v.part = "gate" =>
              Loaded(V5Load(v, t), SubSeq(Row(v, t), 1, Up(Len(Row(v, t)), 2)),
                     <<Up(Len(Row(v, t)), 2)>> \o SubSeq(t.shape, 3, Len(t.shape)), t.dtype)
         /\ v.kind = "v5" /\ v.part = "up" =>
              Loaded(V5Load(v, t), SubSeq(Row(v, t), Up(Len(Row(v, t)), 2) + 1, Len(Row(v, t))),
                     <<Len(Row(v, t)) - Up(Len(Row(v, t)), 2)>> \o SubSeq(t.shape, 3, Len(t.shape)), t.dtype)
<1>0. "gate" # "down" /\ "up" # "down" /\ "up" # "gate" /\ "v5" # "renamed"  OBVIOUS
<1>1. v.kind = "renamed" => V5Load(v, t) = t  BY <1>0, Zenon DEF V5Load
<1>2. v.kind = "v5" /\ v.part = "down" => Loaded(V5Load(v, t), Row(v, t), Tail(t.shape), t.dtype)
  <2>1. PICK rows : rows = Row(v, t)  OBVIOUS
  <2>2. PICK shape : shape = Tail(t.shape)  OBVIOUS
  <2>3. v.kind = "v5" /\ v.part = "down" => V5Load(v, t) = [t EXCEPT !.rows = rows, !.shape = shape]
        BY <1>0, <2>1, <2>2, Zenon DEF V5Load, Row
  <2>4. Loaded([t EXCEPT !.rows = rows, !.shape = shape], rows, shape, t.dtype)  BY LoadedIf
  <2> QED  BY <2>1, <2>2, <2>3, <2>4, Zenon
<1>3. v.kind = "v5" /\ v.part = "gate" =>
        Loaded(V5Load(v, t), SubSeq(Row(v, t), 1, Up(Len(Row(v, t)), 2)),
               <<Up(Len(Row(v, t)), 2)>> \o SubSeq(t.shape, 3, Len(t.shape)), t.dtype)
  <2>1. PICK rows : rows = SubSeq(Row(v, t), 1, Up(Len(Row(v, t)), 2))  OBVIOUS
  <2>2. PICK shape : shape = <<Up(Len(Row(v, t)), 2)>> \o SubSeq(t.shape, 3, Len(t.shape))  OBVIOUS
  <2>3. v.kind = "v5" /\ v.part = "gate" => V5Load(v, t) = [t EXCEPT !.rows = rows, !.shape = shape]
        BY <1>0, <2>1, <2>2, Zenon DEF V5Load, Row
  <2>4. Loaded([t EXCEPT !.rows = rows, !.shape = shape], rows, shape, t.dtype)  BY LoadedIf
  <2> QED  BY <2>1, <2>2, <2>3, <2>4, Zenon
<1>4. v.kind = "v5" /\ v.part = "up" =>
        Loaded(V5Load(v, t), SubSeq(Row(v, t), Up(Len(Row(v, t)), 2) + 1, Len(Row(v, t))),
               <<Len(Row(v, t)) - Up(Len(Row(v, t)), 2)>> \o SubSeq(t.shape, 3, Len(t.shape)), t.dtype)
  <2>1. PICK rows : rows = SubSeq(Row(v, t), Up(Len(Row(v, t)), 2) + 1, Len(Row(v, t)))  OBVIOUS
  <2>2. PICK shape : shape = <<Len(Row(v, t)) - Up(Len(Row(v, t)), 2)>> \o SubSeq(t.shape, 3, Len(t.shape))  OBVIOUS
  <2>3. v.kind = "v5" /\ v.part = "up" => V5Load(v, t) = [t EXCEPT !.rows = rows, !.shape = shape]
        BY <1>0, <2>1, <2>2, Zenon DEF V5Load, Row
  <2>4. Loaded([t EXCEPT !.rows = rows, !.shape = shape], rows, shape, t.dtype)  BY LoadedIf
  <2> QED  BY <2>1, <2>2, <2>3, <2>4, Zenon
<1> QED  BY <1>1, <1>2, <1>3, <1>4, Zenon
-----------------------------------------------------------------------------
(* RawLoad and RawSpec of a name an expansion made.                        *)
Tensor(x) == SourceLoad(virtual[x].of)
(* What is loaded for a virtual name, by the pass that made it,            *)
LEMMA RawLoadIs ==
  ASSUME NEW x \in DOMAIN virtual
  PROVE  /\ virtual[x].kind \in {"v5", "renamed"} => RawLoad(x) = V5Load(virtual[x], Tensor(x))
         /\ virtual[x].kind = "gpt_oss" =>
              Loaded(RawLoad(x), Row(virtual[x], Tensor(x)), Collapse(x, Tail(Tensor(x).shape)), Tensor(x).dtype)
         /\ virtual[x].kind = "dbrx" =>
              Loaded(RawLoad(x), Part(Tensor(x), Conf(x).experts, virtual[x].expert), DbrxShape(x, Tensor(x).shape),
                     Tensor(x).dtype)
<1>v. PICK v : v = virtual[x]  OBVIOUS
<1>t. PICK t : t = Tensor(x)  OBVIOUS
<1>0. IsTensor(t)  BY <1>t DEF Tensor, SourceLoad, IsTensor
<1>1. "gpt_oss" \notin {"v5", "renamed"} /\ "dbrx" \notin {"v5", "renamed"} /\ "dbrx" # "gpt_oss"
      /\ \A k \in {"v5", "renamed"} : k # "gpt_oss"
      OBVIOUS
<1>2. RawLoad(x) = CASE v.kind \in {"v5", "renamed"} -> V5Load(v, t)
                     [] v.kind = "gpt_oss" -> GptOssLoad(x, v, t)
                     [] OTHER -> DbrxLoad(x, v, t)
      BY <1>v, <1>t, Zenon DEF RawLoad, Tensor
<1>3. v.kind \in {"v5", "renamed"} => RawLoad(x) = V5Load(v, t)  BY <1>1, <1>2, Zenon
<1>4. v.kind = "gpt_oss" => Loaded(RawLoad(x), Row(v, t), Collapse(x, Tail(t.shape)), t.dtype)
  <2>1. PICK rows : rows = Row(v, t)  OBVIOUS
  <2>2. PICK shape : shape = Collapse(x, Tail(t.shape))  OBVIOUS
  <2>3. v.kind = "gpt_oss" => RawLoad(x) = [t EXCEPT !.rows = rows, !.shape = shape]
        BY <1>1, <1>2, <2>1, <2>2, Zenon DEF GptOssLoad, Row
  <2>4. Loaded([t EXCEPT !.rows = rows, !.shape = shape], rows, shape, t.dtype)  BY <1>0, LoadedIf
  <2> QED  BY <2>1, <2>2, <2>3, <2>4, Zenon
<1>5. v.kind = "dbrx" => Loaded(RawLoad(x), Part(t, Conf(x).experts, v.expert), DbrxShape(x, t.shape), t.dtype)
  <2>1. PICK rows : rows = Part(t, Conf(x).experts, v.expert)  OBVIOUS
  <2>2. PICK shape : shape = DbrxShape(x, t.shape)  OBVIOUS
  <2>3. v.kind = "dbrx" => RawLoad(x) = [t EXCEPT !.rows = rows, !.shape = shape]
        BY <1>1, <1>2, <2>1, <2>2, Zenon DEF DbrxLoad
  <2>4. Loaded([t EXCEPT !.rows = rows, !.shape = shape], rows, shape, t.dtype)  BY <1>0, LoadedIf
  <2> QED  BY <2>1, <2>2, <2>3, <2>4, Zenon
<1> QED  BY <1>v, <1>t, <1>3, <1>4, <1>5, Zenon

(* what is announced for it,                                               *)
LEMMA RawSpecIs ==
  ASSUME NEW x \in DOMAIN virtual
  PROVE  /\ RawSpec(x).dtype = Tensor(x).dtype
         /\ virtual[x].kind \in {"v5", "renamed"} => RawSpec(x).shape = V5Shape(virtual[x], Tensor(x).shape)
         /\ virtual[x].kind = "gpt_oss" => RawSpec(x).shape = Collapse(x, Tail(Tensor(x).shape))
         /\ virtual[x].kind = "dbrx" => RawSpec(x).shape = DbrxShape(x, Tensor(x).shape)
<1>v. PICK v : v = virtual[x]  OBVIOUS
<1>s. PICK s : s = Source(v.of)  OBVIOUS
<1>t. Tensor(x).dtype = s.dtype /\ Tensor(x).shape = s.shape  BY <1>v, <1>s DEF Tensor, SourceLoad
<1>1. "gpt_oss" \notin {"v5", "renamed"} /\ "dbrx" \notin {"v5", "renamed"} /\ "dbrx" # "gpt_oss"
      /\ \A k \in {"v5", "renamed"} : k # "gpt_oss"
      OBVIOUS
<1>2. PICK h : h = CASE v.kind \in {"v5", "renamed"} -> V5Shape(v, s.shape)
                     [] v.kind = "gpt_oss" -> Collapse(x, Tail(s.shape))
                     [] OTHER -> DbrxShape(x, s.shape)
      OBVIOUS
<1>3. RawSpec(x) = [dtype |-> s.dtype, shape |-> h]  BY <1>v, <1>s, <1>2, Zenon DEF RawSpec
<1>4. RawSpec(x).dtype = s.dtype /\ RawSpec(x).shape = h  BY <1>3
<1>5. v.kind \in {"v5", "renamed"} => h = V5Shape(v, s.shape)  BY <1>1, <1>2, Zenon
<1>6. v.kind = "gpt_oss" => h = Collapse(x, Tail(s.shape))  BY <1>1, <1>2, Zenon
<1>7. v.kind = "dbrx" => h = DbrxShape(x, s.shape)  BY <1>1, <1>2, Zenon
<1> QED  BY <1>v, <1>t, <1>4, <1>5, <1>6, <1>7, Zenon

(* and the shape V5Expansion announces.                                    *)
LEMMA V5ShapeIs ==
  ASSUME NEW v, NEW s
  PROVE  /\ v.kind = "renamed" => V5Shape(v, s) = s
         /\ v.kind = "v5" /\ v.part = "down" => V5Shape(v, s) = Tail(s)
         /\ v.kind = "v5" /\ v.part \in {"gate", "up"} => V5Shape(v, s) = <<s[2] \div 2>> \o SubSeq(s, 3, Len(s))
<1>0. "v5" # "renamed" /\ \A p \in {"gate", "up"} : p # "down"  OBVIOUS
<1>1. v.kind = "renamed" => V5Shape(v, s) = s  BY <1>0, Zenon DEF V5Shape
<1>2. v.kind = "v5" /\ v.part = "down" => V5Shape(v, s) = Tail(s)  BY <1>0, Zenon DEF V5Shape
<1>3. v.kind = "v5" /\ v.part \in {"gate", "up"} => V5Shape(v, s) = <<s[2] \div 2>> \o SubSeq(s, 3, Len(s))
      BY <1>0, Zenon DEF V5Shape
<1> QED  BY <1>1, <1>2, <1>3

(* The rows of such a name are the ones it stands for.                     *)
LEMMA VirtualRows ==
  ASSUME InputOK, NEW x \in DOMAIN virtual, NEW v, v = virtual[x], Virtual(x, v)
  PROVE  Span(RawLoad(x).rows, v.of, FirstRow(v), Rows(v))
<1>1. PICK t : t = Tensor(x)  OBVIOUS
<1>2. PICK l : l = RowCount(v.of)  OBVIOUS
<1>3. v.of \in Listed /\ l \in Nat /\ Span(t.rows, v.of, 0, l)  BY <1>1, <1>2, VirtualFields, SourceSpan DEF Tensor
<1>4. IsTensor(t) /\ t.shape = Source(v.of).shape  BY <1>1 DEF SourceLoad, Tensor, IsTensor
<1>5. CASE v.kind = "renamed"
  <2>1. RawLoad(x) = V5Load(v, t)  BY <1>1, <1>5, RawLoadIs
  <2>2. V5Load(v, t) = t  BY <1>4, <1>5, V5LoadIs
  <2> QED  BY <1>2, <1>3, <1>5, <2>1, <2>2 DEF FirstRow, Rows
<1>6. CASE v.kind # "renamed"
  <2>1. PICK c : c = Cuts(v)  OBVIOUS
  <2>2. PICK k : k = l \div c  OBVIOUS
  <2>3. PICK e : e = v.expert  OBVIOUS
  <2>4. c \in Nat \ {0} /\ e \in 0 .. c - 1 /\ k \in Nat /\ Per(v) = k
        BY <1>2, <1>6, <2>1, <2>2, <2>3, CutsType DEF Per
  <2>5. PICK row : row = Part(t, c, e)  OBVIOUS
  <2>6. Span(row, v.of, e * k, k)  BY <1>3, <2>2, <2>4, <2>5, PartSpan
  <2>7. PICK a \in Nat : a = e * k  BY <2>6 DEF Span
  <2>8. Len(row) = k  BY <2>6 DEF Span
  <2>9. CASE v.kind = "v5"
    <3>1. t.shape[1] = c  BY <1>4, <2>1, <2>9 DEF Cuts
    <3>2. row = Row(v, t)  BY <2>3, <2>5, <3>1 DEF Row
    <3>3. PICK half : half = Up(Len(row), 2)  OBVIOUS
    <3>4. half \in Nat /\ half <= k /\ half = Up(k, 2) /\ k - half \in Nat  BY <2>4, <2>8, <3>3, UpHalf
    <3>5. RawLoad(x) = V5Load(v, t)  BY <1>1, <2>9, RawLoadIs
    <3>d. v.part = "down" => Loaded(V5Load(v, t), Row(v, t), Tail(t.shape), t.dtype)  BY <1>4, <2>9, V5LoadIs, Zenon
    <3>g. v.part = "gate" =>
            Loaded(V5Load(v, t), SubSeq(Row(v, t), 1, Up(Len(Row(v, t)), 2)),
                   <<Up(Len(Row(v, t)), 2)>> \o SubSeq(t.shape, 3, Len(t.shape)), t.dtype)
          BY <1>4, <2>9, V5LoadIs, Zenon
    <3>u. v.part = "up" =>
            Loaded(V5Load(v, t), SubSeq(Row(v, t), Up(Len(Row(v, t)), 2) + 1, Len(Row(v, t))),
                   <<Len(Row(v, t)) - Up(Len(Row(v, t)), 2)>> \o SubSeq(t.shape, 3, Len(t.shape)), t.dtype)
          BY <1>4, <2>9, V5LoadIs, Zenon
    <3>6. CASE v.part = "down"
      <4>2. RawLoad(x).rows = row  BY <3>2, <3>5, <3>6, <3>d DEF Loaded
      <4>3. FirstRow(v) = a + 0 /\ Rows(v) = k /\ a + 0 = a
            BY <2>3, <2>4, <2>7, <2>9, <3>6 DEF FirstRow, Rows
      <4> QED  BY <2>6, <2>7, <4>2, <4>3
    <3>7. CASE v.part = "gate"
      <4>1. RawLoad(x).rows = SubSeq(Row(v, t), 1, Up(Len(Row(v, t)), 2))
            BY <3>5, <3>7, <3>g DEF Loaded
      <4>2. PICK p : p = SubSeq(row, 1, half)  OBVIOUS
      <4>3. RawLoad(x).rows = p  BY <3>2, <3>3, <4>1, <4>2
      <4>4. FirstRow(v) = a + 0 /\ Rows(v) = half  BY <2>3, <2>4, <2>7, <2>9, <3>4, <3>7 DEF FirstRow, Rows
      <4>5. 0 + 1 = 1 /\ 0 + half = half /\ 0 + half <= k  BY <3>4
      <4>6. p = SubSeq(row, 0 + 1, 0 + half)  BY <4>2, <4>5
      <4>7. Span(p, v.of, a + 0, half)
        <5>1. Span(row, v.of, a, k)  BY <2>6, <2>7
        <5>2. 0 \in Nat  OBVIOUS
        <5> QED  BY <3>4, <4>5, <4>6, <5>1, <5>2, SubSpan
      <4> QED  BY <4>3, <4>4, <4>7
    <3>8. CASE v.part = "up"
      <4>1. RawLoad(x).rows = SubSeq(Row(v, t), Up(Len(Row(v, t)), 2) + 1, Len(Row(v, t)))
            BY <3>5, <3>8, <3>u DEF Loaded
      <4>2. PICK p : p = SubSeq(row, half + 1, Len(row))  OBVIOUS
      <4>3. RawLoad(x).rows = p  BY <3>2, <3>3, <4>1, <4>2
      <4>4. FirstRow(v) = a + half /\ Rows(v) = k - half  BY <2>3, <2>4, <2>7, <2>9, <3>4, <3>8 DEF FirstRow, Rows
      <4>5. PICK d \in Nat : d = k - half  BY <3>4
      <4>6. half + d = k /\ half + d <= k  BY <2>4, <3>4, <4>5
      <4>7. p = SubSeq(row, half + 1, half + d)  BY <2>8, <4>2, <4>6
      <4>8. Span(p, v.of, a + half, d)
        <5>1. Span(row, v.of, a, k)  BY <2>6, <2>7
        <5> QED  BY <3>4, <4>6, <4>7, <5>1, SubSpan
      <4> QED  BY <4>3, <4>4, <4>5, <4>8
    <3>9. v.part \in {"gate", "up", "down"}
      <4>1. V5Name(x, v)  BY <2>9 DEF Virtual, RenamedName, GptOssName, DbrxName
      <4> QED  BY <4>1 DEF V5Name, PartOf
    <3> QED  BY <3>6, <3>7, <3>8, <3>9
  <2>10. CASE v.kind \in {"gpt_oss", "dbrx"}
    <3>1. FirstRow(v) = a + 0 /\ Rows(v) = k /\ a + 0 = a
          BY <2>3, <2>4, <2>7, <2>10 DEF FirstRow, Rows
    <3>2. RawLoad(x).rows = row
      <4>1. CASE v.kind = "gpt_oss"
        <5>2. GptOssName(x, v)  BY <4>1 DEF Virtual, RenamedName, V5Name, DbrxName
        <5>3. t.shape[1] = c  BY <1>4, <2>1, <4>1, <5>2 DEF Cuts, GptOssName
        <5>4. RawLoad(x).rows = Part(t, t.shape[1], v.expert)  BY <1>1, <4>1, RawLoadIs DEF Loaded, Row
        <5> QED  BY <2>3, <2>5, <5>3, <5>4
      <4>2. CASE v.kind = "dbrx"
        <5>2. x.at = v.of.at  BY VirtualFields
        <5>3. Conf(x).experts = c  BY <2>1, <4>2, <5>2 DEF Cuts, Conf
        <5>4. RawLoad(x).rows = Part(t, Conf(x).experts, v.expert)  BY <1>1, <4>2, RawLoadIs DEF Loaded
        <5> QED  BY <2>3, <2>5, <5>3, <5>4
      <4> QED  BY <2>10, <4>1, <4>2
    <3> QED  BY <2>6, <2>7, <3>1, <3>2
  <2>11. v.kind \in {"v5", "gpt_oss", "dbrx"}  BY <1>6, VirtualFields
  <2> QED  BY <2>9, <2>10, <2>11
<1> QED  BY <1>5, <1>6
-----------------------------------------------------------------------------
(* The shape of a stack of matrices.                                       *)
LEMMA StackShape ==
  ASSUME NEW s \in Seq(Nat \ {0}), Len(s) = 3
  PROVE  /\ s[1] \in Nat \ {0} /\ s[2] \in Nat \ {0} /\ s[3] \in Nat \ {0} /\ s = <<s[1], s[2], s[3]>>
         /\ Prod(Front(s)) = s[1] * s[2] /\ Prod(Front(s)) \div s[1] = s[2]
         /\ \A h \in Int : <<h>> \o SubSeq(s, 3, Len(s)) = <<h, s[3]>>
<1>1. PICK X : X = Nat \ {0}  OBVIOUS
<1>2. s \in Seq(X)  BY <1>1
<1>3. PICK a, b, c \in X : a = s[1] /\ b = s[2] /\ c = s[3] /\ s = <<a, b, c>> /\ SubSeq(s, 3, 3) = <<c>>
      BY <1>2, ThreeEntries
<1>4. a \in Nat /\ b \in Nat /\ c \in Nat /\ a # 0  BY <1>1
<1>5. Prod(Front(s)) = a * b  BY <1>3, <1>4, FrontOfThree
<1>6. (a * b) \div a = b  BY <1>4, DivProduct
<1>7. ASSUME NEW h \in Int PROVE <<h>> \o SubSeq(s, 3, Len(s)) = <<h, c>>
  <2>1. SubSeq(s, 3, Len(s)) = <<c>>  BY <1>3
  <2>2. PICK u, v, w : u = <<h>> /\ v = <<c>> /\ w = <<h, c>>  OBVIOUS
  <2>3. /\ u \in Seq(Int) /\ v \in Seq(Int) /\ w \in Seq(Int)
        /\ Len(u) = 1 /\ Len(v) = 1 /\ Len(w) = 2 /\ u[1] = h /\ v[1] = c /\ w[1] = h /\ w[2] = c
        BY <1>4, <2>2
  <2>4. \A i \in 1 .. Len(u) : w[i] = u[i]  BY <2>3
  <2>5. \A i \in 1 .. Len(v) : w[Len(u) + i] = v[i]  BY <2>3
  <2>6. Len(w) = Len(u) + Len(v)  BY <2>3
  <2>7. w = u \o v  BY <2>3, <2>4, <2>5, <2>6, ConcatIs, Zenon
  <2> QED  BY <2>1, <2>2, <2>7
<1> QED  BY <1>1, <1>3, <1>5, <1>6, <1>7

(* One row more.                                                           *)
Grown(s, t) == \E a, c \in Nat : c > 0 /\ s = <<a, c>> /\ t = <<a + 1, c>>
(* Of two such tensors the longer has more entries.                        *)
LEMMA MoreEntries ==
  ASSUME NEW a \in Nat, NEW b \in Nat, NEW c \in Nat \ {0}, NEW k \in Nat \ {0},
         Prod(<<a, c>>) * k = Prod(<<b, c>>) * k
  PROVE  a = b
<1>1. Prod(<<a, c>>) = a * c /\ Prod(<<b, c>>) = b * c  BY ProdTwo
<1>2. PICK m \in Nat \ {0} : m = c * k
  <2>1. c * k \in Nat \ {0}  OBVIOUS
  <2> QED  BY <2>1
<1>3. a * c * k = m * a /\ b * c * k = m * b  BY <1>2
<1>4. m * a = m * b  BY <1>1, <1>3
<1>5. (m * a) \div m = a /\ (m * b) \div m = b  BY DivProduct
<1> QED  BY <1>4, <1>5

(* No dtype has items of no bytes.                                         *)
LEMMA ItemSizeType == ASSUME NEW dtype PROVE ItemSize(dtype) \in Nat \ {0}
<1>1. CASE dtype \in {"float32", "int32"}
  <2>1. dtype \notin {"float16", "bfloat16"}  BY <1>1
  <2>2. ItemSize(dtype) = 4  BY <1>1, <2>1, Zenon DEF ItemSize
  <2> QED  BY <2>2
<1>2. CASE dtype \in {"float16", "bfloat16"}
  <2>1. dtype \notin {"float32", "int32"}  BY <1>2
  <2>2. ItemSize(dtype) = 2  BY <1>2, <2>1, Zenon DEF ItemSize
  <2> QED  BY <2>2
<1>3. CASE dtype \notin {"float32", "int32"} /\ dtype \notin {"float16", "bfloat16"}
  <2>2. ItemSize(dtype) = 1  BY <1>3, Zenon DEF ItemSize
  <2> QED  BY <2>2
<1> QED  BY <1>1, <1>2, <1>3

(* What is announced of a part of a fused tensor, and what load returns:    *)
(* the first half is the larger.                                           *)
LEMMA V5Shapes ==
  ASSUME InputOK, NEW x \in DOMAIN virtual, NEW v, v = virtual[x], V5Name(x, v)
  PROVE  /\ RawSpec(x).shape \in Seq(Nat) /\ RawLoad(x).dtype = RawSpec(x).dtype
         /\ v.part \in {"down", "up"} => RawLoad(x).shape = RawSpec(x).shape
         /\ v.part = "gate" => \E c \in Nat : /\ c > 0 /\ RawLoad(x).shape = <<Up(Per(v), 2), c>>
                                            /\ RawSpec(x).shape = <<Per(v) \div 2, c>>
<1>1. PICK t : t = Tensor(x)  OBVIOUS
<1>2. Virtual(x, v) /\ v.of \in Listed  BY DEF V5Name, Virtual
<1>3. PICK s \in Seq(Nat \ {0}) : s = Source(v.of).shape  BY <1>2, ListedName
<1>4. IsTensor(t) /\ t.shape = s  BY <1>1, <1>3 DEF Tensor, SourceLoad, IsTensor
<1>5. PICK X : X = Nat \ {0}  OBVIOUS
<1>6. s \in Seq(X)  BY <1>5
<1>7. v.kind = "v5" /\ Len(s) = 3 /\ v.part \in {"gate", "up", "down"} /\ v.kind \in {"v5", "renamed"}
      BY <1>3 DEF V5Name, V5Expands, PartOf
<1>8. RawSpec(x).dtype = t.dtype  BY <1>1, RawSpecIs
<1>9. RawLoad(x) = V5Load(v, t)  BY <1>1, <1>7, RawLoadIs, Zenon
<1>10. RawSpec(x).shape = V5Shape(v, s)  BY <1>1, <1>4, <1>7, RawSpecIs, Zenon
<1>11. PICK a, b, c \in Nat \ {0} : a = s[1] /\ b = s[2] /\ c = s[3]  BY <1>7, StackShape
<1>12. /\ \A h \in Int : <<h>> \o SubSeq(s, 3, Len(s)) = <<h, c>>
       /\ RowCount(v.of) \div a = b
       BY <1>3, <1>7, <1>11, StackShape DEF RowCount
<1>13. Per(v) = b  BY <1>3, <1>7, <1>11, <1>12 DEF Per, Cuts
<1>14. Len(Row(v, t)) = b
  <2>1. Span(t.rows, v.of, 0, RowCount(v.of))  BY <1>1, <1>2, SourceSpan DEF Tensor
  <2>2. v.expert \in 0 .. a - 1  BY <1>3, <1>11 DEF V5Name
  <2>3. PICK l : l = RowCount(v.of)  OBVIOUS
  <2>4. Span(Part(t, a, v.expert), v.of, v.expert * (l \div a), l \div a)  BY <2>1, <2>2, <2>3, PartSpan
  <2>5. Row(v, t) = Part(t, a, v.expert)  BY <1>4, <1>11 DEF Row
  <2> QED  BY <1>12, <2>3, <2>4, <2>5 DEF Span
<1>15. PICK u, h \in Nat : u = Up(b, 2) /\ h = b \div 2 /\ b - u = h  BY <1>11, UpHalf
<1>16. <<h, c>> \in Seq(Nat) /\ c \in Nat /\ c > 0  BY <1>11
<1>17. CASE v.part = "down"
  <2>1. Loaded(V5Load(v, t), Row(v, t), Tail(t.shape), t.dtype)  BY <1>4, <1>7, <1>17, V5LoadIs, Zenon
  <2>2. V5Shape(v, s) = Tail(s)  BY <1>7, <1>17, V5ShapeIs, Zenon
  <2>3. Tail(s) \in Seq(Nat)
    <3>1. s \in Seq(Nat)  OBVIOUS
    <3> QED  BY <1>7, <3>1, ThreeEntries
  <2> QED  BY <1>4, <1>8, <1>9, <1>10, <1>17, <2>1, <2>2, <2>3 DEF Loaded
<1>18. v.part # "down" => RawSpec(x).shape = <<h, c>>
  <2>1. v.part # "down" => v.part \in {"gate", "up"}  BY <1>7
  <2>2. v.part # "down" => V5Shape(v, s) = <<s[2] \div 2>> \o SubSeq(s, 3, Len(s))
        BY <1>7, <2>1, V5ShapeIs, Zenon
  <2>3. <<h>> \o SubSeq(s, 3, Len(s)) = <<h, c>>  BY <1>12
  <2> QED  BY <1>10, <1>11, <1>15, <2>2, <2>3
<1>19. CASE v.part = "gate"
  <2>1. Loaded(V5Load(v, t), SubSeq(Row(v, t), 1, Up(Len(Row(v, t)), 2)),
               <<Up(Len(Row(v, t)), 2)>> \o SubSeq(t.shape, 3, Len(t.shape)), t.dtype)
        BY <1>4, <1>7, <1>19, V5LoadIs, Zenon
  <2>2. V5Load(v, t).shape = <<u>> \o SubSeq(s, 3, Len(s)) /\ V5Load(v, t).dtype = t.dtype
        BY <1>4, <1>14, <1>15, <2>1 DEF Loaded
  <2>3. V5Load(v, t).shape = <<u, c>>  BY <1>12, <2>2
  <2> QED  BY <1>8, <1>9, <1>13, <1>15, <1>16, <1>18, <1>19, <2>2, <2>3
<1>20. CASE v.part = "up"
  <2>1. Loaded(V5Load(v, t), SubSeq(Row(v, t), Up(Len(Row(v, t)), 2) + 1, Len(Row(v, t))),
               <<Len(Row(v, t)) - Up(Len(Row(v, t)), 2)>> \o SubSeq(t.shape, 3, Len(t.shape)), t.dtype)
        BY <1>4, <1>7, <1>20, V5LoadIs, Zenon
  <2>2. V5Load(v, t).shape = <<h>> \o SubSeq(s, 3, Len(s)) /\ V5Load(v, t).dtype = t.dtype
        BY <1>4, <1>14, <1>15, <2>1 DEF Loaded
  <2>3. V5Load(v, t).shape = <<h, c>>  BY <1>12, <2>2
  <2> QED  BY <1>8, <1>9, <1>16, <1>18, <1>20, <2>2, <2>3
<1> QED  BY <1>7, <1>17, <1>19, <1>20

(* What is announced of a name is what load returns, or one row less of a  *)
(* gate matrix.                                                            *)
LEMMA RawShapes ==
  ASSUME InputOK, NEW x, x \in Listed \/ x \in DOMAIN virtual, x \in DOMAIN virtual => Virtual(x, virtual[x])
  PROVE  /\ RawLoad(x).dtype = RawSpec(x).dtype
         /\ RawSpec(x).shape \in Seq(Nat)
         /\ RawLoad(x).shape = RawSpec(x).shape \/ Grown(RawSpec(x).shape, RawLoad(x).shape)
<1>1. CASE x \notin DOMAIN virtual
  <2>1. PICK s \in Seq(Nat \ {0}) : s = Source(x).shape  BY <1>1, ListedName
  <2>2. RawSpec(x).shape = s /\ RawSpec(x).dtype = Source(x).dtype  BY <1>1, <2>1 DEF RawSpec
  <2>3. RawLoad(x).shape = s /\ RawLoad(x).dtype = Source(x).dtype  BY <1>1, <2>1 DEF RawLoad, SourceLoad
  <2>4. s \in Seq(Nat)  OBVIOUS
  <2> QED  BY <2>2, <2>3, <2>4
<1>2. CASE x \in DOMAIN virtual
  <2>1. PICK v : v = virtual[x]  OBVIOUS
  <2>2. PICK t : t = Tensor(x)  OBVIOUS
  <2>3. Virtual(x, v) /\ v.of \in Listed  BY <1>2, <2>1, VirtualFields
  <2>4. PICK s \in Seq(Nat \ {0}) : s = Source(v.of).shape  BY <2>3, ListedName
  <2>5. IsTensor(t) /\ t.shape = s  BY <2>1, <2>2, <2>4 DEF Tensor, SourceLoad, IsTensor
  <2>6. s \in Seq(Nat)  OBVIOUS
  <2>7. RawSpec(x).dtype = t.dtype  BY <1>2, <2>2, RawSpecIs
  <2>8. CASE RenamedName(x, v)
    <3>1. v.kind = "renamed"  BY <2>8 DEF RenamedName
    <3>2. RawLoad(x) = t  BY <1>2, <2>1, <2>2, <2>5, <3>1, RawLoadIs, V5LoadIs, Zenon
    <3>3. RawSpec(x).shape = s  BY <1>2, <2>1, <2>2, <2>5, <3>1, RawSpecIs, V5ShapeIs, Zenon
    <3> QED  BY <2>5, <2>6, <2>7, <3>2, <3>3
  <2>9. CASE V5Name(x, v)
    <3>1. /\ RawSpec(x).shape \in Seq(Nat) /\ RawLoad(x).dtype = RawSpec(x).dtype
          /\ v.part \in {"down", "up"} => RawLoad(x).shape = RawSpec(x).shape
          /\ v.part = "gate" => \E c \in Nat : /\ c > 0 /\ RawLoad(x).shape = <<Up(Per(v), 2), c>>
                                             /\ RawSpec(x).shape = <<Per(v) \div 2, c>>
          BY <1>2, <2>1, <2>9, V5Shapes
    <3>2. v.part \in {"gate", "up", "down"}  BY <2>9 DEF V5Name, PartOf
    <3>3. CASE v.part = "gate"
      <4>1. PICK c \in Nat : c > 0 /\ RawLoad(x).shape = <<Up(Per(v), 2), c>> /\ RawSpec(x).shape = <<Per(v) \div 2, c>>
            BY <3>1, <3>3
      <4>2. PICK k \in Nat : k = Per(v)  BY <2>9, CutsType DEF Virtual, V5Name
      <4>3. PICK h \in Nat : h = k \div 2 /\ (Up(k, 2) = h \/ Up(k, 2) = h + 1)  BY UpHalf
      <4>4. RawLoad(x).shape = <<h, c>> \/ RawLoad(x).shape = <<h + 1, c>>  BY <4>1, <4>2, <4>3
      <4>5. RawSpec(x).shape = <<h, c>>  BY <4>1, <4>2, <4>3
      <4> QED  BY <3>1, <4>1, <4>4, <4>5 DEF Grown
    <3> QED  BY <3>1, <3>2, <3>3
  <2>10. CASE GptOssName(x, v)
    <3>1. v.kind = "gpt_oss" /\ v.of.expert = Fused  BY <2>10 DEF GptOssName, GptOssExpands
    <3>2. Loaded(RawLoad(x), Row(v, t), Collapse(x, Tail(t.shape)), t.dtype)
          BY <1>2, <2>1, <2>2, <3>1, RawLoadIs, Zenon
    <3>3. RawSpec(x).shape = Collapse(x, Tail(t.shape))  BY <1>2, <2>1, <2>2, <3>1, RawSpecIs, Zenon
    <3>4. Len(s) > 1  BY <2>3, <2>4, <3>1, ListedName
    <3>5. PICK r : r = Tail(s)  OBVIOUS
    <3>6. r \in Seq(Nat)  BY <2>6, <3>4, <3>5
    <3>7. Collapse(x, r) \in Seq(Nat)
      <4>1. CASE Len(r) = 3
        <5>1. PICK a, b, c \in Nat : a = r[1] /\ b = r[2] /\ c = r[3]  BY <3>6, <4>1, ThreeEntries
        <5>2. PICK m \in Nat : m = b * c  OBVIOUS
        <5>3. <<a, m>> \in Seq(Nat)  OBVIOUS
        <5>4. Collapse(x, r) = <<a, m>> \/ Collapse(x, r) = r  BY <5>1, <5>2 DEF Collapse
        <5> QED  BY <3>6, <5>3, <5>4
      <4>2. CASE Len(r) # 3
        <5>1. Collapse(x, r) = r  BY <4>2 DEF Collapse
        <5> QED  BY <3>6, <5>1
      <4> QED  BY <4>1, <4>2
    <3> QED  BY <2>5, <2>7, <3>2, <3>3, <3>5, <3>7 DEF Loaded
  <2>11. CASE DbrxName(x, v)
    <3>1. v.kind = "dbrx" /\ v.of.expert = Fused /\ Conf(v.of).experts > 0  BY <2>11 DEF DbrxName, DbrxExpands
    <3>2. Loaded(RawLoad(x), Part(t, Conf(x).experts, v.expert), DbrxShape(x, t.shape), t.dtype)
          BY <1>2, <2>1, <2>2, <3>1, RawLoadIs, Zenon
    <3>3. RawSpec(x).shape = DbrxShape(x, t.shape)  BY <1>2, <2>1, <2>2, <3>1, RawSpecIs, Zenon
    <3>4. Len(s) > 1  BY <2>3, <2>4, <3>1, ListedName
    <3>5. x.at = v.of.at  BY <2>3, VirtualFields
    <3>6. PICK c \in Nat : c = Conf(x).experts /\ c > 0
      <4>1. Conf(x) = Conf(v.of)  BY <3>5 DEF Conf
      <4>2. Conf(v.of).experts \in Nat  BY <2>3, ListedName
      <4> QED  BY <3>1, <4>1, <4>2
    <3>7. PICK r : r = Tail(s)  OBVIOUS
    <3>8. r \in Seq(Nat)  BY <2>6, <3>4, <3>7
    <3>9. PICK a \in Nat : a = s[1]  BY <3>4
    <3>10. PICK q \in Nat : q = a \div c
      <4>1. a \div c \in Nat  BY <3>6
      <4> QED  BY <4>1
    <3>11. <<q>> \o r \in Seq(Nat)
      <4>1. <<q>> \in Seq(Nat)  OBVIOUS
      <4> QED  BY <3>8, <4>1
    <3>12. DbrxShape(x, s) = <<q>> \o r  BY <3>6, <3>7, <3>9, <3>10 DEF DbrxShape
    <3> QED  BY <2>5, <2>7, <3>2, <3>3, <3>11, <3>12 DEF Loaded
  <2> QED  BY <2>3, <2>8, <2>9, <2>10, <2>11 DEF Virtual
<1> QED  BY <1>1, <1>2
-----------------------------------------------------------------------------
(* The kind of value a name's parts have.                                  *)
IsSpec(r) == r = [shape |-> r.shape, dtype |-> r.dtype]
(* raw_spec gives a shape and a dtype.                                     *)
LEMMA RawSpecRecord == ASSUME NEW x PROVE IsSpec(RawSpec(x))
<1>1. CASE x \notin DOMAIN virtual
  <2>1. PICK h, d : h = Source(x).shape /\ d = Source(x).dtype  OBVIOUS
  <2>2. RawSpec(x) = [shape |-> h, dtype |-> d]  BY <1>1, <2>1 DEF RawSpec
  <2> QED  BY <2>2 DEF IsSpec
<1>2. CASE x \in DOMAIN virtual
  <2>1. PICK v : v = virtual[x]  OBVIOUS
  <2>2. PICK s : s = Source(v.of)  OBVIOUS
  <2>3. PICK h : h = CASE v.kind \in {"v5", "renamed"} -> V5Shape(v, s.shape)
                       [] v.kind = "gpt_oss" -> Collapse(x, Tail(s.shape))
                       [] OTHER -> DbrxShape(x, s.shape)
        OBVIOUS
  <2>4. RawSpec(x) = [dtype |-> s.dtype, shape |-> h]  BY <1>2, <2>1, <2>2, <2>3, Zenon DEF RawSpec
  <2>5. IsSpec([dtype |-> s.dtype, shape |-> h])  BY DEF IsSpec
  <2> QED  BY <2>4, <2>5
<1> QED  BY <1>1, <1>2

(* An updated tensor is one,                                               *)
LEMMA ChangedTensor ==
  ASSUME NEW t, IsTensor(t), NEW rows, NEW shape, NEW dtype
  PROVE  /\ IsTensor([t EXCEPT !.rows = rows, !.shape = shape])
         /\ IsTensor([t EXCEPT !.dtype = dtype])
         /\ [t EXCEPT !.dtype = dtype].rows = t.rows /\ [t EXCEPT !.dtype = dtype].shape = t.shape
         /\ [t EXCEPT !.dtype = dtype].dtype = dtype
<1>1. PICK a, b, c : t = [shape |-> a, dtype |-> b, rows |-> c] /\ t.shape = a /\ t.dtype = b /\ t.rows = c
      BY DEF IsTensor
<1>2. PICK u : u = [shape |-> shape, dtype |-> b, rows |-> rows]  OBVIOUS
<1>3. IsTensor(u)  BY <1>2 DEF IsTensor
<1>4. [t EXCEPT !.rows = rows, !.shape = shape] = u
  <2>1. PICK w : w = [t EXCEPT !.rows = rows, !.shape = shape]  OBVIOUS
  <2>2. DOMAIN w = {"shape", "dtype", "rows"} /\ w = [f \in DOMAIN w |-> w[f]]  BY <1>1, <2>1
  <2>3. w.shape = shape /\ w.dtype = b /\ w.rows = rows  BY <1>1, <2>1
  <2>4. w = [shape |-> shape, dtype |-> b, rows |-> rows]  BY <2>2, <2>3
  <2> QED  BY <1>2, <2>1, <2>4
<1>5. PICK w : w = [shape |-> a, dtype |-> dtype, rows |-> c]  OBVIOUS
<1>6. IsTensor(w)  BY <1>5 DEF IsTensor
<1>7. [t EXCEPT !.dtype = dtype] = w  BY <1>1, <1>5
<1>8. w.rows = c /\ w.shape = a /\ w.dtype = dtype  BY <1>5
<1> QED  BY <1>1, <1>3, <1>4, <1>6, <1>7, <1>8, Zenon

(* so V5Expansion loads one,                                               *)
LEMMA V5LoadTensor ==
  ASSUME NEW v, NEW t, IsTensor(t)
  PROVE  IsTensor(V5Load(v, t))
<1>0. PICK row : row = Part(t, t.shape[1], v.expert)  OBVIOUS
<1>1. PICK half : half = Up(Len(row), 2)  OBVIOUS
<1>2. PICK ra, sa : ra = SubSeq(row, 1, half) /\ sa = <<half>> \o SubSeq(t.shape, 3, Len(t.shape))  OBVIOUS
<1>3. PICK rb, sb : rb = SubSeq(row, half + 1, Len(row))
                    /\ sb = <<Len(row) - half>> \o SubSeq(t.shape, 3, Len(t.shape))  OBVIOUS
<1>4. PICK sc : sc = Tail(t.shape)  OBVIOUS
<1>5. V5Load(v, t) = CASE v.kind = "renamed" -> t
        [] v.kind = "v5" /\ v.part = "down" -> [t EXCEPT !.rows = row, !.shape = sc]
        [] v.kind = "v5" /\ v.part = "gate" -> [t EXCEPT !.rows = ra, !.shape = sa]
        [] OTHER -> [t EXCEPT !.rows = rb, !.shape = sb]
      BY <1>0, <1>1, <1>2, <1>3, <1>4, Zenon DEF V5Load
<1>6. /\ IsTensor([t EXCEPT !.rows = row, !.shape = sc])
      /\ IsTensor([t EXCEPT !.rows = ra, !.shape = sa])
      /\ IsTensor([t EXCEPT !.rows = rb, !.shape = sb])
      BY ChangedTensor
<1>7. "v5" # "renamed" /\ "gate" # "down"  OBVIOUS
<1>8. CASE v.kind = "renamed"
  <2>1. V5Load(v, t) = t  BY <1>5, <1>7, <1>8, Zenon
  <2> QED  BY <2>1
<1>9. CASE v.kind = "v5" /\ v.part = "down"
  <2>1. V5Load(v, t) = [t EXCEPT !.rows = row, !.shape = sc]  BY <1>5, <1>7, <1>9, Zenon
  <2> QED  BY <1>6, <2>1
<1>10. CASE v.kind = "v5" /\ v.part = "gate"
  <2>1. V5Load(v, t) = [t EXCEPT !.rows = ra, !.shape = sa]  BY <1>5, <1>7, <1>10, Zenon
  <2> QED  BY <1>6, <2>1
<1>11. CASE /\ v.kind # "renamed" /\ ~(v.kind = "v5" /\ v.part = "down") /\ ~(v.kind = "v5" /\ v.part = "gate")
  <2>1. V5Load(v, t) = [t EXCEPT !.rows = rb, !.shape = sb]  BY <1>5, <1>11, Zenon
  <2> QED  BY <1>6, <2>1
<1> QED  BY <1>8, <1>9, <1>10, <1>11

(* and every pass does.                                                    *)
LEMMA RawLoadTensor == ASSUME NEW x PROVE IsTensor(RawLoad(x))
<1>1. CASE x \notin DOMAIN virtual
  <2>1. RawLoad(x) = SourceLoad(x)  BY <1>1 DEF RawLoad
  <2> QED  BY <2>1 DEF SourceLoad, IsTensor
<1>2. CASE x \in DOMAIN virtual
  <2>1. PICK v : v = virtual[x]  OBVIOUS
  <2>2. PICK t : t = Tensor(x)  OBVIOUS
  <2>3. IsTensor(t)  BY <2>2 DEF Tensor, SourceLoad, IsTensor
  <2>4. RawLoad(x) = CASE v.kind \in {"v5", "renamed"} -> V5Load(v, t)
                       [] v.kind = "gpt_oss" -> GptOssLoad(x, v, t)
                       [] OTHER -> DbrxLoad(x, v, t)
        BY <1>2, <2>1, <2>2, Zenon DEF RawLoad, Tensor
  <2>5. \A k \in {"v5", "renamed"} : k # "gpt_oss"  OBVIOUS
  <2>6. IsTensor(GptOssLoad(x, v, t))
    <3>1. PICK r, s : r = Part(t, t.shape[1], v.expert) /\ s = Collapse(x, Tail(t.shape))  OBVIOUS
    <3>2. GptOssLoad(x, v, t) = [t EXCEPT !.rows = r, !.shape = s]  BY <3>1, Zenon DEF GptOssLoad
    <3>3. IsTensor([t EXCEPT !.rows = r, !.shape = s])  BY <2>3, ChangedTensor
    <3> QED  BY <3>2, <3>3
  <2>7. IsTensor(DbrxLoad(x, v, t))
    <3>1. PICK r, s : r = Part(t, Conf(x).experts, v.expert) /\ s = DbrxShape(x, t.shape)  OBVIOUS
    <3>2. DbrxLoad(x, v, t) = [t EXCEPT !.rows = r, !.shape = s]  BY <3>1, Zenon DEF DbrxLoad
    <3>3. IsTensor([t EXCEPT !.rows = r, !.shape = s])  BY <2>3, ChangedTensor
    <3> QED  BY <3>2, <3>3
  <2>8. IsTensor(V5Load(v, t))  BY <2>3, V5LoadTensor
  <2>9. RawLoad(x) = V5Load(v, t) \/ RawLoad(x) = GptOssLoad(x, v, t) \/ RawLoad(x) = DbrxLoad(x, v, t)
        BY <2>4, <2>5, Zenon
  <2> QED  BY <2>6, <2>7, <2>8, <2>9
<1> QED  BY <1>1, <1>2

(* What a cast changes.                                                    *)
CastTo(n, dtype) == IF KeepsRaw(n, dtype) THEN dtype ELSE ComputeDtype
(* The cast policy changes the dtype alone.                                *)
LEMMA CastIs ==
  ASSUME NEW n, NEW r
  PROVE  /\ IsSpec(r) => Cast(n, r).shape = r.shape /\ Cast(n, r).dtype = CastTo(n, r.dtype)
         /\ IsTensor(r) => Cast(n, r).rows = r.rows /\ Cast(n, r).shape = r.shape /\ Cast(n, r).dtype = CastTo(n, r.dtype)
<1>1. CASE KeepsRaw(n, r.dtype)
  <2>1. Cast(n, r) = r  BY <1>1 DEF Cast
  <2> QED  BY <1>1, <2>1 DEF CastTo
<1>2. CASE ~KeepsRaw(n, r.dtype)
  <2>1. Cast(n, r) = [r EXCEPT !.dtype = ComputeDtype]  BY <1>2 DEF Cast
  <2>2. IsSpec(r) => /\ [r EXCEPT !.dtype = ComputeDtype].shape = r.shape
                     /\ [r EXCEPT !.dtype = ComputeDtype].dtype = ComputeDtype
        BY DEF IsSpec
  <2>3. CastTo(n, r.dtype) = ComputeDtype  BY <1>2 DEF CastTo
  <2>4. IsTensor(r) => /\ [r EXCEPT !.dtype = ComputeDtype].shape = r.shape
                       /\ [r EXCEPT !.dtype = ComputeDtype].rows = r.rows
                       /\ [r EXCEPT !.dtype = ComputeDtype].dtype = ComputeDtype
        BY ChangedTensor
  <2> QED  BY <2>1, <2>2, <2>3, <2>4
<1> QED  BY <1>1, <1>2

(* What is planned for a name.                                             *)
LEMMA SpecOfIs ==
  ASSUME NEW n
  PROVE  LET t == IF Pipeline THEN Source(n) ELSE IF WeightOf(n) \in weights THEN QuantSpec(n) ELSE Cast(n, RawSpec(n))
         IN  SpecOf(n).name = n /\ SpecOf(n).shape = t.shape /\ SpecOf(n).dtype = t.dtype
<1>1. PICK t : t = IF Pipeline THEN Source(n) ELSE IF WeightOf(n) \in weights THEN QuantSpec(n) ELSE Cast(n, RawSpec(n))  OBVIOUS
<1>2. SpecOf(n) = [name |-> n, shape |-> t.shape, dtype |-> t.dtype]  BY <1>1 DEF SpecOf
<1> QED  BY <1>1, <1>2
-----------------------------------------------------------------------------
(* A name and the name of its scale.                                       *)
LEMMA ScaleNames ==
  ASSUME NEW n, IsName(n)
  PROVE  /\ n.aux # ScaleAux => WeightOf(n) = n
         /\ n.aux = ScaleAux => WeightOf(n) # n
         /\ n.aux = "weight" => /\ WeightOf(n) = n /\ WeightOf(ScaleOf(n)) = n /\ ScaleOf(n) # n
                                /\ ScaleOf(n).aux = ScaleAux
         /\ IsName(ScaleOf(n)) /\ ScaleAux # "weight"
<1>1. PICK a : a = ScaleAux  OBVIOUS
<1>2. a # "weight"  BY <1>1 DEF ScaleAux
<1>3. PICK m : m = Changed(n, n.block, n.expert, n.field, a)  OBVIOUS
<1>4. ScaleOf(n) = m /\ IsName(m) /\ m.aux = a  BY <1>1, <1>3, ChangedAux, ChangedFields DEF ScaleOf
<1>5. n.aux # a => WeightOf(n) = n  BY <1>1 DEF WeightOf
<1>6. PICK u : u = Changed(n, n.block, n.expert, n.field, "weight")  OBVIOUS
<1>7. u = [n EXCEPT !.aux = "weight"] /\ u.aux = "weight"  BY <1>6, ChangedAux, ChangedFields
<1>8. n.aux = a => WeightOf(n) = u  BY <1>1, <1>7 DEF WeightOf
<1>9. n.aux = a => WeightOf(n) # n  BY <1>2, <1>7, <1>8
<1>10. n.aux = "weight" => WeightOf(m) = n
  <2> SUFFICES ASSUME n.aux = "weight" PROVE WeightOf(m) = n  OBVIOUS
  <2>1. WeightOf(m) = [m EXCEPT !.aux = "weight"]  BY <1>1, <1>4 DEF WeightOf
  <2>2. [m EXCEPT !.aux = "weight"] = Changed(m, m.block, m.expert, m.field, "weight")  BY <1>4, ChangedAux
  <2>3. Changed(m, m.block, m.expert, m.field, "weight") = n  BY <1>3 DEF Changed, IsName
  <2> QED  BY <2>1, <2>2, <2>3
<1> QED  BY <1>1, <1>2, <1>4, <1>5, <1>9, <1>10

(* What is announced of a quantized weight and its scale,                  *)
LEMMA QuantSpecIs ==
  ASSUME NEW n
  PROVE  LET s == RawSpec(WeightOf(n)).shape  q == QuantSpec(n) IN
         /\ mode = "fp8" /\ n.aux = ScaleAux => q.dtype = "float32" /\ q.shape = <<Up(s[1], Fp8Block), Up(s[2], Fp8Block)>>
         /\ mode = "fp8" /\ n.aux # ScaleAux => q.dtype = "float8_e4m3fn" /\ q.shape = s
         /\ mode # "fp8" /\ n.aux = ScaleAux => q.dtype = "uint8" /\ q.shape = <<s[1], s[2] \div Fp4Block>>
         /\ mode # "fp8" /\ n.aux # ScaleAux => q.dtype = "uint8" /\ q.shape = <<s[1], s[2] \div 2>>
<1>1. PICK s : s = RawSpec(WeightOf(n)).shape  OBVIOUS
<1>2. PICK a, b, c : /\ a = <<Up(s[1], Fp8Block), Up(s[2], Fp8Block)>>
                     /\ b = <<s[1], s[2] \div Fp4Block>> /\ c = <<s[1], s[2] \div 2>>  OBVIOUS
<1>3. /\ mode = "fp8" /\ n.aux = ScaleAux => QuantSpec(n) = [dtype |-> "float32", shape |-> a]
      /\ mode = "fp8" /\ n.aux # ScaleAux => QuantSpec(n) = [dtype |-> "float8_e4m3fn", shape |-> s]
      /\ mode # "fp8" /\ n.aux = ScaleAux => QuantSpec(n) = [dtype |-> "uint8", shape |-> b]
      /\ mode # "fp8" /\ n.aux # ScaleAux => QuantSpec(n) = [dtype |-> "uint8", shape |-> c]
      BY <1>1, <1>2, Zenon DEF QuantSpec
<1> QED  BY <1>1, <1>2, <1>3

(* and what the quantizer makes of it.                                     *)
LEMMA QuantIs ==
  ASSUME NEW t, IsTensor(t)
  PROVE  LET w == Quant(t).weight  q == Quant(t).scale IN
         /\ w.rows = t.rows /\ q.rows = <<>>
         /\ mode = "fp8" => /\ w.dtype = "float8_e4m3fn" /\ w.shape = t.shape /\ q.dtype = "float32"
                            /\ q.shape = <<(Up(t.shape[1], Fp8Block) * Fp8Block) \div Fp8Block,
                                           (Up(t.shape[2], Fp8Block) * Fp8Block) \div Fp8Block>>
         /\ mode # "fp8" => /\ w.dtype = "uint8" /\ w.shape = <<t.shape[1], t.shape[2] \div 2>> /\ q.dtype = "uint8"
                            /\ q.shape = <<t.shape[1], t.shape[2] \div Fp4Block>>
<1>0. PICK a, b, c : t = [shape |-> a, dtype |-> b, rows |-> c] /\ t.shape = a /\ t.dtype = b /\ t.rows = c
      BY DEF IsTensor
<1>1. CASE mode = "fp8"
  <2>1. PICK h : h = <<(Up(a[1], Fp8Block) * Fp8Block) \div Fp8Block, (Up(a[2], Fp8Block) * Fp8Block) \div Fp8Block>>
        OBVIOUS
  <2>2. PICK w : w = [t EXCEPT !.dtype = "float8_e4m3fn"]  OBVIOUS
  <2>3. w.rows = c /\ w.shape = a /\ w.dtype = "float8_e4m3fn"  BY <1>0, <2>2
  <2>4. Quant(t) = [weight |-> w, scale |-> [rows |-> <<>>, dtype |-> "float32", shape |-> h]]
        BY <1>0, <1>1, <2>1, <2>2 DEF Quant, Fp8Quant
  <2>5. Quant(t).weight = w /\ Quant(t).scale.rows = <<>> /\ Quant(t).scale.dtype = "float32" /\ Quant(t).scale.shape = h
        BY <2>4
  <2> QED  BY <1>0, <1>1, <2>1, <2>3, <2>5
<1>2. CASE mode # "fp8"
  <2>1. PICK h, k : h = <<a[1], a[2] \div 2>> /\ k = <<a[1], a[2] \div Fp4Block>>  OBVIOUS
  <2>2. PICK w : w = [t EXCEPT !.dtype = "uint8", !.shape = <<@[1], @[2] \div 2>>]  OBVIOUS
  <2>3. w.rows = c /\ w.shape = h /\ w.dtype = "uint8"  BY <1>0, <2>1, <2>2
  <2>4. Quant(t) = [weight |-> w, scale |-> [rows |-> <<>>, dtype |-> "uint8", shape |-> k]]
        BY <1>0, <1>2, <2>1, <2>2 DEF Quant, Fp4Quant
  <2>5. Quant(t).weight = w /\ Quant(t).scale.rows = <<>> /\ Quant(t).scale.dtype = "uint8" /\ Quant(t).scale.shape = k
        BY <2>4
  <2> QED  BY <1>0, <1>2, <2>1, <2>3, <2>5
<1> QED  BY <1>1, <1>2

(* A row more is more bytes.                                               *)
LEMMA GrownBytes ==
  ASSUME NEW s, NEW t, Grown(s, t), NEW k \in Nat \ {0}, Prod(s) * k = Prod(t) * k
  PROVE  FALSE
<1>1. PICK a, c \in Nat : c > 0 /\ s = <<a, c>> /\ t = <<a + 1, c>>  BY DEF Grown
<1>2. PICK b \in Nat : b = a + 1  OBVIOUS
<1>3. Prod(<<a, c>>) * k = Prod(<<b, c>>) * k  BY <1>1, <1>2
<1>4. c \in Nat \ {0}  BY <1>1
<1>5. a = b  BY <1>3, <1>4, MoreEntries
<1> QED  BY <1>2, <1>5
-----------------------------------------------------------------------------
(* A weight is a name, and one that is not the scale of any is known.      *)
LEMMA WeightName ==
  ASSUME ConvertInv, NEW w \in weights
  PROVE  /\ w \in Listed \/ w \in DOMAIN virtual
         /\ IsName(w) /\ w.aux = "weight" /\ WeightOf(w) = w /\ WeightOf(ScaleOf(w)) = w
<1>1. (w \in Listed \/ w \in DOMAIN virtual) /\ w.aux = "weight"  BY DEF ConvertInv, WeightsInv, Quantizes
<1>2. InputOK /\ (w \in DOMAIN virtual => Virtual(w, virtual[w]))  BY DEF ConvertInv, StepInv, NamesInv
<1>3. IsName(w)  BY <1>1, <1>2, ListedName, VirtualFields
<1> QED  BY <1>1, <1>3, ScaleNames

(* A name that is neither a weight to quantize nor its scale was listed or *)
(* made.                                                                   *)
LEMMA KnownName ==
  ASSUME ConvertInv, NEW n \in ToSet(names), WeightOf(n) \notin weights
  PROVE  n \in Listed \/ n \in DOMAIN virtual
<1>1. \A w \in weights : n # ScaleOf(w)  BY WeightName
<1> QED  BY <1>1 DEF ConvertInv, NamesInv

(* A member that is not quantized is announced as it is loaded,            *)
LEMMA RawAnnounced ==
  ASSUME ConvertInv, NEW n \in ToSet(names), ~Pipeline, WeightOf(n) \notin weights, Bytes(Value(n)) = Bytes(SpecOf(n))
  PROVE  Value(n).shape = SpecOf(n).shape /\ Value(n).dtype = SpecOf(n).dtype
<1>1. n \in Listed \/ n \in DOMAIN virtual  BY KnownName
<1>2. InputOK /\ (n \in DOMAIN virtual => Virtual(n, virtual[n]))  BY DEF ConvertInv, StepInv, NamesInv
<1>3. PICK r, l : r = RawSpec(n) /\ l = RawLoad(n)  OBVIOUS
<1>4. l.dtype = r.dtype /\ (l.shape = r.shape \/ Grown(r.shape, l.shape))  BY <1>1, <1>2, <1>3, RawShapes
<1>5. IsSpec(r) /\ IsTensor(l)  BY <1>3, RawSpecRecord, RawLoadTensor
<1>6. PICK d : d = CastTo(n, r.dtype)  OBVIOUS
<1>7. Value(n) = Cast(n, l)  BY <1>3 DEF Value
<1>8. Value(n).shape = l.shape /\ Value(n).dtype = d  BY <1>4, <1>5, <1>6, <1>7, CastIs
<1>9. SpecOf(n).shape = Cast(n, r).shape /\ SpecOf(n).dtype = Cast(n, r).dtype  BY <1>3, SpecOfIs
<1>10. SpecOf(n).shape = r.shape /\ SpecOf(n).dtype = d  BY <1>5, <1>6, <1>9, CastIs
<1>11. ~Grown(r.shape, l.shape)
  <2>1. Prod(l.shape) * ItemSize(d) = Prod(r.shape) * ItemSize(d)  BY <1>8, <1>10 DEF Bytes
  <2>2. PICK k \in Nat \ {0} : k = ItemSize(d)  BY ItemSizeType
  <2> QED  BY <2>1, <2>2, GrownBytes
<1> QED  BY <1>4, <1>8, <1>10, <1>11

(* as is a quantized weight and its scale,                                 *)
LEMMA Blocks ==
  ASSUME NEW a \in Nat, NEW b \in Nat \ {0}
  PROVE  (Up(a, b) * b) \div b = Up(a, b) /\ Up(a, b) \in Nat /\ (a > 0 => Up(a, b) > 0)
<1>1. PICK u : u = Up(a, b)  OBVIOUS
<1>2. u = (a + b - 1) \div b  BY <1>1 DEF Up
<1>3. PICK c \in Nat : c = a + b - 1
  <2>1. a + b - 1 \in Nat  OBVIOUS
  <2> QED  BY <2>1
<1>4. u \in Nat  BY <1>2, <1>3
<1>5. b * u = u * b /\ (b * u) \div b = u  BY <1>4, DivProduct
<1>6. a > 0 => u > 0
  <2> SUFFICES ASSUME a > 0, u = 0 PROVE FALSE  BY <1>4
  <2>1. c < b * (u + 1)  BY <1>2, <1>3
  <2>2. b * (u + 1) = b  OBVIOUS
  <2> QED  BY <1>3, <2>1, <2>2
<1> QED  BY <1>1, <1>4, <1>5, <1>6

(* A quantized member is as announced.                                     *)
LEMMA QuantAnnounced ==
  ASSUME ConvertInv, NEW n \in ToSet(names), WeightOf(n) \in weights, Bytes(Value(n)) = Bytes(SpecOf(n))
  PROVE  Value(n).shape = SpecOf(n).shape /\ Value(n).dtype = SpecOf(n).dtype
<1>1. PICK w \in weights : w = WeightOf(n)  OBVIOUS
<1>2. ~Pipeline /\ IsName(n)  BY NameType DEF ConvertInv, StepInv
<1>3. /\ w \in Listed \/ w \in DOMAIN virtual
      /\ Len(RawSpec(w).shape) = 2 /\ (mode = "fp4" => RawSpec(w).shape[2] % Fp4Block = 0)
      BY <1>1 DEF ConvertInv, WeightsInv
<1>4. InputOK /\ (w \in DOMAIN virtual => Virtual(w, virtual[w])) /\ mode \in {"fp8", "fp4"}
      BY <1>1 DEF ConvertInv, StepInv, NamesInv
<1>5. PICK r, l : r = RawSpec(w) /\ l = RawLoad(w)  OBVIOUS
<1>6. r.shape \in Seq(Nat) /\ (l.shape = r.shape \/ Grown(r.shape, l.shape))  BY <1>3, <1>4, <1>5, RawShapes
<1>7. PICK a, c \in Nat : r.shape = <<a, c>> /\ (mode = "fp4" => c % Fp4Block = 0)
  <2>1. PICK s \in Seq(Nat) : s = r.shape /\ Len(s) = 2  BY <1>3, <1>5, <1>6
  <2>2. PICK a, c \in Nat : a = s[1] /\ c = s[2]
    <3>1. 1 \in 1 .. Len(s) /\ 2 \in 1 .. Len(s)  BY <2>1
    <3> QED  BY <3>1, SeqEntry
  <2>3. s = <<a, c>>  BY <2>1, <2>2
  <2> QED  BY <1>3, <1>5, <2>1, <2>2, <2>3
<1>8. PICK b \in Nat : l.shape = <<b, c>> /\ (b = a \/ c > 0)
  <2>1. CASE l.shape = r.shape  BY <1>7, <2>1
  <2>2. CASE Grown(r.shape, l.shape)
    <3>1. PICK x, y \in Nat : y > 0 /\ <<a, c>> = <<x, y>> /\ l.shape = <<x + 1, y>>  BY <1>7, <2>2 DEF Grown
    <3>2. x + 1 \in Nat /\ y = c  BY <3>1
    <3> QED  BY <3>1, <3>2
  <2> QED  BY <1>6, <2>1, <2>2
<1>9. IsTensor(l)  BY <1>5, RawLoadTensor
<1>10. l.shape[1] = b /\ l.shape[2] = c /\ r.shape[1] = a /\ r.shape[2] = c  BY <1>7, <1>8
<1>11. SpecOf(n).shape = QuantSpec(n).shape /\ SpecOf(n).dtype = QuantSpec(n).dtype  BY <1>1, <1>2, SpecOfIs
<1>12. Value(n) = IF n = w THEN Quant(l).weight ELSE Quant(l).scale  BY <1>1, <1>2, <1>5 DEF Value
<1>13. (n = w) <=> n.aux # ScaleAux  BY <1>1, <1>2, ScaleNames
<1>14. Prod(Value(n).shape) * ItemSize(Value(n).dtype) = Prod(SpecOf(n).shape) * ItemSize(SpecOf(n).dtype)  BY DEF Bytes
<1>15. ASSUME NEW d, Value(n).dtype = d, SpecOf(n).dtype = d, NEW e \in Nat, c > 0 => e > 0, NEW p \in Nat, NEW q \in Nat,
              Value(n).shape = <<p, e>>, SpecOf(n).shape = <<q, e>>, b = a => p = q
       PROVE  Value(n).shape = SpecOf(n).shape /\ Value(n).dtype = SpecOf(n).dtype
  <2>1. PICK k \in Nat \ {0} : k = ItemSize(d)  BY ItemSizeType
  <2>2. Prod(<<p, e>>) * k = Prod(<<q, e>>) * k  BY <1>14, <1>15, <2>1
  <2>3. CASE c > 0
    <3>1. e \in Nat \ {0}  BY <1>15, <2>3
    <3>2. p = q  BY <2>2, <3>1, MoreEntries
    <3> QED  BY <1>15, <3>2
  <2>4. CASE b = a  BY <1>15, <2>4
  <2> QED  BY <1>8, <2>3, <2>4
<1>16. PICK f \in Nat \ {0} : f = Fp8Block  BY ConversionAssumption
<1>17. PICK g \in Nat \ {0} : g = Fp4Block /\ g # 1  BY ConversionAssumption
<1>18. CASE mode = "fp8" /\ n.aux = ScaleAux
  <2>1. /\ SpecOf(n).dtype = "float32" /\ SpecOf(n).shape = <<Up(a, f), Up(c, f)>>
    <3>1. QuantSpec(n).dtype = "float32" /\ QuantSpec(n).shape = <<Up(r.shape[1], Fp8Block), Up(r.shape[2], Fp8Block)>>
          BY <1>1, <1>5, <1>18, QuantSpecIs
    <3> QED  BY <1>10, <1>11, <1>16, <3>1
  <2>2. /\ Value(n).dtype = "float32"
        /\ Value(n).shape = <<(Up(b, f) * f) \div f, (Up(c, f) * f) \div f>>
    <3>1. /\ Quant(l).scale.dtype = "float32"
          /\ Quant(l).scale.shape = <<(Up(l.shape[1], Fp8Block) * Fp8Block) \div Fp8Block,
                                      (Up(l.shape[2], Fp8Block) * Fp8Block) \div Fp8Block>>
          BY <1>9, <1>18, QuantIs
    <3> QED  BY <1>10, <1>12, <1>13, <1>16, <1>18, <3>1
  <2>3. PICK p, q, e \in Nat : p = Up(b, f) /\ q = Up(a, f) /\ e = Up(c, f) /\ (c > 0 => e > 0)  BY Blocks
  <2>4. Value(n).shape = <<p, e>>  BY <2>2, <2>3, Blocks
  <2>5. SpecOf(n).shape = <<q, e>>  BY <2>1, <2>3
  <2>6. b = a => p = q  BY <2>3
  <2> QED  BY <1>15, <2>1, <2>2, <2>3, <2>4, <2>5, <2>6
<1>19. CASE mode = "fp8" /\ n.aux # ScaleAux
  <2>1. SpecOf(n).dtype = "float8_e4m3fn" /\ SpecOf(n).shape = <<a, c>>
    <3>1. QuantSpec(n).dtype = "float8_e4m3fn" /\ QuantSpec(n).shape = r.shape  BY <1>1, <1>5, <1>19, QuantSpecIs
    <3> QED  BY <1>7, <1>11, <3>1
  <2>2. Value(n).dtype = "float8_e4m3fn" /\ Value(n).shape = <<b, c>>
    <3>1. Quant(l).weight.dtype = "float8_e4m3fn" /\ Quant(l).weight.shape = l.shape  BY <1>9, <1>19, QuantIs
    <3> QED  BY <1>8, <1>12, <1>13, <1>19, <3>1
  <2> QED  BY <1>15, <2>1, <2>2
<1>20. CASE mode # "fp8" /\ n.aux = ScaleAux
  <2>1. SpecOf(n).dtype = "uint8" /\ SpecOf(n).shape = <<a, c \div g>>
    <3>1. QuantSpec(n).dtype = "uint8" /\ QuantSpec(n).shape = <<r.shape[1], r.shape[2] \div Fp4Block>>
          BY <1>1, <1>5, <1>20, QuantSpecIs
    <3> QED  BY <1>10, <1>11, <1>17, <3>1
  <2>2. Value(n).dtype = "uint8" /\ Value(n).shape = <<b, c \div g>>
    <3>1. Quant(l).scale.dtype = "uint8" /\ Quant(l).scale.shape = <<l.shape[1], l.shape[2] \div Fp4Block>>
          BY <1>9, <1>20, QuantIs
    <3> QED  BY <1>10, <1>12, <1>13, <1>17, <1>20, <3>1
  <2>3. c % g = 0  BY <1>4, <1>7, <1>17, <1>20
  <2>4. PICK e \in Nat : e = c \div g  BY <1>17
  <2>5. c > 0 => e > 0
    <3> SUFFICES ASSUME c > 0, e = 0 PROVE FALSE  BY <2>4
    <3>1. c = (g * e) + (c % g)  BY <2>4
    <3>2. g * e = 0  OBVIOUS
    <3> QED  BY <2>3, <3>1, <3>2
  <2>6. Value(n).shape = <<b, e>> /\ SpecOf(n).shape = <<a, e>>  BY <2>1, <2>2, <2>4
  <2> QED  BY <1>15, <2>1, <2>2, <2>4, <2>5, <2>6
<1>21. CASE mode # "fp8" /\ n.aux # ScaleAux
  <2>1. SpecOf(n).dtype = "uint8" /\ SpecOf(n).shape = <<a, c \div 2>>
    <3>1. QuantSpec(n).dtype = "uint8" /\ QuantSpec(n).shape = <<r.shape[1], r.shape[2] \div 2>>
          BY <1>1, <1>5, <1>21, QuantSpecIs
    <3> QED  BY <1>10, <1>11, <3>1
  <2>2. Value(n).dtype = "uint8" /\ Value(n).shape = <<b, c \div 2>>
    <3>1. Quant(l).weight.dtype = "uint8" /\ Quant(l).weight.shape = <<l.shape[1], l.shape[2] \div 2>>
          BY <1>9, <1>21, QuantIs
    <3> QED  BY <1>10, <1>12, <1>13, <1>21, <3>1
  <2>3. c % g = 0  BY <1>4, <1>7, <1>17, <1>21
  <2>4. PICK e \in Nat : e = c \div 2  OBVIOUS
  <2>5. c > 0 => e > 0
    <3> SUFFICES ASSUME c > 0, e = 0 PROVE FALSE  BY <2>4
    <3>1. c = 1  BY <2>4
    <3>2. PICK h \in Int : h = c \div g  BY <1>17
    <3>3. c = (g * h) + (c % g)  BY <1>17, <3>2
    <3>4. g * h = 1  BY <2>3, <3>1, <3>3
    <3>5. g * h <= 1 /\ g * h >= 1 /\ g >= 2  BY <1>17, <3>4
    <3>6. CASE h <= 0
      <4>1. g * h <= 0  BY <3>6
      <4> QED  BY <3>4, <4>1
    <3>7. CASE h >= 1
      <4>1. g * h >= g  BY <3>7
      <4> QED  BY <3>4, <3>5, <4>1
    <3> QED  BY <3>2, <3>6, <3>7
  <2>6. Value(n).shape = <<b, e>> /\ SpecOf(n).shape = <<a, e>>  BY <2>1, <2>2, <2>4
  <2> QED  BY <1>15, <2>1, <2>2, <2>4, <2>5, <2>6
<1> QED  BY <1>18, <1>19, <1>20, <1>21

(* A member in the store is the one planned.                               *)
LEMMA StoredIs ==
  ASSUME ConvertInv, NEW i \in DOMAIN store, NEW n, n = plan[i].name, NEW t, t = Value(n)
  PROVE  /\ i \in DOMAIN plan /\ n \in ToSet(names) /\ plan[i] = SpecOf(n)
         /\ store[i] = [name |-> n, rows |-> t.rows, shape |-> t.shape, dtype |-> t.dtype]
         /\ Bytes(Value(n)) = Bytes(SpecOf(n))
<1>1. store[i] = [name |-> n, rows |-> t.rows, shape |-> t.shape, dtype |-> t.dtype] /\ Bytes(t) = Bytes(plan[i])
      BY DEF ConvertInv, StoreInv, Stored
<1>2. i \in DOMAIN plan
  <2>1. IsSeq(store) /\ IsSeq(plan) /\ Len(store) <= Len(plan)  BY DEF ConvertInv, StoreInv, PlanInv
  <2>2. PICK k, l \in Nat : k = Len(store) /\ l = Len(plan) /\ DOMAIN store = 1 .. k /\ DOMAIN plan = 1 .. l
        BY <2>1, SeqEntries
  <2> QED  BY <2>1, <2>2
<1>3. n \in ToSet(names) /\ plan[i] = SpecOf(n)  BY <1>2 DEF ConvertInv, PlanInv
<1> QED  BY <1>1, <1>2, <1>3

(* and everything in the store.                                            *)
LEMMA IndexMatches == ConvertInv => IndexDescribesBytes
<1> SUFFICES ASSUME ConvertInv, NEW i \in DOMAIN store
             PROVE  store[i].shape = plan[i].shape /\ store[i].dtype = plan[i].dtype
    BY DEF IndexDescribesBytes
<1>1. PICK n : n = plan[i].name  OBVIOUS
<1>2. PICK t : t = Value(n)  OBVIOUS
<1>3. /\ n \in ToSet(names) /\ plan[i] = SpecOf(n)
      /\ store[i] = [name |-> n, rows |-> t.rows, shape |-> t.shape, dtype |-> t.dtype]
      /\ Bytes(Value(n)) = Bytes(SpecOf(n))
      BY <1>1, <1>2, StoredIs
<1>4. Value(n).shape = SpecOf(n).shape /\ Value(n).dtype = SpecOf(n).dtype
  <2>1. CASE Pipeline
    <3>1. SpecOf(n).shape = Source(n).shape /\ SpecOf(n).dtype = Source(n).dtype  BY <2>1, SpecOfIs
    <3>2. Value(n) = SourceLoad(n)  BY <2>1 DEF Value
    <3> QED  BY <3>1, <3>2 DEF SourceLoad
  <2>2. CASE ~Pipeline /\ WeightOf(n) \notin weights  BY <1>3, <2>2, RawAnnounced
  <2>3. CASE WeightOf(n) \in weights  BY <1>3, <2>3, QuantAnnounced
  <2> QED  BY <2>1, <2>2, <2>3
<1> QED  BY <1>2, <1>3, <1>4
-----------------------------------------------------------------------------
(* The source a name's rows are of.                                        *)
Origin(n) == IF n \in DOMAIN virtual THEN virtual[n].of ELSE n
(* All rows loaded for a name are of one tensor of the checkpoint.         *)
LEMMA OriginRows ==
  ASSUME InputOK, NEW n, n \in Listed \/ n \in DOMAIN virtual, n \in DOMAIN virtual => Virtual(n, virtual[n])
  PROVE  /\ Origin(n) \in Listed /\ Origin(n).at = n.at /\ RawLoad(n).dtype = Source(Origin(n)).dtype
         /\ \A r \in ToSet(RawLoad(n).rows) : r[1] = Origin(n)
<1>1. RawLoad(n).dtype = RawSpec(n).dtype  BY RawShapes
<1>2. CASE n \notin DOMAIN virtual
  <2>1. RawLoad(n) = SourceLoad(n) /\ Origin(n) = n /\ n \in Listed  BY <1>2 DEF RawLoad, Origin
  <2>2. PICK rows : rows = RawLoad(n).rows  OBVIOUS
  <2>3. PICK l : l = RowCount(n)  OBVIOUS
  <2>4. Span(rows, n, 0, l)  BY <2>1, <2>2, <2>3, SourceSpan
  <2>5. IsSeq(rows) /\ Len(rows) = l /\ \A j \in 1 .. l : rows[j] = <<n, 0 + j>>  BY <2>4 DEF Span
  <2>6. DOMAIN rows = 1 .. l  BY <2>5, SeqEntries
  <2>7. \A r \in ToSet(rows) : r[1] = n
    <3>1. \A j \in 1 .. l : rows[j][1] = n  BY <2>5
    <3> QED  BY <2>6, <3>1 DEF ToSet
  <2>8. RawSpec(n).dtype = Source(n).dtype  BY <1>2 DEF RawSpec
  <2> QED  BY <1>1, <2>1, <2>2, <2>7, <2>8
<1>3. CASE n \in DOMAIN virtual
  <2>1. PICK v : v = virtual[n]  OBVIOUS
  <2>2. Virtual(n, v) /\ Origin(n) = v.of  BY <1>3, <2>1 DEF Origin
  <2>3. v.of \in Listed /\ n.at = v.of.at  BY <2>2, VirtualFields
  <2>4. PICK rows : rows = RawLoad(n).rows  OBVIOUS
  <2>5. PICK a, l : Span(rows, v.of, a, l)  BY <1>3, <2>1, <2>2, <2>4, VirtualRows
  <2>6. IsSeq(rows) /\ Len(rows) = l /\ \A j \in 1 .. l : rows[j] = <<v.of, a + j>>  BY <2>5 DEF Span
  <2>7. DOMAIN rows = 1 .. l  BY <2>6, SeqEntries
  <2>8. \A r \in ToSet(rows) : r[1] = v.of
    <3>1. \A j \in 1 .. l : rows[j][1] = v.of  BY <2>6
    <3> QED  BY <2>7, <3>1 DEF ToSet
  <2>9. RawSpec(n).dtype = Source(v.of).dtype
    <3>1. RawSpec(n).dtype = Tensor(n).dtype  BY <1>3, RawSpecIs
    <3> QED  BY <2>1, <3>1 DEF Tensor, SourceLoad
  <2> QED  BY <1>1, <2>2, <2>3, <2>4, <2>8, <2>9
<1> QED  BY <1>2, <1>3

(* A payload's bits are in one of the formats the policy keeps.            *)
Payload(n) == n.expert # NoExpert /\ n.field \notin {"gate_up_proj_bias", "down_proj_bias"} /\ n.aux # "bias"
(* The formats a quantized checkpoint keeps its payloads in.               *)
LEMMA ListedPayload ==
  ASSUME InputOK, NEW s \in Listed, Conf(s).quant # "none", Payload(s)
  PROVE  LET d == Source(s).dtype IN
         \/ d \notin Floats
         \/ Conf(s).arch = "gpt_oss" /\ Conf(s).quant = "mxfp4" /\ s.field \in {PackedFields[i] : i \in {1, 2, 4, 5}}
         \/ Conf(s).arch = "glm" /\ Conf(s).quant = "fp8" /\ d = "float8_e4m3fn"
         \/ Conf(s).arch = "glm" /\ Conf(s).quant = "fp8" /\ s.expert >= 0 /\ s.aux = "weight_scale_inv"
         \/ Conf(s).quant \in {"gptq", "awq"} /\ s.expert >= 0 /\ s.aux \in {"qweight", "qzeros", "scales", "g_idx"}
<1>1. PICK t, c : t = Source(s) /\ c = Conf(s)  OBVIOUS
<1>2. t \in ToSet(c.tensors) /\ t.name = s /\ KnownFormat(c)  BY <1>1, ListedSource
<1>3. c.quant # "none"  BY <1>1
<1> QED  BY <1>1, <1>2, <1>3 DEF KnownFormat, Payload

(* Only fused tensors are cut.                                             *)
LEMMA VirtualFused ==
  ASSUME InputOK, NEW x, NEW v, Virtual(x, v), v.kind \in {"v5", "gpt_oss", "dbrx"}
  PROVE  v.of.expert = Fused
<1>1. "renamed" \notin {"v5", "gpt_oss", "dbrx"}  OBVIOUS
<1> QED  BY <1>1 DEF Virtual, V5Name, RenamedName, GptOssName, DbrxName, V5Expands, GptOssExpands, DbrxExpands

(* The cast policy leaves every payload alone.                             *)
LEMMA PayloadKept ==
  ASSUME InputOK, NEW n, n \in Listed \/ n \in DOMAIN virtual, n \in DOMAIN virtual => Virtual(n, virtual[n]),
         Conf(n).quant # "none", n.expert >= 0, n.expert \in Int, Payload(n)
  PROVE  KeepsRaw(n, Source(Origin(n)).dtype)
<1>1. PICK s : s = Origin(n)  OBVIOUS
<1>2. s \in Listed /\ s.at = n.at  BY <1>1, OriginRows
<1>3. PICK c : c = Conf(n) /\ c = Conf(s)  BY <1>2 DEF Conf
<1>4. PICK d : d = Source(s).dtype  OBVIOUS
<1>f. Fused # NoExpert /\ ~(Fused >= 0)  BY DEF Fused, NoExpert
<1>5. CASE n \notin DOMAIN virtual
  <2>1. s = n  BY <1>1, <1>5 DEF Origin
  <2> QED  BY <1>1, <1>2, <1>3, <1>4, <2>1, ListedPayload DEF KeepsRaw
<1>6. CASE n \in DOMAIN virtual
  <2>1. PICK v : v = virtual[n]  OBVIOUS
  <2>2. s = v.of /\ Virtual(n, v)  BY <1>1, <1>6, <2>1 DEF Origin
  <2>3. v.kind \in {"v5", "renamed", "gpt_oss", "dbrx"}  BY <2>2, VirtualFields
  <2>4. CASE v.kind \in {"gpt_oss", "dbrx"}
    <3>1. s.expert = Fused /\ n.field = s.field /\ n.aux = s.aux
      <4>1. v.kind \in {"v5", "gpt_oss", "dbrx"}  BY <2>4
      <4>2. v.of.expert = Fused  BY <2>2, <4>1, VirtualFused
      <4>3. v.kind \in {"gpt_oss", "dbrx"} => n.field = v.of.field /\ n.aux = v.of.aux  BY <2>2, VirtualFields
      <4> QED  BY <2>2, <2>4, <4>1, <4>2, <4>3
    <3>2. Payload(s) /\ ~(s.expert >= 0)  BY <1>f, <3>1 DEF Payload
    <3> QED  BY <1>1, <1>2, <1>3, <1>4, <3>1, <3>2, ListedPayload DEF KeepsRaw
  <2>5. CASE v.kind = "v5"
    <3>1. s.expert = Fused /\ s.aux = "" /\ c.arch # "gpt_oss" /\ s.field \in {"gate_up_proj", "down_proj"}
      <4>1. V5Expands(s)  BY <2>2, <2>5 DEF Virtual, V5Name, RenamedName, GptOssName, DbrxName
      <4> QED  BY <1>3, <4>1 DEF V5Expands
    <3>2. Payload(s) /\ ~(s.expert >= 0)
      <4>1. s.field \notin {"gate_up_proj_bias", "down_proj_bias"} /\ s.aux # "bias"  BY <3>1
      <4> QED  BY <1>f, <3>1, <4>1 DEF Payload
    <3> QED  BY <1>1, <1>2, <1>3, <1>4, <3>1, <3>2, ListedPayload DEF KeepsRaw
  <2>6. CASE v.kind = "renamed"
    <3>1. s.expert = n.expert /\ s.field = "gate" /\ s.aux = "weight" /\ c.arch = "mixtral"
      <4>1. RenamedName(n, v)  BY <2>2, <2>6 DEF Virtual, V5Name, GptOssName, DbrxName
      <4>2. n.expert = s.expert  BY <2>2, <2>6, VirtualFields
      <4> QED  BY <1>3, <2>2, <4>1, <4>2 DEF RenamedName, Mixtral
    <3>2. Payload(s)  BY <3>1 DEF Payload
    <3> QED  BY <1>1, <1>2, <1>3, <1>4, <3>1, <3>2, ListedPayload DEF KeepsRaw
  <2> QED  BY <2>3, <2>4, <2>5, <2>6
<1> QED  BY <1>5, <1>6

(* No payload is cast.                                                     *)
LEMMA PayloadsUntouched == ConvertInv => PayloadUntouched
<1> SUFFICES ASSUME ConvertInv, mode = "none", NEW i \in DOMAIN store,
                    \/ Pipeline
                    \/ /\ Conf(store[i].name).quant # "none" /\ store[i].name.expert >= 0
                       /\ store[i].name.field \notin {"gate_up_proj_bias", "down_proj_bias"} /\ store[i].name.aux # "bias",
                    NEW r \in ToSet(store[i].rows)
             PROVE  store[i].dtype = Source(r[1]).dtype
    BY DEF PayloadUntouched
<1>0. weights = {}  BY DEF ConvertInv, StepInv
<1>1. PICK n : n = plan[i].name  OBVIOUS
<1>2. PICK t : t = Value(n)  OBVIOUS
<1>3. store[i] = [name |-> n, rows |-> t.rows, shape |-> t.shape, dtype |-> t.dtype] /\ n \in ToSet(names)
      BY <1>1, <1>2, StoredIs
<1>6. CASE Pipeline
  <2>1. t = SourceLoad(n)  BY <1>2, <1>6 DEF Value
  <2>2. PICK l : l = Prod(Front(Source(n).shape))  OBVIOUS
  <2>3. t.rows = [j \in 1 .. l |-> <<n, j>>] /\ t.dtype = Source(n).dtype  BY <2>1, <2>2 DEF SourceLoad
  <2>4. PICK j \in 1 .. l : r = <<n, j>>  BY <1>3, <2>3 DEF ToSet
  <2>5. r[1] = n  BY <2>4
  <2> QED  BY <1>3, <2>3, <2>5
<1>7. CASE ~Pipeline
  <2>1. n \in Listed \/ n \in DOMAIN virtual  BY <1>0, <1>3 DEF ConvertInv, NamesInv
  <2>2. InputOK /\ (n \in DOMAIN virtual => Virtual(n, virtual[n]))  BY DEF ConvertInv, StepInv, NamesInv
  <2>3. n.expert \in Int  BY <1>3, NameType DEF ConvertInv
  <2>4. Conf(n).quant # "none" /\ n.expert >= 0 /\ Payload(n)
        BY <1>3, <1>7, <2>3 DEF Payload, NoExpert
  <2>5. KeepsRaw(n, Source(Origin(n)).dtype)  BY <2>1, <2>2, <2>3, <2>4, PayloadKept
  <2>6. PICK u : u = RawLoad(n)  OBVIOUS
  <2>7. IsTensor(u) /\ u.dtype = Source(Origin(n)).dtype /\ \A q \in ToSet(u.rows) : q[1] = Origin(n)
        BY <2>1, <2>2, <2>6, OriginRows, RawLoadTensor
  <2>8. t = Cast(n, u)  BY <1>0, <1>2, <1>7, <2>6 DEF Value
  <2>9. t = u  BY <2>5, <2>7, <2>8 DEF Cast
  <2> QED  BY <1>3, <2>7, <2>9
<1> QED  BY <1>6, <1>7

(* The bytes of the store are those its index announces, and bits that are *)
(* not numbers of the compute dtype are never cast: what spec says of a    *)
(* member when the index is planned is what load returns for it when it is *)
(* written.                                                                *)
THEOREM StoreAsAnnounced == ConvertSpec => []BytesAsAnnounced
<1>1. ConvertInv => BytesAsAnnounced  BY IndexMatches, PayloadsUntouched DEF BytesAsAnnounced
<1> QED  BY <1>1, ConversionInvariant, PTL
-----------------------------------------------------------------------------
(* Fields of one projection.                                               *)
LEMMA ProjIs ==
  ASSUME NEW n
  PROVE  /\ n.field \in {"w1", "gate_proj"} => Proj(n) = "gate"
         /\ n.field \in {"w3", "up_proj"} => Proj(n) = "up"
         /\ n.field \in {"w2", "down_proj"} => Proj(n) = "down"
<1>1. CASE n.field \in {"w1", "gate_proj"}
  <2>1. n.field \notin {"w3", "up_proj", "v1"} /\ n.field \notin {"w2", "down_proj"}  BY <1>1
  <2>2. Proj(n) = "gate"  BY <1>1, <2>1, Zenon DEF Proj
  <2> QED  BY <1>1, <2>1, <2>2
<1>2. CASE n.field \in {"w3", "up_proj"}
  <2>1. n.field \notin {"w1", "gate_proj"} /\ n.field \notin {"w2", "down_proj"} /\ n.field \in {"w3", "up_proj", "v1"}
        BY <1>2
  <2>2. Proj(n) = "up"  BY <2>1, Zenon DEF Proj
  <2> QED  BY <1>2, <2>1, <2>2
<1>3. CASE n.field \in {"w2", "down_proj"}
  <2>1. n.field \notin {"w3", "up_proj", "v1"} /\ n.field \notin {"w1", "gate_proj"}  BY <1>3
  <2>2. Proj(n) = "down"  BY <1>3, <2>1, Zenon DEF Proj
  <2> QED  BY <1>3, <2>1, <2>2
<1> QED  BY <1>1, <1>2, <1>3

(* The projection is told by the field.                                    *)
LEMMA SameProj == ASSUME NEW n, NEW m, n.field = m.field PROVE Proj(n) = Proj(m)
<1>1. PICK f : f = n.field /\ f = m.field  OBVIOUS
<1> QED  BY <1>1, Zenon DEF Proj

(* The kind of a virtual name tells which it is.                           *)
LEMMA KindIs ==
  ASSUME NEW x, NEW v, Virtual(x, v)
  PROVE  /\ v.kind = "v5" => V5Name(x, v)
         /\ v.kind = "renamed" => RenamedName(x, v)
         /\ v.kind = "gpt_oss" => GptOssName(x, v)
         /\ v.kind = "dbrx" => DbrxName(x, v)
BY DEF Virtual, V5Name, RenamedName, GptOssName, DbrxName

(* The slots of DBRX.                                                      *)
LEMMA DbrxTable == SlotTable("dbrx") = <<"w1", "v1", "w2">>
<1>1. "dbrx" # "mixtral" /\ "dbrx" # "gpt_oss" /\ "dbrx" \notin {"qwen3", "glm"}  OBVIOUS
<1> QED  BY <1>1, Zenon DEF SlotTable

(* The meaning of a row of a fused tensor.                                 *)
LEMMA FusedMeaning ==
  ASSUME InputOK, NEW x, NEW v, Virtual(x, v), v.kind \in {"v5", "gpt_oss", "dbrx"}, NEW y \in 0 .. Per(v) - 1,
         NEW r, r = <<v.of, v.expert * Per(v) + y + 1>>
  PROVE  Meaning(r) = <<x.at, x.layer, x.expert,
                        IF v.of.field = "gate_up_proj" THEN (IF y >= Per(v) \div 2 THEN "up" ELSE "gate") ELSE Proj(v.of)>>
<1>1. PICK s : s = v.of  OBVIOUS
<1>2. s \in Listed /\ x.at = s.at /\ x.layer = s.layer  BY <1>1, VirtualFields
<1>3. s.expert = Fused  BY <1>1, VirtualFused
<1>4. x.expert = v.expert
  <2>1. CASE v.kind = "v5"
    <3>1. x = V5Member(s, v.expert, v.part)  BY <1>1, <2>1, KindIs DEF V5Name
    <3>2. IsName(s)  BY <1>2, ListedName
    <3> QED  BY <3>1, <3>2, MemberFields
  <2>2. CASE v.kind \in {"gpt_oss", "dbrx"}
    <3>1. x = [s EXCEPT !.expert = v.expert]  BY <1>1, <2>2, KindIs DEF GptOssName, DbrxName
    <3>2. IsName(s)  BY <1>2, ListedName
    <3> QED  BY <3>1, <3>2, ChangedExpert, ChangedFields
  <2> QED  BY <2>1, <2>2
<1>5. Per(v) = RowCount(s) \div (IF Conf(s).arch \in {"gpt_oss", "dbrx"} THEN Conf(s).experts ELSE Source(s).shape[1])
  <2>1. CASE v.kind = "v5"
    <3>1. V5Expands(s)  BY <1>1, <2>1, KindIs DEF V5Name
    <3>2. Conf(s).arch # "gpt_oss" /\ s.field \in {"gate_up_proj", "down_proj"}  BY <3>1 DEF V5Expands
    <3>3. Conf(s).arch # "dbrx"
      <4>1. PICK t, c : t = Source(s) /\ c = Conf(s)  OBVIOUS
      <4>2. t \in ToSet(c.tensors) /\ t.name = s /\ KnownFormat(c)  BY <1>2, <4>1, ListedSource
      <4>3. c.arch = "dbrx" => s.field \in ToSet(SlotTable("dbrx"))  BY <1>3, <4>2 DEF KnownFormat
      <4>4. SlotTable("dbrx") = <<"w1", "v1", "w2">>  BY DbrxTable
      <4>5. ToSet(<<"w1", "v1", "w2">>) = {"w1", "v1", "w2"}  BY DEF ToSet
      <4> QED  BY <3>2, <4>1, <4>3, <4>4, <4>5
    <3> QED  BY <1>1, <2>1, <3>2, <3>3 DEF Per, Cuts
  <2>2. CASE v.kind \in {"gpt_oss", "dbrx"}
    <3>1. Conf(s).arch \in {"gpt_oss", "dbrx"}
          BY <1>1, <2>2, KindIs DEF GptOssName, DbrxName, GptOssExpands, DbrxExpands
    <3>2. v.kind # "v5"  BY <2>2
    <3> QED  BY <1>1, <3>1, <3>2 DEF Per, Cuts
  <2> QED  BY <2>1, <2>2
<1>6. PICK k : k = Per(v)  OBVIOUS
<1>7. v.kind # "renamed"  OBVIOUS
<1>8. k \in Nat /\ v.expert \in Nat
  <2>1. Per(v) \in Nat /\ Cuts(v) \in Nat \ {0} /\ v.expert \in 0 .. Cuts(v) - 1  BY <1>7, CutsType
  <2> QED  BY <1>6, <2>1
<1>9. k \in Nat \ {0} /\ y \in 0 .. k - 1  BY <1>6, <1>8
<1>10. PICK e \in Nat : e = v.expert  BY <1>8
<1>11. (e * k + y) \div k = e /\ (e * k + y) % k = y  BY <1>9, DivMod
<1>12. PICK a \in Nat : a = e * k + y
  <2>1. e * k \in Nat  BY <1>9
  <2> QED  BY <1>9, <2>1
<1>13. r = <<s, a + 1>> /\ a + 1 - 1 = a  BY <1>1, <1>6, <1>10, <1>12
<1>14. r[1] = s /\ r[2] - 1 = a  BY <1>13
<1>15. PICK g : g = IF y >= k \div 2 THEN "up" ELSE "gate"  OBVIOUS
<1>16. Meaning(r) = <<s.at, s.layer, e, IF s.field = "gate_up_proj" THEN g ELSE Proj(s)>>
  <2>1. Prod(Front(Source(s).shape)) = RowCount(s)  BY DEF RowCount
  <2>2. PICK p : p = RowCount(s) \div (IF Conf(s).arch \in {"gpt_oss", "dbrx"} THEN Conf(s).experts ELSE Source(s).shape[1])
        OBVIOUS
  <2>3. p = k  BY <1>5, <1>6, <2>2
  <2>4. Meaning(r) = <<s.at, s.layer, a \div k,
                       IF s.field = "gate_up_proj" THEN (IF a % k >= k \div 2 THEN "up" ELSE "gate") ELSE Proj(s)>>
        BY <1>3, <1>14, <2>1, <2>2, <2>3, Zenon DEF Meaning
  <2>5. a \div k = e /\ a % k = y  BY <1>11, <1>12
  <2> QED  BY <1>15, <2>4, <2>5
<1> QED  BY <1>1, <1>2, <1>4, <1>6, <1>10, <1>15, <1>16
-----------------------------------------------------------------------------
(* A part that has as many rows as were announced is what its name says.   *)
LEMMA PartMeaning ==
  ASSUME InputOK, NEW x \in DOMAIN virtual, NEW v, v = virtual[x], Virtual(x, v), v.kind \in {"v5", "gpt_oss", "dbrx"},
         RawLoad(x).shape = RawSpec(x).shape, NEW r \in ToSet(RawLoad(x).rows)
  PROVE  Meaning(r) = <<x.at, x.layer, x.expert, Proj(x)>>
<1>1. PICK s : s = v.of  OBVIOUS
<1>2. PICK rows : rows = RawLoad(x).rows  OBVIOUS
<1>3. PICK a, l : a = FirstRow(v) /\ l = Rows(v)  OBVIOUS
<1>4. Span(rows, s, a, l)  BY <1>1, <1>2, <1>3, VirtualRows
<1>5. IsSeq(rows) /\ a \in Nat /\ l \in Nat /\ Len(rows) = l /\ \A j \in 1 .. l : rows[j] = <<s, a + j>>  BY <1>4 DEF Span
<1>6. PICK j \in 1 .. l : r = <<s, a + j>>
  <2>1. DOMAIN rows = 1 .. l  BY <1>5, SeqEntries
  <2> QED  BY <1>2, <1>5, <2>1 DEF ToSet
<1>7. PICK k, e : k = Per(v) /\ e = v.expert  OBVIOUS
<1>8. v.kind # "renamed"  OBVIOUS
<1>9. k \in Nat /\ e \in Nat
  <2>1. Per(v) \in Nat /\ Cuts(v) \in Nat \ {0} /\ v.expert \in 0 .. Cuts(v) - 1  BY <1>8, CutsType
  <2> QED  BY <1>7, <2>1
<1>10. PICK f \in Nat : f = e * k  BY <1>9
<1>11. PICK u \in Nat : u = Up(k, 2) /\ u <= k /\ (u = k \div 2 \/ u = k \div 2 + 1)  BY <1>9, UpHalf
<1>12. PICK h \in Nat : h = k \div 2  BY <1>9
<1>13. ASSUME NEW y \in 0 .. k - 1, a + j = f + y + 1
       PROVE  Meaning(r) = <<x.at, x.layer, x.expert,
                             IF s.field = "gate_up_proj" THEN (IF y >= h THEN "up" ELSE "gate") ELSE Proj(s)>>
  <2>1. r = <<v.of, v.expert * Per(v) + y + 1>>  BY <1>1, <1>6, <1>7, <1>10, <1>13
  <2>2. y \in 0 .. Per(v) - 1  BY <1>7
  <2>3. Meaning(r) = <<x.at, x.layer, x.expert,
                       IF v.of.field = "gate_up_proj" THEN (IF y >= Per(v) \div 2 THEN "up" ELSE "gate") ELSE Proj(v.of)>>
        BY <2>1, <2>2, FusedMeaning
  <2> QED  BY <1>1, <1>7, <1>12, <2>3
<1>14. CASE v.kind \in {"gpt_oss", "dbrx"}
  <2>1. a = f /\ l = k
    <3>1. v.kind # "v5"  BY <1>14
    <3>2. FirstRow(v) = e * k + 0 /\ Rows(v) = k  BY <1>7, <1>8, <3>1 DEF FirstRow, Rows
    <3> QED  BY <1>3, <1>10, <3>2
  <2>2. PICK y \in 0 .. k - 1 : y = j - 1  BY <1>9, <2>1
  <2>3. a + j = f + y + 1  BY <2>1, <2>2
  <2>4. s.field # "gate_up_proj" /\ Proj(s) = Proj(x)
    <3>1. x.field = s.field  BY <1>1, <1>14, VirtualFields
    <3>2. Proj(s) = Proj(x)  BY <3>1, SameProj
    <3>3. s.field # "gate_up_proj"
      <4>1. CASE v.kind = "gpt_oss"
        <5>1. s.field \in ToSet(PackedFields)  BY <1>1, <4>1, KindIs DEF GptOssName, GptOssExpands
        <5>2. "gate_up_proj" \notin ToSet(PackedFields)  BY DEF PackedFields, ToSet
        <5> QED  BY <5>1, <5>2
      <4>2. CASE v.kind = "dbrx"  BY <1>1, <4>2, KindIs DEF DbrxName, DbrxExpands
      <4> QED  BY <1>14, <4>1, <4>2
    <3> QED  BY <3>2, <3>3
  <2>5. Meaning(r) = <<x.at, x.layer, x.expert,
                       IF s.field = "gate_up_proj" THEN (IF y >= h THEN "up" ELSE "gate") ELSE Proj(s)>>
        BY <1>13, <2>3
  <2> QED  BY <2>4, <2>5
<1>15. CASE v.kind = "v5"
  <2>1. V5Name(x, v)  BY <1>15, KindIs
  <2>2. PartOf(s, v.part) /\ V5Expands(s)  BY <1>1, <2>1 DEF V5Name
  <2>3. x.field = V5Field(s, v.part)  BY <1>1, <1>15, VirtualFields
  <2>4. CASE v.part = "down"
    <3>1. a = f /\ l = k
      <4>1. FirstRow(v) = e * k + 0 /\ Rows(v) = k  BY <1>7, <1>8, <2>4 DEF FirstRow, Rows
      <4> QED  BY <1>3, <1>10, <4>1
    <3>2. PICK y \in 0 .. k - 1 : y = j - 1  BY <1>9, <3>1
    <3>3. a + j = f + y + 1  BY <3>1, <3>2
    <3>4. s.field = "down_proj"  BY <2>2, <2>4 DEF PartOf
    <3>5. Proj(s) = "down" /\ Proj(x) = "down"
      <4>1. x.field \in {"w2", "down_proj"}  BY <2>3, <2>4, FieldIs
      <4>2. s.field \in {"w2", "down_proj"}  BY <3>4
      <4> QED  BY <4>1, <4>2, ProjIs
    <3>6. Meaning(r) = <<x.at, x.layer, x.expert,
                         IF s.field = "gate_up_proj" THEN (IF y >= h THEN "up" ELSE "gate") ELSE Proj(s)>>
          BY <1>13, <3>3
    <3>7. s.field # "gate_up_proj"  BY <3>4
    <3> QED  BY <3>5, <3>6, <3>7
  <2>5. CASE v.part = "gate"
    <3>1. u = h
      <4>1. \E c \in Nat : c > 0 /\ RawLoad(x).shape = <<Up(k, 2), c>> /\ RawSpec(x).shape = <<k \div 2, c>>
            BY <1>7, <2>1, <2>5, V5Shapes
      <4>2. PICK c \in Nat : RawLoad(x).shape = <<u, c>> /\ RawSpec(x).shape = <<h, c>>  BY <1>11, <1>12, <4>1
      <4>3. PICK p, q : p = <<u, c>> /\ q = <<h, c>>  OBVIOUS
      <4>4. p = q /\ p[1] = u /\ q[1] = h  BY <4>2, <4>3
      <4> QED  BY <4>4
    <3>2. a = f /\ l = u
      <4>1. FirstRow(v) = e * k + 0 /\ Rows(v) = Up(k, 2)  BY <1>7, <1>8, <1>15, <2>5 DEF FirstRow, Rows
      <4> QED  BY <1>3, <1>10, <1>11, <4>1
    <3>3. PICK y \in 0 .. k - 1 : y = j - 1 /\ y < h  BY <1>9, <1>11, <3>1, <3>2
    <3>4. a + j = f + y + 1  BY <3>2, <3>3
    <3>5. s.field = "gate_up_proj"  BY <2>2, <2>5 DEF PartOf
    <3>6. Proj(x) = "gate"
      <4>1. x.field \in {"w1", "gate_proj"}  BY <2>3, <2>5, FieldIs
      <4> QED  BY <4>1, ProjIs
    <3>7. Meaning(r) = <<x.at, x.layer, x.expert,
                         IF s.field = "gate_up_proj" THEN (IF y >= h THEN "up" ELSE "gate") ELSE Proj(s)>>
          BY <1>13, <3>4
    <3>8. ~(y >= h)  BY <3>3
    <3> QED  BY <3>5, <3>6, <3>7, <3>8
  <2>6. CASE v.part = "up"
    <3>1. a = f + u /\ l = k - u
      <4>1. FirstRow(v) = e * k + Up(k, 2) /\ Rows(v) = k - Up(k, 2)  BY <1>7, <1>8, <1>15, <2>6 DEF FirstRow, Rows
      <4> QED  BY <1>3, <1>10, <1>11, <4>1
    <3>2. PICK y \in 0 .. k - 1 : y = u + j - 1 /\ y >= h  BY <1>9, <1>11, <1>12, <3>1
    <3>3. a + j = f + y + 1  BY <3>1, <3>2
    <3>4. s.field = "gate_up_proj"  BY <2>2, <2>6 DEF PartOf
    <3>5. Proj(x) = "up"
      <4>1. x.field \in {"w3", "up_proj"}  BY <2>3, <2>6, FieldIs
      <4> QED  BY <4>1, ProjIs
    <3>6. Meaning(r) = <<x.at, x.layer, x.expert,
                         IF s.field = "gate_up_proj" THEN (IF y >= h THEN "up" ELSE "gate") ELSE Proj(s)>>
          BY <1>13, <3>3
    <3> QED  BY <3>2, <3>4, <3>5, <3>6
  <2> QED  BY <2>2, <2>4, <2>5, <2>6 DEF PartOf
<1> QED  BY <1>14, <1>15

(* So is a tensor read whole.                                              *)
LEMMA WholeMeaning ==
  ASSUME NEW s, NEW j, NEW r, r = <<s, j>>, s.expert # Fused
  PROVE  Meaning(r) = <<s.at, s.layer, s.expert, Proj(s)>>
<1>1. r[1] = s  OBVIOUS
<1> QED  BY <1>1, Zenon DEF Meaning

(* The rows loaded for a name mean what it says.                           *)
LEMMA RowsMeaning ==
  ASSUME InputOK, NEW n, n \in Listed \/ n \in DOMAIN virtual, n \in DOMAIN virtual => Virtual(n, virtual[n]),
         n.expert # Fused, RawLoad(n).shape = RawSpec(n).shape, NEW r \in ToSet(RawLoad(n).rows)
  PROVE  Meaning(r) = <<n.at, n.layer, n.expert, Proj(n)>>
<1>1. CASE n \notin DOMAIN virtual
  <2>1. RawLoad(n) = SourceLoad(n)  BY <1>1 DEF RawLoad
  <2>2. PICK l : l = Prod(Front(Source(n).shape))  OBVIOUS
  <2>3. SourceLoad(n).rows = [j \in 1 .. l |-> <<n, j>>]  BY <2>2 DEF SourceLoad
  <2>4. PICK j \in 1 .. l : r = <<n, j>>  BY <2>1, <2>3 DEF ToSet
  <2> QED  BY <2>4, WholeMeaning
<1>2. CASE n \in DOMAIN virtual
  <2>1. PICK v : v = virtual[n]  OBVIOUS
  <2>2. Virtual(n, v) /\ v.kind \in {"v5", "renamed", "gpt_oss", "dbrx"}  BY <1>2, <2>1, VirtualFields
  <2>3. CASE v.kind \in {"v5", "gpt_oss", "dbrx"}  BY <1>2, <2>1, <2>2, <2>3, PartMeaning
  <2>4. CASE v.kind = "renamed"
    <3>1. PICK s : s = v.of  OBVIOUS
    <3>2. RenamedName(n, v) /\ s \in Listed  BY <2>2, <2>4, <3>1, KindIs, VirtualFields
    <3>3. IsName(s) /\ n = Changed(s, "block_sparse_moe", s.expert, s.field, s.aux)
      <4>1. IsName(s)  BY <3>2, ListedName
      <4>2. n = [s EXCEPT !.block = "block_sparse_moe"]  BY <3>1, <3>2 DEF RenamedName
      <4> QED  BY <4>1, <4>2, ChangedBlock
    <3>4. n.at = s.at /\ n.layer = s.layer /\ n.expert = s.expert /\ n.field = s.field  BY <3>3, ChangedFields
    <3>5. PICK rows : rows = RawLoad(n).rows  OBVIOUS
    <3>6. PICK a, l : Span(rows, s, a, l)  BY <1>2, <2>1, <2>2, <3>1, <3>5, VirtualRows
    <3>7. IsSeq(rows) /\ Len(rows) = l /\ \A j \in 1 .. l : rows[j] = <<s, a + j>>  BY <3>6 DEF Span
    <3>8. DOMAIN rows = 1 .. l  BY <3>7, SeqEntries
    <3>9. PICK j : r = <<s, j>>  BY <3>5, <3>7, <3>8 DEF ToSet
    <3>10. Meaning(r) = <<s.at, s.layer, s.expert, Proj(s)>>  BY <3>4, <3>9, WholeMeaning
    <3> QED  BY <3>4, <3>10, SameProj
  <2> QED  BY <2>2, <2>3, <2>4
<1> QED  BY <1>1, <1>2
-----------------------------------------------------------------------------
(* What the store holds under a name has the rows load returned for it,    *)
(* as many as its spec announced: the bytes would have differed.           *)
LEMMA RawWhole ==
  ASSUME ConvertInv, NEW n \in ToSet(names), ~Pipeline, WeightOf(n) \notin weights, Bytes(Value(n)) = Bytes(SpecOf(n))
  PROVE  RawLoad(n).shape = RawSpec(n).shape /\ Value(n).rows = RawLoad(n).rows
<1>1. PICK r, l : r = RawSpec(n) /\ l = RawLoad(n)  OBVIOUS
<1>2. IsSpec(r) /\ IsTensor(l)  BY <1>1, RawSpecRecord, RawLoadTensor
<1>3. Value(n) = Cast(n, l)  BY <1>1 DEF Value
<1>4. SpecOf(n).shape = Cast(n, r).shape  BY <1>1, SpecOfIs
<1>5. Value(n).shape = SpecOf(n).shape  BY RawAnnounced
<1> QED  BY <1>1, <1>2, <1>3, <1>4, <1>5, CastIs

(* A quantized weight written is whole.                                    *)
LEMMA QuantWhole ==
  ASSUME ConvertInv, NEW n \in ToSet(names), n \in weights, Bytes(Value(n)) = Bytes(SpecOf(n))
  PROVE  RawLoad(n).shape = RawSpec(n).shape /\ Value(n).rows = RawLoad(n).rows
<1>1. PICK r, l : r = RawSpec(n) /\ l = RawLoad(n)  OBVIOUS
<1>2. n \in Listed \/ n \in DOMAIN virtual  BY WeightName
<1>3. IsName(n) /\ n.aux = "weight" /\ WeightOf(n) = n  BY WeightName
<1>4. n.aux # ScaleAux  BY <1>3, ScaleNames
<1>5. ~Pipeline /\ InputOK /\ (n \in DOMAIN virtual => Virtual(n, virtual[n]))  BY DEF ConvertInv, StepInv, NamesInv
<1>6. IsTensor(l)  BY <1>1, RawLoadTensor
<1>7. Value(n) = Quant(l).weight  BY <1>1, <1>3, <1>5 DEF Value
<1>8. SpecOf(n).shape = QuantSpec(n).shape  BY <1>3, <1>5, SpecOfIs
<1>9. Value(n).shape = SpecOf(n).shape  BY <1>3, QuantAnnounced
<1>10. Quant(l).weight.rows = l.rows  BY <1>6, QuantIs
<1>11. l.shape = r.shape \/ Grown(r.shape, l.shape)  BY <1>1, <1>2, <1>5, RawShapes
<1>12. CASE mode = "fp8"
  <2>1. Quant(l).weight.shape = l.shape  BY <1>6, <1>12, QuantIs
  <2>2. QuantSpec(n).shape = r.shape  BY <1>1, <1>3, <1>4, <1>12, QuantSpecIs
  <2> QED  BY <1>1, <1>7, <1>8, <1>9, <1>10, <2>1, <2>2
<1>13. CASE mode # "fp8"
  <2>1. PICK p, q : p = l.shape[2] \div 2 /\ q = r.shape[2] \div 2  OBVIOUS
  <2>2. Quant(l).weight.shape = <<l.shape[1], p>>  BY <1>6, <1>13, <2>1, QuantIs
  <2>3. QuantSpec(n).shape = <<r.shape[1], q>>  BY <1>1, <1>3, <1>4, <1>13, <2>1, QuantSpecIs
  <2>4. l.shape[1] = r.shape[1]  BY <1>7, <1>8, <1>9, <2>2, <2>3
  <2>5. ~Grown(r.shape, l.shape)
    <3> SUFFICES ASSUME Grown(r.shape, l.shape) PROVE FALSE  OBVIOUS
    <3>1. PICK a, c \in Nat : r.shape = <<a, c>> /\ l.shape = <<a + 1, c>>  BY DEF Grown
    <3>2. r.shape[1] = a /\ l.shape[1] = a + 1  BY <3>1
    <3> QED  BY <2>4, <3>2
  <2> QED  BY <1>1, <1>7, <1>10, <1>11, <2>5
<1> QED  BY <1>12, <1>13

(* Every tensor of the store holds what its name says.                     *)
LEMMA NamesMeanRows == ConvertInv => UnderItsName
<1> SUFFICES ASSUME ConvertInv, NEW i \in DOMAIN store, NEW n, n = store[i].name, n.expert # Fused,
                    NEW r \in ToSet(store[i].rows)
             PROVE  Meaning(r) = <<n.at, n.layer, n.expert, Proj(n)>>
    BY DEF UnderItsName
<1>1. PICK x : x = plan[i].name  OBVIOUS
<1>2. PICK t : t = Value(x)  OBVIOUS
<1>3. /\ x \in ToSet(names)
      /\ store[i] = [name |-> x, rows |-> t.rows, shape |-> t.shape, dtype |-> t.dtype]
      /\ Bytes(Value(x)) = Bytes(SpecOf(x))
      BY <1>1, <1>2, StoredIs
<1>4. x = n /\ r \in ToSet(t.rows)  BY <1>3
<1>5. InputOK /\ (n \in DOMAIN virtual => Virtual(n, virtual[n]))  BY DEF ConvertInv, StepInv, NamesInv
<1>6. CASE Pipeline
  <2>1. t = SourceLoad(n)  BY <1>2, <1>4, <1>6 DEF Value
  <2>2. PICK l : l = Prod(Front(Source(n).shape))  OBVIOUS
  <2>3. t.rows = [j \in 1 .. l |-> <<n, j>>]  BY <2>1, <2>2 DEF SourceLoad
  <2>4. PICK j \in 1 .. l : r = <<n, j>>  BY <1>4, <2>3 DEF ToSet
  <2> QED  BY <2>4, WholeMeaning
<1>7. CASE ~Pipeline /\ WeightOf(n) \notin weights
  <2>1. n \in Listed \/ n \in DOMAIN virtual  BY <1>3, <1>4, <1>7, KnownName
  <2>2. RawLoad(n).shape = RawSpec(n).shape /\ t.rows = RawLoad(n).rows  BY <1>2, <1>3, <1>4, <1>7, RawWhole
  <2> QED  BY <1>4, <1>5, <2>1, <2>2, RowsMeaning
<1>8. CASE WeightOf(n) \in weights /\ n = WeightOf(n)
  <2>1. n \in Listed \/ n \in DOMAIN virtual  BY <1>8, WeightName
  <2>2. RawLoad(n).shape = RawSpec(n).shape /\ t.rows = RawLoad(n).rows  BY <1>2, <1>3, <1>4, <1>8, QuantWhole
  <2> QED  BY <1>4, <1>5, <2>1, <2>2, RowsMeaning
<1>9. CASE WeightOf(n) \in weights /\ n # WeightOf(n)
  <2>1. PICK l : l = RawLoad(WeightOf(n))  OBVIOUS
  <2>2. ~Pipeline  BY <1>9 DEF ConvertInv, StepInv
  <2>3. t = Quant(l).scale  BY <1>2, <1>4, <1>9, <2>1, <2>2 DEF Value
  <2>4. IsTensor(l)  BY <2>1, RawLoadTensor
  <2>5. t.rows = <<>>  BY <2>3, <2>4, QuantIs
  <2>6. ToSet(<<>>) = {}  BY DEF ToSet
  <2> QED  BY <1>4, <2>5, <2>6
<1> QED  BY <1>6, <1>7, <1>8, <1>9
-----------------------------------------------------------------------------
(* An expansion makes of a tensor what its kind says: no tensor is         *)
(* expanded in two ways,                                                   *)
LEMMA FamilyOf ==
  ASSUME InputOK, NEW x, NEW v, Virtual(x, v)
  PROVE  /\ v.of \in Listed
         /\ v.kind = "v5" => Conf(v.of).arch # "gpt_oss" /\ Conf(v.of).arch # "dbrx" /\ v.of.expert = Fused
         /\ v.kind = "gpt_oss" => Conf(v.of).arch = "gpt_oss" /\ v.of.expert = Fused
         /\ v.kind = "dbrx" => Conf(v.of).arch = "dbrx" /\ v.of.expert = Fused
         /\ v.kind = "renamed" => Conf(v.of).arch = "mixtral" /\ v.of.field = "gate" /\ v.of.expert < 0
<1>1. v.of \in Listed /\ v.kind \in {"v5", "renamed", "gpt_oss", "dbrx"}  BY VirtualFields
<1>2. /\ v.kind = "v5" => V5Name(x, v)
      /\ v.kind = "renamed" => RenamedName(x, v)
      /\ v.kind = "gpt_oss" => GptOssName(x, v)
      /\ v.kind = "dbrx" => DbrxName(x, v)
      BY KindIs
<1>3. v.kind = "gpt_oss" => Conf(v.of).arch = "gpt_oss" /\ v.of.expert = Fused  BY <1>2 DEF GptOssName, GptOssExpands
<1>4. v.kind = "dbrx" => Conf(v.of).arch = "dbrx" /\ v.of.expert = Fused  BY <1>2 DEF DbrxName, DbrxExpands
<1>5. v.kind = "v5" => Conf(v.of).arch # "gpt_oss" /\ Conf(v.of).arch # "dbrx" /\ v.of.expert = Fused
  <2> SUFFICES ASSUME v.kind = "v5"
               PROVE  Conf(v.of).arch # "gpt_oss" /\ Conf(v.of).arch # "dbrx" /\ v.of.expert = Fused
      OBVIOUS
  <2>1. PICK n : n = v.of  OBVIOUS
  <2>2. n \in Listed /\ V5Expands(n)  BY <1>2, <2>1 DEF V5Name
  <2>3. Conf(n).arch # "gpt_oss" /\ n.expert = Fused /\ n.field \in {"gate_up_proj", "down_proj"}
        BY <2>2 DEF V5Expands
  <2>4. Conf(n).arch # "dbrx"
    <3> SUFFICES ASSUME Conf(n).arch = "dbrx" PROVE FALSE  OBVIOUS
    <3>1. PICK t, c : t = Source(n) /\ c = Conf(n)  OBVIOUS
    <3>2. t \in ToSet(c.tensors) /\ t.name = n /\ KnownFormat(c) /\ c.arch = "dbrx"  BY <2>2, <3>1, ListedSource
    <3>3. n.field \in ToSet(SlotTable("dbrx"))  BY <2>3, <3>2 DEF KnownFormat
    <3>4. ToSet(<<"w1", "v1", "w2">>) = {"w1", "v1", "w2"}  BY DEF ToSet
    <3> QED  BY <2>3, <3>3, <3>4, DbrxTable
  <2> QED  BY <2>1, <2>3, <2>4
<1>6. v.kind = "renamed" => Conf(v.of).arch = "mixtral" /\ v.of.field = "gate" /\ v.of.expert < 0
  <2> SUFFICES ASSUME v.kind = "renamed"
               PROVE  Conf(v.of).arch = "mixtral" /\ v.of.field = "gate" /\ v.of.expert < 0
      OBVIOUS
  <2>1. PICK n : n = v.of  OBVIOUS
  <2>2. RenamedName(x, v)  BY <1>2
  <2>3. Mixtral(n) /\ n.field = "gate" /\ \E m \in Listed : m.at = n.at /\ m.expert = Fused /\ m.layer = n.layer
        BY <2>1, <2>2 DEF RenamedName
  <2>4. PICK m \in Listed : m.at = n.at /\ m.expert = Fused /\ m.layer = n.layer  BY <2>3
  <2>5. n.expert < 0  BY <1>1, <2>1, <2>4, Layout
  <2> QED  BY <2>1, <2>3, <2>5 DEF Mixtral
<1> QED  BY <1>1, <1>3, <1>4, <1>5, <1>6

(* so what is made in one directory is made in one way, but for a router,  *)
LEMMA SameKind ==
  ASSUME InputOK, NEW x, NEW v, Virtual(x, v), NEW y, NEW u, Virtual(y, u), v.of.at = u.of.at,
         (v.kind = "renamed") <=> (u.kind = "renamed")
  PROVE  v.kind = u.kind
<1>1. Conf(v.of) = Conf(u.of)  BY DEF Conf
<1>2. v.kind \in {"v5", "renamed", "gpt_oss", "dbrx"} /\ u.kind \in {"v5", "renamed", "gpt_oss", "dbrx"}
      BY VirtualFields
<1>3. PICK a : a = Conf(v.of).arch  OBVIOUS
<1>4. /\ v.kind = "v5" => a # "gpt_oss" /\ a # "dbrx"
      /\ v.kind = "gpt_oss" => a = "gpt_oss"
      /\ v.kind = "dbrx" => a = "dbrx"
      BY <1>3, FamilyOf
<1>5. /\ u.kind = "v5" => a # "gpt_oss" /\ a # "dbrx"
      /\ u.kind = "gpt_oss" => a = "gpt_oss"
      /\ u.kind = "dbrx" => a = "dbrx"
      BY <1>1, <1>3, FamilyOf
<1> QED  BY <1>2, <1>4, <1>5

(* The fields of the name and of the tensor of a fused member and of a     *)
(* router differ.                                                          *)
LEMMA NoRouter ==
  ASSUME InputOK, NEW x, NEW v, Virtual(x, v)
  PROVE  /\ v.kind = "renamed" => v.of.field = "gate" /\ x.field = "gate" /\ Mixtral(v.of)
         /\ v.kind = "v5" => /\ PartOf(v.of, v.part) /\ v.of.aux = "" /\ v.of.field # "gate" /\ x.field # "gate"
                             /\ x.field = V5Field(v.of, v.part)
         /\ v.kind \in {"gpt_oss", "dbrx"} => ~Mixtral(v.of)
<1>1. v.kind = "renamed" => v.of.field = "gate" /\ x.field = "gate" /\ Mixtral(v.of)
  <2>1. v.kind = "renamed" => RenamedName(x, v) /\ x.field = "gate"  BY KindIs, VirtualFields
  <2> QED  BY <2>1 DEF RenamedName
<1>2. ASSUME v.kind = "v5"
      PROVE  /\ PartOf(v.of, v.part) /\ v.of.aux = "" /\ v.of.field # "gate" /\ x.field # "gate"
             /\ x.field = V5Field(v.of, v.part)
  <2>1. V5Name(x, v)  BY <1>2, KindIs
  <2>2. PartOf(v.of, v.part) /\ v.of.aux = "" /\ v.of.field \in {"gate_up_proj", "down_proj"}
        BY <2>1 DEF V5Name, V5Expands
  <2>3. x.field = V5Field(v.of, v.part)  BY <1>2, VirtualFields
  <2>4. PICK n, p : n = v.of /\ p = v.part  OBVIOUS
  <2>5. p \in {"gate", "up", "down"}  BY <2>2, <2>4 DEF PartOf
  <2>6. V5Field(n, p) # "gate"
    <3>1. V5Field(n, p) \in {"w1", "w2", "w3", "gate_proj", "up_proj", "down_proj"}  BY <2>5, FieldIs
    <3> QED  BY <3>1
  <2> QED  BY <2>2, <2>3, <2>4, <2>6
<1>3. v.kind \in {"gpt_oss", "dbrx"} => ~Mixtral(v.of)  BY FamilyOf DEF Mixtral
<1> QED  BY <1>1, <1>2, <1>3

(* Some of them again.                                                     *)
LEMMA MemberExpert ==
  ASSUME InputOK, NEW x, NEW v, Virtual(x, v), v.kind \in {"v5", "gpt_oss", "dbrx"}
  PROVE  x.expert = v.expert /\ x.expert \in Nat
BY VirtualFields

(* The router that moves.                                                  *)
LEMMA RouterFields ==
  ASSUME InputOK, NEW x, NEW v, Virtual(x, v), v.kind = "renamed"
  PROVE  v.of.block = "mlp" /\ v.of.field = "gate" /\ v.of.aux = "weight" /\ v.of.expert = x.expert
<1>1. RenamedName(x, v)  BY KindIs
<1>2. x.expert = v.of.expert  BY VirtualFields
<1> QED  BY <1>1, <1>2 DEF RenamedName

(* and a name stands for one part of one tensor,                           *)
LEMMA VirtualUnique ==
  ASSUME InputOK, NEW x, NEW v, Virtual(x, v), NEW u, Virtual(x, u)
  PROVE  /\ v.of = u.of /\ v.kind = u.kind
         /\ v.kind # "renamed" => v.expert = u.expert
         /\ v.kind = "v5" => v.part = u.part
<1>1. /\ v.of \in Listed /\ v.of.at = x.at /\ v.of.layer = x.layer
      /\ u.of \in Listed /\ u.of.at = x.at /\ u.of.layer = x.layer
      BY VirtualFields
<1>2. v.kind \in {"v5", "renamed", "gpt_oss", "dbrx"} /\ u.kind \in {"v5", "renamed", "gpt_oss", "dbrx"}
      BY VirtualFields
<1>3. (v.kind = "renamed") <=> (u.kind = "renamed")
  <2>1. ASSUME NEW w, Virtual(x, w), NEW z, Virtual(x, z), w.of.at = z.of.at, w.kind = "renamed",
               z.kind \in {"v5", "gpt_oss", "dbrx"}
        PROVE  FALSE
    <3>1. x.field = "gate" /\ Mixtral(w.of)  BY <2>1, NoRouter
    <3>2. Mixtral(z.of)  BY <2>1, <3>1 DEF Mixtral, Conf
    <3>3. z.kind = "v5"  BY <2>1, <3>2, NoRouter
    <3>4. x.field # "gate"  BY <2>1, <3>3, NoRouter
    <3> QED  BY <3>1, <3>4
  <2> QED  BY <1>1, <1>2, <2>1
<1>4. v.kind = u.kind  BY <1>1, <1>3, SameKind
<1>5. v.kind # "renamed" => x.expert = v.expert /\ x.expert = u.expert /\ v.of.expert = Fused /\ u.of.expert = Fused
  <2>1. v.kind # "renamed" => x.expert = v.expert /\ v.of.expert = Fused  BY <1>2, VirtualFields, VirtualFused
  <2>2. u.kind # "renamed" => x.expert = u.expert /\ u.of.expert = Fused  BY <1>2, VirtualFields, VirtualFused
  <2> QED  BY <1>4, <2>1, <2>2
<1>6. IsName(v.of) /\ IsName(u.of)  BY <1>1, ListedName
<1>7. CASE v.kind = "v5"
  <2>1. v.of.block = u.of.block  BY <1>1, <1>5, <1>7, Layout
  <2>2. /\ PartOf(v.of, v.part) /\ v.of.aux = "" /\ x.field = V5Field(v.of, v.part)
        /\ PartOf(u.of, u.part) /\ u.of.aux = "" /\ x.field = V5Field(u.of, u.part)
        BY <1>4, <1>7, NoRouter
  <2>3. PICK n, m, p, q : n = v.of /\ m = u.of /\ p = v.part /\ q = u.part  OBVIOUS
  <2>4. p = q
    <3>1. Mixtral(n) <=> Mixtral(m)  BY <1>1, <2>3 DEF Mixtral, Conf
    <3>2. V5Field(n, p) = V5Field(m, q)  BY <2>2, <2>3
    <3>3. p \in {"gate", "up", "down"} /\ q \in {"gate", "up", "down"}  BY <2>2, <2>3 DEF PartOf
    <3>4. CASE Mixtral(n)
      <4>1. V5Field(n, "gate") = "w1" /\ V5Field(n, "up") = "w3" /\ V5Field(n, "down") = "w2"
            /\ V5Field(m, "gate") = "w1" /\ V5Field(m, "up") = "w3" /\ V5Field(m, "down") = "w2"
            BY <3>1, <3>4, FieldIs
      <4> QED  BY <3>2, <3>3, <4>1
    <3>5. CASE ~Mixtral(n)
      <4>1. V5Field(n, "gate") = "gate_proj" /\ V5Field(n, "up") = "up_proj" /\ V5Field(n, "down") = "down_proj"
            /\ V5Field(m, "gate") = "gate_proj" /\ V5Field(m, "up") = "up_proj" /\ V5Field(m, "down") = "down_proj"
            BY <3>1, <3>5, FieldIs
      <4> QED  BY <3>2, <3>3, <4>1
    <3> QED  BY <3>4, <3>5
  <2>5. n.field = m.field
    <3>1. PartOf(n, p) /\ PartOf(m, p)  BY <2>2, <2>3, <2>4
    <3> QED  BY <3>1 DEF PartOf
  <2>6. n = m  BY <1>1, <1>5, <1>6, <1>7, <2>1, <2>2, <2>3, <2>5, SameName
  <2> QED  BY <1>4, <1>5, <1>7, <2>3, <2>4, <2>6
<1>8. CASE v.kind \in {"gpt_oss", "dbrx"}
  <2>1. v.of.block = x.block /\ v.of.field = x.field /\ v.of.aux = x.aux  BY <1>8, VirtualFields
  <2>2. u.of.block = x.block /\ u.of.field = x.field /\ u.of.aux = x.aux
    <3>1. u.kind \in {"gpt_oss", "dbrx"}  BY <1>4, <1>8
    <3> QED  BY <3>1, VirtualFields
  <2>3. v.of.expert = u.of.expert  BY <1>5, <1>8
  <2>4. v.of = u.of  BY <1>1, <1>6, <2>1, <2>2, <2>3, SameName
  <2> QED  BY <1>4, <1>5, <1>8, <2>4
<1>9. CASE v.kind = "renamed"
  <2>1. /\ v.of.block = "mlp" /\ v.of.field = "gate" /\ v.of.aux = "weight" /\ v.of.expert = x.expert
        /\ u.of.block = "mlp" /\ u.of.field = "gate" /\ u.of.aux = "weight" /\ u.of.expert = x.expert
    <3>1. u.kind = "renamed"  BY <1>4, <1>9
    <3> QED  BY <1>9, <3>1, RouterFields
  <2>2. v.of.expert = u.of.expert  BY <2>1
  <2>3. v.of = u.of  BY <1>1, <1>6, <2>1, <2>2, SameName
  <2> QED  BY <1>4, <1>9, <2>3
<1> QED  BY <1>2, <1>7, <1>8, <1>9

(* which is not listed under that name.                                    *)
LEMMA VirtualNotListed ==
  ASSUME InputOK, NEW x, NEW v, Virtual(x, v)
  PROVE  x \notin Listed
<1> SUFFICES ASSUME x \in Listed PROVE FALSE  OBVIOUS
<1>1. v.of \in Listed /\ v.of.at = x.at /\ v.of.layer = x.layer /\ v.kind \in {"v5", "renamed", "gpt_oss", "dbrx"}
      BY VirtualFields
<1>2. CASE v.kind \in {"v5", "gpt_oss", "dbrx"}
  <2>1. v.of.expert = Fused /\ x.expert \in Nat  BY <1>2, VirtualFused, MemberExpert
  <2>2. x.expert < 0  BY <1>1, <2>1, Layout
  <2> QED  BY <2>1, <2>2
<1>3. CASE v.kind = "renamed"
  <2>1. x.block = "block_sparse_moe" /\ x.field = "gate" /\ Mixtral(x)  BY <1>3, VirtualFields
  <2>2. RenamedName(x, v)  BY <1>3, KindIs
  <2>3. PICK m \in Listed : m.at = v.of.at /\ m.expert = Fused /\ m.layer = v.of.layer  BY <2>2 DEF RenamedName
  <2>4. x.block = "mlp"  BY <1>1, <2>1, <2>3, Layout
  <2> QED  BY <2>1, <2>4
<1> QED  BY <1>1, <1>2, <1>3

(* A tensor is cut up in one way.                                          *)
LEMMA SameTensor ==
  ASSUME InputOK, NEW x, NEW v, Virtual(x, v), NEW y, NEW u, Virtual(y, u), v.of = u.of
  PROVE  v.kind = u.kind
<1>1. v.kind \in {"v5", "renamed", "gpt_oss", "dbrx"} /\ u.kind \in {"v5", "renamed", "gpt_oss", "dbrx"}
      BY VirtualFields
<1>2. (v.kind = "renamed") <=> (u.kind = "renamed")
  <2>1. (v.kind = "renamed" => v.of.field = "gate" /\ Mixtral(v.of)) /\ (v.kind = "v5" => v.of.field # "gate")
        /\ (v.kind \in {"gpt_oss", "dbrx"} => ~Mixtral(v.of))
        BY NoRouter
  <2>2. (u.kind = "renamed" => u.of.field = "gate" /\ Mixtral(u.of)) /\ (u.kind = "v5" => u.of.field # "gate")
        /\ (u.kind \in {"gpt_oss", "dbrx"} => ~Mixtral(u.of))
        BY NoRouter
  <2> QED  BY <1>1, <2>1, <2>2
<1> QED  BY <1>2, SameKind
-----------------------------------------------------------------------------
(* The second invariant, in parts: the names are the listed ones until     *)
(* the passes, which a pipeline skips; quantized sources are not quantized *)
(* again;                                                                  *)
FreshInv == step \in {"resolve", "v5"} => ToSet(names) = Listed
AloneInv == Pipeline => virtual = <<>>
PlainInv == mode # "none" => \A d \in at : root.dirs[d].quant = "none"
(* no name is there twice, none is there beside the names made of it, and  *)
(* each listed one is there or all that is made of it;                     *)
OnceInv == \A i, j \in DOMAIN names : names[i] = names[j] => i = j
GoneInv == \A y \in DOMAIN virtual : virtual[y].of \notin ToSet(names)
Cut(s)  == \E y \in DOMAIN virtual : virtual[y].of = s
Held(s) ==
  \/ s \in ToSet(names)
  \/ Cut(s) /\ \A x, v : Virtual(x, v) /\ v.of = s => x \in ToSet(names) /\ x \in DOMAIN virtual
HeldInv == \A s \in Listed : Held(s)
(* the router of experts that moved did, too.                              *)
OldRouter(n) == Mixtral(n) /\ n.block = "mlp" /\ n.field = "gate" /\ n.aux = "weight"
RouterInv ==
  \A n \in ToSet(names), y \in DOMAIN virtual :
    virtual[y].kind = "v5" /\ y.at = n.at /\ y.layer = n.layer => ~OldRouter(n)
NamingInv == FreshInv /\ AloneInv /\ PlainInv /\ OnceInv /\ GoneInv /\ HeldInv /\ RouterInv

(* What a pass makes of each name: itself, or all that it is cut into.     *)
Kept(parts, i) == parts[i] = <<Raw(names[i])>>
Replaced(parts, i) ==
  /\ names[i] \in Listed /\ DOMAIN parts[i] # {}
  /\ \A k \in DOMAIN parts[i] : parts[i][k].of = names[i] /\ Virtual(parts[i][k].name, parts[i][k])
  /\ \A k, l \in DOMAIN parts[i] : parts[i][k].name = parts[i][l].name => k = l
  /\ \A x, v : Virtual(x, v) /\ v.of = names[i] => \E k \in DOMAIN parts[i] : parts[i][k].name = x
Divides(parts) == Parts(parts, names) /\ \A i \in DOMAIN names : Kept(parts, i) \/ Replaced(parts, i)

(* A name that stands for a part is none of a pass' own.                   *)
LEMMA RawNotVirtual == ASSUME NEW n, NEW x PROVE ~Virtual(x, Raw(n))
BY DEF Raw, Virtual, V5Name, RenamedName, GptOssName, DbrxName

(* What it is for a name to be kept.                                       *)
LEMMA KeptIs ==
  ASSUME NEW parts, NEW i, Kept(parts, i)
  PROVE  DOMAIN parts[i] = {1} /\ parts[i][1].name = names[i] /\ ~Replaced(parts, i)
<1>1. PICK s, r : s = parts[i] /\ r = Raw(names[i])  OBVIOUS
<1>2. s = <<r>>  BY <1>1 DEF Kept
<1>3. DOMAIN s = {1} /\ s[1] = r  BY <1>2
<1>4. r.name = names[i]  BY <1>1 DEF Raw
<1>5. ~Replaced(parts, i)
  <2> SUFFICES ASSUME Replaced(parts, i) PROVE FALSE  OBVIOUS
  <2>1. 1 \in DOMAIN parts[i] /\ parts[i][1] = r  BY <1>1, <1>3
  <2>2. Virtual(r.name, r)  BY <2>1 DEF Replaced
  <2> QED  BY <1>1, <2>2, RawNotVirtual
<1> QED  BY <1>1, <1>3, <1>4, <1>5

(* The names after a pass.                                                 *)
LEMMA PassNames ==
  ASSUME InputOK, IsSeq(names), NEW parts, NEW next, ExpandTo(parts, next), Divides(parts)
  PROVE  /\ \A x \in ToSet(names') :
              \/ \E i \in DOMAIN names : Kept(parts, i) /\ x = names[i]
              \/ \E i \in DOMAIN names : Replaced(parts, i) /\ \E k \in DOMAIN parts[i] : x = parts[i][k].name
         /\ \A i \in DOMAIN names : Kept(parts, i) => names[i] \in ToSet(names')
         /\ \A i \in DOMAIN names : Replaced(parts, i) =>
              \A k \in DOMAIN parts[i] : parts[i][k].name \in ToSet(names') /\ parts[i][k].name \in DOMAIN virtual'
<1> DEFINE made == FlattenSeq(parts)
           new  == {m \in ToSet(made) : m.kind # "raw"}
<1>1. DOMAIN parts = DOMAIN names /\ IsSeqs(parts)
  <2>1. Len(names) \in Nat /\ DOMAIN names = 1 .. Len(names)  BY SeqEntries
  <2> QED  BY <2>1 DEF IsSeqs, Parts, Divides
<1>2. /\ \A k \in DOMAIN made : \E i \in DOMAIN parts : \E j \in DOMAIN parts[i] : made[k] = parts[i][j]
      /\ \A i \in DOMAIN parts : \A j \in DOMAIN parts[i] : \E k \in DOMAIN made : made[k] = parts[i][j]
      BY <1>1, FlatEntries
<1>3. /\ names' = [i \in DOMAIN made |-> made[i].name]
      /\ DOMAIN virtual' = {m.name : m \in new} \cup DOMAIN virtual
      BY DEF ExpandTo
<1> HIDE DEF made
<1>4. ASSUME NEW x \in ToSet(names')
      PROVE  \/ \E i \in DOMAIN names : Kept(parts, i) /\ x = names[i]
             \/ \E i \in DOMAIN names : Replaced(parts, i) /\ \E k \in DOMAIN parts[i] : x = parts[i][k].name
  <2>1. PICK k \in DOMAIN names' : x = names'[k]  BY DEF ToSet
  <2>2. k \in DOMAIN made /\ x = made[k].name  BY <1>3, <2>1
  <2>3. PICK i \in DOMAIN parts : \E j \in DOMAIN parts[i] : made[k] = parts[i][j]  BY <1>2, <2>2
  <2>4. PICK j \in DOMAIN parts[i] : made[k] = parts[i][j]  BY <2>3
  <2>5. i \in DOMAIN names /\ x = parts[i][j].name  BY <1>1, <2>2, <2>4
  <2>6. CASE Kept(parts, i)
    <3>1. j = 1 /\ parts[i][1].name = names[i]  BY <2>4, <2>6, KeptIs
    <3> QED  BY <2>5, <2>6, <3>1
  <2>7. CASE Replaced(parts, i)  BY <2>4, <2>5, <2>7
  <2> QED  BY <2>5, <2>6, <2>7 DEF Divides
<1>5. ASSUME NEW i \in DOMAIN names, NEW j \in DOMAIN parts[i]
      PROVE  parts[i][j].name \in ToSet(names') /\ parts[i][j] \in ToSet(made)
  <2>1. PICK k \in DOMAIN made : made[k] = parts[i][j]  BY <1>1, <1>2
  <2>2. k \in DOMAIN names' /\ names'[k] = parts[i][j].name  BY <1>3, <2>1
  <2> QED  BY <2>1, <2>2 DEF ToSet
<1>6. ASSUME NEW i \in DOMAIN names, Kept(parts, i) PROVE names[i] \in ToSet(names')
  <2>1. 1 \in DOMAIN parts[i] /\ parts[i][1].name = names[i]  BY <1>6, KeptIs
  <2>2. parts[i][1].name \in ToSet(names')  BY <1>5, <2>1
  <2> QED  BY <2>1, <2>2
<1>7. ASSUME NEW i \in DOMAIN names, Replaced(parts, i), NEW k \in DOMAIN parts[i]
      PROVE  parts[i][k].name \in DOMAIN virtual'
  <2>1. PICK m : m = parts[i][k]  OBVIOUS
  <2>2. Virtual(m.name, m) /\ m \in ToSet(made)  BY <1>5, <1>7, <2>1 DEF Replaced
  <2>3. m.kind # "raw"  BY <2>2 DEF Virtual, V5Name, RenamedName, GptOssName, DbrxName
  <2>4. m \in new  BY <2>2, <2>3
  <2> QED  BY <1>3, <2>1, <2>4
<1> QED  BY <1>4, <1>5, <1>6, <1>7

(* Parts with one name are one part.                                       *)
LEMMA PartsApart ==
  ASSUME InputOK, NamesInv, weights = {}, OnceInv, GoneInv, NEW parts, Divides(parts),
         NEW h \in DOMAIN names, NEW i \in DOMAIN names, NEW j \in DOMAIN parts[h], NEW l \in DOMAIN parts[i],
         parts[h][j].name = parts[i][l].name
  PROVE  h = i /\ j = l
<1>1. ASSUME NEW a \in DOMAIN names, NEW b \in DOMAIN names, Kept(parts, a), Replaced(parts, b),
             NEW c \in DOMAIN parts[b], names[a] = parts[b][c].name
      PROVE  FALSE
  <2>1. PICK x, v : x = names[a] /\ v = parts[b][c]  OBVIOUS
  <2>2. Virtual(x, v) /\ v.of = names[b]  BY <1>1, <2>1 DEF Replaced
  <2>3. x \in ToSet(names) /\ names[b] \in ToSet(names)  BY <2>1 DEF ToSet
  <2>4. x \notin Listed  BY <2>2, VirtualNotListed
  <2>5. x \in DOMAIN virtual /\ Virtual(x, virtual[x])  BY <2>3, <2>4 DEF NamesInv
  <2>6. PICK u : u = virtual[x]  OBVIOUS
  <2>7. v.of = u.of  BY <2>2, <2>5, <2>6, VirtualUnique
  <2>8. u.of \notin ToSet(names)  BY <2>5, <2>6 DEF GoneInv
  <2> QED  BY <2>2, <2>3, <2>7, <2>8
<1>2. CASE Kept(parts, h) /\ Kept(parts, i)
  <2>1. j = 1 /\ l = 1 /\ names[h] = names[i]  BY <1>2, KeptIs
  <2> QED  BY <2>1 DEF OnceInv
<1>3. CASE Kept(parts, h) /\ Replaced(parts, i)
  <2>1. j = 1 /\ names[h] = parts[i][l].name  BY <1>3, KeptIs
  <2> QED  BY <1>1, <1>3, <2>1
<1>4. CASE Replaced(parts, h) /\ Kept(parts, i)
  <2>1. l = 1 /\ names[i] = parts[h][j].name  BY <1>4, KeptIs
  <2> QED  BY <1>1, <1>4, <2>1
<1>5. CASE Replaced(parts, h) /\ Replaced(parts, i)
  <2>1. PICK v, u : v = parts[h][j] /\ u = parts[i][l]  OBVIOUS
  <2>2. PICK x : x = v.name /\ x = u.name  BY <2>1
  <2>3. Virtual(x, v) /\ v.of = names[h]  BY <1>5, <2>1, <2>2 DEF Replaced
  <2>4. Virtual(x, u) /\ u.of = names[i]  BY <1>5, <2>1, <2>2 DEF Replaced
  <2>5. v.of = u.of  BY <2>3, <2>4, VirtualUnique
  <2>6. h = i  BY <2>3, <2>4, <2>5 DEF OnceInv
  <2>7. j = l  BY <1>5, <2>6 DEF Replaced
  <2> QED  BY <2>6, <2>7
<1> QED  BY <1>2, <1>3, <1>4, <1>5 DEF Divides
-----------------------------------------------------------------------------
(* What a pass does to the second invariant.  A router that stays is not   *)
(* one of a layer whose experts this pass cuts.                            *)
RouterFollows(parts) ==
  \A i, h \in DOMAIN names : \A k \in DOMAIN parts[h] :
    Kept(parts, i) /\ parts[h][k].kind = "v5" /\ names[i].at = names[h].at /\ names[i].layer = names[h].layer =>
      ~OldRouter(names[i])

(* Every virtual name stands after the pass for what it stood for.         *)
LEMMA PassVirtual ==
  ASSUME ConvertInv, weights = {}, NEW parts, NEW next, ExpandTo(parts, next), Divides(parts)
  PROVE  /\ \A x \in DOMAIN virtual' : Virtual(x, virtual'[x])
         /\ \A x \in DOMAIN virtual : x \in DOMAIN virtual' /\ virtual'[x].of = virtual[x].of
         /\ \A x \in DOMAIN virtual' :
              \/ x \in DOMAIN virtual /\ virtual'[x] = virtual[x]
              \/ \E i \in DOMAIN names : Replaced(parts, i) /\ \E k \in DOMAIN parts[i] : virtual'[x] = parts[i][k]
         /\ \A i \in DOMAIN names : Replaced(parts, i) =>
              \A k \in DOMAIN parts[i] : virtual'[parts[i][k].name].of = names[i]
<1>1. InputOK /\ IsSeq(names) /\ \A x \in DOMAIN virtual : Virtual(x, virtual[x])
      BY DEF ConvertInv, StepInv, NamesInv
<1>2. Parts(parts, names)  BY DEF Divides
<1>3. /\ \A x \in DOMAIN virtual : x \in DOMAIN virtual'
      /\ \A x \in DOMAIN virtual' :
           \/ x \in DOMAIN virtual /\ virtual'[x] = virtual[x]
           \/ Virtual(x, virtual'[x]) /\ \E i \in DOMAIN names : \E k \in DOMAIN parts[i] : virtual'[x] = parts[i][k]
      BY <1>1, <1>2, ExpandKeeps
<1>4. ASSUME NEW x \in DOMAIN virtual' PROVE Virtual(x, virtual'[x])
  <2>1. CASE x \in DOMAIN virtual /\ virtual'[x] = virtual[x]
    <3>1. Virtual(x, virtual[x])  BY <1>1, <2>1
    <3> QED  BY <2>1, <3>1
  <2>2. CASE Virtual(x, virtual'[x])  BY <2>2
  <2> QED  BY <1>3, <2>1, <2>2
<1>5. ASSUME NEW x \in DOMAIN virtual PROVE x \in DOMAIN virtual' /\ virtual'[x].of = virtual[x].of
  <2>1. x \in DOMAIN virtual' /\ Virtual(x, virtual[x])  BY <1>1, <1>3
  <2>2. Virtual(x, virtual'[x])  BY <1>4, <2>1
  <2> QED  BY <1>1, <2>1, <2>2, VirtualUnique
<1>6. ASSUME NEW x \in DOMAIN virtual', ~(x \in DOMAIN virtual /\ virtual'[x] = virtual[x])
      PROVE  \E i \in DOMAIN names : Replaced(parts, i) /\ \E k \in DOMAIN parts[i] : virtual'[x] = parts[i][k]
  <2>1. PICK i \in DOMAIN names : \E k \in DOMAIN parts[i] : virtual'[x] = parts[i][k]  BY <1>3, <1>6
  <2>2. PICK k \in DOMAIN parts[i] : virtual'[x] = parts[i][k]  BY <2>1
  <2>3. ~Kept(parts, i)
    <3> SUFFICES ASSUME Kept(parts, i) PROVE FALSE  OBVIOUS
    <3>1. DOMAIN parts[i] = {1}  BY KeptIs
    <3>2. k = 1  BY <3>1
    <3>3. PICK s, r : s = parts[i] /\ r = Raw(names[i])  OBVIOUS
    <3>4. s = <<r>>  BY <3>3 DEF Kept
    <3>5. s[1] = r  BY <3>4
    <3>6. virtual'[x] = r  BY <2>2, <3>2, <3>3, <3>5
    <3>7. Virtual(x, r)  BY <1>4, <3>6
    <3> QED  BY <3>3, <3>7, RawNotVirtual
  <2> QED  BY <2>1, <2>3 DEF Divides
<1>7. ASSUME NEW i \in DOMAIN names, Replaced(parts, i), NEW k \in DOMAIN parts[i]
      PROVE  virtual'[parts[i][k].name].of = names[i]
  <2>1. PICK m : m = parts[i][k]  OBVIOUS
  <2>2. Virtual(m.name, m) /\ m.of = names[i]  BY <1>7, <2>1 DEF Replaced
  <2>3. m.name \in DOMAIN virtual'  BY <1>1, <1>7, <2>1, PassNames
  <2>4. Virtual(m.name, virtual'[m.name])  BY <1>4, <2>3
  <2>5. PICK x, u : x = m.name /\ u = virtual'[m.name]  OBVIOUS
  <2>6. u.of = m.of  BY <1>1, <2>2, <2>4, <2>5, VirtualUnique
  <2> QED  BY <2>1, <2>2, <2>5, <2>6
<1> QED  BY <1>4, <1>5, <1>6, <1>7

(* No name is there twice,                                                 *)
LEMMA PassOnce ==
  ASSUME ConvertInv, NamingInv, weights = {}, NEW parts, NEW next, ExpandTo(parts, next), Divides(parts)
  PROVE  OnceInv'
<1> DEFINE made == FlattenSeq(parts)
<1>1. InputOK /\ NamesInv /\ IsSeq(names) /\ OnceInv /\ GoneInv
      BY DEF ConvertInv, StepInv, NamesInv, NamingInv
<1>2. DOMAIN parts = DOMAIN names /\ IsSeqs(parts)
  <2>1. Len(names) \in Nat /\ DOMAIN names = 1 .. Len(names)  BY <1>1, SeqEntries
  <2> QED  BY <2>1 DEF IsSeqs, Parts, Divides
<1>3. PICK S : S = EntriesOf(parts)  OBVIOUS
<1>4. parts \in Seq(Seq(S))  BY <1>2, <1>3, SeqsType
<1>5. \A k \in DOMAIN made : \E i \in DOMAIN parts : \E j \in DOMAIN parts[i] : made[k] = parts[i][j]
      BY <1>2, FlatEntries
<1>6. names' = [i \in DOMAIN made |-> made[i].name]  BY DEF ExpandTo
<1>7. \A h, i \in DOMAIN parts : \A j \in DOMAIN parts[h], l \in DOMAIN parts[i] :
        parts[h][j].name = parts[i][l].name => h = i /\ j = l
      BY <1>1, <1>2, PartsApart
<1>8. \A h, i \in DOMAIN parts : \A j \in DOMAIN parts[h], l \in DOMAIN parts[i] :
        parts[h][j] = parts[i][l] => h = i /\ j = l
      BY <1>7
<1>9. ASSUME NEW k \in DOMAIN made, NEW m \in DOMAIN made, made[k].name = made[m].name PROVE k = m
  <2>1. PICK h \in DOMAIN parts : \E j \in DOMAIN parts[h] : made[k] = parts[h][j]  BY <1>5
  <2>2. PICK j \in DOMAIN parts[h] : made[k] = parts[h][j]  BY <2>1
  <2>3. PICK i \in DOMAIN parts : \E l \in DOMAIN parts[i] : made[m] = parts[i][l]  BY <1>5
  <2>4. PICK l \in DOMAIN parts[i] : made[m] = parts[i][l]  BY <2>3
  <2>5. parts[h][j].name = parts[i][l].name  BY <1>9, <2>2, <2>4
  <2>6. h = i /\ j = l  BY <1>7, <2>5
  <2>7. made[k] = made[m]  BY <2>2, <2>4, <2>6
  <2> QED  BY <1>4, <1>8, <2>7, FlattenSeqInjective
<1> HIDE DEF made
<1>10. ASSUME NEW i \in DOMAIN names', NEW j \in DOMAIN names', names'[i] = names'[j] PROVE i = j
  <2>1. i \in DOMAIN made /\ j \in DOMAIN made /\ made[i].name = made[j].name  BY <1>6, <1>10
  <2> QED  BY <1>9, <2>1
<1> QED  BY <1>10 DEF OnceInv

(* or beside the names made of it;                                         *)
LEMMA PassGone ==
  ASSUME ConvertInv, NamingInv, weights = {}, NEW parts, NEW next, ExpandTo(parts, next), Divides(parts)
  PROVE  GoneInv'
<1>1. InputOK /\ IsSeq(names) /\ OnceInv /\ GoneInv
      BY DEF ConvertInv, StepInv, NamesInv, NamingInv
<1>2. ASSUME NEW s \in ToSet(names'), s \in Listed PROVE \E i \in DOMAIN names : Kept(parts, i) /\ s = names[i]
  <2>1. CASE \E i \in DOMAIN names : Kept(parts, i) /\ s = names[i]  BY <2>1
  <2>2. CASE \E i \in DOMAIN names : Replaced(parts, i) /\ \E k \in DOMAIN parts[i] : s = parts[i][k].name
    <3>1. PICK i \in DOMAIN names : Replaced(parts, i) /\ \E k \in DOMAIN parts[i] : s = parts[i][k].name  BY <2>2
    <3>2. PICK k \in DOMAIN parts[i] : s = parts[i][k].name  BY <3>1
    <3>3. PICK m : m = parts[i][k]  OBVIOUS
    <3>4. Virtual(s, m)  BY <3>1, <3>2, <3>3 DEF Replaced
    <3> QED  BY <1>1, <1>2, <3>4, VirtualNotListed
  <2> QED  BY <1>1, <1>2, <2>1, <2>2, PassNames
<1>3. ASSUME NEW y \in DOMAIN virtual', virtual'[y].of \in ToSet(names') PROVE FALSE
  <2>1. PICK v, s : v = virtual'[y] /\ s = v.of  OBVIOUS
  <2>2. Virtual(y, v)  BY <2>1, PassVirtual
  <2>3. s \in Listed  BY <1>1, <2>1, <2>2, FamilyOf
  <2>4. PICK i \in DOMAIN names : Kept(parts, i) /\ s = names[i]  BY <1>2, <1>3, <2>1, <2>3
  <2>5. CASE y \in DOMAIN virtual /\ virtual'[y] = virtual[y]
    <3>1. virtual[y].of = s  BY <2>1, <2>5
    <3>2. s \in ToSet(names)  BY <2>4 DEF ToSet
    <3> QED  BY <1>1, <2>5, <3>1, <3>2 DEF GoneInv
  <2>6. CASE \E h \in DOMAIN names : Replaced(parts, h) /\ \E k \in DOMAIN parts[h] : virtual'[y] = parts[h][k]
    <3>1. PICK h \in DOMAIN names : Replaced(parts, h) /\ \E k \in DOMAIN parts[h] : virtual'[y] = parts[h][k]  BY <2>6
    <3>2. s = names[h]  BY <2>1, <3>1 DEF Replaced
    <3>3. h = i  BY <1>1, <2>4, <3>2 DEF OnceInv
    <3> QED  BY <2>4, <3>1, <3>3, KeptIs
  <2> QED  BY <2>5, <2>6, PassVirtual
<1> QED  BY <1>3 DEF GoneInv
-----------------------------------------------------------------------------
(* every listed one is there or all that is made of it,                    *)
LEMMA PassHeld ==
  ASSUME ConvertInv, NamingInv, weights = {}, NEW parts, NEW next, ExpandTo(parts, next), Divides(parts)
  PROVE  HeldInv'
<1>0. root' = root /\ at' = at  BY DEF ExpandTo, inputs
<1>1. InputOK /\ IsSeq(names) /\ HeldInv  BY DEF ConvertInv, StepInv, NamesInv, NamingInv
<1>2. Listed' = Listed /\ \A x, v : Virtual(x, v)' <=> Virtual(x, v)  BY <1>0, FrozenRoot, FrozenVirtual
<1>3. ASSUME NEW s \in Listed, NEW i \in DOMAIN names, s = names[i], Kept(parts, i) PROVE s \in ToSet(names')
      BY <1>1, <1>3, PassNames
<1>4. ASSUME NEW s \in Listed, NEW i \in DOMAIN names, s = names[i], Replaced(parts, i)
      PROVE  /\ \E y \in DOMAIN virtual' : virtual'[y].of = s
             /\ \A x, v : Virtual(x, v) /\ v.of = s => x \in ToSet(names') /\ x \in DOMAIN virtual'
  <2>1. \A k \in DOMAIN parts[i] : parts[i][k].name \in ToSet(names') /\ parts[i][k].name \in DOMAIN virtual'
        BY <1>1, <1>4, PassNames
  <2>2. PICK k \in DOMAIN parts[i] : TRUE  BY <1>4 DEF Replaced
  <2>3. virtual'[parts[i][k].name].of = s  BY <1>4, PassVirtual
  <2>4. \A x, v : Virtual(x, v) /\ v.of = s => \E l \in DOMAIN parts[i] : parts[i][l].name = x  BY <1>4 DEF Replaced
  <2> QED  BY <2>1, <2>2, <2>3, <2>4
<1>5. ASSUME NEW s \in Listed, s \notin ToSet(names)
      PROVE  /\ \E y \in DOMAIN virtual' : virtual'[y].of = s
             /\ \A x, v : Virtual(x, v) /\ v.of = s => x \in ToSet(names') /\ x \in DOMAIN virtual'
  <2>1. Held(s)  BY <1>1 DEF HeldInv
  <2>2. PICK y \in DOMAIN virtual : virtual[y].of = s  BY <1>5, <2>1 DEF Held, Cut
  <2>3. y \in DOMAIN virtual' /\ virtual'[y].of = s  BY <2>2, PassVirtual
  <2>4. ASSUME NEW x, NEW v, Virtual(x, v), v.of = s PROVE x \in ToSet(names') /\ x \in DOMAIN virtual'
    <3>1. x \in ToSet(names) /\ x \in DOMAIN virtual  BY <1>5, <2>1, <2>4 DEF Held
    <3>2. PICK j \in DOMAIN names : x = names[j]  BY <3>1 DEF ToSet
    <3>3. x \notin Listed  BY <1>1, <2>4, VirtualNotListed
    <3>4. Kept(parts, j)  BY <3>2, <3>3 DEF Divides, Replaced
    <3>5. x \in ToSet(names')  BY <1>1, <3>2, <3>4, PassNames
    <3> QED  BY <3>1, <3>5, PassVirtual
  <2> QED  BY <2>3, <2>4
<1>6. ASSUME NEW s \in Listed
      PROVE  \/ s \in ToSet(names')
             \/ /\ \E y \in DOMAIN virtual' : virtual'[y].of = s
                /\ \A x, v : Virtual(x, v) /\ v.of = s => x \in ToSet(names') /\ x \in DOMAIN virtual'
  <2>1. CASE s \in ToSet(names)
    <3>1. PICK i \in DOMAIN names : s = names[i]  BY <2>1 DEF ToSet
    <3>2. Kept(parts, i) \/ Replaced(parts, i)  BY DEF Divides
    <3> QED  BY <1>3, <1>4, <3>1, <3>2
  <2>2. CASE s \notin ToSet(names)  BY <1>5, <2>2
  <2> QED  BY <2>1, <2>2
<1>7. \A s \in Listed : Held(s)'  BY <1>2, <1>6 DEF Held, Cut
<1> QED  BY <1>2, <1>7 DEF HeldInv

(* What an expansion makes is no router that has to move.                  *)
LEMMA VirtualNoRouter ==
  ASSUME InputOK, NEW x, NEW v, Virtual(x, v)
  PROVE  ~OldRouter(x)
<1>1. CASE v.kind = "renamed"
  <2>1. x.block = "block_sparse_moe"  BY <1>1, VirtualFields
  <2> QED  BY <2>1 DEF OldRouter
<1>2. CASE v.kind = "v5"
  <2>1. x.field # "gate"  BY <1>2, NoRouter
  <2> QED  BY <2>1 DEF OldRouter
<1>3. CASE v.kind \in {"gpt_oss", "dbrx"}
  <2>1. ~Mixtral(v.of)  BY <1>3, NoRouter
  <2>2. x.at = v.of.at  BY VirtualFields
  <2>3. ~Mixtral(x)  BY <2>1, <2>2 DEF Mixtral, Conf
  <2> QED  BY <2>3 DEF OldRouter
<1>4. v.kind \in {"v5", "renamed", "gpt_oss", "dbrx"}  BY VirtualFields
<1> QED  BY <1>1, <1>2, <1>3, <1>4

(* and the router of the experts it cuts is not left behind.               *)
LEMMA PassRouter ==
  ASSUME ConvertInv, NamingInv, weights = {}, NEW parts, NEW next, ExpandTo(parts, next), Divides(parts),
         RouterFollows(parts)
  PROVE  RouterInv'
<1>0. root' = root /\ at' = at  BY DEF ExpandTo, inputs
<1>1. InputOK /\ IsSeq(names) /\ RouterInv  BY DEF ConvertInv, StepInv, NamesInv, NamingInv
<1>2. ASSUME NEW n \in ToSet(names'), NEW y \in DOMAIN virtual', virtual'[y].kind = "v5", y.at = n.at, y.layer = n.layer
      PROVE  ~OldRouter(n)
  <2>1. CASE \E i \in DOMAIN names : Replaced(parts, i) /\ \E k \in DOMAIN parts[i] : n = parts[i][k].name
    <3>1. PICK i \in DOMAIN names : Replaced(parts, i) /\ \E k \in DOMAIN parts[i] : n = parts[i][k].name  BY <2>1
    <3>2. PICK k \in DOMAIN parts[i] : n = parts[i][k].name  BY <3>1
    <3>3. PICK m : m = parts[i][k]  OBVIOUS
    <3>4. Virtual(n, m)  BY <3>1, <3>2, <3>3 DEF Replaced
    <3> QED  BY <1>1, <3>4, VirtualNoRouter
  <2>2. CASE \E i \in DOMAIN names : Kept(parts, i) /\ n = names[i]
    <3>1. PICK i \in DOMAIN names : Kept(parts, i) /\ n = names[i]  BY <2>2
    <3>2. CASE y \in DOMAIN virtual /\ virtual'[y] = virtual[y]
      <4>1. n \in ToSet(names)  BY <3>1 DEF ToSet
      <4>2. virtual[y].kind = "v5"  BY <1>2, <3>2
      <4> QED  BY <1>1, <1>2, <3>2, <4>1, <4>2 DEF RouterInv
    <3>3. CASE \E h \in DOMAIN names : Replaced(parts, h) /\ \E k \in DOMAIN parts[h] : virtual'[y] = parts[h][k]
      <4>1. PICK h \in DOMAIN names : Replaced(parts, h) /\ \E k \in DOMAIN parts[h] : virtual'[y] = parts[h][k]  BY <3>3
      <4>2. PICK k \in DOMAIN parts[h] : virtual'[y] = parts[h][k]  BY <4>1
      <4>3. PICK v : v = virtual'[y]  OBVIOUS
      <4>4. Virtual(y, v) /\ v.of = names[h]  BY <4>1, <4>2, <4>3, PassVirtual DEF Replaced
      <4>a. y.at = v.of.at /\ y.layer = v.of.layer  BY <1>1, <4>4, VirtualFields
      <4>5. y.at = names[h].at /\ y.layer = names[h].layer  BY <4>4, <4>a
      <4>6. parts[h][k].kind = "v5"  BY <1>2, <4>2
      <4> QED  BY <1>2, <3>1, <4>5, <4>6 DEF RouterFollows
    <3> QED  BY <3>2, <3>3, PassVirtual
  <2> QED  BY <1>1, <2>1, <2>2, PassNames
<1>3. \A n : OldRouter(n)' <=> OldRouter(n)  BY <1>0 DEF OldRouter, Mixtral, Conf
<1> QED  BY <1>2, <1>3 DEF RouterInv

(* So a pass that cuts tensors whole keeps the invariant.                  *)
LEMMA PassKeepsNaming ==
  ASSUME ConvertInv, NamingInv, step \in {"v5", "gpt_oss", "dbrx"}, NEW parts, NEW next, next \notin {"resolve", "v5"},
         ExpandTo(parts, next), Divides(parts), RouterFollows(parts)
  PROVE  NamingInv'
<1>0. root' = root /\ at' = at /\ mode' = mode /\ step' = next  BY DEF ExpandTo, inputs
<1>1. weights = {} /\ \E d : at = {d}  BY DEF ConvertInv, StepInv, Early
<1>2. FreshInv'  BY <1>0 DEF FreshInv
<1>3. AloneInv'
  <2>1. PICK d : at = {d}  BY <1>1
  <2>2. Cardinality({d}) = 1  BY FS_Singleton
  <2>3. at' = {d}  BY <1>0, <2>1
  <2>4. ~Pipeline'  BY <2>2, <2>3 DEF Pipeline
  <2> QED  BY <2>4 DEF AloneInv
<1>4. PlainInv'
  <2>1. PlainInv  BY DEF NamingInv
  <2> QED  BY <1>0, <2>1 DEF PlainInv
<1>5. OnceInv' /\ GoneInv' /\ HeldInv' /\ RouterInv'  BY <1>1, PassOnce, PassGone, PassHeld, PassRouter
<1> QED  BY <1>2, <1>3, <1>4, <1>5 DEF NamingInv
-----------------------------------------------------------------------------
(* A list of all the parts of a tensor, each once.                         *)
CutUp(s, n) ==
  /\ DOMAIN s # {}
  /\ \A k \in DOMAIN s : s[k].of = n /\ Virtual(s[k].name, s[k])
  /\ \A k, l \in DOMAIN s : s[k].name = s[l].name => k = l
  /\ \A x, v : Virtual(x, v) /\ v.of = n => \E k \in DOMAIN s : s[k].name = x

(* V5Expansion cuts a fused tensor up,                                     *)
LEMMA V5Cuts ==
  ASSUME InputOK, NEW n \in Listed, V5Expands(n)
  PROVE  CutUp(V5Of(n), n) /\ \A k \in DOMAIN V5Of(n) : V5Of(n)[k].kind = "v5"
<1>1. PICK ss : ss = V5Lists(n)  OBVIOUS
<1>2. PICK F : F = FlattenSeq(ss)  OBVIOUS
<1>3. V5Of(n) = F  BY <1>1, <1>2, V5OfIs
<1>4. /\ IsSeqs(ss) /\ DOMAIN ss = 1 .. Source(n).shape[1] /\ Source(n).shape[1] \in Nat
      /\ \A i \in DOMAIN ss : DOMAIN ss[i] = DOMAIN V5Parts(n)
      /\ \A i \in DOMAIN ss : \A p \in DOMAIN V5Parts(n) : ss[i][p] = V5Record(n, i - 1, V5Parts(n)[p])
      BY <1>1, V5ListsType
<1>5. PICK c \in Nat : c = Source(n).shape[1] /\ DOMAIN ss = 1 .. c /\ c > 0
  <2>1. Source(n).shape \in Seq(Nat \ {0}) /\ Len(Source(n).shape) = 3  BY ListedName DEF V5Expands
  <2>2. 1 \in 1 .. Len(Source(n).shape)  BY <2>1
  <2>3. Source(n).shape[1] \in Nat /\ Source(n).shape[1] > 0  BY <2>1, <2>2, Dimension
  <2> QED  BY <1>4, <2>3
<1>6. /\ \A p \in DOMAIN V5Parts(n) : PartOf(n, V5Parts(n)[p])
      /\ \A p, q \in DOMAIN V5Parts(n) : V5Parts(n)[p] = V5Parts(n)[q] => p = q
      /\ \A part : PartOf(n, part) => \E p \in DOMAIN V5Parts(n) : V5Parts(n)[p] = part
      BY V5PartsPlaces
<1>7. ASSUME NEW i \in DOMAIN ss, NEW p \in DOMAIN ss[i]
      PROVE  /\ p \in DOMAIN V5Parts(n) /\ ss[i][p].kind = "v5" /\ ss[i][p].of = n /\ ss[i][p].expert = i - 1
             /\ ss[i][p].part = V5Parts(n)[p] /\ Virtual(ss[i][p].name, ss[i][p])
             /\ ss[i][p].name = V5Member(n, i - 1, V5Parts(n)[p])
  <2>1. p \in DOMAIN V5Parts(n)  BY <1>4
  <2>2. PICK part : part = V5Parts(n)[p]  OBVIOUS
  <2>3. PICK e : e = i - 1  OBVIOUS
  <2>4. PICK m : m = V5Record(n, e, part)  OBVIOUS
  <2>5. ss[i][p] = m  BY <1>4, <2>1, <2>2, <2>3, <2>4
  <2>6. PartOf(n, part)  BY <1>6, <2>1, <2>2
  <2>7. e \in 0 .. Source(n).shape[1] - 1
    <3>1. i \in 1 .. c  BY <1>5
    <3>2. i - 1 \in 0 .. c - 1  BY <3>1
    <3> QED  BY <1>5, <2>3, <3>2
  <2>8. m.kind = "v5" /\ m.of = n /\ m.expert = e /\ m.part = part /\ m.name = V5Member(n, e, part)
        BY <2>4 DEF V5Record
  <2>9. Virtual(m.name, m)  BY <2>6, <2>7, <2>8 DEF V5Name, Virtual
  <2> QED  BY <2>1, <2>2, <2>3, <2>5, <2>8, <2>9
<1>8. /\ \A k \in DOMAIN F : \E i \in DOMAIN ss : \E p \in DOMAIN ss[i] : F[k] = ss[i][p]
      /\ \A i \in DOMAIN ss : \A p \in DOMAIN ss[i] : \E k \in DOMAIN F : F[k] = ss[i][p]
      BY <1>2, <1>4, FlatEntries
<1>9. ASSUME NEW k \in DOMAIN F PROVE F[k].of = n /\ Virtual(F[k].name, F[k]) /\ F[k].kind = "v5"
  <2>1. PICK i \in DOMAIN ss : \E p \in DOMAIN ss[i] : F[k] = ss[i][p]  BY <1>8
  <2>2. PICK p \in DOMAIN ss[i] : F[k] = ss[i][p]  BY <2>1
  <2> QED  BY <1>7, <2>2
<1>10. \A h, i \in DOMAIN ss : \A p \in DOMAIN ss[h], q \in DOMAIN ss[i] : ss[h][p] = ss[i][q] => h = i /\ p = q
  <2>1. ASSUME NEW h \in DOMAIN ss, NEW i \in DOMAIN ss, NEW p \in DOMAIN ss[h], NEW q \in DOMAIN ss[i], ss[h][p] = ss[i][q]
        PROVE  h = i /\ p = q
    <3>1. h - 1 = i - 1  BY <1>7, <2>1
    <3>2. h \in Nat /\ i \in Nat  BY <1>5
    <3>3. V5Parts(n)[p] = V5Parts(n)[q] /\ p \in DOMAIN V5Parts(n) /\ q \in DOMAIN V5Parts(n)  BY <1>7, <2>1
    <3> QED  BY <1>6, <3>1, <3>2, <3>3
  <2> QED  BY <2>1
<1>11. ASSUME NEW k \in DOMAIN F, NEW l \in DOMAIN F, F[k].name = F[l].name PROVE k = l
  <2>1. PICK x, v, u : x = F[k].name /\ v = F[k] /\ u = F[l]  OBVIOUS
  <2>2. Virtual(x, v) /\ Virtual(x, u)  BY <1>9, <1>11, <2>1
  <2>k. v.kind = "v5"  BY <1>9, <2>1
  <2>3. v.expert = u.expert /\ v.part = u.part  BY <2>2, <2>k, VirtualUnique
  <2>4. PICK i \in DOMAIN ss : \E p \in DOMAIN ss[i] : F[k] = ss[i][p]  BY <1>8
  <2>5. PICK p \in DOMAIN ss[i] : F[k] = ss[i][p]  BY <2>4
  <2>6. PICK h \in DOMAIN ss : \E q \in DOMAIN ss[h] : F[l] = ss[h][q]  BY <1>8
  <2>7. PICK q \in DOMAIN ss[h] : F[l] = ss[h][q]  BY <2>6
  <2>8. i - 1 = h - 1  BY <1>7, <2>1, <2>3, <2>5, <2>7
  <2>9. i \in Nat /\ h \in Nat  BY <1>5
  <2>10. i = h  BY <2>8, <2>9
  <2>11. V5Parts(n)[p] = V5Parts(n)[q] /\ p \in DOMAIN V5Parts(n) /\ q \in DOMAIN V5Parts(n)
         BY <1>7, <2>1, <2>3, <2>5, <2>7
  <2>12. p = q  BY <1>6, <2>11
  <2>13. F[k] = F[l]  BY <2>5, <2>7, <2>10, <2>12
  <2>14. PICK S : S = EntriesOf(ss)  OBVIOUS
  <2>15. ss \in Seq(Seq(S))  BY <1>4, <2>14, SeqsType
  <2> QED  BY <1>2, <1>10, <2>13, <2>15, FlattenSeqInjective
<1>12. DOMAIN F # {}
  <2>1. PICK part : PartOf(n, part)  BY DEF V5Expands, PartOf
  <2>2. PICK p \in DOMAIN V5Parts(n) : V5Parts(n)[p] = part  BY <1>6, <2>1
  <2>3. 1 \in DOMAIN ss  BY <1>5
  <2>4. p \in DOMAIN ss[1]  BY <1>4, <2>3
  <2> QED  BY <1>8, <2>3, <2>4
<1>13. ASSUME NEW x, NEW v, Virtual(x, v), v.of = n PROVE \E k \in DOMAIN F : F[k].name = x
  <2>1. PICK k \in DOMAIN F : TRUE  BY <1>12
  <2>2. PICK y, u : y = F[k].name /\ u = F[k]  OBVIOUS
  <2>3. Virtual(y, u) /\ u.of = n /\ u.kind = "v5"  BY <1>9, <2>2
  <2>4. v.kind = u.kind  BY <1>13, <2>3, SameTensor
  <2>5. V5Name(x, v)  BY <1>13, <2>3, <2>4, KindIs
  <2>6. PartOf(n, v.part) /\ v.expert \in 0 .. c - 1 /\ x = V5Member(n, v.expert, v.part)  BY <1>5, <1>13, <2>5 DEF V5Name
  <2>7. PICK p \in DOMAIN V5Parts(n) : V5Parts(n)[p] = v.part  BY <1>6, <2>6
  <2>8. PICK e : e = v.expert  OBVIOUS
  <2>9. e + 1 \in 1 .. c /\ (e + 1) - 1 = e  BY <2>6, <2>8
  <2>10. PICK i : i = e + 1  OBVIOUS
  <2>11. i \in DOMAIN ss /\ p \in DOMAIN ss[i]  BY <1>4, <1>5, <2>9, <2>10
  <2>12. ss[i][p].name = V5Member(n, i - 1, V5Parts(n)[p])  BY <1>7, <2>11
  <2>13. ss[i][p].name = x  BY <2>6, <2>7, <2>8, <2>9, <2>10, <2>12
  <2>14. PICK m \in DOMAIN F : F[m] = ss[i][p]  BY <1>8, <2>11
  <2> QED  BY <2>13, <2>14
<1> QED  BY <1>3, <1>9, <1>11, <1>12, <1>13 DEF CutUp

(* and makes one name of a router.                                         *)
LEMMA OneCut ==
  ASSUME InputOK, NEW n, NEW m, m.kind = "renamed", m.of = n, Virtual(m.name, m), NEW s, s = <<m>>
  PROVE  CutUp(s, n)
<1>1. DOMAIN s = {1} /\ s[1] = m  OBVIOUS
<1>2. ASSUME NEW x, NEW v, Virtual(x, v), v.of = n PROVE x = m.name
  <2>1. PICK y : y = m.name  OBVIOUS
  <2>2. Virtual(y, m)  BY <2>1
  <2>3. v.kind = m.kind  BY <1>2, <2>2, SameTensor
  <2>4. v.kind = "renamed"  BY <2>3
  <2>5. RenamedName(x, v) /\ RenamedName(y, m)  BY <1>2, <2>2, <2>4, KindIs
  <2> QED  BY <1>2, <2>1, <2>5 DEF RenamedName
<1> QED  BY <1>1, <1>2 DEF CutUp
-----------------------------------------------------------------------------
(* The other two make one name for every expert.                           *)
LEMMA ExpertsCut ==
  ASSUME InputOK, NEW n \in Listed, NEW kind \in {"gpt_oss", "dbrx"}, Conf(n).experts > 0,
         \A k \in DOMAIN PerExpert(n, kind) : Made(PerExpert(n, kind)[k], n)
  PROVE  CutUp(PerExpert(n, kind), n) /\ \A k \in DOMAIN PerExpert(n, kind) : PerExpert(n, kind)[k].kind = kind
<1>1. PICK s : s = PerExpert(n, kind)  OBVIOUS
<1>2. PICK c \in Nat : c = Conf(n).experts /\ DOMAIN s = 1 .. c /\ c > 0  BY <1>1, PerExpertIs
<1>3. \A k \in 1 .. c : s[k] = ExpertRecord(n, kind, k - 1)  BY <1>1, <1>2, PerExpertIs
<1>4. ASSUME NEW k \in DOMAIN s
      PROVE  /\ s[k].kind = kind /\ s[k].of = n /\ s[k].expert = k - 1 /\ s[k].name = [n EXCEPT !.expert = k - 1]
             /\ Virtual(s[k].name, s[k])
  <2>1. PICK e : e = k - 1  OBVIOUS
  <2>2. PICK m : m = ExpertRecord(n, kind, e)  OBVIOUS
  <2>3. s[k] = m  BY <1>2, <1>3, <2>1, <2>2
  <2>4. m.kind = kind /\ m.of = n /\ m.expert = e /\ m.name = [n EXCEPT !.expert = e]  BY <2>2 DEF ExpertRecord
  <2>5. Made(m, n)  BY <1>1, <2>3
  <2>6. m # Raw(n)  BY <2>4 DEF Raw
  <2>7. Virtual(m.name, m)  BY <2>5, <2>6 DEF Made
  <2> QED  BY <2>1, <2>3, <2>4, <2>7
<1>5. DOMAIN s # {}
  <2>1. 1 \in 1 .. c  BY <1>2
  <2> QED  BY <1>2, <2>1
<1>6. ASSUME NEW k \in DOMAIN s, NEW l \in DOMAIN s, s[k].name = s[l].name PROVE k = l
  <2>1. PICK x, v, u : x = s[k].name /\ v = s[k] /\ u = s[l]  OBVIOUS
  <2>2. Virtual(x, v) /\ Virtual(x, u)  BY <1>4, <1>6, <2>1
  <2>3. v.kind # "renamed"  BY <1>4, <2>1
  <2>4. v.expert = u.expert  BY <2>2, <2>3, VirtualUnique
  <2>5. k - 1 = l - 1  BY <1>4, <2>1, <2>4
  <2>6. k \in Nat /\ l \in Nat  BY <1>2
  <2> QED  BY <2>5, <2>6
<1>7. ASSUME NEW x, NEW v, Virtual(x, v), v.of = n PROVE \E k \in DOMAIN s : s[k].name = x
  <2>1. 1 \in DOMAIN s  BY <1>2
  <2>2. PICK y, u : y = s[1].name /\ u = s[1]  OBVIOUS
  <2>3. Virtual(y, u) /\ u.of = n /\ u.kind = kind  BY <1>4, <2>1, <2>2
  <2>4. v.kind = u.kind  BY <1>7, <2>3, SameTensor
  <2>5. v.kind = kind  BY <2>3, <2>4
  <2>6. v.expert \in 0 .. c - 1 /\ x = [n EXCEPT !.expert = v.expert]
    <3>1. CASE kind = "gpt_oss"
      <4>1. GptOssName(x, v)  BY <1>7, <2>5, <3>1, KindIs
      <4> QED  BY <1>2, <1>7, <4>1 DEF GptOssName
    <3>2. CASE kind = "dbrx"
      <4>1. DbrxName(x, v)  BY <1>7, <2>5, <3>2, KindIs
      <4> QED  BY <1>2, <1>7, <4>1 DEF DbrxName
    <3> QED  BY <3>1, <3>2
  <2>7. PICK e : e = v.expert  OBVIOUS
  <2>8. e + 1 \in 1 .. c /\ (e + 1) - 1 = e  BY <2>6, <2>7
  <2>9. PICK k : k = e + 1  OBVIOUS
  <2>10. k \in DOMAIN s /\ k - 1 = e  BY <1>2, <2>8, <2>9
  <2>11. s[k].name = [n EXCEPT !.expert = e]  BY <1>4, <2>10
  <2> QED  BY <2>6, <2>7, <2>10, <2>11
<1> QED  BY <1>1, <1>4, <1>5, <1>6, <1>7 DEF CutUp

(* Every pass leaves a name alone or cuts it up.                           *)
LEMMA V5Divides ==
  ASSUME ConvertInv, NamingInv, step = "v5", NEW parts, parts = [i \in DOMAIN names |-> V5Of(names[i])]
  PROVE  Divides(parts) /\ RouterFollows(parts)
<1>1. InputOK /\ (\E d : at = {d}) /\ ToSet(names) = Listed
      BY DEF ConvertInv, StepInv, NamingInv, FreshInv
<1>2. \A m \in ToSet(names) : m \in Listed  BY <1>1
<1>3. ASSUME NEW i \in DOMAIN names
      PROVE  /\ IsSeq(parts[i]) /\ \A k \in DOMAIN parts[i] : Made(parts[i][k], names[i])
             /\ names[i] \in Listed /\ parts[i] = V5Of(names[i])
  <2>1. PICK n \in ToSet(names) : n = names[i]  BY DEF ToSet
  <2> QED  BY <1>1, <1>2, <2>1, V5Made
<1>4. Parts(parts, names)  BY <1>3 DEF Parts
<1>5. ASSUME NEW i \in DOMAIN names, NEW n, n = names[i]
      PROVE  /\ V5Expands(n) => Replaced(parts, i)
             /\ V5Router(n) => Replaced(parts, i)
             /\ ~V5Expands(n) /\ ~V5Router(n) => Kept(parts, i)
  <2>1. n \in Listed /\ parts[i] = V5Of(n) /\ \A k \in DOMAIN parts[i] : Made(parts[i][k], n)  BY <1>3, <1>5
  <2>2. CASE V5Expands(n)
    <3>1. CutUp(parts[i], n)  BY <1>1, <2>1, <2>2, V5Cuts
    <3>2. Replaced(parts, i)  BY <1>5, <2>1, <3>1 DEF CutUp, Replaced
    <3> QED  BY <2>2, <3>2
  <2>3. CASE ~V5Expands(n) /\ V5Router(n)
    <3>1. parts[i] = <<Renamed(n)>>  BY <2>1, <2>3, V5OfIs
    <3>2. PICK m, s : m = Renamed(n) /\ s = parts[i]  OBVIOUS
    <3>3. s = <<m>>  BY <3>1, <3>2
    <3>4. DOMAIN s = {1} /\ s[1] = m  BY <3>3
    <3>5. m.kind = "renamed" /\ m.of = n  BY <3>2 DEF Renamed
    <3>6. Made(m, n)  BY <2>1, <3>2, <3>4
    <3>7. m # Raw(n)  BY <3>5 DEF Raw
    <3>8. Virtual(m.name, m)  BY <3>6, <3>7 DEF Made
    <3>9. CutUp(s, n)  BY <1>1, <3>3, <3>5, <3>8, OneCut
    <3>10. Replaced(parts, i)  BY <1>5, <2>1, <3>2, <3>9 DEF CutUp, Replaced
    <3> QED  BY <2>3, <3>10
  <2>4. CASE ~V5Expands(n) /\ ~V5Router(n)
    <3>1. parts[i] = <<Raw(n)>>  BY <2>1, <2>4, V5OfIs
    <3> QED  BY <1>5, <2>4, <3>1 DEF Kept
  <2> QED  BY <2>2, <2>3, <2>4
<1>6. Divides(parts)  BY <1>4, <1>5 DEF Divides
<1>7. ASSUME NEW i \in DOMAIN names, NEW h \in DOMAIN names, NEW k \in DOMAIN parts[h],
             Kept(parts, i), parts[h][k].kind = "v5", names[i].at = names[h].at, names[i].layer = names[h].layer,
             OldRouter(names[i])
      PROVE  FALSE
  <2>1. PICK n, m, v : n = names[i] /\ m = names[h] /\ v = parts[h][k]  OBVIOUS
  <2>2. n \in Listed /\ m \in Listed /\ Made(v, m)  BY <1>3, <2>1
  <2>3. v # Raw(m)  BY <1>7, <2>1 DEF Raw
  <2>4. Virtual(v.name, v) /\ v.of = m  BY <2>2, <2>3 DEF Made
  <2>5. PICK x : x = v.name  OBVIOUS
  <2>6. V5Name(x, v)  BY <1>7, <2>1, <2>4, <2>5, KindIs
  <2>7. m.expert = Fused  BY <2>4, <2>6 DEF V5Name, V5Expands
  <2>8. n.at = m.at /\ n.layer = m.layer /\ Mixtral(n) /\ n.block = "mlp" /\ n.field = "gate" /\ n.aux = "weight"
        BY <1>7, <2>1 DEF OldRouter
  <2>9. PICK u \in ToSet(Conf(m).tensors) :
          u.name.expert = Fused /\ u.name.field = "gate_up_proj" /\ u.name.layer = m.layer
        BY <1>1, <2>2, <2>7, <2>8, Layout
  <2>10. m.at \in at  BY <1>1, <2>2, ListedSource
  <2>11. u.name \in Listed  BY <2>9, <2>10 DEF Listed, Conf
  <2>a. u.name.at = m.at
    <3>1. WellNamed(m.at, Conf(m))  BY <1>1, <2>2, ListedSource
    <3>2. u.name = [at |-> m.at, block |-> u.name.block, layer |-> u.name.layer, expert |-> u.name.expert,
                    field |-> u.name.field, aux |-> u.name.aux]
          BY <2>9, <3>1, Zenon DEF WellNamed
    <3> QED  BY <3>2
  <2>b. u.name.block = "mlp"  BY <1>1, <2>2, <2>8, <2>9, <2>11, <2>a, Layout
  <2>12. V5Router(n)  BY <1>1, <2>8, <2>9, <2>11, <2>b DEF V5Router
  <2>13. Replaced(parts, i)  BY <1>5, <2>1, <2>12
  <2> QED  BY <1>7, <2>13, KeptIs
<1> QED  BY <1>6, <1>7 DEF RouterFollows

(* The later passes name no router.                                        *)
LEMMA FollowsIf ==
  ASSUME NEW parts, \A h \in DOMAIN names : \A k \in DOMAIN parts[h] : parts[h][k].kind # "v5"
  PROVE  RouterFollows(parts)
BY DEF RouterFollows

(* A name that is not expanded is kept.                                    *)
LEMMA RawKept ==
  ASSUME NEW parts, NEW i, parts[i] = <<Raw(names[i])>>
  PROVE  Kept(parts, i) /\ \A k \in DOMAIN parts[i] : parts[i][k].kind # "v5"
<1>1. Kept(parts, i)  BY DEF Kept
<1>2. PICK s, r : s = parts[i] /\ r = Raw(names[i])  OBVIOUS
<1>3. s = <<r>>  BY <1>2
<1>4. DOMAIN s = {1} /\ s[1] = r  BY <1>3
<1>5. r.kind = "raw"  BY <1>2 DEF Raw
<1> QED  BY <1>1, <1>2, <1>4, <1>5

(* GptOssExpansion keeps a name or cuts its tensor whole,                  *)
LEMMA GptOssDivides ==
  ASSUME ConvertInv, step = "gpt_oss", ~GptOssRaises, NEW parts, parts = [i \in DOMAIN names |-> GptOssOf(names[i])]
  PROVE  Divides(parts) /\ RouterFollows(parts)
<1>1. InputOK  BY DEF ConvertInv, StepInv
<1>2. ASSUME NEW i \in DOMAIN names, NEW n, n = names[i]
      PROVE  /\ n \in ToSet(names) /\ (GptOssExpands(n) => n \in Listed)
             /\ IsSeq(parts[i]) /\ \A k \in DOMAIN parts[i] : Made(parts[i][k], n)
  <2>1. n \in ToSet(names) /\ parts[i] = GptOssOf(n)  BY <1>2 DEF ToSet
  <2>2. GptOssExpands(n) => n.expert = Fused /\ ~Mixtral(n)  BY DEF GptOssExpands, Mixtral
  <2>3. GptOssExpands(n) => n \in Listed  BY <2>1, <2>2, FusedListed
  <2> QED  BY <1>1, <2>1, <2>3, GptOssMade
<1>3. Parts(parts, names)  BY <1>2 DEF Parts
<1>4. ASSUME NEW i \in DOMAIN names, NEW n, n = names[i]
      PROVE  (Kept(parts, i) \/ Replaced(parts, i)) /\ \A k \in DOMAIN parts[i] : parts[i][k].kind # "v5"
  <2>1. CASE GptOssExpands(n)
    <3>1. n \in Listed /\ n \in ToSet(names)  BY <1>2, <1>4, <2>1
    <3>2. parts[i] = PerExpert(n, "gpt_oss")  BY <1>4, <2>1 DEF GptOssOf
    <3>3. Conf(n).experts > 0
      <4>1. Source(n).shape[1] = Conf(n).experts  BY <2>1, <3>1 DEF GptOssRaises
      <4>2. Source(n).shape \in Seq(Nat \ {0}) /\ Len(Source(n).shape) > 1
            BY <1>1, <2>1, <3>1, ListedName DEF GptOssExpands
      <4>3. 1 \in 1 .. Len(Source(n).shape)  BY <4>2
      <4>4. Source(n).shape[1] > 0  BY <4>2, <4>3, Dimension
      <4> QED  BY <4>1, <4>4
    <3>4. \A k \in DOMAIN PerExpert(n, "gpt_oss") : Made(PerExpert(n, "gpt_oss")[k], n)  BY <1>2, <1>4, <3>2
    <3>5. CutUp(parts[i], n) /\ \A k \in DOMAIN parts[i] : parts[i][k].kind = "gpt_oss"
          BY <1>1, <3>1, <3>2, <3>3, <3>4, ExpertsCut
    <3>6. Replaced(parts, i)  BY <1>4, <3>1, <3>5 DEF CutUp, Replaced
    <3> QED  BY <3>5, <3>6
  <2>2. CASE ~GptOssExpands(n)
    <3>1. parts[i] = <<Raw(names[i])>>  BY <1>4, <2>2 DEF GptOssOf, Raw
    <3> QED  BY <3>1, RawKept
  <2> QED  BY <2>1, <2>2
<1>5. Divides(parts)  BY <1>3, <1>4 DEF Divides
<1> QED  BY <1>4, <1>5, FollowsIf

(* and so does DbrxExpansion.                                              *)
LEMMA DbrxDivides ==
  ASSUME ConvertInv, step = "dbrx", ~DbrxRaises, NEW parts, parts = [i \in DOMAIN names |-> DbrxOf(names[i])]
  PROVE  Divides(parts) /\ RouterFollows(parts)
<1>1. InputOK  BY DEF ConvertInv, StepInv
<1>2. ASSUME NEW i \in DOMAIN names, NEW n, n = names[i]
      PROVE  /\ n \in ToSet(names) /\ (DbrxExpands(n) => n \in Listed)
             /\ IsSeq(parts[i]) /\ \A k \in DOMAIN parts[i] : Made(parts[i][k], n)
  <2>1. n \in ToSet(names) /\ parts[i] = DbrxOf(n)  BY <1>2 DEF ToSet
  <2>2. DbrxExpands(n) => n.expert = Fused /\ ~Mixtral(n)  BY DEF DbrxExpands, Mixtral
  <2>3. DbrxExpands(n) => n \in Listed  BY <2>1, <2>2, FusedListed
  <2> QED  BY <1>1, <2>1, <2>3, DbrxMade
<1>3. Parts(parts, names)  BY <1>2 DEF Parts
<1>4. ASSUME NEW i \in DOMAIN names, NEW n, n = names[i]
      PROVE  (Kept(parts, i) \/ Replaced(parts, i)) /\ \A k \in DOMAIN parts[i] : parts[i][k].kind # "v5"
  <2>1. CASE DbrxExpands(n)
    <3>1. n \in Listed /\ n \in ToSet(names)  BY <1>2, <1>4, <2>1
    <3>2. parts[i] = PerExpert(n, "dbrx")  BY <1>4, <2>1 DEF DbrxOf
    <3>3. Conf(n).experts > 0  BY <2>1 DEF DbrxExpands
    <3>4. \A k \in DOMAIN PerExpert(n, "dbrx") : Made(PerExpert(n, "dbrx")[k], n)  BY <1>2, <1>4, <3>2
    <3>5. CutUp(parts[i], n) /\ \A k \in DOMAIN parts[i] : parts[i][k].kind = "dbrx"
          BY <1>1, <3>1, <3>2, <3>3, <3>4, ExpertsCut
    <3>6. Replaced(parts, i)  BY <1>4, <3>1, <3>5 DEF CutUp, Replaced
    <3> QED  BY <3>5, <3>6
  <2>2. CASE ~DbrxExpands(n)
    <3>1. parts[i] = <<Raw(names[i])>>  BY <1>4, <2>2 DEF DbrxOf, Raw
    <3> QED  BY <3>1, RawKept
  <2> QED  BY <2>1, <2>2
<1>5. Divides(parts)  BY <1>3, <1>4 DEF Divides
<1> QED  BY <1>4, <1>5, FollowsIf
-----------------------------------------------------------------------------
(* The second invariant holds at first and when a checkpoint is opened,    *)
LEMMA NamingAtFirst == ConvertInit => NamingInv
<1> SUFFICES ASSUME ConvertInit PROVE NamingInv  OBVIOUS
<1>1. step = "resolve" /\ at = {} /\ names = <<>> /\ virtual = <<>>  BY DEF ConvertInit
<1>2. Listed = {} /\ ToSet(names) = {}  BY <1>1 DEF Listed, ToSet
<1>3. DOMAIN names = {} /\ DOMAIN virtual = {}  BY <1>1
<1>4. FreshInv  BY <1>2 DEF FreshInv
<1>5. AloneInv  BY <1>1 DEF AloneInv
<1>6. PlainInv  BY <1>1 DEF PlainInv
<1>7. OnceInv /\ GoneInv /\ HeldInv /\ RouterInv  BY <1>2, <1>3 DEF OnceInv, GoneInv, HeldInv, RouterInv
<1> QED  BY <1>4, <1>5, <1>6, <1>7 DEF NamingInv

(* It holds of the names a checkpoint lists,                               *)
LEMMA OpenKeepsNaming ==
  ASSUME ConvertInv, step = "resolve", NEW dirs, dirs \subseteq DOMAIN root.dirs, Open(dirs),
         mode # "none" => \A d \in dirs : root.dirs[d].quant = "none"
  PROVE  NamingInv'
<1>1. at' = dirs /\ root' = root /\ mode' = mode /\ virtual' = virtual  BY DEF Open, inputs
<1>2. root \in Roots /\ virtual = <<>>  BY DEF ConvertInv, StepInv, InputOK
<1>3. virtual' = <<>> /\ DOMAIN virtual' = {}  BY <1>1, <1>2
<1>4. /\ ToSet(names') = UNION {{t.name : t \in ToSet(root.dirs[d].tensors)} : d \in dirs}
      /\ \A i, j \in DOMAIN names' : names'[i] = names'[j] => i = j
      BY <1>2, OpenNames
<1>5. ToSet(names') = Listed'  BY <1>1, <1>4 DEF Listed
<1>6. FreshInv'  BY <1>5 DEF FreshInv
<1>7. AloneInv'  BY <1>3 DEF AloneInv
<1>8. PlainInv'  BY <1>1 DEF PlainInv
<1>9. OnceInv'  BY <1>4 DEF OnceInv
<1>10. GoneInv' /\ RouterInv'  BY <1>3 DEF GoneInv, RouterInv
<1>11. HeldInv'  BY <1>5 DEF HeldInv, Held
<1> QED  BY <1>6, <1>7, <1>8, <1>9, <1>10, <1>11 DEF NamingInv

(* and is kept where the names stay.                                       *)
LEMMA NamingStays ==
  ASSUME NamingInv, root' = root, mode' = mode, at' = at, names' = names, virtual' = virtual,
         step' = step \/ step' \notin {"resolve", "v5"}
  PROVE  NamingInv'
<1>1. Listed' = Listed /\ (Pipeline' <=> Pipeline) /\ \A x, v : Virtual(x, v)' <=> Virtual(x, v)
      BY FrozenRoot, FrozenVirtual
<1>2. \A n : OldRouter(n)' <=> OldRouter(n)  BY DEF OldRouter, Mixtral, Conf
<1>3. FreshInv'  BY <1>1 DEF FreshInv, NamingInv
<1>4. AloneInv' /\ PlainInv' /\ OnceInv' /\ GoneInv'
      BY <1>1 DEF NamingInv, AloneInv, PlainInv, OnceInv, GoneInv
<1>5. \A s : Held(s) => Held(s)'
  <2>1. \A s : Cut(s)' <=> Cut(s)  BY DEF Cut
  <2> QED  BY <1>1, <2>1 DEF Held
<1>6. HeldInv'  BY <1>1, <1>5 DEF NamingInv, HeldInv
<1>7. RouterInv'  BY <1>2 DEF NamingInv, RouterInv
<1> QED  BY <1>3, <1>4, <1>6, <1>7 DEF NamingInv

(* The checkpoints that are quantized have no names like those of the      *)
(* scales,                                                                 *)
LEMMA NoScale ==
  ASSUME InputOK, PlainInv, mode # "none", NEW x, NEW v, x \in Listed \/ Virtual(x, v)
  PROVE  x.aux # ScaleAux
<1>0. ScaleAux \in {"weight_scale_inv", "weight_scales"}  BY DEF ScaleAux
<1>1. ASSUME NEW n \in Listed PROVE n.aux \notin {"weight_scale_inv", "weight_scales"}
  <2>1. PICK t : t = Source(n)  OBVIOUS
  <2>2. n.at \in at /\ t \in ToSet(Conf(n).tensors) /\ t.name = n /\ KnownFormat(Conf(n))  BY <2>1, ListedSource
  <2>3. Conf(n).quant = "none"  BY <2>2 DEF PlainInv, Conf
  <2> QED  BY <2>2, <2>3 DEF KnownFormat
<1>2. CASE x \in Listed  BY <1>0, <1>1, <1>2
<1>3. CASE Virtual(x, v)
  <2>1. v.of \in Listed /\ v.kind \in {"v5", "renamed", "gpt_oss", "dbrx"}  BY <1>3, VirtualFields
  <2>2. CASE v.kind \in {"v5", "renamed"}
    <3>1. x.aux = "weight"  BY <1>3, <2>2, VirtualFields
    <3> QED  BY <1>0, <3>1
  <2>3. CASE v.kind \in {"gpt_oss", "dbrx"}
    <3>1. x.aux = v.of.aux  BY <1>3, <2>3, VirtualFields
    <3> QED  BY <1>0, <1>1, <2>1, <3>1
  <2> QED  BY <2>1, <2>2, <2>3
<1> QED  BY <1>2, <1>3

(* which a quantizer puts behind its weights.                              *)
LEMMA PreparedNames ==
  ASSUME ConvertInv, Prepare
  PROVE  /\ \A n \in ToSet(names) : n \in ToSet(names')
         /\ \A x \in ToSet(names') : x \in ToSet(names) \/ \E w \in ToSet(names) : Quantizes(w) /\ x = ScaleOf(w)
<1>p. PICK parts : parts = [i \in DOMAIN names |-> WithScale(names[i])]  OBVIOUS
<1>m. PICK made : made = FlattenSeq(parts)  OBVIOUS
<1>1. IsSeq(names)  BY DEF ConvertInv, NamesInv
<1>2. IsSeqs(parts) /\ DOMAIN parts = DOMAIN names
  <2>1. Len(names) \in Nat /\ DOMAIN names = 1 .. Len(names)  BY <1>1, SeqEntries
  <2>2. \A i \in DOMAIN names : IsSeq(parts[i])  BY <1>p, WithScaleIs
  <2> QED  BY <1>p, <2>1, <2>2 DEF IsSeqs
<1>3. /\ \A k \in DOMAIN made : \E i \in DOMAIN parts : \E j \in DOMAIN parts[i] : made[k] = parts[i][j]
      /\ \A i \in DOMAIN parts : \A j \in DOMAIN parts[i] : \E k \in DOMAIN made : made[k] = parts[i][j]
      BY <1>2, <1>m, FlatEntries
<1>4. names' = made  BY <1>p, <1>m DEF Prepare
<1>5. ASSUME NEW i \in DOMAIN names
      PROVE  /\ parts[i] = WithScale(names[i]) /\ 1 \in DOMAIN parts[i] /\ parts[i][1] = names[i]
             /\ \A j \in DOMAIN parts[i] : parts[i][j] = names[i] \/ (Quantizes(names[i]) /\ parts[i][j] = ScaleOf(names[i]))
  <2>1. PICK n, s : n = names[i] /\ s = parts[i]  OBVIOUS
  <2>2. s = WithScale(n)  BY <1>p, <2>1
  <2>3. 1 \in DOMAIN s /\ s[1] = n
    <3>1. CASE Quantizes(n)
      <4>1. s = <<n, ScaleOf(n)>>  BY <2>2, <3>1, WithScaleIs
      <4> QED  BY <4>1
    <3>2. CASE ~Quantizes(n)
      <4>1. s = <<n>>  BY <2>2, <3>2, WithScaleIs
      <4> QED  BY <4>1
    <3> QED  BY <3>1, <3>2
  <2>4. \A j \in DOMAIN s : s[j] = n \/ (Quantizes(n) /\ s[j] = ScaleOf(n))  BY <2>2, WithScaleIs
  <2> QED  BY <2>1, <2>2, <2>3, <2>4
<1>6. ASSUME NEW n \in ToSet(names) PROVE n \in ToSet(names')
  <2>1. PICK i \in DOMAIN names : n = names[i]  BY DEF ToSet
  <2>2. PICK k \in DOMAIN made : made[k] = n  BY <1>2, <1>3, <1>5, <2>1
  <2> QED  BY <1>4, <2>2 DEF ToSet
<1>7. ASSUME NEW x \in ToSet(names')
      PROVE  x \in ToSet(names) \/ \E w \in ToSet(names) : Quantizes(w) /\ x = ScaleOf(w)
  <2>1. PICK k \in DOMAIN made : x = made[k]  BY <1>4 DEF ToSet
  <2>2. PICK i \in DOMAIN parts : \E j \in DOMAIN parts[i] : made[k] = parts[i][j]  BY <1>3
  <2>3. PICK j \in DOMAIN parts[i] : made[k] = parts[i][j]  BY <2>2
  <2>4. i \in DOMAIN names /\ names[i] \in ToSet(names)  BY <1>2 DEF ToSet
  <2> QED  BY <1>5, <2>1, <2>3, <2>4
<1> QED  BY <1>6, <1>7
-----------------------------------------------------------------------------
(* A name and its scale are two names, and no other's.                     *)
LEMMA PreparedOnce ==
  ASSUME ConvertInv, NamingInv, Prepare
  PROVE  OnceInv'
<1>1. InputOK /\ IsSeq(names) /\ NamesInv /\ PlainInv /\ OnceInv /\ weights = {} /\ mode # "none" /\ step = "prepare"
      BY DEF Prepare, ConvertInv, StepInv, NamesInv, NamingInv, Early
<1>2. PICK parts : parts = [i \in DOMAIN names |-> WithScale(names[i])]  OBVIOUS
<1>3. IsSeqs(parts) /\ DOMAIN parts = DOMAIN names
  <2>1. Len(names) \in Nat /\ DOMAIN names = 1 .. Len(names)  BY <1>1, SeqEntries
  <2>2. \A i \in DOMAIN names : IsSeq(parts[i])  BY <1>2, WithScaleIs
  <2> QED  BY <1>2, <2>1, <2>2 DEF IsSeqs
<1>4. names' = FlattenSeq(parts)  BY <1>2 DEF Prepare
<1>5. ASSUME NEW n \in ToSet(names) PROVE IsName(n) /\ n.aux # ScaleAux
  <2>1. IsName(n)  BY NameType DEF ConvertInv
  <2>2. CASE n \in Listed  BY <1>1, <2>1, <2>2, NoScale
  <2>3. CASE n \in DOMAIN virtual
    <3>1. PICK v : v = virtual[n]  OBVIOUS
    <3>2. Virtual(n, v)  BY <1>1, <2>3, <3>1 DEF NamesInv
    <3>3. n.aux # ScaleAux  BY <1>1, <3>2, NoScale
    <3> QED  BY <2>1, <3>3
  <2> QED  BY <1>1, <2>1, <2>2, <2>3 DEF NamesInv
<1>6. ASSUME NEW i \in DOMAIN parts, NEW n, n = names[i]
      PROVE  /\ n \in ToSet(names) /\ parts[i][1] = n
             /\ \A j \in DOMAIN parts[i] : j = 1 \/ (j = 2 /\ n.aux = "weight" /\ parts[i][2] = ScaleOf(n))
  <2>1. n \in ToSet(names)  BY <1>3, <1>6 DEF ToSet
  <2>2. PICK s : s = parts[i]  OBVIOUS
  <2>3. s = WithScale(n)  BY <1>2, <1>3, <1>6, <2>2
  <2>4. CASE Quantizes(n)
    <3>1. PICK m : m = ScaleOf(n)  OBVIOUS
    <3>2. s = <<n, m>>  BY <2>3, <2>4, <3>1, WithScaleIs
    <3>3. DOMAIN s = {1, 2} /\ s[1] = n /\ s[2] = m  BY <3>2
    <3>4. n.aux = "weight"  BY <2>4 DEF Quantizes
    <3> QED  BY <2>1, <2>2, <3>1, <3>3, <3>4
  <2>5. CASE ~Quantizes(n)
    <3>1. s = <<n>>  BY <2>3, <2>5, WithScaleIs
    <3>2. DOMAIN s = {1} /\ s[1] = n  BY <3>1
    <3> QED  BY <2>1, <2>2, <3>2
  <2> QED  BY <2>4, <2>5
<1>7. ASSUME NEW h \in DOMAIN parts, NEW i \in DOMAIN parts, NEW j \in DOMAIN parts[h], NEW l \in DOMAIN parts[i],
             parts[h][j] = parts[i][l]
      PROVE  h = i /\ j = l
  <2>1. PICK n, m : n = names[h] /\ m = names[i]  OBVIOUS
  <2>2. /\ n \in ToSet(names) /\ parts[h][1] = n
        /\ \A k \in DOMAIN parts[h] : k = 1 \/ (k = 2 /\ n.aux = "weight" /\ parts[h][2] = ScaleOf(n))
        BY <1>6, <2>1
  <2>3. /\ m \in ToSet(names) /\ parts[i][1] = m
        /\ \A k \in DOMAIN parts[i] : k = 1 \/ (k = 2 /\ m.aux = "weight" /\ parts[i][2] = ScaleOf(m))
        BY <1>6, <2>1
  <2>4. IsName(n) /\ n.aux # ScaleAux /\ IsName(m) /\ m.aux # ScaleAux  BY <1>5, <2>2, <2>3
  <2>5. /\ n.aux = "weight" => WeightOf(ScaleOf(n)) = n /\ ScaleOf(n).aux = ScaleAux
        /\ m.aux = "weight" => WeightOf(ScaleOf(m)) = m /\ ScaleOf(m).aux = ScaleAux
        BY <2>4, ScaleNames
  <2>6. j = 1 \/ (j = 2 /\ n.aux = "weight" /\ parts[h][2] = ScaleOf(n))  BY <2>2
  <2>7. l = 1 \/ (l = 2 /\ m.aux = "weight" /\ parts[i][2] = ScaleOf(m))  BY <2>3
  <2>8. n = m /\ j = l
    <3>1. CASE j = 1 /\ l = 1  BY <1>7, <2>2, <2>3, <3>1
    <3>2. CASE j = 1 /\ l # 1
      <4>1. n = ScaleOf(m) /\ m.aux = "weight"  BY <1>7, <2>2, <2>7, <3>2
      <4> QED  BY <2>4, <2>5, <4>1
    <3>3. CASE j # 1 /\ l = 1
      <4>1. m = ScaleOf(n) /\ n.aux = "weight"  BY <1>7, <2>3, <2>6, <3>3
      <4> QED  BY <2>4, <2>5, <4>1
    <3>4. CASE j # 1 /\ l # 1
      <4>1. ScaleOf(m) = ScaleOf(n) /\ n.aux = "weight" /\ m.aux = "weight" /\ j = 2 /\ l = 2  BY <1>7, <2>6, <2>7, <3>4
      <4> QED  BY <2>5, <4>1
    <3> QED  BY <3>1, <3>2, <3>3, <3>4
  <2>9. h = i  BY <1>1, <1>3, <2>1, <2>8 DEF OnceInv
  <2> QED  BY <2>8, <2>9
<1>8. PICK S : S = EntriesOf(parts)  OBVIOUS
<1>9. parts \in Seq(Seq(S))  BY <1>3, <1>8, SeqsType
<1>10. \A h, i \in DOMAIN parts : \A j \in DOMAIN parts[h], l \in DOMAIN parts[i] :
         parts[h][j] = parts[i][l] => h = i /\ j = l
       BY <1>7
<1>11. ASSUME NEW k \in DOMAIN FlattenSeq(parts), NEW m \in DOMAIN FlattenSeq(parts), FlattenSeq(parts)[k] = FlattenSeq(parts)[m]
       PROVE  k = m
       BY <1>9, <1>10, <1>11, FlattenSeqInjective
<1> QED  BY <1>4, <1>11 DEF OnceInv

(* The scales leave it true.                                               *)
LEMMA PrepareKeepsNaming ==
  ASSUME ConvertInv, NamingInv, Prepare
  PROVE  NamingInv'
<1>1. /\ root' = root /\ at' = at /\ mode' = mode /\ virtual' = virtual /\ step' = "plan" /\ step = "prepare"
      BY DEF Prepare, inputs
<1>2. InputOK /\ NamesInv /\ mode # "none" /\ PlainInv  BY <1>1 DEF ConvertInv, StepInv, NamingInv
<1>3. /\ \A n \in ToSet(names) : n \in ToSet(names')
      /\ \A x \in ToSet(names') : x \in ToSet(names) \/ \E w \in ToSet(names) : Quantizes(w) /\ x = ScaleOf(w)
      BY PreparedNames
<1>4. ASSUME NEW w \in ToSet(names), Quantizes(w)
      PROVE  ScaleOf(w).aux = ScaleAux /\ ScaleOf(w).aux # "weight" /\ ScaleOf(w) \notin Listed
  <2>1. IsName(w) /\ w.aux = "weight"  BY <1>4, NameType DEF ConvertInv, Quantizes
  <2>2. ScaleOf(w).aux = ScaleAux /\ ScaleAux # "weight"  BY <2>1, ScaleNames
  <2>3. ScaleOf(w) \notin Listed  BY <1>2, <2>2, NoScale
  <2> QED  BY <2>2, <2>3
<1>5. Listed' = Listed /\ (Pipeline' <=> Pipeline) /\ \A x, v : Virtual(x, v)' <=> Virtual(x, v)
      BY <1>1, FrozenRoot, FrozenVirtual
<1>6. FreshInv' /\ AloneInv' /\ PlainInv'
      BY <1>1, <1>5 DEF FreshInv, AloneInv, PlainInv, NamingInv
<1>7. OnceInv'  BY PreparedOnce
<1>8. GoneInv'
  <2>1. ASSUME NEW y \in DOMAIN virtual, virtual[y].of \in ToSet(names') PROVE FALSE
    <3>1. PICK v : v = virtual[y]  OBVIOUS
    <3>2. Virtual(y, v)  BY <1>2, <3>1 DEF NamesInv
    <3>3. v.of \in Listed  BY <1>2, <3>2, FamilyOf
    <3>4. v.of \in ToSet(names)  BY <1>3, <1>4, <2>1, <3>1, <3>3
    <3> QED  BY <3>1, <3>4 DEF NamingInv, GoneInv
  <2> QED  BY <1>1, <2>1 DEF GoneInv
<1>9. HeldInv'
  <2>1. \A s : Held(s) => Held(s)'
    <3>1. \A s : Cut(s)' <=> Cut(s)  BY <1>1 DEF Cut
    <3> QED  BY <1>1, <1>3, <1>5, <3>1 DEF Held
  <2> QED  BY <1>5, <2>1 DEF HeldInv, NamingInv
<1>10. RouterInv'
  <2>1. \A n : OldRouter(n)' <=> OldRouter(n)  BY <1>1 DEF OldRouter, Mixtral, Conf
  <2>2. ASSUME NEW n \in ToSet(names'), NEW y \in DOMAIN virtual, virtual[y].kind = "v5", y.at = n.at, y.layer = n.layer
        PROVE  ~OldRouter(n)
    <3>1. CASE n \in ToSet(names)  BY <2>2, <3>1 DEF NamingInv, RouterInv
    <3>2. CASE n \notin ToSet(names)
      <4>1. n.aux # "weight"  BY <1>3, <1>4, <3>2
      <4> QED  BY <4>1 DEF OldRouter
    <3> QED  BY <3>1, <3>2
  <2> QED  BY <1>1, <2>1, <2>2 DEF RouterInv
<1> QED  BY <1>6, <1>7, <1>8, <1>9, <1>10 DEF NamingInv
-----------------------------------------------------------------------------
(* Every step keeps the second invariant,                                  *)
LEMMA NamingNext == ConvertInv /\ NamingInv /\ [ConvertNext]_conversion => NamingInv'
<1> SUFFICES ASSUME ConvertInv, NamingInv, [ConvertNext]_conversion PROVE NamingInv'  OBVIOUS
<1>1. CASE StartPipeline
  <2>1. Components \subseteq DOMAIN root.dirs  BY DEF Components
  <2>2. Open(Components) /\ step = "resolve" /\ mode = "none"  BY <1>1 DEF StartPipeline
  <2> QED  BY <2>1, <2>2, OpenKeepsNaming
<1>2. CASE ResolveDir
  <2>1. PICK d \in DOMAIN root.dirs : Resolved = {d}  BY <1>2, ResolvedOne DEF ResolveDir
  <2>2. PICK dirs : dirs = Resolved  OBVIOUS
  <2>3. Open(dirs) /\ step = "resolve" /\ (mode # "none" => \A e \in dirs : root.dirs[e].quant = "none")
        BY <1>2, <2>2 DEF ResolveDir
  <2>4. dirs \subseteq DOMAIN root.dirs  BY <2>1, <2>2
  <2> QED  BY <2>3, <2>4, OpenKeepsNaming
<1>3. CASE RefuseSource \/ PassRaises
  <2>1. Refuse  BY <1>3 DEF RefuseSource, PassRaises
  <2> QED  BY <2>1, NamingStays DEF Refuse, inputs, passes
<1>4. CASE ExpandV5
  <2>1. PICK parts : parts = [i \in DOMAIN names |-> V5Of(names[i])]  OBVIOUS
  <2>2. step = "v5" /\ ExpandTo(parts, "gpt_oss")  BY <1>4, <2>1 DEF ExpandV5
  <2>3. Divides(parts) /\ RouterFollows(parts)  BY <2>1, <2>2, V5Divides
  <2> QED  BY <2>2, <2>3, PassKeepsNaming
<1>5. CASE ExpandGptOss
  <2>1. PICK parts : parts = [i \in DOMAIN names |-> GptOssOf(names[i])]  OBVIOUS
  <2>2. step = "gpt_oss" /\ ~GptOssRaises /\ ExpandTo(parts, "dbrx")  BY <1>5, <2>1 DEF ExpandGptOss
  <2>3. Divides(parts) /\ RouterFollows(parts)  BY <2>1, <2>2, GptOssDivides
  <2> QED  BY <2>2, <2>3, PassKeepsNaming
<1>6. CASE ExpandDbrx
  <2>1. PICK parts : parts = [i \in DOMAIN names |-> DbrxOf(names[i])]  OBVIOUS
  <2>2. PICK next : next = IF mode = "none" THEN "plan" ELSE "prepare"  OBVIOUS
  <2>3. step = "dbrx" /\ ~DbrxRaises /\ ExpandTo(parts, next)  BY <1>6, <2>1, <2>2 DEF ExpandDbrx
  <2>4. Divides(parts) /\ RouterFollows(parts)  BY <2>1, <2>3, DbrxDivides
  <2>5. next \notin {"resolve", "v5"}  BY <2>2
  <2> QED  BY <2>3, <2>4, <2>5, PassKeepsNaming
<1>7. CASE Prepare  BY <1>7, PrepareKeepsNaming
<1>8. CASE Plan
  <2>1. /\ root' = root /\ mode' = mode /\ at' = at /\ names' = names /\ virtual' = virtual /\ step' = "write"
        BY <1>8 DEF Plan, inputs
  <2> QED  BY <2>1, NamingStays
<1>9. CASE LoadRaw \/ LoadQuantized \/ Publish
  <2>1. /\ root' = root /\ mode' = mode /\ at' = at /\ names' = names /\ virtual' = virtual
        /\ step' = step \/ step' \in {"raised", "done"}
        BY <1>9 DEF LoadRaw, LoadQuantized, Publish, Write, inputs, passes
  <2> QED  BY <2>1, NamingStays
<1>10. CASE UNCHANGED conversion
  <2>1. /\ root' = root /\ mode' = mode /\ at' = at /\ names' = names /\ virtual' = virtual /\ step' = step
        BY <1>10 DEF conversion, inputs, passes
  <2> QED  BY <2>1, NamingStays
<1> QED  BY <1>1, <1>2, <1>3, <1>4, <1>5, <1>6, <1>7, <1>8, <1>9, <1>10 DEF ConvertNext

(* so it always holds: the passes cut every fused tensor up whole or leave *)
(* it alone, in any order of its names.                                    *)
THEOREM NamesCutWhole == ConvertSpec => []NamingInv
<1>1. ConvertInit => NamingInv  BY NamingAtFirst
<1>2. ConvertInv /\ NamingInv /\ [ConvertNext]_conversion => NamingInv'  BY NamingNext
<1>3. ConvertSpec => []ConvertInv  BY ConversionInvariant
<1> QED  BY <1>1, <1>2, <1>3, PTL DEF ConvertSpec
-----------------------------------------------------------------------------
(* A name is listed or a part, or has the place of one.                    *)
LEMMA BaseName ==
  ASSUME ConvertInv, NEW n \in ToSet(names)
  PROVE  \E b : /\ b \in Listed \/ b \in DOMAIN virtual
                /\ b = n \/ (b \in weights /\ n = ScaleOf(b))
                /\ b.at = n.at /\ b.block = n.block /\ b.layer = n.layer /\ b.expert = n.expert /\ b.field = n.field
<1>1. NamesInv  BY DEF ConvertInv
<1>2. CASE n \in Listed \/ n \in DOMAIN virtual  BY <1>2
<1>3. CASE \E w \in weights : n = ScaleOf(w)
  <2>1. PICK w \in weights : n = ScaleOf(w)  BY <1>3
  <2>2. w \in Listed \/ w \in DOMAIN virtual  BY DEF ConvertInv, WeightsInv
  <2>3. IsName(w)  BY WeightName
  <2>4. PICK a : a = ScaleAux  OBVIOUS
  <2>5. n = [w EXCEPT !.aux = a]  BY <2>1, <2>4 DEF ScaleOf
  <2>6. n = Changed(w, w.block, w.expert, w.field, a)  BY <2>3, <2>5, ChangedAux
  <2>7. n.at = w.at /\ n.layer = w.layer /\ n.block = w.block /\ n.expert = w.expert /\ n.field = w.field
        BY <2>6, ChangedFields
  <2> QED  BY <2>1, <2>2, <2>7
<1> QED  BY <1>1, <1>2, <1>3 DEF NamesInv

(* No router of Mixtral is quantized.                                      *)
LEMMA GateHasNoSlot ==
  ASSUME NEW n, Mixtral(n), n.field = "gate"
  PROVE  ~Quantizes(n)
<1>1. SlotTable("mixtral") = <<"w1", "w2", "w3">>  BY Zenon DEF SlotTable
<1>2. PICK t : t = SlotTable("mixtral")  OBVIOUS
<1>3. ToSet(t) = {"w1", "w2", "w3"}
  <2>1. t = <<"w1", "w2", "w3">>  BY <1>1, <1>2
  <2> QED  BY <2>1 DEF ToSet
<1>4. SlotIn(t, n.field) = 0  BY <1>3 DEF SlotIn
<1>5. Conf(n).arch = "mixtral"  BY DEF Mixtral
<1>6. Rank(n) = 0  BY <1>2, <1>4, <1>5 DEF Rank
<1> QED  BY <1>6 DEF Quantizes

(* The experts of a moved router moved: no listed name of its layer has an *)
(* expert.                                                                 *)
LEMMA MovedAway ==
  ASSUME InputOK, NEW x, NEW v, Virtual(x, v), v.kind = "renamed", NEW b \in Listed, b.at = x.at, b.layer = x.layer
  PROVE  ~(b.expert >= 0)
<1>1. RenamedName(x, v)  BY KindIs
<1>2. x.at = v.of.at /\ x.layer = v.of.layer  BY VirtualFields
<1>3. PICK f \in Listed : f.at = v.of.at /\ f.expert = Fused /\ f.field = "gate_up_proj" /\ f.layer = v.of.layer
      BY <1>1 DEF RenamedName
<1>4. f.at = b.at /\ f.layer = b.layer  BY <1>2, <1>3
<1>5. b.expert < 0  BY <1>3, <1>4, Layout
<1>6. b.expert \in Nat \cup {Fused, NoExpert}  BY ListedName
<1> QED  BY <1>5, <1>6 DEF Fused, NoExpert

(* A router and the experts of its layer are in one block.                 *)
LEMMA RouterMoves ==
  ASSUME ConvertInv, NamingInv, NEW n \in ToSet(names), n \in Listed \/ n \in DOMAIN virtual,
         Mixtral(n), n.field = "gate",
         NEW b, b \in Listed \/ b \in DOMAIN virtual, b.at = n.at, b.layer = n.layer, b.expert >= 0
  PROVE  n.block = b.block
<1>1. InputOK /\ \A x \in DOMAIN virtual : Virtual(x, virtual[x])  BY DEF ConvertInv, StepInv, NamesInv
<1>2. ASSUME NEW u, Virtual(b, u)
      PROVE  /\ u.kind = "v5" /\ u.of \in Listed /\ u.of.expert = Fused /\ u.of.at = n.at /\ u.of.layer = n.layer
             /\ b.block = OutBlock(u.of)
  <2>1. u.of \in Listed /\ b.at = u.of.at /\ b.layer = u.of.layer /\ u.kind \in {"v5", "renamed", "gpt_oss", "dbrx"}
        BY <1>1, <1>2, VirtualFields
  <2>2. Mixtral(u.of)  BY <2>1 DEF Mixtral, Conf
  <2>3. u.kind # "renamed"
    <3> SUFFICES ASSUME u.kind = "renamed" PROVE FALSE  OBVIOUS
    <3>1. u.of.expert = b.expert  BY <1>1, <1>2, RouterFields
    <3>2. ~(u.of.expert >= 0)  BY <1>1, <1>2, <2>1, MovedAway
    <3> QED  BY <3>1, <3>2
  <2>4. u.kind = "v5"
    <3>1. u.kind \notin {"gpt_oss", "dbrx"}  BY <1>1, <1>2, <2>2, NoRouter
    <3> QED  BY <2>1, <2>3, <3>1
  <2>5. u.of.expert = Fused  BY <1>1, <1>2, <2>4, VirtualFused
  <2>6. b.block = OutBlock(u.of)
    <3>1. V5Name(b, u)  BY <1>2, <2>4, KindIs
    <3>2. PICK s, e, part : s = u.of /\ e = u.expert /\ part = u.part  OBVIOUS
    <3>3. b = V5Member(s, e, part) /\ IsName(s)  BY <1>1, <2>1, <3>1, <3>2, ListedName DEF V5Name
    <3>4. b.block = OutBlock(s)  BY <3>3, MemberFields
    <3> QED  BY <3>2, <3>4
  <2> QED  BY <2>1, <2>2, <2>4, <2>5, <2>6
<1>3. CASE n \in DOMAIN virtual
  <2>1. PICK v : v = virtual[n]  OBVIOUS
  <2>2. Virtual(n, v)  BY <1>1, <1>3, <2>1
  <2>3. v.kind = "renamed"
    <3>1. v.kind \in {"v5", "renamed", "gpt_oss", "dbrx"} /\ n.at = v.of.at  BY <1>1, <2>2, VirtualFields
    <3>2. Mixtral(v.of)  BY <3>1 DEF Mixtral, Conf
    <3>3. v.kind \notin {"gpt_oss", "dbrx"}  BY <1>1, <2>2, <3>2, NoRouter
    <3>4. v.kind # "v5"  BY <1>1, <2>2, NoRouter
    <3> QED  BY <3>1, <3>3, <3>4
  <2>4. n.block = "block_sparse_moe"  BY <1>1, <2>2, <2>3, VirtualFields
  <2>5. b \notin Listed  BY <1>1, <2>2, <2>3, MovedAway
  <2>6. PICK u : u = virtual[b]  OBVIOUS
  <2>7. Virtual(b, u)  BY <1>1, <2>5, <2>6
  <2>8. v.of \in Listed /\ Mixtral(v.of) /\ v.of.field = "gate" /\ v.of.at = n.at /\ v.of.layer = n.layer
    <3>1. RenamedName(n, v)  BY <2>2, <2>3, KindIs
    <3>2. v.of.at = n.at /\ v.of.layer = n.layer  BY <1>1, <2>2, VirtualFields
    <3> QED  BY <3>1, <3>2 DEF RenamedName
  <2>9. u.of.block = "mlp"  BY <1>1, <1>2, <2>7, <2>8, Layout
  <2>10. OutBlock(u.of) = "block_sparse_moe"  BY <1>2, <2>7, <2>9 DEF OutBlock, Mixtral, Conf
  <2> QED  BY <1>2, <2>4, <2>7, <2>10
<1>4. CASE n \in Listed
  <2>1. CASE b \in Listed  BY <1>1, <1>4, <2>1, Layout
  <2>2. CASE b \in DOMAIN virtual
    <3>1. PICK u : u = virtual[b]  OBVIOUS
    <3>2. Virtual(b, u)  BY <1>1, <2>2, <3>1
    <3>3. u.kind = "v5" /\ u.of \in Listed /\ u.of.expert = Fused /\ u.of.at = n.at /\ u.of.layer = n.layer
          BY <1>2, <3>2
    <3>4. n.block = "mlp" /\ n.aux = "weight"  BY <1>1, <1>4, <3>3, Layout
    <3>5. OldRouter(n)  BY <3>4 DEF OldRouter
    <3> QED  BY <2>2, <3>1, <3>3, <3>5 DEF NamingInv, RouterInv
  <2> QED  BY <2>1, <2>2
<1> QED  BY <1>3, <1>4

(* Mixtral's routers are stored beside their experts.                      *)
LEMMA RoutersBeside == ConvertInv /\ NamingInv => RouterBesideItsExperts
<1> SUFFICES ASSUME ConvertInv, NamingInv, NEW i \in DOMAIN store, NEW j \in DOMAIN store,
                    NEW n, n = store[i].name, NEW m, m = store[j].name,
                    Mixtral(n), n.field = "gate", m.at = n.at, m.expert >= 0, m.layer = n.layer
             PROVE  n.block = m.block
    BY DEF RouterBesideItsExperts
<1>1. ASSUME NEW k \in DOMAIN store PROVE store[k].name \in ToSet(names)
  <2>1. PICK x, t : x = plan[k].name /\ t = Value(x)  OBVIOUS
  <2>2. x \in ToSet(names) /\ store[k] = [name |-> x, rows |-> t.rows, shape |-> t.shape, dtype |-> t.dtype]
        BY <2>1, StoredIs
  <2>3. store[k].name = x  BY <2>2
  <2> QED  BY <2>2, <2>3
<1>2. n \in ToSet(names) /\ m \in ToSet(names)  BY <1>1
<1>3. PICK c : /\ c \in Listed \/ c \in DOMAIN virtual
               /\ c = n \/ (c \in weights /\ n = ScaleOf(c))
               /\ c.at = n.at /\ c.block = n.block /\ c.layer = n.layer /\ c.expert = n.expert /\ c.field = n.field
      BY <1>2, BaseName
<1>4. c = n
  <2>1. Mixtral(c) /\ c.field = "gate"  BY <1>3 DEF Mixtral, Conf
  <2>2. ~Quantizes(c)  BY <2>1, GateHasNoSlot
  <2>3. c \notin weights  BY <2>2 DEF ConvertInv, WeightsInv
  <2> QED  BY <1>3, <2>3
<1>5. PICK b : /\ b \in Listed \/ b \in DOMAIN virtual
               /\ b.at = m.at /\ b.block = m.block /\ b.layer = m.layer /\ b.expert = m.expert
      BY <1>2, BaseName
<1>6. b.at = n.at /\ b.layer = n.layer /\ b.expert >= 0  BY <1>5
<1>7. n.block = b.block  BY <1>2, <1>3, <1>4, <1>5, <1>6, RouterMoves
<1> QED  BY <1>5, <1>7

(* A stored tensor holds the expert and the projection its name says, and  *)
(* a router is stored beside its experts, whatever the order of the names. *)
THEOREM ConvertedUnderItsName == ConvertSpec => []StoredUnderItsName
<1>1. ConvertInv /\ NamingInv => StoredUnderItsName  BY NamesMeanRows, RoutersBeside DEF StoredUnderItsName
<1>2. ConvertSpec => []ConvertInv  BY ConversionInvariant
<1>3. ConvertSpec => []NamingInv  BY NamesCutWhole
<1> QED  BY <1>1, <1>2, <1>3, PTL
-----------------------------------------------------------------------------
(* A weight and its scale are planned side by side.                        *)
FirstOf(s) ==
  CHOOSE k \in DOMAIN names : Stage(names[k]) = s /\ \A j \in 1 .. k - 1 : Stage(names[j]) # s
(* A place, by the name that has it.                                       *)
LEMMA PlaceIs ==
  ASSUME NEW i, NEW n, n = names[i]
  PROVE  Place(i) = <<FirstOf(Stage(n)), IF IsExpert(n) THEN n.expert ELSE 0, IF Ranked(n) THEN Rank(n) ELSE 0, i>>
BY DEF Place, FirstOf

(* They are of one stage and of one rank there.                            *)
LEMMA ScalePlace ==
  ASSUME ConvertInv, NEW n \in weights, NEW m, m = ScaleOf(n)
  PROVE  /\ Stage(m) = Stage(n) /\ m.expert = n.expert /\ Rank(m) = Rank(n)
         /\ (IsExpert(m) <=> IsExpert(n)) /\ (Ranked(m) <=> Ranked(n))
<1>1. IsName(n) /\ ~Pipeline  BY WeightName DEF ConvertInv, StepInv
<1>2. PICK a : a = ScaleAux  OBVIOUS
<1>3. m = [n EXCEPT !.aux = a]  BY <1>2 DEF ScaleOf
<1>4. m = Changed(n, n.block, n.expert, n.field, a)  BY <1>1, <1>3, ChangedAux
<1>5. m.at = n.at /\ m.layer = n.layer /\ m.expert = n.expert /\ m.field = n.field  BY <1>4, ChangedFields
<1>6. IsExpert(m) <=> IsExpert(n)  BY <1>5 DEF IsExpert
<1>7. Conf(m) = Conf(n)  BY <1>5 DEF Conf
<1>8. Rank(m) = Rank(n)  BY <1>5, <1>7 DEF Rank
<1>9. IsExpert(n)  BY DEF ConvertInv, WeightsInv, Quantizes
<1>10. Stage(n) = <<"experts", n.at, n.layer>>  BY <1>1, <1>9, Zenon DEF Stage
<1>11. Stage(m) = <<"experts", m.at, m.layer>>  BY <1>1, <1>6, <1>9, Zenon DEF Stage
<1>12. Ranked(m) <=> Ranked(n)  BY <1>5, <1>6 DEF Ranked
<1> QED  BY <1>5, <1>6, <1>8, <1>10, <1>11, <1>12

(* A weight and its scale are next to each other in the plan.              *)
LEMMA NextDoor ==
  ASSUME ConvertInv, NEW i \in DOMAIN names, i + 1 \in DOMAIN names, names[i] \in weights,
         names[i + 1] = ScaleOf(names[i]), NEW k \in DOMAIN names, PlanOrder[k] = i
  PROVE  k + 1 \in DOMAIN names /\ PlanOrder[k + 1] = i + 1
<1>0. Named  BY NamedOK DEF ConvertInv
<1>1. PICK len \in Nat : len = Len(names) /\ DOMAIN names = 1 .. len  BY <1>0, SeqEntries DEF Named
<1>2. PICK n, m : n = names[i] /\ m = names[i + 1]  OBVIOUS
<1>3. /\ Stage(m) = Stage(n) /\ m.expert = n.expert /\ Rank(m) = Rank(n)
      /\ (IsExpert(m) <=> IsExpert(n)) /\ (Ranked(m) <=> Ranked(n))
      BY <1>2, ScalePlace
<1>4. PICK a, b, c, p : /\ a \in Int /\ b \in Int /\ c \in Int /\ i \in Int
                        /\ p = Place(i) /\ p[1] = a /\ p[2] = b /\ p[3] = c /\ p[4] = i
      BY <1>0, PlaceInts
<1>5. PICK q : q = Place(i + 1)  OBVIOUS
<1>6. q[1] = a /\ q[2] = b /\ q[3] = c /\ q[4] = i + 1
  <2>1. PICK x, y, z : /\ x = FirstOf(Stage(n)) /\ y = (IF IsExpert(n) THEN n.expert ELSE 0)
                       /\ z = IF Ranked(n) THEN Rank(n) ELSE 0
        OBVIOUS
  <2>2. p = <<x, y, z, i>>  BY <1>2, <1>4, <2>1, PlaceIs
  <2>3. x = FirstOf(Stage(m)) /\ y = (IF IsExpert(m) THEN m.expert ELSE 0) /\ z = IF Ranked(m) THEN Rank(m) ELSE 0
        BY <1>3, <2>1
  <2>4. PICK h : h = i + 1  OBVIOUS
  <2>5. q = <<x, y, z, h>>  BY <1>2, <1>5, <2>3, <2>4, PlaceIs
  <2>6. p[1] = x /\ p[2] = y /\ p[3] = z  BY <2>2
  <2>7. q[1] = x /\ q[2] = y /\ q[3] = z /\ q[4] = h  BY <2>5
  <2> QED  BY <1>4, <2>4, <2>6, <2>7
<1>7. ASSUME NEW j \in DOMAIN names PROVE Before(j, i + 1) <=> Before(j, i) \/ j = i
  <2>1. PICK x, y, z, r : /\ x \in Int /\ y \in Int /\ z \in Int /\ j \in Int
                          /\ r = Place(j) /\ r[1] = x /\ r[2] = y /\ r[3] = z /\ r[4] = j
        BY <1>0, PlaceInts
  <2>2. Before(j, i) <=> LexLess(r, p)  BY <1>4, <2>1, BeforeIs
  <2>3. Before(j, i + 1) <=> LexLess(r, q)  BY <1>5, <2>1, BeforeIs
  <2>4. CASE j = i
    <3>1. r = p  BY <1>4, <2>1, <2>4
    <3>2. x = a /\ y = b /\ z = c  BY <1>4, <2>1, <3>1
    <3>3. LexLess(r, q)  BY <1>4, <1>6, <2>1, <2>4, <3>2 DEF LexLess
    <3> QED  BY <2>3, <2>4, <3>3
  <2>5. CASE j # i
    <3>1. j < i + 1 <=> j < i  BY <1>4, <2>1, <2>5
    <3>2. LexLess(r, q) <=> LexLess(r, p)  BY <1>4, <1>6, <2>1, <3>1 DEF LexLess
    <3> QED  BY <2>2, <2>3, <2>5, <3>2
  <2> QED  BY <2>4, <2>5
<1>8. Earlier(i + 1) = Earlier(i) \cup {i} /\ i \notin Earlier(i)
  <2>1. ~Before(i, i)  BY <1>0, BeforeOrders
  <2> QED  BY <1>7, <2>1 DEF Earlier
<1>9. IsFiniteSet(Earlier(i))  BY <1>0, EarlierCount
<1>10. Cardinality(Earlier(i + 1)) = Cardinality(Earlier(i)) + 1  BY <1>8, <1>9, FS_AddElement
<1>11. Cardinality(Earlier(i)) = k - 1  BY <1>0, PlanPermutes
<1>12. k \in Int  BY <1>1
<1>13. Cardinality(Earlier(i + 1)) = k  BY <1>10, <1>11, <1>12
<1>14. Cardinality(Earlier(i + 1)) \in 0 .. Len(names) - 1  BY <1>0, EarlierCount
<1>15. k + 1 \in DOMAIN names  BY <1>1, <1>13, <1>14
<1>16. PICK g : g = k + 1  OBVIOUS
<1>17. g \in DOMAIN names /\ g - 1 = k  BY <1>12, <1>15, <1>16
<1>18. PlanOrder[g] \in DOMAIN names /\ Cardinality(Earlier(PlanOrder[g])) = k  BY <1>0, <1>17, PlanPermutes
<1>19. PlanOrder[g] = i + 1  BY <1>0, <1>13, <1>18, PlanPermutes
<1> QED  BY <1>15, <1>16, <1>19
-----------------------------------------------------------------------------
(* The third invariant, in parts: every weight a quantizer can take is     *)
(* taken, its scale is right behind it, among the names and in the plan;   *)
ChosenInv ==
  /\ weights \subseteq ToSet(names)
  /\ step \in {"plan", "write", "done"} /\ mode # "none" =>
       weights # {} /\ (\E d : at = {d}) /\ \A n \in ToSet(names) : Quantizes(n) => n \in weights
PairInv == \A i \in DOMAIN names : names[i] \in weights => i + 1 \in DOMAIN names /\ names[i + 1] = ScaleOf(names[i])
Behind(i) == plan[i].name \in weights => i + 1 \in DOMAIN plan /\ plan[i + 1].name = ScaleOf(plan[i].name)
OrderInv ==
  /\ \A i \in DOMAIN plan : Behind(i)
  /\ \A i, j \in DOMAIN plan : plan[i].name = plan[j].name => i = j
  /\ step \in {"write", "done"} => \A n \in ToSet(names) : \E i \in DOMAIN plan : plan[i].name = n
(* what is held is the weight written last, and only until its scale is;   *)
LastWeight(w) == Len(store) > 0 /\ w = plan[Len(store)].name /\ w \in weights
HoldInv ==
  /\ cache = [w \in DOMAIN cache |-> cache[w]]
  /\ \E w : DOMAIN cache \subseteq {w}
  /\ step \in {"write", "done"} => \A w : w \in DOMAIN cache <=> LastWeight(w)
  /\ step = "done" => Len(store) = Len(plan)
(* what was quantized is written.                                          *)
CountInv ==
  /\ \A w \in DOMAIN quantized : quantized[w] = 1
  /\ step = "write" => \A w \in DOMAIN quantized : \E i \in 1 .. Len(store) : plan[i].name = w
QuantInv == ChosenInv /\ PairInv /\ OrderInv /\ HoldInv /\ CountInv
-----------------------------------------------------------------------------
(* Nothing is held before the plan is made,                                *)
LEMMA NothingHeld ==
  ASSUME plan' = <<>>, store' = <<>>, cache' = <<>>, quantized' = <<>>, step' \notin {"write", "done"}
  PROVE  OrderInv' /\ HoldInv' /\ CountInv'
<1>1. DOMAIN plan' = {} /\ DOMAIN cache' = {} /\ DOMAIN quantized' = {}  OBVIOUS
<1>2. OrderInv'  BY <1>1 DEF OrderInv
<1>3. cache' = [w \in DOMAIN cache' |-> cache'[w]]
  <2>1. PICK c : c = [w \in {} |-> w]  OBVIOUS
  <2>2. c = <<>>
    <3>1. c \in [1 .. 0 -> {}]  BY <2>1
    <3>2. c \in Seq({}) /\ Len(c) = 0  BY <3>1
    <3> QED  BY <3>2
  <2>3. c = [w \in DOMAIN c |-> c[w]]  BY <2>1
  <2> QED  BY <2>2, <2>3
<1>4. HoldInv'  BY <1>1, <1>3 DEF HoldInv
<1>5. CountInv'  BY <1>1 DEF CountInv
<1> QED  BY <1>2, <1>4, <1>5

(* It holds at first,                                                      *)
LEMMA QuantAtFirst == ConvertInit => QuantInv
<1> SUFFICES ASSUME ConvertInit PROVE QuantInv  OBVIOUS
<1>1. /\ step = "resolve" /\ names = <<>> /\ weights = {} /\ plan = <<>> /\ store = <<>> /\ cache = <<>> /\ quantized = <<>>
      BY DEF ConvertInit
<1>2. DOMAIN plan = {} /\ DOMAIN cache = {} /\ DOMAIN quantized = {} /\ DOMAIN names = {}  BY <1>1
<1>3. ChosenInv /\ PairInv /\ OrderInv /\ CountInv  BY <1>1, <1>2 DEF ChosenInv, PairInv, OrderInv, CountInv
<1>4. cache = [w \in DOMAIN cache |-> cache[w]]
  <2>1. PICK c : c = [w \in {} |-> w]  OBVIOUS
  <2>2. c = <<>>
    <3>1. c \in [1 .. 0 -> {}]  BY <2>1
    <3>2. c \in Seq({}) /\ Len(c) = 0  BY <3>1
    <3> QED  BY <3>2
  <2>3. c = [w \in DOMAIN c |-> c[w]]  BY <2>1
  <2> QED  BY <1>1, <2>2, <2>3
<1>5. HoldInv  BY <1>1, <1>2, <1>4 DEF HoldInv
<1> QED  BY <1>3, <1>5 DEF QuantInv

(* as before the weights are chosen,                                       *)
LEMMA QuantEarly ==
  ASSUME weights' = {}, plan' = <<>>, store' = <<>>, cache' = <<>>, quantized' = <<>>,
         step' \in Early \cup {"plan"}, step' = "plan" => mode' = "none"
  PROVE  QuantInv'
<1>1. step' \notin {"write", "done"}  BY DEF Early
<1>2. OrderInv' /\ HoldInv' /\ CountInv'  BY <1>1, NothingHeld
<1>3. ChosenInv'  BY <1>1 DEF ChosenInv
<1>4. PairInv'  BY DEF PairInv
<1> QED  BY <1>2, <1>3, <1>4 DEF QuantInv

(* and the step alone, if it refuses, changes nothing.                     *)
LEMMA QuantStays ==
  ASSUME QuantInv, root' = root, mode' = mode, at' = at, names' = names, virtual' = virtual, weights' = weights,
         plan' = plan, store' = store, cache' = cache, quantized' = quantized,
         \/ step' = step \/ step' = "raised"
         \/ step = "write" /\ step' = "done" /\ Len(store) = Len(plan)
  PROVE  QuantInv'
<1>1. \A n : (Quantizes(n)' <=> Quantizes(n)) /\ ScaleOf(n)' = ScaleOf(n)  BY FrozenRoot, FrozenLoad
<1>2. ChosenInv'
  <2>1. ChosenInv  BY DEF QuantInv
  <2>2. step' \in {"plan", "write", "done"} => step \in {"plan", "write", "done"}  OBVIOUS
  <2> QED  BY <1>1, <2>1, <2>2 DEF ChosenInv
<1>3. PairInv'  BY <1>1 DEF PairInv, QuantInv
<1>4. OrderInv'  BY <1>1 DEF OrderInv, Behind, QuantInv
<1>5. \A w : LastWeight(w)' <=> LastWeight(w)  BY DEF LastWeight
<1>6. HoldInv'  BY <1>5 DEF HoldInv, QuantInv
<1>7. CountInv'  BY DEF CountInv, QuantInv
<1> QED  BY <1>2, <1>3, <1>4, <1>6, <1>7 DEF QuantInv

(* A quantizer that does not refuse takes every weight it can.             *)
LEMMA PrepareChooses ==
  ASSUME ConvertInv, Prepare
  PROVE  QuantInv'
<1>1. /\ root' = root /\ at' = at /\ mode' = mode /\ virtual' = virtual /\ step' = "plan" /\ step = "prepare"
      /\ weights' = {n \in ToSet(names) : Quantizes(n)} /\ plan' = plan /\ store' = store /\ cache' = cache
      /\ quantized' = quantized /\ ~QuantizerRaises
      BY DEF Prepare, inputs
<1>2. /\ IsSeq(names) /\ plan = <<>> /\ store = <<>> /\ cache = <<>> /\ quantized = <<>> /\ \E d : at = {d}
      BY <1>1 DEF ConvertInv, StepInv, NamesInv, Early
<1>3. \A n : (Quantizes(n)' <=> Quantizes(n)) /\ ScaleOf(n)' = ScaleOf(n)  BY <1>1, FrozenRoot, FrozenLoad
<1>4. /\ \A n \in ToSet(names) : n \in ToSet(names')
      /\ \A x \in ToSet(names') : x \in ToSet(names) \/ \E w \in ToSet(names) : Quantizes(w) /\ x = ScaleOf(w)
      BY PreparedNames
<1>5. ASSUME NEW w \in ToSet(names), Quantizes(w) PROVE ~Quantizes(ScaleOf(w))
  <2>1. IsName(w) /\ w.aux = "weight"  BY <1>5, NameType DEF ConvertInv, Quantizes
  <2>2. ScaleOf(w).aux = ScaleAux /\ ScaleAux # "weight"  BY <2>1, ScaleNames
  <2> QED  BY <2>2 DEF Quantizes
<1>6. ChosenInv'
  <2>1. weights' # {}  BY <1>1 DEF QuantizerRaises
  <2>2. weights' \subseteq ToSet(names')  BY <1>1, <1>4
  <2>3. \A x \in ToSet(names') : Quantizes(x) => x \in weights'  BY <1>1, <1>4, <1>5
  <2> QED  BY <1>1, <1>2, <1>3, <2>1, <2>2, <2>3 DEF ChosenInv
<1>7. OrderInv' /\ HoldInv' /\ CountInv'  BY <1>1, <1>2, NothingHeld
<1>8. PairInv'
  <2>1. PICK parts : parts = [i \in DOMAIN names |-> WithScale(names[i])]  OBVIOUS
  <2>2. IsSeqs(parts) /\ DOMAIN parts = DOMAIN names
    <3>1. Len(names) \in Nat /\ DOMAIN names = 1 .. Len(names)  BY <1>2, SeqEntries
    <3>2. \A i \in DOMAIN names : IsSeq(parts[i])  BY <2>1, WithScaleIs
    <3> QED  BY <2>1, <3>1, <3>2 DEF IsSeqs
  <2>3. PICK F : F = FlattenSeq(parts)  OBVIOUS
  <2>4. names' = F  BY <2>1, <2>3 DEF Prepare
  <2>5. PICK S : S = EntriesOf(parts)  OBVIOUS
  <2>6. parts \in Seq(Seq(S))  BY <2>2, <2>5, SeqsType
  <2>7. \A k \in DOMAIN F : \E i \in DOMAIN parts : \E j \in DOMAIN parts[i] : Beside(F, k, parts[i], j)
        BY <2>3, <2>6, FlattenSeqWhere
  <2>8. ASSUME NEW k \in DOMAIN F, F[k] \in weights' PROVE k + 1 \in DOMAIN F /\ F[k + 1] = ScaleOf(F[k])
    <3>1. PICK i \in DOMAIN parts : \E j \in DOMAIN parts[i] : Beside(F, k, parts[i], j)  BY <2>7
    <3>2. PICK s : s = parts[i]  OBVIOUS
    <3>3. PICK j \in DOMAIN s : Beside(F, k, s, j)  BY <3>1, <3>2
    <3>4. PICK n, m : n = names[i] /\ m = ScaleOf(n)  OBVIOUS
    <3>5. s = WithScale(n) /\ n \in ToSet(names)  BY <2>1, <2>2, <3>2, <3>4 DEF ToSet
    <3>6. F[k] = s[j] /\ Quantizes(F[k])  BY <1>1, <2>8, <3>3 DEF Beside
    <3>7. s[j] = n \/ (Quantizes(n) /\ s[j] = m)  BY <3>4, <3>5, WithScaleIs
    <3>8. ~(Quantizes(n) /\ s[j] = m)  BY <1>5, <3>4, <3>5, <3>6
    <3>9. s[j] = n /\ Quantizes(n)  BY <3>6, <3>7, <3>8
    <3>10. s = <<n, m>>  BY <3>4, <3>5, <3>9, WithScaleIs
    <3>11. s[1] = n /\ s[2] = m /\ Len(s) = 2 /\ DOMAIN s = {1, 2}  BY <3>10
    <3>12. j # 2  BY <3>8, <3>9, <3>11
    <3>13. j = 1 /\ j # Len(s)  BY <3>11, <3>12
    <3>14. k + 1 \in DOMAIN F /\ F[k + 1] = s[j + 1]  BY <3>3, <3>13 DEF Beside
    <3>15. s[j + 1] = m  BY <3>11, <3>13
    <3> QED  BY <3>4, <3>6, <3>9, <3>14, <3>15
  <2> QED  BY <1>3, <2>4, <2>8 DEF PairInv
<1> QED  BY <1>6, <1>7, <1>8 DEF QuantInv

(* The plan has every name once, the scales behind their weights.          *)
LEMMA PlanOrders ==
  ASSUME ConvertInv, NamingInv, QuantInv, Plan
  PROVE  QuantInv'
<1>1. /\ root' = root /\ at' = at /\ mode' = mode /\ names' = names /\ virtual' = virtual /\ weights' = weights
      /\ step' = "write" /\ step = "plan" /\ store' = store /\ cache' = cache /\ quantized' = quantized
      BY DEF Plan, inputs
<1>2. store = <<>> /\ cache = <<>> /\ quantized = <<>> /\ Named  BY <1>1, NamedOK DEF ConvertInv, StepInv
<1>3. \A n : (Quantizes(n)' <=> Quantizes(n)) /\ ScaleOf(n)' = ScaleOf(n)  BY <1>1, FrozenRoot, FrozenLoad
<1>4. /\ DOMAIN plan' = DOMAIN names
      /\ \A k \in DOMAIN names : PlanOrder[k] \in DOMAIN names /\ plan'[k].name = names[PlanOrder[k]]
      BY PlannedIs
<1>5. /\ \A j \in DOMAIN names : \E k \in DOMAIN names : PlanOrder[k] = j
      /\ \A k \in DOMAIN names : Cardinality(Earlier(PlanOrder[k])) = k - 1
      BY <1>2, PlanPermutes
<1>6. ChosenInv'  BY <1>1, <1>3 DEF ChosenInv, QuantInv
<1>7. PairInv'  BY <1>1, <1>3 DEF PairInv, QuantInv
<1>8. OrderInv'
  <2>1. ASSUME NEW k \in DOMAIN names, plan'[k].name \in weights
        PROVE  k + 1 \in DOMAIN names /\ plan'[k + 1].name = ScaleOf(plan'[k].name)
    <3>1. PICK i : i = PlanOrder[k]  OBVIOUS
    <3>2. i \in DOMAIN names /\ plan'[k].name = names[i]  BY <1>4, <3>1
    <3>3. i + 1 \in DOMAIN names /\ names[i + 1] = ScaleOf(names[i])  BY <2>1, <3>2 DEF QuantInv, PairInv
    <3>4. k + 1 \in DOMAIN names /\ PlanOrder[k + 1] = i + 1  BY <2>1, <3>1, <3>2, <3>3, NextDoor
    <3>5. plan'[k + 1].name = names[i + 1]  BY <1>4, <3>4
    <3> QED  BY <3>2, <3>3, <3>4, <3>5
  <2>2. ASSUME NEW h \in DOMAIN names, NEW k \in DOMAIN names, plan'[h].name = plan'[k].name PROVE h = k
    <3>1. PICK i, j : i = PlanOrder[h] /\ j = PlanOrder[k]  OBVIOUS
    <3>2. i \in DOMAIN names /\ j \in DOMAIN names /\ names[i] = names[j]  BY <1>4, <2>2, <3>1
    <3>3. i = j  BY <3>2 DEF NamingInv, OnceInv
    <3>4. h - 1 = k - 1  BY <1>5, <3>1, <3>3
    <3>5. h \in Int /\ k \in Int  BY <1>2, SeqEntries DEF Named
    <3> QED  BY <3>4, <3>5
  <2>3. ASSUME NEW n \in ToSet(names) PROVE \E k \in DOMAIN names : plan'[k].name = n
    <3>1. PICK j \in DOMAIN names : n = names[j]  BY DEF ToSet
    <3>2. PICK k \in DOMAIN names : PlanOrder[k] = j  BY <1>5
    <3> QED  BY <1>4, <3>1, <3>2
  <2> QED  BY <1>1, <1>3, <1>4, <2>1, <2>2, <2>3 DEF OrderInv, Behind
<1>9. DOMAIN cache' = {} /\ DOMAIN quantized' = {} /\ Len(store') = 0  BY <1>1, <1>2
<1>10. HoldInv'
  <2>1. \A w : ~LastWeight(w)'  BY <1>9 DEF LastWeight
  <2>2. cache' = [w \in DOMAIN cache' |-> cache'[w]]  BY <1>1 DEF HoldInv, QuantInv
  <2> QED  BY <1>1, <1>9, <2>1, <2>2 DEF HoldInv
<1>11. CountInv'  BY <1>9 DEF CountInv
<1> QED  BY <1>6, <1>7, <1>8, <1>10, <1>11 DEF QuantInv
-----------------------------------------------------------------------------
(* Writing a member writes the next one planned, or raises.                *)
LEMMA WriteGrows ==
  ASSUME ConvertInv, NEW n, NEW t, Write(n, t), step = "write"
  PROVE  \/ step' = "write" /\ Len(store') = Len(store) + 1
         \/ step' = "raised" /\ store' = store
<1>1. IsSeq(store)  BY DEF ConvertInv, StoreInv
<1>2. CASE step' = "raised" /\ store' = store  BY <1>2
<1>3. CASE ~(step' = "raised" /\ store' = store)
  <2>1. PICK m : m = [name |-> n, rows |-> t.rows, shape |-> t.shape, dtype |-> t.dtype]  OBVIOUS
  <2>2. store' = Append(store, m) /\ step' = step  BY <1>3, <2>1 DEF Write
  <2>3. PICK s, r : s = store /\ r = store'  OBVIOUS
  <2>4. IsSeq(s) /\ LongerBy(r, s, m)  BY <1>1, <2>2, <2>3 DEF LongerBy
  <2>5. Len(r) = Len(s) + 1  BY <2>4, AppendIs
  <2> QED  BY <2>2, <2>3, <2>5
<1> QED  BY <1>2, <1>3

(* What a load leaves as it was.                                           *)
LEMMA LoadLeaves ==
  ASSUME QuantInv, root' = root, mode' = mode, at' = at, names' = names, virtual' = virtual, weights' = weights,
         plan' = plan, step = "write", step' \in {"write", "raised"}
  PROVE  ChosenInv' /\ PairInv' /\ OrderInv'
<1>1. \A n : (Quantizes(n)' <=> Quantizes(n)) /\ ScaleOf(n)' = ScaleOf(n)  BY FrozenRoot, FrozenLoad
<1>2. ChosenInv'  BY <1>1 DEF ChosenInv, QuantInv
<1>3. PairInv'  BY <1>1 DEF PairInv, QuantInv
<1>4. OrderInv'  BY <1>1 DEF OrderInv, Behind, QuantInv
<1> QED  BY <1>2, <1>3, <1>4

(* The member after a weight is its scale, and a scale is after its weight.*)
LEMMA NextMember ==
  ASSUME ConvertInv, QuantInv, step = "write", Len(store) < Len(plan), NEW n, n = plan[Len(store) + 1].name,
         NEW l, l = Len(store)
  PROVE  /\ l \in Nat /\ l + 1 \in DOMAIN plan /\ n \in ToSet(names)
         /\ \A i \in 1 .. l : i \in DOMAIN plan
         /\ \A w : LastWeight(w) => n = ScaleOf(w) /\ WeightOf(n) = w /\ n # w
         /\ WeightOf(n) \in weights /\ n # WeightOf(n) => LastWeight(WeightOf(n))
         /\ n \in weights => \A i \in 1 .. l : plan[i].name # n
<1>1. IsSeq(plan) /\ IsSeq(store) /\ (\A i \in DOMAIN plan : plan[i].name \in ToSet(names))
      BY DEF ConvertInv, PlanInv, StoreInv
<1>2. PICK p \in Nat : p = Len(plan) /\ DOMAIN plan = 1 .. p  BY <1>1, SeqEntries
<1>3. l \in Nat  BY <1>1, SeqEntries
<1>4. l + 1 \in DOMAIN plan /\ \A i \in 1 .. l : i \in DOMAIN plan /\ i # l + 1  BY <1>2, <1>3
<1>5. n \in ToSet(names)  BY <1>1, <1>4
<1>6. OrderInv /\ ChosenInv  BY DEF QuantInv
<1>7. ASSUME NEW w, LastWeight(w) PROVE n = ScaleOf(w) /\ WeightOf(n) = w /\ n # w
  <2>1. l > 0 /\ w = plan[l].name /\ w \in weights  BY <1>7 DEF LastWeight
  <2>2. l \in DOMAIN plan  BY <1>3, <1>4, <2>1
  <2>3. plan[l + 1].name = ScaleOf(w)  BY <1>6, <2>1, <2>2 DEF OrderInv, Behind
  <2>4. IsName(w) /\ w.aux = "weight"  BY <2>1, WeightName
  <2>5. WeightOf(ScaleOf(w)) = w /\ ScaleOf(w) # w  BY <2>4, ScaleNames
  <2> QED  BY <2>3, <2>5
<1>8. ASSUME WeightOf(n) \in weights, n # WeightOf(n) PROVE LastWeight(WeightOf(n))
  <2>1. PICK w : w = WeightOf(n)  OBVIOUS
  <2>2. IsName(w) /\ w.aux = "weight" /\ IsName(n)  BY <1>5, <1>8, <2>1, WeightName, NameType DEF ConvertInv
  <2>3. n = ScaleOf(w)
    <3>1. PICK a : a = ScaleAux  OBVIOUS
    <3>2. n.aux = a /\ w = [n EXCEPT !.aux = "weight"]  BY <1>8, <2>1, <3>1 DEF WeightOf
    <3>3. w = Changed(n, n.block, n.expert, n.field, "weight")  BY <2>2, <3>2, ChangedAux
    <3>4. w.at = n.at /\ w.layer = n.layer /\ w.block = n.block /\ w.expert = n.expert /\ w.field = n.field
          BY <3>3, ChangedFields
    <3>5. PICK x : x = ScaleOf(w)  OBVIOUS
    <3>6. x = [w EXCEPT !.aux = a]  BY <3>1, <3>5 DEF ScaleOf
    <3>7. x = Changed(w, w.block, w.expert, w.field, a)  BY <2>2, <3>6, ChangedAux
    <3>8. /\ IsName(x) /\ x.at = w.at /\ x.layer = w.layer /\ x.block = w.block /\ x.expert = w.expert
          /\ x.field = w.field /\ x.aux = a
          BY <3>7, ChangedFields
    <3>9. n = x  BY <2>2, <3>2, <3>4, <3>8, SameName
    <3> QED  BY <3>5, <3>9
  <2>4. w \in ToSet(names)  BY <1>6, <1>8, <2>1 DEF ChosenInv
  <2>5. PICK i \in DOMAIN plan : plan[i].name = w  BY <1>6, <2>4 DEF OrderInv
  <2>6. i + 1 \in DOMAIN plan /\ plan[i + 1].name = n  BY <1>6, <1>8, <2>1, <2>3, <2>5 DEF OrderInv, Behind
  <2>7. i + 1 = l + 1  BY <1>4, <1>6, <2>6 DEF OrderInv
  <2>8. i \in Nat /\ i > 0  BY <1>2
  <2>9. i = l /\ l > 0  BY <1>3, <2>7, <2>8
  <2> QED  BY <1>8, <2>1, <2>5, <2>9 DEF LastWeight
<1>9. ASSUME NEW i \in 1 .. l PROVE plan[i].name # n
      BY <1>4, <1>6 DEF OrderInv
<1> QED  BY <1>3, <1>4, <1>5, <1>7, <1>8, <1>9

(* Writing a member that is not quantized keeps the third invariant,       *)
LEMMA LoadRawHolds == ConvertInv /\ QuantInv /\ LoadRaw => QuantInv'
<1> SUFFICES ASSUME ConvertInv, QuantInv, LoadRaw PROVE QuantInv'  OBVIOUS
<1>1. PICK n, l : n = plan[Len(store) + 1].name /\ l = Len(store)  OBVIOUS
<1>2. /\ step = "write" /\ Len(store) < Len(plan) /\ WeightOf(n) \notin weights
      /\ \E t : Write(n, t)
      /\ root' = root /\ at' = at /\ mode' = mode /\ names' = names /\ virtual' = virtual /\ weights' = weights
      /\ plan' = plan /\ cache' = cache /\ quantized' = quantized
      BY <1>1 DEF LoadRaw, inputs, passes
<1>3. PICK t : Write(n, t)  BY <1>2
<1>4. \/ step' = "write" /\ Len(store') = l + 1
      \/ step' = "raised" /\ store' = store
      BY <1>1, <1>2, <1>3, WriteGrows
<1>5. /\ l \in Nat /\ n \in ToSet(names)
      /\ \A w : LastWeight(w) => WeightOf(n) = w
      BY <1>1, <1>2, NextMember
<1>6. ChosenInv' /\ PairInv' /\ OrderInv'  BY <1>2, <1>4, LoadLeaves
<1>7. HoldInv /\ CountInv  BY DEF QuantInv
<1>8. DOMAIN cache = {}
  <2>1. \A w : w \in DOMAIN cache => LastWeight(w)  BY <1>2, <1>7 DEF HoldInv
  <2>2. \A w : LastWeight(w) => w \in weights  BY DEF LastWeight
  <2> QED  BY <1>2, <1>5, <2>1, <2>2
<1>9. n \notin weights
  <2>1. n \in weights => WeightOf(n) = n  BY WeightName
  <2> QED  BY <1>2, <2>1
<1>10. HoldInv'
  <2>1. step' = "write" => \A w : ~LastWeight(w)'  BY <1>1, <1>2, <1>4, <1>9 DEF LastWeight
  <2>2. step' \in {"write", "done"} => step' = "write"  BY <1>4
  <2> QED  BY <1>2, <1>4, <1>7, <1>8, <2>1, <2>2 DEF HoldInv
<1>11. CountInv'
  <2>1. \A i \in 1 .. l : i \in 1 .. l + 1  BY <1>5
  <2> QED  BY <1>1, <1>2, <1>4, <1>7, <2>1 DEF CountInv
<1> QED  BY <1>6, <1>10, <1>11 DEF QuantInv

(* and so does writing one that is.                                        *)
LEMMA LoadQuantizedHolds == ConvertInv /\ QuantInv /\ LoadQuantized => QuantInv'
<1> SUFFICES ASSUME ConvertInv, QuantInv, LoadQuantized PROVE QuantInv'  OBVIOUS
<1>1. PICK n, l : n = plan[Len(store) + 1].name /\ l = Len(store)  OBVIOUS
<1>w. PICK w : w = WeightOf(n)  OBVIOUS
<1>p. PICK pair : pair = IF w \in DOMAIN cache THEN cache[w] ELSE Quant(RawLoad(w))  OBVIOUS
<1>2. /\ step = "write" /\ Len(store) < Len(plan) /\ w \in weights
      /\ \E t : Write(n, t)
      /\ root' = root /\ at' = at /\ mode' = mode /\ names' = names /\ virtual' = virtual /\ weights' = weights
      /\ plan' = plan
      /\ quantized' = IF w \in DOMAIN cache THEN quantized
                      ELSE [x \in DOMAIN quantized \cup {w} |->
                              (IF x \in DOMAIN quantized THEN quantized[x] ELSE 0) + (IF x = w THEN 1 ELSE 0)]
      /\ cache' = IF n = w THEN [x \in DOMAIN cache \cup {w} |-> IF x = w THEN pair ELSE cache[x]]
                  ELSE [x \in DOMAIN cache \ {w} |-> cache[x]]
      BY <1>1, <1>w, <1>p DEF LoadQuantized, inputs, passes
<1>3. PICK t : Write(n, t)  BY <1>2
<1>4. \/ step' = "write" /\ Len(store') = l + 1
      \/ step' = "raised" /\ store' = store
      BY <1>1, <1>2, <1>3, WriteGrows
<1>5. /\ l \in Nat /\ n \in ToSet(names)
      /\ \A x : LastWeight(x) => n = ScaleOf(x) /\ WeightOf(n) = x /\ n # x
      /\ WeightOf(n) \in weights /\ n # WeightOf(n) => LastWeight(WeightOf(n))
      /\ n \in weights => \A i \in 1 .. l : plan[i].name # n
      BY <1>1, <1>2, NextMember
<1>6. ChosenInv' /\ PairInv' /\ OrderInv'  BY <1>2, <1>4, LoadLeaves
<1>7. HoldInv /\ CountInv  BY DEF QuantInv
<1>8. \A x : x \in DOMAIN cache <=> LastWeight(x)  BY <1>2, <1>7 DEF HoldInv
<1>9. CASE n = w
  <2>1. DOMAIN cache = {}  BY <1>5, <1>8, <1>9, <1>w
  <2>2. DOMAIN cache' = {w} /\ cache' = [x \in DOMAIN cache' |-> cache'[x]]  BY <1>2, <1>9, <2>1
  <2>3. w \notin DOMAIN quantized  BY <1>1, <1>2, <1>5, <1>7, <1>9 DEF CountInv
  <2>4. quantized' = [x \in DOMAIN quantized \cup {w} |->
                        (IF x \in DOMAIN quantized THEN quantized[x] ELSE 0) + (IF x = w THEN 1 ELSE 0)]
        BY <1>2, <2>1
  <2>5. ASSUME NEW x \in DOMAIN quantized' PROVE quantized'[x] = 1 /\ (x \in DOMAIN quantized \/ x = w)
    <3>1. x \in DOMAIN quantized \/ x = w  BY <2>4
    <3>2. CASE x = w
      <4>1. quantized'[x] = 0 + 1  BY <2>3, <2>4, <3>2
      <4> QED  BY <3>2, <4>1
    <3>3. CASE x \in DOMAIN quantized
      <4>1. x # w  BY <2>3, <3>3
      <4>2. quantized'[x] = quantized[x] + 0  BY <2>4, <3>3, <4>1
      <4>3. quantized[x] = 1  BY <1>7, <3>3 DEF CountInv
      <4> QED  BY <3>3, <4>2, <4>3
    <3> QED  BY <3>1, <3>2, <3>3
  <2>6. CountInv'
    <3>1. ASSUME step' = "write", NEW x \in DOMAIN quantized' PROVE \E i \in 1 .. l + 1 : plan[i].name = x
      <4>1. CASE x = w
        <5>1. l + 1 \in 1 .. l + 1  BY <1>5
        <5> QED  BY <1>1, <1>9, <4>1, <5>1
      <4>2. CASE x \in DOMAIN quantized
        <5>1. PICK i \in 1 .. l : plan[i].name = x  BY <1>1, <1>2, <1>7, <4>2 DEF CountInv
        <5>2. i \in 1 .. l + 1  BY <1>5
        <5> QED  BY <5>1, <5>2
      <4> QED  BY <2>5, <4>1, <4>2
    <3> QED  BY <1>2, <1>4, <2>5, <3>1 DEF CountInv
  <2>7. HoldInv'
    <3>1. step' = "write" => \A x : LastWeight(x)' <=> x = w
      <4>1. l + 1 > 0  BY <1>5
      <4>2. step' = "write" => Len(store') = l + 1  BY <1>4
      <4> QED  BY <1>1, <1>2, <1>9, <4>1, <4>2 DEF LastWeight
    <3>2. step' \in {"write", "done"} => step' = "write"  BY <1>4
    <3>3. step' # "done"  BY <1>4
    <3> QED  BY <2>2, <3>1, <3>2, <3>3 DEF HoldInv
  <2> QED  BY <1>6, <2>6, <2>7 DEF QuantInv
<1>10. CASE n # w
  <2>1. LastWeight(w)  BY <1>2, <1>5, <1>10, <1>w
  <2>2. w \in DOMAIN cache  BY <1>8, <2>1
  <2>3. DOMAIN cache' = {} /\ cache' = [x \in DOMAIN cache' |-> cache'[x]]
    <3>1. DOMAIN cache \ {w} = {}  BY <1>8, <2>1 DEF LastWeight
    <3>2. cache' = [x \in DOMAIN cache \ {w} |-> cache[x]]  BY <1>2, <1>10
    <3> QED  BY <3>1, <3>2
  <2>4. quantized' = quantized  BY <1>2, <2>2
  <2>5. CountInv'
    <3>1. \A i \in 1 .. l : i \in 1 .. l + 1  BY <1>5
    <3> QED  BY <1>1, <1>2, <1>4, <1>7, <2>4, <3>1 DEF CountInv
  <2>6. n \notin weights
    <3>1. n \in weights => WeightOf(n) = n  BY WeightName
    <3> QED  BY <1>10, <1>w, <3>1
  <2>7. HoldInv'
    <3>1. step' = "write" => \A x : ~LastWeight(x)'  BY <1>1, <1>2, <1>4, <2>6 DEF LastWeight
    <3>2. step' \in {"write", "done"} => step' = "write"  BY <1>4
    <3>3. step' # "done"  BY <1>4
    <3> QED  BY <2>3, <3>1, <3>2, <3>3 DEF HoldInv
  <2> QED  BY <1>6, <2>5, <2>7 DEF QuantInv
<1> QED  BY <1>9, <1>10
-----------------------------------------------------------------------------
(* Every step keeps the third invariant,                                   *)
LEMMA QuantNext == ConvertInv /\ NamingInv /\ QuantInv /\ [ConvertNext]_conversion => QuantInv'
<1> SUFFICES ASSUME ConvertInv, NamingInv, QuantInv, [ConvertNext]_conversion PROVE QuantInv'  OBVIOUS
<1>a. step \in Early => weights = {} /\ plan = <<>> /\ store = <<>> /\ cache = <<>> /\ quantized = <<>>
      BY DEF ConvertInv, StepInv
<1>1. CASE StartPipeline
  <2>1. /\ step = "resolve" /\ mode = "none" /\ mode' = mode /\ step' = "plan" /\ weights' = weights /\ plan' = plan
        /\ store' = store /\ cache' = cache /\ quantized' = quantized
        BY <1>1 DEF StartPipeline, Open, inputs
  <2> QED  BY <1>a, <2>1, QuantEarly DEF Early
<1>2. CASE ResolveDir
  <2>1. /\ step = "resolve" /\ step' = "v5" /\ weights' = weights /\ plan' = plan
        /\ store' = store /\ cache' = cache /\ quantized' = quantized
        BY <1>2 DEF ResolveDir, Open
  <2> QED  BY <1>a, <2>1, QuantEarly DEF Early
<1>3. CASE RefuseSource \/ PassRaises
  <2>1. Refuse  BY <1>3 DEF RefuseSource, PassRaises
  <2> QED  BY <2>1, QuantStays DEF Refuse, inputs, passes
<1>4. CASE ExpandV5 \/ ExpandGptOss \/ ExpandDbrx
  <2>1. PICK next : /\ step \in {"v5", "gpt_oss", "dbrx"} /\ step' = next /\ next \in {"gpt_oss", "dbrx", "plan", "prepare"}
                    /\ next = "plan" => mode = "none"
                    /\ mode' = mode /\ weights' = weights /\ plan' = plan /\ cache' = cache /\ quantized' = quantized
                    /\ store' = store
        BY <1>4 DEF ExpandV5, ExpandGptOss, ExpandDbrx, ExpandTo, inputs
  <2> QED  BY <1>a, <2>1, QuantEarly DEF Early
<1>7. CASE Prepare  BY <1>7, PrepareChooses
<1>8. CASE Plan  BY <1>8, PlanOrders
<1>9. CASE LoadRaw  BY <1>9, LoadRawHolds
<1>10. CASE LoadQuantized  BY <1>10, LoadQuantizedHolds
<1>11. CASE Publish
  <2>1. /\ root' = root /\ mode' = mode /\ at' = at /\ names' = names /\ virtual' = virtual /\ weights' = weights
        /\ plan' = plan /\ store' = store /\ cache' = cache /\ quantized' = quantized
        /\ step = "write" /\ step' = "done" /\ Len(store) = Len(plan)
        BY <1>11 DEF Publish, inputs, passes
  <2> QED  BY <2>1, QuantStays
<1>12. CASE UNCHANGED conversion
  <2>1. /\ root' = root /\ mode' = mode /\ at' = at /\ names' = names /\ virtual' = virtual /\ weights' = weights
        /\ plan' = plan /\ store' = store /\ cache' = cache /\ quantized' = quantized /\ step' = step
        BY <1>12 DEF conversion, inputs, passes
  <2> QED  BY <2>1, QuantStays
<1> QED  BY <1>1, <1>2, <1>3, <1>4, <1>7, <1>8, <1>9, <1>10, <1>11, <1>12 DEF ConvertNext

(* and it holds in every state:                                            *)
LEMMA QuantAlways == ConvertSpec => []QuantInv
<1>1. ConvertInit => QuantInv  BY QuantAtFirst
<1>2. ConvertInv /\ NamingInv /\ QuantInv /\ [ConvertNext]_conversion => QuantInv'  BY QuantNext
<1>3. ConvertSpec => []ConvertInv  BY ConversionInvariant
<1>4. ConvertSpec => []NamingInv  BY NamesCutWhole
<1> QED  BY <1>1, <1>2, <1>3, <1>4, PTL DEF ConvertSpec

(* so a quantizer never holds two weights nor any at the end, and          *)
(* quantizes none twice.                                                   *)
LEMMA HeldOne == ConvertInv /\ QuantInv => OneWeightHeld
<1> SUFFICES ASSUME ConvertInv, QuantInv PROVE OneWeightHeld  OBVIOUS
<1>1. HoldInv /\ CountInv /\ OrderInv  BY DEF QuantInv
<1>2. Cardinality(DOMAIN cache) <= 1
  <2>1. PICK w : DOMAIN cache \subseteq {w}  BY <1>1 DEF HoldInv
  <2>2. DOMAIN cache = {} \/ DOMAIN cache = {w}  BY <2>1
  <2>3. Cardinality({}) = 0 /\ Cardinality({w}) = 1  BY FS_EmptySet, FS_Singleton
  <2> QED  BY <2>2, <2>3
<1>3. step = "done" => cache = <<>>
  <2> SUFFICES ASSUME step = "done" PROVE cache = <<>>  OBVIOUS
  <2>1. PICK p \in Nat : p = Len(plan) /\ DOMAIN plan = 1 .. p  BY SeqEntries DEF ConvertInv, PlanInv
  <2>2. Len(store) = p  BY <1>1, <2>1 DEF HoldInv
  <2>3. \A w : ~LastWeight(w)
    <3> SUFFICES ASSUME NEW w, LastWeight(w) PROVE FALSE  OBVIOUS
    <3>1. p > 0 /\ w = plan[p].name /\ w \in weights  BY <2>2 DEF LastWeight
    <3>2. p \in DOMAIN plan  BY <2>1, <3>1
    <3>3. p + 1 \in DOMAIN plan  BY <1>1, <3>1, <3>2 DEF OrderInv, Behind
    <3> QED  BY <2>1, <3>3
  <2>4. DOMAIN cache = {}  BY <1>1, <2>3 DEF HoldInv
  <2>5. PICK c : c = cache  OBVIOUS
  <2>6. c = [w \in {} |-> c[w]]  BY <1>1, <2>4, <2>5 DEF HoldInv
  <2>7. c \in [1 .. 0 -> {}]  BY <2>6
  <2>8. c \in Seq({}) /\ Len(c) = 0  BY <2>7
  <2> QED  BY <2>5, <2>8
<1> QED  BY <1>1, <1>2, <1>3 DEF OneWeightHeld, CountInv

(* A quantizer holds one weight at most, none at the end, and quantizes    *)
(* none twice.                                                             *)
THEOREM WeightsHeldOneByOne == ConvertSpec => []OneWeightHeld
<1>1. ConvertInv /\ QuantInv => OneWeightHeld  BY HeldOne
<1> QED  BY <1>1, ConversionInvariant, QuantAlways, PTL
-----------------------------------------------------------------------------
(* The slot tables, as sets of fields.                                     *)
LEMMA TableFields ==
  /\ ToSet(SlotTable("mixtral")) = {"w1", "w2", "w3"} /\ ToSet(SlotTable("dbrx")) = {"w1", "v1", "w2"}
  /\ ToSet(SlotTable("gpt_oss")) = ToSet(PackedFields)
  /\ \A a \in {"qwen3", "glm"} : ToSet(SlotTable(a)) = {"gate_proj", "up_proj", "down_proj"}
  /\ \A a : SlotTable(a) # <<>> => a \in {"mixtral", "gpt_oss", "dbrx", "qwen3", "glm"}
<1>1. SlotTable("mixtral") = <<"w1", "w2", "w3">>  BY Zenon DEF SlotTable
<1>2. SlotTable("gpt_oss") = PackedFields
  <2>1. "gpt_oss" # "mixtral"  OBVIOUS
  <2> QED  BY <2>1, Zenon DEF SlotTable
<1>3. ASSUME NEW a \in {"qwen3", "glm"} PROVE SlotTable(a) = <<"gate_proj", "up_proj", "down_proj">>
  <2>1. a # "mixtral" /\ a # "gpt_oss" /\ a # "dbrx"  OBVIOUS
  <2> QED  BY <2>1, Zenon DEF SlotTable
<1>4. ASSUME NEW a, SlotTable(a) # <<>> PROVE a \in {"mixtral", "gpt_oss", "dbrx", "qwen3", "glm"}
  <2> SUFFICES ASSUME a # "mixtral", a # "gpt_oss", a # "dbrx", a \notin {"qwen3", "glm"} PROVE FALSE  OBVIOUS
  <2>1. SlotTable(a) = <<>>  BY Zenon DEF SlotTable
  <2> QED  BY <1>4, <2>1
<1>5. \A x, y, z : ToSet(<<x, y, z>>) = {x, y, z}
  <2> SUFFICES ASSUME NEW x, NEW y, NEW z PROVE ToSet(<<x, y, z>>) = {x, y, z}  OBVIOUS
  <2>1. PICK t : t = <<x, y, z>>  OBVIOUS
  <2>2. DOMAIN t = {1, 2, 3} /\ t[1] = x /\ t[2] = y /\ t[3] = z  BY <2>1
  <2>3. ToSet(t) = {x, y, z}  BY <2>2 DEF ToSet
  <2> QED  BY <2>1, <2>3
<1>6. ToSet(SlotTable("mixtral")) = {"w1", "w2", "w3"}  BY <1>1, <1>5
<1>7. ToSet(SlotTable("dbrx")) = {"w1", "v1", "w2"}  BY <1>5, DbrxTable
<1>8. \A a \in {"qwen3", "glm"} : ToSet(SlotTable(a)) = {"gate_proj", "up_proj", "down_proj"}  BY <1>3, <1>5
<1> QED  BY <1>2, <1>4, <1>6, <1>7, <1>8

(* In a family that has a slot table, every weight of an expert is in it,  *)
(* whether it was listed or cut from a fused tensor.                       *)
LEMMA WeightHasSlot ==
  ASSUME InputOK, NEW x, NEW v, x \in Listed \/ Virtual(x, v), x.expert \in Nat, x.aux = "weight",
         SlotTable(Conf(x).arch) # <<>>
  PROVE  x.field \in ToSet(SlotTable(Conf(x).arch))
<1>1. CASE x \in Listed
  <2>1. PICK t : t = Source(x)  OBVIOUS
  <2>2. t \in ToSet(Conf(x).tensors) /\ t.name = x /\ KnownFormat(Conf(x))  BY <1>1, <2>1, ListedSource
  <2> QED  BY <2>2 DEF KnownFormat
<1>2. CASE Virtual(x, v)
  <2>1. v.of \in Listed /\ x.at = v.of.at /\ v.kind \in {"v5", "renamed", "gpt_oss", "dbrx"}  BY <1>2, VirtualFields
  <2>2. PICK a : a = Conf(x).arch  OBVIOUS
  <2>3. Conf(v.of).arch = a  BY <2>1, <2>2 DEF Conf
  <2>4. a \in {"mixtral", "gpt_oss", "dbrx", "qwen3", "glm"}  BY <2>2, TableFields
  <2>5. CASE v.kind = "v5"
    <3>1. a # "gpt_oss" /\ a # "dbrx"  BY <1>2, <2>3, <2>5, FamilyOf
    <3>2. PartOf(v.of, v.part) /\ x.field = V5Field(v.of, v.part)  BY <1>2, <2>5, NoRouter
    <3>3. PICK s, part : s = v.of /\ part = v.part  OBVIOUS
    <3>4. part \in {"gate", "up", "down"}  BY <3>2, <3>3 DEF PartOf
    <3>5. CASE a = "mixtral"
      <4>1. Mixtral(s)  BY <2>3, <3>3, <3>5 DEF Mixtral
      <4>2. x.field \in {"w1", "w2", "w3"}  BY <3>2, <3>3, <3>4, <4>1, FieldIs
      <4> QED  BY <2>2, <3>5, <4>2, TableFields
    <3>6. CASE a # "mixtral"
      <4>1. ~Mixtral(s)  BY <2>3, <3>3, <3>6 DEF Mixtral
      <4>2. x.field \in {"gate_proj", "up_proj", "down_proj"}  BY <3>2, <3>3, <3>4, <4>1, FieldIs
      <4>3. a \in {"qwen3", "glm"}  BY <2>4, <3>1, <3>6
      <4> QED  BY <2>2, <4>2, <4>3, TableFields
    <3> QED  BY <3>5, <3>6
  <2>6. CASE v.kind = "renamed"
    <3>1. v.of.expert < 0  BY <1>2, <2>6, FamilyOf
    <3>2. v.of.expert = x.expert  BY <1>2, <2>6, RouterFields
    <3> QED  BY <3>1, <3>2
  <2>7. CASE v.kind = "gpt_oss"
    <3>1. a = "gpt_oss"  BY <1>2, <2>3, <2>7, FamilyOf
    <3>2. GptOssExpands(v.of)  BY <1>2, <2>7, KindIs DEF GptOssName
    <3>3. v.of.field \in ToSet(PackedFields)  BY <3>2 DEF GptOssExpands
    <3>4. x.field = v.of.field  BY <1>2, <2>7, VirtualFields
    <3> QED  BY <2>2, <3>1, <3>3, <3>4, TableFields
  <2>8. CASE v.kind = "dbrx"
    <3>1. a = "dbrx"  BY <1>2, <2>3, <2>8, FamilyOf
    <3>2. DbrxExpands(v.of)  BY <1>2, <2>8, KindIs DEF DbrxName
    <3>3. v.of.field \in {"w1", "v1", "w2"}  BY <3>2 DEF DbrxExpands
    <3>4. x.field = v.of.field  BY <1>2, <2>8, VirtualFields
    <3> QED  BY <2>2, <3>1, <3>3, <3>4, TableFields
  <2> QED  BY <2>1, <2>5, <2>6, <2>7, <2>8
<1> QED  BY <1>1, <1>2

(* A member has a rank when its field is in the table.                     *)
LEMMA SlotOf ==
  ASSUME NEW n, n.expert >= 0
  PROVE  Rank(n) # 0 <=> n.field \in ToSet(SlotTable(Conf(n).arch))
<1>1. PICK t, f : t = SlotTable(Conf(n).arch) /\ f = n.field  OBVIOUS
<1>2. Rank(n) = SlotIn(t, f)  BY <1>1 DEF Rank
<1>3. CASE f \notin ToSet(t)
  <2>1. SlotIn(t, f) = 0  BY <1>3 DEF SlotIn
  <2> QED  BY <1>1, <1>2, <1>3, <2>1
<1>4. CASE f \in ToSet(t)
  <2>1. \E r \in DOMAIN t : t[r] = f  BY <1>4 DEF ToSet
  <2>2. SlotIn(t, f) = CHOOSE r \in DOMAIN t : t[r] = f  BY <1>4 DEF SlotIn
  <2>3. SlotIn(t, f) \in DOMAIN t  BY <2>1, <2>2
  <2>4. IsSeq(t)  BY <1>1, SlotTableType
  <2>5. DOMAIN t = 1 .. Len(t) /\ Len(t) \in Nat  BY <2>4, SeqEntries
  <2>6. SlotIn(t, f) # 0  BY <2>3, <2>5
  <2> QED  BY <1>1, <1>2, <1>4, <2>6
<1> QED  BY <1>3, <1>4

(* So once a quantizer chose, it chose every weight of every expert.       *)
LEMMA EveryWeightChosen ==
  ASSUME ConvertInv, NamingInv, QuantInv, step = "done", mode # "none", NEW n \in ToSet(names),
         n.expert >= 0, n.aux = "weight"
  PROVE  n \in weights
<1>1. InputOK /\ \A x \in DOMAIN virtual : Virtual(x, virtual[x])  BY DEF ConvertInv, StepInv, NamesInv
<1>2. IsName(n) /\ n.expert \in Nat /\ n.at \in at
  <2>1. IsName(n) /\ n.expert \in Int /\ n.at \in at  BY NameType DEF ConvertInv
  <2> QED  BY <2>1
<1>3. PICK w : w \in weights  BY DEF QuantInv, ChosenInv
<1>4. PICK d : at = {d}  BY DEF QuantInv, ChosenInv
<1>5. w.at = n.at
  <2>1. w \in ToSet(names)  BY <1>3 DEF QuantInv, ChosenInv
  <2>2. w.at \in at  BY <2>1, NameType DEF ConvertInv
  <2> QED  BY <1>2, <1>4, <2>2
<1>6. ~Pipeline  BY <1>3 DEF ConvertInv, StepInv
<1>7. Quantizes(w)  BY <1>3 DEF ConvertInv, WeightsInv
<1>8. SlotTable(Conf(n).arch) # <<>>
  <2>1. w.expert >= 0 /\ Rank(w) # 0  BY <1>7 DEF Quantizes, IsExpert
  <2>2. w.field \in ToSet(SlotTable(Conf(w).arch))  BY <2>1, SlotOf
  <2>3. Conf(w) = Conf(n)  BY <1>5 DEF Conf
  <2>4. PICK t : t = SlotTable(Conf(n).arch)  OBVIOUS
  <2>5. w.field \in ToSet(t)  BY <2>2, <2>3, <2>4
  <2>6. t # <<>>
    <3> SUFFICES ASSUME t = <<>> PROVE FALSE  OBVIOUS
    <3>1. DOMAIN t = {}  OBVIOUS
    <3> QED  BY <2>5, <3>1 DEF ToSet
  <2> QED  BY <2>4, <2>6
<1>9. WeightOf(n) = n  BY <1>2, ScaleNames
<1>10. n \in weights \/ n \in Listed \/ n \in DOMAIN virtual  BY <1>9, KnownName
<1>11. ASSUME n \notin weights PROVE n.field \in ToSet(SlotTable(Conf(n).arch))
  <2>1. PICK v : v = virtual[n]  OBVIOUS
  <2>2. n \in Listed \/ Virtual(n, v)  BY <1>1, <1>10, <1>11, <2>1
  <2> QED  BY <1>1, <1>2, <1>8, <2>2, WeightHasSlot
<1>12. ASSUME n \notin weights PROVE Quantizes(n)
  <2>1. Rank(n) # 0  BY <1>11, <1>12, SlotOf
  <2> QED  BY <1>6, <2>1 DEF Quantizes, IsExpert
<1> QED  BY <1>12 DEF QuantInv, ChosenInv

(* and each is written quantized with its scale behind it.                 *)
LEMMA QuantizedPairs == ConvertInv /\ NamingInv /\ QuantInv => QuantizedWhole
<1> SUFFICES ASSUME ConvertInv, NamingInv, QuantInv, step = "done", mode # "none"
             PROVE  /\ \E i \in DOMAIN store : store[i].name.aux = ScaleAux
                    /\ \A i \in DOMAIN store : (store[i].name.expert >= 0 /\ store[i].name.aux = "weight") =>
                         /\ store[i].dtype = IF mode = "fp8" THEN "float8_e4m3fn" ELSE "uint8"
                         /\ i < Len(store) /\ store[i + 1].name = ScaleOf(store[i].name)
    BY DEF QuantizedWhole
<1>1. PICK p \in Nat : p = Len(plan) /\ DOMAIN plan = 1 .. p  BY SeqEntries DEF ConvertInv, PlanInv
<1>2. Len(store) = p /\ DOMAIN store = 1 .. p
  <2>1. Len(store) = p  BY <1>1 DEF QuantInv, HoldInv
  <2>2. DOMAIN store = 1 .. Len(store)  BY SeqEntries DEF ConvertInv, StoreInv
  <2> QED  BY <2>1, <2>2
<1>3. ASSUME NEW k \in DOMAIN store
      PROVE  /\ plan[k].name \in ToSet(names) /\ store[k].name = plan[k].name
             /\ store[k].dtype = Value(plan[k].name).dtype
  <2>1. PICK x, t : x = plan[k].name /\ t = Value(x)  OBVIOUS
  <2>2. x \in ToSet(names) /\ store[k] = [name |-> x, rows |-> t.rows, shape |-> t.shape, dtype |-> t.dtype]
        BY <2>1, StoredIs
  <2>3. store[k].name = x /\ store[k].dtype = t.dtype  BY <2>2
  <2> QED  BY <2>1, <2>2, <2>3
<1>4. ASSUME NEW k \in DOMAIN store, plan[k].name \in weights
      PROVE  k < p /\ store[k + 1].name = ScaleOf(plan[k].name)
  <2>1. k \in DOMAIN plan  BY <1>1, <1>2
  <2>2. k + 1 \in DOMAIN plan /\ plan[k + 1].name = ScaleOf(plan[k].name)
        BY <1>4, <2>1 DEF QuantInv, OrderInv, Behind
  <2>3. k + 1 \in DOMAIN store /\ k < p  BY <1>1, <1>2, <2>2
  <2> QED  BY <1>3, <2>2, <2>3
<1>5. \E i \in DOMAIN store : store[i].name.aux = ScaleAux
  <2>1. PICK w : w \in weights /\ w \in ToSet(names)  BY DEF QuantInv, ChosenInv
  <2>2. PICK k \in DOMAIN plan : plan[k].name = w  BY <2>1 DEF QuantInv, OrderInv
  <2>3. k \in DOMAIN store  BY <1>1, <1>2
  <2>4. k < p /\ store[k + 1].name = ScaleOf(w)  BY <1>4, <2>1, <2>2, <2>3
  <2>5. IsName(w) /\ w.aux = "weight"  BY <2>1, WeightName
  <2>6. ScaleOf(w).aux = ScaleAux  BY <2>5, ScaleNames
  <2>7. k + 1 \in DOMAIN store  BY <1>2, <2>3, <2>4
  <2> QED  BY <2>4, <2>6, <2>7
<1>6. ASSUME NEW i \in DOMAIN store, store[i].name.expert >= 0, store[i].name.aux = "weight"
      PROVE  /\ store[i].dtype = IF mode = "fp8" THEN "float8_e4m3fn" ELSE "uint8"
             /\ i < Len(store) /\ store[i + 1].name = ScaleOf(store[i].name)
  <2>1. PICK n : n = plan[i].name  OBVIOUS
  <2>2. n \in ToSet(names) /\ store[i].name = n /\ store[i].dtype = Value(n).dtype  BY <1>3, <2>1
  <2>3. n \in weights  BY <1>6, <2>2, EveryWeightChosen
  <2>4. i < p /\ store[i + 1].name = ScaleOf(n)  BY <1>4, <2>1, <2>3
  <2>5. WeightOf(n) = n /\ ~Pipeline  BY <2>3, WeightName DEF ConvertInv, StepInv
  <2>6. PICK t : t = RawLoad(n)  OBVIOUS
  <2>7. Value(n) = Quant(t).weight  BY <2>3, <2>5, <2>6 DEF Value
  <2>8. IsTensor(t)  BY <2>6, RawLoadTensor
  <2>9. /\ mode = "fp8" => Quant(t).weight.dtype = "float8_e4m3fn"
        /\ mode # "fp8" => Quant(t).weight.dtype = "uint8"
        BY <2>8, QuantIs
  <2>10. store[i].dtype = IF mode = "fp8" THEN "float8_e4m3fn" ELSE "uint8"  BY <2>2, <2>7, <2>9
  <2> QED  BY <1>2, <2>2, <2>4, <2>10
<1> QED  BY <1>5, <1>6

(* A store with quantized experts has every weight of every expert         *)
(* quantized, its scale right behind it, and at least one.                 *)
THEOREM ExpertsAllQuantized == ConvertSpec => []QuantizedWhole
<1>1. ConvertInv /\ NamingInv /\ QuantInv => QuantizedWhole  BY QuantizedPairs
<1>2. ConvertSpec => []NamingInv  BY NamesCutWhole
<1> QED  BY <1>1, <1>2, ConversionInvariant, QuantAlways, PTL
-----------------------------------------------------------------------------
(* The rows a name stands for: of the tensor it was cut from, where they   *)
(* start and how many they are.                                            *)
StartOf(n) == IF n \in DOMAIN virtual THEN FirstRow(virtual[n]) ELSE 0
CountOf(n) == IF n \in DOMAIN virtual THEN Rows(virtual[n]) ELSE RowCount(n)

(* They are what RawLoad returns,                                          *)
LEMMA RawSpan ==
  ASSUME InputOK, NEW n, n \in Listed \/ n \in DOMAIN virtual, n \in DOMAIN virtual => Virtual(n, virtual[n])
  PROVE  Span(RawLoad(n).rows, Origin(n), StartOf(n), CountOf(n)) /\ Origin(n) \in Listed
<1>1. CASE n \in DOMAIN virtual
  <2>1. PICK v : v = virtual[n]  OBVIOUS
  <2>2. Virtual(n, v)  BY <1>1, <2>1
  <2>3. Span(RawLoad(n).rows, v.of, FirstRow(v), Rows(v))  BY <1>1, <2>1, <2>2, VirtualRows
  <2>4. v.of \in Listed  BY <2>2, VirtualFields
  <2>5. Origin(n) = v.of /\ StartOf(n) = FirstRow(v) /\ CountOf(n) = Rows(v)
        BY <1>1, <2>1 DEF Origin, StartOf, CountOf
  <2> QED  BY <2>3, <2>4, <2>5
<1>2. CASE n \notin DOMAIN virtual
  <2>1. n \in Listed  BY <1>2
  <2>2. RawLoad(n) = SourceLoad(n)  BY <1>2 DEF RawLoad
  <2>3. Origin(n) = n /\ StartOf(n) = 0 /\ CountOf(n) = RowCount(n)  BY <1>2 DEF Origin, StartOf, CountOf
  <2> QED  BY <2>1, <2>2, <2>3, SourceSpan
<1> QED  BY <1>1, <1>2

(* and what is stored, quantized or not; a scale has none.                 *)
LEMMA StoredRows ==
  ASSUME ConvertInv, NamingInv, NEW i \in DOMAIN store, NEW n, n = plan[i].name, NEW r, r = store[i].rows
  PROVE  /\ (n \in Listed \/ n \in DOMAIN virtual) => Span(r, Origin(n), StartOf(n), CountOf(n)) /\ Origin(n) \in Listed
         /\ ~(n \in Listed \/ n \in DOMAIN virtual) => r = <<>>
<1>1. PICK t : t = Value(n)  OBVIOUS
<1>2. n \in ToSet(names) /\ r = t.rows
  <2>1. n \in ToSet(names) /\ store[i] = [name |-> n, rows |-> t.rows, shape |-> t.shape, dtype |-> t.dtype]
        BY <1>1, StoredIs
  <2> QED  BY <2>1
<1>3. InputOK /\ \A x \in DOMAIN virtual : Virtual(x, virtual[x])  BY DEF ConvertInv, StepInv, NamesInv
<1>4. PICK l : l = RawLoad(n)  OBVIOUS
<1>5. IsTensor(l)  BY <1>4, RawLoadTensor
<1>6. CASE Pipeline
  <2>1. t = SourceLoad(n)  BY <1>1, <1>6 DEF Value
  <2>2. virtual = <<>>  BY <1>6 DEF NamingInv, AloneInv
  <2>3. DOMAIN virtual = {}  BY <2>2
  <2>4. l = SourceLoad(n)  BY <1>4, <2>3 DEF RawLoad
  <2>5. weights = {}  BY <1>6 DEF ConvertInv, StepInv
  <2>6. n \in Listed \/ n \in DOMAIN virtual  BY <1>2, <2>5 DEF ConvertInv, NamesInv
  <2> QED  BY <1>2, <1>3, <1>4, <2>1, <2>4, <2>6, RawSpan
<1>7. CASE ~Pipeline /\ WeightOf(n) \notin weights
  <2>1. n \in Listed \/ n \in DOMAIN virtual  BY <1>2, <1>7, KnownName
  <2>2. t = Cast(n, l)  BY <1>1, <1>4, <1>7 DEF Value
  <2>3. t.rows = l.rows  BY <1>5, <2>2, CastIs
  <2> QED  BY <1>2, <1>3, <1>4, <2>1, <2>3, RawSpan
<1>8. CASE WeightOf(n) \in weights /\ n = WeightOf(n)
  <2>1. n \in Listed \/ n \in DOMAIN virtual  BY <1>8, WeightName
  <2>2. ~Pipeline  BY <1>8 DEF ConvertInv, StepInv
  <2>3. t = Quant(l).weight  BY <1>1, <1>4, <1>8, <2>2 DEF Value
  <2>4. t.rows = l.rows  BY <1>5, <2>3, QuantIs
  <2> QED  BY <1>2, <1>3, <1>4, <2>1, <2>4, RawSpan
<1>9. CASE WeightOf(n) \in weights /\ n # WeightOf(n)
  <2>1. PICK w : w = RawLoad(WeightOf(n))  OBVIOUS
  <2>2. ~Pipeline /\ mode # "none"  BY <1>9 DEF ConvertInv, StepInv
  <2>3. t = Quant(w).scale  BY <1>1, <1>9, <2>1, <2>2 DEF Value
  <2>4. IsTensor(w)  BY <2>1, RawLoadTensor
  <2>5. r = <<>>  BY <1>2, <2>3, <2>4, QuantIs
  <2>6. IsName(n)  BY <1>2, NameType DEF ConvertInv
  <2>7. n.aux = ScaleAux  BY <1>9, <2>6, ScaleNames
  <2>8. PICK v : v = virtual[n]  OBVIOUS
  <2>9. ~(n \in Listed \/ Virtual(n, v))  BY <1>3, <2>2, <2>7, NoScale DEF NamingInv
  <2> QED  BY <1>3, <2>5, <2>8, <2>9
<1> QED  BY <1>6, <1>7, <1>8, <1>9

(* Rows of an expert's slice: after those of the experts before it.        *)
LEMMA SliceOf ==
  ASSUME InputOK, NEW x, NEW v, Virtual(x, v), v.kind # "renamed"
  PROVE  \E k, e, a \in Nat :
           /\ k = Per(v) /\ e = v.expert /\ FirstRow(v) = e * k + a /\ Rows(v) \in Nat /\ a + Rows(v) <= k
           /\ e * k + k <= RowCount(v.of)
           /\ v.kind = "v5" /\ v.part = "gate" => a = 0 /\ Rows(v) = Up(k, 2)
           /\ v.kind = "v5" /\ v.part = "up" => a = Up(k, 2) /\ Rows(v) = k - Up(k, 2)
           /\ ~(v.kind = "v5" /\ v.part \in {"gate", "up"}) => a = 0 /\ Rows(v) = k
<1>1. v.of \in Listed  BY VirtualFields
<1>2. PICK l \in Nat : l = RowCount(v.of)  BY <1>1, SourceSpan
<1>3. PICK c \in Nat \ {0} : c = Cuts(v) /\ v.expert \in 0 .. c - 1  BY CutsType
<1>4. PICK e \in 0 .. c - 1 : e = v.expert  BY <1>3
<1>5. PICK k : k = l \div c  OBVIOUS
<1>6. k \in Nat /\ e * k \in Nat /\ e * k + k <= l  BY <1>5, PartBound
<1>7. Per(v) = k  BY <1>2, <1>3, <1>5 DEF Per
<1>8. PICK h \in Nat : h = Up(k, 2) /\ h <= k /\ k - h \in Nat  BY <1>6, UpHalf
<1>9. PICK a : a = IF v.kind = "v5" /\ v.part = "up" THEN h ELSE 0  OBVIOUS
<1>10. a \in Nat /\ e \in Nat  BY <1>8, <1>9
<1>11. FirstRow(v) = e * k + a  BY <1>4, <1>7, <1>8, <1>9 DEF FirstRow
<1>12. Rows(v) = IF v.kind = "v5" /\ v.part = "gate" THEN h ELSE IF v.kind = "v5" /\ v.part = "up" THEN k - h ELSE k
       BY <1>7, <1>8 DEF Rows
<1>13. Rows(v) \in Nat /\ a + Rows(v) <= k  BY <1>6, <1>8, <1>9, <1>12
<1> QED  BY <1>2, <1>4, <1>6, <1>7, <1>8, <1>9, <1>10, <1>11, <1>12, <1>13

(* No two names have a row in common,                                      *)
LEMMA RowsApart ==
  ASSUME InputOK, NEW x, NEW v, Virtual(x, v), NEW y, NEW u, Virtual(y, u), v.of = u.of,
         NEW j \in 1 .. Rows(v), NEW l \in 1 .. Rows(u), FirstRow(v) + j = FirstRow(u) + l
  PROVE  x = y /\ j = l
<1>0. v.kind = u.kind  BY SameTensor
<1>1. v.kind = u.kind /\ v.kind \in {"v5", "renamed", "gpt_oss", "dbrx"}  BY <1>0, VirtualFields
<1>2. CASE v.kind = "renamed"
  <2>1. FirstRow(v) = 0 /\ FirstRow(u) = 0 /\ Rows(v) = RowCount(v.of) /\ Rows(u) = Rows(v)
        BY <1>1, <1>2 DEF FirstRow, Rows
  <2>2. RenamedName(x, v) /\ RenamedName(y, u)  BY <1>1, <1>2, KindIs
  <2>3. x = y  BY <2>2 DEF RenamedName
  <2>4. v.of \in Listed  BY VirtualFields
  <2>5. RowCount(v.of) \in Nat  BY <2>4, SourceSpan
  <2>6. j \in Nat /\ l \in Nat  BY <2>1, <2>5
  <2>7. j = l  BY <2>1, <2>6
  <2> QED  BY <2>3, <2>7
<1>3. CASE v.kind # "renamed"
  <2>1. PICK k, e, a \in Nat :
           /\ k = Per(v) /\ e = v.expert /\ FirstRow(v) = e * k + a /\ Rows(v) \in Nat /\ a + Rows(v) <= k
           /\ e * k + k <= RowCount(v.of)
           /\ v.kind = "v5" /\ v.part = "gate" => a = 0 /\ Rows(v) = Up(k, 2)
           /\ v.kind = "v5" /\ v.part = "up" => a = Up(k, 2) /\ Rows(v) = k - Up(k, 2)
           /\ ~(v.kind = "v5" /\ v.part \in {"gate", "up"}) => a = 0 /\ Rows(v) = k
        BY <1>3, SliceOf
  <2>2. PICK K, f, b \in Nat :
           /\ K = Per(u) /\ f = u.expert /\ FirstRow(u) = f * K + b /\ Rows(u) \in Nat /\ b + Rows(u) <= K
           /\ f * K + K <= RowCount(u.of)
           /\ u.kind = "v5" /\ u.part = "gate" => b = 0 /\ Rows(u) = Up(K, 2)
           /\ u.kind = "v5" /\ u.part = "up" => b = Up(K, 2) /\ Rows(u) = K - Up(K, 2)
           /\ ~(u.kind = "v5" /\ u.part \in {"gate", "up"}) => b = 0 /\ Rows(u) = K
        BY <1>1, <1>3, SliceOf
  <2>3. K = k  BY <1>1, <2>1, <2>2 DEF Per, Cuts
  <2>4. PICK p, q \in 0 .. k - 1 : p = a + j - 1 /\ q = b + l - 1
    <3>1. a + j - 1 \in 0 .. k - 1  BY <2>1
    <3>2. b + l - 1 \in 0 .. k - 1  BY <2>2, <2>3
    <3> QED  BY <3>1, <3>2
  <2>5. k \in Nat \ {0}  BY <2>4
  <2>6. e * k + p = f * k + q
    <3>1. PICK ek, fk \in Nat : ek = e * k /\ fk = f * k  OBVIOUS
    <3>2. ek + a + j = fk + b + l  BY <2>1, <2>2, <2>3, <3>1
    <3>3. j \in Int /\ l \in Int  OBVIOUS
    <3>4. ek + p = fk + q  BY <2>4, <3>2, <3>3
    <3> QED  BY <3>1, <3>4
  <2>7. (e * k + p) \div k = e /\ (e * k + p) % k = p  BY <2>5, DivMod
  <2>8. (f * k + q) \div k = f /\ (f * k + q) % k = q  BY <2>5, DivMod
  <2>9. e = f /\ p = q  BY <2>6, <2>7, <2>8
  <2>10. v.kind = "v5" => v.part = u.part
    <3> SUFFICES ASSUME v.kind = "v5" PROVE v.part = u.part  OBVIOUS
    <3>1. PartOf(v.of, v.part) /\ PartOf(u.of, u.part)  BY <1>1, NoRouter
    <3>2. \/ v.part = u.part
          \/ v.part = "gate" /\ u.part = "up"
          \/ v.part = "up" /\ u.part = "gate"
          BY <3>1 DEF PartOf
    <3>3. PICK h \in Nat : h = Up(k, 2)  BY UpHalf
    <3>4. ~(v.part = "gate" /\ u.part = "up")
      <4> SUFFICES ASSUME v.part = "gate", u.part = "up" PROVE FALSE  OBVIOUS
      <4>1. a = 0 /\ Rows(v) = h /\ b = h  BY <1>1, <2>1, <2>2, <2>3, <3>3
      <4>2. p < h /\ q >= h  BY <2>4, <4>1
      <4> QED  BY <2>9, <4>2, <3>3
    <3>5. ~(v.part = "up" /\ u.part = "gate")
      <4> SUFFICES ASSUME v.part = "up", u.part = "gate" PROVE FALSE  OBVIOUS
      <4>1. b = 0 /\ Rows(u) = h /\ a = h  BY <1>1, <2>1, <2>2, <2>3, <3>3
      <4>2. q < h /\ p >= h  BY <2>4, <4>1
      <4> QED  BY <2>9, <4>2, <3>3
    <3> QED  BY <3>2, <3>4, <3>5
  <2>11. a = b  BY <1>1, <2>1, <2>2, <2>3, <2>10
  <2>12. j = l
    <3>1. j \in Int /\ l \in Int  OBVIOUS
    <3> QED  BY <2>4, <2>9, <2>11, <3>1
  <2>13. x = y
    <3>1. v.expert = u.expert  BY <2>1, <2>2, <2>9
    <3>2. CASE v.kind = "v5"
      <4>1. V5Name(x, v) /\ V5Name(y, u)  BY <1>1, <3>2, KindIs
      <4>2. x = V5Member(v.of, v.expert, v.part) /\ y = V5Member(u.of, u.expert, u.part)  BY <4>1 DEF V5Name
      <4> QED  BY <2>10, <3>1, <3>2, <4>2
    <3>3. CASE v.kind = "gpt_oss"
      <4>1. GptOssName(x, v) /\ GptOssName(y, u)  BY <1>1, <3>3, KindIs
      <4> QED  BY <3>1, <4>1 DEF GptOssName
    <3>4. CASE v.kind = "dbrx"
      <4>1. DbrxName(x, v) /\ DbrxName(y, u)  BY <1>1, <3>4, KindIs
      <4> QED  BY <3>1, <4>1 DEF DbrxName
    <3> QED  BY <1>1, <1>3, <3>2, <3>3, <3>4
  <2> QED  BY <2>12, <2>13
<1> QED  BY <1>2, <1>3
-----------------------------------------------------------------------------
(* A number that divides the first dimension divides the product.          *)
LEMMA ProdDivides ==
  ASSUME NEW s \in Seq(Nat), Len(s) > 0, NEW c \in Nat, Multiple(c, s[1])
  PROVE  Multiple(c, Prod(s))
<1>1. PICK f : Products(s, Len(s), f)  BY ProductsExist
<1>2. Prod(s) = f[Len(s)]  BY <1>1, ProdIs
<1>3. PICK n \in Nat \ {0} : n = Len(s)  OBVIOUS
<1> DEFINE T == {i \in Nat : i + 1 <= n => Multiple(c, f[i + 1])}
<1>4. 0 \in T
  <2>1. 1 \in 1 .. n  BY <1>3
  <2>2. f[1] = f[1 - 1] * s[1] /\ f[0] = 1  BY <1>1, <1>3, <2>1 DEF Products
  <2>3. f[1] = s[1]
    <3>1. f[1] = 1 * s[1]  BY <2>2
    <3>2. s[1] \in Nat  BY <1>3, <2>1
    <3> QED  BY <3>1, <3>2
  <2>4. Multiple(c, f[1]) /\ 0 + 1 = 1  BY <2>3
  <2> QED  BY <2>4
<1>5. ASSUME NEW i \in Nat, i \in T PROVE i + 1 \in T
  <2> SUFFICES ASSUME i + 2 <= n PROVE Multiple(c, f[i + 2])
    <3>1. i + 1 + 1 = i + 2  OBVIOUS
    <3> QED  BY <3>1
  <2>1. PICK q \in Nat : f[i + 1] = c * q
    <3>1. i + 1 <= n  OBVIOUS
    <3> QED  BY <1>5, <3>1 DEF Multiple
  <2>2. i + 2 \in 1 .. n /\ i + 2 - 1 = i + 1  OBVIOUS
  <2>3. PICK d \in Nat : d = s[i + 2]  BY <1>3, <2>2
  <2>4. f[i + 2] = (c * q) * d  BY <1>1, <1>3, <2>1, <2>2, <2>3 DEF Products
  <2>5. q * d \in Nat /\ (c * q) * d = c * (q * d)  OBVIOUS
  <2>6. PICK r \in Nat : r = q * d /\ (c * q) * d = c * r  BY <2>5
  <2> QED  BY <2>4, <2>6 DEF Multiple
<1> HIDE DEF T
<1>6. \A i \in Nat : i \in T  BY <1>4, <1>5, InductionOnSet
<1>7. n - 1 \in Nat /\ n - 1 + 1 = n  BY <1>3
<1>8. PICK h \in Nat : h = n - 1  BY <1>7
<1>9. h + 1 = n /\ h \in T  BY <1>6, <1>7, <1>8
<1>10. Multiple(c, f[h + 1])  BY <1>9 DEF T
<1> QED  BY <1>2, <1>3, <1>9, <1>10

(* An expansion leaves no row over: its parts are equal.                   *)
LEMMA NothingOver ==
  ASSUME InputOK, NEW x, NEW v, Virtual(x, v), v.kind # "renamed"
  PROVE  Cuts(v) * Per(v) = RowCount(v.of)
<1>1. v.of \in Listed /\ v.kind \in {"v5", "renamed", "gpt_oss", "dbrx"}  BY VirtualFields
<1>2. PICK s \in Seq(Nat \ {0}) : s = Source(v.of).shape  BY <1>1, ListedName
<1>3. v.of.expert = Fused  BY <1>1, VirtualFused
<1>4. Len(s) > 1  BY <1>1, <1>2, <1>3, ListedName
<1>5. PICK c \in Nat \ {0} : c = Cuts(v)  BY CutsType
<1>6. s[1] \in Nat /\ s \in Seq(Nat) /\ Len(s) \in Nat  BY <1>4, Dimension
<1>7. Multiple(c, s[1])
  <2>1. CASE v.kind = "v5"
    <3>1. c = s[1]  BY <1>2, <1>5, <2>1 DEF Cuts
    <3>2. s[1] = c * 1  BY <1>6, <3>1
    <3> QED  BY <3>2 DEF Multiple
  <2>2. CASE v.kind = "gpt_oss"
    <3>1. GptOssName(x, v)  BY <2>2, KindIs
    <3>2. c = Conf(v.of).experts  BY <1>5, <2>2 DEF Cuts
    <3>3. s[1] = c  BY <1>2, <3>1, <3>2 DEF GptOssName
    <3>4. s[1] = c * 1  BY <1>6, <3>3
    <3> QED  BY <3>4 DEF Multiple
  <2>3. CASE v.kind = "dbrx"
    <3>1. DbrxName(x, v)  BY <2>3, KindIs
    <3>2. c = Conf(v.of).experts  BY <1>5, <2>3 DEF Cuts
    <3>3. s[1] % c = 0  BY <1>2, <3>1, <3>2 DEF DbrxName
    <3>4. PICK d \in Nat : d = s[1]  BY <1>6
    <3>5. d \div c \in Nat /\ d = c * (d \div c) + (d % c)  BY QuotientOf
    <3>6. d = c * (d \div c)  BY <3>3, <3>4, <3>5
    <3> QED  BY <3>4, <3>5, <3>6 DEF Multiple
  <2> QED  BY <1>1, <2>1, <2>2, <2>3
<1>8. PICK f : f = Front(s)  OBVIOUS
<1>9. f \in Seq(Nat) /\ Len(f) > 0 /\ f[1] = s[1]
  <2>1. f = SubSeq(s, 1, Len(s) - 1)  BY <1>8 DEF Front
  <2>2. PICK h \in Nat : h = Len(s) - 1 /\ h >= 1 /\ h <= Len(s)
    <3>1. PICK n \in Nat : n = Len(s) /\ n > 1  BY <1>4, <1>6
    <3>2. n - 1 \in Nat /\ n - 1 >= 1 /\ n - 1 <= n  BY <3>1
    <3> QED  BY <3>1, <3>2
  <2>3. \A i \in 1 .. h : s[i] \in Nat  BY <1>6, <2>2
  <2>4. /\ SubSeq(s, 1, h) \in Seq(Nat)
        /\ Len(SubSeq(s, 1, h)) = IF 1 <= h THEN h - 1 + 1 ELSE 0
        /\ \A i \in 1 .. h - 1 + 1 : SubSeq(s, 1, h)[i] = s[1 + i - 1]
        BY <2>2, <2>3, SubSeqProperties
  <2>5. 1 \in 1 .. h - 1 + 1 /\ 1 + 1 - 1 = 1  BY <2>2
  <2>6. SubSeq(s, 1, h)[1] = s[1]  BY <2>4, <2>5
  <2> QED  BY <2>1, <2>2, <2>4, <2>6
<1>10. Multiple(c, f[1])  BY <1>7, <1>9
<1>11. PICK q \in Nat : Prod(f) = c * q  BY <1>9, <1>10, ProdDivides DEF Multiple
<1>12. RowCount(v.of) = c * q  BY <1>2, <1>8, <1>11 DEF RowCount
<1>13. Per(v) = q  BY <1>5, <1>12, DivProduct DEF Per
<1> QED  BY <1>5, <1>12, <1>13

(* Every row of a tensor that is cut is in one of its parts.               *)
LEMMA RowInPart ==
  ASSUME InputOK, NEW y, NEW w, Virtual(y, w), NEW s, s = w.of, NEW i \in 1 .. RowCount(s)
  PROVE  \E x, v : Virtual(x, v) /\ v.of = s /\ \E j \in 1 .. Rows(v) : FirstRow(v) + j = i
<1>1. s \in Listed /\ w.kind \in {"v5", "renamed", "gpt_oss", "dbrx"}  BY VirtualFields
<1>2. PICK l \in Nat : l = RowCount(s)  BY <1>1, SourceSpan
<1>3. CASE w.kind = "renamed"
  <2>1. FirstRow(w) = 0 /\ Rows(w) = RowCount(s)  BY <1>3 DEF FirstRow, Rows
  <2>2. i \in Nat /\ 0 + i = i  BY <1>2
  <2>3. FirstRow(w) + i = i  BY <2>1, <2>2
  <2> QED  BY <2>1, <2>3
<1>4. CASE w.kind # "renamed"
  <2>1. PICK c \in Nat \ {0} : c = Cuts(w)  BY <1>4, CutsType
  <2>2. PICK k \in Nat : k = Per(w)  BY <1>4, CutsType
  <2>3. c * k = l  BY <1>2, <1>4, <2>1, <2>2, NothingOver
  <2>4. k # 0
    <3> SUFFICES ASSUME k = 0 PROVE FALSE  OBVIOUS
    <3>1. l = 0  BY <2>3
    <3> QED  BY <1>2, <3>1
  <2>5. PICK e \in Nat, p \in 0 .. k - 1 : i - 1 = e * k + p
    <3>1. PICK z \in Nat : z = i - 1  BY <1>2
    <3>2. z \div k \in Nat /\ z % k \in 0 .. k - 1 /\ z = k * (z \div k) + (z % k)  BY <2>4, <3>1
    <3>3. PICK e \in Nat, p \in 0 .. k - 1 : e = z \div k /\ p = z % k  BY <3>2
    <3>4. z = e * k + p  BY <3>2, <3>3
    <3> QED  BY <3>1, <3>4
  <2>6. e \in 0 .. c - 1
    <3> SUFFICES ASSUME e >= c PROVE FALSE  OBVIOUS
    <3>1. PICK d \in Nat : e = c + d
      <4>1. e - c \in Nat /\ e = c + (e - c)  OBVIOUS
      <4> QED  BY <4>1
    <3>2. e * k = c * k + d * k /\ d * k \in Nat  BY <3>1
    <3>3. PICK dk, ek \in Nat : dk = d * k /\ ek = e * k  BY <3>2
    <3>4. ek = l + dk  BY <2>3, <3>2, <3>3
    <3>5. i - 1 = ek + p  BY <2>5, <3>3
    <3> QED  BY <1>2, <3>4, <3>5
  <2>7. \E x, v : /\ Virtual(x, v) /\ v.of = s /\ v.kind = w.kind /\ v.expert = e
                  /\ v.kind = "v5" => v.part = (IF w.part = "down" THEN "down" ELSE IF p < Up(k, 2) THEN "gate" ELSE "up")
    <3>1. CASE w.kind = "v5"
      <4>1. V5Name(y, w)  BY <3>1, KindIs
      <4>2. PICK part : part = IF w.part = "down" THEN "down" ELSE IF p < Up(k, 2) THEN "gate" ELSE "up"  OBVIOUS
      <4>3. PICK x : x = V5Member(s, e, part)  OBVIOUS
      <4>4. PICK v : v = [kind |-> "v5", of |-> s, expert |-> e, part |-> part]  OBVIOUS
      <4>5. v.kind = "v5" /\ v.of = s /\ v.expert = e /\ v.part = part  BY <4>4
      <4>6. PartOf(s, part)  BY <4>1, <4>2 DEF V5Name, PartOf
      <4>7. c = Source(s).shape[1]  BY <2>1, <3>1 DEF Cuts
      <4>8. V5Name(x, v)  BY <1>1, <2>6, <4>1, <4>3, <4>5, <4>6, <4>7 DEF V5Name
      <4>9. Virtual(x, v)  BY <4>8 DEF Virtual
      <4> QED  BY <3>1, <4>2, <4>5, <4>9
    <3>2. CASE w.kind = "gpt_oss"
      <4>1. GptOssName(y, w)  BY <3>2, KindIs
      <4>2. PICK x : x = [s EXCEPT !.expert = e]  OBVIOUS
      <4>3. PICK v : v = [kind |-> "gpt_oss", of |-> s, expert |-> e, part |-> ""]  OBVIOUS
      <4>4. v.kind = "gpt_oss" /\ v.of = s /\ v.expert = e  BY <4>3
      <4>5. c = Conf(s).experts  BY <2>1, <3>2 DEF Cuts
      <4>6. GptOssName(x, v)  BY <1>1, <2>6, <4>1, <4>2, <4>4, <4>5 DEF GptOssName
      <4>7. Virtual(x, v)  BY <4>6 DEF Virtual
      <4> QED  BY <3>2, <4>4, <4>7
    <3>3. CASE w.kind = "dbrx"
      <4>1. DbrxName(y, w)  BY <3>3, KindIs
      <4>2. PICK x : x = [s EXCEPT !.expert = e]  OBVIOUS
      <4>3. PICK v : v = [kind |-> "dbrx", of |-> s, expert |-> e, part |-> ""]  OBVIOUS
      <4>4. v.kind = "dbrx" /\ v.of = s /\ v.expert = e  BY <4>3
      <4>5. c = Conf(s).experts  BY <2>1, <3>3 DEF Cuts
      <4>6. DbrxName(x, v)  BY <1>1, <2>6, <4>1, <4>2, <4>4, <4>5 DEF DbrxName
      <4>7. Virtual(x, v)  BY <4>6 DEF Virtual
      <4> QED  BY <3>3, <4>4, <4>7
    <3> QED  BY <1>1, <1>4, <3>1, <3>2, <3>3
  <2>8. PICK x, v : /\ Virtual(x, v) /\ v.of = s /\ v.kind = w.kind /\ v.expert = e
                    /\ v.kind = "v5" => v.part = (IF w.part = "down" THEN "down" ELSE IF p < Up(k, 2) THEN "gate" ELSE "up")
        BY <2>7
  <2>9. Per(v) = k  BY <2>2, <2>8 DEF Per, Cuts
  <2>10. PICK K, f, a \in Nat :
           /\ K = Per(v) /\ f = v.expert /\ FirstRow(v) = f * K + a /\ Rows(v) \in Nat /\ a + Rows(v) <= K
           /\ f * K + K <= RowCount(v.of)
           /\ v.kind = "v5" /\ v.part = "gate" => a = 0 /\ Rows(v) = Up(K, 2)
           /\ v.kind = "v5" /\ v.part = "up" => a = Up(K, 2) /\ Rows(v) = K - Up(K, 2)
           /\ ~(v.kind = "v5" /\ v.part \in {"gate", "up"}) => a = 0 /\ Rows(v) = K
        BY <1>4, <2>8, SliceOf
  <2>11. K = k /\ f = e  BY <2>8, <2>9, <2>10
  <2>12. PICK h \in Nat : h = Up(k, 2)  BY UpHalf
  <2>13. a <= p /\ p < a + Rows(v)
    <3>1. CASE v.kind # "v5"  BY <2>10, <2>11, <3>1
    <3>2. CASE v.kind = "v5" /\ v.part = "down"  BY <2>10, <2>11, <3>2
    <3>3. CASE v.kind = "v5" /\ v.part = "gate"
      <4>1. p < h  BY <2>8, <2>12, <3>3
      <4>2. a = 0 /\ Rows(v) = h  BY <2>10, <2>11, <2>12, <3>3
      <4> QED  BY <4>1, <4>2
    <3>4. CASE v.kind = "v5" /\ v.part = "up"
      <4>1. ~(p < h)  BY <2>8, <2>12, <3>4
      <4>2. a = h /\ Rows(v) = k - h  BY <2>10, <2>11, <2>12, <3>4
      <4> QED  BY <2>12, <4>1, <4>2
    <3> QED  BY <2>8, <3>1, <3>2, <3>3, <3>4
  <2>14. PICK j \in 1 .. Rows(v) : j = p - a + 1
    <3>1. p - a + 1 \in 1 .. Rows(v)  BY <2>10, <2>13
    <3> QED  BY <3>1
  <2>15. FirstRow(v) + j = i
    <3>1. PICK ek \in Nat : ek = e * k  OBVIOUS
    <3>2. FirstRow(v) = ek + a /\ i - 1 = ek + p  BY <2>5, <2>10, <2>11, <3>1
    <3>3. i \in Int  OBVIOUS
    <3> QED  BY <2>14, <3>1, <3>2, <3>3
  <2> QED  BY <2>8, <2>14, <2>15
<1> QED  BY <1>3, <1>4
-----------------------------------------------------------------------------
(* A part's rows are the same however it is described.                     *)
LEMMA SameRows ==
  ASSUME InputOK, NEW x, NEW v, Virtual(x, v), NEW u, Virtual(x, u)
  PROVE  v.of = u.of /\ FirstRow(v) = FirstRow(u) /\ Rows(v) = Rows(u)
<1>1. v.of = u.of /\ v.kind = u.kind  BY VirtualUnique
<1>2. v.kind # "renamed" => v.expert = u.expert  BY VirtualUnique
<1>3. v.kind = "v5" => v.part = u.part  BY VirtualUnique
<1>4. Per(v) = Per(u)  BY <1>1 DEF Per, Cuts
<1>5. FirstRow(v) = FirstRow(u)  BY <1>1, <1>2, <1>3, <1>4 DEF FirstRow
<1>6. Rows(v) = Rows(u)  BY <1>1, <1>3, <1>4 DEF Rows
<1> QED  BY <1>1, <1>5, <1>6

(* Two names with a row in common are one.                                 *)
LEMMA NamesApart ==
  ASSUME ConvertInv, NamingInv, NEW n \in ToSet(names), NEW m \in ToSet(names),
         n \in Listed \/ n \in DOMAIN virtual, m \in Listed \/ m \in DOMAIN virtual, Origin(n) = Origin(m),
         NEW j \in 1 .. CountOf(n), NEW l \in 1 .. CountOf(m), StartOf(n) + j = StartOf(m) + l
  PROVE  n = m /\ j = l
<1>1. InputOK /\ \A x \in DOMAIN virtual : Virtual(x, virtual[x])  BY DEF ConvertInv, StepInv, NamesInv
<1>2. \A y \in DOMAIN virtual : virtual[y].of \notin ToSet(names)  BY DEF NamingInv, GoneInv
<1>3. CASE n \in DOMAIN virtual /\ m \in DOMAIN virtual
  <2>1. PICK v, u : v = virtual[n] /\ u = virtual[m]  OBVIOUS
  <2>2. Virtual(n, v) /\ Virtual(m, u)  BY <1>1, <1>3, <2>1
  <2>3. v.of = u.of /\ j \in 1 .. Rows(v) /\ l \in 1 .. Rows(u) /\ FirstRow(v) + j = FirstRow(u) + l
        BY <1>3, <2>1 DEF Origin, CountOf, StartOf
  <2> QED  BY <1>1, <2>2, <2>3, RowsApart
<1>4. CASE n \notin DOMAIN virtual /\ m \notin DOMAIN virtual
  <2>1. n = m /\ StartOf(n) = 0 /\ StartOf(m) = 0  BY <1>4 DEF Origin, StartOf
  <2>2. n \in Listed /\ CountOf(n) = RowCount(n)  BY <1>4 DEF CountOf
  <2>3. RowCount(n) \in Nat  BY <1>1, <2>2, SourceSpan
  <2>4. j \in Nat /\ l \in Nat  BY <2>1, <2>2, <2>3
  <2>5. j = l  BY <2>1, <2>4
  <2> QED  BY <2>1, <2>5
<1>5. ~(n \in DOMAIN virtual /\ m \notin DOMAIN virtual)  BY <1>2 DEF Origin
<1>6. ~(n \notin DOMAIN virtual /\ m \in DOMAIN virtual)  BY <1>2 DEF Origin
<1> QED  BY <1>3, <1>4, <1>5, <1>6

(* Every row of the checkpoint is of a name there is.                      *)
LEMMA RowHasName ==
  ASSUME ConvertInv, NamingInv, NEW s \in Listed, NEW i \in 1 .. RowCount(s)
  PROVE  \E n \in ToSet(names) : /\ n \in Listed \/ n \in DOMAIN virtual
                                 /\ Origin(n) = s /\ \E j \in 1 .. CountOf(n) : StartOf(n) + j = i
<1>1. InputOK /\ \A x \in DOMAIN virtual : Virtual(x, virtual[x])  BY DEF ConvertInv, StepInv, NamesInv
<1>2. Held(s)  BY DEF NamingInv, HeldInv
<1>3. CASE s \in ToSet(names)
  <2>1. s \notin DOMAIN virtual
    <3>1. PICK v : v = virtual[s]  OBVIOUS
    <3>2. ~Virtual(s, v)  BY <1>1, VirtualNotListed
    <3> QED  BY <1>1, <3>1, <3>2
  <2>2. Origin(s) = s /\ CountOf(s) = RowCount(s) /\ StartOf(s) = 0  BY <2>1 DEF Origin, CountOf, StartOf
  <2>3. RowCount(s) \in Nat  BY <1>1, SourceSpan
  <2>4. i \in Nat  BY <2>3
  <2>5. StartOf(s) + i = i  BY <2>2, <2>4
  <2> QED  BY <1>3, <2>2, <2>5
<1>4. CASE Cut(s) /\ \A x, v : Virtual(x, v) /\ v.of = s => x \in ToSet(names) /\ x \in DOMAIN virtual
  <2>1. PICK y \in DOMAIN virtual : virtual[y].of = s  BY <1>4 DEF Cut
  <2>2. PICK w : w = virtual[y]  OBVIOUS
  <2>3. Virtual(y, w) /\ s = w.of  BY <1>1, <2>1, <2>2
  <2>4. PICK x, v : Virtual(x, v) /\ v.of = s /\ \E j \in 1 .. Rows(v) : FirstRow(v) + j = i
        BY <1>1, <2>3, RowInPart
  <2>5. x \in ToSet(names) /\ x \in DOMAIN virtual  BY <1>4, <2>4
  <2>6. PICK u : u = virtual[x]  OBVIOUS
  <2>7. Virtual(x, u)  BY <1>1, <2>5, <2>6
  <2>8. u.of = s /\ FirstRow(u) = FirstRow(v) /\ Rows(u) = Rows(v)  BY <1>1, <2>4, <2>7, SameRows
  <2>9. Origin(x) = s /\ CountOf(x) = Rows(v) /\ StartOf(x) = FirstRow(v)
        BY <2>5, <2>6, <2>8 DEF Origin, CountOf, StartOf
  <2> QED  BY <2>4, <2>5, <2>9
<1> QED  BY <1>2, <1>3, <1>4 DEF Held

(* The rows a name stands for are of the checkpoint.                       *)
LEMMA RowsWithin ==
  ASSUME ConvertInv, NEW n, n \in Listed \/ n \in DOMAIN virtual, NEW j \in 1 .. CountOf(n)
  PROVE  Origin(n) \in Listed /\ StartOf(n) + j \in 1 .. RowCount(Origin(n))
<1>1. InputOK /\ \A x \in DOMAIN virtual : Virtual(x, virtual[x])  BY DEF ConvertInv, StepInv, NamesInv
<1>2. Origin(n) \in Listed  BY <1>1, RawSpan
<1>3. PICK l \in Nat : l = RowCount(Origin(n))  BY <1>1, <1>2, SourceSpan
<1>4. CASE n \in DOMAIN virtual
  <2>1. PICK v : v = virtual[n]  OBVIOUS
  <2>2. Virtual(n, v) /\ Origin(n) = v.of /\ CountOf(n) = Rows(v) /\ StartOf(n) = FirstRow(v)
        BY <1>1, <1>4, <2>1 DEF Origin, CountOf, StartOf
  <2>3. CASE v.kind = "renamed"
    <3>1. FirstRow(v) = 0 /\ Rows(v) = l  BY <1>3, <2>2, <2>3 DEF FirstRow, Rows
    <3>2. j \in 1 .. l /\ StartOf(n) = 0  BY <2>2, <3>1
    <3> QED  BY <1>2, <1>3, <3>2
  <2>4. CASE v.kind # "renamed"
    <3>1. PICK k, e, a \in Nat : /\ FirstRow(v) = e * k + a /\ Rows(v) \in Nat /\ a + Rows(v) <= k
                                 /\ e * k + k <= RowCount(v.of)
          BY <1>1, <2>2, <2>4, SliceOf
    <3>2. PICK ek \in Nat : ek = e * k  OBVIOUS
    <3>3. StartOf(n) = ek + a /\ j \in 1 .. Rows(v) /\ ek + k <= l  BY <1>3, <2>2, <3>1, <3>2
    <3>4. StartOf(n) + j \in 1 .. l  BY <3>1, <3>3
    <3> QED  BY <1>2, <1>3, <3>4
  <2> QED  BY <2>3, <2>4
<1>5. CASE n \notin DOMAIN virtual
  <2>1. Origin(n) = n /\ CountOf(n) = RowCount(n) /\ StartOf(n) = 0  BY <1>5 DEF Origin, CountOf, StartOf
  <2>2. j \in 1 .. l /\ StartOf(n) = 0  BY <1>3, <2>1
  <2> QED  BY <1>2, <1>3, <2>2
<1> QED  BY <1>4, <1>5

(* What a member stored under a name has for rows.                         *)
RowsOf(n, r) ==
  /\ n \in ToSet(names) /\ IsSeq(r)
  /\ (n \in Listed \/ n \in DOMAIN virtual) => Span(r, Origin(n), StartOf(n), CountOf(n))
  /\ \A j \in DOMAIN r : /\ n \in Listed \/ n \in DOMAIN virtual
                        /\ j \in 1 .. CountOf(n) /\ r[j] = <<Origin(n), StartOf(n) + j>>

(* The finished store has every row of the checkpoint, and has it once.    *)
LEMMA RowsOnce == ConvertInv /\ NamingInv /\ QuantInv => RowsStoredOnce
<1> SUFFICES ASSUME ConvertInv, NamingInv, QuantInv, step = "done",
                    NEW lists, lists = [i \in DOMAIN store |-> store[i].rows], NEW F, F = FlattenSeq(lists),
                    NEW from, from = UNION {LET t == SourceLoad(n) IN ToSet(t.rows) :
                                       n \in UNION {{t.name : t \in ToSet(root.dirs[d].tensors)} : d \in at}}
             PROVE  IsInjective(F) /\ ToSet(F) = from
    BY DEF RowsStoredOnce
<1>1. PICK p \in Nat : p = Len(plan) /\ DOMAIN plan = 1 .. p /\ DOMAIN store = 1 .. p
  <2>1. PICK p \in Nat : p = Len(plan) /\ DOMAIN plan = 1 .. p  BY SeqEntries DEF ConvertInv, PlanInv
  <2>2. Len(store) = p  BY <2>1 DEF QuantInv, HoldInv
  <2>3. DOMAIN store = 1 .. Len(store)  BY SeqEntries DEF ConvertInv, StoreInv
  <2> QED  BY <2>1, <2>2, <2>3
<1>2. DOMAIN lists = 1 .. p /\ lists = [i \in 1 .. p |-> lists[i]]  BY <1>1
<1>3. InputOK  BY DEF ConvertInv, StepInv
<1>4. ASSUME NEW i \in DOMAIN lists, NEW n, n = plan[i].name, NEW r, r = lists[i]
      PROVE  RowsOf(n, r)
  <2>1. i \in DOMAIN store /\ i \in DOMAIN plan /\ r = store[i].rows  BY <1>1, <1>2, <1>4
  <2>2. n \in ToSet(names)  BY <1>4, <2>1 DEF ConvertInv, PlanInv
  <2>3. /\ (n \in Listed \/ n \in DOMAIN virtual) => Span(r, Origin(n), StartOf(n), CountOf(n))
        /\ ~(n \in Listed \/ n \in DOMAIN virtual) => r = <<>>
        BY <1>4, <2>1, StoredRows
  <2>4. CASE n \in Listed \/ n \in DOMAIN virtual
    <3>1. PICK a, b, o : a = StartOf(n) /\ b = CountOf(n) /\ o = Origin(n)  OBVIOUS
    <3>2. b \in Nat /\ IsSeq(r) /\ Len(r) = b /\ \A j \in 1 .. b : r[j] = <<o, a + j>>
          BY <2>3, <2>4, <3>1 DEF Span
    <3>3. DOMAIN r = 1 .. b  BY <3>2, SeqEntries
    <3> QED  BY <2>2, <2>3, <2>4, <3>1, <3>2, <3>3 DEF RowsOf
  <2>5. CASE ~(n \in Listed \/ n \in DOMAIN virtual)
    <3>1. r = <<>>  BY <2>3, <2>5
    <3>2. DOMAIN r = {}  BY <3>1
    <3>3. r \in Seq({})  BY <3>1
    <3>4. IsSeq(r)  BY <3>3, IsSeqOver
    <3> QED  BY <2>2, <2>5, <3>2, <3>4 DEF RowsOf
  <2> QED  BY <2>4, <2>5
<1>5. IsSeqs(lists)
  <2>1. \A i \in 1 .. p : IsSeq(lists[i])
    <3>1. ASSUME NEW i \in 1 .. p PROVE IsSeq(lists[i])
      <4>1. PICK n, r : n = plan[i].name /\ r = lists[i]  OBVIOUS
      <4>2. i \in DOMAIN lists  BY <1>2
      <4> QED  BY <1>4, <4>1, <4>2 DEF RowsOf
    <3> QED  BY <3>1
  <2> QED  BY <1>2, <2>1 DEF IsSeqs
<1>7. ASSUME NEW h \in DOMAIN lists, NEW i \in DOMAIN lists, NEW j \in DOMAIN lists[h], NEW l \in DOMAIN lists[i],
             lists[h][j] = lists[i][l]
      PROVE  h = i /\ j = l
  <2>1. PICK n, r : n = plan[h].name /\ r = lists[h]  OBVIOUS
  <2>2. PICK m, q : m = plan[i].name /\ q = lists[i]  OBVIOUS
  <2>3. /\ n \in ToSet(names) /\ (n \in Listed \/ n \in DOMAIN virtual)
        /\ j \in 1 .. CountOf(n) /\ r[j] = <<Origin(n), StartOf(n) + j>>
    <3>1. RowsOf(n, r)  BY <1>4, <2>1
    <3>2. j \in DOMAIN r  BY <1>7, <2>1
    <3> QED  BY <3>1, <3>2 DEF RowsOf
  <2>4. /\ m \in ToSet(names) /\ (m \in Listed \/ m \in DOMAIN virtual)
        /\ l \in 1 .. CountOf(m) /\ q[l] = <<Origin(m), StartOf(m) + l>>
    <3>1. RowsOf(m, q)  BY <1>4, <2>2
    <3>2. l \in DOMAIN q  BY <1>7, <2>2
    <3> QED  BY <3>1, <3>2 DEF RowsOf
  <2>5. PICK x, y, o, u : x = StartOf(n) + j /\ y = StartOf(m) + l /\ o = Origin(n) /\ u = Origin(m)  OBVIOUS
  <2>6. <<o, x>> = <<u, y>>  BY <1>7, <2>1, <2>2, <2>3, <2>4, <2>5
  <2>7. o = u /\ x = y  BY <2>6
  <2>8. n = m /\ j = l
    <3>1. PICK c, d : c = j /\ d = l  OBVIOUS
    <3>2. c \in 1 .. CountOf(n) /\ d \in 1 .. CountOf(m)  BY <2>3, <2>4, <3>1
    <3>3. Origin(n) = Origin(m) /\ StartOf(n) + c = StartOf(m) + d  BY <2>5, <2>7, <3>1
    <3>4. n = m /\ c = d  BY <2>3, <2>4, <3>2, <3>3, NamesApart
    <3> QED  BY <3>1, <3>4
  <2>9. h \in DOMAIN plan /\ i \in DOMAIN plan  BY <1>1, <1>2
  <2>10. h = i  BY <2>1, <2>2, <2>8, <2>9 DEF QuantInv, OrderInv
  <2> QED  BY <2>8, <2>10
<1>8. NoneTwice(lists)  BY <1>7 DEF NoneTwice
<1>9. IsInjective(F)  BY <1>5, <1>8, FlatOnce
<1>10. ASSUME NEW x \in ToSet(F) PROVE x \in from
  <2>1. PICK k \in DOMAIN F : x = F[k]  BY DEF ToSet
  <2>2. PICK i \in DOMAIN lists : \E j \in DOMAIN lists[i] : x = lists[i][j]  BY <1>5, <2>1, FlatEntries
  <2>3. PICK n, r : n = plan[i].name /\ r = lists[i]  OBVIOUS
  <2>4. PICK j \in DOMAIN r : x = r[j]  BY <2>2, <2>3
  <2>5. /\ n \in Listed \/ n \in DOMAIN virtual
        /\ j \in 1 .. CountOf(n) /\ r[j] = <<Origin(n), StartOf(n) + j>>
    <3>1. RowsOf(n, r)  BY <1>4, <2>3
    <3> QED  BY <2>4, <3>1 DEF RowsOf
  <2>6. PICK s, y : s = Origin(n) /\ y = StartOf(n) + j  OBVIOUS
  <2>7. s \in Listed /\ y \in 1 .. RowCount(s)  BY <2>5, <2>6, RowsWithin
  <2>8. PICK t : t = SourceLoad(s)  OBVIOUS
  <2>9. x \in ToSet(t.rows)
    <3>1. PICK l : l = RowCount(s)  OBVIOUS
    <3>2. t.rows = [q \in 1 .. l |-> <<s, q>>]  BY <2>8, <3>1 DEF SourceLoad, RowCount
    <3>3. x = <<s, y>> /\ y \in 1 .. l  BY <2>4, <2>5, <2>6, <2>7, <3>1
    <3> QED  BY <3>2, <3>3 DEF ToSet
  <2> QED  BY <2>7, <2>8, <2>9 DEF Listed
<1>11. ASSUME NEW x \in from PROVE x \in ToSet(F)
  <2>1. PICK s \in Listed : \E t : t = SourceLoad(s) /\ x \in ToSet(t.rows)  BY DEF Listed
  <2>2. PICK t : t = SourceLoad(s) /\ x \in ToSet(t.rows)  BY <2>1
  <2>3. PICK l : l = RowCount(s)  OBVIOUS
  <2>4. t.rows = [q \in 1 .. l |-> <<s, q>>]  BY <2>2, <2>3 DEF SourceLoad, RowCount
  <2>5. PICK y \in 1 .. l : x = <<s, y>>  BY <2>2, <2>4 DEF ToSet
  <2>6. PICK n \in ToSet(names) : /\ n \in Listed \/ n \in DOMAIN virtual
                                  /\ Origin(n) = s /\ \E j \in 1 .. CountOf(n) : StartOf(n) + j = y
        BY <2>3, <2>5, RowHasName
  <2>7. PICK j \in 1 .. CountOf(n) : StartOf(n) + j = y  BY <2>6
  <2>8. PICK i \in DOMAIN plan : plan[i].name = n  BY DEF QuantInv, OrderInv
  <2>9. PICK r : r = lists[i] /\ i \in DOMAIN lists  BY <1>1, <1>2
  <2>10. Span(r, Origin(n), StartOf(n), CountOf(n))
    <3>1. RowsOf(n, r)  BY <1>4, <2>8, <2>9
    <3> QED  BY <2>6, <3>1 DEF RowsOf
  <2>11. PICK b, a : b = CountOf(n) /\ a = StartOf(n)  OBVIOUS
  <2>12. b \in Nat /\ IsSeq(r) /\ Len(r) = b /\ \A h \in 1 .. b : r[h] = <<s, a + h>>
         BY <2>6, <2>10, <2>11 DEF Span
  <2>13. DOMAIN r = 1 .. b  BY <2>12, SeqEntries
  <2>14. j \in DOMAIN r /\ r[j] = <<s, y>>  BY <2>7, <2>11, <2>12, <2>13
  <2>15. j \in DOMAIN lists[i] /\ i \in DOMAIN lists /\ lists[i][j] = x  BY <2>5, <2>9, <2>14
  <2> QED  BY <1>5, <2>15, FlatHas
<1> QED  BY <1>9, <1>10, <1>11

(* Every row of the checkpoint is in the finished store, once: no          *)
(* expansion and no quantizer drops, repeats or overlaps a slice.          *)
THEOREM RowsAllStored == ConvertSpec => []RowsStoredOnce
<1>1. ConvertInv /\ NamingInv /\ QuantInv => RowsStoredOnce  BY RowsOnce
<1>2. ConvertSpec => []NamingInv  BY NamesCutWhole
<1> QED  BY <1>1, <1>2, ConversionInvariant, QuantAlways, PTL

(* A conversion that is not made has nothing to be wrong.                  *)
LEMMA NothingConverted ==
  NoConversion => /\ RowsStoredOnce /\ StoredUnderItsName /\ BytesAsAnnounced /\ OneWeightHeld /\ QuantizedWhole
<1> SUFFICES ASSUME NoConversion
             PROVE  RowsStoredOnce /\ StoredUnderItsName /\ BytesAsAnnounced /\ OneWeightHeld /\ QuantizedWhole
  OBVIOUS
<1>1. step = "idle" /\ mode = "none" /\ store = <<>> /\ cache = <<>> /\ quantized = <<>>  BY DEF NoConversion
<1>2. DOMAIN store = {} /\ DOMAIN cache = {} /\ DOMAIN quantized = {}  BY <1>1
<1>3. Cardinality(DOMAIN cache) = 0  BY <1>2, FS_EmptySet
<1>4. RowsStoredOnce /\ QuantizedWhole  BY <1>1 DEF RowsStoredOnce, QuantizedWhole
<1>5. StoredUnderItsName  BY <1>1, <1>2 DEF StoredUnderItsName, UnderItsName, RouterBesideItsExperts
<1>6. BytesAsAnnounced  BY <1>2 DEF BytesAsAnnounced, IndexDescribesBytes, PayloadUntouched
<1>7. OneWeightHeld  BY <1>1, <1>2, <1>3 DEF OneWeightHeld
<1> QED  BY <1>4, <1>5, <1>6, <1>7

(* Whichever reading is made of a checkpoint, the five properties of its   *)
(* conversion hold.                                                        *)
THEOREM ReadingsConvert ==
  ReadSpec => [](RowsStoredOnce /\ StoredUnderItsName /\ BytesAsAnnounced /\ OneWeightHeld /\ QuantizedWhole)
<1> DEFINE Whole3 == ConvertInv /\ NamingInv /\ QuantInv
           Inv == (reading = "convert" /\ Whole3) \/ (reading = "scan" /\ NoConversion)
<1>1. ReadInit => Inv  BY ConvertInitInv, NamingAtFirst, QuantAtFirst DEF ReadInit
<1>2. Inv /\ [ReadNext]_<<reading, conversion, scan>> => Inv'
  <2> SUFFICES ASSUME Inv, [ReadNext]_<<reading, conversion, scan>> PROVE Inv'  OBVIOUS
  <2>1. CASE reading = "convert" /\ Whole3
    <3>1. [ConvertNext]_conversion /\ reading' = reading  BY <2>1 DEF ReadNext
    <3>2. Whole3'  BY <2>1, <3>1, ConvertNextInv, NamingNext, QuantNext
    <3> QED  BY <2>1, <3>1, <3>2
  <2>2. CASE reading = "scan" /\ NoConversion
    <3>1. UNCHANGED conversion /\ reading' = reading  BY <2>2 DEF ReadNext
    <3>2. NoConversion'  BY <2>2, <3>1 DEF NoConversion, conversion, inputs, passes
    <3> QED  BY <2>2, <3>1, <3>2
  <2> QED  BY <2>1, <2>2
<1>3. Whole3 => RowsStoredOnce /\ StoredUnderItsName /\ BytesAsAnnounced /\ OneWeightHeld /\ QuantizedWhole
  BY RowsOnce, NamesMeanRows, RoutersBeside, IndexMatches, PayloadsUntouched, HeldOne, QuantizedPairs
  DEF StoredUnderItsName, BytesAsAnnounced
<1>4. Inv => RowsStoredOnce /\ StoredUnderItsName /\ BytesAsAnnounced /\ OneWeightHeld /\ QuantizedWhole
  BY <1>3, NothingConverted
<1> QED  BY <1>1, <1>2, <1>4, PTL DEF ReadSpec
-----------------------------------------------------------------------------
(* A chain of substring tests takes a key the name holds, or none when it  *)
(* holds none.                                                             *)
LEMMA ChainTakes ==
  ASSUME NEW chain, NEW arch, DOMAIN chain \subseteq Nat
  PROVE  LET k == Parsing!First(chain, arch) IN
         \/ k = "none" /\ \A i \in DOMAIN chain : chain[i] \notin Parsing!Holds(arch)
         \/ k \in Parsing!Holds(arch) /\ \E i \in DOMAIN chain : chain[i] = k
<1> DEFINE hit == {i \in DOMAIN chain : chain[i] \in Parsing!Holds(arch)}
<1>1. Parsing!First(chain, arch) =
        IF hit = {} THEN "none" ELSE chain[CHOOSE i \in hit : \A j \in hit : i <= j]
      BY DEF Parsing!First
<1>2. CASE hit = {}  BY <1>1, <1>2
<1>3. CASE hit # {}
  <2>1. hit \subseteq Nat  OBVIOUS
  <2>2. \E i \in hit : \A j \in hit : i <= j  BY <1>3, <2>1, LeastNat
  <2>3. PICK i \in hit : i = CHOOSE x \in hit : \A j \in hit : x <= j  BY <2>2
  <2> QED  BY <1>1, <1>3, <2>3
<1> QED  BY <1>2, <1>3

(* Keys that no other architecture's name holds.                           *)
Own == {"nllb", "jamba", "opt", "gptoss"}
(* Such a name holds no other key, and no other name holds its own.        *)
LEMMA OwnKeys ==
  ASSUME NEW arch
  PROVE  /\ arch \in Own => Parsing!Holds(arch) = {arch}
         /\ \A k \in Own : k \in Parsing!Holds(arch) => arch = k
BY DEF Own, Parsing!Holds

(* Both chains are tuples.                                                 *)
LEMMA ChainsAreLists == DOMAIN Parsing!MoeChain \subseteq Nat /\ DOMAIN Parsing!IdChain \subseteq Nat
BY DEF Parsing!MoeChain, Parsing!IdChain

(* Both chains know nllb, jamba and gpt-oss by their own names, and the    *)
(* chain of names knows every family the chain of shapes knows but opt.    *)
LEMMA ChainsKnow ==
  ASSUME NEW arch
  PROVE  /\ \A k \in {"nllb", "jamba", "gptoss"} :
              /\ Parsing!First(Parsing!MoeChain, arch) = k <=> arch = k
              /\ Parsing!First(Parsing!IdChain, arch) = k <=> arch = k
         /\ Parsing!First(Parsing!MoeChain, arch) = "opt" <=> arch = "opt"
         /\ Parsing!First(Parsing!MoeChain, arch) # "none" /\ arch # "opt" =>
              Parsing!First(Parsing!IdChain, arch) # "none"
         /\ Parsing!First(Parsing!IdChain, arch) # "none" => arch # "opt"
<1> DEFINE shape == Parsing!First(Parsing!MoeChain, arch)
           name  == Parsing!First(Parsing!IdChain, arch)
<1>1. \/ shape = "none" /\ \A i \in DOMAIN Parsing!MoeChain : Parsing!MoeChain[i] \notin Parsing!Holds(arch)
      \/ shape \in Parsing!Holds(arch) /\ \E i \in DOMAIN Parsing!MoeChain : Parsing!MoeChain[i] = shape
      BY ChainTakes, ChainsAreLists
<1>2. \/ name = "none" /\ \A i \in DOMAIN Parsing!IdChain : Parsing!IdChain[i] \notin Parsing!Holds(arch)
      \/ name \in Parsing!Holds(arch) /\ \E i \in DOMAIN Parsing!IdChain : Parsing!IdChain[i] = name
      BY ChainTakes, ChainsAreLists
<1> HIDE DEF shape, name
<1>3. /\ 1 \in DOMAIN Parsing!MoeChain /\ Parsing!MoeChain[1] = "nllb"
      /\ 14 \in DOMAIN Parsing!MoeChain /\ Parsing!MoeChain[14] = "gptoss"
      /\ 16 \in DOMAIN Parsing!MoeChain /\ Parsing!MoeChain[16] = "jamba"
      /\ 17 \in DOMAIN Parsing!MoeChain /\ Parsing!MoeChain[17] = "opt"
      /\ \A i \in DOMAIN Parsing!MoeChain : Parsing!MoeChain[i] # "none"
      BY DEF Parsing!MoeChain
<1>4. /\ 1 \in DOMAIN Parsing!IdChain /\ Parsing!IdChain[1] = "nllb"
      /\ 16 \in DOMAIN Parsing!IdChain /\ Parsing!IdChain[16] = "jamba"
      /\ 17 \in DOMAIN Parsing!IdChain /\ Parsing!IdChain[17] = "gptoss"
      /\ \A i \in DOMAIN Parsing!IdChain : Parsing!IdChain[i] # "none"
      BY DEF Parsing!IdChain
<1>5. \A i \in DOMAIN Parsing!MoeChain : Parsing!MoeChain[i] # "opt" =>
        \E j \in DOMAIN Parsing!IdChain : Parsing!IdChain[j] = Parsing!MoeChain[i]
      BY DEF Parsing!MoeChain, Parsing!IdChain
<1>6. ASSUME NEW k \in Own, shape = k PROVE arch = k  BY <1>1, <1>3, <1>6, OwnKeys DEF Own
<1>7. ASSUME NEW k \in Own, name = k PROVE arch = k  BY <1>2, <1>4, <1>7, OwnKeys DEF Own
<1>8. ASSUME arch \in Own PROVE shape = arch
  <2>1. Parsing!Holds(arch) = {arch}  BY <1>8, OwnKeys
  <2> QED  BY <1>1, <1>3, <1>8, <2>1 DEF Own
<1>9. ASSUME arch \in Own, arch # "opt" PROVE name = arch
  <2>1. Parsing!Holds(arch) = {arch}  BY <1>9, OwnKeys
  <2> QED  BY <1>2, <1>4, <1>9, <2>1 DEF Own
<1>10. ASSUME shape # "none", arch # "opt" PROVE name # "none"
  <2>1. PICK i \in DOMAIN Parsing!MoeChain : Parsing!MoeChain[i] = shape /\ shape \in Parsing!Holds(arch)
        BY <1>1, <1>10
  <2>2. shape # "opt"  BY <1>6, <1>10 DEF Own
  <2>3. PICK j \in DOMAIN Parsing!IdChain : Parsing!IdChain[j] = shape  BY <1>5, <2>1, <2>2
  <2> QED  BY <1>2, <1>4, <2>1, <2>3
<1>11. ASSUME name # "none" PROVE arch # "opt"
  <2>1. \A i \in DOMAIN Parsing!IdChain : Parsing!IdChain[i] # "opt"  BY DEF Parsing!IdChain
  <2>2. arch = "opt" => Parsing!Holds(arch) = {"opt"}  BY OwnKeys DEF Own
  <2> QED  BY <1>2, <1>11, <2>1, <2>2
<1> QED  BY <1>6, <1>7, <1>8, <1>9, <1>10, <1>11 DEF Own, shape, name

(* What parse_moe_param says of a config.                                  *)
LEMMA ShapeOf ==
  ASSUME NEW g
  PROVE  LET param == Parsing!MoeParam(g)  enc == g.encLayers \div g.encStep IN
         /\ g.arch = "nllb" => param.layers = enc + (g.layers \div g.step) /\ param.encoder = enc
         /\ g.arch = "jamba" => param.layers = AtOffset(g.period, g.offset, g.layers)
         /\ g.arch \notin {"nllb", "jamba"} => param.layers = g.layers
         /\ g.arch # "opt" => param.experts = g.experts
<1>1. PICK b : b = Parsing!First(Parsing!MoeChain, g.arch)  OBVIOUS
<1>2. (b = "nllb" <=> g.arch = "nllb") /\ (b = "jamba" <=> g.arch = "jamba") /\ (b = "opt" <=> g.arch = "opt")
      BY <1>1, ChainsKnow
<1>3. Parsing!MoeParam(g) =
        [layers |-> CASE b = "nllb" -> (g.encLayers \div g.encStep) + (g.layers \div g.step)
                      [] b = "jamba" -> AtOffset(g.period, g.offset, g.layers)
                      [] OTHER -> g.layers,
         experts |-> IF b = "opt" THEN 0 ELSE g.experts,
         encoder |-> IF b = "nllb" THEN g.encLayers \div g.encStep ELSE 0]
      BY <1>1 DEF Parsing!MoeParam, AtOffset
<1> QED  BY <1>2, <1>3

(* The names that read as experts, of a published checkpoint.              *)
LEMMA ReadNames ==
  ASSUME NEW c \in Scanned, NEW n \in Parsing!ReadsAsExpert(c)
  PROVE  LET g == c.config IN
         /\ n \in c.names /\ n.layer \in Nat /\ n.expert \in Nat
         /\ Parsing!First(Parsing!IdChain, g.arch) # "none"
         /\ g.arch = "nllb" => n.tower \in {"encoder", "decoder"} /\ n.layer < Parsing!Depth(g, n.tower)
                               /\ (n.layer + 1) % Parsing!Step(g, n.tower) = 0
         /\ g.arch = "jamba" => n.layer < g.layers
         /\ g.arch \notin {"nllb", "jamba"} => n.layer \notin g.denseLayers
         /\ n.layer < Parsing!Depth(g, n.tower) => n.expert < g.experts \/ g.arch = "gptoss"
         /\ n.layer >= Parsing!Depth(g, n.tower) => Parsing!MayTrail(g.arch)
<1> DEFINE g == c.config
           b == Parsing!First(Parsing!IdChain, g.arch)
<1>1. n \in c.names /\ Parsing!Matches(b, n)  BY DEF Parsing!ReadsAsExpert
<1>2. b # "none" /\ n.expert >= 0 /\ Parsing!Anchored(b, n.tower)  BY <1>1 DEF Parsing!Matches
<1>3. Parsing!Published(c)  BY ScannedAssumption
<1>4. n.layer \in Nat /\ n.expert \in Int  BY <1>1, <1>3 DEF Parsing!Published
<1>5. /\ n.layer >= Parsing!Depth(g, n.tower) => Parsing!MayTrail(g.arch)
      /\ n.layer < Parsing!Depth(g, n.tower) => n.expert < g.experts \/ g.arch = "gptoss"
      /\ g.arch # "jamba" => Parsing!IsSparse(g, n.tower, n.layer)
      BY <1>3 DEF Parsing!Published
<1>6. g.layers \in Nat /\ g.encLayers \in Nat  BY <1>3 DEF Parsing!Published
<1>7. (b = "nllb" <=> g.arch = "nllb") /\ (b = "jamba" <=> g.arch = "jamba")  BY ChainsKnow
<1>8. b = "nllb" => n.tower \in {"encoder", "decoder"}  BY <1>2 DEF Parsing!Anchored
<1>9. b \in {"nllb", "jamba"} => ~ Parsing!MayTrail(g.arch)  BY DEF Parsing!MayTrail
<1>10. Parsing!Depth(g, n.tower) \in Nat /\ (g.arch = "jamba" => Parsing!Depth(g, n.tower) = g.layers)
       BY <1>6 DEF Parsing!Depth
<1>11. /\ g.arch = "nllb" => (n.layer + 1) % Parsing!Step(g, n.tower) = 0
       /\ g.arch \notin {"nllb", "jamba"} => n.layer \notin g.denseLayers
       BY <1>5 DEF Parsing!IsSparse
<1> QED  BY <1>1, <1>2, <1>4, <1>5, <1>7, <1>8, <1>9, <1>10, <1>11

(* The key of a name: it reads as an expert, and the guards let it pass.   *)
LEMMA KeyOf ==
  ASSUME NEW n, n \in ckpt.names
  PROVE  LET b == Parsing!First(Parsing!IdChain, ckpt.config.arch)
             expert == n \in Parsing!ReadsAsExpert(ckpt) /\ Parsing!Guarded(b, n) /\ ~ Parsing!IsDense(ckpt.config.arch)
         IN  /\ expert => Parsing!ExpertId(n) = <<Parsing!StoreLayer(b, n), n.expert>>
             /\ Parsing!ExpertId(n) # Parsing!Nobody => expert
<1>1. PICK b : b = Parsing!First(Parsing!IdChain, ckpt.config.arch)  OBVIOUS
<1>2. n \in Parsing!ReadsAsExpert(ckpt) <=> Parsing!Matches(b, n)  BY <1>1 DEF Parsing!ReadsAsExpert
<1>3. Parsing!ExpertId(n) = IF ~ Parsing!IsDense(ckpt.config.arch) /\ Parsing!Matches(b, n) /\ Parsing!Guarded(b, n)
                            THEN <<Parsing!StoreLayer(b, n), n.expert>> ELSE Parsing!Nobody
      BY <1>1 DEF Parsing!ExpertId, Parsing!Conf
<1> QED  BY <1>1, <1>2, <1>3

(* Of nllb's towers: which store layers their sparse layers become.        *)
LEMMA TowerLayers ==
  ASSUME ckpt \in Scanned, ckpt.config.arch = "nllb", NEW n \in Parsing!ReadsAsExpert(ckpt)
  PROVE  LET g == ckpt.config  s == Parsing!Step(g, n.tower)  q == n.layer \div s
             enc == Parsing!MoeParam(g).encoder
         IN  /\ s \in Nat \ {0} /\ q \in Nat /\ n.layer = s * q + s - 1 /\ enc \in Nat
             /\ n.tower = "encoder" => Parsing!StoreLayer("nllb", n) = q /\ q < enc
             /\ n.tower = "decoder" => Parsing!StoreLayer("nllb", n) = q + enc /\ q + enc < Parsing!MoeParam(g).layers
<1> DEFINE g == ckpt.config
<1>1. /\ g.layers \in Nat /\ g.encLayers \in Nat /\ g.step \in Nat \ {0} /\ g.encStep \in Nat \ {0}
      BY ScannedAssumption DEF Parsing!Published
<1>2. /\ n.layer \in Nat /\ n.tower \in {"encoder", "decoder"} /\ n.layer < Parsing!Depth(g, n.tower)
      /\ (n.layer + 1) % Parsing!Step(g, n.tower) = 0
      BY ReadNames
<1>3. PICK s \in Nat \ {0} : s = Parsing!Step(g, n.tower)  BY <1>1 DEF Parsing!Step
<1>4. PICK depth \in Nat : depth = Parsing!Depth(g, n.tower)  BY <1>1 DEF Parsing!Depth
<1>5. n.layer \div s \in Nat /\ n.layer = s * (n.layer \div s) + s - 1 /\ n.layer \div s < depth \div s
      BY <1>2, <1>3, <1>4, SparseLayers
<1>6. PICK enc \in Nat, dec \in Nat : enc = g.encLayers \div g.encStep /\ dec = g.layers \div g.step
      BY <1>1, QuotientOf
<1>7. Parsing!MoeParam(g).encoder = enc /\ Parsing!MoeParam(g).layers = enc + dec  BY <1>6, ShapeOf
<1>8. CASE n.tower = "encoder"
  <2>1. s = g.encStep /\ depth = g.encLayers  BY <1>3, <1>4, <1>8 DEF Parsing!Step, Parsing!Depth
  <2>2. Parsing!StoreLayer("nllb", n) = n.layer \div g.encStep  BY <1>8 DEF Parsing!StoreLayer, Parsing!Conf
  <2> QED  BY <1>3, <1>5, <1>6, <1>7, <1>8, <2>1, <2>2
<1>9. CASE n.tower = "decoder"
  <2>1. s = g.step /\ depth = g.layers  BY <1>3, <1>4, <1>9 DEF Parsing!Step, Parsing!Depth
  <2>2. Parsing!StoreLayer("nllb", n) = (n.layer \div s) + enc
        BY <1>7, <1>9, <2>1 DEF Parsing!StoreLayer, Parsing!Conf
  <2> QED  BY <1>3, <1>5, <1>6, <1>7, <1>9, <2>1, <2>2
<1> QED  BY <1>2, <1>8, <1>9

(* jamba's layers with experts, and the store layers they become.          *)
LEMMA PackedLayers ==
  ASSUME ckpt \in Scanned, ckpt.config.arch = "jamba", NEW n \in Parsing!ReadsAsExpert(ckpt),
         Parsing!Guarded("jamba", n)
  PROVE  LET g == ckpt.config  q == (n.layer - g.offset) \div g.period IN
         /\ g.period \in Nat /\ g.offset \in Nat /\ q \in Nat
         /\ Parsing!StoreLayer("jamba", n) = q /\ n.layer = g.period * q + g.offset
         /\ q < Parsing!MoeParam(g).layers
<1> DEFINE g == ckpt.config
<1>1. /\ g.layers \in Nat /\ g.period \in Nat \ {0} /\ g.offset \in 0 .. g.period - 1
      BY ScannedAssumption DEF Parsing!Published
<1>2. n.layer \in Nat /\ n.layer < g.layers  BY ReadNames
<1>3. n.layer % g.period = g.offset  BY DEF Parsing!Guarded, Parsing!Conf
<1>4. PICK p \in Nat \ {0}, depth \in Nat : p = g.period /\ depth = g.layers  BY <1>1
<1>5. PICK o \in 0 .. p - 1 : o = g.offset  BY <1>1, <1>4
<1>6. PICK count : count = AtOffset(p, o, depth)  OBVIOUS
<1>7. PICK l \in Nat : l = n.layer  BY <1>2
<1>8. count \in Nat /\ (l - o) \div p \in Nat /\ l = p * ((l - o) \div p) + o /\ (l - o) \div p < count
  <2>1. l % p = o /\ l < depth  BY <1>2, <1>3, <1>4, <1>5, <1>7
  <2>2. /\ count \in Nat
        /\ \A x \in Nat : x % p = o =>
             (x - o) \div p \in Nat /\ x = p * ((x - o) \div p) + o /\ (x < depth => (x - o) \div p < count)
        BY <1>6, PeriodicLayers
  <2> QED  BY <2>1, <2>2
<1>9. Parsing!MoeParam(g).layers = count  BY <1>4, <1>5, <1>6, ShapeOf
<1>10. Parsing!StoreLayer("jamba", n) = (n.layer - g.offset) \div g.period
       BY DEF Parsing!StoreLayer, Parsing!Conf
<1> QED  BY <1>1, <1>4, <1>5, <1>7, <1>8, <1>9, <1>10

(* Elsewhere a layer keeps its number.                                     *)
LEMMA LayersKept ==
  ASSUME ckpt.config.arch \notin {"nllb", "jamba"}, NEW n
  PROVE  Parsing!StoreLayer(Parsing!First(Parsing!IdChain, ckpt.config.arch), n) = n.layer
<1>1. PICK b : b = Parsing!First(Parsing!IdChain, ckpt.config.arch)  OBVIOUS
<1>2. b # "nllb" /\ b # "jamba"  BY <1>1, ChainsKnow
<1>3. Parsing!StoreLayer(b, n) = n.layer  BY <1>2 DEF Parsing!StoreLayer
<1> QED  BY <1>1, <1>3

(* Two names with one key are of one expert of one layer and tower.        *)
LEMMA OneExpert ==
  ASSUME ckpt \in Scanned, NEW n \in ckpt.names, NEW m \in ckpt.names,
         Parsing!ExpertId(n) = Parsing!ExpertId(m), Parsing!ExpertId(n) # Parsing!Nobody
  PROVE  <<n.tower, n.layer, n.expert>> = <<m.tower, m.layer, m.expert>>
<1> DEFINE g == ckpt.config
           b == Parsing!First(Parsing!IdChain, g.arch)
<1>1. /\ n \in Parsing!ReadsAsExpert(ckpt) /\ Parsing!Guarded(b, n)
      /\ m \in Parsing!ReadsAsExpert(ckpt) /\ Parsing!Guarded(b, m)
      BY KeyOf
<1>2. Parsing!StoreLayer(b, n) = Parsing!StoreLayer(b, m) /\ n.expert = m.expert  BY KeyOf
<1>3. (b = "nllb" <=> g.arch = "nllb") /\ (b = "jamba" <=> g.arch = "jamba")  BY ChainsKnow
<1> HIDE DEF b
<1>4. CASE g.arch = "nllb"
  <2>1. PICK enc : enc = Parsing!MoeParam(g).encoder  OBVIOUS
  <2>2. PICK s, q : /\ s = Parsing!Step(g, n.tower) /\ q = n.layer \div s
                    /\ s \in Nat \ {0} /\ q \in Nat /\ n.layer = s * q + s - 1 /\ enc \in Nat
                    /\ n.tower = "encoder" => Parsing!StoreLayer("nllb", n) = q /\ q < enc
                    /\ n.tower = "decoder" => Parsing!StoreLayer("nllb", n) = q + enc
        BY <1>1, <1>4, <2>1, TowerLayers
  <2>3. PICK t, r : /\ t = Parsing!Step(g, m.tower) /\ r = m.layer \div t
                    /\ t \in Nat \ {0} /\ r \in Nat /\ m.layer = t * r + t - 1 /\ enc \in Nat
                    /\ m.tower = "encoder" => Parsing!StoreLayer("nllb", m) = r /\ r < enc
                    /\ m.tower = "decoder" => Parsing!StoreLayer("nllb", m) = r + enc
        BY <1>1, <1>4, <2>1, TowerLayers
  <2>4. n.tower \in {"encoder", "decoder"} /\ m.tower \in {"encoder", "decoder"}  BY <1>1, <1>4, ReadNames
  <2>5. Parsing!StoreLayer("nllb", n) = Parsing!StoreLayer("nllb", m)  BY <1>2, <1>3, <1>4
  <2>6. n.tower = m.tower  BY <2>2, <2>3, <2>4, <2>5
  <2>7. q = r  BY <2>2, <2>3, <2>4, <2>5, <2>6
  <2>8. s = t  BY <2>2, <2>3, <2>6
  <2> QED  BY <1>2, <2>2, <2>3, <2>6, <2>7, <2>8
<1>5. ASSUME g.arch # "nllb" PROVE n.tower = m.tower
      BY <1>1, <1>5, ScannedAssumption DEF Parsing!Published
<1>6. CASE g.arch = "jamba"
  <2>1. PICK q : q = (n.layer - g.offset) \div g.period /\ n.layer = g.period * q + g.offset
                 /\ Parsing!StoreLayer("jamba", n) = q
        BY <1>1, <1>3, <1>6, PackedLayers
  <2>2. PICK r : r = (m.layer - g.offset) \div g.period /\ m.layer = g.period * r + g.offset
                 /\ Parsing!StoreLayer("jamba", m) = r
        BY <1>1, <1>3, <1>6, PackedLayers
  <2>3. q = r  BY <1>2, <1>3, <1>6, <2>1, <2>2
  <2> QED  BY <1>2, <1>5, <1>6, <2>1, <2>2, <2>3
<1>7. CASE g.arch \notin {"nllb", "jamba"}
  <2>1. n.layer = m.layer  BY <1>2, <1>7, LayersKept DEF b
  <2> QED  BY <1>2, <1>5, <1>7, <2>1
<1> QED  BY <1>4, <1>6, <1>7

(* A key is in the range that parse_moe_param gives the engine, and not of *)
(* a dense layer.                                                          *)
LEMMA KeyInRange ==
  ASSUME ckpt \in Scanned, ~ Parsing!InLayerMtp, NEW n \in ckpt.names, Parsing!ExpertId(n) # Parsing!Nobody
  PROVE  LET param == Parsing!MoeParam(ckpt.config)  k == Parsing!ExpertId(n) IN
         /\ k[1] \in 0 .. param.layers - 1 /\ k[2] \in 0 .. param.experts - 1
         /\ k[1] \notin ckpt.config.denseLayers
<1> DEFINE g == ckpt.config
           b == Parsing!First(Parsing!IdChain, g.arch)
<1>1. /\ n \in Parsing!ReadsAsExpert(ckpt) /\ Parsing!Guarded(b, n)
      /\ Parsing!ExpertId(n) = <<Parsing!StoreLayer(b, n), n.expert>>
      BY KeyOf
<1>2. (b = "nllb" <=> g.arch = "nllb") /\ (b = "jamba" <=> g.arch = "jamba") /\ (b = "gptoss" <=> g.arch = "gptoss")
      BY ChainsKnow
<1>3. g.arch # "opt"
  <2>1. b # "none"  BY <1>1, ReadNames
  <2> QED  BY <2>1, ChainsKnow
<1>4. /\ n.layer \in Nat /\ n.expert \in Nat
      /\ n.layer < Parsing!Depth(g, n.tower) => n.expert < g.experts \/ g.arch = "gptoss"
      /\ n.layer >= Parsing!Depth(g, n.tower) => Parsing!MayTrail(g.arch)
      /\ g.arch = "jamba" => n.layer < g.layers
      /\ g.arch = "nllb" => n.layer < Parsing!Depth(g, n.tower)
      /\ g.arch \notin {"nllb", "jamba"} => n.layer \notin g.denseLayers
      BY <1>1, ReadNames
<1>5. /\ g.layers \in Nat /\ g.experts \in Nat /\ (g.arch \in {"nllb", "jamba"} => g.denseLayers = {})
      BY ScannedAssumption DEF Parsing!Published
<1>6. Parsing!MoeParam(g).experts = g.experts  BY <1>3, ShapeOf
<1>7. CASE g.arch = "nllb"
  <2>1. PICK q, enc, all : /\ q = n.layer \div Parsing!Step(g, n.tower) /\ enc = Parsing!MoeParam(g).encoder
                           /\ all = Parsing!MoeParam(g).layers
        OBVIOUS
  <2>2. /\ q \in Nat /\ enc \in Nat
        /\ n.tower = "encoder" => Parsing!StoreLayer("nllb", n) = q /\ q < enc
        /\ n.tower = "decoder" => Parsing!StoreLayer("nllb", n) = q + enc /\ q + enc < all
        BY <1>1, <1>7, <2>1, TowerLayers
  <2>3. n.tower \in {"encoder", "decoder"}  BY <1>1, <1>7, ReadNames
  <2>4. all \in Nat /\ enc <= all
    <3>1. g.encLayers \div g.encStep \in Nat /\ g.layers \div g.step \in Nat
      <4>1. g.encLayers \in Nat /\ g.layers \in Nat /\ g.encStep \in Nat \ {0} /\ g.step \in Nat \ {0}
            BY ScannedAssumption DEF Parsing!Published
      <4> QED  BY <4>1, QuotientOf
    <3>2. /\ all = (g.encLayers \div g.encStep) + (g.layers \div g.step) /\ enc = g.encLayers \div g.encStep
          BY <1>7, <2>1, ShapeOf
    <3> QED  BY <3>1, <3>2
  <2>5. Parsing!StoreLayer(b, n) \in 0 .. all - 1  BY <1>2, <1>7, <2>2, <2>3, <2>4
  <2> QED  BY <1>1, <1>4, <1>5, <1>6, <1>7, <2>1, <2>5
<1>8. CASE g.arch = "jamba"
  <2>1. PICK q, all : q = (n.layer - g.offset) \div g.period /\ all = Parsing!MoeParam(g).layers  OBVIOUS
  <2>2. q \in Nat /\ Parsing!StoreLayer("jamba", n) = q /\ q < all  BY <1>1, <1>2, <1>8, <2>1, PackedLayers
  <2>3. all \in Nat
    <3>1. g.layers \in Nat /\ g.period \in Nat \ {0} /\ g.offset \in 0 .. g.period - 1
          BY ScannedAssumption DEF Parsing!Published
    <3>2. all = AtOffset(g.period, g.offset, g.layers)  BY <1>8, <2>1, ShapeOf
    <3>3. PICK depth \in Nat, p \in Nat \ {0} : depth = g.layers /\ p = g.period  BY <3>1
    <3>4. PICK o \in 0 .. p - 1 : o = g.offset  BY <3>1, <3>3
    <3>5. all = AtOffset(p, o, depth)  BY <3>2, <3>3, <3>4
    <3>6. all \in Nat  BY <3>5, PeriodicLayers
    <3> QED  BY <3>6
  <2>4. n.expert < g.experts  BY <1>4, <1>5, <1>8 DEF Parsing!Depth
  <2> QED  BY <1>1, <1>2, <1>4, <1>5, <1>6, <1>8, <2>1, <2>2, <2>3, <2>4
<1>9. CASE g.arch \notin {"nllb", "jamba"}
  <2>1. Parsing!StoreLayer(b, n) = n.layer  BY <1>9, LayersKept
  <2>2. Parsing!MoeParam(g).layers = g.layers  BY <1>9, ShapeOf
  <2>3. Parsing!Depth(g, n.tower) = g.layers  BY <1>9 DEF Parsing!Depth
  <2>4. b \in {"glmmoedsa", "glm5next", "hyv3", "gptoss"} => n.layer < g.layers
        BY <1>1, <2>2 DEF Parsing!Guarded, Parsing!Conf
  <2>5. b \in {"deepseek", "qwen3", "olmoe"} => n.layer < g.layers
        BY <1>4, <1>5 DEF Parsing!InLayerMtp, Parsing!Conf
  <2>6. n.layer < g.layers  BY <1>4, <1>5, <2>3, <2>4, <2>5 DEF Parsing!MayTrail
  <2>7. g.arch = "gptoss" => n.expert < g.experts  BY <1>1, <1>2 DEF Parsing!Guarded, Parsing!Conf
  <2>8. n.expert < g.experts  BY <1>4, <2>3, <2>6, <2>7
  <2> QED  BY <1>1, <1>4, <1>5, <1>6, <1>9, <2>1, <2>2, <2>6, <2>8
<1> QED  BY <1>7, <1>8, <1>9

(* Every layer that has experts has a name whose key is in it.             *)
LEMMA LayerHasKey ==
  ASSUME ckpt \in Scanned, Parsing!Readable(Parsing!First(Parsing!MoeChain, ckpt.config.arch), ckpt.config),
         ckpt.config.arch # "opt", ~ Parsing!IsDense(ckpt.config.arch),
         NEW x \in (0 .. Parsing!MoeParam(ckpt.config).layers - 1) \ ckpt.config.denseLayers
  PROVE  \E n \in ckpt.names : Parsing!ExpertId(n) # Parsing!Nobody /\ Parsing!ExpertId(n)[1] = x
<1> DEFINE g == ckpt.config
           b == Parsing!First(Parsing!IdChain, g.arch)
<1>1. b # "none"
  <2>1. Parsing!First(Parsing!MoeChain, g.arch) # "none"  BY DEF Parsing!Readable
  <2> QED  BY <2>1, ChainsKnow
<1>2. (b = "nllb" <=> g.arch = "nllb") /\ (b = "jamba" <=> g.arch = "jamba") /\ (b = "gptoss" <=> g.arch = "gptoss")
      BY ChainsKnow
<1>3. /\ g.layers \in Nat /\ g.encLayers \in Nat /\ g.experts \in Nat
      /\ g.step \in Nat \ {0} /\ g.encStep \in Nat \ {0} /\ g.period \in Nat \ {0} /\ g.offset \in 0 .. g.period - 1
      BY ScannedAssumption DEF Parsing!Published
<1>4. \A t \in Parsing!Towers(g) : \A l \in 0 .. Parsing!Depth(g, t) - 1 : Parsing!IsSparse(g, t, l) =>
        \E n \in Parsing!ReadsAsExpert(ckpt) : n.layer = l /\ n.expert < g.experts /\ (g.arch = "nllb" => n.tower = t)
      BY <1>1, ScannedAssumption DEF Parsing!Published
<1>5. ASSUME NEW n \in Parsing!ReadsAsExpert(ckpt), Parsing!Guarded(b, n), Parsing!StoreLayer(b, n) = x
      PROVE  \E m \in ckpt.names : Parsing!ExpertId(m) # Parsing!Nobody /\ Parsing!ExpertId(m)[1] = x
  <2>1. n \in ckpt.names /\ n.expert \in Nat  BY ReadNames
  <2>2. Parsing!ExpertId(n) = <<x, n.expert>>  BY <1>5, <2>1, KeyOf
  <2> QED  BY <2>1, <2>2 DEF Parsing!Nobody
<1> HIDE DEF b
<1>6. CASE g.arch = "nllb"
  <2>1. PICK e \in Nat \ {0}, s \in Nat \ {0}, above \in Nat, below \in Nat :
          e = g.encStep /\ s = g.step /\ above = g.encLayers /\ below = g.layers
        BY <1>3
  <2>2. PICK enc \in Nat, dec \in Nat : enc = above \div e /\ dec = below \div s  BY <2>1, QuotientOf
  <2>3. Parsing!MoeParam(g).encoder = enc /\ Parsing!MoeParam(g).layers = enc + dec  BY <1>6, <2>1, <2>2, ShapeOf
  <2>4. CASE x < enc
    <3>1. x \in Nat  BY <2>2, <2>3
    <3>2. PICK l : l = e * x + e - 1  OBVIOUS
    <3>3. l \in 0 .. above - 1 /\ (l + 1) % e = 0 /\ l \div e = x  BY <2>2, <2>4, <3>1, <3>2, SparseLayers
    <3>4. "encoder" \in Parsing!Towers(g) /\ Parsing!Depth(g, "encoder") = above /\ Parsing!IsSparse(g, "encoder", l)
          BY <1>6, <2>1, <3>3 DEF Parsing!Towers, Parsing!Depth, Parsing!IsSparse, Parsing!Step
    <3>5. PICK n \in Parsing!ReadsAsExpert(ckpt) : n.layer = l /\ n.tower = "encoder"  BY <1>4, <1>6, <3>3, <3>4
    <3>6. Parsing!Guarded(b, n)  BY <1>2, <1>6 DEF Parsing!Guarded
    <3>7. Parsing!StoreLayer("nllb", n) = n.layer \div g.encStep  BY <3>5 DEF Parsing!StoreLayer, Parsing!Conf
    <3> QED  BY <1>2, <1>5, <1>6, <2>1, <3>3, <3>5, <3>6, <3>7
  <2>5. CASE ~ (x < enc)
    <3>0. x \in Nat /\ x < enc + dec  BY <2>2, <2>3
    <3>9. x - enc \in Nat /\ x - enc < dec  BY <2>2, <2>5, <3>0
    <3>1. PICK j \in Nat : j = x - enc /\ j < dec  BY <3>9
    <3>2. PICK l : l = s * j + s - 1  OBVIOUS
    <3>3. l \in 0 .. below - 1 /\ (l + 1) % s = 0 /\ l \div s = j  BY <2>2, <3>1, <3>2, SparseLayers
    <3>4. "decoder" \in Parsing!Towers(g) /\ Parsing!Depth(g, "decoder") = below /\ Parsing!IsSparse(g, "decoder", l)
          BY <1>6, <2>1, <3>3 DEF Parsing!Towers, Parsing!Depth, Parsing!IsSparse, Parsing!Step
    <3>5. PICK n \in Parsing!ReadsAsExpert(ckpt) : n.layer = l /\ n.tower = "decoder"  BY <1>4, <1>6, <3>3, <3>4
    <3>6. Parsing!Guarded(b, n)  BY <1>2, <1>6 DEF Parsing!Guarded
    <3>7. Parsing!StoreLayer("nllb", n) = (n.layer \div g.step) + enc
          BY <2>3, <3>5 DEF Parsing!StoreLayer, Parsing!Conf
    <3>8. Parsing!StoreLayer("nllb", n) = x  BY <2>1, <2>2, <3>1, <3>3, <3>5, <3>7
    <3> QED  BY <1>2, <1>5, <1>6, <3>6, <3>8
  <2> QED  BY <2>4, <2>5
<1>7. CASE g.arch = "jamba"
  <2>1. PICK p \in Nat \ {0}, depth \in Nat : p = g.period /\ depth = g.layers  BY <1>3
  <2>2. PICK o \in 0 .. p - 1 : o = g.offset  BY <1>3, <2>1
  <2>3. PICK count : count = AtOffset(p, o, depth)  OBVIOUS
  <2>4. Parsing!MoeParam(g).layers = count  BY <1>7, <2>1, <2>2, <2>3, ShapeOf
  <2>5. count \in Nat  BY <2>3, PeriodicLayers
  <2>6. x \in Nat /\ x < count  BY <2>4, <2>5
  <2>7. PICK l : l = p * x + o  OBVIOUS
  <2>8. l \in 0 .. depth - 1 /\ l % p = o /\ (l - o) \div p = x  BY <2>3, <2>6, <2>7, PeriodicLayers
  <2>9. "the model" \in Parsing!Towers(g) /\ Parsing!Depth(g, "the model") = depth
        /\ Parsing!IsSparse(g, "the model", l)
        BY <1>7, <2>1, <2>2, <2>8 DEF Parsing!Towers, Parsing!Depth, Parsing!IsSparse
  <2>10. PICK n \in Parsing!ReadsAsExpert(ckpt) : n.layer = l
    <3>1. l \in 0 .. Parsing!Depth(g, "the model") - 1  BY <2>8, <2>9
    <3>2. "the model" \in Parsing!Towers(g) /\ Parsing!IsSparse(g, "the model", l)  BY <2>9
    <3> QED  BY <1>4, <3>1, <3>2
  <2>11. Parsing!Guarded(b, n)  BY <1>2, <1>7, <2>1, <2>2, <2>8, <2>10 DEF Parsing!Guarded, Parsing!Conf
  <2>12. Parsing!StoreLayer(b, n) = (n.layer - g.offset) \div g.period
         BY <1>2, <1>7 DEF Parsing!StoreLayer, Parsing!Conf
  <2> QED  BY <1>5, <2>1, <2>2, <2>8, <2>10, <2>11, <2>12
<1>8. CASE g.arch \notin {"nllb", "jamba"}
  <2>1. Parsing!MoeParam(g).layers = g.layers  BY <1>8, ShapeOf
  <2>2. "the model" \in Parsing!Towers(g) /\ Parsing!Depth(g, "the model") = g.layers
        /\ Parsing!IsSparse(g, "the model", x)
        BY <1>8 DEF Parsing!Towers, Parsing!Depth, Parsing!IsSparse
  <2>3. PICK n \in Parsing!ReadsAsExpert(ckpt) : n.layer = x /\ n.expert < g.experts
    <3>1. x \in 0 .. Parsing!Depth(g, "the model") - 1  BY <2>1, <2>2
    <3>2. "the model" \in Parsing!Towers(g) /\ Parsing!IsSparse(g, "the model", x)  BY <2>2
    <3> QED  BY <1>4, <3>1, <3>2
  <2>4. n.layer < g.layers  BY <1>3, <2>1, <2>3
  <2>5. Parsing!Guarded(b, n)  BY <1>2, <1>8, <2>1, <2>3, <2>4 DEF Parsing!Guarded, Parsing!Conf
  <2>6. Parsing!StoreLayer(b, n) = x  BY <1>8, <2>3, LayersKept DEF b
  <2> QED  BY <1>5, <2>5, <2>6
<1> QED  BY <1>6, <1>7, <1>8
-----------------------------------------------------------------------------
(* While names are scanned, a group holds names of its key only, and every *)
(* name scanned that has a key is in a group.                              *)
ScanInv ==
  /\ ckpt \in Scanned /\ todo \subseteq ckpt.names /\ failed \in BOOLEAN
  /\ \A k \in DOMAIN groups :
       /\ k # Parsing!Nobody /\ groups[k] # {}
       /\ \A n \in groups[k] : n \in ckpt.names /\ Parsing!ExpertId(n) = k
  /\ ~ failed /\ todo # ckpt.names =>
       Parsing!Readable(Parsing!First(Parsing!MoeChain, ckpt.config.arch), ckpt.config)
  /\ ~ failed => \A n \in ckpt.names \ todo :
       Parsing!ExpertId(n) # Parsing!Nobody => Parsing!ExpertId(n) \in DOMAIN groups

(* The key of a name depends on the checkpoint's config alone.             *)
LEMMA KeysStay ==
  ASSUME ckpt' = ckpt, NEW n
  PROVE  Parsing!ExpertId(n)' = Parsing!ExpertId(n)
BY DEF Parsing!ExpertId, Parsing!Conf, Parsing!Guarded, Parsing!StoreLayer

(* The invariant holds before the first name.                              *)
LEMMA ScanAtFirst == Parsing!Init => ScanInv
<1> SUFFICES ASSUME Parsing!Init PROVE ScanInv  OBVIOUS
<1>1. ckpt \in Scanned /\ todo = ckpt.names /\ groups = <<>> /\ failed = FALSE  BY DEF Parsing!Init
<1>2. DOMAIN groups = {}  BY <1>1
<1> QED  BY <1>1, <1>2 DEF ScanInv

(* One more name, in a group, among the dense or refused, keeps it.        *)
LEMMA ScanStays ==
  ASSUME ScanInv, Parsing!Scan
  PROVE  ScanInv'
<1> USE DEF ScanInv
<1>1. PICK n \in todo : /\ ~ failed /\ todo' = todo \ {n} /\ UNCHANGED ckpt
                        /\ Parsing!ScanExpert(n) \/ Parsing!ScanDense(n) \/ Parsing!ParseRaises(n)
      BY DEF Parsing!Scan
<1>2. \A m : Parsing!ExpertId(m)' = Parsing!ExpertId(m)  BY <1>1, KeysStay
<1>3. n \in ckpt.names /\ todo' \subseteq ckpt.names /\ ckpt' = ckpt /\ ckpt' \in Scanned  BY <1>1
<1>4. Parsing!Nobody' = Parsing!Nobody  BY DEF Parsing!Nobody
<1>5. CASE Parsing!ScanExpert(n)
  <2> DEFINE key == Parsing!ExpertId(n)
  <2>1. /\ Parsing!Readable(Parsing!First(Parsing!MoeChain, ckpt.config.arch), ckpt.config) /\ key # Parsing!Nobody
        /\ groups' = [k \in DOMAIN groups \cup {key} |->
                        {m \in {n} : k = key} \cup IF k \in DOMAIN groups THEN groups[k] ELSE {}]
        /\ failed' = failed
        BY <1>5 DEF Parsing!ScanExpert, Parsing!Conf
  <2> HIDE DEF key
  <2>2. DOMAIN groups' = DOMAIN groups \cup {key}  BY <2>1
  <2>3. ASSUME NEW k \in DOMAIN groups'
        PROVE  /\ k # Parsing!Nobody /\ groups'[k] # {}
               /\ \A m \in groups'[k] : m \in ckpt.names /\ Parsing!ExpertId(m) = k
    <3>1. groups'[k] = {m \in {n} : k = key} \cup IF k \in DOMAIN groups THEN groups[k] ELSE {}
          BY <2>1, <2>2, <2>3
    <3>2. k = key => n \in groups'[k]  BY <3>1
    <3> QED  BY <1>3, <2>1, <2>2, <2>3, <3>1, <3>2 DEF key
  <2>4. ASSUME NEW m \in ckpt.names \ todo', Parsing!ExpertId(m) # Parsing!Nobody
        PROVE  Parsing!ExpertId(m) \in DOMAIN groups'
    <3>1. CASE m = n  BY <2>2, <3>1 DEF key
    <3>2. CASE m # n  BY <1>1, <2>2, <2>4, <3>2
    <3> QED  BY <3>1, <3>2
  <2> QED  BY <1>1, <1>2, <1>3, <1>4, <2>1, <2>3, <2>4
<1>6. CASE Parsing!ScanDense(n)
  <2>1. /\ Parsing!Readable(Parsing!First(Parsing!MoeChain, ckpt.config.arch), ckpt.config)
        /\ Parsing!ExpertId(n) = Parsing!Nobody /\ groups' = groups /\ failed' = failed
        BY <1>6 DEF Parsing!ScanDense, Parsing!Conf
  <2>2. ASSUME NEW m \in ckpt.names \ todo', Parsing!ExpertId(m) # Parsing!Nobody
        PROVE  Parsing!ExpertId(m) \in DOMAIN groups
        BY <1>1, <2>1, <2>2
  <2> QED  BY <1>1, <1>2, <1>3, <1>4, <2>1, <2>2
<1>7. CASE Parsing!ParseRaises(n)
  <2>1. groups' = groups /\ failed' = TRUE  BY <1>7 DEF Parsing!ParseRaises
  <2> QED  BY <1>1, <1>2, <1>3, <1>4, <2>1
<1> QED  BY <1>1, <1>5, <1>6, <1>7

(* What the invariant says of a scan: groups are experts, and fill the     *)
(* range of the engine's table once all is scanned.                        *)
LEMMA ScannedGroups == ScanInv => Parsing!GroupsAreExperts
<1> SUFFICES ASSUME ScanInv PROVE Parsing!GroupsAreExperts  OBVIOUS
<1> USE DEF ScanInv
<1> DEFINE g == ckpt.config
<1>1. Parsing!OneExpertPerGroup
  <2> SUFFICES ASSUME NEW k \in DOMAIN groups, NEW n \in groups[k], NEW m \in groups[k]
               PROVE  <<n.tower, n.layer, n.expert>> = <<m.tower, m.layer, m.expert>>
      BY DEF Parsing!OneExpertPerGroup
  <2>1. /\ n \in ckpt.names /\ m \in ckpt.names /\ Parsing!ExpertId(n) = Parsing!ExpertId(m)
        /\ Parsing!ExpertId(n) # Parsing!Nobody
        OBVIOUS
  <2> QED  BY <2>1, OneExpert
<1>2. ASSUME ~ Parsing!InLayerMtp, NEW k \in DOMAIN groups
      PROVE  /\ k[1] \in 0 .. Parsing!MoeParam(g).layers - 1 /\ k[2] \in 0 .. Parsing!MoeParam(g).experts - 1
             /\ k[1] \notin g.denseLayers
  <2>1. PICK n \in groups[k] : n \in ckpt.names /\ Parsing!ExpertId(n) = k  OBVIOUS
  <2> QED  BY <1>2, <2>1, KeyInRange
<1>3. ASSUME ~ Parsing!InLayerMtp, todo = {}, ~ failed, g.arch # "opt", ~ Parsing!IsDense(g.arch)
      PROVE  {k[1] : k \in DOMAIN groups} = (0 .. Parsing!MoeParam(g).layers - 1) \ g.denseLayers
  <2>1. ckpt.names # {}  BY ScannedAssumption DEF Parsing!Published
  <2>2. Parsing!Readable(Parsing!First(Parsing!MoeChain, g.arch), g)  BY <1>3, <2>1
  <2>3. ASSUME NEW x \in (0 .. Parsing!MoeParam(g).layers - 1) \ g.denseLayers
        PROVE  \E k \in DOMAIN groups : k[1] = x
    <3>1. PICK n \in ckpt.names : Parsing!ExpertId(n) # Parsing!Nobody /\ Parsing!ExpertId(n)[1] = x
          BY <1>3, <2>2, LayerHasKey
    <3>2. Parsing!ExpertId(n) \in DOMAIN groups  BY <1>3, <3>1
    <3> QED  BY <3>1, <3>2
  <2> QED  BY <1>2, <1>3, <2>3
<1>4. Parsing!LayersFilled  BY <1>2, <1>3 DEF Parsing!LayersFilled, Parsing!Conf
<1> QED  BY <1>1, <1>4 DEF Parsing!GroupsAreExperts

(* Every group is one expert of the model, and the store layers of nllb's  *)
(* two towers, of jamba's sparse layers and of every other family fill the *)
(* range the engine is told, for any number of layers and experts.         *)
THEOREM GroupsHoldExperts == ReadSpec => []GroupsAreExperts
<1> DEFINE Inv == reading = "scan" => ScanInv
<1>1. ReadInit => Inv  BY ScanAtFirst DEF ReadInit
<1>2. Inv /\ [ReadNext]_<<reading, conversion, scan>> => Inv'
  <2> SUFFICES ASSUME Inv, [ReadNext]_<<reading, conversion, scan>> PROVE Inv'  OBVIOUS
  <2>1. CASE reading = "convert" /\ UNCHANGED reading  BY <2>1
  <2>2. CASE reading = "scan" /\ Parsing!Scan /\ UNCHANGED reading  BY <2>2, ScanStays
  <2>3. CASE UNCHANGED <<reading, conversion, scan>>
    <3>1. ckpt' = ckpt /\ todo' = todo /\ groups' = groups /\ failed' = failed /\ reading' = reading
          BY <2>3 DEF scan
    <3>2. \A m : Parsing!ExpertId(m)' = Parsing!ExpertId(m)  BY <3>1, KeysStay
    <3>3. Parsing!Nobody' = Parsing!Nobody  BY DEF Parsing!Nobody
    <3> QED  BY <3>1, <3>2, <3>3 DEF ScanInv
  <2> QED  BY <2>1, <2>2, <2>3 DEF ReadNext
<1>3. Inv => GroupsAreExperts  BY ScannedGroups DEF GroupsAreExperts
<1> QED  BY <1>1, <1>2, <1>3, PTL DEF ReadSpec
=============================================================================
