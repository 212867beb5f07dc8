-------------------------- MODULE Offloading_proofs --------------------------
(***************************************************************************)
(* Proofs about the two offloading programs, for any number of blocks,     *)
(* experts and calls and any cache size.  The argument is about the        *)
(* streams: a kernel reads the right bytes because, for each block it      *)
(* uses, the last copy in front of it is the copy of its expert, and a     *)
(* copy on the other stream is behind it or awaited by it.                 *)
(***************************************************************************)
EXTENDS Offloading, TLAPS, FiniteSetTheorems, SequenceTheorems

Copies   == queue["copy"]
Computes == queue["compute"]

IsLoadTo(op, b) == op.op = "load" /\ op.block = b

(* Once the first n operations of ops are done, block u.block holds        *)
(* u.expert, if m is what the blocks hold now.                             *)
Brings(ops, n, m, u) ==
  \/ \E i \in 1 .. n : /\ IsLoadTo(ops[i], u.block) /\ ops[i].expert = u.expert
                       /\ \A j \in i + 1 .. n : ~IsLoadTo(ops[j], u.block)
  \/ (\A i \in 1 .. n : ~IsLoadTo(ops[i], u.block)) /\ m[u.block] = u.expert

Awaited(n) == Copies = <<>> \/ \E i \in 1 .. n : Computes[i].op = "wait"

(* The n operations before a kernel bring it the bytes of u.               *)
Fed(u, n) ==
  \/ owner[u.block] = "copy" /\ Brings(Copies, Len(Copies), mem, u) /\ Awaited(n)
  \/ owner[u.block] = "compute" /\ Brings(Computes, n, mem, u)

Arrives(u) ==
  /\ owner[u.block] \in Streams
  /\ Brings(queue[owner[u.block]], Len(queue[owner[u.block]]), mem, u)

CopiesOnly  == \A i \in DOMAIN Copies : Copies[i].op = "load"
LoadsOwned  == \A s \in Streams : \A i \in DOMAIN queue[s] :
                 queue[s][i].op = "load" => owner[queue[s][i].block] = s
WaitsForAll == \A i \in DOMAIN Computes :
                 Computes[i].op = "wait" => Computes[i].left = Len(Copies)
KernelsFed  == \A i \in DOMAIN Computes :
                 Computes[i].op = "run" => \A u \in Computes[i].uses : Fed(u, i - 1)
DeviceInv   == CopiesOnly /\ LoadsOwned /\ WaitsForAll /\ KernelsFed

Entries == {gpu[i] : i \in DOMAIN gpu}
LiveInv == \A u \in Entries \cup held : Arrives(u)

(* What the forward call adds: how far prefetch has come, and that a get   *)
(* has waited for the copies before a kernel is launched.                  *)
Prefetched(n) ==
  /\ Len(todo) = Len(active) - n
  /\ \A i \in 1 .. Len(todo) : todo[i] = active[n + i]
  /\ n <= Len(gpu)
  /\ \A i \in 1 .. n : gpu[Len(gpu) - n + i].expert = active[i]

StoreInv ==
  /\ phase = "prefetch" => Computes = <<>>
  /\ phase \in {"idle", "prefetch"} => held = {}
  /\ phase = "launch" \/ (grouped /\ held # {}) => Awaited(Len(Computes))
  /\ phase = "prefetch" => \E n \in 0 .. Len(active) : Prefetched(n)
  /\ \A i, j \in DOMAIN active : active[i] = active[j] => i = j
  /\ BoundRestored
  /\ PrefetchedStayResident

Owned == {b \in Blocks : owner[b] # Unset}

(* What the executor adds: it synchronizes before each provide, and all    *)
(* memory is the copy stream's.                                            *)
ProviderInv ==
  /\ \A b \in Blocks : owner[b] \in {"copy", Unset}
  /\ recorded = {}
  /\ Awaited(Len(Computes))
  /\ phase = "provide" => Computes = <<>>
  /\ phase \in {"provide", "launch"} => todo # <<>>
  /\ MaxResident > 0 => held \subseteq Entries
  /\ \A u, v \in held : u = v
  /\ IsFiniteSet(Owned)
  /\ Len(gpu) <= MaxResident
  /\ \A i, j \in DOMAIN gpu : gpu[i].expert = gpu[j].expert => i = j
  /\ Cardinality(Owned) <= IF MaxResident = 0 THEN 2 ELSE MaxResident + 1

StoreIInv    == TypeOK /\ DeviceInv /\ LiveInv /\ StoreInv
ProviderIInv == Provider!TypeOK /\ DeviceInv /\ LiveInv /\ ProviderInv

IndInv == IF program = "forward" THEN StoreIInv ELSE ProviderIInv
-----------------------------------------------------------------------------
(* What a prefix of a stream brings depends on its loads and on the memory *)
(* of the block alone.                                                     *)
LEMMA BringsSame ==
  ASSUME NEW ops, NEW ops2, NEW n \in Nat, NEW m, NEW m2, NEW u,
         \A i \in 1 .. n : IsLoadTo(ops2[i], u.block) <=> IsLoadTo(ops[i], u.block),
         \A i \in 1 .. n : IsLoadTo(ops[i], u.block) => ops2[i].expert = ops[i].expert,
         m2[u.block] = m[u.block],
         Brings(ops, n, m, u)
  PROVE  Brings(ops2, n, m2, u)
BY DEF Brings

(* Operations that do not write the block change nothing for it.           *)
LEMMA BringsFurther ==
  ASSUME NEW ops, NEW n \in Nat, NEW l \in Nat, n <= l, NEW m, NEW u,
         \A i \in n + 1 .. l : ~IsLoadTo(ops[i], u.block), Brings(ops, n, m, u)
  PROVE  Brings(ops, l, m, u)
<1> USE DEF Brings
<1>1. ASSUME NEW i \in 1 .. n, IsLoadTo(ops[i], u.block), ops[i].expert = u.expert,
             \A j \in i + 1 .. n : ~IsLoadTo(ops[j], u.block)
      PROVE  Brings(ops, l, m, u)
  <2>1. i \in 1 .. l /\ \A j \in i + 1 .. l : j \in i + 1 .. n \/ j \in n + 1 .. l
        OBVIOUS
  <2> QED  BY <1>1, <2>1
<1>2. CASE (\A i \in 1 .. n : ~IsLoadTo(ops[i], u.block)) /\ m[u.block] = u.expert
  <2>1. \A i \in 1 .. l : i \in 1 .. n \/ i \in n + 1 .. l  OBVIOUS
  <2> QED  BY <1>2, <2>1
<1> QED  BY <1>1, <1>2

(* The last copy decides.                                                  *)
LEMMA BringsLast ==
  ASSUME NEW ops, NEW n \in Nat, NEW m, NEW u,
         IsLoadTo(ops[n + 1], u.block), ops[n + 1].expert = u.expert
  PROVE  Brings(ops, n + 1, m, u)
<1>1. n + 1 \in 1 .. n + 1 /\ \A j \in n + 2 .. n + 1 : FALSE  OBVIOUS
<1> QED  BY <1>1 DEF Brings

(* Completing the head leaves to the rest what the rest brought.           *)
LEMMA BringsShift ==
  ASSUME NEW ops, NEW ops2, NEW n \in Nat \ {0}, NEW m, NEW m2, NEW u,
         \A i \in 1 .. n - 1 : ops2[i] = ops[i + 1],
         m2[u.block] = IF IsLoadTo(ops[1], u.block) THEN ops[1].expert ELSE m[u.block],
         Brings(ops, n, m, u)
  PROVE  Brings(ops2, n - 1, m2, u)
<1> USE DEF Brings
<1>0. \A j \in 1 .. n - 1 : j + 1 \in 1 .. n /\ ops2[j] = ops[j + 1]  OBVIOUS
<1>1. ASSUME NEW i \in 1 .. n, IsLoadTo(ops[i], u.block), ops[i].expert = u.expert,
             \A j \in i + 1 .. n : ~IsLoadTo(ops[j], u.block)
      PROVE  Brings(ops2, n - 1, m2, u)
  <2>1. CASE i = 1
    <3>1. \A j \in 1 .. n - 1 : ~IsLoadTo(ops2[j], u.block)
      <4> TAKE j \in 1 .. n - 1
      <4>1. j + 1 \in i + 1 .. n  BY <2>1
      <4> QED  BY <1>0, <1>1, <4>1
    <3> QED  BY <1>1, <2>1, <3>1
  <2>2. CASE i # 1
    <3>1. i - 1 \in 1 .. n - 1 /\ ops2[i - 1] = ops[i]  BY <2>2, <1>0
    <3>2. \A j \in (i - 1) + 1 .. n - 1 : ~IsLoadTo(ops2[j], u.block)
      <4> TAKE j \in (i - 1) + 1 .. n - 1
      <4>1. j + 1 \in i + 1 .. n /\ j \in 1 .. n - 1  BY <2>2
      <4> QED  BY <1>0, <1>1, <4>1
    <3> QED  BY <1>1, <3>1, <3>2
  <2> QED  BY <2>1, <2>2
<1>2. CASE (\A i \in 1 .. n : ~IsLoadTo(ops[i], u.block)) /\ m[u.block] = u.expert
  <2>1. \A j \in 1 .. n - 1 : ~IsLoadTo(ops2[j], u.block)  BY <1>0, <1>2
  <2>2. 1 \in 1 .. n  OBVIOUS
  <2> QED  BY <1>2, <2>1, <2>2
<1> QED  BY <1>1, <1>2

-----------------------------------------------------------------------------
(* The fields of the operations of each kind.                              *)
LEMMA OpTypes ==
  ASSUME DeviceTypeOK, NEW s \in Streams, NEW i \in DOMAIN queue[s]
  PROVE  /\ queue[s][i] \in Ops
         /\ queue[s][i].op \in {"load", "run", "wait"}
         /\ queue[s][i].op = "load" => queue[s][i].block \in Blocks /\ queue[s][i].expert \in Keys
         /\ queue[s][i].op = "run" => queue[s][i].uses \subseteq Use
         /\ queue[s][i].op = "wait" => queue[s][i].left \in Nat
BY DEF DeviceTypeOK, Ops

(* Completing an operation keeps the types of the device.                  *)
LEMMA CompleteTypes ==
  ASSUME DeviceTypeOK, NEW s \in Streams, Complete(s)
  PROVE  DeviceTypeOK'
<1>1. queue[s] \in Seq(Ops) /\ queue[s] # <<>>  BY DEF DeviceTypeOK, Complete
<1>2. 1 \in DOMAIN queue[s] /\ Head(queue[s]) = queue[s][1]  BY <1>1
<1>3. mem' \in [Blocks -> Keys \cup {Unset}]
      BY <1>2, OpTypes DEF Complete, Running, DeviceTypeOK
<1>4. ASSUME NEW q \in Streams PROVE queue'[q] \in Seq(Ops)
  <2>1. CASE q = s  BY <1>1, <2>1 DEF Complete
  <2>2. CASE q # s
    <3> DEFINE Less(o) == IF o.op = "wait" /\ o.left > 0 THEN [o EXCEPT !.left = @ - 1] ELSE o
    <3>1. queue'[q] = [i \in DOMAIN queue[q] |-> Less(queue[q][i])]
          BY <2>2 DEF Complete
    <3>2. \A o \in Ops : Less(o) \in Ops
      <4> TAKE o \in Ops
      <4>1. CASE o.op = "wait" /\ o.left > 0
        <5>1. o \in [op: {"wait"}, left: Nat]  BY <4>1 DEF Ops
        <5>2. [o EXCEPT !.left = @ - 1] \in [op: {"wait"}, left: Nat]  BY <4>1, <5>1
        <5> QED  BY <4>1, <5>2 DEF Ops
      <4>2. CASE ~(o.op = "wait" /\ o.left > 0)  BY <4>2
      <4> QED  BY <4>1, <4>2
    <3> HIDE DEF Less
    <3> QED  BY <3>1, <3>2 DEF DeviceTypeOK
  <2> QED  BY <2>1, <2>2
<1> QED  BY <1>3, <1>4 DEF Complete, DeviceTypeOK

(* What completing the head of the copy stream does to both queues.        *)
LEMMA CompleteCopyEffect ==
  ASSUME DeviceTypeOK, CopiesOnly, WaitsForAll, Complete("copy")
  PROVE  /\ Copies # <<>> /\ Copies \in Seq(Ops) /\ Copies' = Tail(Copies)
         /\ Copies[1].op = "load"
         /\ mem' = [mem EXCEPT ![Copies[1].block] = Copies[1].expert]
         /\ DOMAIN Computes' = DOMAIN Computes /\ Len(Computes') = Len(Computes)
         /\ \A i \in DOMAIN Computes :
              /\ Computes'[i].op = Computes[i].op
              /\ Computes[i].op # "wait" => Computes'[i] = Computes[i]
              /\ Computes[i].op = "wait" => Computes'[i].left = Len(Copies) - 1
         /\ owner' = owner
<1> USE DEF Copies, Computes
<1>1. Copies \in Seq(Ops) /\ Computes \in Seq(Ops)  BY DEF DeviceTypeOK, Streams
<1>2. Copies # <<>> /\ Copies' = Tail(Copies)  BY DEF Complete, Streams
<1>3. 1 \in DOMAIN Copies /\ Head(Copies) = Copies[1]  BY <1>1, <1>2
<1>4. Copies[1].op = "load"  BY <1>3 DEF CopiesOnly
<1>5. mem' = [mem EXCEPT ![Copies[1].block] = Copies[1].expert] /\ owner' = owner
      BY <1>2, <1>3, <1>4 DEF Complete, Running
<1>6. Computes' = [i \in DOMAIN Computes |->
                     IF Computes[i].op = "wait" /\ Computes[i].left > 0
                     THEN [Computes[i] EXCEPT !.left = @ - 1] ELSE Computes[i]]
      BY DEF Complete, Streams
<1>7. DOMAIN Computes' = DOMAIN Computes  BY <1>6
<1>8. Len(Computes') = Len(Computes)
  <2>1. Computes' \in Seq(Ops)  BY CompleteTypes DEF DeviceTypeOK, Streams
  <2> QED  BY <1>1, <1>7, <2>1
<1>9. ASSUME NEW i \in DOMAIN Computes
      PROVE  /\ Computes'[i].op = Computes[i].op
             /\ Computes[i].op # "wait" => Computes'[i] = Computes[i]
             /\ Computes[i].op = "wait" => Computes'[i].left = Len(Copies) - 1
  <2>1. CASE Computes[i].op = "wait"
    <3>1. Computes[i] \in [op: {"wait"}, left: Nat]
          BY <2>1, OpTypes DEF Ops, Streams
    <3>2. Computes[i].left = Len(Copies) /\ Len(Copies) > 0
          BY <1>1, <1>2, <2>1 DEF WaitsForAll
    <3>3. Computes'[i] = [Computes[i] EXCEPT !.left = @ - 1]  BY <1>6, <2>1, <3>2
    <3> QED  BY <2>1, <3>1, <3>2, <3>3
  <2>2. CASE Computes[i].op # "wait"  BY <1>6, <2>2
  <2> QED  BY <2>1, <2>2
<1> QED  BY <1>1, <1>2, <1>4, <1>5, <1>7, <1>8, <1>9

(* And of the compute stream: a wait completes once nothing is copied.     *)
LEMMA CompleteComputeEffect ==
  ASSUME DeviceTypeOK, CopiesOnly, WaitsForAll, Complete("compute")
  PROVE  /\ Computes # <<>> /\ Computes \in Seq(Ops) /\ Computes' = Tail(Computes)
         /\ Copies' = Copies
         /\ Computes[1].op = "wait" => Copies = <<>>
         /\ mem' = IF Computes[1].op = "load"
                   THEN [mem EXCEPT ![Computes[1].block] = Computes[1].expert] ELSE mem
         /\ owner' = owner
<1> USE DEF Copies, Computes
<1>1. Copies \in Seq(Ops) /\ Computes \in Seq(Ops)  BY DEF DeviceTypeOK, Streams
<1>2. Computes # <<>> /\ Computes' = Tail(Computes)  BY DEF Complete, Streams
<1>3. 1 \in DOMAIN Computes /\ Head(Computes) = Computes[1]  BY <1>1, <1>2
<1>4. mem' = IF Computes[1].op = "load"
             THEN [mem EXCEPT ![Computes[1].block] = Computes[1].expert] ELSE mem
      BY <1>2, <1>3 DEF Complete, Running
<1>5. Computes[1].op = "wait" => Copies = <<>>
      BY <1>1, <1>2, <1>3 DEF Complete, Running, WaitsForAll
<1>6. Copies' = Copies
  <2>1. Copies' = [i \in DOMAIN Copies |->
                     IF Copies[i].op = "wait" /\ Copies[i].left > 0
                     THEN [Copies[i] EXCEPT !.left = @ - 1] ELSE Copies[i]]
        BY DEF Complete, Streams
  <2>2. \A i \in DOMAIN Copies : Copies[i].op # "wait"  BY DEF CopiesOnly
  <2>3. Copies' = [i \in DOMAIN Copies |-> Copies[i]]  BY <2>1, <2>2
  <2> QED  BY <1>1, <2>3
<1> QED  BY <1>1, <1>2, <1>4, <1>5, <1>6 DEF Complete

-----------------------------------------------------------------------------
(* What arrives still arrives when an operation completes.                 *)
LEMMA CompleteArrives ==
  ASSUME DeviceTypeOK, DeviceInv, NEW s \in Streams, Complete(s), NEW u \in Use, Arrives(u)
  PROVE  Arrives(u)'
<1> USE DEF DeviceInv
<1> DEFINE o == owner[u.block]
<1>0. Copies \in Seq(Ops) /\ Computes \in Seq(Ops) /\ u.block \in Blocks
      BY DEF DeviceTypeOK, Streams, Copies, Computes, Use
<1>1. CASE s = "copy"
  <2>e. /\ Copies # <<>> /\ Copies' = Tail(Copies) /\ Copies[1].op = "load"
        /\ mem' = [mem EXCEPT ![Copies[1].block] = Copies[1].expert]
        /\ DOMAIN Computes' = DOMAIN Computes /\ Len(Computes') = Len(Computes)
        /\ \A i \in DOMAIN Computes :
              /\ Computes'[i].op = Computes[i].op
              /\ Computes[i].op # "wait" => Computes'[i] = Computes[i]
        /\ owner' = owner
        BY <1>1, CompleteCopyEffect
  <2>1. CASE o = "copy"
    <3>1. Brings(Copies, Len(Copies), mem, u)  BY <2>1 DEF Arrives, Copies
    <3>2. Len(Copies) \in Nat \ {0} /\ Len(Copies') = Len(Copies) - 1
          /\ \A i \in 1 .. Len(Copies) - 1 : Copies'[i] = Copies[i + 1]
          BY <1>0, <2>e
    <3>3. mem'[u.block] = IF IsLoadTo(Copies[1], u.block) THEN Copies[1].expert ELSE mem[u.block]
          BY <1>0, <2>e DEF IsLoadTo, DeviceTypeOK
    <3>4. Brings(Copies', Len(Copies) - 1, mem', u)
      <4> HIDE DEF Copies
      <4> QED  BY <3>1, <3>2, <3>3, BringsShift
    <3> QED  BY <2>1, <2>e, <3>2, <3>4 DEF Arrives, Streams, Copies
  <2>2. CASE o = "compute"
    <3>1. Brings(Computes, Len(Computes), mem, u)  BY <2>2 DEF Arrives, Computes
    <3>2. \A i \in 1 .. Len(Computes) : IsLoadTo(Computes'[i], u.block) <=> IsLoadTo(Computes[i], u.block)
          BY <1>0, <2>e DEF IsLoadTo
    <3>3. \A i \in 1 .. Len(Computes) : IsLoadTo(Computes[i], u.block) => Computes'[i].expert = Computes[i].expert
          BY <1>0, <2>e DEF IsLoadTo
    <3>4. owner[Copies[1].block] = "copy"
          BY <1>0, <2>e DEF LoadsOwned, Copies, Streams
    <3>5. mem'[u.block] = mem[u.block]  BY <2>2, <2>e, <3>4
    <3>6. Brings(Computes', Len(Computes), mem', u)
          BY <1>0, <3>1, <3>2, <3>3, <3>5, BringsSame
    <3> QED  BY <2>2, <2>e, <3>6 DEF Arrives, Streams, Computes
  <2> QED  BY <2>1, <2>2 DEF Arrives, Streams
<1>2. CASE s = "compute"
  <2>e. /\ Computes # <<>> /\ Computes' = Tail(Computes) /\ Copies' = Copies
        /\ mem' = IF Computes[1].op = "load"
                  THEN [mem EXCEPT ![Computes[1].block] = Computes[1].expert] ELSE mem
        /\ owner' = owner
        BY <1>2, CompleteComputeEffect
  <2>3. mem'[u.block] = IF IsLoadTo(Computes[1], u.block) THEN Computes[1].expert ELSE mem[u.block]
          BY <1>0, <2>e DEF IsLoadTo, DeviceTypeOK
  <2>1. CASE o = "compute"
    <3>1. Brings(Computes, Len(Computes), mem, u)  BY <2>1 DEF Arrives, Computes
    <3>2. Len(Computes) \in Nat \ {0} /\ Len(Computes') = Len(Computes) - 1
          /\ \A i \in 1 .. Len(Computes) - 1 : Computes'[i] = Computes[i + 1]
          BY <1>0, <2>e
    <3>4. Brings(Computes', Len(Computes) - 1, mem', u)
          BY <3>1, <3>2, <2>3, BringsShift
    <3> QED  BY <2>1, <2>e, <3>2, <3>4 DEF Arrives, Streams, Computes
  <2>2. CASE o = "copy"
    <3>1. Brings(Copies, Len(Copies), mem, u)  BY <2>2 DEF Arrives, Copies
    <3>2. IsLoadTo(Computes[1], u.block) => o = "compute"
          BY <1>0, <2>e DEF LoadsOwned, Computes, Streams, IsLoadTo
    <3>3. mem'[u.block] = mem[u.block]  BY <2>2, <2>3, <3>2
    <3>4. Brings(Copies, Len(Copies), mem', u)
          BY <1>0, <3>1, <3>3, BringsSame
    <3> QED  BY <2>2, <2>e, <3>4 DEF Arrives, Streams, Copies
  <2> QED  BY <2>1, <2>2 DEF Arrives, Streams
<1> QED  BY <1>1, <1>2 DEF Streams

(* A wait that completes found the copies done.                            *)
LEMMA CompleteAwaited ==
  ASSUME DeviceTypeOK, DeviceInv, NEW s \in Streams, Complete(s), Awaited(Len(Computes))
  PROVE  Awaited(Len(Computes))'
<1> USE DEF DeviceInv, Awaited
<1>0. Copies \in Seq(Ops) /\ Computes \in Seq(Ops)
      BY DEF DeviceTypeOK, Streams, Copies, Computes
<1>1. CASE s = "copy"
  <2>e. /\ Copies # <<>> /\ DOMAIN Computes' = DOMAIN Computes /\ Len(Computes') = Len(Computes)
        /\ \A i \in DOMAIN Computes : Computes'[i].op = Computes[i].op
        BY <1>1, CompleteCopyEffect
  <2> QED  BY <1>0, <2>e
<1>2. CASE s = "compute"
  <2>e. /\ Computes # <<>> /\ Computes' = Tail(Computes) /\ Copies' = Copies
        /\ Computes[1].op = "wait" => Copies = <<>>
        BY <1>2, CompleteComputeEffect
  <2>1. CASE Copies = <<>>  BY <2>e, <2>1
  <2>2. ASSUME NEW i \in 1 .. Len(Computes), Computes[i].op = "wait", Copies # <<>>
        PROVE  Awaited(Len(Computes))'
    <3>1. i # 1  BY <2>2, <2>e
    <3>2. i - 1 \in 1 .. Len(Computes') /\ Computes'[i - 1].op = "wait"
          BY <1>0, <2>2, <2>e, <3>1
    <3> QED  BY <3>2
  <2> QED  BY <2>1, <2>2
<1> QED  BY <1>1, <1>2 DEF Streams

(* A kernel further back stays fed when a copy completes ...               *)
LEMMA CompleteCopyFed ==
  ASSUME DeviceTypeOK, DeviceInv, Complete("copy"), NEW u \in Use,
         NEW n \in 0 .. Len(Computes), Fed(u, n)
  PROVE  Fed(u, n)'
<1> USE DEF DeviceInv
<1>0. Copies \in Seq(Ops) /\ Computes \in Seq(Ops) /\ u.block \in Blocks
      BY DEF DeviceTypeOK, Streams, Copies, Computes, Use
<1>e. /\ Copies # <<>> /\ Copies' = Tail(Copies) /\ Copies[1].op = "load"
      /\ mem' = [mem EXCEPT ![Copies[1].block] = Copies[1].expert]
      /\ DOMAIN Computes' = DOMAIN Computes
      /\ \A i \in DOMAIN Computes :
            /\ Computes'[i].op = Computes[i].op
            /\ Computes[i].op # "wait" => Computes'[i] = Computes[i]
      /\ owner' = owner
      BY CompleteCopyEffect
<1>d. n \in Nat /\ \A i \in 1 .. n : i \in DOMAIN Computes  BY <1>0
<1>1. CASE owner[u.block] = "copy"
  <2>1. Brings(Copies, Len(Copies), mem, u) /\ Awaited(n)  BY <1>1 DEF Fed
  <2>2. Len(Copies) \in Nat \ {0} /\ Len(Copies') = Len(Copies) - 1
        /\ \A i \in 1 .. Len(Copies) - 1 : Copies'[i] = Copies[i + 1]
        BY <1>0, <1>e
  <2>3. mem'[u.block] = IF IsLoadTo(Copies[1], u.block) THEN Copies[1].expert ELSE mem[u.block]
        BY <1>0, <1>e DEF IsLoadTo, DeviceTypeOK
  <2>4. Brings(Copies', Len(Copies) - 1, mem', u)
        BY <2>1, <2>2, <2>3, BringsShift
  <2>5. Awaited(n)'  BY <1>d, <1>e, <2>1 DEF Awaited
  <2> QED  BY <1>1, <1>e, <2>2, <2>4, <2>5 DEF Fed
<1>2. CASE owner[u.block] = "compute"
  <2>1. Brings(Computes, n, mem, u)  BY <1>2 DEF Fed
  <2>2. \A i \in 1 .. n : /\ IsLoadTo(Computes'[i], u.block) <=> IsLoadTo(Computes[i], u.block)
                          /\ IsLoadTo(Computes[i], u.block) => Computes'[i].expert = Computes[i].expert
        BY <1>d, <1>e DEF IsLoadTo
  <2>3. owner[Copies[1].block] = "copy"
        BY <1>0, <1>e DEF LoadsOwned, Copies, Streams
  <2>4. mem'[u.block] = mem[u.block]  BY <1>2, <1>e, <2>3
  <2>5. Brings(Computes', n, mem', u)  BY <1>d, <2>1, <2>2, <2>4, BringsSame
  <2> QED  BY <1>2, <1>e, <2>5 DEF Fed
<1> QED  BY <1>1, <1>2 DEF Fed

(* ... and when the head of its own stream does, one place nearer to it.   *)
LEMMA CompleteComputeFed ==
  ASSUME DeviceTypeOK, DeviceInv, Complete("compute"), NEW u \in Use,
         NEW n \in 1 .. Len(Computes), Fed(u, n)
  PROVE  Fed(u, n - 1)'
<1> USE DEF DeviceInv
<1>0. Copies \in Seq(Ops) /\ Computes \in Seq(Ops) /\ u.block \in Blocks /\ n \in Nat \ {0}
      BY DEF DeviceTypeOK, Streams, Copies, Computes, Use
<1>e. /\ Computes # <<>> /\ Computes' = Tail(Computes) /\ Copies' = Copies
      /\ Computes[1].op = "wait" => Copies = <<>>
      /\ mem' = IF Computes[1].op = "load"
                THEN [mem EXCEPT ![Computes[1].block] = Computes[1].expert] ELSE mem
      /\ owner' = owner
      BY CompleteComputeEffect
<1>s. \A i \in 1 .. n - 1 : Computes'[i] = Computes[i + 1]  BY <1>0, <1>e
<1>m. mem'[u.block] = IF IsLoadTo(Computes[1], u.block) THEN Computes[1].expert ELSE mem[u.block]
      BY <1>0, <1>e DEF IsLoadTo, DeviceTypeOK
<1>1. CASE owner[u.block] = "copy"
  <2>1. Brings(Copies, Len(Copies), mem, u) /\ Awaited(n)  BY <1>1 DEF Fed
  <2>2. IsLoadTo(Computes[1], u.block) => owner[u.block] = "compute"
        BY <1>0, <1>e DEF LoadsOwned, Computes, Streams, IsLoadTo
  <2>3. mem'[u.block] = mem[u.block]  BY <1>1, <1>m, <2>2
  <2>4. Brings(Copies, Len(Copies), mem', u)  BY <1>0, <2>1, <2>3, BringsSame
  <2>5. Awaited(n - 1)'
    <3>1. CASE Copies = <<>>  BY <1>e, <3>1 DEF Awaited
    <3>2. ASSUME NEW i \in 1 .. n, Computes[i].op = "wait", Copies # <<>>
          PROVE  Awaited(n - 1)'
      <4>1. i # 1  BY <3>2, <1>e
      <4>2. i - 1 \in 1 .. n - 1 /\ Computes'[i - 1].op = "wait"  BY <1>0, <1>s, <3>2, <4>1
      <4> QED  BY <4>2 DEF Awaited
    <3> QED  BY <2>1, <3>1, <3>2 DEF Awaited
  <2> QED  BY <1>1, <1>e, <2>4, <2>5 DEF Fed
<1>2. CASE owner[u.block] = "compute"
  <2>1. Brings(Computes, n, mem, u)  BY <1>2 DEF Fed
  <2>2. Brings(Computes', n - 1, mem', u)  BY <1>0, <1>s, <1>m, <2>1, BringsShift
  <2> QED  BY <1>2, <1>e, <2>2 DEF Fed
<1> QED  BY <1>1, <1>2 DEF Fed

(* Completing an operation keeps the invariant of the device.              *)
LEMMA CompleteInv ==
  ASSUME DeviceTypeOK, DeviceInv, NEW s \in Streams, Complete(s)
  PROVE  DeviceInv'
<1> USE DEF DeviceInv
<1>0. Copies \in Seq(Ops) /\ Computes \in Seq(Ops)
      BY DEF DeviceTypeOK, Streams, Copies, Computes
<1>u. \A i \in DOMAIN Computes : Computes[i].op = "run" => Computes[i].uses \subseteq Use
      BY OpTypes DEF Streams, Computes
<1>1. CASE s = "copy"
  <2>e. /\ Copies # <<>> /\ Copies' = Tail(Copies)
        /\ DOMAIN Computes' = DOMAIN Computes /\ Len(Computes') = Len(Computes)
        /\ \A i \in DOMAIN Computes :
              /\ Computes'[i].op = Computes[i].op
              /\ Computes[i].op # "wait" => Computes'[i] = Computes[i]
              /\ Computes[i].op = "wait" => Computes'[i].left = Len(Copies) - 1
        /\ owner' = owner
        BY <1>1, CompleteCopyEffect
  <2>c. /\ Len(Copies') = Len(Copies) - 1 /\ DOMAIN Copies' = 1 .. Len(Copies) - 1
        /\ \A i \in DOMAIN Copies' : i + 1 \in DOMAIN Copies /\ Copies'[i] = Copies[i + 1]
        BY <1>0, <2>e
  <2>1. CopiesOnly'  BY <2>c DEF CopiesOnly
  <2>2. LoadsOwned'
    <3>1. \A i \in DOMAIN Copies' : Copies'[i].op = "load" => owner'[Copies'[i].block] = "copy"
          BY <2>c, <2>e DEF LoadsOwned, Copies, Streams
    <3>2. \A i \in DOMAIN Computes' : Computes'[i].op = "load" => owner'[Computes'[i].block] = "compute"
          BY <2>e DEF LoadsOwned, Computes, Streams
    <3> QED  BY <3>1, <3>2 DEF LoadsOwned, Copies, Computes, Streams
  <2>3. WaitsForAll'  BY <2>c, <2>e DEF WaitsForAll
  <2>4. KernelsFed'
    <3> SUFFICES ASSUME NEW i \in DOMAIN Computes', Computes'[i].op = "run",
                        NEW u \in Computes'[i].uses
                 PROVE  Fed(u, i - 1)'
        BY DEF KernelsFed
    <3>1. Computes'[i] = Computes[i] /\ u \in Use /\ Fed(u, i - 1)
          BY <2>e, <1>u DEF KernelsFed
    <3>2. i - 1 \in 0 .. Len(Computes)  BY <1>0, <2>e
    <3> QED  BY <1>1, <3>1, <3>2, CompleteCopyFed
  <2> QED  BY <2>1, <2>2, <2>3, <2>4
<1>2. CASE s = "compute"
  <2>e. /\ Computes # <<>> /\ Computes' = Tail(Computes) /\ Copies' = Copies
        /\ owner' = owner
        BY <1>2, CompleteComputeEffect
  <2>c. /\ DOMAIN Computes' = 1 .. Len(Computes) - 1
        /\ \A i \in DOMAIN Computes' : i + 1 \in DOMAIN Computes /\ Computes'[i] = Computes[i + 1]
        BY <1>0, <2>e
  <2>1. CopiesOnly'  BY <2>e DEF CopiesOnly
  <2>2. LoadsOwned'
    <3>1. \A i \in DOMAIN Copies' : Copies'[i].op = "load" => owner'[Copies'[i].block] = "copy"
          BY <2>e DEF LoadsOwned, Copies, Streams
    <3>2. \A i \in DOMAIN Computes' : Computes'[i].op = "load" => owner'[Computes'[i].block] = "compute"
          BY <2>c, <2>e DEF LoadsOwned, Computes, Streams
    <3> QED  BY <3>1, <3>2 DEF LoadsOwned, Copies, Computes, Streams
  <2>3. WaitsForAll'  BY <2>c, <2>e DEF WaitsForAll
  <2>4. KernelsFed'
    <3> SUFFICES ASSUME NEW i \in DOMAIN Computes', Computes'[i].op = "run",
                        NEW u \in Computes'[i].uses
                 PROVE  Fed(u, i - 1)'
        BY DEF KernelsFed
    <3>1. i + 1 \in DOMAIN Computes /\ Computes'[i] = Computes[i + 1]  BY <2>c
    <3>2. u \in Use /\ Fed(u, (i + 1) - 1)  BY <3>1, <1>u DEF KernelsFed
    <3>3. (i + 1) - 1 = i /\ i \in 1 .. Len(Computes)  BY <1>0, <2>c
    <3>4. Fed(u, i)  BY <3>2, <3>3
    <3> QED  BY <1>2, <3>2, <3>3, <3>4, CompleteComputeFed
  <2> QED  BY <2>1, <2>2, <2>3, <2>4
<1> QED  BY <1>1, <1>2 DEF Streams

-----------------------------------------------------------------------------
(* The allocator hands out a block nobody refers to, of the stream's pool  *)
(* or never used.                                                          *)
LEMMA AllocatedBlock ==
  ASSUME NEW s \in Streams, NEW live, NEW b \in Allocatable(s, live)
  PROVE  /\ b \in Blocks
         /\ owner[b] \in {s, Unset}
         /\ \A u \in Use : Arrives(u) /\ u.block \in live => u.block # b
<1>1. b \in Blocks /\ owner[b] \in {s, Unset} /\ (b \notin live \/ owner[b] = Unset)
  <2>1. CASE Reusable(s, live) # {}  BY <2>1 DEF Allocatable, Reusable
  <2>2. CASE Reusable(s, live) = {}  BY <2>2 DEF Allocatable
  <2> QED  BY <2>1, <2>2
<1>2. \A u \in Use : Arrives(u) => owner[u.block] # Unset
      BY UnsetAssumption DEF Arrives, Streams
<1> QED  BY <1>1, <1>2

(* Work issued on the compute stream: what was issued before is fed as it  *)
(* was, and what arrived arrives unless a new copy overwrites it.          *)
LEMMA ComputeGrows ==
  ASSUME DeviceTypeOK, DeviceInv, mem' = mem, Copies' = Copies,
         \A b \in Blocks : owner[b] \in Streams => owner'[b] = owner[b],
         Computes' \in Seq(Ops), Len(Computes) <= Len(Computes'),
         \A i \in 1 .. Len(Computes) : Computes'[i] = Computes[i]
  PROVE  /\ \A u \in Use, n \in 0 .. Len(Computes) : Fed(u, n) => Fed(u, n)'
         /\ \A u \in Use :
              /\ Arrives(u)
              /\ \A i \in Len(Computes) + 1 .. Len(Computes') : ~IsLoadTo(Computes'[i], u.block)
              => Arrives(u)'
         /\ Awaited(Len(Computes)) => Awaited(Len(Computes))'
         /\ (\A i \in Len(Computes) + 1 .. Len(Computes') :
              /\ Computes'[i].op = "load" => owner'[Computes'[i].block] = "compute"
              /\ Computes'[i].op = "wait" => Computes'[i].left = Len(Copies)
              /\ Computes'[i].op = "run" => \A u \in Computes'[i].uses : Fed(u, i - 1)')
            => DeviceInv'
<1> USE DEF DeviceInv
<1>0. /\ Copies \in Seq(Ops) /\ Computes \in Seq(Ops)
      /\ DOMAIN Computes = 1 .. Len(Computes) /\ Len(Computes) \in Nat /\ Len(Computes') \in Nat
      BY DEF DeviceTypeOK, Streams, Copies, Computes
<1>u. \A i \in DOMAIN Computes : Computes[i].op = "run" => Computes[i].uses \subseteq Use
      BY OpTypes DEF Streams, Computes
<1>1. ASSUME NEW u \in Use, NEW n \in 0 .. Len(Computes), Fed(u, n) PROVE Fed(u, n)'
  <2>0. owner[u.block] \in Streams /\ owner'[u.block] = owner[u.block] /\ n \in Nat
        BY <1>1 DEF Fed, Streams, Use
  <2>1. CASE owner[u.block] = "copy"
    <3>1. Awaited(n)'
      <4>1. \A i \in 1 .. n : Computes'[i] = Computes[i]  BY <1>0
      <4> QED  BY <1>1, <2>1, <4>1 DEF Fed, Awaited
    <3> QED  BY <1>1, <2>0, <2>1, <3>1 DEF Fed
  <2>2. CASE owner[u.block] = "compute"
    <3>1. \A i \in 1 .. n : Computes'[i] = Computes[i]  BY <1>0
    <3>2. Brings(Computes', n, mem, u)  BY <1>1, <2>0, <2>2, <3>1, BringsSame DEF Fed
    <3> QED  BY <2>0, <2>2, <3>2 DEF Fed
  <2> QED  BY <2>0, <2>1, <2>2 DEF Streams
<1>2. ASSUME NEW u \in Use, Arrives(u),
             \A i \in Len(Computes) + 1 .. Len(Computes') : ~IsLoadTo(Computes'[i], u.block)
      PROVE  Arrives(u)'
  <2>0. owner[u.block] \in Streams /\ owner'[u.block] = owner[u.block]
        BY <1>2 DEF Arrives, Use
  <2>1. CASE owner[u.block] = "copy"  BY <1>2, <2>0, <2>1 DEF Arrives, Copies
  <2>2. CASE owner[u.block] = "compute"
    <3>0. Brings(Computes, Len(Computes), mem, u)  BY <1>2, <2>2 DEF Arrives, Computes
    <3>1. Brings(Computes', Len(Computes), mem, u)  BY <1>0, <3>0, BringsSame
    <3>2. Brings(Computes', Len(Computes'), mem, u)
          BY <1>0, <1>2, <3>1, BringsFurther
    <3> QED  BY <2>0, <2>2, <3>2 DEF Arrives, Computes
  <2> QED  BY <2>0, <2>1, <2>2 DEF Streams
<1>3. Awaited(Len(Computes)) => Awaited(Len(Computes))'
  <2>1. \A i \in 1 .. Len(Computes) : i \in 1 .. Len(Computes')  BY <1>0
  <2> QED  BY <2>1 DEF Awaited
<1>4. ASSUME \A i \in Len(Computes) + 1 .. Len(Computes') :
              /\ Computes'[i].op = "load" => owner'[Computes'[i].block] = "compute"
              /\ Computes'[i].op = "wait" => Computes'[i].left = Len(Copies)
              /\ Computes'[i].op = "run" => \A u \in Computes'[i].uses : Fed(u, i - 1)'
      PROVE  DeviceInv'
  <2>0. \A i \in DOMAIN Computes' : i \in 1 .. Len(Computes) \/ i \in Len(Computes) + 1 .. Len(Computes')
        BY <1>0
  <2>1. CopiesOnly'  BY DEF CopiesOnly
  <2>2. LoadsOwned'
    <3>1. \A i \in DOMAIN Copies' : Copies'[i].op = "load" => owner'[Copies'[i].block] = "copy"
      <4> SUFFICES ASSUME NEW i \in DOMAIN Copies, Copies[i].op = "load"
                   PROVE  owner'[Copies[i].block] = "copy"
          OBVIOUS
      <4> QED  BY OpTypes DEF LoadsOwned, Copies, Streams
    <3>2. \A i \in 1 .. Len(Computes) : Computes'[i].op = "load" => owner'[Computes'[i].block] = "compute"
      <4> SUFFICES ASSUME NEW i \in 1 .. Len(Computes), Computes[i].op = "load"
                   PROVE  owner'[Computes[i].block] = "compute"
          OBVIOUS
      <4> QED  BY <1>0, OpTypes DEF LoadsOwned, Computes, Streams
    <3> QED  BY <1>4, <2>0, <3>1, <3>2 DEF LoadsOwned, Copies, Computes, Streams
  <2>3. WaitsForAll'  BY <1>0, <1>4, <2>0 DEF WaitsForAll
  <2>4. KernelsFed'
    <3> SUFFICES ASSUME NEW i \in DOMAIN Computes', Computes'[i].op = "run",
                        NEW u \in Computes'[i].uses
                 PROVE  Fed(u, i - 1)'
        BY DEF KernelsFed
    <3>1. CASE i \in 1 .. Len(Computes)
      <4>1. u \in Use /\ Fed(u, i - 1) /\ i - 1 \in 0 .. Len(Computes)
            BY <1>0, <1>u, <3>1 DEF KernelsFed
      <4> QED  BY <1>1, <4>1
    <3> QED  BY <1>4, <2>0, <3>1
  <2> QED  BY <2>1, <2>2, <2>3, <2>4
<1> QED  BY <1>1, <1>2, <1>3, <1>4

(* A copy issued on the copy stream while the compute stream is idle.      *)
LEMMA CopyGrows ==
  ASSUME DeviceTypeOK, DeviceInv, Computes = <<>>, NEW b \in Blocks, NEW k \in Keys,
         owner[b] \in {"copy", Unset},
         mem' = mem, owner' = [owner EXCEPT ![b] = "copy"],
         Copies' = Append(Copies, LoadOp(b, k)),
         Computes' \in Seq(Ops),
         \A i \in DOMAIN Computes' : /\ Computes'[i].op = "wait"
                                     /\ Computes'[i].left = Len(Copies) + 1
  PROVE  /\ DeviceInv'
         /\ Arrives([block |-> b, expert |-> k])'
         /\ \A u \in Use : Arrives(u) /\ u.block # b => Arrives(u)'
<1> USE DEF DeviceInv
<1> DEFINE c == Len(Copies)
<1>0. /\ Copies \in Seq(Ops) /\ c \in Nat /\ Len(Copies') = c + 1 /\ DOMAIN Copies' = 1 .. c + 1
      /\ \A i \in 1 .. c : i \in DOMAIN Copies /\ Copies'[i] = Copies[i]
      /\ Copies'[c + 1] = LoadOp(b, k)
      BY DEF DeviceTypeOK, Streams, Copies
<1>l. /\ LoadOp(b, k).op = "load" /\ LoadOp(b, k).block = b /\ LoadOp(b, k).expert = k
      BY DEF LoadOp
<1>c. \A i \in DOMAIN Copies' : i \in 1 .. c \/ i = c + 1  BY <1>0
<1>o. owner'[b] = "copy" /\ \A x \in Blocks : x # b => owner'[x] = owner[x]
      BY DEF DeviceTypeOK
<1>1. CopiesOnly'  BY <1>0, <1>c, <1>l DEF CopiesOnly
<1>2. LoadsOwned'
  <2>1. ASSUME NEW i \in 1 .. c, Copies[i].op = "load" PROVE owner'[Copies[i].block] = "copy"
    <3>1. Copies[i].block \in Blocks  BY <1>0, <2>1, OpTypes DEF Copies, Streams
    <3>2. owner[Copies[i].block] = "copy"
          BY <1>0, <2>1 DEF LoadsOwned, Copies, Streams
    <3> QED  BY <1>o, <3>1, <3>2
  <2>2. \A i \in DOMAIN Copies' : Copies'[i].op = "load" => owner'[Copies'[i].block] = "copy"
        BY <1>0, <1>c, <1>l, <1>o, <2>1
  <2>3. \A i \in DOMAIN Computes' : Computes'[i].op # "load"  OBVIOUS
  <2> QED  BY <2>2, <2>3 DEF LoadsOwned, Copies, Computes, Streams
<1>3. WaitsForAll'  BY <1>0 DEF WaitsForAll
<1>4. KernelsFed'  BY DEF KernelsFed
<1>5. Arrives([block |-> b, expert |-> k])'
  <2> DEFINE u == [block |-> b, expert |-> k]
  <2>1. IsLoadTo(Copies'[c + 1], u.block) /\ Copies'[c + 1].expert = u.expert
        BY <1>0, <1>l DEF IsLoadTo
  <2> HIDE DEF u
  <2>2. Brings(Copies', c + 1, mem', u)  BY <1>0, <2>1, BringsLast
  <2>3. owner'[u.block] = "copy"  BY <1>o DEF u
  <2>4. Arrives(u)'  BY <1>0, <2>2, <2>3 DEF Arrives, Copies, Streams
  <2> QED  BY <2>4 DEF u
<1>6. ASSUME NEW u \in Use, Arrives(u), u.block # b PROVE Arrives(u)'
  <2>0. owner'[u.block] = owner[u.block] /\ owner[u.block] \in Streams
        BY <1>6, <1>o DEF Arrives, Use
  <2>1. CASE owner[u.block] = "copy"
    <3>1. Brings(Copies, c, mem, u)  BY <1>6, <2>1 DEF Arrives, Copies
    <3>2. Brings(Copies', c, mem', u)  BY <1>0, <3>1, BringsSame
    <3>3. \A i \in c + 1 .. c + 1 : ~IsLoadTo(Copies'[i], u.block)
          BY <1>0, <1>l, <1>6 DEF IsLoadTo
    <3>4. Brings(Copies', c + 1, mem', u)
      <4>1. c \in Nat /\ c + 1 \in Nat /\ c <= c + 1  BY <1>0
      <4> HIDE DEF c
      <4> QED  BY <3>2, <3>3, <4>1, BringsFurther
    <3> QED  BY <1>0, <2>0, <2>1, <3>4 DEF Arrives, Copies
  <2>2. CASE owner[u.block] = "compute"
    <3>1. Brings(Computes, Len(Computes), mem, u)  BY <1>6, <2>2 DEF Arrives, Computes
    <3>2. Len(Computes) = 0 /\ mem[u.block] = u.expert  BY <3>1 DEF Brings
    <3>3. Len(Computes') \in Nat /\ \A i \in 1 .. Len(Computes') : ~IsLoadTo(Computes'[i], u.block)
          BY DEF IsLoadTo
    <3>4. Brings(Computes', Len(Computes'), mem', u)  BY <3>2, <3>3 DEF Brings
    <3> QED  BY <2>0, <2>2, <3>4 DEF Arrives, Computes
  <2> QED  BY <2>0, <2>1, <2>2 DEF Streams
<1> QED  BY <1>1, <1>2, <1>3, <1>4, <1>5, <1>6

-----------------------------------------------------------------------------
(* Dropping one element of a sequence and moving it to the end.            *)
LEMMA MovedToEnd ==
  ASSUME NEW S, NEW s \in Seq(S), NEW i \in DOMAIN s
  PROVE  LET t == Append(RemoveAt(s, i), s[i])
         IN  /\ t \in Seq(S) /\ Len(t) = Len(s) /\ DOMAIN t = DOMAIN s
             /\ \A j \in 1 .. i - 1 : t[j] = s[j]
             /\ \A j \in i .. Len(s) - 1 : t[j] = s[j + 1]
             /\ t[Len(s)] = s[i]
<1> DEFINE a == SubSeq(s, 1, i - 1)
           d == SubSeq(s, i + 1, Len(s))
           r == RemoveAt(s, i)
<1>0. i \in 1 .. Len(s) /\ Len(s) \in Nat  OBVIOUS
<1>1. a \in Seq(S) /\ Len(a) = i - 1 /\ \A j \in 1 .. i - 1 : a[j] = s[j]  BY <1>0
<1>2. d \in Seq(S) /\ Len(d) = Len(s) - i /\ \A j \in 1 .. Len(s) - i : d[j] = s[i + j]  BY <1>0
<1>3. /\ r \in Seq(S) /\ Len(r) = Len(s) - 1
      /\ \A j \in 1 .. i - 1 : r[j] = s[j]
      /\ \A j \in i .. Len(s) - 1 : r[j] = s[j + 1]
  <2>1. r = a \o d  BY DEF RemoveAt
  <2> HIDE DEF a, d, r
  <2>2. r \in Seq(S) /\ Len(r) = Len(s) - 1  BY <1>0, <1>1, <1>2, <2>1
  <2>3. \A j \in 1 .. i - 1 : r[j] = s[j]  BY <1>0, <1>1, <1>2, <2>1
  <2>4. \A j \in i .. Len(s) - 1 : r[j] = s[j + 1]
    <3> SUFFICES ASSUME NEW j \in i .. Len(s) - 1 PROVE r[j] = s[j + 1]  OBVIOUS
    <3>1. j \in 1 .. Len(a) + Len(d) /\ ~(j <= Len(a)) /\ Len(a) = i - 1
          BY <1>0, <1>1, <1>2
    <3>2. r[j] = d[j - Len(a)]  BY <1>1, <1>2, <2>1, <3>1, ConcatProperties
    <3>3. j - Len(a) \in 1 .. Len(s) - i /\ i + (j - Len(a)) = j + 1  BY <1>0, <3>1
    <3> QED  BY <1>2, <3>2, <3>3
  <2> QED  BY <2>2, <2>3, <2>4
<1> HIDE DEF a, d, r
<1>4. s[i] \in S  BY <1>0
<1>5. LET t == Append(r, s[i])
      IN  /\ t \in Seq(S) /\ Len(t) = Len(s) /\ DOMAIN t = DOMAIN s
          /\ \A j \in 1 .. i - 1 : t[j] = s[j]
          /\ \A j \in i .. Len(s) - 1 : t[j] = s[j + 1]
          /\ t[Len(s)] = s[i]
      BY <1>0, <1>3, <1>4
<1> QED  BY <1>5 DEF r

(* A hit: the entry moves to the end, the others keep their order.         *)
LEMMA TouchedEntries ==
  ASSUME gpu \in Seq(Use), NEW k, Resident(k)
  PROVE  /\ At(k) \in DOMAIN gpu /\ EntryOf(k).expert = k
         /\ EntryOf(k) \in Use /\ EntryOf(k) \in Entries
         /\ Touched(k) \in Seq(Use) /\ Len(Touched(k)) = Len(gpu)
         /\ \A j \in 1 .. At(k) - 1 : Touched(k)[j] = gpu[j]
         /\ \A j \in At(k) .. Len(gpu) - 1 : Touched(k)[j] = gpu[j + 1]
         /\ Touched(k)[Len(gpu)] = EntryOf(k)
         /\ {Touched(k)[j] : j \in DOMAIN Touched(k)} = Entries
<1>1. At(k) \in DOMAIN gpu /\ gpu[At(k)].expert = k  BY DEF Resident, At
<1>2. /\ Touched(k) \in Seq(Use) /\ Len(Touched(k)) = Len(gpu) /\ DOMAIN Touched(k) = DOMAIN gpu
      /\ \A j \in 1 .. At(k) - 1 : Touched(k)[j] = gpu[j]
      /\ \A j \in At(k) .. Len(gpu) - 1 : Touched(k)[j] = gpu[j + 1]
      /\ Touched(k)[Len(gpu)] = gpu[At(k)]
      BY <1>1, MovedToEnd DEF Touched, EntryOf
<1>3. DOMAIN gpu = 1 .. Len(gpu) /\ Len(gpu) \in Nat  OBVIOUS
<1>4. {Touched(k)[j] : j \in DOMAIN Touched(k)} = Entries
  <2>1. ASSUME NEW j \in DOMAIN gpu PROVE \E i \in DOMAIN gpu : Touched(k)[j] = gpu[i]
    <3>1. CASE j \in 1 .. At(k) - 1  BY <1>2, <3>1
    <3>2. CASE j \in At(k) .. Len(gpu) - 1
      <4>1. j + 1 \in DOMAIN gpu  BY <1>1, <1>3, <3>2
      <4> QED  BY <1>2, <3>2, <4>1
    <3>3. CASE j = Len(gpu)  BY <1>1, <1>2, <3>3
    <3> QED  BY <1>1, <1>3, <3>1, <3>2, <3>3
  <2>2. ASSUME NEW i \in DOMAIN gpu PROVE \E j \in DOMAIN gpu : Touched(k)[j] = gpu[i]
    <3>1. CASE i \in 1 .. At(k) - 1  BY <1>2, <3>1
    <3>2. CASE i \in At(k) + 1 .. Len(gpu)
      <4>1. i - 1 \in At(k) .. Len(gpu) - 1 /\ (i - 1) + 1 = i /\ i - 1 \in DOMAIN gpu
            BY <1>1, <1>3, <3>2
      <4> QED  BY <1>2, <4>1
    <3>3. CASE i = At(k)
      <4>1. Len(gpu) \in DOMAIN gpu  BY <1>1, <1>3
      <4> QED  BY <1>2, <3>3, <4>1
    <3> QED  BY <1>1, <1>3, <3>1, <3>2, <3>3
  <2> DEFINE t == Touched(k)
  <2>3. DOMAIN t = DOMAIN gpu  BY <1>2
  <2>4. /\ \A j \in DOMAIN gpu : \E i \in DOMAIN gpu : t[j] = gpu[i]
        /\ \A i \in DOMAIN gpu : \E j \in DOMAIN gpu : t[j] = gpu[i]
        BY <2>1, <2>2
  <2> HIDE DEF t
  <2>5. {t[j] : j \in DOMAIN t} = {gpu[i] : i \in DOMAIN gpu}  BY <2>3, <2>4
  <2> QED  BY <2>5 DEF t, Entries
<1>5. EntryOf(k) \in Use /\ EntryOf(k) \in Entries /\ EntryOf(k).expert = k
      BY <1>1 DEF EntryOf, Entries
<1>6. Touched(k)[Len(gpu)] = EntryOf(k)  BY <1>2 DEF EntryOf
<1> QED  BY <1>1, <1>2, <1>4, <1>5, <1>6

(* Eviction keeps the most recently used entries.                          *)
LEMMA EvictedEntries ==
  ASSUME NEW entries \in Seq(Use)
  PROVE  LET kept == Evicted(entries)
         IN  /\ kept \in Seq(Use) /\ Len(kept) <= MaxResident /\ Len(kept) <= Len(entries)
             /\ Len(kept) = Len(entries) \/ Len(kept) = MaxResident
             /\ \A j \in DOMAIN kept : /\ Len(entries) - Len(kept) + j \in DOMAIN entries
                                       /\ kept[j] = entries[Len(entries) - Len(kept) + j]
<1>1. CASE Len(entries) > MaxResident
  <2> DEFINE n == Len(entries) - MaxResident + 1
  <2>1. Evicted(entries) = SubSeq(entries, n, Len(entries))  BY <1>1 DEF Evicted
  <2>2. n \in 1 .. Len(entries) + 1 /\ Len(entries) - n + 1 = MaxResident /\ MaxResident \in Nat
        BY <1>1, StoreAssumption
  <2>3. /\ Evicted(entries) \in Seq(Use) /\ Len(Evicted(entries)) = MaxResident
        /\ \A j \in 1 .. MaxResident : Evicted(entries)[j] = entries[n + j - 1]
        BY <2>1, <2>2
  <2>4. \A j \in 1 .. MaxResident : n + j - 1 = Len(entries) - MaxResident + j
                                    /\ Len(entries) - MaxResident + j \in 1 .. Len(entries)
        BY <1>1, <2>2
  <2>5. /\ Len(Evicted(entries)) <= MaxResident /\ Len(Evicted(entries)) <= Len(entries)
        /\ DOMAIN Evicted(entries) = 1 .. MaxResident
        BY <1>1, <2>2, <2>3
  <2> HIDE DEF n
  <2> QED  BY <2>3, <2>4, <2>5
<1>2. CASE ~(Len(entries) > MaxResident)
  <2>1. Evicted(entries) = entries  BY <1>2 DEF Evicted
  <2>2. \A j \in DOMAIN entries : Len(entries) - Len(entries) + j = j  OBVIOUS
  <2> QED  BY <1>2, <2>1, <2>2, StoreAssumption
<1> QED  BY <1>1, <1>2

-----------------------------------------------------------------------------
(* Steps that leave the device alone.                                      *)
LEMMA DeviceUnchanged ==
  ASSUME UNCHANGED device
  PROVE  /\ DeviceTypeOK => DeviceTypeOK'
         /\ DeviceInv => DeviceInv'
         /\ \A u : Arrives(u) => Arrives(u)'
         /\ Awaited(Len(Computes)) => Awaited(Len(Computes))'
         /\ Computes' = Computes
<1> USE DEF device, Copies, Computes
<1>1. DeviceTypeOK => DeviceTypeOK'  BY DEF DeviceTypeOK
<1>2. DeviceInv => DeviceInv'
      BY DEF DeviceInv, CopiesOnly, LoadsOwned, WaitsForAll, KernelsFed, Fed, Awaited
<1>3. \A u : Arrives(u) => Arrives(u)'  BY DEF Arrives
<1>4. Awaited(Len(Computes)) => Awaited(Len(Computes))'  BY DEF Awaited
<1> QED  BY <1>1, <1>2, <1>3, <1>4

(* wait_stream: work issued later starts after every copy issued so far.   *)
LEMMA WaitIssued ==
  ASSUME DeviceTypeOK, DeviceInv, queue' = IssueWait(queue, "compute"),
         UNCHANGED <<mem, owner, recorded>>
  PROVE  /\ DeviceTypeOK' /\ DeviceInv'
         /\ \A u \in Use : Arrives(u) => Arrives(u)'
         /\ Awaited(Len(Computes))'
<1> DEFINE w == [op |-> "wait", left |-> Len(Copies)]
           n == Len(Computes)
<1>0. Copies \in Seq(Ops) /\ Computes \in Seq(Ops) /\ n \in Nat /\ w \in Ops
      BY DEF DeviceTypeOK, Streams, Copies, Computes, Ops
<1>1. Copies' = Copies /\ Computes' = Append(Computes, w)
      BY DEF IssueWait, Issue, Other, Copies, Computes, DeviceTypeOK, Streams
<1>2. /\ Computes' \in Seq(Ops) /\ Len(Computes') = n + 1 /\ DOMAIN Computes' = 1 .. n + 1
      /\ \A i \in 1 .. n : Computes'[i] = Computes[i]
      /\ Computes'[n + 1] = w
      BY <1>0, <1>1
<1>3. DeviceTypeOK'
      BY <1>0, <1>1, <1>2 DEF DeviceTypeOK, Copies, Computes, Streams, IssueWait, Issue
<1>4. \A i \in n + 1 .. Len(Computes') : i = n + 1 /\ Computes'[i] = w  BY <1>0, <1>2
<1>5. w.op = "wait" /\ w.left = Len(Copies)  OBVIOUS
<1> HIDE DEF w
<1>6. \A u \in Use : \A i \in n + 1 .. Len(Computes') : ~IsLoadTo(Computes'[i], u.block)
      BY <1>4, <1>5 DEF IsLoadTo
<1>7. DeviceInv' /\ \A u \in Use : Arrives(u) => Arrives(u)'
      BY <1>0, <1>1, <1>2, <1>4, <1>5, <1>6, ComputeGrows
<1>8. Awaited(Len(Computes))'
  <2>1. n + 1 \in 1 .. Len(Computes') /\ Computes'[n + 1].op = "wait"  BY <1>0, <1>2, <1>5
  <2> QED  BY <2>1 DEF Awaited
<1> QED  BY <1>3, <1>7, <1>8

(* get after a miss: the wait, and the copy on the compute stream.         *)
LEMMA MissIssued ==
  ASSUME DeviceTypeOK, DeviceInv, NEW b \in Blocks, owner[b] \in {"compute", Unset},
         NEW k \in Keys,
         queue' = Issue(IssueWait(queue, "compute"), "compute", LoadOp(b, k)),
         owner' = [owner EXCEPT ![b] = "compute"], recorded' = recorded \ {b}, mem' = mem
  PROVE  /\ DeviceTypeOK' /\ DeviceInv'
         /\ Arrives([block |-> b, expert |-> k])'
         /\ \A u \in Use : Arrives(u) /\ u.block # b => Arrives(u)'
         /\ Awaited(Len(Computes))'
<1> DEFINE w == [op |-> "wait", left |-> Len(Copies)]
           l == LoadOp(b, k)
           n == Len(Computes)
<1>0. /\ Copies \in Seq(Ops) /\ Computes \in Seq(Ops) /\ n \in Nat
      /\ w \in Ops /\ l \in Ops
      BY DEF DeviceTypeOK, Streams, Copies, Computes, Ops, LoadOp
<1>1. Copies' = Copies /\ Computes' = Append(Append(Computes, w), l)
      BY DEF IssueWait, Issue, Other, Copies, Computes, DeviceTypeOK, Streams
<1>5. /\ w.op = "wait" /\ w.left = Len(Copies)
      /\ l.op = "load" /\ l.block = b /\ l.expert = k
      BY DEF LoadOp
<1> HIDE DEF w, l
<1>2. /\ Computes' \in Seq(Ops) /\ Len(Computes') = n + 2
      /\ \A i \in 1 .. n : Computes'[i] = Computes[i]
      /\ Computes'[n + 1] = w /\ Computes'[n + 2] = l
      BY <1>0, <1>1
<1>o. /\ owner'[b] = "compute" /\ owner' \in [Blocks -> Streams \cup {Unset}]
      /\ \A x \in Blocks : owner[x] \in Streams => owner'[x] = owner[x]
      BY UnsetAssumption DEF DeviceTypeOK, Streams
<1>3. DeviceTypeOK'
  <2>1. queue' \in [Streams -> Seq(Ops)]
        BY <1>0, <1>1, <1>2 DEF DeviceTypeOK, Copies, Computes, Streams, IssueWait, Issue
  <2> QED  BY <1>o, <2>1 DEF DeviceTypeOK
<1>4. \A i \in n + 1 .. Len(Computes') :
        \/ i = n + 1 /\ Computes'[i] = w
        \/ i = n + 2 /\ Computes'[i] = l
  <2> SUFFICES ASSUME NEW i \in n + 1 .. Len(Computes')
               PROVE  \/ i = n + 1 /\ Computes'[i] = w
                      \/ i = n + 2 /\ Computes'[i] = l
      OBVIOUS
  <2>1. CASE i = n + 1  BY <1>2, <2>1
  <2>2. CASE i = n + 2  BY <1>2, <2>2
  <2>3. i = n + 1 \/ i = n + 2  BY <1>0, <1>2
  <2> QED  BY <2>1, <2>2, <2>3
<1>6. \A u \in Use : u.block # b =>
        \A i \in n + 1 .. Len(Computes') : ~IsLoadTo(Computes'[i], u.block)
      BY <1>4, <1>5 DEF IsLoadTo
<1>7. DeviceInv' /\ \A u \in Use : Arrives(u) /\ u.block # b => Arrives(u)'
  <2>1. \A i \in n + 1 .. Len(Computes') :
              /\ Computes'[i].op = "load" => owner'[Computes'[i].block] = "compute"
              /\ Computes'[i].op = "wait" => Computes'[i].left = Len(Copies)
              /\ Computes'[i].op # "run"
        BY <1>4, <1>5, <1>o
  <2> QED  BY <1>0, <1>1, <1>2, <1>o, <1>6, <2>1, ComputeGrows
<1>8. Awaited(Len(Computes))'
  <2>1. n + 1 \in 1 .. Len(Computes') /\ Computes'[n + 1].op = "wait"  BY <1>0, <1>2, <1>5
  <2> QED  BY <2>1 DEF Awaited
<1>9. Arrives([block |-> b, expert |-> k])'
  <2> DEFINE u == [block |-> b, expert |-> k]
  <2>1. u.block = b /\ u.expert = k  OBVIOUS
  <2> HIDE DEF u
  <2>2. IsLoadTo(Computes'[(n + 1) + 1], u.block) /\ Computes'[(n + 1) + 1].expert = u.expert
        BY <1>0, <1>2, <1>5, <2>1 DEF IsLoadTo
  <2>3. n + 1 \in Nat /\ Len(Computes') = (n + 1) + 1  BY <1>0, <1>2
  <2>4. Brings(Computes', Len(Computes'), mem', u)  BY <2>2, <2>3, BringsLast
  <2>5. Arrives(u)'  BY <1>o, <2>1, <2>4 DEF Arrives, Computes, Streams
  <2> QED  BY <2>5 DEF u
<1> QED  BY <1>3, <1>7, <1>8, <1>9

(* A kernel on what arrives, after the copies are awaited.                 *)
LEMMA RunIssued ==
  ASSUME DeviceTypeOK, DeviceInv, held \subseteq Use,
         \A u \in held : Arrives(u), Awaited(Len(Computes)),
         queue' = Issue(queue, "compute", RunOp(held)),
         UNCHANGED <<mem, owner>>, recorded' \subseteq Blocks
  PROVE  /\ DeviceTypeOK' /\ DeviceInv'
         /\ \A u \in Use : Arrives(u) => Arrives(u)'
         /\ Awaited(Len(Computes))'
<1> DEFINE r == RunOp(held)
<1>n. PICK n \in Nat : n = Len(Computes)  BY DEF DeviceTypeOK, Streams, Computes
<1>0. Copies \in Seq(Ops) /\ Computes \in Seq(Ops) /\ r \in Ops
      BY DEF DeviceTypeOK, Streams, Copies, Computes, Ops, RunOp
<1>1. Copies' = Copies /\ Computes' = Append(Computes, r)
      BY DEF Issue, Copies, Computes, DeviceTypeOK, Streams
<1>5. r.op = "run" /\ r.uses = held  BY DEF RunOp
<1> HIDE DEF r
<1>2. /\ Computes' \in Seq(Ops) /\ Len(Computes') = n + 1
      /\ \A i \in 1 .. n : Computes'[i] = Computes[i]
      /\ Computes'[n + 1] = r
      BY <1>0, <1>1, <1>n
<1>3. DeviceTypeOK'
  <2>1. queue' \in [Streams -> Seq(Ops)]
        BY <1>0, <1>1, <1>2 DEF DeviceTypeOK, Copies, Computes, Streams, Issue
  <2> QED  BY <2>1 DEF DeviceTypeOK
<1>4. \A i \in n + 1 .. Len(Computes') : i = n + 1 /\ Computes'[i] = r  BY <1>0, <1>2
<1>6. \A u \in Use : \A i \in n + 1 .. Len(Computes') : ~IsLoadTo(Computes'[i], u.block)
      BY <1>4, <1>5 DEF IsLoadTo
<1>f. \A u \in held : Fed(u, n)  BY <1>n DEF Arrives, Fed, Copies, Computes, Streams
<1>g. \A u \in held : Fed(u, n)'
      BY <1>n, <1>0, <1>1, <1>2, <1>f, ComputeGrows
<1>7. \A i \in n + 1 .. Len(Computes') :
        /\ Computes'[i].op = "run" => \A u \in Computes'[i].uses : Fed(u, i - 1)'
        /\ Computes'[i].op = "run"
  <2> SUFFICES ASSUME NEW i \in n + 1 .. Len(Computes')
               PROVE  /\ \A u \in Computes'[i].uses : Fed(u, i - 1)'
                      /\ Computes'[i].op = "run"
      OBVIOUS
  <2>1. i - 1 = n /\ Computes'[i] = r  BY <1>0, <1>4
  <2> QED  BY <1>5, <1>g, <2>1
<1>8. DeviceInv' /\ \A u \in Use : Arrives(u) => Arrives(u)'
      BY <1>n, <1>0, <1>1, <1>2, <1>6, <1>7, ComputeGrows
<1>9. Awaited(Len(Computes))'  BY <1>n, <1>0, <1>1, <1>2, ComputeGrows
<1> QED  BY <1>3, <1>8, <1>9

-----------------------------------------------------------------------------
(* The steps of the forward call, one lemma per action.                    *)
LEMMA StartForwardInv ==
  ASSUME StoreIInv, NEW layer \in Layers, NEW chosen \in ActiveLists, StartForward(layer, chosen)
  PROVE  StoreIInv'
<1> USE DEF StoreIInv, StartForward
<1>0. /\ chosen \in Seq(Experts) /\ Len(chosen) \in Nat /\ DOMAIN chosen = 1 .. Len(chosen)
      /\ \A i, j \in DOMAIN chosen : i < j => chosen[i] < chosen[j]
      BY DEF ActiveLists, SeqOf
<1>k. \A i \in DOMAIN chosen : <<layer, chosen[i]>> \in Keys
      BY <1>0, StoreAssumption
<1>a. /\ active' \in Seq(Keys) /\ Len(active') = Len(chosen) /\ todo' = active'
      /\ DOMAIN active' = 1 .. Len(chosen)
      /\ \A i \in DOMAIN active' : active'[i] = <<layer, chosen[i]>>
      BY <1>0, <1>k
<1>d. DeviceTypeOK' /\ DeviceInv' /\ (\A u : Arrives(u) => Arrives(u)') /\ Computes' = Computes
      BY DeviceUnchanged DEF TypeOK
<1>1. TypeOK'  BY <1>a, <1>d, StoreAssumption DEF TypeOK, store
<1>2. LiveInv'  BY <1>d DEF LiveInv, Entries, store
<1>3. StoreInv'
  <2>1. \A i, j \in DOMAIN active' : active'[i] = active'[j] => i = j
    <3> SUFFICES ASSUME NEW i \in DOMAIN active', NEW j \in DOMAIN active',
                        active'[i] = active'[j]
                 PROVE  i = j
        OBVIOUS
    <3>1. i \in DOMAIN chosen /\ j \in DOMAIN chosen
          /\ <<layer, chosen[i]>> = <<layer, chosen[j]>>
          BY <1>0, <1>a
    <3>2. chosen[i] = chosen[j]  BY <3>1
    <3>3. chosen[i] \in Nat
      <4>1. chosen[i] \in Experts  BY <1>0, <3>1
      <4>2. Experts \subseteq Nat  BY StoreAssumption
      <4> QED  BY <4>1, <4>2
    <3>4. ~(i < j) /\ ~(j < i)  BY <1>0, <3>1, <3>2, <3>3
    <3> QED  BY <1>0, <3>1, <3>4
  <2>2. 0 \in 0 .. Len(active') /\ Prefetched(0)'
        BY <1>0, <1>a DEF Prefetched, TypeOK, store
  <2>3. Computes' = <<>>  BY <1>d DEF Synchronized, Computes
  <2> QED  BY <2>1, <2>2, <2>3 DEF StoreInv, BoundRestored, PrefetchedStayResident
<1> QED  BY <1>1, <1>2, <1>3, <1>d

(* A prefetch that finds the expert resident.                              *)
LEMMA PrefetchHitInv == StoreIInv /\ PrefetchHit => StoreIInv'
<1> SUFFICES ASSUME StoreIInv, PrefetchHit PROVE StoreIInv'  OBVIOUS
<1> USE DEF StoreIInv, PrefetchHit
<1> DEFINE k == Head(todo)
<1>d. DeviceTypeOK' /\ DeviceInv' /\ (\A u : Arrives(u) => Arrives(u)') /\ Computes' = Computes
      BY DeviceUnchanged DEF TypeOK
<1>t. /\ gpu' \in Seq(Use) /\ Len(gpu') = Len(gpu) /\ Len(gpu) \in Nat
      /\ At(k) \in 1 .. Len(gpu) /\ gpu[At(k)].expert = k
      /\ \A j \in At(k) .. Len(gpu) - 1 : gpu'[j] = gpu[j + 1]
      /\ gpu'[Len(gpu)].expert = k
      /\ Entries' = Entries
  <2>1. gpu \in Seq(Use) /\ Resident(k) /\ gpu' = Touched(k)  BY DEF TypeOK
  <2>2. Entries' = {Touched(k)[j] : j \in DOMAIN Touched(k)}  BY <2>1 DEF Entries
  <2> HIDE DEF k
  <2>3. At(k) \in 1 .. Len(gpu) /\ gpu[At(k)].expert = k /\ Len(gpu) \in Nat
        BY <2>1, TouchedEntries DEF EntryOf
  <2> QED  BY <2>1, <2>2, <2>3, TouchedEntries
<1>n. /\ todo' \in Seq(Keys) /\ Len(todo') = Len(todo) - 1 /\ Len(todo) \in Nat \ {0}
      /\ todo[1] = k /\ \A i \in 1 .. Len(todo') : todo'[i] = todo[i + 1]
      BY DEF TypeOK
<1>1. TypeOK'  BY <1>d, <1>t, <1>n DEF TypeOK
<1>2. LiveInv'  BY <1>d, <1>t DEF LiveInv
<1> HIDE DEF k
<1>3. StoreInv'
  <2>0. PICK n \in 0 .. Len(active) : Prefetched(n)  BY DEF StoreInv
  <2>a. active' = active /\ Len(active) \in Nat /\ DOMAIN active = 1 .. Len(active)
        BY DEF TypeOK
  <2>1. n + 1 \in 0 .. Len(active) /\ active[n + 1] = k
        BY <1>n, <2>0, <2>a DEF Prefetched
  <2>g. /\ Len(gpu) \in Nat /\ Len(gpu') = Len(gpu) /\ At(k) \in 1 .. Len(gpu)
        /\ n \in Nat /\ n <= Len(gpu)
        BY <1>t, <2>0, <2>a DEF Prefetched
  <2>2. At(k) <= Len(gpu) - n
    <3> SUFFICES ASSUME At(k) > Len(gpu) - n PROVE FALSE
        BY <1>t, <2>0, <2>a
    <3> DEFINE i == At(k) - (Len(gpu) - n)
    <3>1. i \in 1 .. n /\ Len(gpu) - n + i = At(k)  BY <1>t, <2>0, <2>a DEF Prefetched
    <3>2. gpu[At(k)].expert = active[i]  BY <2>0, <3>1 DEF Prefetched
    <3>3. active[i] = active[n + 1] /\ i # n + 1 /\ i \in DOMAIN active /\ n + 1 \in DOMAIN active
          BY <1>t, <2>0, <2>1, <2>a, <3>1, <3>2
    <3> QED  BY <3>3 DEF StoreInv
  <2>3. Prefetched(n + 1)'
    <3>1. Len(todo') = Len(active) - (n + 1)
          /\ \A i \in 1 .. Len(todo') : todo'[i] = active[(n + 1) + i]
      <4>1. Len(todo') = Len(active) - (n + 1)  BY <1>n, <2>0, <2>a DEF Prefetched
      <4>2. ASSUME NEW i \in 1 .. Len(todo') PROVE todo'[i] = active[(n + 1) + i]
        <5>1. i + 1 \in 1 .. Len(todo) /\ n + (i + 1) = (n + 1) + i  BY <1>n, <2>0
        <5> QED  BY <1>n, <2>0, <5>1 DEF Prefetched
      <4> QED  BY <4>1, <4>2
    <3>2. n + 1 <= Len(gpu')  BY <1>t, <2>0, <2>2, <2>a
    <3>3. ASSUME NEW i \in 1 .. n + 1 PROVE gpu'[Len(gpu') - (n + 1) + i].expert = active[i]
      <4>1. CASE i = n + 1
        <5>1. Len(gpu') - (n + 1) + i = Len(gpu)  BY <2>g, <4>1
        <5> QED  BY <1>t, <2>1, <4>1, <5>1
      <4>2. CASE i # n + 1
        <5>1. i \in 1 .. n /\ Len(gpu') - (n + 1) + i \in At(k) .. Len(gpu) - 1
              /\ (Len(gpu') - (n + 1) + i) + 1 = Len(gpu) - n + i
              BY <2>2, <2>g, <4>2
        <5>2. gpu'[Len(gpu') - (n + 1) + i] = gpu[Len(gpu) - n + i]  BY <1>t, <5>1
        <5> QED  BY <2>0, <5>1, <5>2 DEF Prefetched
      <4> QED  BY <4>1, <4>2
    <3> QED  BY <2>a, <3>1, <3>2, <3>3 DEF Prefetched
  <2> QED  BY <1>d, <2>1, <2>3, <2>a DEF StoreInv, BoundRestored, PrefetchedStayResident
<1> QED  BY <1>1, <1>2, <1>3, <1>d

(* A prefetch that copies: the compute stream is idle.                     *)
LEMMA PrefetchMissInv == StoreIInv /\ PrefetchMiss => StoreIInv'
<1> SUFFICES ASSUME StoreIInv, PrefetchMiss PROVE StoreIInv'  OBVIOUS
<1> USE DEF StoreIInv
<1>p. phase = "prefetch" /\ todo # <<>> /\ gpu \in Seq(Use) /\ todo \in Seq(Keys)
      BY DEF PrefetchMiss, TypeOK
<1>k. PICK k \in Keys : k = Head(todo)  BY <1>p
<1>n. /\ todo' \in Seq(Keys) /\ Len(todo') = Len(todo) - 1 /\ Len(todo) \in Nat \ {0}
      /\ todo[1] = k /\ \A i \in 1 .. Len(todo') : todo'[i] = todo[i + 1]
      BY <1>k, <1>p DEF PrefetchMiss
<1>m. UNCHANGED <<mem, phase, active, held, calls, grouped>>  BY DEF PrefetchMiss
<1>1. PICK b \in Blocks : /\ ToDevice(k, b, "copy", queue)
                          /\ gpu' = Append(gpu, [block |-> b, expert |-> k])
      BY <1>k DEF PrefetchMiss
<1> DEFINE u == [block |-> b, expert |-> k]
<1>u. u \in Use /\ u.block = b /\ u.expert = k  BY DEF Use
<1>g. /\ gpu' \in Seq(Use) /\ Len(gpu') = Len(gpu) + 1 /\ Len(gpu) \in Nat
      /\ \A i \in 1 .. Len(gpu) : gpu'[i] = gpu[i]
      /\ gpu'[Len(gpu) + 1] = u
      BY <1>p, <1>1, <1>u
<1> HIDE DEF u
<1>b. /\ owner[b] \in {"copy", Unset} /\ b \in Blocks
      /\ \A x \in Use : Arrives(x) /\ x.block \in Live => x.block # b
      BY <1>1, AllocatedBlock DEF ToDevice, Streams
<1>q. /\ queue' = Issue(queue, "copy", LoadOp(b, k))
      /\ owner' = [owner EXCEPT ![b] = "copy"] /\ recorded' = recorded \ {b}
      /\ host' = host \cup {k}
      BY <1>1 DEF ToDevice
<1>c. Computes = <<>>  BY <1>p DEF StoreInv
<1>s. /\ Copies' = Append(Copies, LoadOp(b, k)) /\ Computes' = Computes
      /\ Computes' \in Seq(Ops)
      BY <1>q DEF Issue, Copies, Computes, TypeOK, DeviceTypeOK, Streams
<1>2. /\ DeviceInv' /\ Arrives(u)'
      /\ \A x \in Use : Arrives(x) /\ x.block # b => Arrives(x)'
  <2>1. \A i \in DOMAIN Computes' : Computes'[i].op = "wait" /\ Computes'[i].left = Len(Copies) + 1
        BY <1>c, <1>s
  <2>2. /\ DeviceInv' /\ Arrives([block |-> b, expert |-> k])'
        /\ \A x \in Use : Arrives(x) /\ x.block # b => Arrives(x)'
    <3>1. /\ DeviceTypeOK /\ DeviceInv /\ k \in Keys /\ b \in Blocks /\ mem' = mem
          /\ owner[b] \in {"copy", Unset} /\ owner' = [owner EXCEPT ![b] = "copy"]
          BY <1>b, <1>m, <1>n, <1>q DEF TypeOK
    <3> QED  BY <1>c, <1>s, <2>1, <3>1, CopyGrows
  <2> QED  BY <2>2 DEF u
<1>3. TypeOK'
  <2>1. queue' \in [Streams -> Seq(Ops)]
    <3>1. LoadOp(b, k) \in Ops  BY <1>b, <1>n DEF LoadOp, Ops
    <3> QED  BY <1>q, <3>1 DEF Issue, TypeOK, DeviceTypeOK, Streams
  <2>2. DeviceTypeOK'  BY <1>m, <1>q, <2>1 DEF TypeOK, DeviceTypeOK, Streams
  <2> QED  BY <1>g, <1>m, <1>n, <1>p, <1>q, <2>2 DEF TypeOK
<1>4. LiveInv'
  <2>1. \A x \in Entries \cup held : x \in Use /\ x.block \in Live /\ Arrives(x)
        BY <1>p DEF LiveInv, Entries, Live, TypeOK
  <2>2. \A x \in Entries' : x \in Entries \/ x = u  BY <1>g DEF Entries
  <2>3. \A x \in Entries \cup held : Arrives(x)'  BY <1>2, <1>b, <2>1
  <2>4. (Entries \cup held)' \subseteq Entries \cup held \cup {u}  BY <1>m, <2>2
  <2> QED  BY <1>2, <2>3, <2>4 DEF LiveInv
<1>5. StoreInv'
  <2>0. PICK n \in 0 .. Len(active) : Prefetched(n)  BY <1>p DEF StoreInv
  <2>a. active' = active /\ Len(active) \in Nat /\ DOMAIN active = 1 .. Len(active)
        BY <1>m DEF TypeOK
  <2>1. n + 1 \in 0 .. Len(active) /\ active[n + 1] = k /\ n \in Nat /\ n <= Len(gpu)
    <3>1. n \in Nat /\ n <= Len(gpu) /\ Len(todo) = Len(active) - n  BY <2>0, <2>a DEF Prefetched
    <3>2. 1 \in 1 .. Len(todo) /\ n + 1 \in 0 .. Len(active)  BY <1>n, <2>a, <3>1
    <3>3. todo[1] = active[n + 1]  BY <2>0, <3>2 DEF Prefetched
    <3> QED  BY <1>n, <3>1, <3>2, <3>3
  <2>3. Prefetched(n + 1)'
    <3>1. Len(todo') = Len(active) - (n + 1)  BY <1>n, <2>0, <2>a DEF Prefetched
    <3>2. ASSUME NEW i \in 1 .. Len(todo') PROVE todo'[i] = active[(n + 1) + i]
      <4>1. i + 1 \in 1 .. Len(todo) /\ n + (i + 1) = (n + 1) + i  BY <1>n, <2>0
      <4> QED  BY <1>n, <2>0, <4>1 DEF Prefetched
    <3>3. n + 1 <= Len(gpu')  BY <1>g, <2>1
    <3>4. ASSUME NEW i \in 1 .. n + 1 PROVE gpu'[Len(gpu') - (n + 1) + i].expert = active[i]
      <4>1. CASE i = n + 1
        <5>1. Len(gpu') - (n + 1) + i = Len(gpu) + 1  BY <1>g, <2>1, <4>1
        <5> QED  BY <1>g, <1>u, <2>1, <4>1, <5>1
      <4>2. CASE i # n + 1
        <5>1. i \in 1 .. n /\ Len(gpu') - (n + 1) + i = Len(gpu) - n + i
              /\ Len(gpu) - n + i \in 1 .. Len(gpu)
              BY <1>g, <2>1, <4>2
        <5> QED  BY <1>g, <2>0, <5>1 DEF Prefetched
      <4> QED  BY <4>1, <4>2
    <3> QED  BY <2>a, <3>1, <3>2, <3>3, <3>4 DEF Prefetched
  <2> QED  BY <1>c, <1>m, <1>p, <1>s, <2>1, <2>3, <2>a DEF StoreInv, BoundRestored, PrefetchedStayResident
<1> QED  BY <1>2, <1>3, <1>4, <1>5

(* The end of prefetch: what was fetched for the call survives eviction.   *)
LEMMA PrefetchDoneInv == StoreIInv /\ PrefetchDone => StoreIInv'
<1> SUFFICES ASSUME StoreIInv, PrefetchDone PROVE StoreIInv'  OBVIOUS
<1> USE DEF StoreIInv, PrefetchDone
<1>d. DeviceTypeOK' /\ DeviceInv' /\ (\A u : Arrives(u) => Arrives(u)') /\ Computes' = Computes
      BY DeviceUnchanged DEF TypeOK
<1>g. /\ gpu' \in Seq(Use) /\ Len(gpu') <= MaxResident /\ Len(gpu') <= Len(gpu)
      /\ Len(gpu') = Len(gpu) \/ Len(gpu') = MaxResident
      /\ \A j \in DOMAIN gpu' : /\ Len(gpu) - Len(gpu') + j \in DOMAIN gpu
                                /\ gpu'[j] = gpu[Len(gpu) - Len(gpu') + j]
      /\ Len(gpu) \in Nat /\ Len(gpu') \in Nat /\ DOMAIN gpu' = 1 .. Len(gpu')
      BY EvictedEntries DEF TypeOK
<1>1. TypeOK'  BY <1>d, <1>g DEF TypeOK
<1>2. LiveInv'
  <2>1. Entries' \subseteq Entries  BY <1>g DEF Entries
  <2> QED  BY <1>d, <2>1 DEF LiveInv
<1>3. StoreInv'
  <2>0. PICK n \in 0 .. Len(active) : Prefetched(n)  BY DEF StoreInv
  <2>a. active' = active /\ todo' = active /\ Len(active) \in Nat /\ DOMAIN active = 1 .. Len(active)
        BY DEF TypeOK
  <2>1. Len(active) = n /\ n <= Len(gpu)  BY <2>0, <2>a DEF Prefetched, TypeOK
  <2>2. ASSUME Len(active) <= MaxResident, NEW i \in DOMAIN todo'
        PROVE  Resident(todo[i])'
    <3>1. i \in 1 .. n /\ n <= Len(gpu')
          BY <1>g, <2>1, <2>2, <2>a, StoreAssumption
    <3> DEFINE j == Len(gpu') - n + i
    <3>2. j \in DOMAIN gpu' /\ Len(gpu) - Len(gpu') + j = Len(gpu) - n + i
          BY <1>g, <2>1, <2>a, <3>1
    <3>3. gpu'[j] = gpu[Len(gpu) - n + i]  BY <1>g, <3>2
    <3>4. gpu'[j].expert = active[i]  BY <2>0, <3>1, <3>3 DEF Prefetched
    <3> QED  BY <2>a, <3>2, <3>4 DEF Resident
  <2>3. held' = {}  BY DEF StoreInv
  <2>4. PrefetchedStayResident'  BY <2>2, <2>a DEF PrefetchedStayResident
  <2>5. BoundRestored'  BY <1>g DEF BoundRestored
  <2> QED  BY <1>d, <2>3, <2>4, <2>5, <2>a DEF StoreInv
<1> QED  BY <1>1, <1>2, <1>3, <1>d

(* What Receive leaves: the bundle is held, its expert is no longer due.   *)
LEMMA ReceiveFacts ==
  ASSUME TypeOK, MayGet, NEW u \in Use, Receive(u)
  PROVE  /\ todo' \in Seq(Keys) /\ Len(todo') = Len(todo) - 1 /\ Len(todo) \in Nat \ {0}
         /\ \A i \in DOMAIN todo' : i + 1 \in DOMAIN todo /\ todo'[i] = todo[i + 1]
         /\ held' \subseteq Use /\ held' \subseteq held \cup {u}
         /\ phase = "experts" /\ phase' \in {"experts", "launch"}
BY DEF Receive, MayGet, TypeOK

(* A get that finds the expert resident waits for the copies.              *)
LEMMA GetHitInv == StoreIInv /\ GetHit => StoreIInv'
<1> SUFFICES ASSUME StoreIInv, GetHit PROVE StoreIInv'  OBVIOUS
<1> USE DEF StoreIInv
<1>m. /\ UNCHANGED <<mem, owner, recorded, host, active, calls, grouped>>
      /\ queue' = IssueWait(queue, "compute")
      /\ MayGet /\ todo # <<>> /\ gpu \in Seq(Use) /\ todo \in Seq(Keys)
      BY DEF GetHit, MayGet, TypeOK
<1>k. PICK k \in Keys : k = Head(todo)  BY <1>m
<1>h. Resident(k) /\ gpu' = Touched(k) /\ Receive(EntryOf(k))  BY <1>k DEF GetHit
<1>u. PICK u \in Use : u = EntryOf(k) /\ u \in Entries  BY <1>h, <1>m, TouchedEntries
<1>r. /\ todo' \in Seq(Keys) /\ Len(todo') = Len(todo) - 1 /\ Len(todo) \in Nat \ {0}
      /\ \A i \in DOMAIN todo' : i + 1 \in DOMAIN todo /\ todo'[i] = todo[i + 1]
      /\ held' \subseteq Use /\ held' \subseteq held \cup {u}
      /\ phase = "experts" /\ phase' \in {"experts", "launch"}
      BY <1>h, <1>m, <1>u, ReceiveFacts
<1>d. /\ DeviceTypeOK' /\ DeviceInv' /\ Awaited(Len(Computes))'
      /\ \A x \in Use : Arrives(x) => Arrives(x)'
      BY <1>m, WaitIssued DEF TypeOK
<1>g. gpu' \in Seq(Use) /\ Len(gpu') = Len(gpu) /\ Entries' = Entries
  <2>1. Entries' = {Touched(k)[j] : j \in DOMAIN Touched(k)}  BY <1>h DEF Entries
  <2> QED  BY <1>h, <1>m, <2>1, TouchedEntries
<1>1. TypeOK'  BY <1>d, <1>g, <1>m, <1>r DEF TypeOK
<1>2. LiveInv'
  <2>1. \A x \in Entries \cup held : x \in Use /\ Arrives(x)
        BY <1>m DEF LiveInv, Entries, TypeOK
  <2>2. (Entries \cup held)' \subseteq Entries \cup held  BY <1>g, <1>r, <1>u
  <2> QED  BY <1>d, <2>1, <2>2 DEF LiveInv
<1>3. StoreInv'
  <2>1. BoundRestored'  BY <1>g, <1>r DEF BoundRestored, StoreInv
  <2>2. \A x \in Keys : Resident(x) => Resident(x)'
        BY <1>g DEF Resident, Entries
  <2>3. PrefetchedStayResident'
    <3> SUFFICES ASSUME Len(active') <= MaxResident, NEW i \in DOMAIN todo'
                 PROVE  Resident(todo[i])'
        BY DEF PrefetchedStayResident
    <3>1. i + 1 \in DOMAIN todo /\ todo'[i] = todo[i + 1] /\ todo[i + 1] \in Keys
          BY <1>m, <1>r
    <3>2. Resident(todo[i + 1])  BY <1>m, <1>r, <3>1 DEF StoreInv, PrefetchedStayResident
    <3>3. PICK x \in Keys : x = todo[i + 1]  BY <3>1
    <3>4. Resident(x)' /\ todo'[i] = x  BY <2>2, <3>1, <3>2, <3>3
    <3> QED  BY <3>4 DEF Resident
  <2> QED  BY <1>d, <1>m, <1>r, <2>1, <2>3 DEF StoreInv
<1> QED  BY <1>1, <1>2, <1>3, <1>d

(* A get that copies on the compute stream, behind the wait.               *)
LEMMA GetMissInv == StoreIInv /\ GetMiss => StoreIInv'
<1> SUFFICES ASSUME StoreIInv, GetMiss PROVE StoreIInv'  OBVIOUS
<1> USE DEF StoreIInv
<1>m. /\ UNCHANGED <<mem, active, calls, grouped>>
      /\ MayGet /\ todo # <<>> /\ gpu \in Seq(Use) /\ todo \in Seq(Keys)
      BY DEF GetMiss, MayGet, TypeOK
<1>k. PICK k \in Keys : k = Head(todo)  BY <1>m
<1>b. PICK b \in Blocks :
        /\ ToDevice(k, b, "compute", IssueWait(queue, "compute"))
        /\ gpu' = Evicted(Append(gpu, [block |-> b, expert |-> k]))
        /\ Receive([block |-> b, expert |-> k])
      BY <1>k DEF GetMiss
<1>n. ~Resident(k)  BY <1>k DEF GetMiss
<1>u. PICK u \in Use : u = [block |-> b, expert |-> k]  BY DEF Use
<1>q. /\ queue' = Issue(IssueWait(queue, "compute"), "compute", LoadOp(b, k))
      /\ owner' = [owner EXCEPT ![b] = "compute"] /\ recorded' = recorded \ {b}
      /\ host' = host \cup {k}
      /\ owner[b] \in {"compute", Unset}
      /\ \A x \in Use : Arrives(x) /\ x.block \in Live => x.block # b
      BY <1>b, AllocatedBlock DEF ToDevice, Streams
<1>r. /\ todo' \in Seq(Keys) /\ Len(todo') = Len(todo) - 1 /\ Len(todo) \in Nat \ {0}
      /\ \A i \in DOMAIN todo' : i + 1 \in DOMAIN todo /\ todo'[i] = todo[i + 1]
      /\ held' \subseteq Use /\ held' \subseteq held \cup {u}
      /\ phase = "experts" /\ phase' \in {"experts", "launch"}
      BY <1>b, <1>m, <1>u, ReceiveFacts
<1>d. /\ DeviceTypeOK' /\ DeviceInv' /\ Awaited(Len(Computes))' /\ Arrives(u)'
      /\ \A x \in Use : Arrives(x) /\ x.block # b => Arrives(x)'
      BY <1>m, <1>q, <1>u, MissIssued DEF TypeOK
<1>g. gpu' \in Seq(Use) /\ Len(gpu') <= MaxResident /\ Entries' \subseteq Entries \cup {u}
  <2> DEFINE a == Append(gpu, u)
  <2>1. a \in Seq(Use) /\ gpu' = Evicted(a)  BY <1>b, <1>m, <1>u
  <2>2. \A j \in DOMAIN a : a[j] \in Entries \cup {u}  BY <1>m DEF Entries
  <2> HIDE DEF a
  <2>3. \A j \in DOMAIN gpu' : \E i \in DOMAIN a : gpu'[j] = a[i]
        BY <2>1, EvictedEntries
  <2> QED  BY <2>1, <2>2, <2>3, EvictedEntries DEF Entries
<1>1. TypeOK'  BY <1>d, <1>g, <1>m, <1>q, <1>r DEF TypeOK
<1>2. LiveInv'
  <2>1. \A x \in Entries \cup held : x \in Use /\ x.block \in Live /\ Arrives(x)
        BY <1>m DEF LiveInv, Entries, Live, TypeOK
  <2>2. (Entries \cup held)' \subseteq Entries \cup held \cup {u}  BY <1>g, <1>r
  <2>3. \A x \in Entries \cup held : Arrives(x)'  BY <1>d, <1>q, <2>1
  <2> QED  BY <1>d, <2>2, <2>3 DEF LiveInv
<1>3. StoreInv'
  <2>1. BoundRestored'  BY <1>g DEF BoundRestored
  <2>2. PrefetchedStayResident'
    <3>1. ~(Len(active) <= MaxResident)
      <4>1. 1 \in DOMAIN todo /\ todo[1] = k  BY <1>k, <1>m
      <4> QED  BY <1>n, <1>r, <4>1 DEF StoreInv, PrefetchedStayResident
    <3> QED  BY <1>m, <3>1 DEF PrefetchedStayResident
  <2> QED  BY <1>d, <1>m, <1>r, <2>1, <2>2 DEF StoreInv
<1> QED  BY <1>1, <1>2, <1>3, <1>d

(* The kernel of one expert.                                               *)
LEMMA LaunchExpertInv == StoreIInv /\ LaunchExpert => StoreIInv'
<1> SUFFICES ASSUME StoreIInv, LaunchExpert PROVE StoreIInv'  OBVIOUS
<1> USE DEF StoreIInv, LaunchExpert
<1>d. /\ DeviceTypeOK' /\ DeviceInv' /\ Awaited(Len(Computes))'
      /\ \A x \in Use : Arrives(x) => Arrives(x)'
  <2>1. held \subseteq Use /\ (\A u \in held : Arrives(u)) /\ Awaited(Len(Computes))
        /\ recorded' \subseteq Blocks
        BY DEF StoreInv, LiveInv, TypeOK, DeviceTypeOK
  <2> QED  BY <2>1, RunIssued DEF TypeOK
<1>1. TypeOK'  BY <1>d DEF TypeOK, store
<1>2. LiveInv'
  <2>1. \A x \in Entries \cup held : x \in Use /\ Arrives(x)
        BY DEF LiveInv, Entries, TypeOK
  <2>2. (Entries \cup held)' = Entries \cup held  BY DEF Entries, store
  <2> QED  BY <1>d, <2>1, <2>2 DEF LiveInv
<1>3. StoreInv'
      BY <1>d DEF StoreInv, BoundRestored, PrefetchedStayResident, Resident, store
<1> QED  BY <1>1, <1>2, <1>3, <1>d

(* The kernel of all experts of a call.                                    *)
LEMMA LaunchGroupedInv == StoreIInv /\ LaunchGrouped => StoreIInv'
<1> SUFFICES ASSUME StoreIInv, LaunchGrouped PROVE StoreIInv'  OBVIOUS
<1> USE DEF StoreIInv, LaunchGrouped
<1>d. /\ DeviceTypeOK' /\ DeviceInv' /\ Awaited(Len(Computes))'
      /\ \A x \in Use : Arrives(x) => Arrives(x)'
  <2>1. held \subseteq Use /\ (\A u \in held : Arrives(u)) /\ Awaited(Len(Computes))
        BY DEF StoreInv, LiveInv, TypeOK
  <2>2. recorded' \subseteq Blocks  BY <2>1 DEF TypeOK, DeviceTypeOK, Use
  <2> QED  BY <2>1, <2>2, RunIssued DEF TypeOK
<1>1. TypeOK'  BY <1>d DEF TypeOK, store
<1>2. LiveInv'
  <2>1. \A x \in Entries : x \in Use /\ Arrives(x)
        BY DEF LiveInv, Entries, TypeOK
  <2>2. (Entries \cup held)' = Entries  BY DEF Entries, store
  <2> QED  BY <1>d, <2>1, <2>2 DEF LiveInv
<1>3. StoreInv'
      BY <1>d DEF StoreInv, BoundRestored, PrefetchedStayResident
<1> QED  BY <1>1, <1>2, <1>3, <1>d

(* forward returns.                                                        *)
LEMMA ReturnInv == StoreIInv /\ Return => StoreIInv'
<1> SUFFICES ASSUME StoreIInv, Return PROVE StoreIInv'  OBVIOUS
<1> USE DEF StoreIInv, Return
<1>d. DeviceTypeOK' /\ DeviceInv' /\ (\A u : Arrives(u) => Arrives(u)') /\ Computes' = Computes
      BY DeviceUnchanged DEF TypeOK
<1>1. TypeOK'  BY <1>d DEF TypeOK, store
<1>2. LiveInv'  BY <1>d DEF LiveInv, Entries, store
<1>3. StoreInv'  BY DEF StoreInv, BoundRestored, PrefetchedStayResident
<1> QED  BY <1>1, <1>2, <1>3, <1>d

(* A load raises, in prefetch or in get.                                   *)
LEMMA LoadFailsInv == StoreIInv /\ LoadFails => StoreIInv'
<1> SUFFICES ASSUME StoreIInv, LoadFails PROVE StoreIInv'  OBVIOUS
<1> USE DEF StoreIInv, LoadFails
<1>d. DeviceTypeOK' /\ DeviceInv' /\ (\A u \in Use : Arrives(u) => Arrives(u)')
  <2>1. CASE phase = "experts"  BY <2>1, WaitIssued DEF TypeOK
  <2>2. CASE phase # "experts"
    <3>1. UNCHANGED device  BY <2>2 DEF device
    <3> QED  BY <3>1, DeviceUnchanged DEF TypeOK
  <2> QED  BY <2>1, <2>2
<1>1. TypeOK'  BY <1>d DEF TypeOK, store
<1>2. LiveInv'
  <2>1. \A x \in Entries : x \in Use /\ Arrives(x)  BY DEF LiveInv, Entries, TypeOK
  <2>2. (Entries \cup held)' = Entries  BY DEF Entries, store
  <2> QED  BY <1>d, <2>1, <2>2 DEF LiveInv
<1>3. StoreInv'  BY DEF StoreInv, BoundRestored, PrefetchedStayResident
<1> QED  BY <1>1, <1>2, <1>3, <1>d

(* The device runs meanwhile.                                              *)
LEMMA DeviceStepInv ==
  ASSUME StoreIInv, NEW s \in Streams, Complete(s), UNCHANGED <<store, call>>
  PROVE  StoreIInv'
<1> USE DEF StoreIInv, store, call
<1>d. /\ DeviceTypeOK' /\ DeviceInv' /\ (\A u \in Use : Arrives(u) => Arrives(u)')
      /\ Awaited(Len(Computes)) => Awaited(Len(Computes))'
      BY CompleteTypes, CompleteInv, CompleteArrives, CompleteAwaited DEF TypeOK
<1>1. TypeOK'  BY <1>d DEF TypeOK
<1>2. LiveInv'
  <2>1. \A x \in Entries \cup held : x \in Use /\ Arrives(x)
        BY DEF LiveInv, Entries, TypeOK
  <2>2. (Entries \cup held)' = Entries \cup held  BY DEF Entries
  <2> QED  BY <1>d, <2>1, <2>2 DEF LiveInv
<1>3. StoreInv'
  <2>1. Computes = <<>> => Computes' = <<>>
    <3> SUFFICES ASSUME Computes = <<>> PROVE Computes' = <<>>  OBVIOUS
    <3>1. s = "copy"  BY DEF Complete, Computes, Streams
    <3>2. Len(Computes') = Len(Computes) /\ Computes' \in Seq(Ops)
          BY <1>d, <3>1, CompleteCopyEffect DEF TypeOK, DeviceInv, DeviceTypeOK, Computes, Streams
    <3> QED  BY <3>2
  <2> QED  BY <1>d, <2>1 DEF StoreInv, Prefetched, BoundRestored, PrefetchedStayResident, Resident
<1> QED  BY <1>1, <1>2, <1>3, <1>d

(* Nothing happens.                                                        *)
LEMMA StutterInv == StoreIInv /\ UNCHANGED vars => StoreIInv'
<1> SUFFICES ASSUME StoreIInv, UNCHANGED vars PROVE StoreIInv'  OBVIOUS
<1> USE DEF StoreIInv, vars, store, call
<1>d. /\ DeviceTypeOK' /\ DeviceInv' /\ (\A u : Arrives(u) => Arrives(u)') /\ Computes' = Computes
      /\ Awaited(Len(Computes)) => Awaited(Len(Computes))'
      BY DeviceUnchanged DEF TypeOK
<1>1. TypeOK'  BY <1>d DEF TypeOK
<1>2. LiveInv'  BY <1>d DEF LiveInv, Entries
<1>3. StoreInv'
      BY <1>d DEF StoreInv, Prefetched, BoundRestored, PrefetchedStayResident, Resident
<1> QED  BY <1>1, <1>2, <1>3, <1>d

(* Every step of the forward program.                                      *)
LEMMA StoreStep == StoreIInv /\ [Next]_vars => StoreIInv'
<1> SUFFICES ASSUME StoreIInv, [Next]_vars PROVE StoreIInv'  OBVIOUS
<1>1. CASE Host
      BY <1>1, StartForwardInv, PrefetchHitInv, PrefetchMissInv, PrefetchDoneInv, GetHitInv,
         GetMissInv, LaunchExpertInv, LaunchGroupedInv, ReturnInv, LoadFailsInv DEF Host
<1>2. CASE Device  BY <1>2, DeviceStepInv DEF Device
<1>3. CASE UNCHANGED vars  BY <1>3, StutterInv
<1> QED  BY <1>1, <1>2, <1>3 DEF Next, Finished

-----------------------------------------------------------------------------
(* The provider works on the same device, by the same definitions.         *)
LEMMA SameDevice ==
  /\ Provider!Use = Use /\ Provider!Streams = Streams /\ Provider!device = device
  /\ Provider!DeviceTypeOK <=> DeviceTypeOK
  /\ \A s : Provider!Complete(s) => Complete(s)
  /\ \A q, s, op : Provider!Issue(q, s, op) = Issue(q, s, op)
  /\ \A q, s : Provider!IssueWait(q, s) = IssueWait(q, s)
  /\ \A b, k : Provider!LoadOp(b, k) = LoadOp(b, k)
  /\ \A uses : Provider!RunOp(uses) = RunOp(uses)
<1>1. Provider!Use = Use /\ Provider!Streams = Streams /\ Provider!device = device
      BY DEF Provider!Use, Use, Provider!Streams, Streams, Provider!device, device
<1>2. Provider!DeviceTypeOK <=> DeviceTypeOK
      BY <1>1 DEF Provider!DeviceTypeOK, DeviceTypeOK, Provider!Ops, Ops
<1>3. \A s : Provider!Complete(s) => Complete(s)
      BY <1>1 DEF Provider!Complete, Complete, Provider!Running, Running
<1>4. \A q, s, op : Provider!Issue(q, s, op) = Issue(q, s, op)
      BY DEF Provider!Issue, Issue
<1>5. \A q, s : Provider!IssueWait(q, s) = IssueWait(q, s)
      BY <1>4 DEF Provider!IssueWait, IssueWait, Provider!Other, Other
<1>6. \A b, k : Provider!LoadOp(b, k) = LoadOp(b, k)  BY DEF Provider!LoadOp, LoadOp
<1>7. \A uses : Provider!RunOp(uses) = RunOp(uses)  BY DEF Provider!RunOp, RunOp
<1> QED  BY <1>1, <1>2, <1>3, <1>4, <1>5, <1>6, <1>7

(* And its cache is handled alike.                                         *)
LEMMA SameCache ==
  /\ \A k : Provider!Resident(k) <=> Resident(k)
  /\ \A k : Provider!EntryOf(k) = EntryOf(k) /\ Provider!At(k) = At(k)
  /\ \A entries : Provider!Evicted(entries) = Evicted(entries)
  /\ Provider!Live = Live
  /\ \A s, live : Provider!Allocatable(s, live) = Allocatable(s, live)
<1>1. \A k : Provider!Resident(k) <=> Resident(k)  BY DEF Provider!Resident, Resident
<1>2. \A k : Provider!EntryOf(k) = EntryOf(k) /\ Provider!At(k) = At(k)
      BY DEF Provider!EntryOf, EntryOf, Provider!At, At
<1>3. \A entries : Provider!Evicted(entries) = Evicted(entries)  BY DEF Provider!Evicted, Evicted
<1>4. Provider!Live = Live  BY DEF Provider!Live, Live
<1>5. \A s, live : Provider!Allocatable(s, live) = Allocatable(s, live)
      BY DEF Provider!Allocatable, Allocatable, Provider!Reusable, Reusable, Provider!Reads, Reads
<1> QED  BY <1>1, <1>2, <1>3, <1>4, <1>5

(* What the executor needs of the types.                                   *)
LEMMA ProviderTypes ==
  Provider!TypeOK <=>
    /\ DeviceTypeOK
    /\ host \subseteq Keys /\ gpu \in Seq(Use)
    /\ phase \in {"idle", "gather", "provide", "launch"}
    /\ todo \in Seq(Keys) /\ held \subseteq Use /\ calls \in 0 .. MaxCalls
BY SameDevice DEF Provider!TypeOK

(* The same in the next state.                                             *)
LEMMA ProviderTypesNext ==
  Provider!TypeOK' <=>
    /\ DeviceTypeOK'
    /\ host' \subseteq Keys /\ gpu' \in Seq(Use)
    /\ phase' \in {"idle", "gather", "provide", "launch"}
    /\ todo' \in Seq(Keys) /\ held' \subseteq Use /\ calls' \in 0 .. MaxCalls
<1>1. Provider!Use = Use /\ Provider!Streams = Streams
      BY DEF Provider!Use, Use, Provider!Streams, Streams
<1>2. Provider!DeviceTypeOK' <=> DeviceTypeOK'
      BY <1>1 DEF Provider!DeviceTypeOK, DeviceTypeOK, Provider!Ops, Ops
<1> QED  BY <1>1, <1>2 DEF Provider!TypeOK

(* The pool stays within its bound when only a live bundle is in the way   *)
(* of reusing a block.                                                     *)
LEMMA PoolGrows ==
  ASSUME ProviderIInv, Reusable("copy", Live) = {}
  PROVE  /\ Owned \subseteq Live
         /\ Cardinality(Owned) <= IF MaxResident = 0 THEN 1 ELSE MaxResident
<1> USE DEF ProviderIInv, ProviderInv
<1>0. gpu \in Seq(Use) /\ held \subseteq Use /\ Len(gpu) <= MaxResident /\ Len(gpu) \in Nat
      /\ MaxResident \in Nat
      BY ProviderTypes, StoreAssumption
<1>1. Owned \subseteq Live
      BY DEF Owned, Reusable
<1>2. CASE MaxResident = 0
  <2>1. gpu = <<>>  BY <1>0, <1>2
  <2>2. \E x : Live \subseteq {x}
    <3>1. CASE held = {}  BY <2>1, <3>1 DEF Live
    <3>2. CASE held # {}
      <4>1. PICK u \in held : TRUE  BY <3>2
      <4>2. Live \subseteq {u.block}  BY <2>1, <4>1 DEF Live
      <4> QED  BY <4>2
    <3> QED  BY <3>1, <3>2
  <2>3. PICK x : Owned \subseteq {x}  BY <1>1, <2>2
  <2>4. IsFiniteSet({x}) /\ Cardinality({x}) = 1  BY FS_Singleton
  <2>5. Cardinality(Owned) <= 1  BY <2>3, <2>4, FS_Subset
  <2> QED  BY <1>1, <1>2, <2>5
<1>3. CASE MaxResident # 0
  <2> DEFINE f == [i \in 1 .. Len(gpu) |-> gpu[i].block]
             B == {gpu[i].block : i \in 1 .. Len(gpu)}
  <2>1. Live \subseteq B
    <3>1. held \subseteq Entries  BY <1>0, <1>3
    <3>2. DOMAIN gpu = 1 .. Len(gpu)  BY <1>0
    <3> QED  BY <3>1, <3>2 DEF Live, Entries
  <2>2. f \in Surjection(1 .. Len(gpu), B)
    <3>1. f \in [1 .. Len(gpu) -> B]  OBVIOUS
    <3>2. \A t \in B : \E i \in 1 .. Len(gpu) : f[i] = t  OBVIOUS
    <3> QED  BY <3>1, <3>2 DEF Surjection
  <2>3. IsFiniteSet(1 .. Len(gpu)) /\ Cardinality(1 .. Len(gpu)) = Len(gpu)
    <3>1. PICK n \in Nat : n = Len(gpu)  BY <1>0
    <3>2. 1 \in Int /\ n \in Int  OBVIOUS
    <3>3. IsFiniteSet(1 .. n) /\ Cardinality(1 .. n) = IF 1 > n THEN 0 ELSE n - 1 + 1
          BY <3>2, FS_Interval
    <3> QED  BY <3>1, <3>3
  <2> HIDE DEF f, B
  <2>4. IsFiniteSet(B) /\ Cardinality(B) <= Len(gpu)  BY <2>2, <2>3, FS_Surjection
  <2>5. Owned \in SUBSET B  BY <1>1, <2>1
  <2>6. Cardinality(Owned) <= Cardinality(B)  BY <2>4, <2>5, FS_Subset
  <2>7. Cardinality(B) \in Nat /\ Cardinality(Owned) \in Nat
        BY <2>4, <2>5, FS_Subset, FS_CardinalityType
  <2> QED  BY <1>0, <1>1, <1>3, <2>4, <2>6, <2>7
<1> QED  BY <1>2, <1>3

-----------------------------------------------------------------------------
(* The steps of the executor.                                              *)
LEMMA StartExecuteInv ==
  ASSUME ProviderIInv, NEW layer \in Layers, NEW chosen \in Provider!ActiveLists,
         Provider!StartExecute(layer, chosen)
  PROVE  ProviderIInv'
<1> USE DEF ProviderIInv, Provider!StartExecute, Provider!cache
<1>0. chosen \in Seq(ProviderExperts) /\ Len(chosen) \in Nat /\ DOMAIN chosen = 1 .. Len(chosen)
      BY DEF Provider!ActiveLists, Provider!SeqOf
<1>k. \A i \in DOMAIN chosen : <<layer, chosen[i]>> \in Keys  BY <1>0, ProviderAssumption
<1>a. todo' \in Seq(Keys)  BY <1>0, <1>k
<1>d. /\ DeviceTypeOK' /\ DeviceInv' /\ (\A u : Arrives(u) => Arrives(u)') /\ Computes' = Computes
      /\ Awaited(Len(Computes)) => Awaited(Len(Computes))'
      /\ UNCHANGED device
  <2>1. UNCHANGED device  BY DEF Provider!device, device
  <2> QED  BY <2>1, DeviceUnchanged, ProviderTypes
<1>1. Provider!TypeOK'
      BY <1>a, <1>d, ProviderTypes, ProviderTypesNext, StoreAssumption
<1>2. LiveInv'  BY <1>d DEF LiveInv, Entries
<1>3. ProviderInv'
      BY <1>d DEF ProviderInv, Entries, Owned, device
<1> QED  BY <1>1, <1>2, <1>3, <1>d

(* Steps that move the executor along and touch neither cache nor device.  *)
LEMMA ExecutorOnly ==
  ASSUME ProviderIInv, UNCHANGED <<device, host, gpu, calls>>,
         phase' \in {"idle", "gather", "provide"}, todo' \in Seq(Keys), held' \subseteq held,
         phase' = "provide" => Computes = <<>> /\ todo' # <<>>
  PROVE  ProviderIInv'
<1> USE DEF ProviderIInv
<1>d. /\ DeviceTypeOK' /\ DeviceInv' /\ (\A u : Arrives(u) => Arrives(u)') /\ Computes' = Computes
      /\ Awaited(Len(Computes)) => Awaited(Len(Computes))'
      BY DeviceUnchanged, ProviderTypes
<1>1. Provider!TypeOK'  BY <1>d, ProviderTypes, ProviderTypesNext
<1>2. LiveInv'  BY <1>d DEF LiveInv, Entries
<1>3. ProviderInv'
      BY <1>d DEF ProviderInv, Entries, Owned, device
<1> QED  BY <1>1, <1>2, <1>3, <1>d

(* A bundle found in the cache.                                            *)
LEMMA ProvideHitInv == ProviderIInv /\ Provider!ProvideHit => ProviderIInv'
<1> SUFFICES ASSUME ProviderIInv, Provider!ProvideHit PROVE ProviderIInv'  OBVIOUS
<1> USE DEF ProviderIInv
<1>m. /\ UNCHANGED device /\ UNCHANGED <<host, todo, calls>>
      /\ phase = "provide" /\ phase' = "launch" /\ Provider!Resident(Head(todo))
      /\ gpu' = Append(RemoveAt(gpu, Provider!At(Head(todo))), Provider!EntryOf(Head(todo)))
      /\ held' = {Provider!EntryOf(Head(todo))}
      BY DEF Provider!ProvideHit, Provider!device, device, Provider!RemoveAt, RemoveAt
<1>t. gpu \in Seq(Use) /\ todo \in Seq(Keys) /\ todo # <<>>
      BY <1>m, ProviderTypes DEF ProviderInv
<1>k. PICK k \in Keys : k = Head(todo)  BY <1>t
<1>h. Resident(k) /\ gpu' = Touched(k) /\ held' = {EntryOf(k)}
      BY <1>k, <1>m, SameCache DEF Touched
<1>u. PICK u \in Use : u = EntryOf(k) /\ u \in Entries  BY <1>h, <1>t, TouchedEntries
<1>d. /\ DeviceTypeOK' /\ DeviceInv' /\ (\A x : Arrives(x) => Arrives(x)') /\ Computes' = Computes
      /\ Awaited(Len(Computes)) => Awaited(Len(Computes))'
      BY <1>m, DeviceUnchanged, ProviderTypes
<1>g. gpu' \in Seq(Use) /\ Len(gpu') = Len(gpu) /\ Entries' = Entries
  <2>1. Entries' = {Touched(k)[j] : j \in DOMAIN Touched(k)}  BY <1>h DEF Entries
  <2> QED  BY <1>h, <1>t, <2>1, TouchedEntries
<1>1. Provider!TypeOK'  BY <1>d, <1>g, <1>h, <1>m, <1>u, ProviderTypes, ProviderTypesNext
<1>2. LiveInv'
  <2>1. \A x \in Entries : Arrives(x)  BY DEF LiveInv
  <2>2. (Entries \cup held)' \subseteq Entries  BY <1>g, <1>h, <1>u
  <2> QED  BY <1>d, <2>1, <2>2 DEF LiveInv
<1>3. ProviderInv'
  <2>1. ASSUME NEW i \in DOMAIN gpu', NEW j \in DOMAIN gpu', gpu'[i].expert = gpu'[j].expert
        PROVE  i = j
    <3>0. PICK a \in Nat, n \in Nat : a = At(k) /\ n = Len(gpu) /\ a \in 1 .. n
          BY <1>h, <1>t, TouchedEntries
    <3> DEFINE from(x) == IF x < a THEN x ELSE IF x = n THEN a ELSE x + 1
    <3>1. i \in 1 .. n /\ j \in 1 .. n /\ DOMAIN gpu = 1 .. n
          BY <1>g, <1>t, <3>0
    <3>2. \A x \in 1 .. n : from(x) \in 1 .. n /\ gpu'[x] = gpu[from(x)]
      <4> SUFFICES ASSUME NEW x \in 1 .. n
                   PROVE  from(x) \in 1 .. n /\ gpu'[x] = gpu[from(x)]
          OBVIOUS
      <4>1. CASE x \in 1 .. a - 1
        <5>1. gpu'[x] = gpu[x]  BY <1>h, <1>t, <3>0, <4>1, TouchedEntries
        <5> QED  BY <3>0, <4>1, <5>1
      <4>2. CASE x = n
        <5>1. gpu'[x] = gpu[a]  BY <1>h, <1>t, <3>0, <4>2, TouchedEntries DEF EntryOf
        <5> QED  BY <3>0, <4>2, <5>1
      <4>3. CASE x \in a .. n - 1
        <5>1. gpu'[x] = gpu[x + 1]  BY <1>h, <1>t, <3>0, <4>3, TouchedEntries
        <5> QED  BY <3>0, <4>3, <5>1
      <4> QED  BY <3>0, <4>1, <4>2, <4>3
    <3>3. from(i) = from(j)
      <4> HIDE DEF from
      <4> QED  BY <2>1, <3>1, <3>2 DEF ProviderInv
    <3> QED  BY <3>0, <3>1, <3>3
  <2>3. held' \subseteq Entries' /\ \A x, y \in held' : x = y  BY <1>g, <1>h, <1>u
  <2> QED  BY <1>d, <1>g, <1>m, <2>1, <2>3 DEF ProviderInv, Owned, device
<1> QED  BY <1>1, <1>2, <1>3, <1>d

(* The kernel of the bundle just provided.                                 *)
LEMMA ExecuteLaunchInv == ProviderIInv /\ Provider!LaunchExpert => ProviderIInv'
<1> SUFFICES ASSUME ProviderIInv, Provider!LaunchExpert PROVE ProviderIInv'  OBVIOUS
<1> USE DEF ProviderIInv
<1>m. /\ UNCHANGED <<mem, owner, recorded, host, gpu, held, calls>>
      /\ phase = "launch" /\ phase' = "gather" /\ todo' = Tail(todo)
      /\ queue' = Issue(queue, "compute", RunOp(held))
      BY SameDevice DEF Provider!LaunchExpert, Provider!cache
<1>t. /\ gpu \in Seq(Use) /\ todo \in Seq(Keys) /\ todo # <<>> /\ held \subseteq Use
      /\ todo' \in Seq(Keys)
      BY <1>m, ProviderTypes DEF ProviderInv
<1>d. /\ DeviceTypeOK' /\ DeviceInv' /\ Awaited(Len(Computes))'
      /\ \A x \in Use : Arrives(x) => Arrives(x)'
  <2>1. (\A u \in held : Arrives(u)) /\ Awaited(Len(Computes)) /\ recorded' \subseteq Blocks
        BY <1>m, ProviderTypes DEF ProviderInv, LiveInv, DeviceTypeOK
  <2> QED  BY <1>m, <1>t, <2>1, RunIssued, ProviderTypes
<1>1. Provider!TypeOK'  BY <1>d, <1>m, <1>t, ProviderTypes, ProviderTypesNext
<1>2. LiveInv'
  <2>1. \A x \in Entries \cup held : x \in Use /\ Arrives(x)  BY <1>t DEF LiveInv, Entries
  <2>2. (Entries \cup held)' = Entries \cup held  BY <1>m DEF Entries
  <2> QED  BY <1>d, <2>1, <2>2 DEF LiveInv
<1>3. ProviderInv'
      BY <1>d, <1>m DEF ProviderInv, Entries, Owned
<1> QED  BY <1>1, <1>2, <1>3, <1>d

(* The device runs meanwhile.                                              *)
LEMMA ProviderDeviceInv ==
  ASSUME ProviderIInv, NEW s \in Streams, Complete(s), UNCHANGED <<host, gpu, phase, todo, held, calls>>
  PROVE  ProviderIInv'
<1> USE DEF ProviderIInv
<1>t. DeviceTypeOK /\ gpu \in Seq(Use) /\ held \subseteq Use  BY ProviderTypes
<1>d. /\ DeviceTypeOK' /\ DeviceInv' /\ (\A u \in Use : Arrives(u) => Arrives(u)')
      /\ Awaited(Len(Computes)) => Awaited(Len(Computes))'
      BY <1>t, CompleteTypes, CompleteInv, CompleteArrives, CompleteAwaited
<1>1. Provider!TypeOK'  BY <1>d, ProviderTypes, ProviderTypesNext
<1>2. LiveInv'
  <2>1. \A x \in Entries \cup held : x \in Use /\ Arrives(x)  BY <1>t DEF LiveInv, Entries
  <2>2. (Entries \cup held)' = Entries \cup held  BY DEF Entries
  <2> QED  BY <1>d, <2>1, <2>2 DEF LiveInv
<1>3. ProviderInv'
  <2>1. Computes = <<>> => Computes' = <<>>
    <3> SUFFICES ASSUME Computes = <<>> PROVE Computes' = <<>>  OBVIOUS
    <3>1. s = "copy"  BY DEF Complete, Computes, Streams
    <3>2. Len(Computes') = Len(Computes) /\ Computes' \in Seq(Ops)
          BY <1>d, <1>t, <3>1, CompleteCopyEffect DEF DeviceInv, DeviceTypeOK, Computes, Streams
    <3> QED  BY <3>2
  <2>2. UNCHANGED <<owner, recorded>>  BY DEF Complete
  <2> QED  BY <1>d, <2>1, <2>2 DEF ProviderInv, Entries, Owned
<1> QED  BY <1>1, <1>2, <1>3, <1>d

(* A bundle copied from host memory, then awaited.                         *)
LEMMA ProvideMissInv == ProviderIInv /\ Provider!ProvideMiss => ProviderIInv'
<1> SUFFICES ASSUME ProviderIInv, Provider!ProvideMiss PROVE ProviderIInv'  OBVIOUS
<1> USE DEF ProviderIInv
<1>m. /\ UNCHANGED <<mem, recorded, todo, calls>>
      /\ phase = "provide" /\ phase' = "launch" /\ host' = host \cup {Head(todo)}
      BY DEF Provider!ProvideMiss
<1>t. gpu \in Seq(Use) /\ todo \in Seq(Keys) /\ todo # <<>> /\ held \subseteq Use /\ DeviceTypeOK
      BY <1>m, ProviderTypes DEF ProviderInv
<1>k. PICK k \in Keys : k = Head(todo)  BY <1>t
<1>b. PICK b \in Allocatable("copy", Live) :
        /\ queue' = IssueWait(Issue(queue, "copy", LoadOp(b, k)), "compute")
        /\ owner' = [owner EXCEPT ![b] = "copy"]
        /\ gpu' = Evicted(Append(gpu, [block |-> b, expert |-> k]))
        /\ held' = {[block |-> b, expert |-> k]}
      BY <1>k, SameDevice, SameCache DEF Provider!ProvideMiss
<1>n. ~Resident(k)  BY <1>k, SameCache DEF Provider!ProvideMiss
<1>o. /\ b \in Blocks /\ owner[b] \in {"copy", Unset}
      /\ \A x \in Use : Arrives(x) /\ x.block \in Live => x.block # b
      BY AllocatedBlock DEF Streams
<1>u. PICK u \in Use : u = [block |-> b, expert |-> k]  BY <1>o DEF Use
<1>c. Computes = <<>>  BY <1>m DEF ProviderInv
<1> DEFINE w == [op |-> "wait", left |-> Len(Copies) + 1]
<1>q. /\ Copies' = Append(Copies, LoadOp(b, k)) /\ Computes' = <<w>>
      /\ queue' \in [Streams -> Seq(Ops)] /\ Computes' \in Seq(Ops)
  <2>1. /\ Copies \in Seq(Ops) /\ LoadOp(b, k) \in Ops /\ w \in Ops
        BY <1>o, <1>t DEF DeviceTypeOK, Copies, Streams, LoadOp, Ops
  <2> DEFINE q == Issue(queue, "copy", LoadOp(b, k))
  <2>2. q["copy"] = Append(Copies, LoadOp(b, k)) /\ q["compute"] = <<>> /\ DOMAIN q = Streams
        BY <1>c, <1>t DEF Issue, Copies, Computes, DeviceTypeOK, Streams
  <2>3. Len(q["copy"]) = Len(Copies) + 1  BY <2>1, <2>2
  <2>4. queue' = Issue(q, "compute", w)  BY <1>b, <2>3 DEF IssueWait, Other
  <2>5. queue'["copy"] = q["copy"] /\ queue'["compute"] = Append(q["compute"], w)
        /\ queue' = [s \in Streams |-> queue'[s]]
        BY <2>2, <2>4 DEF Issue, Streams
  <2> HIDE DEF q, w
  <2>6. queue'["copy"] \in Seq(Ops) /\ queue'["compute"] = <<w>> /\ queue'["compute"] \in Seq(Ops)
        BY <2>1, <2>2, <2>5
  <2> QED  BY <2>2, <2>5, <2>6 DEF Copies, Computes, Streams
<1>w. \A i \in DOMAIN Computes' : Computes'[i].op = "wait" /\ Computes'[i].left = Len(Copies) + 1
      BY <1>q
<1>d. /\ DeviceInv' /\ Arrives(u)'
      /\ \A x \in Use : Arrives(x) /\ x.block # b => Arrives(x)'
      BY <1>b, <1>c, <1>m, <1>o, <1>q, <1>t, <1>u, <1>w, CopyGrows
<1>e. DeviceTypeOK'  BY <1>b, <1>m, <1>q, <1>t DEF DeviceTypeOK, Streams
<1>a. Awaited(Len(Computes))'
  <2>1. 1 \in 1 .. Len(Computes') /\ Computes'[1].op = "wait"  BY <1>q
  <2> QED  BY <2>1 DEF Awaited
<1>f. PICK a \in Seq(Use), n \in Nat :
        /\ gpu' = Evicted(a) /\ n = Len(gpu) /\ Len(a) = n + 1
        /\ DOMAIN a = 1 .. n + 1 /\ DOMAIN gpu = 1 .. n
        /\ a[n + 1] = u /\ \A i \in 1 .. n : a[i] = gpu[i]
  <2> DEFINE a == Append(gpu, u)
  <2>1. /\ a \in Seq(Use) /\ gpu' = Evicted(a) /\ Len(a) = Len(gpu) + 1 /\ Len(gpu) \in Nat
        /\ DOMAIN a = 1 .. Len(gpu) + 1 /\ DOMAIN gpu = 1 .. Len(gpu)
        /\ a[Len(gpu) + 1] = u /\ \A i \in 1 .. Len(gpu) : a[i] = gpu[i]
        BY <1>b, <1>t, <1>u
  <2> HIDE DEF a
  <2> QED  BY <2>1
<1>g. PICK l \in Nat, c \in Nat :
        /\ gpu' \in Seq(Use) /\ l = Len(gpu') /\ DOMAIN gpu' = 1 .. l
        /\ l <= MaxResident /\ c + l = n + 1 /\ (c = 0 \/ l = MaxResident)
        /\ \A j \in 1 .. l : gpu'[j] = a[c + j]
  <2>1. PICK l \in Nat : l = Len(Evicted(a)) /\ DOMAIN gpu' = 1 .. l
        BY <1>f, EvictedEntries
  <2>2. /\ gpu' \in Seq(Use) /\ l <= MaxResident /\ l <= n + 1 /\ (l = n + 1 \/ l = MaxResident)
        /\ \A j \in 1 .. l : gpu'[j] = a[(n + 1) - l + j]
    <3> DEFINE e == Evicted(a)
    <3>1. /\ e \in Seq(Use) /\ Len(e) <= MaxResident /\ Len(e) <= Len(a)
          /\ Len(e) = Len(a) \/ Len(e) = MaxResident
          /\ \A j \in DOMAIN e : e[j] = a[Len(a) - Len(e) + j]
          BY EvictedEntries
    <3> HIDE DEF e
    <3>2. gpu' = e /\ l = Len(e) /\ DOMAIN e = 1 .. l  BY <1>f, <2>1 DEF e
    <3> QED  BY <1>f, <3>1, <3>2
  <2>3. (n + 1) - l \in Nat /\ ((n + 1) - l) + l = n + 1 /\ (l = n + 1 => (n + 1) - l = 0)
        BY <2>2
  <2> QED  BY <1>f, <2>1, <2>2, <2>3
<1> HIDE DEF w
<1>1. Provider!TypeOK'
  <2>1. held' \subseteq Use /\ host' \subseteq Keys  BY <1>b, <1>k, <1>m, <1>u, ProviderTypes
  <2> QED  BY <1>e, <1>g, <1>m, <1>t, <2>1, ProviderTypes, ProviderTypesNext
<1>2. LiveInv'
  <2>1. \A x \in Entries \cup held : x \in Use /\ x.block \in Live /\ Arrives(x)
        BY <1>t DEF LiveInv, Entries, Live
  <2>2. \A j \in DOMAIN gpu' : gpu'[j] \in Entries \cup {u}
    <3>1. \A i \in 1 .. n + 1 : a[i] \in Entries \cup {u}
      <4>1. \A i \in 1 .. n : a[i] \in Entries  BY <1>f DEF Entries
      <4>2. \A i \in 1 .. n + 1 : i \in 1 .. n \/ i = n + 1  OBVIOUS
      <4> QED  BY <1>f, <4>1, <4>2
    <3>2. \A j \in 1 .. l : c + j \in 1 .. n + 1  BY <1>g
    <3> QED  BY <1>g, <3>1, <3>2
  <2>3. (Entries \cup held)' \subseteq Entries \cup {u}  BY <1>b, <1>u, <2>2 DEF Entries
  <2>4. \A x \in Entries \cup held : Arrives(x)'  BY <1>d, <1>o, <2>1
  <2> QED  BY <1>d, <2>3, <2>4 DEF LiveInv
<1>3. MaxResident > 0 => held' \subseteq Entries'
  <2> SUFFICES ASSUME MaxResident > 0 PROVE u \in Entries'  BY <1>b, <1>u
  <2>1. MaxResident \in Nat /\ l \in 1 .. l  BY <1>g, StoreAssumption
  <2>2. gpu'[l] = u /\ l \in DOMAIN gpu'  BY <1>f, <1>g, <2>1
  <2> QED  BY <2>2 DEF Entries
<1>4. ASSUME NEW i \in DOMAIN gpu', NEW j \in DOMAIN gpu', gpu'[i].expert = gpu'[j].expert
      PROVE  i = j
  <2>1. /\ gpu'[i] = a[c + i] /\ gpu'[j] = a[c + j] /\ i \in 1 .. l /\ j \in 1 .. l
        /\ c + i \in 1 .. n + 1 /\ c + j \in 1 .. n + 1
        BY <1>g
  <2>2. \A x \in 1 .. n : a[x].expert # k  BY <1>f, <1>n DEF Resident
  <2>3. a[n + 1].expert = k  BY <1>f, <1>u
  <2>4. CASE c + i \in 1 .. n /\ c + j \in 1 .. n
    <3>1. c + i = c + j  BY <1>4, <1>f, <2>1, <2>4 DEF ProviderInv
    <3> QED  BY <2>1, <3>1
  <2>5. CASE c + i = n + 1 /\ c + j = n + 1  BY <2>1, <2>5
  <2>6. CASE c + i = n + 1 /\ c + j \in 1 .. n  BY <1>4, <2>1, <2>2, <2>3, <2>6
  <2>7. CASE c + i \in 1 .. n /\ c + j = n + 1  BY <1>4, <2>1, <2>2, <2>3, <2>7
  <2>8. \A x \in 1 .. n + 1 : x \in 1 .. n \/ x = n + 1  OBVIOUS
  <2> QED  BY <2>1, <2>4, <2>5, <2>6, <2>7, <2>8
<1>5. /\ IsFiniteSet(Owned')
      /\ Cardinality(Owned') <= IF MaxResident = 0 THEN 2 ELSE MaxResident + 1
  <2>0. Owned' = Owned \cup {b} /\ IsFiniteSet(Owned)
        /\ Cardinality(Owned) <= IF MaxResident = 0 THEN 2 ELSE MaxResident + 1
    <3>1. owner \in [Blocks -> Streams \cup {Unset}] /\ Unset # "copy"
          BY <1>t, UnsetAssumption DEF DeviceTypeOK
    <3> QED  BY <1>b, <1>o, <3>1 DEF Owned, ProviderInv
  <2>1. CASE Reusable("copy", Live) # {}
    <3>1. b \in Owned  BY <1>o, <2>1, UnsetAssumption DEF Allocatable, Reusable, Owned
    <3> QED  BY <2>0, <3>1
  <2>2. CASE Reusable("copy", Live) = {}
    <3>1. Cardinality(Owned) <= IF MaxResident = 0 THEN 1 ELSE MaxResident
          BY <2>2, PoolGrows
    <3>2. IsFiniteSet(Owned \cup {b})
          /\ Cardinality(Owned \cup {b}) =
               IF b \in Owned THEN Cardinality(Owned) ELSE Cardinality(Owned) + 1
          BY <2>0, FS_AddElement
    <3>3. Cardinality(Owned) \in Nat /\ MaxResident \in Nat
          BY <2>0, FS_CardinalityType, StoreAssumption
    <3> QED  BY <2>0, <3>1, <3>2, <3>3
  <2> QED  BY <2>1, <2>2
<1>6. ProviderInv'
  <2>1. \A x \in Blocks : owner'[x] \in {"copy", Unset}
        BY <1>b, <1>t DEF ProviderInv, DeviceTypeOK
  <2>3. \A x, y \in held' : x = y  BY <1>b
  <2> QED  BY <1>3, <1>4, <1>5, <1>a, <1>g, <1>m, <1>t, <2>1, <2>3 DEF ProviderInv
<1> QED  BY <1>1, <1>2, <1>6, <1>d

(* Every step of the execute program.                                      *)
LEMMA ProviderStep == ProviderIInv /\ (Provider!Next \/ UNCHANGED vars) => ProviderIInv'
<1> SUFFICES ASSUME ProviderIInv, Provider!Next \/ UNCHANGED vars PROVE ProviderIInv'  OBVIOUS
<1>t. todo \in Seq(Keys) /\ phase \in {"idle", "gather", "provide", "launch"}
      BY ProviderTypes DEF ProviderIInv
<1>1. CASE Provider!GatherTokens
      BY <1>1, <1>t, ExecutorOnly
      DEF Provider!GatherTokens, Provider!Synchronized, Provider!cache, Provider!device, device, Computes
<1>2. CASE Provider!Return \/ Provider!LoadFails
  <2>1. /\ UNCHANGED <<device, host, gpu, calls>>
        /\ phase' = "idle" /\ held' = {} /\ (todo' = todo \/ todo' = <<>>)
    <3>1. CASE Provider!Return
          BY <3>1 DEF Provider!Return, Provider!cache, Provider!device, device
    <3>2. CASE Provider!LoadFails
          BY <3>2 DEF Provider!LoadFails, Provider!cache, Provider!device, device
    <3> QED  BY <1>2, <3>1, <3>2
  <2>2. todo' \in Seq(Keys)
    <3>1. <<>> \in Seq(Keys)  OBVIOUS
    <3> QED  BY <1>t, <2>1, <3>1
  <2>3. held' \subseteq held /\ phase' # "provide" /\ phase' \in {"idle", "gather", "provide"}
        BY <2>1
  <2> QED  BY <2>1, <2>2, <2>3, ExecutorOnly
<1>3. CASE Provider!Device
  <2>1. PICK s \in Streams : Complete(s) /\ UNCHANGED <<host, gpu, phase, todo, held, calls>>
        BY <1>3, SameDevice DEF Provider!Device, Provider!cache, Provider!call
  <2> QED  BY <2>1, ProviderDeviceInv
<1>4. CASE Provider!Finished \/ UNCHANGED vars
  <2>1. UNCHANGED <<device, host, gpu, phase, todo, held, calls>>
        BY <1>4 DEF Provider!Finished, Provider!vars, Provider!cache, Provider!call,
                    Provider!device, vars, device, store, call
  <2>2. CASE phase # "launch"
        BY <1>t, <2>1, <2>2, ExecutorOnly DEF ProviderIInv, ProviderInv
  <2>3. CASE phase = "launch"
    <3>d. /\ DeviceTypeOK' /\ DeviceInv' /\ (\A u : Arrives(u) => Arrives(u)')
          /\ Computes' = Computes
          /\ Awaited(Len(Computes)) => Awaited(Len(Computes))'
          BY <2>1, DeviceUnchanged, ProviderTypes DEF ProviderIInv
    <3>1. Provider!TypeOK'  BY <2>1, <3>d, ProviderTypes, ProviderTypesNext DEF ProviderIInv
    <3>2. LiveInv'  BY <2>1, <3>d DEF ProviderIInv, LiveInv, Entries
    <3>0. /\ owner' = owner /\ recorded' = recorded /\ gpu' = gpu /\ phase' = phase
          /\ todo' = todo /\ held' = held
          BY <2>1 DEF device
    <3>e. Owned' = Owned /\ Entries' = Entries  BY <3>0 DEF Owned, Entries
    <3>i. ProviderInv  BY DEF ProviderIInv
    <3> HIDE DEF ProviderIInv
    <3>3. ProviderInv'  BY <3>0, <3>d, <3>e, <3>i DEF ProviderInv
    <3> QED  BY <3>1, <3>2, <3>3, <3>d DEF ProviderIInv
  <2> QED  BY <2>2, <2>3
<1> QED
    BY <1>1, <1>2, <1>3, <1>4, StartExecuteInv, ProvideHitInv, ProvideMissInv, ExecuteLaunchInv
    DEF Provider!Next, Provider!Host

-----------------------------------------------------------------------------
(* The invariant holds at first: nothing is issued, cached or held.        *)
LEMMA InitInv == OffloadInit => IndInv
<1> SUFFICES ASSUME OffloadInit PROVE IndInv  OBVIOUS
<1> USE DEF OffloadInit, Init, DeviceInit
<1>1. DeviceTypeOK  BY DEF DeviceTypeOK, Streams
<1>2. Copies = <<>> /\ Computes = <<>>  BY DEF Copies, Computes, Streams
<1>3. DeviceInv
      BY <1>2 DEF DeviceInv, CopiesOnly, LoadsOwned, WaitsForAll, KernelsFed, Streams, Copies, Computes
<1>4. LiveInv  BY DEF LiveInv, Entries
<1>5. TypeOK  BY <1>1, StoreAssumption DEF TypeOK
<1>6. StoreInv  BY DEF StoreInv, BoundRestored, PrefetchedStayResident
<1>7. Provider!TypeOK  BY <1>1, ProviderTypes, StoreAssumption
<1>8. ProviderInv
  <2>1. Owned = {}  BY DEF Owned
  <2>2. IsFiniteSet(Owned) /\ Cardinality(Owned) = 0  BY <2>1, FS_EmptySet
  <2> QED  BY <1>2, <2>2, StoreAssumption DEF ProviderInv, Awaited
<1> QED  BY <1>3, <1>4, <1>5, <1>6, <1>7, <1>8 DEF IndInv, StoreIInv, ProviderIInv

(* And is kept by every step of either program.                            *)
LEMMA NextInv == IndInv /\ [OffloadNext]_<<vars, program>> => IndInv'
<1> SUFFICES ASSUME IndInv, [OffloadNext]_<<vars, program>> PROVE IndInv'  OBVIOUS
<1>1. program' = program  BY DEF OffloadNext
<1>2. CASE program = "forward"
      BY <1>1, <1>2, StoreStep DEF IndInv, OffloadNext
<1>3. CASE program # "forward"
      BY <1>1, <1>3, ProviderStep DEF IndInv, OffloadNext
<1> QED  BY <1>2, <1>3

(* In every state of the programs the device holds what the queues say.    *)
LEMMA Invariant == OffloadSpec => []IndInv
BY InitInv, NextInv, PTL DEF OffloadSpec

-----------------------------------------------------------------------------
(* However far the host runs ahead and whichever memory is reused          *)
(* meanwhile, a running kernel reads the bytes of its own experts, in both *)
(* programs: the head of a stream has no copy left in front of it.         *)
THEOREM KernelsReadRight == OffloadSpec => []KernelsReadTheirExperts
<1>1. IndInv => KernelsReadTheirExperts
  <2> SUFFICES ASSUME IndInv, Running("compute", "run"), NEW u \in Head(Computes).uses
               PROVE  /\ mem[u.block] = u.expert
                      /\ ~(Running("copy", "load") /\ Head(Copies).block = u.block)
      BY DEF KernelsReadTheirExperts, Copies, Computes
  <2>0. DeviceTypeOK /\ DeviceInv
        BY ProviderTypes DEF IndInv, StoreIInv, ProviderIInv, TypeOK
  <2>1. /\ Copies \in Seq(Ops) /\ 1 \in DOMAIN Computes /\ Head(Computes) = Computes[1]
        /\ Computes[1].op = "run"
        BY <2>0 DEF Running, Computes, Copies, DeviceTypeOK, Streams
  <2>2. Fed(u, 0) /\ 1 - 1 = 0  BY <2>0, <2>1 DEF DeviceInv, KernelsFed
  <2>3. CASE owner[u.block] = "copy"
    <3>1. Copies = <<>> /\ Brings(Copies, Len(Copies), mem, u)
          BY <2>2, <2>3 DEF Fed, Awaited
    <3>2. mem[u.block] = u.expert  BY <3>1 DEF Brings
    <3> QED  BY <3>1, <3>2 DEF Running, Copies
  <2>4. CASE owner[u.block] = "compute"
    <3>1. mem[u.block] = u.expert  BY <2>2, <2>4 DEF Fed, Brings
    <3>2. ASSUME Running("copy", "load") PROVE owner[Head(Copies).block] = "copy"
      <4>1. 1 \in DOMAIN Copies /\ Copies[1].op = "load" /\ Head(Copies) = Copies[1]
            BY <2>1, <3>2 DEF Running, Copies
      <4> QED  BY <2>0, <4>1 DEF DeviceInv, LoadsOwned, Copies, Streams
    <3> QED  BY <2>4, <3>1, <3>2
  <2> QED  BY <2>2, <2>3, <2>4 DEF Fed
<1> QED  BY <1>1, Invariant, PTL

(* The cache bounds hold, with the types: for the store from the end of a  *)
(* prefetch on, for the provider always, and with it the pool of blocks    *)
(* its copies ever take from the allocator.                                *)
THEOREM CachesBounded == OffloadSpec => []DeviceCacheBounded
<1>1. IndInv => DeviceCacheBounded
  <2>1. StoreIInv => TypeOK /\ BoundRestored  BY DEF StoreIInv, StoreInv
  <2>2. ASSUME ProviderIInv PROVE Provider!TypeOK /\ Provider!PoolBounded
    <3>1. Provider!TypeOK /\ ProviderInv  BY <2>2 DEF ProviderIInv
    <3>2. /\ Len(gpu) <= MaxResident
          /\ \A i, j \in DOMAIN gpu : gpu[i].expert = gpu[j].expert => i = j
          BY <3>1 DEF ProviderInv
    <3>3. Cardinality(Owned) <= IF MaxResident = 0 THEN 2 ELSE MaxResident + 1
          BY <3>1 DEF ProviderInv
    <3>4. Owned = {b \in Blocks : owner[b] # Unset}  BY DEF Owned
    <3>5. Provider!Cardinality(Owned) = Cardinality(Owned)
          BY DEF Provider!Cardinality, Cardinality
    <3>6. Provider!Cardinality({b \in Blocks : owner[b] # Unset}) <=
            IF MaxResident = 0 THEN 2 ELSE MaxResident + 1
          BY <3>3, <3>4, <3>5, Zenon
    <3> QED  BY <3>1, <3>2, <3>6, Zenon DEF Provider!PoolBounded
  <2> QED  BY <2>1, <2>2 DEF IndInv, DeviceCacheBounded
<1> QED  BY <1>1, Invariant, PTL

(* The last copy queued for a block, as Brings counts it.                  *)
LEMMA LastCopyBrought ==
  ASSUME DeviceTypeOK, NEW u \in Use, Arrives(u)
  PROVE  LastCopyTo(u.block) = u.expert
<1> DEFINE s == owner[u.block]
           ops == queue[s]
           n == Len(ops)
           loads == {i \in DOMAIN ops : ops[i].op = "load" /\ ops[i].block = u.block}
<1>0. s \in Streams /\ ops \in Seq(Ops) /\ DOMAIN ops = 1 .. n /\ n \in Nat
      BY DEF Arrives, DeviceTypeOK
<1>1. LastCopyTo(u.block) =
        IF loads # {} THEN ops[CHOOSE i \in loads : \A j \in loads : j <= i].expert
        ELSE mem[u.block]
      BY DEF LastCopyTo
<1>2. Brings(ops, n, mem, u)  BY DEF Arrives
<1>3. loads = {i \in 1 .. n : IsLoadTo(ops[i], u.block)}  BY <1>0 DEF IsLoadTo
<1> HIDE DEF loads, ops, n
<1>4. ASSUME NEW i \in 1 .. n, IsLoadTo(ops[i], u.block), ops[i].expert = u.expert,
             \A j \in i + 1 .. n : ~IsLoadTo(ops[j], u.block)
      PROVE  LastCopyTo(u.block) = u.expert
  <2>1. i \in loads /\ \A j \in loads : j \in Int /\ j <= i  BY <1>0, <1>3, <1>4
  <2>2. \A x \in loads : (\A j \in loads : j <= x) => x = i  BY <2>1
  <2>3. (CHOOSE x \in loads : \A j \in loads : j <= x) = i  BY <2>1, <2>2
  <2> QED  BY <1>1, <1>4, <2>1, <2>3
<1>5. CASE (\A i \in 1 .. n : ~IsLoadTo(ops[i], u.block)) /\ mem[u.block] = u.expert
      BY <1>1, <1>3, <1>5
<1> QED  BY <1>2, <1>4, <1>5 DEF Brings

(* What was prefetched for a call that fits the cache is there when its    *)
(* turn comes, and its bytes are in their block or on their way.           *)
THEOREM PrefetchKept == OffloadSpec => []PrefetchHolds
<1>1. IndInv => PrefetchHolds
  <2> SUFFICES ASSUME StoreIInv PROVE PrefetchedStayResident /\ ResidentBytesArrive
      BY DEF IndInv, PrefetchHolds
  <2>1. PrefetchedStayResident  BY DEF StoreIInv, StoreInv
  <2>2. ASSUME NEW i \in DOMAIN gpu PROVE LastCopyTo(gpu[i].block) = gpu[i].expert
    <3>1. DeviceTypeOK /\ gpu[i] \in Use /\ Arrives(gpu[i])
          BY DEF StoreIInv, TypeOK, LiveInv, Entries
    <3> QED  BY <3>1, LastCopyBrought
  <2> QED  BY <2>1, <2>2 DEF ResidentBytesArrive
<1> QED  BY <1>1, Invariant, PTL
==============================================================================
