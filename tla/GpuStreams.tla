------------------------------ MODULE GpuStreams ------------------------------
(***************************************************************************)
(* The device under the expert stores of wrappers/deepseek_v4: two CUDA    *)
(* streams and PyTorch's caching allocator, as far as official_offload_    *)
(* adapter.py and host_offload.py rely on them.  External code: modelled   *)
(* from its use in moe_store, not translated.                              *)
(*                                                                         *)
(* A stream runs its operations in order and independently of the host and *)
(* of the other stream.  The operation at the head of a stream is running. *)
(* The six tensors of an expert are one block of device memory.            *)
(***************************************************************************)
EXTENDS Naturals, Sequences, FiniteSets, SequencesExt

CONSTANTS
  Blocks,     \* blocks of device memory
  Keys,       \* experts: (layer_id, expert_id)
  Unset       \* contents of a fresh block, owner of an unreserved one

ASSUME UnsetAssumption == Unset \notin Keys /\ Unset \notin {"copy", "compute"}

VARIABLES
  queue,      \* stream -> operations issued and not completed
  mem,        \* block -> expert whose bytes it holds
  owner,      \* block -> stream whose pool the block belongs to
  recorded    \* blocks on which record_stream(compute) was called

device == <<queue, mem, owner, recorded>>

Streams  == {"copy", "compute"}
Other(s) == IF s = "copy" THEN "compute" ELSE "copy"

LoadOp(b, k) == [op |-> "load", block |-> b, expert |-> k]
RunOp(uses)  == [op |-> "run", uses |-> uses]   \* uses: block -> expert
Use          == [block: Blocks, expert: Keys]

Ops == [op: {"load"}, block: Blocks, expert: Keys]
         \cup [op: {"run"}, uses: SUBSET Use]
         \cup [op: {"wait"}, left: Nat]

DeviceTypeOK ==
  /\ queue \in [Streams -> Seq(Ops)]
  /\ mem \in [Blocks -> Keys \cup {Unset}]
  /\ owner \in [Blocks -> Streams \cup {Unset}]
  /\ recorded \subseteq Blocks

DeviceInit ==
  /\ queue = [s \in Streams |-> <<>>]
  /\ mem = [b \in Blocks |-> Unset]
  /\ owner = [b \in Blocks |-> Unset]
  /\ recorded = {}

(* Queues after issuing operations on stream s.                            *)
Issue(q, s, op) == [q EXCEPT ![s] = Append(@, op)]

(* s.wait_stream(other): later work of s starts after everything that is   *)
(* now in the other stream.                                                *)
IssueWait(q, s) == Issue(q, s, [op |-> "wait", left |-> Len(q[Other(s)])])

Reads(q, b) ==
  \E i \in DOMAIN q : q[i].op = "run" /\ \E u \in q[i].uses : u.block = b

(* Blocks the allocator may hand out on stream s: free blocks of that      *)
(* stream's pool at once, whatever is still running on the stream, unless  *)
(* the other stream is recorded to use them; fresh memory (whose blocks    *)
(* are all alike) only when there are none.                                *)
Reusable(s, live) ==
  {b \in Blocks \ live : owner[b] = s /\ ~(b \in recorded /\ Reads(queue["compute"], b))}

Allocatable(s, live) ==
  LET fresh == {b \in Blocks : owner[b] = Unset}
  IN  IF Reusable(s, live) # {} THEN Reusable(s, live)
      ELSE {b \in fresh : b = CHOOSE x \in fresh : TRUE}

(* The memory a device operation at the head of its queue writes or reads. *)
Running(s, op) == queue[s] # <<>> /\ Head(queue[s]).op = op

Complete(s) ==
  /\ queue[s] # <<>>
  /\ Running(s, "wait") => Head(queue[s]).left = 0
  /\ queue' = [q \in Streams |->
       IF q = s THEN Tail(queue[s])
       ELSE [i \in DOMAIN queue[q] |->
               IF queue[q][i].op = "wait" /\ queue[q][i].left > 0
               THEN [queue[q][i] EXCEPT !.left = @ - 1] ELSE queue[q][i]]]
  /\ mem' = IF Running(s, "load")
            THEN [mem EXCEPT ![Head(queue[s]).block] = Head(queue[s]).expert]
            ELSE mem
  /\ UNCHANGED <<owner, recorded>>

(* A host synchronisation with the compute stream (.tolist(), .nonzero(),  *)
(* one-argument torch.where) returns once that stream is idle.             *)
Synchronized == queue["compute"] = <<>>

(* A running kernel reads the bytes of its own experts: each block holds   *)
(* them, and no copy is overwriting it.                                    *)
KernelsReadTheirExperts ==
  Running("compute", "run") =>
    \A u \in Head(queue["compute"]).uses :
      /\ mem[u.block] = u.expert
      /\ ~(Running("copy", "load") /\ Head(queue["copy"]).block = u.block)
=============================================================================
