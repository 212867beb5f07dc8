--------------------------- MODULE ExpertHostStore ---------------------------
(***************************************************************************)
(* OfficialExpertHostStore of wrappers/deepseek_v4/official_offload_       *)
(* adapter.py with the two MoE forwards that drive it: the per-expert loop *)
(* (also that of deepseek_v41/official_offload_adapter.py), and the        *)
(* grouped native call.  The host issues device work and runs ahead of it. *)
(***************************************************************************)
EXTENDS GpuStreams

CONSTANTS
  Layers, Experts,
  MaxResident,     \* max_resident_experts
  Paths,           \* forwards in use: TRUE for the grouped native path
  MayRaise,        \* loading an expert from the checkpoint may fail
  MaxActive,       \* bound on the active experts of a call
  MaxCalls         \* bound on the number of forward calls

ASSUME StoreAssumption ==
  /\ Layers \X Experts \subseteq Keys
  /\ Experts \subseteq Nat
  /\ MaxResident \in Nat /\ MaxActive \in Nat /\ MaxCalls \in Nat
  /\ Paths \subseteq BOOLEAN /\ MayRaise \in BOOLEAN

VARIABLES
  grouped,   \* forward takes the grouped path, as the model was patched
  host,      \* experts in host memory (_host)
  gpu,       \* resident experts, least recently used first (_gpu)
  phase,     \* statement of forward: "idle", "prefetch", "experts", "launch"
  active,    \* experts the router chose, in ascending order
  todo,      \* those the current loop has not reached
  held,      \* bundles that local variables of forward refer to
  calls

store == <<host, gpu>>
call  == <<grouped, phase, active, todo, held, calls>>
vars  == <<device, store, call>>
-----------------------------------------------------------------------------
Resident(k)   == \E i \in DOMAIN gpu : gpu[i].expert = k
At(k)         == CHOOSE i \in DOMAIN gpu : gpu[i].expert = k
EntryOf(k)    == gpu[At(k)]
Live          == {gpu[i].block : i \in DOMAIN gpu} \cup {u.block : u \in held}

TouchedNot(k) == gpu   \* mutant: a hit does not count as a use

(* move_to_end *)
Touched(k) == Append(RemoveAt(gpu, At(k)), EntryOf(k))

EvictedOne(entries) ==   \* mutant: `if' for `while'
  IF Len(entries) > MaxResident THEN Tail(entries) ELSE entries

(* _evict: pop the least recently used while there are too many.           *)
Evicted(entries) ==
  IF Len(entries) > MaxResident
  THEN SubSeq(entries, Len(entries) - MaxResident + 1, Len(entries)) ELSE entries

Init ==
  /\ DeviceInit
  /\ grouped \in Paths
  /\ host = {} /\ gpu = <<>>
  /\ phase = "idle" /\ active = <<>> /\ todo = <<>> /\ held = {}
  /\ calls = 0

(* The gate has chosen experts; reading their counts synchronizes.         *)
StartForward(layer, chosen) ==
  /\ phase = "idle"
  /\ calls < MaxCalls
  /\ Synchronized
  /\ active' = [i \in DOMAIN chosen |-> <<layer, chosen[i]>>]
  /\ todo' = active'
  /\ phase' = "prefetch"
  /\ calls' = calls + 1
  /\ UNCHANGED <<device, store, held, grouped>>

(* _load_host and _to_device: the copy of expert k to block b, issued on   *)
(* stream s behind the operations of q.                                    *)
ToDevice(k, b, s, q) ==
  /\ b \in Allocatable(s, Live)
  /\ host' = host \cup {k}
  /\ queue' = Issue(q, s, LoadOp(b, k))
  /\ owner' = [owner EXCEPT ![b] = s]
  /\ recorded' = recorded \ {b}

(* One iteration of prefetch, on the copy stream.                          *)
PrefetchHit ==
  /\ phase = "prefetch"
  /\ todo # <<>>
  /\ Resident(Head(todo))
  /\ gpu' = Touched(Head(todo))
  /\ todo' = Tail(todo)
  /\ UNCHANGED <<device, host, phase, active, held, calls, grouped>>

PrefetchMiss ==
  /\ phase = "prefetch"
  /\ todo # <<>>
  /\ ~Resident(Head(todo))
  /\ \E b \in Blocks :
       /\ ToDevice(Head(todo), b, "copy", queue)
       /\ gpu' = Append(gpu, [block |-> b, expert |-> Head(todo)])
  /\ todo' = Tail(todo)
  /\ UNCHANGED <<mem, phase, active, held, calls, grouped>>

PrefetchDone ==
  /\ phase = "prefetch"
  /\ todo = <<>>
  /\ gpu' = Evicted(gpu)
  /\ todo' = active
  /\ phase' = "experts"
  /\ UNCHANGED <<device, host, active, held, calls, grouped>>

(* The bundle get returned: the per-expert loop rebinds its variable and   *)
(* goes on to the kernel, the grouped path collects all bundles first.     *)
Receive(u) ==
  /\ held' = IF grouped THEN held \cup {u} ELSE {u}
  /\ phase' = IF grouped THEN "experts" ELSE "launch"
  /\ todo' = Tail(todo)

(* An iteration may call get once torch.where has synchronized; the        *)
(* grouped path does not synchronize between its calls.                    *)
MayGet == phase = "experts" /\ todo # <<>> /\ (grouped \/ Synchronized)

GetHitNoWait ==   \* mutant: wait_stream only after a miss
  /\ MayGet
  /\ Resident(Head(todo))
  /\ gpu' = Touched(Head(todo))
  /\ Receive(EntryOf(Head(todo)))
  /\ UNCHANGED <<device, host, active, calls, grouped>>

GetHit ==
  /\ MayGet
  /\ Resident(Head(todo))
  /\ queue' = IssueWait(queue, "compute")
  /\ gpu' = Touched(Head(todo))
  /\ Receive(EntryOf(Head(todo)))
  /\ UNCHANGED <<mem, owner, recorded, host, active, calls, grouped>>

(* The copy goes to the current stream, which is the compute stream.       *)
GetMiss ==
  /\ MayGet
  /\ ~Resident(Head(todo))
  /\ \E b \in Blocks :
       LET u == [block |-> b, expert |-> Head(todo)]
       IN  /\ ToDevice(Head(todo), b, "compute", IssueWait(queue, "compute"))
           /\ gpu' = Evicted(Append(gpu, u))
           /\ Receive(u)
  /\ UNCHANGED <<mem, active, calls, grouped>>

(* _expert_forward, or its native form, on the bundle just received.       *)
LaunchExpert ==
  /\ phase = "launch"
  /\ queue' = Issue(queue, "compute", RunOp(held))
  /\ phase' = "experts"
  /\ UNCHANGED <<mem, owner, recorded, store, active, todo, held, calls, grouped>>

(* record_stream on every bundle, and one kernel for all of them.          *)
LaunchGrouped ==
  /\ grouped
  /\ phase = "experts" /\ todo = <<>> /\ held # {}
  /\ recorded' = recorded \cup {u.block : u \in held}
  /\ queue' = Issue(queue, "compute", RunOp(held))
  /\ phase' = "idle" /\ held' = {} /\ active' = <<>>
  /\ UNCHANGED <<mem, owner, store, todo, calls, grouped>>

(* forward returns; its local variables release the last bundle.           *)
Return ==
  /\ phase = "experts" /\ todo = <<>>
  /\ grouped => held = {}
  /\ phase' = "idle" /\ held' = {} /\ active' = <<>>
  /\ UNCHANGED <<device, store, todo, calls, grouped>>

(* _load_host raises (a tensor is missing, the shard is unreadable): the   *)
(* exception leaves prefetch or get, and forward, where it is; an          *)
(* interrupted prefetch does not evict.                                    *)
LoadFails ==
  /\ MayRaise
  /\ (phase = "prefetch" /\ todo # <<>>) \/ MayGet
  /\ Head(todo) \notin host
  /\ ~Resident(Head(todo))
  /\ phase' = "idle" /\ todo' = <<>> /\ held' = {} /\ active' = <<>>
  /\ queue' = IF phase = "experts" THEN IssueWait(queue, "compute") ELSE queue
  /\ UNCHANGED <<mem, owner, recorded, store, calls, grouped>>

Finished == phase = "idle" /\ calls = MaxCalls /\ Synchronized /\ UNCHANGED vars

(* What the router may choose, in ascending order.                         *)
ActiveLists ==
  {c \in SeqOf(Experts, MaxActive) : \A i, j \in DOMAIN c : i < j => c[i] < c[j]}

Host ==
  \/ \E layer \in Layers, chosen \in ActiveLists : StartForward(layer, chosen)
  \/ PrefetchHit \/ PrefetchMiss \/ PrefetchDone
  \/ GetHit \/ GetMiss \/ LaunchExpert \/ LaunchGrouped
  \/ Return \/ LoadFails

Device == \E s \in Streams : Complete(s) /\ UNCHANGED <<store, call>>

Next == Host \/ Device \/ Finished

Spec == Init /\ [][Next]_vars
-----------------------------------------------------------------------------
(***************************************************************************)
(* Properties, with KernelsReadTheirExperts of GpuStreams: however far the *)
(* host runs ahead of the device, and whichever experts are evicted and    *)
(* whose memory is reused meanwhile, no kernel reads another expert.       *)
(***************************************************************************)

(* Type invariant of the store, the forward call and the device.           *)
TypeOK ==
  /\ DeviceTypeOK
  /\ host \subseteq Keys
  /\ gpu \in Seq(Use)
  /\ phase \in {"idle", "prefetch", "experts", "launch"}
  /\ active \in Seq(Keys) /\ todo \in Seq(Keys)
  /\ held \subseteq Use
  /\ calls \in 0 .. MaxCalls /\ grouped \in Paths

(* A resident expert's bytes are in its block or on their way: the last    *)
(* copy still queued for that block, if any, is this expert's, although    *)
(* blocks are reused while older copies are in flight.                     *)
LastCopyTo(b) ==
  LET loads(s) == {i \in DOMAIN queue[s] : queue[s][i].op = "load" /\ queue[s][i].block = b}
      last(s)  == queue[s][CHOOSE i \in loads(s) : \A j \in loads(s) : j <= i].expert
  IN  IF loads(owner[b]) # {} THEN last(owner[b]) ELSE mem[b]

ResidentBytesArrive ==
  \A i \in DOMAIN gpu : LastCopyTo(gpu[i].block) = gpu[i].expert

(* Once prefetch is done and until the call ends, no more than             *)
(* MaxResident experts are resident, even after calls whose prefetch       *)
(* raised half-way and left the cache too large.                           *)
BoundRestored == phase \in {"experts", "launch"} => Len(gpu) <= MaxResident

(* Prefetch pays off: when the active experts fit the cache, every expert  *)
(* the loop has still to run is resident, so that no get copies on the     *)
(* compute stream.  Eviction in between never takes one of them.           *)
PrefetchedStayResident ==
  phase \in {"experts", "launch"} /\ Len(active) <= MaxResident =>
    \A i \in DOMAIN todo : Resident(todo[i])
=============================================================================
