---------------------------- MODULE BundleProvider ----------------------------
(***************************************************************************)
(* HostOffloadBundleProvider of wrappers/deepseek_v4/host_offload.py on a  *)
(* CUDA device, driven by DeepSeekV4PythonExpertExecutor.execute of        *)
(* expert_executor.py: one bundle at a time, each copied on the copy       *)
(* stream, without record_stream.  That the memory of an evicted bundle is *)
(* not overwritten under a running kernel rests on the executor, which     *)
(* synchronizes when it gathers the tokens of the next expert.             *)
(***************************************************************************)
EXTENDS GpuStreams

CONSTANTS
  Layers, Experts,
  MaxResident,     \* max_resident_experts
  MayRaise,        \* loading an expert from the checkpoint may fail
  MaxActive,       \* bound on the active experts of a call
  MaxCalls         \* bound on the number of execute calls

VARIABLES
  host,      \* experts in host memory (_host)
  gpu,       \* resident experts, least recently used first (_gpu)
  phase,     \* statement of execute: "idle", "gather", "provide", "launch"
  todo,      \* active experts the loop has not reached
  held,      \* the bundle the local variables w1 .. s3 refer to
  calls

cache == <<host, gpu>>
call  == <<phase, todo, held, calls>>
vars  == <<device, cache, call>>
-----------------------------------------------------------------------------
Resident(k) == \E i \in DOMAIN gpu : gpu[i].expert = k
At(k)       == CHOOSE i \in DOMAIN gpu : gpu[i].expert = k
EntryOf(k)  == gpu[At(k)]
Live        == {gpu[i].block : i \in DOMAIN gpu} \cup {u.block : u \in held}

(* _evict_if_needed: pop the least recently used while there are too many. *)
Evicted(entries) ==
  IF Len(entries) > MaxResident
  THEN SubSeq(entries, Len(entries) - MaxResident + 1, Len(entries)) ELSE entries

Init ==
  /\ DeviceInit
  /\ host = {} /\ gpu = <<>>
  /\ phase = "idle" /\ todo = <<>> /\ held = {} /\ calls = 0

(* active_experts: nonzero and tolist synchronize.                         *)
StartExecute(layer, chosen) ==
  /\ phase = "idle"
  /\ calls < MaxCalls
  /\ Synchronized
  /\ todo' = [i \in DOMAIN chosen |-> <<layer, chosen[i]>>]
  /\ phase' = "gather"
  /\ calls' = calls + 1
  /\ UNCHANGED <<device, cache, held>>

(* torch.nonzero(token_mask) synchronizes.                                 *)
GatherTokens ==
  /\ phase = "gather" /\ todo # <<>>
  /\ Synchronized
  /\ phase' = "provide"
  /\ UNCHANGED <<device, cache, todo, held, calls>>

(* The provider, called while the previous bundle is still referred to.    *)
ProvideHit ==
  /\ phase = "provide"
  /\ Resident(Head(todo))
  /\ gpu' = Append(RemoveAt(gpu, At(Head(todo))), EntryOf(Head(todo)))
  /\ held' = {EntryOf(Head(todo))}
  /\ phase' = "launch"
  /\ UNCHANGED <<device, host, todo, calls>>

ProvideMiss ==
  /\ phase = "provide"
  /\ ~Resident(Head(todo))
  /\ \E b \in Allocatable("copy", Live) :
       LET u == [block |-> b, expert |-> Head(todo)]
       IN  /\ queue' = IssueWait(Issue(queue, "copy", LoadOp(b, Head(todo))), "compute")
           /\ owner' = [owner EXCEPT ![b] = "copy"]
           /\ gpu' = Evicted(Append(gpu, u))
           /\ held' = {u}
  /\ host' = host \cup {Head(todo)}
  /\ phase' = "launch"
  /\ UNCHANGED <<mem, recorded, todo, calls>>

(* fp4_expert_forward and the weighted sum.                                *)
LaunchExpert ==
  /\ phase = "launch"
  /\ queue' = Issue(queue, "compute", RunOp(held))
  /\ todo' = Tail(todo)
  /\ phase' = "gather"
  /\ UNCHANGED <<mem, owner, recorded, cache, held, calls>>

Return ==
  /\ phase = "gather" /\ todo = <<>>
  /\ phase' = "idle" /\ held' = {}
  /\ UNCHANGED <<device, cache, todo, calls>>

(* load_bundle_tensors raises; the exception leaves execute.               *)
LoadFails ==
  /\ MayRaise
  /\ phase = "provide"
  /\ ~Resident(Head(todo)) /\ Head(todo) \notin host
  /\ phase' = "idle" /\ todo' = <<>> /\ held' = {}
  /\ UNCHANGED <<device, cache, calls>>

Finished == phase = "idle" /\ calls = MaxCalls /\ Synchronized /\ UNCHANGED vars

(* What the router may choose, in ascending order.                         *)
ActiveLists ==
  {c \in SeqOf(Experts, MaxActive) : \A i, j \in DOMAIN c : i < j => c[i] < c[j]}

Host ==
  \/ \E layer \in Layers, chosen \in ActiveLists : StartExecute(layer, chosen)
  \/ GatherTokens \/ ProvideHit \/ ProvideMiss \/ LaunchExpert
  \/ Return \/ LoadFails

Device == \E s \in Streams : Complete(s) /\ UNCHANGED <<cache, call>>

Next == Host \/ Device \/ Finished

Spec == Init /\ [][Next]_vars
-----------------------------------------------------------------------------
(***************************************************************************)
(* Properties, with KernelsReadTheirExperts of GpuStreams.                 *)
(***************************************************************************)

(* Type invariant of the provider, the executor and the device.            *)
TypeOK ==
  /\ DeviceTypeOK
  /\ host \subseteq Keys
  /\ gpu \in Seq(Use)
  /\ phase \in {"idle", "gather", "provide", "launch"}
  /\ todo \in Seq(Keys)
  /\ held \subseteq Use
  /\ calls \in 0 .. MaxCalls

(* Device memory is bounded whatever the routing: no more than MaxResident *)
(* bundles are cached and no expert is cached twice, so the pool of the    *)
(* copy stream never grows beyond the cache and the bundle being loaded    *)
(* (without a cache: the bundle the executor still holds).                 *)
PoolBounded ==
  /\ Len(gpu) <= MaxResident
  /\ \A i, j \in DOMAIN gpu : gpu[i].expert = gpu[j].expert => i = j
  /\ Cardinality({b \in Blocks : owner[b] # Unset}) <=
       IF MaxResident = 0 THEN 2 ELSE MaxResident + 1
=============================================================================
