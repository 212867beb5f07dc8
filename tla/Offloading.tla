------------------------------ MODULE Offloading ------------------------------
(***************************************************************************)
(* The two programs that keep experts in host memory and a few of them on  *)
(* the device: the official model's MoE forward over its expert store, and *)
(* the Python executor over its bundle provider.  A process runs one of    *)
(* them; both have a host cache, a device cache and the bundle in use.     *)
(***************************************************************************)
EXTENDS ExpertHostStore

CONSTANTS
  ProviderExperts,   \* experts of the layers the executor runs
  ProviderActive     \* bound on the active experts of a call of execute

ASSUME ProviderAssumption ==
  /\ Layers \X ProviderExperts \subseteq Keys
  /\ ProviderExperts \subseteq Nat
  /\ ProviderActive \in Nat

VARIABLE program

Provider == INSTANCE BundleProvider WITH Experts <- ProviderExperts, MaxActive <- ProviderActive

OffloadInit ==
  /\ Init
  /\ program \in {"forward", "execute"}
  /\ program = "execute" => ~grouped

OffloadNext ==
  \/ program = "forward" /\ Next /\ UNCHANGED program
  \/ program = "execute" /\ Provider!Next /\ UNCHANGED <<active, grouped, program>>

OffloadSpec == OffloadInit /\ [][OffloadNext]_<<vars, program>>
-----------------------------------------------------------------------------
(* The store and the provider bound what they keep on the device: the      *)
(* store from the end of a prefetch on, even after one that raised         *)
(* half-way; the provider always, with the pool its memory comes from.     *)
DeviceCacheBounded ==
  IF program = "forward" THEN TypeOK /\ BoundRestored ELSE Provider!TypeOK /\ Provider!PoolBounded

(* What forward prefetched for a call that fits the cache is still there   *)
(* when its turn comes, and has arrived or is on its way to its block.     *)
PrefetchHolds ==
  program = "forward" => PrefetchedStayResident /\ ResidentBytesArrive
=============================================================================
