----------------------------- MODULE MCOffloading -----------------------------
(* Constant definitions for model checking Offloading.                     *)
EXTENDS Offloading

AllKeys == Layers \X (Experts \cup ProviderExperts)
=============================================================================
