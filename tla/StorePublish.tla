----------------------------- MODULE StorePublish -----------------------------
(***************************************************************************)
(* What a store directory promises to whoever opens it, whatever the       *)
(* conversions behind it do: a store appears in one step and complete, no  *)
(* conversion appears twice, and a store that is visible is never written  *)
(* to again.  It can only be withdrawn (dismantled, then gone), or be      *)
(* damaged by a power loss.                                                *)
(***************************************************************************)
CONSTANTS
  Versions,   \* conversions that may be published
  None        \* no store at the path

VARIABLES
  shown,      \* the version at the path, or None
  intact,     \* every file of that version is there and complete
  published   \* versions that have been at the path

Init ==
  /\ shown \in Versions \cup {None}
  /\ intact = (shown # None)
  /\ published = {shown} \ {None}

(* A new version takes the place of no store, or of what is left of one.   *)
Publish ==
  /\ ~intact
  /\ \E v \in Versions \ published :
       /\ shown' = v
       /\ published' = published \cup {v}
  /\ intact' = TRUE

Withdraw ==
  /\ intact
  /\ intact' = FALSE
  /\ UNCHANGED <<shown, published>>

Vanish ==
  /\ ~intact
  /\ shown' = None
  /\ UNCHANGED <<intact, published>>

Next == Publish \/ Withdraw \/ Vanish

Spec == Init /\ [][Next]_<<shown, intact, published>>
=============================================================================
