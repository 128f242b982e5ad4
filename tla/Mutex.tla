-------------------------------- MODULE Mutex --------------------------------
(***************************************************************************)
(* What a lock promises: at any time at most one owner, taken when free    *)
(* and given up by the owner.  SleepLock and Spinlock implement it.        *)
(***************************************************************************)
CONSTANTS Owners, NoOwner

VARIABLE owner

Init == owner = NoOwner

Take == owner = NoOwner /\ owner' \in Owners

Give == owner \in Owners /\ owner' = NoOwner

Spec == Init /\ [][Take \/ Give]_owner
=============================================================================
