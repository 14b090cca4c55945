------------------------------- MODULE LedLock -------------------------------
(***************************************************************************)
(* What locking promises, whatever names, aliases, priorities and flashes  *)
(* do underneath: a lock is taken only from nobody and given up only with  *)
(* the ID that took it, and one request uses one ID.  LedControl is shown  *)
(* to implement it.                                                        *)
(***************************************************************************)
CONSTANTS LEDs, LockIds, NoLock

VARIABLE owner          \* The ID that holds the lock of each LED

Init == owner = [l \in LEDs |-> NoLock]

(* One request locks the LEDs of S that nobody holds. *)
Lock(S, k) ==
    owner' = [l \in LEDs |-> IF l \in S /\ owner[l] = NoLock THEN k ELSE owner[l]]

(* One request unlocks the LEDs of S that are held with this ID. *)
Unlock(S, k) ==
    owner' = [l \in LEDs |-> IF l \in S /\ owner[l] = k THEN NoLock ELSE owner[l]]

Next == \E S \in SUBSET LEDs, k \in LockIds : Lock(S, k) \/ Unlock(S, k)

Spec == Init /\ [][Next]_owner
==============================================================================
