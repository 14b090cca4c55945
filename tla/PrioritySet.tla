----------------------------- MODULE PrioritySet -----------------------------
(***************************************************************************)
(* What a LED's priority context promises: a set of active priorities      *)
(* that always contains the permanent one, and after every call the most   *)
(* urgent member of that set.  LedPriorityContext, the bitmap that the     *)
(* daemon uses, is shown to implement this specification.                  *)
(***************************************************************************)
EXTENDS PriorityOrder

CONSTANTS
    Priorities,     \* The priorities the context was allocated for
    Permanent,      \* The priority that can't be deactivated
    Requested       \* The priorities that callers pass, valid or not

VARIABLES
    active,         \* The set of active priorities
    highest         \* What the last call returned

Init ==
    /\ active = {Permanent}
    /\ highest = Permanent

(* A priority outside the context is ignored, but still answered. *)
Activate(p) ==
    /\ active' = active \cup ({p} \cap Priorities)
    /\ highest' = MostUrgent(active')

Deactivate(p) ==
    /\ active' = active \ ({p} \ {Permanent})
    /\ highest' = MostUrgent(active')

Next == \E p \in Requested : Activate(p) \/ Deactivate(p)

vars == <<active, highest>>

Spec == Init /\ [][Next]_vars
==============================================================================
