------------------------- MODULE MCLedPriorityContext -------------------------
(* A context of two groups: eleven priorities, the permanent one being the  *)
(* least urgent, as NORMAL is; priorities 11 and 63 are out of range.       *)
EXTENDS LedPriorityContext

MCRequested == 0 .. 11 \cup {63}
==============================================================================
