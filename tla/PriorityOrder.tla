---------------------------- MODULE PriorityOrder ----------------------------
(***************************************************************************)
(* The order on priorities that every part of the daemon uses: a priority  *)
(* is a small number and a LOWER number is MORE urgent                     *)
(* (led_daemon/include/led_daemon/priorities.h).                           *)
(***************************************************************************)
EXTENDS Integers

(* PRIORITY_LIMIT: no priority may have this value or a larger one. *)
PriorityLimit == 64

(* priority_compare(a, b) = PRIORITY_LESS. *)
LessUrgent(a, b) == a > b

(***************************************************************************)
(* The most urgent priority of a set: what a priority context answers when *)
(* it is asked for its highest priority.  Both look-ups of an empty        *)
(* context read entry 0 of the unmap table, so the answer is then 0, the   *)
(* number of the most urgent priority.                                     *)
(***************************************************************************)
MostUrgent(S) == IF S = {} THEN 0 ELSE CHOOSE p \in S : \A q \in S : p <= q

==============================================================================
