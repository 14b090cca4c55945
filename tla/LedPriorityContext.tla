-------------------------- MODULE LedPriorityContext --------------------------
(***************************************************************************)
(* The priority context of one LED: the two-level bitmap of priorities.c   *)
(* behind the wrapper of led_priority_context.c, which activates NORMAL    *)
(* when the context is allocated and never deactivates it.                 *)
(*                                                                         *)
(* A byte is the set of its bit numbers; a bit of readyGroup summarises a  *)
(* whole byte of readyTable and has to be kept in step with it.            *)
(***************************************************************************)
EXTENDS PriorityOrder, FiniteSets

CONSTANTS
    NumPriorities,      \* led_priority_allocate's argument
    Normal,             \* LED_PRIORITY_NORMAL
    Requested           \* The priorities that callers pass, valid or not

ASSUME NumPrioritiesAssumption ==
    NumPriorities \in 1 .. (PriorityLimit - 1)
ASSUME NormalAssumption == Normal \in 0 .. (NumPriorities - 1)
ASSUME RequestedAssumption == Requested \subseteq Nat

VARIABLES
    readyGroup,         \* Bit y is set when some bit of readyTable[y] is
    readyTable,         \* One byte for every eight priorities
    highest             \* What the last call returned

vars == <<readyGroup, readyTable, highest>>

Bits == 0 .. 7
Groups == 0 .. ((NumPriorities + 7) \div 8 - 1)
Valid == 0 .. (NumPriorities - 1)

Group(p) == p \div 8
Bit(p) == p % 8

(* priority_map_table: the value of each bit of a byte. *)
MapTable == <<1, 2, 4, 8, 16, 32, 64, 128>>

(* The value of a byte, which is where it is found in the table below. *)
Number(byte) ==
    LET value(x) == IF x \in byte THEN MapTable[x + 1] ELSE 0
    IN  value(0) + value(1) + value(2) + value(3)
          + value(4) + value(5) + value(6) + value(7)

(* priority_unmap_table, as the code has it. *)
UnmapTable ==
  <<0, 0, 1, 0, 2, 0, 1, 0, 3, 0, 1, 0, 2, 0, 1, 0, 4, 0, 1, 0, 2, 0, 1, 0, 3, 0, 1, 0, 2, 0, 1, 0,
    5, 0, 1, 0, 2, 0, 1, 0, 3, 0, 1, 0, 2, 0, 1, 0, 4, 0, 1, 0, 2, 0, 1, 0, 3, 0, 1, 0, 2, 0, 1, 0,
    6, 0, 1, 0, 2, 0, 1, 0, 3, 0, 1, 0, 2, 0, 1, 0, 4, 0, 1, 0, 2, 0, 1, 0, 3, 0, 1, 0, 2, 0, 1, 0,
    5, 0, 1, 0, 2, 0, 1, 0, 3, 0, 1, 0, 2, 0, 1, 0, 4, 0, 1, 0, 2, 0, 1, 0, 3, 0, 1, 0, 2, 0, 1, 0,
    7, 0, 1, 0, 2, 0, 1, 0, 3, 0, 1, 0, 2, 0, 1, 0, 4, 0, 1, 0, 2, 0, 1, 0, 3, 0, 1, 0, 2, 0, 1, 0,
    5, 0, 1, 0, 2, 0, 1, 0, 3, 0, 1, 0, 2, 0, 1, 0, 4, 0, 1, 0, 2, 0, 1, 0, 3, 0, 1, 0, 2, 0, 1, 0,
    6, 0, 1, 0, 2, 0, 1, 0, 3, 0, 1, 0, 2, 0, 1, 0, 4, 0, 1, 0, 2, 0, 1, 0, 3, 0, 1, 0, 2, 0, 1, 0,
    5, 0, 1, 0, 2, 0, 1, 0, 3, 0, 1, 0, 2, 0, 1, 0, 4, 0, 1, 0, 2, 0, 1, 0, 3, 0, 1, 0, 2, 0, 1, 0>>

(* Mutant of Unmap: one entry of the table, that of 11010000, is wrong. *)
Unmap_WrongEntry(byte) == IF Number(byte) = 208 THEN 5 ELSE UnmapTable[Number(byte) + 1]

Unmap(byte) == UnmapTable[Number(byte) + 1]

Highest(group, table) ==
    LET y == Unmap(group) IN 8 * y + Unmap(table[y])

IsActive(p) == p \in Valid /\ Bit(p) \in readyTable[Group(p)]

------------------------------------------------------------------------------
(* led_priority_allocate: a cleared bitmap in which NORMAL is activated. *)
Init ==
    /\ readyGroup = {Group(Normal)}
    /\ readyTable = [y \in Groups |-> IF y = Group(Normal) THEN {Bit(Normal)} ELSE {}]
    /\ highest = Highest(readyGroup, readyTable)

(* Mutant of Activate: the priority after the last one is taken for valid. *)
Activate_OffByOne(p) ==
    /\ IF p <= NumPriorities
       THEN /\ readyGroup' = readyGroup \cup {Group(p)}
            /\ readyTable' = [readyTable EXCEPT ![Group(p)] = @ \cup {Bit(p)}]
       ELSE UNCHANGED <<readyGroup, readyTable>>
    /\ highest' = Highest(readyGroup', readyTable')

(* priority_context_priority_activate *)
Activate(p) ==
    /\ IF p \in Valid
       THEN /\ readyGroup' = readyGroup \cup {Group(p)}
            /\ readyTable' = [readyTable EXCEPT ![Group(p)] = @ \cup {Bit(p)}]
       ELSE UNCHANGED <<readyGroup, readyTable>>
    /\ highest' = Highest(readyGroup', readyTable')

(* Mutant of Deactivate: the bit of the group is left set. *)
Deactivate_GroupLeft(p) ==
    /\ IF p \in Valid /\ p # Normal
       THEN /\ readyTable' = [readyTable EXCEPT ![Group(p)] = @ \ {Bit(p)}]
            /\ UNCHANGED readyGroup
       ELSE UNCHANGED <<readyGroup, readyTable>>
    /\ highest' = Highest(readyGroup', readyTable')

(* priority_context_priority_deactivate, not called for NORMAL. *)
Deactivate(p) ==
    /\ IF p \in Valid /\ p # Normal
       THEN /\ readyTable' = [readyTable EXCEPT ![Group(p)] = @ \ {Bit(p)}]
            /\ readyGroup' = IF readyTable'[Group(p)] = {}
                             THEN readyGroup \ {Group(p)}
                             ELSE readyGroup
       ELSE UNCHANGED <<readyGroup, readyTable>>
    /\ highest' = Highest(readyGroup', readyTable')

Next == \E p \in Requested : Activate(p) \/ Deactivate(p)

Spec == Init /\ [][Next]_vars

------------------------------------------------------------------------------
(* The bytes hold only the bits of priorities that the context has. *)
TypeOK ==
    /\ readyGroup \in SUBSET Groups
    /\ readyTable \in [Groups -> SUBSET Bits]
    /\ \A y \in Groups : \A x \in readyTable[y] : 8 * y + x \in Valid
    /\ highest \in Nat

(***************************************************************************)
(* The two levels of the bitmap never disagree: a group bit is set exactly *)
(* when the group has an active priority.  A bit left behind would make    *)
(* priority_context_highest_priority report the first priority of an empty *)
(* group; a bit cleared too soon would hide an active priority.            *)
(***************************************************************************)
GroupSummarisesTable == \A y \in Groups : y \in readyGroup <=> readyTable[y] # {}

(* The abstract set of active priorities that the bitmap stands for. *)
Active == {p \in Valid : IsActive(p)}

Abstract == INSTANCE PrioritySet
    WITH Priorities <- Valid, Permanent <- Normal, active <- Active, highest <- highest

(***************************************************************************)
(* The bitmap with its lookup tables implements a set of priorities:       *)
(* whatever is activated and deactivated, in any order, the value returned *)
(* is the most urgent active priority, NORMAL stays active, and a priority *)
(* out of range changes nothing.  A wrong entry of a table, a group bit    *)
(* out of step or an empty context, which would answer CRITICAL, shows as  *)
(* a call that returns something else.                                     *)
(***************************************************************************)
ImplementsPrioritySet == Abstract!Spec
==============================================================================
