----------------------- MODULE LedPriorityContextProofs -----------------------
(***************************************************************************)
(* The bitmap of LedPriorityContext implements PrioritySet, for every      *)
(* number of priorities and every permanent priority.                      *)
(***************************************************************************)
EXTENDS LedPriorityContext, PriorityOrderProofs

USE NumPrioritiesAssumption, NormalAssumption, RequestedAssumption

(* Only the permanent priority keeps a context from becoming empty. *)
NormalIsActive == IsActive(Normal)

(* The bitmap part of the invariant; the returned value is derived from it. *)
BitmapInv ==
    /\ readyGroup \in SUBSET Groups
    /\ readyTable \in [Groups -> SUBSET Bits]
    /\ \A y \in Groups : \A x \in readyTable[y] : 8 * y + x \in Valid
    /\ GroupSummarisesTable
    /\ NormalIsActive

IInv ==
    /\ BitmapInv
    /\ highest = MostUrgent(Active)
    /\ highest \in Active

------------------------------------------------------------------------------
(* A priority and its group and bit determine each other. *)
LEMMA Coordinates ==
    ASSUME NEW p \in Valid
    PROVE  /\ Group(p) \in Groups
           /\ Bit(p) \in Bits
           /\ p = 8 * Group(p) + Bit(p)
BY DEF Valid, Group, Groups, Bit, Bits, PriorityLimit

LEMMA CoordinatesInverse ==
    ASSUME NEW y \in Groups, NEW x \in Bits
    PROVE  Group(8 * y + x) = y /\ Bit(8 * y + x) = x
BY DEF Group, Groups, Bit, Bits, PriorityLimit

LEMMA CoordinatesInjective ==
    ASSUME NEW p \in Valid, NEW q \in Valid, Group(p) = Group(q), Bit(p) = Bit(q)
    PROVE  p = q
BY Coordinates

(* The group decides the order of two priorities, and within it the bit. *)
LEMMA CoordinatesOrdered ==
    ASSUME NEW p \in Valid, NEW q \in Valid,
           Group(p) < Group(q) \/ (Group(p) = Group(q) /\ Bit(p) <= Bit(q))
    PROVE  p <= q
<1>1. /\ p = 8 * Group(p) + Bit(p) /\ q = 8 * Group(q) + Bit(q)
      /\ Group(p) \in Int /\ Group(q) \in Int
      /\ Bit(p) \in 0 .. 7 /\ Bit(q) \in 0 .. 7
  BY Coordinates DEF Groups, Bits
<1>2. QED
  BY <1>1

(***************************************************************************)
(* The entry of the table for a byte that has a bit is its lowest bit: one *)
(* step for each bit that may be the lowest, and in it the provers look at *)
(* every entry of the table for such a byte.                               *)
(***************************************************************************)
LEMMA UnmapIsLeast ==
    ASSUME NEW byte \in SUBSET Bits, byte # {}
    PROVE  Unmap(byte) \in byte /\ \A z \in byte : Unmap(byte) <= z
<1> DEFINE IsLowest(x) == x \in byte /\ \A z \in 0 .. (x - 1) : z \notin byte
<1> USE DEF Unmap, UnmapTable, Number, MapTable
<1>1. IsLowest(0) => Unmap(byte) = 0
  OBVIOUS
<1>2. IsLowest(1) => Unmap(byte) = 1
  OBVIOUS
<1>3. IsLowest(2) => Unmap(byte) = 2
  OBVIOUS
<1>4. IsLowest(3) => Unmap(byte) = 3
  OBVIOUS
<1>5. IsLowest(4) => Unmap(byte) = 4
  OBVIOUS
<1>6. IsLowest(5) => Unmap(byte) = 5
  OBVIOUS
<1>7. IsLowest(6) => Unmap(byte) = 6
  OBVIOUS
<1>8. IsLowest(7) => Unmap(byte) = 7
  OBVIOUS
<1>9. PICK x \in byte : \A z \in byte : x <= z
  BY LeastNatural DEF Bits
<1>10. x \in 0 .. 7 /\ IsLowest(x)
  BY <1>9 DEF Bits
<1>11. Unmap(byte) = x
  <2> HIDE DEF Unmap, IsLowest
  <2> QED
    BY <1>1, <1>2, <1>3, <1>4, <1>5, <1>6, <1>7, <1>8, <1>10
<1>12. QED
  BY <1>9, <1>11

(***************************************************************************)
(* The two look-ups find the most urgent active priority, because a group  *)
(* bit is never set for an empty byte.                                     *)
(***************************************************************************)
LEMMA HighestIsMostUrgent ==
    ASSUME NEW group \in SUBSET Groups, NEW table \in [Groups -> SUBSET Bits],
           \A g \in Groups : \A b \in table[g] : 8 * g + b \in Valid,
           \A g \in Groups : g \in group <=> table[g] # {},
           Bit(Normal) \in table[Group(Normal)]
    PROVE  LET active == {p \in Valid : Bit(p) \in table[Group(p)]}
           IN  /\ Highest(group, table) = MostUrgent(active)
               /\ Highest(group, table) \in active
<1> DEFINE active == {p \in Valid : Bit(p) \in table[Group(p)]}
           y == Unmap(group)
           x == Unmap(table[y])
           h == 8 * y + x
<1>1. active \subseteq Nat /\ Group(Normal) \in group
  BY Coordinates DEF Valid
<1>2. y \in group /\ \A z \in group : y <= z
  <2>1. Groups \subseteq Bits
    BY DEF Groups, Bits, PriorityLimit
  <2>2. QED
    BY <1>1, <2>1, UnmapIsLeast
<1>3. y \in Groups /\ table[y] \in SUBSET Bits /\ table[y] # {}
  BY <1>2
<1>4. x \in table[y] /\ \A z \in table[y] : x <= z
  BY <1>3, UnmapIsLeast
<1>5. h \in Valid /\ Group(h) = y /\ Bit(h) = x
  <2>1. x \in Bits
    BY <1>3, <1>4
  <2>2. h \in Valid
    BY <1>3, <1>4
  <2>3. QED
    BY <1>3, <2>1, <2>2, CoordinatesInverse
<1>6. h \in active
  BY <1>4, <1>5
<1>7. ASSUME NEW q \in active PROVE h <= q
  <2>1. q \in Valid /\ Bit(q) \in table[Group(q)] /\ Group(q) \in Groups
    BY Coordinates
  <2>2. y <= Group(q)
    BY <1>2, <2>1
  <2>3. CASE Group(q) = y
    <3>1. Bit(h) <= Bit(q)
      BY <1>4, <1>5, <2>1, <2>3
    <3>2. QED
      BY <1>5, <2>1, <2>3, <3>1, CoordinatesOrdered
  <2>4. CASE Group(q) # y
    <3>1. Group(h) < Group(q)
      BY <1>3, <1>5, <2>1, <2>2, <2>4 DEF Groups
    <3>2. QED
      BY <1>5, <2>1, <3>1, CoordinatesOrdered
  <2>5. QED
    BY <2>3, <2>4
<1>8. MostUrgent(active) = h
  <2> HIDE DEF h, active
  <2>1. QED
    BY <1>1, <1>6, <1>7, MostUrgentUnique
<1>9. Highest(group, table) = h
  BY DEF Highest
<1>10. QED
  BY <1>6, <1>8, <1>9

------------------------------------------------------------------------------
LEMMA InitBitmap == Init => BitmapInv /\ Active = {Normal}
<1> SUFFICES ASSUME Init PROVE BitmapInv /\ Active = {Normal}
  OBVIOUS
<1>1. /\ Normal \in Valid /\ Group(Normal) \in Groups /\ Bit(Normal) \in Bits
      /\ 8 * Group(Normal) + Bit(Normal) = Normal
  BY Coordinates DEF Valid
<1>2. /\ readyGroup \in SUBSET Groups
      /\ readyTable \in [Groups -> SUBSET Bits]
      /\ \A y \in Groups : \A x \in readyTable[y] : 8 * y + x \in Valid
  BY <1>1 DEF Init
<1>3. GroupSummarisesTable /\ NormalIsActive
  BY <1>1 DEF Init, GroupSummarisesTable, NormalIsActive, IsActive
<1>4. \A q \in Valid : Bit(q) \in readyTable[Group(q)] <=> q = Normal
  BY <1>1, Coordinates, CoordinatesInjective DEF Init
<1>5. QED
  BY <1>1, <1>2, <1>3, <1>4 DEF BitmapInv, Active, IsActive

(* What activation does to the abstract set, and that it keeps the bitmap. *)
LEMMA ActivateStep ==
    ASSUME IInv, NEW p \in Requested, Activate(p)
    PROVE  BitmapInv' /\ Active' = Active \cup ({p} \cap Valid)
<1>1. CASE p \in Valid
  <2>1. /\ Group(p) \in Groups /\ Bit(p) \in Bits
        /\ 8 * Group(p) + Bit(p) = p
    BY <1>1, Coordinates
  <2>2. /\ readyGroup' = readyGroup \cup {Group(p)}
        /\ readyTable' = [readyTable EXCEPT ![Group(p)] = @ \cup {Bit(p)}]
    BY <1>1 DEF Activate
  <2>3. \A y \in Groups :
          readyTable'[y] = readyTable[y] \cup (IF y = Group(p) THEN {Bit(p)} ELSE {})
    BY <2>1, <2>2 DEF IInv, BitmapInv
  <2>4. /\ readyGroup' \in SUBSET Groups
        /\ readyTable' \in [Groups -> SUBSET Bits]
    BY <2>1, <2>2 DEF IInv, BitmapInv
  <2>5. \A y \in Groups : \A x \in readyTable'[y] : 8 * y + x \in Valid
    BY <1>1, <2>1, <2>3 DEF IInv, BitmapInv
  <2>6. GroupSummarisesTable'
    BY <2>1, <2>2, <2>3 DEF IInv, BitmapInv, GroupSummarisesTable
  <2>7. NormalIsActive'
    BY <2>3, Coordinates DEF IInv, BitmapInv, NormalIsActive, IsActive
  <2>8. Active' = Active \cup {p}
    <3>1. \A q \in Valid :
            Bit(q) \in readyTable'[Group(q)] <=> q = p \/ Bit(q) \in readyTable[Group(q)]
      BY <1>1, <2>3, Coordinates, CoordinatesInjective
    <3>2. QED
      BY <1>1, <3>1 DEF Active, IsActive
  <2>9. QED
    BY <1>1, <2>4, <2>5, <2>6, <2>7, <2>8 DEF BitmapInv
<1>2. CASE p \notin Valid
  BY <1>2 DEF Activate, IInv, BitmapInv, GroupSummarisesTable,
              NormalIsActive, IsActive, Active
<1>3. QED
  BY <1>1, <1>2

(* What deactivation does to the abstract set, and that it keeps the bitmap. *)
LEMMA DeactivateStep ==
    ASSUME IInv, NEW p \in Requested, Deactivate(p)
    PROVE  BitmapInv' /\ Active' = Active \ ({p} \ {Normal})
<1>1. CASE p \in Valid /\ p # Normal
  <2>1. Group(p) \in Groups /\ Bit(p) \in Bits
    BY <1>1, Coordinates
  <2>2. /\ readyTable' = [readyTable EXCEPT ![Group(p)] = @ \ {Bit(p)}]
        /\ readyGroup' = IF readyTable'[Group(p)] = {}
                         THEN readyGroup \ {Group(p)}
                         ELSE readyGroup
    BY <1>1 DEF Deactivate
  <2>3. \A y \in Groups :
          readyTable'[y] = readyTable[y] \ (IF y = Group(p) THEN {Bit(p)} ELSE {})
    BY <2>1, <2>2 DEF IInv, BitmapInv
  <2>4. /\ readyGroup' \in SUBSET Groups
        /\ readyTable' \in [Groups -> SUBSET Bits]
    BY <2>1, <2>2 DEF IInv, BitmapInv
  <2>5. \A y \in Groups : \A x \in readyTable'[y] : 8 * y + x \in Valid
    BY <2>3 DEF IInv, BitmapInv
  <2>6. GroupSummarisesTable'
    BY <2>1, <2>2, <2>3 DEF IInv, BitmapInv, GroupSummarisesTable
  <2>7. \A q \in Valid :
          Bit(q) \in readyTable'[Group(q)] <=> q # p /\ Bit(q) \in readyTable[Group(q)]
    BY <1>1, <2>3, Coordinates, CoordinatesInjective
  <2>8. NormalIsActive'
    BY <1>1, <2>7 DEF IInv, BitmapInv, NormalIsActive, IsActive
  <2>9. Active' = Active \ {p}
    BY <1>1, <2>7 DEF Active, IsActive
  <2>10. QED
    BY <1>1, <2>4, <2>5, <2>6, <2>8, <2>9 DEF BitmapInv
<1>2. CASE ~ (p \in Valid /\ p # Normal)
  BY <1>2 DEF Deactivate, IInv, BitmapInv, GroupSummarisesTable,
              NormalIsActive, IsActive, Active
<1>3. QED
  BY <1>1, <1>2

(* Every call returns the most urgent priority of the set it leaves. *)
LEMMA CallReturnsMostUrgent ==
    ASSUME BitmapInv', highest' = Highest(readyGroup', readyTable')
    PROVE  highest' = MostUrgent(Active') /\ highest' \in Active'
BY HighestIsMostUrgent
   DEF BitmapInv, GroupSummarisesTable, NormalIsActive, IsActive, Active

LEMMA StepKeepsIInv == IInv /\ [Next]_vars => IInv'
<1> SUFFICES ASSUME IInv, [Next]_vars PROVE IInv'
  OBVIOUS
<1>1. ASSUME NEW p \in Requested, Activate(p) PROVE IInv'
  BY <1>1, ActivateStep, CallReturnsMostUrgent DEF IInv, Activate
<1>2. ASSUME NEW p \in Requested, Deactivate(p) PROVE IInv'
  BY <1>2, DeactivateStep, CallReturnsMostUrgent DEF IInv, Deactivate
<1>3. CASE UNCHANGED vars
  BY <1>3 DEF IInv, BitmapInv, GroupSummarisesTable, NormalIsActive,
              IsActive, Active, vars
<1>4. QED
  BY <1>1, <1>2, <1>3 DEF Next

LEMMA InitEstablishesIInv == Init => IInv
<1> SUFFICES ASSUME Init PROVE IInv
  OBVIOUS
<1>1. BitmapInv /\ highest = Highest(readyGroup, readyTable)
  BY InitBitmap DEF Init
<1>2. highest = MostUrgent(Active) /\ highest \in Active
  BY <1>1, HighestIsMostUrgent
     DEF BitmapInv, GroupSummarisesTable, NormalIsActive, IsActive, Active
<1>3. QED
  BY <1>1, <1>2 DEF IInv

(* The invariant holds of every behaviour. *)
LEMMA IInvHolds == Spec => []IInv
BY InitEstablishesIInv, StepKeepsIInv, PTL DEF Spec

(* The type invariant of the bitmap, for every size of context. *)
THEOREM TypeCorrect == Spec => []TypeOK
<1>1. IInv => TypeOK
  BY DEF IInv, BitmapInv, TypeOK, Active, Valid
<1>2. QED
  BY <1>1, IInvHolds, PTL

(* The two levels of the bitmap never disagree (priorities.c:107-152). *)
THEOREM GroupBitsCorrect == Spec => []GroupSummarisesTable
<1>1. IInv => GroupSummarisesTable
  BY DEF IInv, BitmapInv
<1>2. QED
  BY <1>1, IInvHolds, PTL

(***************************************************************************)
(* The bitmap implements the set of priorities: every call changes the     *)
(* abstract set as PrioritySet says and returns its most urgent member.    *)
(***************************************************************************)
THEOREM BitmapImplementsSet == Spec => ImplementsPrioritySet
<1>1. Init => Abstract!Init
  <2> SUFFICES ASSUME Init PROVE Abstract!Init
    OBVIOUS
  <2>1. Active = {Normal} /\ highest \in Active
    BY InitBitmap, InitEstablishesIInv DEF IInv
  <2>2. QED
    BY <2>1 DEF Abstract!Init
<1>2. IInv /\ [Next]_vars => [Abstract!Next]_(Abstract!vars)
  <2> SUFFICES ASSUME IInv, [Next]_vars PROVE [Abstract!Next]_(Abstract!vars)
    OBVIOUS
  <2>1. ASSUME NEW p \in Requested, Activate(p) PROVE Abstract!Activate(p)
    <3>1. highest' = Abstract!MostUrgent(Active')
      BY <2>1, StepKeepsIInv DEF IInv, Next, MostUrgent, Abstract!MostUrgent
    <3>2. QED
      BY <2>1, <3>1, ActivateStep DEF Abstract!Activate
  <2>2. ASSUME NEW p \in Requested, Deactivate(p) PROVE Abstract!Deactivate(p)
    <3>1. highest' = Abstract!MostUrgent(Active')
      BY <2>2, StepKeepsIInv DEF IInv, Next, MostUrgent, Abstract!MostUrgent
    <3>2. QED
      BY <2>2, <3>1, DeactivateStep DEF Abstract!Deactivate
  <2>3. CASE UNCHANGED vars
    BY <2>3 DEF vars, Abstract!vars, Active, IsActive
  <2>4. QED
    BY <2>1, <2>2, <2>3 DEF Next, Abstract!Next
<1>3. QED
  BY <1>1, <1>2, IInvHolds, PTL DEF Spec, ImplementsPrioritySet, Abstract!Spec
==============================================================================
