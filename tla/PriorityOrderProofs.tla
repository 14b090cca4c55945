------------------------- MODULE PriorityOrderProofs -------------------------
(***************************************************************************)
(* Facts about the least member of a set of priorities, and about the      *)
(* least number without a property, cited by the proofs about every module *)
(* that orders priorities or goes through a list.                          *)
(***************************************************************************)
EXTENDS PriorityOrder, WellFoundedInduction, TLAPS

(* A non-empty set of natural numbers has a least member. *)
LEMMA LeastNatural ==
    ASSUME NEW S \in SUBSET Nat, S # {}
    PROVE  \E x \in S : \A y \in S : x <= y
<1> DEFINE R == {ss \in Nat \X Nat : ss[1] < ss[2]}
<1>1. IsWellFoundedOn(R, Nat)
  BY NatLessThanWellFounded DEF OpToRel
<1>2. PICK x \in S : \A y \in S : <<y, x>> \notin R
  <2> HIDE DEF R
  <2>1. QED
    BY <1>1, WFMin
<1>3. \A y \in S : ~ (y < x)
  BY <1>2
<1>4. QED
  BY <1>3

(* Induction over a finite range of numbers: the set T of those for which    *)
(* something holds is the whole range.                                       *)
LEMMA Induction ==
    ASSUME NEW n \in Nat, NEW T \in SUBSET (0 .. n), 0 \in T,
           \A i \in 1 .. n : i - 1 \in T => i \in T
    PROVE  T = 0 .. n
<1> SUFFICES ASSUME (0 .. n) \ T # {} PROVE FALSE
  OBVIOUS
<1>1. PICK x \in (0 .. n) \ T : \A y \in (0 .. n) \ T : x <= y
  <2>1. (0 .. n) \ T \in SUBSET Nat
    OBVIOUS
  <2>2. QED
    BY <2>1, LeastNatural
<1>2. x \in 1 .. n /\ x - 1 \in 0 .. n /\ ~ (x <= x - 1)
  BY <1>1
<1>3. x - 1 \in T
  BY <1>1, <1>2
<1>4. QED
  BY <1>1, <1>2, <1>3

(* A function that goes through n steps, as recursive functions do, exists:  *)
(* there is one up to every number of steps.                                 *)
Functionals(n, S) == [1 .. n -> [S -> S]]

GoesThrough(f, n, S, g, r) ==
    f \in [0 .. n -> S] /\ f[0] = r /\ \A i \in 1 .. n : f[i] = g[i][f[i - 1]]

LEMMA StepwiseFunction ==
    ASSUME NEW n \in Nat, NEW S, NEW g \in Functionals(n, S), NEW r \in S
    PROVE  \E f : GoesThrough(f, n, S, g, r)
<1> DEFINE Defined(f, k) ==
              /\ f \in [0 .. k -> S]
              /\ \A i \in 0 .. k : f[i] = IF i = 0 THEN r ELSE g[i][f[i - 1]]
           T == {k \in 0 .. n : \E f : Defined(f, k)}
<1>1. 0 \in T
  <2>1. Defined([i \in 0 .. 0 |-> r], 0)
    OBVIOUS
  <2> HIDE DEF Defined
  <2>2. QED
    BY <2>1
<1>2. ASSUME NEW k \in 1 .. n, k - 1 \in T PROVE k \in T
  <2>1. PICK f : Defined(f, k - 1)
    BY <1>2
  <2> DEFINE h == [i \in 0 .. k |-> IF i = k THEN g[k][f[k - 1]] ELSE f[i]]
  <2>2. k - 1 \in 0 .. (k - 1) /\ f[k - 1] \in S /\ g[k][f[k - 1]] \in S
    BY <2>1 DEF Functionals
  <2>3. ASSUME NEW i \in 0 .. k
        PROVE  h[i] \in S /\ h[i] = IF i = 0 THEN r ELSE g[i][h[i - 1]]
    <3>1. CASE i = k
      <4>1. k - 1 \in 0 .. k /\ k - 1 # k /\ i # 0
        BY <3>1
      <4>2. QED
        BY <2>2, <3>1, <4>1
    <3>2. CASE i # k
      <4>1. /\ i \in 0 .. (k - 1)
            /\ i # 0 => i - 1 \in 0 .. (k - 1) /\ i - 1 \in 0 .. k /\ i - 1 # k
        BY <3>2
      <4>2. h[i] = f[i] /\ (i # 0 => h[i - 1] = f[i - 1])
        BY <3>2, <4>1
      <4> HIDE DEF h
      <4>3. f[i] \in S /\ f[i] = IF i = 0 THEN r ELSE g[i][f[i - 1]]
        BY <2>1, <4>1
      <4>4. QED
        BY <4>2, <4>3
    <3>3. QED
      BY <3>1, <3>2
  <2>4. h = [i \in 0 .. k |-> h[i]]
    OBVIOUS
  <2> HIDE DEF h
  <2>5. Defined(h, k)
    BY <2>3, <2>4
  <2> HIDE DEF Defined
  <2>6. QED
    BY <2>5
<1>3. n \in T
  <2> HIDE DEF T
  <2>1. T \subseteq 0 .. n
    BY DEF T
  <2>2. T = 0 .. n
    BY <1>1, <1>2, <2>1, Induction
  <2>3. QED
    BY <2>2
<1>4. PICK f : Defined(f, n)
  BY <1>3
<1>5. QED
  BY <1>4 DEF GoesThrough

(* The most urgent priority of a non-empty set is its least member. *)
LEMMA MostUrgentIsLeast ==
    ASSUME NEW S \in SUBSET Nat, S # {}
    PROVE  MostUrgent(S) \in S /\ \A q \in S : MostUrgent(S) <= q
BY LeastNatural DEF MostUrgent

(* There is only one such member. *)
LEMMA MostUrgentUnique ==
    ASSUME NEW S \in SUBSET Nat, NEW p \in S, \A q \in S : p <= q
    PROVE  MostUrgent(S) = p
<1>1. MostUrgent(S) \in S /\ MostUrgent(S) <= p /\ p <= MostUrgent(S)
  BY MostUrgentIsLeast
<1> MostUrgent(S) \in Nat /\ p \in Nat
  BY <1>1
<1>2. QED
  BY <1>1
==============================================================================
