------------------------- MODULE PatternControlProofs -------------------------
(***************************************************************************)
(* Proofs about PatternControl, for every set of patterns, with any LEDs,  *)
(* steps and play counts.                                                  *)
(***************************************************************************)
EXTENDS PatternControl, PriorityOrderProofs

Contexts ==
    [pattern : Patterns, times : 0 .. (SizeLimit - 1), next : Nat, timer : BOOLEAN, plays : Int]

(***************************************************************************)
(* The recursive function in Select is what its equation says: there is a  *)
(* function that satisfies it up to every number, so the one that it       *)
(* chooses does.                                                           *)
(***************************************************************************)
LEMMA SelectEquation ==
    ASSUME NEW queue \in Seq(Contexts), NEW P
    PROVE  \E f : /\ f = [i \in 0 .. Len(queue) |->
                            IF i = 0 THEN <<>>
                            ELSE IF queue[i].pattern \in P THEN Append(f[i - 1], queue[i])
                            ELSE f[i - 1]]
                  /\ Select(queue, P) = f[Len(queue)]
<1> DEFINE n == Len(queue)
           After(s, i) == IF queue[i].pattern \in P THEN Append(s, queue[i]) ELSE s
           Defined(f, k) == f = [i \in 0 .. k |-> IF i = 0 THEN <<>> ELSE After(f[i - 1], i)]
           T == {k \in 0 .. n : \E f : Defined(f, k)}
<1>1. n \in Nat
  OBVIOUS
<1>2. 0 \in T
  <2>1. Defined([i \in 0 .. 0 |-> <<>>], 0)
    OBVIOUS
  <2> HIDE DEF Defined, n
  <2>2. QED
    BY <2>1, <1>1
<1>3. ASSUME NEW k \in 1 .. n, k - 1 \in T PROVE k \in T
  <2> HIDE DEF After
  <2>1. PICK f : Defined(f, k - 1)
    BY <1>3
  <2> DEFINE g == [i \in 0 .. k |-> IF i = k THEN After(f[k - 1], k) ELSE f[i]]
  <2>2. Defined(g, k)
    <3>1. ASSUME NEW i \in 0 .. k
          PROVE  g[i] = IF i = 0 THEN <<>> ELSE After(g[i - 1], i)
      <4>1. CASE i = k
        <5>1. k - 1 \in 0 .. k /\ k - 1 # k /\ i # 0
          BY <1>1, <4>1
        <5>2. QED
          BY <4>1, <5>1
      <4>2. CASE i # k
        <5>1. /\ i \in 0 .. (k - 1)
              /\ i # 0 => i - 1 \in 0 .. (k - 1) /\ i - 1 \in 0 .. k /\ i - 1 # k
          BY <1>1, <4>2
        <5> HIDE DEF n
        <5>2. g[i] = f[i]
          BY <4>2
        <5>3. f[i] = IF i = 0 THEN <<>> ELSE After(f[i - 1], i)
          BY <2>1, <5>1
        <5>4. i # 0 => g[i - 1] = f[i - 1]
          BY <5>1
        <5>5. QED
          BY <5>2, <5>3, <5>4
      <4>3. QED
        BY <4>1, <4>2
    <3> HIDE DEF n
    <3>2. QED
      BY <3>1
  <2> HIDE DEF Defined, n, g
  <2>3. QED
    BY <2>2
<1>4. n \in T
  <2> HIDE DEF n, T
  <2>1. T \subseteq 0 .. n
    BY DEF T
  <2>2. T = 0 .. n
    BY <1>1, <1>2, <1>3, <2>1, Induction
  <2>3. QED
    BY <1>1, <2>2
<1>5. \E f : Defined(f, n)
  BY <1>4
<1> DEFINE F == CHOOSE f : Defined(f, n)
<1>6. Defined(F, n)
  <2> HIDE DEF Defined
  <2>1. QED
    BY <1>5
<1>7. Select(queue, P) = F[n]
  BY DEF Select
<1> HIDE DEF F
<1>8. QED
  BY <1>6, <1>7

(* Every pattern of the queue is there once.                                 *)
Distinct(queue) ==
    \A i, j \in DOMAIN queue : queue[i].pattern = queue[j].pattern => i = j

(* The contexts that Select keeps, and that it keeps all of them once.       *)
LEMMA SelectFacts ==
    ASSUME NEW queue \in Seq(Contexts), NEW P, Distinct(queue)
    PROVE  LET selected == Select(queue, P)
           IN  /\ selected \in Seq(Contexts)
               /\ \A k \in DOMAIN selected : \E i \in DOMAIN queue :
                     selected[k] = queue[i] /\ queue[i].pattern \in P
               /\ \A i \in DOMAIN queue : queue[i].pattern \in P =>
                     \E k \in DOMAIN selected : selected[k] = queue[i]
               /\ Distinct(selected)
<1> DEFINE n == Len(queue)
           Kept(s, m) ==
              /\ s \in Seq(Contexts)
              /\ \A k \in DOMAIN s : \E i \in 1 .. m :
                    s[k] = queue[i] /\ queue[i].pattern \in P
              /\ \A i \in 1 .. m : queue[i].pattern \in P =>
                    \E k \in DOMAIN s : s[k] = queue[i]
              /\ Distinct(s)
<1>1. PICK f : /\ f = [i \in 0 .. n |->
                         IF i = 0 THEN <<>>
                         ELSE IF queue[i].pattern \in P THEN Append(f[i - 1], queue[i])
                         ELSE f[i - 1]]
               /\ Select(queue, P) = f[n]
  BY SelectEquation
<1>2. n \in Nat /\ DOMAIN queue = 1 .. n /\ \A i \in 1 .. n : queue[i] \in Contexts
  OBVIOUS
<1> DEFINE T == {m \in 0 .. n : Kept(f[m], m)}
<1> HIDE DEF n
<1>3. 0 \in T
  <2>1. f[0] = <<>> /\ 0 \in 0 .. n
    BY <1>1, <1>2
  <2>2. Kept(<<>>, 0)
    BY DEF Distinct
  <2> HIDE DEF Kept
  <2>3. QED
    BY <2>1, <2>2
<1>4. ASSUME NEW m \in 1 .. n, m - 1 \in T PROVE m \in T
  <2> DEFINE s == f[m - 1]
             c == queue[m]
  <2>1. Kept(s, m - 1)
    BY <1>4
  <2>2. f[m] = IF c.pattern \in P THEN Append(s, c) ELSE s
    <3>1. m \in 0 .. n /\ m # 0
      BY <1>2
    <3>2. QED
      BY <1>1, <3>1
  <2>3. c \in Contexts
    BY <1>2
  <2>4. \A i : i \in 1 .. m <=> i \in 1 .. (m - 1) \/ i = m
    BY <1>2
  <2> HIDE DEF s
  <2>5. CASE c.pattern \in P
    <3> DEFINE t == Append(s, c)
               last == Len(s) + 1
    <3>1. /\ t \in Seq(Contexts) /\ DOMAIN t = DOMAIN s \cup {last} /\ t[last] = c
          /\ \A k \in DOMAIN s : t[k] = s[k]
      BY <2>1, <2>3
    <3> HIDE DEF t, last
    <3>2. \A k \in DOMAIN t : \E i \in 1 .. m : t[k] = queue[i] /\ queue[i].pattern \in P
      BY <2>1, <2>4, <2>5, <3>1
    <3>3. \A i \in 1 .. m : queue[i].pattern \in P => \E k \in DOMAIN t : t[k] = queue[i]
      BY <2>1, <2>4, <3>1
    <3>4. \A k \in DOMAIN s : s[k].pattern # c.pattern
      <4> SUFFICES ASSUME NEW k \in DOMAIN s PROVE s[k].pattern # c.pattern
        OBVIOUS
      <4>1. PICK i \in 1 .. (m - 1) : s[k] = queue[i]
        BY <2>1
      <4>2. i \in DOMAIN queue /\ m \in DOMAIN queue /\ i # m
        BY <1>2
      <4>3. QED
        BY <4>1, <4>2 DEF Distinct
    <3>5. Distinct(t)
      BY <2>1, <3>1, <3>4 DEF Distinct
    <3>6. f[m] = t
      BY <2>2, <2>5 DEF t
    <3>7. m \in 0 .. n
      BY <1>2
    <3>8. QED
      BY <3>1, <3>2, <3>3, <3>5, <3>6, <3>7
  <2>6. CASE c.pattern \notin P
    <3>1. f[m] = s
      BY <2>2, <2>6
    <3>2. Kept(s, m)
      BY <2>1, <2>4, <2>6
    <3>3. m \in 0 .. n
      BY <1>2
    <3> HIDE DEF Kept
    <3>4. QED
      BY <3>1, <3>2, <3>3
  <2>7. QED
    BY <2>5, <2>6
<1>5. Kept(f[n], n)
  <2> HIDE DEF Kept
  <2>1. T \subseteq 0 .. n
    OBVIOUS
  <2> HIDE DEF T
  <2>2. T = 0 .. n
    BY <1>2, <1>3, <1>4, <2>1, Induction
  <2>3. n \in T
    BY <1>2, <2>2
  <2>4. QED
    BY <2>3 DEF T
<1> DEFINE selected == Select(queue, P)
<1>6. Kept(selected, n)
  <2> HIDE DEF Kept
  <2>1. QED
    BY <1>1, <1>5
<1> HIDE DEF selected
<1>7. /\ selected \in Seq(Contexts) /\ Distinct(selected)
      /\ \A k \in DOMAIN selected : \E i \in DOMAIN queue :
            selected[k] = queue[i] /\ queue[i].pattern \in P
      /\ \A i \in DOMAIN queue : queue[i].pattern \in P =>
            \E k \in DOMAIN selected : selected[k] = queue[i]
  BY <1>2, <1>6
<1>8. QED
  BY <1>7 DEF selected

------------------------------------------------------------------------------
(* Patterns share LEDs, as the code compares their steps, exactly when they  *)
(* use a LED in common with the same priority.                               *)
LEMMA StepsCount ==
    ASSUME NEW p \in Patterns
    PROVE  /\ NumSteps(p) \in Nat /\ NumSteps(p) > 0
           /\ End(p) = NumSteps(p) + 1 /\ End(p) \in Nat
           /\ Start = 0
BY PatternAssumption DEF NumSteps, End, Start

LEMMA LedsCompared ==
    ASSUME NEW d, NEW e
    PROVE  CompareLeds(d, e) <=> UsedByLed(d) \cap UsedByLed(e) # {}
<1>1. ASSUME CompareLeds(d, e) PROVE UsedByLed(d) \cap UsedByLed(e) # {}
  <2>1. PICK l \in LedsNamed[d.name] \cap LedsNamed[e.name] : TRUE
    BY <1>1 DEF CompareLeds
  <2>2. <<l, PriorityOf(d)>> \in UsedByLed(d) /\ <<l, PriorityOf(e)>> \in UsedByLed(e)
    BY <2>1 DEF UsedByLed
  <2>3. QED
    BY <1>1, <2>2 DEF CompareLeds
<1>2. ASSUME NEW x \in UsedByLed(d) \cap UsedByLed(e) PROVE CompareLeds(d, e)
  <2>1. PICK l \in LedsNamed[d.name] : x = <<l, PriorityOf(d)>>
    BY DEF UsedByLed
  <2>2. PICK m \in LedsNamed[e.name] : x = <<m, PriorityOf(e)>>
    BY DEF UsedByLed
  <2>3. l = m /\ PriorityOf(d) = PriorityOf(e)
    BY <2>1, <2>2
  <2>4. QED
    BY <2>3 DEF CompareLeds
<1>3. QED
  BY <1>1, <1>2

LEMMA StepsCompared ==
    ASSUME NEW s, NEW t
    PROVE  StepsShareLeds(s, t) <=> UsedByStep(s) \cap UsedByStep(t) # {}
<1>1. ASSUME NEW x \in UsedByStep(s) \cap UsedByStep(t) PROVE StepsShareLeds(s, t)
  <2>1. PICK i \in DOMAIN s.leds : x \in UsedByLed(s.leds[i])
    BY DEF UsedByStep
  <2>2. PICK j \in DOMAIN t.leds : x \in UsedByLed(t.leds[j])
    BY DEF UsedByStep
  <2>3. CompareLeds(s.leds[i], t.leds[j])
    BY <2>1, <2>2, LedsCompared
  <2>4. QED
    BY <2>3 DEF StepsShareLeds
<1>2. ASSUME StepsShareLeds(s, t) PROVE UsedByStep(s) \cap UsedByStep(t) # {}
  <2>1. PICK i \in DOMAIN s.leds, j \in DOMAIN t.leds : CompareLeds(s.leds[i], t.leds[j])
    BY <1>2 DEF StepsShareLeds
  <2>2. PICK x \in UsedByLed(s.leds[i]) : x \in UsedByLed(t.leds[j])
    BY <2>1, LedsCompared
  <2>3. QED
    BY <2>2 DEF UsedByStep
<1>3. QED
  BY <1>1, <1>2

LEMMA PatternsCompared ==
    ASSUME NEW p \in Patterns, NEW q \in Patterns
    PROVE  PatternsShareLeds(p, q) <=> UsedByPattern[p] \cap UsedByPattern[q] # {}
<1>1. /\ UsedByPattern[p] = UNION {UsedByStep(Step(p, n)) : n \in Start .. End(p)}
      /\ UsedByPattern[q] = UNION {UsedByStep(Step(q, n)) : n \in Start .. End(q)}
  BY DEF UsedByPattern
<1>2. ASSUME NEW x \in UsedByPattern[p] \cap UsedByPattern[q] PROVE PatternsShareLeds(p, q)
  <2>1. PICK m \in Start .. End(p) : x \in UsedByStep(Step(p, m))
    BY <1>1
  <2>2. PICK n \in Start .. End(q) : x \in UsedByStep(Step(q, n))
    BY <1>1
  <2>3. StepsShareLeds(Step(p, m), Step(q, n))
    BY <2>1, <2>2, StepsCompared
  <2>4. QED
    BY <2>3 DEF PatternsShareLeds
<1>3. ASSUME PatternsShareLeds(p, q) PROVE UsedByPattern[p] \cap UsedByPattern[q] # {}
  <2>1. PICK m \in Start .. End(p), n \in Start .. End(q) :
           StepsShareLeds(Step(p, m), Step(q, n))
    BY <1>3 DEF PatternsShareLeds
  <2>2. PICK x \in UsedByStep(Step(p, m)) : x \in UsedByStep(Step(q, n))
    BY <2>1, StepsCompared
  <2>3. QED
    BY <1>1, <2>2
<1>4. QED
  BY <1>2, <1>3

------------------------------------------------------------------------------
(***************************************************************************)
(* The inductive invariant, of the queue.  Of one context: its timer is    *)
(* pending, its next step exists, and while its plays are counted it has   *)
(* been played as often as it counted, which is not more than it is to be. *)
(* Of two: they play different patterns, which share nothing.              *)
(***************************************************************************)
CountIsRight(c) ==
    c.plays # Uncounted =>
        /\ ~ Endless(c.pattern)
        /\ c.times <= Pattern[c.pattern].playCount
        /\ c.next = 0 => c.times = 1 /\ c.plays = 0
        /\ c.next # 0 => c.plays = c.times

ContextInv(c) ==
    /\ c \in Contexts
    /\ c.next <= NumSteps(c.pattern)
    /\ c.timer
    /\ c.next = 0 => HasLeds(c.pattern, Start)
    /\ CountIsRight(c)

Disjoint(p, q) == UsedByPattern[p] \cap UsedByPattern[q] = {}

QueueInv(queue) ==
    /\ queue \in Seq(Contexts)
    /\ \A i \in DOMAIN queue : ContextInv(queue[i])
    /\ Distinct(queue)
    /\ \A i, j \in DOMAIN queue : i # j => Disjoint(queue[i].pattern, queue[j].pattern)

PlayersOf(queue) == {queue[i].pattern : i \in DOMAIN queue}

PlayerInv ==
    /\ QueueInv(playing)
    /\ performed \in Seq(Steps)
    /\ running \in BOOLEAN

LEMMA ElementOfQueue ==
    ASSUME NEW queue \in Seq(Contexts), NEW i \in DOMAIN queue
    PROVE  queue[i] \in Contexts /\ queue[i].pattern \in Patterns
<1>1. queue[i] \in Contexts
  OBVIOUS
<1>2. QED
  BY <1>1 DEF Contexts

LEMMA SelectQueue ==
    ASSUME NEW queue, QueueInv(queue), NEW P
    PROVE  /\ QueueInv(Select(queue, P))
           /\ PlayersOf(Select(queue, P)) = PlayersOf(queue) \cap P
<1> DEFINE s == Select(queue, P)
<1>1. queue \in Seq(Contexts) /\ Distinct(queue)
  BY DEF QueueInv
<1>2. /\ s \in Seq(Contexts) /\ Distinct(s)
      /\ \A k \in DOMAIN s : \E i \in DOMAIN queue :
            s[k] = queue[i] /\ queue[i].pattern \in P
      /\ \A i \in DOMAIN queue : queue[i].pattern \in P => \E k \in DOMAIN s : s[k] = queue[i]
  BY <1>1, SelectFacts
<1> HIDE DEF s
<1>3. \A k \in DOMAIN s : ContextInv(s[k])
  BY <1>2 DEF QueueInv
<1>4. ASSUME NEW k \in DOMAIN s, NEW l \in DOMAIN s, k # l
      PROVE  Disjoint(s[k].pattern, s[l].pattern)
  <2>1. PICK i \in DOMAIN queue : s[k] = queue[i]
    BY <1>2
  <2>2. PICK j \in DOMAIN queue : s[l] = queue[j]
    BY <1>2
  <2>3. i # j
    BY <1>2, <1>4, <2>1, <2>2 DEF Distinct
  <2>4. QED
    BY <2>1, <2>2, <2>3 DEF QueueInv
<1>5. QueueInv(s)
  BY <1>2, <1>3, <1>4 DEF QueueInv
<1>6. PlayersOf(s) = PlayersOf(queue) \cap P
  BY <1>2 DEF PlayersOf
<1>7. QED
  BY <1>5, <1>6 DEF s

LEMMA UpdatedQueue ==
    ASSUME NEW queue, QueueInv(queue), NEW c, ContextInv(c)
    PROVE  /\ QueueInv(Updated(queue, c))
           /\ PlayersOf(Updated(queue, c)) = PlayersOf(queue)
<1> DEFINE u == Updated(queue, c)
<1>1. queue \in Seq(Contexts) /\ c \in Contexts
  BY DEF QueueInv, ContextInv
<1>2. /\ DOMAIN u = DOMAIN queue
      /\ \A i \in DOMAIN queue : u[i] \in {queue[i], c} /\ u[i].pattern = queue[i].pattern
  BY DEF Updated
<1>3. u \in Seq(Contexts)
  <2>1. Len(queue) \in Nat /\ DOMAIN queue = 1 .. Len(queue)
    BY <1>1
  <2>2. u = [i \in 1 .. Len(queue) |-> u[i]]
    BY <2>1 DEF Updated
  <2>3. \A i \in 1 .. Len(queue) : u[i] \in Contexts
    BY <1>1, <1>2, <2>1
  <2> HIDE DEF u
  <2>4. QED
    BY <2>1, <2>2, <2>3
<1> HIDE DEF u
<1>4. QueueInv(u)
  BY <1>2, <1>3 DEF QueueInv, Distinct
<1>5. PlayersOf(u) = PlayersOf(queue)
  BY <1>2 DEF PlayersOf
<1>6. QED
  BY <1>4, <1>5 DEF u

LEMMA AppendFacts ==
    ASSUME NEW S, NEW q \in Seq(S), NEW e \in S
    PROVE  /\ Append(q, e) \in Seq(S)
           /\ Len(q) \in Nat /\ Len(Append(q, e)) = Len(q) + 1
           /\ DOMAIN q = 1 .. Len(q)
           /\ DOMAIN Append(q, e) = DOMAIN q \cup {Len(q) + 1}
           /\ Append(q, e)[Len(q) + 1] = e
           /\ \A i \in DOMAIN q : i # Len(q) + 1 /\ Append(q, e)[i] = q[i]
OBVIOUS

LEMMA AppendedQueue ==
    ASSUME NEW queue, QueueInv(queue), NEW c, ContextInv(c),
           c.pattern \notin PlayersOf(queue),
           \A p \in PlayersOf(queue) : Disjoint(p, c.pattern)
    PROVE  /\ QueueInv(Append(queue, c))
           /\ PlayersOf(Append(queue, c)) = PlayersOf(queue) \cup {c.pattern}
<1> DEFINE a == Append(queue, c)
           last == Len(queue) + 1
<1>1. queue \in Seq(Contexts) /\ c \in Contexts
  BY DEF QueueInv, ContextInv
<1>2. /\ a \in Seq(Contexts) /\ DOMAIN a = DOMAIN queue \cup {last} /\ a[last] = c
      /\ \A i \in DOMAIN queue : i # last /\ a[i] = queue[i]
  BY <1>1, AppendFacts
<1> HIDE DEF a, last
<1>3. \A i \in DOMAIN a : ContextInv(a[i])
  BY <1>2 DEF QueueInv
<1>4. Distinct(a)
  BY <1>2 DEF QueueInv, Distinct, PlayersOf
<1>5. ASSUME NEW i \in DOMAIN a, NEW j \in DOMAIN a, i # j
      PROVE  Disjoint(a[i].pattern, a[j].pattern)
  <2>1. CASE i \in DOMAIN queue /\ j \in DOMAIN queue
    BY <1>2, <1>5, <2>1 DEF QueueInv
  <2>2. CASE i \in DOMAIN queue /\ j = last
    <3>1. a[i].pattern \in PlayersOf(queue) /\ a[j] = c
      BY <1>2, <2>2 DEF PlayersOf
    <3>2. QED
      BY <3>1
  <2>3. CASE i = last /\ j \in DOMAIN queue
    <3>1. a[j].pattern \in PlayersOf(queue) /\ a[i] = c
      BY <1>2, <2>3 DEF PlayersOf
    <3>2. Disjoint(a[j].pattern, a[i].pattern)
      BY <3>1
    <3>3. QED
      BY <3>2 DEF Disjoint
  <2>4. QED
    BY <1>2, <1>5, <2>1, <2>2, <2>3
<1>6. PlayersOf(a) = PlayersOf(queue) \cup {c.pattern}
  BY <1>2 DEF PlayersOf
<1>7. QED
  BY <1>2, <1>3, <1>4, <1>5, <1>6 DEF QueueInv, a

(* The context that was appended last is the one that is updated.            *)
LEMMA UpdatedLast ==
    ASSUME NEW queue \in Seq(Contexts), NEW b \in Contexts, NEW c \in Contexts,
           b.pattern = c.pattern, c.pattern \notin PlayersOf(queue)
    PROVE  Updated(Append(queue, b), c) = Append(queue, c)
<1> DEFINE u == Updated(Append(queue, b), c)
           a == Append(queue, c)
           last == Len(queue) + 1
<1>1. DOMAIN u = DOMAIN queue \cup {last} /\ DOMAIN a = DOMAIN queue \cup {last}
  BY AppendFacts DEF Updated
<1>2. u[last] = c /\ a[last] = c
  BY AppendFacts DEF Updated
<1>3. \A i \in DOMAIN queue : u[i] = queue[i] /\ a[i] = queue[i]
  BY AppendFacts DEF Updated, PlayersOf
<1>4. u = [i \in DOMAIN u |-> u[i]]
  BY DEF Updated
<1>5. a = [i \in DOMAIN a |-> a[i]]
  <2>1. a \in Seq(Contexts)
    BY AppendFacts
  <2> HIDE DEF a
  <2>2. QED
    BY <2>1
<1> HIDE DEF u, a, last
<1>6. u = a
  BY <1>1, <1>2, <1>3, <1>4, <1>5
<1>7. QED
  BY <1>6 DEF u, a

------------------------------------------------------------------------------
(* What a timeout counts, and what a step that is played leaves.             *)
LEMMA Remainder ==
    ASSUME NEW t \in Nat, t < SizeLimit
    PROVE  /\ SizeLimit \in Nat \ {0}
           /\ (t + 1) % SizeLimit \in 0 .. (SizeLimit - 1)
           /\ t + 1 < SizeLimit => (t + 1) % SizeLimit = t + 1
<1>1. SizeLimit \in Nat \ {0}
  BY SizeAssumption
<1> HIDE DEF PatternAssumption
<1>2. QED
  BY <1>1

Played(c) == [c EXCEPT !.next = c.next + 1, !.timer = TRUE, !.plays = CountPlay(c)]

(* A context whose next step can be played.                                  *)
Ready(c) ==
    /\ c \in Contexts
    /\ c.next < NumSteps(c.pattern)
    /\ c.plays # Uncounted =>
          /\ ~ Endless(c.pattern)
          /\ c.times <= Pattern[c.pattern].playCount
          /\ c.plays = IF c.next = 0 THEN c.times - 1 ELSE c.times

LEMMA CountPlayType ==
    ASSUME NEW c \in Contexts
    PROVE  CountPlay(c) \in Int
BY DEF CountPlay, Contexts

LEMMA PlayedInv ==
    ASSUME NEW c, Ready(c)
    PROVE  /\ ContextInv(Played(c))
           /\ Played(c).pattern = c.pattern
<1> DEFINE n == c.next + 1
           plays == CountPlay(c)
           played == [c EXCEPT !.next = n, !.timer = TRUE, !.plays = plays]
<1>1. c \in Contexts /\ c.next < NumSteps(c.pattern) /\ c.pattern \in Patterns /\ c.next \in Nat
  BY DEF Ready, Contexts
<1>2. plays \in Int /\ n \in Nat
  BY <1>1, CountPlayType
<1>3. NumSteps(c.pattern) \in Nat
  BY <1>1, StepsCount
<1>4. n <= NumSteps(c.pattern) /\ n # 0
  BY <1>1, <1>3
<1>5. plays # Uncounted =>
         ~ Endless(c.pattern) /\ c.times <= Pattern[c.pattern].playCount /\ plays = c.times
  BY <1>1 DEF Ready, CountPlay, Uncounted, Contexts
<1> HIDE DEF n, plays
<1>6. /\ played \in Contexts /\ played.pattern = c.pattern /\ played.next = n
      /\ played.timer /\ played.plays = plays /\ played.times = c.times
  BY <1>1, <1>2 DEF Contexts
<1>7. Played(c) = played
  BY DEF Played, n, plays
<1> HIDE DEF played
<1>8. ContextInv(played)
  BY <1>4, <1>5, <1>6 DEF ContextInv, CountIsRight
<1>9. QED
  BY <1>6, <1>7, <1>8

LEMMA NewContextReady ==
    ASSUME NEW p \in Patterns
    PROVE  Ready(NewContext(p)) /\ NewContext(p).pattern = p
<1>1. /\ 1 \in 0 .. (SizeLimit - 1)
      /\ Pattern[p].playCount \in Nat
  BY PatternAssumption, SizeAssumption
<1>2. ~ Endless(p) => 1 <= Pattern[p].playCount
  BY <1>1 DEF Endless
<1>3. NewContext(p) \in Contexts
  BY <1>1 DEF NewContext, Contexts, Uncounted
<1>4. 0 < NumSteps(p)
  BY StepsCount
<1>5. QED
  BY <1>2, <1>3, <1>4 DEF NewContext, Ready, Uncounted

LEMMA CountedFacts ==
    ASSUME NEW c, ContextInv(c)
    PROVE  /\ Counted(c) \in Contexts
           /\ Counted(c).pattern = c.pattern
           /\ PlaysOn(Counted(c)) => Ready(Counted(c))
           /\ ~ PlaysOn(Counted(c)) /\ c.plays # Uncounted =>
                 c.plays = Pattern[c.pattern].playCount
<1> DEFINE completed == c.next = NumSteps(c.pattern)
           next == IF completed THEN 0 ELSE c.next
           times == IF completed THEN (c.times + 1) % SizeLimit ELSE c.times
           counted == [c EXCEPT !.timer = FALSE, !.next = next, !.times = times]
<1>1. /\ c \in Contexts /\ c.pattern \in Patterns /\ c.next \in Nat
      /\ c.times \in 0 .. (SizeLimit - 1) /\ c.times \in Nat /\ c.times < SizeLimit
      /\ c.next <= NumSteps(c.pattern)
  BY SizeAssumption DEF ContextInv, Contexts
<1>2. /\ NumSteps(c.pattern) \in Nat /\ NumSteps(c.pattern) > 0
      /\ Pattern[c.pattern].playCount \in 0 .. (SizeLimit - 2)
      /\ SizeLimit \in Nat
  BY <1>1, StepsCount, PatternAssumption, SizeAssumption
<1>3. /\ (c.times + 1) % SizeLimit \in 0 .. (SizeLimit - 1)
      /\ c.times + 1 < SizeLimit => (c.times + 1) % SizeLimit = c.times + 1
  BY <1>1, Remainder
<1>4. next \in Nat /\ next < NumSteps(c.pattern) /\ times \in 0 .. (SizeLimit - 1)
  BY <1>1, <1>2, <1>3
<1>5. ASSUME c.plays # Uncounted
      PROVE  /\ ~ Endless(c.pattern)
             /\ times = IF completed THEN c.times + 1 ELSE c.times
             /\ c.times <= Pattern[c.pattern].playCount
             /\ c.plays = IF next = 0 THEN times - 1 ELSE times
             /\ times > Pattern[c.pattern].playCount =>
                   c.plays = Pattern[c.pattern].playCount
  <2>1. CountIsRight(c) /\ c.times <= Pattern[c.pattern].playCount
    BY <1>5 DEF ContextInv, CountIsRight
  <2>2. c.times + 1 < SizeLimit
    BY <1>1, <1>2, <2>1
  <2>3. times = IF completed THEN c.times + 1 ELSE c.times
    BY <1>3, <2>2
  <2>4. c.plays = IF next = 0 THEN times - 1 ELSE times
    <3>1. CASE completed
      <4>1. next = 0 /\ times = c.times + 1 /\ c.next # 0
        BY <1>2, <2>3, <3>1
      <4>2. c.plays = c.times
        BY <1>5, <2>1, <4>1 DEF CountIsRight
      <4> HIDE DEF next, times
      <4>3. QED
        BY <1>1, <4>1, <4>2
    <3>2. CASE ~ completed
      <4>1. next = c.next /\ times = c.times
        BY <2>3, <3>2
      <4>2. c.plays = IF c.next = 0 THEN 0 ELSE c.times
        BY <1>5, <2>1 DEF CountIsRight
      <4>3. c.next = 0 => c.times = 1
        BY <1>5, <2>1 DEF CountIsRight
      <4> HIDE DEF next, times
      <4>4. QED
        BY <1>1, <4>1, <4>2, <4>3
    <3>3. QED
      BY <3>1, <3>2
  <2>5. times > Pattern[c.pattern].playCount => c.plays = Pattern[c.pattern].playCount
    BY <1>1, <1>2, <1>5, <2>1, <2>3 DEF CountIsRight
  <2>6. QED
    BY <1>5, <2>1, <2>3, <2>4, <2>5 DEF CountIsRight
<1>6. Counted(c) = counted
  BY DEF Counted
<1> HIDE DEF next, times, completed
<1>7. /\ counted \in Contexts /\ counted.pattern = c.pattern /\ counted.next = next
      /\ counted.times = times /\ counted.plays = c.plays
  BY <1>1, <1>4 DEF Contexts
<1> HIDE DEF counted
<1>8. PlaysOn(counted) <=> Endless(c.pattern) \/ times <= Pattern[c.pattern].playCount
  BY <1>7 DEF PlaysOn
<1>9. PlaysOn(counted) => Ready(counted)
  BY <1>4, <1>5, <1>7, <1>8 DEF Ready
<1>10. ~ PlaysOn(counted) => times > Pattern[c.pattern].playCount
  BY <1>2, <1>4, <1>8
<1>11. QED
  BY <1>5, <1>6, <1>7, <1>9, <1>10

------------------------------------------------------------------------------
(* The steps that a handler performs: more are appended, all of them of      *)
(* patterns in Q.                                                            *)
Extends(did, more, Q) ==
    /\ more \in Seq(Steps)
    /\ Len(did) <= Len(more)
    /\ \A i \in 1 .. Len(did) : more[i] = did[i]
    /\ \A i \in 1 .. Len(more) : i > Len(did) => more[i][1] \in Q

(* The last step performed of the pattern is its end step.                   *)
Ended(did, p) ==
    \E i \in 1 .. Len(did) :
        /\ did[i] = <<p, End(p)>>
        /\ \A j \in 1 .. Len(did) : did[j][1] = p => j <= i

LEMMA ExtendsTransitive ==
    ASSUME NEW a \in Seq(Steps), NEW b, NEW c, NEW P, NEW Q,
           Extends(a, b, P), Extends(b, c, Q)
    PROVE  Extends(a, c, P \cup Q)
<1>1. /\ Len(a) \in Nat /\ b \in Seq(Steps) /\ c \in Seq(Steps)
      /\ Len(b) \in Nat /\ Len(c) \in Nat
      /\ Len(a) <= Len(b) /\ Len(b) <= Len(c)
  BY DEF Extends
<1>2. \A i \in 1 .. Len(a) : i \in 1 .. Len(b) /\ c[i] = a[i]
  BY <1>1 DEF Extends
<1>3. ASSUME NEW i \in 1 .. Len(c), i > Len(a)
      PROVE  c[i][1] \in P \cup Q
  <2>1. CASE i <= Len(b)
    <3>1. i \in 1 .. Len(b)
      BY <1>1, <2>1
    <3>2. QED
      BY <1>3, <3>1 DEF Extends
  <2>2. CASE i > Len(b)
    BY <2>2 DEF Extends
  <2>3. QED
    BY <1>1, <2>1, <2>2
<1>4. Len(a) <= Len(c)
  BY <1>1
<1>5. QED
  BY <1>1, <1>2, <1>3, <1>4 DEF Extends

LEMMA StillEnded ==
    ASSUME NEW a \in Seq(Steps), NEW b, NEW Q, Extends(a, b, Q), NEW p, p \notin Q, Ended(a, p)
    PROVE  Ended(b, p)
<1>1. PICK i \in 1 .. Len(a) :
        a[i] = <<p, End(p)>> /\ \A j \in 1 .. Len(a) : a[j][1] = p => j <= i
  BY DEF Ended
<1>2. Len(a) \in Nat /\ b \in Seq(Steps) /\ Len(b) \in Nat /\ Len(a) <= Len(b)
  BY DEF Extends
<1>3. i \in 1 .. Len(b) /\ b[i] = <<p, End(p)>>
  BY <1>1, <1>2 DEF Extends
<1>4. ASSUME NEW j \in 1 .. Len(b), b[j][1] = p
      PROVE  j <= i
  <2>1. ~ (j > Len(a))
    BY <1>4 DEF Extends
  <2>2. j \in 1 .. Len(a)
    BY <1>2, <2>1
  <2>3. QED
    BY <1>1, <1>4, <2>2 DEF Extends
<1>5. QED
  BY <1>3, <1>4 DEF Ended

LEMMA StepOfPattern ==
    ASSUME NEW p \in Patterns, NEW n \in 0 .. End(p)
    PROVE  <<p, n>> \in Steps
BY DEF Steps, Start

LEMMA ExtendByOne ==
    ASSUME NEW did \in Seq(Steps), NEW p \in Patterns, NEW n \in 0 .. End(p)
    PROVE  Extends(did, Append(did, <<p, n>>), {p})
<1> DEFINE e == <<p, n>>
           more == Append(did, e)
<1>1. e \in Steps /\ e[1] = p
  BY StepOfPattern
<1> HIDE DEF e
<1>2. /\ more \in Seq(Steps)
      /\ Len(did) \in Nat /\ Len(more) = Len(did) + 1
      /\ DOMAIN did = 1 .. Len(did)
      /\ more[Len(did) + 1] = e
      /\ \A i \in DOMAIN did : i # Len(did) + 1 /\ more[i] = did[i]
  BY <1>1, AppendFacts
<1>3. QED
  BY <1>1, <1>2 DEF Extends, e

LEMMA ConcatFacts ==
    ASSUME NEW S, NEW a \in Seq(S), NEW b \in Seq(S)
    PROVE  /\ a \o b \in Seq(S)
           /\ Len(a) \in Nat /\ Len(b) \in Nat /\ Len(a \o b) = Len(a) + Len(b)
           /\ \A i \in 1 .. Len(a) : (a \o b)[i] = a[i]
           /\ \A i \in 1 .. Len(a \o b) : i > Len(a) =>
                 i - Len(a) \in 1 .. Len(b) /\ (a \o b)[i] = b[i - Len(a)]
           /\ \A k \in 1 .. Len(b) : (a \o b)[Len(a) + k] = b[k]
OBVIOUS

(* led_pattern_stop of the patterns of the queue that are in P               *)
LEMMA StopFacts ==
    ASSUME NEW h, QueueInv(h.queue), h.did \in Seq(Steps), NEW P
    PROVE  LET g == StopPatterns(h, P)
               stopped == PlayersOf(h.queue) \cap P
           IN  /\ QueueInv(g.queue)
               /\ PlayersOf(g.queue) = PlayersOf(h.queue) \ P
               /\ Extends(h.did, g.did, stopped)
               /\ \A p \in stopped : HasLeds(p, End(p)) => Ended(g.did, p)
<1> DEFINE queue == h.queue
           did == h.did
           E == {p \in P : HasLeds(p, End(p))}
           ended == Select(queue, E)
           ends == [i \in DOMAIN ended |-> <<ended[i].pattern, End(ended[i].pattern)>>]
           more == did \o ends
<1>1. /\ StopPatterns(h, P).queue = Select(queue, Patterns \ P)
      /\ StopPatterns(h, P).did = more
  BY DEF StopPatterns
<1>2. queue \in Seq(Contexts) /\ Distinct(queue) /\ did \in Seq(Steps)
  BY DEF QueueInv
<1>3. QueueInv(Select(queue, Patterns \ P))
  BY SelectQueue
<1>4. PlayersOf(Select(queue, Patterns \ P)) = PlayersOf(queue) \ P
  <2>1. PlayersOf(Select(queue, Patterns \ P)) = PlayersOf(queue) \cap (Patterns \ P)
    BY SelectQueue
  <2>2. PlayersOf(queue) \subseteq Patterns
    BY <1>2, ElementOfQueue DEF PlayersOf
  <2>3. QED
    BY <2>1, <2>2
<1>5. /\ ended \in Seq(Contexts) /\ Distinct(ended)
      /\ \A k \in DOMAIN ended : \E i \in DOMAIN queue :
            ended[k] = queue[i] /\ queue[i].pattern \in E
      /\ \A i \in DOMAIN queue : queue[i].pattern \in E =>
            \E k \in DOMAIN ended : ended[k] = queue[i]
  <2> HIDE DEF queue, E
  <2>1. QED
    BY <1>2, SelectFacts
<1> HIDE DEF queue, did, E, ended
<1>6. /\ DOMAIN ends = 1 .. Len(ended) /\ Len(ended) \in Nat /\ DOMAIN ended = 1 .. Len(ended)
      /\ \A k \in 1 .. Len(ended) : ends[k] = <<ended[k].pattern, End(ended[k].pattern)>>
      /\ ends = [k \in 1 .. Len(ended) |-> ends[k]]
  BY <1>5
<1>7. \A k \in 1 .. Len(ended) : ended[k].pattern \in Patterns /\ ends[k] \in Steps
  <2> SUFFICES ASSUME NEW k \in 1 .. Len(ended)
               PROVE  ended[k].pattern \in Patterns /\ ends[k] \in Steps
    OBVIOUS
  <2>1. ended[k].pattern \in Patterns
    BY <1>5, <1>6, ElementOfQueue
  <2>2. End(ended[k].pattern) \in 0 .. End(ended[k].pattern)
    BY <2>1, StepsCount
  <2>3. QED
    BY <1>6, <2>1, <2>2, StepOfPattern
<1> HIDE DEF ends
<1>8. ends \in Seq(Steps) /\ Len(ends) = Len(ended)
  BY <1>6, <1>7
<1>9. /\ more \in Seq(Steps)
      /\ Len(did) \in Nat /\ Len(ends) \in Nat /\ Len(more) = Len(did) + Len(ends)
      /\ \A i \in 1 .. Len(did) : more[i] = did[i]
      /\ \A i \in 1 .. Len(more) : i > Len(did) =>
            i - Len(did) \in 1 .. Len(ends) /\ more[i] = ends[i - Len(did)]
      /\ \A k \in 1 .. Len(ends) : more[Len(did) + k] = ends[k]
  <2>1. did \in Seq(Steps) /\ ends \in Seq(Steps)
    BY <1>2, <1>8
  <2>2. QED
    BY <2>1, ConcatFacts
<1> HIDE DEF more
<1>10. \A k \in 1 .. Len(ends) :
          ends[k][1] = ended[k].pattern /\ ended[k].pattern \in PlayersOf(queue) \cap P
  BY <1>5, <1>6, <1>8 DEF PlayersOf, E
<1>11. Extends(did, more, PlayersOf(queue) \cap P)
  BY <1>9, <1>10 DEF Extends
<1>12. ASSUME NEW p \in PlayersOf(queue) \cap P, HasLeds(p, End(p))
       PROVE  Ended(more, p)
  <2>1. PICK k \in 1 .. Len(ended) : ended[k].pattern = p
    BY <1>5, <1>6, <1>12 DEF PlayersOf, E
  <2>2. /\ Len(did) + k \in 1 .. Len(more)
        /\ more[Len(did) + k] = <<p, End(p)>>
    BY <1>6, <1>8, <1>9, <2>1
  <2>3. ASSUME NEW j \in 1 .. Len(more), more[j][1] = p
        PROVE  j <= Len(did) + k
    <3>1. CASE j > Len(did)
      <4>1. j - Len(did) \in 1 .. Len(ended) /\ ended[j - Len(did)].pattern = p
        BY <1>8, <1>9, <1>10, <2>3, <3>1
      <4>2. j - Len(did) = k
        BY <1>5, <1>6, <2>1, <4>1 DEF Distinct
      <4>3. QED
        BY <1>9, <4>2
    <3>2. CASE ~ (j > Len(did))
      BY <1>6, <1>9, <3>2
    <3>3. QED
      BY <3>1, <3>2
  <2>4. QED
    BY <2>2, <2>3 DEF Ended
<1>13. QED
  BY <1>1, <1>3, <1>4, <1>11, <1>12 DEF queue, did

(* led_pattern_play_step: the pattern goes on, or ends with a step without a *)
(* time; with all its steps timed it goes on.                                *)
LEMMA PlayStepFacts ==
    ASSUME NEW h, h.did \in Seq(Steps), NEW c, Ready(c),
           NEW players, c.pattern \in players,
           QueueInv(Updated(h.queue, Played(c))),
           PlayersOf(Updated(h.queue, Played(c))) = players
    PROVE  LET p == c.pattern
               g == PlayStep(h, c)
           IN  /\ QueueInv(g.queue)
               /\ PlayersOf(g.queue) \in {players, players \ {p}}
               /\ Extends(h.did, g.did, {p})
               /\ p \notin PlayersOf(g.queue) /\ HasLeds(p, End(p)) => Ended(g.did, p)
               /\ AllTimed(p) => p \in PlayersOf(g.queue)
<1> DEFINE p == c.pattern
           n == c.next + 1
           did == Append(h.did, <<p, n>>)
           played == [queue |-> Updated(h.queue, Played(c)), did |-> did]
           stopped == StopPatterns(played, {p})
<1>1. /\ p \in Patterns /\ c.next \in Nat /\ NumSteps(p) \in Nat /\ c.next < NumSteps(p)
      /\ End(p) = NumSteps(p) + 1
  BY StepsCount DEF Ready, Contexts
<1>2. n \in 0 .. End(p) /\ n \in 1 .. NumSteps(p)
  BY <1>1
<1>3. PlayStep(h, c) = IF Step(p, n).timed THEN played ELSE stopped
  BY DEF PlayStep, Played
<1>4. Extends(h.did, did, {p})
  BY <1>1, <1>2, ExtendByOne
<1>5. did \in Seq(Steps)
  BY <1>4 DEF Extends
<1> HIDE DEF n, did
<1>6. /\ played.queue = Updated(h.queue, Played(c)) /\ played.did = did
      /\ QueueInv(played.queue) /\ PlayersOf(played.queue) = players
  OBVIOUS
<1> HIDE DEF played
<1>7. /\ QueueInv(stopped.queue) /\ PlayersOf(stopped.queue) = players \ {p}
      /\ Extends(did, stopped.did, {p})
      /\ HasLeds(p, End(p)) => Ended(stopped.did, p)
  <2>1. QueueInv(played.queue) /\ played.did \in Seq(Steps)
    BY <1>5, <1>6
  <2>2. /\ QueueInv(stopped.queue)
        /\ PlayersOf(stopped.queue) = PlayersOf(played.queue) \ {p}
        /\ Extends(played.did, stopped.did, PlayersOf(played.queue) \cap {p})
        /\ \A q \in PlayersOf(played.queue) \cap {p} :
              HasLeds(q, End(q)) => Ended(stopped.did, q)
    BY <2>1, StopFacts
  <2>3. PlayersOf(played.queue) \cap {p} = {p}
    BY <1>6
  <2> HIDE DEF stopped
  <2>4. QED
    BY <1>6, <2>2, <2>3
<1>8. Extends(h.did, stopped.did, {p} \cup {p})
  BY <1>4, <1>7, ExtendsTransitive
<1>9. {p} \cup {p} = {p}
  OBVIOUS
<1> HIDE DEF stopped
<1>10. CASE Step(p, n).timed
  BY <1>3, <1>4, <1>6, <1>10
<1>11. CASE ~ Step(p, n).timed
  <2>1. ~ AllTimed(p)
    BY <1>2, <1>11 DEF AllTimed
  <2>2. PlayStep(h, c) = stopped
    BY <1>3, <1>11
  <2>3. QED
    BY <1>7, <1>8, <1>9, <2>1, <2>2
<1>12. QED
  BY <1>10, <1>11

(* pattern_context_initialise, led_pattern_start, led_pattern_play_start_step *)
LEMMA StartFacts ==
    ASSUME NEW h, QueueInv(h.queue), h.did \in Seq(Steps), NEW p \in Patterns,
           p \notin PlayersOf(h.queue), \A q \in PlayersOf(h.queue) : Disjoint(q, p)
    PROVE  LET g == StartPattern(h, p)
           IN  /\ QueueInv(g.queue)
               /\ PlayersOf(g.queue) \in {PlayersOf(h.queue) \cup {p}, PlayersOf(h.queue)}
               /\ Extends(h.did, g.did, {p})
               /\ p \notin PlayersOf(g.queue) /\ HasLeds(p, End(p)) => Ended(g.did, p)
<1> DEFINE c == NewContext(p)
           players == PlayersOf(h.queue) \cup {p}
           waiting == HasLeds(p, Start) /\ Step(p, Start).timed
           first == [c EXCEPT !.timer = waiting]
           did == IF HasLeds(p, Start) THEN Append(h.did, <<p, Start>>) ELSE h.did
           started == [queue |-> Append(h.queue, first), did |-> did]
           g == PlayStep(started, c)
<1>1. Ready(c) /\ c \in Contexts /\ c.pattern = p /\ c.next = 0 /\ h.queue \in Seq(Contexts)
  BY NewContextReady DEF Ready, NewContext, QueueInv
<1>2. StartPattern(h, p) = IF waiting THEN started ELSE g
  BY DEF StartPattern
<1>3. Extends(h.did, did, {p})
  <2>1. Start \in 0 .. End(p)
    BY StepsCount
  <2>2. CASE HasLeds(p, Start)
    BY <2>1, <2>2, ExtendByOne
  <2>3. CASE ~ HasLeds(p, Start)
    <3>1. Extends(h.did, h.did, {p})
      <4>1. Len(h.did) \in Nat
        OBVIOUS
      <4>2. QED
        BY <4>1 DEF Extends
    <3>2. QED
      BY <2>3, <3>1
  <2>4. QED
    BY <2>2, <2>3
<1>4. did \in Seq(Steps)
  BY <1>3 DEF Extends
<1>5. CASE waiting
  <2>1. ContextInv(first) /\ first.pattern = p
    <3>1. first = [c EXCEPT !.timer = TRUE]
      BY <1>5
    <3>2. c.plays # Uncounted =>
             ~ Endless(p) /\ c.times <= Pattern[p].playCount /\ c.plays = c.times - 1
      BY <1>1 DEF Ready
    <3>3. c.times = 1 /\ c.plays \in {Uncounted, 0}
      BY DEF NewContext
    <3> HIDE DEF c, first
    <3>4. /\ first \in Contexts /\ first.pattern = p /\ first.next = 0 /\ first.timer
          /\ first.times = 1 /\ first.plays = c.plays
      BY <1>1, <3>1, <3>3 DEF Contexts
    <3>5. 0 <= NumSteps(p) /\ HasLeds(p, Start)
      BY <1>5, StepsCount
    <3>6. QED
      BY <3>2, <3>3, <3>4, <3>5 DEF ContextInv, CountIsRight
  <2> HIDE DEF first, c, did
  <2>2. QueueInv(Append(h.queue, first)) /\ PlayersOf(Append(h.queue, first)) = players
    BY <2>1, AppendedQueue
  <2>3. StartPattern(h, p) = started
    BY <1>2, <1>5
  <2>4. QED
    BY <1>3, <2>2, <2>3
<1>6. CASE ~ waiting
  <2> DEFINE u == Updated(started.queue, Played(c))
  <2>1. ContextInv(Played(c)) /\ Played(c).pattern = p /\ Played(c) \in Contexts
    BY <1>1, PlayedInv DEF ContextInv
  <2>2. first \in Contexts /\ first.pattern = p
    <3>1. waiting \in BOOLEAN
      BY DEF HasLeds
    <3> HIDE DEF waiting, c
    <3>2. QED
      BY <1>1, <3>1 DEF Contexts
  <2> HIDE DEF first, c, did
  <2>3. u = Append(h.queue, Played(c))
    BY <1>1, <2>1, <2>2, UpdatedLast
  <2>4. QueueInv(u) /\ PlayersOf(u) = players
    <3>1. QueueInv(Append(h.queue, Played(c)))
          /\ PlayersOf(Append(h.queue, Played(c))) = players
      BY <2>1, AppendedQueue
    <3>2. QED
      BY <2>3, <3>1
  <2>5. started.did = did
    OBVIOUS
  <2> HIDE DEF started
  <2>6. /\ QueueInv(g.queue)
        /\ PlayersOf(g.queue) \in {players, players \ {p}}
        /\ Extends(did, g.did, {p})
        /\ p \notin PlayersOf(g.queue) /\ HasLeds(p, End(p)) => Ended(g.did, p)
    <3>1. p \in players
      OBVIOUS
    <3> HIDE DEF players, u, g
    <3>2. started.did \in Seq(Steps)
      BY <1>4, <2>5
    <3>3. QED
      BY <1>1, <2>4, <2>5, <3>1, <3>2, PlayStepFacts DEF u, g
  <2>7. Extends(h.did, g.did, {p} \cup {p})
    BY <1>3, <2>6, ExtendsTransitive
  <2>8. players \ {p} = PlayersOf(h.queue) /\ {p} \cup {p} = {p}
    OBVIOUS
  <2>9. StartPattern(h, p) = g
    BY <1>2, <1>6
  <2> HIDE DEF g
  <2>10. QED
    BY <2>6, <2>7, <2>8, <2>9
<1>7. QED
  BY <1>5, <1>6

------------------------------------------------------------------------------
(***************************************************************************)
(* What every handler does: it keeps the invariant, the patterns that stop *)
(* in it perform their end steps last, and before the steps of a pattern   *)
(* that starts.                                                            *)
(***************************************************************************)
EndsArePerformed ==
    \A p \in Patterns :
        /\ p \notin Playing'
        /\ p \in Playing \/ \E i \in 1 .. Len(performed') : performed'[i][1] = p
        /\ HasLeds(p, End(p))
        => Ended(performed', p)

EndsAreFirst ==
    \A i, j \in 1 .. Len(performed') :
        performed'[i][1] \notin Playing /\ performed'[j][1] # performed'[i][1] => j < i

HandlerStep == PlayerInv' /\ EndsArePerformed /\ EndsAreFirst

LEMMA PlayersAreKnown ==
    ASSUME PlayerInv
    PROVE  /\ QueueInv(playing) /\ Playing = PlayersOf(playing)
           /\ Begin.queue = playing /\ Begin.did = <<>> /\ Begin.did \in Seq(Steps)
           /\ Playing \subseteq Patterns
<1>1. playing \in Seq(Contexts)
  BY DEF PlayerInv, QueueInv
<1>2. Playing \subseteq Patterns
  BY <1>1, ElementOfQueue DEF Playing
<1>3. QED
  BY <1>2 DEF PlayerInv, Playing, PlayersOf, Begin

LEMMA StopHandler ==
    ASSUME PlayerInv, NEW P, Finish(StopPatterns(Begin, P)), running' \in BOOLEAN
    PROVE  HandlerStep /\ Playing' = Playing \ P
<1> DEFINE g == StopPatterns(Begin, P)
<1>1. /\ QueueInv(playing) /\ Playing = PlayersOf(playing)
      /\ Begin.queue = playing /\ Begin.did = <<>> /\ Begin.did \in Seq(Steps)
  BY PlayersAreKnown
<1>2. playing' = g.queue /\ performed' = g.did
  BY DEF Finish
<1>3. /\ QueueInv(g.queue) /\ PlayersOf(g.queue) = Playing \ P
      /\ Extends(<<>>, g.did, Playing \cap P)
      /\ \A p \in Playing \cap P : HasLeds(p, End(p)) => Ended(g.did, p)
  <2>1. QueueInv(Begin.queue)
    BY <1>1
  <2>2. /\ QueueInv(g.queue)
        /\ PlayersOf(g.queue) = PlayersOf(Begin.queue) \ P
        /\ Extends(Begin.did, g.did, PlayersOf(Begin.queue) \cap P)
        /\ \A p \in PlayersOf(Begin.queue) \cap P :
              HasLeds(p, End(p)) => Ended(g.did, p)
    BY <1>1, <2>1, StopFacts
  <2> HIDE DEF g
  <2>3. QED
    BY <1>1, <2>2
<1> HIDE DEF g
<1>4. Playing' = Playing \ P
  BY <1>2, <1>3 DEF Playing, PlayersOf
<1>5. performed' \in Seq(Steps) /\ \A i \in 1 .. Len(performed') : performed'[i][1] \in Playing \cap P
  <2>1. Len(<<>>) = 0 /\ \A i \in 1 .. Len(performed') : i > 0
    OBVIOUS
  <2>2. QED
    BY <1>2, <1>3, <2>1 DEF Extends
<1>6. EndsArePerformed
  BY <1>2, <1>3, <1>4, <1>5 DEF EndsArePerformed
<1>7. EndsAreFirst
  BY <1>5 DEF EndsAreFirst
<1>8. PlayerInv'
  BY <1>2, <1>3, <1>5 DEF PlayerInv
<1>9. QED
  BY <1>4, <1>6, <1>7, <1>8 DEF HandlerStep

LEMMA PlayHandler ==
    ASSUME PlayerInv, NEW p \in Patterns, Play(p)
    PROVE  HandlerStep
<1> DEFINE h == StopPatterns(Begin, Rivals(p))
           g == StartPattern(h, p)
<1>1. /\ QueueInv(playing) /\ Playing = PlayersOf(playing)
      /\ Begin.queue = playing /\ Begin.did = <<>> /\ Begin.did \in Seq(Steps)
      /\ Playing \subseteq Patterns
  BY PlayersAreKnown
<1>2. playing' = g.queue /\ performed' = g.did /\ p \notin Playing /\ running' = running
  BY DEF Play, Finish
<1>3. /\ QueueInv(h.queue) /\ PlayersOf(h.queue) = Playing \ Rivals(p)
      /\ Extends(<<>>, h.did, Playing \cap Rivals(p))
      /\ \A q \in Playing \cap Rivals(p) : HasLeds(q, End(q)) => Ended(h.did, q)
  BY <1>1, StopFacts
<1> HIDE DEF h
<1>4. h.did \in Seq(Steps) /\ \A i \in 1 .. Len(h.did) : h.did[i][1] \in Playing \cap Rivals(p)
  <2>1. Len(<<>>) = 0 /\ \A i \in 1 .. Len(h.did) : i > 0
    OBVIOUS
  <2>2. QED
    BY <1>3, <2>1 DEF Extends
<1>5. ASSUME NEW q \in Playing \ Rivals(p) PROVE Disjoint(q, p)
  <2>1. q \in Patterns /\ ~ PatternsShareLeds(q, p)
    BY <1>1, <1>5 DEF Rivals, Sharing
  <2>2. QED
    BY <2>1, PatternsCompared DEF Disjoint
<1>6. /\ QueueInv(g.queue)
      /\ PlayersOf(g.queue) \in {PlayersOf(h.queue) \cup {p}, PlayersOf(h.queue)}
      /\ Extends(h.did, g.did, {p})
      /\ p \notin PlayersOf(g.queue) /\ HasLeds(p, End(p)) => Ended(g.did, p)
  <2>1. p \notin PlayersOf(h.queue) /\ \A q \in PlayersOf(h.queue) : Disjoint(q, p)
    BY <1>2, <1>3, <1>5
  <2>2. QED
    BY <1>3, <1>4, <2>1, StartFacts
<1> HIDE DEF g
<1>7. Playing' = PlayersOf(g.queue)
  BY <1>2 DEF Playing, PlayersOf
<1>8. /\ Len(h.did) \in Nat /\ g.did \in Seq(Steps)
      /\ \A i \in 1 .. Len(g.did) :
            \/ i > Len(h.did) /\ g.did[i][1] = p
            \/ i <= Len(h.did) /\ g.did[i][1] \in Playing \cap Rivals(p)
  <2>1. Len(h.did) \in Nat /\ g.did \in Seq(Steps)
    BY <1>4, <1>6 DEF Extends
  <2>2. ASSUME NEW i \in 1 .. Len(g.did), i > Len(h.did) PROVE g.did[i][1] = p
    BY <1>6, <2>2 DEF Extends
  <2>3. ASSUME NEW i \in 1 .. Len(g.did), i <= Len(h.did)
        PROVE  g.did[i][1] \in Playing \cap Rivals(p)
    <3>1. i \in 1 .. Len(h.did)
      BY <2>1, <2>3
    <3>2. QED
      BY <1>4, <1>6, <3>1 DEF Extends
  <2>4. \A i \in 1 .. Len(g.did) : i > Len(h.did) \/ i <= Len(h.did)
    BY <2>1
  <2>5. QED
    BY <2>1, <2>2, <2>3, <2>4
<1>9. ASSUME NEW q \in Patterns, q \notin Playing',
             q \in Playing \/ \E i \in 1 .. Len(performed') : performed'[i][1] = q,
             HasLeds(q, End(q))
      PROVE  Ended(performed', q)
  <2>1. CASE q = p
    BY <1>2, <1>6, <1>7, <1>9, <2>1
  <2>2. CASE q # p
    <3>1. q \in Playing \cap Rivals(p)
      BY <1>2, <1>3, <1>6, <1>7, <1>8, <1>9, <2>2
    <3>2. Ended(h.did, q)
      BY <1>3, <1>9, <3>1
    <3>3. QED
      BY <1>2, <1>4, <1>6, <2>2, <3>2, StillEnded
  <2>3. QED
    BY <2>1, <2>2
<1>10. EndsArePerformed
  BY <1>9 DEF EndsArePerformed
<1>11. ASSUME NEW i \in 1 .. Len(performed'), NEW j \in 1 .. Len(performed'),
              performed'[i][1] \notin Playing, performed'[j][1] # performed'[i][1]
       PROVE  j < i
  <2>1. i > Len(h.did) /\ performed'[i][1] = p
    BY <1>2, <1>8, <1>11
  <2>2. j <= Len(h.did)
    BY <1>2, <1>8, <1>11, <2>1
  <2>3. QED
    BY <1>8, <2>1, <2>2
<1>12. EndsAreFirst
  BY <1>11 DEF EndsAreFirst
<1>13. PlayerInv'
  BY <1>2, <1>6, <1>8 DEF PlayerInv
<1>14. QED
  BY <1>10, <1>12, <1>13 DEF HandlerStep

(* The context of a playing pattern                                          *)
LEMMA ContextOfPlaying ==
    ASSUME PlayerInv, NEW p \in Playing
    PROVE  ContextInv(ContextOf(p)) /\ ContextOf(p).pattern = p
<1> DEFINE i == CHOOSE i \in DOMAIN playing : playing[i].pattern = p
<1>1. i \in DOMAIN playing /\ playing[i].pattern = p
  BY DEF Playing
<1>2. ContextOf(p) = playing[i]
  BY DEF ContextOf
<1>3. QED
  BY <1>1, <1>2 DEF PlayerInv, QueueInv

LEMMA RetriggerHandler ==
    ASSUME PlayerInv, NEW p \in Patterns, Retrigger(p)
    PROVE  HandlerStep /\ Playing' = Playing
<1> DEFINE c == ContextOf(p)
           d == [c EXCEPT !.times = 0, !.plays = Uncounted]
<1>1. /\ p \in Playing /\ playing' = Updated(playing, d) /\ performed' = <<>>
      /\ running' = running
  BY DEF Retrigger
<1>2. ContextInv(c) /\ c.pattern = p
  BY <1>1, ContextOfPlaying
<1>3. ContextInv(d)
  <2>1. c \in Contexts
    BY <1>2 DEF ContextInv
  <2>2. 0 \in 0 .. (SizeLimit - 1) /\ Uncounted \in Int
    BY <1>2, SizeAssumption DEF ContextInv, Contexts, Uncounted
  <2> HIDE DEF c
  <2>3. /\ d \in Contexts /\ d.pattern = c.pattern /\ d.next = c.next /\ d.timer = c.timer
        /\ d.plays = Uncounted
    BY <2>1, <2>2 DEF Contexts
  <2> HIDE DEF d
  <2>4. QED
    BY <1>2, <2>3 DEF ContextInv, CountIsRight
<1> HIDE DEF d
<1>4. QueueInv(playing') /\ PlayersOf(playing') = PlayersOf(playing)
  BY <1>1, <1>3, UpdatedQueue DEF PlayerInv
<1>5. Playing' = Playing
  BY <1>4 DEF Playing, PlayersOf
<1>6. performed' \in Seq(Steps) /\ 1 .. Len(performed') = {}
  BY <1>1
<1>7. PlayerInv'
  BY <1>1, <1>4, <1>6 DEF PlayerInv
<1>8. EndsArePerformed /\ EndsAreFirst
  BY <1>5, <1>6 DEF EndsArePerformed, EndsAreFirst
<1>9. QED
  BY <1>5, <1>7, <1>8 DEF HandlerStep

LEMMA TimeoutHandler ==
    ASSUME PlayerInv, NEW p \in Patterns, Timeout(p)
    PROVE  /\ HandlerStep
           /\ AllTimed(p) /\ p \notin Playing' => ~ PlaysOn(Counted(ContextOf(p)))
<1> DEFINE c == Counted(ContextOf(p))
           g == PlayStep(Begin, c)
<1>1. /\ p \in Playing /\ running' = running
      /\ Finish(IF PlaysOn(c) THEN g ELSE StopPatterns(Begin, {p}))
  BY DEF Timeout
<1>2. /\ ContextInv(ContextOf(p)) /\ c.pattern = p
      /\ PlaysOn(c) => Ready(c)
  BY <1>1, ContextOfPlaying, CountedFacts
<1>3. /\ QueueInv(playing) /\ Playing = PlayersOf(playing)
      /\ Begin.queue = playing /\ Begin.did = <<>> /\ Begin.did \in Seq(Steps)
  BY PlayersAreKnown
<1> HIDE DEF c
<1>4. CASE ~ PlaysOn(c)
  <2>1. Finish(StopPatterns(Begin, {p})) /\ running' \in BOOLEAN
    BY <1>1, <1>4 DEF PlayerInv
  <2>2. QED
    BY <1>4, <2>1, StopHandler DEF c
<1>5. CASE PlaysOn(c)
  <2>1. playing' = g.queue /\ performed' = g.did
    BY <1>1, <1>5 DEF Finish
  <2>2. ContextInv(Played(c)) /\ Ready(c)
    BY <1>2, <1>5, PlayedInv
  <2>3. /\ QueueInv(Updated(playing, Played(c)))
        /\ PlayersOf(Updated(playing, Played(c))) = Playing
    BY <1>3, <2>2, UpdatedQueue
  <2>4. /\ QueueInv(g.queue)
        /\ PlayersOf(g.queue) \in {Playing, Playing \ {p}}
        /\ Extends(<<>>, g.did, {p})
        /\ p \notin PlayersOf(g.queue) /\ HasLeds(p, End(p)) => Ended(g.did, p)
        /\ AllTimed(p) => p \in PlayersOf(g.queue)
    BY <1>1, <1>2, <1>3, <2>2, <2>3, PlayStepFacts
  <2> HIDE DEF g
  <2>5. Playing' = PlayersOf(g.queue)
    BY <2>1 DEF Playing, PlayersOf
  <2>6. performed' \in Seq(Steps) /\ \A i \in 1 .. Len(performed') : performed'[i][1] = p
    <3>1. Len(<<>>) = 0 /\ \A i \in 1 .. Len(performed') : i > 0
      OBVIOUS
    <3>2. QED
      BY <2>1, <2>4, <3>1 DEF Extends
  <2>7. EndsArePerformed
    BY <2>1, <2>4, <2>5, <2>6 DEF EndsArePerformed
  <2>8. EndsAreFirst
    BY <1>1, <2>6 DEF EndsAreFirst
  <2>9. PlayerInv'
    BY <1>1, <2>1, <2>4, <2>6 DEF PlayerInv
  <2>10. QED
    BY <2>4, <2>5, <2>7, <2>8, <2>9 DEF HandlerStep
<1>6. QED
  BY <1>4, <1>5

LEMMA NextIsHandler ==
    ASSUME PlayerInv, Next
    PROVE  HandlerStep
<1>1. ASSUME NEW p \in Patterns, Stop(p) PROVE HandlerStep
  <2>1. Finish(StopPatterns(Begin, {p})) /\ running' \in BOOLEAN
    BY <1>1 DEF Stop, PlayerInv
  <2>2. QED
    BY <2>1, StopHandler
<1>2. ASSUME Deinit PROVE HandlerStep
  <2>1. Finish(StopPatterns(Begin, Playing)) /\ running' \in BOOLEAN
    BY <1>2 DEF Deinit
  <2>2. QED
    BY <2>1, StopHandler
<1>3. QED
  BY <1>1, <1>2, PlayHandler, RetriggerHandler, TimeoutHandler DEF Next, Request

LEMMA PlayerInvAtStart == Init => PlayerInv
<1> SUFFICES ASSUME Init PROVE PlayerInv
  OBVIOUS
<1>1. /\ playing = <<>> /\ playing \in Seq(Contexts) /\ DOMAIN playing = {}
      /\ performed \in Seq(Steps) /\ running \in BOOLEAN
  BY DEF Init
<1>2. QED
  BY <1>1 DEF PlayerInv, QueueInv, Distinct

LEMMA PlayerInvHolds == Spec => []PlayerInv
<1>1. Init => PlayerInv
  BY PlayerInvAtStart
<1>2. PlayerInv /\ [Next]_vars => PlayerInv'
  <2>1. PlayerInv /\ Next => PlayerInv'
    BY NextIsHandler DEF HandlerStep
  <2>2. PlayerInv /\ UNCHANGED vars => PlayerInv'
    BY DEF PlayerInv, vars, QueueInv
  <2>3. QED
    BY <2>1, <2>2
<1>3. QED
  BY <1>1, <1>2, PTL DEF Spec

------------------------------------------------------------------------------
(* The queue's contexts and the steps performed keep their types.            *)
THEOREM PlayerTypeCorrect == Spec => []TypeOK
<1>1. PlayerInv => TypeOK
  <2> SUFFICES ASSUME PlayerInv PROVE TypeOK
    OBVIOUS
  <2>1. ASSUME NEW i \in DOMAIN playing
        PROVE  /\ playing[i].pattern \in Patterns
               /\ playing[i].times \in 0 .. (SizeLimit - 1)
               /\ playing[i].next \in 0 .. NumSteps(playing[i].pattern)
               /\ playing[i].timer \in BOOLEAN
               /\ playing[i].plays \in Int
    <3>1. playing[i] \in Contexts /\ playing[i].next <= NumSteps(playing[i].pattern)
      BY DEF PlayerInv, QueueInv, ContextInv
    <3>2. /\ playing[i].pattern \in Patterns
          /\ playing[i].times \in 0 .. (SizeLimit - 1)
          /\ playing[i].next \in Nat
          /\ playing[i].timer \in BOOLEAN
          /\ playing[i].plays \in Int
      BY <3>1 DEF Contexts
    <3>3. NumSteps(playing[i].pattern) \in Nat
      BY <3>2, StepsCount
    <3>4. QED
      BY <3>1, <3>2, <3>3
  <2>2. QED
    BY <2>1 DEF PlayerInv, TypeOK
<1>2. QED
  BY <1>1, PlayerInvHolds, PTL

(* No two patterns ever play on one LED with one priority.                   *)
THEOREM NothingIsShared == Spec => []PlayingPatternsShareNothing
<1>1. PlayerInv => PlayingPatternsShareNothing
  BY DEF PlayerInv, QueueInv, Disjoint, PlayingPatternsShareNothing
<1>2. QED
  BY <1>1, PlayerInvHolds, PTL

(* Every playing pattern waits for a timer and is in the queue once.         *)
THEOREM PlayersAreDriven == Spec => []PlayingPatternsAreDriven
<1>1. PlayerInv => PlayingPatternsAreDriven
  BY DEF PlayerInv, QueueInv, ContextInv, Distinct, PlayingPatternsAreDriven
<1>2. QED
  BY <1>1, PlayerInvHolds, PTL

(* Whatever stops a pattern, the last that it does is its end step.          *)
THEOREM EndStepsAreLast == Spec => StoppedPatternsPerformTheirEnd
<1> DEFINE own(p) == {i \in DOMAIN performed' : performed'[i][1] = p}
           Last(p) ==
              /\ p \notin Playing'
              /\ p \in Playing \/ own(p) # {}
              /\ HasLeds(p, End(p))
              => \E i \in own(p) : /\ performed'[i] = <<p, End(p)>>
                                   /\ \A j \in own(p) : j <= i
<1>1. ASSUME PlayerInv, Next, NEW p \in Patterns PROVE Last(p)
  <2>1. HandlerStep
    BY <1>1, NextIsHandler
  <2>2. DOMAIN performed' = 1 .. Len(performed')
    BY <2>1 DEF HandlerStep, PlayerInv
  <2> SUFFICES ASSUME p \notin Playing', p \in Playing \/ own(p) # {}, HasLeds(p, End(p))
               PROVE  \E i \in own(p) : /\ performed'[i] = <<p, End(p)>>
                                        /\ \A j \in own(p) : j <= i
    OBVIOUS
  <2>3. Ended(performed', p)
    BY <2>1, <2>2 DEF HandlerStep, EndsArePerformed
  <2>4. PICK i \in 1 .. Len(performed') :
          /\ performed'[i] = <<p, End(p)>>
          /\ \A j \in 1 .. Len(performed') : performed'[j][1] = p => j <= i
    BY <2>3 DEF Ended
  <2>5. i \in own(p) /\ \A j \in own(p) : j <= i
    BY <2>2, <2>4
  <2>6. QED
    BY <2>4, <2>5
<1>2. PlayerInv /\ [Next]_vars => [\A p \in Patterns : Last(p)]_vars
  BY <1>1
<1>3. QED
  BY <1>2, PlayerInvHolds, PTL DEF Spec, StoppedPatternsPerformTheirEnd

(* A pattern that takes LEDs over shows nothing before the others' ends.     *)
THEOREM EndStepsAreFirst == Spec => EndStepsComeFirst
<1> DEFINE First ==
             \A i, j \in DOMAIN performed' :
                performed'[i][1] \notin Playing /\ performed'[j][1] # performed'[i][1] => j < i
<1>1. ASSUME PlayerInv, Next PROVE First
  <2>1. HandlerStep
    BY <1>1, NextIsHandler
  <2>2. DOMAIN performed' = 1 .. Len(performed')
    BY <2>1 DEF HandlerStep, PlayerInv
  <2>3. QED
    BY <2>1, <2>2 DEF HandlerStep, EndsAreFirst
<1>2. PlayerInv /\ [Next]_vars => [First]_vars
  BY <1>1
<1>3. QED
  BY <1>2, PlayerInvHolds, PTL DEF Spec, EndStepsComeFirst

(* A pattern that its own timer ends was played as often as it says.         *)
THEOREM PlaysAreCounted == Spec => PlayedAsOftenAsConfigured
<1> DEFINE Often(p) ==
             /\ p \in Playing /\ p \notin Playing'
             /\ Timeout(p) /\ AllTimed(p)
             /\ ContextOf(p).plays # Uncounted
             => ContextOf(p).plays = Pattern[p].playCount
<1>1. ASSUME PlayerInv, NEW p \in Patterns PROVE Often(p)
  <2> SUFFICES ASSUME p \in Playing, p \notin Playing', Timeout(p), AllTimed(p),
                      ContextOf(p).plays # Uncounted
               PROVE  ContextOf(p).plays = Pattern[p].playCount
    OBVIOUS
  <2>1. ~ PlaysOn(Counted(ContextOf(p)))
    BY <1>1, TimeoutHandler
  <2>2. ContextInv(ContextOf(p)) /\ ContextOf(p).pattern = p
    BY <1>1, ContextOfPlaying
  <2>3. QED
    BY <2>1, <2>2, CountedFacts
<1>2. PlayerInv => [\A p \in Patterns : Often(p)]_vars
  BY <1>1
<1>3. QED
  BY <1>2, PlayerInvHolds, PTL DEF Spec, PlayedAsOftenAsConfigured

(* A repeating pattern isn't ended by its timer, whatever it has counted.    *)
THEOREM RepeatingGoesOn == Spec => RepeatingPatternsGoOn
<1> DEFINE On(p) ==
             /\ Pattern[p].repeat /\ AllTimed(p)
             /\ p \in Playing /\ p \notin Playing'
             => ~ Timeout(p)
<1>1. ASSUME PlayerInv, NEW p \in Patterns PROVE On(p)
  <2> SUFFICES ASSUME Pattern[p].repeat, AllTimed(p), p \in Playing, p \notin Playing',
                      Timeout(p)
               PROVE  FALSE
    OBVIOUS
  <2>1. ~ PlaysOn(Counted(ContextOf(p)))
    BY <1>1, TimeoutHandler
  <2>2. ContextInv(ContextOf(p)) /\ ContextOf(p).pattern = p
    BY <1>1, ContextOfPlaying
  <2>3. Counted(ContextOf(p)).pattern = p
    BY <2>2, CountedFacts
  <2>4. QED
    BY <2>1, <2>3 DEF PlaysOn, Endless
<1>2. PlayerInv => [\A p \in Patterns : On(p)]_vars
  BY <1>1
<1>3. QED
  BY <1>2, PlayerInvHolds, PTL DEF Spec, RepeatingPatternsGoOn
==============================================================================
