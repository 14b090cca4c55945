---------------------------- MODULE LedDaemonProofs ----------------------------
(***************************************************************************)
(* Proofs about LedDaemon: what patterns and clients do to the same LEDs,  *)
(* for every set of patterns, LEDs and requests.                           *)
(***************************************************************************)
EXTENDS LedDaemon, PatternControlProofs

Led == INSTANCE LedControlProofs

(* The controller that the proofs are about is the one that is composed.     *)
LEMMA SameNames ==
    /\ Ctl!CRITICAL = Led!CRITICAL /\ Ctl!LOCKED = Led!LOCKED
    /\ Ctl!ALTERNATE = Led!ALTERNATE /\ Ctl!NORMAL = Led!NORMAL
    /\ Ctl!Priorities = Led!Priorities
    /\ Ctl!UNKNOWN = Led!UNKNOWN /\ Ctl!OFF = Led!OFF /\ Ctl!ON = Led!ON
    /\ Ctl!LedStates = Led!LedStates
    /\ Ctl!FlashTypes = Led!FlashTypes
    /\ Ctl!Names = Led!Names /\ Ctl!Broken = Led!Broken
BY DEF Ctl!CRITICAL, Led!CRITICAL, Ctl!LOCKED, Led!LOCKED, Ctl!ALTERNATE, Led!ALTERNATE,
       Ctl!NORMAL, Led!NORMAL, Ctl!Priorities, Led!Priorities, Ctl!UNKNOWN, Led!UNKNOWN,
       Ctl!OFF, Led!OFF, Ctl!ON, Led!ON, Ctl!LedStates, Led!LedStates, Ctl!FlashTypes,
       Led!FlashTypes, Ctl!Names, Led!Names, Ctl!Broken, Led!Broken,
       Ctl!SLOW_FLASH, Led!SLOW_FLASH, Ctl!FAST_FLASH, Led!FAST_FLASH

LEMMA ControllerAssumptions ==
    /\ Led!NamesAssumption /\ Led!AliasAssumption /\ Led!LockAssumption
    /\ Led!StatesAssumption /\ Led!RequestsAssumption /\ Led!EnvironmentAssumption
BY ControllerAssumption, SameNames
   DEF Ctl!NamesAssumption, Ctl!AliasAssumption, Ctl!LockAssumption, Ctl!StatesAssumption,
       Ctl!RequestsAssumption, Ctl!EnvironmentAssumption, Led!NamesAssumption,
       Led!AliasAssumption, Led!LockAssumption, Led!StatesAssumption,
       Led!RequestsAssumption, Led!EnvironmentAssumption

LEMMA SameSetState ==
    ASSUME NEW r, NEW p, NEW s, NEW ok
    PROVE  Ctl!SetState(r, p, s, ok) = Led!SetState(r, p, s, ok)
BY DEF Ctl!SetState, Led!SetState, Ctl!WithContext, Led!WithContext, Ctl!Recorded,
       Led!Recorded, Ctl!Highest, Led!Highest, Ctl!MostUrgent, Led!MostUrgent,
       Ctl!LessUrgent, Led!LessUrgent

LEMMA SameActivate ==
    ASSUME NEW r, NEW p, NEW ok
    PROVE  Ctl!ActivateLed(r, p, ok) = Led!ActivateLed(r, p, ok)
BY SameNames, SameSetState
   DEF Ctl!ActivateLed, Led!ActivateLed, Ctl!WithContext, Led!WithContext,
       Ctl!StopFlashing, Led!StopFlashing, Ctl!Highest, Led!Highest,
       Ctl!MostUrgent, Led!MostUrgent

LEMMA SameDeactivate ==
    ASSUME NEW r, NEW p, NEW ok
    PROVE  Ctl!DeactivateLed(r, p, ok) = Led!DeactivateLed(r, p, ok)
BY SameNames, SameSetState
   DEF Ctl!DeactivateLed, Led!DeactivateLed, Ctl!Highest, Led!Highest,
       Ctl!MostUrgent, Led!MostUrgent, Ctl!LessUrgent, Led!LessUrgent

LEMMA SameFlashes ==
    /\ Ctl!OnTime = Led!OnTime /\ Ctl!OffTime = Led!OffTime
    /\ \A s : Ctl!FlashOf(s) = Led!FlashOf(s)
    /\ \A s : Ctl!Opposite(s) = Led!Opposite(s)
<1>1. Ctl!OnTime = Led!OnTime
  BY DEF Ctl!OnTime, Led!OnTime, Ctl!FlashTypes, Led!FlashTypes
<1>2. Ctl!OffTime = Led!OffTime
  BY DEF Ctl!OffTime, Led!OffTime, Ctl!FlashTypes, Led!FlashTypes
<1>3. \A s : Ctl!FlashOf(s) = Led!FlashOf(s)
  BY DEF Ctl!FlashOf, Led!FlashOf, Ctl!SLOW_FLASH, Led!SLOW_FLASH, Ctl!FAST_FLASH,
         Led!FAST_FLASH
<1>4. \A s : Ctl!Opposite(s) = Led!Opposite(s)
  BY SameNames DEF Ctl!Opposite, Led!Opposite
<1>5. QED
  BY <1>1, <1>2, <1>3, <1>4

LEMMA SameInitialise ==
    ASSUME NEW c, NEW req
    PROVE  /\ Ctl!InitialiseFlashing(c, req) = Led!InitialiseFlashing(c, req)
           /\ Ctl!InitialState(c, req) = Led!InitialState(c, req)
<1>1. Ctl!InitialiseFlashing(c, req) = Led!InitialiseFlashing(c, req)
  BY SameFlashes DEF Ctl!InitialiseFlashing, Led!InitialiseFlashing
<1>2. Ctl!InitialState(c, req) = Led!InitialState(c, req)
  BY SameFlashes DEF Ctl!InitialState, Led!InitialState
<1>3. QED
  BY <1>1, <1>2

LEMMA SameSetLed ==
    ASSUME NEW r, NEW req, NEW ok
    PROVE  Ctl!SetLed(r, req, ok) = Led!SetLed(r, req, ok)
<1> DEFINE unsupported == req.state \notin Supported /\ req.flash = "none"
           driven == [req EXCEPT !.flash = Led!FlashOf(req.state), !.state = Led!ON,
                                 !.forever = TRUE]
           request == IF unsupported THEN driven ELSE req
           p == req.priority
           prepared == Led!WithContext(r, p, Led!InitialiseFlashing(r.ctx[p], request))
           set == IF ~ Led!MayUpdate(r, req) \/ (unsupported /\ driven.flash = "none") THEN r
                  ELSE Led!SetState(prepared, p, Led!InitialState(prepared.ctx[p], request), ok)
<1>1. Ctl!MayUpdate(r, req) <=> Led!MayUpdate(r, req)
  BY SameNames DEF Ctl!MayUpdate, Led!MayUpdate
<1>2. \A c : Ctl!WithContext(r, p, c) = Led!WithContext(r, p, c)
  BY DEF Ctl!WithContext, Led!WithContext
<1>3. Led!SetLed(r, req, ok) = set
  BY DEF Led!SetLed
<1>4. Ctl!FlashOf(req.state) = Led!FlashOf(req.state) /\ Ctl!ON = Led!ON
  BY SameNames, SameFlashes
<1>5. Ctl!SetLed(r, req, ok) = set
  BY <1>1, <1>2, <1>4, SameInitialise, SameSetState DEF Ctl!SetLed
<1>6. QED
  BY <1>3, <1>5

LEMMA SameLock ==
    ASSUME NEW r, NEW p, NEW k, NEW ok
    PROVE  Ctl!LockAndActivate(r, p, k, ok) = Led!LockAndActivate(r, p, k, ok)
BY SameNames, SameActivate DEF Ctl!LockAndActivate, Led!LockAndActivate

LEMMA SameUnlock ==
    ASSUME NEW r, NEW p, NEW k, NEW ok
    PROVE  Ctl!UnlockAndDeactivate(r, p, k, ok) = Led!UnlockAndDeactivate(r, p, k, ok)
BY SameNames, SameDeactivate DEF Ctl!UnlockAndDeactivate, Led!UnlockAndDeactivate

LEMMA SameFlash ==
    ASSUME NEW r, NEW p, NEW opened, NEW ok
    PROVE  Ctl!FlashLed(r, p, opened, ok) = Led!FlashLed(r, p, opened, ok)
<1>1. \A c : Ctl!TimeRemaining(c) = Led!TimeRemaining(c)
  BY DEF Ctl!TimeRemaining, Led!TimeRemaining
<1>2. \A c : Ctl!StopFlashing(c) = Led!StopFlashing(c)
  BY SameNames DEF Ctl!StopFlashing, Led!StopFlashing
<1>3. \A c : Ctl!WithContext(r, p, c) = Led!WithContext(r, p, c)
  BY DEF Ctl!WithContext, Led!WithContext
<1>4. /\ Ctl!ON = Led!ON /\ Ctl!OFF = Led!OFF
      /\ Ctl!OnTime = Led!OnTime /\ Ctl!OffTime = Led!OffTime
  BY SameNames, SameFlashes
<1> DEFINE fired(left) == [r.ctx[p] EXCEPT !.timer = FALSE, !.remaining = left]
           ended(c) == ~ c.forever /\ c.remaining = 0
           next(c, on, off) == IF ended(c) THEN c.final ELSE IF c.state = on THEN off ELSE on
           going(c, isOn, onTime, offTime) ==
              [c EXCEPT !.current = IF isOn THEN onTime[c.times] ELSE offTime[c.times]]
           updated(c, stopped, then) == IF ended(c) THEN stopped ELSE then
           new(prepared, set) == IF opened THEN set ELSE prepared
           c1 == fired(Led!TimeRemaining(r.ctx[p]))
           n1 == next(c1, Led!ON, Led!OFF)
           g1 == going(c1, n1 = Led!ON, Led!OnTime, Led!OffTime)
           w1 == Led!WithContext(r, p, updated(c1, Led!StopFlashing(c1), g1))
           c2 == fired(Ctl!TimeRemaining(r.ctx[p]))
           n2 == next(c2, Ctl!ON, Ctl!OFF)
           g2 == going(c2, n2 = Ctl!ON, Ctl!OnTime, Ctl!OffTime)
           w2 == Ctl!WithContext(r, p, updated(c2, Ctl!StopFlashing(c2), g2))
<1>5. Led!FlashLed(r, p, opened, ok) = new(w1, Led!SetState(w1, p, n1, ok))
  BY DEF Led!FlashLed
<1>6. Ctl!FlashLed(r, p, opened, ok) = new(w2, Ctl!SetState(w2, p, n2, ok))
  BY DEF Ctl!FlashLed
<1> HIDE DEF fired, next, going, updated, new
<1>7. c1 = c2
  BY <1>1
<1> HIDE DEF c1, c2
<1>8. n1 = n2
  BY <1>4, <1>7
<1> HIDE DEF n1, n2
<1>9. g1 = g2
  BY <1>4, <1>7, <1>8
<1> HIDE DEF g1, g2
<1>10. w1 = w2
  BY <1>2, <1>3, <1>7, <1>9
<1> HIDE DEF w1, w2
<1>11. QED
  BY <1>5, <1>6, <1>8, <1>10, SameSetState

LEMMA SameVisits ==
    ASSUME NEW name, NEW l
    PROVE  Ctl!Visits(name, l) = Led!Visits(name, l)
BY DEF Ctl!Visits, Led!Visits

LEMMA SameRequest == Ctl!Request <=> Led!Request
<1>1. Ctl!SetRequests = Led!SetRequests
  BY DEF Ctl!SetRequests, Led!SetRequests
<1>2. ASSUME NEW name, NEW req, NEW broken
      PROVE  Ctl!SetLedState(name, req, broken) <=> Led!SetLedState(name, req, broken)
  BY SameVisits, SameSetLed
     DEF Ctl!SetLedState, Led!SetLedState, Ctl!Visit, Led!Visit
<1>3. ASSUME NEW name, NEW p, NEW k, NEW broken
      PROVE  Ctl!ActivatePriority(name, p, k, broken)
                <=> Led!ActivatePriority(name, p, k, broken)
  BY SameNames, SameVisits, SameLock
     DEF Ctl!ActivatePriority, Led!ActivatePriority, Ctl!Visit, Led!Visit
<1>4. ASSUME NEW name, NEW p, NEW k, NEW broken
      PROVE  Ctl!DeactivatePriority(name, p, k, broken)
                <=> Led!DeactivatePriority(name, p, k, broken)
  BY SameVisits, SameUnlock
     DEF Ctl!DeactivatePriority, Led!DeactivatePriority, Ctl!Visit, Led!Visit
<1>5. QED
  BY <1>1, <1>2, <1>3, <1>4, SameNames DEF Ctl!Request, Led!Request

LEMMA SameTimeout ==
    ASSUME NEW l, NEW p
    PROVE  Ctl!Timeout(l, p) <=> Led!Timeout(l, p)
BY SameFlash
   DEF Ctl!Timeout, Led!Timeout, Ctl!FlashTimeout, Led!FlashTimeout, Ctl!Outcomes,
       Led!Outcomes

LEMMA SameInit == Ctl!Init <=> Led!Init
BY SameNames
   DEF Ctl!Init, Led!Init, Ctl!NewLed, Led!NewLed, Ctl!NewContext, Led!NewContext,
       Ctl!Outcomes, Led!Outcomes

------------------------------------------------------------------------------
(* One LED of a step: what each of its operations keeps, it keeps.           *)
Reaches(e, l) == Ctl!Visits(e.name, l) > 0

LEMMA PerformLedCloses ==
    ASSUME NEW C, NEW r \in C, NEW l \in LEDs, NEW e,
           NEW starting, NEW stopping, NEW ok,
           Reaches(e, l) /\ starting /\ Activates(e) =>
              \A q \in C : Led!ActivateLed(q, e.priority, ok) \in C,
           Reaches(e, l) /\ e.state # Led!UNKNOWN =>
              \A q \in C : Led!SetLed(q, StepRequest(e), ok) \in C,
           Reaches(e, l) /\ stopping /\ Activates(e) =>
              \A q \in C : Led!DeactivateLed(q, e.priority, ok) \in C
    PROVE  PerformLed(r, l, e, starting, stopping, ok) \in C
<1> DEFINE visits == Ctl!Visits(e.name, l)
           Twice(q, once, twice) ==
              CASE visits = 0 -> q [] visits = 1 -> once [] visits = 2 -> twice
           A(q) == Ctl!ActivateLed(q, e.priority, ok)
           S(q) == Ctl!SetLed(q, StepRequest(e), ok)
           D(q) == Ctl!DeactivateLed(q, e.priority, ok)
           active == IF starting /\ Activates(e) THEN Twice(r, A(r), A(A(r))) ELSE r
           set == IF e.state # Ctl!UNKNOWN
                  THEN Twice(active, S(active), S(S(active))) ELSE active
           new == IF stopping /\ Activates(e) THEN Twice(set, D(set), D(D(set))) ELSE set
<1>1. visits \in {0, 1, 2}
  BY DEF Ctl!Visits
<1>2. PerformLed(r, l, e, starting, stopping, ok) = new
  BY DEF PerformLed, Ctl!Visit
<1>3. /\ visits > 0 <=> Reaches(e, l)
      /\ Ctl!UNKNOWN = Led!UNKNOWN
  BY SameNames DEF Reaches
<1> HIDE DEF visits
<1>4. active \in C
  <2>1. CASE visits > 0 /\ starting /\ Activates(e)
    <3>1. \A q \in C : A(q) \in C
      BY <1>3, <2>1, SameActivate
    <3> HIDE DEF A
    <3>2. A(r) \in C /\ A(A(r)) \in C
      BY <3>1
    <3>3. QED
      BY <1>1, <3>2
  <2>2. CASE ~ (visits > 0 /\ starting /\ Activates(e))
    BY <1>1, <2>2
  <2>3. QED
    BY <2>1, <2>2
<1> HIDE DEF active
<1>5. set \in C
  <2>1. CASE visits > 0 /\ e.state # Ctl!UNKNOWN
    <3>1. \A q \in C : S(q) \in C
      BY <1>3, <2>1, SameSetLed
    <3> HIDE DEF S
    <3>2. S(active) \in C /\ S(S(active)) \in C
      BY <1>4, <3>1
    <3>3. QED
      BY <1>1, <1>4, <3>2
  <2>2. CASE ~ (visits > 0 /\ e.state # Ctl!UNKNOWN)
    BY <1>1, <1>4, <2>2
  <2>3. QED
    BY <2>1, <2>2
<1> HIDE DEF set
<1>6. new \in C
  <2>1. CASE visits > 0 /\ stopping /\ Activates(e)
    <3>1. \A q \in C : D(q) \in C
      BY <1>3, <2>1, SameDeactivate
    <3> HIDE DEF D
    <3>2. D(set) \in C /\ D(D(set)) \in C
      BY <1>5, <3>1
    <3>3. QED
      BY <1>1, <1>5, <3>2
  <2>2. CASE ~ (visits > 0 /\ stopping /\ Activates(e))
    BY <1>1, <1>5, <2>2
  <2>3. QED
    BY <2>1, <2>2
<1>7. QED
  BY <1>2, <1>6

(* The LEDs of steps are what the controller can set.                        *)
IsEntry(e) ==
    /\ e.state \in Led!LedStates
    /\ e.priority \in Led!Priorities \cup {NoPriority}

LEMMA EntriesAreLeds ==
    ASSUME NEW p \in Patterns, NEW n \in Start .. End(p), NEW i \in DOMAIN Step(p, n).leds
    PROVE  IsEntry(Step(p, n).leds[i])
BY StepsAssumption, SameNames DEF IsEntry

LEMMA EntryType ==
    ASSUME NEW e, IsEntry(e)
    PROVE  /\ Activates(e) => e.priority \in Led!Priorities \ {Led!LOCKED}
           /\ PriorityOf(e) \in Led!Priorities
           /\ e.state # Led!UNKNOWN => StepRequest(e) \in Led!RequestType
<1>1. Activates(e) => e.priority \in Led!Priorities \ {Led!LOCKED}
  BY SameNames DEF Activates, IsEntry
<1>2. PriorityOf(e) \in Led!Priorities
  BY StepsAssumption, SameNames DEF PriorityOf, IsEntry, Led!Priorities
<1>3. ASSUME e.state # Led!UNKNOWN PROVE StepRequest(e) \in Led!RequestType
  BY <1>2, <1>3 DEF StepRequest, Led!RequestType, IsEntry, Led!FlashTypes
<1>4. QED
  BY <1>1, <1>2, <1>3

LEMMA PerformLedType ==
    ASSUME NEW r \in Led!LedType, NEW l \in LEDs, NEW e, IsEntry(e),
           NEW starting, NEW stopping, NEW ok \in BOOLEAN
    PROVE  PerformLed(r, l, e, starting, stopping, ok) \in Led!LedType
<1>1. ASSUME NEW q \in Led!LedType, NEW p \in Led!Priorities
      PROVE  Led!ActivateLed(q, p, ok) \in Led!LedType /\ Led!DeactivateLed(q, p, ok) \in Led!LedType
  BY Led!ActivateLedType, Led!DeactivateLedType, ControllerAssumptions
<1>2. ASSUME NEW q \in Led!LedType, NEW req \in Led!RequestType
      PROVE  Led!SetLed(q, req, ok) \in Led!LedType
  BY Led!SetLedType, ControllerAssumptions
<1>3. QED
  BY <1>1, <1>2, EntryType, PerformLedCloses

------------------------------------------------------------------------------
(* The records of one LED through the LEDs of a step, one after the other.   *)

LEMMA StepIsStep ==
    ASSUME NEW p \in Patterns, NEW n \in Start .. End(p)
    PROVE  IsStep(Step(p, n))
<1>1. /\ IsStep(Pattern[p].start) /\ IsStep(Pattern[p].end)
      /\ \A i \in DOMAIN Pattern[p].steps : IsStep(Pattern[p].steps[i])
      /\ DOMAIN Pattern[p].steps = 1 .. NumSteps(p)
  BY PatternAssumption DEF IsList, NumSteps
<1>2. CASE n \in {Start, End(p)}
  BY <1>1, <1>2 DEF Step
<1>3. CASE n \notin {Start, End(p)}
  <2>1. n \in 1 .. NumSteps(p) /\ Step(p, n) = Pattern[p].steps[n]
    BY <1>3, StepsCount DEF Step
  <2>2. QED
    BY <1>1, <2>1
<1>4. QED
  BY <1>2, <1>3

LEMMA StepLeds ==
    ASSUME NEW p \in Patterns, NEW n \in Start .. End(p)
    PROVE  /\ Len(Step(p, n).leds) \in Nat
           /\ DOMAIN Step(p, n).leds = 1 .. Len(Step(p, n).leds)
           /\ \A i \in 1 .. Len(Step(p, n).leds) : IsEntry(Step(p, n).leds[i])
<1>1. /\ Len(Step(p, n).leds) \in Nat
      /\ DOMAIN Step(p, n).leds = 1 .. Len(Step(p, n).leds)
  BY StepIsStep DEF IsStep, IsList
<1>2. QED
  BY <1>1, EntriesAreLeds

(* One LED's record through the LEDs of a step, one after the other          *)
LEMMA PerformStepRun ==
    ASSUME NEW r \in Led!LedType, NEW l \in LEDs, NEW p \in Patterns,
           NEW n \in Start .. End(p), NEW ok \in BOOLEAN
    PROVE  LET entries == Step(p, n).leds
           IN  \E f \in [0 .. Len(entries) -> Led!LedType] :
                  /\ f[0] = r
                  /\ \A i \in 1 .. Len(entries) :
                        f[i] = PerformLed(f[i - 1], l, entries[i], n = Start, n = End(p), ok)
                  /\ PerformStep(r, l, p, n, ok) = f[Len(entries)]
<1> DEFINE entries == Step(p, n).leds
           m == Len(entries)
           After(q, i) == PerformLed(q, l, entries[i], n = Start, n = End(p), ok)
           Defined(f) == f = [i \in 0 .. m |-> IF i = 0 THEN r ELSE After(f[i - 1], i)]
           F == CHOOSE f : Defined(f)
           g == [i \in 1 .. m |-> [q \in Led!LedType |-> After(q, i)]]
<1>1. m \in Nat /\ \A i \in 1 .. m : IsEntry(entries[i])
  BY StepLeds
<1>2. PerformStep(r, l, p, n, ok) = F[m]
  BY DEF PerformStep
<1> HIDE DEF entries, m
<1>3. \A q \in Led!LedType, i \in 1 .. m : After(q, i) \in Led!LedType
  BY <1>1, PerformLedType
<1> HIDE DEF After
<1>4. g \in Functionals(m, Led!LedType)
  BY <1>3 DEF Functionals
<1>5. PICK h : GoesThrough(h, m, Led!LedType, g, r)
  <2> HIDE DEF g
  <2>1. QED
    BY <1>1, <1>4, StepwiseFunction
<1>6. Defined(h)
  <2>1. /\ h \in [0 .. m -> Led!LedType] /\ h[0] = r
        /\ \A i \in 1 .. m : h[i] = g[i][h[i - 1]]
    BY <1>5 DEF GoesThrough
  <2>2. ASSUME NEW i \in 0 .. m, i # 0 PROVE h[i] = After(h[i - 1], i)
    <3>1. i \in 1 .. m /\ h[i - 1] \in Led!LedType
      BY <1>1, <2>1, <2>2
    <3>2. g[i][h[i - 1]] = After(h[i - 1], i)
      BY <3>1
    <3> HIDE DEF g
    <3>3. QED
      BY <2>1, <3>1, <3>2
  <2>3. h = [i \in 0 .. m |-> h[i]]
    BY <2>1
  <2>4. \A i \in 0 .. m : h[i] = IF i = 0 THEN r ELSE After(h[i - 1], i)
    BY <2>1, <2>2
  <2>5. QED
    BY <2>3, <2>4
<1>7. Defined(F)
  <2> HIDE DEF Defined
  <2>1. QED
    BY <1>6
<1> HIDE DEF F
<1>8. ASSUME NEW i \in 1 .. m, F[i - 1] \in Led!LedType
      PROVE  F[i] = After(F[i - 1], i) /\ F[i] \in Led!LedType
  <2>1. i \in 0 .. m /\ i # 0
    BY <1>1
  <2>2. F[i] = After(F[i - 1], i)
    BY <1>7, <2>1
  <2>3. QED
    BY <1>3, <1>8, <2>2
<1>9. F[0] = r /\ DOMAIN F = 0 .. m
  BY <1>1, <1>7
<1>10. \A i \in 0 .. m : F[i] \in Led!LedType
  <2> DEFINE T == {i \in 0 .. m : F[i] \in Led!LedType}
  <2>1. 0 \in T
    BY <1>1, <1>9
  <2>2. \A i \in 1 .. m : i - 1 \in T => i \in T
    BY <1>1, <1>8
  <2>3. T \subseteq 0 .. m
    OBVIOUS
  <2> HIDE DEF T
  <2>4. T = 0 .. m
    BY <1>1, <2>1, <2>2, <2>3, Induction
  <2>5. QED
    BY <2>4 DEF T
<1>11. F = [i \in 0 .. m |-> F[i]]
  BY <1>7
<1>12. F \in [0 .. m -> Led!LedType]
  BY <1>10, <1>11
<1>13. \A i \in 1 .. m : F[i] = After(F[i - 1], i)
  <2>1. \A i \in 1 .. m : i - 1 \in 0 .. m
    BY <1>1
  <2>2. QED
    BY <1>8, <1>10, <2>1
<1>14. QED
  BY <1>2, <1>9, <1>12, <1>13 DEF After, entries, m

(* What the LEDs of a step keep, the step keeps.                             *)
LEMMA PerformStepCloses ==
    ASSUME NEW l \in LEDs, NEW p \in Patterns, NEW n \in Start .. End(p), NEW ok \in BOOLEAN,
           NEW C, C \subseteq Led!LedType, NEW r \in C,
           \A q \in C, i \in DOMAIN Step(p, n).leds :
              PerformLed(q, l, Step(p, n).leds[i], n = Start, n = End(p), ok) \in C
    PROVE  PerformStep(r, l, p, n, ok) \in C
<1> DEFINE entries == Step(p, n).leds
           m == Len(entries)
<1>1. m \in Nat /\ DOMAIN entries = 1 .. m
  BY StepLeds
<1>2. PICK f \in [0 .. m -> Led!LedType] :
        /\ f[0] = r
        /\ \A i \in 1 .. m : f[i] = PerformLed(f[i - 1], l, entries[i], n = Start, n = End(p), ok)
        /\ PerformStep(r, l, p, n, ok) = f[m]
  <2>1. r \in Led!LedType
    OBVIOUS
  <2>2. QED
    BY <2>1, PerformStepRun
<1> DEFINE T == {i \in 0 .. m : f[i] \in C}
<1>3. 0 \in T
  BY <1>1, <1>2
<1>4. \A i \in 1 .. m : i - 1 \in T => i \in T
  <2> SUFFICES ASSUME NEW i \in 1 .. m, f[i - 1] \in C PROVE f[i] \in C
    BY <1>1
  <2>1. QED
    BY <1>1, <1>2
<1>5. T \subseteq 0 .. m
  OBVIOUS
<1> HIDE DEF T, m
<1>6. T = 0 .. m
  BY <1>1, <1>3, <1>4, <1>5, Induction
<1>7. m \in T
  BY <1>1, <1>6
<1>8. QED
  BY <1>2, <1>7 DEF T

LEMMA PerformStepType ==
    ASSUME NEW r \in Led!LedType, NEW l \in LEDs, NEW p \in Patterns,
           NEW n \in Start .. End(p), NEW ok \in BOOLEAN
    PROVE  PerformStep(r, l, p, n, ok) \in Led!LedType
<1>1. ASSUME NEW q \in Led!LedType, NEW i \in DOMAIN Step(p, n).leds
      PROVE  PerformLed(q, l, Step(p, n).leds[i], n = Start, n = End(p), ok) \in Led!LedType
  BY EntriesAreLeds, PerformLedType
<1>2. QED
  BY <1>1, PerformStepCloses

(* One LED's record through the steps of a handler                           *)
LEMMA StepInSteps ==
    ASSUME NEW steps \in Seq(Steps), NEW i \in 1 .. Len(steps)
    PROVE  steps[i][1] \in Patterns /\ steps[i][2] \in Start .. End(steps[i][1])
BY DEF Steps

RunsThrough(f, r, l, steps, unopened, ok) ==
    /\ f \in [0 .. Len(steps) -> Led!LedType]
    /\ f[0] = r
    /\ \A i \in 1 .. Len(steps) :
          f[i] = IF i \in unopened THEN f[i - 1]
                 ELSE PerformStep(f[i - 1], l, steps[i][1], steps[i][2], ok)
    /\ PerformSteps(r, l, steps, unopened, ok) = f[Len(steps)]

LEMMA PerformStepsRun ==
    ASSUME NEW r \in Led!LedType, NEW l \in LEDs, NEW steps \in Seq(Steps), NEW unopened,
           NEW ok \in BOOLEAN
    PROVE  \E f : RunsThrough(f, r, l, steps, unopened, ok)
<1> DEFINE m == Len(steps)
           After(q, i) == IF i \in unopened THEN q
                          ELSE PerformStep(q, l, steps[i][1], steps[i][2], ok)
           Defined(f) == f = [i \in 0 .. m |-> IF i = 0 THEN r ELSE After(f[i - 1], i)]
           F == CHOOSE f : Defined(f)
           g == [i \in 1 .. m |-> [q \in Led!LedType |-> After(q, i)]]
<1>1. m \in Nat
  OBVIOUS
<1>2. PerformSteps(r, l, steps, unopened, ok) = F[m]
  BY DEF PerformSteps
<1>3. \A q \in Led!LedType, i \in 1 .. m : After(q, i) \in Led!LedType
  BY StepInSteps, PerformStepType
<1> HIDE DEF After, m
<1>4. g \in Functionals(m, Led!LedType)
  BY <1>3 DEF Functionals
<1>5. PICK h : GoesThrough(h, m, Led!LedType, g, r)
  <2> HIDE DEF g
  <2>1. QED
    BY <1>1, <1>4, StepwiseFunction
<1>6. Defined(h)
  <2>1. /\ h \in [0 .. m -> Led!LedType] /\ h[0] = r
        /\ \A i \in 1 .. m : h[i] = g[i][h[i - 1]]
    BY <1>5 DEF GoesThrough
  <2>2. ASSUME NEW i \in 0 .. m, i # 0 PROVE h[i] = After(h[i - 1], i)
    <3>1. i \in 1 .. m /\ h[i - 1] \in Led!LedType
      BY <1>1, <2>1, <2>2
    <3>2. g[i][h[i - 1]] = After(h[i - 1], i)
      BY <3>1
    <3> HIDE DEF g
    <3>3. QED
      BY <2>1, <3>1, <3>2
  <2>3. h = [i \in 0 .. m |-> h[i]]
    BY <2>1
  <2>4. \A i \in 0 .. m : h[i] = IF i = 0 THEN r ELSE After(h[i - 1], i)
    BY <2>1, <2>2
  <2>5. QED
    BY <2>3, <2>4
<1>7. Defined(F)
  <2> HIDE DEF Defined
  <2>1. QED
    BY <1>6
<1> HIDE DEF F
<1>8. ASSUME NEW i \in 1 .. m, F[i - 1] \in Led!LedType
      PROVE  F[i] = After(F[i - 1], i) /\ F[i] \in Led!LedType
  <2>1. i \in 0 .. m /\ i # 0
    BY <1>1
  <2>2. F[i] = After(F[i - 1], i)
    BY <1>7, <2>1
  <2>3. QED
    BY <1>3, <1>8, <2>2
<1>9. F[0] = r /\ DOMAIN F = 0 .. m
  BY <1>1, <1>7
<1>10. \A i \in 0 .. m : F[i] \in Led!LedType
  <2> DEFINE T == {i \in 0 .. m : F[i] \in Led!LedType}
  <2>1. 0 \in T
    BY <1>1, <1>9
  <2>2. \A i \in 1 .. m : i - 1 \in T => i \in T
    BY <1>1, <1>8
  <2>3. T \subseteq 0 .. m
    OBVIOUS
  <2> HIDE DEF T
  <2>4. T = 0 .. m
    BY <1>1, <2>1, <2>2, <2>3, Induction
  <2>5. QED
    BY <2>4 DEF T
<1>11. F = [i \in 0 .. m |-> F[i]]
  BY <1>7
<1>12. F \in [0 .. m -> Led!LedType]
  BY <1>10, <1>11
<1>13. \A i \in 1 .. m : F[i] = After(F[i - 1], i)
  <2>1. \A i \in 1 .. m : i - 1 \in 0 .. m
    BY <1>1
  <2>2. QED
    BY <1>8, <1>10, <2>1
<1>14. QED
  BY <1>2, <1>9, <1>12, <1>13 DEF After, m, RunsThrough

(* What every step keeps, the steps of a handler keep.                       *)
LEMMA PerformStepsCloses ==
    ASSUME NEW l \in LEDs, NEW steps \in Seq(Steps), NEW unopened, NEW ok \in BOOLEAN,
           NEW C, C \subseteq Led!LedType, NEW r \in C,
           \A q \in C, p \in Patterns : \A n \in Start .. End(p) :
              PerformStep(q, l, p, n, ok) \in C
    PROVE  PerformSteps(r, l, steps, unopened, ok) \in C
<1> DEFINE m == Len(steps)
<1>1. PICK f : RunsThrough(f, r, l, steps, unopened, ok)
  <2>1. r \in Led!LedType
    OBVIOUS
  <2>2. QED
    BY <2>1, PerformStepsRun
<1>2. /\ f \in [0 .. m -> Led!LedType] /\ f[0] = r
      /\ \A i \in 1 .. m : f[i] = IF i \in unopened THEN f[i - 1]
                                  ELSE PerformStep(f[i - 1], l, steps[i][1], steps[i][2], ok)
      /\ PerformSteps(r, l, steps, unopened, ok) = f[m]
  BY <1>1 DEF RunsThrough
<1> DEFINE T == {i \in 0 .. m : f[i] \in C}
<1>3. m \in Nat
  OBVIOUS
<1>4. 0 \in T
  BY <1>2
<1>5. \A i \in 1 .. m : i - 1 \in T => i \in T
  BY <1>2, StepInSteps
<1>6. T \subseteq 0 .. m
  OBVIOUS
<1> HIDE DEF T, m
<1>7. T = 0 .. m
  BY <1>3, <1>4, <1>5, <1>6, Induction
<1>8. m \in T
  BY <1>3, <1>7
<1>9. QED
  BY <1>2, <1>8 DEF T

LEMMA PerformStepsType ==
    ASSUME NEW r \in Led!LedType, NEW l \in LEDs, NEW steps \in Seq(Steps), NEW unopened,
           NEW ok \in BOOLEAN
    PROVE  PerformSteps(r, l, steps, unopened, ok) \in Led!LedType
<1> DEFINE C == Led!LedType
<1>1. C \subseteq Led!LedType /\ r \in C
  OBVIOUS
<1>2. \A q \in C, p \in Patterns : \A n \in Start .. End(p) : PerformStep(q, l, p, n, ok) \in C
  BY PerformStepType
<1> HIDE DEF C
<1>3. PerformSteps(r, l, steps, unopened, ok) \in C
  BY <1>1, <1>2, PerformStepsCloses
<1>4. QED
  BY <1>3 DEF C

(* A step without LEDs does nothing.                                         *)
LEMMA PerformStepEmpty ==
    ASSUME NEW r \in Led!LedType, NEW l \in LEDs, NEW p \in Patterns,
           NEW n \in Start .. End(p), NEW ok \in BOOLEAN, ~ HasLeds(p, n)
    PROVE  PerformStep(r, l, p, n, ok) = r
<1>1. Len(Step(p, n).leds) = 0 /\ DOMAIN Step(p, n).leds = {}
  BY StepLeds DEF HasLeds
<1> DEFINE C == {r}
<1>2. C \subseteq Led!LedType /\ r \in C
  OBVIOUS
<1>3. \A q \in C, i \in DOMAIN Step(p, n).leds :
         PerformLed(q, l, Step(p, n).leds[i], n = Start, n = End(p), ok) \in C
  BY <1>1
<1> HIDE DEF C
<1>4. PerformStep(r, l, p, n, ok) \in C
  BY <1>2, <1>3, PerformStepCloses
<1>5. QED
  BY <1>4 DEF C

(* One more step, after the others                                           *)
LEMMA PerformStepsAppend ==
    ASSUME NEW r \in Led!LedType, NEW l \in LEDs, NEW steps \in Seq(Steps),
           NEW p \in Patterns, NEW n \in Start .. End(p), NEW ok \in BOOLEAN
    PROVE  /\ PerformSteps(r, l, <<>>, {}, ok) = r
           /\ PerformSteps(r, l, steps, {}, ok) \in Led!LedType
           /\ PerformSteps(r, l, Append(steps, <<p, n>>), {}, ok) =
                 PerformStep(PerformSteps(r, l, steps, {}, ok), l, p, n, ok)
<1> DEFINE m == Len(steps)
           e == <<p, n>>
           more == Append(steps, e)
<1>1. /\ m \in Nat /\ e \in Steps /\ more \in Seq(Steps) /\ Len(more) = m + 1
      /\ more[m + 1] = e /\ \A i \in 1 .. m : more[i] = steps[i]
  <2>1. e \in Steps
    BY StepOfPattern DEF Start
  <2> HIDE DEF e
  <2>2. QED
    BY <2>1, AppendFacts
<1>2. PICK f : RunsThrough(f, r, l, steps, {}, ok)
  BY PerformStepsRun
<1>3. PICK g : RunsThrough(g, r, l, more, {}, ok)
  <2> HIDE DEF more, m
  <2>1. QED
    BY <1>1, PerformStepsRun
<1>4. /\ f \in [0 .. m -> Led!LedType] /\ f[0] = r
      /\ \A i \in 1 .. m :
            f[i] = PerformStep(f[i - 1], l, steps[i][1], steps[i][2], ok)
      /\ PerformSteps(r, l, steps, {}, ok) = f[m]
  BY <1>2 DEF RunsThrough
<1>5. /\ g \in [0 .. m + 1 -> Led!LedType] /\ g[0] = r
      /\ \A i \in 1 .. m + 1 :
            g[i] = PerformStep(g[i - 1], l, more[i][1], more[i][2], ok)
      /\ PerformSteps(r, l, more, {}, ok) = g[m + 1]
  <2> HIDE DEF more, m, e
  <2>1. Len(more) = m + 1
    BY <1>1
  <2>2. QED
    BY <1>3, <2>1 DEF RunsThrough
<1> DEFINE T == {i \in 0 .. m : g[i] = f[i]}
<1> HIDE DEF m, more, e
<1>6. 0 \in T
  BY <1>1, <1>4, <1>5
<1>7. \A i \in 1 .. m : i - 1 \in T => i \in T
  <2> SUFFICES ASSUME NEW i \in 1 .. m, g[i - 1] = f[i - 1] PROVE g[i] = f[i]
    BY <1>1
  <2>1. i \in 1 .. m + 1 /\ more[i] = steps[i]
    BY <1>1
  <2>2. QED
    BY <1>4, <1>5, <2>1
<1>8. T \subseteq 0 .. m
  OBVIOUS
<1> HIDE DEF T
<1>9. m \in T
  <2>1. T = 0 .. m
    BY <1>1, <1>6, <1>7, <1>8, Induction
  <2>2. QED
    BY <1>1, <2>1
<1>10. g[m] = f[m]
  BY <1>9 DEF T
<1>11. g[m + 1] = PerformStep(g[m], l, p, n, ok)
  <2>1. m + 1 \in 1 .. m + 1 /\ (m + 1) - 1 = m
    BY <1>1
  <2>2. more[m + 1][1] = p /\ more[m + 1][2] = n
    BY <1>1 DEF e
  <2>3. QED
    BY <1>5, <2>1, <2>2
<1>12. PerformSteps(r, l, <<>>, {}, ok) = r
  <2>1. <<>> \in Seq(Steps) /\ Len(<<>>) = 0
    OBVIOUS
  <2>2. PICK h : RunsThrough(h, r, l, <<>>, {}, ok)
    BY <2>1, PerformStepsRun
  <2>3. QED
    BY <2>1, <2>2 DEF RunsThrough
<1>13. f[m] \in Led!LedType
  BY <1>1, <1>4
<1>14. QED
  BY <1>4, <1>5, <1>10, <1>11, <1>12, <1>13 DEF more, e

------------------------------------------------------------------------------
(***************************************************************************)
(* Patterns underneath a lock.  If neither clients nor patterns use the    *)
(* CRITICAL priority, the LOCKED priority of a locked LED is its highest   *)
(* one: a step activates, sets or deactivates only priorities that are     *)
(* less urgent, and can't set the locked state since it has no lock ID.    *)
(***************************************************************************)
CriticalIsUnused ==
    /\ Ctl!CRITICAL \notin RequestPriorities
    /\ \A p \in Patterns : \A n \in Start .. End(p) : \A i \in DOMAIN Step(p, n).leds :
          Step(p, n).leds[i].priority # Ctl!CRITICAL

(* The records that r may be turned into by patterns. *)
UnderLock(r) ==
    {q \in Led!Uncritical : r.lock # NoLock => q.phys = r.phys /\ q.lock = r.lock}

LEMMA EntryUnderLock ==
    ASSUME NEW r \in Led!Uncritical, NEW q \in UnderLock(r), NEW ok \in BOOLEAN,
           NEW e, IsEntry(e), e.priority # Ctl!CRITICAL
    PROVE  /\ Activates(e) => /\ Led!ActivateLed(q, e.priority, ok) \in UnderLock(r)
                              /\ Led!DeactivateLed(q, e.priority, ok) \in UnderLock(r)
           /\ e.state # Led!UNKNOWN => Led!SetLed(q, StepRequest(e), ok) \in UnderLock(r)
<1>1. q \in Led!Uncritical /\ q \in Led!LedType /\ (r.lock # NoLock => q.phys = r.phys /\ q.lock = r.lock)
  BY DEF UnderLock, Led!Uncritical
<1>2. r.lock # NoLock => \A p \in Led!Priorities \ {Led!CRITICAL, Led!LOCKED} : Led!Highest(q) < p
  BY <1>1, Led!LockIsHighest, ControllerAssumptions
<1>3. ASSUME Activates(e)
      PROVE  /\ Led!ActivateLed(q, e.priority, ok) \in UnderLock(r)
             /\ Led!DeactivateLed(q, e.priority, ok) \in UnderLock(r)
  <2> DEFINE p == e.priority
  <2>1. p \in Led!Priorities \ {Led!CRITICAL, Led!LOCKED}
    BY <1>3, EntryType, SameNames
  <2> HIDE DEF p
  <2>2. Led!ActivateLed(q, p, ok) \in Led!Uncritical /\ Led!DeactivateLed(q, p, ok) \in Led!Uncritical
    BY <1>1, <2>1, Led!ActivateUncritical, ControllerAssumptions
  <2>3. Led!ActivateLed(q, p, ok).lock = q.lock /\ Led!DeactivateLed(q, p, ok).lock = q.lock
    BY <1>1, <2>1, Led!ActivateLedType, Led!DeactivateLedType, ControllerAssumptions
  <2>4. r.lock # NoLock => /\ Led!ActivateLed(q, p, ok).phys = q.phys
                           /\ Led!DeactivateLed(q, p, ok).phys = q.phys
    <3>1. Led!Highest(q) < p => /\ Led!ActivateLed(q, p, ok).phys = q.phys
                                /\ Led!DeactivateLed(q, p, ok).phys = q.phys
      <4>1. Led!Priorities \ {p} # {}
        BY <2>1 DEF Led!Priorities, Led!CRITICAL, Led!LOCKED
      <4>2. QED
        BY <1>1, <2>1, <4>1, Led!ActivateElsewhere, Led!DeactivateElsewhere, ControllerAssumptions
    <3>2. QED
      BY <1>2, <2>1, <3>1
  <2>5. QED
    BY <1>1, <2>2, <2>3, <2>4 DEF UnderLock, p
<1>4. ASSUME e.state # Led!UNKNOWN
      PROVE  Led!SetLed(q, StepRequest(e), ok) \in UnderLock(r)
  <2> DEFINE req == StepRequest(e)
  <2>1. /\ req \in Led!RequestType /\ req.priority = PriorityOf(e) /\ req.lock = NoLock
        /\ PriorityOf(e) \in Led!Priorities
    BY <1>4, EntryType DEF StepRequest
  <2>2. PriorityOf(e) # Led!CRITICAL
    BY StepsAssumption, SameNames DEF PriorityOf, Led!CRITICAL, Led!NORMAL
  <2> HIDE DEF req
  <2>3. Led!SetLed(q, req, ok) \in Led!Uncritical
    BY <1>1, <2>1, <2>2, Led!SetUncritical, ControllerAssumptions
  <2>4. Led!SetLed(q, req, ok).lock = q.lock
    BY <1>1, <2>1, Led!SetLedType, ControllerAssumptions
  <2>5. ASSUME r.lock # NoLock PROVE Led!SetLed(q, req, ok).phys = q.phys
    <3>1. CASE req.priority = Led!LOCKED
      <4>1. ~ Led!MayUpdate(q, req)
        BY <1>1, <2>1, <2>5, <3>1 DEF Led!MayUpdate
      <4>2. Led!SetLed(q, req, ok) = q
        BY <1>1, <2>1, <4>1, Led!SetLedEquation, ControllerAssumptions
      <4>3. QED
        BY <4>2
    <3>2. CASE req.priority # Led!LOCKED
      <4>1. Led!Highest(q) < req.priority
        BY <1>2, <2>1, <2>2, <2>5, <3>2
      <4>2. QED
        BY <1>1, <2>1, <4>1, Led!SetLedElsewhere, ControllerAssumptions
    <3>3. QED
      BY <3>1, <3>2
  <2>6. QED
    BY <1>1, <2>3, <2>4, <2>5 DEF UnderLock, req
<1>5. QED
  BY <1>3, <1>4

LEMMA StepsUnderLock ==
    ASSUME CriticalIsUnused, NEW r \in Led!Uncritical, NEW l \in LEDs,
           NEW steps \in Seq(Steps), NEW unopened, NEW ok \in BOOLEAN
    PROVE  PerformSteps(r, l, steps, unopened, ok) \in UnderLock(r)
<1> DEFINE C == UnderLock(r)
<1>1. r \in C /\ C \subseteq Led!LedType
  BY DEF UnderLock, Led!Uncritical
<1>2. ASSUME NEW q \in C, NEW p \in Patterns, NEW n \in Start .. End(p)
      PROVE  PerformStep(q, l, p, n, ok) \in C
  <2>1. ASSUME NEW s \in C, NEW i \in DOMAIN Step(p, n).leds
        PROVE  PerformLed(s, l, Step(p, n).leds[i], n = Start, n = End(p), ok) \in C
    <3> DEFINE e == Step(p, n).leds[i]
    <3>1. IsEntry(e) /\ e.priority # Ctl!CRITICAL
      BY EntriesAreLeds DEF CriticalIsUnused
    <3> HIDE DEF e
    <3>2. \A t \in C : /\ Activates(e) => /\ Led!ActivateLed(t, e.priority, ok) \in C
                                          /\ Led!DeactivateLed(t, e.priority, ok) \in C
                       /\ e.state # Led!UNKNOWN => Led!SetLed(t, StepRequest(e), ok) \in C
      BY <3>1, EntryUnderLock
    <3> HIDE DEF C
    <3>3. PerformLed(s, l, e, n = Start, n = End(p), ok) \in C
      BY <3>2, PerformLedCloses
    <3>4. QED
      BY <3>3 DEF e
  <2> HIDE DEF C
  <2>2. QED
    BY <1>1, <2>1, PerformStepCloses
<1> HIDE DEF C
<1>3. PerformSteps(r, l, steps, unopened, ok) \in C
  BY <1>1, <1>2, PerformStepsCloses
<1>4. QED
  BY <1>3 DEF C

------------------------------------------------------------------------------

(* What a handler of the player does to one LED.                             *)
LEMMA PlayerActsOnLed ==
    ASSUME PlayerActs, NEW l \in LEDs
    PROVE  /\ leds' = [m \in LEDs |-> leds'[m]]
           /\ \E unopened : \E ok \in BOOLEAN :
                 /\ leds'[l] = PerformSteps(leds[l], l, performed', unopened, ok)
                 /\ ~ WritesMayFail => unopened = {} /\ ok = TRUE
<1>1. PICK broken \in Ctl!Broken,
           unopened \in IF WritesMayFail THEN SUBSET DOMAIN performed' ELSE {{}} :
        leds' = Perform(performed', unopened, broken)
  BY DEF PlayerActs
<1> DEFINE ok == l \notin broken
<1>2. ok \in BOOLEAN
  OBVIOUS
<1>3. ASSUME ~ WritesMayFail PROVE unopened = {} /\ ok = TRUE
  <2>1. broken = {} /\ unopened = {}
    BY <1>3 DEF Ctl!Broken
  <2>2. QED
    BY <2>1
<1>4. leds'[l] = PerformSteps(leds[l], l, performed', unopened, ok)
  BY <1>1 DEF Perform
<1>5. leds' = [m \in LEDs |-> leds'[m]]
  BY <1>1 DEF Perform
<1> HIDE DEF ok
<1>6. QED
  BY <1>2, <1>3, <1>4, <1>5

(* The invariant of the player and the controller together, while CRITICAL   *)
(* isn't used.                                                               *)
QuietInv ==
    /\ PlayerInv
    /\ leds = [l \in LEDs |-> leds[l]]
    /\ \A l \in LEDs : leds[l] \in Led!Uncritical

(* A request keeps the LEDs a function of the LEDs.                          *)
LEMMA RequestLeds ==
    ASSUME Ctl!Request
    PROVE  leds' = [l \in LEDs |-> leds'[l]]
BY DEF Ctl!Request, Ctl!SetLedState, Ctl!ActivatePriority, Ctl!DeactivatePriority

LEMMA FlashOfLed ==
    ASSUME leds = [l \in LEDs |-> leds[l]], NEW l \in LEDs, NEW m \in LEDs,
           NEW p \in Ctl!Priorities, Ctl!Timeout(m, p)
    PROVE  /\ leds' = [k \in LEDs |-> leds'[k]]
           /\ leds'[l] = leds[l] \/ (l = m /\ Led!TimeoutStep(leds[l], leds'[l], p))
<1>1. PICK opened \in Led!Outcomes, ok \in Led!Outcomes :
        /\ leds[m].ctx[p].timer
        /\ leds' = [leds EXCEPT ![m] = Led!FlashLed(leds[m], p, opened, ok)]
  <2>1. Led!Timeout(m, p)
    BY SameTimeout
  <2>2. QED
    BY <2>1 DEF Led!Timeout, Led!FlashTimeout
<1>2. leds' = [k \in LEDs |-> leds'[k]]
  BY <1>1
<1>3. l # m => leds'[l] = leds[l]
  BY <1>1
<1>4. l = m => leds'[l] = Led!FlashLed(leds[l], p, opened, ok)
  BY <1>1
<1>5. l = m => Led!TimeoutStep(leds[l], leds'[l], p)
  BY <1>1, <1>4 DEF Led!TimeoutStep
<1>6. QED
  BY <1>2, <1>3, <1>5

(* What each kind of step does to a LED and to the player.                   *)
LEMMA PlayerKeepsQuiet ==
    ASSUME CriticalIsUnused, QuietInv, Next, PlayerActs
    PROVE  /\ QuietInv'
           /\ \A l \in LEDs : leds'[l] \in UnderLock(leds[l])
<1>1. PlayerInv'
  BY NextIsHandler DEF HandlerStep, QuietInv
<1>2. performed' \in Seq(Steps)
  BY <1>1 DEF PlayerInv
<1>3. ASSUME NEW l \in LEDs PROVE leds'[l] \in UnderLock(leds[l])
  <2>1. \E unopened : \E ok \in BOOLEAN :
           leds'[l] = PerformSteps(leds[l], l, performed', unopened, ok)
    BY PlayerActsOnLed
  <2>2. leds[l] \in Led!Uncritical
    BY DEF QuietInv
  <2>3. QED
    BY <1>2, <2>1, <2>2, StepsUnderLock
<1>4. \A l \in LEDs : leds'[l] \in Led!Uncritical
  BY <1>3 DEF UnderLock
<1>5. leds' = [l \in LEDs |-> leds'[l]]
  <2>1. ASSUME NEW l \in LEDs PROVE leds' = [m \in LEDs |-> leds'[m]]
    BY PlayerActsOnLed
  <2>2. CASE LEDs = {}
    BY <2>2 DEF PlayerActs, Perform
  <2>3. QED
    BY <2>1, <2>2
<1>6. QED
  BY <1>1, <1>3, <1>4, <1>5 DEF QuietInv

LEMMA ClientsKeepQuiet ==
    ASSUME CriticalIsUnused, QuietInv, ClientRequest
    PROVE  QuietInv'
<1>1. Led!Request /\ Ctl!Request /\ UNCHANGED vars
  BY SameRequest DEF ClientRequest
<1>2. Led!CRITICAL \notin RequestPriorities
  BY SameNames DEF CriticalIsUnused
<1>3. \A l \in LEDs : leds'[l] \in Led!Uncritical
  BY <1>1, <1>2, Led!RequestUncritical, ControllerAssumptions DEF QuietInv
<1>4. leds' = [l \in LEDs |-> leds'[l]]
  BY <1>1, RequestLeds
<1>5. PlayerInv'
  BY <1>1 DEF QuietInv, PlayerInv, QueueInv, vars
<1>6. QED
  BY <1>3, <1>4, <1>5 DEF QuietInv

LEMMA FlashesKeepQuiet ==
    ASSUME QuietInv, NEW m \in LEDs, NEW p \in Ctl!Priorities, FlashTimeout(m, p)
    PROVE  /\ QuietInv'
           /\ \A l \in LEDs :
                 leds[l].lock # NoLock /\ <<leds'[l].phys, leds'[l].lock>> # <<leds[l].phys, leds[l].lock>>
                    => l = m /\ p = Ctl!LOCKED
<1>1. Ctl!Timeout(m, p) /\ UNCHANGED vars /\ p \in Led!Priorities
  BY SameNames DEF FlashTimeout
<1>2. leds = [l \in LEDs |-> leds[l]] /\ \A l \in LEDs : leds[l] \in Led!Uncritical
  BY DEF QuietInv
<1>3. /\ leds' = [l \in LEDs |-> leds'[l]]
      /\ \A l \in LEDs : leds'[l] = leds[l] \/ (l = m /\ Led!TimeoutStep(leds[l], leds'[l], p))
  BY <1>1, <1>2, FlashOfLed
<1>4. \A l \in LEDs : leds'[l] \in Led!Uncritical /\ leds'[l].lock = leds[l].lock
  BY <1>1, <1>2, <1>3, Led!TimeoutUncritical, ControllerAssumptions
<1>5. PlayerInv'
  BY <1>1 DEF QuietInv, PlayerInv, QueueInv, vars
<1>6. ASSUME NEW l \in LEDs, leds[l].lock # NoLock,
             <<leds'[l].phys, leds'[l].lock>> # <<leds[l].phys, leds[l].lock>>
      PROVE  l = m /\ p = Ctl!LOCKED
  <2>1. leds'[l].phys # leds[l].phys
    BY <1>4, <1>6
  <2>2. l = m /\ Led!TimeoutStep(leds[l], leds'[l], p)
    BY <1>3, <2>1
  <2>3. p # Led!CRITICAL
    BY <1>2, <2>2 DEF Led!Uncritical, Led!TimeoutStep
  <2>4. ASSUME p # Led!LOCKED PROVE leds'[l].phys = leds[l].phys
    <3>1. Led!Highest(leds[l]) < p /\ leds[l] \in Led!LedType
      BY <1>1, <1>2, <1>6, <2>3, <2>4, Led!LockIsHighest, ControllerAssumptions DEF Led!Uncritical
    <3>2. PICK opened \in BOOLEAN, ok \in BOOLEAN :
            leds'[l] = Led!FlashLed(leds[l], p, opened, ok)
      BY <2>2, Led!OutcomesType, ControllerAssumptions DEF Led!TimeoutStep
    <3>3. QED
      BY <1>1, <3>1, <3>2, Led!FlashElsewhere, ControllerAssumptions
  <2>5. QED
    BY <2>1, <2>2, <2>4, SameNames
<1>7. QED
  BY <1>3, <1>4, <1>5, <1>6 DEF QuietInv

LEMMA DeinitKeepsQuiet ==
    ASSUME QuietInv, Shutdown
    PROVE  QuietInv'
<1>1. PlayerInv'
  BY NextIsHandler DEF HandlerStep, QuietInv, Shutdown, Next
<1>2. QED
  BY <1>1 DEF QuietInv, Shutdown

LEMMA DaemonInitIsQuiet == DaemonInit => QuietInv
<1> SUFFICES ASSUME DaemonInit PROVE QuietInv
  OBVIOUS
<1>1. Led!Init /\ Init
  BY SameInit DEF DaemonInit
<1>2. PlayerInv
  BY <1>1, PlayerInvAtStart
<1>3. PICK opened \in Led!Outcomes :
        leds \in [LEDs -> {Led!NewLed(s, opened) : s \in ReportedStates}]
  BY <1>1 DEF Led!Init
<1>4. opened \in BOOLEAN /\ ReportedStates \subseteq Led!LedStates
  BY Led!OutcomesType, ControllerAssumptions DEF Led!StatesAssumption
<1>5. \A s \in ReportedStates : Led!NewLed(s, opened) \in Led!Uncritical
  BY <1>4, Led!NewLedUncritical, ControllerAssumptions
<1>6. QED
  BY <1>2, <1>3, <1>5 DEF QuietInv

LEMMA DaemonStepIsQuiet ==
    ASSUME CriticalIsUnused, QuietInv, [DaemonNext]_daemonVars
    PROVE  /\ QuietInv'
           /\ \A l \in LEDs :
                 leds[l].lock # NoLock /\ <<leds'[l].phys, leds'[l].lock>> # <<leds[l].phys, leds[l].lock>>
                    => ClientRequest \/ FlashTimeout(l, Ctl!LOCKED)
<1> DEFINE Left(l) ==
              leds[l].lock # NoLock /\ <<leds'[l].phys, leds'[l].lock>> # <<leds[l].phys, leds[l].lock>>
                 => ClientRequest \/ FlashTimeout(l, Ctl!LOCKED)
<1>1. ASSUME Next, PlayerActs PROVE QuietInv' /\ \A l \in LEDs : Left(l)
  BY <1>1, PlayerKeepsQuiet DEF UnderLock
<1>2. ASSUME ClientRequest PROVE QuietInv' /\ \A l \in LEDs : Left(l)
  BY <1>2, ClientsKeepQuiet
<1>3. ASSUME NEW m \in LEDs, NEW p \in Ctl!Priorities, FlashTimeout(m, p)
      PROVE  QuietInv' /\ \A l \in LEDs : Left(l)
  BY <1>3, FlashesKeepQuiet
<1>4. ASSUME Shutdown PROVE QuietInv' /\ \A l \in LEDs : Left(l)
  BY <1>4, DeinitKeepsQuiet DEF Shutdown
<1>5. ASSUME UNCHANGED daemonVars PROVE QuietInv' /\ \A l \in LEDs : Left(l)
  BY <1>5 DEF QuietInv, PlayerInv, QueueInv, daemonVars
<1> HIDE DEF Left
<1>6. QuietInv' /\ \A l \in LEDs : Left(l)
  BY <1>1, <1>2, <1>3, <1>4, <1>5 DEF DaemonNext, PatternRequest, PatternTimeout, Next
<1>7. QED
  BY <1>6 DEF Left

(* Whatever patterns do, a locked LED keeps what it shows and its lock until *)
(* a client asks for something or the flash of its lock goes on.             *)
THEOREM PatternsLeaveLocksAlone ==
    ASSUME CriticalIsUnused
    PROVE  DaemonSpec => PatternsLeaveLockedLedsAlone
<1>1. QuietInv /\ [DaemonNext]_daemonVars => QuietInv'
  BY DaemonStepIsQuiet
<1>2. QuietInv /\ [DaemonNext]_daemonVars =>
        [\A l \in LEDs :
            leds[l].lock # NoLock /\ <<leds'[l].phys, leds'[l].lock>> # <<leds[l].phys, leds[l].lock>>
               => ClientRequest \/ FlashTimeout(l, Ctl!LOCKED)]_daemonVars
  BY DaemonStepIsQuiet
<1>3. QED
  BY <1>1, <1>2, DaemonInitIsQuiet, PTL DEF DaemonSpec, PatternsLeaveLockedLedsAlone

------------------------------------------------------------------------------
(***************************************************************************)
(* The steps that playing patterns are at, beside the record of one LED:   *)
(* what a step does to the LED and what a handler does to the queue go     *)
(* together, although a handler performs the steps of several patterns.    *)
(* A relation between the two that every single step keeps is kept by all  *)
(* the handlers of the player.                                             *)
(***************************************************************************)
CurrentSteps(queue) == {<<queue[i].pattern, queue[i].next>> : i \in DOMAIN queue}

PatternsOf(A) == {x[1] : x \in A}

Without(A, P) == {x \in A : x[1] \notin P}

WithStep(A, p, n) == Without(A, {p}) \cup {<<p, n>>}

Apart(A, p) == \A x \in Without(A, {p}) : Disjoint(x[1], p)

KeptBySteps(G, l) ==
    \A A \in SUBSET Steps, r \in Led!LedType : <<A, r>> \in G =>
        /\ \A P \in SUBSET Patterns :
              (\A p \in P : ~ HasLeds(p, End(p))) => <<Without(A, P), r>> \in G
        /\ \A p \in Patterns : Apart(A, p) =>
              /\ <<Without(A, {p}), PerformStep(r, l, p, End(p), TRUE)>> \in G
              /\ <<WithStep(A, p, Start), PerformStep(r, l, p, Start, TRUE)>> \in G
              /\ p \in PatternsOf(A) => \A n \in 1 .. NumSteps(p) :
                    <<WithStep(A, p, n), PerformStep(r, l, p, n, TRUE)>> \in G

(* The relation holds in the middle of a handler that found r.               *)
HoldsIn(G, l, r, h) ==
    <<CurrentSteps(h.queue), PerformSteps(r, l, h.did, {}, TRUE)>> \in G

LEMMA CurrentStepsType ==
    ASSUME NEW queue, QueueInv(queue)
    PROVE  /\ CurrentSteps(queue) \in SUBSET Steps
           /\ PatternsOf(CurrentSteps(queue)) = PlayersOf(queue)
           /\ \A p \in PlayersOf(queue) : Apart(CurrentSteps(queue), p)
<1>1. queue \in Seq(Contexts)
  BY DEF QueueInv
<1>2. ASSUME NEW i \in DOMAIN queue
      PROVE  <<queue[i].pattern, queue[i].next>> \in Steps
  <2>1. ContextInv(queue[i])
    BY DEF QueueInv
  <2>2. /\ queue[i].pattern \in Patterns /\ queue[i].next \in Nat
        /\ queue[i].next <= NumSteps(queue[i].pattern)
    BY <2>1 DEF ContextInv, Contexts
  <2>3. queue[i].next \in 0 .. End(queue[i].pattern)
    BY <2>2, StepsCount
  <2>4. QED
    BY <2>2, <2>3, StepOfPattern
<1>3. CurrentSteps(queue) \in SUBSET Steps
  BY <1>2 DEF CurrentSteps
<1>4. PatternsOf(CurrentSteps(queue)) = PlayersOf(queue)
  <2>1. ASSUME NEW x \in PatternsOf(CurrentSteps(queue)) PROVE x \in PlayersOf(queue)
    <3>1. PICK y \in CurrentSteps(queue) : x = y[1]
      BY DEF PatternsOf
    <3>2. PICK i \in DOMAIN queue : y = <<queue[i].pattern, queue[i].next>>
      BY DEF CurrentSteps
    <3>3. QED
      BY <3>1, <3>2 DEF PlayersOf
  <2>2. ASSUME NEW x \in PlayersOf(queue) PROVE x \in PatternsOf(CurrentSteps(queue))
    <3>1. PICK i \in DOMAIN queue : x = queue[i].pattern
      BY DEF PlayersOf
    <3> DEFINE y == <<queue[i].pattern, queue[i].next>>
    <3>2. y \in CurrentSteps(queue) /\ y[1] = x
      BY <3>1 DEF CurrentSteps
    <3> HIDE DEF y
    <3>3. QED
      BY <3>2 DEF PatternsOf
  <2>3. QED
    BY <2>1, <2>2
<1>5. ASSUME NEW p \in PlayersOf(queue), NEW x \in CurrentSteps(queue), x[1] # p
      PROVE  Disjoint(x[1], p)
  <2>1. PICK i \in DOMAIN queue : x = <<queue[i].pattern, queue[i].next>>
    BY <1>5 DEF CurrentSteps
  <2>2. PICK j \in DOMAIN queue : p = queue[j].pattern
    BY <1>5 DEF PlayersOf
  <2>3. x[1] = queue[i].pattern /\ i # j
    BY <1>5, <2>1, <2>2
  <2>4. QED
    BY <2>2, <2>3 DEF QueueInv
<1>6. QED
  BY <1>3, <1>4, <1>5 DEF Apart, Without

(* The same for writes that succeed                                          *)
LEMMA PerformNext ==
    ASSUME NEW r \in Led!LedType, NEW l \in LEDs, NEW steps \in Seq(Steps),
           NEW p \in Patterns, NEW n \in Start .. End(p)
    PROVE  /\ PerformSteps(r, l, <<>>, {}, TRUE) = r
           /\ PerformSteps(r, l, steps, {}, TRUE) \in Led!LedType
           /\ PerformSteps(r, l, Append(steps, <<p, n>>), {}, TRUE) =
                 PerformStep(PerformSteps(r, l, steps, {}, TRUE), l, p, n, TRUE)
<1>1. \A ok \in BOOLEAN :
         /\ PerformSteps(r, l, <<>>, {}, ok) = r
         /\ PerformSteps(r, l, steps, {}, ok) \in Led!LedType
         /\ PerformSteps(r, l, Append(steps, <<p, n>>), {}, ok) =
               PerformStep(PerformSteps(r, l, steps, {}, ok), l, p, n, ok)
  BY PerformStepsAppend
<1>2. QED
  BY <1>1

(* Several more steps, after the others                                      *)
LEMMA PerformMore ==
    ASSUME NEW l \in LEDs, NEW r \in Led!LedType, NEW did \in Seq(Steps),
           NEW more \in Seq(Steps), NEW H,
           <<0, PerformSteps(r, l, did, {}, TRUE)>> \in H,
           \A j \in 1 .. Len(more), q \in Led!LedType :
              <<j - 1, q>> \in H =>
                 <<j, PerformStep(q, l, more[j][1], more[j][2], TRUE)>> \in H
    PROVE  <<Len(more), PerformSteps(r, l, did \o more, {}, TRUE)>> \in H
<1> DEFINE m == Len(more)
           part(j) == did \o SubSeq(more, 1, j)
           Holds(j) == <<j, PerformSteps(r, l, part(j), {}, TRUE)>> \in H
           T == {j \in 0 .. m : Holds(j)}
<1>1. /\ m \in Nat /\ DOMAIN more = 1 .. m
      /\ \A j \in 1 .. m : more[j] \in Steps /\ j - 1 \in Nat
  OBVIOUS
<1>2. part(0) = did /\ part(m) = did \o more
  <2>1. SubSeq(more, 1, 0) = <<>> /\ SubSeq(more, 1, m) = more
    OBVIOUS
  <2>2. did \o <<>> = did
    OBVIOUS
  <2>3. QED
    BY <2>1, <2>2
<1>3. ASSUME NEW j \in 1 .. m
      PROVE  part(j - 1) \in Seq(Steps) /\ part(j) = Append(part(j - 1), more[j])
  <2> DEFINE s == SubSeq(more, 1, j - 1)
  <2>1. s \in Seq(Steps)
    OBVIOUS
  <2>2. SubSeq(more, 1, j) = Append(s, more[j])
    OBVIOUS
  <2>3. more[j] \in Steps
    BY <1>1
  <2> HIDE DEF s
  <2>4. did \o Append(s, more[j]) = Append(did \o s, more[j]) /\ did \o s \in Seq(Steps)
    BY <2>1, <2>3
  <2>5. QED
    BY <2>2, <2>4 DEF s
<1> HIDE DEF part, m
<1>4. Holds(0)
  BY <1>2
<1>5. ASSUME NEW j \in 1 .. m, Holds(j - 1) PROVE Holds(j)
  <2>1. PICK p \in Patterns : more[j] \in {p} \X (Start .. End(p))
    BY <1>1 DEF Steps
  <2>2. PICK n \in Start .. End(p) : more[j] = <<p, n>>
    BY <2>1
  <2> DEFINE s == part(j - 1)
             q == PerformSteps(r, l, s, {}, TRUE)
             y == PerformStep(q, l, p, n, TRUE)
  <2>3. s \in Seq(Steps) /\ part(j) = Append(s, <<p, n>>)
    BY <1>3, <2>2
  <2>4. <<j - 1, q>> \in H
    BY <1>5
  <2> HIDE DEF s
  <2>5. q \in Led!LedType /\ PerformSteps(r, l, Append(s, <<p, n>>), {}, TRUE) = y
    BY <2>3, PerformNext
  <2> HIDE DEF q
  <2>6. more[j][1] = p /\ more[j][2] = n
    <3> DEFINE e == <<p, n>>
    <3>1. e[1] = p /\ e[2] = n
      OBVIOUS
    <3>2. more[j] = e
      BY <2>2
    <3> HIDE DEF e
    <3>3. QED
      BY <3>1, <3>2
  <2> HIDE DEF y
  <2>7. <<j, y>> \in H
    BY <2>4, <2>5, <2>6 DEF m, y
  <2>8. QED
    BY <2>3, <2>5, <2>7
<1>6. Holds(m)
  <2> HIDE DEF Holds
  <2>1. 0 \in T /\ \A j \in 1 .. m : j - 1 \in T => j \in T
    BY <1>1, <1>4, <1>5
  <2>2. T \in SUBSET (0 .. m)
    OBVIOUS
  <2> HIDE DEF T
  <2>3. T = 0 .. m
    BY <1>1, <2>1, <2>2, Induction
  <2>4. m \in T
    BY <1>1, <2>3
  <2>5. QED
    BY <2>4 DEF T
<1>7. QED
  BY <1>2, <1>6 DEF m

(* The steps that are current once patterns have stopped, gone on or started *)
LEMMA StoppedSteps ==
    ASSUME NEW queue, QueueInv(queue), NEW P
    PROVE  CurrentSteps(Select(queue, Patterns \ P)) = Without(CurrentSteps(queue), P)
<1> DEFINE s == Select(queue, Patterns \ P)
<1>1. queue \in Seq(Contexts) /\ Distinct(queue)
  BY DEF QueueInv
<1>2. /\ \A k \in DOMAIN s : \E i \in DOMAIN queue :
            s[k] = queue[i] /\ queue[i].pattern \in Patterns \ P
      /\ \A i \in DOMAIN queue : queue[i].pattern \in Patterns \ P =>
            \E k \in DOMAIN s : s[k] = queue[i]
  <2>1. ASSUME NEW K
        PROVE  /\ \A k \in DOMAIN Select(queue, K) : \E i \in DOMAIN queue :
                      Select(queue, K)[k] = queue[i] /\ queue[i].pattern \in K
               /\ \A i \in DOMAIN queue : queue[i].pattern \in K =>
                      \E k \in DOMAIN Select(queue, K) : Select(queue, K)[k] = queue[i]
    BY <1>1, SelectFacts, SMTT(30)
  <2>2. QED
    BY <2>1
<1>3. \A i \in DOMAIN queue : queue[i].pattern \in Patterns
  BY <1>1, ElementOfQueue
<1> HIDE DEF s
<1>4. ASSUME NEW x \in CurrentSteps(s) PROVE x \in Without(CurrentSteps(queue), P)
  <2>1. PICK k \in DOMAIN s : x = <<s[k].pattern, s[k].next>>
    BY DEF CurrentSteps
  <2>2. PICK i \in DOMAIN queue : s[k] = queue[i] /\ queue[i].pattern \in Patterns \ P
    BY <1>2
  <2>3. x = <<queue[i].pattern, queue[i].next>> /\ x[1] \notin P
    BY <2>1, <2>2
  <2>4. QED
    BY <2>3 DEF Without, CurrentSteps
<1>5. ASSUME NEW x \in Without(CurrentSteps(queue), P) PROVE x \in CurrentSteps(s)
  <2>1. PICK i \in DOMAIN queue : x = <<queue[i].pattern, queue[i].next>>
    BY DEF CurrentSteps, Without
  <2>2. queue[i].pattern \in Patterns \ P
    BY <1>3, <2>1 DEF Without
  <2>3. PICK k \in DOMAIN s : s[k] = queue[i]
    BY <1>2, <2>2
  <2>4. x = <<s[k].pattern, s[k].next>>
    BY <2>1, <2>3
  <2>5. QED
    BY <2>4 DEF CurrentSteps
<1>6. QED
  BY <1>4, <1>5 DEF s

LEMMA UpdatedSteps ==
    ASSUME NEW queue, NEW c, c.pattern \in PlayersOf(queue)
    PROVE  CurrentSteps(Updated(queue, c)) = WithStep(CurrentSteps(queue), c.pattern, c.next)
<1> DEFINE u == Updated(queue, c)
           p == c.pattern
<1>1. /\ DOMAIN u = DOMAIN queue
      /\ \A i \in DOMAIN queue : u[i] = IF queue[i].pattern = p THEN c ELSE queue[i]
  BY DEF Updated
<1>2. PICK j \in DOMAIN queue : queue[j].pattern = p
  BY DEF PlayersOf
<1> HIDE DEF u
<1>3. ASSUME NEW x \in CurrentSteps(u) PROVE x \in WithStep(CurrentSteps(queue), p, c.next)
  <2>1. PICK i \in DOMAIN queue : x = <<u[i].pattern, u[i].next>>
    BY <1>1 DEF CurrentSteps
  <2>2. CASE queue[i].pattern = p
    <3>1. x = <<p, c.next>>
      BY <1>1, <2>1, <2>2
    <3>2. QED
      BY <3>1 DEF WithStep
  <2>3. CASE queue[i].pattern # p
    <3>1. x = <<queue[i].pattern, queue[i].next>> /\ x[1] # p
      BY <1>1, <2>1, <2>3
    <3>2. QED
      BY <3>1 DEF WithStep, Without, CurrentSteps
  <2>4. QED
    BY <2>2, <2>3
<1>4. ASSUME NEW x \in WithStep(CurrentSteps(queue), p, c.next) PROVE x \in CurrentSteps(u)
  <2>1. CASE x = <<p, c.next>>
    <3>1. x = <<u[j].pattern, u[j].next>>
      BY <1>1, <1>2, <2>1
    <3>2. QED
      BY <1>1, <3>1 DEF CurrentSteps
  <2>2. CASE x \in Without(CurrentSteps(queue), {p})
    <3>1. PICK i \in DOMAIN queue : x = <<queue[i].pattern, queue[i].next>>
      BY <2>2 DEF Without, CurrentSteps
    <3>2. queue[i].pattern # p
      BY <2>2, <3>1 DEF Without
    <3>3. x = <<u[i].pattern, u[i].next>>
      BY <1>1, <3>1, <3>2
    <3>4. QED
      BY <1>1, <3>3 DEF CurrentSteps
  <2>3. QED
    BY <2>1, <2>2 DEF WithStep
<1>5. QED
  BY <1>3, <1>4 DEF u

LEMMA AppendedSteps ==
    ASSUME NEW queue \in Seq(Contexts), NEW c \in Contexts, c.pattern \notin PlayersOf(queue)
    PROVE  CurrentSteps(Append(queue, c)) = WithStep(CurrentSteps(queue), c.pattern, c.next)
<1> DEFINE a == Append(queue, c)
           last == Len(queue) + 1
           p == c.pattern
<1>1. /\ DOMAIN a = DOMAIN queue \cup {last} /\ a[last] = c
      /\ \A i \in DOMAIN queue : i # last /\ a[i] = queue[i]
  BY AppendFacts
<1> HIDE DEF a, last
<1>2. ASSUME NEW x \in CurrentSteps(a) PROVE x \in WithStep(CurrentSteps(queue), p, c.next)
  <2>1. PICK i \in DOMAIN a : x = <<a[i].pattern, a[i].next>>
    BY DEF CurrentSteps
  <2>2. CASE i = last
    BY <1>1, <2>1, <2>2 DEF WithStep
  <2>3. CASE i \in DOMAIN queue
    <3>1. x = <<queue[i].pattern, queue[i].next>> /\ x[1] # p
      BY <1>1, <2>1, <2>3 DEF PlayersOf
    <3>2. QED
      BY <2>3, <3>1 DEF WithStep, Without, CurrentSteps
  <2>4. QED
    BY <1>1, <2>2, <2>3
<1>3. ASSUME NEW x \in WithStep(CurrentSteps(queue), p, c.next) PROVE x \in CurrentSteps(a)
  <2>1. CASE x = <<p, c.next>>
    <3>1. x = <<a[last].pattern, a[last].next>> /\ last \in DOMAIN a
      BY <1>1, <2>1
    <3>2. QED
      BY <3>1 DEF CurrentSteps
  <2>2. CASE x \in Without(CurrentSteps(queue), {p})
    <3>1. PICK i \in DOMAIN queue : x = <<queue[i].pattern, queue[i].next>>
      BY <2>2 DEF Without, CurrentSteps
    <3>2. x = <<a[i].pattern, a[i].next>> /\ i \in DOMAIN a
      BY <1>1, <3>1
    <3>3. QED
      BY <3>2 DEF CurrentSteps
  <2>3. QED
    BY <2>1, <2>2 DEF WithStep
<1>4. QED
  BY <1>2, <1>3 DEF a

(* led_pattern_stop keeps the relation, whichever patterns it stops.         *)
EndSteps(queue) == [i \in DOMAIN queue |-> <<queue[i].pattern, End(queue[i].pattern)>>]

LEMMA StopKeeps ==
    ASSUME NEW l \in LEDs, NEW r \in Led!LedType, NEW G, KeptBySteps(G, l),
           NEW h, QueueInv(h.queue), h.did \in Seq(Steps), HoldsIn(G, l, r, h), NEW P
    PROVE  HoldsIn(G, l, r, StopPatterns(h, P))
<1> DEFINE A == CurrentSteps(h.queue)
           E == {p \in P : HasLeds(p, End(p))}
           ended == Select(h.queue, E)
           more == EndSteps(ended)
           m == Len(ended)
           Stopped(j) == {ended[i].pattern : i \in 1 .. j}
           H == {x \in Nat \X Led!LedType : <<Without(A, Stopped(x[1])), x[2]>> \in G}
<1>1. /\ h.queue \in Seq(Contexts) /\ Distinct(h.queue)
      /\ A \in SUBSET Steps /\ PatternsOf(A) = PlayersOf(h.queue)
      /\ \A p \in PlayersOf(h.queue) : Apart(A, p)
  BY CurrentStepsType DEF QueueInv
<1>2. E \subseteq P /\ \A p \in P \ E : ~ HasLeds(p, End(p))
  OBVIOUS
<1> HIDE DEF A, E
<1>3. /\ ended \in Seq(Contexts)
      /\ \A k \in DOMAIN ended : \E i \in DOMAIN h.queue :
            ended[k] = h.queue[i] /\ h.queue[i].pattern \in E
      /\ \A i \in DOMAIN h.queue : h.queue[i].pattern \in E =>
            \E k \in DOMAIN ended : ended[k] = h.queue[i]
  <2> DEFINE queue == h.queue
  <2>1. queue \in Seq(Contexts) /\ Distinct(queue)
    BY <1>1
  <2> HIDE DEF queue
  <2>2. /\ Select(queue, E) \in Seq(Contexts)
        /\ \A k \in DOMAIN Select(queue, E) : \E i \in DOMAIN queue :
              Select(queue, E)[k] = queue[i] /\ queue[i].pattern \in E
        /\ \A i \in DOMAIN queue : queue[i].pattern \in E =>
              \E k \in DOMAIN Select(queue, E) : Select(queue, E)[k] = queue[i]
    BY <2>1, SelectFacts
  <2>3. QED
    BY <2>2 DEF queue
<1>4. /\ StopPatterns(h, P).queue = Select(h.queue, Patterns \ P)
      /\ StopPatterns(h, P).did = h.did \o more
  BY DEF StopPatterns, EndSteps, E
<1>5. CurrentSteps(Select(h.queue, Patterns \ P)) = Without(A, P)
  BY StoppedSteps DEF A
<1> HIDE DEF ended
<1>6. m \in Nat /\ DOMAIN ended = 1 .. m
  BY <1>3
<1>7. \A k \in 1 .. m : ended[k].pattern \in PlayersOf(h.queue) \cap E
  BY <1>3, <1>6 DEF PlayersOf
<1>8. \A p \in PlayersOf(h.queue) \cap E : \E k \in 1 .. m : ended[k].pattern = p
  BY <1>3, <1>6 DEF PlayersOf
<1>9. PlayersOf(h.queue) \subseteq Patterns
  BY <1>1, ElementOfQueue DEF PlayersOf
<1> HIDE DEF m
<1>10. \A i \in 1 .. m : LET p == ended[i].pattern
                         IN  /\ p \in Patterns /\ <<p, End(p)>> \in Steps
                             /\ End(p) \in Start .. End(p)
  <2> SUFFICES ASSUME NEW i \in 1 .. m
               PROVE  LET p == ended[i].pattern
                      IN  /\ p \in Patterns /\ <<p, End(p)>> \in Steps
                          /\ End(p) \in Start .. End(p)
    OBVIOUS
  <2> DEFINE p == ended[i].pattern
  <2>1. p \in Patterns
    BY <1>7, <1>9
  <2> HIDE DEF p
  <2>2. End(p) \in 0 .. End(p)
    BY <2>1, StepsCount
  <2>3. QED
    BY <2>1, <2>2, StepOfPattern DEF p, Start
<1>11. /\ more \in Seq(Steps) /\ Len(more) = m
       /\ \A i \in 1 .. m : more[i] = <<ended[i].pattern, End(ended[i].pattern)>>
  <2>1. more = [i \in 1 .. m |-> <<ended[i].pattern, End(ended[i].pattern)>>]
    BY <1>6 DEF EndSteps
  <2>2. \A i \in 1 .. m : <<ended[i].pattern, End(ended[i].pattern)>> \in Steps
    BY <1>10
  <2> DEFINE e(i) == <<ended[i].pattern, End(ended[i].pattern)>>
  <2>3. more = [i \in 1 .. m |-> e(i)] /\ \A i \in 1 .. m : e(i) \in Steps
    BY <2>1, <2>2
  <2> HIDE DEF e, more
  <2>4. more \in Seq(Steps) /\ Len(more) = m /\ \A i \in 1 .. m : more[i] = e(i)
    BY <1>6, <2>3
  <2>5. QED
    BY <2>4 DEF e
<1> HIDE DEF more
<1> DEFINE q0 == PerformSteps(r, l, h.did, {}, TRUE)
           q == PerformSteps(r, l, h.did \o more, {}, TRUE)
<1>12. <<0, q0>> \in H
  <2>1. Stopped(0) = {} /\ Without(A, {}) = A
    BY DEF Without
  <2>2. q0 \in Led!LedType
    BY PerformStepsType
  <2>3. <<A, q0>> \in G
    BY DEF HoldsIn, A
  <2> HIDE DEF q0, Stopped
  <2>4. QED
    BY <2>1, <2>2, <2>3
<1>13. ASSUME NEW j \in 1 .. m, NEW x \in Led!LedType, <<j - 1, x>> \in H
       PROVE  <<j, PerformStep(x, l, more[j][1], more[j][2], TRUE)>> \in H
  <2> DEFINE p == ended[j].pattern
             B == Without(A, Stopped(j - 1))
             y == PerformStep(x, l, p, End(p), TRUE)
  <2>1. p \in PlayersOf(h.queue) /\ p \in Patterns /\ End(p) \in Start .. End(p)
    BY <1>7, <1>10
  <2>2. Stopped(j) = Stopped(j - 1) \cup {p}
    BY <1>6
  <2>3. more[j][1] = p /\ more[j][2] = End(p)
    BY <1>11
  <2>4. j - 1 \in Nat /\ j \in Nat
    BY <1>6
  <2>5. <<B, x>> \in G
    BY <1>13
  <2> HIDE DEF Stopped, p
  <2>6. B \in SUBSET Steps /\ Apart(B, p)
    BY <1>1, <2>1 DEF Without, Apart
  <2>7. Without(B, {p}) = Without(A, Stopped(j))
    BY <2>2 DEF Without
  <2>8. y \in Led!LedType
    BY <2>1, PerformStepType
  <2> HIDE DEF B, y
  <2>9. <<Without(B, {p}), y>> \in G
    BY <1>13, <2>1, <2>5, <2>6 DEF KeptBySteps, y
  <2>10. <<j, y>> \in H
    BY <2>4, <2>7, <2>8, <2>9
  <2>11. QED
    BY <2>3, <2>10 DEF y
<1>14. <<m, q>> \in H
  <2> HIDE DEF H
  <2>1. <<Len(more), PerformSteps(r, l, h.did \o more, {}, TRUE)>> \in H
    BY <1>11, <1>12, <1>13, PerformMore
  <2>2. QED
    BY <1>11, <2>1
<1> DEFINE B == Without(A, Stopped(m))
           rest == (P \ E) \cap Patterns
<1>15. Without(B, rest) = Without(A, P) /\ B \in SUBSET Steps
  <2>1. Stopped(m) = PlayersOf(h.queue) \cap E
    BY <1>7, <1>8
  <2>2. (Stopped(m) \cup rest) \cap PatternsOf(A) = P \cap PatternsOf(A)
    BY <1>1, <1>2, <1>9, <2>1
  <2> HIDE DEF Stopped, rest
  <2>3. Without(B, rest) = Without(A, P)
    BY <1>1, <2>2 DEF Without, PatternsOf
  <2>4. B \in SUBSET Steps
    BY <1>1 DEF Without
  <2>5. QED
    BY <2>3, <2>4
<1>16. <<B, q>> \in G /\ q \in Led!LedType
  <2> HIDE DEF q, Stopped
  <2>1. QED
    BY <1>14
<1>17. rest \in SUBSET Patterns /\ \A p \in rest : ~ HasLeds(p, End(p))
  BY <1>2
<1> HIDE DEF B, q, rest
<1>18. <<Without(B, rest), q>> \in G
  BY <1>15, <1>16, <1>17 DEF KeptBySteps
<1>19. QED
  BY <1>4, <1>5, <1>15, <1>18 DEF HoldsIn, q

(* led_pattern_play_step, from steps A that were current when it began       *)
LEMMA PlayStepKeeps ==
    ASSUME NEW l \in LEDs, NEW r \in Led!LedType, NEW G, KeptBySteps(G, l),
           NEW h, h.did \in Seq(Steps), NEW c, Ready(c),
           QueueInv(Updated(h.queue, Played(c))),
           NEW A \in SUBSET Steps, Apart(A, c.pattern), c.pattern \in PatternsOf(A),
           CurrentSteps(Updated(h.queue, Played(c))) = WithStep(A, c.pattern, c.next + 1),
           <<A, PerformSteps(r, l, h.did, {}, TRUE)>> \in G
    PROVE  HoldsIn(G, l, r, PlayStep(h, c))
<1> DEFINE p == c.pattern
           n == c.next + 1
           q == PerformSteps(r, l, h.did, {}, TRUE)
           did == Append(h.did, <<p, n>>)
           played == [queue |-> Updated(h.queue, Played(c)), did |-> did]
<1>1. /\ p \in Patterns /\ c.next \in Nat /\ NumSteps(p) \in Nat /\ c.next < NumSteps(p)
      /\ End(p) = NumSteps(p) + 1
  BY StepsCount DEF Ready, Contexts
<1>2. n \in Start .. End(p) /\ n \in 1 .. NumSteps(p)
  BY <1>1 DEF Start
<1>3. PlayStep(h, c) = IF Step(p, n).timed THEN played ELSE StopPatterns(played, {p})
  BY DEF PlayStep, Played
<1>4. WithStep(A, p, n) = CurrentSteps(Updated(h.queue, Played(c)))
  OBVIOUS
<1> HIDE DEF n
<1>5. /\ q \in Led!LedType
      /\ PerformSteps(r, l, did, {}, TRUE) = PerformStep(q, l, p, n, TRUE)
  BY <1>1, <1>2, PerformNext
<1>6. <<A, q>> \in G /\ Apart(A, p) /\ p \in PatternsOf(A)
  OBVIOUS
<1> HIDE DEF p, q
<1>7. <<WithStep(A, p, n), PerformStep(q, l, p, n, TRUE)>> \in G
  BY <1>1, <1>2, <1>5, <1>6 DEF KeptBySteps
<1>8. did \in Seq(Steps)
  <2>1. <<p, n>> \in Steps
    BY <1>1, <1>2, StepOfPattern DEF Start
  <2>2. QED
    BY <2>1, AppendFacts
<1> HIDE DEF did
<1>9. /\ played.queue = Updated(h.queue, Played(c)) /\ played.did = did
  OBVIOUS
<1> HIDE DEF played
<1>10. HoldsIn(G, l, r, played)
  BY <1>4, <1>5, <1>7, <1>9 DEF HoldsIn
<1>11. HoldsIn(G, l, r, StopPatterns(played, {p}))
  BY <1>8, <1>9, <1>10, StopKeeps
<1>12. QED
  BY <1>3, <1>10, <1>11

(* pattern_context_initialise, led_pattern_start, led_pattern_play_start_step *)
LEMMA StartKeeps ==
    ASSUME NEW l \in LEDs, NEW r \in Led!LedType, NEW G, KeptBySteps(G, l),
           NEW h, QueueInv(h.queue), h.did \in Seq(Steps), HoldsIn(G, l, r, h),
           NEW p \in Patterns, p \notin PlayersOf(h.queue),
           \A q \in PlayersOf(h.queue) : Disjoint(q, p)
    PROVE  HoldsIn(G, l, r, StartPattern(h, p))
<1> DEFINE c == NewContext(p)
           waiting == HasLeds(p, Start) /\ Step(p, Start).timed
           first == [c EXCEPT !.timer = waiting]
           did == IF HasLeds(p, Start) THEN Append(h.did, <<p, Start>>) ELSE h.did
           started == [queue |-> Append(h.queue, first), did |-> did]
           A == CurrentSteps(h.queue)
           B == WithStep(A, p, Start)
           q == PerformSteps(r, l, h.did, {}, TRUE)
<1>1. /\ Ready(c) /\ c \in Contexts /\ c.pattern = p /\ c.next = 0 /\ c.timer = FALSE
      /\ h.queue \in Seq(Contexts)
  BY NewContextReady DEF Ready, NewContext, QueueInv
<1>2. StartPattern(h, p) = IF waiting THEN started ELSE PlayStep(started, c)
  BY DEF StartPattern
<1>3. first \in Contexts /\ first.pattern = p /\ first.next = Start
  <2>1. waiting \in BOOLEAN
    BY DEF HasLeds
  <2> HIDE DEF waiting, c
  <2>2. QED
    BY <1>1, <2>1 DEF Contexts, Start
<1>4. A \in SUBSET Steps /\ PatternsOf(A) = PlayersOf(h.queue)
  BY CurrentStepsType
<1>5. Apart(A, p)
  BY <1>4 DEF Apart, Without, PatternsOf
<1>6. /\ B \in SUBSET Steps /\ Apart(B, p) /\ p \in PatternsOf(B)
  <2>1. <<p, Start>> \in Steps
    BY StepsCount, StepOfPattern DEF Start
  <2>2. B \in SUBSET Steps /\ Apart(B, p)
    BY <1>4, <1>5, <2>1 DEF WithStep, Without, Apart
  <2>3. <<p, Start>> \in B /\ <<p, Start>>[1] = p
    BY DEF WithStep
  <2>4. QED
    BY <2>2, <2>3 DEF PatternsOf
<1>7. q \in Led!LedType
  BY PerformStepsType
<1>8. did \in Seq(Steps) /\ PerformSteps(r, l, did, {}, TRUE) = PerformStep(q, l, p, Start, TRUE)
  <2>1. Start \in Start .. End(p)
    BY StepsCount DEF Start
  <2>2. CASE HasLeds(p, Start)
    <3>1. <<p, Start>> \in Steps
      BY <2>1, StepOfPattern DEF Start
    <3>2. did = Append(h.did, <<p, Start>>)
      BY <2>2
    <3>3. did \in Seq(Steps)
      BY <3>1, <3>2, AppendFacts
    <3> HIDE DEF did
    <3>4. PerformSteps(r, l, Append(h.did, <<p, Start>>), {}, TRUE) = PerformStep(q, l, p, Start, TRUE)
      BY <2>1, PerformNext
    <3>5. QED
      BY <3>2, <3>3, <3>4
  <2>3. CASE ~ HasLeds(p, Start)
    <3>1. \A ok \in BOOLEAN : PerformStep(q, l, p, Start, ok) = q
      <4> HIDE DEF q
      <4>1. QED
        BY <1>7, <2>1, <2>3, PerformStepEmpty
    <3>2. PerformStep(q, l, p, Start, TRUE) = q
      BY <3>1
    <3>3. QED
      BY <2>3, <3>2
  <2>4. QED
    BY <2>2, <2>3
<1>9. <<B, PerformSteps(r, l, did, {}, TRUE)>> \in G
  <2>1. <<A, q>> \in G
    BY DEF HoldsIn
  <2> HIDE DEF A, q, did
  <2>2. QED
    BY <1>4, <1>5, <1>7, <1>8, <2>1 DEF KeptBySteps
<1> HIDE DEF first, did, c, waiting
<1>10. CASE waiting
  <2>1. StartPattern(h, p) = started
    BY <1>2, <1>10
  <2>2. CurrentSteps(Append(h.queue, first)) = B
    <3>1. first.pattern \notin PlayersOf(h.queue)
      BY <1>3
    <3>2. CurrentSteps(Append(h.queue, first)) = WithStep(A, first.pattern, first.next)
      BY <1>1, <1>3, <3>1, AppendedSteps
    <3>3. QED
      BY <1>3, <3>2
  <2>3. started.queue = Append(h.queue, first) /\ started.did = did
    OBVIOUS
  <2> HIDE DEF B, started
  <2>4. <<CurrentSteps(started.queue), PerformSteps(r, l, started.did, {}, TRUE)>> \in G
    BY <1>9, <2>2, <2>3
  <2>5. QED
    BY <2>1, <2>4 DEF HoldsIn
<1>11. CASE ~ waiting
  <2> DEFINE d == Played(c)
             n == c.next + 1
  <2>1. ContextInv(d) /\ d.pattern = p /\ d.next = n /\ d \in Contexts
    <3>1. ContextInv(d) /\ d.pattern = p
      BY <1>1, PlayedInv
    <3>2. d.next = n
      BY <1>1 DEF Played, Contexts
    <3>3. QED
      BY <3>1, <3>2 DEF ContextInv
  <2> HIDE DEF d
  <2>2. Updated(Append(h.queue, first), d) = Append(h.queue, d)
    BY <1>1, <1>3, <2>1, UpdatedLast
  <2>3. QueueInv(Append(h.queue, d))
    BY <2>1, AppendedQueue
  <2>4. CurrentSteps(Append(h.queue, d)) = WithStep(A, p, n)
    BY <1>1, <2>1, AppendedSteps
  <2>5. WithStep(A, p, n) = WithStep(B, p, n)
    BY DEF WithStep, Without
  <2>6. started.queue = Append(h.queue, first) /\ started.did = did
    OBVIOUS
  <2> HIDE DEF B, A, started
  <2>7. HoldsIn(G, l, r, PlayStep(started, c))
    <3>1. QueueInv(Updated(started.queue, Played(c)))
      BY <2>2, <2>3, <2>6 DEF d
    <3>2. CurrentSteps(Updated(started.queue, Played(c))) = WithStep(B, c.pattern, c.next + 1)
      BY <1>1, <2>2, <2>4, <2>5, <2>6 DEF d
    <3>3. started.did \in Seq(Steps) /\ <<B, PerformSteps(r, l, started.did, {}, TRUE)>> \in G
      BY <1>8, <1>9, <2>6
    <3>4. Ready(c) /\ Apart(B, c.pattern) /\ c.pattern \in PatternsOf(B) /\ B \in SUBSET Steps
      BY <1>1, <1>6
    <3> HIDE DEF n
    <3>5. QED
      BY <3>1, <3>2, <3>3, <3>4, PlayStepKeeps
  <2>8. QED
    BY <1>2, <1>11, <2>7
<1>12. QED
  BY <1>10, <1>11

(* The handlers of the player begin with the steps that are current.         *)
LEMMA BeginHolds ==
    ASSUME PlayerInv, NEW l \in LEDs, NEW r \in Led!LedType, NEW G,
           <<CurrentSteps(playing), r>> \in G, NEW p \in Patterns
    PROVE  /\ HoldsIn(G, l, r, Begin)
           /\ QueueInv(Begin.queue) /\ Begin.did \in Seq(Steps)
<1>1. QueueInv(playing) /\ Begin.queue = playing /\ Begin.did = <<>> /\ Begin.did \in Seq(Steps)
  BY PlayersAreKnown
<1>2. Start \in Start .. End(p) /\ <<>> \in Seq(Steps)
  BY StepsCount DEF Start
<1>3. PerformSteps(r, l, <<>>, {}, TRUE) = r
  BY <1>2, PerformNext
<1>4. QED
  BY <1>1, <1>3 DEF HoldsIn

LEMMA HandlersKeep ==
    ASSUME PlayerInv, Request \/ \E p \in Patterns : Timeout(p),
           NEW l \in LEDs, NEW r \in Led!LedType, NEW G, KeptBySteps(G, l),
           <<CurrentSteps(playing), r>> \in G
    PROVE  <<CurrentSteps(playing'), PerformSteps(r, l, performed', {}, TRUE)>> \in G
<1> DEFINE Done == <<CurrentSteps(playing'), PerformSteps(r, l, performed', {}, TRUE)>> \in G
<1>1. ASSUME NEW h, HoldsIn(G, l, r, h), Finish(h) PROVE Done
  <2>1. playing' = h.queue /\ performed' = h.did
    BY <1>1 DEF Finish
  <2>2. QED
    BY <1>1, <2>1 DEF HoldsIn
<1> HIDE DEF Done
<1>2. ASSUME NEW p \in Patterns, Play(p) PROVE Done
  <2> DEFINE h == StopPatterns(Begin, Rivals(p))
  <2>1. HoldsIn(G, l, r, Begin) /\ QueueInv(Begin.queue) /\ Begin.did \in Seq(Steps)
    BY BeginHolds
  <2>2. HoldsIn(G, l, r, h)
    BY <2>1, StopKeeps
  <2>3. /\ QueueInv(h.queue) /\ PlayersOf(h.queue) = PlayersOf(Begin.queue) \ Rivals(p)
        /\ Extends(Begin.did, h.did, PlayersOf(Begin.queue) \cap Rivals(p))
    BY <2>1, StopFacts
  <2>4. h.did \in Seq(Steps)
    BY <2>3 DEF Extends
  <2>5. /\ PlayersOf(Begin.queue) = Playing /\ Playing \subseteq Patterns
        /\ p \notin Playing /\ Finish(StartPattern(h, p))
    BY <1>2, PlayersAreKnown DEF Play
  <2> HIDE DEF h
  <2>6. ASSUME NEW q \in PlayersOf(h.queue) PROVE Disjoint(q, p)
    <3>1. q \in Patterns /\ ~ PatternsShareLeds(q, p)
      BY <2>3, <2>5 DEF Rivals, Sharing
    <3>2. QED
      BY <3>1, PatternsCompared DEF Disjoint
  <2>7. HoldsIn(G, l, r, StartPattern(h, p))
    BY <2>2, <2>3, <2>4, <2>5, <2>6, StartKeeps
  <2>8. QED
    BY <1>1, <2>5, <2>7
<1>3. ASSUME NEW p \in Patterns, Retrigger(p) PROVE Done
  <2> DEFINE c == ContextOf(p)
             d == [c EXCEPT !.times = 0, !.plays = Uncounted]
  <2>1. p \in Playing /\ playing' = Updated(playing, d) /\ performed' = <<>>
    BY <1>3 DEF Retrigger
  <2>2. ContextInv(c) /\ c.pattern = p /\ c \in Contexts
    BY <2>1, ContextOfPlaying DEF ContextInv
  <2> DEFINE i == CHOOSE i \in DOMAIN playing : playing[i].pattern = p
  <2>3. i \in DOMAIN playing /\ playing[i].pattern = p /\ c = playing[i]
    BY <2>1 DEF Playing, ContextOf
  <2> HIDE DEF c, i
  <2>4. d.pattern = p /\ d.next = c.next
    BY <2>2 DEF Contexts
  <2> HIDE DEF d
  <2>5. /\ DOMAIN playing' = DOMAIN playing
        /\ \A j \in DOMAIN playing : playing'[j] = IF playing[j].pattern = p THEN d ELSE playing[j]
    BY <2>1, <2>4 DEF Updated
  <2>6. \A j \in DOMAIN playing : playing[j].pattern = p => j = i
    BY <2>3 DEF PlayerInv, QueueInv, Distinct
  <2>7. \A j \in DOMAIN playing :
           playing'[j].pattern = playing[j].pattern /\ playing'[j].next = playing[j].next
    BY <2>3, <2>4, <2>5, <2>6
  <2>8. CurrentSteps(playing') = CurrentSteps(playing)
    BY <2>5, <2>7 DEF CurrentSteps
  <2>9. PerformSteps(r, l, <<>>, {}, TRUE) = r
    <3>1. Start \in Start .. End(p) /\ <<>> \in Seq(Steps)
      BY StepsCount DEF Start
    <3>2. QED
      BY <3>1, PerformNext
  <2>10. QED
    BY <2>1, <2>8, <2>9 DEF Done
<1>4. ASSUME NEW p \in Patterns, Finish(StopPatterns(Begin, {p})) PROVE Done
  <2>1. HoldsIn(G, l, r, Begin) /\ QueueInv(Begin.queue) /\ Begin.did \in Seq(Steps)
    BY BeginHolds
  <2>2. HoldsIn(G, l, r, StopPatterns(Begin, {p}))
    BY <2>1, StopKeeps
  <2>3. QED
    BY <1>1, <1>4, <2>2
<1>5. ASSUME NEW p \in Patterns, Timeout(p) PROVE Done
  <2> DEFINE c == Counted(ContextOf(p))
  <2>1. /\ p \in Playing
        /\ Finish(IF PlaysOn(c) THEN PlayStep(Begin, c) ELSE StopPatterns(Begin, {p}))
    BY <1>5 DEF Timeout
  <2>2. /\ ContextInv(ContextOf(p)) /\ c.pattern = p
        /\ PlaysOn(c) => Ready(c)
    BY <2>1, ContextOfPlaying, CountedFacts
  <2> HIDE DEF c
  <2>3. CASE ~ PlaysOn(c)
    <3>1. Finish(StopPatterns(Begin, {p}))
      BY <2>1, <2>3
    <3>2. QED
      BY <1>4, <3>1
  <2>4. CASE PlaysOn(c)
    <3> DEFINE A == CurrentSteps(playing)
    <3>1. Finish(PlayStep(Begin, c)) /\ Ready(c) /\ c.pattern = p
      BY <2>1, <2>2, <2>4
    <3>2. ContextInv(Played(c)) /\ Played(c).pattern = p /\ Played(c).next = c.next + 1
      <4>1. ContextInv(Played(c)) /\ Played(c).pattern = p
        BY <3>1, PlayedInv
      <4>2. Played(c).next = c.next + 1
        BY <3>1 DEF Played, Ready, Contexts
      <4>3. QED
        BY <4>1, <4>2
    <3>3. /\ QueueInv(playing) /\ Begin.queue = playing /\ p \in PlayersOf(playing)
          /\ Begin.did \in Seq(Steps) /\ HoldsIn(G, l, r, Begin)
      BY <2>1, PlayersAreKnown, BeginHolds
    <3>4. QueueInv(Updated(Begin.queue, Played(c)))
      BY <3>2, <3>3, UpdatedQueue
    <3>5. CurrentSteps(Updated(Begin.queue, Played(c))) = WithStep(A, c.pattern, c.next + 1)
      <4> DEFINE d == Played(c)
      <4>1. d.pattern \in PlayersOf(playing) /\ d.pattern = c.pattern /\ d.next = c.next + 1
        BY <3>1, <3>2, <3>3
      <4> HIDE DEF d
      <4>2. CurrentSteps(Updated(playing, d)) = WithStep(A, d.pattern, d.next)
        BY <4>1, UpdatedSteps
      <4>3. QED
        BY <3>3, <4>1, <4>2 DEF d
    <3>6. A \in SUBSET Steps /\ Apart(A, c.pattern) /\ c.pattern \in PatternsOf(A)
      BY <3>1, <3>3, CurrentStepsType
    <3>7. <<A, PerformSteps(r, l, Begin.did, {}, TRUE)>> \in G
      BY <3>3 DEF HoldsIn
    <3> HIDE DEF A
    <3>8. HoldsIn(G, l, r, PlayStep(Begin, c))
      BY <3>1, <3>3, <3>4, <3>5, <3>6, <3>7, PlayStepKeeps
    <3>9. QED
      BY <1>1, <3>1, <3>8
  <2>5. QED
    BY <2>3, <2>4
<1>6. ASSUME NEW p \in Patterns, Stop(p) PROVE Done
  BY <1>4, <1>6 DEF Stop
<1>7. Done
  BY <1>2, <1>3, <1>5, <1>6 DEF Request
<1>8. QED
  BY <1>7 DEF Done

------------------------------------------------------------------------------
(* What a LED of a step brings about: each of its operations leads from one  *)
(* set of records into the next, and the last set is where the LED ends.     *)
Leads(C0, C1, C2, C3, e, starting, stopping, ok) ==
    /\ C1 \subseteq C0 /\ C2 \subseteq C1 /\ C3 \subseteq C2
    /\ IF starting /\ Activates(e)
       THEN \A q \in C0 : Led!ActivateLed(q, e.priority, ok) \in C1
       ELSE C0 = C1
    /\ IF e.state # Led!UNKNOWN
       THEN \A q \in C1 : Led!SetLed(q, StepRequest(e), ok) \in C2
       ELSE C1 = C2
    /\ IF stopping /\ Activates(e)
       THEN \A q \in C2 : Led!DeactivateLed(q, e.priority, ok) \in C3
       ELSE C2 = C3

LEMMA PerformLedEnters ==
    ASSUME NEW e, NEW starting, NEW stopping, NEW ok, NEW C0, NEW C1, NEW C2, NEW C3,
           Leads(C0, C1, C2, C3, e, starting, stopping, ok),
           NEW r \in C0, NEW l \in LEDs, Reaches(e, l)
    PROVE  PerformLed(r, l, e, starting, stopping, ok) \in C3
<1> DEFINE visits == Ctl!Visits(e.name, l)
           Twice(q, once, twice) ==
              CASE visits = 0 -> q [] visits = 1 -> once [] visits = 2 -> twice
           A(q) == Ctl!ActivateLed(q, e.priority, ok)
           S(q) == Ctl!SetLed(q, StepRequest(e), ok)
           D(q) == Ctl!DeactivateLed(q, e.priority, ok)
           active == IF starting /\ Activates(e) THEN Twice(r, A(r), A(A(r))) ELSE r
           set == IF e.state # Ctl!UNKNOWN
                  THEN Twice(active, S(active), S(S(active))) ELSE active
           new == IF stopping /\ Activates(e) THEN Twice(set, D(set), D(D(set))) ELSE set
<1>1. visits \in {1, 2} /\ Ctl!UNKNOWN = Led!UNKNOWN
  BY SameNames DEF Ctl!Visits, Reaches
<1>2. PerformLed(r, l, e, starting, stopping, ok) = new
  BY DEF PerformLed, Ctl!Visit
<1> HIDE DEF visits
<1>3. active \in C1
  <2>1. CASE starting /\ Activates(e)
    <3>1. \A q \in C0 : A(q) \in C1
      BY <2>1, SameActivate DEF Leads
    <3>2. C1 \subseteq C0
      BY DEF Leads
    <3> HIDE DEF A
    <3>3. A(r) \in C1 /\ A(A(r)) \in C1
      BY <3>1, <3>2
    <3>4. QED
      BY <1>1, <2>1, <3>3
  <2>2. CASE ~ (starting /\ Activates(e))
    BY <2>2 DEF Leads
  <2>3. QED
    BY <2>1, <2>2
<1> HIDE DEF active
<1>4. set \in C2
  <2>1. CASE e.state # Ctl!UNKNOWN
    <3>1. \A q \in C1 : S(q) \in C2
      BY <1>1, <2>1, SameSetLed DEF Leads
    <3>2. C2 \subseteq C1
      BY DEF Leads
    <3> HIDE DEF S
    <3>3. S(active) \in C2 /\ S(S(active)) \in C2
      BY <1>3, <3>1, <3>2
    <3>4. QED
      BY <1>1, <2>1, <3>3
  <2>2. CASE e.state = Ctl!UNKNOWN
    BY <1>1, <1>3, <2>2 DEF Leads
  <2>3. QED
    BY <2>1, <2>2
<1> HIDE DEF set
<1>5. new \in C3
  <2>1. CASE stopping /\ Activates(e)
    <3>1. \A q \in C2 : D(q) \in C3
      BY <2>1, SameDeactivate DEF Leads
    <3>2. C3 \subseteq C2
      BY DEF Leads
    <3> HIDE DEF D
    <3>3. D(set) \in C3 /\ D(D(set)) \in C3
      BY <1>4, <3>1, <3>2
    <3>4. QED
      BY <1>1, <2>1, <3>3
  <2>2. CASE ~ (stopping /\ Activates(e))
    BY <1>4, <2>2 DEF Leads
  <2>3. QED
    BY <2>1, <2>2
<1>6. QED
  BY <1>2, <1>5

(* What LED i of a step brings about and the later ones keep is so once the  *)
(* step is performed.                                                        *)
StepLeads(C, D, i, l, p, n, ok) ==
    LET entries == Step(p, n).leds
        After(q, j) == PerformLed(q, l, entries[j], n = Start, n = End(p), ok)
    IN  /\ i \in DOMAIN entries
        /\ C \subseteq Led!LedType
        /\ \A q \in C, j \in DOMAIN entries : After(q, j) \in C
        /\ \A q \in C : After(q, i) \in D
        /\ \A q \in C \cap D, j \in DOMAIN entries : j > i => After(q, j) \in D

LEMMA PerformStepEnters ==
    ASSUME NEW l \in LEDs, NEW p \in Patterns, NEW n \in Start .. End(p), NEW ok \in BOOLEAN,
           NEW C, NEW D, NEW i, StepLeads(C, D, i, l, p, n, ok), NEW r \in C
    PROVE  PerformStep(r, l, p, n, ok) \in C \cap D
<1> DEFINE entries == Step(p, n).leds
           m == Len(entries)
<1>1. m \in Nat /\ DOMAIN entries = 1 .. m
  BY StepLeds
<1>2. PICK f \in [0 .. m -> Led!LedType] :
        /\ f[0] = r
        /\ \A j \in 1 .. m : f[j] = PerformLed(f[j - 1], l, entries[j], n = Start, n = End(p), ok)
        /\ PerformStep(r, l, p, n, ok) = f[m]
  <2>1. r \in Led!LedType
    BY DEF StepLeads
  <2>2. QED
    BY <2>1, PerformStepRun
<1> DEFINE T == {j \in 0 .. m : f[j] \in C /\ (j >= i => f[j] \in D)}
<1>3. i \in 1 .. m
  BY <1>1 DEF StepLeads
<1>4. 0 \in T
  BY <1>1, <1>2, <1>3
<1>5. \A j \in 1 .. m : j - 1 \in T => j \in T
  <2> SUFFICES ASSUME NEW j \in 1 .. m, f[j - 1] \in C, j - 1 >= i => f[j - 1] \in D
               PROVE  f[j] \in C /\ (j >= i => f[j] \in D)
    BY <1>1
  <2>1. /\ f[j] = PerformLed(f[j - 1], l, entries[j], n = Start, n = End(p), ok)
        /\ j \in DOMAIN entries
    BY <1>1, <1>2
  <2>2. f[j] \in C
    BY <2>1 DEF StepLeads
  <2>3. CASE j = i
    BY <2>1, <2>2, <2>3 DEF StepLeads
  <2>4. CASE j > i
    <3>1. j - 1 >= i
      BY <1>1, <1>3, <2>4
    <3>2. QED
      BY <2>1, <2>2, <2>4, <3>1 DEF StepLeads
  <2>5. QED
    BY <1>1, <1>3, <2>2, <2>3, <2>4
<1>6. T \subseteq 0 .. m
  OBVIOUS
<1> HIDE DEF T, m
<1>7. T = 0 .. m
  BY <1>1, <1>4, <1>5, <1>6, Induction
<1>8. m \in T /\ m >= i
  BY <1>1, <1>3, <1>7
<1>9. QED
  BY <1>2, <1>8 DEF T

(* The priorities that only patterns use, and the LEDs that use them.        *)
Uses(e, l, d) == Reaches(e, l) /\ e.priority = d

LEMMA PatternPriority ==
    ASSUME NEW d \in PatternPriorities
    PROVE  d \in Led!Priorities /\ d # Led!NORMAL /\ d # Led!LOCKED /\ d \notin RequestPriorities
BY SameNames DEF PatternPriorities

LEMMA EntryUses ==
    ASSUME NEW l \in LEDs, NEW d \in PatternPriorities, NEW p \in Patterns,
           NEW n \in Start .. End(p), NEW i \in DOMAIN Step(p, n).leds
    PROVE  LET e == Step(p, n).leds[i]
           IN  /\ PriorityOf(e) = d <=> e.priority = d /\ e.priority # NoPriority
               /\ PriorityOf(e) = d => Activates(e)
               /\ Activates(e) /\ Uses(e, l, d) => PriorityOf(e) = d
               /\ <<l, d>> \in UsedByLed(e) <=> Reaches(e, l) /\ PriorityOf(e) = d
<1> DEFINE e == Step(p, n).leds[i]
<1>1. e.name \in DOMAIN LedsNamed
  BY StepIsStep DEF IsStep, IsLed
<1> HIDE DEF e
<1>2. l \in LedsNamed[e.name] <=> Reaches(e, l)
  BY <1>1, StepsAssumption DEF Reaches
<1>3. d # DefaultPriority /\ d # Ctl!LOCKED
  BY StepsAssumption DEF PatternPriorities
<1>4. PriorityOf(e) = d <=> e.priority = d /\ e.priority # NoPriority
  BY <1>3 DEF PriorityOf
<1>5. /\ PriorityOf(e) = d => Activates(e)
      /\ Activates(e) /\ Uses(e, l, d) => PriorityOf(e) = d
  BY <1>3, <1>4 DEF Activates, Uses
<1>6. <<l, d>> \in UsedByLed(e) <=> Reaches(e, l) /\ PriorityOf(e) = d
  BY <1>2 DEF UsedByLed
<1>7. QED
  BY <1>4, <1>5, <1>6 DEF e

------------------------------------------------------------------------------
(***************************************************************************)
(* The priorities that only patterns use: active on a LED exactly while a  *)
(* pattern plays whose start step activates them.                          *)
(***************************************************************************)
HasActive(d) == {q \in Led!LedType : d \in q.active}

AsActive(r, d) == {q \in Led!LedType : d \in q.active <=> d \in r.active}

(* What the operations of a step do to the set of active priorities.         *)
LEMMA EntryActive ==
    ASSUME NEW q \in Led!LedType, NEW e, IsEntry(e), NEW d \in PatternPriorities,
           NEW ok \in BOOLEAN
    PROVE  /\ Activates(e) =>
                /\ Led!ActivateLed(q, e.priority, ok) \in Led!LedType
                /\ d \in Led!ActivateLed(q, e.priority, ok).active <=>
                      d \in q.active \/ e.priority = d
                /\ Led!DeactivateLed(q, e.priority, ok) \in Led!LedType
                /\ d \in Led!DeactivateLed(q, e.priority, ok).active <=>
                      d \in q.active /\ e.priority # d
           /\ e.state # Led!UNKNOWN =>
                /\ Led!SetLed(q, StepRequest(e), ok) \in Led!LedType
                /\ Led!SetLed(q, StepRequest(e), ok).active = q.active
<1>1. d # Led!NORMAL
  BY PatternPriority
<1>2. ASSUME NEW p \in Led!Priorities
      PROVE  /\ Led!ActivateLed(q, p, ok) \in Led!LedType
             /\ Led!ActivateLed(q, p, ok).active = q.active \cup {p}
             /\ Led!DeactivateLed(q, p, ok) \in Led!LedType
             /\ Led!DeactivateLed(q, p, ok).active = q.active \ ({p} \ {Led!NORMAL})
  <2>1. /\ Led!ActivateLed(q, p, ok) \in Led!LedType
        /\ Led!ActivateLed(q, p, ok).active = q.active \cup {p}
    BY Led!ActivateLedType, ControllerAssumptions
  <2>2. /\ Led!DeactivateLed(q, p, ok) \in Led!LedType
        /\ Led!DeactivateLed(q, p, ok).active = q.active \ ({p} \ {Led!NORMAL})
    BY Led!DeactivateLedType, ControllerAssumptions
  <2>3. QED
    BY <2>1, <2>2
<1>3. ASSUME Activates(e)
      PROVE  /\ Led!ActivateLed(q, e.priority, ok) \in Led!LedType
             /\ Led!ActivateLed(q, e.priority, ok).active = q.active \cup {e.priority}
             /\ Led!DeactivateLed(q, e.priority, ok) \in Led!LedType
             /\ Led!DeactivateLed(q, e.priority, ok).active = q.active \ ({e.priority} \ {Led!NORMAL})
  <2>1. e.priority \in Led!Priorities
    BY <1>3, EntryType
  <2>2. QED
    BY <1>2, <2>1
<1>4. ASSUME e.state # Led!UNKNOWN
      PROVE  /\ Led!SetLed(q, StepRequest(e), ok) \in Led!LedType
             /\ Led!SetLed(q, StepRequest(e), ok).active = q.active
  <2>1. StepRequest(e) \in Led!RequestType
    BY <1>4, EntryType
  <2>2. QED
    BY <2>1, Led!SetLedType, ControllerAssumptions
<1>5. QED
  BY <1>1, <1>3, <1>4

LEMMA StepUses ==
    ASSUME NEW l \in LEDs, NEW d \in PatternPriorities, NEW p \in Patterns,
           NEW n \in Start .. End(p)
    PROVE  <<l, d>> \in UsedByStep(Step(p, n)) <=>
              \E i \in DOMAIN Step(p, n).leds :
                 Activates(Step(p, n).leds[i]) /\ Uses(Step(p, n).leds[i], l, d)
<1>1. <<l, d>> \in UsedByStep(Step(p, n)) <=>
         \E i \in DOMAIN Step(p, n).leds : <<l, d>> \in UsedByLed(Step(p, n).leds[i])
  BY DEF UsedByStep
<1>2. \A i \in DOMAIN Step(p, n).leds :
         <<l, d>> \in UsedByLed(Step(p, n).leds[i]) <=>
            Activates(Step(p, n).leds[i]) /\ Uses(Step(p, n).leds[i], l, d)
  BY EntryUses DEF Uses
<1>3. QED
  BY <1>1, <1>2

LEMMA StepActive ==
    ASSUME NEW r \in Led!LedType, NEW l \in LEDs, NEW d \in PatternPriorities,
           NEW p \in Patterns, NEW n \in Start .. End(p), NEW ok \in BOOLEAN
    PROVE  LET uses == <<l, d>> \in UsedByStep(Step(p, n))
               new == PerformStep(r, l, p, n, ok)
           IN  /\ n = Start /\ uses => d \in new.active
               /\ n = End(p) /\ uses => d \notin new.active
               /\ ~ (n \in {Start, End(p)} /\ uses) => (d \in new.active <=> d \in r.active)
<1> DEFINE entries == Step(p, n).leds
           uses == <<l, d>> \in UsedByStep(Step(p, n))
           new == PerformStep(r, l, p, n, ok)
           After(q, i) == PerformLed(q, l, entries[i], n = Start, n = End(p), ok)
<1>1. Start # End(p)
  BY StepsCount DEF Start
<1>2. \A i \in DOMAIN entries : IsEntry(entries[i])
  BY EntriesAreLeds
<1>3. uses <=> \E i \in DOMAIN entries : Activates(entries[i]) /\ Uses(entries[i], l, d)
  BY StepUses
<1>4. ASSUME n = Start, uses PROVE d \in new.active
  <2> DEFINE C == Led!LedType
             D == HasActive(d)
  <2>1. PICK i \in DOMAIN entries : Activates(entries[i]) /\ Uses(entries[i], l, d)
    BY <1>3, <1>4
  <2>2. \A q \in C, j \in DOMAIN entries : After(q, j) \in C
    BY <1>2, PerformLedType
  <2>3. ASSUME NEW q \in C PROVE After(q, i) \in D
    <3> DEFINE e == entries[i]
    <3>1. IsEntry(e) /\ Activates(e) /\ Reaches(e, l) /\ e.priority = d /\ (n = Start) /\ ~ (n = End(p))
      BY <1>1, <1>2, <1>4, <2>1 DEF Uses
    <3> HIDE DEF e
    <3>2. D \subseteq C
      BY DEF HasActive
    <3>3. /\ \A s \in C : Led!ActivateLed(s, e.priority, ok) \in D
          /\ e.state # Led!UNKNOWN => \A s \in D : Led!SetLed(s, StepRequest(e), ok) \in D
      BY <3>1, EntryActive DEF HasActive
    <3> HIDE DEF C, D
    <3>4. PerformLed(q, l, e, n = Start, n = End(p), ok) \in D
      <4>1. ASSUME NEW starting, NEW stopping, starting, ~ stopping
            PROVE  PerformLed(q, l, e, starting, stopping, ok) \in D
        <5>1. Leads(C, D, D, D, e, starting, stopping, ok)
          BY <3>1, <3>2, <3>3, <4>1 DEF Leads
        <5>2. QED
          BY <3>1, <5>1, PerformLedEnters
      <4>2. QED
        BY <3>1, <4>1
    <3>5. QED
      BY <3>4 DEF e
  <2>4. ASSUME NEW q \in C \cap D, NEW j \in DOMAIN entries, j > i PROVE After(q, j) \in D
    <3> DEFINE e == entries[j]
    <3>1. IsEntry(e) /\ (n = Start) /\ ~ (n = End(p)) /\ q \in D
      BY <1>1, <1>2, <1>4
    <3> HIDE DEF e
    <3>2. /\ Activates(e) => \A s \in D : Led!ActivateLed(s, e.priority, ok) \in D
          /\ e.state # Led!UNKNOWN => \A s \in D : Led!SetLed(s, StepRequest(e), ok) \in D
      BY <3>1, EntryActive DEF HasActive
    <3> HIDE DEF D
    <3>3. PerformLed(q, l, e, n = Start, n = End(p), ok) \in D
      BY <3>1, <3>2, PerformLedCloses
    <3>4. QED
      BY <3>3 DEF e
  <2>5. r \in C /\ C \subseteq Led!LedType
    OBVIOUS
  <2> HIDE DEF C, D, uses
  <2>6. StepLeads(C, D, i, l, p, n, ok)
    BY <2>1, <2>2, <2>3, <2>4, <2>5 DEF StepLeads
  <2>7. new \in C \cap D
    BY <2>5, <2>6, PerformStepEnters
  <2>8. QED
    BY <2>7 DEF D, HasActive
<1>5. ASSUME n = End(p), uses PROVE d \notin new.active
  <2> DEFINE C == Led!LedType
             D == Led!LedType \ HasActive(d)
  <2>1. PICK i \in DOMAIN entries : Activates(entries[i]) /\ Uses(entries[i], l, d)
    BY <1>3, <1>5
  <2>2. \A q \in C, j \in DOMAIN entries : After(q, j) \in C
    BY <1>2, PerformLedType
  <2>3. ASSUME NEW q \in C PROVE After(q, i) \in D
    <3> DEFINE e == entries[i]
    <3>1. IsEntry(e) /\ Activates(e) /\ Reaches(e, l) /\ e.priority = d /\ ~ (n = Start) /\ (n = End(p))
      BY <1>1, <1>2, <1>5, <2>1 DEF Uses
    <3> HIDE DEF e
    <3>2. D \subseteq C
      OBVIOUS
    <3>3. /\ \A s \in C : Led!DeactivateLed(s, e.priority, ok) \in D
          /\ e.state # Led!UNKNOWN => \A s \in C : Led!SetLed(s, StepRequest(e), ok) \in C
      BY <3>1, EntryActive DEF HasActive
    <3> HIDE DEF C, D
    <3>4. PerformLed(q, l, e, n = Start, n = End(p), ok) \in D
      <4>1. ASSUME NEW starting, NEW stopping, ~ starting, stopping
            PROVE  PerformLed(q, l, e, starting, stopping, ok) \in D
        <5>1. Leads(C, C, C, D, e, starting, stopping, ok)
          BY <3>1, <3>2, <3>3, <4>1 DEF Leads
        <5>2. QED
          BY <3>1, <5>1, PerformLedEnters
      <4>2. QED
        BY <3>1, <4>1
    <3>5. QED
      BY <3>4 DEF e
  <2>4. ASSUME NEW q \in C \cap D, NEW j \in DOMAIN entries, j > i PROVE After(q, j) \in D
    <3> DEFINE e == entries[j]
    <3>1. IsEntry(e) /\ ~ (n = Start) /\ (n = End(p)) /\ q \in D
      BY <1>1, <1>2, <1>5
    <3> HIDE DEF e
    <3>2. /\ Activates(e) => \A s \in D : Led!DeactivateLed(s, e.priority, ok) \in D
          /\ e.state # Led!UNKNOWN => \A s \in D : Led!SetLed(s, StepRequest(e), ok) \in D
      BY <3>1, EntryActive DEF HasActive
    <3> HIDE DEF D
    <3>3. PerformLed(q, l, e, n = Start, n = End(p), ok) \in D
      BY <3>1, <3>2, PerformLedCloses
    <3>4. QED
      BY <3>3 DEF e
  <2>5. r \in C /\ C \subseteq Led!LedType
    OBVIOUS
  <2> HIDE DEF C, D, uses
  <2>6. StepLeads(C, D, i, l, p, n, ok)
    BY <2>1, <2>2, <2>3, <2>4, <2>5 DEF StepLeads
  <2>7. new \in C \cap D
    BY <2>5, <2>6, PerformStepEnters
  <2>8. QED
    BY <2>7 DEF D, HasActive
<1>6. ASSUME ~ (n \in {Start, End(p)} /\ uses) PROVE d \in new.active <=> d \in r.active
  <2> DEFINE C == AsActive(r, d)
  <2>1. C \subseteq Led!LedType /\ r \in C
    BY DEF AsActive
  <2>2. ASSUME NEW q \in C, NEW i \in DOMAIN entries PROVE After(q, i) \in C
    <3> DEFINE e == entries[i]
    <3>1. IsEntry(e) /\ (n \in {Start, End(p)} /\ Activates(e) /\ Reaches(e, l) => e.priority # d)
      BY <1>2, <1>3, <1>6 DEF Uses
    <3> HIDE DEF e
    <3>2. \A s \in C :
            /\ Activates(e) /\ e.priority # d =>
                  /\ Led!ActivateLed(s, e.priority, ok) \in C
                  /\ Led!DeactivateLed(s, e.priority, ok) \in C
            /\ e.state # Led!UNKNOWN => Led!SetLed(s, StepRequest(e), ok) \in C
      BY <3>1, EntryActive DEF AsActive
    <3> HIDE DEF C
    <3>3. PerformLed(q, l, e, n = Start, n = End(p), ok) \in C
      BY <3>1, <3>2, PerformLedCloses
    <3>4. QED
      BY <3>3 DEF e
  <2> HIDE DEF C
  <2>3. new \in C
    BY <2>1, <2>2, PerformStepCloses
  <2>4. QED
    BY <2>3 DEF C, AsActive
<1>7. QED
  BY <1>4, <1>5, <1>6

(* The priorities that are active on LED l are those that the patterns at    *)
(* the current steps activated.                                              *)
ActiveOn(l) ==
    {x \in (SUBSET Steps) \X Led!LedType :
        \A d \in PatternPriorities :
           d \in x[2].active <=> \E y \in x[1] : <<l, d>> \in StartUses[y[1]]}

LEMMA StepsOfSteps ==
    ASSUME NEW A \in SUBSET Steps, NEW y \in A
    PROVE  y[1] \in Patterns /\ y[2] \in Start .. End(y[1]) /\ y = <<y[1], y[2]>>
BY DEF Steps

LEMMA UsesOfPattern ==
    ASSUME NEW p \in Patterns
    PROVE  /\ StartUses[p] = UsedByStep(Step(p, Start)) /\ StartUses[p] \subseteq UsedByPattern[p]
           /\ EndUses[p] = UsedByStep(Step(p, End(p))) /\ EndUses[p] \subseteq UsedByPattern[p]
<1>1. Start \in Start .. End(p) /\ End(p) \in Start .. End(p)
  BY StepsCount DEF Start
<1>2. UsedByPattern[p] = UNION {UsedByStep(Step(p, n)) : n \in Start .. End(p)}
  BY DEF UsedByPattern
<1>3. StartUses[p] = UsedByStep(Step(p, Start)) /\ EndUses[p] = UsedByStep(Step(p, End(p)))
  BY DEF StartUses, EndUses
<1>4. QED
  BY <1>1, <1>2, <1>3

LEMMA StepsKeepActive ==
    ASSUME TidyPatterns, NEW l \in LEDs
    PROVE  KeptBySteps(ActiveOn(l), l)
<1> SUFFICES ASSUME NEW A \in SUBSET Steps, NEW r \in Led!LedType, <<A, r>> \in ActiveOn(l)
             PROVE  /\ \A P \in SUBSET Patterns :
                          (\A p \in P : ~ HasLeds(p, End(p))) => <<Without(A, P), r>> \in ActiveOn(l)
                    /\ \A p \in Patterns : Apart(A, p) =>
                          /\ <<Without(A, {p}), PerformStep(r, l, p, End(p), TRUE)>> \in ActiveOn(l)
                          /\ <<WithStep(A, p, Start), PerformStep(r, l, p, Start, TRUE)>> \in ActiveOn(l)
                          /\ p \in PatternsOf(A) => \A n \in 1 .. NumSteps(p) :
                                <<WithStep(A, p, n), PerformStep(r, l, p, n, TRUE)>> \in ActiveOn(l)
  BY DEF KeptBySteps
<1> DEFINE Starts(y, d) == <<l, d>> \in StartUses[y[1]]
<1>1. \A d \in PatternPriorities : d \in r.active <=> \E y \in A : Starts(y, d)
  BY DEF ActiveOn
<1>2. ASSUME NEW B \in SUBSET Steps, NEW new \in Led!LedType,
             \A d \in PatternPriorities : d \in new.active <=> \E y \in B : Starts(y, d)
      PROVE  <<B, new>> \in ActiveOn(l)
  BY <1>2 DEF ActiveOn
<1>3. \A y \in A : y[1] \in Patterns
  BY StepsOfSteps
<1>4. \A p \in Patterns, d \in PatternPriorities : <<l, d>> \in StartUses[p] => <<l, d>> \in EndUses[p]
  BY PatternPriority DEF TidyPatterns
<1>5. ASSUME NEW P \in SUBSET Patterns, \A p \in P : ~ HasLeds(p, End(p))
      PROVE  <<Without(A, P), r>> \in ActiveOn(l)
  <2>1. ASSUME NEW p \in P, NEW d \in PatternPriorities PROVE <<l, d>> \notin StartUses[p]
    <3>1. End(p) \in Start .. End(p)
      BY StepsCount DEF Start
    <3>2. DOMAIN Step(p, End(p)).leds = {}
      BY <1>5, <3>1, StepLeds DEF HasLeds
    <3>3. EndUses[p] = {}
      BY <3>2, UsesOfPattern DEF UsedByStep
    <3>4. QED
      BY <1>4, <3>3
  <2>2. Without(A, P) \in SUBSET Steps /\ Without(A, P) \subseteq A
    BY DEF Without
  <2>3. \A d \in PatternPriorities : \A y \in A : Starts(y, d) => y \in Without(A, P)
    BY <2>1 DEF Without
  <2> HIDE DEF Starts
  <2>4. \A d \in PatternPriorities : d \in r.active <=> \E y \in Without(A, P) : Starts(y, d)
    BY <1>1, <2>2, <2>3
  <2>5. QED
    BY <1>2, <2>2, <2>4
<1>6. ASSUME NEW p \in Patterns, Apart(A, p)
      PROVE  /\ <<Without(A, {p}), PerformStep(r, l, p, End(p), TRUE)>> \in ActiveOn(l)
             /\ <<WithStep(A, p, Start), PerformStep(r, l, p, Start, TRUE)>> \in ActiveOn(l)
             /\ p \in PatternsOf(A) => \A n \in 1 .. NumSteps(p) :
                   <<WithStep(A, p, n), PerformStep(r, l, p, n, TRUE)>> \in ActiveOn(l)
  <2> DEFINE new(n) == PerformStep(r, l, p, n, TRUE)
             others == Without(A, {p})
  <2>1. ASSUME NEW n \in Start .. End(p)
        PROVE  /\ new(n) \in Led!LedType
               /\ \A d \in PatternPriorities :
                     /\ n = Start /\ <<l, d>> \in StartUses[p] => d \in new(n).active
                     /\ n = End(p) /\ <<l, d>> \in EndUses[p] => d \notin new(n).active
                     /\ ~ (n = Start /\ <<l, d>> \in StartUses[p])
                           /\ ~ (n = End(p) /\ <<l, d>> \in EndUses[p])
                           => (d \in new(n).active <=> d \in r.active)
    <3>1. new(n) \in Led!LedType
      <4>1. \A ok \in BOOLEAN : PerformStep(r, l, p, n, ok) \in Led!LedType
        BY PerformStepType
      <4>2. QED
        BY <4>1
    <3>2. ASSUME NEW d \in PatternPriorities
          PROVE  /\ n = Start /\ <<l, d>> \in UsedByStep(Step(p, n)) => d \in new(n).active
                 /\ n = End(p) /\ <<l, d>> \in UsedByStep(Step(p, n)) => d \notin new(n).active
                 /\ ~ (n \in {Start, End(p)} /\ <<l, d>> \in UsedByStep(Step(p, n)))
                       => (d \in new(n).active <=> d \in r.active)
      <4>1. \A ok \in BOOLEAN :
               LET after == PerformStep(r, l, p, n, ok)
               IN  /\ n = Start /\ <<l, d>> \in UsedByStep(Step(p, n)) => d \in after.active
                   /\ n = End(p) /\ <<l, d>> \in UsedByStep(Step(p, n)) => d \notin after.active
                   /\ ~ (n \in {Start, End(p)} /\ <<l, d>> \in UsedByStep(Step(p, n)))
                         => (d \in after.active <=> d \in r.active)
        BY StepActive
      <4>2. QED
        BY <4>1
    <3> HIDE DEF new
    <3>3. QED
      BY <3>1, <3>2, UsesOfPattern
  <2>2. /\ others \in SUBSET Steps
        /\ \A y : y \in others <=> y \in A /\ y[1] # p
        /\ \A y \in others : Disjoint(y[1], p)
    BY <1>6 DEF Without, Apart
  <2>3. Start \in Start .. End(p) /\ End(p) \in Start .. End(p) /\ Start # End(p)
    BY StepsCount DEF Start
  <2> HIDE DEF new, others
  <2>4. <<others, new(End(p))>> \in ActiveOn(l)
    <3>1. ASSUME NEW d \in PatternPriorities
          PROVE  d \in new(End(p)).active <=> \E y \in others : Starts(y, d)
      <4>1. CASE <<l, d>> \in EndUses[p]
        <5>1. ASSUME NEW y \in others PROVE ~ Starts(y, d)
          <6>1. y[1] \in Patterns /\ UsedByPattern[y[1]] \cap UsedByPattern[p] = {}
            BY <1>3, <2>2 DEF Disjoint
          <6>2. QED
            BY <4>1, <6>1, UsesOfPattern
        <5>2. QED
          BY <2>1, <2>3, <4>1, <5>1
      <4>2. CASE <<l, d>> \notin EndUses[p]
        <5>1. <<l, d>> \notin StartUses[p]
          BY <1>4, <4>2
        <5>2. (\E y \in others : Starts(y, d)) <=> (\E y \in A : Starts(y, d))
          BY <2>2, <5>1
        <5>3. d \in new(End(p)).active <=> d \in r.active
          BY <2>1, <2>3, <4>2
        <5>4. QED
          BY <1>1, <5>2, <5>3
      <4>3. QED
        BY <4>1, <4>2
    <3> HIDE DEF Starts
    <3>2. QED
      BY <1>2, <2>1, <2>2, <2>3, <3>1
  <2>5. ASSUME NEW n \in Start .. End(p) \ {End(p)}, n = Start \/ p \in PatternsOf(A)
        PROVE  <<WithStep(A, p, n), new(n)>> \in ActiveOn(l)
    <3> DEFINE x == <<p, n>>
               B == WithStep(A, p, n)
    <3>1. x \in Steps /\ x[1] = p
      BY <2>5, StepOfPattern DEF Start
    <3>2. B = others \cup {x}
      BY DEF WithStep, others
    <3> HIDE DEF x, B
    <3>3. B \in SUBSET Steps
      BY <2>2, <3>1, <3>2
    <3>4. ASSUME NEW d \in PatternPriorities
          PROVE  d \in new(n).active <=> \E y \in B : Starts(y, d)
      <4>1. (\E y \in B : Starts(y, d)) <=> (\E y \in others : Starts(y, d)) \/ <<l, d>> \in StartUses[p]
        BY <3>1, <3>2
      <4>2. (\E y \in A : Starts(y, d)) =>
               (\E y \in others : Starts(y, d)) \/ <<l, d>> \in StartUses[p]
        BY <2>2
      <4>3. (\E y \in others : Starts(y, d)) => \E y \in A : Starts(y, d)
        BY <2>2
      <4>4. CASE n = Start /\ <<l, d>> \in StartUses[p]
        BY <2>1, <2>5, <4>1, <4>4
      <4>5. CASE ~ (n = Start /\ <<l, d>> \in StartUses[p])
        <5>1. d \in new(n).active <=> d \in r.active
          BY <2>1, <2>5, <4>5
        <5>2. <<l, d>> \in StartUses[p] => \E y \in A : Starts(y, d)
          BY <2>5, <4>5 DEF PatternsOf
        <5>3. QED
          BY <1>1, <4>1, <4>2, <4>3, <5>1, <5>2
      <4>6. QED
        BY <4>4, <4>5
    <3> HIDE DEF Starts
    <3>5. <<B, new(n)>> \in ActiveOn(l)
      BY <1>2, <2>1, <2>5, <3>3, <3>4
    <3>6. QED
      BY <3>5 DEF B
  <2>6. \A n \in 1 .. NumSteps(p) : n \in Start .. End(p) \ {End(p)}
    BY StepsCount DEF Start
  <2>7. QED
    BY <2>3, <2>4, <2>5, <2>6 DEF new, others
<1>7. QED
  BY <1>5, <1>6

(* What requests of clients and flashes leave alone.                         *)
LEMMA RequestsKeepType ==
    ASSUME Ctl!Request, NEW l \in LEDs, leds[l] \in Led!LedType
    PROVE  leds'[l] \in Led!LedType
<1> DEFINE C == Led!LedType
<1>1. ASSUME NEW q \in C, NEW ok \in Led!Outcomes
      PROVE  /\ \A req \in Led!SetRequests : Led!SetLed(q, req, ok) \in C
             /\ \A p \in RequestPriorities, k \in LockIds :
                   Led!LockAndActivate(q, p, k, ok) \in C /\ Led!UnlockAndDeactivate(q, p, k, ok) \in C
  <2>1. ok \in BOOLEAN
    BY Led!OutcomesType, ControllerAssumptions
  <2>2. ASSUME NEW req \in Led!SetRequests PROVE Led!SetLed(q, req, ok) \in C
    <3>1. req \in Led!RequestType
      BY Led!SetRequestsType, ControllerAssumptions
    <3>2. QED
      BY <2>1, <3>1, Led!SetLedType, ControllerAssumptions
  <2>3. ASSUME NEW p \in RequestPriorities, NEW k \in LockIds
        PROVE  Led!LockAndActivate(q, p, k, ok) \in C /\ Led!UnlockAndDeactivate(q, p, k, ok) \in C
    <3>1. p \in Led!Priorities
      BY ControllerAssumptions DEF Led!RequestsAssumption
    <3>2. QED
      BY <2>1, <3>1, Led!LockAndActivateType, Led!UnlockAndDeactivateType, ControllerAssumptions
  <2>4. QED
    BY <2>2, <2>3
<1>2. Led!Request /\ leds[l] \in C
  BY SameRequest
<1> HIDE DEF C
<1>3. leds'[l] \in C
  BY <1>1, <1>2, Led!RequestCloses, ControllerAssumptions
<1>4. QED
  BY <1>3 DEF C

LEMMA ClientsKeepActive ==
    ASSUME Ctl!Request, NEW l \in LEDs, leds[l] \in Led!LedType, NEW d \in PatternPriorities
    PROVE  leds'[l] \in AsActive(leds[l], d)
<1> DEFINE C == AsActive(leds[l], d)
<1>1. leds[l] \in C
  BY DEF AsActive
<1>2. d # Led!NORMAL /\ d # Led!LOCKED /\ d \notin RequestPriorities
  BY PatternPriority
<1>3. ASSUME NEW q \in C, NEW ok \in Led!Outcomes
      PROVE  /\ \A req \in Led!SetRequests : Led!SetLed(q, req, ok) \in C
             /\ \A p \in RequestPriorities, k \in LockIds :
                   Led!LockAndActivate(q, p, k, ok) \in C /\ Led!UnlockAndDeactivate(q, p, k, ok) \in C
  <2>1. q \in Led!LedType /\ ok \in BOOLEAN /\ (d \in q.active <=> d \in leds[l].active)
    BY Led!OutcomesType, ControllerAssumptions DEF AsActive
  <2>2. ASSUME NEW req \in Led!SetRequests PROVE Led!SetLed(q, req, ok) \in C
    <3>1. req \in Led!RequestType
      BY Led!SetRequestsType, ControllerAssumptions
    <3>2. Led!SetLed(q, req, ok) \in Led!LedType /\ Led!SetLed(q, req, ok).active = q.active
      BY <2>1, <3>1, Led!SetLedType, ControllerAssumptions
    <3>3. QED
      BY <2>1, <3>2 DEF AsActive
  <2>3. ASSUME NEW p \in RequestPriorities, NEW k \in LockIds
        PROVE  Led!LockAndActivate(q, p, k, ok) \in C /\ Led!UnlockAndDeactivate(q, p, k, ok) \in C
    <3>1. p \in Led!Priorities /\ p # d
      BY <1>2, ControllerAssumptions DEF Led!RequestsAssumption
    <3> DEFINE a == Led!LockAndActivate(q, p, k, ok)
               u == Led!UnlockAndDeactivate(q, p, k, ok)
    <3>2. a \in Led!LedType /\ a.active \in {q.active, q.active \cup {p}}
      <4> DEFINE locked == [q EXCEPT !.lock = k]
      <4>1. a = q \/ a = Led!ActivateLed(q, p, ok) \/ a = Led!ActivateLed(locked, p, ok)
        BY <2>1, <3>1, Led!LockAndActivateTwice, ControllerAssumptions
      <4>2. locked \in Led!LedType /\ locked.active = q.active
        BY <2>1, <3>1, Led!LockFields, ControllerAssumptions
      <4> HIDE DEF a, locked
      <4>3. QED
        BY <2>1, <3>1, <4>1, <4>2, Led!ActivateLedType, ControllerAssumptions
    <3>3. u \in Led!LedType /\ u.active \in {q.active, q.active \ ({p} \ {Led!NORMAL})}
      <4> DEFINE unlocked == [q EXCEPT !.lock = NoLock]
      <4>1. u = q \/ u = Led!DeactivateLed(q, p, ok) \/ u = Led!DeactivateLed(unlocked, p, ok)
        BY <2>1, <3>1, Led!UnlockAndDeactivateTwice, ControllerAssumptions
      <4>2. unlocked \in Led!LedType /\ unlocked.active = q.active
        BY <2>1, <3>1, Led!LockFields, ControllerAssumptions
      <4> HIDE DEF u, unlocked
      <4>3. QED
        BY <2>1, <3>1, <4>1, <4>2, Led!DeactivateLedType, ControllerAssumptions
    <3> HIDE DEF a, u
    <3>4. a \in C /\ u \in C
      BY <2>1, <3>1, <3>2, <3>3 DEF AsActive
    <3>5. QED
      BY <3>4 DEF a, u
  <2>4. QED
    BY <2>2, <2>3
<1>4. Led!Request
  BY SameRequest
<1> HIDE DEF C
<1>5. leds'[l] \in C
  BY <1>1, <1>3, <1>4, Led!RequestCloses, ControllerAssumptions
<1>6. QED
  BY <1>5 DEF C

LEMMA FlashesKeepActive ==
    ASSUME leds = [l \in LEDs |-> leds[l]], NEW l \in LEDs, leds[l] \in Led!LedType,
           NEW m \in LEDs, NEW p \in Ctl!Priorities, Ctl!Timeout(m, p)
    PROVE  leds'[l] \in Led!LedType /\ leds'[l].active = leds[l].active
<1>1. leds'[l] = leds[l] \/ Led!TimeoutStep(leds[l], leds'[l], p)
  BY FlashOfLed
<1>2. p \in Led!Priorities
  BY SameNames
<1>3. ASSUME Led!TimeoutStep(leds[l], leds'[l], p)
      PROVE  leds'[l] \in Led!LedType /\ leds'[l].active = leds[l].active
  <2>1. PICK opened \in BOOLEAN, ok \in BOOLEAN : leds'[l] = Led!FlashLed(leds[l], p, opened, ok)
    BY <1>3, Led!OutcomesType, ControllerAssumptions DEF Led!TimeoutStep
  <2>2. QED
    BY <1>2, <2>1, Led!FlashLedType, ControllerAssumptions
<1>4. QED
  BY <1>1, <1>3

(* The invariant of the player and the LEDs together.                        *)
ActiveInv ==
    /\ PlayerInv
    /\ leds = [l \in LEDs |-> leds[l]]
    /\ \A l \in LEDs :
          /\ leds[l] \in Led!LedType
          /\ running /\ TidyPatterns => <<CurrentSteps(playing), leds[l]>> \in ActiveOn(l)

LEMMA ActiveOnLed ==
    ASSUME PlayerInv, NEW l \in LEDs, leds[l] \in Led!LedType
    PROVE  <<CurrentSteps(playing), leds[l]>> \in ActiveOn(l) <=>
              \A d \in PatternPriorities :
                 d \in leds[l].active <=> \E p \in Playing : <<l, d>> \in StartUses[p]
<1> DEFINE A == CurrentSteps(playing)
<1>1. A \in SUBSET Steps /\ PatternsOf(A) = Playing
  <2>1. QueueInv(playing) /\ PlayersOf(playing) = Playing
    BY DEF PlayerInv, PlayersOf, Playing
  <2>2. QED
    BY <2>1, CurrentStepsType
<1> HIDE DEF A
<1>2. \A d : (\E y \in A : <<l, d>> \in StartUses[y[1]]) <=> (\E p \in Playing : <<l, d>> \in StartUses[p])
  BY <1>1 DEF PatternsOf
<1>3. <<A, leds[l]>> \in ActiveOn(l) <=>
        \A d \in PatternPriorities : d \in leds[l].active <=> \E y \in A : <<l, d>> \in StartUses[y[1]]
  BY <1>1 DEF ActiveOn
<1>4. QED
  BY <1>2, <1>3 DEF A

LEMMA ActiveAtStart == DaemonInit => ActiveInv
<1> SUFFICES ASSUME DaemonInit PROVE ActiveInv
  OBVIOUS
<1>1. Led!Init /\ Init /\ playing = <<>>
  BY SameInit DEF DaemonInit, Init
<1>2. PlayerInv
  BY <1>1, PlayerInvAtStart
<1>3. PICK opened \in Led!Outcomes :
        leds \in [LEDs -> {Led!NewLed(s, opened) : s \in ReportedStates}]
  BY <1>1 DEF Led!Init
<1>4. opened \in BOOLEAN /\ ReportedStates \subseteq Led!LedStates
  BY Led!OutcomesType, ControllerAssumptions DEF Led!StatesAssumption
<1>5. \A s \in ReportedStates : Led!NewLed(s, opened) \in Led!LedType
  BY <1>4, Led!NewLedUncritical, ControllerAssumptions DEF Led!Uncritical
<1>6. \A s \in ReportedStates : Led!NewLed(s, opened).active = {Led!NORMAL}
  BY DEF Led!NewLed
<1>7. \A l \in LEDs : leds[l] \in Led!LedType /\ leds[l].active = {Led!NORMAL}
  BY <1>3, <1>5, <1>6
<1>8. leds = [l \in LEDs |-> leds[l]]
  BY <1>3
<1>9. Playing = {}
  BY <1>1 DEF Playing
<1>10. ASSUME NEW l \in LEDs PROVE <<CurrentSteps(playing), leds[l]>> \in ActiveOn(l)
  BY <1>2, <1>7, <1>9, ActiveOnLed, PatternPriority
<1>11. QED
  BY <1>2, <1>7, <1>8, <1>10 DEF ActiveInv

LEMMA StepsAreActive ==
    ASSUME ~ WritesMayFail, ActiveInv, [DaemonNext]_daemonVars
    PROVE  ActiveInv'
<1>1. leds = [l \in LEDs |-> leds[l]] /\ PlayerInv /\ \A l \in LEDs : leds[l] \in Led!LedType
  BY DEF ActiveInv
<1>2. ASSUME Request \/ \E p \in Patterns : Timeout(p), PlayerActs PROVE ActiveInv'
  <2>1. PlayerInv' /\ running' = running /\ performed' \in Seq(Steps)
    <3>1. Next
      BY <1>2 DEF Next
    <3>2. PlayerInv'
      BY <1>1, <3>1, NextIsHandler DEF HandlerStep
    <3>3. running' = running
      BY <1>2 DEF Request, Play, Retrigger, Stop, Timeout
    <3>4. QED
      BY <3>2, <3>3 DEF PlayerInv
  <2>2. \A l \in LEDs : leds'[l] = PerformSteps(leds[l], l, performed', {}, TRUE)
    BY <1>2, PlayerActsOnLed
  <2>3. leds' = [l \in LEDs |-> leds'[l]]
    BY <1>2 DEF PlayerActs, Perform
  <2>4. ASSUME NEW l \in LEDs PROVE leds'[l] \in Led!LedType
    <3>1. \A ok \in BOOLEAN : PerformSteps(leds[l], l, performed', {}, ok) \in Led!LedType
      BY <1>1, <2>1, PerformStepsType
    <3>2. QED
      BY <2>2, <3>1
  <2>5. ASSUME NEW l \in LEDs, running', TidyPatterns
        PROVE  <<CurrentSteps(playing'), leds'[l]>> \in ActiveOn(l)
    <3> DEFINE G == ActiveOn(l)
               r == leds[l]
    <3>1. <<CurrentSteps(playing), r>> \in G /\ r \in Led!LedType
      BY <2>1, <2>5 DEF ActiveInv
    <3>2. KeptBySteps(G, l)
      BY <2>5, StepsKeepActive
    <3> HIDE DEF G, r
    <3>3. <<CurrentSteps(playing'), PerformSteps(r, l, performed', {}, TRUE)>> \in G
      BY <1>1, <1>2, <3>1, <3>2, HandlersKeep
    <3>4. QED
      BY <2>2, <3>3 DEF G, r
  <2>6. QED
    BY <2>1, <2>3, <2>4, <2>5 DEF ActiveInv, TidyPatterns
<1>3. ASSUME UNCHANGED vars, leds' = [l \in LEDs |-> leds'[l]],
             \A l \in LEDs : leds'[l] \in Led!LedType,
             \A l \in LEDs, d \in PatternPriorities : d \in leds'[l].active <=> d \in leds[l].active
      PROVE  ActiveInv'
  <2>1. PlayerInv' /\ playing' = playing /\ running' = running
    BY <1>1, <1>3 DEF PlayerInv, QueueInv, vars
  <2>2. ASSUME NEW l \in LEDs, <<CurrentSteps(playing), leds[l]>> \in ActiveOn(l)
        PROVE  <<CurrentSteps(playing'), leds'[l]>> \in ActiveOn(l)
    <3>1. <<CurrentSteps(playing), leds'[l]>> \in ActiveOn(l)
      BY <1>3, <2>2 DEF ActiveOn
    <3>2. QED
      BY <2>1, <3>1
  <2>3. QED
    BY <1>3, <2>1, <2>2 DEF ActiveInv
<1>4. ASSUME ClientRequest PROVE ActiveInv'
  <2>1. Ctl!Request /\ UNCHANGED vars
    BY <1>4 DEF ClientRequest
  <2>2. leds' = [l \in LEDs |-> leds'[l]]
    BY <2>1, RequestLeds
  <2>3. \A l \in LEDs, d \in PatternPriorities : leds'[l] \in AsActive(leds[l], d)
    BY <1>1, <2>1, ClientsKeepActive
  <2>4. \A l \in LEDs : leds'[l] \in Led!LedType
    BY <1>1, <2>1, RequestsKeepType
  <2>5. QED
    BY <1>3, <2>1, <2>2, <2>3, <2>4 DEF AsActive
<1>5. ASSUME NEW m \in LEDs, NEW p \in Ctl!Priorities, FlashTimeout(m, p) PROVE ActiveInv'
  <2>1. Ctl!Timeout(m, p) /\ UNCHANGED vars
    BY <1>5 DEF FlashTimeout
  <2>2. leds' = [l \in LEDs |-> leds'[l]]
    BY <1>1, <1>5, <2>1, FlashOfLed
  <2>3. \A l \in LEDs : leds'[l] \in Led!LedType /\ leds'[l].active = leds[l].active
    BY <1>1, <1>5, <2>1, FlashesKeepActive
  <2>4. QED
    BY <1>3, <2>1, <2>2, <2>3
<1>6. ASSUME Shutdown PROVE ActiveInv'
  <2>1. PlayerInv'
    BY <1>1, <1>6, NextIsHandler DEF HandlerStep, Shutdown, Next
  <2>2. ~ running' /\ leds' = leds
    BY <1>6 DEF Shutdown, Deinit
  <2>3. QED
    BY <1>1, <2>1, <2>2 DEF ActiveInv
<1>7. ASSUME UNCHANGED daemonVars PROVE ActiveInv'
  BY <1>1, <1>3, <1>7 DEF daemonVars, vars
<1>8. QED
  BY <1>2, <1>4, <1>5, <1>6, <1>7 DEF DaemonNext, PatternRequest, PatternTimeout

(* Through take-overs, retriggers and requests, no pattern loses a priority  *)
(* that its start step activated, and none leaves one behind.                *)
THEOREM PriorityActiveWhilePlaying ==
    ASSUME ~ WritesMayFail
    PROVE  DaemonSpec => []ActivePrioritiesHavePlayers
<1>1. ActiveInv /\ [DaemonNext]_daemonVars => ActiveInv'
  BY StepsAreActive
<1>2. ActiveInv => ActivePrioritiesHavePlayers
  BY ActiveOnLed DEF ActiveInv, ActivePrioritiesHavePlayers
<1>3. QED
  BY <1>1, <1>2, ActiveAtStart, PTL DEF DaemonSpec

------------------------------------------------------------------------------
(***************************************************************************)
(* The flashes of the priorities that only patterns use: only a pattern    *)
(* whose steps flash a LED starts one, and its end step stops it.          *)
(***************************************************************************)
LEMMA FlashUses ==
    ASSUME NEW p \in Patterns, NEW n \in Start .. End(p), NEW x
    PROVE  /\ x \in UsedBy(Step(p, n), Flashes) <=>
                \E i \in DOMAIN Step(p, n).leds :
                   Flashes(Step(p, n).leds[i]) /\ x \in UsedByLed(Step(p, n).leds[i])
           /\ x \in UsedBy(Step(p, n), IsSteady) <=>
                \E i \in DOMAIN Step(p, n).leds :
                   IsSteady(Step(p, n).leds[i]) /\ x \in UsedByLed(Step(p, n).leds[i])
           /\ x \in UsedBy(Step(p, n), Flashes) => x \in FlashedBy[p]
<1>1. x \in UsedBy(Step(p, n), Flashes) <=>
        \E i \in DOMAIN Step(p, n).leds :
           Flashes(Step(p, n).leds[i]) /\ x \in UsedByLed(Step(p, n).leds[i])
  BY DEF UsedBy
<1>2. x \in UsedBy(Step(p, n), IsSteady) <=>
        \E i \in DOMAIN Step(p, n).leds :
           IsSteady(Step(p, n).leds[i]) /\ x \in UsedByLed(Step(p, n).leds[i])
  BY DEF UsedBy
<1>3. FlashedBy[p] = UNION {UsedBy(Step(p, m), Flashes) : m \in Start .. End(p)}
  BY DEF FlashedBy
<1>4. x \in UsedBy(Step(p, n), Flashes) => x \in FlashedBy[p]
  <2> DEFINE U(m) == UsedBy(Step(p, m), Flashes)
  <2>1. FlashedBy[p] = UNION {U(m) : m \in Start .. End(p)}
    BY <1>3
  <2> HIDE DEF U
  <2>2. x \in U(n) => x \in FlashedBy[p]
    BY <2>1
  <2>3. QED
    BY <2>2 DEF U
<1>5. QED
  BY <1>1, <1>2, <1>4

(* What the operations of a LED of a step do to the flash of a priority.     *)
LEMMA EntryIdle ==
    ASSUME NEW l \in LEDs, NEW d \in PatternPriorities, NEW p \in Patterns,
           NEW n \in Start .. End(p), NEW i \in DOMAIN Step(p, n).leds
    PROVE  LET e == Step(p, n).leds[i]
           IN  /\ Activates(e) => \A q \in Led!IdleAt(d) :
                    /\ Led!ActivateLed(q, e.priority, TRUE) \in Led!IdleAt(d)
                    /\ Led!DeactivateLed(q, e.priority, TRUE) \in Led!IdleAt(d)
               /\ e.state # Led!UNKNOWN /\ Reaches(e, l)
                     /\ ~ (Flashes(e) /\ <<l, d>> \in UsedByLed(e)) =>
                    \A q \in Led!IdleAt(d) : Led!SetLed(q, StepRequest(e), TRUE) \in Led!IdleAt(d)
               /\ IsSteady(e) /\ <<l, d>> \in UsedByLed(e) =>
                    /\ e.state # Led!UNKNOWN
                    /\ \A q \in Led!LedType :
                          /\ Led!SetLed(q, StepRequest(e), TRUE) \in Led!IdleAt(d)
                          /\ Led!SetLed(q, StepRequest(e), TRUE).ctx[d].state = e.state
<1> DEFINE e == Step(p, n).leds[i]
           req == StepRequest(e)
<1>1. IsEntry(e) /\ (<<l, d>> \in UsedByLed(e) <=> Reaches(e, l) /\ PriorityOf(e) = d)
  BY EntriesAreLeds, EntryUses
<1>2. d \in Led!Priorities /\ d # Led!LOCKED
  BY PatternPriority
<1> HIDE DEF e
<1>3. ASSUME Activates(e), NEW q \in Led!IdleAt(d)
      PROVE  /\ Led!ActivateLed(q, e.priority, TRUE) \in Led!IdleAt(d)
             /\ Led!DeactivateLed(q, e.priority, TRUE) \in Led!IdleAt(d)
  <2>1. e.priority \in Led!Priorities
    BY <1>1, <1>3, EntryType
  <2>2. \A ok \in BOOLEAN : /\ Led!ActivateLed(q, e.priority, ok) \in Led!IdleAt(d)
                            /\ Led!DeactivateLed(q, e.priority, ok) \in Led!IdleAt(d)
    BY <1>2, <1>3, <2>1, Led!ActivateIdle, ControllerAssumptions
  <2>3. QED
    BY <2>2
<1>4. ASSUME e.state # Led!UNKNOWN
      PROVE  /\ req \in Led!RequestType
             /\ e.state \in Supported => Led!IsSteadyRequest(req)
             /\ req.priority = PriorityOf(e) /\ req.state = e.state
  <2>1. req \in Led!RequestType
    BY <1>1, <1>4, EntryType
  <2>2. /\ e.state \in Supported => Led!IsSteadyRequest(req)
        /\ req.priority = PriorityOf(e) /\ req.state = e.state
    BY DEF StepRequest, Led!IsSteadyRequest
  <2>3. QED
    BY <2>1, <2>2
<1>5. ASSUME e.state # Led!UNKNOWN, Reaches(e, l), ~ (Flashes(e) /\ <<l, d>> \in UsedByLed(e)),
             NEW q \in Led!IdleAt(d)
      PROVE  Led!SetLed(q, req, TRUE) \in Led!IdleAt(d)
  <2>1. req.priority # d \/ Led!IsSteadyRequest(req)
    <3>1. ASSUME req.priority = d PROVE e.state \in Supported
      BY <1>1, <1>4, <1>5, <3>1, SameNames DEF Flashes
    <3>2. QED
      BY <1>4, <1>5, <3>1
  <2> HIDE DEF req
  <2>2. \A ok \in BOOLEAN : Led!SetLed(q, req, ok) \in Led!IdleAt(d)
    BY <1>2, <1>4, <1>5, <2>1, Led!SetIdle, ControllerAssumptions
  <2>3. QED
    BY <2>2
<1>6. IsSteady(e) => e.state # Led!UNKNOWN
  BY SameNames DEF IsSteady
<1>7. ASSUME IsSteady(e), <<l, d>> \in UsedByLed(e), NEW q \in Led!LedType
      PROVE  /\ Led!SetLed(q, req, TRUE) \in Led!IdleAt(d)
             /\ Led!SetLed(q, req, TRUE).ctx[d].state = e.state
  <2>1. e.state # Led!UNKNOWN /\ e.state \in Supported /\ PriorityOf(e) = d
    BY <1>1, <1>6, <1>7 DEF IsSteady
  <2>2. /\ req \in Led!RequestType /\ Led!IsSteadyRequest(req) /\ req.priority = d
        /\ req.state = e.state
    BY <1>4, <2>1
  <2>3. Led!MayUpdate(q, req)
    BY <1>2, <2>2 DEF Led!MayUpdate
  <2> HIDE DEF req
  <2>4. /\ Led!SetLed(q, req, TRUE) \in Led!IdleAt(d)
        /\ Led!SetLed(q, req, TRUE).ctx[d].state = req.state
    BY <1>2, <2>2, <2>3, Led!SteadyStopsFlash, ControllerAssumptions
  <2>5. QED
    BY <2>2, <2>4
<1>8. QED
  BY <1>3, <1>5, <1>6, <1>7 DEF e

LEMMA IdleType ==
    ASSUME NEW d
    PROVE  Led!IdleAt(d) \subseteq Led!LedType
BY DEF Led!IdleAt

LEMMA StepIdle ==
    ASSUME NEW l \in LEDs, NEW d \in PatternPriorities, NEW p \in Patterns,
           NEW n \in Start .. End(p)
    PROVE  /\ <<l, d>> \notin FlashedBy[p] => \A r \in Led!IdleAt(d) :
                 PerformStep(r, l, p, n, TRUE) \in Led!IdleAt(d)
           /\ TidyPatterns /\ n = End(p) /\ <<l, d>> \in FlashedBy[p] => \A r \in Led!LedType :
                 PerformStep(r, l, p, n, TRUE) \in Led!IdleAt(d)
<1> DEFINE entries == Step(p, n).leds
           C == Led!IdleAt(d)
           After(q, i) == PerformLed(q, l, entries[i], n = Start, n = End(p), TRUE)
<1>1. C \subseteq Led!LedType
  BY IdleType
<1>2. ASSUME ~ <<l, d>> \in UsedBy(Step(p, n), Flashes), NEW q \in C, NEW i \in DOMAIN entries
      PROVE  After(q, i) \in C
  <2> DEFINE e == entries[i]
  <2>1. ~ (Flashes(e) /\ <<l, d>> \in UsedByLed(e))
    BY <1>2, FlashUses
  <2>2. /\ Activates(e) => \A s \in C : /\ Led!ActivateLed(s, e.priority, TRUE) \in C
                                        /\ Led!DeactivateLed(s, e.priority, TRUE) \in C
        /\ Reaches(e, l) /\ e.state # Led!UNKNOWN =>
              \A s \in C : Led!SetLed(s, StepRequest(e), TRUE) \in C
    BY <2>1, EntryIdle
  <2> HIDE DEF e, C
  <2>3. PerformLed(q, l, e, n = Start, n = End(p), TRUE) \in C
    BY <1>2, <2>2, PerformLedCloses
  <2>4. QED
    BY <2>3 DEF e
<1>3. ASSUME <<l, d>> \notin FlashedBy[p], NEW r \in C
      PROVE  PerformStep(r, l, p, n, TRUE) \in C
  <2>1. ~ <<l, d>> \in UsedBy(Step(p, n), Flashes)
    BY <1>3, FlashUses
  <2>2. \A q \in C, i \in DOMAIN entries : After(q, i) \in C
    BY <1>2, <2>1
  <2> HIDE DEF C
  <2>3. \A ok \in BOOLEAN : ok = TRUE => PerformStep(r, l, p, n, ok) \in C
    BY <1>1, <1>3, <2>2, PerformStepCloses
  <2>4. QED
    BY <2>3
<1>4. ASSUME TidyPatterns, n = End(p), <<l, d>> \in FlashedBy[p], NEW r \in Led!LedType
      PROVE  PerformStep(r, l, p, n, TRUE) \in C
  <2> DEFINE T == Led!LedType
  <2>1. /\ <<l, d>> \in UsedBy(Step(p, n), IsSteady)
        /\ ~ <<l, d>> \in UsedBy(Step(p, n), Flashes)
    BY <1>4 DEF TidyPatterns
  <2>2. PICK i \in DOMAIN entries : IsSteady(entries[i]) /\ <<l, d>> \in UsedByLed(entries[i])
    BY <2>1, FlashUses
  <2>3. Start # n
    BY <1>4, StepsCount DEF Start
  <2>4. ASSUME NEW q \in T, NEW j \in DOMAIN entries PROVE After(q, j) \in T
    <3>1. \A ok \in BOOLEAN : PerformLed(q, l, entries[j], n = Start, n = End(p), ok) \in T
      BY EntriesAreLeds, PerformLedType
    <3>2. QED
      BY <3>1
  <2>5. ASSUME NEW q \in T PROVE After(q, i) \in C
    <3> DEFINE e == entries[i]
    <3>1. /\ e.state # Led!UNKNOWN /\ Reaches(e, l)
          /\ \A s \in T : Led!SetLed(s, StepRequest(e), TRUE) \in C
          /\ Activates(e) => \A s \in C : Led!DeactivateLed(s, e.priority, TRUE) \in C
      <4>1. IsSteady(e) /\ <<l, d>> \in UsedByLed(e)
        BY <2>2
      <4>2. Reaches(e, l)
        BY <4>1, EntryUses
      <4>3. e.state # Led!UNKNOWN /\ \A s \in T : Led!SetLed(s, StepRequest(e), TRUE) \in C
        <5>1. IsSteady(e) /\ <<l, d>> \in UsedByLed(e) =>
                /\ e.state # Led!UNKNOWN
                /\ \A s \in Led!LedType :
                      /\ Led!SetLed(s, StepRequest(e), TRUE) \in Led!IdleAt(d)
                      /\ Led!SetLed(s, StepRequest(e), TRUE).ctx[d].state = e.state
          <6> HIDE DEF T, C
          <6> QED
            BY EntryIdle, ZenonT(30)
        <5> HIDE DEF e
        <5>2. QED
          BY <4>1, <5>1
      <4>4. Activates(e) => \A s \in C : Led!DeactivateLed(s, e.priority, TRUE) \in C
        BY EntryIdle
      <4> HIDE DEF e, C, T
      <4>5. QED
        BY <4>2, <4>3, <4>4
    <3> HIDE DEF e, C, T
    <3>2. ASSUME NEW starting, NEW stopping, ~ starting
          PROVE  PerformLed(q, l, e, starting, stopping, TRUE) \in C
      <4>1. Leads(T, T, C, C, e, starting, stopping, TRUE)
        BY <1>1, <3>1, <3>2 DEF Leads, T
      <4>2. QED
        BY <3>1, <4>1, PerformLedEnters
    <3>3. QED
      BY <2>3, <3>2 DEF e
  <2>6. StepLeads(T, C, i, l, p, n, TRUE)
    <3>1. \A q \in T \cap C, j \in DOMAIN entries : j > i => After(q, j) \in C
      BY <1>2, <2>1
    <3>2. T \subseteq Led!LedType /\ i \in DOMAIN entries
      OBVIOUS
    <3> HIDE DEF C, T
    <3>3. QED
      BY <2>4, <2>5, <3>1, <3>2 DEF StepLeads
  <2> HIDE DEF C
  <2>7. \A ok \in BOOLEAN : StepLeads(T, C, i, l, p, n, ok) => PerformStep(r, l, p, n, ok) \in T \cap C
    BY <1>4, PerformStepEnters
  <2>8. QED
    BY <2>6, <2>7
<1>5. QED
  BY <1>3, <1>4

(* On a LED, each flash of such a priority has a player that may stop it.    *)
FlashesOn(l) ==
    {x \in (SUBSET Steps) \X Led!LedType :
        \A d \in PatternPriorities :
           x[2] \in Led!IdleAt(d) \/ \E y \in x[1] : <<l, d>> \in FlashedBy[y[1]]}

LEMMA StepsKeepFlashes ==
    ASSUME TidyPatterns, NEW l \in LEDs
    PROVE  KeptBySteps(FlashesOn(l), l)
<1> SUFFICES ASSUME NEW A \in SUBSET Steps, NEW r \in Led!LedType, <<A, r>> \in FlashesOn(l)
             PROVE  /\ \A P \in SUBSET Patterns :
                          (\A p \in P : ~ HasLeds(p, End(p))) => <<Without(A, P), r>> \in FlashesOn(l)
                    /\ \A p \in Patterns : Apart(A, p) =>
                          /\ <<Without(A, {p}), PerformStep(r, l, p, End(p), TRUE)>> \in FlashesOn(l)
                          /\ <<WithStep(A, p, Start), PerformStep(r, l, p, Start, TRUE)>> \in FlashesOn(l)
                          /\ p \in PatternsOf(A) => \A n \in 1 .. NumSteps(p) :
                                <<WithStep(A, p, n), PerformStep(r, l, p, n, TRUE)>> \in FlashesOn(l)
  BY DEF KeptBySteps
<1> DEFINE Flashed(y, d) == <<l, d>> \in FlashedBy[y[1]]
<1>1. \A d \in PatternPriorities : r \in Led!IdleAt(d) \/ \E y \in A : Flashed(y, d)
  BY DEF FlashesOn
<1>2. ASSUME NEW B \in SUBSET Steps, NEW new \in Led!LedType,
             \A d \in PatternPriorities : new \in Led!IdleAt(d) \/ \E y \in B : Flashed(y, d)
      PROVE  <<B, new>> \in FlashesOn(l)
  BY <1>2 DEF FlashesOn
<1>3. ASSUME NEW P \in SUBSET Patterns, \A p \in P : ~ HasLeds(p, End(p))
      PROVE  <<Without(A, P), r>> \in FlashesOn(l)
  <2>1. ASSUME NEW p \in P, NEW d PROVE <<l, d>> \notin FlashedBy[p]
    <3>1. End(p) \in Start .. End(p)
      BY StepsCount DEF Start
    <3>2. DOMAIN Step(p, End(p)).leds = {}
      BY <1>3, <3>1, StepLeds DEF HasLeds
    <3>3. UsedBy(Step(p, End(p)), IsSteady) = {}
      BY <3>2 DEF UsedBy
    <3>4. QED
      BY <3>3 DEF TidyPatterns
  <2>2. Without(A, P) \in SUBSET Steps
    BY DEF Without
  <2>3. \A d : \A y \in A : Flashed(y, d) => y \in Without(A, P)
    BY <2>1 DEF Without
  <2> HIDE DEF Flashed
  <2>4. \A d \in PatternPriorities :
           r \in Led!IdleAt(d) \/ \E y \in Without(A, P) : Flashed(y, d)
    BY <1>1, <2>3
  <2>5. QED
    BY <1>2, <2>2, <2>4
<1>4. ASSUME NEW p \in Patterns, Apart(A, p)
      PROVE  /\ <<Without(A, {p}), PerformStep(r, l, p, End(p), TRUE)>> \in FlashesOn(l)
             /\ <<WithStep(A, p, Start), PerformStep(r, l, p, Start, TRUE)>> \in FlashesOn(l)
             /\ p \in PatternsOf(A) => \A n \in 1 .. NumSteps(p) :
                   <<WithStep(A, p, n), PerformStep(r, l, p, n, TRUE)>> \in FlashesOn(l)
  <2> DEFINE new(n) == PerformStep(r, l, p, n, TRUE)
             others == Without(A, {p})
  <2>1. ASSUME NEW n \in Start .. End(p)
        PROVE  /\ new(n) \in Led!LedType
               /\ \A d \in PatternPriorities :
                     /\ <<l, d>> \notin FlashedBy[p] /\ r \in Led!IdleAt(d) => new(n) \in Led!IdleAt(d)
                     /\ n = End(p) /\ <<l, d>> \in FlashedBy[p] => new(n) \in Led!IdleAt(d)
    <3>1. new(n) \in Led!LedType
      <4>1. \A ok \in BOOLEAN : PerformStep(r, l, p, n, ok) \in Led!LedType
        BY PerformStepType
      <4>2. QED
        BY <4>1
    <3>2. ASSUME NEW d \in PatternPriorities
          PROVE  /\ <<l, d>> \notin FlashedBy[p] /\ r \in Led!IdleAt(d) => new(n) \in Led!IdleAt(d)
                 /\ n = End(p) /\ <<l, d>> \in FlashedBy[p] => new(n) \in Led!IdleAt(d)
      BY StepIdle
    <3> HIDE DEF new
    <3>3. QED
      BY <3>1, <3>2
  <2>2. others \in SUBSET Steps /\ \A y : y \in others <=> y \in A /\ y[1] # p
    BY DEF Without
  <2>3. Start \in Start .. End(p) /\ End(p) \in Start .. End(p)
    BY StepsCount DEF Start
  <2> HIDE DEF new, others
  <2>4. ASSUME NEW d \in PatternPriorities, <<l, d>> \notin FlashedBy[p]
        PROVE  r \in Led!IdleAt(d) \/ \E y \in others : Flashed(y, d)
    BY <1>1, <2>2, <2>4
  <2>5. <<others, new(End(p))>> \in FlashesOn(l)
    <3> HIDE DEF Flashed
    <3>1. \A d \in PatternPriorities :
             new(End(p)) \in Led!IdleAt(d) \/ \E y \in others : Flashed(y, d)
      BY <2>1, <2>3, <2>4
    <3>2. QED
      BY <1>2, <2>1, <2>2, <2>3, <3>1
  <2>6. ASSUME NEW n \in Start .. End(p) PROVE <<WithStep(A, p, n), new(n)>> \in FlashesOn(l)
    <3> DEFINE x == <<p, n>>
               B == WithStep(A, p, n)
    <3>1. x \in Steps /\ \A d : <<l, d>> \in FlashedBy[p] => Flashed(x, d)
      BY StepOfPattern DEF Start
    <3>2. B = others \cup {x}
      BY DEF WithStep, others
    <3> HIDE DEF x, B, Flashed
    <3>3. B \in SUBSET Steps
      BY <2>2, <3>1, <3>2
    <3>4. \A d \in PatternPriorities : new(n) \in Led!IdleAt(d) \/ \E y \in B : Flashed(y, d)
      BY <2>1, <2>4, <3>1, <3>2
    <3>5. <<B, new(n)>> \in FlashesOn(l)
      BY <1>2, <2>1, <3>3, <3>4
    <3>6. QED
      BY <3>5 DEF B
  <2>7. \A n \in 1 .. NumSteps(p) : n \in Start .. End(p)
    BY StepsCount DEF Start
  <2>8. QED
    BY <2>3, <2>5, <2>6, <2>7 DEF new, others
<1>5. QED
  BY <1>3, <1>4

(* Clients have their own priorities, and a flash goes on only if it runs.   *)
LEMMA ClientsKeepIdle ==
    ASSUME Ctl!Request, NEW l \in LEDs, NEW d \in PatternPriorities, leds[l] \in Led!IdleAt(d)
    PROVE  leds'[l] \in Led!IdleAt(d)
<1> DEFINE C == Led!IdleAt(d)
<1>1. ASSUME NEW q \in C, NEW ok \in Led!Outcomes
      PROVE  /\ \A req \in Led!SetRequests : Led!SetLed(q, req, ok) \in C
             /\ \A p \in RequestPriorities, k \in LockIds :
                   Led!LockAndActivate(q, p, k, ok) \in C /\ Led!UnlockAndDeactivate(q, p, k, ok) \in C
  <2>1. ok \in BOOLEAN /\ d \in Led!Priorities /\ d \notin RequestPriorities
    BY PatternPriority, Led!OutcomesType, ControllerAssumptions
  <2>2. ASSUME NEW req \in Led!SetRequests PROVE Led!SetLed(q, req, ok) \in C
    <3>1. req \in Led!RequestType
      BY Led!SetRequestsType, ControllerAssumptions
    <3>2. req.priority \in RequestPriorities
      BY DEF Led!SetRequests
    <3>3. QED
      BY <2>1, <3>1, <3>2, Led!SetIdle, ControllerAssumptions
  <2>3. ASSUME NEW p \in RequestPriorities, NEW k \in LockIds
        PROVE  Led!LockAndActivate(q, p, k, ok) \in C /\ Led!UnlockAndDeactivate(q, p, k, ok) \in C
    <3>1. p \in Led!Priorities
      BY ControllerAssumptions DEF Led!RequestsAssumption
    <3>2. QED
      BY <2>1, <3>1, Led!LockIdle, ControllerAssumptions
  <2>4. QED
    BY <2>2, <2>3
<1>2. Led!Request
  BY SameRequest
<1> HIDE DEF C
<1>3. leds[l] \in C
  BY DEF C
<1>4. leds'[l] \in C
  BY <1>1, <1>2, <1>3, Led!RequestCloses, ControllerAssumptions
<1>5. QED
  BY <1>4 DEF C

LEMMA FlashesKeepIdle ==
    ASSUME leds = [l \in LEDs |-> leds[l]], NEW l \in LEDs, NEW d \in PatternPriorities,
           leds[l] \in Led!IdleAt(d), NEW m \in LEDs, NEW p \in Ctl!Priorities, Ctl!Timeout(m, p)
    PROVE  leds'[l] \in Led!IdleAt(d)
<1>1. leds'[l] = leds[l] \/ Led!TimeoutStep(leds[l], leds'[l], p)
  BY FlashOfLed
<1>2. p \in Led!Priorities /\ d \in Led!Priorities
  BY SameNames, PatternPriority
<1>3. Led!TimeoutStep(leds[l], leds'[l], p) => leds'[l] \in Led!IdleAt(d)
  BY <1>2, Led!FlashIdle, ControllerAssumptions
<1>4. QED
  BY <1>1, <1>3

(* The invariant, with the flashes                                           *)
FlashesInv ==
    /\ ActiveInv
    /\ \A l \in LEDs :
          running /\ TidyPatterns => <<CurrentSteps(playing), leds[l]>> \in FlashesOn(l)

LEMMA FlashesOnLed ==
    ASSUME PlayerInv, NEW l \in LEDs, leds[l] \in Led!LedType
    PROVE  <<CurrentSteps(playing), leds[l]>> \in FlashesOn(l) <=>
              \A d \in PatternPriorities :
                 leds[l] \in Led!IdleAt(d) \/ \E p \in Playing : <<l, d>> \in FlashedBy[p]
<1> DEFINE A == CurrentSteps(playing)
<1>1. A \in SUBSET Steps /\ PatternsOf(A) = Playing
  <2>1. QueueInv(playing) /\ PlayersOf(playing) = Playing
    BY DEF PlayerInv, PlayersOf, Playing
  <2>2. QED
    BY <2>1, CurrentStepsType
<1> HIDE DEF A
<1>2. \A d : (\E y \in A : <<l, d>> \in FlashedBy[y[1]]) <=> (\E p \in Playing : <<l, d>> \in FlashedBy[p])
  BY <1>1 DEF PatternsOf
<1>3. <<A, leds[l]>> \in FlashesOn(l) <=>
        \A d \in PatternPriorities :
           leds[l] \in Led!IdleAt(d) \/ \E y \in A : <<l, d>> \in FlashedBy[y[1]]
  BY <1>1 DEF FlashesOn
<1>4. QED
  BY <1>2, <1>3 DEF A

LEMMA NoFlashAtStart == DaemonInit => FlashesInv
<1> SUFFICES ASSUME DaemonInit PROVE FlashesInv
  OBVIOUS
<1>1. ActiveInv /\ Led!Init
  BY ActiveAtStart, SameInit DEF DaemonInit
<1>2. PICK opened \in Led!Outcomes :
        leds \in [LEDs -> {Led!NewLed(s, opened) : s \in ReportedStates}]
  BY <1>1 DEF Led!Init
<1>3. ASSUME NEW l \in LEDs, NEW d \in PatternPriorities PROVE leds[l] \in Led!IdleAt(d)
  <2>1. leds[l] \in Led!LedType /\ d \in Led!Priorities
    BY <1>1, PatternPriority DEF ActiveInv
  <2>2. PICK s \in ReportedStates : leds[l] = Led!NewLed(s, opened)
    BY <1>2
  <2>3. leds[l].ctx[d].current = 0 /\ leds[l].ctx[d].timer = FALSE
    BY <2>1, <2>2 DEF Led!NewLed, Led!NewContext
  <2>4. QED
    BY <2>1, <2>3 DEF Led!IdleAt
<1>4. QED
  BY <1>1, <1>3, FlashesOnLed DEF FlashesInv, ActiveInv

LEMMA StepsStopFlashes ==
    ASSUME ~ WritesMayFail, FlashesInv, [DaemonNext]_daemonVars
    PROVE  FlashesInv'
<1>1. /\ leds = [l \in LEDs |-> leds[l]] /\ PlayerInv /\ \A l \in LEDs : leds[l] \in Led!LedType
      /\ ActiveInv' /\ PlayerInv' /\ \A l \in LEDs : leds'[l] \in Led!LedType
  BY StepsAreActive DEF ActiveInv, FlashesInv
<1>2. ASSUME Request \/ \E p \in Patterns : Timeout(p), PlayerActs PROVE FlashesInv'
  <2>1. running' = running
    BY <1>2 DEF Request, Play, Retrigger, Stop, Timeout
  <2>2. \A l \in LEDs : leds'[l] = PerformSteps(leds[l], l, performed', {}, TRUE)
    BY <1>2, PlayerActsOnLed
  <2>3. ASSUME NEW l \in LEDs, running', TidyPatterns
        PROVE  <<CurrentSteps(playing'), leds'[l]>> \in FlashesOn(l)
    <3> DEFINE G == FlashesOn(l)
               r == leds[l]
    <3>1. <<CurrentSteps(playing), r>> \in G /\ r \in Led!LedType
      BY <1>1, <2>1, <2>3 DEF FlashesInv
    <3>2. KeptBySteps(G, l)
      BY <2>3, StepsKeepFlashes
    <3> HIDE DEF G, r
    <3>3. <<CurrentSteps(playing'), PerformSteps(r, l, performed', {}, TRUE)>> \in G
      BY <1>1, <1>2, <3>1, <3>2, HandlersKeep
    <3>4. QED
      BY <2>2, <3>3 DEF G, r
  <2>4. QED
    BY <1>1, <2>3 DEF FlashesInv, TidyPatterns
<1>3. ASSUME UNCHANGED vars,
             \A l \in LEDs, d \in PatternPriorities :
                leds[l] \in Led!IdleAt(d) => leds'[l] \in Led!IdleAt(d)
      PROVE  FlashesInv'
  <2>1. playing' = playing /\ running' = running
    BY <1>3 DEF vars
  <2>2. ASSUME NEW l \in LEDs, <<CurrentSteps(playing), leds[l]>> \in FlashesOn(l)
        PROVE  <<CurrentSteps(playing'), leds'[l]>> \in FlashesOn(l)
    <3>1. <<CurrentSteps(playing), leds'[l]>> \in FlashesOn(l)
      BY <1>1, <1>3, <2>2 DEF FlashesOn
    <3>2. QED
      BY <2>1, <3>1
  <2>3. QED
    BY <1>1, <2>1, <2>2 DEF FlashesInv, TidyPatterns
<1>4. ASSUME ClientRequest PROVE FlashesInv'
  <2>1. Ctl!Request /\ UNCHANGED vars
    BY <1>4 DEF ClientRequest
  <2>2. QED
    BY <1>3, <2>1, ClientsKeepIdle
<1>5. ASSUME NEW m \in LEDs, NEW p \in Ctl!Priorities, FlashTimeout(m, p) PROVE FlashesInv'
  <2>1. Ctl!Timeout(m, p) /\ UNCHANGED vars
    BY <1>5 DEF FlashTimeout
  <2>2. QED
    BY <1>1, <1>3, <1>5, <2>1, FlashesKeepIdle
<1>6. ASSUME Shutdown PROVE FlashesInv'
  <2>1. ~ running'
    BY <1>6 DEF Shutdown, Deinit
  <2>2. QED
    BY <1>1, <2>1 DEF FlashesInv
<1>7. ASSUME UNCHANGED daemonVars PROVE FlashesInv'
  <2>1. UNCHANGED vars /\ leds' = leds
    BY <1>7 DEF daemonVars, vars
  <2>2. QED
    BY <1>3, <2>1
<1>8. QED
  BY <1>2, <1>4, <1>5, <1>6, <1>7 DEF DaemonNext, PatternRequest, PatternTimeout

(* No flash that a pattern started goes on after the pattern has ended.      *)
THEOREM FlashesEndWithPatterns ==
    ASSUME ~ WritesMayFail
    PROVE  DaemonSpec => []FlashesStopWithPatterns
<1>1. FlashesInv /\ [DaemonNext]_daemonVars => FlashesInv'
  BY StepsStopFlashes
<1>2. FlashesInv => FlashesStopWithPatterns
  BY FlashesOnLed DEF FlashesInv, ActiveInv, FlashesStopWithPatterns, Led!IdleAt
<1>3. QED
  BY <1>1, <1>2, NoFlashAtStart, PTL DEF DaemonSpec

------------------------------------------------------------------------------
(***************************************************************************)
(* What the current steps of playing patterns say is what LEDs show, if    *)
(* CRITICAL isn't used and no flash of a lock outlives it.                 *)
(***************************************************************************)
LocksAreSteady ==
    \A req \in Ctl!SetRequests :
        req.priority = Ctl!LOCKED => req.state \in Supported /\ req.flash = "none"

LEMMA EntryCalm ==
    ASSUME NEW e, IsEntry(e), e.priority # Ctl!CRITICAL, NEW q \in Led!Calm, NEW ok \in BOOLEAN
    PROVE  /\ Activates(e) => /\ Led!ActivateLed(q, e.priority, ok) \in Led!Calm
                              /\ Led!DeactivateLed(q, e.priority, ok) \in Led!Calm
           /\ e.state # Led!UNKNOWN => Led!SetLed(q, StepRequest(e), ok) \in Led!Calm
<1>1. ASSUME Activates(e)
      PROVE  /\ Led!ActivateLed(q, e.priority, ok) \in Led!Calm
             /\ Led!DeactivateLed(q, e.priority, ok) \in Led!Calm
  <2>1. e.priority \in Led!Priorities \ {Led!CRITICAL, Led!LOCKED}
    BY <1>1, EntryType, SameNames
  <2>2. QED
    BY <2>1, Led!CalmKept, ControllerAssumptions
<1>2. ASSUME e.state # Led!UNKNOWN PROVE Led!SetLed(q, StepRequest(e), ok) \in Led!Calm
  <2> DEFINE req == StepRequest(e)
  <2>1. req \in Led!RequestType /\ req.priority = PriorityOf(e) /\ req.lock = NoLock
    BY <1>2, EntryType DEF StepRequest
  <2>2. req.priority # Led!CRITICAL
    <3>1. DefaultPriority # Led!CRITICAL
      BY StepsAssumption, SameNames DEF Led!NORMAL, Led!CRITICAL
    <3>2. QED
      BY <2>1, <3>1, SameNames DEF PriorityOf
  <2> HIDE DEF req
  <2>3. req.priority = Led!LOCKED => ~ Led!MayUpdate(q, req)
    BY <2>1 DEF Led!MayUpdate
  <2>4. req.priority = Led!LOCKED => Led!IsSteadyRequest(req) \/ ~ Led!MayUpdate(q, req)
    BY <2>3
  <2>5. Led!SetLed(q, req, ok) \in Led!Calm
    BY <2>1, <2>2, <2>4, Led!CalmKept, ControllerAssumptions
  <2>6. QED
    BY <2>5 DEF req
<1>3. QED
  BY <1>1, <1>2

LEMMA EntryKeepsCalm ==
    ASSUME CriticalIsUnused, NEW l \in LEDs, NEW p \in Patterns, NEW n \in Start .. End(p),
           NEW i \in DOMAIN Step(p, n).leds, NEW q \in Led!Calm
    PROVE  PerformLed(q, l, Step(p, n).leds[i], n = Start, n = End(p), TRUE) \in Led!Calm
<1> DEFINE e == Step(p, n).leds[i]
           C == Led!Calm
<1>1. IsEntry(e) /\ e.priority # Ctl!CRITICAL
  BY EntriesAreLeds DEF CriticalIsUnused
<1> HIDE DEF e
<1>2. /\ Activates(e) => \A s \in C : /\ Led!ActivateLed(s, e.priority, TRUE) \in C
                                      /\ Led!DeactivateLed(s, e.priority, TRUE) \in C
      /\ e.state # Led!UNKNOWN => \A s \in C : Led!SetLed(s, StepRequest(e), TRUE) \in C
  <2>1. \A s \in C, ok \in BOOLEAN :
           /\ Activates(e) => /\ Led!ActivateLed(s, e.priority, ok) \in C
                              /\ Led!DeactivateLed(s, e.priority, ok) \in C
           /\ e.state # Led!UNKNOWN => Led!SetLed(s, StepRequest(e), ok) \in C
    BY <1>1, EntryCalm
  <2> HIDE DEF C
  <2>2. QED
    BY <2>1
<1> HIDE DEF C
<1>3. PerformLed(q, l, e, n = Start, n = End(p), TRUE) \in C
  <2>1. q \in C
    BY DEF C
  <2>2. QED
    BY <1>2, <2>1, PerformLedCloses
<1>4. QED
  BY <1>3 DEF C, e

LEMMA BetweenPatterns ==
    ASSUME CriticalIsUnused, NEW p \in Patterns, NEW n \in Start .. End(p),
           NEW i \in DOMAIN Step(p, n).leds, Step(p, n).leds[i].priority \in PatternPriorities
    PROVE  Step(p, n).leds[i].priority \in Led!Between
<1> DEFINE d == Step(p, n).leds[i].priority
<1>1. d # Led!CRITICAL
  BY SameNames DEF CriticalIsUnused
<1>2. d \in Led!Priorities /\ d # Led!NORMAL /\ d # Led!LOCKED
  BY PatternPriority
<1>3. QED
  BY <1>1, <1>2 DEF Led!Between

(* A LED of a step leaves what others show alone.                            *)
LEMMA EntryKeepsShown ==
    ASSUME CriticalIsUnused, NEW l \in LEDs, NEW d \in PatternPriorities, d \in Led!Between,
           NEW s \in Led!LedStates, NEW p \in Patterns, NEW n \in Start .. End(p),
           NEW i \in DOMAIN Step(p, n).leds, <<l, d>> \notin UsedByLed(Step(p, n).leds[i]),
           NEW q \in Led!Calm, q \in Led!ShowsAt(d, s)
    PROVE  PerformLed(q, l, Step(p, n).leds[i], n = Start, n = End(p), TRUE)
             \in Led!Calm \cap Led!ShowsAt(d, s)
<1> DEFINE e == Step(p, n).leds[i]
           C == Led!Calm \cap Led!ShowsAt(d, s)
<1>1. IsEntry(e) /\ e.priority # Ctl!CRITICAL
  BY EntriesAreLeds DEF CriticalIsUnused
<1>2. /\ Reaches(e, l) => PriorityOf(e) # d
      /\ Reaches(e, l) /\ Activates(e) => e.priority # d
  BY EntryUses DEF Uses
<1> HIDE DEF e
<1>3. ASSUME Reaches(e, l), Activates(e), NEW x \in C
      PROVE  /\ Led!ActivateLed(x, e.priority, TRUE) \in C
             /\ Led!DeactivateLed(x, e.priority, TRUE) \in C
  <2>1. x \in Led!Calm /\ x \in Led!ShowsAt(d, s) /\ e.priority \in Led!Priorities \ {d}
    BY <1>1, <1>2, <1>3, EntryType
  <2>2. /\ Led!ActivateLed(x, e.priority, TRUE) \in Led!ShowsAt(d, s)
        /\ Led!DeactivateLed(x, e.priority, TRUE) \in Led!ShowsAt(d, s)
    BY <2>1, Led!ShownKept, ControllerAssumptions
  <2>3. /\ Led!ActivateLed(x, e.priority, TRUE) \in Led!Calm
        /\ Led!DeactivateLed(x, e.priority, TRUE) \in Led!Calm
    <3>1. \A ok \in BOOLEAN : /\ Led!ActivateLed(x, e.priority, ok) \in Led!Calm
                              /\ Led!DeactivateLed(x, e.priority, ok) \in Led!Calm
      BY <1>1, <1>3, <2>1, EntryCalm
    <3>2. QED
      BY <3>1
  <2>4. QED
    BY <2>2, <2>3
<1>4. ASSUME Reaches(e, l), e.state # Led!UNKNOWN, NEW x \in C
      PROVE  Led!SetLed(x, StepRequest(e), TRUE) \in C
  <2> DEFINE req == StepRequest(e)
  <2>1. x \in Led!Calm /\ x \in Led!ShowsAt(d, s)
    OBVIOUS
  <2>2. req \in Led!RequestType /\ req.priority = PriorityOf(e)
    BY <1>1, <1>4, EntryType DEF StepRequest
  <2>3. req.priority \notin {Led!CRITICAL, d}
    <3>1. DefaultPriority # Led!CRITICAL
      BY StepsAssumption, SameNames DEF Led!NORMAL, Led!CRITICAL
    <3>2. PriorityOf(e) # Led!CRITICAL
      BY <1>1, <3>1, SameNames DEF PriorityOf
    <3>3. QED
      BY <1>2, <1>4, <2>2, <3>2
  <2>4. Led!SetLed(x, req, TRUE) \in Led!Calm
    <3>1. \A ok \in BOOLEAN : Led!SetLed(x, StepRequest(e), ok) \in Led!Calm
      BY <1>1, <1>4, <2>1, EntryCalm
    <3>2. QED
      BY <3>1
  <2> HIDE DEF req
  <2>5. Led!SetLed(x, req, TRUE) \in Led!ShowsAt(d, s)
    BY <2>1, <2>2, <2>3, Led!ShownKept, ControllerAssumptions
  <2>6. QED
    BY <2>4, <2>5 DEF req
<1>5. q \in C
  OBVIOUS
<1> HIDE DEF C
<1>6. PerformLed(q, l, e, n = Start, n = End(p), TRUE) \in C
  BY <1>3, <1>4, <1>5, PerformLedCloses
<1>7. QED
  BY <1>6 DEF e, C

LEMMA NoPriorityIsNone == NoPriority \notin PatternPriorities
BY StepsAssumption DEF PatternPriorities

(* A LED of a step that sets a state shows it.                               *)
LEMMA EntryShows ==
    ASSUME CriticalIsUnused, NEW l \in LEDs, NEW p \in Patterns, NEW n \in Start .. End(p),
           n # End(p), NEW i \in DOMAIN Step(p, n).leds, SetLast(Step(p, n), i, l),
           Step(p, n).leds[i].priority \in PatternPriorities, NEW q \in Led!Calm
    PROVE  PerformLed(q, l, Step(p, n).leds[i], n = Start, n = End(p), TRUE)
             \in Led!ShowsAt(Step(p, n).leds[i].priority, Step(p, n).leds[i].state)
<1> DEFINE e == Step(p, n).leds[i]
           d == e.priority
           C == Led!Calm
           D == Led!Calm \cap Led!ShowsAt(d, e.state)
<1>1. IsEntry(e) /\ d # Ctl!CRITICAL /\ d \in PatternPriorities /\ d \in Led!Between
  BY EntriesAreLeds, BetweenPatterns DEF CriticalIsUnused
<1>2. e.state # Led!UNKNOWN /\ Reaches(e, l)
  <2>1. e.name \in DOMAIN LedsNamed
    BY StepIsStep DEF IsStep, IsLed
  <2> HIDE DEF e
  <2>2. l \in LedsNamed[e.name] <=> Reaches(e, l)
    BY <2>1, StepsAssumption DEF Reaches
  <2>3. l \in LedsNamed[e.name] /\ e.state # Ctl!UNKNOWN
    BY DEF SetLast, e
  <2>4. QED
    BY <2>2, <2>3, SameNames
<1> HIDE DEF e
<1>3. \A s \in C : /\ Activates(e) => Led!ActivateLed(s, e.priority, TRUE) \in C
                   /\ Led!SetLed(s, StepRequest(e), TRUE) \in C
  <2>1. \A s \in C, ok \in BOOLEAN :
           /\ Activates(e) => Led!ActivateLed(s, e.priority, ok) \in C
           /\ Led!SetLed(s, StepRequest(e), ok) \in C
    BY <1>1, <1>2, EntryCalm
  <2> HIDE DEF C
  <2>2. QED
    BY <2>1
<1>4. \A s \in C : Led!SetLed(s, StepRequest(e), TRUE) \in Led!ShowsAt(d, e.state)
  <2> DEFINE req == StepRequest(e)
  <2>1. /\ req \in Led!RequestType /\ req.priority = PriorityOf(e) /\ req.flash = "none"
        /\ req.state = e.state
    BY <1>1, <1>2, EntryType DEF StepRequest
  <2>2. PriorityOf(e) = d
    BY <1>1, NoPriorityIsNone DEF PriorityOf
  <2> HIDE DEF req
  <2>3. \A s \in C : Led!SetLed(s, req, TRUE) \in Led!ShowsAt(d, req.state)
    BY <1>1, <2>1, <2>2, Led!SetShows, ControllerAssumptions
  <2>4. QED
    BY <2>1, <2>3 DEF req
<1>5. q \in C /\ D \subseteq C /\ \A s \in C : Led!SetLed(s, StepRequest(e), TRUE) \in D
  BY <1>3, <1>4
<1>6. D \subseteq Led!ShowsAt(d, e.state)
  OBVIOUS
<1> HIDE DEF C, D, d
<1>7. ASSUME NEW starting, NEW stopping, ~ stopping
      PROVE  PerformLed(q, l, e, starting, stopping, TRUE) \in D
  <2>1. Leads(C, C, D, D, e, starting, stopping, TRUE)
    BY <1>2, <1>3, <1>5, <1>7 DEF Leads
  <2>2. QED
    BY <1>2, <1>5, <2>1, PerformLedEnters
<1>8. PerformLed(q, l, e, n = Start, n = End(p), TRUE) \in D
  BY <1>7
<1>9. PerformLed(q, l, e, n = Start, n = End(p), TRUE) \in Led!ShowsAt(d, e.state)
  BY <1>6, <1>8
<1>10. QED
  BY <1>9 DEF e, d

LEMMA CalmLeds ==
    /\ Led!Calm \subseteq Led!LedType
    /\ \A d, s : Led!Calm \cap Led!ShowsAt(d, s) \subseteq Led!LedType
BY Led!CalmType, ControllerAssumptions

LEMMA StepKeepsCalm ==
    ASSUME CriticalIsUnused, NEW l \in LEDs, NEW p \in Patterns, NEW n \in Start .. End(p),
           NEW r \in Led!Calm
    PROVE  PerformStep(r, l, p, n, TRUE) \in Led!Calm
<1> DEFINE C == Led!Calm
           After(q, i) == PerformLed(q, l, Step(p, n).leds[i], n = Start, n = End(p), TRUE)
<1>1. \A q \in C, i \in DOMAIN Step(p, n).leds : After(q, i) \in C
  BY EntryKeepsCalm
<1>2. C \subseteq Led!LedType /\ r \in C
  BY CalmLeds
<1> HIDE DEF C
<1>3. \A ok \in BOOLEAN : ok = TRUE => PerformStep(r, l, p, n, ok) \in C
  BY <1>1, <1>2, PerformStepCloses
<1>4. QED
  BY <1>3 DEF C

LEMMA StepKeepsShown ==
    ASSUME CriticalIsUnused, NEW l \in LEDs, NEW d \in PatternPriorities, d \in Led!Between,
           NEW s \in Led!LedStates, NEW p \in Patterns, NEW n \in Start .. End(p),
           <<l, d>> \notin UsedByStep(Step(p, n)),
           NEW r \in Led!Calm, r \in Led!ShowsAt(d, s)
    PROVE  PerformStep(r, l, p, n, TRUE) \in Led!ShowsAt(d, s)
<1> DEFINE C == Led!Calm \cap Led!ShowsAt(d, s)
           After(q, i) == PerformLed(q, l, Step(p, n).leds[i], n = Start, n = End(p), TRUE)
<1>1. \A i \in DOMAIN Step(p, n).leds : <<l, d>> \notin UsedByLed(Step(p, n).leds[i])
  BY DEF UsedByStep
<1>2. \A q \in C, i \in DOMAIN Step(p, n).leds : After(q, i) \in C
  BY <1>1, EntryKeepsShown
<1>3. C \subseteq Led!LedType /\ r \in C
  BY CalmLeds
<1>4. C \subseteq Led!ShowsAt(d, s)
  OBVIOUS
<1> HIDE DEF C
<1>5. \A ok \in BOOLEAN : ok = TRUE => PerformStep(r, l, p, n, ok) \in C
  BY <1>2, <1>3, PerformStepCloses
<1>6. QED
  BY <1>4, <1>5

LEMMA StepShows ==
    ASSUME CriticalIsUnused, NEW l \in LEDs, NEW p \in Patterns, NEW n \in Start .. End(p),
           n # End(p), NEW i \in DOMAIN Step(p, n).leds, SetLast(Step(p, n), i, l),
           Step(p, n).leds[i].priority \in PatternPriorities, NEW r \in Led!Calm
    PROVE  PerformStep(r, l, p, n, TRUE)
             \in Led!ShowsAt(Step(p, n).leds[i].priority, Step(p, n).leds[i].state)
<1> DEFINE entries == Step(p, n).leds
           e == entries[i]
           d == e.priority
           s == e.state
           C == Led!Calm
           D == Led!ShowsAt(d, s)
           After(q, j) == PerformLed(q, l, entries[j], n = Start, n = End(p), TRUE)
<1>1. d \in PatternPriorities /\ d \in Led!Between /\ s \in Led!LedStates /\ PriorityOf(e) = d
  <2>1. d \in PatternPriorities /\ d \in Led!Between /\ s \in Led!LedStates
    BY EntriesAreLeds, BetweenPatterns DEF IsEntry
  <2>2. PriorityOf(e) = d
    BY <2>1, NoPriorityIsNone DEF PriorityOf
  <2>3. QED
    BY <2>1, <2>2
<1>2. \A j \in DOMAIN entries : j > i => <<l, d>> \notin UsedByLed(entries[j])
  BY <1>1 DEF SetLast
<1>3. \A q \in C, j \in DOMAIN entries : After(q, j) \in C
  BY EntryKeepsCalm
<1>4. \A q \in C : After(q, i) \in D
  BY EntryShows
<1>5. ASSUME NEW q \in C \cap D, NEW j \in DOMAIN entries, j > i PROVE After(q, j) \in D
  <2>1. q \in Led!Calm /\ q \in Led!ShowsAt(d, s) /\ <<l, d>> \notin UsedByLed(Step(p, n).leds[j])
    BY <1>2, <1>5
  <2> HIDE DEF d, s
  <2>2. PerformLed(q, l, Step(p, n).leds[j], n = Start, n = End(p), TRUE)
          \in Led!Calm \cap Led!ShowsAt(d, s)
    BY <1>1, <2>1, EntryKeepsShown
  <2>3. QED
    BY <2>2
<1>6. C \subseteq Led!LedType /\ r \in C /\ i \in DOMAIN entries
  BY CalmLeds
<1> HIDE DEF C, D
<1>7. StepLeads(C, D, i, l, p, n, TRUE)
  BY <1>3, <1>4, <1>5, <1>6 DEF StepLeads
<1>8. \A ok \in BOOLEAN : StepLeads(C, D, i, l, p, n, ok) => PerformStep(r, l, p, n, ok) \in C \cap D
  BY <1>6, PerformStepEnters
<1>9. PerformStep(r, l, p, n, TRUE) \in D
  BY <1>7, <1>8
<1>10. QED
  BY <1>9 DEF D


(* What the step y of a pattern says of LED l is what its record r shows.    *)
ShownAt(y, l, r) ==
    \A i \in DOMAIN Step(y[1], y[2]).leds :
        LET e == Step(y[1], y[2]).leds[i]
        IN  e.priority \in PatternPriorities /\ SetLast(Step(y[1], y[2]), i, l) =>
               r \in Led!ShowsAt(e.priority, e.state)

ShownOn(l) ==
    {x \in (SUBSET Steps) \X Led!LedType : x[2] \in Led!Calm /\ \A y \in x[1] : ShownAt(y, l, x[2])}

LEMMA OthersStayShown ==
    ASSUME CriticalIsUnused, NEW l \in LEDs, NEW p \in Patterns, NEW n \in Start .. End(p),
           NEW q \in Patterns, NEW m \in Start .. End(q), Disjoint(q, p),
           NEW r \in Led!Calm, ShownAt(<<q, m>>, l, r)
    PROVE  ShownAt(<<q, m>>, l, PerformStep(r, l, p, n, TRUE))
<1> DEFINE new == PerformStep(r, l, p, n, TRUE)
<1> SUFFICES ASSUME NEW i \in DOMAIN Step(q, m).leds,
                    Step(q, m).leds[i].priority \in PatternPriorities, SetLast(Step(q, m), i, l)
             PROVE  new \in Led!ShowsAt(Step(q, m).leds[i].priority, Step(q, m).leds[i].state)
  BY DEF ShownAt
<1> DEFINE e == Step(q, m).leds[i]
           d == e.priority
           s == e.state
<1>1. d \in PatternPriorities /\ d \in Led!Between /\ s \in Led!LedStates
  BY EntriesAreLeds, BetweenPatterns DEF IsEntry
<1>2. r \in Led!ShowsAt(d, s)
  BY DEF ShownAt
<1>3. <<l, d>> \in UsedByLed(e)
  <2>1. l \in LedsNamed[e.name]
    BY DEF SetLast
  <2>2. PriorityOf(e) = d
    BY <1>1, NoPriorityIsNone DEF PriorityOf
  <2> HIDE DEF e, d
  <2>3. QED
    BY <2>1, <2>2 DEF UsedByLed
<1>4. <<l, d>> \in UsedByPattern[q]
  <2>1. <<l, d>> \in UsedByStep(Step(q, m))
    BY <1>3 DEF UsedByStep
  <2> HIDE DEF d
  <2>2. QED
    BY <2>1 DEF UsedByPattern
<1>5. <<l, d>> \notin UsedByStep(Step(p, n))
  <2>1. UsedByStep(Step(p, n)) \subseteq UsedByPattern[p]
    BY DEF UsedByPattern
  <2>2. QED
    BY <1>4, <2>1 DEF Disjoint
<1> HIDE DEF d, s, e
<1>6. new \in Led!ShowsAt(d, s)
  BY <1>1, <1>2, <1>5, StepKeepsShown
<1>7. QED
  BY <1>6 DEF d, s, e

LEMMA StepsKeepShown ==
    ASSUME CriticalIsUnused, NEW l \in LEDs
    PROVE  KeptBySteps(ShownOn(l), l)
<1> SUFFICES ASSUME NEW A \in SUBSET Steps, NEW r \in Led!LedType, <<A, r>> \in ShownOn(l)
             PROVE  /\ \A P \in SUBSET Patterns :
                          (\A p \in P : ~ HasLeds(p, End(p))) => <<Without(A, P), r>> \in ShownOn(l)
                    /\ \A p \in Patterns : Apart(A, p) =>
                          /\ <<Without(A, {p}), PerformStep(r, l, p, End(p), TRUE)>> \in ShownOn(l)
                          /\ <<WithStep(A, p, Start), PerformStep(r, l, p, Start, TRUE)>> \in ShownOn(l)
                          /\ p \in PatternsOf(A) => \A n \in 1 .. NumSteps(p) :
                                <<WithStep(A, p, n), PerformStep(r, l, p, n, TRUE)>> \in ShownOn(l)
  BY DEF KeptBySteps
<1>1. r \in Led!Calm /\ \A y \in A : ShownAt(y, l, r)
  BY DEF ShownOn
<1>2. ASSUME NEW B \in SUBSET Steps, NEW new \in Led!Calm, \A y \in B : ShownAt(y, l, new)
      PROVE  <<B, new>> \in ShownOn(l)
  BY <1>2, CalmLeds DEF ShownOn
<1>3. \A P : Without(A, P) \in SUBSET Steps /\ Without(A, P) \subseteq A
  BY DEF Without
<1>4. \A P : <<Without(A, P), r>> \in ShownOn(l)
  BY <1>1, <1>2, <1>3
<1>5. ASSUME NEW p \in Patterns, Apart(A, p)
      PROVE  /\ <<Without(A, {p}), PerformStep(r, l, p, End(p), TRUE)>> \in ShownOn(l)
             /\ <<WithStep(A, p, Start), PerformStep(r, l, p, Start, TRUE)>> \in ShownOn(l)
             /\ p \in PatternsOf(A) => \A n \in 1 .. NumSteps(p) :
                   <<WithStep(A, p, n), PerformStep(r, l, p, n, TRUE)>> \in ShownOn(l)
  <2> DEFINE new(n) == PerformStep(r, l, p, n, TRUE)
             others == Without(A, {p})
  <2>1. ASSUME NEW n \in Start .. End(p)
        PROVE  new(n) \in Led!Calm /\ \A y \in others : ShownAt(y, l, new(n))
    <3>1. new(n) \in Led!Calm
      BY <1>1, StepKeepsCalm
    <3>2. ASSUME NEW y \in others PROVE ShownAt(y, l, new(n))
      <4>1. y \in A /\ Disjoint(y[1], p) /\ ShownAt(y, l, r)
        BY <1>1, <1>3, <1>5 DEF Apart
      <4>2. y[1] \in Patterns /\ y[2] \in Start .. End(y[1]) /\ y = <<y[1], y[2]>>
        BY <4>1, StepsOfSteps
      <4>3. ShownAt(<<y[1], y[2]>>, l, new(n))
        BY <1>1, <4>1, <4>2, OthersStayShown
      <4>4. QED
        BY <4>2, <4>3
    <3>3. QED
      BY <3>1, <3>2
  <2>2. Start \in Start .. End(p) /\ End(p) \in Start .. End(p) /\ Start # End(p)
    BY StepsCount DEF Start
  <2>3. ASSUME NEW n \in Start .. End(p), n # End(p) PROVE ShownAt(<<p, n>>, l, new(n))
    BY <1>1, <2>3, StepShows DEF ShownAt
  <2>4. others \in SUBSET Steps
    BY <1>3
  <2>5. \A n : WithStep(A, p, n) = others \cup {<<p, n>>}
    BY DEF WithStep
  <2>6. \A n \in Start .. End(p) : <<p, n>> \in Steps
    BY StepOfPattern DEF Start
  <2> HIDE DEF new, others
  <2>7. <<others, new(End(p))>> \in ShownOn(l)
    BY <1>2, <2>1, <2>2, <2>4
  <2>8. ASSUME NEW n \in Start .. End(p), n # End(p)
        PROVE  <<WithStep(A, p, n), new(n)>> \in ShownOn(l)
    <3>1. WithStep(A, p, n) \in SUBSET Steps
      BY <2>4, <2>5, <2>6
    <3>2. \A y \in WithStep(A, p, n) : ShownAt(y, l, new(n))
      BY <2>1, <2>3, <2>5, <2>8
    <3>3. QED
      BY <1>2, <2>1, <3>1, <3>2
  <2>9. \A n \in 1 .. NumSteps(p) : n \in Start .. End(p) /\ n # End(p)
    BY StepsCount DEF Start
  <2>10. QED
    BY <2>2, <2>7, <2>8, <2>9 DEF new, others
<1>6. QED
  BY <1>4, <1>5


(* Clients that leave CRITICAL alone keep what LEDs show for patterns.       *)
LEMMA RequestsKeepCalm ==
    ASSUME CriticalIsUnused, LocksAreSteady, NEW q \in Led!Calm, NEW ok \in Led!Outcomes
    PROVE  /\ \A req \in Led!SetRequests : Led!SetLed(q, req, ok) \in Led!Calm
           /\ \A p \in RequestPriorities, k \in LockIds :
                 /\ Led!LockAndActivate(q, p, k, ok) \in Led!Calm
                 /\ Led!UnlockAndDeactivate(q, p, k, ok) \in Led!Calm
<1>1. ok \in BOOLEAN /\ Led!CRITICAL \notin RequestPriorities
  BY Led!OutcomesType, ControllerAssumptions, SameNames DEF CriticalIsUnused
<1>2. ASSUME NEW req \in Led!SetRequests PROVE Led!SetLed(q, req, ok) \in Led!Calm
  <2>1. req \in Led!RequestType
    BY Led!SetRequestsType, ControllerAssumptions
  <2>2. req.priority # Led!CRITICAL
    BY <1>1 DEF Led!SetRequests
  <2>3. req.priority = Led!LOCKED => Led!IsSteadyRequest(req)
    <3>1. Ctl!SetRequests = Led!SetRequests
      BY DEF Ctl!SetRequests, Led!SetRequests
    <3>2. req.priority = Ctl!LOCKED => req.state \in Supported /\ req.flash = "none"
      BY <3>1 DEF LocksAreSteady
    <3>3. QED
      BY <3>2, SameNames DEF Led!IsSteadyRequest
  <2>4. QED
    BY <1>1, <2>1, <2>2, <2>3, Led!CalmKept, ControllerAssumptions
<1>3. ASSUME NEW p \in RequestPriorities, NEW k \in LockIds
      PROVE  /\ Led!LockAndActivate(q, p, k, ok) \in Led!Calm
             /\ Led!UnlockAndDeactivate(q, p, k, ok) \in Led!Calm
  <2>1. p \in Led!Priorities \ {Led!CRITICAL}
    BY <1>1, ControllerAssumptions DEF Led!RequestsAssumption
  <2>2. QED
    BY <1>1, <2>1, Led!CalmKept, ControllerAssumptions
<1>4. QED
  BY <1>2, <1>3

LEMMA ClientsKeepCalm ==
    ASSUME CriticalIsUnused, LocksAreSteady, Ctl!Request, NEW l \in LEDs, leds[l] \in Led!Calm
    PROVE  leds'[l] \in Led!Calm
<1> DEFINE C == Led!Calm
<1>1. \A q \in C, ok \in Led!Outcomes :
         /\ \A req \in Led!SetRequests : Led!SetLed(q, req, ok) \in C
         /\ \A p \in RequestPriorities, k \in LockIds :
               Led!LockAndActivate(q, p, k, ok) \in C /\ Led!UnlockAndDeactivate(q, p, k, ok) \in C
  BY RequestsKeepCalm
<1>2. Led!Request /\ leds[l] \in C
  BY SameRequest
<1> HIDE DEF C
<1>3. leds'[l] \in C
  BY <1>1, <1>2, Led!RequestCloses, ControllerAssumptions
<1>4. QED
  BY <1>3 DEF C

LEMMA ClientsKeepShown ==
    ASSUME CriticalIsUnused, LocksAreSteady, ~ WritesMayFail, Ctl!Request, NEW l \in LEDs,
           NEW d \in PatternPriorities, d \in Led!Between, NEW s \in Led!LedStates,
           leds[l] \in Led!Calm, leds[l] \in Led!ShowsAt(d, s)
    PROVE  leds'[l] \in Led!ShowsAt(d, s)
<1> DEFINE C == Led!Calm \cap Led!ShowsAt(d, s)
<1>1. ASSUME NEW q \in C, NEW ok \in Led!Outcomes
      PROVE  /\ \A req \in Led!SetRequests : Led!SetLed(q, req, ok) \in C
             /\ \A p \in RequestPriorities, k \in LockIds :
                   Led!LockAndActivate(q, p, k, ok) \in C /\ Led!UnlockAndDeactivate(q, p, k, ok) \in C
  <2>1. ok = TRUE /\ q \in Led!Calm /\ q \in Led!ShowsAt(d, s)
    BY DEF Led!Outcomes
  <2>2. d \notin RequestPriorities /\ Led!CRITICAL \notin RequestPriorities
    BY PatternPriority, SameNames DEF CriticalIsUnused
  <2>3. ASSUME NEW req \in Led!SetRequests PROVE Led!SetLed(q, req, ok) \in Led!ShowsAt(d, s)
    <3>1. req \in Led!RequestType
      BY Led!SetRequestsType, ControllerAssumptions
    <3>2. req.priority \notin {Led!CRITICAL, d}
      BY <2>2 DEF Led!SetRequests
    <3>3. QED
      BY <2>1, <3>1, <3>2, Led!ShownKept, ControllerAssumptions
  <2>4. ASSUME NEW p \in RequestPriorities, NEW k \in LockIds
        PROVE  /\ Led!LockAndActivate(q, p, k, ok) \in Led!ShowsAt(d, s)
               /\ Led!UnlockAndDeactivate(q, p, k, ok) \in Led!ShowsAt(d, s)
    <3>1. p \in Led!Priorities \ {d}
      BY <2>2, ControllerAssumptions DEF Led!RequestsAssumption
    <3>2. QED
      BY <2>1, <3>1, Led!ShownKept, ControllerAssumptions
  <2>5. /\ \A req \in Led!SetRequests : Led!SetLed(q, req, ok) \in Led!Calm
        /\ \A p \in RequestPriorities, k \in LockIds :
              /\ Led!LockAndActivate(q, p, k, ok) \in Led!Calm
              /\ Led!UnlockAndDeactivate(q, p, k, ok) \in Led!Calm
    BY <2>1, RequestsKeepCalm
  <2>6. QED
    BY <2>3, <2>4, <2>5
<1>2. Led!Request /\ leds[l] \in C
  BY SameRequest
<1>3. C \subseteq Led!ShowsAt(d, s)
  OBVIOUS
<1> HIDE DEF C
<1>4. leds'[l] \in C
  BY <1>1, <1>2, Led!RequestCloses, ControllerAssumptions
<1>5. QED
  BY <1>3, <1>4

LEMMA FlashesKeepShown ==
    ASSUME ~ WritesMayFail, leds = [l \in LEDs |-> leds[l]], NEW l \in LEDs, leds[l] \in Led!Calm,
           NEW m \in LEDs, NEW p \in Ctl!Priorities, Ctl!Timeout(m, p)
    PROVE  /\ leds'[l] \in Led!Calm
           /\ \A d \in Led!Between, s \in Led!LedStates :
                 leds[l] \in Led!ShowsAt(d, s) => leds'[l] \in Led!ShowsAt(d, s)
<1>1. leds'[l] = leds[l] \/ Led!TimeoutStep(leds[l], leds'[l], p)
  BY FlashOfLed
<1>2. p \in Led!Priorities
  BY SameNames
<1>3. Led!TimeoutStep(leds[l], leds'[l], p) => leds'[l] \in Led!Calm
  <2>1. \A ok \in BOOLEAN : Led!TimeoutStep(leds[l], leds'[l], p) => leds'[l] \in Led!Calm
    BY <1>2, Led!CalmKept, ControllerAssumptions
  <2>2. QED
    BY <2>1
<1>4. ASSUME NEW d \in Led!Between, NEW s \in Led!LedStates, leds[l] \in Led!ShowsAt(d, s),
             Led!TimeoutStep(leds[l], leds'[l], p)
      PROVE  leds'[l] \in Led!ShowsAt(d, s)
  BY <1>2, <1>4, Led!ShownKept, ControllerAssumptions
<1>5. QED
  BY <1>1, <1>3, <1>4


(* The invariant, with what LEDs show                                        *)
ShownInv ==
    /\ ActiveInv
    /\ \A l \in LEDs : running => <<CurrentSteps(playing), leds[l]>> \in ShownOn(l)

LEMMA ShownAtStart ==
    ASSUME CriticalIsUnused, DaemonInit
    PROVE  ShownInv
<1>1. ActiveInv /\ Led!Init /\ playing = <<>>
  BY ActiveAtStart, SameInit DEF DaemonInit, Init
<1>2. PICK opened \in Led!Outcomes :
        leds \in [LEDs -> {Led!NewLed(s, opened) : s \in ReportedStates}]
  BY <1>1 DEF Led!Init
<1>3. opened \in BOOLEAN /\ ReportedStates \subseteq Led!LedStates
  BY Led!OutcomesType, ControllerAssumptions DEF Led!StatesAssumption
<1>4. ASSUME NEW l \in LEDs PROVE leds[l] \in Led!Calm
  <2>1. leds[l] \in Led!LedType
    BY <1>1 DEF ActiveInv
  <2>2. PICK s \in ReportedStates : leds[l] = Led!NewLed(s, opened)
    BY <1>2
  <2>3. leds[l] \in Led!Uncritical
    BY <1>3, <2>2, Led!NewLedUncritical, ControllerAssumptions
  <2>4. Led!LOCKED \in Led!Priorities
    BY Led!CriticalIsPriority, ControllerAssumptions
  <2>5. leds[l].ctx[Led!LOCKED].current = 0 /\ leds[l].ctx[Led!LOCKED].timer = FALSE
    BY <2>2, <2>4 DEF Led!NewLed, Led!NewContext
  <2>6. QED
    BY <2>1, <2>3, <2>5 DEF Led!Calm, Led!IdleAt
<1>5. CurrentSteps(playing) = {}
  BY <1>1 DEF CurrentSteps
<1>6. QED
  BY <1>1, <1>4, <1>5, CalmLeds DEF ShownInv, ShownOn

LEMMA CurrentShown ==
    ASSUME CriticalIsUnused, NEW l \in LEDs, NEW A, NEW r, <<A, r>> \in ShownOn(l),
           NEW new \in Led!Calm,
           \A d \in PatternPriorities \cap Led!Between, s \in Led!LedStates :
              r \in Led!ShowsAt(d, s) => new \in Led!ShowsAt(d, s)
    PROVE  <<A, new>> \in ShownOn(l)
<1>1. A \in SUBSET Steps /\ \A y \in A : ShownAt(y, l, r)
  BY DEF ShownOn
<1>2. ASSUME NEW y \in A PROVE ShownAt(y, l, new)
  <2> SUFFICES ASSUME NEW i \in DOMAIN Step(y[1], y[2]).leds,
                      Step(y[1], y[2]).leds[i].priority \in PatternPriorities,
                      SetLast(Step(y[1], y[2]), i, l)
               PROVE  new \in Led!ShowsAt(Step(y[1], y[2]).leds[i].priority,
                                        Step(y[1], y[2]).leds[i].state)
    BY DEF ShownAt
  <2> DEFINE d == Step(y[1], y[2]).leds[i].priority
             s == Step(y[1], y[2]).leds[i].state
  <2>1. y[1] \in Patterns /\ y[2] \in Start .. End(y[1])
    BY <1>1, StepsOfSteps
  <2>2. d \in PatternPriorities \cap Led!Between /\ s \in Led!LedStates
    BY <2>1, EntriesAreLeds, BetweenPatterns DEF IsEntry
  <2>3. r \in Led!ShowsAt(d, s)
    BY <1>1 DEF ShownAt
  <2> HIDE DEF d, s
  <2>4. new \in Led!ShowsAt(d, s)
    BY <2>2, <2>3
  <2>5. QED
    BY <2>4 DEF d, s
<1>3. QED
  BY <1>1, <1>2, CalmLeds DEF ShownOn

LEMMA StepsAreShown ==
    ASSUME CriticalIsUnused, LocksAreSteady, ~ WritesMayFail, ShownInv, [DaemonNext]_daemonVars
    PROVE  ShownInv'
<1>1. /\ leds = [l \in LEDs |-> leds[l]] /\ PlayerInv /\ \A l \in LEDs : leds[l] \in Led!LedType
      /\ ActiveInv'
  BY StepsAreActive DEF ActiveInv, ShownInv
<1>2. ASSUME Request \/ \E p \in Patterns : Timeout(p), PlayerActs PROVE ShownInv'
  <2>1. running' = running
    BY <1>2 DEF Request, Play, Retrigger, Stop, Timeout
  <2>2. \A l \in LEDs : leds'[l] = PerformSteps(leds[l], l, performed', {}, TRUE)
    BY <1>2, PlayerActsOnLed
  <2>3. ASSUME NEW l \in LEDs, running'
        PROVE  <<CurrentSteps(playing'), leds'[l]>> \in ShownOn(l)
    <3> DEFINE G == ShownOn(l)
               r == leds[l]
    <3>1. <<CurrentSteps(playing), r>> \in G /\ r \in Led!LedType
      BY <1>1, <2>1, <2>3 DEF ShownInv
    <3>2. KeptBySteps(G, l)
      BY StepsKeepShown
    <3> HIDE DEF G, r
    <3>3. <<CurrentSteps(playing'), PerformSteps(r, l, performed', {}, TRUE)>> \in G
      BY <1>1, <1>2, <3>1, <3>2, HandlersKeep
    <3>4. QED
      BY <2>2, <3>3 DEF G, r
  <2>4. QED
    BY <1>1, <2>3 DEF ShownInv
<1>3. ASSUME UNCHANGED vars,
             \A l \in LEDs : leds[l] \in Led!Calm =>
                /\ leds'[l] \in Led!Calm
                /\ \A d \in PatternPriorities \cap Led!Between, s \in Led!LedStates :
                      leds[l] \in Led!ShowsAt(d, s) => leds'[l] \in Led!ShowsAt(d, s)
      PROVE  ShownInv'
  <2>1. playing' = playing /\ running' = running
    BY <1>3 DEF vars
  <2>2. ASSUME NEW l \in LEDs, <<CurrentSteps(playing), leds[l]>> \in ShownOn(l)
        PROVE  <<CurrentSteps(playing'), leds'[l]>> \in ShownOn(l)
    <3>1. leds[l] \in Led!Calm
      BY <2>2 DEF ShownOn
    <3>2. <<CurrentSteps(playing), leds'[l]>> \in ShownOn(l)
      BY <1>3, <2>2, <3>1, CurrentShown
    <3>3. QED
      BY <2>1, <3>2
  <2>3. QED
    BY <1>1, <2>1, <2>2 DEF ShownInv
<1>4. ASSUME ClientRequest PROVE ShownInv'
  <2>1. Ctl!Request /\ UNCHANGED vars
    BY <1>4 DEF ClientRequest
  <2>2. QED
    BY <1>3, <2>1, ClientsKeepCalm, ClientsKeepShown
<1>5. ASSUME NEW m \in LEDs, NEW p \in Ctl!Priorities, FlashTimeout(m, p) PROVE ShownInv'
  <2>1. Ctl!Timeout(m, p) /\ UNCHANGED vars
    BY <1>5 DEF FlashTimeout
  <2>2. QED
    BY <1>1, <1>3, <1>5, <2>1, FlashesKeepShown
<1>6. ASSUME Shutdown PROVE ShownInv'
  <2>1. ~ running'
    BY <1>6 DEF Shutdown, Deinit
  <2>2. QED
    BY <1>1, <2>1 DEF ShownInv
<1>7. ASSUME UNCHANGED daemonVars PROVE ShownInv'
  <2>1. UNCHANGED vars /\ leds' = leds
    BY <1>7 DEF daemonVars, vars
  <2>2. QED
    BY <1>3, <2>1
<1>8. QED
  BY <1>2, <1>4, <1>5, <1>6, <1>7 DEF DaemonNext, PatternRequest, PatternTimeout

LEMMA ShownIsShown == ShownInv => PlayingPatternShows
<1> SUFFICES ASSUME ShownInv, running, NEW k \in DOMAIN playing, NEW l \in LEDs,
                    NEW i \in DOMAIN Step(playing[k].pattern, playing[k].next).leds,
                    Step(playing[k].pattern, playing[k].next).leds[i].priority \in PatternPriorities,
                    SetLast(Step(playing[k].pattern, playing[k].next), i, l)
             PROVE  LET e == Step(playing[k].pattern, playing[k].next).leds[i]
                        c == leds[l].ctx[e.priority]
                    IN  IF Flashes(e) THEN c.timer
                        ELSE /\ c.state = e.state /\ ~ c.timer
                             /\ Ctl!Highest(leds[l]) = e.priority => leds[l].phys = e.state
  BY DEF PlayingPatternShows
<1> DEFINE y == <<playing[k].pattern, playing[k].next>>
           e == Step(playing[k].pattern, playing[k].next).leds[i]
           r == leds[l]
<1>1. ShownAt(y, l, r)
  <2>1. y \in CurrentSteps(playing)
    BY DEF CurrentSteps
  <2>2. <<CurrentSteps(playing), r>> \in ShownOn(l)
    BY DEF ShownInv
  <2> HIDE DEF y, r
  <2>3. QED
    BY <2>1, <2>2 DEF ShownOn
<1>2. r \in Led!ShowsAt(e.priority, e.state)
  BY <1>1 DEF ShownAt
<1>3. e.state # Ctl!UNKNOWN
  BY DEF SetLast
<1>4. Ctl!Highest(r) = Led!Highest(r)
  BY DEF Ctl!Highest, Led!Highest, Ctl!MostUrgent, Led!MostUrgent
<1> HIDE DEF e, r
<1>5. CASE e.state \in Supported
  <2>1. ~ Flashes(e)
    BY <1>5 DEF Flashes
  <2>2. /\ r.ctx[e.priority].state = e.state /\ ~ r.ctx[e.priority].timer
        /\ Led!Highest(r) = e.priority => r.phys = e.state
    BY <1>2, <1>5 DEF Led!ShowsAt, Led!SteadyAt, Led!IdleAt
  <2>3. QED
    BY <1>4, <2>1, <2>2 DEF e, r
<1>6. CASE e.state \notin Supported
  <2>1. Flashes(e)
    BY <1>3, <1>6 DEF Flashes
  <2>2. r.ctx[e.priority].timer
    BY <1>2, <1>6 DEF Led!ShowsAt, Led!DrivenAt
  <2>3. QED
    BY <2>1, <2>2 DEF e, r
<1>7. QED
  BY <1>5, <1>6

(***************************************************************************)
(* What the current step of a playing pattern says of a LED is what the    *)
(* LED shows when nothing more urgent is active, whatever other patterns,  *)
(* clients and flashes do meanwhile, if writes work, nobody uses CRITICAL  *)
(* and no lock flashes (led_pattern_control.c:144-246,                     *)
(* led_control.c:125-172).                                                 *)
(***************************************************************************)
THEOREM PatternsShowTheirSteps ==
    ASSUME CriticalIsUnused, LocksAreSteady, ~ WritesMayFail
    PROVE  DaemonSpec => []PlayingPatternShows
<1>1. DaemonInit => ShownInv
  BY ShownAtStart
<1>2. ShownInv /\ [DaemonNext]_daemonVars => ShownInv'
  BY StepsAreShown
<1>3. ShownInv => PlayingPatternShows
  BY ShownIsShown
<1>4. QED
  BY <1>1, <1>2, <1>3, PTL DEF DaemonSpec
==============================================================================
