--------------------------- MODULE LedControlProofs ---------------------------
(***************************************************************************)
(* Proofs about LedControl for every set of LEDs, aliases, lock IDs and    *)
(* requests.  Every request does the same to each LED it reaches, so each  *)
(* invariant is an invariant of one LED's record: the lemmas are about the *)
(* operators on one record, and the theorems lift them to all the LEDs.    *)
(***************************************************************************)
EXTENDS LedControl, PriorityOrderProofs

LedType ==
    [lock : LockIds \cup {NoLock},
     active : {S \in SUBSET Priorities : NORMAL \in S},
     phys : LedStates,
     ctx : [Priorities -> Contexts]]

LEMMA HighestType ==
    ASSUME NEW r \in LedType
    PROVE  /\ Highest(r) \in r.active
           /\ Highest(r) \in Priorities
           /\ \A p \in r.active : Highest(r) <= p
<1>1. /\ r.active \in SUBSET Nat /\ r.active # {}
      /\ r.active \subseteq Priorities
  BY DEF LedType, Priorities, CRITICAL, LOCKED, ALTERNATE, NORMAL
<1>2. QED
  BY <1>1, MostUrgentIsLeast DEF Highest

LEMMA WithContextType ==
    ASSUME NEW r \in LedType, NEW p \in Priorities, NEW c \in Contexts
    PROVE  /\ WithContext(r, p, c) \in LedType
           /\ WithContext(r, p, c).ctx = [r.ctx EXCEPT ![p] = c]
           /\ WithContext(r, p, c).lock = r.lock
           /\ WithContext(r, p, c).active = r.active
           /\ WithContext(r, p, c).phys = r.phys
BY DEF WithContext, LedType

LEMMA RecordedType ==
    ASSUME NEW c \in Contexts, NEW s \in LedStates
    PROVE  Recorded(c, s) \in Contexts
<1> DEFINE t == (c.current > 0)
<1>1. t \in BOOLEAN
  OBVIOUS
<1> HIDE DEF t
<1>2. [c EXCEPT !.state = s, !.timer = t] \in Contexts
  BY <1>1 DEF Contexts
<1>3. QED
  BY <1>2 DEF Recorded, t

(* Setting a state keeps the type, the lock and the active priorities. *)
LEMMA SetStateType ==
    ASSUME NEW r \in LedType, NEW p \in Priorities, NEW s \in LedStates,
           NEW ok \in BOOLEAN
    PROVE  /\ SetState(r, p, s, ok) \in LedType
           /\ SetState(r, p, s, ok).lock = r.lock
           /\ SetState(r, p, s, ok).active = r.active
<1> DEFINE recorded == WithContext(r, p, Recorded(r.ctx[p], s))
<1>1. r.ctx[p] \in Contexts
  BY DEF LedType
<1>2. /\ recorded \in LedType
      /\ recorded.lock = r.lock
      /\ recorded.active = r.active
  <2>1. Recorded(r.ctx[p], s) \in Contexts
    BY <1>1, RecordedType
  <2> HIDE DEF Contexts, LedType
  <2>2. QED
    BY <2>1, WithContextType
<1>3. /\ [recorded EXCEPT !.phys = s] \in LedType
      /\ [recorded EXCEPT !.phys = s].lock = r.lock
      /\ [recorded EXCEPT !.phys = s].active = r.active
  BY <1>2 DEF LedType
<1>4. QED
  BY <1>2, <1>3 DEF SetState

LEMMA StopFlashingType ==
    ASSUME NEW c \in Contexts, NEW s \in LedStates
    PROVE  /\ StopFlashing(c) \in Contexts
           /\ StopFlashing([c EXCEPT !.state = s]) \in Contexts
BY DEF StopFlashing, Contexts, LedStates

(* Changing the lock or the set of active priorities keeps the type. *)
LEMMA LockType ==
    ASSUME NEW r \in LedType, NEW k \in LockIds \cup {NoLock}
    PROVE  /\ [r EXCEPT !.lock = k] \in LedType
           /\ [r EXCEPT !.lock = k].lock = k
           /\ [r EXCEPT !.lock = k].active = r.active
BY DEF LedType

LEMMA ActiveType ==
    ASSUME NEW r \in LedType, NEW S \in SUBSET Priorities, NORMAL \in S
    PROVE  /\ [r EXCEPT !.active = S] \in LedType
           /\ [r EXCEPT !.active = S].lock = r.lock
           /\ [r EXCEPT !.active = S].active = S
           /\ [r EXCEPT !.active = S].ctx = r.ctx
           /\ [r EXCEPT !.active = S].phys = r.phys
BY DEF LedType

(* Activation keeps the lock and adds its priority to the active ones. *)
LEMMA ActivateLedType ==
    ASSUME NEW r \in LedType, NEW p \in Priorities, NEW ok \in BOOLEAN
    PROVE  /\ ActivateLed(r, p, ok) \in LedType
           /\ ActivateLed(r, p, ok).lock = r.lock
           /\ ActivateLed(r, p, ok).active = r.active \cup {p}
<1> DEFINE turnOff == p \in {LOCKED, ALTERNATE} \/ r.ctx[p].state = UNKNOWN
           active == [r EXCEPT !.active = @ \cup {p}]
           off == WithContext(active, p, StopFlashing([r.ctx[p] EXCEPT !.state = OFF]))
           prepared == IF turnOff THEN off ELSE active
<1>1. r.ctx[p] \in Contexts /\ OFF \in LedStates
  BY DEF LedType, LedStates
<1>2. active \in LedType /\ active.lock = r.lock /\ active.active = r.active \cup {p}
  <2>1. r.active \cup {p} \in SUBSET Priorities /\ NORMAL \in r.active \cup {p}
    BY DEF LedType
  <2>2. QED
    BY <2>1, ActiveType
<1>3. off \in LedType /\ off.lock = r.lock /\ off.active = r.active \cup {p}
  <2> DEFINE k == StopFlashing([r.ctx[p] EXCEPT !.state = OFF])
  <2>1. k \in Contexts
    BY <1>1, StopFlashingType
  <2> HIDE DEF active, k
  <2>2. WithContext(active, p, k) \in LedType
    BY <1>2, <2>1, WithContextType
  <2>3. /\ WithContext(active, p, k).lock = active.lock
        /\ WithContext(active, p, k).active = active.active
    BY <1>2, <2>1, WithContextType
  <2>4. off = WithContext(active, p, k)
    BY DEF k
  <2> HIDE DEF off
  <2>5. QED
    BY <1>2, <2>2, <2>3, <2>4
<1>4. prepared \in LedType /\ prepared.lock = r.lock /\ prepared.active = r.active \cup {p}
  <2> HIDE DEF off, active, turnOff
  <2>1. QED
    BY <1>2, <1>3
<1>5. prepared.ctx[p].state \in LedStates
  <2> HIDE DEF prepared
  <2>1. QED
    BY <1>4 DEF LedType, Contexts
<1>6. ActivateLed(r, p, ok) \in {SetState(prepared, p, prepared.ctx[p].state, ok), prepared}
  BY DEF ActivateLed
<1>7. QED
  <2> HIDE DEF prepared
  <2>1. QED
    BY <1>4, <1>5, <1>6, SetStateType

(* Deactivation keeps the lock and removes its priority, unless it's NORMAL. *)
LEMMA DeactivateLedType ==
    ASSUME NEW r \in LedType, NEW p \in Priorities, NEW ok \in BOOLEAN
    PROVE  /\ DeactivateLed(r, p, ok) \in LedType
           /\ DeactivateLed(r, p, ok).lock = r.lock
           /\ DeactivateLed(r, p, ok).active = r.active \ ({p} \ {NORMAL})
<1> DEFINE inactive == [r EXCEPT !.active = @ \ ({p} \ {NORMAL})]
           h == Highest(inactive)
<1>1. /\ inactive \in LedType /\ inactive.lock = r.lock
      /\ inactive.active = r.active \ ({p} \ {NORMAL})
  <2>1. /\ r.active \ ({p} \ {NORMAL}) \in SUBSET Priorities
        /\ NORMAL \in r.active \ ({p} \ {NORMAL})
    BY DEF LedType
  <2>2. QED
    BY <2>1, ActiveType
<1>2. h \in Priorities /\ inactive.ctx[h].state \in LedStates
  <2> HIDE DEF inactive
  <2>1. h \in Priorities
    BY <1>1, HighestType
  <2>2. QED
    BY <1>1, <2>1 DEF LedType, Contexts
<1>3. DeactivateLed(r, p, ok) =
        IF LessUrgent(h, p) THEN SetState(inactive, h, inactive.ctx[h].state, ok)
        ELSE inactive
  BY DEF DeactivateLed
<1>4. QED
  <2> HIDE DEF inactive, h
  <2>1. QED
    BY <1>1, <1>2, <1>3, SetStateType

(* What one request to activate a priority does to the lock of a LED. *)
LEMMA LockAndActivateType ==
    ASSUME NEW r \in LedType, NEW p \in Priorities, NEW k \in LockIds, NEW ok \in BOOLEAN
    PROVE  /\ LockAndActivate(r, p, k, ok) \in LedType
           /\ p # LOCKED => /\ LockAndActivate(r, p, k, ok).lock = r.lock
                            /\ LockAndActivate(r, p, k, ok).active = r.active \cup {p}
           /\ p = LOCKED /\ r.lock # NoLock => LockAndActivate(r, p, k, ok) = r
           /\ p = LOCKED /\ r.lock = NoLock =>
                /\ LockAndActivate(r, p, k, ok).lock = k
                /\ LockAndActivate(r, p, k, ok).active = r.active \cup {LOCKED}
<1> DEFINE locked == [r EXCEPT !.lock = k]
<1>1. locked \in LedType /\ locked.lock = k /\ locked.active = r.active
  BY LockType
<1>2. LockAndActivate(r, p, k, ok) =
        IF p # LOCKED THEN ActivateLed(r, p, ok)
        ELSE IF r.lock # NoLock THEN r ELSE ActivateLed(locked, p, ok)
  BY DEF LockAndActivate
<1> HIDE DEF locked
<1>3. CASE p # LOCKED
  BY <1>2, <1>3, ActivateLedType
<1>4. CASE p = LOCKED /\ r.lock # NoLock
  BY <1>2, <1>4
<1>5. CASE p = LOCKED /\ r.lock = NoLock
  <2>1. LockAndActivate(r, p, k, ok) = ActivateLed(locked, p, ok)
    BY <1>2, <1>5
  <2>2. QED
    BY <1>1, <1>5, <2>1, ActivateLedType
<1>6. QED
  BY <1>3, <1>4, <1>5

(* What one request to deactivate a priority does to the lock of a LED. *)
LEMMA UnlockAndDeactivateType ==
    ASSUME NEW r \in LedType, NEW p \in Priorities, NEW k \in LockIds, NEW ok \in BOOLEAN
    PROVE  /\ UnlockAndDeactivate(r, p, k, ok) \in LedType
           /\ p # LOCKED =>
                /\ UnlockAndDeactivate(r, p, k, ok).lock = r.lock
                /\ UnlockAndDeactivate(r, p, k, ok).active = r.active \ ({p} \ {NORMAL})
           /\ p = LOCKED /\ r.lock # k => UnlockAndDeactivate(r, p, k, ok) = r
           /\ p = LOCKED /\ r.lock = k =>
                /\ UnlockAndDeactivate(r, p, k, ok).lock = NoLock
                /\ UnlockAndDeactivate(r, p, k, ok).active = r.active \ ({LOCKED} \ {NORMAL})
<1> DEFINE unlocked == [r EXCEPT !.lock = NoLock]
<1>1. unlocked \in LedType /\ unlocked.lock = NoLock /\ unlocked.active = r.active
  BY LockType
<1>2. UnlockAndDeactivate(r, p, k, ok) =
        IF p # LOCKED THEN DeactivateLed(r, p, ok)
        ELSE IF r.lock = NoLock \/ r.lock # k THEN r ELSE DeactivateLed(unlocked, p, ok)
  BY DEF UnlockAndDeactivate
<1> HIDE DEF unlocked
<1>3. CASE p # LOCKED
  BY <1>2, <1>3, DeactivateLedType
<1>4. CASE p = LOCKED /\ r.lock # k
  BY <1>2, <1>4
<1>5. CASE p = LOCKED /\ r.lock = k
  <2>1. UnlockAndDeactivate(r, p, k, ok) = DeactivateLed(unlocked, p, ok)
    BY <1>2, <1>5, LockAssumption
  <2>2. QED
    BY <1>1, <1>5, <2>1, DeactivateLedType
<1>6. QED
  BY <1>3, <1>4, <1>5

RequestType ==
    [priority : Priorities, state : LedStates \ {UNKNOWN}, flash : FlashTypes,
     time : Nat, forever : BOOLEAN, lock : LockIds \cup {NoLock}]

LEMMA SetRequestsType == SetRequests \subseteq RequestType
<1> SUFFICES ASSUME NEW req \in SetRequests PROVE req \in RequestType
  OBVIOUS
<1>1. PICK p \in RequestPriorities, s \in RequestStates, f \in RequestFlashes,
           k \in LockIds \cup {NoLock} :
        req = [priority |-> p, state |-> s, flash |-> f[1], time |-> f[2],
               forever |-> FALSE, lock |-> k]
  BY DEF SetRequests
<1>2. /\ p \in Priorities /\ s \in LedStates \ {UNKNOWN}
      /\ f[1] \in FlashTypes /\ f[2] \in Nat
  BY RequestsAssumption
<1>3. QED
  BY <1>1, <1>2 DEF RequestType

LEMMA TimesType ==
    ASSUME NEW t \in FlashTypes
    PROVE  OnTime[t] \in Nat /\ OffTime[t] \in Nat
BY DEF OnTime, OffTime, FlashTypes

LEMMA FlashOfType ==
    ASSUME NEW s \in LedStates
    PROVE  FlashOf(s) \in FlashTypes
BY DEF FlashOf, FlashTypes, LedStates, SLOW_FLASH, FAST_FLASH

LEMMA InitialiseFlashingType ==
    ASSUME NEW c \in Contexts, NEW req \in RequestType
    PROVE  /\ InitialiseFlashing(c, req) \in Contexts
           /\ InitialiseFlashing(c, req).final = req.state
           /\ InitialState(InitialiseFlashing(c, req), req) \in LedStates \ {UNKNOWN}
<1> DEFINE new == InitialiseFlashing(c, req)
<1>1. /\ OnTime["one_shot"] \in Nat /\ OnTime[req.flash] \in Nat
      /\ req.flash \in FlashTypes /\ req.time \in Nat
      /\ req.forever \in BOOLEAN /\ req.state \in LedStates \ {UNKNOWN}
  BY TimesType DEF RequestType, FlashTypes
<1>2. new \in Contexts /\ new.final = req.state
  BY <1>1 DEF InitialiseFlashing, Contexts
<1>3. Opposite(new.final) \in LedStates \ {UNKNOWN}
  BY DEF Opposite, LedStates, ON, OFF, UNKNOWN
<1>4. QED
  BY <1>1, <1>2, <1>3 DEF InitialState

(* The request that led_ctx_set_state works with: a state that the plugin   *)
(* lacks is mapped to a flash.                                              *)
Mapped(req) ==
    IF req.state \notin Supported /\ req.flash = "none"
    THEN [req EXCEPT !.flash = FlashOf(req.state), !.state = ON, !.forever = TRUE]
    ELSE req

LEMMA MappedType ==
    ASSUME NEW req \in RequestType
    PROVE  /\ Mapped(req) \in RequestType
           /\ Mapped(req).priority = req.priority
<1>1. FlashOf(req.state) \in FlashTypes
  BY FlashOfType DEF RequestType
<1>2. QED
  BY <1>1 DEF Mapped, RequestType, LedStates, ON, UNKNOWN

(* A request to set a state either leaves the LED alone or sets the state    *)
(* that the flash starts with.                                               *)
LEMMA SetLedCases ==
    ASSUME NEW r \in LedType, NEW req \in RequestType, NEW ok \in BOOLEAN,
           SetLed(r, req, ok) # r
    PROVE  LET p == req.priority
               c == InitialiseFlashing(r.ctx[p], Mapped(req))
           IN  /\ p \in Priorities /\ c \in Contexts
               /\ c.final \in LedStates \ {UNKNOWN}
               /\ InitialState(c, Mapped(req)) \in LedStates \ {UNKNOWN}
               /\ MayUpdate(r, req)
               /\ SetLed(r, req, ok) =
                     SetState(WithContext(r, p, c), p, InitialState(c, Mapped(req)), ok)
<1> DEFINE p == req.priority
           c == InitialiseFlashing(r.ctx[p], Mapped(req))
<1>1. p \in Priorities /\ r.ctx[p] \in Contexts
  BY DEF RequestType, LedType
<1>2. Mapped(req) \in RequestType
  BY MappedType
<1>3. /\ c \in Contexts /\ c.final = Mapped(req).state
      /\ InitialState(c, Mapped(req)) \in LedStates \ {UNKNOWN}
  BY <1>1, <1>2, InitialiseFlashingType
<1>4. Mapped(req).state \in LedStates \ {UNKNOWN}
  BY <1>2 DEF RequestType
<1>5. WithContext(r, p, c).ctx[p] = c
  <2> HIDE DEF c
  <2>1. WithContext(r, p, c).ctx = [r.ctx EXCEPT ![p] = c]
    BY <1>1, <1>3, WithContextType
  <2>2. QED
    BY <1>1, <2>1 DEF LedType
<1>6. /\ MayUpdate(r, req)
      /\ SetLed(r, req, ok) =
           SetState(WithContext(r, p, c), p,
                    InitialState(WithContext(r, p, c).ctx[p], Mapped(req)), ok)
  BY DEF SetLed, Mapped
<1>7. QED
  BY <1>1, <1>3, <1>4, <1>5, <1>6

LEMMA SetLedType ==
    ASSUME NEW r \in LedType, NEW req \in RequestType, NEW ok \in BOOLEAN
    PROVE  /\ SetLed(r, req, ok) \in LedType
           /\ SetLed(r, req, ok).lock = r.lock
           /\ SetLed(r, req, ok).active = r.active
<1> SUFFICES ASSUME SetLed(r, req, ok) # r
             PROVE  /\ SetLed(r, req, ok) \in LedType
                    /\ SetLed(r, req, ok).lock = r.lock
                    /\ SetLed(r, req, ok).active = r.active
  OBVIOUS
<1> DEFINE p == req.priority
           c == InitialiseFlashing(r.ctx[p], Mapped(req))
           s == InitialState(c, Mapped(req))
<1>1. /\ p \in Priorities /\ c \in Contexts /\ s \in LedStates
      /\ SetLed(r, req, ok) = SetState(WithContext(r, p, c), p, s, ok)
  BY SetLedCases
<1> HIDE DEF p, c, s
<1>2. /\ WithContext(r, p, c) \in LedType
      /\ WithContext(r, p, c).lock = r.lock
      /\ WithContext(r, p, c).active = r.active
  BY <1>1, WithContextType
<1>3. QED
  BY <1>1, <1>2, SetStateType

(* What a timeout does to the flash, before the LED is written. *)
FlashNext(c) ==
    IF ~ c.forever /\ TimeRemaining(c) = 0 THEN c.final
    ELSE IF c.state = ON THEN OFF ELSE ON

FlashUpdated(c) ==
    LET fired == [c EXCEPT !.timer = FALSE, !.remaining = TimeRemaining(c)]
    IN  IF ~ c.forever /\ TimeRemaining(c) = 0 THEN StopFlashing(fired)
        ELSE [fired EXCEPT !.current = IF FlashNext(c) = ON THEN OnTime[c.times]
                                                            ELSE OffTime[c.times]]

LEMMA FlashUpdatedType ==
    ASSUME NEW c \in Contexts
    PROVE  /\ FlashUpdated(c) \in Contexts
           /\ FlashNext(c) \in LedStates
           /\ FlashUpdated(c).state = c.state
           /\ ~ FlashUpdated(c).timer
<1> DEFINE t == TimeRemaining(c)
           fired == [c EXCEPT !.timer = FALSE, !.remaining = t]
           next == IF FlashNext(c) = ON THEN OnTime[c.times] ELSE OffTime[c.times]
<1>1. t \in Nat
  BY DEF TimeRemaining, Contexts
<1>2. next \in Nat
  BY TimesType DEF Contexts
<1>3. FlashNext(c) \in LedStates
  BY DEF FlashNext, Contexts, LedStates, ON, OFF
<1> HIDE DEF t, next
<1>4. fired \in Contexts /\ fired.state = c.state /\ ~ fired.timer
  BY <1>1 DEF Contexts
<1>5. /\ StopFlashing(fired) \in Contexts
      /\ StopFlashing(fired).state = c.state /\ ~ StopFlashing(fired).timer
  BY <1>4 DEF StopFlashing, Contexts, LedStates
<1>6. /\ [fired EXCEPT !.current = next] \in Contexts
      /\ [fired EXCEPT !.current = next].state = c.state
      /\ ~ [fired EXCEPT !.current = next].timer
  BY <1>2, <1>4 DEF Contexts
<1>7. FlashUpdated(c) = IF ~ c.forever /\ TimeRemaining(c) = 0 THEN StopFlashing(fired)
                        ELSE [fired EXCEPT !.current = next]
  BY DEF FlashUpdated, t, next
<1>8. QED
  BY <1>3, <1>5, <1>6, <1>7

LEMMA FlashLedCases ==
    ASSUME NEW r \in LedType, NEW p \in Priorities, NEW opened \in BOOLEAN, NEW ok \in BOOLEAN
    PROVE  LET c == FlashUpdated(r.ctx[p])
               prepared == WithContext(r, p, c)
           IN  /\ c \in Contexts
               /\ FlashNext(r.ctx[p]) \in LedStates
               /\ FlashLed(r, p, opened, ok) =
                     IF opened THEN SetState(prepared, p, FlashNext(r.ctx[p]), ok)
                               ELSE prepared
<1> DEFINE c == r.ctx[p]
           t == TimeRemaining(c)
           fired == [c EXCEPT !.timer = FALSE, !.remaining = t]
<1>1. c \in Contexts
  BY DEF LedType
<1>2. t \in Nat
  BY <1>1 DEF TimeRemaining, Contexts
<1>3. /\ fired.forever = c.forever /\ fired.remaining = t /\ fired.final = c.final
      /\ fired.state = c.state /\ fired.times = c.times
  <2> HIDE DEF c, t
  <2>1. QED
    BY <1>1, <1>2 DEF Contexts
<1>4. /\ FlashUpdated(c) \in Contexts
      /\ FlashNext(c) \in LedStates
  BY <1>1, FlashUpdatedType
<1>5. FlashLed(r, p, opened, ok) =
         IF opened THEN SetState(WithContext(r, p, FlashUpdated(c)), p, FlashNext(c), ok)
                   ELSE WithContext(r, p, FlashUpdated(c))
  BY <1>3 DEF FlashLed, FlashUpdated, FlashNext
<1>6. QED
  BY <1>4, <1>5

LEMMA FlashLedType ==
    ASSUME NEW r \in LedType, NEW p \in Priorities, NEW opened \in BOOLEAN, NEW ok \in BOOLEAN
    PROVE  /\ FlashLed(r, p, opened, ok) \in LedType
           /\ FlashLed(r, p, opened, ok).lock = r.lock
           /\ FlashLed(r, p, opened, ok).active = r.active
<1> DEFINE c == FlashUpdated(r.ctx[p])
           s == FlashNext(r.ctx[p])
<1>1. /\ c \in Contexts /\ s \in LedStates
      /\ FlashLed(r, p, opened, ok) =
            IF opened THEN SetState(WithContext(r, p, c), p, s, ok) ELSE WithContext(r, p, c)
  BY FlashLedCases
<1> HIDE DEF c, s
<1>2. /\ WithContext(r, p, c) \in LedType
      /\ WithContext(r, p, c).lock = r.lock
      /\ WithContext(r, p, c).active = r.active
  BY <1>1, WithContextType
<1>3. QED
  BY <1>1, <1>2, SetStateType

------------------------------------------------------------------------------
(***************************************************************************)
(* What one handler may do to one LED: a request reaches it once or twice, *)
(* a timer of one of its flashes fires, or another process writes it.      *)
(***************************************************************************)
SetStep(r, new, req) ==
    \E ok \in Outcomes : new \in {SetLed(r, req, ok), SetLed(SetLed(r, req, ok), req, ok)}

ActivateStep(r, new, p, k) ==
    \E ok \in Outcomes :
        new \in {LockAndActivate(r, p, k, ok),
                 LockAndActivate(LockAndActivate(r, p, k, ok), p, k, ok)}

DeactivateStep(r, new, p, k) ==
    \E ok \in Outcomes :
        new \in {UnlockAndDeactivate(r, p, k, ok),
                 UnlockAndDeactivate(UnlockAndDeactivate(r, p, k, ok), p, k, ok)}

TimeoutStep(r, new, p) ==
    /\ r.ctx[p].timer
    /\ \E opened, ok \in Outcomes : new = FlashLed(r, p, opened, ok)

LedStep(r, new) ==
    \/ new = r
    \/ \E req \in SetRequests : SetStep(r, new, req)
    \/ \E p \in Priorities, k \in LockIds : ActivateStep(r, new, p, k)
    \/ \E p \in Priorities, k \in LockIds : DeactivateStep(r, new, p, k)
    \/ \E p \in Priorities : TimeoutStep(r, new, p)

LEMMA VisitsType ==
    ASSUME NEW name \in Names, NEW l \in LEDs
    PROVE  Visits(name, l) \in {0, 1, 2}
BY DEF Visits

LEMMA OutcomesType == Outcomes \subseteq BOOLEAN
BY EnvironmentAssumption DEF Outcomes

LEMMA WrittenOutcome ==
    ASSUME NEW broken \in Broken, NEW l \in LEDs
    PROVE  (l \notin broken) \in Outcomes
BY DEF Broken, Outcomes

(* A request does to a LED nothing, or one thing once or twice. *)
LEMMA SetLedStateOfLed ==
    ASSUME NEW name \in Names, NEW req, NEW broken \in Broken,
           SetLedState(name, req, broken), NEW l \in LEDs
    PROVE  \/ leds'[l] = leds[l] /\ Visits(name, l) = 0
           \/ SetStep(leds[l], leds'[l], req) /\ Visits(name, l) > 0
<1> DEFINE ok == l \notin broken
<1>1. leds'[l] = CASE Visits(name, l) = 0 -> leds[l]
                   [] Visits(name, l) = 1 -> SetLed(leds[l], req, ok)
                   [] Visits(name, l) = 2 -> SetLed(SetLed(leds[l], req, ok), req, ok)
  BY DEF SetLedState, Visit
<1>2. ok \in Outcomes
  BY WrittenOutcome
<1>3. Visits(name, l) \in {0, 1, 2}
  BY VisitsType
<1> HIDE DEF ok
<1>4. QED
  BY <1>1, <1>2, <1>3 DEF SetStep

LEMMA ActivatePriorityOfLed ==
    ASSUME NEW name \in Names, NEW p, NEW k, NEW broken \in Broken,
           ActivatePriority(name, p, k, broken), NEW l \in LEDs
    PROVE  \/ leds'[l] = leds[l] /\ Visits(name, l) = 0
           \/ ActivateStep(leds[l], leds'[l], p, k) /\ Visits(name, l) > 0
<1> DEFINE ok == l \notin broken
<1>1. leds'[l] = CASE Visits(name, l) = 0 -> leds[l]
                   [] Visits(name, l) = 1 -> LockAndActivate(leds[l], p, k, ok)
                   [] Visits(name, l) = 2 ->
                        LockAndActivate(LockAndActivate(leds[l], p, k, ok), p, k, ok)
  BY DEF ActivatePriority, Visit
<1>2. ok \in Outcomes
  BY WrittenOutcome
<1>3. Visits(name, l) \in {0, 1, 2}
  BY VisitsType
<1> HIDE DEF ok
<1>4. QED
  BY <1>1, <1>2, <1>3 DEF ActivateStep

LEMMA DeactivatePriorityOfLed ==
    ASSUME NEW name \in Names, NEW p, NEW k, NEW broken \in Broken,
           DeactivatePriority(name, p, k, broken), NEW l \in LEDs
    PROVE  \/ leds'[l] = leds[l] /\ Visits(name, l) = 0
           \/ DeactivateStep(leds[l], leds'[l], p, k) /\ Visits(name, l) > 0
<1> DEFINE ok == l \notin broken
<1>1. leds'[l] = CASE Visits(name, l) = 0 -> leds[l]
                   [] Visits(name, l) = 1 -> UnlockAndDeactivate(leds[l], p, k, ok)
                   [] Visits(name, l) = 2 ->
                        UnlockAndDeactivate(UnlockAndDeactivate(leds[l], p, k, ok), p, k, ok)
  BY DEF DeactivatePriority, Visit
<1>2. ok \in Outcomes
  BY WrittenOutcome
<1>3. Visits(name, l) \in {0, 1, 2}
  BY VisitsType
<1> HIDE DEF ok
<1>4. QED
  BY <1>1, <1>2, <1>3 DEF DeactivateStep


------------------------------------------------------------------------------
(***************************************************************************)
(* The inductive invariant, of one LED's record.  The lock agrees with the *)
(* LOCKED priority; and a flash that has time to run, whether its timer is *)
(* pending or its last write failed, knows the state it ends in: without   *)
(* the second case a restart of the timer by set_state would break it.     *)
(***************************************************************************)
LockAgrees(r) == r.lock # NoLock <=> LOCKED \in r.active

FlashKnowsEnd(c) == c.current > 0 \/ c.timer => c.final # UNKNOWN

FlashesKnowEnd(r) == \A p \in Priorities : FlashKnowsEnd(r.ctx[p])

LedInv(r) == r \in LedType /\ LockAgrees(r) /\ FlashesKnowEnd(r)

Inv == leds = [l \in LEDs |-> leds[l]] /\ \A l \in LEDs : LedInv(leds[l])

LEMMA WithContextFlashes ==
    ASSUME NEW r \in LedType, NEW p \in Priorities, NEW c \in Contexts,
           FlashesKnowEnd(r), FlashKnowsEnd(c)
    PROVE  FlashesKnowEnd(WithContext(r, p, c))
<1>1. WithContext(r, p, c).ctx = [r.ctx EXCEPT ![p] = c]
  BY WithContextType
<1>2. r.ctx \in [Priorities -> Contexts]
  BY DEF LedType
<1>3. QED
  BY <1>1, <1>2 DEF FlashesKnowEnd

LEMMA RecordedFlash ==
    ASSUME NEW c \in Contexts, NEW s \in LedStates, FlashKnowsEnd(c)
    PROVE  FlashKnowsEnd(Recorded(c, s))
<1> DEFINE t == (c.current > 0)
<1>1. Recorded(c, s) = [c EXCEPT !.state = s, !.timer = t]
  BY DEF Recorded
<1>2. t \in BOOLEAN
  OBVIOUS
<1> HIDE DEF t
<1>3. /\ [c EXCEPT !.state = s, !.timer = t].current = c.current
      /\ [c EXCEPT !.state = s, !.timer = t].final = c.final
      /\ [c EXCEPT !.state = s, !.timer = t].timer = t
  BY <1>2 DEF Contexts
<1>4. QED
  BY <1>1, <1>3 DEF FlashKnowsEnd, t

LEMMA SetStateFlashes ==
    ASSUME NEW r \in LedType, NEW p \in Priorities, NEW s \in LedStates,
           NEW ok \in BOOLEAN, FlashesKnowEnd(r)
    PROVE  FlashesKnowEnd(SetState(r, p, s, ok))
<1> DEFINE recorded == WithContext(r, p, Recorded(r.ctx[p], s))
<1>1. r.ctx[p] \in Contexts /\ FlashKnowsEnd(r.ctx[p])
  BY DEF LedType, FlashesKnowEnd
<1>2. Recorded(r.ctx[p], s) \in Contexts /\ FlashKnowsEnd(Recorded(r.ctx[p], s))
  BY <1>1, RecordedType, RecordedFlash
<1>3. recorded \in LedType /\ FlashesKnowEnd(recorded)
  BY <1>2, WithContextType, WithContextFlashes
<1>4. SetState(r, p, s, ok) \in {r, recorded, [recorded EXCEPT !.phys = s]}
  BY DEF SetState
<1> HIDE DEF recorded
<1>5. [recorded EXCEPT !.phys = s].ctx = recorded.ctx
  BY <1>3 DEF LedType
<1>6. QED
  BY <1>3, <1>4, <1>5 DEF FlashesKnowEnd

LEMMA StopFlashingFlash ==
    ASSUME NEW c \in Contexts
    PROVE  FlashKnowsEnd(StopFlashing(c))
BY DEF StopFlashing, FlashKnowsEnd, Contexts

LEMMA ActivateLedFlashes ==
    ASSUME NEW r \in LedType, NEW p \in Priorities, NEW ok \in BOOLEAN, FlashesKnowEnd(r)
    PROVE  FlashesKnowEnd(ActivateLed(r, p, ok))
<1> DEFINE turnOff == p \in {LOCKED, ALTERNATE} \/ r.ctx[p].state = UNKNOWN
           active == [r EXCEPT !.active = @ \cup {p}]
           stopped == StopFlashing([r.ctx[p] EXCEPT !.state = OFF])
           off == WithContext(active, p, stopped)
           prepared == IF turnOff THEN off ELSE active
<1>1. active \in LedType /\ FlashesKnowEnd(active)
  <2>1. r.active \cup {p} \in SUBSET Priorities /\ NORMAL \in r.active \cup {p}
    BY DEF LedType
  <2>2. active \in LedType /\ active.ctx = r.ctx
    BY <2>1, ActiveType
  <2>3. QED
    BY <2>2 DEF FlashesKnowEnd
<1>2. stopped \in Contexts /\ FlashKnowsEnd(stopped)
  <2> DEFINE c == [r.ctx[p] EXCEPT !.state = OFF]
  <2>1. c \in Contexts
    BY DEF LedType, Contexts, LedStates
  <2>2. OFF \in LedStates
    BY DEF LedStates
  <2> HIDE DEF c
  <2>3. QED
    BY <2>1, StopFlashingFlash, StopFlashingType, <2>2 DEF c
<1> HIDE DEF active, stopped
<1>3. off \in LedType /\ FlashesKnowEnd(off)
  BY <1>1, <1>2, WithContextType, WithContextFlashes
<1> HIDE DEF off, turnOff
<1>4. /\ prepared \in LedType /\ FlashesKnowEnd(prepared)
      /\ prepared.ctx[p].state \in LedStates
  <2>1. prepared \in LedType /\ FlashesKnowEnd(prepared)
    BY <1>1, <1>3
  <2> HIDE DEF prepared
  <2>2. QED
    BY <2>1 DEF LedType, Contexts
<1>5. ActivateLed(r, p, ok) \in {SetState(prepared, p, prepared.ctx[p].state, ok), prepared}
  BY DEF ActivateLed, prepared, off, turnOff, active, stopped
<1> HIDE DEF prepared
<1>6. QED
  BY <1>4, <1>5, SetStateFlashes

LEMMA DeactivateLedFlashes ==
    ASSUME NEW r \in LedType, NEW p \in Priorities, NEW ok \in BOOLEAN, FlashesKnowEnd(r)
    PROVE  FlashesKnowEnd(DeactivateLed(r, p, ok))
<1> DEFINE inactive == [r EXCEPT !.active = @ \ ({p} \ {NORMAL})]
           h == Highest(inactive)
<1>1. inactive \in LedType /\ FlashesKnowEnd(inactive)
  <2>1. /\ r.active \ ({p} \ {NORMAL}) \in SUBSET Priorities
        /\ NORMAL \in r.active \ ({p} \ {NORMAL})
    BY DEF LedType
  <2>2. inactive \in LedType /\ inactive.ctx = r.ctx
    BY <2>1, ActiveType
  <2>3. QED
    BY <2>2 DEF FlashesKnowEnd
<1>2. DeactivateLed(r, p, ok) \in {SetState(inactive, h, inactive.ctx[h].state, ok), inactive}
  BY DEF DeactivateLed
<1> HIDE DEF inactive
<1>3. h \in Priorities
  BY <1>1, HighestType
<1>4. inactive.ctx[h].state \in LedStates
  BY <1>1, <1>3 DEF LedType, Contexts
<1> HIDE DEF h
<1>5. QED
  BY <1>1, <1>2, <1>3, <1>4, SetStateFlashes

(* Each operation on one LED keeps its invariant. *)
LEMMA LockAndActivateInv ==
    ASSUME NEW r, LedInv(r), NEW p \in Priorities, NEW k \in LockIds, NEW ok \in BOOLEAN
    PROVE  LedInv(LockAndActivate(r, p, k, ok))
<1> DEFINE new == LockAndActivate(r, p, k, ok)
           locked == [r EXCEPT !.lock = k]
<1>1. r \in LedType /\ LockAgrees(r) /\ FlashesKnowEnd(r)
  BY DEF LedInv
<1>2. new \in LedType
  BY <1>1, LockAndActivateType
<1>3. LockAgrees(new)
  <2>1. QED
    BY <1>1, LockAndActivateType, LockAssumption DEF LockAgrees
<1>4. FlashesKnowEnd(new)
  <2>1. locked \in LedType
    BY <1>1, LockType
  <2>2. FlashesKnowEnd(locked)
    BY <1>1 DEF FlashesKnowEnd, LedType
  <2>3. new \in {r, ActivateLed(r, p, ok), ActivateLed(locked, p, ok)}
    BY DEF LockAndActivate
  <2> HIDE DEF new, locked
  <2>4. QED
    BY <1>1, <2>1, <2>2, <2>3, ActivateLedFlashes
<1>5. QED
  BY <1>2, <1>3, <1>4 DEF LedInv

LEMMA UnlockAndDeactivateInv ==
    ASSUME NEW r, LedInv(r), NEW p \in Priorities, NEW k \in LockIds, NEW ok \in BOOLEAN
    PROVE  LedInv(UnlockAndDeactivate(r, p, k, ok))
<1> DEFINE new == UnlockAndDeactivate(r, p, k, ok)
           unlocked == [r EXCEPT !.lock = NoLock]
<1>1. r \in LedType /\ LockAgrees(r) /\ FlashesKnowEnd(r)
  BY DEF LedInv
<1>2. new \in LedType
  BY <1>1, UnlockAndDeactivateType
<1>3. LockAgrees(new)
  <2>1. LOCKED # NORMAL
    BY DEF LOCKED, NORMAL
  <2>2. QED
    BY <1>1, <2>1, UnlockAndDeactivateType DEF LockAgrees
<1>4. FlashesKnowEnd(new)
  <2>1. unlocked \in LedType
    BY <1>1, LockType
  <2>2. FlashesKnowEnd(unlocked)
    BY <1>1 DEF FlashesKnowEnd, LedType
  <2>3. new \in {r, DeactivateLed(r, p, ok), DeactivateLed(unlocked, p, ok)}
    BY DEF UnlockAndDeactivate
  <2> HIDE DEF new, unlocked
  <2>4. QED
    BY <1>1, <2>1, <2>2, <2>3, DeactivateLedFlashes
<1>5. QED
  BY <1>2, <1>3, <1>4 DEF LedInv

LEMMA SetLedInv ==
    ASSUME NEW r, LedInv(r), NEW req \in RequestType, NEW ok \in BOOLEAN
    PROVE  LedInv(SetLed(r, req, ok))
<1> SUFFICES ASSUME SetLed(r, req, ok) # r PROVE LedInv(SetLed(r, req, ok))
  OBVIOUS
<1> DEFINE p == req.priority
           c == InitialiseFlashing(r.ctx[p], Mapped(req))
           s == InitialState(c, Mapped(req))
<1>1. r \in LedType /\ LockAgrees(r) /\ FlashesKnowEnd(r)
  BY DEF LedInv
<1>2. /\ p \in Priorities /\ c \in Contexts /\ s \in LedStates
      /\ c.final # UNKNOWN
      /\ SetLed(r, req, ok) = SetState(WithContext(r, p, c), p, s, ok)
  BY <1>1, SetLedCases
<1>3. SetLed(r, req, ok) \in LedType /\ LockAgrees(SetLed(r, req, ok))
  BY <1>1, SetLedType DEF LockAgrees
<1> HIDE DEF p, c, s
<1>4. FlashKnowsEnd(c)
  BY <1>2 DEF FlashKnowsEnd
<1>5. WithContext(r, p, c) \in LedType /\ FlashesKnowEnd(WithContext(r, p, c))
  BY <1>1, <1>2, <1>4, WithContextType, WithContextFlashes
<1>6. FlashesKnowEnd(SetLed(r, req, ok))
  BY <1>2, <1>5, SetStateFlashes
<1>7. QED
  BY <1>3, <1>6 DEF LedInv

(* A pending timer's flash knows its end, and keeps knowing it. *)
LEMMA FlashUpdatedFlash ==
    ASSUME NEW c \in Contexts, c.timer, FlashKnowsEnd(c)
    PROVE  FlashKnowsEnd(FlashUpdated(c))
<1> DEFINE t == TimeRemaining(c)
           fired == [c EXCEPT !.timer = FALSE, !.remaining = t]
           next == IF FlashNext(c) = ON THEN OnTime[c.times] ELSE OffTime[c.times]
<1>1. t \in Nat
  BY DEF TimeRemaining, Contexts
<1>2. FlashUpdated(c) = IF ~ c.forever /\ t = 0 THEN StopFlashing(fired)
                        ELSE [fired EXCEPT !.current = next]
  BY DEF FlashUpdated
<1> HIDE DEF t, next
<1>3. fired \in Contexts /\ fired.final = c.final
  BY <1>1 DEF Contexts
<1>4. FlashKnowsEnd(StopFlashing(fired))
  <2> HIDE DEF fired
  <2>1. QED
    BY <1>3, StopFlashingFlash
<1>5. c.final # UNKNOWN
  BY DEF FlashKnowsEnd
<1>6. [fired EXCEPT !.current = next].final = c.final
  BY <1>3 DEF Contexts
<1>7. QED
  BY <1>2, <1>4, <1>5, <1>6 DEF FlashKnowsEnd

LEMMA FlashLedInv ==
    ASSUME NEW r, LedInv(r), NEW p \in Priorities, r.ctx[p].timer,
           NEW opened \in BOOLEAN, NEW ok \in BOOLEAN
    PROVE  LedInv(FlashLed(r, p, opened, ok))
<1> DEFINE c == FlashUpdated(r.ctx[p])
           s == FlashNext(r.ctx[p])
           new == FlashLed(r, p, opened, ok)
<1>1. r \in LedType /\ LockAgrees(r) /\ FlashesKnowEnd(r)
  BY DEF LedInv
<1>2. /\ c \in Contexts /\ s \in LedStates
      /\ new = IF opened THEN SetState(WithContext(r, p, c), p, s, ok)
                         ELSE WithContext(r, p, c)
  BY <1>1, FlashLedCases
<1>3. new \in LedType /\ LockAgrees(new)
  BY <1>1, FlashLedType DEF LockAgrees
<1>4. FlashKnowsEnd(c)
  BY <1>1, FlashUpdatedFlash DEF FlashesKnowEnd, LedType
<1> HIDE DEF c, s, new
<1>5. WithContext(r, p, c) \in LedType /\ FlashesKnowEnd(WithContext(r, p, c))
  BY <1>1, <1>2, <1>4, WithContextType, WithContextFlashes
<1>6. FlashesKnowEnd(new)
  BY <1>2, <1>5, SetStateFlashes
<1>7. QED
  BY <1>3, <1>6 DEF LedInv, new

------------------------------------------------------------------------------
LEMMA NewLedInv ==
    ASSUME NEW s \in LedStates, NEW opened \in BOOLEAN
    PROVE  LedInv(NewLed(s, opened))
<1> DEFINE r == NewLed(s, opened)
           state(p) == IF p = NORMAL /\ opened THEN s ELSE OFF
           ctx == [p \in Priorities |-> NewContext(state(p))]
<1>1. \A p \in Priorities : state(p) \in LedStates
  BY DEF LedStates
<1> HIDE DEF state
<1>2. \A p \in Priorities : NewContext(state(p)) \in Contexts /\ FlashKnowsEnd(NewContext(state(p)))
  BY <1>1 DEF NewContext, Contexts, FlashKnowsEnd, FlashTypes, LedStates
<1>3. ctx \in [Priorities -> Contexts] /\ \A p \in Priorities : FlashKnowsEnd(ctx[p])
  BY <1>2
<1> HIDE DEF ctx
<1>4. r = [lock |-> NoLock, active |-> {NORMAL}, phys |-> s, ctx |-> ctx]
  BY DEF NewLed, ctx, state
<1>5. {NORMAL} \in {S \in SUBSET Priorities : NORMAL \in S} /\ LOCKED # NORMAL
  BY DEF Priorities, NORMAL, LOCKED
<1> HIDE DEF r
<1>6. r \in LedType
  BY <1>3, <1>4, <1>5 DEF LedType
<1>7. LedInv(r)
  BY <1>3, <1>4, <1>5, <1>6 DEF LedInv, LockAgrees, FlashesKnowEnd
<1>8. QED
  BY <1>7 DEF r

LEMMA InitInv == Init => Inv
<1> SUFFICES ASSUME Init PROVE Inv
  OBVIOUS
<1>1. PICK opened \in Outcomes : leds \in [LEDs -> {NewLed(s, opened) : s \in ReportedStates}]
  BY DEF Init
<1>2. opened \in BOOLEAN
  BY EnvironmentAssumption DEF Outcomes
<1>3. ASSUME NEW l \in LEDs
      PROVE  LedInv(leds[l])
  <2>1. PICK s \in ReportedStates : leds[l] = NewLed(s, opened)
    BY <1>1
  <2>2. s \in LedStates
    BY StatesAssumption
  <2>3. QED
    BY <1>2, <2>1, <2>2, NewLedInv
<1>4. leds = [l \in LEDs |-> leds[l]]
  BY <1>1
<1>5. QED
  BY <1>3, <1>4 DEF Inv

LEMMA TimeoutOfLed ==
    ASSUME Inv, NEW l \in LEDs, NEW p \in Priorities, NEW m \in LEDs, Timeout(m, p)
    PROVE  leds'[l] = leds[l] \/ (l = m /\ TimeoutStep(leds[l], leds'[l], p))
<1>1. PICK opened \in Outcomes, ok \in Outcomes : FlashTimeout(m, p, opened, ok)
  BY DEF Timeout
<1>2. leds[m].ctx[p].timer /\ leds' = [leds EXCEPT ![m] = FlashLed(leds[m], p, opened, ok)]
  BY <1>1 DEF FlashTimeout
<1>3. m = l => leds'[l] = FlashLed(leds[l], p, opened, ok)
  BY <1>2 DEF Inv
<1>4. m # l => leds'[l] = leds[l]
  BY <1>2 DEF Inv
<1>5. QED
  BY <1>2, <1>3, <1>4 DEF TimeoutStep

(* Another process has written this LED. *)
ForeignStep(l) ==
    /\ OtherProcess
    /\ OtherProcessWrites(l, leds'[l].phys)
    /\ leds'[l].phys \in {OFF, ON}
    /\ leds'[l] = [leds[l] EXCEPT !.phys = leds'[l].phys]

(* Every step is one of these for every LED, or a write of another process. *)
LEMMA NextOfLed ==
    ASSUME Inv, [Next]_vars, NEW l \in LEDs
    PROVE  LedStep(leds[l], leds'[l]) \/ ForeignStep(l)
<1>1. ASSUME NEW name \in Names, NEW req \in SetRequests, NEW broken \in Broken,
             SetLedState(name, req, broken)
      PROVE  LedStep(leds[l], leds'[l])
  BY <1>1, SetLedStateOfLed DEF LedStep
<1>2. ASSUME NEW name \in Names, NEW p \in RequestPriorities, NEW k \in LockIds,
             NEW broken \in Broken, ActivatePriority(name, p, k, broken)
      PROVE  LedStep(leds[l], leds'[l])
  BY <1>2, ActivatePriorityOfLed, RequestsAssumption DEF LedStep
<1>3. ASSUME NEW name \in Names, NEW p \in RequestPriorities, NEW k \in LockIds,
             NEW broken \in Broken, DeactivatePriority(name, p, k, broken)
      PROVE  LedStep(leds[l], leds'[l])
  BY <1>3, DeactivatePriorityOfLed, RequestsAssumption DEF LedStep
<1>4. ASSUME NEW m \in LEDs, NEW p \in Priorities, Timeout(m, p)
      PROVE  LedStep(leds[l], leds'[l])
  BY <1>4, TimeoutOfLed DEF LedStep
<1>5. ASSUME NEW m \in LEDs, NEW s \in {OFF, ON}, OtherProcessWrites(m, s)
      PROVE  leds'[l] = leds[l] \/ ForeignStep(l)
  <2>1. OtherProcess /\ leds' = [leds EXCEPT ![m] = [leds[m] EXCEPT !.phys = s]]
    BY <1>5 DEF OtherProcessWrites, Inv
  <2>2. m # l => leds'[l] = leds[l]
    BY <2>1 DEF Inv
  <2>3. m = l => /\ leds'[l] = [leds[l] EXCEPT !.phys = s]
                 /\ leds'[l].phys = s
    BY <2>1 DEF Inv, LedInv, LedType
  <2>4. QED
    BY <1>5, <2>1, <2>2, <2>3 DEF ForeignStep
<1>6. CASE UNCHANGED vars
  BY <1>6 DEF vars, LedStep
<1>7. leds'[l] = leds[l] => LedStep(leds[l], leds'[l])
  BY DEF LedStep
<1>8. QED
  BY <1>1, <1>2, <1>3, <1>4, <1>5, <1>6, <1>7 DEF Next, Request

(* Whatever a handler does to a LED keeps the LED's invariant. *)
LEMMA StepInv ==
    ASSUME NEW r, LedInv(r), NEW new, LedStep(r, new)
    PROVE  LedInv(new)
<1>1. ASSUME NEW req \in SetRequests, SetStep(r, new, req)
      PROVE  LedInv(new)
  <2>1. PICK ok \in BOOLEAN : new \in {SetLed(r, req, ok), SetLed(SetLed(r, req, ok), req, ok)}
    BY <1>1, OutcomesType DEF SetStep
  <2>2. req \in RequestType
    BY SetRequestsType
  <2>3. LedInv(SetLed(r, req, ok))
    BY <2>2, SetLedInv
  <2>4. LedInv(SetLed(SetLed(r, req, ok), req, ok))
    BY <2>2, <2>3, SetLedInv
  <2>5. QED
    BY <2>1, <2>3, <2>4
<1>2. ASSUME NEW p \in Priorities, NEW k \in LockIds, ActivateStep(r, new, p, k)
      PROVE  LedInv(new)
  <2>1. PICK ok \in BOOLEAN :
          new \in {LockAndActivate(r, p, k, ok),
                   LockAndActivate(LockAndActivate(r, p, k, ok), p, k, ok)}
    BY <1>2, OutcomesType DEF ActivateStep
  <2>2. LedInv(LockAndActivate(r, p, k, ok))
    BY LockAndActivateInv
  <2>3. LedInv(LockAndActivate(LockAndActivate(r, p, k, ok), p, k, ok))
    BY <2>2, LockAndActivateInv
  <2>4. QED
    BY <2>1, <2>2, <2>3
<1>3. ASSUME NEW p \in Priorities, NEW k \in LockIds, DeactivateStep(r, new, p, k)
      PROVE  LedInv(new)
  <2>1. PICK ok \in BOOLEAN :
          new \in {UnlockAndDeactivate(r, p, k, ok),
                   UnlockAndDeactivate(UnlockAndDeactivate(r, p, k, ok), p, k, ok)}
    BY <1>3, OutcomesType DEF DeactivateStep
  <2>2. LedInv(UnlockAndDeactivate(r, p, k, ok))
    BY UnlockAndDeactivateInv
  <2>3. LedInv(UnlockAndDeactivate(UnlockAndDeactivate(r, p, k, ok), p, k, ok))
    BY <2>2, UnlockAndDeactivateInv
  <2>4. QED
    BY <2>1, <2>2, <2>3
<1>4. ASSUME NEW p \in Priorities, TimeoutStep(r, new, p)
      PROVE  LedInv(new)
  <2>1. PICK opened \in BOOLEAN, ok \in BOOLEAN : new = FlashLed(r, p, opened, ok)
    BY <1>4, OutcomesType DEF TimeoutStep
  <2>2. QED
    BY <1>4, <2>1, FlashLedInv DEF TimeoutStep
<1>5. QED
  BY <1>1, <1>2, <1>3, <1>4 DEF LedStep

(* Every step keeps the invariant of every LED. *)
LEMMA NextInv == Inv /\ [Next]_vars => Inv'
<1> SUFFICES ASSUME Inv, [Next]_vars PROVE Inv'
  OBVIOUS
<1>1. ASSUME NEW l \in LEDs PROVE LedInv(leds'[l])
  <2>1. LedInv(leds[l])
    BY DEF Inv
  <2>2. CASE LedStep(leds[l], leds'[l])
    BY <2>1, <2>2, StepInv
  <2>3. CASE ForeignStep(l)
    <3> DEFINE s == leds'[l].phys
    <3>1. s \in LedStates /\ leds'[l] = [leds[l] EXCEPT !.phys = s]
      BY <2>3 DEF ForeignStep, LedStates
    <3> HIDE DEF s
    <3>2. QED
      BY <2>1, <3>1 DEF LedInv, LedType, LockAgrees, FlashesKnowEnd
  <2>4. QED
    BY <2>2, <2>3, NextOfLed
<1>2. leds' = [l \in LEDs |-> leds'[l]]
  BY DEF Inv, vars, Next, Request, SetLedState, ActivatePriority, DeactivatePriority,
         Timeout, FlashTimeout, OtherProcessWrites
<1>3. QED
  BY <1>1, <1>2 DEF Inv

(* The inductive invariant holds in every reachable state.                  *)
LEMMA InvHolds == Spec => []Inv
<1>1. QED
  BY InitInv, NextInv, PTL DEF Spec

(* Every LED's record keeps its type, and NORMAL is always active.          *)
THEOREM TypeCorrect == Spec => []TypeOK
<1>1. Inv => TypeOK
  BY DEF Inv, LedInv, LedType, TypeOK
<1>2. QED
  BY <1>1, InvHolds, PTL

(* A LED has a lock ID exactly while its LOCKED priority is active.         *)
THEOREM LocksAgree == Spec => []LockMatchesPriority
<1>1. Inv => LockMatchesPriority
  BY DEF Inv, LedInv, LockAgrees, LockMatchesPriority
<1>2. QED
  BY <1>1, InvHolds, PTL

(* A pending flash has a state to end in, also when writes fail.            *)
THEOREM FlashesHaveEnds == Spec => []PendingFlashHasFinalState
<1>1. Inv => PendingFlashHasFinalState
  BY DEF Inv, LedInv, FlashesKnowEnd, FlashKnowsEnd, PendingFlashHasFinalState
<1>2. QED
  BY <1>1, InvHolds, PTL

------------------------------------------------------------------------------
(* The owners that LedLock knows are the lock IDs of the records. *)
Owner == [l \in LEDs |-> leds[l].lock]

LEMMA SetLedKeepsOwner ==
    ASSUME Inv, NEW name \in Names, NEW req \in SetRequests, NEW broken \in Broken,
           SetLedState(name, req, broken)
    PROVE  Owner' = Owner
<1>1. ASSUME NEW l \in LEDs PROVE leds'[l].lock = leds[l].lock
  <2>1. PICK ok \in BOOLEAN :
          \/ leds'[l] = leds[l]
          \/ leds'[l] = SetLed(leds[l], req, ok)
          \/ leds'[l] = SetLed(SetLed(leds[l], req, ok), req, ok)
    <3>1. leds'[l] = leds[l] \/ SetStep(leds[l], leds'[l], req)
      BY SetLedStateOfLed
    <3>2. QED
      BY <3>1, OutcomesType DEF SetStep
  <2>2. leds[l] \in LedType /\ req \in RequestType
    BY SetRequestsType DEF Inv, LedInv
  <2>3. SetLed(leds[l], req, ok) \in LedType /\ SetLed(leds[l], req, ok).lock = leds[l].lock
    BY <2>2, SetLedType
  <2>4. SetLed(SetLed(leds[l], req, ok), req, ok).lock = leds[l].lock
    BY <2>2, <2>3, SetLedType
  <2>5. QED
    BY <2>1, <2>3, <2>4
<1>2. QED
  BY <1>1 DEF Owner

(* A request to activate a priority takes locks from nobody. *)
LEMMA ActivateOwner ==
    ASSUME Inv, NEW name \in Names, NEW p \in Priorities, NEW k \in LockIds,
           NEW broken \in Broken, ActivatePriority(name, p, k, broken), NEW l \in LEDs
    PROVE  leds'[l].lock = leds[l].lock \/ (leds[l].lock = NoLock /\ leds'[l].lock = k)
<1> DEFINE r == leds[l]
<1>1. PICK ok \in BOOLEAN :
        \/ leds'[l] = r
        \/ leds'[l] = LockAndActivate(r, p, k, ok)
        \/ leds'[l] = LockAndActivate(LockAndActivate(r, p, k, ok), p, k, ok)
  <2>1. leds'[l] = r \/ ActivateStep(r, leds'[l], p, k)
    BY ActivatePriorityOfLed
  <2>2. QED
    BY <2>1, OutcomesType DEF ActivateStep
<1>2. r \in LedType
  BY DEF Inv, LedInv
<1> DEFINE once == LockAndActivate(r, p, k, ok)
<1>3. once \in LedType /\ (once.lock = r.lock \/ (r.lock = NoLock /\ once.lock = k))
  BY <1>2, LockAndActivateType
<1> HIDE DEF r, once
<1>4. once.lock = LockAndActivate(once, p, k, ok).lock
         \/ (once.lock = NoLock /\ LockAndActivate(once, p, k, ok).lock = k)
  BY <1>3, LockAndActivateType
<1>5. QED
  BY <1>1, <1>3, <1>4, LockAssumption DEF r, once

(* A request to deactivate a priority frees only locks with its own ID. *)
LEMMA DeactivateOwner ==
    ASSUME Inv, NEW name \in Names, NEW p \in Priorities, NEW k \in LockIds,
           NEW broken \in Broken, DeactivatePriority(name, p, k, broken), NEW l \in LEDs
    PROVE  leds'[l].lock = leds[l].lock \/ (leds[l].lock = k /\ leds'[l].lock = NoLock)
<1> DEFINE r == leds[l]
<1>1. PICK ok \in BOOLEAN :
        \/ leds'[l] = r
        \/ leds'[l] = UnlockAndDeactivate(r, p, k, ok)
        \/ leds'[l] = UnlockAndDeactivate(UnlockAndDeactivate(r, p, k, ok), p, k, ok)
  <2>1. leds'[l] = r \/ DeactivateStep(r, leds'[l], p, k)
    BY DeactivatePriorityOfLed
  <2>2. QED
    BY <2>1, OutcomesType DEF DeactivateStep
<1>2. r \in LedType
  BY DEF Inv, LedInv
<1> DEFINE once == UnlockAndDeactivate(r, p, k, ok)
<1>3. once \in LedType /\ (once.lock = r.lock \/ (r.lock = k /\ once.lock = NoLock))
  BY <1>2, UnlockAndDeactivateType
<1> HIDE DEF r, once
<1>4. once.lock = UnlockAndDeactivate(once, p, k, ok).lock
         \/ (once.lock = k /\ UnlockAndDeactivate(once, p, k, ok).lock = NoLock)
  BY <1>3, UnlockAndDeactivateType
<1>5. QED
  BY <1>1, <1>3, <1>4, LockAssumption DEF r, once

LEMMA LockStep == Inv /\ [Next]_vars => [Locks!Next]_Owner
<1> SUFFICES ASSUME Inv, [Next]_vars PROVE [Locks!Next]_Owner
  OBVIOUS
<1>1. ASSUME NEW name \in Names, NEW req \in SetRequests, NEW broken \in Broken,
             SetLedState(name, req, broken)
      PROVE  Owner' = Owner
  BY <1>1, SetLedKeepsOwner
<1>2. ASSUME NEW name \in Names, NEW p \in RequestPriorities, NEW k \in LockIds,
             NEW broken \in Broken, ActivatePriority(name, p, k, broken)
      PROVE  Locks!Next
  <2> DEFINE S == {l \in LEDs : leds'[l].lock # leds[l].lock}
  <2>1. \A l \in LEDs :
          leds'[l].lock = IF l \in S /\ leds[l].lock = NoLock THEN k ELSE leds[l].lock
    BY <1>2, ActivateOwner, RequestsAssumption
  <2>2. Locks!Lock(S, k)
    BY <2>1 DEF Locks!Lock
  <2>3. QED
    BY <2>2 DEF Locks!Next
<1>3. ASSUME NEW name \in Names, NEW p \in RequestPriorities, NEW k \in LockIds,
             NEW broken \in Broken, DeactivatePriority(name, p, k, broken)
      PROVE  Locks!Next
  <2> DEFINE S == {l \in LEDs : leds'[l].lock # leds[l].lock}
  <2>1. \A l \in LEDs :
          leds'[l].lock = IF l \in S /\ leds[l].lock = k THEN NoLock ELSE leds[l].lock
    BY <1>3, DeactivateOwner, RequestsAssumption
  <2>2. Locks!Unlock(S, k)
    BY <2>1 DEF Locks!Unlock
  <2>3. QED
    BY <2>2 DEF Locks!Next
<1>4. ASSUME NEW l \in LEDs, NEW p \in Priorities, Timeout(l, p)
      PROVE  Owner' = Owner
  <2>1. PICK opened \in BOOLEAN, ok \in BOOLEAN : FlashTimeout(l, p, opened, ok)
    BY <1>4, EnvironmentAssumption DEF Timeout, Outcomes
  <2>2. FlashLed(leds[l], p, opened, ok).lock = leds[l].lock
    BY FlashLedType DEF Inv, LedInv
  <2>3. leds' = [leds EXCEPT ![l] = FlashLed(leds[l], p, opened, ok)]
    BY <2>1 DEF FlashTimeout
  <2>4. QED
    BY <2>2, <2>3 DEF Inv, Owner
<1>5. ASSUME NEW l \in LEDs, NEW s \in {OFF, ON}, OtherProcessWrites(l, s)
      PROVE  Owner' = Owner
  BY <1>5 DEF OtherProcessWrites, Inv, LedInv, LedType, Owner
<1>6. CASE UNCHANGED vars
  BY <1>6 DEF vars, Owner
<1>7. QED
  BY <1>1, <1>2, <1>3, <1>4, <1>5, <1>6 DEF Next, Request

(* No sequence of requests takes a lock from its holder or frees it with    *)
(* another ID: the controller's locks implement LedLock.                    *)
THEOREM LockingImplemented == Spec => ImplementsLocking
<1>1. Init => Locks!Init
  BY DEF Init, NewLed, Locks!Init
<1>2. QED
  BY <1>1, InvHolds, LockStep, PTL DEF Spec, Owner, ImplementsLocking, Locks!Spec
------------------------------------------------------------------------------
(***************************************************************************)
(* What a LED shows.  A state that is set is recorded only, because its    *)
(* priority is less urgent than the highest active one; or written and     *)
(* then recorded; or neither, when the write fails.                        *)
(***************************************************************************)
ShowsHighest(r) == r.phys = r.ctx[Highest(r)].state

ShowsStateOf(r, p) == p <= Highest(r) /\ r.ctx[p].state = r.phys

(* The priorities of F may be set without being active. *)
Urgent(r, F) ==
    \E p \in Priorities :
        /\ p = Highest(r) \/ (p < Highest(r) /\ p \in F)
        /\ r.ctx[p].state = r.phys

(* The contexts of new are those of r, but for the one of p. *)
Records(r, new, p, s) ==
    \A q \in Priorities : new.ctx[q] = IF q = p THEN Recorded(r.ctx[p], s) ELSE r.ctx[q]

LEMMA PrioritiesAreNaturals == Priorities \subseteq Nat
BY DEF Priorities, CRITICAL, LOCKED, ALTERNATE, NORMAL

LEMMA HighestOfSameActive ==
    ASSUME NEW r, NEW q, q.active = r.active
    PROVE  Highest(q) = Highest(r)
BY DEF Highest

LEMMA RecordedFields ==
    ASSUME NEW c \in Contexts, NEW s \in LedStates
    PROVE  /\ Recorded(c, s).state = s
           /\ Recorded(c, s).timer <=> c.current > 0
           /\ Recorded(c, s).current = c.current
           /\ Recorded(c, s).final = c.final
<1> DEFINE t == (c.current > 0)
<1>1. Recorded(c, s) = [c EXCEPT !.state = s, !.timer = t]
  BY DEF Recorded
<1>2. t \in BOOLEAN
  OBVIOUS
<1> HIDE DEF t
<1>3. Recorded(c, s).timer = t
  BY <1>1, <1>2 DEF Contexts
<1>4. QED
  BY <1>1, <1>3 DEF Contexts, t

LEMMA WithContextRecords ==
    ASSUME NEW r \in LedType, NEW p \in Priorities, NEW c \in Contexts
    PROVE  /\ WithContext(r, p, c) \in LedType
           /\ Highest(WithContext(r, p, c)) = Highest(r)
           /\ WithContext(r, p, c).lock = r.lock
           /\ WithContext(r, p, c).active = r.active
           /\ WithContext(r, p, c).phys = r.phys
           /\ \A q \in Priorities :
                 WithContext(r, p, c).ctx[q] = IF q = p THEN c ELSE r.ctx[q]
<1>1. /\ WithContext(r, p, c) \in LedType
      /\ WithContext(r, p, c).ctx = [r.ctx EXCEPT ![p] = c]
      /\ WithContext(r, p, c).lock = r.lock
      /\ WithContext(r, p, c).active = r.active
      /\ WithContext(r, p, c).phys = r.phys
  BY WithContextType
<1>2. r.ctx \in [Priorities -> Contexts]
  BY DEF LedType
<1>3. Highest(WithContext(r, p, c)) = Highest(r)
  BY <1>1, HighestOfSameActive
<1>4. QED
  BY <1>1, <1>2, <1>3

LEMMA SetStateCases ==
    ASSUME NEW r \in LedType, NEW p \in Priorities, NEW s \in LedStates,
           NEW ok \in BOOLEAN
    PROVE  /\ SetState(r, p, s, ok) \in LedType
           /\ Highest(SetState(r, p, s, ok)) = Highest(r)
           /\ p > Highest(r) =>
                 /\ SetState(r, p, s, ok).phys = r.phys
                 /\ Records(r, SetState(r, p, s, ok), p, s)
           /\ p <= Highest(r) /\ ok /\ s \in Accepted =>
                 /\ SetState(r, p, s, ok).phys = s
                 /\ Records(r, SetState(r, p, s, ok), p, s)
           /\ p <= Highest(r) /\ ~ (ok /\ s \in Accepted) =>
                 SetState(r, p, s, ok) = r
<1> DEFINE recorded == WithContext(r, p, Recorded(r.ctx[p], s))
           new == SetState(r, p, s, ok)
<1>1. r.ctx[p] \in Contexts
  BY DEF LedType
<1>2. /\ recorded \in LedType
      /\ recorded.phys = r.phys
      /\ Records(r, recorded, p, s)
  <2>1. Recorded(r.ctx[p], s) \in Contexts
    BY <1>1, RecordedType
  <2>2. QED
    BY <2>1, WithContextRecords DEF Records
<1>3. new \in LedType /\ Highest(new) = Highest(r)
  BY SetStateType, HighestOfSameActive
<1>4. Highest(r) \in Nat /\ p \in Nat
  BY HighestType, PrioritiesAreNaturals
<1>5. new = IF p > Highest(r) THEN recorded
            ELSE IF ok /\ s \in Accepted THEN [recorded EXCEPT !.phys = s]
            ELSE r
  BY DEF SetState, LessUrgent
<1> HIDE DEF recorded, new
<1>6. /\ [recorded EXCEPT !.phys = s].phys = s
      /\ [recorded EXCEPT !.phys = s].ctx = recorded.ctx
  BY <1>2 DEF LedType
<1>7. Records(r, [recorded EXCEPT !.phys = s], p, s)
  BY <1>2, <1>6 DEF Records
<1>8. p > Highest(r) => new = recorded
  BY <1>5
<1>9. p <= Highest(r) => ~ (p > Highest(r))
  BY <1>4
<1>10. p <= Highest(r) /\ ok /\ s \in Accepted => new = [recorded EXCEPT !.phys = s]
  BY <1>5, <1>9
<1>11. p <= Highest(r) /\ ~ (ok /\ s \in Accepted) => new = r
  BY <1>5, <1>9
<1>12. QED
  BY <1>2, <1>3, <1>6, <1>7, <1>8, <1>10, <1>11 DEF new

(* A state of a less urgent priority doesn't reach the LED. *)
LEMMA OnlyRecorded ==
    ASSUME NEW r \in LedType, NEW p \in Priorities, NEW s \in LedStates,
           NEW ok \in BOOLEAN, p > Highest(r)
    PROVE  SetState(r, p, s, ok).phys = r.phys
BY SetStateCases

(* A state that reaches the LED is recorded for an urgent enough priority. *)
LEMMA WrittenIsShown ==
    ASSUME NEW r \in LedType, NEW p \in Priorities, NEW s \in LedStates,
           NEW ok \in BOOLEAN, ok, s \in Accepted, p <= Highest(r)
    PROVE  /\ SetState(r, p, s, ok) \in LedType
           /\ ShowsStateOf(SetState(r, p, s, ok), p)
           /\ Highest(SetState(r, p, s, ok)) = Highest(r)
           /\ SetState(r, p, s, ok).phys = s
           /\ SetState(r, p, s, ok).ctx[p].state = s
<1> DEFINE new == SetState(r, p, s, ok)
<1>1. r.ctx[p] \in Contexts
  BY DEF LedType
<1>2. /\ new \in LedType /\ Highest(new) = Highest(r) /\ new.phys = s
      /\ Records(r, new, p, s)
  BY SetStateCases
<1> HIDE DEF new
<1>3. new.ctx[p] = Recorded(r.ctx[p], s) /\ Recorded(r.ctx[p], s).state = s
  BY <1>1, <1>2, RecordedFields DEF Records
<1>4. ShowsStateOf(new, p)
  BY <1>2, <1>3 DEF ShowsStateOf
<1>5. QED
  BY <1>2, <1>3, <1>4 DEF new

(* A change of the LED is a write that worked. *)
LEMMA ChangeIsWritten ==
    ASSUME NEW r \in LedType, NEW p \in Priorities, NEW s \in LedStates,
           NEW ok \in BOOLEAN, SetState(r, p, s, ok).phys # r.phys
    PROVE  ok /\ s \in Accepted /\ p <= Highest(r)
<1>1. Highest(r) \in Nat /\ p \in Nat
  BY HighestType, PrioritiesAreNaturals
<1>2. p > Highest(r) \/ p <= Highest(r)
  BY <1>1
<1>3. QED
  BY <1>2, SetStateCases

------------------------------------------------------------------------------
(* The LED just before led_ctx_activate_priority writes it. *)
Activated(r, p) == [r EXCEPT !.active = @ \cup {p}]

TurnedOff(r, p) ==
    WithContext(Activated(r, p), p, StopFlashing([r.ctx[p] EXCEPT !.state = OFF]))

Prepared(r, p) ==
    IF p \in {LOCKED, ALTERNATE} \/ r.ctx[p].state = UNKNOWN
    THEN TurnedOff(r, p) ELSE Activated(r, p)

LEMMA ActivatedType ==
    ASSUME NEW r \in LedType, NEW p \in Priorities
    PROVE  /\ Activated(r, p) \in LedType
           /\ Activated(r, p).lock = r.lock
           /\ Activated(r, p).active = r.active \cup {p}
           /\ Activated(r, p).ctx = r.ctx
           /\ Activated(r, p).phys = r.phys
<1>1. r.active \cup {p} \in SUBSET Priorities /\ NORMAL \in r.active \cup {p}
  BY DEF LedType
<1>2. QED
  BY <1>1, ActiveType DEF Activated

LEMMA StoppedFields ==
    ASSUME NEW c \in Contexts
    PROVE  LET stopped == StopFlashing([c EXCEPT !.state = OFF])
           IN  /\ stopped \in Contexts
               /\ stopped.state = OFF /\ stopped.current = 0 /\ ~ stopped.timer
BY DEF StopFlashing, Contexts, LedStates

LEMMA TurnedOffType ==
    ASSUME NEW r \in LedType, NEW p \in Priorities
    PROVE  /\ TurnedOff(r, p) \in LedType
           /\ TurnedOff(r, p).lock = r.lock
           /\ TurnedOff(r, p).active = r.active \cup {p}
           /\ TurnedOff(r, p).phys = r.phys
           /\ \A q \in Priorities \ {p} : TurnedOff(r, p).ctx[q] = r.ctx[q]
           /\ TurnedOff(r, p).ctx[p].state = OFF
           /\ TurnedOff(r, p).ctx[p].current = 0
           /\ ~ TurnedOff(r, p).ctx[p].timer
<1> DEFINE stopped == StopFlashing([r.ctx[p] EXCEPT !.state = OFF])
<1>1. /\ stopped \in Contexts
      /\ stopped.state = OFF /\ stopped.current = 0 /\ ~ stopped.timer
  <2>1. r.ctx[p] \in Contexts
    BY DEF LedType
  <2>2. QED
    BY <2>1, StoppedFields
<1>2. /\ Activated(r, p) \in LedType
      /\ Activated(r, p).lock = r.lock
      /\ Activated(r, p).active = r.active \cup {p}
      /\ Activated(r, p).ctx = r.ctx
      /\ Activated(r, p).phys = r.phys
  BY ActivatedType
<1>3. TurnedOff(r, p) = WithContext(Activated(r, p), p, stopped)
  BY DEF TurnedOff
<1> HIDE DEF stopped
<1>4. QED
  BY <1>1, <1>2, <1>3, WithContextRecords

(* Activating a priority turns its own context off, or leaves it alone. *)
LEMMA PreparedType ==
    ASSUME NEW r \in LedType, NEW p \in Priorities
    PROVE  /\ Prepared(r, p) \in LedType
           /\ Prepared(r, p).lock = r.lock
           /\ Prepared(r, p).active = r.active \cup {p}
           /\ Prepared(r, p).phys = r.phys
           /\ \A q \in Priorities \ {p} : Prepared(r, p).ctx[q] = r.ctx[q]
           /\ \/ /\ Prepared(r, p).ctx[p].state = OFF
                 /\ Prepared(r, p).ctx[p].current = 0
                 /\ ~ Prepared(r, p).ctx[p].timer
              \/ /\ Prepared(r, p).ctx[p] = r.ctx[p]
                 /\ r.ctx[p].state # UNKNOWN /\ p \notin {LOCKED, ALTERNATE}
<1>1. CASE p \in {LOCKED, ALTERNATE} \/ r.ctx[p].state = UNKNOWN
  <2>1. Prepared(r, p) = TurnedOff(r, p)
    BY <1>1 DEF Prepared
  <2>2. QED
    BY <2>1, TurnedOffType
<1>2. CASE ~ (p \in {LOCKED, ALTERNATE} \/ r.ctx[p].state = UNKNOWN)
  <2>1. Prepared(r, p) = Activated(r, p)
    BY <1>2 DEF Prepared
  <2>2. QED
    BY <1>2, <2>1, ActivatedType
<1>3. QED
  BY <1>1, <1>2

LEMMA ActivateLedCases ==
    ASSUME NEW r \in LedType, NEW p \in Priorities, NEW ok \in BOOLEAN
    PROVE  /\ \/ /\ Highest(Prepared(r, p)) = p
                 /\ ActivateLed(r, p, ok) =
                      SetState(Prepared(r, p), p, Prepared(r, p).ctx[p].state, ok)
              \/ /\ Highest(Prepared(r, p)) = Highest(r) /\ Highest(r) < p
                 /\ ActivateLed(r, p, ok) = Prepared(r, p)
           /\ Prepared(r, p).ctx[p].state \in LedStates
<1>1. /\ Prepared(r, p) \in LedType
      /\ Prepared(r, p).active = r.active \cup {p}
  BY PreparedType
<1>2. Prepared(r, p).ctx[p].state \in LedStates
  BY <1>1 DEF LedType, Contexts
<1>3. Highest(Activated(r, p)) = Highest(Prepared(r, p))
  BY <1>1, ActivatedType, HighestOfSameActive
<1>4. ActivateLed(r, p, ok) =
        IF Highest(Activated(r, p)) = p
        THEN SetState(Prepared(r, p), p, Prepared(r, p).ctx[p].state, ok)
        ELSE Prepared(r, p)
  BY DEF ActivateLed, Prepared, TurnedOff, Activated
<1>5. ASSUME Highest(Prepared(r, p)) # p
      PROVE  Highest(Prepared(r, p)) = Highest(r) /\ Highest(r) < p
  <2> DEFINE h == Highest(Prepared(r, p))
  <2>1. h \in r.active \cup {p} /\ h \in Nat /\ p \in Nat /\ \A q \in r.active \cup {p} : h <= q
    BY <1>1, HighestType, PrioritiesAreNaturals
  <2>2. Highest(r) \in r.active /\ Highest(r) \in Nat /\ \A q \in r.active : Highest(r) <= q
    BY HighestType, PrioritiesAreNaturals
  <2>3. h \in r.active
    BY <1>5, <2>1
  <2> HIDE DEF h
  <2>4. h <= Highest(r) /\ Highest(r) <= h /\ h <= p
    BY <2>1, <2>2, <2>3
  <2>5. QED
    BY <1>5, <2>1, <2>2, <2>4 DEF h
<1>6. QED
  BY <1>2, <1>3, <1>4, <1>5

Deactivated(r, p) == [r EXCEPT !.active = @ \ ({p} \ {NORMAL})]

LEMMA DeactivateLedCases ==
    ASSUME NEW r \in LedType, NEW p \in Priorities, NEW ok \in BOOLEAN
    PROVE  LET inactive == Deactivated(r, p)
               h == Highest(inactive)
           IN  /\ inactive \in LedType
               /\ inactive.lock = r.lock
               /\ inactive.active = r.active \ ({p} \ {NORMAL})
               /\ inactive.ctx = r.ctx
               /\ inactive.phys = r.phys
               /\ h \in Priorities /\ Highest(r) <= h /\ r.ctx[h].state \in LedStates
               /\ DeactivateLed(r, p, ok) =
                    IF h > p THEN SetState(inactive, h, r.ctx[h].state, ok) ELSE inactive
<1> DEFINE inactive == Deactivated(r, p)
           h == Highest(inactive)
<1>1. /\ inactive \in LedType
      /\ inactive.lock = r.lock
      /\ inactive.active = r.active \ ({p} \ {NORMAL})
      /\ inactive.ctx = r.ctx
      /\ inactive.phys = r.phys
  <2>1. /\ r.active \ ({p} \ {NORMAL}) \in SUBSET Priorities
        /\ NORMAL \in r.active \ ({p} \ {NORMAL})
    BY DEF LedType
  <2>2. QED
    BY <2>1, ActiveType DEF Deactivated
<1>2. DeactivateLed(r, p, ok) =
        IF h > p THEN SetState(inactive, h, inactive.ctx[h].state, ok) ELSE inactive
  BY DEF DeactivateLed, Deactivated, LessUrgent
<1> HIDE DEF inactive
<1>3. h \in Priorities /\ h \in inactive.active
  BY <1>1, HighestType
<1>4. Highest(r) <= h
  BY <1>1, <1>3, HighestType
<1>5. r.ctx[h].state \in LedStates
  BY <1>3 DEF LedType, Contexts
<1>6. QED
  BY <1>1, <1>2, <1>3, <1>4, <1>5 DEF inactive

(* The flash that a request starts, and the state that the LED starts in. *)
Flash(r, req) == InitialiseFlashing(r.ctx[req.priority], Mapped(req))

StartState(r, req) == InitialState(Flash(r, req), Mapped(req))

(* A state that the plugin lacks, and that isn't a flash, is refused. *)
Unknown(req) ==
    req.state \notin Supported /\ req.flash = "none" /\ FlashOf(req.state) = "none"

LEMMA SetLedEquation ==
    ASSUME NEW r \in LedType, NEW req \in RequestType, NEW ok \in BOOLEAN
    PROVE  LET p == req.priority
               flashing == WithContext(r, p, Flash(r, req))
           IN  /\ p \in Priorities /\ Flash(r, req) \in Contexts
               /\ Flash(r, req).final = Mapped(req).state
               /\ Flash(r, req).state = r.ctx[p].state
               /\ StartState(r, req) \in LedStates
               /\ ~ MayUpdate(r, req) \/ Unknown(req) => SetLed(r, req, ok) = r
               /\ MayUpdate(r, req) /\ ~ Unknown(req) =>
                     SetLed(r, req, ok) = SetState(flashing, p, StartState(r, req), ok)
<1> DEFINE p == req.priority
           c == Flash(r, req)
           flashing == WithContext(r, p, c)
<1>1. p \in Priorities /\ r.ctx[p] \in Contexts
  BY DEF RequestType, LedType
<1>2. Mapped(req) \in RequestType
  BY MappedType
<1>3. /\ c \in Contexts /\ c.final = Mapped(req).state
      /\ StartState(r, req) \in LedStates
  BY <1>1, <1>2, InitialiseFlashingType DEF Flash, StartState
<1>4. c.state = r.ctx[p].state
  BY <1>1 DEF Flash, InitialiseFlashing, Contexts
<1>5. flashing.ctx[p] = c
  <2> HIDE DEF c
  <2>1. QED
    BY <1>1, <1>3, WithContextRecords
<1>6. SetLed(r, req, ok) =
        IF ~ MayUpdate(r, req) \/ Unknown(req) THEN r
        ELSE SetState(flashing, p, InitialState(flashing.ctx[p], Mapped(req)), ok)
  <2> DEFINE driven == [req EXCEPT !.flash = FlashOf(req.state), !.state = ON, !.forever = TRUE]
  <2>1. driven.flash = FlashOf(req.state)
    BY DEF RequestType
  <2>2. QED
    BY <2>1 DEF SetLed, Mapped, Unknown, Flash
<1>7. QED
  BY <1>1, <1>3, <1>4, <1>5, <1>6 DEF StartState

(* What a flash starts with depends on the request alone. *)
LEMMA StartStateOfRequest ==
    ASSUME NEW q \in LedType, NEW r \in LedType, NEW req \in RequestType
    PROVE  StartState(q, req) = StartState(r, req)
<1> DEFINE m == Mapped(req)
           p == req.priority
<1>1. p \in Priorities /\ q.ctx[p] \in Contexts /\ r.ctx[p] \in Contexts
  BY DEF RequestType, LedType
<1>2. m \in RequestType
  BY MappedType
<1> HIDE DEF m
<1>3. ASSUME NEW c \in Contexts, NEW d \in Contexts
      PROVE  /\ InitialiseFlashing(c, m).current = InitialiseFlashing(d, m).current
             /\ InitialiseFlashing(c, m).final = InitialiseFlashing(d, m).final
  BY DEF InitialiseFlashing, Contexts
<1>4. /\ Flash(q, req).current = Flash(r, req).current
      /\ Flash(q, req).final = Flash(r, req).final
  BY <1>1, <1>3 DEF Flash, m
<1>5. QED
  BY <1>4 DEF StartState, InitialState

------------------------------------------------------------------------------
(* Whenever an operation changes a LED, also when it reaches the LED twice,  *)
(* the LED shows the state of an urgent enough priority afterwards.          *)
LEMMA ActivateShowsHighest ==
    ASSUME NEW r \in LedType, NEW p \in Priorities, NEW ok \in BOOLEAN,
           ActivateLed(r, p, ok).phys # r.phys
    PROVE  /\ ShowsHighest(ActivateLed(r, p, ok))
           /\ ShowsHighest(ActivateLed(ActivateLed(r, p, ok), p, ok))
<1> DEFINE new == ActivateLed(r, p, ok)
           s == Prepared(r, p).ctx[p].state
<1>1. /\ Prepared(r, p) \in LedType /\ Prepared(r, p).phys = r.phys
      /\ Prepared(r, p).active = r.active \cup {p}
  BY PreparedType
<1>2. /\ Highest(Prepared(r, p)) = p /\ s \in LedStates
      /\ new = SetState(Prepared(r, p), p, s, ok)
  BY <1>1, ActivateLedCases
<1>3. ok /\ s \in Accepted /\ p <= Highest(Prepared(r, p))
  BY <1>1, <1>2, ChangeIsWritten
<1> HIDE DEF s
<1>4. new \in LedType /\ ShowsHighest(new) /\ new.ctx[p].state = s
  <2> DEFINE prepared == Prepared(r, p)
  <2>1. /\ prepared \in LedType /\ Highest(prepared) = p /\ s \in LedStates
        /\ p <= Highest(prepared) /\ ok /\ s \in Accepted
    BY <1>1, <1>2, <1>3
  <2>2. new = SetState(prepared, p, s, ok)
    BY <1>2
  <2> HIDE DEF new, prepared
  <2>3. /\ new \in LedType /\ Highest(new) = Highest(prepared)
        /\ new.phys = s /\ new.ctx[p].state = s
    BY <2>1, <2>2, WrittenIsShown
  <2>4. Highest(new) = p
    BY <2>1, <2>3
  <2>5. QED
    BY <2>3, <2>4 DEF ShowsHighest
<1>5. new.active = r.active \cup {p}
  BY ActivateLedType
<1> HIDE DEF new
<1> DEFINE t == Prepared(new, p).ctx[p].state
<1>6. /\ Prepared(new, p) \in LedType
      /\ Prepared(new, p).active = Prepared(r, p).active
  BY <1>1, <1>4, <1>5, PreparedType
<1>7. Highest(Prepared(new, p)) = p
  BY <1>2, <1>6, HighestOfSameActive
<1>8. t = OFF \/ t = s
  BY <1>4, PreparedType
<1>9. t \in Accepted /\ t \in LedStates
  BY <1>3, <1>8, StatesAssumption
<1>10. p <= Highest(Prepared(new, p))
  BY <1>3, <1>2, <1>7
<1>11. ShowsHighest(SetState(Prepared(new, p), p, t, ok))
  <2> DEFINE again == SetState(Prepared(new, p), p, t, ok)
  <2> HIDE DEF again, t
  <2>1. again.phys = t /\ again.ctx[p].state = t /\ Highest(again) = p
    BY <1>3, <1>6, <1>7, <1>9, <1>10, WrittenIsShown DEF again
  <2>2. ShowsHighest(again)
    BY <2>1 DEF ShowsHighest
  <2>3. QED
    BY <2>2 DEF again
<1>12. ActivateLed(new, p, ok) = SetState(Prepared(new, p), p, t, ok)
  <2>1. p \in Nat
    BY PrioritiesAreNaturals
  <2>2. QED
    BY <1>4, <1>7, <2>1, ActivateLedCases
<1>13. QED
  BY <1>4, <1>11, <1>12 DEF new

LEMMA DeactivateShowsHighest ==
    ASSUME NEW r \in LedType, NEW p \in Priorities, NEW ok \in BOOLEAN,
           DeactivateLed(r, p, ok).phys # r.phys
    PROVE  /\ ShowsHighest(DeactivateLed(r, p, ok))
           /\ ShowsHighest(DeactivateLed(DeactivateLed(r, p, ok), p, ok))
<1> DEFINE inactive == Deactivated(r, p)
           h == Highest(inactive)
           s == r.ctx[h].state
           new == DeactivateLed(r, p, ok)
<1>1. /\ inactive \in LedType /\ inactive.phys = r.phys /\ inactive.ctx = r.ctx
      /\ inactive.active = r.active \ ({p} \ {NORMAL})
      /\ h \in Priorities /\ s \in LedStates
      /\ new = IF h > p THEN SetState(inactive, h, s, ok) ELSE inactive
  BY DeactivateLedCases
<1>2. h > p /\ new = SetState(inactive, h, s, ok)
  BY <1>1
<1> HIDE DEF inactive, s
<1>3. ok /\ s \in Accepted /\ h <= Highest(inactive)
  BY <1>1, <1>2, ChangeIsWritten
<1>4. new \in LedType /\ ShowsHighest(new) /\ new.ctx[h].state = s
  <2>1. inactive \in LedType /\ h \in Priorities /\ s \in LedStates
    BY <1>1
  <2>2. Highest(inactive) = h
    OBVIOUS
  <2> HIDE DEF new, h
  <2>3. h <= Highest(inactive)
    BY <1>3
  <2>4. new = SetState(inactive, h, s, ok)
    BY <1>2
  <2>5. /\ new \in LedType /\ Highest(new) = Highest(inactive)
        /\ new.phys = s /\ new.ctx[h].state = s
    BY <1>3, <2>1, <2>3, <2>4, WrittenIsShown
  <2>6. Highest(new) = h
    BY <2>2, <2>5
  <2>7. QED
    BY <2>5, <2>6 DEF ShowsHighest
<1>5. new.active = inactive.active
  BY <1>1, DeactivateLedType
<1> HIDE DEF new
<1> DEFINE again == Deactivated(new, p)
<1>6. /\ again \in LedType
      /\ again.active = new.active \ ({p} \ {NORMAL})
      /\ DeactivateLed(new, p, ok) =
            IF Highest(again) > p THEN SetState(again, Highest(again), new.ctx[Highest(again)].state, ok)
            ELSE again
  BY <1>4, DeactivateLedCases
<1>7. again.active = inactive.active
  BY <1>1, <1>5, <1>6
<1> HIDE DEF again
<1>8. Highest(again) = h
  BY <1>7, HighestOfSameActive
<1> HIDE DEF h
<1>9. DeactivateLed(new, p, ok) = SetState(again, h, s, ok)
  BY <1>2, <1>4, <1>6, <1>8
<1>10. h <= Highest(again)
  BY <1>1, <1>8, PrioritiesAreNaturals
<1>11. ShowsHighest(SetState(again, h, s, ok))
  <2> DEFINE twice == SetState(again, h, s, ok)
  <2> HIDE DEF twice
  <2>1. again \in LedType /\ h \in Priorities /\ s \in LedStates
    BY <1>1, <1>6
  <2>2. /\ twice.phys = s /\ twice.ctx[h].state = s
        /\ Highest(twice) = Highest(again)
    BY <1>3, <1>10, <2>1, WrittenIsShown DEF twice
  <2>3. ShowsHighest(twice)
    BY <1>8, <2>2 DEF ShowsHighest
  <2>4. QED
    BY <2>3 DEF twice
<1>12. QED
  BY <1>4, <1>9, <1>11 DEF new

LEMMA SetLedShowsRequested ==
    ASSUME NEW r \in LedType, NEW req \in RequestType, NEW ok \in BOOLEAN,
           SetLed(r, req, ok).phys # r.phys
    PROVE  /\ ShowsStateOf(SetLed(r, req, ok), req.priority)
           /\ ShowsStateOf(SetLed(SetLed(r, req, ok), req, ok), req.priority)
<1> DEFINE p == req.priority
           s == StartState(r, req)
           flashing == WithContext(r, p, Flash(r, req))
           new == SetLed(r, req, ok)
<1>1. /\ p \in Priorities /\ s \in LedStates /\ Flash(r, req) \in Contexts
      /\ MayUpdate(r, req) /\ ~ Unknown(req)
      /\ new = SetState(flashing, p, s, ok)
  BY SetLedEquation
<1>2. /\ flashing \in LedType /\ flashing.phys = r.phys
      /\ Highest(flashing) = Highest(r)
  BY <1>1, WithContextRecords
<1> HIDE DEF flashing, s
<1>3. ok /\ s \in Accepted /\ p <= Highest(r)
  BY <1>1, <1>2, ChangeIsWritten
<1>4. new \in LedType /\ ShowsStateOf(new, p)
  <2> HIDE DEF new, p
  <2>1. p <= Highest(flashing)
    BY <1>2, <1>3
  <2>2. QED
    BY <1>1, <1>2, <1>3, <2>1, WrittenIsShown
<1>5. new.lock = r.lock /\ new.active = r.active
  BY SetLedType
<1> HIDE DEF new
<1> DEFINE again == WithContext(new, p, Flash(new, req))
<1>6. StartState(new, req) = s
  BY <1>4, StartStateOfRequest DEF s
<1>7. MayUpdate(new, req)
  BY <1>1, <1>5 DEF MayUpdate
<1>8. Flash(new, req) \in Contexts /\ SetLed(new, req, ok) = SetState(again, p, s, ok)
  BY <1>1, <1>4, <1>6, <1>7, SetLedEquation
<1>9. again \in LedType /\ Highest(again) = Highest(r)
  BY <1>1, <1>4, <1>5, <1>8, WithContextRecords, HighestOfSameActive
<1> HIDE DEF again, p
<1>10. ShowsStateOf(SetState(again, p, s, ok), p)
  BY <1>1, <1>3, <1>9, WrittenIsShown
<1>11. QED
  BY <1>4, <1>8, <1>10 DEF new, p

LEMMA LockFields ==
    ASSUME NEW r \in LedType, NEW k \in LockIds \cup {NoLock}
    PROVE  /\ [r EXCEPT !.lock = k] \in LedType
           /\ [r EXCEPT !.lock = k].lock = k
           /\ [r EXCEPT !.lock = k].active = r.active
           /\ [r EXCEPT !.lock = k].phys = r.phys
           /\ [r EXCEPT !.lock = k].ctx = r.ctx
BY DEF LedType

(* A second visit of a request to lock or unlock a LED does nothing. *)
LEMMA LockAndActivateTwice ==
    ASSUME NEW r \in LedType, NEW p \in Priorities, NEW k \in LockIds, NEW ok \in BOOLEAN
    PROVE  LET once == LockAndActivate(r, p, k, ok)
               twice == LockAndActivate(once, p, k, ok)
               locked == [r EXCEPT !.lock = k]
           IN  \/ once = r /\ twice = r
               \/ once = ActivateLed(r, p, ok) /\ twice = ActivateLed(once, p, ok)
               \/ once = ActivateLed(locked, p, ok) /\ twice = once
<1> DEFINE once == LockAndActivate(r, p, k, ok)
<1>1. CASE p # LOCKED
  BY <1>1 DEF LockAndActivate
<1>2. CASE p = LOCKED /\ r.lock # NoLock
  BY <1>2 DEF LockAndActivate
<1>3. CASE p = LOCKED /\ r.lock = NoLock
  <2>1. once = ActivateLed([r EXCEPT !.lock = k], p, ok)
    BY <1>3 DEF LockAndActivate
  <2>2. once.lock # NoLock
    BY <1>3, LockAndActivateType, LockAssumption
  <2>3. LockAndActivate(once, p, k, ok) = once
    BY <1>3, <2>2 DEF LockAndActivate
  <2>4. QED
    BY <2>1, <2>3
<1>4. QED
  BY <1>1, <1>2, <1>3

LEMMA UnlockAndDeactivateTwice ==
    ASSUME NEW r \in LedType, NEW p \in Priorities, NEW k \in LockIds, NEW ok \in BOOLEAN
    PROVE  LET once == UnlockAndDeactivate(r, p, k, ok)
               twice == UnlockAndDeactivate(once, p, k, ok)
               unlocked == [r EXCEPT !.lock = NoLock]
           IN  \/ once = r /\ twice = r
               \/ once = DeactivateLed(r, p, ok) /\ twice = DeactivateLed(once, p, ok)
               \/ once = DeactivateLed(unlocked, p, ok) /\ twice = once
<1> DEFINE once == UnlockAndDeactivate(r, p, k, ok)
<1>1. CASE p # LOCKED
  BY <1>1 DEF UnlockAndDeactivate
<1>2. CASE p = LOCKED /\ r.lock # k
  BY <1>2 DEF UnlockAndDeactivate
<1>3. CASE p = LOCKED /\ r.lock = k
  <2>1. once = DeactivateLed([r EXCEPT !.lock = NoLock], p, ok)
    BY <1>3, LockAssumption DEF UnlockAndDeactivate
  <2>2. once.lock = NoLock
    BY <1>3, UnlockAndDeactivateType
  <2>3. UnlockAndDeactivate(once, p, k, ok) = once
    BY <1>3, <2>2 DEF UnlockAndDeactivate
  <2>4. QED
    BY <2>1, <2>3
<1>4. QED
  BY <1>1, <1>2, <1>3

(* What shows on a LED that a handler has changed: after a request to set a  *)
(* state, the state of its priority; after an activation or a deactivation,  *)
(* that of the highest priority; after a timeout, that of the flash.         *)
LEMMA SetStepShows ==
    ASSUME NEW r \in LedType, NEW new, NEW req \in SetRequests, SetStep(r, new, req),
           new.phys # r.phys
    PROVE  ShowsStateOf(new, req.priority)
<1>1. PICK ok \in BOOLEAN : new \in {SetLed(r, req, ok), SetLed(SetLed(r, req, ok), req, ok)}
  BY OutcomesType DEF SetStep
<1>2. req \in RequestType
  BY SetRequestsType
<1> DEFINE once == SetLed(r, req, ok)
           twice == SetLed(once, req, ok)
<1>3. once \in LedType
  BY <1>2, SetLedType
<1>4. once.phys # r.phys =>
        ShowsStateOf(once, req.priority) /\ ShowsStateOf(twice, req.priority)
  BY <1>2, SetLedShowsRequested
<1> HIDE DEF once
<1>5. twice.phys # once.phys => ShowsStateOf(twice, req.priority)
  BY <1>2, <1>3, SetLedShowsRequested
<1>6. new \in {once, twice}
  BY <1>1 DEF once
<1>7. QED
  BY <1>4, <1>5, <1>6

LEMMA ActivateStepShows ==
    ASSUME NEW r \in LedType, NEW new, NEW p \in Priorities, NEW k \in LockIds,
           ActivateStep(r, new, p, k), new.phys # r.phys
    PROVE  ShowsHighest(new)
<1>1. PICK ok \in BOOLEAN :
        new \in {LockAndActivate(r, p, k, ok),
                 LockAndActivate(LockAndActivate(r, p, k, ok), p, k, ok)}
  BY OutcomesType DEF ActivateStep
<1> DEFINE locked == [r EXCEPT !.lock = k]
           once(q) == ActivateLed(q, p, ok)
<1>2. \/ new = r
      \/ new \in {once(r), once(once(r))}
      \/ new = once(locked)
  BY <1>1, LockAndActivateTwice
<1>3. locked \in LedType /\ locked.phys = r.phys
  BY LockFields
<1>4. ASSUME NEW q \in LedType
      PROVE  /\ once(q) \in LedType
             /\ once(q).phys # q.phys => ShowsHighest(once(q)) /\ ShowsHighest(once(once(q)))
  BY <1>4, ActivateLedType, ActivateShowsHighest
<1> HIDE DEF once, locked
<1>5. QED
  BY <1>2, <1>3, <1>4

LEMMA DeactivateStepShows ==
    ASSUME NEW r \in LedType, NEW new, NEW p \in Priorities, NEW k \in LockIds,
           DeactivateStep(r, new, p, k), new.phys # r.phys
    PROVE  ShowsHighest(new)
<1>1. PICK ok \in BOOLEAN :
        new \in {UnlockAndDeactivate(r, p, k, ok),
                 UnlockAndDeactivate(UnlockAndDeactivate(r, p, k, ok), p, k, ok)}
  BY OutcomesType DEF DeactivateStep
<1> DEFINE unlocked == [r EXCEPT !.lock = NoLock]
           once(q) == DeactivateLed(q, p, ok)
<1>2. \/ new = r
      \/ new \in {once(r), once(once(r))}
      \/ new = once(unlocked)
  BY <1>1, UnlockAndDeactivateTwice
<1>3. unlocked \in LedType /\ unlocked.phys = r.phys
  BY LockFields
<1>4. ASSUME NEW q \in LedType
      PROVE  /\ once(q) \in LedType
             /\ once(q).phys # q.phys => ShowsHighest(once(q)) /\ ShowsHighest(once(once(q)))
  BY <1>4, DeactivateLedType, DeactivateShowsHighest
<1> HIDE DEF once, unlocked
<1>5. QED
  BY <1>2, <1>3, <1>4

LEMMA TimeoutStepShows ==
    ASSUME NEW r \in LedType, NEW new, NEW p \in Priorities,
           TimeoutStep(r, new, p), new.phys # r.phys
    PROVE  ShowsStateOf(new, p)
<1>1. PICK opened \in BOOLEAN, ok \in BOOLEAN : new = FlashLed(r, p, opened, ok)
  BY OutcomesType DEF TimeoutStep
<1> DEFINE c == FlashUpdated(r.ctx[p])
           s == FlashNext(r.ctx[p])
           prepared == WithContext(r, p, c)
<1>2. /\ c \in Contexts /\ s \in LedStates
      /\ new = IF opened THEN SetState(prepared, p, s, ok) ELSE prepared
  BY <1>1, FlashLedCases
<1>3. prepared \in LedType /\ prepared.phys = r.phys
  BY <1>2, WithContextRecords
<1> HIDE DEF c, s, prepared
<1>4. new = SetState(prepared, p, s, ok)
  BY <1>2, <1>3
<1>5. SetState(prepared, p, s, ok).phys # prepared.phys
  BY <1>3, <1>4
<1>6. ok /\ s \in Accepted /\ p <= Highest(prepared)
  BY <1>2, <1>3, <1>5, ChangeIsWritten
<1>7. ShowsStateOf(SetState(prepared, p, s, ok), p)
  BY <1>2, <1>3, <1>6, WrittenIsShown
<1>8. QED
  BY <1>4, <1>7

(* Even when writes fail, a state that the daemon shows is recorded for the  *)
(* highest active priority, or for a more urgent one that has just been set  *)
(* or whose flash was running.                                               *)
THEOREM ShownStatesAreUrgent == Spec => OnlyUrgentStatesWritten
<1> DEFINE Accounts(l, p) ==
             /\ \/ p = Highest(leds'[l])
                \/ /\ p < Highest(leds'[l])
                   /\ SetRequested(p) \/ leds[l].ctx[p].timer
             /\ leds'[l].ctx[p].state = leds'[l].phys
           Accounted(l) ==
             leds'[l].phys # leds[l].phys /\ ~ OtherProcessWrites(l, leds'[l].phys) =>
                \E p \in Priorities : Accounts(l, p)
<1>1. Inv /\ [Next]_vars => [\A l \in LEDs : Accounted(l)]_vars
  <2> SUFFICES ASSUME Inv, [Next]_vars, NEW l \in LEDs,
                      leds'[l].phys # leds[l].phys,
                      ~ OtherProcessWrites(l, leds'[l].phys)
               PROVE  \E p \in Priorities : Accounts(l, p)
    OBVIOUS
  <2>1. leds[l] \in LedType /\ leds'[l] \in LedType
    BY NextInv DEF Inv, LedInv
  <2>2. ASSUME NEW p \in Priorities, ShowsStateOf(leds'[l], p),
               SetRequested(p) \/ leds[l].ctx[p].timer
        PROVE  \E q \in Priorities : Accounts(l, q)
    <3>1. p \in Nat /\ Highest(leds'[l]) \in Nat
      BY <2>1, HighestType, PrioritiesAreNaturals
    <3>2. Accounts(l, p)
      BY <2>2, <3>1 DEF ShowsStateOf
    <3>3. QED
      BY <3>2
  <2>3. ASSUME ShowsHighest(leds'[l])
        PROVE  \E q \in Priorities : Accounts(l, q)
    <3>1. Highest(leds'[l]) \in Priorities
      BY <2>1, HighestType
    <3>2. Accounts(l, Highest(leds'[l]))
      BY <2>3 DEF ShowsHighest
    <3>3. QED
      BY <3>1, <3>2
  <2> HIDE DEF Accounts
  <2>4. ASSUME NEW name \in Names, NEW req \in SetRequests, NEW broken \in Broken,
               SetLedState(name, req, broken)
        PROVE  \E p \in Priorities : Accounts(l, p)
    <3>1. SetStep(leds[l], leds'[l], req)
      BY <2>4, SetLedStateOfLed
    <3>2. ShowsStateOf(leds'[l], req.priority)
      BY <2>1, <3>1, SetStepShows
    <3>3. req.priority \in Priorities
      BY SetRequestsType DEF RequestType
    <3>4. SetRequested(req.priority)
      BY <2>4 DEF SetRequested
    <3>5. QED
      BY <2>2, <3>2, <3>3, <3>4
  <2>5. ASSUME NEW name \in Names, NEW p \in RequestPriorities, NEW k \in LockIds,
               NEW broken \in Broken, ActivatePriority(name, p, k, broken)
        PROVE  \E q \in Priorities : Accounts(l, q)
    <3>1. p \in Priorities /\ ActivateStep(leds[l], leds'[l], p, k)
      BY <2>5, ActivatePriorityOfLed, RequestsAssumption
    <3>2. QED
      BY <2>1, <2>3, <3>1, ActivateStepShows
  <2>6. ASSUME NEW name \in Names, NEW p \in RequestPriorities, NEW k \in LockIds,
               NEW broken \in Broken, DeactivatePriority(name, p, k, broken)
        PROVE  \E q \in Priorities : Accounts(l, q)
    <3>1. p \in Priorities /\ DeactivateStep(leds[l], leds'[l], p, k)
      BY <2>6, DeactivatePriorityOfLed, RequestsAssumption
    <3>2. QED
      BY <2>1, <2>3, <3>1, DeactivateStepShows
  <2>7. ASSUME NEW m \in LEDs, NEW p \in Priorities, Timeout(m, p)
        PROVE  \E q \in Priorities : Accounts(l, q)
    <3>1. TimeoutStep(leds[l], leds'[l], p)
      BY <2>7, TimeoutOfLed
    <3>2. ShowsStateOf(leds'[l], p) /\ leds[l].ctx[p].timer
      BY <2>1, <3>1, TimeoutStepShows DEF TimeoutStep
    <3>3. QED
      BY <2>2, <3>2
  <2>8. ASSUME NEW m \in LEDs, NEW s \in {OFF, ON}, OtherProcessWrites(m, s)
        PROVE  FALSE
    <3>1. OtherProcess /\ leds' = [leds EXCEPT ![m] = [leds[m] EXCEPT !.phys = s]]
      BY <2>8 DEF OtherProcessWrites, Inv
    <3>2. m = l
      BY <3>1 DEF Inv
    <3>3. leds'[l].phys = s
      BY <2>1, <3>1, <3>2 DEF Inv, LedType
    <3>4. QED
      BY <2>8, <3>2, <3>3
  <2>9. ~ UNCHANGED vars
    BY DEF vars
  <2>10. QED
    BY <2>4, <2>5, <2>6, <2>7, <2>8, <2>9 DEF Next, Request
<1>2. QED
  BY <1>1, InvHolds, PTL DEF Spec, OnlyUrgentStatesWritten

------------------------------------------------------------------------------
(* A request for a steady state that the plugin has starts with that state.  *)
LEMMA SteadyRequest ==
    ASSUME NEW r \in LedType, NEW req \in RequestType,
           req.flash = "none", req.state \in Supported
    PROVE  /\ Mapped(req) = req /\ ~ Unknown(req)
           /\ Flash(r, req).current = 0
           /\ StartState(r, req) = req.state
<1>2. Mapped(req) = req /\ ~ Unknown(req)
  BY DEF Mapped, Unknown
<1>3. req.priority \in Priorities /\ r.ctx[req.priority] \in Contexts
  BY DEF RequestType, LedType
<1>4. OnTime["none"] = 0
  BY DEF OnTime, FlashTypes
<1>5. ASSUME NEW c \in Contexts
      PROVE  InitialiseFlashing(c, req).current = 0
  BY <1>2, <1>4 DEF InitialiseFlashing, Contexts
<1>6. Flash(r, req).current = 0
  BY <1>2, <1>3, <1>5 DEF Flash
<1>7. QED
  BY <1>2, <1>6 DEF StartState, InitialState

LEMMA SteadyAssignment ==
    ASSUME NEW r \in LedType, NEW req \in RequestType,
           req.flash = "none", req.state \in Supported,
           MayUpdate(r, req), req.priority <= Highest(r)
    PROVE  /\ SetLed(r, req, TRUE) \in LedType
           /\ SetLed(r, req, TRUE).phys = req.state
           /\ MayUpdate(SetLed(r, req, TRUE), req)
           /\ req.priority <= Highest(SetLed(r, req, TRUE))
<1> DEFINE p == req.priority
           flashing == WithContext(r, p, Flash(r, req))
           new == SetLed(r, req, TRUE)
<1>1. ~ Unknown(req) /\ StartState(r, req) = req.state
  BY SteadyRequest
<1>2. /\ p \in Priorities /\ Flash(r, req) \in Contexts /\ req.state \in LedStates
      /\ new = SetState(flashing, p, req.state, TRUE)
  BY <1>1, SetLedEquation
<1>3. flashing \in LedType /\ Highest(flashing) = Highest(r)
  BY <1>2, WithContextRecords
<1>4. new \in LedType /\ new.lock = r.lock /\ new.active = r.active
  BY <1>1, SetLedType
<1>5. Highest(new) = Highest(r)
  BY <1>4, HighestOfSameActive
<1> HIDE DEF flashing, new
<1>6. req.state \in Accepted /\ p <= Highest(flashing)
  BY <1>3, StatesAssumption
<1>7. new.phys = req.state
  BY <1>2, <1>3, <1>6, SetStateCases
<1>8. QED
  BY <1>4, <1>5, <1>7 DEF MayUpdate, new

(* Setting a steady state of an urgent enough priority puts the LED in it,   *)
(* whatever another process or a failed write did to the LED before.         *)
THEOREM AssignmentsReachLeds == Spec => AssignmentReachesLed
<1> DEFINE Reaches(name, req, l) ==
      /\ Visits(name, l) > 0
      /\ MayUpdate(leds[l], req)
      /\ req.priority <= Highest(leds[l])
      /\ req.flash = "none" /\ req.state \in Supported
      /\ SetLedState(name, req, {})
      => leds'[l].phys = req.state
<1>1. Inv /\ [Next]_vars =>
        [\A name \in Names, req \in SetRequests, l \in LEDs : Reaches(name, req, l)]_vars
  <2> SUFFICES ASSUME Inv, NEW name \in Names, NEW req \in SetRequests, NEW l \in LEDs,
                      Visits(name, l) > 0, MayUpdate(leds[l], req),
                      req.priority <= Highest(leds[l]),
                      req.flash = "none", req.state \in Supported,
                      SetLedState(name, req, {})
               PROVE  leds'[l].phys = req.state
    OBVIOUS
  <2> DEFINE once == SetLed(leds[l], req, TRUE)
  <2>1. leds'[l] = once \/ leds'[l] = SetLed(once, req, TRUE)
    <3> DEFINE ok == l \notin {}
    <3>1. leds'[l] = CASE Visits(name, l) = 0 -> leds[l]
                       [] Visits(name, l) = 1 -> SetLed(leds[l], req, ok)
                       [] Visits(name, l) = 2 -> SetLed(SetLed(leds[l], req, ok), req, ok)
      BY DEF SetLedState, Visit
    <3>2. Visits(name, l) \in {0, 1, 2} /\ Visits(name, l) # 0
      BY VisitsType
    <3>3. ok = TRUE
      OBVIOUS
    <3> HIDE DEF ok
    <3>4. \/ leds'[l] = SetLed(leds[l], req, ok)
          \/ leds'[l] = SetLed(SetLed(leds[l], req, ok), req, ok)
      BY <3>1, <3>2
    <3>5. QED
      BY <3>3, <3>4
  <2>2. leds[l] \in LedType /\ req \in RequestType
    BY SetRequestsType DEF Inv, LedInv
  <2>3. /\ once \in LedType /\ once.phys = req.state
        /\ MayUpdate(once, req) /\ req.priority <= Highest(once)
    BY <2>2, SteadyAssignment
  <2> HIDE DEF once
  <2>4. SetLed(once, req, TRUE).phys = req.state
    BY <2>2, <2>3, SteadyAssignment
  <2>5. QED
    BY <2>1, <2>3, <2>4
<1>2. QED
  BY <1>1, InvHolds, PTL DEF Spec, AssignmentReachesLed

------------------------------------------------------------------------------
(***************************************************************************)
(* What LEDs show when writes succeed, nobody else writes, and the states  *)
(* that are reported and asked for are ones that the plugin can write.  A  *)
(* state that it can't write may be asked for without a flash: it is then  *)
(* mapped to a flash or refused.                                           *)
(***************************************************************************)
PluginWorks ==
    /\ ~ WritesMayFail /\ ~ OtherProcess
    /\ ReportedStates \subseteq Accepted
    /\ \A s \in RequestStates, f \in RequestFlashes : s \in Accepted \/ f[1] = "none"

(***************************************************************************)
(* The inductive invariant: every recorded state, and every state that a   *)
(* flash will end in, can be written, so that the restores and the timers  *)
(* never fail; only priorities of F flash; and a timer is      *)
(* pending exactly while a flash has time to run.  TimerFollows is apart from the rest because a request changes the *)
(* time of a flash before set_state sets its timer.                        *)
(***************************************************************************)
Writable(c) == c.state \in Accepted /\ (c.current > 0 => c.final \in Accepted)

TimerFollows(c) == c.timer <=> c.current > 0

FlashesRequested(r, F) == \A q \in Priorities \ F : r.ctx[q].current = 0

LedShows(r, F) ==
    /\ r \in LedType
    /\ FlashesRequested(r, F)
    /\ \A q \in Priorities : Writable(r.ctx[q]) /\ TimerFollows(r.ctx[q])
    /\ Urgent(r, F)

LEMMA SetStateShows ==
    ASSUME NEW F, NEW r \in LedType, NEW p \in Priorities, NEW s \in Accepted,
           \A q \in Priorities : Writable(r.ctx[q]),
           \A q \in Priorities \ {p} : TimerFollows(r.ctx[q]),
           FlashesRequested(r, F),
           p = Highest(r) \/ (p \in F /\ Urgent(r, F))
    PROVE  LedShows(SetState(r, p, s, TRUE), F)
<1> DEFINE new == SetState(r, p, s, TRUE)
<1>1. s \in LedStates /\ r.ctx[p] \in Contexts
  BY StatesAssumption DEF LedType
<1>2. Highest(r) \in Nat /\ p \in Nat
  BY HighestType, PrioritiesAreNaturals
<1>3. p > Highest(r) \/ p <= Highest(r)
  BY <1>2
<1>4. new \in LedType /\ Records(r, new, p, s) /\ Highest(new) = Highest(r)
  BY <1>1, <1>3, SetStateCases
<1>5. Writable(Recorded(r.ctx[p], s)) /\ TimerFollows(Recorded(r.ctx[p], s))
  BY <1>1, RecordedFields DEF Writable, TimerFollows
<1>6. \A q \in Priorities : Writable(new.ctx[q]) /\ TimerFollows(new.ctx[q])
  BY <1>4, <1>5 DEF Records
<1>7. Urgent(new, F)
  <2>1. CASE p <= Highest(r)
    <3>1. new.phys = s /\ new.ctx[p].state = s
      BY <1>1, <2>1, WrittenIsShown
    <3>2. p = Highest(r) \/ (p < Highest(r) /\ p \in F)
      BY <1>2, <2>1
    <3> HIDE DEF new
    <3>3. QED
      BY <1>4, <3>1, <3>2 DEF Urgent
  <2>2. CASE ~ (p <= Highest(r))
    <3>1. new.phys = r.phys
      BY <1>1, <1>3, <2>2, SetStateCases
    <3>2. Urgent(r, F)
      BY <1>2, <2>2
    <3>3. PICK q \in Priorities :
            /\ q = Highest(r) \/ (q < Highest(r) /\ q \in F)
            /\ r.ctx[q].state = r.phys
      BY <3>2 DEF Urgent
    <3>4. q # p
      BY <1>2, <2>2, <3>3
    <3> HIDE DEF new
    <3>5. new.ctx[q] = r.ctx[q]
      BY <1>4, <3>4 DEF Records
    <3>6. QED
      BY <1>4, <3>1, <3>3, <3>5 DEF Urgent
  <2>3. QED
    BY <2>1, <2>2
<1>8. FlashesRequested(new, F)
  <2>1. Recorded(r.ctx[p], s).current = r.ctx[p].current
    BY <1>1, RecordedFields
  <2> HIDE DEF new
  <2>2. \A q \in Priorities : new.ctx[q].current = r.ctx[q].current
    BY <1>4, <2>1 DEF Records
  <2>3. QED
    BY <2>2 DEF FlashesRequested
<1>9. QED
  BY <1>4, <1>6, <1>7, <1>8 DEF LedShows

LEMMA ActivateShows ==
    ASSUME NEW F, NEW r, LedShows(r, F), NEW p \in Priorities
    PROVE  LedShows(ActivateLed(r, p, TRUE), F)
<1> DEFINE prepared == Prepared(r, p)
           c == prepared.ctx[p]
<1>1. r \in LedType /\ Urgent(r, F) /\ FlashesRequested(r, F)
  BY DEF LedShows
<1>2. /\ prepared \in LedType /\ prepared.phys = r.phys
      /\ \A q \in Priorities \ {p} : prepared.ctx[q] = r.ctx[q]
      /\ \/ c.state = OFF /\ c.current = 0 /\ ~ c.timer
         \/ c = r.ctx[p]
  BY <1>1, PreparedType
<1>3. /\ \/ /\ Highest(prepared) = p
            /\ ActivateLed(r, p, TRUE) = SetState(prepared, p, c.state, TRUE)
         \/ /\ Highest(prepared) = Highest(r) /\ Highest(r) < p
            /\ ActivateLed(r, p, TRUE) = prepared
  BY <1>1, ActivateLedCases
<1> HIDE DEF prepared
<1>4. Writable(c) /\ TimerFollows(c)
  <2>1. Writable(r.ctx[p]) /\ TimerFollows(r.ctx[p])
    BY DEF LedShows
  <2>2. QED
    BY <1>2, <2>1, StatesAssumption DEF Writable, TimerFollows
<1>5. \A q \in Priorities : Writable(prepared.ctx[q]) /\ TimerFollows(prepared.ctx[q])
  BY <1>2, <1>4 DEF LedShows
<1>0. FlashesRequested(prepared, F)
  BY <1>1, <1>2 DEF FlashesRequested
<1>6. CASE /\ Highest(prepared) = p
           /\ ActivateLed(r, p, TRUE) = SetState(prepared, p, c.state, TRUE)
  <2>1. c.state \in Accepted
    BY <1>4 DEF Writable
  <2>2. QED
    BY <1>0, <1>2, <1>5, <1>6, <2>1, SetStateShows
<1>7. CASE /\ Highest(prepared) = Highest(r) /\ Highest(r) < p
           /\ ActivateLed(r, p, TRUE) = prepared
  <2>1. PICK q \in Priorities :
          /\ q = Highest(r) \/ (q < Highest(r) /\ q \in F)
          /\ r.ctx[q].state = r.phys
    BY <1>1 DEF Urgent
  <2>2. q # p
    <3>1. Highest(r) \in Nat /\ p \in Nat /\ q \in Nat
      BY <1>1, HighestType, PrioritiesAreNaturals
    <3>2. QED
      BY <1>7, <2>1, <3>1
  <2>3. Urgent(prepared, F)
    BY <1>2, <1>7, <2>1, <2>2 DEF Urgent
  <2>4. QED
    BY <1>0, <1>2, <1>5, <1>7, <2>3 DEF LedShows
<1>8. QED
  BY <1>3, <1>6, <1>7

(* Deactivating a priority that isn't the highest leaves the highest.        *)
LEMMA HiddenIsNotHighest ==
    ASSUME NEW r \in LedType, NEW p \in Priorities, ~ (Highest(Deactivated(r, p)) > p)
    PROVE  Highest(Deactivated(r, p)) = Highest(r)
<1> DEFINE inactive == Deactivated(r, p)
           h == Highest(inactive)
<1>1. /\ inactive \in LedType
      /\ inactive.active = r.active \ ({p} \ {NORMAL})
      /\ Highest(r) <= h
  BY DeactivateLedCases
<1>2. /\ h \in inactive.active /\ h \in Nat
      /\ Highest(r) \in r.active /\ Highest(r) \in Nat /\ p \in Nat
  BY <1>1, HighestType, PrioritiesAreNaturals
<1>3. QED
  BY <1>1, <1>2, HighestType

LEMMA DeactivateShows ==
    ASSUME NEW F, NEW r, LedShows(r, F), NEW p \in Priorities
    PROVE  LedShows(DeactivateLed(r, p, TRUE), F)
<1> DEFINE inactive == Deactivated(r, p)
           h == Highest(inactive)
           s == r.ctx[h].state
<1>1. /\ r \in LedType /\ Urgent(r, F) /\ FlashesRequested(r, F)
      /\ \A q \in Priorities : Writable(r.ctx[q]) /\ TimerFollows(r.ctx[q])
  BY DEF LedShows
<1>2. /\ inactive \in LedType /\ inactive.phys = r.phys /\ inactive.ctx = r.ctx
      /\ h \in Priorities /\ Highest(r) <= h
      /\ DeactivateLed(r, p, TRUE) = IF h > p THEN SetState(inactive, h, s, TRUE) ELSE inactive
  BY <1>1, DeactivateLedCases
<1>3. s \in Accepted
  BY <1>1, <1>2 DEF Writable
<1> HIDE DEF inactive
<1>4. \A q \in Priorities : Writable(inactive.ctx[q]) /\ TimerFollows(inactive.ctx[q])
  BY <1>1, <1>2
<1>5. FlashesRequested(inactive, F)
  BY <1>1, <1>2 DEF FlashesRequested
<1>6. LedShows(SetState(inactive, h, s, TRUE), F)
  <2>1. h = Highest(inactive)
    OBVIOUS
  <2> HIDE DEF h, s
  <2>2. QED
    BY <1>2, <1>3, <1>4, <1>5, <2>1, SetStateShows
<1>7. CASE ~ (h > p)
  <2>1. h \in Nat /\ p \in Nat /\ Highest(r) \in Nat
    BY <1>1, <1>2, HighestType, PrioritiesAreNaturals
  <2>2. h = Highest(r)
    BY <1>1, <1>7, HiddenIsNotHighest DEF inactive
  <2>3. Urgent(inactive, F)
    BY <1>1, <1>2, <2>2 DEF Urgent
  <2>4. LedShows(inactive, F)
    BY <1>2, <1>4, <1>5, <2>3 DEF LedShows
  <2>5. QED
    BY <1>2, <1>7, <2>4
<1>8. CASE h > p
  BY <1>2, <1>6, <1>8
<1>9. QED
  BY <1>7, <1>8

LEMMA RequestsAreWritable ==
    ASSUME PluginWorks, NEW req \in SetRequests
    PROVE  /\ req \in RequestType /\ req.priority \in RequestPriorities
           /\ req.state \in Accepted \/ req.flash = "none"
<1>1. PICK p \in RequestPriorities, s \in RequestStates, f \in RequestFlashes,
           k \in LockIds \cup {NoLock} :
        req = [priority |-> p, state |-> s, flash |-> f[1], time |-> f[2],
               forever |-> FALSE, lock |-> k]
  BY DEF SetRequests
<1>2. req.state = s /\ req.flash = f[1] /\ req.priority = p
  BY <1>1
<1>3. QED
  BY <1>2, SetRequestsType DEF PluginWorks

LEMMA MappedIsWritable ==
    ASSUME NEW req \in RequestType, req.state \in Accepted \/ req.flash = "none"
    PROVE  Mapped(req).state \in Accepted
<1>1. CASE req.state \in Accepted /\ ~ (req.state \notin Supported /\ req.flash = "none")
  BY <1>1 DEF Mapped
<1>2. CASE req.state \notin Supported /\ req.flash = "none"
  <2>1. Mapped(req) = [req EXCEPT !.flash = FlashOf(req.state), !.state = ON, !.forever = TRUE]
    BY <1>2 DEF Mapped
  <2>2. Mapped(req).state = ON
    BY <2>1 DEF RequestType
  <2>3. QED
    BY <2>2, StatesAssumption
<1>3. QED
  BY <1>1, <1>2, StatesAssumption

LEMMA SetLedShows ==
    ASSUME NEW F, NEW r, LedShows(r, F), NEW req \in RequestType,
           req.priority \in F,
           req.state \in Accepted \/ req.flash = "none"
    PROVE  LedShows(SetLed(r, req, TRUE), F)
<1> DEFINE p == req.priority
           c == Flash(r, req)
           s == StartState(r, req)
           flashing == WithContext(r, p, c)
<1>0. p \in F
  OBVIOUS
<1>1. /\ r \in LedType /\ Urgent(r, F) /\ FlashesRequested(r, F)
      /\ \A q \in Priorities : Writable(r.ctx[q]) /\ TimerFollows(r.ctx[q])
  BY DEF LedShows
<1>3. /\ p \in Priorities /\ c \in Contexts
      /\ c.final = Mapped(req).state /\ c.state = r.ctx[p].state
      /\ SetLed(r, req, TRUE) \in {r, SetState(flashing, p, s, TRUE)}
  BY <1>1, SetLedEquation
<1>4. Mapped(req).state \in Accepted
  BY MappedIsWritable
<1>5. s \in Accepted
  <2>1. s \in {ON, OFF, Mapped(req).state}
    BY DEF StartState, InitialState, Opposite
  <2>2. QED
    BY <1>4, <2>1, StatesAssumption
<1>6. Writable(c)
  BY <1>1, <1>3, <1>4 DEF Writable
<1> HIDE DEF c, s, p
<1>7. /\ flashing \in LedType /\ flashing.phys = r.phys /\ Highest(flashing) = Highest(r)
      /\ \A q \in Priorities : flashing.ctx[q] = IF q = p THEN c ELSE r.ctx[q]
  BY <1>1, <1>3, WithContextRecords
<1> HIDE DEF flashing
<1>8. Urgent(flashing, F)
  BY <1>1, <1>3, <1>7 DEF Urgent
<1>11. FlashesRequested(flashing, F)
  BY <1>0, <1>1, <1>7 DEF FlashesRequested
<1>9. LedShows(SetState(flashing, p, s, TRUE), F)
  <2>1. \A q \in Priorities : Writable(flashing.ctx[q])
    BY <1>1, <1>6, <1>7
  <2>2. \A q \in Priorities \ {p} : TimerFollows(flashing.ctx[q])
    BY <1>1, <1>7
  <2>3. QED
    BY <1>0, <1>3, <1>5, <1>7, <1>8, <1>11, <2>1, <2>2, SetStateShows
<1>10. QED
  BY <1>3, <1>9

LEMMA FlashUpdatedFields ==
    ASSUME NEW k \in Contexts, k.timer, Writable(k), TimerFollows(k)
    PROVE  /\ FlashNext(k) \in Accepted
           /\ Writable(FlashUpdated(k))
<1> DEFINE t == TimeRemaining(k)
           fired == [k EXCEPT !.timer = FALSE, !.remaining = t]
           next == IF FlashNext(k) = ON THEN OnTime[k.times] ELSE OffTime[k.times]
<1>1. k.final \in Accepted /\ k.state \in Accepted
  BY DEF Writable, TimerFollows
<1>2. t \in Nat /\ next \in Nat
  BY TimesType DEF TimeRemaining, Contexts
<1>3. FlashNext(k) \in Accepted
  BY <1>1, StatesAssumption DEF FlashNext
<1>4. FlashUpdated(k) = IF ~ k.forever /\ t = 0 THEN StopFlashing(fired)
                        ELSE [fired EXCEPT !.current = next]
  BY DEF FlashUpdated
<1> HIDE DEF t, next
<1>5. fired \in Contexts /\ fired.final = k.final /\ fired.state = k.state
  BY <1>2 DEF Contexts
<1>6. Writable(StopFlashing(fired))
  <2>1. StopFlashing(fired).state = k.state /\ StopFlashing(fired).current = 0
    <3> HIDE DEF fired
    <3>1. QED
      BY <1>5 DEF StopFlashing, Contexts
  <2>2. QED
    BY <1>1, <2>1 DEF Writable
<1>7. Writable([fired EXCEPT !.current = next])
  <2>1. /\ [fired EXCEPT !.current = next].state = k.state
        /\ [fired EXCEPT !.current = next].final = k.final
    BY <1>5 DEF Contexts
  <2>2. QED
    BY <1>1, <2>1 DEF Writable
<1>8. QED
  BY <1>3, <1>4, <1>6, <1>7

LEMMA FlashLedShows ==
    ASSUME NEW F, NEW r, LedShows(r, F), NEW p \in Priorities, r.ctx[p].timer
    PROVE  LedShows(FlashLed(r, p, TRUE, TRUE), F)
<1> DEFINE k == r.ctx[p]
           c == FlashUpdated(k)
           s == FlashNext(k)
           prepared == WithContext(r, p, c)
<1>1. /\ r \in LedType /\ Urgent(r, F) /\ FlashesRequested(r, F)
      /\ \A q \in Priorities : Writable(r.ctx[q]) /\ TimerFollows(r.ctx[q])
  BY DEF LedShows
<1>2. /\ c \in Contexts
      /\ FlashLed(r, p, TRUE, TRUE) = SetState(prepared, p, s, TRUE)
  BY <1>1, FlashLedCases
<1>3. k \in Contexts
  BY <1>1 DEF LedType
<1>4. c.state = k.state
  BY <1>3, FlashUpdatedType
<1>10. p \in F
  <2>1. TimerFollows(k) /\ k.timer
    BY <1>1
  <2>2. ~ (k.current = 0)
    BY <1>3, <2>1 DEF TimerFollows
  <2>3. QED
    BY <1>1, <2>2 DEF FlashesRequested
<1>5. s \in Accepted /\ Writable(c)
  BY <1>1, <1>3, FlashUpdatedFields
<1> HIDE DEF c, s
<1>6. /\ prepared \in LedType /\ prepared.phys = r.phys /\ Highest(prepared) = Highest(r)
      /\ \A q \in Priorities : prepared.ctx[q] = IF q = p THEN c ELSE r.ctx[q]
  BY <1>1, <1>2, WithContextRecords
<1> HIDE DEF prepared
<1>7. Urgent(prepared, F)
  BY <1>1, <1>4, <1>6 DEF Urgent
<1>11. FlashesRequested(prepared, F)
  BY <1>1, <1>6, <1>10 DEF FlashesRequested
<1>8. LedShows(SetState(prepared, p, s, TRUE), F)
  <2>1. \A q \in Priorities : Writable(prepared.ctx[q])
    BY <1>1, <1>5, <1>6
  <2>2. \A q \in Priorities \ {p} : TimerFollows(prepared.ctx[q])
    BY <1>1, <1>6
  <2>3. QED
    BY <1>5, <1>6, <1>7, <1>10, <1>11, <2>1, <2>2, SetStateShows
<1>9. QED
  BY <1>2, <1>8

LEMMA LockKeepsShown ==
    ASSUME NEW F, NEW r \in LedType, NEW k \in LockIds \cup {NoLock}
    PROVE  LedShows(r, F) => LedShows([r EXCEPT !.lock = k], F)
<1>1. /\ [r EXCEPT !.lock = k] \in LedType
      /\ [r EXCEPT !.lock = k].active = r.active
      /\ [r EXCEPT !.lock = k].phys = r.phys
      /\ [r EXCEPT !.lock = k].ctx = r.ctx
  BY LockFields
<1>2. Highest([r EXCEPT !.lock = k]) = Highest(r)
  BY <1>1, HighestOfSameActive
<1>3. QED
  BY <1>1, <1>2 DEF LedShows, Urgent, FlashesRequested

LEMMA StepShows ==
    ASSUME PluginWorks, NEW r, LedShows(r, RequestPriorities), NEW new, LedStep(r, new)
    PROVE  LedShows(new, RequestPriorities)
<1>1. Outcomes = {TRUE} /\ r \in LedType
  BY DEF PluginWorks, Outcomes, LedShows
<1>2. ASSUME NEW req \in SetRequests, SetStep(r, new, req)
      PROVE  LedShows(new, RequestPriorities)
  <2>1. new \in {SetLed(r, req, TRUE), SetLed(SetLed(r, req, TRUE), req, TRUE)}
    BY <1>1, <1>2 DEF SetStep
  <2>2. LedShows(SetLed(r, req, TRUE), RequestPriorities)
    BY SetLedShows, RequestsAreWritable
  <2>3. LedShows(SetLed(SetLed(r, req, TRUE), req, TRUE), RequestPriorities)
    BY <2>2, SetLedShows, RequestsAreWritable
  <2>4. QED
    BY <2>1, <2>2, <2>3
<1>3. ASSUME NEW p \in Priorities, NEW k \in LockIds, ActivateStep(r, new, p, k)
      PROVE  LedShows(new, RequestPriorities)
  <2>1. PICK ok \in BOOLEAN :
          /\ ok = TRUE
          /\ new \in {LockAndActivate(r, p, k, ok), LockAndActivate(LockAndActivate(r, p, k, ok), p, k, ok)}
    BY <1>1, <1>3 DEF ActivateStep
  <2> DEFINE locked == [r EXCEPT !.lock = k]
             once(q) == ActivateLed(q, p, ok)
  <2>2. \/ new = r
        \/ new \in {once(r), once(once(r))}
        \/ new = once(locked)
    <3>1. r \in LedType /\ new \in {LockAndActivate(r, p, k, ok), LockAndActivate(LockAndActivate(r, p, k, ok), p, k, ok)}
      BY <1>1, <2>1
    <3>2. QED
      BY <3>1, LockAndActivateTwice
  <2>3. LedShows(locked, RequestPriorities)
    BY <1>1, LockKeepsShown
  <2>4. \A q : LedShows(q, RequestPriorities) => LedShows(once(q), RequestPriorities)
    BY <2>1, ActivateShows
  <2> HIDE DEF once, locked
  <2>5. QED
    BY <2>2, <2>3, <2>4
<1>4. ASSUME NEW p \in Priorities, NEW k \in LockIds, DeactivateStep(r, new, p, k)
      PROVE  LedShows(new, RequestPriorities)
  <2>1. PICK ok \in BOOLEAN :
          /\ ok = TRUE
          /\ new \in {UnlockAndDeactivate(r, p, k, ok), UnlockAndDeactivate(UnlockAndDeactivate(r, p, k, ok), p, k, ok)}
    BY <1>1, <1>4 DEF DeactivateStep
  <2> DEFINE unlocked == [r EXCEPT !.lock = NoLock]
             once(q) == DeactivateLed(q, p, ok)
  <2>2. \/ new = r
        \/ new \in {once(r), once(once(r))}
        \/ new = once(unlocked)
    <3>1. r \in LedType /\ new \in {UnlockAndDeactivate(r, p, k, ok), UnlockAndDeactivate(UnlockAndDeactivate(r, p, k, ok), p, k, ok)}
      BY <1>1, <2>1
    <3>2. QED
      BY <3>1, UnlockAndDeactivateTwice
  <2>3. LedShows(unlocked, RequestPriorities)
    BY <1>1, LockKeepsShown
  <2>4. \A q : LedShows(q, RequestPriorities) => LedShows(once(q), RequestPriorities)
    BY <2>1, DeactivateShows
  <2> HIDE DEF once, unlocked
  <2>5. QED
    BY <2>2, <2>3, <2>4
<1>5. ASSUME NEW p \in Priorities, TimeoutStep(r, new, p)
      PROVE  LedShows(new, RequestPriorities)
  BY <1>1, <1>5, FlashLedShows DEF TimeoutStep
<1>6. QED
  BY <1>2, <1>3, <1>4, <1>5 DEF LedStep

LEMMA NewLedShows ==
    ASSUME NEW F, ReportedStates \subseteq Accepted, NEW s \in ReportedStates
    PROVE  LedShows(NewLed(s, TRUE), F)
<1> DEFINE r == NewLed(s, TRUE)
<1>1. s \in LedStates /\ s \in Accepted /\ OFF \in Accepted
  BY StatesAssumption
<1>2. r \in LedType
  BY <1>1, NewLedInv DEF LedInv
<1>3. /\ r.active = {NORMAL} /\ r.phys = s
      /\ \A q \in Priorities : r.ctx[q] = NewContext(IF q = NORMAL THEN s ELSE OFF)
  BY DEF NewLed
<1> HIDE DEF r
<1> DEFINE state(q) == IF q = NORMAL THEN s ELSE OFF
<1>4. ASSUME NEW t \in Accepted
      PROVE  /\ NewContext(t).state = t
             /\ Writable(NewContext(t)) /\ TimerFollows(NewContext(t))
  BY <1>4 DEF NewContext, Writable, TimerFollows
<1>5. \A q \in Priorities : state(q) \in Accepted
  BY <1>1
<1>6. \A q \in Priorities : r.ctx[q] = NewContext(state(q))
  BY <1>3
<1>7. state(NORMAL) = s
  OBVIOUS
<1> HIDE DEF state
<1>8. \A q \in Priorities : Writable(r.ctx[q]) /\ TimerFollows(r.ctx[q])
  BY <1>4, <1>5, <1>6
<1>9. NORMAL \in Priorities /\ Highest(r) = NORMAL
  BY <1>2, <1>3, HighestType DEF Priorities
<1>10. r.ctx[NORMAL].state = r.phys
  BY <1>1, <1>3, <1>4, <1>6, <1>7, <1>9
<1>11. Urgent(r, F)
  BY <1>9, <1>10 DEF Urgent
<1>12. FlashesRequested(r, F)
  <2>1. \A t : NewContext(t).current = 0
    BY DEF NewContext
  <2>2. QED
    BY <1>6, <2>1 DEF FlashesRequested
<1>13. QED
  BY <1>2, <1>8, <1>11, <1>12 DEF LedShows, r

ShowInv == Inv /\ \A l \in LEDs : LedShows(leds[l], RequestPriorities)

LEMMA ShowInvHolds ==
    ASSUME PluginWorks
    PROVE  Spec => []ShowInv
<1>1. Init => ShowInv
  <2> SUFFICES ASSUME Init PROVE ShowInv
    OBVIOUS
  <2>1. ASSUME NEW l \in LEDs PROVE LedShows(leds[l], RequestPriorities)
    <3>1. PICK s \in ReportedStates : leds[l] = NewLed(s, TRUE)
      BY DEF Init, Outcomes, PluginWorks
    <3>2. QED
      BY <3>1, NewLedShows DEF PluginWorks
  <2>2. QED
    BY <2>1, InitInv DEF ShowInv
<1>2. ShowInv /\ [Next]_vars => ShowInv'
  <2> SUFFICES ASSUME ShowInv, [Next]_vars PROVE ShowInv'
    OBVIOUS
  <2>1. Inv'
    BY NextInv DEF ShowInv
  <2>2. ASSUME NEW l \in LEDs PROVE LedShows(leds'[l], RequestPriorities)
    <3>1. LedStep(leds[l], leds'[l])
      BY NextOfLed DEF ShowInv, PluginWorks, ForeignStep
    <3>2. LedShows(leds[l], RequestPriorities)
      BY DEF ShowInv
    <3>3. QED
      BY <3>1, <3>2, StepShows
  <2>3. (\A l \in LEDs : LedShows(leds[l], RequestPriorities))'
    BY <2>2
  <2>4. QED
    BY <2>1, <2>3 DEF ShowInv
<1>3. QED
  BY <1>1, <1>2, PTL DEF Spec

(* With a plugin that works, a LED never shows the state of a priority less  *)
(* urgent than its highest active one.                                       *)
THEOREM UrgentStatesAreShown ==
    ASSUME PluginWorks
    PROVE  Spec => []ShowsUrgentState
<1>1. ShowInv => ShowsUrgentState
  BY DEF ShowInv, LedShows, Urgent, ShowsUrgentState
<1>2. QED
  BY <1>1, ShowInvHolds, PTL

(* With a plugin that works, a timer is pending exactly while its flash has  *)
(* time to run.                                                              *)
THEOREM TimersDriveFlashes ==
    ASSUME PluginWorks
    PROVE  Spec => []TimerDrivesFlash
<1>1. ShowInv => TimerDrivesFlash
  BY DEF ShowInv, LedShows, TimerFollows, TimerDrivesFlash
<1>2. QED
  BY <1>1, ShowInvHolds, PTL

------------------------------------------------------------------------------
(***************************************************************************)
(* Clients that set active priorities only, and let only NORMAL, which is  *)
(* always active, flash.  The LED then shows exactly the state of its most *)
(* urgent active priority: a flash of NORMAL goes on underneath, and is    *)
(* seen when it is the only one.                                           *)
(***************************************************************************)
IsSteadyRequest(req) == req.state \in Supported /\ req.flash = "none"

SteadyClients ==
    /\ PluginWorks
    /\ \A req \in SetRequests : req.priority = NORMAL \/ IsSteadyRequest(req)

OnlyNormalFlashes(r) == \A q \in Priorities \ {NORMAL} : r.ctx[q].current = 0

LedSteady(r) == LedShows(r, Priorities) /\ OnlyNormalFlashes(r) /\ ShowsHighest(r)

LEMMA NormalIsLeastUrgent ==
    ASSUME NEW p \in Priorities
    PROVE  NORMAL \in Priorities /\ p <= NORMAL
BY DEF Priorities, CRITICAL, LOCKED, ALTERNATE, NORMAL

(* A state of the highest priority, or of a hidden one, keeps the LED so.    *)
LEMMA SetStateSteady ==
    ASSUME NEW r \in LedType, NEW p \in Priorities, NEW s \in Accepted,
           OnlyNormalFlashes(r),
           p = Highest(r) \/ (p > Highest(r) /\ ShowsHighest(r))
    PROVE  /\ OnlyNormalFlashes(SetState(r, p, s, TRUE))
           /\ ShowsHighest(SetState(r, p, s, TRUE))
<1> DEFINE new == SetState(r, p, s, TRUE)
<1>1. s \in LedStates /\ \A q \in Priorities : r.ctx[q] \in Contexts
  BY StatesAssumption DEF LedType
<1>2. Highest(r) \in Nat /\ Highest(r) \in Priorities /\ p \in Nat
  BY HighestType, PrioritiesAreNaturals
<1>3. p > Highest(r) \/ p <= Highest(r)
  BY <1>2
<1>4. new \in LedType /\ Records(r, new, p, s) /\ Highest(new) = Highest(r)
  BY <1>1, <1>3, SetStateCases
<1>5. OnlyNormalFlashes(new)
  <2>1. Recorded(r.ctx[p], s).current = r.ctx[p].current
    BY <1>1, RecordedFields
  <2> HIDE DEF new
  <2>2. \A q \in Priorities : new.ctx[q].current = r.ctx[q].current
    BY <1>4, <2>1 DEF Records
  <2>3. QED
    BY <2>2 DEF OnlyNormalFlashes
<1>6. ShowsHighest(new)
  <2>1. CASE p = Highest(r)
    <3>1. p <= Highest(r)
      BY <1>2, <2>1
    <3>2. new.phys = s /\ new.ctx[p].state = s
      BY <1>1, <3>1, WrittenIsShown
    <3> HIDE DEF new
    <3>3. QED
      BY <1>4, <2>1, <3>2 DEF ShowsHighest
  <2>2. CASE p > Highest(r) /\ ShowsHighest(r)
    <3>1. new.phys = r.phys
      BY <1>1, <2>2, OnlyRecorded
    <3>2. Highest(r) # p
      BY <1>2, <2>2
    <3> HIDE DEF new
    <3>3. new.ctx[Highest(r)] = r.ctx[Highest(r)]
      BY <1>2, <1>4, <3>2 DEF Records
    <3>4. QED
      BY <1>4, <2>2, <3>1, <3>3 DEF ShowsHighest
  <2>3. QED
    BY <2>1, <2>2
<1>7. QED
  BY <1>5, <1>6

LEMMA ActivateSteady ==
    ASSUME NEW r, LedSteady(r), NEW p \in Priorities
    PROVE  LedSteady(ActivateLed(r, p, TRUE))
<1> DEFINE prepared == Prepared(r, p)
           c == prepared.ctx[p]
<1>1. r \in LedType /\ LedShows(r, Priorities) /\ OnlyNormalFlashes(r) /\ ShowsHighest(r)
  BY DEF LedSteady, LedShows
<1>2. /\ prepared \in LedType /\ prepared.phys = r.phys
      /\ \A q \in Priorities \ {p} : prepared.ctx[q] = r.ctx[q]
      /\ \/ c.state = OFF /\ c.current = 0 /\ ~ c.timer
         \/ c = r.ctx[p]
  BY <1>1, PreparedType
<1>3. /\ \/ /\ Highest(prepared) = p
            /\ ActivateLed(r, p, TRUE) = SetState(prepared, p, c.state, TRUE)
         \/ /\ Highest(prepared) = Highest(r) /\ Highest(r) < p
            /\ ActivateLed(r, p, TRUE) = prepared
  BY <1>1, ActivateLedCases
<1> HIDE DEF prepared
<1>4. c.state \in Accepted
  <2>1. Writable(r.ctx[p])
    BY <1>1 DEF LedShows
  <2>2. QED
    BY <1>2, <2>1, StatesAssumption DEF Writable
<1>5. OnlyNormalFlashes(prepared)
  BY <1>1, <1>2 DEF OnlyNormalFlashes
<1>6. LedShows(ActivateLed(r, p, TRUE), Priorities)
  BY <1>1, ActivateShows
<1>7. CASE /\ Highest(prepared) = p
           /\ ActivateLed(r, p, TRUE) = SetState(prepared, p, c.state, TRUE)
  <2>1. /\ OnlyNormalFlashes(SetState(prepared, p, c.state, TRUE))
        /\ ShowsHighest(SetState(prepared, p, c.state, TRUE))
    BY <1>2, <1>4, <1>5, <1>7, SetStateSteady
  <2>2. QED
    BY <1>6, <1>7, <2>1 DEF LedSteady
<1>8. CASE /\ Highest(prepared) = Highest(r) /\ Highest(r) < p
           /\ ActivateLed(r, p, TRUE) = prepared
  <2>1. Highest(r) \in Nat /\ Highest(r) \in Priorities /\ p \in Nat
    BY <1>1, HighestType, PrioritiesAreNaturals
  <2>2. Highest(r) # p
    BY <1>8, <2>1
  <2>3. ShowsHighest(prepared)
    BY <1>1, <1>2, <1>8, <2>1, <2>2 DEF ShowsHighest
  <2>4. QED
    BY <1>5, <1>6, <1>8, <2>3 DEF LedSteady
<1>9. QED
  BY <1>3, <1>7, <1>8

LEMMA DeactivateSteady ==
    ASSUME NEW r, LedSteady(r), NEW p \in Priorities
    PROVE  LedSteady(DeactivateLed(r, p, TRUE))
<1> DEFINE inactive == Deactivated(r, p)
           h == Highest(inactive)
           s == r.ctx[h].state
<1>1. r \in LedType /\ LedShows(r, Priorities) /\ OnlyNormalFlashes(r) /\ ShowsHighest(r)
  BY DEF LedSteady, LedShows
<1>2. /\ inactive \in LedType /\ inactive.phys = r.phys /\ inactive.ctx = r.ctx
      /\ inactive.active = r.active \ ({p} \ {NORMAL})
      /\ h \in Priorities /\ Highest(r) <= h
      /\ DeactivateLed(r, p, TRUE) = IF h > p THEN SetState(inactive, h, s, TRUE) ELSE inactive
  BY <1>1, DeactivateLedCases
<1>3. s \in Accepted
  BY <1>1, <1>2 DEF LedShows, Writable
<1> HIDE DEF inactive
<1>4. OnlyNormalFlashes(inactive)
  BY <1>1, <1>2 DEF OnlyNormalFlashes
<1>5. /\ OnlyNormalFlashes(SetState(inactive, h, s, TRUE))
      /\ ShowsHighest(SetState(inactive, h, s, TRUE))
  <2>1. h = Highest(inactive)
    OBVIOUS
  <2> HIDE DEF h, s
  <2>2. QED
    BY <1>2, <1>3, <1>4, <2>1, SetStateSteady
<1>6. ASSUME ~ (h > p) PROVE ShowsHighest(inactive)
  <2>1. /\ Highest(r) \in Nat /\ h \in Nat /\ p \in Nat
        /\ Highest(r) \in r.active /\ h \in inactive.active
        /\ \A q \in inactive.active : h <= q
    BY <1>1, <1>2, HighestType, PrioritiesAreNaturals
  <2>2. h = Highest(r)
    <3>1. CASE Highest(r) = p
      <4>1. Highest(r) <= h
        BY <1>2
      <4> HIDE DEF h
      <4>2. QED
        BY <1>6, <2>1, <3>1, <4>1
    <3>2. CASE Highest(r) # p
      <4>1. Highest(r) \in inactive.active
        BY <1>2, <2>1, <3>2
      <4>2. h <= Highest(r)
        BY <2>1, <4>1
      <4> HIDE DEF h
      <4>3. QED
        BY <1>2, <2>1, <4>2
    <3>3. QED
      BY <3>1, <3>2
  <2>3. QED
    BY <1>1, <1>2, <2>2 DEF ShowsHighest
<1>7. LedShows(DeactivateLed(r, p, TRUE), Priorities)
  BY <1>1, DeactivateShows
<1>8. QED
  BY <1>2, <1>4, <1>5, <1>6, <1>7 DEF LedSteady

(* A request for an active priority, which may flash if it is NORMAL         *)
LEMMA SetLedSteady ==
    ASSUME NEW r, LedSteady(r), NEW req \in RequestType,
           req.state \in Accepted \/ req.flash = "none",
           req.priority = NORMAL \/ IsSteadyRequest(req),
           req.priority \in r.active
    PROVE  /\ LedSteady(SetLed(r, req, TRUE))
           /\ SetLed(r, req, TRUE).active = r.active
<1> DEFINE p == req.priority
           c == Flash(r, req)
           s == StartState(r, req)
           flashing == WithContext(r, p, c)
<1>1. r \in LedType /\ LedShows(r, Priorities) /\ OnlyNormalFlashes(r) /\ ShowsHighest(r)
  BY DEF LedSteady, LedShows
<1>2. p # NORMAL => c.current = 0
  BY <1>1, SteadyRequest DEF IsSteadyRequest
<1>3. /\ p \in Priorities /\ c \in Contexts /\ c.state = r.ctx[p].state
      /\ SetLed(r, req, TRUE) \in {r, SetState(flashing, p, s, TRUE)}
  BY <1>1, SetLedEquation
<1>4. SetLed(r, req, TRUE).active = r.active
  BY <1>1, SetLedType
<1>5. s \in Accepted
  <2>1. s \in {ON, OFF, Mapped(req).state}
    BY DEF StartState, InitialState, Opposite
  <2>2. QED
    BY <2>1, MappedIsWritable, StatesAssumption
<1>14. req.priority \in Priorities
  BY <1>3
<1> HIDE DEF c, s
<1>6. /\ flashing \in LedType /\ flashing.phys = r.phys /\ Highest(flashing) = Highest(r)
      /\ \A q \in Priorities : flashing.ctx[q] = IF q = p THEN c ELSE r.ctx[q]
  BY <1>1, <1>3, WithContextRecords
<1>7. Highest(r) \in Nat /\ p \in Nat /\ Highest(r) \in Priorities /\ Highest(r) <= p
  BY <1>1, <1>3, HighestType, PrioritiesAreNaturals
<1> HIDE DEF flashing
<1>8. OnlyNormalFlashes(flashing)
  BY <1>1, <1>2, <1>6 DEF OnlyNormalFlashes
<1>9. ShowsHighest(flashing)
  <2>1. flashing.ctx[Highest(r)].state = r.ctx[Highest(r)].state
    BY <1>3, <1>6, <1>7
  <2>2. QED
    BY <1>1, <1>6, <2>1 DEF ShowsHighest
<1>10. p = Highest(flashing) \/ p > Highest(flashing)
  BY <1>6, <1>7
<1> HIDE DEF p
<1>11. /\ OnlyNormalFlashes(SetState(flashing, p, s, TRUE))
       /\ ShowsHighest(SetState(flashing, p, s, TRUE))
  BY <1>3, <1>5, <1>6, <1>8, <1>9, <1>10, SetStateSteady
<1>12. LedShows(SetLed(r, req, TRUE), Priorities)
  BY <1>1, <1>14, SetLedShows
<1>13. QED
  BY <1>1, <1>3, <1>4, <1>11, <1>12 DEF LedSteady

(* Only NORMAL has a timer, and it is never more urgent than the highest.    *)
LEMMA FlashLedSteady ==
    ASSUME NEW r, LedSteady(r), NEW p \in Priorities, r.ctx[p].timer
    PROVE  LedSteady(FlashLed(r, p, TRUE, TRUE))
<1> DEFINE c == FlashUpdated(r.ctx[p])
           s == FlashNext(r.ctx[p])
           prepared == WithContext(r, p, c)
<1>1. r \in LedType /\ LedShows(r, Priorities) /\ OnlyNormalFlashes(r) /\ ShowsHighest(r)
  BY DEF LedSteady, LedShows
<1>2. p = NORMAL
  <2>1. r.ctx[p].current > 0
    BY <1>1 DEF LedShows, TimerFollows
  <2>2. QED
    BY <1>1, <2>1 DEF OnlyNormalFlashes
<1>3. /\ c \in Contexts
      /\ FlashLed(r, p, TRUE, TRUE) = SetState(prepared, p, s, TRUE)
  BY <1>1, FlashLedCases
<1>4. r.ctx[p] \in Contexts /\ Writable(r.ctx[p]) /\ TimerFollows(r.ctx[p])
  BY <1>1 DEF LedType, LedShows
<1>5. c.state = r.ctx[p].state /\ s \in Accepted
  BY <1>4, FlashUpdatedType, FlashUpdatedFields
<1> HIDE DEF c, s
<1>6. /\ prepared \in LedType /\ prepared.phys = r.phys /\ Highest(prepared) = Highest(r)
      /\ \A q \in Priorities : prepared.ctx[q] = IF q = p THEN c ELSE r.ctx[q]
  BY <1>1, <1>3, WithContextRecords
<1>7. Highest(r) \in Nat /\ p \in Nat /\ Highest(r) \in Priorities /\ Highest(r) <= p
  BY <1>1, <1>2, HighestType, PrioritiesAreNaturals, NormalIsLeastUrgent
<1> HIDE DEF prepared
<1>8. OnlyNormalFlashes(prepared)
  BY <1>1, <1>2, <1>6 DEF OnlyNormalFlashes
<1>9. ShowsHighest(prepared)
  <2>1. prepared.ctx[Highest(r)].state = r.ctx[Highest(r)].state
    BY <1>5, <1>6, <1>7
  <2>2. QED
    BY <1>1, <1>6, <2>1 DEF ShowsHighest
<1>10. p = Highest(prepared) \/ p > Highest(prepared)
  BY <1>6, <1>7
<1>11. /\ OnlyNormalFlashes(SetState(prepared, p, s, TRUE))
       /\ ShowsHighest(SetState(prepared, p, s, TRUE))
  BY <1>5, <1>6, <1>8, <1>9, <1>10, SetStateSteady
<1>12. LedShows(FlashLed(r, p, TRUE, TRUE), Priorities)
  BY <1>1, FlashLedShows
<1>13. QED
  BY <1>3, <1>11, <1>12 DEF LedSteady

LEMMA LockKeepsSteady ==
    ASSUME NEW r \in LedType, NEW k \in LockIds \cup {NoLock}
    PROVE  LedSteady(r) => LedSteady([r EXCEPT !.lock = k])
<1>1. /\ [r EXCEPT !.lock = k] \in LedType
      /\ [r EXCEPT !.lock = k].active = r.active
      /\ [r EXCEPT !.lock = k].phys = r.phys
      /\ [r EXCEPT !.lock = k].ctx = r.ctx
  BY LockFields
<1>2. Highest([r EXCEPT !.lock = k]) = Highest(r)
  BY <1>1, HighestOfSameActive
<1>3. QED
  BY <1>1, <1>2, LockKeepsShown DEF LedSteady, OnlyNormalFlashes, ShowsHighest

LEMMA SetStepSteady ==
    ASSUME SteadyClients, NEW r, LedSteady(r), NEW req \in SetRequests,
           req.priority \in r.active, NEW new, SetStep(r, new, req)
    PROVE  LedSteady(new)
<1>1. new \in {SetLed(r, req, TRUE), SetLed(SetLed(r, req, TRUE), req, TRUE)}
  BY DEF SetStep, SteadyClients, PluginWorks, Outcomes
<1>2. /\ req \in RequestType /\ req.priority \in RequestPriorities
      /\ req.state \in Accepted \/ req.flash = "none"
      /\ req.priority = NORMAL \/ IsSteadyRequest(req)
  BY RequestsAreWritable DEF SteadyClients
<1>3. LedSteady(SetLed(r, req, TRUE)) /\ req.priority \in SetLed(r, req, TRUE).active
  BY <1>2, SetLedSteady
<1>4. LedSteady(SetLed(SetLed(r, req, TRUE), req, TRUE))
  BY <1>2, <1>3, SetLedSteady
<1>5. QED
  BY <1>1, <1>3, <1>4

LEMMA ActivateStepSteady ==
    ASSUME ~ WritesMayFail, NEW r, LedSteady(r), NEW p \in Priorities, NEW k \in LockIds,
           NEW new, ActivateStep(r, new, p, k)
    PROVE  LedSteady(new)
<1>1. PICK ok \in BOOLEAN :
        /\ ok = TRUE
        /\ new \in {LockAndActivate(r, p, k, ok),
                    LockAndActivate(LockAndActivate(r, p, k, ok), p, k, ok)}
  BY DEF ActivateStep, Outcomes
<1> DEFINE locked == [r EXCEPT !.lock = k]
           once(q) == ActivateLed(q, p, ok)
<1>2. r \in LedType
  BY DEF LedSteady, LedShows
<1>3. \/ new = r
      \/ new \in {once(r), once(once(r))}
      \/ new = once(locked)
  <2>1. new \in {LockAndActivate(r, p, k, ok),
                 LockAndActivate(LockAndActivate(r, p, k, ok), p, k, ok)}
    BY <1>1
  <2>2. QED
    BY <1>2, <2>1, LockAndActivateTwice
<1>4. LedSteady(locked)
  BY <1>2, LockKeepsSteady
<1>5. \A q : LedSteady(q) => LedSteady(once(q))
  BY <1>1, ActivateSteady
<1> HIDE DEF once, locked
<1>6. QED
  BY <1>3, <1>4, <1>5

LEMMA DeactivateStepSteady ==
    ASSUME ~ WritesMayFail, NEW r, LedSteady(r), NEW p \in Priorities, NEW k \in LockIds,
           NEW new, DeactivateStep(r, new, p, k)
    PROVE  LedSteady(new)
<1>1. PICK ok \in BOOLEAN :
        /\ ok = TRUE
        /\ new \in {UnlockAndDeactivate(r, p, k, ok),
                    UnlockAndDeactivate(UnlockAndDeactivate(r, p, k, ok), p, k, ok)}
  BY DEF DeactivateStep, Outcomes
<1> DEFINE unlocked == [r EXCEPT !.lock = NoLock]
           once(q) == DeactivateLed(q, p, ok)
<1>2. r \in LedType
  BY DEF LedSteady, LedShows
<1>3. \/ new = r
      \/ new \in {once(r), once(once(r))}
      \/ new = once(unlocked)
  <2>1. new \in {UnlockAndDeactivate(r, p, k, ok),
                 UnlockAndDeactivate(UnlockAndDeactivate(r, p, k, ok), p, k, ok)}
    BY <1>1
  <2>2. QED
    BY <1>2, <2>1, UnlockAndDeactivateTwice
<1>4. LedSteady(unlocked)
  BY <1>2, LockKeepsSteady
<1>5. \A q : LedSteady(q) => LedSteady(once(q))
  BY <1>1, DeactivateSteady
<1> HIDE DEF once, unlocked
<1>6. QED
  BY <1>3, <1>4, <1>5

LEMMA NewLedSteady ==
    ASSUME ReportedStates \subseteq Accepted, NEW s \in ReportedStates
    PROVE  LedSteady(NewLed(s, TRUE))
<1> DEFINE r == NewLed(s, TRUE)
<1>1. LedShows(r, Priorities) /\ r \in LedType
  BY NewLedShows DEF LedShows
<1>2. /\ r.active = {NORMAL} /\ r.phys = s
      /\ \A q \in Priorities : r.ctx[q] = NewContext(IF q = NORMAL THEN s ELSE OFF)
  BY DEF NewLed
<1> HIDE DEF r
<1>3. \A t : NewContext(t).state = t /\ NewContext(t).current = 0
  BY DEF NewContext
<1>4. OnlyNormalFlashes(r)
  BY <1>2, <1>3 DEF OnlyNormalFlashes
<1>5. NORMAL \in Priorities /\ Highest(r) = NORMAL
  BY <1>1, <1>2, HighestType DEF Priorities
<1>6. r.phys = r.ctx[NORMAL].state
  BY <1>2, <1>3, <1>5
<1>7. QED
  BY <1>1, <1>4, <1>5, <1>6 DEF LedSteady, ShowsHighest, r

(* For such clients the LED shows the state of its highest active priority.  *)
THEOREM HighestStateIsShown ==
    ASSUME SteadyClients
    PROVE  DisciplinedSpec => []ShowsHighestState
<1> DEFINE SteadyInv == Inv /\ \A l \in LEDs : LedSteady(leds[l])
<1>1. Init => SteadyInv
  <2> SUFFICES ASSUME Init PROVE SteadyInv
    OBVIOUS
  <2>1. ASSUME NEW l \in LEDs PROVE LedSteady(leds[l])
    <3>1. PICK s \in ReportedStates : leds[l] = NewLed(s, TRUE)
      BY DEF Init, Outcomes, SteadyClients, PluginWorks
    <3>2. QED
      BY <3>1, NewLedSteady DEF SteadyClients, PluginWorks
  <2>2. QED
    BY <2>1, InitInv
<1>2. SteadyInv /\ [DisciplinedNext]_vars => SteadyInv'
  <2> SUFFICES ASSUME SteadyInv, [DisciplinedNext]_vars PROVE SteadyInv'
    OBVIOUS
  <2>1. Inv'
    <3>1. [Next]_vars
      BY DEF DisciplinedNext, DisciplinedRequest, Next, Request
    <3>2. QED
      BY <3>1, NextInv
  <2>2. ASSUME NEW l \in LEDs PROVE LedSteady(leds'[l])
    <3>1. LedSteady(leds[l]) /\ ~ WritesMayFail
      BY DEF SteadyClients, PluginWorks
    <3>2. ASSUME NEW name \in Names, NEW req \in SetRequests, NEW broken \in Broken,
                 Visits(name, l) > 0 => req.priority \in leds[l].active,
                 SetLedState(name, req, broken)
          PROVE  LedSteady(leds'[l])
      BY <3>1, <3>2, SetLedStateOfLed, SetStepSteady
    <3>3. ASSUME NEW name \in Names, NEW p \in RequestPriorities, NEW k \in LockIds,
                 NEW broken \in Broken, ActivatePriority(name, p, k, broken)
          PROVE  LedSteady(leds'[l])
      BY <3>1, <3>3, ActivatePriorityOfLed, ActivateStepSteady, RequestsAssumption
    <3>4. ASSUME NEW name \in Names, NEW p \in RequestPriorities, NEW k \in LockIds,
                 NEW broken \in Broken, DeactivatePriority(name, p, k, broken)
          PROVE  LedSteady(leds'[l])
      BY <3>1, <3>4, DeactivatePriorityOfLed, DeactivateStepSteady, RequestsAssumption
    <3>5. ASSUME NEW m \in LEDs, NEW p \in Priorities, Timeout(m, p)
          PROVE  LedSteady(leds'[l])
      <4>1. leds'[l] = leds[l] \/ (leds[l].ctx[p].timer /\ leds'[l] = FlashLed(leds[l], p, TRUE, TRUE))
        BY <3>1, <3>5, TimeoutOfLed DEF TimeoutStep, Outcomes
      <4>2. QED
        BY <3>1, <4>1, FlashLedSteady
    <3>6. CASE UNCHANGED vars
      BY <3>1, <3>6 DEF vars
    <3>7. QED
      BY <3>2, <3>3, <3>4, <3>5, <3>6 DEF DisciplinedNext, DisciplinedRequest
  <2>3. (\A l \in LEDs : LedSteady(leds[l]))'
    BY <2>2
  <2>4. QED
    BY <2>1, <2>3
<1>3. SteadyInv => ShowsHighestState
  BY DEF LedSteady, ShowsHighest, ShowsHighestState
<1> HIDE DEF SteadyInv
<1>4. QED
  BY <1>1, <1>2, <1>3, PTL DEF DisciplinedSpec

------------------------------------------------------------------------------
(***************************************************************************)
(* What an operation on one priority leaves alone: the contexts of the     *)
(* other priorities, and what the LED shows if a more urgent priority is   *)
(* active.                                                                 *)
(***************************************************************************)
LEMMA SetStateElsewhere ==
    ASSUME NEW r \in LedType, NEW p \in Priorities, NEW s \in LedStates,
           NEW ok \in BOOLEAN, NEW q \in Priorities \ {p}
    PROVE  SetState(r, p, s, ok).ctx[q] = r.ctx[q]
<1>1. p \in Nat /\ Highest(r) \in Nat
  BY HighestType, PrioritiesAreNaturals
<1>2. p > Highest(r) \/ p <= Highest(r)
  BY <1>1
<1>3. QED
  BY <1>2, SetStateCases DEF Records

LEMMA ActivateElsewhere ==
    ASSUME NEW r \in LedType, NEW p \in Priorities, NEW ok \in BOOLEAN,
           NEW q \in Priorities \ {p}
    PROVE  /\ ActivateLed(r, p, ok).ctx[q] = r.ctx[q]
           /\ Highest(r) < p => ActivateLed(r, p, ok).phys = r.phys
<1>1. /\ Prepared(r, p) \in LedType
      /\ Prepared(r, p).active = r.active \cup {p}
      /\ Prepared(r, p).phys = r.phys
      /\ Prepared(r, p).ctx[q] = r.ctx[q]
      /\ Prepared(r, p).ctx[p].state \in LedStates
  BY PreparedType, ActivateLedCases
<1>2. ActivateLed(r, p, ok) = Prepared(r, p)
      \/ /\ Highest(Prepared(r, p)) = p
         /\ ActivateLed(r, p, ok) =
              SetState(Prepared(r, p), p, Prepared(r, p).ctx[p].state, ok)
  BY ActivateLedCases
<1>3. ActivateLed(r, p, ok).ctx[q] = r.ctx[q]
  BY <1>1, <1>2, SetStateElsewhere
<1>4. ASSUME Highest(r) < p PROVE Highest(Prepared(r, p)) # p
  <2>1. Highest(r) \in Prepared(r, p).active /\ Highest(r) \in Nat /\ p \in Nat
    BY <1>1, HighestType, PrioritiesAreNaturals
  <2>2. Highest(Prepared(r, p)) <= Highest(r)
    BY <1>1, <2>1, HighestType
  <2>3. QED
    BY <1>4, <2>1, <2>2
<1>5. QED
  BY <1>1, <1>2, <1>3, <1>4

LEMMA DeactivateElsewhere ==
    ASSUME NEW r \in LedType, NEW p \in Priorities, NEW ok \in BOOLEAN
    PROVE  /\ \A q \in Priorities \ r.active : DeactivateLed(r, p, ok).ctx[q] = r.ctx[q]
           /\ Highest(r) < p => DeactivateLed(r, p, ok).phys = r.phys
<1> DEFINE inactive == Deactivated(r, p)
           h == Highest(inactive)
<1>1. /\ inactive \in LedType
      /\ inactive.active = r.active \ ({p} \ {NORMAL})
      /\ inactive.ctx = r.ctx /\ inactive.phys = r.phys
      /\ h \in Priorities /\ r.ctx[h].state \in LedStates
      /\ DeactivateLed(r, p, ok) =
           IF h > p THEN SetState(inactive, h, r.ctx[h].state, ok) ELSE inactive
  BY DeactivateLedCases
<1>2. h \in inactive.active /\ \A q \in inactive.active : h <= q
  BY <1>1, HighestType
<1> HIDE DEF inactive, h
<1>3. ASSUME NEW q \in Priorities \ r.active
      PROVE  DeactivateLed(r, p, ok).ctx[q] = r.ctx[q]
  <2>1. q # h
    BY <1>1, <1>2
  <2>2. SetState(inactive, h, r.ctx[h].state, ok).ctx[q] = inactive.ctx[q]
    BY <1>1, <2>1, SetStateElsewhere
  <2>3. QED
    BY <1>1, <2>2
<1>4. ASSUME Highest(r) < p PROVE ~ (h > p)
  <2>1. Highest(r) \in r.active /\ Highest(r) \in Nat /\ p \in Nat /\ h \in Nat
    BY <1>1, HighestType, PrioritiesAreNaturals
  <2>2. Highest(r) # p
    BY <1>4, <2>1
  <2>3. h <= Highest(r)
    BY <1>1, <1>2, <2>1, <2>2
  <2>4. QED
    BY <1>4, <2>1, <2>3
<1>5. QED
  BY <1>1, <1>3, <1>4

LEMMA SetLedElsewhere ==
    ASSUME NEW r \in LedType, NEW req \in RequestType, NEW ok \in BOOLEAN
    PROVE  /\ \A q \in Priorities \ {req.priority} : SetLed(r, req, ok).ctx[q] = r.ctx[q]
           /\ Highest(r) < req.priority => SetLed(r, req, ok).phys = r.phys
<1> DEFINE p == req.priority
           flashing == WithContext(r, p, Flash(r, req))
<1>1. /\ p \in Priorities /\ Flash(r, req) \in Contexts
      /\ StartState(r, req) \in LedStates
      /\ \/ SetLed(r, req, ok) = r
         \/ SetLed(r, req, ok) = SetState(flashing, p, StartState(r, req), ok)
  BY SetLedEquation
<1>2. /\ flashing \in LedType /\ flashing.phys = r.phys
      /\ Highest(flashing) = Highest(r)
      /\ \A q \in Priorities \ {p} : flashing.ctx[q] = r.ctx[q]
  BY <1>1, WithContextRecords
<1> HIDE DEF p, flashing
<1>3. \A q \in Priorities \ {p} :
         SetState(flashing, p, StartState(r, req), ok).ctx[q] = r.ctx[q]
  BY <1>1, <1>2, SetStateElsewhere
<1>4. Highest(r) < p => SetState(flashing, p, StartState(r, req), ok).phys = r.phys
  <2>1. Highest(r) < p => p > Highest(flashing)
    BY <1>1, <1>2, HighestType, PrioritiesAreNaturals
  <2>2. QED
    BY <1>1, <1>2, <2>1, OnlyRecorded
<1>5. QED
  BY <1>1, <1>3, <1>4 DEF p

LEMMA FlashElsewhere ==
    ASSUME NEW r \in LedType, NEW p \in Priorities, NEW opened \in BOOLEAN, NEW ok \in BOOLEAN
    PROVE  /\ \A q \in Priorities \ {p} : FlashLed(r, p, opened, ok).ctx[q] = r.ctx[q]
           /\ Highest(r) < p => FlashLed(r, p, opened, ok).phys = r.phys
<1> DEFINE flashing == WithContext(r, p, FlashUpdated(r.ctx[p]))
<1>1. /\ FlashUpdated(r.ctx[p]) \in Contexts /\ FlashNext(r.ctx[p]) \in LedStates
      /\ FlashLed(r, p, opened, ok) =
           IF opened THEN SetState(flashing, p, FlashNext(r.ctx[p]), ok) ELSE flashing
  BY FlashLedCases
<1>2. /\ flashing \in LedType /\ flashing.phys = r.phys
      /\ Highest(flashing) = Highest(r)
      /\ \A q \in Priorities \ {p} : flashing.ctx[q] = r.ctx[q]
  BY <1>1, WithContextRecords
<1> HIDE DEF flashing
<1>3. \A q \in Priorities \ {p} :
         SetState(flashing, p, FlashNext(r.ctx[p]), ok).ctx[q] = r.ctx[q]
  BY <1>1, <1>2, SetStateElsewhere
<1>4. Highest(r) < p => SetState(flashing, p, FlashNext(r.ctx[p]), ok).phys = r.phys
  <2>1. Highest(r) < p => p > Highest(flashing)
    BY <1>1, <1>2, HighestType, PrioritiesAreNaturals
  <2>2. QED
    BY <1>1, <1>2, <2>1, OnlyRecorded
<1>5. QED
  BY <1>1, <1>2, <1>3, <1>4

(* A set of records that what a request does to a LED once doesn't leave is  *)
(* not left by the whole request, which may reach the LED twice.             *)
LEMMA RequestCloses ==
    ASSUME NEW C,
           \A r \in C, ok \in Outcomes :
              /\ \A req \in SetRequests : SetLed(r, req, ok) \in C
              /\ \A p \in RequestPriorities, k \in LockIds :
                    LockAndActivate(r, p, k, ok) \in C /\ UnlockAndDeactivate(r, p, k, ok) \in C,
           Request, NEW l \in LEDs, leds[l] \in C
    PROVE  leds'[l] \in C
<1>1. ASSUME NEW req \in SetRequests, SetStep(leds[l], leds'[l], req)
      PROVE  leds'[l] \in C
  BY <1>1 DEF SetStep
<1>2. ASSUME NEW p \in RequestPriorities, NEW k \in LockIds,
             ActivateStep(leds[l], leds'[l], p, k)
      PROVE  leds'[l] \in C
  BY <1>2 DEF ActivateStep
<1>3. ASSUME NEW p \in RequestPriorities, NEW k \in LockIds,
             DeactivateStep(leds[l], leds'[l], p, k)
      PROVE  leds'[l] \in C
  BY <1>3 DEF DeactivateStep
<1>4. PICK name \in Names, broken \in Broken :
        \/ \E req \in SetRequests : SetLedState(name, req, broken)
        \/ \E p \in RequestPriorities, k \in LockIds :
              ActivatePriority(name, p, k, broken) \/ DeactivatePriority(name, p, k, broken)
  BY DEF Request
<1>5. ASSUME NEW req \in SetRequests, SetLedState(name, req, broken)
      PROVE  leds'[l] \in C
  BY <1>1, <1>5, SetLedStateOfLed
<1>6. ASSUME NEW p \in RequestPriorities, NEW k \in LockIds,
             ActivatePriority(name, p, k, broken)
      PROVE  leds'[l] \in C
  BY <1>2, <1>6, ActivatePriorityOfLed
<1>7. ASSUME NEW p \in RequestPriorities, NEW k \in LockIds,
             DeactivatePriority(name, p, k, broken)
      PROVE  leds'[l] \in C
  BY <1>3, <1>7, DeactivatePriorityOfLed
<1>8. QED
  BY <1>4, <1>5, <1>6, <1>7

------------------------------------------------------------------------------
(***************************************************************************)
(* LEDs that nobody uses with CRITICAL: no such priority is active, and no *)
(* flash of it runs, so that nothing is more urgent than a lock.           *)
(***************************************************************************)
Uncritical ==
    {r \in LedType : LedInv(r) /\ CRITICAL \notin r.active /\ ~ r.ctx[CRITICAL].timer}

LEMMA CriticalIsPriority ==
    /\ CRITICAL \in Priorities /\ LOCKED \in Priorities /\ CRITICAL # LOCKED
    /\ \A p \in Priorities \ {CRITICAL, LOCKED} : LOCKED < p
BY DEF Priorities, CRITICAL, LOCKED, ALTERNATE, NORMAL

LEMMA ActivateUncritical ==
    ASSUME NEW r \in Uncritical, NEW p \in Priorities \ {CRITICAL, LOCKED}, NEW ok \in BOOLEAN
    PROVE  ActivateLed(r, p, ok) \in Uncritical /\ DeactivateLed(r, p, ok) \in Uncritical
<1>1. r \in LedType /\ LockAgrees(r) /\ FlashesKnowEnd(r)
  BY DEF Uncritical, LedInv
<1>2. LedInv(ActivateLed(r, p, ok)) /\ CRITICAL \notin ActivateLed(r, p, ok).active
  BY <1>1, ActivateLedType, ActivateLedFlashes DEF LedInv, LockAgrees, Uncritical
<1>3. LedInv(DeactivateLed(r, p, ok)) /\ CRITICAL \notin DeactivateLed(r, p, ok).active
  BY <1>1, DeactivateLedType, DeactivateLedFlashes DEF LedInv, LockAgrees, Uncritical
<1>4. /\ ActivateLed(r, p, ok).ctx[CRITICAL] = r.ctx[CRITICAL]
      /\ DeactivateLed(r, p, ok).ctx[CRITICAL] = r.ctx[CRITICAL]
  BY <1>1, ActivateElsewhere, DeactivateElsewhere, CriticalIsPriority DEF Uncritical
<1>5. QED
  BY <1>2, <1>3, <1>4 DEF Uncritical, LedInv

LEMMA LockUncritical ==
    ASSUME NEW r \in Uncritical, NEW p \in Priorities \ {CRITICAL}, NEW k \in LockIds,
           NEW ok \in BOOLEAN
    PROVE  /\ LockAndActivate(r, p, k, ok) \in Uncritical
           /\ UnlockAndDeactivate(r, p, k, ok) \in Uncritical
<1> DEFINE a == LockAndActivate(r, p, k, ok)
           d == UnlockAndDeactivate(r, p, k, ok)
<1>1. r \in LedType /\ LedInv(r)
  BY DEF Uncritical
<1>2. LedInv(a) /\ LedInv(d)
  BY <1>1, LockAndActivateInv, UnlockAndDeactivateInv
<1>3. CRITICAL \notin a.active /\ CRITICAL \notin d.active
  BY <1>1, LockAndActivateType, UnlockAndDeactivateType, CriticalIsPriority DEF Uncritical
<1>4. a.ctx[CRITICAL] = r.ctx[CRITICAL]
  <2> DEFINE locked == [r EXCEPT !.lock = k]
  <2>1. a = r \/ a = ActivateLed(r, p, ok) \/ a = ActivateLed(locked, p, ok)
    BY <1>1, LockAndActivateTwice
  <2>2. locked \in LedType /\ locked.ctx = r.ctx
    BY <1>1, LockFields
  <2> HIDE DEF a, locked
  <2>3. QED
    BY <1>1, <2>1, <2>2, ActivateElsewhere, CriticalIsPriority
<1>5. d.ctx[CRITICAL] = r.ctx[CRITICAL]
  <2> DEFINE unlocked == [r EXCEPT !.lock = NoLock]
  <2>1. d = r \/ d = DeactivateLed(r, p, ok) \/ d = DeactivateLed(unlocked, p, ok)
    BY <1>1, UnlockAndDeactivateTwice
  <2>2. unlocked \in LedType /\ unlocked.ctx = r.ctx /\ unlocked.active = r.active
    BY <1>1, LockFields
  <2> HIDE DEF d, unlocked
  <2>3. CRITICAL \in Priorities \ r.active
    BY CriticalIsPriority DEF Uncritical
  <2>4. QED
    BY <1>1, <2>1, <2>2, <2>3, DeactivateElsewhere
<1>6. QED
  BY <1>2, <1>3, <1>4, <1>5 DEF Uncritical, LedInv

LEMMA SetUncritical ==
    ASSUME NEW r \in Uncritical, NEW req \in RequestType, req.priority # CRITICAL,
           NEW ok \in BOOLEAN
    PROVE  SetLed(r, req, ok) \in Uncritical
<1>1. r \in LedType /\ LedInv(r)
  BY DEF Uncritical
<1>2. LedInv(SetLed(r, req, ok)) /\ SetLed(r, req, ok).active = r.active
  BY <1>1, SetLedInv, SetLedType
<1>3. SetLed(r, req, ok).ctx[CRITICAL] = r.ctx[CRITICAL]
  BY <1>1, SetLedElsewhere, CriticalIsPriority
<1>4. QED
  BY <1>2, <1>3 DEF Uncritical, LedInv

LEMMA TimeoutUncritical ==
    ASSUME NEW r \in Uncritical, NEW p \in Priorities, NEW new, TimeoutStep(r, new, p)
    PROVE  new \in Uncritical /\ new.lock = r.lock
<1>1. r \in LedType /\ LedInv(r) /\ p # CRITICAL
  BY DEF Uncritical, TimeoutStep
<1>2. PICK opened \in BOOLEAN, ok \in BOOLEAN : new = FlashLed(r, p, opened, ok)
  BY OutcomesType DEF TimeoutStep
<1>3. LedInv(new) /\ new.active = r.active /\ new.lock = r.lock
  BY <1>1, <1>2, FlashLedInv, FlashLedType DEF TimeoutStep
<1>4. new.ctx[CRITICAL] = r.ctx[CRITICAL]
  BY <1>1, <1>2, FlashElsewhere, CriticalIsPriority
<1>5. QED
  BY <1>3, <1>4 DEF Uncritical, LedInv

LEMMA RequestUncritical ==
    ASSUME CRITICAL \notin RequestPriorities, Request, NEW l \in LEDs, leds[l] \in Uncritical
    PROVE  leds'[l] \in Uncritical
<1>1. ASSUME NEW r \in Uncritical, NEW ok \in Outcomes, NEW req \in SetRequests
      PROVE  SetLed(r, req, ok) \in Uncritical
  <2>1. req \in RequestType /\ req.priority \in RequestPriorities /\ ok \in BOOLEAN
    BY SetRequestsType, OutcomesType DEF SetRequests
  <2>2. QED
    BY <2>1, SetUncritical
<1>2. ASSUME NEW r \in Uncritical, NEW ok \in Outcomes, NEW p \in RequestPriorities,
             NEW k \in LockIds
      PROVE  LockAndActivate(r, p, k, ok) \in Uncritical /\ UnlockAndDeactivate(r, p, k, ok) \in Uncritical
  <2>1. p \in Priorities \ {CRITICAL} /\ ok \in BOOLEAN
    BY RequestsAssumption, OutcomesType
  <2>2. QED
    BY <2>1, LockUncritical
<1>3. QED
  BY <1>1, <1>2, RequestCloses

LEMMA NewLedUncritical ==
    ASSUME NEW s \in LedStates, NEW opened \in BOOLEAN
    PROVE  NewLed(s, opened) \in Uncritical
<1>1. LedInv(NewLed(s, opened))
  BY NewLedInv
<1>2. NewLed(s, opened).active = {NORMAL} /\ NORMAL # CRITICAL
  BY DEF NewLed, NORMAL, CRITICAL
<1>3. ~ NewLed(s, opened).ctx[CRITICAL].timer
  BY CriticalIsPriority DEF NewLed, NewContext
<1>4. QED
  BY <1>1, <1>2, <1>3 DEF Uncritical, LedInv

(* Nothing is more urgent than the lock of such a LED.                       *)
LEMMA LockIsHighest ==
    ASSUME NEW r \in Uncritical, r.lock # NoLock
    PROVE  \A p \in Priorities \ {CRITICAL, LOCKED} : Highest(r) < p
<1>1. r \in LedType /\ LOCKED \in r.active
  BY DEF Uncritical, LedInv, LockAgrees
<1>2. Highest(r) <= LOCKED /\ Highest(r) \in Nat /\ Priorities \subseteq Nat
  BY <1>1, HighestType, PrioritiesAreNaturals
<1>3. QED
  BY <1>2, CriticalIsPriority

------------------------------------------------------------------------------
(***************************************************************************)
(* LEDs that no flash of priority d runs on.  Only a request for a flash   *)
(* of d itself can start one.                                              *)
(***************************************************************************)
IdleAt(d) == {r \in LedType : r.ctx[d].current = 0 /\ ~ r.ctx[d].timer}

LEMMA SetStateIdle ==
    ASSUME NEW d \in Priorities, NEW r \in IdleAt(d), NEW p \in Priorities,
           NEW s \in LedStates, NEW ok \in BOOLEAN
    PROVE  SetState(r, p, s, ok) \in IdleAt(d)
<1> DEFINE new == SetState(r, p, s, ok)
<1>1. r \in LedType /\ r.ctx[d].current = 0 /\ ~ r.ctx[d].timer
  BY DEF IdleAt
<1>2. p \in Nat /\ Highest(r) \in Nat
  BY <1>1, HighestType, PrioritiesAreNaturals
<1>3. new \in LedType /\ (Records(r, new, p, s) \/ new = r)
  BY <1>1, <1>2, SetStateCases
<1>4. /\ r.ctx[d] \in Contexts
      /\ Recorded(r.ctx[d], s).current = r.ctx[d].current
      /\ Recorded(r.ctx[d], s).timer <=> r.ctx[d].current > 0
  <2>1. r.ctx[d] \in Contexts
    BY <1>1 DEF LedType
  <2>2. QED
    BY <2>1, RecordedFields
<1> HIDE DEF new
<1>5. Records(r, new, p, s) => new.ctx[d] = IF d = p THEN Recorded(r.ctx[d], s) ELSE r.ctx[d]
  BY DEF Records
<1>6. new.ctx[d].current = 0 /\ ~ new.ctx[d].timer
  BY <1>1, <1>3, <1>4, <1>5
<1>7. QED
  BY <1>3, <1>6 DEF IdleAt, new

LEMMA ActivateIdle ==
    ASSUME NEW d \in Priorities, NEW r \in IdleAt(d), NEW p \in Priorities, NEW ok \in BOOLEAN
    PROVE  ActivateLed(r, p, ok) \in IdleAt(d) /\ DeactivateLed(r, p, ok) \in IdleAt(d)
<1>1. r \in LedType
  BY DEF IdleAt
<1>2. ActivateLed(r, p, ok) \in IdleAt(d)
  <2> DEFINE q == Prepared(r, p)
             s == q.ctx[p].state
  <2>1. q \in IdleAt(d)
    BY <1>1, PreparedType DEF IdleAt
  <2>2. /\ s \in LedStates
        /\ ActivateLed(r, p, ok) \in {q, SetState(q, p, s, ok)}
    BY <1>1, ActivateLedCases
  <2> HIDE DEF q, s
  <2>3. QED
    BY <2>1, <2>2, SetStateIdle
<1>3. DeactivateLed(r, p, ok) \in IdleAt(d)
  <2> DEFINE q == Deactivated(r, p)
             h == Highest(q)
             s == r.ctx[h].state
  <2>1. /\ q \in LedType /\ q.ctx = r.ctx /\ h \in Priorities /\ s \in LedStates
        /\ DeactivateLed(r, p, ok) \in {q, SetState(q, h, s, ok)}
    BY <1>1, DeactivateLedCases
  <2> HIDE DEF q, h, s
  <2>2. q \in IdleAt(d)
    BY <2>1 DEF IdleAt
  <2>3. QED
    BY <2>1, <2>2, SetStateIdle
<1>4. QED
  BY <1>2, <1>3

LEMMA LockIdle ==
    ASSUME NEW d \in Priorities, NEW r \in IdleAt(d), NEW p \in Priorities, NEW k \in LockIds,
           NEW ok \in BOOLEAN
    PROVE  /\ LockAndActivate(r, p, k, ok) \in IdleAt(d)
           /\ UnlockAndDeactivate(r, p, k, ok) \in IdleAt(d)
<1> DEFINE a == LockAndActivate(r, p, k, ok)
           u == UnlockAndDeactivate(r, p, k, ok)
           locked == [r EXCEPT !.lock = k]
           unlocked == [r EXCEPT !.lock = NoLock]
<1>1. r \in LedType
  BY DEF IdleAt
<1>2. /\ a \in {r, ActivateLed(r, p, ok), ActivateLed(locked, p, ok)}
      /\ u \in {r, DeactivateLed(r, p, ok), DeactivateLed(unlocked, p, ok)}
  BY <1>1, LockAndActivateTwice, UnlockAndDeactivateTwice
<1>3. locked \in LedType /\ locked.ctx = r.ctx /\ unlocked \in LedType /\ unlocked.ctx = r.ctx
  BY <1>1, LockFields
<1> HIDE DEF a, u, locked, unlocked
<1>4. locked \in IdleAt(d) /\ unlocked \in IdleAt(d)
  BY <1>3 DEF IdleAt
<1>5. QED
  BY <1>2, <1>4, ActivateIdle DEF a, u

LEMMA SetIdle ==
    ASSUME NEW d \in Priorities, NEW req \in RequestType, NEW ok \in BOOLEAN
    PROVE  /\ \A r \in IdleAt(d) :
                 req.priority # d \/ IsSteadyRequest(req) => SetLed(r, req, ok) \in IdleAt(d)
           /\ \A r \in LedType :
                 ok = TRUE /\ req.priority = d /\ IsSteadyRequest(req) /\ MayUpdate(r, req) =>
                    /\ SetLed(r, req, ok) \in IdleAt(d)
                    /\ SetLed(r, req, ok).ctx[d].state = req.state
<1>1. ASSUME NEW r \in IdleAt(d), req.priority # d PROVE SetLed(r, req, ok) \in IdleAt(d)
  <2>1. r \in LedType /\ SetLed(r, req, ok) \in LedType
    BY SetLedType DEF IdleAt
  <2>2. SetLed(r, req, ok).ctx[d] = r.ctx[d]
    BY <1>1, <2>1, SetLedElsewhere
  <2>3. QED
    BY <2>1, <2>2 DEF IdleAt
<1>2. ASSUME NEW r \in LedType, req.priority = d, IsSteadyRequest(req)
      PROVE  /\ ok /\ MayUpdate(r, req) => /\ SetLed(r, req, ok) \in IdleAt(d)
                                           /\ SetLed(r, req, ok).ctx[d].state = req.state
             /\ r \in IdleAt(d) => SetLed(r, req, ok) \in IdleAt(d)
  <2> DEFINE c == Flash(r, req)
             q == WithContext(r, d, c)
             s == req.state
             new == SetState(q, d, s, ok)
  <2>1. /\ s \in LedStates /\ s \in Accepted /\ c.current = 0 /\ c.timer = r.ctx[d].timer
        /\ c \in Contexts /\ ~ Unknown(req) /\ StartState(r, req) = s
    <3>1. /\ c.current = 0 /\ ~ Unknown(req) /\ StartState(r, req) = s
      BY <1>2, SteadyRequest DEF IsSteadyRequest
    <3>2. c \in Contexts
      BY SetLedEquation
    <3>3. c.timer = r.ctx[d].timer
      <4>1. r.ctx[d] \in Contexts
        BY DEF LedType
      <4>2. QED
        BY <1>2, <4>1 DEF Flash, InitialiseFlashing, Contexts
    <3>4. s \in LedStates /\ s \in Accepted
      BY <1>2, StatesAssumption DEF IsSteadyRequest
    <3>5. QED
      BY <3>1, <3>2, <3>3, <3>4
  <2>2. /\ ~ MayUpdate(r, req) => SetLed(r, req, ok) = r
        /\ MayUpdate(r, req) => SetLed(r, req, ok) = new
    BY <1>2, <2>1, SetLedEquation
  <2> HIDE DEF c, s
  <2>3. q \in LedType /\ q.ctx[d] = c
    BY <2>1, WithContextRecords
  <2> HIDE DEF q
  <2>4. r \in IdleAt(d) => new \in IdleAt(d)
    <3>1. r \in IdleAt(d) => q \in IdleAt(d)
      BY <2>1, <2>3 DEF IdleAt
    <3>2. QED
      BY <2>1, <3>1, SetStateIdle
  <2>5. ok => new \in IdleAt(d) /\ new.ctx[d].state = s
    <3>1. d \in Nat /\ Highest(q) \in Nat
      BY <2>3, HighestType, PrioritiesAreNaturals
    <3>2. ok => new \in LedType /\ Records(q, new, d, s)
      <4>1. new \in LedType
        BY <2>1, <2>3, SetStateCases
      <4>2. d > Highest(q) => Records(q, new, d, s)
        BY <2>1, <2>3, SetStateCases
      <4>3. d <= Highest(q) /\ ok => Records(q, new, d, s)
        BY <2>1, <2>3, SetStateCases
      <4>4. d > Highest(q) \/ d <= Highest(q)
        BY <3>1
      <4> HIDE DEF new
      <4>5. QED
        BY <4>1, <4>2, <4>3, <4>4
    <3>3. ok => new.ctx[d] = Recorded(c, s)
      BY <2>3, <3>2 DEF Records
    <3>4. /\ Recorded(c, s).current = 0 /\ ~ Recorded(c, s).timer
          /\ Recorded(c, s).state = s
      BY <2>1, RecordedFields
    <3>5. QED
      BY <3>2, <3>3, <3>4 DEF IdleAt
  <2>6. QED
    BY <2>2, <2>4, <2>5 DEF s
<1>3. QED
  BY <1>1, <1>2 DEF IdleAt

LEMMA FlashIdle ==
    ASSUME NEW d \in Priorities, NEW r \in IdleAt(d), NEW p \in Priorities, NEW new,
           TimeoutStep(r, new, p)
    PROVE  new \in IdleAt(d)
<1>1. r \in LedType /\ p # d
  BY DEF IdleAt, TimeoutStep
<1>2. PICK opened \in BOOLEAN, ok \in BOOLEAN : new = FlashLed(r, p, opened, ok)
  BY OutcomesType DEF TimeoutStep
<1>3. new \in LedType /\ new.ctx[d] = r.ctx[d]
  BY <1>1, <1>2, FlashLedType, FlashElsewhere
<1>4. QED
  BY <1>3 DEF IdleAt

(* A steady state, once it is set, is recorded and stops the flash.          *)
LEMMA SteadyStopsFlash ==
    ASSUME NEW d \in Priorities, NEW req \in RequestType, NEW r \in LedType,
           req.priority = d, IsSteadyRequest(req), MayUpdate(r, req)
    PROVE  /\ SetLed(r, req, TRUE) \in IdleAt(d)
           /\ SetLed(r, req, TRUE).ctx[d].state = req.state
BY SetIdle

------------------------------------------------------------------------------
(***************************************************************************)
(* LEDs that show a state of a priority between the locks and NORMAL: it   *)
(* is recorded and will be shown once nothing more urgent is active, or,   *)
(* if the plugin lacks it, the daemon flashes the LED for ever.  Nothing   *)
(* but a request for that priority changes this, on a LED of which neither *)
(* CRITICAL nor an abandoned flash of LOCKED is in the way.                *)
(***************************************************************************)
Between == Priorities \ {CRITICAL, LOCKED, NORMAL}

Calm == Uncritical \cap IdleAt(LOCKED)

DrivenAt(d) ==
    {r \in LedType : /\ r.ctx[d].timer /\ r.ctx[d].current > 0
                     /\ r.ctx[d].forever /\ r.ctx[d].times \in {"slow", "fast"}}

SteadyAt(d, s) ==
    {r \in IdleAt(d) : r.ctx[d].state = s /\ (Highest(r) = d => r.phys = s)}

ShowsAt(d, s) == IF s \in Supported THEN SteadyAt(d, s) ELSE DrivenAt(d)

LEMMA BetweenOrder ==
    ASSUME NEW d \in Between
    PROVE  /\ d \in Priorities /\ d \in Nat /\ d # LOCKED /\ d # CRITICAL
           /\ LOCKED \in Priorities /\ Priorities \subseteq Nat
           /\ \A p \in Priorities \ {CRITICAL, LOCKED, d} : d < p
BY DEF Between, Priorities, CRITICAL, LOCKED, ALTERNATE, NORMAL

LEMMA CalmType ==
    /\ Calm \subseteq LedType
    /\ \A r \in Calm : r \in Uncritical /\ r \in IdleAt(LOCKED)
BY DEF Calm, IdleAt

(* Steps, requests and flashes keep a LED like that.                         *)
LEMMA CalmKept ==
    ASSUME NEW r \in Calm, NEW ok \in BOOLEAN
    PROVE  /\ \A p \in Priorities \ {CRITICAL, LOCKED} :
                 ActivateLed(r, p, ok) \in Calm /\ DeactivateLed(r, p, ok) \in Calm
           /\ \A p \in Priorities \ {CRITICAL}, k \in LockIds :
                 LockAndActivate(r, p, k, ok) \in Calm /\ UnlockAndDeactivate(r, p, k, ok) \in Calm
           /\ \A req \in RequestType :
                 /\ req.priority # CRITICAL
                 /\ req.priority = LOCKED => IsSteadyRequest(req) \/ ~ MayUpdate(r, req)
                 => SetLed(r, req, ok) \in Calm
           /\ \A p \in Priorities : \A new : TimeoutStep(r, new, p) => new \in Calm
<1>1. r \in Uncritical /\ r \in IdleAt(LOCKED) /\ r \in LedType /\ LOCKED \in Priorities
  BY CalmType, CriticalIsPriority
<1>2. ASSUME NEW p \in Priorities \ {CRITICAL, LOCKED}
      PROVE  ActivateLed(r, p, ok) \in Calm /\ DeactivateLed(r, p, ok) \in Calm
  <2>1. ActivateLed(r, p, ok) \in Uncritical /\ DeactivateLed(r, p, ok) \in Uncritical
    BY <1>1, ActivateUncritical
  <2>2. ActivateLed(r, p, ok) \in IdleAt(LOCKED) /\ DeactivateLed(r, p, ok) \in IdleAt(LOCKED)
    BY <1>1, ActivateIdle
  <2>3. QED
    BY <2>1, <2>2 DEF Calm
<1>3. ASSUME NEW p \in Priorities \ {CRITICAL}, NEW k \in LockIds
      PROVE  LockAndActivate(r, p, k, ok) \in Calm /\ UnlockAndDeactivate(r, p, k, ok) \in Calm
  <2>1. /\ LockAndActivate(r, p, k, ok) \in Uncritical
        /\ UnlockAndDeactivate(r, p, k, ok) \in Uncritical
    BY <1>1, LockUncritical
  <2>2. /\ LockAndActivate(r, p, k, ok) \in IdleAt(LOCKED)
        /\ UnlockAndDeactivate(r, p, k, ok) \in IdleAt(LOCKED)
    BY <1>1, LockIdle
  <2>3. QED
    BY <2>1, <2>2 DEF Calm
<1>4. ASSUME NEW req \in RequestType, req.priority # CRITICAL,
             req.priority = LOCKED => IsSteadyRequest(req) \/ ~ MayUpdate(r, req)
      PROVE  SetLed(r, req, ok) \in Calm
  <2>1. SetLed(r, req, ok) \in Uncritical
    BY <1>1, <1>4, SetUncritical
  <2>2. CASE MayUpdate(r, req)
    <3>1. SetLed(r, req, ok) \in IdleAt(LOCKED)
      BY <1>1, <1>4, <2>2, SetIdle
    <3>2. QED
      BY <2>1, <3>1 DEF Calm
  <2>3. CASE ~ MayUpdate(r, req)
    BY <1>1, <2>3, SetLedEquation
  <2>4. QED
    BY <2>2, <2>3
<1>5. ASSUME NEW p \in Priorities, NEW new, TimeoutStep(r, new, p) PROVE new \in Calm
  <2>1. new \in Uncritical
    BY <1>1, <1>5, TimeoutUncritical
  <2>2. new \in IdleAt(LOCKED)
    BY <1>1, <1>5, FlashIdle
  <2>3. QED
    BY <2>1, <2>2 DEF Calm
<1>6. QED
  BY <1>2, <1>3, <1>4, <1>5

(* What other priorities do to the record and the appearance of d.           *)
LEMMA ActivatePast ==
    ASSUME NEW d \in Between, NEW r \in LedType, NEW p \in Priorities \ {d}, NEW ok \in BOOLEAN
    PROVE  LET new == ActivateLed(r, p, ok)
           IN  /\ new \in LedType /\ new.ctx[d] = r.ctx[d]
               /\ Highest(new) = d => Highest(r) = d /\ new.phys = r.phys
<1> DEFINE new == ActivateLed(r, p, ok)
<1>1. new \in LedType /\ new.active = r.active \cup {p}
  BY ActivateLedType
<1>2. new.ctx[d] = r.ctx[d] /\ (Highest(r) < p => new.phys = r.phys)
  BY ActivateElsewhere, BetweenOrder
<1> HIDE DEF new
<1>3. ASSUME Highest(new) = d PROVE Highest(r) = d /\ Highest(r) < p
  <2>1. /\ d \in new.active /\ \A x \in new.active : d <= x
        /\ Highest(r) \in r.active /\ \A x \in r.active : Highest(r) <= x
        /\ Highest(r) \in Nat /\ p \in Nat /\ d \in Nat
    BY <1>1, <1>3, HighestType, BetweenOrder
  <2>2. d <= Highest(r) /\ Highest(r) <= d /\ d <= p /\ d # p
    BY <1>1, <2>1
  <2>3. QED
    BY <2>1, <2>2
<1>4. QED
  BY <1>1, <1>2, <1>3 DEF new

LEMMA DeactivatePast ==
    ASSUME NEW d \in Between, NEW r \in LedType, NEW p \in Priorities \ {d},
           r.ctx[d].state \in Accepted
    PROVE  LET new == DeactivateLed(r, p, TRUE)
           IN  /\ new \in LedType /\ new.ctx[d].state = r.ctx[d].state
               /\ Highest(new) = d =>
                     new.phys = r.ctx[d].state \/ (Highest(r) = d /\ new.phys = r.phys)
<1> DEFINE inactive == Deactivated(r, p)
           h == Highest(inactive)
           s == r.ctx[h].state
           new == DeactivateLed(r, p, TRUE)
<1>1. /\ inactive \in LedType /\ inactive.phys = r.phys /\ inactive.ctx = r.ctx
      /\ inactive.active = r.active \ ({p} \ {NORMAL})
      /\ h \in Priorities /\ s \in LedStates /\ Highest(r) <= h
      /\ new = IF h > p THEN SetState(inactive, h, s, TRUE) ELSE inactive
  <2>1. \A ok \in BOOLEAN :
           /\ inactive \in LedType /\ inactive.phys = r.phys /\ inactive.ctx = r.ctx
           /\ inactive.active = r.active \ ({p} \ {NORMAL})
           /\ h \in Priorities /\ s \in LedStates /\ Highest(r) <= h
           /\ DeactivateLed(r, p, ok) = IF h > p THEN SetState(inactive, h, s, ok) ELSE inactive
    BY DeactivateLedCases
  <2>2. QED
    BY <2>1
<1>2. h = Highest(inactive) /\ (h = d => s = r.ctx[d].state)
  OBVIOUS
<1>3. /\ d \in Priorities /\ d \in Nat /\ p \in Nat /\ h \in Nat /\ Highest(r) \in Nat
      /\ Highest(r) \in r.active /\ \A x \in inactive.active : h <= x
  BY <1>1, HighestType, BetweenOrder
<1> HIDE DEF new, inactive, s, h
<1>4. CASE h > p
  <2>1. /\ new \in LedType /\ Highest(new) = h
        /\ s \in Accepted => new.phys = s
        /\ Records(inactive, new, h, s) \/ new = inactive
    <3>1. \A ok \in BOOLEAN :
             LET q == SetState(inactive, h, s, ok)
             IN  /\ q \in LedType /\ Highest(q) = Highest(inactive)
                 /\ h <= Highest(inactive) /\ ok /\ s \in Accepted =>
                      q.phys = s /\ Records(inactive, q, h, s)
                 /\ h <= Highest(inactive) /\ ~ (ok /\ s \in Accepted) => q = inactive
      BY <1>1, SetStateCases
    <3>2. h <= Highest(inactive)
      BY <1>2, <1>3
    <3>3. QED
      BY <1>1, <1>2, <1>4, <3>1, <3>2
  <2>2. new.ctx[d].state = r.ctx[d].state
    <3>1. r.ctx[h] \in Contexts
      BY <1>1 DEF LedType
    <3>2. Recorded(r.ctx[h], s).state = s
      BY <1>1, <3>1, RecordedFields
    <3>3. QED
      BY <1>1, <1>2, <1>3, <2>1, <3>2 DEF Records
  <2>3. Highest(new) = d => new.phys = r.ctx[d].state
    BY <1>2, <2>1
  <2>4. QED
    BY <2>1, <2>2, <2>3 DEF new
<1>5. CASE ~ (h > p)
  <2>1. new = inactive
    BY <1>1, <1>5
  <2>2. ASSUME h = d PROVE Highest(r) = d
    <3>1. d < p /\ Highest(r) <= d
      BY <1>1, <1>3, <1>5, <2>2
    <3>2. Highest(r) # p
      BY <1>3, <3>1
    <3>3. Highest(r) \in inactive.active
      BY <1>1, <1>3, <3>2
    <3>4. d <= Highest(r)
      BY <1>3, <2>2, <3>3
    <3>5. QED
      BY <1>3, <3>1, <3>4
  <2>3. QED
    BY <1>1, <1>2, <2>1, <2>2 DEF new
<1>6. QED
  BY <1>4, <1>5

LEMMA SetPast ==
    ASSUME NEW d \in Between, NEW r \in Calm, NEW req \in RequestType,
           req.priority # CRITICAL, req.priority # d, NEW ok \in BOOLEAN
    PROVE  LET new == SetLed(r, req, ok)
           IN  /\ new \in LedType /\ new.ctx[d] = r.ctx[d] /\ Highest(new) = Highest(r)
               /\ Highest(r) = d => new.phys = r.phys
<1> DEFINE new == SetLed(r, req, ok)
           p == req.priority
<1>1. r \in LedType /\ r \in Uncritical /\ p \in Priorities
  BY CalmType DEF RequestType
<1>2. /\ new \in LedType /\ Highest(new) = Highest(r) /\ new.ctx[d] = r.ctx[d]
      /\ Highest(r) < p => new.phys = r.phys
  <2>1. new \in LedType /\ new.active = r.active
    BY <1>1, SetLedType
  <2>2. new.ctx[d] = r.ctx[d] /\ (Highest(r) < p => new.phys = r.phys)
    BY <1>1, SetLedElsewhere, BetweenOrder
  <2>3. QED
    BY <2>1, <2>2, HighestOfSameActive
<1>3. ASSUME Highest(r) = d, p = LOCKED PROVE new = r
  <2>1. r.lock = NoLock
    <3>1. r.lock # NoLock => Highest(r) < d
      BY <1>1, LockIsHighest, BetweenOrder
    <3>2. QED
      BY <1>3, <3>1, BetweenOrder
  <2>2. ~ MayUpdate(r, req)
    BY <1>3, <2>1 DEF MayUpdate
  <2>3. QED
    BY <1>1, <2>2, SetLedEquation
<1>4. p # LOCKED => d < p
  BY <1>1, BetweenOrder
<1> HIDE DEF new, p
<1>5. Highest(r) = d => new.phys = r.phys
  BY <1>2, <1>3, <1>4
<1>6. QED
  BY <1>2, <1>5 DEF new

LEMMA SetStateDriven ==
    ASSUME NEW d \in Priorities, NEW r \in DrivenAt(d), NEW p \in Priorities,
           NEW s \in LedStates, NEW ok \in BOOLEAN
    PROVE  SetState(r, p, s, ok) \in DrivenAt(d)
<1> DEFINE new == SetState(r, p, s, ok)
<1>1. /\ r \in LedType /\ r.ctx[d].timer /\ r.ctx[d].current > 0
      /\ r.ctx[d].forever /\ r.ctx[d].times \in {"slow", "fast"}
  BY DEF DrivenAt
<1>2. p \in Nat /\ Highest(r) \in Nat
  BY <1>1, HighestType, PrioritiesAreNaturals
<1>3. new \in LedType /\ (Records(r, new, p, s) \/ new = r)
  BY <1>1, <1>2, SetStateCases
<1>4. LET c == Recorded(r.ctx[d], s)
      IN  c.timer /\ c.current > 0 /\ c.forever /\ c.times \in {"slow", "fast"}
  <2>1. r.ctx[d] \in Contexts
    BY <1>1 DEF LedType
  <2>2. QED
    BY <1>1, <2>1 DEF Recorded, Contexts
<1> HIDE DEF new
<1>5. Records(r, new, p, s) => new.ctx[d] = IF d = p THEN Recorded(r.ctx[d], s) ELSE r.ctx[d]
  BY DEF Records
<1>6. QED
  BY <1>1, <1>3, <1>4, <1>5 DEF DrivenAt, new

(* A flash that is prepared is driven once it is written.                    *)
LEMMA PreparedIsDriven ==
    ASSUME NEW d \in Priorities, NEW r \in LedType, NEW c \in Contexts, c.current > 0,
           c.forever, c.times \in {"slow", "fast"}, NEW s \in Accepted
    PROVE  SetState(WithContext(r, d, c), d, s, TRUE) \in DrivenAt(d)
<1> DEFINE q == WithContext(r, d, c)
           new == SetState(q, d, s, TRUE)
<1>1. q \in LedType /\ q.ctx[d] = c
  BY WithContextRecords
<1>2. s \in LedStates /\ d \in Nat
  BY PrioritiesAreNaturals, StatesAssumption
<1> HIDE DEF q
<1>3. Highest(q) \in Nat
  BY <1>1, HighestType, PrioritiesAreNaturals
<1>4. new \in LedType /\ Records(q, new, d, s)
  <2>1. \A ok \in BOOLEAN :
           LET x == SetState(q, d, s, ok)
           IN  /\ x \in LedType
               /\ d > Highest(q) => Records(q, x, d, s)
               /\ d <= Highest(q) /\ ok /\ s \in Accepted => Records(q, x, d, s)
    BY <1>1, <1>2, SetStateCases
  <2>2. d > Highest(q) \/ d <= Highest(q)
    BY <1>2, <1>3
  <2>3. QED
    BY <2>1, <2>2
<1> HIDE DEF new
<1>5. new.ctx[d] = Recorded(c, s)
  BY <1>1, <1>4 DEF Records
<1>6. LET k == Recorded(c, s)
      IN  k.timer /\ k.current > 0 /\ k.forever /\ k.times \in {"slow", "fast"}
  BY DEF Recorded, Contexts
<1>7. QED
  BY <1>4, <1>5, <1>6 DEF DrivenAt, new, q

LEMMA SlowAndFast ==
    /\ {OFF, ON} \subseteq Accepted
    /\ \A t \in {"slow", "fast"} : t \in FlashTypes /\ OnTime[t] > 0 /\ OffTime[t] > 0
    /\ \A s \in LedStates \ (Supported \cup {UNKNOWN}) : FlashOf(s) \in {"slow", "fast"}
<1>1. {OFF, ON} \subseteq Supported /\ Supported \subseteq Accepted
  BY StatesAssumption
<1>2. \A t \in {"slow", "fast"} : t \in FlashTypes /\ OnTime[t] > 0 /\ OffTime[t] > 0
  BY DEF OnTime, OffTime, FlashTypes
<1>3. \A s \in LedStates \ (Supported \cup {UNKNOWN}) : FlashOf(s) \in {"slow", "fast"}
  BY <1>1 DEF FlashOf, LedStates, UNKNOWN, OFF, ON, SLOW_FLASH, FAST_FLASH
<1>4. QED
  BY <1>1, <1>2, <1>3

LEMMA FlashDriven ==
    ASSUME NEW d \in Priorities, NEW r \in DrivenAt(d)
    PROVE  FlashLed(r, d, TRUE, TRUE) \in DrivenAt(d)
<1> DEFINE c == r.ctx[d]
           k == FlashUpdated(c)
<1>1. r \in LedType /\ c \in Contexts /\ c.forever /\ c.times \in {"slow", "fast"}
  BY DEF DrivenAt, LedType
<1>2. k \in Contexts /\ FlashLed(r, d, TRUE, TRUE) = SetState(WithContext(r, d, k), d, FlashNext(c), TRUE)
  <2>1. \A opened, ok \in BOOLEAN :
           /\ FlashUpdated(c) \in Contexts
           /\ FlashLed(r, d, opened, ok) =
                IF opened THEN SetState(WithContext(r, d, FlashUpdated(c)), d, FlashNext(c), ok)
                          ELSE WithContext(r, d, FlashUpdated(c))
    BY <1>1, FlashLedCases
  <2>2. QED
    BY <2>1
<1> HIDE DEF c
<1>3. FlashNext(c) \in Accepted
  BY <1>1, SlowAndFast DEF FlashNext
<1>4. k.current > 0 /\ k.forever /\ k.times \in {"slow", "fast"}
  <2> DEFINE fired == [c EXCEPT !.timer = FALSE, !.remaining = TimeRemaining(c)]
             time == IF FlashNext(c) = ON THEN OnTime[c.times] ELSE OffTime[c.times]
  <2>1. k = [fired EXCEPT !.current = time]
    BY <1>1 DEF FlashUpdated
  <2>2. time > 0
    BY <1>1, SlowAndFast
  <2> HIDE DEF time, k
  <2>3. QED
    BY <1>1, <2>1, <2>2 DEF Contexts
<1> HIDE DEF k
<1>5. QED
  BY <1>1, <1>2, <1>3, <1>4, PreparedIsDriven

(* Only a request for the priority itself stops such a flash.                *)
LEMMA DrivenKept ==
    ASSUME NEW d \in Priorities, NEW r \in DrivenAt(d), NEW ok \in BOOLEAN
    PROVE  /\ \A p \in Priorities \ {d} :
                 ActivateLed(r, p, ok) \in DrivenAt(d) /\ DeactivateLed(r, p, ok) \in DrivenAt(d)
           /\ \A p \in Priorities \ {d}, k \in LockIds :
                 /\ LockAndActivate(r, p, k, ok) \in DrivenAt(d)
                 /\ UnlockAndDeactivate(r, p, k, ok) \in DrivenAt(d)
           /\ \A req \in RequestType :
                 req.priority # d => SetLed(r, req, ok) \in DrivenAt(d)
           /\ \A p \in Priorities : \A new :
                 ~ WritesMayFail /\ TimeoutStep(r, new, p) => new \in DrivenAt(d)
<1> DEFINE Same(x) == x \in LedType /\ x.ctx[d] = r.ctx[d]
<1>1. r \in LedType
  BY DEF DrivenAt
<1>2. \A x : Same(x) => x \in DrivenAt(d)
  BY DEF DrivenAt
<1>3. ASSUME NEW q \in DrivenAt(d), NEW p \in Priorities \ {d}
      PROVE  ActivateLed(q, p, ok) \in DrivenAt(d) /\ DeactivateLed(q, p, ok) \in DrivenAt(d)
  <2>1. q \in LedType
    BY DEF DrivenAt
  <2>2. ActivateLed(q, p, ok) \in DrivenAt(d)
    <3>1. ActivateLed(q, p, ok) \in LedType /\ ActivateLed(q, p, ok).ctx[d] = q.ctx[d]
      BY <2>1, ActivateLedType, ActivateElsewhere
    <3>2. QED
      BY <3>1 DEF DrivenAt
  <2>3. DeactivateLed(q, p, ok) \in DrivenAt(d)
    <3> DEFINE inactive == Deactivated(q, p)
               h == Highest(inactive)
               s == q.ctx[h].state
    <3>1. /\ inactive \in LedType /\ inactive.ctx = q.ctx /\ h \in Priorities /\ s \in LedStates
          /\ DeactivateLed(q, p, ok) \in {inactive, SetState(inactive, h, s, ok)}
      BY <2>1, DeactivateLedCases
    <3> HIDE DEF inactive, h, s
    <3>2. inactive \in DrivenAt(d)
      BY <3>1 DEF DrivenAt
    <3>3. QED
      BY <3>1, <3>2, SetStateDriven
  <2>4. QED
    BY <2>2, <2>3
<1>4. ASSUME NEW p \in Priorities \ {d}, NEW k \in LockIds
      PROVE  /\ LockAndActivate(r, p, k, ok) \in DrivenAt(d)
             /\ UnlockAndDeactivate(r, p, k, ok) \in DrivenAt(d)
  <2> DEFINE a == LockAndActivate(r, p, k, ok)
             u == UnlockAndDeactivate(r, p, k, ok)
             locked == [r EXCEPT !.lock = k]
             unlocked == [r EXCEPT !.lock = NoLock]
  <2>1. /\ a \in {r, ActivateLed(r, p, ok), ActivateLed(locked, p, ok)}
        /\ u \in {r, DeactivateLed(r, p, ok), DeactivateLed(unlocked, p, ok)}
    BY <1>1, LockAndActivateTwice, UnlockAndDeactivateTwice
  <2>2. locked \in LedType /\ locked.ctx = r.ctx /\ unlocked \in LedType /\ unlocked.ctx = r.ctx
    BY <1>1, LockFields
  <2> HIDE DEF a, u, locked, unlocked
  <2>3. locked \in DrivenAt(d) /\ unlocked \in DrivenAt(d)
    BY <2>2 DEF DrivenAt
  <2>4. QED
    BY <1>3, <2>1, <2>3 DEF a, u
<1>5. ASSUME NEW req \in RequestType, req.priority # d PROVE SetLed(r, req, ok) \in DrivenAt(d)
  BY <1>1, <1>2, <1>5, SetLedType, SetLedElsewhere
<1>6. ASSUME NEW p \in Priorities, NEW new, ~ WritesMayFail, TimeoutStep(r, new, p)
      PROVE  new \in DrivenAt(d)
  <2>1. new = FlashLed(r, p, TRUE, TRUE)
    BY <1>6 DEF TimeoutStep, Outcomes
  <2>2. CASE p = d
    BY <2>1, <2>2, FlashDriven
  <2>3. CASE p # d
    <3>1. \A opened, written \in BOOLEAN : Same(FlashLed(r, p, opened, written))
      BY <1>1, <2>3, FlashLedType, FlashElsewhere
    <3>2. QED
      BY <1>2, <2>1, <3>1
  <2>4. QED
    BY <2>2, <2>3
<1>7. QED
  BY <1>3, <1>4, <1>5, <1>6

LEMMA SteadyKept ==
    ASSUME NEW d \in Between, NEW s \in Accepted, NEW r \in Calm, r \in SteadyAt(d, s)
    PROVE  /\ \A p \in Priorities \ {d} :
                 /\ ActivateLed(r, p, TRUE) \in SteadyAt(d, s)
                 /\ DeactivateLed(r, p, TRUE) \in SteadyAt(d, s)
           /\ \A p \in Priorities \ {d}, k \in LockIds :
                 /\ LockAndActivate(r, p, k, TRUE) \in SteadyAt(d, s)
                 /\ UnlockAndDeactivate(r, p, k, TRUE) \in SteadyAt(d, s)
           /\ \A req \in RequestType :
                 req.priority \notin {CRITICAL, d} => SetLed(r, req, TRUE) \in SteadyAt(d, s)
           /\ \A p \in Priorities : \A new : TimeoutStep(r, new, p) => new \in SteadyAt(d, s)
<1>1. r \in LedType /\ r \in IdleAt(d) /\ d \in Priorities /\ TRUE \in BOOLEAN
  BY BetweenOrder DEF SteadyAt, IdleAt
<1>2. ASSUME NEW q \in LedType, q \in SteadyAt(d, s), NEW p \in Priorities \ {d}
      PROVE  /\ ActivateLed(q, p, TRUE) \in SteadyAt(d, s)
             /\ DeactivateLed(q, p, TRUE) \in SteadyAt(d, s)
  <2> DEFINE a == ActivateLed(q, p, TRUE)
             u == DeactivateLed(q, p, TRUE)
  <2>1. q \in IdleAt(d) /\ q.ctx[d].state = s /\ (Highest(q) = d => q.phys = s)
    BY <1>2 DEF SteadyAt
  <2>2. a \in IdleAt(d) /\ u \in IdleAt(d)
    BY <1>1, <2>1, ActivateIdle
  <2>3. a.ctx[d] = q.ctx[d] /\ (Highest(a) = d => Highest(q) = d /\ a.phys = q.phys)
    <3>1. \A ok \in BOOLEAN :
             LET new == ActivateLed(q, p, ok)
             IN  /\ new.ctx[d] = q.ctx[d]
                 /\ Highest(new) = d => Highest(q) = d /\ new.phys = q.phys
      BY ActivatePast
    <3>2. QED
      BY <3>1
  <2>4. /\ u.ctx[d].state = q.ctx[d].state
        /\ Highest(u) = d => u.phys = q.ctx[d].state \/ (Highest(q) = d /\ u.phys = q.phys)
    BY <2>1, DeactivatePast
  <2> HIDE DEF a, u
  <2>5. a \in SteadyAt(d, s) /\ u \in SteadyAt(d, s)
    BY <2>1, <2>2, <2>3, <2>4 DEF SteadyAt
  <2>6. QED
    BY <2>5 DEF a, u
<1>3. ASSUME NEW p \in Priorities \ {d}, NEW k \in LockIds
      PROVE  /\ LockAndActivate(r, p, k, TRUE) \in SteadyAt(d, s)
             /\ UnlockAndDeactivate(r, p, k, TRUE) \in SteadyAt(d, s)
  <2> DEFINE a == LockAndActivate(r, p, k, TRUE)
             u == UnlockAndDeactivate(r, p, k, TRUE)
             locked == [r EXCEPT !.lock = k]
             unlocked == [r EXCEPT !.lock = NoLock]
  <2>1. /\ a \in {r, ActivateLed(r, p, TRUE), ActivateLed(locked, p, TRUE)}
        /\ u \in {r, DeactivateLed(r, p, TRUE), DeactivateLed(unlocked, p, TRUE)}
    BY <1>1, LockAndActivateTwice, UnlockAndDeactivateTwice
  <2>2. /\ locked \in LedType /\ locked.ctx = r.ctx /\ locked.phys = r.phys
        /\ locked.active = r.active
        /\ unlocked \in LedType /\ unlocked.ctx = r.ctx /\ unlocked.phys = r.phys
        /\ unlocked.active = r.active
    BY <1>1, LockFields
  <2> HIDE DEF a, u, locked, unlocked
  <2>3. Highest(locked) = Highest(r) /\ Highest(unlocked) = Highest(r)
    BY <2>2, HighestOfSameActive
  <2>4. locked \in SteadyAt(d, s) /\ unlocked \in SteadyAt(d, s)
    BY <2>2, <2>3 DEF SteadyAt, IdleAt
  <2>5. a \in SteadyAt(d, s) /\ u \in SteadyAt(d, s)
    BY <1>1, <1>2, <2>1, <2>2, <2>4
  <2>6. QED
    BY <2>5 DEF a, u
<1>4. ASSUME NEW req \in RequestType, req.priority \notin {CRITICAL, d}
      PROVE  SetLed(r, req, TRUE) \in SteadyAt(d, s)
  <2> DEFINE new == SetLed(r, req, TRUE)
  <2>1. new \in IdleAt(d)
    BY <1>1, <1>4, SetIdle
  <2>2. /\ new.ctx[d] = r.ctx[d] /\ Highest(new) = Highest(r)
        /\ Highest(r) = d => new.phys = r.phys
    BY <1>1, <1>4, SetPast
  <2> HIDE DEF new
  <2>3. new \in SteadyAt(d, s)
    BY <2>1, <2>2 DEF SteadyAt
  <2>4. QED
    BY <2>3 DEF new
<1>5. ASSUME NEW p \in Priorities, NEW new, TimeoutStep(r, new, p) PROVE new \in SteadyAt(d, s)
  <2>1. new \in IdleAt(d)
    BY <1>1, <1>5, FlashIdle
  <2>2. d < p /\ p # d
    <3>1. ~ r.ctx[d].timer /\ ~ r.ctx[LOCKED].timer /\ ~ r.ctx[CRITICAL].timer
      BY <1>1, CalmType DEF IdleAt, Uncritical
    <3>2. r.ctx[p].timer
      BY <1>5 DEF TimeoutStep
    <3>3. p \notin {CRITICAL, LOCKED, d}
      BY <3>1, <3>2
    <3>4. QED
      BY <3>3, BetweenOrder
  <2>3. PICK opened \in BOOLEAN, ok \in BOOLEAN : new = FlashLed(r, p, opened, ok)
    BY <1>5, OutcomesType DEF TimeoutStep
  <2>4. /\ new.ctx[d] = r.ctx[d] /\ new.active = r.active
        /\ Highest(r) < p => new.phys = r.phys
    <3>1. FlashLed(r, p, opened, ok).active = r.active
      BY <1>1, FlashLedType
    <3>2. /\ FlashLed(r, p, opened, ok).ctx[d] = r.ctx[d]
          /\ Highest(r) < p => FlashLed(r, p, opened, ok).phys = r.phys
      BY <1>1, <2>2, FlashElsewhere
    <3>3. QED
      BY <2>3, <3>1, <3>2
  <2>5. Highest(new) = Highest(r)
    BY <2>4, HighestOfSameActive
  <2>6. QED
    BY <2>1, <2>2, <2>4, <2>5 DEF SteadyAt
<1>6. QED
  BY <1>1, <1>2, <1>3, <1>4, <1>5

(* What is shown stays so under everything but requests for the priority.    *)
LEMMA ShownKept ==
    ASSUME NEW d \in Between, NEW s \in LedStates, NEW r \in Calm, r \in ShowsAt(d, s)
    PROVE  /\ \A p \in Priorities \ {d} :
                 /\ ActivateLed(r, p, TRUE) \in ShowsAt(d, s)
                 /\ DeactivateLed(r, p, TRUE) \in ShowsAt(d, s)
           /\ \A p \in Priorities \ {d}, k \in LockIds :
                 /\ LockAndActivate(r, p, k, TRUE) \in ShowsAt(d, s)
                 /\ UnlockAndDeactivate(r, p, k, TRUE) \in ShowsAt(d, s)
           /\ \A req \in RequestType :
                 req.priority \notin {CRITICAL, d} => SetLed(r, req, TRUE) \in ShowsAt(d, s)
           /\ \A p \in Priorities : \A new :
                 ~ WritesMayFail /\ TimeoutStep(r, new, p) => new \in ShowsAt(d, s)
<1>1. CASE s \in Supported
  <2>1. s \in Accepted /\ ShowsAt(d, s) = SteadyAt(d, s)
    BY <1>1, StatesAssumption DEF ShowsAt
  <2>2. QED
    BY <2>1, SteadyKept
<1>2. CASE s \notin Supported
  <2>1. ShowsAt(d, s) = DrivenAt(d) /\ d \in Priorities
    BY <1>2, BetweenOrder DEF ShowsAt
  <2>2. /\ \A p \in Priorities \ {d} :
              ActivateLed(r, p, TRUE) \in DrivenAt(d) /\ DeactivateLed(r, p, TRUE) \in DrivenAt(d)
        /\ \A p \in Priorities \ {d}, k \in LockIds :
              /\ LockAndActivate(r, p, k, TRUE) \in DrivenAt(d)
              /\ UnlockAndDeactivate(r, p, k, TRUE) \in DrivenAt(d)
        /\ \A req \in RequestType :
              req.priority # d => SetLed(r, req, TRUE) \in DrivenAt(d)
        /\ \A p \in Priorities : \A new :
              ~ WritesMayFail /\ TimeoutStep(r, new, p) => new \in DrivenAt(d)
    BY <2>1, DrivenKept
  <2>3. QED
    BY <2>1, <2>2
<1>3. QED
  BY <1>1, <1>2

(* And a request for the priority, without a type of flash, shows its state. *)
LEMMA SetShows ==
    ASSUME NEW d \in Between, NEW req \in RequestType, req.priority = d, req.flash = "none",
           NEW r \in Calm
    PROVE  SetLed(r, req, TRUE) \in ShowsAt(d, req.state)
<1>1. /\ d \in Priorities /\ r \in LedType /\ MayUpdate(r, req)
      /\ req.state \in LedStates \ {UNKNOWN}
  BY BetweenOrder, CalmType DEF MayUpdate, RequestType
<1>2. CASE req.state \in Supported
  <2> DEFINE new == SetLed(r, req, TRUE)
  <2>1. new \in IdleAt(d) /\ new.ctx[d].state = req.state
    BY <1>1, <1>2, SteadyStopsFlash DEF IsSteadyRequest
  <2>2. new \in LedType /\ new.active = r.active
    BY <1>1, SetLedType
  <2>3. Highest(new) = Highest(r) /\ (d <= Highest(r) => new.phys = req.state)
    BY <1>1, <1>2, <2>2, SteadyAssignment, HighestOfSameActive
  <2> HIDE DEF new
  <2>4. new \in SteadyAt(d, req.state)
    BY <2>1, <2>3, BetweenOrder DEF SteadyAt
  <2>5. QED
    BY <1>2, <2>4 DEF ShowsAt, new
<1>3. CASE req.state \notin Supported
  <2> DEFINE t == FlashOf(req.state)
             k == Flash(r, req)
  <2>1. t \in {"slow", "fast"} /\ OnTime[t] > 0 /\ {OFF, ON} \subseteq Accepted
    BY <1>1, <1>3, SlowAndFast
  <2>2. k \in Contexts /\ SetLed(r, req, TRUE) =
           IF Unknown(req) THEN r ELSE SetState(WithContext(r, d, k), d, StartState(r, req), TRUE)
    BY <1>1, SetLedEquation
  <2>3. ~ Unknown(req)
    BY <2>1 DEF Unknown
  <2>4. /\ k.current > 0 /\ k.forever /\ k.times \in {"slow", "fast"} /\ k.final = ON
    <3> DEFINE m == Mapped(req)
    <3>1. m.flash = t /\ m.state = ON /\ m.forever /\ m.time = req.time
      BY <1>3 DEF Mapped, RequestType
    <3>2. r.ctx[d] \in Contexts /\ k = InitialiseFlashing(r.ctx[d], m)
      BY <1>1 DEF LedType, Flash
    <3> HIDE DEF m, t, k
    <3>3. QED
      BY <2>1, <3>1, <3>2 DEF InitialiseFlashing, Contexts
  <2>5. StartState(r, req) = OFF
    BY <2>4 DEF StartState, InitialState, Opposite, OFF, ON
  <2> HIDE DEF k
  <2>6. SetLed(r, req, TRUE) \in DrivenAt(d)
    BY <1>1, <2>1, <2>2, <2>3, <2>4, <2>5, PreparedIsDriven
  <2>7. QED
    BY <1>3, <2>6 DEF ShowsAt
<1>4. QED
  BY <1>2, <1>3
==============================================================================
