------------------------------ MODULE LedControl ------------------------------
(***************************************************************************)
(* The LED controller of the daemon: led_control.c with led_lock.c and     *)
(* flash_types.c.                                                          *)
(*                                                                         *)
(* Every LED has one recorded state, and one flash with a timer of its     *)
(* own, for each of four priorities; a set of active priorities; an        *)
(* optional lock; and the physical LED behind the platform's plugin.  The  *)
(* daemon is one uloop thread, so a request handler or a timer callback    *)
(* runs to completion: each is one action here.  A request names a LED, an *)
(* alias or all the LEDs, and does the same to every LED that it reaches.  *)
(*                                                                         *)
(* Timers are one-shot and carry no clock: a pending timer may fire at any *)
(* time, which allows every order that real delays allow, and more.        *)
(***************************************************************************)
EXTENDS PriorityOrder, FiniteSets

CONSTANTS
    LEDs,               \* The LEDs that the plugin reports
    Aliases,            \* Names of aliases; an alias may share a LED's name
    AliasOf,            \* The LEDs behind each alias
    All,                \* The name that stands for every LED
    LockIds,            \* Lock IDs chosen by clients
    NoLock,             \* A LED's lock when it isn't locked
    Supported,          \* The plugin's iterate_supported_states
    Accepted,           \* The states that its set_led_state can write
    ReportedStates,     \* What its get_led_state may answer at start-up
    RequestPriorities,  \* The priorities, states and flashes (pairs of a
    RequestStates,      \*   type and a time) that clients ask for
    RequestFlashes,
    WritesMayFail,      \* Whether open and set_led_state may fail
    OtherProcess        \* Whether another process writes the LEDs as well

VARIABLE leds           \* struct led_ctx_st of every LED, and the LED itself

vars == <<leds>>

(* enum led_priority_t; a lower number is more urgent. *)
CRITICAL == 0
LOCKED == 1
ALTERNATE == 2
NORMAL == 3
Priorities == {CRITICAL, LOCKED, ALTERNATE, NORMAL}

(* enum led_state_t *)
UNKNOWN == "unknown"
OFF == "off"
ON == "on"
SLOW_FLASH == "slow_flash"
FAST_FLASH == "fast_flash"
LedStates == {UNKNOWN, OFF, ON, SLOW_FLASH, FAST_FLASH}

(* enum flash_type_t with the times, in ms, of the table in flash_types.c. *)
FlashTypes == {"none", "one_shot", "slow", "fast"}
OnTime == [t \in FlashTypes |->
    CASE t = "none" -> 0 [] t = "one_shot" -> 50 [] t = "slow" -> 500 [] t = "fast" -> 250]
OffTime == [t \in FlashTypes |->
    CASE t \in {"none", "one_shot"} -> 0 [] t = "slow" -> 500 [] t = "fast" -> 250]

(* led_flash_type_from_state *)
FlashOf(s) == CASE s = SLOW_FLASH -> "slow"
                [] s = FAST_FLASH -> "fast"
                [] OTHER -> "none"

ASSUME NamesAssumption == All \notin LEDs \cup Aliases
ASSUME AliasAssumption == AliasOf \in [Aliases -> SUBSET LEDs]
ASSUME LockAssumption == NoLock \notin LockIds
ASSUME StatesAssumption ==
    /\ Supported \subseteq Accepted
    /\ Accepted \subseteq LedStates
    /\ {OFF, ON} \subseteq Supported
    /\ ReportedStates \subseteq LedStates
ASSUME RequestsAssumption ==
    /\ RequestPriorities \subseteq Priorities
    /\ RequestStates \subseteq LedStates \ {UNKNOWN}
    /\ RequestFlashes \subseteq FlashTypes \X Nat
ASSUME EnvironmentAssumption == {WritesMayFail, OtherProcess} \subseteq BOOLEAN

(* A request to set a state: the priority, state, flash type, flash time    *)
(* and lock ID of struct set_state_req_st; forever is never set by clients. *)
SetRequests ==
    {[priority |-> p, state |-> s, flash |-> f[1], time |-> f[2], forever |-> FALSE,
      lock |-> k] : p \in RequestPriorities, s \in RequestStates,
                    f \in RequestFlashes, k \in LockIds \cup {NoLock}}

------------------------------------------------------------------------------
(* One LED: r is the record of the LED, ok tells whether the plugin manages  *)
(* to write it during this handler.                                          *)

Highest(r) == MostUrgent(r.active)

(* The LED with another context for one of its priorities. *)
WithContext(r, p, c) == [r EXCEPT !.ctx = [@ EXCEPT ![p] = c]]

(* Mutant of Recorded: the timer is set, but never cancelled. *)
Recorded_TimerKept(c, s) == [c EXCEPT !.state = s, !.timer = @ \/ c.current > 0]

(* A context with a new state; update_flash_timer sets or cancels the timer. *)
Recorded(c, s) == [c EXCEPT !.state = s, !.timer = (c.current > 0)]

(* Mutant of SetState: an LED is turned off at once, whatever the priority. *)
SetState_OffAlways(r, p, s, ok) ==
    LET recorded == WithContext(r, p, Recorded(r.ctx[p], s))
    IN  IF LessUrgent(p, Highest(r)) /\ s # OFF THEN recorded
        ELSE IF ok /\ s \in Accepted THEN [recorded EXCEPT !.phys = s]
        ELSE r

(* Mutant of SetState: every state is written, whatever its priority. *)
SetState_Always(r, p, s, ok) ==
    IF ok /\ s \in Accepted
    THEN [WithContext(r, p, Recorded(r.ctx[p], s)) EXCEPT !.phys = s]
    ELSE r

(* Mutant of SetState: a state that is already recorded isn't written again. *)
SetState_Cached(r, p, s, ok) ==
    LET recorded == WithContext(r, p, Recorded(r.ctx[p], s))
    IN  IF LessUrgent(p, Highest(r)) \/ r.ctx[p].state = s THEN recorded
        ELSE IF ok /\ s \in Accepted THEN [recorded EXCEPT !.phys = s]
        ELSE r

(***************************************************************************)
(* set_state, with update_flash_timer: a state for a priority less urgent  *)
(* than the highest active one is only recorded; any other one is written  *)
(* to the LED first, and recorded only if the write succeeds.              *)
(***************************************************************************)
SetState(r, p, s, ok) ==
    LET recordOnly == LessUrgent(p, Highest(r))
        recorded == WithContext(r, p, Recorded(r.ctx[p], s))
    IN  IF recordOnly THEN recorded
        ELSE IF ok /\ s \in Accepted THEN [recorded EXCEPT !.phys = s]
        ELSE r

(* Mutant of StopFlashing: the time isn't reset. *)
StopFlashing_TimeLeft(c) == [c EXCEPT !.final = UNKNOWN, !.timer = FALSE]

(* stop_flashing, of the context of one priority *)
StopFlashing(c) == [c EXCEPT !.final = UNKNOWN, !.current = 0, !.timer = FALSE]

(* led_ctx_activate_priority *)
ActivateLed(r, p, ok) ==
    LET turnOff == p \in {LOCKED, ALTERNATE} \/ r.ctx[p].state = UNKNOWN
        active == [r EXCEPT !.active = @ \cup {p}]
        prepared == IF turnOff
                    THEN WithContext(active, p, StopFlashing([r.ctx[p] EXCEPT !.state = OFF]))
                    ELSE active
    IN  IF Highest(active) = p
        THEN SetState(prepared, p, prepared.ctx[p].state, ok)
        ELSE prepared

(* Mutant of DeactivateLed: the LED isn't given the state of the new highest. *)
DeactivateLed_NoRestore(r, p, ok) == [r EXCEPT !.active = @ \ ({p} \ {NORMAL})]

(* Mutant of DeactivateLed: NORMAL is deactivated like the others. *)
DeactivateLed_NormalToo(r, p, ok) ==
    LET inactive == [r EXCEPT !.active = @ \ {p}]
        h == Highest(inactive)
    IN  IF LessUrgent(h, p)
        THEN SetState(inactive, h, inactive.ctx[h].state, ok)
        ELSE inactive

(* led_ctx_deactivate_priority; NORMAL is never deactivated. *)
DeactivateLed(r, p, ok) ==
    LET inactive == [r EXCEPT !.active = @ \ ({p} \ {NORMAL})]
        h == Highest(inactive)
    IN  IF LessUrgent(h, p)
        THEN SetState(inactive, h, inactive.ctx[h].state, ok)
        ELSE inactive

(* Mutant of LockAndActivate: a locked LED is locked again with the new ID. *)
LockAndActivate_Steal(r, p, k, ok) ==
    IF p # LOCKED THEN ActivateLed(r, p, ok)
    ELSE ActivateLed([r EXCEPT !.lock = k], p, ok)

(* led_ctx_lock_led and then the activation that depends on it *)
LockAndActivate(r, p, k, ok) ==
    IF p # LOCKED THEN ActivateLed(r, p, ok)
    ELSE IF r.lock # NoLock THEN r
    ELSE ActivateLed([r EXCEPT !.lock = k], p, ok)

(* Mutant of UnlockAndDeactivate: the priority is deactivated in any case. *)
UnlockAndDeactivate_Unchecked(r, p, k, ok) ==
    IF p # LOCKED THEN DeactivateLed(r, p, ok)
    ELSE IF r.lock # k THEN DeactivateLed(r, p, ok)
    ELSE DeactivateLed([r EXCEPT !.lock = NoLock], p, ok)

(* Mutant of UnlockAndDeactivate: the lock ID is left behind. *)
UnlockAndDeactivate_IdKept(r, p, k, ok) ==
    IF p # LOCKED THEN DeactivateLed(r, p, ok)
    ELSE IF r.lock = NoLock \/ r.lock # k THEN r
    ELSE DeactivateLed(r, p, ok)

(* led_ctx_unlock_led and then the deactivation that depends on it *)
UnlockAndDeactivate(r, p, k, ok) ==
    IF p # LOCKED THEN DeactivateLed(r, p, ok)
    ELSE IF r.lock = NoLock \/ r.lock # k THEN r
    ELSE DeactivateLed([r EXCEPT !.lock = NoLock], p, ok)

Opposite(s) == IF s = OFF THEN ON ELSE OFF

(* initialise_flashing: the context of the priority, before it is written. *)
InitialiseFlashing(c, req) ==
    [c EXCEPT !.final = req.state,
              !.times = req.flash,
              !.current = CASE req.flash = "one_shot" ->
                                 IF req.time > 0 THEN req.time ELSE OnTime["one_shot"]
                            [] req.flash # "one_shot" /\ (req.forever \/ req.time > 0) ->
                                 OnTime[req.flash]
                            [] OTHER -> 0,
              !.remaining = req.time,
              !.forever = req.forever]

(* The state that initialise_flashing returns. *)
InitialState(c, req) == IF c.current > 0 THEN Opposite(c.final) ELSE req.state

(* led_ctx_get_priority_to_update *)
MayUpdate(r, req) ==
    req.priority = LOCKED => r.lock # NoLock /\ req.lock = r.lock

(***************************************************************************)
(* led_ctx_set_state: a flashing state that the plugin lacks is turned     *)
(* into a flash that the daemon drives for ever; the flash is initialised  *)
(* before the LED is written, whether or not the write then succeeds.      *)
(***************************************************************************)
SetLed(r, req, ok) ==
    LET unsupported == req.state \notin Supported /\ req.flash = "none"
        driven == [req EXCEPT !.flash = FlashOf(req.state), !.state = ON, !.forever = TRUE]
        request == IF unsupported THEN driven ELSE req
        p == req.priority
        prepared == WithContext(r, p, InitialiseFlashing(r.ctx[p], request))
    IN  IF ~ MayUpdate(r, req) \/ (unsupported /\ driven.flash = "none") THEN r
        ELSE SetState(prepared, p, InitialState(prepared.ctx[p], request), ok)

(* Mutant of TimeRemaining: the time is only cleared when it matches exactly. *)
TimeRemaining_ExactOnly(c) ==
    IF c.forever THEN c.remaining
    ELSE IF c.current = c.remaining THEN 0
    ELSE IF c.current > c.remaining THEN c.remaining
    ELSE c.remaining - c.current

(* update_flash_time_remaining *)
TimeRemaining(c) ==
    IF c.forever THEN c.remaining
    ELSE IF c.current >= c.remaining THEN 0
    ELSE c.remaining - c.current

(***************************************************************************)
(* led_flash_timeout with update_flashing and set_next_state.  The timer   *)
(* has fired, so it is no longer pending; it is set again only by a        *)
(* successful set_state.  Nothing is written if the LED can't be opened.   *)
(***************************************************************************)
FlashLed(r, p, opened, ok) ==
    LET c == [r.ctx[p] EXCEPT !.timer = FALSE, !.remaining = TimeRemaining(r.ctx[p])]
        ended == ~ c.forever /\ c.remaining = 0
        next == IF ended THEN c.final ELSE IF c.state = ON THEN OFF ELSE ON
        updated == IF ended THEN StopFlashing(c)
                   ELSE [c EXCEPT !.current = IF next = ON THEN OnTime[c.times]
                                                           ELSE OffTime[c.times]]
        prepared == WithContext(r, p, updated)
    IN  IF opened THEN SetState(prepared, p, next, ok) ELSE prepared

------------------------------------------------------------------------------
(* Whole requests.  An alias is handled first and then the LED that has the  *)
(* same name, so one request may reach a LED twice.                          *)

Names == LEDs \cup Aliases \cup {All}

Visits(name, l) ==
    IF name = All THEN 1
    ELSE (IF name \in Aliases /\ l \in AliasOf[name] THEN 1 ELSE 0)
         + (IF name = l THEN 1 ELSE 0)

Visit(Op(_), n, r) == CASE n = 0 -> r
                        [] n = 1 -> Op(r)
                        [] n = 2 -> Op(Op(r))

(* The LEDs that can't be written while one handler runs. *)
Broken == IF WritesMayFail THEN SUBSET LEDs ELSE {{}}

(* led_ops_set_state *)
SetLedState(name, req, broken) ==
    leds' = [l \in LEDs |->
               LET Set(r) == SetLed(r, req, l \notin broken)
               IN  Visit(Set, Visits(name, l), leds[l])]

(* led_ops_activate_priority; locking all LEDs needs all of them unlocked. *)
ActivatePriority(name, p, k, broken) ==
    /\ p = LOCKED /\ name = All => \A l \in LEDs : LOCKED \notin leds[l].active
    /\ leds' = [l \in LEDs |->
                  LET Activate(r) == LockAndActivate(r, p, k, l \notin broken)
                  IN  Visit(Activate, Visits(name, l), leds[l])]

(* led_ops_deactivate_priority *)
DeactivatePriority(name, p, k, broken) ==
    leds' = [l \in LEDs |->
               LET Deactivate(r) == UnlockAndDeactivate(r, p, k, l \notin broken)
               IN  Visit(Deactivate, Visits(name, l), leds[l])]

(* led_flash_timeout, run by uloop for a timer that is pending *)
FlashTimeout(l, p, opened, ok) ==
    /\ leds[l].ctx[p].timer
    /\ leds' = [leds EXCEPT ![l] = FlashLed(@, p, opened, ok)]

(* Some other process writes the LED behind the daemon's back. *)
OtherProcessWrites(l, s) ==
    /\ OtherProcess
    /\ leds' = [leds EXCEPT ![l].phys = s]

------------------------------------------------------------------------------
(* leds_init and get_all_led_states: everything recorded as off, but NORMAL  *)
(* with what the plugin reports for the LED.                                 *)
NewContext(s) ==
    [state |-> s, times |-> "none", forever |-> FALSE, remaining |-> 0,
     final |-> UNKNOWN, current |-> 0, timer |-> FALSE]

NewLed(s, opened) ==
    [lock |-> NoLock, active |-> {NORMAL}, phys |-> s,
     ctx |-> [p \in Priorities |->
                NewContext(IF p = NORMAL /\ opened THEN s ELSE OFF)]]

Outcomes == IF WritesMayFail THEN BOOLEAN ELSE {TRUE}

Init ==
    \E opened \in Outcomes : leds \in [LEDs -> {NewLed(s, opened) : s \in ReportedStates}]

Request ==
    \E name \in Names, broken \in Broken :
        \/ \E req \in SetRequests : SetLedState(name, req, broken)
        \/ \E p \in RequestPriorities, k \in LockIds :
              \/ ActivatePriority(name, p, k, broken)
              \/ DeactivatePriority(name, p, k, broken)

Timeout(l, p) == \E opened, ok \in Outcomes : FlashTimeout(l, p, opened, ok)

Next ==
    \/ Request
    \/ \E l \in LEDs, p \in Priorities : Timeout(l, p)
    \/ \E l \in LEDs, s \in {OFF, ON} : OtherProcessWrites(l, s)

Spec == Init /\ [][Next]_vars

(* Clients that set the state of a priority only while it is active. *)
DisciplinedRequest ==
    \E name \in Names, broken \in Broken :
        \/ \E req \in SetRequests :
              /\ \A l \in LEDs : Visits(name, l) > 0 => req.priority \in leds[l].active
              /\ SetLedState(name, req, broken)
        \/ \E p \in RequestPriorities, k \in LockIds :
              \/ ActivatePriority(name, p, k, broken)
              \/ DeactivatePriority(name, p, k, broken)

DisciplinedNext ==
    \/ DisciplinedRequest
    \/ \E l \in LEDs, p \in Priorities : Timeout(l, p)

DisciplinedSpec == Init /\ [][DisciplinedNext]_vars

(* uloop runs the callback of every timer that has expired. *)
FairSpec == Spec /\ \A l \in LEDs, p \in Priorities : WF_vars(Timeout(l, p))

------------------------------------------------------------------------------
Contexts ==
    [state : LedStates, times : FlashTypes, forever : BOOLEAN, remaining : Nat,
     final : LedStates, current : Nat, timer : BOOLEAN]

(* Every variable has its type, and NORMAL is always active. *)
TypeOK ==
    leds \in [LEDs -> [lock : LockIds \cup {NoLock},
                      active : {S \in SUBSET Priorities : NORMAL \in S},
                      phys : LedStates,
                      ctx : [Priorities -> Contexts]]]

(***************************************************************************)
(* The two records of a lock agree: a LED has a lock ID exactly while its  *)
(* LOCKED priority is active.  Activation sets them one after the other,   *)
(* from the LED's name, from an alias or for all LEDs, possibly twice in   *)
(* one request (led_control.c:571-681, 1236-1474).                         *)
(***************************************************************************)
LockMatchesPriority ==
    \A l \in LEDs : leds[l].lock # NoLock <=> LOCKED \in leds[l].active

Locks == INSTANCE LedLock WITH owner <- [l \in LEDs |-> leds[l].lock]

(***************************************************************************)
(* No sequence of requests takes a lock from its holder, or frees it with  *)
(* another ID, whichever names they use (led_lock.c, led_control.c).       *)
(***************************************************************************)
ImplementsLocking == Locks!Spec

(***************************************************************************)
(* Whatever clients do, and whichever flashes run, the LED shows the state *)
(* recorded for its highest active priority, or for a more urgent one that *)
(* clients set without activating it; never that of a less urgent one.  A  *)
(* priority that no client names, which is recorded as off, accounts for   *)
(* nothing.  It holds when writes succeed and no other process interferes  *)
(* (led_control.c:58-159).                                                 *)
(***************************************************************************)
ShowsUrgentState ==
    \A l \in LEDs : \E p \in Priorities :
        /\ p = Highest(leds[l]) \/ (p < Highest(leds[l]) /\ p \in RequestPriorities)
        /\ leds[l].ctx[p].state = leds[l].phys

(***************************************************************************)
(* When clients set only priorities that are active, and nothing flashes,  *)
(* the LED shows the state of its most urgent active priority after every  *)
(* request, through activations, deactivations and locks of any names, in  *)
(* any order (led_control.c:58-159).                                       *)
(***************************************************************************)
ShowsHighestState ==
    \A l \in LEDs : leds[l].phys = leds[l].ctx[Highest(leds[l])].state

(* The step handles a request to set the state of p. *)
SetRequested(p) ==
    \E name \in Names, req \in SetRequests, broken \in Broken :
        req.priority = p /\ SetLedState(name, req, broken)

(***************************************************************************)
(* Even when writes fail, what the daemon shows on the LED is the state it *)
(* records for the highest active priority, or for a more urgent one which *)
(* the request has just set or whose flash was running; never the state of *)
(* a less urgent one, nor a state that it does not record, nor the initial *)
(* state of a priority nobody has set (led_control.c:58-87).               *)
(***************************************************************************)
OnlyUrgentStatesWritten ==
    [][\A l \in LEDs :
          leds'[l].phys # leds[l].phys /\ ~ OtherProcessWrites(l, leds'[l].phys) =>
             \E p \in Priorities :
                 /\ \/ p = Highest(leds'[l])
                    \/ /\ p < Highest(leds'[l])
                       /\ SetRequested(p) \/ leds[l].ctx[p].timer
                 /\ leds'[l].ctx[p].state = leds'[l].phys]_vars

(***************************************************************************)
(* Setting a steady state of an urgent enough priority puts the LED in     *)
(* that state whatever another process did to it, also when the state is   *)
(* the one already recorded: led_control.c:66-71 says that each state      *)
(* assignment does, since "some other process might have twiddled the LED".*)
(***************************************************************************)
AssignmentReachesLed ==
    [][\A name \in Names, req \in SetRequests, l \in LEDs :
          /\ Visits(name, l) > 0
          /\ MayUpdate(leds[l], req)
          /\ req.priority <= Highest(leds[l])
          /\ req.flash = "none" /\ req.state \in Supported
          /\ SetLedState(name, req, {})
          => leds'[l].phys = req.state]_vars

(***************************************************************************)
(* A timer is pending exactly while its context has a flash to continue:   *)
(* no flash is orphaned and no timer outlives its flash, through           *)
(* re-activations, replaced flashes and restores after a deactivation, as  *)
(* long as writes succeed (led_control.c:43-131, 250-324).                 *)
(***************************************************************************)
TimerDrivesFlash ==
    \A l \in LEDs, p \in Priorities :
        leds[l].ctx[p].timer <=> leds[l].ctx[p].current > 0

(***************************************************************************)
(* A flash that ends has a state to end in: a pending timer never finds    *)
(* the UNKNOWN final state that stop_flashing leaves behind, even when     *)
(* writes fail between the start and the end (led_control.c:89-96, 258).   *)
(***************************************************************************)
PendingFlashHasFinalState ==
    \A l \in LEDs, p \in Priorities :
        leds[l].ctx[p].timer => leds[l].ctx[p].final # UNKNOWN

(***************************************************************************)
(* Once clients leave the LEDs alone, every flash that has a time limit    *)
(* comes to its end.  A flash for ever is not limited (led_control.c:213). *)
(***************************************************************************)
TimedFlash(l, p) == leds[l].ctx[p].timer /\ ~ leds[l].ctx[p].forever

TimedFlashEnds ==
    <>[][~ Request]_vars =>
        \A l \in LEDs, p \in Priorities : TimedFlash(l, p) ~> ~ leds[l].ctx[p].timer

(***************************************************************************)
(* A flash of a priority that was deactivated has no effect on the LED:    *)
(* deactivating a priority sets the LED to the state of the new highest    *)
(* one (led_control.c:145-148; ledcmd_cli.c:370, "altoff - set LED to      *)
(* normal mode").  The code violates it: deactivation doesn't stop the     *)
(* flash, and set_state only keeps less urgent priorities off the LED.     *)
(***************************************************************************)
DeactivatedFlashIsInvisible ==
    [][\A l \in LEDs, p \in Priorities :
          p \notin leds[l].active /\ Timeout(l, p) => leds'[l].phys = leds[l].phys]_vars
==============================================================================
