------------------------------ MODULE LedDaemon ------------------------------
(***************************************************************************)
(* The daemon's pattern player together with its LED controller: what the  *)
(* steps of patterns do to the LEDs (set_led_states_from_step), while      *)
(* clients set and lock the same LEDs and the daemon drives flashes.  The  *)
(* player is one more user of the controller, in the same thread; it has   *)
(* no lock IDs.                                                            *)
(***************************************************************************)
EXTENDS PatternControl

CONSTANTS LEDs, Aliases, AliasOf, All, LockIds, NoLock, Supported, Accepted,
          ReportedStates, RequestPriorities, RequestStates, RequestFlashes,
          WritesMayFail, OtherProcess       \* as in LedControl

VARIABLE leds

daemonVars == <<playing, performed, running, leds>>

Ctl == INSTANCE LedControl

(* A LED of a step has a state, too; UNKNOWN says that it has none to set.   *)
(* The names that patterns use reach the LEDs that the controller finds.     *)
ASSUME StepsAssumption ==
    /\ \A p \in Patterns : \A n \in Start .. End(p) : \A i \in DOMAIN Step(p, n).leds :
          /\ Step(p, n).leds[i].state \in Ctl!LedStates
          /\ Step(p, n).leds[i].priority \in Ctl!Priorities \cup {NoPriority}
    /\ \A name \in DOMAIN LedsNamed :
          LedsNamed[name] = {l \in LEDs : Ctl!Visits(name, l) > 0}
    /\ DefaultPriority = Ctl!NORMAL
    /\ NoPriority \notin Ctl!Priorities

(* The constants of the controller are what it assumes them to be.           *)
ASSUME ControllerAssumption ==
    /\ Ctl!NamesAssumption /\ Ctl!AliasAssumption /\ Ctl!LockAssumption
    /\ Ctl!StatesAssumption /\ Ctl!RequestsAssumption /\ Ctl!EnvironmentAssumption

------------------------------------------------------------------------------
(* led_pattern_set_state_setup: steady, and without a lock ID *)
StepRequest(e) ==
    [priority |-> PriorityOf(e), state |-> e.state, flash |-> "none", time |-> 0,
     forever |-> FALSE, lock |-> NoLock]

(* A step activates the priority that it names; LOCKED needs a lock ID. *)
Activates(e) == e.priority \notin {NoPriority, Ctl!LOCKED}

(* Mutant of PerformLed: the state is set before the priority is activated. *)
PerformLed_SetFirst(r, l, e, starting, stopping, ok) ==
    LET visits == Ctl!Visits(e.name, l)
        Set(q) == Ctl!SetLed(q, StepRequest(e), ok)
        Activate(q) == Ctl!ActivateLed(q, e.priority, ok)
        Deactivate(q) == Ctl!DeactivateLed(q, e.priority, ok)
        set == IF e.state # Ctl!UNKNOWN THEN Ctl!Visit(Set, visits, r) ELSE r
        active == IF starting /\ Activates(e) THEN Ctl!Visit(Activate, visits, set) ELSE set
    IN  IF stopping /\ Activates(e) THEN Ctl!Visit(Deactivate, visits, active) ELSE active

(* Mutant of PerformLed: the end step sets the state, but no more. *)
PerformLed_StaysActive(r, l, e, starting, stopping, ok) ==
    LET visits == Ctl!Visits(e.name, l)
        Activate(q) == Ctl!ActivateLed(q, e.priority, ok)
        Set(q) == Ctl!SetLed(q, StepRequest(e), ok)
        active == IF starting /\ Activates(e) THEN Ctl!Visit(Activate, visits, r) ELSE r
    IN  IF e.state # Ctl!UNKNOWN THEN Ctl!Visit(Set, visits, active) ELSE active

(***************************************************************************)
(* What one LED of a step does to LED l, whose record is r: in the start   *)
(* step its priority is activated first, in the end step it is deactivated *)
(* last, and in between its state is set if it has one.                    *)
(***************************************************************************)
PerformLed(r, l, e, starting, stopping, ok) ==
    LET visits == Ctl!Visits(e.name, l)
        Activate(q) == Ctl!ActivateLed(q, e.priority, ok)
        Set(q) == Ctl!SetLed(q, StepRequest(e), ok)
        Deactivate(q) == Ctl!DeactivateLed(q, e.priority, ok)
        active == IF starting /\ Activates(e) THEN Ctl!Visit(Activate, visits, r) ELSE r
        set == IF e.state # Ctl!UNKNOWN THEN Ctl!Visit(Set, visits, active) ELSE active
    IN  IF stopping /\ Activates(e) THEN Ctl!Visit(Deactivate, visits, set) ELSE set

(* set_led_states_from_step: the LEDs of step n of pattern p, in their order. *)
PerformStep(r, l, p, n, ok) ==
    LET entries == Step(p, n).leds
        after[i \in 0 .. Len(entries)] ==
            IF i = 0 THEN r
            ELSE PerformLed(after[i - 1], l, entries[i], n = Start, n = End(p), ok)
    IN  after[Len(entries)]

(* One LED after the steps of a handler; a step that can't open does nothing. *)
PerformSteps(r, l, steps, unopened, ok) ==
    LET after[i \in 0 .. Len(steps)] ==
            IF i = 0 THEN r
            ELSE IF i \in unopened THEN after[i - 1]
            ELSE PerformStep(after[i - 1], l, steps[i][1], steps[i][2], ok)
    IN  after[Len(steps)]

Perform(steps, unopened, broken) ==
    [l \in LEDs |-> PerformSteps(leds[l], l, steps, unopened, l \notin broken)]

(* A handler of the player, and what the steps that it performs do. *)
PlayerActs ==
    \E broken \in Ctl!Broken,
       unopened \in IF WritesMayFail THEN SUBSET DOMAIN performed' ELSE {{}} :
        leds' = Perform(performed', unopened, broken)

PatternRequest == Request /\ PlayerActs
PatternTimeout(p) == Timeout(p) /\ PlayerActs

(* A request that reaches the controller, and a flash of the daemon *)
ClientRequest == running /\ Ctl!Request /\ UNCHANGED vars

FlashTimeout(l, p) == running /\ Ctl!Timeout(l, p) /\ UNCHANGED vars

(***************************************************************************)
(* ledcmd_deinit: the LEDs' contexts are freed before the patterns are     *)
(* stopped, so that the end steps find no LED to set and every LED keeps   *)
(* what it shows.                                                          *)
(***************************************************************************)
Shutdown == Deinit /\ UNCHANGED leds

DaemonInit == Init /\ Ctl!Init

DaemonNext ==
    \/ PatternRequest
    \/ \E p \in Patterns : PatternTimeout(p)
    \/ ClientRequest
    \/ \E l \in LEDs, p \in Ctl!Priorities : FlashTimeout(l, p)
    \/ Shutdown

DaemonSpec ==
    /\ DaemonInit
    /\ [][DaemonNext]_daemonVars
    /\ \A p \in Patterns : WF_vars(Timeout(p))

------------------------------------------------------------------------------
(* What the start and the end step of a pattern use. *)
StartUses == [p \in Patterns |-> UsedByStep(Step(p, Start))]
EndUses == [p \in Patterns |-> UsedByStep(Step(p, End(p)))]

(* A state that the daemon has to flash, since the plugin can't show it. *)
Flashes(e) == e.state \notin Supported \cup {Ctl!UNKNOWN}

(* The LEDs, each with a priority, of the entries of a step in a set E. *)
UsedBy(s, E(_)) ==
    UNION {UsedByLed(s.leds[i]) : i \in {j \in DOMAIN s.leds : E(s.leds[j])}}

FlashedBy == [p \in Patterns |-> UNION {UsedBy(Step(p, n), Flashes) : n \in Start .. End(p)}]

IsSteady(e) == e.state \in Supported \ {Ctl!UNKNOWN}

(* The priorities that only patterns use. *)
PatternPriorities == Ctl!Priorities \ (RequestPriorities \cup {Ctl!NORMAL, Ctl!LOCKED})

(* Every end step gives back the priorities that the start step has taken,   *)
(* and gives a steady state to every LED that the pattern flashes.           *)
TidyPatterns == \A p \in Patterns :
    /\ StartUses[p] \cap (LEDs \X PatternPriorities) \subseteq EndUses[p]
    /\ FlashedBy[p] \subseteq UsedBy(Step(p, End(p)), IsSteady)
    /\ UsedBy(Step(p, End(p)), Flashes) = {}

(***************************************************************************)
(* A priority that clients leave alone is active on a LED exactly while a  *)
(* pattern plays that activated it: through take-overs, retriggers, plays  *)
(* that end by themselves and requests that lock or set the LED meanwhile, *)
(* no pattern loses its priority and none leaves it behind                 *)
(* (led_pattern_control.c:72-156, 432-458, 568-576).                       *)
(***************************************************************************)
ActivePrioritiesHavePlayers ==
    running /\ TidyPatterns =>
        \A l \in LEDs, d \in PatternPriorities :
            d \in leds[l].active <=> \E p \in Playing : <<l, d>> \in StartUses[p]

(***************************************************************************)
(* What the current step of a playing pattern says of a LED is what the    *)
(* LED shows if nothing more urgent is active, and what it will show once  *)
(* that is gone: no other pattern, client or flash comes between the step  *)
(* and its timeout.  A state that the plugin lacks is flashing             *)
(* (led_pattern_control.c:72-129, led_control.c:58-87, 326-383).           *)
(***************************************************************************)
SetLast(s, i, l) ==
    /\ s.leds[i].state # Ctl!UNKNOWN
    /\ l \in LedsNamed[s.leds[i].name]
    /\ \A j \in DOMAIN s.leds : j > i => <<l, PriorityOf(s.leds[i])>> \notin UsedByLed(s.leds[j])

PlayingPatternShows ==
    running => \A k \in DOMAIN playing :
        LET s == Step(playing[k].pattern, playing[k].next)
        IN  \A i \in DOMAIN s.leds, l \in LEDs :
               LET e == s.leds[i]
                   c == leds[l].ctx[e.priority]
               IN  e.priority \in PatternPriorities /\ SetLast(s, i, l) =>
                      IF Flashes(e) THEN c.timer
                      ELSE /\ c.state = e.state /\ ~ c.timer
                           /\ Ctl!Highest(leds[l]) = e.priority => leds[l].phys = e.state

(***************************************************************************)
(* A flash that a pattern started ends with the pattern: a timer of a      *)
(* priority that clients leave alone is pending only while a pattern plays *)
(* that flashes the LED.  Deactivating a priority doesn't cancel its flash *)
(* (led_control.c:133-159), so this rests on the end step setting a state. *)
(***************************************************************************)
FlashesStopWithPatterns ==
    running /\ TidyPatterns =>
        \A l \in LEDs, d \in PatternPriorities :
            leds[l].ctx[d].timer => \E p \in Playing : <<l, d>> \in FlashedBy[p]

(***************************************************************************)
(* Patterns play on underneath a lock: while a client holds a LED, no      *)
(* pattern that starts, goes on, ends or flashes changes what the LED      *)
(* shows or who holds it, although a step may even name the LOCKED         *)
(* priority.  It is about patterns that don't use CRITICAL                 *)
(* (led_pattern_control.c:72-129, led_control.c:161-211, 571-681).         *)
(***************************************************************************)
PatternsLeaveLockedLedsAlone ==
    [][\A l \in LEDs :
          leds[l].lock # NoLock /\ <<leds'[l].phys, leds'[l].lock>> # <<leds[l].phys, leds[l].lock>>
             => ClientRequest \/ FlashTimeout(l, Ctl!LOCKED)]_daemonVars
==============================================================================
