----------------------------- MODULE MCLedDaemon -----------------------------
(* Five patterns on three LEDs, and a client that sets and locks LEDs. *)
EXTENDS LedDaemon, TLC

CONSTANTS none, k1, noLock

MCAliases == {"front"}
MCAliasOf == "front" :> {"one", "two"}
MCLeds == {"one", "two", "three"}
MCLedsNamed ==
    "front" :> {"one", "two"} @@ "one" :> {"one"} @@ "two" :> {"two"} @@ "three" :> {"three"}

(* The priorities and states of LedControl. *)
Locked == 1
Alternate == 2
Normal == 3
NoState == "unknown"
Off == "off"
On == "on"
FastFlash == "fast_flash"
OnOff == {On, Off}
JustOff == {Off}
Steady == {<<"none", 0>>}
MCRequestPriorities == {Locked, Normal}
MCRequestStates == {On}

Led(name, priority, state) == [name |-> name, priority |-> priority, state |-> state]
Timed(steps) == [timed |-> TRUE, leds |-> steps]
Untimed(steps) == [timed |-> FALSE, leds |-> steps]
Nothing == Untimed(<<>>)

MCPatterns == {"twice", "endless", "borrow", "short", "blink"}

(* twice: a timed start step that activates a priority, two steps, an end.   *)
(* endless: repeats, and uses the alias that holds the LED of twice; the     *)
(* time of its end step means nothing.                                       *)
(* borrow: shares LEDs with endless only by its start and end steps.         *)
(* short: its last step has no time, so it ends in its first play.           *)
(* blink: takes the alias over with a state that the daemon has to flash.    *)
MCPattern ==
    "twice" :> [repeat |-> FALSE, playCount |-> 2,
                start |-> Timed(<<Led("one", Alternate, On)>>),
                steps |-> <<Timed(<<Led("one", Alternate, Off)>>), Timed(<<>>)>>,
                end |-> Untimed(<<Led("one", Alternate, NoState)>>)] @@
    "endless" :> [repeat |-> TRUE, playCount |-> 1,
                  start |-> Nothing,
                  steps |-> <<Timed(<<Led("front", Alternate, On), Led("three", none, On)>>)>>,
                  end |-> Timed(<<Led("front", none, Off)>>)] @@
    "borrow" :> [repeat |-> FALSE, playCount |-> 1,
                 start |-> Untimed(<<Led("two", none, On)>>),
                 steps |-> <<Timed(<<Led("three", Alternate, On)>>)>>,
                 end |-> Untimed(<<Led("three", Normal, Off)>>)] @@
    "short" :> [repeat |-> FALSE, playCount |-> 3,
                start |-> Nothing,
                steps |-> <<Timed(<<Led("two", Normal, On)>>), Untimed(<<Led("one", Locked, On)>>)>>,
                end |-> Nothing] @@
    "blink" :> [repeat |-> FALSE, playCount |-> 1,
                start |-> Untimed(<<Led("front", Alternate, On)>>),
                steps |-> <<Timed(<<Led("two", Alternate, FastFlash)>>)>>,
                end |-> Untimed(<<Led("front", Alternate, Off)>>)]

(* A client that sets, locks and unlocks the LEDs behind the alias. *)
FrontRequest ==
    \E broken \in Ctl!Broken, k \in LockIds :
        \/ Ctl!SetLedState("front", [priority |-> Normal, state |-> On, flash |-> "none",
                                    time |-> 0, forever |-> FALSE, lock |-> NoLock], broken)
        \/ Ctl!ActivatePriority("front", Locked, k, broken)
        \/ Ctl!DeactivatePriority("front", Locked, k, broken)

MCSpec ==
    /\ DaemonInit
    /\ [][\/ PatternRequest
          \/ \E p \in Patterns : PatternTimeout(p)
          \/ running /\ FrontRequest /\ UNCHANGED vars
          \/ \E l \in LEDs, p \in Ctl!Priorities : FlashTimeout(l, p)
          \/ Shutdown]_daemonVars
    /\ \A p \in Patterns : WF_vars(Timeout(p))
==============================================================================
