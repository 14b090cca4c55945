--------------------------- MODULE MCPatternControl ---------------------------
(* Four patterns on three LEDs, and the names that reach them. *)
EXTENDS PatternControl, TLC

CONSTANTS none

MCLedsNamed == "front" :> {1, 2} @@ "one" :> {1} @@ "two" :> {2} @@ "three" :> {3}

Alternate == 2
Normal == 3

Led(name, priority) == [name |-> name, priority |-> priority]
Timed(leds) == [timed |-> TRUE, leds |-> leds]
Untimed(leds) == [timed |-> FALSE, leds |-> leds]
Nothing == Untimed(<<>>)

MCPatterns == {"twice", "endless", "borrow", "short"}

(* twice: a timed start step that activates a priority, two steps, an end.   *)
(* endless: repeats, and uses the alias that holds the LED of twice; the     *)
(* time of its end step means nothing.                                       *)
(* borrow: shares LEDs with endless only by its start and end steps.         *)
(* short: its last step has no time, so it ends in its first play.           *)
MCPattern ==
    "twice" :> [repeat |-> FALSE, playCount |-> 2,
                start |-> Timed(<<Led("one", Alternate)>>),
                steps |-> <<Timed(<<Led("one", Alternate)>>), Timed(<<>>)>>,
                end |-> Untimed(<<Led("one", Alternate)>>)] @@
    "endless" :> [repeat |-> TRUE, playCount |-> 1,
                  start |-> Nothing,
                  steps |-> <<Timed(<<Led("front", Alternate), Led("three", none)>>)>>,
                  end |-> Timed(<<Led("front", none)>>)] @@
    "borrow" :> [repeat |-> FALSE, playCount |-> 1,
                 start |-> Untimed(<<Led("two", none)>>),
                 steps |-> <<Timed(<<Led("three", Alternate)>>)>>,
                 end |-> Untimed(<<Led("three", Normal)>>)] @@
    "short" :> [repeat |-> FALSE, playCount |-> 3,
                start |-> Nothing,
                steps |-> <<Timed(<<Led("two", Normal)>>), Untimed(<<Led("one", Normal)>>)>>,
                end |-> Nothing]
==============================================================================
