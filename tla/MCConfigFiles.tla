---------------------------- MODULE MCConfigFiles ----------------------------
(* Directories of at most two files, with definitions that are wrong in each *)
(* of their parts, and a name that is spelt in two ways.                     *)
EXTENDS ConfigFiles, TLC

CONSTANTS missing, notTables

MCKey == "blink" :> "blink" @@ "BLINK" :> "blink" @@ "pulse" :> "pulse"

Led(name, state, priority) == [name |-> name, state |-> state, priority |-> priority]
StepOf(time, leds) == [time |-> time, leds |-> leds]
On == StepOf(500, <<Led("front", "on", "alternate"), Led(missing, missing, missing)>>)
Wrong == StepOf(500, notTables)

Definition(name, repeat, playCount, start, steps, end) ==
    [name |-> name, repeat |-> repeat, playCount |-> playCount, start |-> start,
     steps |-> steps, end |-> end]

Blink == Definition("blink", missing, 3, On, <<On, StepOf(missing, <<>>)>>, On)
Shout == Definition("BLINK", TRUE, missing, missing, <<On>>, missing)
Pulse == Definition("pulse", missing, missing, missing, <<>>, missing)
WrongStep == Definition("blink", missing, missing, missing, <<On, Wrong, On>>, missing)
WrongStart == Definition("pulse", missing, missing, Wrong, <<On>>, missing)
WrongEnd == Definition("blink", missing, missing, missing, <<On>>, Wrong)
NoSteps == Definition("pulse", missing, missing, missing, notTables, missing)
Nameless == Definition(missing, missing, missing, missing, <<On>>, missing)

MCPatternFiles ==
    {notTables, <<>>, <<Blink>>, <<Shout, Pulse>>, <<WrongStep, Shout>>,
     <<WrongStart, Blink, Shout>>, <<Nameless, Pulse, WrongEnd>>, <<NoSteps, Blink>>}

Alias(name, leds) == [name |-> name, leds |-> leds]

MCAliasFiles ==
    {notTables, <<Alias("blink", notTables), Alias("BLINK", <<"one", "two">>)>>,
     <<Alias("blink", <<"one">>), Alias("BLINK", <<>>)>>,
     <<Alias(missing, <<"one">>), Alias("pulse", <<"two">>)>>}
==============================================================================
