----------------------------- MODULE MCLedControl -----------------------------
(* Instances of LedControl for TLC. *)
EXTENDS LedControl, TLC

CONSTANT a

MCNoAlias == <<>>

OnOff == {OFF, ON}
AllKnown == LedStates \ {UNKNOWN}
MCFlashStates == {OFF, ON, FAST_FLASH}
MCReported == {UNKNOWN, ON}

Steady == {<<"none", 0>>}
TimedFlashes == {<<"none", 0>>, <<"slow", 600>>, <<"one_shot", 0>>}
SlowFlashes == {<<"none", 0>>, <<"slow", 600>>}

MCFlashPriorities == {ALTERNATE, NORMAL}
MCFaultPriorities == {LOCKED, NORMAL}
==============================================================================
