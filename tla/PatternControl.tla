---------------------------- MODULE PatternControl ----------------------------
(***************************************************************************)
(* The pattern player of the daemon: led_pattern_control.c.                *)
(*                                                                         *)
(* A pattern is a start step, a list of steps and an end step, each with   *)
(* LEDs to set; it is played some number of times or for ever.  Every      *)
(* playing pattern has a context in a queue and a one-shot timer.  What a  *)
(* handler asks of the LED controller is left in the variable performed,   *)
(* as the steps in the order in which it performed them; the handler runs  *)
(* to completion on the daemon's only thread, so it is one action.         *)
(***************************************************************************)
EXTENDS Integers, Sequences, FiniteSets

CONSTANTS
    Patterns,           \* The patterns loaded, whose names differ in any case
    Pattern,            \* struct led_pattern_st of each
    LedsNamed,          \* The LEDs that a name reaches: an alias's, one, or all
    NoPriority,         \* The priority of a step's LED that names none
    DefaultPriority,    \* LED_PRIORITY_NORMAL, which then stands for it
    SizeLimit           \* SIZE_MAX + 1: times_played is a size_t

VARIABLES
    playing,            \* The queue of struct led_pattern_context_st
    performed,          \* The steps that the last handler performed, in order
    running             \* Whether the patterns haven't been deinitialised

vars == <<playing, performed, running>>

(* One LED of a step, and a step; timed says that its time_ms isn't 0. *)
IsLed(e) == e.name \in DOMAIN LedsNamed /\ e.priority \in Int \cup {NoPriority}
IsList(s) == Len(s) \in Nat /\ DOMAIN s = 1 .. Len(s)
IsStep(s) ==
    s.timed \in BOOLEAN /\ IsList(s.leds) /\ \A i \in DOMAIN s.leds : IsLed(s.leds[i])

ASSUME SizeAssumption == SizeLimit \in Nat

(* A pattern without steps would make play_step read past its steps. *)
ASSUME PatternAssumption ==
    \A p \in Patterns :
        /\ Pattern[p].repeat \in BOOLEAN
        /\ Pattern[p].playCount \in 0 .. (SizeLimit - 2)
        /\ IsList(Pattern[p].steps) /\ Len(Pattern[p].steps) # 0
        /\ IsStep(Pattern[p].start) /\ IsStep(Pattern[p].end)
        /\ \A i \in DOMAIN Pattern[p].steps : IsStep(Pattern[p].steps[i])

(* Step 0 is the start step, and the one after the last is the end step. *)
NumSteps(p) == Len(Pattern[p].steps)
Start == 0
End(p) == NumSteps(p) + 1
Step(p, n) == CASE n = Start -> Pattern[p].start
                [] n = End(p) -> Pattern[p].end
                [] OTHER -> Pattern[p].steps[n]
HasLeds(p, n) == Len(Step(p, n).leds) > 0

Endless(p) == Pattern[p].repeat \/ Pattern[p].playCount = 0

------------------------------------------------------------------------------
(* led_ops_compare_leds: the same priority, and a LED in common. *)
PriorityOf(e) == IF e.priority = NoPriority THEN DefaultPriority ELSE e.priority

CompareLeds(d, e) ==
    PriorityOf(d) = PriorityOf(e) /\ LedsNamed[d.name] \cap LedsNamed[e.name] # {}

StepsShareLeds(s, t) ==
    \E i \in DOMAIN s.leds, j \in DOMAIN t.leds : CompareLeds(s.leds[i], t.leds[j])

(* Mutant of PatternsShareLeds: the start and end steps are not compared. *)
PatternsShareLeds_StepsOnly(p, q) ==
    \E m \in 1 .. NumSteps(p), n \in 1 .. NumSteps(q) : StepsShareLeds(Step(p, m), Step(q, n))

(* patterns_share_leds: any step of one with any step of the other *)
PatternsShareLeds(p, q) ==
    \E m \in Start .. End(p), n \in Start .. End(q) : StepsShareLeds(Step(p, m), Step(q, n))

Sharing == {pq \in Patterns \X Patterns : PatternsShareLeds(pq[1], pq[2])}

Playing == {playing[i].pattern : i \in DOMAIN playing}

ContextOf(p) == playing[CHOOSE i \in DOMAIN playing : playing[i].pattern = p]

(* The queue with another context for c's pattern. *)
Updated(queue, c) ==
    [i \in DOMAIN queue |-> IF queue[i].pattern = c.pattern THEN c ELSE queue[i]]

(* The contexts of the queue whose patterns are in P, in their order. *)
Select(queue, P) ==
    LET selected[i \in 0 .. Len(queue)] ==
            IF i = 0 THEN <<>>
            ELSE IF queue[i].pattern \in P THEN Append(selected[i - 1], queue[i])
            ELSE selected[i - 1]
    IN  selected[Len(queue)]

------------------------------------------------------------------------------
(* A handler takes the queue and what was performed so far, as a record h,  *)
(* through the functions that it calls.                                     *)

Begin == [queue |-> playing, did |-> <<>>]

Finish(outcome) ==
    \E h \in {outcome} : playing' = h.queue /\ performed' = h.did

(* Mutant of StopPatterns: the end steps are not performed. *)
StopPatterns_Silently(h, P) ==
    [h EXCEPT !.queue = Select(@, Patterns \ P)]

(* led_pattern_stop of those patterns of the queue that are in P *)
StopPatterns(h, P) ==
    LET ended == Select(h.queue, {p \in P : HasLeds(p, End(p))})
    IN  [queue |-> Select(h.queue, Patterns \ P),
         did |-> h.did \o [i \in DOMAIN ended |-> <<ended[i].pattern, End(ended[i].pattern)>>]]

(* How often the pattern was played, for the properties only: not counted  *)
(* for a pattern that has no end or that was retriggered.                  *)
Uncounted == -1
CountPlay(c) == IF c.plays = Uncounted \/ c.next # 0 THEN c.plays ELSE c.plays + 1

(* Mutant of PlayStep: the timer is left to what it was. *)
PlayStep_NoTimer(h, c) ==
    LET p == c.pattern
        n == c.next + 1
        played == [queue |-> Updated(h.queue, [c EXCEPT !.next = n, !.plays = CountPlay(c)]),
                   did |-> Append(h.did, <<p, n>>)]
    IN  IF Step(p, n).timed THEN played ELSE StopPatterns(played, {p})

(* led_pattern_play_step: a step without a time ends the pattern. *)
PlayStep(h, c) ==
    LET p == c.pattern
        n == c.next + 1
        played == [queue |-> Updated(h.queue, [c EXCEPT !.next = n, !.timer = TRUE,
                                                        !.plays = CountPlay(c)]),
                   did |-> Append(h.did, <<p, n>>)]
    IN  IF Step(p, n).timed THEN played ELSE StopPatterns(played, {p})

(* pattern_context_initialise *)
NewContext(p) ==
    [pattern |-> p, times |-> 1, next |-> 0, timer |-> FALSE,
     plays |-> IF Endless(p) THEN Uncounted ELSE 0]

(* pattern_context_initialise, led_pattern_start, led_pattern_play_start_step *)
StartPattern(h, p) ==
    LET c == NewContext(p)
        waiting == HasLeds(p, Start) /\ Step(p, Start).timed
        started == [queue |-> Append(h.queue, [c EXCEPT !.timer = waiting]),
                    did |-> IF HasLeds(p, Start) THEN Append(h.did, <<p, Start>>) ELSE h.did]
    IN  IF waiting THEN started ELSE PlayStep(started, c)

(* The playing patterns that use the LEDs of p, with the same priority. *)
Rivals(p) == {q \in Playing : <<q, p>> \in Sharing}

------------------------------------------------------------------------------
Init == playing = <<>> /\ performed = <<>> /\ running = TRUE

(* Mutant of Play: the others are stopped once the pattern has started. *)
Play_StopLate(p) ==
    /\ running
    /\ p \notin Playing
    /\ Finish(StopPatterns(StartPattern(Begin, p), Rivals(p)))
    /\ UNCHANGED running

(* led_pattern_play_pattern of a pattern that isn't playing *)
Play(p) ==
    /\ running
    /\ p \notin Playing
    /\ Finish(StartPattern(StopPatterns(Begin, Rivals(p)), p))
    /\ UNCHANGED running

(* led_pattern_play_pattern of a playing pattern, which needs retrigger *)
Retrigger(p) ==
    /\ running
    /\ p \in Playing
    /\ playing' = Updated(playing, [ContextOf(p) EXCEPT !.times = 0, !.plays = Uncounted])
    /\ performed' = <<>>
    /\ UNCHANGED running

(* led_pattern_stop_pattern *)
Stop(p) ==
    /\ running
    /\ p \in Playing
    /\ Finish(StopPatterns(Begin, {p}))
    /\ UNCHANGED running

(* Mutants of Counted: the steps don't start again; the plays aren't counted. *)
Counted_NoReset(c) ==
    [c EXCEPT !.timer = FALSE,
              !.times = IF c.next = NumSteps(c.pattern) THEN (@ + 1) % SizeLimit ELSE @]
Counted_SameTimes(c) ==
    [c EXCEPT !.timer = FALSE, !.next = IF @ = NumSteps(c.pattern) THEN 0 ELSE @]

(* What pattern_timeout counts before it decides. *)
Counted(c) ==
    LET completed == c.next = NumSteps(c.pattern)
    IN  [c EXCEPT !.timer = FALSE,
                  !.next = IF completed THEN 0 ELSE @,
                  !.times = IF completed THEN (@ + 1) % SizeLimit ELSE @]

(* Mutants of PlaysOn: one play less; the count alone decides. *)
PlaysOn_OneLess(c) == Endless(c.pattern) \/ c.times < Pattern[c.pattern].playCount
PlaysOn_CountOnly(c) == c.times <= Pattern[c.pattern].playCount

(* The condition on which pattern_timeout goes on. *)
PlaysOn(c) == Endless(c.pattern) \/ c.times <= Pattern[c.pattern].playCount

(* pattern_timeout, run by uloop for a timer that is pending *)
Timeout(p) ==
    /\ running
    /\ p \in Playing
    /\ ContextOf(p).timer
    /\ \E c \in {Counted(ContextOf(p))} :
           Finish(IF PlaysOn(c) THEN PlayStep(Begin, c) ELSE StopPatterns(Begin, {p}))
    /\ UNCHANGED running

(* led_patterns_deinit *)
Deinit ==
    /\ running
    /\ Finish(StopPatterns(Begin, Playing))
    /\ running' = FALSE

Request == \E p \in Patterns : Play(p) \/ Retrigger(p) \/ Stop(p)

Next ==
    \/ Request
    \/ \E p \in Patterns : Timeout(p)
    \/ Deinit

Spec == Init /\ [][Next]_vars

(* uloop runs the callback of every timer that has expired. *)
FairSpec == Spec /\ \A p \in Patterns : WF_vars(Timeout(p))

------------------------------------------------------------------------------
Steps == UNION {{p} \X (Start .. End(p)) : p \in Patterns}

(* Every variable has its type. *)
TypeOK ==
    /\ \A i \in DOMAIN playing :
          /\ playing[i].pattern \in Patterns
          /\ playing[i].times \in 0 .. (SizeLimit - 1)
          /\ playing[i].next \in 0 .. NumSteps(playing[i].pattern)
          /\ playing[i].timer \in BOOLEAN
          /\ playing[i].plays \in Int
    /\ performed \in Seq(Steps)
    /\ running \in BOOLEAN

(* The LEDs, each with a priority, that some step of a pattern sets. *)
UsedByLed(e) == {<<l, PriorityOf(e)>> : l \in LedsNamed[e.name]}
UsedByStep(s) == UNION {UsedByLed(s.leds[i]) : i \in DOMAIN s.leds}
UsedByPattern == [p \in Patterns |-> UNION {UsedByStep(Step(p, n)) : n \in Start .. End(p)}]

(***************************************************************************)
(* Two patterns never play on the same LED with the same priority, however *)
(* they name it: "it isn't desirable for multiple patterns to control the  *)
(* same LEDs" (led_pattern_control.c:300-451, 568-574).  A start or an end *)
(* step counts as well as the others.                                      *)
(***************************************************************************)
PlayingPatternsShareNothing ==
    \A i, j \in DOMAIN playing :
        i # j => UsedByPattern[playing[i].pattern] \cap UsedByPattern[playing[j].pattern] = {}

(***************************************************************************)
(* A playing pattern can always go on: its timer is pending, its next step *)
(* exists or the play is complete, and only one context plays it.  Without *)
(* a timer the pattern would hold its LEDs for ever and could only be      *)
(* stopped by hand (led_pattern_control.c:158-207, 248-274).               *)
(***************************************************************************)
PlayingPatternsAreDriven ==
    /\ \A i \in DOMAIN playing :
          /\ playing[i].timer
          /\ playing[i].next = 0 => HasLeds(playing[i].pattern, Start)
    /\ \A i, j \in DOMAIN playing :
          playing[i].pattern = playing[j].pattern => i = j

(***************************************************************************)
(* A pattern that has performed a step and is no longer playing has        *)
(* performed its end step last, whatever stopped it: a request, the end of *)
(* its plays, a step without a time, another pattern or the daemon's end   *)
(* (led_pattern_control.c:132-156).  It is the end step that gives back    *)
(* the priorities the start step activated.                                *)
(***************************************************************************)
StoppedPatternsPerformTheirEnd ==
    [][\A p \in Patterns :
          LET own == {i \in DOMAIN performed' : performed'[i][1] = p}
          IN  /\ p \notin Playing'
              /\ p \in Playing \/ own # {}
              /\ HasLeds(p, End(p))
              => \E i \in own : /\ performed'[i] = <<p, End(p)>>
                                /\ \A j \in own : j <= i]_vars

(***************************************************************************)
(* When a pattern takes LEDs over from others, the others' end steps come  *)
(* first: no end step overwrites what the new pattern has just shown       *)
(* (led_pattern_control.c:568-576).                                        *)
(***************************************************************************)
EndStepsComeFirst ==
    [][\A i, j \in DOMAIN performed' :
          performed'[i][1] \notin Playing /\ performed'[j][1] # performed'[i][1] => j < i]_vars

(***************************************************************************)
(* A pattern that is left alone is played as often as it says: if its own  *)
(* timer ends it, without a retrigger, it was played play_count times.     *)
(* The count starts at 1, goes up one timeout late and is compared with <= *)
(* (led_pattern_control.c:226, 258-266).                                   *)
(***************************************************************************)
AllTimed(p) == \A n \in 1 .. NumSteps(p) : Step(p, n).timed

PlayedAsOftenAsConfigured ==
    [][\A p \in Patterns :
          /\ p \in Playing /\ p \notin Playing'
          /\ Timeout(p) /\ AllTimed(p)
          /\ ContextOf(p).plays # Uncounted
          => ContextOf(p).plays = Pattern[p].playCount]_vars

(***************************************************************************)
(* A repeating pattern never ends by itself, also when its play count says *)
(* otherwise and its counter wraps round (led_pattern_control.c:261-266).  *)
(***************************************************************************)
RepeatingPatternsGoOn ==
    [][\A p \in Patterns :
          /\ Pattern[p].repeat /\ AllTimed(p)
          /\ p \in Playing /\ p \notin Playing'
          => ~ Timeout(p)]_vars

(***************************************************************************)
(* Patterns that aren't endless come to an end for good once nobody starts *)
(* or retriggers one any more, whatever is asked of the endless ones       *)
(* meanwhile (led_pattern_control.c:248-274).                              *)
(***************************************************************************)
PlayedAgain(p) ==
    /\ p \in Playing'
    /\ p \in Playing => ContextOf(p)'.times < ContextOf(p).times

FinitePatternsEnd ==
    LET finite == {p \in Patterns : ~ Endless(p)}
    IN  <>[][\A p \in finite : ~ PlayedAgain(p)]_vars => <>[](Playing \cap finite = {})

(***************************************************************************)
(* A retrigger adds one play: "if a retrigger occurs before the end of the *)
(* pattern it will play the pattern one more time"                         *)
(* (led_pattern_control.c:219-225).  The code violates it for patterns     *)
(* that are played twice or more: the count starts again.                  *)
(***************************************************************************)
PlaysLeft(c) == Pattern[c.pattern].playCount - c.times

RetriggerAddsOnePlay ==
    [][\A p \in Patterns :
          Retrigger(p) /\ ~ Endless(p) =>
             PlaysLeft(ContextOf(p)') <= PlaysLeft(ContextOf(p)) + 1]_vars
==============================================================================
