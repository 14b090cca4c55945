----------------------------- MODULE UbusFrontEnd -----------------------------
(***************************************************************************)
(* The LED methods of the daemon's ubus object: led_daemon_ubus.c, with    *)
(* the results that led_control.c reports for each LED.                    *)
(*                                                                         *)
(* A message to get, set, activate or deactivate has an array of entries,  *)
(* each a table of fields, that the handler processes in turn, up to the   *)
(* first that is invalid.  It answers with a status and, if that is OK,    *)
(* with the results of all entries; the results of one entry are a set     *)
(* here, since their order means nothing to a client.                      *)
(***************************************************************************)
EXTENDS LedControl, Sequences

CONSTANTS
    Messages,           \* The messages that clients send
    Missing,            \* A field that an entry doesn't have
    NoReply,            \* No message was handled, or it was answered without one
    NotTables           \* A leds field that is no array of tables, or missing

VARIABLES
    status,             \* The status that the last handler returned
    message,            \* What it was called for
    reply               \* The results of each entry of that message

frontVars == <<leds, status, message, reply>>

(* enum ubus_msg_status of libubus *)
OK == 0
INVALID_COMMAND == 1
INVALID_ARGUMENT == 2
UNKNOWN_ERROR == 9

(* The fields of an entry; a name or a priority may be one that nobody       *)
(* knows, and UNKNOWN is the state that is missing or has no such name.      *)
IsEntry(e) ==
    /\ e.lock \in LockIds \cup {Missing}
    /\ e.state \in LedStates /\ e.flash \in FlashTypes /\ e.time \in Nat

ASSUME MessagesAssumption ==
    \A m \in Messages :
        /\ m.method \in {"get", "set", "activate", "deactivate"}
        /\ m.leds # NotTables =>
              /\ m.leds \in Seq({m.leds[i] : i \in DOMAIN m.leds})
              /\ \A i \in DOMAIN m.leds : IsEntry(m.leds[i])

------------------------------------------------------------------------------
(* One entry, e, of a message. *)

(* populate_led_set_state_request and the other parsers; UNKNOWN is the      *)
(* state of an entry that has none, or an invalid one.                       *)
Valid(method, e) == e.name # Missing /\ (method = "set" => e.state # UNKNOWN)

Lock(e) == IF e.lock = Missing THEN NoLock ELSE e.lock
Priority(e) == IF e.priority = Missing THEN NORMAL ELSE e.priority

RequestOf(e) ==
    [priority |-> Priority(e), state |-> e.state, flash |-> e.flash, time |-> e.time,
     forever |-> FALSE, lock |-> Lock(e)]

(* Mutant of Refused: all LEDs are locked as far as they aren't locked. *)
Refused_NotAll(method, e, state) ==
    \/ e.name \notin Names
    \/ method \in {"activate", "deactivate"} /\ Priority(e) \notin Priorities
    \/ method \in {"activate", "deactivate"} /\ Priority(e) = LOCKED /\ e.lock = Missing

(* The entries that a single failed result answers, under the name given.    *)
Refused(method, e, state) ==
    \/ e.name \notin Names
    \/ /\ method \in {"activate", "deactivate"}
       /\ \/ Priority(e) \notin Priorities
          \/ Priority(e) = LOCKED /\ e.lock = Missing
    \/ /\ method = "activate" /\ e.name = All /\ Priority(e) = LOCKED
       /\ \E l \in LEDs : LOCKED \in state[l].active

(* A result is a record whose fields a method fills in as far as it can. *)
Result(name, success) ==
    [name |-> name, success |-> success, state |-> UNKNOWN, lock |-> NoLock,
     priority |-> Missing]

(* Mutant of GetResult: the lowest priority's state, if the plugin has none. *)
GetResult_Normal(l, r, told) ==
    [Result(l, TRUE) EXCEPT !.state = IF told THEN r.phys ELSE r.ctx[NORMAL].state,
                            !.lock = r.lock,
                            !.priority = Highest(r)]

(* append_led_state; told says whether the plugin knows the LED's state. *)
GetResult(l, r, told) ==
    [Result(l, TRUE) EXCEPT !.state = IF told THEN r.phys ELSE r.ctx[Highest(r)].state,
                            !.lock = r.lock,
                            !.priority = Highest(r)]

(* The state that the request writes first is one that the plugin can write: *)
(* its own state, unless the daemon flashes the LED, from OFF or ON.         *)
Shows(e) == e.state \in Accepted \/ e.flash \in {"none", "one_shot"} \/ e.time > 0

(* led_ctx_set_state as a function of the LED, of its request and of ok; the *)
(* request fails for a priority that doesn't exist.                          *)
SetSucceeds(r, e, ok) ==
    /\ Priority(e) \in Priorities
    /\ MayUpdate(r, RequestOf(e))
    /\ LessUrgent(Priority(e), Highest(r)) \/ (ok /\ Shows(e))

SetOne(l, r, e, ok) ==
    [led |-> IF Priority(e) \in Priorities THEN SetLed(r, RequestOf(e), ok) ELSE r,
     result |-> [Result(l, SetSucceeds(r, e, ok)) EXCEPT !.state = e.state]]

(* Mutant of ActivateOne: the lock ID is read before the LED is locked. *)
ActivateOne_OldLock(l, r, e, ok) ==
    [led |-> LockAndActivate(r, Priority(e), Lock(e), ok),
     result |-> [Result(l, Priority(e) = LOCKED => r.lock = NoLock) EXCEPT !.lock = r.lock]]

(* The lock ID that is reported is the one that the LED has afterwards. *)
ActivateOne(l, r, e, ok) ==
    LET led == LockAndActivate(r, Priority(e), Lock(e), ok)
        locked == Priority(e) = LOCKED => r.lock = NoLock
    IN  [led |-> led, result |-> [Result(l, locked) EXCEPT !.lock = led.lock]]

DeactivateOne(l, r, e, ok) ==
    LET led == UnlockAndDeactivate(r, Priority(e), Lock(e), ok)
        unlocked == Priority(e) = LOCKED => r.lock # NoLock /\ r.lock = Lock(e)
    IN  [led |-> led, result |-> [Result(l, unlocked) EXCEPT !.lock = led.lock]]

(* What an entry does to one LED, and the result for it. *)
ProcessOne(method, l, r, e, ok, told) ==
    CASE method = "get" -> [led |-> r, result |-> GetResult(l, r, told)]
      [] method = "set" -> SetOne(l, r, e, ok)
      [] method = "activate" -> ActivateOne(l, r, e, ok)
      [] method = "deactivate" -> DeactivateOne(l, r, e, ok)

(* ... as often as the entry's name reaches the LED. *)
ProcessLed(method, l, r, e, ok, told) ==
    LET once == ProcessOne(method, l, r, e, ok, told)
        twice == ProcessOne(method, l, once.led, e, ok, told)
    IN  CASE Visits(e.name, l) = 0 -> [led |-> r, results |-> {}]
          [] Visits(e.name, l) = 1 -> [led |-> once.led, results |-> {once.result}]
          [] Visits(e.name, l) = 2 -> [led |-> twice.led,
                                       results |-> {once.result, twice.result}]

(* Setting an alias that isn't a LED has a result of its own. *)
OfAlias(method, e) ==
    IF method = "set" /\ e.name \in Aliases \ LEDs
    THEN {[Result(e.name, TRUE) EXCEPT !.state = e.state]} ELSE {}

OfLeds(processed) == UNION {processed[l].results : l \in LEDs}

(* What an entry makes of the LEDs, and its results. *)
ProcessEntry(method, before, e, broken, told) ==
    IF Refused(method, e, before)
    THEN [leds |-> before,
          results |->
             {[Result(e.name, FALSE) EXCEPT !.state = IF method = "set" THEN e.state ELSE @]}]
    ELSE LET processed == [l \in LEDs |->
                 ProcessLed(method, l, before[l], e, l \notin broken, told)]
         IN  [leds |-> [l \in LEDs |-> processed[l].led],
              results |-> OfLeds(processed) \cup OfAlias(method, e)]

------------------------------------------------------------------------------
(* Mutant of Applied: an invalid entry is left out, but not those after it. *)
Applied_Others(m) == {i \in DOMAIN m.leds : Valid(m.method, m.leds[i])}

(* The entries that a handler processes: those before the first invalid one. *)
Applied(m) == {i \in DOMAIN m.leds : \A j \in 1 .. i : Valid(m.method, m.leds[j])}

(* The LEDs after each entry of the message, and the results of that entry. *)
After(m, broken, told) ==
    LET after[i \in 0 .. Len(m.leds)] ==
            IF i = 0 THEN [leds |-> leds, results |-> {}]
            ELSE IF i \in Applied(m)
            THEN ProcessEntry(m.method, after[i - 1].leds, m.leds[i], broken, told)
            ELSE after[i - 1]
    IN  after

AllValid(m) == m.leds # NotTables /\ \A i \in DOMAIN m.leds : Valid(m.method, m.leds[i])

(* process_set_msg returns a bool, so that every error becomes 1. *)
StatusFor(method, result) ==
    IF method = "set" /\ result # OK THEN INVALID_COMMAND ELSE result

(* get_state_handler, set_state_handler, activate_handler, deactivate_handler *)
Handle(m, broken, told) ==
    LET after == After(m, broken, told)
    IN  /\ leds' = IF m.leds = NotTables THEN leds ELSE after[Len(m.leds)].leds
        /\ status' = StatusFor(m.method, IF AllValid(m) THEN OK ELSE INVALID_ARGUMENT)
        /\ message' = m
        /\ reply' = IF AllValid(m) THEN [i \in DOMAIN m.leds |-> after[i].results]
                                   ELSE NoReply

(* The platform's plugin can't be opened. *)
OpenFails(m) ==
    /\ status' = StatusFor(m.method, UNKNOWN_ERROR)
    /\ message' = m
    /\ reply' = NoReply
    /\ UNCHANGED leds

FrontTimeout(l, p) ==
    /\ Timeout(l, p)
    /\ message' = NoReply
    /\ reply' = NoReply
    /\ UNCHANGED status

(* Only a handler that reads LEDs depends on whether the plugin knows them. *)
Readings(m) == IF m.method = "get" THEN BOOLEAN ELSE {TRUE}

FrontInit == Init /\ status = OK /\ message = NoReply /\ reply = NoReply

FrontNext ==
    \/ \E m \in Messages :
          \/ \E broken \in Broken, told \in Readings(m) : Handle(m, broken, told)
          \/ OpenFails(m)
    \/ \E l \in LEDs, p \in Priorities : FrontTimeout(l, p)

FrontSpec == FrontInit /\ [][FrontNext]_frontVars

(* Clients that set the state of a priority only while it is active. *)
Disciplined(m) ==
    m.method = "set" /\ m.leds # NotTables =>
        \A i \in DOMAIN m.leds, l \in LEDs :
            m.leds[i].name \in Names /\ Visits(m.leds[i].name, l) > 0
            /\ Priority(m.leds[i]) \in Priorities
                => Priority(m.leds[i]) \in leds[l].active

DisciplinedFrontNext ==
    \/ \E m \in Messages :
          /\ Disciplined(m)
          /\ \/ \E broken \in Broken, told \in Readings(m) : Handle(m, broken, told)
             \/ OpenFails(m)
    \/ \E l \in LEDs, p \in Priorities : FrontTimeout(l, p)

DisciplinedFrontSpec == FrontInit /\ [][DisciplinedFrontNext]_frontVars

------------------------------------------------------------------------------
Answered == message # NoReply /\ reply # NoReply

(* The results for LEDs of the entries of the message, with their entries. *)
Told(method) ==
    IF Answered /\ message.method = method
    THEN UNION {{<<message.leds[i], r>> : r \in reply[i]} : i \in DOMAIN reply}
    ELSE {}

(* The entry asks for a steady state that no other entry sets on the LED. *)
SetLast(e, l) ==
    /\ e.state \in Supported /\ e.flash = "none"
    /\ \A i \in DOMAIN message.leds :
          message.leds[i].name \in Names /\ Visits(message.leds[i].name, l) > 0
              => message.leds[i] = e

(***************************************************************************)
(* A reply is still true when it is sent, after every entry and every      *)
(* second visit of a LED: a client that is told that it locked a LED holds *)
(* it, one that is refused is told who does, one that is told that it      *)
(* released a LED finds it free, and a state that was set is recorded      *)
(* (led_control.c:422-469, 571-681, 1042-1147, 1236-1474).                 *)
(***************************************************************************)
RepliesAreTrue ==
    /\ \A t \in Told("activate") :
          Priority(t[1]) = LOCKED /\ t[1].lock # Missing /\ t[2].name \in LEDs =>
             /\ leds[t[2].name].lock = t[2].lock
             /\ t[2].success => t[2].lock = t[1].lock
    /\ \A t \in Told("deactivate") :
          Priority(t[1]) = LOCKED /\ t[2].success => leds[t[2].name].lock = NoLock
    /\ \A t \in Told("set") :
          t[2].success /\ t[2].name \in LEDs /\ SetLast(t[1], t[2].name) =>
             leds[t[2].name].ctx[Priority(t[1])].state = t[1].state

(***************************************************************************)
(* Locking all the LEDs takes the lock of every one of them, or of none: a *)
(* client that is told of one LED that it locked holds them all.  What is  *)
(* tested are the LOCKED priorities, and what is assigned are the IDs      *)
(* (led_control.c:1398-1411, led_lock.c:83-117).                           *)
(***************************************************************************)
LockingAllTakesEveryLed ==
    \A t \in Told("activate") :
        t[1].name = All /\ Priority(t[1]) = LOCKED /\ t[2].success =>
            \A l \in LEDs : leds[l].lock = t[1].lock

(***************************************************************************)
(* What get answers is what the LED shows, whether or not the plugin can   *)
(* tell, together with who holds it: the state recorded for the highest    *)
(* priority stands for an unknown one (led_control.c:391-420).             *)
(***************************************************************************)
GetTellsWhatIsShown ==
    \A t \in Told("get") : t[2].success =>
        LET led == leds[t[2].name]
        IN  /\ t[2].state = led.phys
            /\ t[2].lock = led.lock
            /\ t[2].priority = LOCKED => t[2].lock # NoLock
            /\ t[2].lock # NoLock => t[2].priority <= LOCKED

(***************************************************************************)
(* Nothing happens to a LED in silence: one that a message changed has a   *)
(* successful result in the reply.  A message with an invalid entry has no *)
(* reply, and changes no LED that only its later entries name              *)
(* (led_daemon_ubus.c:353-405).                                            *)
(***************************************************************************)
NamedBefore(m, l) ==
    \E i \in DOMAIN m.leds :
        /\ \A j \in 1 .. i : Valid(m.method, m.leds[j])
        /\ m.leds[i].name \in Names /\ Visits(m.leds[i].name, l) > 0

ChangesAreReported ==
    [][\A l \in LEDs : leds'[l] # leds[l] /\ message' # NoReply =>
          IF reply' # NoReply
          THEN \E i \in DOMAIN reply' : \E r \in reply'[i] : r.name = l /\ r.success
          ELSE message'.leds # NotTables /\ NamedBefore(message', l)]_frontVars
==============================================================================
