----------------------------- MODULE LockSession -----------------------------
(***************************************************************************)
(* Clients of the daemon: ledcmd_cli.c over lib_led and ubus, with the     *)
(* daemon's handlers of led_daemon_ubus.c in front of LedControl.          *)
(*                                                                         *)
(* An invocation of ledcmd sends one request for each of its arguments and *)
(* waits for the answer, at most a second; a request whose answer nobody   *)
(* waits for any more is still handled.  Requests of all clients reach the *)
(* daemon in the order in which ubusd got them.  Every client uses a lock  *)
(* ID of its own.                                                          *)
(***************************************************************************)
EXTENDS LedControl, Sequences

CONSTANTS
    Clients,
    IdOf,               \* The lock ID that each client uses
    Commands,           \* What clients run: an operation and LED names
    OpenMayFail,        \* Whether the plugin's open may fail
    MaxInbox            \* Bound on the requests waiting when a command starts

VARIABLES
    cli,                \* The invocation that each client is running
    inbox,              \* The requests that the daemon has not handled yet
    held                \* What each client was told it locked: names and LEDs

clientVars == <<leds, cli, inbox, held>>

(* -k, -K, and -o with and without -i *)
Operations == {"lock", "unlock", "on", "locked_on"}

ASSUME ClientsAssumption ==
    /\ IdOf \in [Clients -> LockIds]
    /\ \A c, d \in Clients : IdOf[c] = IdOf[d] => c = d
    /\ Commands \subseteq [op : Operations, names : Seq(Names)]
    /\ \A command \in Commands : command.names # <<>>
    /\ OpenMayFail \in BOOLEAN
    /\ MaxInbox \in Nat \ {0}

LedsOf(name) == {l \in LEDs : Visits(name, l) > 0}

Idle == [op |-> "none", names |-> <<>>, answer |-> "none"]
Busy(c) == cli[c].names # <<>>

------------------------------------------------------------------------------
(* The daemon: what it does with a request, and what it answers.             *)

PriorityFor(op) == IF op = "on" THEN NORMAL ELSE LOCKED

(* populate_led_set_state_request *)
SetRequestOf(req) ==
    [priority |-> PriorityFor(req.op), state |-> ON, flash |-> "none", time |-> 0,
     forever |-> FALSE, lock |-> IF req.op = "on" THEN NoLock ELSE IdOf[req.client]]

(* Locking all the LEDs is refused while one of them is locked. *)
RefusedRequest(req) ==
    req.op = "lock" /\ req.name = All /\ \E l \in LEDs : LOCKED \in leds[l].active

(* The LEDs for which the reply has a result that says success. *)
Granted(req, broken) ==
    LET set == SetRequestOf(req)
    IN  CASE req.op = "lock" ->
               {l \in LedsOf(req.name) : ~ RefusedRequest(req) /\ leds[l].lock = NoLock}
          [] req.op = "unlock" ->
               {l \in LedsOf(req.name) : leds[l].lock = IdOf[req.client]}
          [] OTHER ->
               {l \in LedsOf(req.name) :
                   /\ MayUpdate(leds[l], set)
                   /\ l \in broken => LessUrgent(set.priority, Highest(leds[l]))}

(* process_activate_msg *)
ProcessActivate(req, broken) ==
    /\ req.op = "lock"
    /\ IF RefusedRequest(req) THEN UNCHANGED leds
       ELSE ActivatePriority(req.name, PriorityFor(req.op), IdOf[req.client], broken)

(* process_deactivate_msg *)
ProcessDeactivate(req, broken) ==
    /\ req.op = "unlock"
    /\ DeactivatePriority(req.name, PriorityFor(req.op), IdOf[req.client], broken)

(* process_set_msg *)
ProcessSet(req, broken) ==
    /\ req.op \in {"on", "locked_on"}
    /\ SetLedState(req.name, SetRequestOf(req), broken)

(* Mutant of Succeeds: any reply counts as success. *)
Succeeds_AnyReply(req, granted) == TRUE

(***************************************************************************)
(* What the client makes of a reply: a lock or an unlock succeeds          *)
(* when the result of one LED says so (handle_lock_result), a set only     *)
(* when that of every LED does (led_get_set_handler).                      *)
(***************************************************************************)
Succeeds(req, granted) ==
    IF req.op \in {"on", "locked_on"} THEN granted = LedsOf(req.name) ELSE granted # {}

(* Mutant of Reply: a reply is kept although nobody waits for it any more. *)
Reply_Unwanted(req, success) ==
    /\ inbox' = Tail(inbox)
    /\ cli' = [cli EXCEPT ![req.client].answer = IF success THEN "success" ELSE "failure"]
    /\ UNCHANGED held

(* The daemon replies, and the client gets it if it still waits for it. *)
Reply(req, success) ==
    /\ inbox' = Tail(inbox)
    /\ cli' = IF req.wanted
              THEN [cli EXCEPT ![req.client].answer = IF success THEN "success" ELSE "failure"]
              ELSE cli
    /\ UNCHANGED held

(* The daemon handles one message of ubus to its end. *)
HandleRequest ==
    /\ inbox # <<>>
    /\ LET req == Head(inbox)
       IN  \E broken \in Broken :
              /\ \/ ProcessActivate(req, broken)
                 \/ ProcessDeactivate(req, broken)
                 \/ ProcessSet(req, broken)
              /\ Reply(req, Succeeds(req, Granted(req, broken)))

(* The plugin can't be opened: the answer is an error without a reply. *)
Fail ==
    /\ OpenMayFail
    /\ inbox # <<>>
    /\ Reply(Head(inbox), FALSE)
    /\ UNCHANGED leds

------------------------------------------------------------------------------
(* The clients.                                                              *)

NewRequest(c, op, name) == [client |-> c, op |-> op, name |-> name, wanted |-> TRUE]

(* The claims that are left when a client asks to unlock a name. *)
AfterAsking(claims, op, name) ==
    IF op = "unlock" THEN {m \in claims : m[2] \notin LedsOf(name)} ELSE claims

(* An invocation of ledcmd sends the request for its first argument. *)
Start(c, command) ==
    LET name == Head(command.names)
    IN  /\ ~ Busy(c)
        /\ Len(inbox) < MaxInbox
        /\ cli' = [cli EXCEPT ![c] = [op |-> command.op, names |-> command.names,
                                      answer |-> "none"]]
        /\ inbox' = Append(inbox, NewRequest(c, command.op, name))
        /\ held' = [held EXCEPT ![c] = AfterAsking(@, command.op, name)]
        /\ UNCHANGED leds

(* Whether ledcmd goes on after an argument that failed. *)
GoesOn(op, success) == success \/ op \notin {"on", "locked_on"}

(* With the result of one argument ledcmd sends the next request, or exits. *)
Proceed(c, success, claims, waiting) ==
    LET rest == Tail(cli[c].names)
        op == cli[c].op
    IN  /\ UNCHANGED leds
        /\ IF rest # <<>> /\ GoesOn(op, success)
           THEN /\ cli' = [cli EXCEPT ![c].names = rest, ![c].answer = "none"]
                /\ inbox' = Append(waiting, NewRequest(c, op, Head(rest)))
                /\ held' = [held EXCEPT ![c] = AfterAsking(claims, op, Head(rest))]
           ELSE /\ cli' = [cli EXCEPT ![c] = Idle]
                /\ inbox' = waiting
                /\ held' = [held EXCEPT ![c] = claims]

(* The reply arrives in time. *)
Receive(c) ==
    LET name == Head(cli[c].names)
        success == cli[c].answer = "success"
        won == IF success /\ cli[c].op = "lock" THEN {name} \X LedsOf(name) ELSE {}
    IN  /\ Busy(c)
        /\ cli[c].answer # "none"
        /\ Proceed(c, success, held[c] \cup won, inbox)

(* ubus_invoke gives up; a reply that comes later is dropped. *)
GiveUp(c) ==
    /\ Busy(c)
    /\ Proceed(c, FALSE, held[c],
               [i \in DOMAIN inbox |->
                  IF inbox[i].client = c THEN [inbox[i] EXCEPT !.wanted = FALSE]
                  ELSE inbox[i]])

ClientInit ==
    /\ Init
    /\ cli = [c \in Clients |-> Idle]
    /\ inbox = <<>>
    /\ held = [c \in Clients |-> {}]

ClientNext ==
    \/ HandleRequest
    \/ Fail
    \/ \E c \in Clients :
          \/ \E command \in Commands : Start(c, command)
          \/ Receive(c)
          \/ GiveUp(c)

ClientSpec == ClientInit /\ [][ClientNext]_clientVars

------------------------------------------------------------------------------
(* Every variable has its type, and an answer is kept only by an invocation  *)
(* that runs: what comes too late leaves the next one alone.                 *)
ClientTypeOK ==
    /\ TypeOK
    /\ cli \in [Clients -> [op : Operations \cup {"none"}, names : Seq(Names),
                            answer : {"none", "success", "failure"}]]
    /\ \A c \in Clients : Busy(c) \/ cli[c] = Idle
    /\ inbox \in Seq([client : Clients, op : Operations, name : Names, wanted : BOOLEAN])
    /\ held \in [Clients -> SUBSET (Names \X LEDs)]

(***************************************************************************)
(* A client that was told that it locked a LED, by name or as one of all,  *)
(* and has not asked to release it since, does hold it: no late, abandoned *)
(* or repeated request of any client takes it away, although requests go   *)
(* on being handled after their clients gave up (ledcmd_cli.c:50-147,      *)
(* lib_led.c:17-35, led_lock.c).                                           *)
(***************************************************************************)
ClaimsAreTrue ==
    \A c \in Clients : \A m \in held[c] :
        m[1] \notin Aliases => leds[m[2]].lock = IdOf[c]

(***************************************************************************)
(* While a client holds a LED, only its own requests change what the LED   *)
(* shows; the others' normal and alternate states stay underneath, also    *)
(* when the writes for some of them fail (led_control.c:58-211).           *)
(***************************************************************************)
OthersLeaveLockedLedsAlone ==
    [][\A c \in Clients : \A m \in held[c] \cap held'[c] :
          m[1] \notin Aliases /\ leds'[m[2]].phys # leds[m[2]].phys
             => Head(inbox).client = c]_clientVars

(***************************************************************************)
(* A client that is told that it released a name holds none of the LEDs    *)
(* behind it, whatever it had sent before and given up                     *)
(* (ledcmd_cli.c:454-463, led_control.c:571-610).                          *)
(***************************************************************************)
ReleasedMeansReleased ==
    [][\A c \in Clients :
          Receive(c) /\ cli[c].op = "unlock" /\ cli[c].answer = "success"
             => \A l \in LedsOf(Head(cli[c].names)) : leds[l].lock # IdOf[c]]_clientVars

(***************************************************************************)
(* Two clients are never both told that they locked the same LED:          *)
(* ledcmd_cli.c:358 says that -k acquires exclusive access, and README.md  *)
(* that the LEDs of an alias "will all be controlled together".  The code  *)
(* violates it for aliases: one LED that was free is enough for success.   *)
(***************************************************************************)
ExclusiveAccess ==
    \A c, d \in Clients : \A m \in held[c], n \in held[d] : m[2] = n[2] => c = d
==============================================================================
