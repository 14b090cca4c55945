------------------------------ MODULE SysfsLed ------------------------------
(***************************************************************************)
(* The sysfs backend, led_sysfs.c, for one LED: processes (the daemon, and *)
(* others that use the same lock file) set the LED by writing the kernel's *)
(* trigger, delay_on and delay_off files one by one, under an flock of the *)
(* LED's own lock file.  LEDs have locks and files of their own, and a     *)
(* process sets one LED at a time, so one LED shows what there is to see.  *)
(***************************************************************************)
EXTENDS Naturals

CONSTANTS
    Procs,              \* The processes that set the LED
    NoProc              \* The owner of the lock file when nobody holds it

ASSUME ProcsAssumption == NoProc \notin Procs

VARIABLES
    pc,                 \* Where each process is in set_led
    cmd,                \* The command that each process carries out
    owner,              \* The process that holds the flock
    trigger,            \* The LED's trigger file
    delay,              \* The LED's delay files, in ms
    sure                \* Ghost: the processes whose calls nothing disturbed

vars == <<pc, cmd, owner, trigger, delay, sure>>

Commands == {"on", "off", "flash", "flash_fast"}
Files == {"delay_on", "delay_off"}

Delays(on, off) == [f \in Files |-> IF f = "delay_on" THEN on ELSE off]

(* The switch of set_led *)
DelaysOf(c) == CASE c = "on" -> Delays(1, 0)
                 [] c = "off" -> Delays(0, 1)
                 [] c = "flash" -> Delays(500, 500)
                 [] OTHER -> Delays(250, 250)

(* Mutant of FirstFile: delay_off is always written first. *)
FirstFile_AlwaysOff(c) == "delay_off"

(* set_led_locked writes delay_on first for an ON command. *)
FirstFile(c) == IF c = "on" THEN "delay_on" ELSE "delay_off"
SecondFile(c) == IF FirstFile(c) = "delay_on" THEN "delay_off" ELSE "delay_on"

(* The kernel: setting both delays to 0 makes the LED blink by default.      *)
DefaultBlink == Delays(500, 500)
Effective(d) == IF \A f \in Files : d[f] = 0 THEN DefaultBlink ELSE d

------------------------------------------------------------------------------
Goto(p, label) == pc' = [pc EXCEPT ![p] = label]

(* Between lock and unlock *)
Inside(p) == pc[p] \notin {"idle", "lock"}

(* Nobody is inside without having got the lock. *)
NoIntruder == \A p \in Procs : Inside(p) => owner = p

Released(p) == IF owner = p THEN NoProc ELSE owner

(* set_led_state calls set_led. *)
Call(p, c) ==
    /\ pc[p] = "idle"
    /\ cmd' = [cmd EXCEPT ![p] = c]
    /\ Goto(p, "lock")
    /\ UNCHANGED <<owner, trigger, delay, sure>>

(* Mutant of Lock: a shared lock, which others may hold as well. *)
Lock_Shared(p) ==
    /\ pc[p] = "lock"
    /\ owner' = p
    /\ sure' = IF NoIntruder THEN sure \cup {p} ELSE sure \ {p}
    /\ Goto(p, "trigger")
    /\ UNCHANGED <<cmd, trigger, delay>>

(* lock: flock waits until nobody holds the lock. *)
Lock(p) ==
    /\ pc[p] = "lock"
    /\ owner = NoProc
    /\ owner' = p
    /\ sure' = IF NoIntruder THEN sure \cup {p} ELSE sure \ {p}
    /\ Goto(p, "trigger")
    /\ UNCHANGED <<cmd, trigger, delay>>

(* The lock's mkdir, open or flock fails, and set_led goes on without it. *)
LockFails(p) ==
    /\ pc[p] = "lock"
    /\ sure' = {}
    /\ Goto(p, "trigger")
    /\ UNCHANGED <<cmd, owner, trigger, delay>>

(***************************************************************************)
(* set_trigger: a LED that gets the timer trigger blinks by default; one   *)
(* that has it already keeps its delays or, on kernels that start the      *)
(* trigger again, doesn't.                                                 *)
(***************************************************************************)
WriteTrigger(p) ==
    /\ pc[p] = "trigger"
    /\ trigger' = "timer"
    /\ \/ delay' = DefaultBlink
       \/ trigger = "timer" /\ delay' = delay
    /\ Goto(p, "first")
    /\ UNCHANGED <<cmd, owner, sure>>

(* set_delay of one of the files, which exist only under the timer trigger *)
WriteDelay(p, from, file, to) ==
    /\ pc[p] = from
    /\ trigger = "timer"
    /\ delay' = Effective([delay EXCEPT ![file] = DelaysOf(cmd[p])[file]])
    /\ Goto(p, to)
    /\ UNCHANGED <<cmd, owner, trigger, sure>>

WriteFirst(p) == WriteDelay(p, "first", FirstFile(cmd[p]), "second")
WriteSecond(p) == WriteDelay(p, "second", SecondFile(cmd[p]), "written")

(* A file can't be opened: set_led_locked returns false at once. *)
OpenFails(p) ==
    /\ pc[p] \in {"trigger", "first", "second"}
    /\ Goto(p, "failed")
    /\ UNCHANGED <<cmd, owner, trigger, delay, sure>>

(***************************************************************************)
(* The text of fputs or fprintf waits in the FILE's buffer until fclose    *)
(* writes it, and nothing looks at the result of fclose.                   *)
(***************************************************************************)
FlushFails(p) ==
    /\ \/ pc[p] = "trigger" /\ Goto(p, "first")
       \/ pc[p] = "first" /\ trigger = "timer" /\ Goto(p, "second")
       \/ pc[p] = "second" /\ trigger = "timer" /\ Goto(p, "written")
    /\ sure' = sure \ {p}
    /\ UNCHANGED <<cmd, owner, trigger, delay>>

(* Mutant of Unlock: a failed write returns without unlocking. *)
Unlock_SuccessOnly(p) ==
    /\ pc[p] \in {"written", "failed"}
    /\ owner' = IF pc[p] = "written" THEN Released(p) ELSE owner
    /\ Goto(p, "idle")
    /\ UNCHANGED <<cmd, trigger, delay, sure>>

(* unlock, and set_led returns: true after "written", false after "failed" *)
Unlock(p) ==
    /\ pc[p] \in {"written", "failed"}
    /\ owner' = Released(p)
    /\ Goto(p, "idle")
    /\ UNCHANGED <<cmd, trigger, delay, sure>>

(* The process is killed; the kernel closes its lock file. *)
Kill(p) ==
    /\ pc[p] # "idle"
    /\ owner' = Released(p)
    /\ Goto(p, "idle")
    /\ UNCHANGED <<cmd, trigger, delay, sure>>

Init ==
    /\ pc = [p \in Procs |-> "idle"]
    /\ cmd = [p \in Procs |-> "off"]
    /\ owner = NoProc
    /\ trigger \in {"none", "timer"}
    /\ delay \in {DelaysOf(c) : c \in Commands}
    /\ sure = {}

(* What a process does in the end, once it can, after set_led was called *)
Advance(p) ==
    \/ Lock(p)
    \/ WriteTrigger(p)
    \/ WriteFirst(p)
    \/ WriteSecond(p)
    \/ OpenFails(p)
    \/ FlushFails(p)
    \/ Unlock(p)

Next == \E p \in Procs :
    \/ \E c \in Commands : Call(p, c)
    \/ Advance(p)
    \/ LockFails(p)
    \/ Kill(p)

Spec == Init /\ [][Next]_vars

(***************************************************************************)
(* Every process is scheduled, and system calls return once they can; no   *)
(* process may count on a failure to get out of flock.                     *)
(***************************************************************************)
FairSpec == Spec /\ \A p \in Procs : WF_vars(Advance(p))

------------------------------------------------------------------------------
Labels == {"idle", "lock", "trigger", "first", "second", "written", "failed"}

(* Every variable has its type, and whoever holds the lock is inside set_led. *)
TypeOK ==
    /\ pc \in [Procs -> Labels]
    /\ cmd \in [Procs -> Commands]
    /\ owner \in {p \in Procs : Inside(p)} \cup {NoProc}
    /\ trigger \in {"none", "timer"}
    /\ delay \in [Files -> {0, 1, 250, 500}]
    /\ sure \subseteq Procs

(***************************************************************************)
(* When set_led is about to return true, the LED is in the state that was  *)
(* asked for: not a mixture of this process's delays with those of others, *)
(* or with those that a process left behind that failed or was killed half *)
(* way (led_sysfs.c:352-442).  It depends on locks that work while this    *)
(* process holds one, and on its writes not failing in fclose.             *)
(***************************************************************************)
IsSet(p) == trigger = "timer" /\ delay = DelaysOf(cmd[p])

SuccessMeansSet == \A p \in sure : pc[p] = "written" => IsSet(p)

(***************************************************************************)
(* A write that fails is a failure to set the LED: led_sysfs.c:164 and 217 *)
(* have "failed to write" and return false.  The code violates it: only    *)
(* fclose writes, and its result is ignored.                               *)
(***************************************************************************)
FailedWritesAreNoticed ==
    \A p \in Procs : owner = p /\ NoIntruder /\ pc[p] = "written" => IsSet(p)

(***************************************************************************)
(* Turning the LED on or off never makes it blink with the default delays: *)
(* the order of the two files depends on the command, since "setting both  *)
(* delay_on and delay_off to 0 will set the LED to blinking"               *)
(* (led_sysfs.c:367-390), whatever state the LED was left in.              *)
(***************************************************************************)
SteadyNeverBlinks ==
    [][\A p \in sure :
          /\ pc[p] \in {"first", "second"} /\ pc'[p] # pc[p]
          /\ cmd[p] \in {"on", "off"}
          => delay' # DefaultBlink \/ delay = DefaultBlink]_vars

(***************************************************************************)
(* Once no more calls are made every call of set_led returns: no process   *)
(* that failed or was killed leaves the LED locked (led_sysfs.c:245-298).  *)
(***************************************************************************)
Called == \E p \in Procs, c \in Commands : Call(p, c)

SettingEnds ==
    <>[][~ Called]_vars => \A p \in Procs : pc[p] # "idle" ~> pc[p] = "idle"
==============================================================================
