--------------------------- MODULE SysfsLedProofs ---------------------------
(***************************************************************************)
(* Proofs about the sysfs backend, for any number of processes that fail,  *)
(* are killed, or go on without the lock.                                  *)
(***************************************************************************)
EXTENDS SysfsLed, TLAPS

Times == {0, 1, 250, 500}

(* How far a call has come that nothing has disturbed.                       *)
Undisturbed(p) ==
    /\ owner = p
    /\ NoIntruder
    /\ pc[p] \in {"first", "second", "written"} => trigger = "timer"
    /\ pc[p] = "second" =>
          delay[FirstFile(cmd[p])] = DelaysOf(cmd[p])[FirstFile(cmd[p])]
    /\ pc[p] = "written" => delay = DelaysOf(cmd[p])

Inv == TypeOK /\ \A p \in sure : Inside(p) => Undisturbed(p)

------------------------------------------------------------------------------
(* The delays of the two files are times, and so is what the kernel makes of *)
(* a file that is written.                                                   *)
LEMMA DelaysAreTimes ==
    /\ \A c \in Commands : DelaysOf(c) \in [Files -> Times]
    /\ DefaultBlink \in [Files -> Times]
    /\ \A c \in Commands : FirstFile(c) \in Files /\ SecondFile(c) \in Files
  BY DEF DelaysOf, Commands, Delays, Files, Times, DefaultBlink, FirstFile, SecondFile

LEMMA EffectiveType ==
    ASSUME NEW d \in [Files -> Times], NEW f \in Files, NEW t \in Times
    PROVE  Effective([d EXCEPT ![f] = t]) \in [Files -> Times]
  BY DelaysAreTimes DEF Effective

(* The first file that a command writes is never 0: the kernel takes it as   *)
(* it is.                                                                    *)
LEMMA FirstWrite ==
    ASSUME NEW c \in Commands, NEW d \in [Files -> Times]
    PROVE  LET f == FirstFile(c)
               e == Effective([d EXCEPT ![f] = DelaysOf(c)[f]])
           IN  /\ e[f] = DelaysOf(c)[f]
               /\ c \in {"on", "off"} => e # DefaultBlink
  <1> DEFINE f == FirstFile(c)
             e == [d EXCEPT ![f] = DelaysOf(c)[f]]
  <1>1. DelaysOf(c)[f] # 0 /\ (c \in {"on", "off"} => DelaysOf(c)[f] = 1)
    BY DEF Commands, DelaysOf, Delays, FirstFile, Files
  <1>2. f \in Files
    BY DelaysAreTimes
  <1>3. e[f] = DelaysOf(c)[f]
    BY <1>2
  <1>4. Effective(e) = e
    BY <1>1, <1>2, <1>3 DEF Effective
  <1>5. DefaultBlink[f] = 500
    BY <1>2 DEF DefaultBlink, Delays
  <1>6. c \in {"on", "off"} => e # DefaultBlink
    BY <1>1, <1>3, <1>5
  <1> QED
    BY <1>3, <1>4, <1>6

(* After the first file, writing the second one completes the command.       *)
LEMMA SecondWrite ==
    ASSUME NEW c \in Commands, NEW d \in [Files -> Times],
           d[FirstFile(c)] = DelaysOf(c)[FirstFile(c)]
    PROVE  Effective([d EXCEPT ![SecondFile(c)] = DelaysOf(c)[SecondFile(c)]])
              = DelaysOf(c)
  <1> DEFINE f == FirstFile(c)
             g == SecondFile(c)
             e == [d EXCEPT ![g] = DelaysOf(c)[g]]
  <1>1. f \in Files /\ g \in Files /\ f # g /\ Files = {f, g}
    BY DEF FirstFile, SecondFile, Files
  <1>2. DelaysOf(c)[f] # 0
    BY DEF Commands, DelaysOf, Delays, FirstFile, Files
  <1>3. DelaysOf(c) \in [Files -> Times]
    BY DelaysAreTimes
  <1>4. e = DelaysOf(c)
    <2>1. e \in [Files -> Times]
      BY <1>1, <1>3
    <2>2. e[f] = DelaysOf(c)[f] /\ e[g] = DelaysOf(c)[g]
      BY <1>1
    <2> QED
      BY <1>1, <1>3, <2>1, <2>2
  <1>5. Effective(e) = e
    BY <1>1, <1>2, <1>4 DEF Effective
  <1> QED
    BY <1>4, <1>5

(* ON and OFF never end in the default blinking.                             *)
LEMMA SteadyIsNoBlink ==
    ASSUME NEW c \in {"on", "off"}
    PROVE  DelaysOf(c) # DefaultBlink
  <1>1. DelaysOf(c)["delay_on"] # DefaultBlink["delay_on"]
    BY DEF DelaysOf, Delays, DefaultBlink, Files
  <1> QED
    BY <1>1

------------------------------------------------------------------------------
LEMMA InitInv == Init => Inv
  <1> SUFFICES ASSUME Init PROVE Inv
    OBVIOUS
  <1>1. delay \in [Files -> {0, 1, 250, 500}]
    BY DelaysAreTimes DEF Init, Times
  <1> QED
    BY <1>1 DEF Init, Inv, TypeOK, Labels, Commands

(* Every step keeps the types.                                               *)
LEMMA StepType == TypeOK /\ [Next]_vars => TypeOK'
  <1> SUFFICES ASSUME TypeOK, [Next]_vars PROVE TypeOK'
    OBVIOUS
  <1> USE ProcsAssumption
  <1>1. CASE UNCHANGED vars
    BY <1>1 DEF TypeOK, vars, Inside
  <1>2. ASSUME NEW p \in Procs, NEW c \in Commands, Call(p, c) PROVE TypeOK'
    BY <1>2 DEF TypeOK, Call, Goto, Inside, Labels
  <1>3. ASSUME NEW p \in Procs, Lock(p) PROVE TypeOK'
    BY <1>3 DEF TypeOK, Lock, Goto, Inside, Labels
  <1>4. ASSUME NEW p \in Procs, LockFails(p) PROVE TypeOK'
    BY <1>4 DEF TypeOK, LockFails, Goto, Inside, Labels
  <1>5. ASSUME NEW p \in Procs, WriteTrigger(p) PROVE TypeOK'
    <2>1. delay' \in [Files -> {0, 1, 250, 500}]
      BY <1>5, DelaysAreTimes DEF TypeOK, WriteTrigger, Times
    <2> QED
      BY <1>5, <2>1 DEF TypeOK, WriteTrigger, Goto, Inside, Labels
  <1>6. ASSUME NEW p \in Procs, NEW from \in {"first", "second"}, NEW file \in Files,
               NEW to \in {"second", "written"}, WriteDelay(p, from, file, to)
        PROVE  TypeOK'
    <2> DEFINE time == DelaysOf(cmd[p])[file]
    <2>1. time \in Times
      BY DelaysAreTimes DEF TypeOK
    <2>2. delay' = Effective([delay EXCEPT ![file] = time])
      BY <1>6 DEF WriteDelay
    <2>3. delay' \in [Files -> {0, 1, 250, 500}]
      <3> HIDE DEF time
      <3>1. delay \in [Files -> Times]
        BY DEF TypeOK, Times
      <3>2. Effective([delay EXCEPT ![file] = time]) \in [Files -> Times]
        BY <2>1, <3>1, EffectiveType
      <3> QED
        BY <2>2, <3>2 DEF Times
    <2>4. pc' = [pc EXCEPT ![p] = to] /\ pc[p] = from /\ UNCHANGED <<cmd, owner, trigger, sure>>
      BY <1>6 DEF WriteDelay, Goto
    <2>5. pc' \in [Procs -> Labels]
      BY <2>4 DEF TypeOK, Labels
    <2>6. owner' \in {q \in Procs : Inside(q)'} \cup {NoProc}
      BY <2>4 DEF TypeOK, Inside
    <2> QED
      BY <2>3, <2>4, <2>5, <2>6 DEF TypeOK
  <1>7. ASSUME NEW p \in Procs, OpenFails(p) PROVE TypeOK'
    BY <1>7 DEF TypeOK, OpenFails, Goto, Inside, Labels
  <1>8. ASSUME NEW p \in Procs, FlushFails(p) PROVE TypeOK'
    BY <1>8 DEF TypeOK, FlushFails, Goto, Inside, Labels
  <1>9. ASSUME NEW p \in Procs, Unlock(p) \/ Kill(p) PROVE TypeOK'
    BY <1>9 DEF TypeOK, Unlock, Kill, Released, Goto, Inside, Labels
  <1>10. ASSUME NEW p \in Procs, WriteFirst(p) \/ WriteSecond(p) PROVE TypeOK'
    <2>1. FirstFile(cmd[p]) \in Files /\ SecondFile(cmd[p]) \in Files
      BY DelaysAreTimes DEF TypeOK
    <2> QED
      BY <1>6, <1>10, <2>1 DEF WriteFirst, WriteSecond
  <1> QED
    BY <1>1, <1>2, <1>3, <1>4, <1>5, <1>7, <1>8, <1>9, <1>10 DEF Next, Advance

(***************************************************************************)
(* Every step keeps undisturbed calls undisturbed: a step of another       *)
(* process either is outside, or makes the call no longer sure.            *)
(***************************************************************************)
LEMMA StepUndisturbed ==
    ASSUME Inv, [Next]_vars, NEW q \in sure', Inside(q)'
    PROVE  Undisturbed(q)'
  <1> USE ProcsAssumption
  <1>1. q \in Procs /\ sure \subseteq Procs /\ cmd \in [Procs -> Commands]
        /\ pc \in [Procs -> Labels] /\ delay \in [Files -> Times]
        /\ owner \in {p \in Procs : Inside(p)} \cup {NoProc}
    BY StepType DEF Inv, TypeOK, Times
  <1>2. q \in sure /\ Inside(q) => Undisturbed(q)
    BY DEF Inv
  <1>3. CASE UNCHANGED vars
    BY <1>2, <1>3 DEF vars, Undisturbed, NoIntruder, Inside
  <1>4. ASSUME NEW p \in Procs, NEW c \in Commands, Call(p, c)
        PROVE  Undisturbed(q)'
    <2>1. p # q /\ q \in sure /\ Inside(q) /\ cmd'[q] = cmd[q] /\ pc'[q] = pc[q]
      BY <1>1, <1>4 DEF Call, Goto, Inside
    <2>2. NoIntruder'
      BY <1>1, <1>2, <1>4, <2>1 DEF Call, Goto, Inside, Undisturbed, NoIntruder
    <2> QED
      BY <1>2, <1>4, <2>1, <2>2 DEF Call, Undisturbed
  <1>5. ASSUME NEW p \in Procs, Lock(p) PROVE Undisturbed(q)'
    <2>1. q = p
      BY <1>1, <1>2, <1>5 DEF Lock, Goto, Inside, Undisturbed
    <2>2. NoIntruder
      BY <1>1, <1>5, <2>1 DEF Lock
    <2>3. NoIntruder'
      BY <1>1, <1>5, <2>2 DEF Lock, Goto, Inside, NoIntruder
    <2> QED
      BY <1>1, <1>5, <2>1, <2>3 DEF Lock, Goto, Undisturbed
  <1>6. ASSUME NEW p \in Procs, LockFails(p) PROVE Undisturbed(q)'
    BY <1>6 DEF LockFails
  <1>7. ASSUME NEW p \in Procs, WriteTrigger(p) PROVE Undisturbed(q)'
    <2>1. q = p /\ Undisturbed(q)
      BY <1>1, <1>2, <1>7 DEF WriteTrigger, Goto, Inside, Undisturbed, NoIntruder
    <2>2. NoIntruder'
      BY <1>1, <1>7, <2>1 DEF WriteTrigger, Goto, Inside, Undisturbed, NoIntruder
    <2> QED
      BY <1>1, <1>7, <2>1, <2>2 DEF WriteTrigger, Goto, Undisturbed
  <1>8. ASSUME NEW p \in Procs, WriteFirst(p) PROVE Undisturbed(q)'
    <2>1. q = p /\ Undisturbed(q)
      BY <1>1, <1>2, <1>8
      DEF WriteFirst, WriteDelay, Goto, Inside, Undisturbed, NoIntruder
    <2>2. NoIntruder'
      BY <1>1, <1>8, <2>1
      DEF WriteFirst, WriteDelay, Goto, Inside, Undisturbed, NoIntruder
    <2>3. delay'[FirstFile(cmd[p])] = DelaysOf(cmd[p])[FirstFile(cmd[p])]
      BY <1>1, <1>8, FirstWrite DEF WriteFirst, WriteDelay
    <2> QED
      BY <1>1, <1>8, <2>1, <2>2, <2>3 DEF WriteFirst, WriteDelay, Goto, Undisturbed
  <1>9. ASSUME NEW p \in Procs, WriteSecond(p) PROVE Undisturbed(q)'
    <2>1. q = p /\ Undisturbed(q)
      BY <1>1, <1>2, <1>9
      DEF WriteSecond, WriteDelay, Goto, Inside, Undisturbed, NoIntruder
    <2>2. NoIntruder'
      BY <1>1, <1>9, <2>1
      DEF WriteSecond, WriteDelay, Goto, Inside, Undisturbed, NoIntruder
    <2>3. delay' = DelaysOf(cmd[p])
      BY <1>1, <1>9, <2>1, SecondWrite DEF WriteSecond, WriteDelay, Undisturbed
    <2> QED
      BY <1>1, <1>9, <2>1, <2>2, <2>3 DEF WriteSecond, WriteDelay, Goto, Undisturbed
  <1>10. ASSUME NEW p \in Procs, OpenFails(p) PROVE Undisturbed(q)'
    <2>1. q = p /\ Undisturbed(q)
      BY <1>1, <1>2, <1>10 DEF OpenFails, Goto, Inside, Undisturbed, NoIntruder
    <2>2. NoIntruder'
      BY <1>1, <1>10, <2>1 DEF OpenFails, Goto, Inside, Undisturbed, NoIntruder
    <2> QED
      BY <1>1, <1>10, <2>1, <2>2 DEF OpenFails, Goto, Undisturbed
  <1>11. ASSUME NEW p \in Procs, FlushFails(p) PROVE Undisturbed(q)'
    <2>1. p # q /\ q \in sure /\ Inside(p)
      BY <1>1, <1>11 DEF FlushFails, Inside
    <2>2. Inside(q)
      BY <1>1, <1>11, <2>1 DEF FlushFails, Goto, Inside
    <2> QED
      BY <1>2, <2>1, <2>2 DEF Undisturbed, NoIntruder
  <1>12. ASSUME NEW p \in Procs, Unlock(p) \/ Kill(p) PROVE Undisturbed(q)'
    <2>1. p # q /\ q \in sure /\ Inside(q) /\ pc'[q] = pc[q]
      BY <1>1, <1>12 DEF Unlock, Kill, Goto, Inside
    <2>2. owner = q /\ owner' = q
      BY <1>1, <1>2, <1>12, <2>1 DEF Unlock, Kill, Released, Undisturbed
    <2>3. NoIntruder'
      BY <1>1, <1>2, <1>12, <2>1, <2>2
      DEF Unlock, Kill, Goto, Inside, Undisturbed, NoIntruder
    <2> QED
      BY <1>2, <1>12, <2>1, <2>2, <2>3 DEF Unlock, Kill, Undisturbed
  <1> QED
    BY <1>3, <1>4, <1>5, <1>6, <1>7, <1>8, <1>9, <1>10, <1>11, <1>12 DEF Next, Advance

LEMMA StepInv == Inv /\ [Next]_vars => Inv'
  BY StepType, StepUndisturbed DEF Inv

LEMMA Invariance == Spec => []Inv
  BY InitInv, StepInv, PTL DEF Spec

(***************************************************************************)
(* The state has its type, and the lock file is held only by a process     *)
(* that is inside set_led, whoever fails or is killed where.               *)
(***************************************************************************)
THEOREM TypeCorrect == Spec => []TypeOK
  <1>1. Inv => TypeOK
    BY DEF Inv
  <1> QED
    BY <1>1, Invariance, PTL

(***************************************************************************)
(* A call that nothing disturbed has set the LED when it returns true,     *)
(* whatever earlier calls of any process left behind.                      *)
(***************************************************************************)
THEOREM SuccessSetsLed == Spec => []SuccessMeansSet
  <1>1. Inv => SuccessMeansSet
    BY DEF Inv, SuccessMeansSet, IsSet, Undisturbed, Inside
  <1> QED
    BY <1>1, Invariance, PTL

(* The step of a call that turns the LED on or off doesn't start a blinking. *)
LEMMA StepNeverBlinks ==
    ASSUME Inv, Next, NEW p \in sure, pc[p] \in {"first", "second"}, pc'[p] # pc[p],
           cmd[p] \in {"on", "off"}, delay' # delay
    PROVE  delay' # DefaultBlink
  <1>1. p \in Procs /\ pc \in [Procs -> Labels] /\ delay \in [Files -> Times]
        /\ cmd \in [Procs -> Commands]
    BY DEF Inv, TypeOK, Times
  <1>2. Undisturbed(p)
    BY DEF Inv, Inside
  <1>3. \A q \in Procs : Goto(q, pc'[q]) => q = p
    BY <1>1 DEF Goto
  <1>4. WriteFirst(p) \/ WriteSecond(p)
    BY <1>1, <1>3 DEF Next, Advance, Call, Lock, LockFails, WriteTrigger, WriteFirst,
       WriteSecond, WriteDelay, OpenFails, FlushFails, Unlock, Kill, Goto
  <1>5. CASE WriteFirst(p)
    BY <1>1, <1>5, FirstWrite DEF WriteFirst, WriteDelay
  <1>6. CASE WriteSecond(p)
    BY <1>1, <1>2, <1>6, SecondWrite, SteadyIsNoBlink
    DEF WriteSecond, WriteDelay, Undisturbed
  <1> QED
    BY <1>4, <1>5, <1>6

(***************************************************************************)
(* Turning the LED on or off never starts the default blinking, in         *)
(* whatever state failed or killed processes left its delays.              *)
(***************************************************************************)
THEOREM SteadyStaysSteady == Spec => SteadyNeverBlinks
  <1> DEFINE Steady == \A p \in sure :
                 /\ pc[p] \in {"first", "second"} /\ pc'[p] # pc[p]
                 /\ cmd[p] \in {"on", "off"}
                 => delay' # DefaultBlink \/ delay = DefaultBlink
  <1>1. Inv /\ [Next]_vars => [Steady]_vars
    BY StepNeverBlinks
  <1> QED
    BY <1>1, Invariance, PTL DEF Spec, SteadyNeverBlinks
==============================================================================
