----------------------------- MODULE ClientProofs -----------------------------
(***************************************************************************)
(* Proofs about what clients of the daemon may rely on.                    *)
(*                                                                         *)
(* LockSession, for every set of clients, commands, LEDs and aliases: what *)
(* a client was told of its locks stays true, although the requests it     *)
(* gave up are handled later.                                              *)
(*                                                                         *)
(* UbusFrontEnd, for any messages with any number of entries, any LEDs,    *)
(* aliases and plugins: what the daemon answers is true.                   *)
(***************************************************************************)
EXTENDS LockSession, UbusFrontEnd, LedControlProofs

(***************************************************************************)
(* Sessions                                                                *)
(***************************************************************************)
Requests == [client : Clients, op : Operations, name : Names, wanted : BOOLEAN]

Invocations == [op : Operations \cup {"none"}, names : Seq(Names),
                answer : {"none", "success", "failure"}]

SessionType ==
    /\ cli \in [Clients -> Invocations]
    /\ inbox \in Seq(Requests)
    /\ held \in [Clients -> SUBSET (Names \X LEDs)]
    /\ \A c \in Clients : Busy(c) => cli[c].op # "none"
    /\ \A c \in Clients : Busy(c) \/ cli[c] = Idle

(***************************************************************************)
(* The inductive invariant.  A request that is still wanted is the one for *)
(* the argument its client is at, and the last one of that client; when an *)
(* answer has come, none of the client's requests is left, so no earlier   *)
(* request can undo what the answer says.  What makes the claims stay true *)
(* is that no unlock request that waits, wanted or not, reaches a LED that *)
(* its client still claims.                                                *)
(***************************************************************************)
Wanted(i) ==
    LET c == inbox[i].client
    IN  /\ Busy(c)
        /\ inbox[i].op = cli[c].op
        /\ inbox[i].name = Head(cli[c].names)
        /\ \A j \in DOMAIN inbox : j > i => inbox[j].client # c

WantedAreCurrent == \A i \in DOMAIN inbox : inbox[i].wanted => Wanted(i)

AnswersAreLast ==
    \A c \in Clients : cli[c].answer # "none" =>
        /\ Busy(c)
        /\ \A i \in DOMAIN inbox : inbox[i].client # c

NoClaimIsBeingUnlocked ==
    \A i \in DOMAIN inbox : inbox[i].op = "unlock" =>
        \A m \in held[inbox[i].client] :
            m[1] \notin Aliases => m[2] \notin LedsOf(inbox[i].name)

(* What an answer of success says of the LEDs behind the argument. *)
SuccessIsTrue(c) ==
    LET name == Head(cli[c].names)
    IN  /\ cli[c].op = "lock" /\ name \notin Aliases =>
              \A l \in LedsOf(name) : leds[l].lock = IdOf[c]
        /\ cli[c].op = "unlock" => \A l \in LedsOf(name) : leds[l].lock # IdOf[c]

AnswersAreTrue == \A c \in Clients : cli[c].answer = "success" => SuccessIsTrue(c)

SessionInv ==
    /\ Inv
    /\ SessionType
    /\ WantedAreCurrent
    /\ AnswersAreLast
    /\ NoClaimIsBeingUnlocked
    /\ ClaimsAreTrue
    /\ AnswersAreTrue

------------------------------------------------------------------------------
(* What one request does to one LED.                                         *)

LEMMA RequestOfClient ==
    ASSUME NEW req \in Requests
    PROVE  /\ IdOf[req.client] \in LockIds
           /\ IdOf[req.client] # NoLock
           /\ SetRequestOf(req) \in RequestType
           /\ SetRequestOf(req).priority = IF req.op = "on" THEN NORMAL ELSE LOCKED
           /\ req.op # "on" => SetRequestOf(req).lock = IdOf[req.client]
<1>1. IdOf[req.client] \in LockIds
  BY ClientsAssumption DEF Requests
<1>2. IdOf[req.client] # NoLock
  BY <1>1, LockAssumption
<1>3. SetRequestOf(req) \in RequestType
  BY <1>1 DEF SetRequestOf, PriorityFor, RequestType, Priorities, LedStates, ON, UNKNOWN,
              FlashTypes
<1>4. QED
  BY <1>1, <1>2, <1>3 DEF SetRequestOf, PriorityFor

LEMMA ReachedByName ==
    ASSUME NEW name \in Names, NEW l \in LEDs
    PROVE  l \in LedsOf(name) <=> Visits(name, l) # 0
<1>1. Visits(name, l) \in {0, 1, 2}
  BY VisitsType
<1>2. QED
  BY <1>1 DEF LedsOf

(* The name of a LED that isn't an alias reaches that LED, All reaches all.  *)
LEMMA LedsOfPlainName ==
    ASSUME NEW name \in Names, name \notin Aliases
    PROVE  name # All => LedsOf(name) \subseteq {name}
BY DEF LedsOf, Visits

(* A request to lock changes only LEDs that are free.                        *)
LEMMA LockOfLed ==
    ASSUME Inv, NEW req \in Requests, NEW broken \in Broken,
           ProcessActivate(req, broken), NEW l \in LEDs
    PROVE  /\ LedInv(leds'[l])
           /\ l \notin LedsOf(req.name) => leds'[l] = leds[l]
           /\ leds[l].lock # NoLock => leds'[l] = leds[l]
           /\ leds'[l].lock # leds[l].lock => leds'[l].lock = IdOf[req.client]
           /\ ~ RefusedRequest(req) /\ l \in LedsOf(req.name) /\ leds[l].lock = NoLock =>
                 leds'[l].lock = IdOf[req.client]
<1> DEFINE r == leds[l]
           k == IdOf[req.client]
<1>1. LedInv(r) /\ r \in LedType
  BY DEF Inv, LedInv
<1>2. k \in LockIds /\ k # NoLock
  BY RequestOfClient
<1>3. req.op = "lock" /\ PriorityFor(req.op) = LOCKED /\ LOCKED \in Priorities
  BY DEF ProcessActivate, PriorityFor, Priorities
<1>4. CASE RefusedRequest(req)
  BY <1>1, <1>4 DEF ProcessActivate
<1>5. CASE ~ RefusedRequest(req)
  <2>1. ActivatePriority(req.name, LOCKED, k, broken) /\ req.name \in Names
    BY <1>3, <1>5 DEF ProcessActivate, Requests
  <2>2. \/ leds'[l] = leds[l] /\ Visits(req.name, l) = 0
        \/ ActivateStep(leds[l], leds'[l], LOCKED, k) /\ Visits(req.name, l) > 0
    BY <2>1, ActivatePriorityOfLed
  <2>3. l \in LedsOf(req.name) <=> Visits(req.name, l) # 0
    BY <2>1, ReachedByName
  <2>4. CASE ActivateStep(leds[l], leds'[l], LOCKED, k) /\ Visits(req.name, l) > 0
    <3>1. PICK ok \in BOOLEAN :
            leds'[l] \in {LockAndActivate(r, LOCKED, k, ok),
                          LockAndActivate(LockAndActivate(r, LOCKED, k, ok), LOCKED, k, ok)}
      BY <2>4, OutcomesType DEF ActivateStep
    <3>2. LedInv(LockAndActivate(r, LOCKED, k, ok))
      BY <1>1, <1>2, <1>3, LockAndActivateInv
    <3>3. r.lock # NoLock => LockAndActivate(r, LOCKED, k, ok) = r
      BY <1>1, <1>2, <1>3, LockAndActivateType
    <3>4. r.lock = NoLock => LockAndActivate(r, LOCKED, k, ok).lock = k
      BY <1>1, <1>2, <1>3, LockAndActivateType
    <3>5. LockAndActivate(LockAndActivate(r, LOCKED, k, ok), LOCKED, k, ok) =
             LockAndActivate(r, LOCKED, k, ok)
      <4> DEFINE once == LockAndActivate(r, LOCKED, k, ok)
      <4>1. once \in LedType /\ once.lock # NoLock
        BY <1>2, <3>2, <3>3, <3>4 DEF LedInv
      <4> HIDE DEF once
      <4>2. LockAndActivate(once, LOCKED, k, ok) = once
        BY <1>2, <1>3, <4>1, LockAndActivateType
      <4>3. QED
        BY <4>2 DEF once
    <3>6. leds'[l] = LockAndActivate(r, LOCKED, k, ok)
      BY <3>1, <3>5
    <3>7. l \in LedsOf(req.name)
      BY <2>3, <2>4
    <3>8. QED
      BY <3>2, <3>3, <3>4, <3>6, <3>7
  <2>5. CASE leds'[l] = leds[l] /\ Visits(req.name, l) = 0
    BY <1>1, <2>3, <2>5
  <2>6. QED
    BY <2>2, <2>4, <2>5
<1>6. QED
  BY <1>4, <1>5

(* A request to unlock changes only LEDs that its client locked.             *)
LEMMA UnlockOfLed ==
    ASSUME Inv, NEW req \in Requests, NEW broken \in Broken,
           ProcessDeactivate(req, broken), NEW l \in LEDs
    PROVE  /\ LedInv(leds'[l])
           /\ l \notin LedsOf(req.name) => leds'[l] = leds[l]
           /\ leds[l].lock # IdOf[req.client] => leds'[l] = leds[l]
           /\ leds[l].lock = IdOf[req.client] /\ l \in LedsOf(req.name) =>
                 leds'[l].lock = NoLock
<1> DEFINE r == leds[l]
           k == IdOf[req.client]
           once(ok) == UnlockAndDeactivate(r, LOCKED, k, ok)
<1>1. LedInv(r) /\ r \in LedType
  BY DEF Inv, LedInv
<1>2. k \in LockIds /\ k # NoLock
  BY RequestOfClient
<1>3. req.op = "unlock" /\ PriorityFor(req.op) = LOCKED /\ LOCKED \in Priorities
  BY DEF ProcessDeactivate, PriorityFor, Priorities
<1>4. DeactivatePriority(req.name, LOCKED, k, broken) /\ req.name \in Names
  BY <1>3 DEF ProcessDeactivate, Requests
<1>5. \/ leds'[l] = leds[l] /\ Visits(req.name, l) = 0
      \/ DeactivateStep(leds[l], leds'[l], LOCKED, k) /\ Visits(req.name, l) > 0
  BY <1>4, DeactivatePriorityOfLed
<1>6. l \in LedsOf(req.name) <=> Visits(req.name, l) # 0
  BY <1>4, ReachedByName
<1>7. CASE DeactivateStep(leds[l], leds'[l], LOCKED, k) /\ Visits(req.name, l) > 0
  <2>1. PICK ok \in BOOLEAN :
          leds'[l] \in {once(ok), UnlockAndDeactivate(once(ok), LOCKED, k, ok)}
    BY <1>7, OutcomesType DEF DeactivateStep
  <2>2. LedInv(once(ok))
    BY <1>1, <1>2, <1>3, UnlockAndDeactivateInv
  <2>3. r.lock # k => once(ok) = r
    BY <1>1, <1>2, <1>3, UnlockAndDeactivateType
  <2>4. r.lock = k => once(ok).lock = NoLock
    BY <1>1, <1>2, <1>3, UnlockAndDeactivateType
  <2>5. once(ok) \in LedType /\ once(ok).lock # k
    BY <1>2, <2>2, <2>3, <2>4 DEF LedInv
  <2> HIDE DEF once
  <2>6. UnlockAndDeactivate(once(ok), LOCKED, k, ok) = once(ok)
    BY <1>2, <1>3, <2>5, UnlockAndDeactivateType
  <2>7. leds'[l] = once(ok)
    BY <2>1, <2>6
  <2>8. l \in LedsOf(req.name)
    BY <1>6, <1>7
  <2>9. QED
    BY <2>2, <2>3, <2>4, <2>7, <2>8
<1>8. CASE leds'[l] = leds[l] /\ Visits(req.name, l) = 0
  BY <1>1, <1>6, <1>8
<1>9. QED
  BY <1>5, <1>7, <1>8

(* A request that isn't allowed to change the LED, or one for NORMAL while   *)
(* LOCKED is active, leaves what the LED shows alone.                        *)
LEMMA OthersOnlyRecord ==
    ASSUME NEW r, LedInv(r), NEW req \in RequestType, NEW ok \in BOOLEAN,
           r.lock # NoLock,
           req.priority = NORMAL \/ (req.priority = LOCKED /\ req.lock # r.lock)
    PROVE  SetLed(r, req, ok).phys = r.phys
<1> SUFFICES ASSUME SetLed(r, req, ok) # r
             PROVE  SetLed(r, req, ok).phys = r.phys
  OBVIOUS
<1> DEFINE p == req.priority
           c == InitialiseFlashing(r.ctx[p], Mapped(req))
           s == InitialState(c, Mapped(req))
           prepared == WithContext(r, p, c)
<1>1. r \in LedType /\ LOCKED \in r.active
  BY DEF LedInv, LockAgrees
<1>2. /\ p \in Priorities /\ c \in Contexts /\ s \in LedStates /\ MayUpdate(r, req)
      /\ SetLed(r, req, ok) = SetState(prepared, p, s, ok)
  BY <1>1, SetLedCases
<1>3. p = NORMAL
  BY <1>2 DEF MayUpdate
<1>4. Highest(r) \in Nat /\ Highest(r) <= LOCKED
  BY <1>1, HighestType, PrioritiesAreNaturals
<1>5. p > Highest(r)
  BY <1>3, <1>4 DEF NORMAL, LOCKED
<1> HIDE DEF p, c, s
<1>6. prepared \in LedType /\ Highest(prepared) = Highest(r) /\ prepared.phys = r.phys
  BY <1>1, <1>2, WithContextRecords
<1> HIDE DEF prepared
<1>7. SetState(prepared, p, s, ok).phys = prepared.phys
  BY <1>2, <1>5, <1>6, OnlyRecorded
<1>8. QED
  BY <1>2, <1>6, <1>7

(* A request to set a state leaves locks alone, and other clients' LEDs.     *)
LEMMA SetOfLed ==
    ASSUME Inv, NEW req \in Requests, NEW broken \in Broken,
           ProcessSet(req, broken), NEW l \in LEDs
    PROVE  /\ LedInv(leds'[l])
           /\ leds'[l].lock = leds[l].lock
           /\ leds[l].lock \notin {NoLock, IdOf[req.client]} =>
                 leds'[l].phys = leds[l].phys
<1> DEFINE r == leds[l]
           set == SetRequestOf(req)
           once(ok) == SetLed(r, set, ok)
<1>1. LedInv(r) /\ r \in LedType
  BY DEF Inv, LedInv
<1>2. /\ set \in RequestType
      /\ set.priority = IF req.op = "on" THEN NORMAL ELSE LOCKED
      /\ req.op # "on" => set.lock = IdOf[req.client]
  BY RequestOfClient
<1> HIDE DEF set
<1>3. SetLedState(req.name, set, broken) /\ req.name \in Names
  BY DEF ProcessSet, set, Requests
<1>4. leds'[l] = leds[l] \/ SetStep(leds[l], leds'[l], set)
  BY <1>3, SetLedStateOfLed
<1>5. CASE SetStep(leds[l], leds'[l], set)
  <2>1. PICK ok \in BOOLEAN : leds'[l] \in {once(ok), SetLed(once(ok), set, ok)}
    BY <1>5, OutcomesType DEF SetStep
  <2>2. LedInv(once(ok)) /\ once(ok).lock = r.lock
    BY <1>1, <1>2, SetLedInv, SetLedType
  <2>3. LedInv(SetLed(once(ok), set, ok)) /\ SetLed(once(ok), set, ok).lock = r.lock
    <3>1. once(ok) \in LedType
      BY <2>2 DEF LedInv
    <3> HIDE DEF once
    <3>2. QED
      BY <1>2, <2>2, <3>1, SetLedInv, SetLedType
  <2>4. ASSUME r.lock \notin {NoLock, IdOf[req.client]}
        PROVE  once(ok).phys = r.phys /\ SetLed(once(ok), set, ok).phys = r.phys
    <3>1. set.priority = NORMAL \/ (set.priority = LOCKED /\ set.lock # r.lock)
      BY <1>2, <2>4
    <3>2. once(ok).phys = r.phys
      BY <1>1, <1>2, <2>4, <3>1, OthersOnlyRecord
    <3> HIDE DEF once
    <3>3. SetLed(once(ok), set, ok).phys = once(ok).phys
      BY <1>2, <2>2, <2>4, <3>1, OthersOnlyRecord
    <3>4. QED
      BY <3>2, <3>3
  <2> HIDE DEF once
  <2>5. QED
    BY <2>1, <2>2, <2>3, <2>4
<1>6. QED
  BY <1>1, <1>4, <1>5

------------------------------------------------------------------------------
(***************************************************************************)
(* What a handler does to the locks, whichever request it handles: it      *)
(* takes no LED from another client and doesn't show anything on one, and  *)
(* takes a LED from its own client only for a request to unlock it.        *)
(***************************************************************************)
Served(req, success) ==
    LET k == IdOf[req.client]
        reached == LedsOf(req.name)
    IN  /\ Inv'
        /\ \A l \in LEDs : leds[l].lock \notin {NoLock, k} =>
              leds'[l].lock = leds[l].lock /\ leds'[l].phys = leds[l].phys
        /\ \A l \in LEDs : leds[l].lock = k /\ ~ (req.op = "unlock" /\ l \in reached) =>
              leds'[l].lock = k
        /\ \A l \in LEDs : leds[l].lock \in {NoLock, k} => leds'[l].lock \in {NoLock, k}
        /\ success /\ req.op = "lock" /\ req.name \notin Aliases =>
              \A l \in reached : leds'[l].lock = k
        /\ success /\ req.op = "unlock" => \A l \in reached : leds'[l].lock # k

LEMMA ActivateServed ==
    ASSUME Inv, NEW req \in Requests, NEW broken \in Broken, ProcessActivate(req, broken)
    PROVE  Served(req, Succeeds(req, Granted(req, broken)))
<1> DEFINE k == IdOf[req.client]
           reached == LedsOf(req.name)
           success == Succeeds(req, Granted(req, broken))
<1>1. k # NoLock /\ req.op = "lock" /\ req.name \in Names
  BY RequestOfClient DEF ProcessActivate, Requests
<1>2. \A l \in LEDs :
        /\ LedInv(leds'[l])
        /\ leds[l].lock # NoLock => leds'[l] = leds[l]
        /\ leds'[l].lock # leds[l].lock => leds'[l].lock = k
        /\ ~ RefusedRequest(req) /\ l \in reached /\ leds[l].lock = NoLock => leds'[l].lock = k
  BY LockOfLed
<1>3. leds' = [l \in LEDs |-> leds'[l]]
  BY DEF ProcessActivate, ActivatePriority, Inv
<1>4. Inv'
  BY <1>2, <1>3 DEF Inv
<1>5. reached \subseteq LEDs
  BY DEF LedsOf
<1>6. ASSUME success, req.name \notin Aliases, NEW l \in reached
      PROVE  leds'[l].lock = k
  <2>1. PICK m \in reached : ~ RefusedRequest(req) /\ leds[m].lock = NoLock
    BY <1>1, <1>6 DEF Succeeds, Granted
  <2>2. leds[l].lock = NoLock
    <3>1. CASE req.name = All
      <4>1. LOCKED \notin leds[l].active
        BY <1>1, <1>5, <2>1, <3>1 DEF RefusedRequest
      <4>2. QED
        BY <1>5, <4>1 DEF Inv, LedInv, LockAgrees
    <3>2. CASE req.name # All
      BY <1>1, <1>6, <2>1, <3>2, LedsOfPlainName
    <3>3. QED
      BY <3>1, <3>2
  <2>3. QED
    BY <1>2, <1>5, <2>1, <2>2
<1> HIDE DEF k, reached, success
<1>7. QED
  BY <1>1, <1>2, <1>4, <1>6 DEF Served, k, reached, success

LEMMA DeactivateServed ==
    ASSUME Inv, NEW req \in Requests, NEW broken \in Broken, ProcessDeactivate(req, broken),
           NEW success
    PROVE  Served(req, success)
<1> DEFINE k == IdOf[req.client]
           reached == LedsOf(req.name)
<1>1. k # NoLock /\ req.op = "unlock"
  BY RequestOfClient DEF ProcessDeactivate
<1>2. \A l \in LEDs :
        /\ LedInv(leds'[l])
        /\ l \notin reached => leds'[l] = leds[l]
        /\ leds[l].lock # k => leds'[l] = leds[l]
        /\ leds[l].lock = k /\ l \in reached => leds'[l].lock = NoLock
  BY UnlockOfLed
<1>3. leds' = [l \in LEDs |-> leds'[l]]
  BY DEF ProcessDeactivate, DeactivatePriority
<1>4. Inv'
  BY <1>2, <1>3 DEF Inv
<1>5. reached \subseteq LEDs
  BY DEF LedsOf
<1> HIDE DEF k, reached
<1>6. QED
  BY <1>1, <1>2, <1>4, <1>5 DEF Served, k, reached

LEMMA SetServed ==
    ASSUME Inv, NEW req \in Requests, NEW broken \in Broken, ProcessSet(req, broken),
           NEW success
    PROVE  Served(req, success)
<1> DEFINE k == IdOf[req.client]
<1>1. k # NoLock /\ req.op \notin {"lock", "unlock"}
  BY RequestOfClient DEF ProcessSet
<1>2. \A l \in LEDs :
        /\ LedInv(leds'[l])
        /\ leds'[l].lock = leds[l].lock
        /\ leds[l].lock \notin {NoLock, k} => leds'[l].phys = leds[l].phys
  BY SetOfLed
<1>3. leds' = [l \in LEDs |-> leds'[l]]
  BY DEF ProcessSet, SetLedState
<1>4. Inv'
  BY <1>2, <1>3 DEF Inv
<1> HIDE DEF k
<1>5. QED
  BY <1>1, <1>2, <1>4 DEF Served, k

LEMMA ElementOfSeq ==
    ASSUME NEW S, NEW q \in Seq(S), NEW i \in DOMAIN q
    PROVE  q[i] \in S
OBVIOUS

LEMMA HeadOfRequests ==
    ASSUME NEW S, NEW q \in Seq(S), q # <<>>
    PROVE  /\ Head(q) \in S /\ Head(q) = q[1] /\ 1 \in DOMAIN q
           /\ Tail(q) \in Seq(S)
           /\ \A i \in DOMAIN Tail(q) : i + 1 \in DOMAIN q /\ Tail(q)[i] = q[i + 1]
OBVIOUS

(* Handled or failed, the first request gets its answer.                     *)
LEMMA FirstIsServed ==
    ASSUME SessionInv, HandleRequest \/ Fail
    PROVE  /\ inbox # <<>>
           /\ Head(inbox) \in Requests
           /\ \E success \in BOOLEAN :
                 Served(Head(inbox), success) /\ Reply(Head(inbox), success)
<1> DEFINE req == Head(inbox)
<1>1. Inv /\ inbox # <<>> /\ req \in Requests
  <2>1. inbox \in Seq(Requests) /\ inbox # <<>> /\ Inv
    BY DEF SessionInv, SessionType, HandleRequest, Fail
  <2>2. QED
    BY <2>1, HeadOfRequests
<1>2. CASE HandleRequest
  <2>1. PICK broken \in Broken :
          /\ \/ ProcessActivate(req, broken)
             \/ ProcessDeactivate(req, broken)
             \/ ProcessSet(req, broken)
          /\ Reply(req, Succeeds(req, Granted(req, broken)))
    BY <1>2 DEF HandleRequest
  <2>2. Succeeds(req, Granted(req, broken)) \in BOOLEAN
    BY DEF Succeeds
  <2> HIDE DEF req
  <2>3. Served(req, Succeeds(req, Granted(req, broken)))
    BY <1>1, <2>1, ActivateServed, DeactivateServed, SetServed
  <2>4. QED
    BY <1>1, <2>1, <2>2, <2>3 DEF req
<1>3. CASE Fail
  <2>1. leds' = leds /\ Reply(req, FALSE)
    BY <1>3 DEF Fail
  <2>2. Inv'
    BY <1>1, <2>1 DEF Inv
  <2>3. \E success \in BOOLEAN : success = FALSE
    OBVIOUS
  <2>4. Served(req, FALSE)
    BY <2>1, <2>2 DEF Served
  <2>5. QED
    BY <1>1, <2>1, <2>3, <2>4
<1>4. QED
  BY <1>2, <1>3

(* The answer to a request keeps the invariant.                              *)
LEMMA ReplyInv ==
    ASSUME SessionInv, inbox # <<>>, NEW success \in BOOLEAN,
           Served(Head(inbox), success), Reply(Head(inbox), success)
    PROVE  SessionInv'
<1> DEFINE req == Head(inbox)
           me == req.client
           answer == IF success THEN "success" ELSE "failure"
<1>1. /\ req \in Requests /\ req = inbox[1] /\ 1 \in DOMAIN inbox
      /\ inbox' \in Seq(Requests)
      /\ \A i \in DOMAIN inbox' : /\ i \in Nat \ {0} /\ i + 1 \in DOMAIN inbox
                                  /\ inbox'[i] = inbox[i + 1]
  <2>1. inbox \in Seq(Requests) /\ inbox' = Tail(inbox)
    BY DEF SessionInv, SessionType, Reply
  <2>2. \A i \in DOMAIN inbox' : i \in Nat \ {0}
    BY <2>1, HeadOfRequests
  <2>3. QED
    BY <2>1, <2>2, HeadOfRequests
<1>2. /\ cli \in [Clients -> Invocations]
      /\ held' = held
      /\ cli' = IF req.wanted THEN [cli EXCEPT ![me].answer = answer] ELSE cli
  BY DEF SessionInv, SessionType, Reply
<1>3. me \in Clients /\ req.wanted \in BOOLEAN
  BY <1>1 DEF Requests
<1>4. /\ cli' \in [Clients -> Invocations]
      /\ \A c \in Clients :
            /\ cli'[c].op = cli[c].op /\ cli'[c].names = cli[c].names
            /\ cli'[c].answer = IF c = me /\ req.wanted THEN answer ELSE cli[c].answer
  BY <1>2, <1>3 DEF Invocations
<1>5. Inv /\ Inv' /\ Served(req, success)
  BY DEF SessionInv, Served
<1> HIDE DEF req, answer
<1>7. req.wanted => Wanted(1)
  BY <1>1 DEF SessionInv, WantedAreCurrent
<1>6. SessionType'
  <2>1. ASSUME NEW c \in Clients PROVE Busy(c)' \/ cli'[c] = Idle
    <3>1. CASE c = me /\ req.wanted
      BY <1>1, <1>4, <1>7, <3>1 DEF Wanted, Busy, req
    <3>2. CASE ~ (c = me /\ req.wanted)
      <4>1. cli'[c] = cli[c]
        BY <1>2, <1>3, <3>2
      <4>2. QED
        BY <4>1 DEF SessionInv, SessionType, Busy
    <3>3. QED
      BY <3>1, <3>2
  <2>2. \A c \in Clients : Busy(c)' => cli'[c].op # "none"
    BY <1>4 DEF SessionInv, SessionType, Busy
  <2>3. QED
    BY <1>1, <1>2, <1>4, <2>1, <2>2 DEF SessionInv, SessionType
<1>8. WantedAreCurrent'
  <2> SUFFICES ASSUME NEW i \in DOMAIN inbox', inbox'[i].wanted
               PROVE  Wanted(i)'
    BY DEF WantedAreCurrent
  <2>1. Wanted(i + 1) /\ i + 1 \in DOMAIN inbox /\ inbox'[i] = inbox[i + 1]
    BY <1>1 DEF SessionInv, WantedAreCurrent
  <2>2. inbox'[i].client \in Clients
    <3>1. inbox'[i] \in Requests
      BY <1>1, ElementOfSeq
    <3>2. QED
      BY <3>1 DEF Requests
  <2>3. ASSUME NEW j \in DOMAIN inbox', j > i
        PROVE  inbox'[j].client # inbox'[i].client
    <3>1. j + 1 \in DOMAIN inbox /\ inbox'[j] = inbox[j + 1] /\ j + 1 > i + 1
      BY <1>1, <2>3
    <3>2. QED
      BY <2>1, <3>1 DEF Wanted
  <2>4. QED
    BY <1>4, <2>1, <2>2, <2>3 DEF Wanted, Busy
<1>9. ASSUME NEW c \in Clients, cli'[c].answer # "none"
      PROVE  Busy(c)' /\ \A i \in DOMAIN inbox' : inbox'[i].client # c
  <2>1. CASE c = me /\ req.wanted
    <3>1. Busy(c) /\ \A j \in DOMAIN inbox : j > 1 => inbox[j].client # c
      BY <1>1, <1>7, <2>1 DEF Wanted
    <3>2. \A i \in DOMAIN inbox' : i + 1 > 1
      BY <1>1
    <3>3. QED
      BY <1>1, <1>4, <3>1, <3>2 DEF Busy
  <2>2. CASE ~ (c = me /\ req.wanted)
    BY <1>1, <1>4, <1>9, <2>2 DEF SessionInv, AnswersAreLast, Busy
  <2>3. QED
    BY <2>1, <2>2
<1>10. AnswersAreLast'
  BY <1>9 DEF AnswersAreLast
<1>11. NoClaimIsBeingUnlocked'
  BY <1>1, <1>2 DEF SessionInv, NoClaimIsBeingUnlocked
<1>12. ClaimsAreTrue'
  <2> SUFFICES ASSUME NEW c \in Clients, NEW m \in held[c], m[1] \notin Aliases
               PROVE  leds'[m[2]].lock = IdOf[c]
    BY <1>2 DEF ClaimsAreTrue
  <2>1. leds[m[2]].lock = IdOf[c] /\ m[2] \in LEDs
    BY DEF SessionInv, SessionType, ClaimsAreTrue
  <2>2. CASE c = me
    <3>1. ~ (req.op = "unlock" /\ m[2] \in LedsOf(req.name))
      BY <1>1, <2>2 DEF SessionInv, NoClaimIsBeingUnlocked
    <3>2. QED
      BY <1>5, <2>1, <2>2, <3>1 DEF Served
  <2>3. CASE c # me
    <3>1. IdOf[c] # IdOf[me] /\ IdOf[c] # NoLock
      BY <1>3, <2>3, ClientsAssumption, LockAssumption
    <3>2. QED
      BY <1>5, <2>1, <3>1 DEF Served
  <2>4. QED
    BY <2>2, <2>3
<1>13. AnswersAreTrue'
  <2> SUFFICES ASSUME NEW c \in Clients, cli'[c].answer = "success"
               PROVE  SuccessIsTrue(c)'
    BY DEF AnswersAreTrue
  <2> DEFINE name == Head(cli[c].names)
  <2>1. cli'[c].op = cli[c].op /\ Head(cli'[c].names) = name
    BY <1>4
  <2>2. CASE c = me /\ req.wanted
    <3>1. success
      BY <1>4, <2>2 DEF answer
    <3>2. req.op = cli[c].op /\ req.name = name
      BY <1>1, <1>7, <2>2 DEF Wanted
    <3>3. QED
      BY <1>5, <2>1, <2>2, <3>1, <3>2 DEF Served, SuccessIsTrue
  <2>3. CASE ~ (c = me /\ req.wanted)
    <3>1. cli[c].answer = "success" /\ SuccessIsTrue(c)
      BY <1>4, <2>3 DEF SessionInv, AnswersAreTrue
    <3>2. c # me
      BY <1>1, <3>1 DEF SessionInv, AnswersAreLast
    <3>3. IdOf[c] # IdOf[me] /\ IdOf[c] # NoLock
      BY <1>3, <3>2, ClientsAssumption, LockAssumption
    <3>4. LedsOf(name) \subseteq LEDs
      BY DEF LedsOf
    <3>5. \A l \in LEDs : leds[l].lock = IdOf[c] => leds'[l].lock = IdOf[c]
      BY <1>5, <3>3 DEF Served
    <3>6. \A l \in LEDs : leds[l].lock # IdOf[c] => leds'[l].lock # IdOf[c]
      BY <1>5, <3>3 DEF Served
    <3>7. QED
      BY <2>1, <3>1, <3>4, <3>5, <3>6 DEF SuccessIsTrue
  <2>4. QED
    BY <2>2, <2>3
<1>14. QED
  BY <1>5, <1>6, <1>8, <1>10, <1>11, <1>12, <1>13 DEF SessionInv

------------------------------------------------------------------------------
(***************************************************************************)
(* The steps of clients.  A client that sends its next request, or exits,  *)
(* leaves behind the requests that waited: none of its own is still wanted.*)
(***************************************************************************)
LeavesBehind(c, waiting) ==
    /\ waiting \in Seq(Requests)
    /\ DOMAIN waiting = DOMAIN inbox
    /\ \A i \in DOMAIN inbox :
          /\ waiting[i].client = inbox[i].client
          /\ waiting[i].op = inbox[i].op
          /\ waiting[i].name = inbox[i].name
          /\ waiting[i].wanted => inbox[i].wanted /\ inbox[i].client # c

(* What a client may claim while these requests wait.                        *)
Tenable(c, claims) ==
    /\ claims \subseteq Names \X LEDs
    /\ \A m \in claims : m[1] \notin Aliases =>
          /\ leds[m[2]].lock = IdOf[c]
          /\ \A i \in DOMAIN inbox :
                inbox[i].client = c /\ inbox[i].op = "unlock" =>
                    m[2] \notin LedsOf(inbox[i].name)

LEMMA AppendedElements ==
    ASSUME NEW S, NEW q \in Seq(S), NEW e \in S
    PROVE  /\ Append(q, e) \in Seq(S)
           /\ DOMAIN q \subseteq Nat
           /\ DOMAIN Append(q, e) = DOMAIN q \cup {Len(q) + 1}
           /\ Append(q, e)[Len(q) + 1] = e
           /\ \A i \in DOMAIN q : i < Len(q) + 1 /\ Append(q, e)[i] = q[i]
OBVIOUS

LEMMA ClientsOfRequests ==
    ASSUME SessionType, NEW i \in DOMAIN inbox
    PROVE  inbox[i].client \in Clients
<1>1. inbox[i] \in Requests
  BY ElementOfSeq DEF SessionType
<1>2. QED
  BY <1>1 DEF Requests

LEMMA SendInv ==
    ASSUME SessionInv, leds' = leds, NEW c \in Clients, NEW waiting, LeavesBehind(c, waiting),
           NEW claims, Tenable(c, claims), NEW x \in Invocations,
           x.answer = "none", x.names # <<>>, x.op \in Operations,
           NEW name, name = Head(x.names), name \in Names,
           cli' = [cli EXCEPT ![c] = x],
           inbox' = Append(waiting, NewRequest(c, x.op, name)),
           held' = [held EXCEPT ![c] = AfterAsking(claims, x.op, name)]
    PROVE  SessionInv'
<1> DEFINE new == NewRequest(c, x.op, name)
           last == Len(waiting) + 1
           left == AfterAsking(claims, x.op, name)
<1>1. /\ Inv /\ SessionType
      /\ cli \in [Clients -> Invocations] /\ held \in [Clients -> SUBSET (Names \X LEDs)]
  BY DEF SessionInv, SessionType
<1>2. new \in Requests
  BY DEF NewRequest, Requests
<1>3. /\ inbox' \in Seq(Requests)
      /\ DOMAIN inbox \subseteq Nat
      /\ DOMAIN inbox' = DOMAIN inbox \cup {last}
      /\ inbox'[last] = new
      /\ \A i \in DOMAIN inbox : i < last /\ inbox'[i] = waiting[i]
  BY <1>2, AppendedElements DEF LeavesBehind
<1>4. left \subseteq claims
  BY DEF AfterAsking
<1>5. /\ cli' \in [Clients -> Invocations] /\ cli'[c] = x
      /\ \A d \in Clients : d # c => cli'[d] = cli[d]
  BY <1>1
<1>6. /\ held' \in [Clients -> SUBSET (Names \X LEDs)] /\ held'[c] = left
      /\ \A d \in Clients : d # c => held'[d] = held[d]
  <2>1. left \in SUBSET (Names \X LEDs)
    BY <1>4 DEF Tenable
  <2>2. held' = [held EXCEPT ![c] = left]
    OBVIOUS
  <2> HIDE DEF left
  <2>3. QED
    BY <1>1, <2>1, <2>2
<1>7. new.client = c /\ new.op = x.op /\ new.name = name
  BY DEF NewRequest
<1> HIDE DEF new, last
<1>8. Inv'
  BY <1>1 DEF Inv
<1>9. SessionType'
  <2>1. "none" \notin Operations
    BY DEF Operations
  <2>2. \A d \in Clients : Busy(d)' => cli'[d].op # "none"
    BY <1>1, <1>5, <2>1 DEF SessionType, Busy
  <2>3. \A d \in Clients : Busy(d)' \/ cli'[d] = Idle
    BY <1>1, <1>5 DEF SessionType, Busy
  <2>4. QED
    BY <1>3, <1>5, <1>6, <2>2, <2>3 DEF SessionType
<1>10. WantedAreCurrent'
  <2> SUFFICES ASSUME NEW i \in DOMAIN inbox', inbox'[i].wanted
               PROVE  Wanted(i)'
    BY DEF WantedAreCurrent
  <2>1. CASE i = last
    <3>1. \A j \in DOMAIN inbox' : ~ (j > i)
      BY <1>3, <2>1
    <3>2. QED
      BY <1>3, <1>5, <1>7, <2>1, <3>1 DEF Wanted, Busy
  <2>2. CASE i # last
    <3> DEFINE d == inbox[i].client
    <3>1. /\ i \in DOMAIN inbox /\ inbox'[i] = waiting[i]
          /\ waiting[i].client = d /\ d # c
          /\ waiting[i].op = inbox[i].op /\ waiting[i].name = inbox[i].name
          /\ inbox[i].wanted
      BY <1>3, <2>2 DEF LeavesBehind
    <3>2. Wanted(i)
      BY <3>1 DEF SessionInv, WantedAreCurrent
    <3>3. d \in Clients
      BY <1>1, <3>1, ClientsOfRequests
    <3>4. ASSUME NEW j \in DOMAIN inbox', j > i
          PROVE  inbox'[j].client # d
      <4>1. CASE j = last
        BY <1>3, <1>7, <3>1, <4>1
      <4>2. CASE j # last
        <5>1. j \in DOMAIN inbox /\ inbox'[j] = waiting[j]
          BY <1>3, <4>2
        <5>2. inbox[j].client # d
          BY <3>2, <3>4, <5>1 DEF Wanted
        <5>3. QED
          BY <5>1, <5>2 DEF LeavesBehind
      <4>3. QED
        BY <4>1, <4>2
    <3>5. cli'[d] = cli[d]
      BY <1>5, <3>1, <3>3
    <3>6. QED
      BY <3>1, <3>2, <3>4, <3>5 DEF Wanted, Busy
  <2>3. QED
    BY <2>1, <2>2
<1>11. AnswersAreLast'
  <2> SUFFICES ASSUME NEW d \in Clients, cli'[d].answer # "none"
               PROVE  Busy(d)' /\ \A i \in DOMAIN inbox' : inbox'[i].client # d
    BY DEF AnswersAreLast
  <2>1. d # c /\ cli'[d] = cli[d]
    BY <1>5
  <2>2. Busy(d) /\ \A i \in DOMAIN inbox : inbox[i].client # d
    BY <2>1 DEF SessionInv, AnswersAreLast
  <2>3. QED
    BY <1>3, <1>7, <2>1, <2>2 DEF Busy, LeavesBehind
<1>12. NoClaimIsBeingUnlocked'
  <2> SUFFICES ASSUME NEW i \in DOMAIN inbox', inbox'[i].op = "unlock",
                      NEW m \in held'[inbox'[i].client], m[1] \notin Aliases
               PROVE  m[2] \notin LedsOf(inbox'[i].name)
    BY DEF NoClaimIsBeingUnlocked
  <2>1. CASE i = last
    BY <1>3, <1>6, <1>7, <2>1 DEF AfterAsking
  <2>2. CASE i # last
    <3> DEFINE d == inbox[i].client
    <3>1. /\ i \in DOMAIN inbox /\ inbox'[i].client = d
          /\ inbox[i].op = "unlock" /\ inbox'[i].name = inbox[i].name
      BY <1>3, <2>2 DEF LeavesBehind
    <3>2. d \in Clients
      BY <1>1, <3>1, ClientsOfRequests
    <3>3. CASE d = c
      BY <1>4, <1>6, <3>1, <3>3 DEF Tenable
    <3>4. CASE d # c
      BY <1>6, <3>1, <3>2, <3>4 DEF SessionInv, NoClaimIsBeingUnlocked
    <3>5. QED
      BY <3>3, <3>4
  <2>3. QED
    BY <2>1, <2>2
<1>13. ClaimsAreTrue'
  BY <1>4, <1>6 DEF SessionInv, ClaimsAreTrue, Tenable
<1>14. AnswersAreTrue'
  BY <1>5 DEF SessionInv, AnswersAreTrue, SuccessIsTrue
<1>15. QED
  BY <1>8, <1>9, <1>10, <1>11, <1>12, <1>13, <1>14 DEF SessionInv

LEMMA ExitInv ==
    ASSUME SessionInv, leds' = leds, NEW c \in Clients, NEW waiting, LeavesBehind(c, waiting),
           NEW claims, Tenable(c, claims),
           cli' = [cli EXCEPT ![c] = Idle],
           inbox' = waiting,
           held' = [held EXCEPT ![c] = claims]
    PROVE  SessionInv'
<1>1. /\ Inv /\ SessionType
      /\ cli \in [Clients -> Invocations] /\ held \in [Clients -> SUBSET (Names \X LEDs)]
  BY DEF SessionInv, SessionType
<1>2. /\ inbox' \in Seq(Requests) /\ DOMAIN inbox' = DOMAIN inbox
      /\ \A i \in DOMAIN inbox : inbox[i].client \in Clients
  BY <1>1, ClientsOfRequests DEF LeavesBehind
<1>3. Idle \in Invocations /\ Idle.names = <<>> /\ Idle.answer = "none"
  <2>1. <<>> \in Seq(Names)
    OBVIOUS
  <2>2. QED
    BY <2>1 DEF Idle, Invocations
<1>4. /\ cli' \in [Clients -> Invocations] /\ cli'[c] = Idle
      /\ \A d \in Clients : d # c => cli'[d] = cli[d]
  BY <1>1, <1>3
<1>5. /\ held' \in [Clients -> SUBSET (Names \X LEDs)] /\ held'[c] = claims
      /\ \A d \in Clients : d # c => held'[d] = held[d]
  BY <1>1 DEF Tenable
<1>6. Inv'
  BY <1>1 DEF Inv
<1>7. SessionType'
  BY <1>1, <1>2, <1>3, <1>4, <1>5 DEF SessionType, Busy
<1>8. WantedAreCurrent'
  <2> SUFFICES ASSUME NEW i \in DOMAIN inbox', inbox'[i].wanted
               PROVE  Wanted(i)'
    BY DEF WantedAreCurrent
  <2> DEFINE d == inbox[i].client
  <2>1. /\ i \in DOMAIN inbox /\ inbox'[i].client = d /\ d # c
        /\ inbox'[i].op = inbox[i].op /\ inbox'[i].name = inbox[i].name
        /\ inbox[i].wanted
    BY <1>2 DEF LeavesBehind
  <2>2. Wanted(i)
    BY <2>1 DEF SessionInv, WantedAreCurrent
  <2>3. cli'[d] = cli[d]
    BY <1>2, <1>4, <2>1
  <2>4. \A j \in DOMAIN inbox' : inbox'[j].client = inbox[j].client
    BY <1>2 DEF LeavesBehind
  <2>5. QED
    BY <1>2, <2>1, <2>2, <2>3, <2>4 DEF Wanted, Busy
<1>9. AnswersAreLast'
  BY <1>2, <1>3, <1>4 DEF SessionInv, AnswersAreLast, Busy, LeavesBehind
<1>10. NoClaimIsBeingUnlocked'
  <2> SUFFICES ASSUME NEW i \in DOMAIN inbox', inbox'[i].op = "unlock",
                      NEW m \in held'[inbox'[i].client], m[1] \notin Aliases
               PROVE  m[2] \notin LedsOf(inbox'[i].name)
    BY DEF NoClaimIsBeingUnlocked
  <2> DEFINE d == inbox[i].client
  <2>1. /\ i \in DOMAIN inbox /\ inbox'[i].client = d /\ d \in Clients
        /\ inbox[i].op = "unlock" /\ inbox'[i].name = inbox[i].name
    BY <1>2 DEF LeavesBehind
  <2>2. CASE d = c
    BY <1>5, <2>1, <2>2 DEF Tenable
  <2>3. CASE d # c
    BY <1>5, <2>1, <2>3 DEF SessionInv, NoClaimIsBeingUnlocked
  <2>4. QED
    BY <2>2, <2>3
<1>11. ClaimsAreTrue'
  BY <1>5 DEF SessionInv, ClaimsAreTrue, Tenable
<1>12. AnswersAreTrue'
  BY <1>3, <1>4 DEF SessionInv, AnswersAreTrue, SuccessIsTrue
<1>13. QED
  BY <1>6, <1>7, <1>8, <1>9, <1>10, <1>11, <1>12 DEF SessionInv

LEMMA NamesOfInvocation ==
    ASSUME NEW names \in Seq(Names), names # <<>>
    PROVE  /\ Head(names) \in Names
           /\ Tail(names) \in Seq(Names)
OBVIOUS

LEMMA ProceedInv ==
    ASSUME SessionInv, NEW c \in Clients, Busy(c), NEW success, NEW claims, NEW waiting,
           Proceed(c, success, claims, waiting),
           LeavesBehind(c, waiting), Tenable(c, claims)
    PROVE  SessionInv'
<1> DEFINE rest == Tail(cli[c].names)
           op == cli[c].op
           x == [cli[c] EXCEPT !.names = rest, !.answer = "none"]
<1>1. /\ leds' = leds /\ cli \in [Clients -> Invocations]
      /\ cli[c] \in Invocations /\ cli[c].names # <<>> /\ op # "none"
  BY DEF SessionInv, SessionType, Proceed, Busy
<1>2. rest \in Seq(Names) /\ op \in Operations
  BY <1>1, NamesOfInvocation DEF Invocations
<1>3. CASE rest # <<>> /\ GoesOn(op, success)
  <2> DEFINE name == Head(rest)
  <2>1. name \in Names
    BY <1>2, <1>3, NamesOfInvocation
  <2>2. /\ cli' = [cli EXCEPT ![c].names = rest, ![c].answer = "none"]
        /\ inbox' = Append(waiting, NewRequest(c, op, name))
        /\ held' = [held EXCEPT ![c] = AfterAsking(claims, op, name)]
    BY <1>3 DEF Proceed
  <2> HIDE DEF rest
  <2>3. /\ x \in Invocations /\ x.answer = "none" /\ x.names = rest /\ x.op = op
        /\ cli' = [cli EXCEPT ![c] = x]
    BY <1>1, <1>2, <2>2 DEF Invocations
  <2>4. x.names # <<>> /\ name = Head(x.names)
    BY <1>3, <2>3
  <2> HIDE DEF x, op, name
  <2>5. QED
    BY <1>1, <1>2, <2>1, <2>2, <2>3, <2>4, SendInv
<1>4. CASE ~ (rest # <<>> /\ GoesOn(op, success))
  <2>1. /\ cli' = [cli EXCEPT ![c] = Idle]
        /\ inbox' = waiting
        /\ held' = [held EXCEPT ![c] = claims]
    BY <1>4 DEF Proceed
  <2>2. QED
    BY <1>1, <2>1, ExitInv
<1>5. QED
  BY <1>3, <1>4

(* What a client claims already is tenable, and its requests are its last.   *)
LEMMA HeldIsTenable ==
    ASSUME SessionInv, NEW c \in Clients
    PROVE  Tenable(c, held[c])
<1>1. held[c] \subseteq Names \X LEDs
  BY DEF SessionInv, SessionType
<1>2. QED
  BY <1>1 DEF SessionInv, NoClaimIsBeingUnlocked, ClaimsAreTrue, Tenable

LEMMA StartInv ==
    ASSUME SessionInv, NEW c \in Clients, NEW command \in Commands, Start(c, command)
    PROVE  SessionInv'
<1> DEFINE x == [op |-> command.op, names |-> command.names, answer |-> "none"]
           name == Head(command.names)
<1>1. /\ command.op \in Operations /\ command.names \in Seq(Names)
      /\ command.names # <<>>
  BY ClientsAssumption
<1>2. name \in Names
  BY <1>1, NamesOfInvocation
<1>3. x \in Invocations
  BY <1>1 DEF Invocations
<1>4. LeavesBehind(c, inbox)
  <2>1. ASSUME NEW i \in DOMAIN inbox, inbox[i].wanted PROVE inbox[i].client # c
    BY <2>1 DEF SessionInv, WantedAreCurrent, Wanted, Start
  <2>2. QED
    BY <2>1 DEF SessionInv, SessionType, LeavesBehind
<1>5. Tenable(c, held[c])
  BY HeldIsTenable
<1>6. /\ leds' = leds
      /\ cli' = [cli EXCEPT ![c] = x]
      /\ inbox' = Append(inbox, NewRequest(c, command.op, name))
      /\ held' = [held EXCEPT ![c] = AfterAsking(held[c], command.op, name)]
  BY DEF Start
<1>7. x.op = command.op /\ x.names = command.names /\ x.answer = "none"
  OBVIOUS
<1> HIDE DEF x
<1>8. QED
  BY <1>1, <1>2, <1>3, <1>4, <1>5, <1>6, <1>7, SendInv

LEMMA ReceiveInv ==
    ASSUME SessionInv, NEW c \in Clients, Receive(c)
    PROVE  SessionInv'
<1> DEFINE name == Head(cli[c].names)
           success == cli[c].answer = "success"
           won == IF success /\ cli[c].op = "lock" THEN {name} \X LedsOf(name) ELSE {}
<1>1. /\ Busy(c) /\ cli[c].answer # "none"
      /\ Proceed(c, success, held[c] \cup won, inbox)
  BY DEF Receive
<1>2. \A i \in DOMAIN inbox : inbox[i].client # c
  BY <1>1 DEF SessionInv, AnswersAreLast
<1>3. LeavesBehind(c, inbox)
  BY <1>2 DEF LeavesBehind, SessionInv, SessionType
<1>4. name \in Names
  <2>1. cli[c] \in Invocations /\ cli[c].names # <<>>
    BY <1>1 DEF SessionInv, SessionType, Busy
  <2>2. QED
    BY <2>1, NamesOfInvocation DEF Invocations
<1>5. ASSUME NEW m \in won
      PROVE  /\ m \in Names \X LEDs
             /\ m[1] \notin Aliases => leds[m[2]].lock = IdOf[c]
  <2>1. success /\ cli[c].op = "lock" /\ m \in {name} \X LedsOf(name)
    BY <1>5
  <2>2. m[1] = name /\ m[2] \in LedsOf(name) /\ m = <<m[1], m[2]>>
    BY <2>1
  <2>3. m \in Names \X LEDs
    BY <1>4, <2>2 DEF LedsOf
  <2>4. name \notin Aliases => leds[m[2]].lock = IdOf[c]
    BY <2>1, <2>2 DEF SessionInv, AnswersAreTrue, SuccessIsTrue
  <2>5. QED
    BY <2>2, <2>3, <2>4
<1>6. Tenable(c, held[c] \cup won)
  <2>1. Tenable(c, held[c])
    BY HeldIsTenable
  <2> HIDE DEF won
  <2>2. QED
    BY <1>2, <1>5, <2>1 DEF Tenable
<1> HIDE DEF won, success
<1>7. QED
  BY <1>1, <1>3, <1>6, ProceedInv

LEMMA GiveUpInv ==
    ASSUME SessionInv, NEW c \in Clients, GiveUp(c)
    PROVE  SessionInv'
<1> DEFINE waiting == [i \in DOMAIN inbox |->
                         IF inbox[i].client = c THEN [inbox[i] EXCEPT !.wanted = FALSE]
                         ELSE inbox[i]]
<1>1. Busy(c) /\ Proceed(c, FALSE, held[c], waiting)
  BY DEF GiveUp
<1>2. inbox \in Seq(Requests)
  BY DEF SessionInv, SessionType
<1>3. ASSUME NEW i \in DOMAIN inbox
      PROVE  /\ waiting[i] \in Requests
             /\ waiting[i].client = inbox[i].client
             /\ waiting[i].op = inbox[i].op
             /\ waiting[i].name = inbox[i].name
             /\ waiting[i].wanted => inbox[i].wanted /\ inbox[i].client # c
  <2>1. inbox[i] \in Requests
    BY <1>2, ElementOfSeq
  <2>2. QED
    BY <2>1 DEF Requests
<1>4. waiting \in Seq(Requests) /\ DOMAIN waiting = DOMAIN inbox
  <2>1. DOMAIN waiting = 1 .. Len(inbox) /\ Len(inbox) \in Nat
    BY <1>2
  <2>2. waiting = [i \in 1 .. Len(inbox) |-> waiting[i]]
    BY <1>2
  <2> HIDE DEF waiting
  <2>3. \A i \in 1 .. Len(inbox) : waiting[i] \in Requests
    BY <1>3, <2>1
  <2>4. waiting \in Seq(Requests)
    BY <2>1, <2>2, <2>3
  <2>5. QED
    BY <1>2, <2>1, <2>4
<1> HIDE DEF waiting
<1>5. LeavesBehind(c, waiting)
  BY <1>3, <1>4 DEF LeavesBehind
<1>6. \E success \in BOOLEAN : success = FALSE
  OBVIOUS
<1>7. Tenable(c, held[c])
  BY HeldIsTenable
<1>8. QED
  BY <1>1, <1>5, <1>6, <1>7, ProceedInv

LEMMA ClientInitInv == ClientInit => SessionInv
<1> SUFFICES ASSUME ClientInit PROVE SessionInv
  OBVIOUS
<1>1. Inv
  BY InitInv DEF ClientInit
<1>2. /\ inbox = <<>> /\ inbox \in Seq(Requests) /\ DOMAIN inbox = {}
      /\ held = [c \in Clients |-> {}]
      /\ cli = [c \in Clients |-> Idle]
  BY DEF ClientInit
<1>3. Idle \in Invocations /\ Idle.names = <<>> /\ Idle.answer = "none"
  <2>1. <<>> \in Seq(Names)
    OBVIOUS
  <2>2. QED
    BY <2>1 DEF Idle, Invocations
<1>4. SessionType
  BY <1>2, <1>3 DEF SessionType, Busy
<1>5. QED
  BY <1>1, <1>2, <1>3, <1>4 DEF SessionInv, WantedAreCurrent, AnswersAreLast,
     NoClaimIsBeingUnlocked, ClaimsAreTrue, AnswersAreTrue

LEMMA ClientNextInv == SessionInv /\ [ClientNext]_clientVars => SessionInv'
<1> SUFFICES ASSUME SessionInv, [ClientNext]_clientVars PROVE SessionInv'
  OBVIOUS
<1>1. CASE HandleRequest \/ Fail
  BY <1>1, FirstIsServed, ReplyInv
<1>2. ASSUME NEW c \in Clients, NEW command \in Commands, Start(c, command)
      PROVE  SessionInv'
  BY <1>2, StartInv
<1>3. ASSUME NEW c \in Clients, Receive(c)
      PROVE  SessionInv'
  BY <1>3, ReceiveInv
<1>4. ASSUME NEW c \in Clients, GiveUp(c)
      PROVE  SessionInv'
  BY <1>4, GiveUpInv
<1>5. CASE UNCHANGED clientVars
  BY <1>5 DEF clientVars, SessionInv, Inv, SessionType, WantedAreCurrent, Wanted, Busy,
     AnswersAreLast, NoClaimIsBeingUnlocked, ClaimsAreTrue, AnswersAreTrue, SuccessIsTrue
<1>6. QED
  BY <1>1, <1>2, <1>3, <1>4, <1>5 DEF ClientNext

LEMMA SessionInvHolds == ClientSpec => []SessionInv
BY ClientInitInv, ClientNextInv, PTL DEF ClientSpec

------------------------------------------------------------------------------
(* The LEDs, the clients' invocations, the requests that wait and the claims *)
(* keep their types.                                                         *)
THEOREM SessionTypeCorrect == ClientSpec => []ClientTypeOK
<1>1. SessionInv => ClientTypeOK
  BY DEF SessionInv, SessionType, Requests, Invocations, ClientTypeOK, Inv, LedInv, LedType,
         TypeOK
<1>2. QED
  BY <1>1, SessionInvHolds, PTL

(* What a client was told it locked, and hasn't asked to release, it holds.  *)
THEOREM ClaimsStayTrue == ClientSpec => []ClaimsAreTrue
<1>1. SessionInv => ClaimsAreTrue
  BY DEF SessionInv
<1>2. QED
  BY <1>1, SessionInvHolds, PTL

(* Nothing that other clients ask for shows on a LED that a client holds.    *)
THEOREM LockedLedsAreLeftAlone == ClientSpec => OthersLeaveLockedLedsAlone
<1> DEFINE Alone(c, m) ==
             m[1] \notin Aliases /\ leds'[m[2]].phys # leds[m[2]].phys
                => Head(inbox).client = c
<1>1. ASSUME SessionInv, [ClientNext]_clientVars,
             NEW c \in Clients, NEW m \in held[c] \cap held'[c]
      PROVE  Alone(c, m)
  <2> SUFFICES ASSUME m[1] \notin Aliases, leds'[m[2]] # leds[m[2]],
                      leds'[m[2]].phys # leds[m[2]].phys, Head(inbox).client # c
               PROVE  FALSE
    OBVIOUS
  <2>1. leds[m[2]].lock = IdOf[c] /\ m[2] \in LEDs
    BY <1>1 DEF SessionInv, SessionType, ClaimsAreTrue
  <2>2. HandleRequest \/ Fail
    BY <1>1 DEF ClientNext, clientVars, Start, Receive, GiveUp, Proceed
  <2>3. PICK success \in BOOLEAN : Served(Head(inbox), success)
    BY <1>1, <2>2, FirstIsServed
  <2>4. Head(inbox).client \in Clients
    BY <1>1, <2>2, FirstIsServed DEF Requests
  <2>5. IdOf[c] # IdOf[Head(inbox).client] /\ IdOf[c] # NoLock
    BY <2>4, ClientsAssumption, LockAssumption
  <2>6. QED
    BY <2>1, <2>3, <2>5 DEF Served
<1>2. SessionInv /\ [ClientNext]_clientVars =>
         [\A c \in Clients : \A m \in held[c] \cap held'[c] : Alone(c, m)]_clientVars
  BY <1>1
<1>3. QED
  BY <1>2, SessionInvHolds, PTL DEF ClientSpec, OthersLeaveLockedLedsAlone

(* A client that is told that it released a name holds none of its LEDs.     *)
THEOREM ReleasesAreTrue == ClientSpec => ReleasedMeansReleased
<1> DEFINE Released(c) ==
             Receive(c) /\ cli[c].op = "unlock" /\ cli[c].answer = "success"
                => \A l \in LedsOf(Head(cli[c].names)) : leds[l].lock # IdOf[c]
<1>1. SessionInv => \A c \in Clients : Released(c)
  BY DEF SessionInv, AnswersAreTrue, SuccessIsTrue
<1>2. SessionInv => [\A c \in Clients : Released(c)]_clientVars
  BY <1>1
<1>3. QED
  BY <1>2, SessionInvHolds, PTL DEF ClientSpec, ReleasedMeansReleased
------------------------------------------------------------------------------
(***************************************************************************)
(* Messages.  The argument goes from one visit of a LED by an entry, to an *)
(* entry, and through the entries of a message: every result is true when  *)
(* it is made, and whatever the message does later to the LED keeps it     *)
(* true.                                                                   *)
(***************************************************************************)
(* What entries of these methods need in order not to be refused.            *)
Allowed(method, e) ==
    method \in {"activate", "deactivate"} =>
        Priority(e) \in Priorities /\ (Priority(e) = LOCKED => e.lock # Missing)

(* A result q of an entry e for LED l is true of its record r.               *)
IsTrue(method, l, e, q, r) ==
    /\ method = "get" /\ q.success => \E told \in BOOLEAN : q = GetResult(l, r, told)
    /\ method = "set" /\ q.success /\ IsSteadyRequest(e) =>
          /\ Priority(e) \in Priorities /\ MayUpdate(r, RequestOf(e))
          /\ r.ctx[Priority(e)].state = e.state
    /\ method = "activate" /\ Priority(e) = LOCKED /\ e.lock # Missing =>
          /\ r.lock # NoLock /\ r.lock = q.lock
          /\ q.success => q.lock = e.lock
    /\ method = "deactivate" /\ Priority(e) = LOCKED /\ q.success => r.lock = NoLock

(* What a message with the lock ID k may do to the lock of a LED.            *)
LockChange(method, k, r, new) ==
    \/ new.lock = r.lock
    \/ method = "activate" /\ r.lock = NoLock /\ new.lock = k
    \/ method = "deactivate" /\ r.lock = k /\ new.lock = NoLock

(* What an entry of the method keeps of a LED that it visits: with it, the   *)
(* results before it stay true, those of set if they are for the same entry. *)
Keeps(method, e, r, new) ==
    /\ method = "get" => new = r
    /\ method = "set" /\ IsSteadyRequest(e) /\ Priority(e) \in Priorities
       /\ MayUpdate(r, RequestOf(e)) /\ r.ctx[Priority(e)].state = e.state =>
          MayUpdate(new, RequestOf(e)) /\ new.ctx[Priority(e)].state = e.state
    /\ method = "activate" /\ r.lock # NoLock => new.lock = r.lock
    /\ method = "deactivate" /\ r.lock = NoLock => new.lock = NoLock
    /\ LockChange(method, Lock(e), r, new)

LEMMA KeptIsTrue ==
    ASSUME NEW method, NEW l, NEW e, NEW d, NEW q, NEW r, NEW new,
           IsTrue(method, l, e, q, r), Keeps(method, d, r, new),
           method = "set" => d = e
    PROVE  IsTrue(method, l, e, q, new)
BY DEF IsTrue, Keeps

LEMMA LockOfEntry ==
    ASSUME NEW e, IsEntry(e)
    PROVE  /\ Lock(e) \in LockIds \cup {NoLock}
           /\ e.lock # Missing => Lock(e) = e.lock /\ e.lock \in LockIds
BY DEF Lock, IsEntry

LEMMA ResultFields ==
    ASSUME NEW name, NEW success
    PROVE  /\ Result(name, success).name = name
           /\ Result(name, success).success = success
           /\ \A s : /\ [Result(name, success) EXCEPT !.state = s].name = name
                     /\ [Result(name, success) EXCEPT !.state = s].success = success
           /\ \A k : /\ [Result(name, success) EXCEPT !.lock = k].name = name
                     /\ [Result(name, success) EXCEPT !.lock = k].success = success
                     /\ [Result(name, success) EXCEPT !.lock = k].lock = k
BY DEF Result

------------------------------------------------------------------------------
(* One visit of a LED, by the method. *)

(* All that is claimed of a visit v of LED l, whose record was r.            *)
GoodVisit(method, l, e, r, ok, v) ==
    /\ LedInv(v.led)
    /\ v.result.name = l
    /\ IsTrue(method, l, e, v.result, v.led)
    /\ Keeps(method, e, r, v.led)
    /\ ok /\ Shows(e) /\ v.led # r => v.result.success
    /\ method = "activate" /\ Priority(e) = LOCKED /\ e.lock # Missing /\ r.lock = NoLock
          => v.led.lock = e.lock

LEMMA GetVisit ==
    ASSUME NEW l, NEW e, NEW r, LedInv(r), NEW ok \in BOOLEAN, NEW told \in BOOLEAN
    PROVE  GoodVisit("get", l, e, r, ok, ProcessOne("get", l, r, e, ok, told))
<1> DEFINE v == ProcessOne("get", l, r, e, ok, told)
<1>1. v = [led |-> r, result |-> GetResult(l, r, told)]
  BY DEF ProcessOne
<1>2. v.led = r /\ v.result = GetResult(l, r, told)
  BY <1>1
<1>3. GetResult(l, r, told).name = l
  BY DEF GetResult, Result
<1> HIDE DEF v
<1>4. IsTrue("get", l, e, v.result, v.led) /\ Keeps("get", e, r, v.led)
  BY <1>2 DEF IsTrue, Keeps, LockChange
<1>5. QED
  BY <1>2, <1>3, <1>4 DEF GoodVisit, v

LEMMA ActivateVisit ==
    ASSUME NEW l, NEW e, IsEntry(e), Allowed("activate", e), NEW r, LedInv(r),
           NEW ok \in BOOLEAN, NEW told
    PROVE  GoodVisit("activate", l, e, r, ok, ProcessOne("activate", l, r, e, ok, told))
<1> DEFINE v == ProcessOne("activate", l, r, e, ok, told)
           led == LockAndActivate(r, Priority(e), Lock(e), ok)
           locked == Priority(e) = LOCKED => r.lock = NoLock
           result == [Result(l, locked) EXCEPT !.lock = led.lock]
<1>1. v = [led |-> led, result |-> result]
  BY DEF ProcessOne, ActivateOne
<1>2. v.led = led /\ v.result = result
  BY <1>1
<1>3. result.name = l /\ result.success = locked /\ result.lock = led.lock
  BY ResultFields
<1>4. r \in LedType /\ Priority(e) \in Priorities
      /\ (Priority(e) = LOCKED => Lock(e) = e.lock /\ e.lock \in LockIds)
  BY LockOfEntry DEF LedInv, Allowed
<1>5. /\ LedInv(led)
      /\ Priority(e) # LOCKED => led.lock = r.lock
      /\ Priority(e) = LOCKED /\ r.lock # NoLock => led = r
      /\ Priority(e) = LOCKED /\ r.lock = NoLock => led.lock = e.lock /\ led.lock # NoLock
  <2>1. CASE Priority(e) = LOCKED
    <3>1. LedInv(led)
      BY <1>4, <2>1, LockAndActivateInv
    <3>2. /\ r.lock # NoLock => led = r
          /\ r.lock = NoLock => led.lock = e.lock
      BY <1>4, <2>1, LockAndActivateType
    <3>3. QED
      BY <1>4, <2>1, <3>1, <3>2, LockAssumption
  <2>2. CASE Priority(e) # LOCKED
    <3>1. led = ActivateLed(r, Priority(e), ok)
      BY <2>2 DEF LockAndActivate
    <3>2. /\ led \in LedType /\ led.lock = r.lock
          /\ led.active = r.active \cup {Priority(e)}
      BY <1>4, <3>1, ActivateLedType
    <3>3. FlashesKnowEnd(led)
      BY <1>4, <3>1, ActivateLedFlashes DEF LedInv
    <3> HIDE DEF led
    <3>4. LedInv(led)
      BY <2>2, <3>2, <3>3 DEF LedInv, LockAgrees
    <3>5. QED
      BY <2>2, <3>2, <3>4
  <2>3. QED
    BY <2>1, <2>2
<1> HIDE DEF v, led, result
<1>6. IsTrue("activate", l, e, result, led)
  BY <1>3, <1>5 DEF IsTrue
<1>7. Keeps("activate", e, r, led)
  BY <1>4, <1>5 DEF Keeps, LockChange
<1>8. led # r => result.success
  BY <1>3, <1>5
<1>9. QED
  BY <1>2, <1>3, <1>5, <1>6, <1>7, <1>8 DEF GoodVisit, v

LEMMA DeactivateVisit ==
    ASSUME NEW l, NEW e, IsEntry(e), Allowed("deactivate", e), NEW r, LedInv(r),
           NEW ok \in BOOLEAN, NEW told
    PROVE  GoodVisit("deactivate", l, e, r, ok, ProcessOne("deactivate", l, r, e, ok, told))
<1> DEFINE v == ProcessOne("deactivate", l, r, e, ok, told)
           led == UnlockAndDeactivate(r, Priority(e), Lock(e), ok)
           unlocked == Priority(e) = LOCKED => r.lock # NoLock /\ r.lock = Lock(e)
           result == [Result(l, unlocked) EXCEPT !.lock = led.lock]
<1>1. v = [led |-> led, result |-> result]
  BY DEF ProcessOne, DeactivateOne
<1>2. v.led = led /\ v.result = result
  BY <1>1
<1>3. result.name = l /\ result.success = unlocked
  BY ResultFields
<1>4. r \in LedType /\ Priority(e) \in Priorities
      /\ (Priority(e) = LOCKED => Lock(e) = e.lock /\ e.lock \in LockIds)
  BY LockOfEntry DEF LedInv, Allowed
<1>5. /\ LedInv(led)
      /\ Priority(e) # LOCKED => led.lock = r.lock
      /\ Priority(e) = LOCKED /\ r.lock # e.lock => led = r
      /\ Priority(e) = LOCKED /\ r.lock = e.lock => led.lock = NoLock
  <2>1. CASE Priority(e) = LOCKED
    <3>1. LedInv(led)
      BY <1>4, <2>1, UnlockAndDeactivateInv
    <3>2. /\ r.lock # e.lock => led = r
          /\ r.lock = e.lock => led.lock = NoLock
      BY <1>4, <2>1, UnlockAndDeactivateType
    <3>3. QED
      BY <1>4, <2>1, <3>1, <3>2
  <2>2. CASE Priority(e) # LOCKED
    <3>1. led = DeactivateLed(r, Priority(e), ok)
      BY <2>2 DEF UnlockAndDeactivate
    <3>2. /\ led \in LedType /\ led.lock = r.lock
          /\ led.active = r.active \ ({Priority(e)} \ {NORMAL})
      BY <1>4, <3>1, DeactivateLedType
    <3>3. FlashesKnowEnd(led)
      BY <1>4, <3>1, DeactivateLedFlashes DEF LedInv
    <3> HIDE DEF led
    <3>4. LedInv(led)
      BY <2>2, <3>2, <3>3 DEF LedInv, LockAgrees
    <3>5. QED
      BY <2>2, <3>2, <3>4
  <2>3. QED
    BY <2>1, <2>2
<1> HIDE DEF v, led, result
<1>6. r.lock = NoLock => led.lock = NoLock
  BY <1>4, <1>5, LockAssumption
<1>7. IsTrue("deactivate", l, e, result, led)
  BY <1>3, <1>4, <1>5 DEF IsTrue
<1>8. Keeps("deactivate", e, r, led)
  BY <1>4, <1>5, <1>6 DEF Keeps, LockChange
<1>9. led # r => result.success
  BY <1>3, <1>4, <1>5, LockAssumption
<1>10. QED
  BY <1>2, <1>3, <1>5, <1>7, <1>8, <1>9 DEF GoodVisit, v

(* A valid entry of set makes a request that led_ctx_set_state understands.  *)
LEMMA RequestOfEntry ==
    ASSUME NEW e, IsEntry(e), Valid("set", e), Priority(e) \in Priorities
    PROVE  /\ RequestOf(e) \in RequestType
           /\ RequestOf(e).priority = Priority(e)
           /\ RequestOf(e).state = e.state
           /\ RequestOf(e).flash = e.flash
           /\ ~ Unknown(RequestOf(e))
<1>1. /\ RequestOf(e).priority = Priority(e) /\ RequestOf(e).state = e.state
      /\ RequestOf(e).flash = e.flash
  BY DEF RequestOf
<1>2. e.state # UNKNOWN /\ e.state \in LedStates
  BY DEF Valid, IsEntry
<1>3. e.state \in Supported \/ FlashOf(e.state) # "none"
  BY <1>2, StatesAssumption DEF FlashOf, LedStates, UNKNOWN, OFF, ON, SLOW_FLASH, FAST_FLASH
<1>4. Lock(e) \in LockIds \cup {NoLock}
  BY LockOfEntry
<1>5. e.flash \in FlashTypes /\ e.time \in Nat
  BY DEF IsEntry
<1>6. RequestOf(e) \in RequestType
  BY <1>2, <1>4, <1>5 DEF RequestOf, RequestType
<1>7. QED
  BY <1>1, <1>3, <1>6 DEF Unknown

(* What led_ctx_set_state records for a steady state.                        *)
LEMMA SteadyIsRecorded ==
    ASSUME NEW r \in LedType, NEW req \in RequestType, NEW ok \in BOOLEAN,
           IsSteadyRequest(req), MayUpdate(r, req)
    PROVE  LET p == req.priority
               new == SetLed(r, req, ok)
           IN  /\ MayUpdate(new, req)
               /\ new.ctx[p].state \in {req.state, r.ctx[p].state}
               /\ p > Highest(r) \/ ok => new.ctx[p].state = req.state
<1> DEFINE p == req.priority
           s == req.state
           new == SetLed(r, req, ok)
           flashing == WithContext(r, p, Flash(r, req))
<1>1. ~ Unknown(req) /\ StartState(r, req) = s /\ s \in LedStates /\ s \in Accepted
  BY SteadyRequest, StatesAssumption DEF IsSteadyRequest
<1>2. /\ p \in Priorities /\ Flash(r, req) \in Contexts
      /\ Flash(r, req).state = r.ctx[p].state
      /\ new = SetState(flashing, p, s, ok)
  BY <1>1, SetLedEquation
<1>3. new.lock = r.lock
  BY SetLedType
<1>4. MayUpdate(new, req)
  BY <1>3 DEF MayUpdate
<1>5. /\ flashing \in LedType /\ Highest(flashing) = Highest(r)
      /\ flashing.ctx[p] = Flash(r, req)
  BY <1>2, WithContextRecords
<1>6. flashing.ctx[p] \in Contexts /\ Recorded(flashing.ctx[p], s).state = s
  BY <1>1, <1>2, <1>5, RecordedFields
<1>7. Highest(r) \in Nat /\ p \in Nat
  BY <1>2, HighestType, PrioritiesAreNaturals
<1> HIDE DEF p, s, flashing, new
<1>8. /\ p > Highest(r) => Records(flashing, new, p, s)
      /\ p <= Highest(r) /\ ok => Records(flashing, new, p, s)
      /\ p <= Highest(r) /\ ~ ok => new = flashing
  BY <1>1, <1>2, <1>5, SetStateCases
<1>9. Records(flashing, new, p, s) => new.ctx[p].state = s
  BY <1>2, <1>6 DEF Records
<1>10. p > Highest(r) \/ ok => new.ctx[p].state = s
  BY <1>7, <1>8, <1>9
<1>11. ~ (p > Highest(r) \/ ok) => new.ctx[p].state = r.ctx[p].state
  BY <1>2, <1>5, <1>7, <1>8
<1>12. QED
  BY <1>4, <1>10, <1>11 DEF p, s, new

LEMMA SetVisit ==
    ASSUME NEW l, NEW e, IsEntry(e), Valid("set", e), NEW r, LedInv(r),
           NEW ok \in BOOLEAN, NEW told
    PROVE  GoodVisit("set", l, e, r, ok, ProcessOne("set", l, r, e, ok, told))
<1> DEFINE v == ProcessOne("set", l, r, e, ok, told)
           p == Priority(e)
           led == IF p \in Priorities THEN SetLed(r, RequestOf(e), ok) ELSE r
           succeeds == SetSucceeds(r, e, ok)
           result == [Result(l, succeeds) EXCEPT !.state = e.state]
<1>1. v = [led |-> led, result |-> result]
  BY DEF ProcessOne, SetOne
<1>2. v.led = led /\ v.result = result
  BY <1>1
<1>3. result.name = l /\ result.success = succeeds
  BY ResultFields
<1>4. r \in LedType
  BY DEF LedInv
<1>5. CASE p \notin Priorities
  <2>1. led = r /\ ~ succeeds
    BY <1>5 DEF SetSucceeds
  <2> HIDE DEF v, led, result, succeeds
  <2>2. IsTrue("set", l, e, result, led) /\ Keeps("set", e, r, led)
    BY <1>3, <2>1 DEF IsTrue, Keeps, LockChange
  <2>3. QED
    BY <1>2, <1>3, <2>1, <2>2 DEF GoodVisit, v
<1>6. CASE p \in Priorities
  <2> DEFINE req == RequestOf(e)
             may == MayUpdate(r, req)
             steady == IsSteadyRequest(e)
  <2>1. /\ req \in RequestType /\ req.priority = p /\ req.state = e.state
        /\ req.flash = e.flash /\ ~ Unknown(req)
    BY <1>6, RequestOfEntry
  <2>2. led = SetLed(r, req, ok)
    BY <1>6
  <2>3. succeeds <=> may /\ (p > Highest(r) \/ (ok /\ Shows(e)))
    BY <1>6 DEF SetSucceeds, LessUrgent
  <2>4. IsSteadyRequest(req) <=> steady
    BY <2>1 DEF IsSteadyRequest
  <2> HIDE DEF req
  <2>5. LedInv(led)
    BY <2>1, <2>2, SetLedInv
  <2>6. ~ may => led = r
    BY <1>4, <2>1, <2>2, SetLedEquation
  <2>7. steady /\ may => /\ MayUpdate(led, req)
                         /\ led.ctx[p].state \in {e.state, r.ctx[p].state}
                         /\ p > Highest(r) \/ ok => led.ctx[p].state = e.state
    BY <1>4, <2>1, <2>2, <2>4, SteadyIsRecorded
  <2>8. led.lock = r.lock
    BY <1>4, <2>1, <2>2, SetLedType
  <2> HIDE DEF v, led, result, succeeds, may, p
  <2>9. IsTrue("set", l, e, result, led)
    BY <1>3, <1>6, <2>3, <2>7 DEF IsTrue, req, p
  <2>10. Keeps("set", e, r, led)
    BY <2>7, <2>8 DEF Keeps, LockChange, req, may, p
  <2>11. ok /\ Shows(e) /\ led # r => result.success
    BY <1>3, <2>3, <2>6
  <2>12. QED
    BY <1>2, <1>3, <2>5, <2>9, <2>10, <2>11 DEF GoodVisit, v
<1>7. QED
  BY <1>5, <1>6

Methods == {"get", "set", "activate", "deactivate"}

LEMMA OneVisit ==
    ASSUME NEW method \in Methods, NEW l, NEW e, IsEntry(e), Valid(method, e),
           Allowed(method, e), NEW r, LedInv(r), NEW ok \in BOOLEAN, NEW told \in BOOLEAN
    PROVE  GoodVisit(method, l, e, r, ok, ProcessOne(method, l, r, e, ok, told))
BY GetVisit, SetVisit, ActivateVisit, DeactivateVisit DEF Methods

------------------------------------------------------------------------------
(* All the visits of a LED by an entry. *)

GoodLed(method, l, e, r, ok, v) ==
    /\ LedInv(v.led)
    /\ \A q \in v.results : q.name = l /\ IsTrue(method, l, e, q, v.led)
    /\ Keeps(method, e, r, v.led)
    /\ ok /\ Shows(e) /\ v.led # r => \E q \in v.results : q.success
    /\ Visits(e.name, l) = 0 => v.led = r /\ v.results = {}
    /\ method = "activate" /\ Priority(e) = LOCKED /\ e.lock # Missing /\ r.lock = NoLock
       /\ Visits(e.name, l) > 0 => v.led.lock = e.lock

LEMMA KeepsTwice ==
    ASSUME NEW method, NEW e, NEW r, NEW s, NEW t, Keeps(method, e, r, s), Keeps(method, e, s, t)
    PROVE  Keeps(method, e, r, t)
BY DEF Keeps, LockChange

LEMMA AllVisits ==
    ASSUME NEW method \in Methods, NEW l \in LEDs, NEW e, IsEntry(e), Valid(method, e),
           Allowed(method, e), e.name \in Names, NEW r, LedInv(r),
           NEW ok \in BOOLEAN, NEW told \in BOOLEAN
    PROVE  GoodLed(method, l, e, r, ok, ProcessLed(method, l, r, e, ok, told))
<1> DEFINE once == ProcessOne(method, l, r, e, ok, told)
           twice == ProcessOne(method, l, once.led, e, ok, told)
           n == Visits(e.name, l)
           v == ProcessLed(method, l, r, e, ok, told)
<1>1. v = CASE n = 0 -> [led |-> r, results |-> {}]
            [] n = 1 -> [led |-> once.led, results |-> {once.result}]
            [] n = 2 -> [led |-> twice.led, results |-> {once.result, twice.result}]
  BY DEF ProcessLed
<1>2. n \in {0, 1, 2}
  BY VisitsType
<1>3. GoodVisit(method, l, e, r, ok, once)
  BY OneVisit
<1>4. LedInv(once.led)
  BY <1>3 DEF GoodVisit
<1>5. GoodVisit(method, l, e, once.led, ok, twice)
  <2> HIDE DEF once
  <2>1. QED
    BY <1>4, OneVisit
<1> HIDE DEF once, twice, n, v
<1>6. ASSUME n = 0 PROVE GoodLed(method, l, e, r, ok, v)
  <2>1. v.led = r /\ v.results = {}
    BY <1>1, <1>6
  <2>2. Keeps(method, e, r, r)
    BY DEF Keeps, LockChange
  <2>3. QED
    BY <1>6, <2>1, <2>2 DEF GoodLed, n
<1>7. ASSUME n = 1 PROVE GoodLed(method, l, e, r, ok, v)
  <2>1. v.led = once.led /\ v.results = {once.result}
    BY <1>1, <1>7
  <2>2. QED
    <3>1. /\ LedInv(v.led) /\ Keeps(method, e, r, v.led)
          /\ ok /\ Shows(e) /\ v.led # r => once.result.success
          /\ method = "activate" /\ Priority(e) = LOCKED /\ e.lock # Missing /\ r.lock = NoLock
                => v.led.lock = e.lock
      BY <1>3, <2>1 DEF GoodVisit
    <3>2. \A q \in v.results : q.name = l /\ IsTrue(method, l, e, q, v.led)
      BY <1>3, <2>1 DEF GoodVisit
    <3>3. ok /\ Shows(e) /\ v.led # r => \E q \in v.results : q.success
      BY <2>1, <3>1
    <3>4. n # 0
      BY <1>7
    <3>5. QED
      BY <3>1, <3>2, <3>3, <3>4 DEF GoodLed, n
<1>8. ASSUME n = 2 PROVE GoodLed(method, l, e, r, ok, v)
  <2>1. v.led = twice.led /\ v.results = {once.result, twice.result}
    BY <1>1, <1>8
  <2>2. /\ IsTrue(method, l, e, once.result, once.led)
        /\ IsTrue(method, l, e, twice.result, twice.led)
        /\ Keeps(method, e, r, once.led) /\ Keeps(method, e, once.led, twice.led)
        /\ once.result.name = l /\ twice.result.name = l
        /\ LedInv(twice.led)
    BY <1>3, <1>5 DEF GoodVisit
  <2>3. IsTrue(method, l, e, once.result, twice.led) /\ Keeps(method, e, r, twice.led)
    BY <2>2, KeptIsTrue, KeepsTwice
  <2>4. ok /\ Shows(e) /\ twice.led # r => once.result.success \/ twice.result.success
    BY <1>3, <1>5 DEF GoodVisit
  <2>5. method = "activate" /\ Priority(e) = LOCKED /\ e.lock # Missing /\ r.lock = NoLock
           => twice.led.lock = e.lock
    <3> SUFFICES ASSUME method = "activate", Priority(e) = LOCKED, e.lock # Missing,
                        r.lock = NoLock
                 PROVE  twice.led.lock = e.lock
      OBVIOUS
    <3>1. once.led.lock = e.lock /\ e.lock # NoLock
      BY <1>3, LockOfEntry, LockAssumption DEF GoodVisit
    <3>2. QED
      BY <2>2, <3>1 DEF Keeps
  <2>6. /\ \A q \in v.results : q.name = l /\ IsTrue(method, l, e, q, v.led)
        /\ ok /\ Shows(e) /\ v.led # r => \E q \in v.results : q.success
    BY <2>1, <2>2, <2>3, <2>4
  <2>7. n # 0
    BY <1>8
  <2>8. QED
    BY <2>1, <2>2, <2>3, <2>5, <2>6, <2>7 DEF GoodLed, n
<1>9. QED
  <2>1. GoodLed(method, l, e, r, ok, v)
    BY <1>2, <1>6, <1>7, <1>8
  <2>2. QED
    BY <2>1 DEF v

------------------------------------------------------------------------------
(* A whole entry. *)

Reaches(e, l) == e.name \in Names /\ Visits(e.name, l) > 0

(* A result q for one LED of locking all of them is true if all are locked.  *)
LockedAll(method, e, q, state) ==
    method = "activate" /\ e.name = All /\ Priority(e) = LOCKED /\ q.success =>
        /\ e.lock # NoLock
        /\ \A l \in LEDs : state[l].lock = e.lock

(* A result q of e is for a LED that e reaches, and true of it; a result for *)
(* an unknown name, or for the alias itself, isn't for a LED.                *)
IsResult(method, e, q, state) ==
    /\ q.name \in LEDs => IsTrue(method, q.name, e, q, state[q.name])
    /\ q.name \in LEDs /\ q.success => Reaches(e, q.name)
    /\ q.name \notin LEDs /\ q.success => method = "set"
    /\ LockedAll(method, e, q, state)

IsLeds(state) == state = [l \in LEDs |-> state[l]] /\ \A l \in LEDs : LedInv(state[l])

GoodEntry(method, e, before, broken, v) ==
    /\ IsLeds(v.leds)
    /\ \A q \in v.results : IsResult(method, e, q, v.leds)
    /\ \A l \in LEDs :
          /\ Keeps(method, e, before[l], v.leds[l])
          /\ v.leds[l] # before[l] =>
                /\ Reaches(e, l)
                /\ l \notin broken /\ Shows(e) =>
                       \E q \in v.results : q.name = l /\ q.success

LEMMA AllNamesAllLeds == \A l \in LEDs : Visits(All, l) = 1
BY DEF Visits

(* A refused entry changes nothing, and its result is a failure.             *)
LEMMA RefusedEntry ==
    ASSUME NEW method \in Methods, NEW e, NEW before, IsLeds(before),
           Refused(method, e, before), NEW broken, NEW told
    PROVE  GoodEntry(method, e, before, broken, ProcessEntry(method, before, e, broken, told))
<1> DEFINE q == [Result(e.name, FALSE) EXCEPT !.state = IF method = "set" THEN e.state ELSE @]
           v == ProcessEntry(method, before, e, broken, told)
<1>1. v.leds = before /\ v.results = {q}
  BY DEF ProcessEntry
<1>2. q.name = e.name /\ q.success = FALSE
  BY DEF Result
<1> HIDE DEF q, v
<1>3. \A l \in LEDs : Keeps(method, e, before[l], before[l])
  BY DEF Keeps, LockChange
<1>4. ASSUME method = "activate", Priority(e) = LOCKED, e.lock # Missing
      PROVE  e.name \notin LEDs
  <2>1. LOCKED \in Priorities
    BY DEF Priorities
  <2>2. e.name \notin Names \/ e.name = All
    BY <1>4, <2>1 DEF Refused
  <2>3. QED
    BY <2>2, NamesAssumption DEF Names
<1>5. IsResult(method, e, q, before)
  BY <1>2, <1>4 DEF IsResult, IsTrue, LockedAll
<1>6. QED
  BY <1>1, <1>3, <1>5 DEF GoodEntry, v

(* Any other entry visits every LED as often as its name reaches it.         *)
LEMMA AcceptedEntry ==
    ASSUME NEW method \in Methods, NEW e, IsEntry(e), Valid(method, e),
           NEW before, IsLeds(before), ~ Refused(method, e, before),
           NEW broken, NEW told \in BOOLEAN
    PROVE  GoodEntry(method, e, before, broken, ProcessEntry(method, before, e, broken, told))
<1> DEFINE processed == [l \in LEDs |->
                ProcessLed(method, l, before[l], e, l \notin broken, told)]
           v == ProcessEntry(method, before, e, broken, told)
<1>1. /\ v.leds = [l \in LEDs |-> processed[l].led]
      /\ v.results = OfLeds(processed) \cup OfAlias(method, e)
  BY DEF ProcessEntry
<1>2. \A q : q \in OfLeds(processed) <=> \E l \in LEDs : q \in processed[l].results
  <2> HIDE DEF processed
  <2>1. QED
    BY DEF OfLeds
<1>3. Allowed(method, e) /\ e.name \in Names
  BY DEF Refused, Allowed
<1>4. ASSUME NEW l \in LEDs
      PROVE  GoodLed(method, l, e, before[l], (l \notin broken), processed[l])
  <2>1. PICK ok \in BOOLEAN : ok = (l \notin broken)
    OBVIOUS
  <2>2. processed[l] = ProcessLed(method, l, before[l], e, ok, told)
    BY <2>1
  <2>3. LedInv(before[l])
    BY DEF IsLeds
  <2> HIDE DEF processed
  <2>4. GoodLed(method, l, e, before[l], ok, processed[l])
    BY <1>3, <2>2, <2>3, AllVisits
  <2>5. QED
    BY <2>1, <2>4
<1> HIDE DEF processed, v
<1>5. \A l \in LEDs : v.leds[l] = processed[l].led
  BY <1>1
<1>6. IsLeds(v.leds)
  <2>1. \A l \in LEDs : LedInv(v.leds[l])
    BY <1>4, <1>5 DEF GoodLed
  <2>2. v.leds = [l \in LEDs |-> v.leds[l]]
    BY <1>1
  <2>3. QED
    BY <2>1, <2>2 DEF IsLeds
<1>7. ASSUME NEW l \in LEDs
      PROVE  /\ Keeps(method, e, before[l], v.leds[l])
             /\ v.leds[l] # before[l] =>
                   /\ Reaches(e, l)
                   /\ l \notin broken /\ Shows(e) =>
                          \E q \in v.results : q.name = l /\ q.success
  <2>1. Keeps(method, e, before[l], v.leds[l])
    BY <1>4, <1>5 DEF GoodLed
  <2>2. v.leds[l] # before[l] => Visits(e.name, l) # 0
    BY <1>4, <1>5 DEF GoodLed
  <2>3. Visits(e.name, l) \in {0, 1, 2}
    BY <1>3, VisitsType
  <2>4. v.leds[l] # before[l] => Reaches(e, l)
    BY <1>3, <2>2, <2>3 DEF Reaches
  <2>5. ASSUME v.leds[l] # before[l], l \notin broken, Shows(e)
        PROVE  \E q \in v.results : q.name = l /\ q.success
    <3>1. PICK q \in processed[l].results : q.success
      BY <1>4, <1>5, <2>5 DEF GoodLed
    <3>2. q.name = l
      BY <1>4 DEF GoodLed
    <3>3. q \in v.results
      BY <1>2, <1>1
    <3>4. QED
      BY <3>1, <3>2, <3>3
  <2>6. QED
    BY <2>1, <2>4, <2>5
<1>8. ASSUME NEW q \in OfAlias(method, e) PROVE IsResult(method, e, q, v.leds)
  <2>1. method = "set" /\ e.name \notin LEDs /\ q = [Result(e.name, TRUE) EXCEPT !.state = e.state]
    BY <1>8 DEF OfAlias
  <2>2. q.name = e.name
    BY <2>1 DEF Result
  <2>3. QED
    BY <2>1, <2>2 DEF IsResult, LockedAll
<1>9. ASSUME NEW l \in LEDs, NEW q \in processed[l].results
      PROVE  IsResult(method, e, q, v.leds)
  <2>1. q.name = l /\ IsTrue(method, l, e, q, v.leds[l])
    BY <1>4, <1>5 DEF GoodLed
  <2>2. Reaches(e, l)
    <3>1. Visits(e.name, l) # 0
      BY <1>4, <1>9 DEF GoodLed
    <3>2. Visits(e.name, l) \in {0, 1, 2}
      BY <1>3, VisitsType
    <3>3. QED
      BY <1>3, <3>1, <3>2 DEF Reaches
  <2>3. LockedAll(method, e, q, v.leds)
    <3> SUFFICES ASSUME method = "activate", e.name = All, Priority(e) = LOCKED
                 PROVE  /\ e.lock # NoLock
                        /\ \A k \in LEDs : v.leds[k].lock = e.lock
      BY DEF LockedAll
    <3>1. e.lock # Missing /\ \A k \in LEDs : LOCKED \notin before[k].active
      BY DEF Refused
    <3>2. e.lock # NoLock
      BY <3>1, LockOfEntry, LockAssumption
    <3>3. \A k \in LEDs : before[k].lock = NoLock
      BY <3>1 DEF IsLeds, LedInv, LockAgrees
    <3>4. \A k \in LEDs : Visits(e.name, k) > 0
      BY AllNamesAllLeds
    <3>5. \A k \in LEDs : v.leds[k].lock = e.lock
      BY <1>4, <1>5, <3>1, <3>3, <3>4 DEF GoodLed
    <3>6. QED
      BY <3>2, <3>5
  <2>4. QED
    BY <2>1, <2>2, <2>3 DEF IsResult
<1>10. \A q \in v.results : IsResult(method, e, q, v.leds)
  <2> SUFFICES ASSUME NEW q \in v.results PROVE IsResult(method, e, q, v.leds)
    OBVIOUS
  <2>1. q \in OfAlias(method, e) \/ \E l \in LEDs : q \in processed[l].results
    BY <1>2, <1>1
  <2>2. QED
    BY <1>8, <1>9, <2>1
<1>11. GoodEntry(method, e, before, broken, v)
  BY <1>6, <1>7, <1>10 DEF GoodEntry
<1>12. QED
  BY <1>11 DEF v

LEMMA OneEntry ==
    ASSUME NEW method \in Methods, NEW e, IsEntry(e), Valid(method, e),
           NEW before, IsLeds(before), NEW broken, NEW told \in BOOLEAN
    PROVE  GoodEntry(method, e, before, broken, ProcessEntry(method, before, e, broken, told))
BY RefusedEntry, AcceptedEntry

------------------------------------------------------------------------------
(* All the entries of a message. *)

LEMMA MessageType ==
    ASSUME NEW m \in Messages, m.leds # NotTables
    PROVE  /\ Len(m.leds) \in Nat /\ DOMAIN m.leds = 1 .. Len(m.leds)
           /\ m.method \in Methods
           /\ \A i \in DOMAIN m.leds : IsEntry(m.leds[i])
<1>1. /\ m.leds \in Seq({m.leds[i] : i \in DOMAIN m.leds})
      /\ m.method \in Methods
      /\ \A i \in DOMAIN m.leds : IsEntry(m.leds[i])
  BY MessagesAssumption DEF Methods
<1> DEFINE S == {m.leds[i] : i \in DOMAIN m.leds}
<1>2. m.leds \in Seq(S)
  BY <1>1
<1> HIDE DEF S
<1>3. QED
  BY <1>1, <1>2

LEMMA AppliedIsValid ==
    ASSUME NEW m \in Messages, m.leds # NotTables, NEW i \in Applied(m)
    PROVE  /\ i \in DOMAIN m.leds /\ IsEntry(m.leds[i]) /\ Valid(m.method, m.leds[i])
           /\ m.method \in Methods
BY MessageType DEF Applied

(* What the entry i makes of the LEDs that the one before it left.           *)
Processed(m, before, i, broken, told) ==
    IF i \in Applied(m)
    THEN ProcessEntry(m.method, before.leds, m.leds[i], broken, told)
    ELSE before

(* The recursive function of After satisfies its equation.                   *)
LEMMA AfterEquation ==
    ASSUME NEW m \in Messages, m.leds # NotTables, NEW broken, NEW told
    PROVE  LET a == After(m, broken, told)
           IN  /\ a[0] = [leds |-> leds, results |-> {}]
               /\ \A i \in 1 .. Len(m.leds) : a[i] = Processed(m, a[i - 1], i, broken, told)
<1> DEFINE n == Len(m.leds)
           first == [leds |-> leds, results |-> {}]
           Step(b, i) == Processed(m, b, i, broken, told)
           Defined(f, k) == f = [i \in 0 .. k |-> IF i = 0 THEN first ELSE Step(f[i - 1], i)]
           T == {k \in 0 .. n : \E f : Defined(f, k)}
           a == After(m, broken, told)
<1>1. n \in Nat
  BY MessageType
<1>2. a = CHOOSE f : Defined(f, n)
  BY DEF After, Processed
<1> HIDE DEF Step, first, n, a
<1>3. 0 \in T
  <2>1. Defined([i \in 0 .. 0 |-> first], 0)
    OBVIOUS
  <2> HIDE DEF Defined
  <2>2. QED
    BY <2>1, <1>1
<1>4. ASSUME NEW k \in 1 .. n, k - 1 \in T PROVE k \in T
  <2>1. PICK f : Defined(f, k - 1)
    BY <1>4
  <2> DEFINE g == [i \in 0 .. k |-> IF i = k THEN Step(f[k - 1], k) ELSE f[i]]
  <2>2. Defined(g, k)
    <3>1. ASSUME NEW i \in 0 .. k
          PROVE  g[i] = IF i = 0 THEN first ELSE Step(g[i - 1], i)
      <4>1. CASE i = k
        <5>1. k - 1 \in 0 .. k /\ k - 1 # k /\ i # 0
          BY <1>1, <4>1
        <5>2. QED
          BY <4>1, <5>1
      <4>2. CASE i # k
        <5>1. /\ i \in 0 .. (k - 1)
              /\ i # 0 => i - 1 \in 0 .. (k - 1) /\ i - 1 \in 0 .. k /\ i - 1 # k
          BY <1>1, <4>2
        <5>2. g[i] = f[i]
          BY <4>2
        <5>3. f[i] = IF i = 0 THEN first ELSE Step(f[i - 1], i)
          BY <2>1, <5>1
        <5>4. i # 0 => g[i - 1] = f[i - 1]
          BY <5>1
        <5>5. QED
          BY <5>2, <5>3, <5>4
      <4>3. QED
        BY <4>1, <4>2
    <3>2. QED
      BY <3>1
  <2> HIDE DEF Defined, g
  <2>3. QED
    BY <2>2
<1>5. \E f : Defined(f, n)
  <2> HIDE DEF T
  <2>1. T \subseteq 0 .. n
    BY DEF T
  <2>2. T = 0 .. n
    BY <1>1, <1>3, <1>4, <2>1, Induction
  <2>3. n \in T
    BY <1>1, <2>2
  <2>4. QED
    BY <2>3 DEF T
<1>6. Defined(a, n)
  <2> HIDE DEF Defined
  <2>1. QED
    BY <1>2, <1>5
<1>7. a[0] = first
  BY <1>1, <1>6
<1>8. ASSUME NEW i \in 1 .. n PROVE a[i] = Step(a[i - 1], i)
  <2>1. i \in 0 .. n /\ i # 0
    BY <1>1
  <2>2. QED
    BY <1>6, <2>1
<1>9. QED
  BY <1>7, <1>8 DEF a, n, first, Step

(* A result q of the message's entry i is true after the message, unless a   *)
(* set of the same LED by another entry replaced what it set.                *)
IsAnswer(m, i, q, state) ==
    /\ q.name \in LEDs =>
          \/ IsTrue(m.method, q.name, m.leds[i], q, state[q.name])
          \/ /\ m.method = "set"
             /\ \E k \in DOMAIN m.leds :
                   Reaches(m.leds[k], q.name) /\ m.leds[k] # m.leds[i]
    /\ q.name \notin LEDs /\ q.success => m.method = "set"
    /\ LockedAll(m.method, m.leds[i], q, state)

(* An answer stays true through every later entry of the message.            *)
LEMMA AnswerStaysTrue ==
    ASSUME NEW m \in Messages, m.leds # NotTables, NEW i \in DOMAIN m.leds,
           NEW j, NEW q, NEW before, NEW broken, NEW v,
           GoodEntry(m.method, m.leds[i], before, broken, v), IsAnswer(m, j, q, before)
    PROVE  IsAnswer(m, j, q, v.leds)
<1> DEFINE method == m.method
           d == m.leds[i]
           e == m.leds[j]
<1>1. \A l \in LEDs : /\ Keeps(method, d, before[l], v.leds[l])
                      /\ v.leds[l] # before[l] => Reaches(d, l)
  BY DEF GoodEntry
<1>2. ASSUME q.name \in LEDs, IsTrue(method, q.name, e, q, before[q.name])
      PROVE  \/ IsTrue(method, q.name, e, q, v.leds[q.name])
             \/ method = "set" /\ Reaches(d, q.name) /\ d # e
  <2> DEFINE l == q.name
  <2>1. CASE v.leds[l] = before[l]
    BY <1>2, <2>1
  <2>2. CASE Reaches(d, l) /\ (method = "set" => d = e)
    BY <1>1, <1>2, <2>2, KeptIsTrue
  <2>3. QED
    BY <1>1, <1>2, <2>1, <2>2
<1>3. q.name \in LEDs =>
          \/ IsTrue(method, q.name, e, q, v.leds[q.name])
          \/ /\ method = "set"
             /\ \E k \in DOMAIN m.leds : Reaches(m.leds[k], q.name) /\ m.leds[k] # e
  BY <1>2 DEF IsAnswer
<1>4. LockedAll(method, e, q, v.leds)
  <2>1. LockedAll(method, e, q, before)
    BY DEF IsAnswer
  <2>2. QED
    BY <1>1, <2>1 DEF LockedAll, Keeps
<1>5. QED
  BY <1>3, <1>4 DEF IsAnswer

LEMMA ResultIsAnswer ==
    ASSUME NEW m, NEW i, NEW q, NEW state, IsResult(m.method, m.leds[i], q, state)
    PROVE  IsAnswer(m, i, q, state)
BY DEF IsResult, IsAnswer

(* The message has no lock ID but k.                                         *)
OneId(m, k) == \A i \in DOMAIN m.leds : Lock(m.leds[i]) \in {k, NoLock}

(* All that is claimed of what a whole message leaves behind.                *)
GoodMessage(m, a, i, broken) ==
    /\ IsLeds(a[i].leds)
    /\ \A j \in 1 .. i : j \in Applied(m) =>
          \A q \in a[j].results : IsAnswer(m, j, q, a[i].leds)
    /\ \A l \in LEDs : a[i].leds[l] # leds[l] =>
          \E j \in 1 .. i :
              /\ j \in Applied(m) /\ Reaches(m.leds[j], l)
              /\ l \notin broken /\ Shows(m.leds[j]) =>
                     \E q \in a[j].results : q.name = l /\ q.success
    /\ \A k : OneId(m, k) =>
          \A l \in LEDs : LockChange(m.method, k, leds[l], a[i].leds[l])

LEMMA OneMoreEntry ==
    ASSUME NEW m \in Messages, m.leds # NotTables, NEW a, NEW broken, NEW told \in BOOLEAN,
           NEW i \in 1 .. Len(m.leds), GoodMessage(m, a, i - 1, broken),
           a[i] = Processed(m, a[i - 1], i, broken, told)
    PROVE  GoodMessage(m, a, i, broken)
<1> DEFINE b == a[i - 1]
           v == a[i]
<1>1. Len(m.leds) \in Nat
  BY MessageType
<1>2. \A j : j \in 1 .. i <=> j \in 1 .. (i - 1) \/ j = i
  BY <1>1
<1>3. /\ IsLeds(b.leds)
      /\ \A j \in 1 .. (i - 1) : j \in Applied(m) =>
            \A q \in a[j].results : IsAnswer(m, j, q, b.leds)
      /\ \A l \in LEDs : b.leds[l] # leds[l] =>
            \E j \in 1 .. (i - 1) :
                /\ j \in Applied(m) /\ Reaches(m.leds[j], l)
                /\ l \notin broken /\ Shows(m.leds[j]) =>
                       \E q \in a[j].results : q.name = l /\ q.success
      /\ \A k : OneId(m, k) =>
            \A l \in LEDs : LockChange(m.method, k, leds[l], b.leds[l])
  BY DEF GoodMessage
<1>4. CASE i \notin Applied(m)
  <2>1. v = b
    BY <1>4 DEF Processed
  <2> HIDE DEF b
  <2>2. QED
    BY <1>2, <1>3, <1>4, <2>1 DEF GoodMessage
<1>5. CASE i \in Applied(m)
  <2>1. v = ProcessEntry(m.method, b.leds, m.leds[i], broken, told)
    BY <1>5 DEF Processed
  <2>2. GoodEntry(m.method, m.leds[i], b.leds, broken, v)
    BY <1>3, <1>5, <2>1, AppliedIsValid, OneEntry
  <2>3. i \in DOMAIN m.leds
    BY <1>5, AppliedIsValid
  <2> HIDE DEF b, v
  <2>4. IsLeds(v.leds)
    BY <2>2 DEF GoodEntry
  <2>5. ASSUME NEW j \in 1 .. i, j \in Applied(m), NEW q \in a[j].results
        PROVE  IsAnswer(m, j, q, v.leds)
    <3>1. CASE j = i
      <4>1. IsResult(m.method, m.leds[i], q, v.leds)
        BY <2>2, <2>5, <3>1 DEF GoodEntry, v
      <4>2. QED
        BY <3>1, <4>1, ResultIsAnswer
    <3>2. CASE j # i
      <4>1. IsAnswer(m, j, q, b.leds)
        BY <1>2, <1>3, <2>5, <3>2
      <4>2. QED
        BY <2>2, <2>3, <4>1, AnswerStaysTrue
    <3>3. QED
      BY <3>1, <3>2
  <2>6. ASSUME NEW l \in LEDs, v.leds[l] # leds[l]
        PROVE  \E j \in 1 .. i :
                   /\ j \in Applied(m) /\ Reaches(m.leds[j], l)
                   /\ l \notin broken /\ Shows(m.leds[j]) =>
                          \E q \in a[j].results : q.name = l /\ q.success
    <3>1. CASE v.leds[l] = b.leds[l]
      BY <1>2, <1>3, <2>6, <3>1
    <3>2. CASE v.leds[l] # b.leds[l]
      <4>1. /\ Reaches(m.leds[i], l)
            /\ l \notin broken /\ Shows(m.leds[i]) =>
                   \E q \in v.results : q.name = l /\ q.success
        BY <2>2, <3>2 DEF GoodEntry
      <4>2. QED
        BY <1>2, <1>5, <4>1 DEF v
    <3>3. QED
      BY <3>1, <3>2
  <2>7. ASSUME NEW k, OneId(m, k), NEW l \in LEDs
        PROVE  LockChange(m.method, k, leds[l], v.leds[l])
    <3>1. LockChange(m.method, k, leds[l], b.leds[l])
      BY <1>3, <2>7
    <3>2. LockChange(m.method, Lock(m.leds[i]), b.leds[l], v.leds[l])
      BY <2>2 DEF GoodEntry, Keeps
    <3>3. Lock(m.leds[i]) \in {k, NoLock}
      BY <2>3, <2>7 DEF OneId
    <3>4. QED
      BY <3>1, <3>2, <3>3 DEF LockChange
  <2>8. QED
    BY <2>4, <2>5, <2>6, <2>7 DEF GoodMessage, v
<1>6. QED
  BY <1>4, <1>5

LEMMA AllEntries ==
    ASSUME Inv, NEW m \in Messages, m.leds # NotTables, NEW broken, NEW told \in BOOLEAN
    PROVE  LET a == After(m, broken, told)
           IN  \A i \in 0 .. Len(m.leds) : GoodMessage(m, a, i, broken)
<1> DEFINE a == After(m, broken, told)
           n == Len(m.leds)
           T == {i \in 0 .. n : GoodMessage(m, a, i, broken)}
<1>1. n \in Nat
  BY MessageType
<1>2. /\ a[0] = [leds |-> leds, results |-> {}]
      /\ \A i \in 1 .. n : a[i] = Processed(m, a[i - 1], i, broken, told)
  BY AfterEquation
<1> HIDE DEF a
<1>3. 0 \in T
  <2>1. a[0].leds = leds
    BY <1>2
  <2>2. IsLeds(a[0].leds)
    BY <2>1 DEF Inv, IsLeds
  <2>3. 1 .. 0 = {}
    OBVIOUS
  <2>4. GoodMessage(m, a, 0, broken)
    BY <2>1, <2>2, <2>3 DEF GoodMessage, LockChange
  <2>5. QED
    BY <1>1, <2>4
<1>4. ASSUME NEW i \in 1 .. n, i - 1 \in T PROVE i \in T
  <2>1. GoodMessage(m, a, i - 1, broken)
    BY <1>4
  <2>2. GoodMessage(m, a, i, broken)
    BY <1>2, <2>1, OneMoreEntry
  <2>3. i \in 0 .. n
    BY <1>1
  <2>4. QED
    BY <2>2, <2>3
<1>5. T = 0 .. n
  <2>1. T \subseteq 0 .. n
    OBVIOUS
  <2> HIDE DEF T, n
  <2>2. QED
    BY <1>1, <1>3, <1>4, <2>1, Induction
<1>6. \A i \in 0 .. n : GoodMessage(m, a, i, broken)
  BY <1>5
<1>7. QED
  BY <1>6 DEF a

------------------------------------------------------------------------------
(***************************************************************************)
(* The inductive invariant: the records of the LEDs are those that the     *)
(* controller makes, and every result of the last reply is true of them.   *)
(***************************************************************************)
ResultsAreTrue ==
    Answered =>
        /\ message \in Messages /\ message.leds # NotTables
        /\ DOMAIN reply = DOMAIN message.leds
        /\ \A i \in DOMAIN reply : \A q \in reply[i] : IsAnswer(message, i, q, leds)

FrontInv == Inv /\ ResultsAreTrue

LEMMA ReadingsType ==
    ASSUME NEW m
    PROVE  Readings(m) \subseteq BOOLEAN
BY DEF Readings

(* All the states that the message asks for can be written by the plugin.    *)
AllShow(m) == \A i \in DOMAIN m.leds : Shows(m.leds[i])

(* What a handler leaves behind, and what it tells of the LEDs it changed.   *)
LEMMA HandleFacts ==
    ASSUME Inv, NEW m \in Messages, NEW broken, NEW told \in BOOLEAN, Handle(m, broken, told)
    PROVE  /\ FrontInv'
           /\ \A l \in LEDs : leds'[l] # leds[l] =>
                 /\ m.leds # NotTables /\ NamedBefore(m, l)
                 /\ reply' # NoReply /\ l \notin broken /\ AllShow(m) =>
                       \E i \in DOMAIN reply' : \E q \in reply'[i] : q.name = l /\ q.success
           /\ m.leds # NotTables => \A k : OneId(m, k) =>
                 \A l \in LEDs : LockChange(m.method, k, leds[l], leds'[l])
<1> DEFINE a == After(m, broken, told)
           n == Len(m.leds)
<1>1. message' = m
  BY DEF Handle
<1>2. CASE m.leds = NotTables
  <2>1. leds' = leds /\ reply' = NoReply
    BY <1>2 DEF Handle, AllValid
  <2>2. QED
    BY <1>2, <2>1 DEF FrontInv, ResultsAreTrue, Answered, Inv
<1>3. CASE m.leds # NotTables
  <2>1. /\ leds' = a[n].leds
        /\ reply' # NoReply => AllValid(m) /\ reply' = [i \in DOMAIN m.leds |-> a[i].results]
    BY <1>3 DEF Handle
  <2>2. n \in Nat /\ DOMAIN m.leds = 1 .. n
    BY <1>3, MessageType
  <2>3. GoodMessage(m, a, n, broken)
    <3>1. \A i \in 0 .. n : GoodMessage(m, a, i, broken)
      BY <1>3, AllEntries
    <3> HIDE DEF a, n
    <3>2. QED
      BY <2>2, <3>1
  <2> HIDE DEF a, n
  <2>4. Inv'
    <3>1. IsLeds(leds')
      BY <2>1, <2>3 DEF GoodMessage
    <3>2. QED
      BY <3>1 DEF IsLeds, Inv
  <2>5. AllValid(m) => \A i \in 1 .. n : i \in Applied(m)
    BY <2>2 DEF AllValid, Applied
  <2>6. ResultsAreTrue'
    <3> SUFFICES ASSUME reply' # NoReply
                 PROVE  /\ DOMAIN reply' = DOMAIN m.leds
                        /\ \A i \in DOMAIN reply' : \A q \in reply'[i] :
                              IsAnswer(m, i, q, leds')
      BY <1>1, <1>3 DEF ResultsAreTrue, Answered
    <3>1. AllValid(m) /\ reply' = [i \in DOMAIN m.leds |-> a[i].results]
      BY <2>1
    <3>2. \A j \in 1 .. n : \A q \in a[j].results : IsAnswer(m, j, q, leds')
      BY <2>1, <2>3, <2>5, <3>1 DEF GoodMessage
    <3>3. QED
      BY <2>2, <3>1, <3>2
  <2>7. ASSUME NEW l \in LEDs, leds'[l] # leds[l]
        PROVE  /\ NamedBefore(m, l)
               /\ reply' # NoReply /\ l \notin broken /\ AllShow(m) =>
                     \E i \in DOMAIN reply' : \E q \in reply'[i] : q.name = l /\ q.success
    <3>1. PICK j \in 1 .. n :
            /\ j \in Applied(m) /\ Reaches(m.leds[j], l)
            /\ l \notin broken /\ Shows(m.leds[j]) =>
                   \E q \in a[j].results : q.name = l /\ q.success
      BY <2>1, <2>3, <2>7 DEF GoodMessage
    <3>2. NamedBefore(m, l)
      BY <2>2, <3>1 DEF NamedBefore, Applied, Reaches
    <3>3. ASSUME reply' # NoReply, l \notin broken, AllShow(m)
          PROVE  \E i \in DOMAIN reply' : \E q \in reply'[i] : q.name = l /\ q.success
      <4>1. j \in DOMAIN reply' /\ reply'[j] = a[j].results
        BY <2>1, <2>2, <3>3
      <4>2. QED
        BY <2>2, <3>1, <3>3, <4>1 DEF AllShow
    <3>4. QED
      BY <3>2, <3>3
  <2>8. \A k : OneId(m, k) => \A l \in LEDs : LockChange(m.method, k, leds[l], leds'[l])
    BY <2>1, <2>3 DEF GoodMessage
  <2>9. QED
    BY <1>3, <2>4, <2>6, <2>7, <2>8 DEF FrontInv
<1>4. QED
  BY <1>2, <1>3

LEMMA OpenFailsInv ==
    ASSUME Inv, NEW m, OpenFails(m)
    PROVE  FrontInv' /\ leds' = leds
<1>1. leds' = leds /\ reply' = NoReply
  BY DEF OpenFails
<1>2. QED
  BY <1>1 DEF FrontInv, ResultsAreTrue, Answered, Inv

LEMMA FrontTimeoutInv ==
    ASSUME Inv, NEW l \in LEDs, NEW p \in Priorities, FrontTimeout(l, p)
    PROVE  FrontInv' /\ message' = NoReply
<1>1. Timeout(l, p) /\ message' = NoReply /\ reply' = NoReply
  BY DEF FrontTimeout
<1>2. [Next]_vars
  BY <1>1 DEF Next
<1>3. Inv'
  BY <1>2, NextInv
<1>4. ResultsAreTrue'
  BY <1>1 DEF ResultsAreTrue, Answered
<1>5. QED
  BY <1>1, <1>3, <1>4 DEF FrontInv

LEMMA FrontUnchanged == FrontInv /\ UNCHANGED frontVars => FrontInv'
BY DEF FrontInv, ResultsAreTrue, Answered, Inv, frontVars

LEMMA FrontInvHolds == FrontSpec => []FrontInv
<1>1. FrontInit => FrontInv
  BY InitInv DEF FrontInit, FrontInv, ResultsAreTrue, Answered
<1>2. FrontInv /\ [FrontNext]_frontVars => FrontInv'
  <2> SUFFICES ASSUME FrontInv, [FrontNext]_frontVars PROVE FrontInv'
    OBVIOUS
  <2>1. Inv
    BY DEF FrontInv
  <2>2. ASSUME NEW m \in Messages, NEW broken \in Broken, NEW told \in Readings(m),
               Handle(m, broken, told)
        PROVE  FrontInv'
    BY <2>1, <2>2, ReadingsType, HandleFacts
  <2>3. ASSUME NEW m \in Messages, OpenFails(m) PROVE FrontInv'
    BY <2>1, <2>3, OpenFailsInv
  <2>4. ASSUME NEW l \in LEDs, NEW p \in Priorities, FrontTimeout(l, p) PROVE FrontInv'
    BY <2>1, <2>4, FrontTimeoutInv
  <2>5. CASE UNCHANGED frontVars
    BY <2>5, FrontUnchanged
  <2>6. QED
    BY <2>2, <2>3, <2>4, <2>5 DEF FrontNext
<1>3. QED
  BY <1>1, <1>2, PTL DEF FrontSpec

LEMMA ToldOfEntry ==
    ASSUME NEW method, NEW t \in Told(method)
    PROVE  /\ Answered /\ message.method = method
           /\ \E i \in DOMAIN reply : t[1] = message.leds[i] /\ t[2] \in reply[i]
<1> DEFINE S(i) == {<<message.leds[i], r>> : r \in reply[i]}
<1>1. Answered /\ message.method = method /\ t \in UNION {S(i) : i \in DOMAIN reply}
  BY DEF Told
<1>2. PICK i \in DOMAIN reply : t \in S(i)
  <2> HIDE DEF S
  <2>1. QED
    BY <1>1
<1>3. QED
  BY <1>1, <1>2

LEMMA ToldIsAnswer ==
    ASSUME ResultsAreTrue, NEW method, NEW t \in Told(method)
    PROVE  /\ message.method = method
           /\ \E i \in DOMAIN message.leds :
                 t[1] = message.leds[i] /\ IsAnswer(message, i, t[2], leds)
BY ToldOfEntry DEF ResultsAreTrue

LEMMA AnswersGiveReplies == ResultsAreTrue => RepliesAreTrue
<1> SUFFICES ASSUME ResultsAreTrue PROVE RepliesAreTrue
  OBVIOUS
<1>1. ASSUME NEW t \in Told("activate"),
             Priority(t[1]) = LOCKED, t[1].lock # Missing, t[2].name \in LEDs
      PROVE  /\ leds[t[2].name].lock = t[2].lock
             /\ t[2].success => t[2].lock = t[1].lock
  <2>1. IsTrue("activate", t[2].name, t[1], t[2], leds[t[2].name])
    BY <1>1, ToldIsAnswer DEF IsAnswer
  <2>2. QED
    BY <1>1, <2>1 DEF IsTrue
<1>2. ASSUME NEW t \in Told("deactivate"), Priority(t[1]) = LOCKED, t[2].success
      PROVE  leds[t[2].name].lock = NoLock
  <2>1. IsTrue("deactivate", t[2].name, t[1], t[2], leds[t[2].name])
    BY <1>2, ToldIsAnswer DEF IsAnswer
  <2>2. QED
    BY <1>2, <2>1 DEF IsTrue
<1>3. ASSUME NEW t \in Told("set"),
             t[2].success, t[2].name \in LEDs, SetLast(t[1], t[2].name)
      PROVE  leds[t[2].name].ctx[Priority(t[1])].state = t[1].state
  <2>1. IsTrue("set", t[2].name, t[1], t[2], leds[t[2].name])
    <3>1. PICK i \in DOMAIN message.leds :
            t[1] = message.leds[i] /\ IsAnswer(message, i, t[2], leds)
      BY <1>3, ToldIsAnswer
    <3>2. message.method = "set"
      BY <1>3, ToldIsAnswer
    <3>3. \A k \in DOMAIN message.leds :
             Reaches(message.leds[k], t[2].name) => message.leds[k] = t[1]
      BY <1>3 DEF SetLast, Reaches
    <3>4. QED
      BY <1>3, <3>1, <3>2, <3>3 DEF IsAnswer
  <2>2. IsSteadyRequest(t[1])
    BY <1>3 DEF SetLast, IsSteadyRequest
  <2>3. QED
    BY <1>3, <2>1, <2>2 DEF IsTrue
<1>4. QED
  BY <1>1, <1>2, <1>3 DEF RepliesAreTrue

LEMMA AnswersGiveLocks == ResultsAreTrue => LockingAllTakesEveryLed
<1> SUFFICES ASSUME ResultsAreTrue, NEW t \in Told("activate"),
                    t[1].name = All, Priority(t[1]) = LOCKED, t[2].success
             PROVE  \A l \in LEDs : leds[l].lock = t[1].lock
  BY DEF LockingAllTakesEveryLed
<1>1. LockedAll("activate", t[1], t[2], leds)
  BY ToldIsAnswer DEF IsAnswer
<1>2. QED
  BY <1>1 DEF LockedAll

(* A reply is still true when it is sent: the locks, the releases and the    *)
(* states that it tells of are those that every LED has after the message.   *)
THEOREM RepliesTellTheTruth == FrontSpec => []RepliesAreTrue
<1>1. FrontInv => RepliesAreTrue
  BY AnswersGiveReplies DEF FrontInv
<1>2. QED
  BY <1>1, FrontInvHolds, PTL

(* A client that is told of one LED that it locked with the name of all LEDs *)
(* holds them all.                                                           *)
THEOREM AllLedsAreLocked == FrontSpec => []LockingAllTakesEveryLed
<1>1. FrontInv => LockingAllTakesEveryLed
  BY AnswersGiveLocks DEF FrontInv
<1>2. QED
  BY <1>1, FrontInvHolds, PTL

(* A LED that a message changed has a successful result in its reply, or is  *)
(* named before the entry that leaves the message without one.  It takes     *)
(* writes that succeed, of states that the plugin can write: a failed one    *)
(* has changed the flash.                                                    *)
THEOREM EveryChangeIsReported ==
    ASSUME ~ WritesMayFail, \A m \in Messages : m.leds # NotTables => AllShow(m)
    PROVE  FrontSpec => ChangesAreReported
<1> DEFINE Reported(l) ==
               leds'[l] # leds[l] /\ message' # NoReply =>
                  IF reply' # NoReply
                  THEN \E i \in DOMAIN reply' : \E r \in reply'[i] : r.name = l /\ r.success
                  ELSE message'.leds # NotTables /\ NamedBefore(message', l)
<1>1. ASSUME FrontInv, FrontNext, NEW l \in LEDs PROVE Reported(l)
  <2>1. Inv
    BY <1>1 DEF FrontInv
  <2>2. ASSUME NEW m \in Messages, NEW broken \in Broken, NEW told \in Readings(m),
               Handle(m, broken, told)
        PROVE  Reported(l)
    <3>1. broken = {} /\ told \in BOOLEAN /\ message' = m
      BY <2>2, ReadingsType DEF Broken, Handle
    <3>2. leds'[l] # leds[l] =>
             /\ m.leds # NotTables /\ NamedBefore(m, l)
             /\ reply' # NoReply /\ l \notin broken /\ AllShow(m) =>
                   \E i \in DOMAIN reply' : \E q \in reply'[i] : q.name = l /\ q.success
      BY <2>1, <2>2, <3>1, HandleFacts
    <3>3. QED
      BY <3>1, <3>2
  <2>3. ASSUME NEW m \in Messages, OpenFails(m) PROVE Reported(l)
    BY <2>1, <2>3, OpenFailsInv
  <2>4. ASSUME NEW k \in LEDs, NEW p \in Priorities, FrontTimeout(k, p) PROVE Reported(l)
    BY <2>1, <2>4, FrontTimeoutInv
  <2>5. QED
    BY <1>1, <2>2, <2>3, <2>4 DEF FrontNext
<1>2. FrontInv /\ [FrontNext]_frontVars => [\A l \in LEDs : Reported(l)]_frontVars
  BY <1>1
<1>3. [\A l \in LEDs : Reported(l)]_frontVars <=>
      [\A l \in LEDs : leds'[l] # leds[l] /\ message' # NoReply =>
          IF reply' # NoReply
          THEN \E i \in DOMAIN reply' : \E r \in reply'[i] : r.name = l /\ r.success
          ELSE message'.leds # NotTables /\ NamedBefore(message', l)]_frontVars
  OBVIOUS
<1>4. QED
  BY <1>2, <1>3, FrontInvHolds, PTL DEF FrontSpec, ChangesAreReported

(* Messages of clients that use one lock ID in each implement the locking of *)
(* LedLock: whatever entries and names a message has, it takes locks only    *)
(* from nobody, and gives them up only with their ID.                        *)
THEOREM MessagesImplementLocking ==
    ASSUME \A m \in Messages : m.leds # NotTables => \E k \in LockIds : OneId(m, k)
    PROVE  FrontSpec => ImplementsLocking
<1>1. FrontInit => Locks!Init
  BY DEF FrontInit, Init, NewLed, Locks!Init
<1>2. ASSUME FrontInv, [FrontNext]_frontVars PROVE [Locks!Next]_Owner
  <2>1. Inv
    BY <1>2 DEF FrontInv
  <2>2. ASSUME NEW m \in Messages, NEW broken \in Broken, NEW told \in Readings(m),
               Handle(m, broken, told)
        PROVE  [Locks!Next]_Owner
    <3>1. told \in BOOLEAN
      BY ReadingsType
    <3>2. CASE m.leds = NotTables
      BY <2>2, <3>2 DEF Handle, Owner
    <3>3. CASE m.leds # NotTables
      <4>1. PICK k \in LockIds : OneId(m, k)
        BY <3>3
      <4>2. \A l \in LEDs : LockChange(m.method, k, leds[l], leds'[l])
        BY <2>1, <2>2, <3>1, <3>3, <4>1, HandleFacts
      <4> DEFINE S == {l \in LEDs : leds'[l].lock # leds[l].lock}
      <4>3. CASE m.method = "activate"
        <5>1. \A l \in LEDs :
                leds'[l].lock = IF l \in S /\ leds[l].lock = NoLock THEN k ELSE leds[l].lock
          BY <4>2, <4>3 DEF LockChange
        <5>2. Locks!Lock(S, k)
          BY <5>1 DEF Locks!Lock
        <5>3. QED
          BY <4>1, <5>2 DEF Locks!Next
      <4>4. CASE m.method = "deactivate"
        <5>1. \A l \in LEDs :
                leds'[l].lock = IF l \in S /\ leds[l].lock = k THEN NoLock ELSE leds[l].lock
          BY <4>2, <4>4 DEF LockChange
        <5>2. Locks!Unlock(S, k)
          BY <5>1 DEF Locks!Unlock
        <5>3. QED
          BY <4>1, <5>2 DEF Locks!Next
      <4>5. CASE m.method \notin {"activate", "deactivate"}
        BY <4>2, <4>5 DEF LockChange, Owner
      <4>6. QED
        BY <4>3, <4>4, <4>5
    <3>4. QED
      BY <3>2, <3>3
  <2>3. ASSUME NEW m \in Messages, OpenFails(m) PROVE [Locks!Next]_Owner
    BY <2>1, <2>3, OpenFailsInv DEF Owner
  <2>4. ASSUME NEW l \in LEDs, NEW p \in Priorities, FrontTimeout(l, p)
        PROVE  [Locks!Next]_Owner
    <3>1. [Next]_vars
      BY <2>4 DEF FrontTimeout, Next
    <3>2. QED
      BY <2>1, <3>1, LockStep
  <2>5. CASE UNCHANGED frontVars
    BY <2>5 DEF frontVars, Owner
  <2>6. QED
    BY <1>2, <2>2, <2>3, <2>4, <2>5 DEF FrontNext
<1>3. FrontInv /\ [FrontNext]_frontVars => [Locks!Next]_Owner
  BY <1>2
<1>4. QED
  BY <1>1, <1>3, FrontInvHolds, PTL DEF FrontSpec, Owner, ImplementsLocking, Locks!Spec

------------------------------------------------------------------------------
(***************************************************************************)
(* What get answers is what the LED shows, as long as every LED shows the  *)
(* state of its highest active priority.  Messages of clients keep it so   *)
(* if they set only priorities that are active, to states that the plugin  *)
(* can write or the daemon can flash, and flash only NORMAL, which is      *)
(* never deactivated; and if writes succeed.                               *)
(***************************************************************************)
SteadyEntry(method, e) ==
    method = "set" => /\ e.state \in Accepted \/ e.flash = "none"
                      /\ Priority(e) = NORMAL \/ IsSteadyRequest(e)

SteadyMessages ==
    /\ ~ WritesMayFail /\ ReportedStates \subseteq Accepted
    /\ \A m \in Messages : m.leds # NotTables =>
          \A i \in DOMAIN m.leds :
              Valid(m.method, m.leds[i]) => SteadyEntry(m.method, m.leds[i])

(* One that is set has the priority of the request active.                   *)
SetActive(method, e, r) ==
    method = "set" /\ Priority(e) \in Priorities => Priority(e) \in r.active

(* The LED stays steady, and set leaves the active priorities alone.         *)
StaysSteady(method, r, new) ==
    /\ LedSteady(new)
    /\ method = "set" => new.active = r.active

LEMMA SteadyVisit ==
    ASSUME NEW method \in Methods, NEW l, NEW e, IsEntry(e), Valid(method, e),
           Allowed(method, e), SteadyEntry(method, e), NEW r, LedSteady(r),
           SetActive(method, e, r), NEW ok \in BOOLEAN, ok = TRUE, NEW told
    PROVE  StaysSteady(method, r, ProcessOne(method, l, r, e, ok, told).led)
<1> DEFINE new == ProcessOne(method, l, r, e, ok, told).led
           p == Priority(e)
<1>1. r \in LedType
  BY DEF LedSteady, LedShows
<1>2. CASE method = "get"
  <2>1. new = r
    BY <1>2 DEF ProcessOne
  <2>2. QED
    BY <1>2, <2>1 DEF StaysSteady
<1>3. CASE method = "set"
  <2>1. new = IF p \in Priorities THEN SetLed(r, RequestOf(e), ok) ELSE r
    BY <1>3 DEF ProcessOne, SetOne
  <2> HIDE DEF new
  <2>2. CASE p \notin Priorities
    BY <2>1, <2>2 DEF new, StaysSteady
  <2>3. CASE p \in Priorities
    <3>1. /\ RequestOf(e) \in RequestType
          /\ RequestOf(e).priority = p /\ RequestOf(e).state = e.state
          /\ RequestOf(e).flash = e.flash
      BY <1>3, <2>3, RequestOfEntry
    <3>2. /\ e.state \in Accepted \/ e.flash = "none"
          /\ p = NORMAL \/ (e.state \in Supported /\ e.flash = "none")
          /\ p \in r.active
      BY <1>3, <2>3 DEF SteadyEntry, SetActive, IsSteadyRequest
    <3> DEFINE req == RequestOf(e)
    <3> HIDE DEF req, p
    <3>3. LedSteady(SetLed(r, req, TRUE)) /\ SetLed(r, req, TRUE).active = r.active
      BY <3>1, <3>2, SetLedSteady DEF req, IsSteadyRequest
    <3>4. new = SetLed(r, req, TRUE)
      BY <2>1, <2>3 DEF req
    <3>5. QED
      BY <3>3, <3>4 DEF new, StaysSteady
  <2>4. QED
    BY <2>2, <2>3
<1>4. CASE method = "activate"
  <2>1. new = LockAndActivate(r, p, Lock(e), ok)
    BY <1>4 DEF ProcessOne, ActivateOne
  <2>2. p \in Priorities /\ Lock(e) \in LockIds \cup {NoLock}
    BY <1>4, LockOfEntry DEF Allowed
  <2> DEFINE locked == [r EXCEPT !.lock = Lock(e)]
  <2>3. LedSteady(locked)
    BY <1>1, <2>2, LockKeepsSteady
  <2>4. \A q : LedSteady(q) => LedSteady(ActivateLed(q, p, ok))
    BY <2>2, ActivateSteady
  <2>5. new \in {r, ActivateLed(r, p, ok), ActivateLed(locked, p, ok)}
    BY <2>1 DEF LockAndActivate
  <2> HIDE DEF new, locked, p
  <2>6. LedSteady(new)
    BY <2>3, <2>4, <2>5
  <2>7. QED
    BY <1>4, <2>6 DEF new, StaysSteady
<1>5. CASE method = "deactivate"
  <2>1. new = UnlockAndDeactivate(r, p, Lock(e), ok)
    BY <1>5 DEF ProcessOne, DeactivateOne
  <2>2. p \in Priorities
    BY <1>5 DEF Allowed
  <2> DEFINE unlocked == [r EXCEPT !.lock = NoLock]
  <2>3. LedSteady(unlocked)
    BY <1>1, LockKeepsSteady
  <2>4. \A q : LedSteady(q) => LedSteady(DeactivateLed(q, p, ok))
    BY <2>2, DeactivateSteady
  <2>5. new \in {r, DeactivateLed(r, p, ok), DeactivateLed(unlocked, p, ok)}
    BY <2>1 DEF UnlockAndDeactivate
  <2> HIDE DEF new, unlocked, p
  <2>6. LedSteady(new)
    BY <2>3, <2>4, <2>5
  <2>7. QED
    BY <1>5, <2>6 DEF new, StaysSteady
<1>6. QED
  BY <1>2, <1>3, <1>4, <1>5 DEF Methods

LEMMA SteadyVisits ==
    ASSUME NEW method \in Methods, NEW l \in LEDs, NEW e, IsEntry(e), Valid(method, e),
           Allowed(method, e), e.name \in Names, SteadyEntry(method, e), NEW r, LedSteady(r),
           Visits(e.name, l) > 0 => SetActive(method, e, r),
           NEW ok \in BOOLEAN, ok = TRUE, NEW told
    PROVE  StaysSteady(method, r, ProcessLed(method, l, r, e, ok, told).led)
<1> DEFINE once == ProcessOne(method, l, r, e, ok, told)
           twice == ProcessOne(method, l, once.led, e, ok, told)
           n == Visits(e.name, l)
           v == ProcessLed(method, l, r, e, ok, told)
<1>1. v = CASE n = 0 -> [led |-> r, results |-> {}]
            [] n = 1 -> [led |-> once.led, results |-> {once.result}]
            [] n = 2 -> [led |-> twice.led, results |-> {once.result, twice.result}]
  BY DEF ProcessLed
<1>2. n \in {0, 1, 2}
  BY VisitsType
<1>3. n > 0 => StaysSteady(method, r, once.led)
  BY SteadyVisit
<1>4. n > 0 => StaysSteady(method, r, twice.led)
  <2> SUFFICES ASSUME n > 0 PROVE StaysSteady(method, r, twice.led)
    OBVIOUS
  <2>1. StaysSteady(method, r, once.led) /\ SetActive(method, e, r)
    BY <1>3
  <2> HIDE DEF once, n
  <2>2. LedSteady(once.led) /\ SetActive(method, e, once.led)
    BY <2>1 DEF StaysSteady, SetActive
  <2>3. StaysSteady(method, once.led, twice.led)
    BY <2>2, SteadyVisit
  <2> HIDE DEF twice
  <2>4. QED
    BY <2>1, <2>3 DEF StaysSteady
<1> HIDE DEF once, twice, n, v
<1>5. v.led \in {r, once.led, twice.led} /\ (v.led # r => n > 0)
  BY <1>1, <1>2
<1>6. StaysSteady(method, r, v.led)
  <2>1. StaysSteady(method, r, r)
    BY DEF StaysSteady
  <2>2. QED
    BY <1>3, <1>4, <1>5, <2>1
<1>7. QED
  BY <1>6 DEF v

(* The LEDs during a message, which found them as first.                     *)
SteadyLeds(method, state, first) ==
    \A l \in LEDs : StaysSteady(method, first[l], state[l])

LEMMA SteadyEntryKeeps ==
    ASSUME NEW method \in Methods, NEW e, IsEntry(e), Valid(method, e), SteadyEntry(method, e),
           NEW first, NEW before, SteadyLeds(method, before, first),
           \A l \in LEDs : Reaches(e, l) => SetActive(method, e, first[l]), NEW told
    PROVE  SteadyLeds(method, ProcessEntry(method, before, e, {}, told).leds, first)
<1> DEFINE v == ProcessEntry(method, before, e, {}, told)
<1>1. CASE Refused(method, e, before)
  <2>1. v.leds = before
    BY <1>1 DEF ProcessEntry
  <2>2. QED
    BY <2>1
<1>2. CASE ~ Refused(method, e, before)
  <2>1. Allowed(method, e) /\ e.name \in Names
    BY <1>2 DEF Refused, Allowed
  <2>2. ASSUME NEW l \in LEDs
        PROVE  StaysSteady(method, first[l], v.leds[l])
    <3>1. PICK ok \in BOOLEAN : ok = TRUE /\ ok = (l \notin {})
      OBVIOUS
    <3>2. v.leds[l] = ProcessLed(method, l, before[l], e, ok, told).led
      <4> DEFINE processed == [k \in LEDs |->
                     ProcessLed(method, k, before[k], e, k \notin {}, told)]
      <4>1. v.leds = [k \in LEDs |-> processed[k].led]
        BY <1>2 DEF ProcessEntry
      <4>2. processed[l] = ProcessLed(method, l, before[l], e, l \notin {}, told)
        OBVIOUS
      <4>3. processed[l] = ProcessLed(method, l, before[l], e, ok, told)
        BY <3>1, <4>2
      <4> HIDE DEF processed, v
      <4>4. QED
        BY <4>1, <4>3
    <3>3. StaysSteady(method, first[l], before[l])
      BY DEF SteadyLeds
    <3>4. Visits(e.name, l) > 0 => SetActive(method, e, before[l])
      BY <2>1, <3>3 DEF Reaches, SetActive, StaysSteady
    <3>5. StaysSteady(method, before[l], ProcessLed(method, l, before[l], e, ok, told).led)
      <4>1. ok = TRUE /\ ok \in BOOLEAN
        BY <3>1
      <4>2. LedSteady(before[l])
        BY <3>3 DEF StaysSteady
      <4> HIDE DEF v
      <4>3. QED
        BY <2>1, <3>4, <4>1, <4>2, SteadyVisits
    <3> HIDE DEF v
    <3>6. QED
      BY <3>2, <3>3, <3>5 DEF StaysSteady
  <2>3. QED
    BY <2>2 DEF SteadyLeds
<1>3. QED
  BY <1>1, <1>2

LEMMA SteadyMessageKeeps ==
    ASSUME SteadyMessages, NEW m \in Messages, m.leds # NotTables, Disciplined(m),
           \A l \in LEDs : LedSteady(leds[l]), NEW told \in BOOLEAN
    PROVE  LET a == After(m, {}, told)
           IN  \A i \in 0 .. Len(m.leds) : SteadyLeds(m.method, a[i].leds, leds)
<1> DEFINE a == After(m, {}, told)
           n == Len(m.leds)
           T == {i \in 0 .. n : SteadyLeds(m.method, a[i].leds, leds)}
<1>1. n \in Nat
  BY MessageType
<1>2. /\ a[0] = [leds |-> leds, results |-> {}]
      /\ \A i \in 1 .. n : a[i] = Processed(m, a[i - 1], i, {}, told)
  BY AfterEquation
<1> HIDE DEF a, n
<1>3. 0 \in T
  <2>1. a[0].leds = leds
    BY <1>2
  <2>2. SteadyLeds(m.method, leds, leds)
    BY DEF SteadyLeds, StaysSteady
  <2>3. QED
    BY <1>1, <2>1, <2>2
<1>4. ASSUME NEW i \in 1 .. n, i - 1 \in T PROVE i \in T
  <2> DEFINE b == a[i - 1].leds
             e == m.leds[i]
  <2>1. SteadyLeds(m.method, b, leds)
    BY <1>4
  <2>2. i \in 0 .. n
    BY <1>1
  <2>3. a[i] = Processed(m, a[i - 1], i, {}, told)
    BY <1>2
  <2>4. CASE i \notin Applied(m)
    <3>1. a[i] = a[i - 1]
      BY <2>3, <2>4 DEF Processed
    <3>2. QED
      BY <1>4, <2>2, <3>1
  <2>5. CASE i \in Applied(m)
    <3>1. /\ i \in DOMAIN m.leds /\ IsEntry(e) /\ Valid(m.method, e)
          /\ m.method \in Methods
      BY <2>5, AppliedIsValid
    <3>2. SteadyEntry(m.method, e)
      BY <3>1 DEF SteadyMessages
    <3>3. \A l \in LEDs : Reaches(e, l) => SetActive(m.method, e, leds[l])
      BY <3>1 DEF Disciplined, Reaches, SetActive
    <3>4. a[i] = ProcessEntry(m.method, b, e, {}, told)
      BY <2>3, <2>5 DEF Processed
    <3> HIDE DEF b, e
    <3>5. SteadyLeds(m.method, a[i].leds, leds)
      BY <2>1, <3>1, <3>2, <3>3, <3>4, SteadyEntryKeeps
    <3>6. QED
      BY <2>2, <3>5
  <2>6. QED
    BY <2>4, <2>5
<1>5. T = 0 .. n
  <2>1. T \subseteq 0 .. n
    OBVIOUS
  <2> HIDE DEF T
  <2>2. QED
    BY <1>1, <1>3, <1>4, <2>1, Induction
<1>6. \A i \in 0 .. n : SteadyLeds(m.method, a[i].leds, leds)
  BY <1>5
<1>7. QED
  BY <1>6 DEF a, n

SteadyFrontInv == FrontInv /\ \A l \in LEDs : LedSteady(leds[l])

LEMMA SteadyFrontInvHolds ==
    ASSUME SteadyMessages
    PROVE  DisciplinedFrontSpec => []SteadyFrontInv
<1>1. FrontInit => SteadyFrontInv
  <2> SUFFICES ASSUME FrontInit PROVE SteadyFrontInv
    OBVIOUS
  <2>1. FrontInv
    BY InitInv DEF FrontInit, FrontInv, ResultsAreTrue, Answered
  <2>2. ASSUME NEW l \in LEDs PROVE LedSteady(leds[l])
    <3>1. PICK s \in ReportedStates : leds[l] = NewLed(s, TRUE)
      BY DEF FrontInit, Init, Outcomes, SteadyMessages
    <3>2. QED
      BY <3>1, NewLedSteady DEF SteadyMessages
  <2>3. QED
    BY <2>1, <2>2 DEF SteadyFrontInv
<1>2. SteadyFrontInv /\ [DisciplinedFrontNext]_frontVars => SteadyFrontInv'
  <2> SUFFICES ASSUME SteadyFrontInv, [DisciplinedFrontNext]_frontVars PROVE SteadyFrontInv'
    OBVIOUS
  <2>1. FrontInv /\ Inv /\ \A l \in LEDs : LedSteady(leds[l])
    BY DEF SteadyFrontInv, FrontInv
  <2>2. ASSUME NEW m \in Messages, Disciplined(m), NEW broken \in Broken,
               NEW told \in Readings(m), Handle(m, broken, told)
        PROVE  SteadyFrontInv'
    <3>1. broken = {} /\ told \in BOOLEAN
      BY ReadingsType DEF Broken, SteadyMessages
    <3>2. FrontInv'
      BY <2>1, <2>2, <3>1, HandleFacts
    <3>3. CASE m.leds = NotTables
      <4>1. leds' = leds
        BY <2>2, <3>3 DEF Handle
      <4>2. QED
        BY <2>1, <3>2, <4>1 DEF SteadyFrontInv
    <3>4. CASE m.leds # NotTables
      <4> DEFINE a == After(m, {}, told)
                 n == Len(m.leds)
      <4>1. leds' = a[n].leds
        BY <2>2, <3>1, <3>4 DEF Handle
      <4>2. n \in Nat
        BY <3>4, MessageType
      <4>3. \A i \in 0 .. n : SteadyLeds(m.method, a[i].leds, leds)
        BY <2>1, <2>2, <3>1, <3>4, SteadyMessageKeeps
      <4> HIDE DEF a, n
      <4>4. SteadyLeds(m.method, leds', leds)
        BY <4>1, <4>2, <4>3
      <4>5. QED
        BY <3>2, <4>4 DEF SteadyFrontInv, SteadyLeds, StaysSteady
    <3>5. QED
      BY <3>3, <3>4
  <2>3. ASSUME NEW m \in Messages, OpenFails(m) PROVE SteadyFrontInv'
    BY <2>1, <2>3, OpenFailsInv DEF SteadyFrontInv
  <2>4. ASSUME NEW k \in LEDs, NEW p \in Priorities, FrontTimeout(k, p)
        PROVE  SteadyFrontInv'
    <3>1. FrontInv' /\ Timeout(k, p)
      BY <2>1, <2>4, FrontTimeoutInv DEF FrontTimeout
    <3>2. ASSUME NEW l \in LEDs PROVE LedSteady(leds'[l])
      <4>1. \/ leds'[l] = leds[l]
            \/ leds[l].ctx[p].timer /\ leds'[l] = FlashLed(leds[l], p, TRUE, TRUE)
        BY <2>1, <3>1, TimeoutOfLed DEF TimeoutStep, Outcomes, SteadyMessages
      <4>2. QED
        BY <2>1, <4>1, FlashLedSteady
    <3>3. QED
      BY <3>1, <3>2 DEF SteadyFrontInv
  <2>5. CASE UNCHANGED frontVars
    BY <2>1, <2>5, FrontUnchanged DEF SteadyFrontInv, frontVars
  <2>6. QED
    BY <2>2, <2>3, <2>4, <2>5 DEF DisciplinedFrontNext
<1>3. QED
  BY <1>1, <1>2, PTL DEF DisciplinedFrontSpec

(* What get answers is what the LED shows, whether or not the plugin can     *)
(* tell, and a LED is said to be locked exactly while it has a lock.         *)
THEOREM GetTellsTheTruth ==
    ASSUME SteadyMessages
    PROVE  DisciplinedFrontSpec => []GetTellsWhatIsShown
<1>1. SteadyFrontInv => GetTellsWhatIsShown
  <2> SUFFICES ASSUME SteadyFrontInv, NEW t \in Told("get"), t[2].success
               PROVE  LET led == leds[t[2].name]
                      IN  /\ t[2].state = led.phys
                          /\ t[2].lock = led.lock
                          /\ t[2].priority = LOCKED => t[2].lock # NoLock
                          /\ t[2].lock # NoLock => t[2].priority <= LOCKED
    BY DEF GetTellsWhatIsShown
  <2> DEFINE q == t[2]
             r == leds[q.name]
  <2>1. q.name \in LEDs /\ \E told \in BOOLEAN : q = GetResult(q.name, r, told)
    BY ToldIsAnswer DEF SteadyFrontInv, FrontInv, IsAnswer, IsTrue
  <2>2. LedSteady(r) /\ LedInv(r)
    BY <2>1 DEF SteadyFrontInv, FrontInv, Inv
  <2>3. /\ q.state = r.phys \/ q.state = r.ctx[Highest(r)].state
        /\ q.lock = r.lock /\ q.priority = Highest(r)
    <3> PICK told \in BOOLEAN : q = GetResult(q.name, r, told)
      BY <2>1
    <3> HIDE DEF q, r
    <3> QED
      BY DEF GetResult, Result
  <2>4. r \in LedType /\ r.phys = r.ctx[Highest(r)].state
    BY <2>2 DEF LedSteady, LedShows, ShowsHighest
  <2> HIDE DEF q, r
  <2>5. q.state = r.phys
    BY <2>3, <2>4
  <2>6. /\ Highest(r) = LOCKED => r.lock # NoLock
        /\ r.lock # NoLock => Highest(r) <= LOCKED
    BY <2>2, <2>4, HighestType DEF LedInv, LockAgrees
  <2>7. QED
    BY <2>3, <2>5, <2>6 DEF q, r
<1>2. QED
  BY <1>1, SteadyFrontInvHolds, PTL

(* With such messages every LED shows the state of its highest priority.     *)
THEOREM MessagesShowHighestState ==
    ASSUME SteadyMessages
    PROVE  DisciplinedFrontSpec => []ShowsHighestState
<1>1. SteadyFrontInv => ShowsHighestState
  BY DEF SteadyFrontInv, LedSteady, ShowsHighest, ShowsHighestState
<1>2. QED
  BY <1>1, SteadyFrontInvHolds, PTL

(* What is proved of all messages holds for those clients as well.           *)
LEMMA DisciplinedIsFront == DisciplinedFrontSpec => FrontSpec
<1>1. [DisciplinedFrontNext]_frontVars => [FrontNext]_frontVars
  BY DEF DisciplinedFrontNext, FrontNext
<1>2. QED
  BY <1>1, PTL DEF DisciplinedFrontSpec, FrontSpec
==============================================================================
