--------------------------- MODULE MCUbusFrontEnd ---------------------------
(* Messages of two clients for two LEDs, one of which shares its name with   *)
(* an alias of both; the LEDs of a second alias aren't on this platform.     *)
EXTENDS UbusFrontEnd, TLC

CONSTANTS a, b, front, nowhere, k1, k2, missing

MCAliasOf == a :> {a, b} @@ front :> {}
MCPriorities == {LOCKED, ALTERNATE, NORMAL}
OnOff == {OFF, ON}
AllKnown == LedStates \ {UNKNOWN}
Steady == {<<"none", 0>>}

Entry(name, priority, state, lock) ==
    [name |-> name, priority |-> priority, state |-> state, flash |-> "none", time |-> 0,
     lock |-> lock]
Nameless == Entry(missing, missing, UNKNOWN, missing)
Stateless == Entry(b, NORMAL, UNKNOWN, missing)
NoSuchPriority == 17

Get(names) == [method |-> "get", leds |-> names]
Set(entries) == [method |-> "set", leds |-> entries]
Activate(entries) == [method |-> "activate", leds |-> entries]
Deactivate(entries) == [method |-> "deactivate", leds |-> entries]

(* Messages with one entry, as the client library sends them. *)
Single ==
    {Get(<<Entry(All, missing, UNKNOWN, missing)>>)} \cup
    {Set(<<Entry(b, missing, s, missing)>>) : s \in OnOff} \cup
    {Set(<<Entry(a, LOCKED, ON, k)>>) : k \in {k1, missing}} \cup
    {Set(<<Entry(b, ALTERNATE, ON, missing)>>)} \cup
    {Activate(<<Entry(n, LOCKED, UNKNOWN, k)>>) : n \in {a, b, All}, k \in LockIds} \cup
    {Deactivate(<<Entry(n, LOCKED, UNKNOWN, k)>>) : n \in {a, b, All}, k \in LockIds} \cup
    {Activate(<<Entry(b, ALTERNATE, UNKNOWN, missing)>>),
     Deactivate(<<Entry(All, ALTERNATE, UNKNOWN, missing)>>)}

(* Messages that fail as a whole, in part, or after some of their entries. *)
Several ==
    {Get(<<Entry(front, missing, UNKNOWN, missing), Entry(a, missing, UNKNOWN, missing)>>),
     Get(<<Entry(nowhere, missing, UNKNOWN, missing), Nameless>>),
     Set(NotTables),
     Set(<<Entry(front, missing, ON, missing), Entry(nowhere, missing, ON, missing),
           Entry(a, NoSuchPriority, ON, missing)>>),
     Set(<<Entry(b, missing, ON, missing), Stateless, Entry(All, missing, OFF, missing)>>),
     Set(<<[Entry(b, missing, ON, missing) EXCEPT !.flash = "one_shot"]>>),
     Activate(<<Entry(b, LOCKED, UNKNOWN, k1), Nameless, Entry(a, LOCKED, UNKNOWN, k1)>>),
     Activate(<<Entry(b, LOCKED, UNKNOWN, missing), Entry(front, LOCKED, UNKNOWN, k2),
                Entry(a, LOCKED, UNKNOWN, k2)>>),
     Deactivate(<<Entry(a, NoSuchPriority, UNKNOWN, k2), Entry(b, LOCKED, UNKNOWN, missing),
                  Entry(b, LOCKED, UNKNOWN, k2), Nameless>>)}

MCMessages == Single \cup Several
==============================================================================
