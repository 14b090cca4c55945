---------------------------- MODULE MCLockSession ----------------------------
(* Two clients of two LEDs, with an alias for both. *)
EXTENDS LockSession, TLC

CONSTANTS a, b, front, c1, c2, k1, k2

MCAliasOf == front :> {a, b}
MCIdOf == c1 :> k1 @@ c2 :> k2
OnOff == {OFF, ON}
JustOff == {OFF}
Steady == {<<"none", 0>>}
NoPriorities == {}

Command(op, names) == [op |-> op, names |-> names]

MCCommands == {Command("lock", <<a>>), Command("lock", <<front, All>>),
               Command("unlock", <<a>>), Command("locked_on", <<a>>),
               Command("on", <<front>>)}

(* The clients are alike, each with its own lock ID. *)
MCSymmetry == {[x \in {c1, c2, k1, k2} |-> x],
               c1 :> c2 @@ c2 :> c1 @@ k1 :> k2 @@ k2 :> k1}
==============================================================================
