----------------------------- MODULE ConfigFiles -----------------------------
(***************************************************************************)
(* Loading patterns and aliases when the daemon starts: led_patterns.c,    *)
(* led_aliases.c and iterate_files.c.                                      *)
(*                                                                         *)
(* The files of a directory are read one after the other, in the order of  *)
(* glob, and the definitions of each file are parsed and put into a tree   *)
(* by name.  A step here is one file.  A field that is missing, has        *)
(* another type or is a number that isn't an INT32 is not seen by the      *)
(* parser: it is Missing.                                                  *)
(***************************************************************************)
EXTENDS Integers, Sequences

CONSTANTS
    PatternFiles,       \* What a pattern file may hold: definitions, or NotTables
    AliasFiles,         \* The same for alias files
    MaxFiles,           \* Bound: the files of a directory
    Key,                \* The names that strcasecmp takes for the same, as one
    Missing,            \* A field that isn't there
    NotTables           \* An array with an element of another type, or no array

VARIABLES
    patternFiles, aliasFiles,       \* The files of the two directories
    read,                           \* Whether each file read so far could be read
    patterns, aliases               \* The trees: definitions by their keys

vars == <<patternFiles, aliasFiles, read, patterns, aliases>>

IsList(s) == Len(s) \in Nat /\ DOMAIN s = 1 .. Len(s)

(* Names that aren't Missing have a key; what isn't NotTables is a list, of  *)
(* which no element is Missing.                                              *)
ASSUME FilesAssumption ==
    /\ MaxFiles \in Nat
    /\ \A file \in (PatternFiles \cup AliasFiles) \ {NotTables} :
          /\ IsList(file)
          /\ \A i \in DOMAIN file : file[i].name # Missing => file[i].name \in DOMAIN Key
    /\ \A file \in PatternFiles \ {NotTables} : \A i \in DOMAIN file :
          /\ file[i].steps # NotTables =>
                /\ IsList(file[i].steps)
                /\ \A n \in DOMAIN file[i].steps :
                      /\ file[i].steps[n] # Missing
                      /\ file[i].steps[n].leds # NotTables => IsList(file[i].steps[n].leds)
          /\ \A s \in {file[i].start, file[i].end} \ {Missing} :
                s.leds # NotTables => IsList(s.leds)

Default(field, value) == IF field = Missing THEN value ELSE field

------------------------------------------------------------------------------
(* What parsing yields is a set with one value, or empty if a part is wrong. *)
Only(found) == CHOOSE value \in found : TRUE

(* parse_step_led: every field has a default. *)
ParseLed(e) ==
    [name |-> Default(e.name, ""), state |-> Default(e.state, "unknown"),
     priority |-> e.priority]

(* parse_pattern_step and parse_step_leds *)
ParseStep(s) ==
    IF s.leds = NotTables THEN {}
    ELSE {[timed |-> Default(s.time, 0) # 0,
           leds |-> [i \in DOMAIN s.leds |-> ParseLed(s.leds[i])]]}

(* Mutant of ParseSteps: the steps before one that can't be parsed are kept. *)
ParseSteps_Prefix(steps) ==
    IF steps = NotTables THEN {}
    ELSE LET Parses(s) == ParseStep(s) # {}
             kept == SelectSeq(steps, Parses)
         IN  {[i \in DOMAIN kept |-> Only(ParseStep(kept[i]))]}

(* parse_pattern_steps stops at the first step that can't be parsed. *)
ParseSteps(steps) ==
    IF steps = NotTables \/ \E i \in DOMAIN steps : ParseStep(steps[i]) = {} THEN {}
    ELSE {[i \in DOMAIN steps |-> Only(ParseStep(steps[i]))]}

(* A pattern without a start or an end step has an empty one. *)
NoStep == [timed |-> FALSE, leds |-> <<>>]
ParseOptional(s) == IF s = Missing THEN {NoStep} ELSE ParseStep(s)

(* parse_led_pattern *)
ParsePattern(d) ==
    LET repeat == Default(d.repeat, FALSE)
    IN  IF d.name = Missing THEN {}
        ELSE {[repeat |-> repeat,
               playCount |-> Default(d.playCount, IF repeat THEN 0 ELSE 1),
               start |-> start, steps |-> steps, end |-> end] :
                 start \in ParseOptional(d.start), steps \in ParseSteps(d.steps),
                 end \in ParseOptional(d.end)}

(* parse_led_alias; NotTables says here that the LEDs aren't strings. *)
ParseAlias(d) == IF d.name = Missing \/ d.leds = NotTables THEN {} ELSE {d.leds}

(* Mutant of Insert: a later definition replaces an earlier one. *)
Insert_Last(tree, name, value) ==
    [k \in DOMAIN tree \cup {Key[name]} |-> IF k = Key[name] THEN value ELSE tree[k]]

(* avl_insert, of a tree without duplicates, which it keeps as it is *)
Insert(tree, name, value) ==
    IF Key[name] \in DOMAIN tree THEN tree
    ELSE [k \in DOMAIN tree \cup {Key[name]} |-> IF k = Key[name] THEN value ELSE tree[k]]

(* parse_patterns_array, parse_aliases_array *)
LoadAll(tree, file, Parse(_)) ==
    LET after[i \in 0 .. Len(file)] ==
            IF i = 0 THEN tree
            ELSE IF Parse(file[i]) = {} THEN after[i - 1]
            ELSE Insert(after[i - 1], file[i].name, Only(Parse(file[i])))
    IN  IF file = NotTables THEN tree ELSE after[Len(file)]

------------------------------------------------------------------------------
Init ==
    /\ \E n, m \in 0 .. MaxFiles :
          patternFiles \in [1 .. n -> PatternFiles] /\ aliasFiles \in [1 .. m -> AliasFiles]
    /\ read = <<>>
    /\ patterns = <<>> /\ aliases = <<>>

(* load_pattern_cb; a file that can't be read or isn't JSON has no effect.   *)
LoadPatternFile(readable) ==
    LET i == Len(read) + 1
    IN  /\ i <= Len(patternFiles)
        /\ read' = Append(read, readable)
        /\ patterns' = IF readable THEN LoadAll(patterns, patternFiles[i], ParsePattern)
                                   ELSE patterns
        /\ UNCHANGED <<patternFiles, aliasFiles, aliases>>

(* load_alias_cb, after all the patterns *)
LoadAliasFile(readable) ==
    LET i == Len(read) + 1 - Len(patternFiles)
    IN  /\ i \in 1 .. Len(aliasFiles)
        /\ read' = Append(read, readable)
        /\ aliases' = IF readable THEN LoadAll(aliases, aliasFiles[i], ParseAlias)
                                  ELSE aliases
        /\ UNCHANGED <<patternFiles, aliasFiles, patterns>>

Next == \E readable \in BOOLEAN : LoadPatternFile(readable) \/ LoadAliasFile(readable)

Spec == Init /\ [][Next]_vars

------------------------------------------------------------------------------
(* The places of definitions in the files read so far, in their order. *)
PlacesIn(files, offset) ==
    UNION {{i} \X DOMAIN files[i] :
           i \in {j \in DOMAIN files : j + offset \in DOMAIN read /\ read[j + offset]
                                       /\ files[j] # NotTables}}

Before(p, q) == p[1] < q[1] \/ (p[1] = q[1] /\ p[2] < q[2])

(* A definition of which every part is there and has its type. *)
StepIsWhole(s) == s.leds # NotTables
PatternIsWhole(d) ==
    /\ d.name # Missing
    /\ d.steps # NotTables /\ \A i \in DOMAIN d.steps : StepIsWhole(d.steps[i])
    /\ \A s \in {d.start, d.end} \ {Missing} : StepIsWhole(s)
AliasIsWhole(d) == d.name # Missing /\ d.leds # NotTables

(* tree holds exactly the first whole definition of each name. *)
HoldsFirst(tree, files, offset, IsWhole(_), Parse(_)) ==
    LET places == {p \in PlacesIn(files, offset) : IsWhole(files[p[1]][p[2]])}
        KeyAt(p) == Key[files[p[1]][p[2]].name]
    IN  /\ DOMAIN tree = {KeyAt(p) : p \in places}
        /\ \A p \in places :
              (\A q \in places : KeyAt(q) = KeyAt(p) => ~ Before(q, p))
                 => Parse(files[p[1]][p[2]]) = {tree[KeyAt(p)]}

(***************************************************************************)
(* Of all the definitions of a name, in any case, the first in the order   *)
(* of the files is loaded, unless a part of it is wrong: one that is wrong *)
(* neither takes the name from a later one nor keeps the rest of its file  *)
(* from being loaded, and neither does a file that can't be read           *)
(* (led_patterns.c:443-583, led_aliases.c:217-333).                        *)
(***************************************************************************)
FirstDefinitionsAreLoaded ==
    /\ HoldsFirst(patterns, patternFiles, 0, PatternIsWhole, ParsePattern)
    /\ HoldsFirst(aliases, aliasFiles, Len(patternFiles), AliasIsWhole, ParseAlias)

(***************************************************************************)
(* No pattern is loaded in part: each has all the steps, with all the      *)
(* LEDs, of one definition of its name.  A pattern that lost its last      *)
(* steps to an error would play, and leave its LEDs in the wrong state     *)
(* (led_patterns.c:171-206, 253-300, 361-397).                             *)
(***************************************************************************)
SameStep(s, d) == Len(s.leds) = IF d = Missing THEN 0 ELSE Len(d.leds)

Complete(p, d) ==
    /\ PatternIsWhole(d)
    /\ Len(p.steps) = Len(d.steps)
    /\ \A n \in DOMAIN p.steps : SameStep(p.steps[n], d.steps[n])
    /\ SameStep(p.start, d.start) /\ SameStep(p.end, d.end)

NoPatternIsLoadedInPart ==
    \A k \in DOMAIN patterns :
        \E at \in PlacesIn(patternFiles, 0) :
            LET d == patternFiles[at[1]][at[2]]
            IN  d.name # Missing /\ Key[d.name] = k /\ Complete(patterns[k], d)
==============================================================================
