-------------------------- MODULE ConfigFilesProofs --------------------------
(***************************************************************************)
(* Proofs about ConfigFiles, for any files with any definitions: of every  *)
(* name the first whole definition is loaded, and none is loaded in part.  *)
(*                                                                         *)
(* Patterns and aliases are loaded alike.  What the two have in common is  *)
(* stated about places, the keys K and the parsed values V of places, and  *)
(* a tree.                                                                 *)
(***************************************************************************)
EXTENDS ConfigFiles, PriorityOrderProofs

IsTree(tree) == tree = [k \in DOMAIN tree |-> tree[k]]

(* The tree holds the first definition of each name among the places P. *)
Holds(tree, P, K, V) ==
    /\ DOMAIN tree = {K[p] : p \in P}
    /\ \A p \in P : (\A q \in P : K[q] = K[p] => ~ Before(q, p)) => V[p] = {tree[K[p]]}

Whole(P, V) == {p \in P : V[p] # {}}

PlacesOf(files, i) == {i} \X DOMAIN files[i]

(* The places in the files that were read when r tells which could be.       *)
PlacesRead(files, offset, r) ==
    UNION {PlacesOf(files, i) :
           i \in {j \in DOMAIN files : j + offset \in DOMAIN r /\ r[j + offset]
                                       /\ files[j] # NotTables}}

------------------------------------------------------------------------------
(* A definition that comes after all others is inserted if its name is new.  *)
LEMMA InsertHolds ==
    ASSUME NEW P \in SUBSET (Nat \X Nat), NEW x \in Nat \X Nat, \A p \in P : Before(p, x),
           NEW K, NEW V, NEW tree, IsTree(tree), Holds(tree, P, K, V),
           NEW name, Key[name] = K[x], NEW value, V[x] = {value}
    PROVE  IsTree(Insert(tree, name, value)) /\ Holds(Insert(tree, name, value), P \cup {x}, K, V)
<1> DEFINE new == Insert(tree, name, value)
<1>1. \A p \in P : p # x
  BY DEF Before
<1>2. DOMAIN tree = {K[p] : p \in P}
  BY DEF Holds
<1>3. CASE K[x] \in DOMAIN tree
  <2>1. new = tree
    BY <1>3 DEF Insert
  <2>2. PICK p \in P : K[p] = K[x]
    BY <1>2, <1>3
  <2>3. DOMAIN new = {K[q] : q \in P \cup {x}}
    BY <1>2, <2>1, <2>2
  <2>4. ASSUME NEW q \in P \cup {x}, \A q2 \in P \cup {x} : K[q2] = K[q] => ~ Before(q2, q)
        PROVE  V[q] = {new[K[q]]}
    <3>1. q \in P
      BY <2>2, <2>4
    <3>2. QED
      BY <2>1, <2>4, <3>1 DEF Holds
  <2> HIDE DEF new
  <2>5. QED
    BY <2>1, <2>3, <2>4 DEF Holds, new
<1>4. CASE K[x] \notin DOMAIN tree
  <2>1. new = [k \in DOMAIN tree \cup {K[x]} |-> IF k = K[x] THEN value ELSE tree[k]]
    BY <1>4 DEF Insert
  <2> HIDE DEF new
  <2>2. DOMAIN new = {K[q] : q \in P \cup {x}}
    BY <1>2, <2>1
  <2>3. ASSUME NEW q \in P \cup {x}, \A q2 \in P \cup {x} : K[q2] = K[q] => ~ Before(q2, q)
        PROVE  V[q] = {new[K[q]]}
    <3>1. CASE q = x
      BY <2>1, <3>1
    <3>2. CASE q \in P
      <4>1. K[q] \in DOMAIN tree /\ K[q] # K[x]
        BY <1>2, <1>4, <3>2
      <4>2. V[q] = {tree[K[q]]}
        BY <2>3, <3>2 DEF Holds
      <4>3. QED
        BY <2>1, <4>1, <4>2
    <3>3. QED
      BY <3>1, <3>2
  <2>4. IsTree(new)
    BY <2>1 DEF IsTree
  <2>5. QED
    BY <2>2, <2>3, <2>4 DEF Holds, new
<1>5. QED
  BY <1>3, <1>4

(* The trees on the way through a file                                       *)
TreesOf(h, n, tree, names, found) ==
    h = [j \in 0 .. n |->
            IF j = 0 THEN tree
            ELSE IF found[j] = {} THEN h[j - 1]
            ELSE Insert(h[j - 1], names[j], Only(found[j]))]

LEMMA TreesExist ==
    ASSUME NEW n \in Nat, NEW names, NEW found, NEW tree, IsTree(tree)
    PROVE  \E h : TreesOf(h, n, tree, names, found)
<1> DEFINE Z == DOMAIN tree \cup {Key[names[j]] : j \in 1 .. n}
           W == {tree[k] : k \in DOMAIN tree} \cup {Only(found[j]) : j \in 1 .. n}
           S == UNION {[D -> W] : D \in SUBSET Z}
           After(t, j) == IF found[j] = {} THEN t ELSE Insert(t, names[j], Only(found[j]))
           g == [j \in 1 .. n |-> [t \in S |-> After(t, j)]]
<1>1. tree \in S
  <2>1. tree \in [DOMAIN tree -> W]
    BY DEF IsTree
  <2>2. QED
    BY <2>1
<1>2. ASSUME NEW t \in S, NEW j \in 1 .. n PROVE After(t, j) \in S
  <2>1. PICK D \in SUBSET Z : t \in [D -> W]
    BY <1>2
  <2> DEFINE k == Key[names[j]]
             v == Only(found[j])
             u == [y \in D \cup {k} |-> IF y = k THEN v ELSE t[y]]
  <2>2. k \in Z /\ v \in W
    OBVIOUS
  <2>3. D \cup {k} \in SUBSET Z
    BY <2>2
  <2>4. u \in [D \cup {k} -> W]
    <3> HIDE DEF k, v, W
    <3>1. QED
      BY <2>1, <2>2
  <2>5. u \in S
    <3> HIDE DEF u, k, W, Z
    <3>1. QED
      BY <2>3, <2>4
  <2>6. After(t, j) \in {t, u}
    <3>1. DOMAIN t = D
      BY <2>1
    <3>2. QED
      BY <3>1 DEF Insert
  <2> HIDE DEF After, u, S
  <2>7. QED
    BY <1>2, <2>5, <2>6
<1> HIDE DEF After, S
<1>3. g \in Functionals(n, S)
  BY <1>2 DEF Functionals
<1>4. PICK h : GoesThrough(h, n, S, g, tree)
  <2> HIDE DEF g
  <2>1. QED
    BY <1>1, <1>3, StepwiseFunction
<1>5. /\ h \in [0 .. n -> S] /\ h[0] = tree
      /\ \A j \in 1 .. n : h[j] = g[j][h[j - 1]]
  BY <1>4 DEF GoesThrough
<1>6. ASSUME NEW j \in 0 .. n, j # 0 PROVE h[j] = After(h[j - 1], j)
  <2>1. j \in 1 .. n /\ j - 1 \in 0 .. n /\ h[j - 1] \in S
    BY <1>5, <1>6
  <2>2. g[j][h[j - 1]] = After(h[j - 1], j)
    BY <2>1
  <2> HIDE DEF g
  <2>3. QED
    BY <1>5, <2>1, <2>2
<1>7. h = [j \in 0 .. n |-> h[j]]
  BY <1>5
<1>8. \A j \in 0 .. n : h[j] = IF j = 0 THEN tree ELSE After(h[j - 1], j)
  BY <1>5, <1>6
<1>9. h = [j \in 0 .. n |-> IF j = 0 THEN tree ELSE After(h[j - 1], j)]
  BY <1>7, <1>8
<1>10. QED
  BY <1>9 DEF TreesOf, After


(* The places P and those of the first n definitions of file i, if found     *)
WithFile(P, i, n, found) == P \cup {<<i, j>> : j \in {m \in 1 .. n : found[m] # {}}}

(* Places have the names and the values of the definitions of file i.        *)
AreOfFile(names, found, n, i, K, V) ==
    \A j \in 1 .. n :
       /\ V[<<i, j>>] = found[j]
       /\ found[j] # {} => K[<<i, j>>] = Key[names[j]] /\ found[j] = {Only(found[j])}

EarlierThan(P, i) == P \in SUBSET (Nat \X Nat) /\ \A p \in P : p[1] < i

(* A file: the tree holds its definitions after those of the places P.       *)
LEMMA TreesHold ==
    ASSUME NEW n \in Nat, NEW names, NEW found, NEW tree, IsTree(tree),
           NEW h, TreesOf(h, n, tree, names, found),
           NEW i \in Nat, NEW P, EarlierThan(P, i),
           NEW K, NEW V, Holds(tree, P, K, V), AreOfFile(names, found, n, i, K, V)
    PROVE  /\ IsTree(h[n])
           /\ Holds(h[n], WithFile(P, i, n, found), K, V)
<1> DEFINE Q(j) == P \cup {<<i, m>> : m \in {k \in 1 .. j : found[k] # {}}}
           Fine(j) == IsTree(h[j]) /\ Holds(h[j], Q(j), K, V)
           T == {j \in 0 .. n : Fine(j)}
<1>1. /\ h[0] = tree
      /\ \A j \in 1 .. n :
            h[j] = IF found[j] = {} THEN h[j - 1] ELSE Insert(h[j - 1], names[j], Only(found[j]))
  BY DEF TreesOf
<1>2. Fine(0)
  <2>1. Q(0) = P
    OBVIOUS
  <2>2. QED
    BY <1>1, <2>1
<1>3. ASSUME NEW j \in 1 .. n, Fine(j - 1) PROVE Fine(j)
  <2>1. j \in Nat /\ {k \in 1 .. j : found[k] # {}}
                        = {k \in 1 .. (j - 1) : found[k] # {}}
                             \cup (IF found[j] # {} THEN {j} ELSE {})
    OBVIOUS
  <2>2. CASE found[j] = {}
    <3>1. Q(j) = Q(j - 1)
      BY <2>1, <2>2
    <3>2. h[j] = h[j - 1]
      BY <1>1, <2>2
    <3>3. QED
      BY <1>3, <3>1, <3>2
  <2>3. CASE found[j] # {}
    <3> DEFINE x == <<i, j>>
               B == Q(j - 1)
    <3>1. Q(j) = B \cup {x}
      BY <2>1, <2>3
    <3>2. /\ h[j] = Insert(h[j - 1], names[j], Only(found[j]))
          /\ Key[names[j]] = K[x] /\ V[x] = {Only(found[j])}
      BY <1>1, <2>3 DEF AreOfFile
    <3>3. B \in SUBSET (Nat \X Nat) /\ x \in Nat \X Nat
      BY <2>1 DEF EarlierThan
    <3>4. \A p \in B : Before(p, x)
      <4>1. ASSUME NEW p \in P PROVE Before(p, x)
        BY <4>1 DEF Before, EarlierThan
      <4>2. ASSUME NEW k \in 1 .. (j - 1) PROVE Before(<<i, k>>, x)
        BY <4>2 DEF Before
      <4>3. QED
        BY <4>1, <4>2
    <3>5. IsTree(h[j - 1]) /\ Holds(h[j - 1], B, K, V)
      BY <1>3
    <3>6. Q(j) = B \cup {x} /\ IsTree(h[j]) /\ Holds(h[j], B \cup {x}, K, V) => Fine(j)
      OBVIOUS
    <3> DEFINE old == h[j - 1]
               name == names[j]
               value == Only(found[j])
    <3>7. IsTree(h[j]) /\ Holds(h[j], B \cup {x}, K, V)
      <4>1. /\ h[j] = Insert(old, name, value) /\ IsTree(old) /\ Holds(old, B, K, V)
            /\ Key[name] = K[x] /\ V[x] = {value}
        BY <3>2, <3>5
      <4> HIDE DEF B, x, Q, Fine, old, name, value
      <4>2. /\ IsTree(Insert(old, name, value))
            /\ Holds(Insert(old, name, value), B \cup {x}, K, V)
        BY <3>3, <3>4, <4>1, InsertHolds
      <4>3. QED
        BY <4>1, <4>2
    <3> HIDE DEF B, x, Q, Fine
    <3>8. QED
      BY <3>1, <3>6, <3>7
  <2>4. QED
    BY <2>2, <2>3
<1>4. T = 0 .. n
  <2>1. 0 \in T
    BY <1>2
  <2>2. ASSUME NEW j \in 1 .. n, j - 1 \in T PROVE j \in T
    <3>1. Fine(j)
      BY <1>3, <2>2
    <3> HIDE DEF Fine
    <3>2. QED
      BY <3>1
  <2>3. T \subseteq 0 .. n
    OBVIOUS
  <2> HIDE DEF T
  <2>4. QED
    BY <2>1, <2>2, <2>3, Induction
<1>5. Fine(n)
  <2> HIDE DEF Fine
  <2>1. n \in T
    BY <1>4
  <2>2. QED
    BY <2>1
<1>6. QED
  BY <1>5 DEF WithFile

------------------------------------------------------------------------------
(* The places in the files that were read                                    *)
LEMMA PlacesAre ==
    ASSUME NEW files, NEW offset, NEW r, NEW x
    PROVE  x \in PlacesRead(files, offset, r) <=>
              \E j \in DOMAIN files :
                 /\ j + offset \in DOMAIN r /\ r[j + offset] /\ files[j] # NotTables
                 /\ x \in PlacesOf(files, j)
BY DEF PlacesRead

LEMMA ReadOn ==
    ASSUME NEW r \in Seq(BOOLEAN), NEW b \in BOOLEAN
    PROVE  /\ Append(r, b) \in Seq(BOOLEAN) /\ Len(r) \in Nat /\ Len(Append(r, b)) = Len(r) + 1
           /\ DOMAIN r = 1 .. Len(r) /\ DOMAIN Append(r, b) = 1 .. (Len(r) + 1)
           /\ Append(r, b)[Len(r) + 1] = b
           /\ \A j \in 1 .. Len(r) : Append(r, b)[j] = r[j]
OBVIOUS

LEMMA PlacesStay ==
    ASSUME NEW files, IsList(files), NEW offset \in Nat, NEW r \in Seq(BOOLEAN),
           NEW b \in BOOLEAN, \A j \in DOMAIN files : j + offset # Len(r) + 1 \/ ~ b
    PROVE  PlacesRead(files, offset, Append(r, b)) = PlacesRead(files, offset, r)
<1>1. \A j \in DOMAIN files :
         j + offset \in DOMAIN Append(r, b) /\ Append(r, b)[j + offset]
            <=> j + offset \in DOMAIN r /\ r[j + offset]
  BY ReadOn DEF IsList
<1>2. \A x : x \in PlacesRead(files, offset, Append(r, b)) <=> x \in PlacesRead(files, offset, r)
  BY <1>1, PlacesAre
<1>3. \A x : x \in PlacesRead(files, offset, r) => x \in PlacesRead(files, offset, Append(r, b))
  BY <1>2
<1>4. QED
  BY <1>2, <1>3

LEMMA NextPlaces ==
    ASSUME NEW files, IsList(files), NEW offset \in Nat, NEW r \in Seq(BOOLEAN),
           NEW i \in DOMAIN files, i + offset = Len(r) + 1,
           NEW b \in BOOLEAN, b = TRUE
    PROVE  /\ \A x : x \in PlacesRead(files, offset, Append(r, b)) <=>
                     \/ x \in PlacesRead(files, offset, r)
                     \/ files[i] # NotTables /\ x \in PlacesOf(files, i)
           /\ \A p \in PlacesRead(files, offset, r) : p[1] < i
<1>1. DOMAIN files = 1 .. Len(files) /\ Len(files) \in Nat
  BY DEF IsList
<1>2. \A j \in DOMAIN files :
         j + offset \in DOMAIN Append(r, b) /\ Append(r, b)[j + offset]
            <=> (j + offset \in DOMAIN r /\ r[j + offset]) \/ j = i
  BY <1>1, ReadOn
<1>3. \A j \in DOMAIN files : j + offset \in DOMAIN r => j < i
  BY <1>1, ReadOn
<1>4. \A p \in PlacesRead(files, offset, r) : p[1] < i
  BY <1>3, PlacesAre DEF PlacesOf
<1>5. \A x : x \in PlacesRead(files, offset, Append(r, b)) <=>
         \/ x \in PlacesRead(files, offset, r)
         \/ files[i] # NotTables /\ x \in PlacesOf(files, i)
  <2> SUFFICES ASSUME NEW x
               PROVE  x \in PlacesRead(files, offset, Append(r, b)) <=>
                         \/ x \in PlacesRead(files, offset, r)
                         \/ files[i] # NotTables /\ x \in PlacesOf(files, i)
    OBVIOUS
  <2> DEFINE q == Append(r, b)
  <2>1. x \in PlacesRead(files, offset, r) <=>
           \E j \in DOMAIN files :
              /\ j + offset \in DOMAIN r /\ r[j + offset] /\ files[j] # NotTables
              /\ x \in PlacesOf(files, j)
    BY PlacesAre
  <2>2. x \in PlacesRead(files, offset, q) <=>
           \E j \in DOMAIN files :
              /\ j + offset \in DOMAIN q /\ q[j + offset] /\ files[j] # NotTables
              /\ x \in PlacesOf(files, j)
    BY PlacesAre
  <2>3. QED
    BY <1>2, <2>1, <2>2
<1>6. QED
  BY <1>4, <1>5

LEMMA PlacesKept ==
    ASSUME NEW files, IsList(files), NEW offset \in Nat, NEW r \in Seq(BOOLEAN),
           NEW i \in DOMAIN files, i + offset = Len(r) + 1,
           NEW b \in BOOLEAN, b = TRUE, files[i] = NotTables
    PROVE  PlacesRead(files, offset, Append(r, b)) = PlacesRead(files, offset, r)
<1>1. \A x : x \in PlacesRead(files, offset, Append(r, b)) <=> x \in PlacesRead(files, offset, r)
  BY NextPlaces
<1>2. QED
  BY <1>1

LEMMA PlaceOf ==
    ASSUME NEW files, IsList(files), NEW offset, NEW r, NEW p \in PlacesRead(files, offset, r),
           \A j \in DOMAIN files : files[j] # NotTables => IsList(files[j])
    PROVE  /\ p = <<p[1], p[2]>> /\ p[1] \in DOMAIN files /\ files[p[1]] # NotTables
           /\ p[2] \in DOMAIN files[p[1]] /\ p \in Nat \X Nat
<1>1. PICK j \in DOMAIN files : files[j] # NotTables /\ p \in PlacesOf(files, j)
  BY PlacesAre
<1>2. p[1] = j /\ p[2] \in DOMAIN files[j] /\ p = <<p[1], p[2]>>
  BY <1>1 DEF PlacesOf
<1>3. j \in Nat /\ p[2] \in Nat
  BY <1>1, <1>2 DEF IsList
<1>4. QED
  BY <1>1, <1>2, <1>3


------------------------------------------------------------------------------
(* What parsing yields: one value if the definition is whole, or none        *)
LEMMA StepsParsed ==
    ASSUME NEW s
    PROVE  /\ ParseStep(s) # {} <=> StepIsWhole(s)
           /\ StepIsWhole(s) => \E v : ParseStep(s) = {v} /\ DOMAIN v.leds = DOMAIN s.leds
                                       /\ v.leds = [i \in DOMAIN s.leds |-> ParseLed(s.leds[i])]
<1> DEFINE leds == [i \in DOMAIN s.leds |-> ParseLed(s.leds[i])]
           v == [timed |-> Default(s.time, 0) # 0, leds |-> leds]
<1>1. ParseStep(s) = IF s.leds = NotTables THEN {} ELSE {v}
  BY DEF ParseStep
<1>2. v.leds = leds /\ DOMAIN v.leds = DOMAIN s.leds
  OBVIOUS
<1>3. ParseStep(s) # {} <=> StepIsWhole(s)
  <2> HIDE DEF v
  <2>1. QED
    BY <1>1 DEF StepIsWhole
<1>4. StepIsWhole(s) => ParseStep(s) = {v}
  <2> HIDE DEF v
  <2>1. QED
    BY <1>1 DEF StepIsWhole
<1>5. QED
  <2> HIDE DEF v
  <2>1. QED
    BY <1>2, <1>3, <1>4

LEMMA OneIsFound ==
    ASSUME NEW v
    PROVE  Only({v}) = v
BY DEF Only

LEMMA OptionalParsed ==
    ASSUME NEW s
    PROVE  /\ ParseOptional(s) # {} <=> s = Missing \/ StepIsWhole(s)
           /\ ParseOptional(s) # {} => \E v : ParseOptional(s) = {v}
BY StepsParsed DEF ParseOptional

LEMMA AllStepsParsed ==
    ASSUME NEW steps
    PROVE  /\ ParseSteps(steps) # {}
                <=> steps # NotTables /\ \A i \in DOMAIN steps : StepIsWhole(steps[i])
           /\ ParseSteps(steps) # {} =>
                 ParseSteps(steps) = {[i \in DOMAIN steps |-> Only(ParseStep(steps[i]))]}
BY StepsParsed DEF ParseSteps

LEMMA PatternParsed ==
    ASSUME NEW d
    PROVE  /\ ParsePattern(d) # {} <=> PatternIsWhole(d)
           /\ PatternIsWhole(d) => \E start, end, repeat, playCount :
                 /\ ParseOptional(d.start) = {start} /\ ParseOptional(d.end) = {end}
                 /\ ParsePattern(d) =
                       {[repeat |-> repeat, playCount |-> playCount, start |-> start,
                         steps |-> [i \in DOMAIN d.steps |-> Only(ParseStep(d.steps[i]))],
                         end |-> end]}
<1> DEFINE A == ParseOptional(d.start)
           B == ParseSteps(d.steps)
           C == ParseOptional(d.end)
           repeat == Default(d.repeat, FALSE)
           playCount == Default(d.playCount, IF repeat THEN 0 ELSE 1)
           All == {[repeat |-> repeat, playCount |-> playCount,
                    start |-> start, steps |-> steps, end |-> end] :
                      start \in A, steps \in B, end \in C}
<1>1. ParsePattern(d) = IF d.name = Missing THEN {} ELSE All
  BY DEF ParsePattern
<1>2. PatternIsWhole(d) <=> d.name # Missing /\ A # {} /\ B # {} /\ C # {}
  BY OptionalParsed, AllStepsParsed DEF PatternIsWhole
<1>3. /\ A # {} => \E v : A = {v}
      /\ C # {} => \E v : C = {v}
      /\ B # {} => B = {[i \in DOMAIN d.steps |-> Only(ParseStep(d.steps[i]))]}
  BY OptionalParsed, AllStepsParsed
<1> DEFINE b == [i \in DOMAIN d.steps |-> Only(ParseStep(d.steps[i]))]
<1> HIDE DEF repeat, playCount, b
<1>4. B # {} => B = {b}
  BY <1>3 DEF b
<1> SUFFICES /\ ParsePattern(d) # {} <=> PatternIsWhole(d)
             /\ PatternIsWhole(d) => \E start, end :
                   /\ A = {start} /\ C = {end}
                   /\ ParsePattern(d) =
                         {[repeat |-> repeat, playCount |-> playCount, start |-> start,
                           steps |-> b, end |-> end]}
  BY DEF b
<1> HIDE DEF A, B, C
<1>5. CASE PatternIsWhole(d)
  <2>1. PICK start, end : A = {start} /\ C = {end} /\ B = {b}
    BY <1>2, <1>3, <1>4, <1>5
  <2>2. All = {[repeat |-> repeat, playCount |-> playCount, start |-> start,
                steps |-> b, end |-> end]}
    BY <2>1
  <2> HIDE DEF All
  <2>3. ParsePattern(d) = All
    BY <1>1, <1>2, <1>5
  <2>4. QED
    BY <1>5, <2>1, <2>2, <2>3
<1>6. CASE ~ PatternIsWhole(d)
  <2>1. d.name # Missing => All = {}
    BY <1>2, <1>6
  <2>2. QED
    BY <1>1, <1>6, <2>1
<1>7. QED
  BY <1>5, <1>6

LEMMA AliasParsed ==
    ASSUME NEW d
    PROVE  /\ ParseAlias(d) # {} <=> AliasIsWhole(d)
           /\ ParseAlias(d) # {} => \E v : ParseAlias(d) = {v}
BY DEF ParseAlias, AliasIsWhole

------------------------------------------------------------------------------
(* A file of patterns, a file of aliases                                     *)
LEMMA PatternsLoaded ==
    ASSUME NEW file, file # NotTables, IsList(file), NEW tree, IsTree(tree)
    PROVE  \E h : /\ TreesOf(h, Len(file), tree, [j \in DOMAIN file |-> file[j].name],
                             [j \in DOMAIN file |-> ParsePattern(file[j])])
                  /\ LoadAll(tree, file, ParsePattern) = h[Len(file)]
<1> DEFINE n == Len(file)
           names == [j \in DOMAIN file |-> file[j].name]
           found == [j \in DOMAIN file |-> ParsePattern(file[j])]
           Defined(h) == h = [i \in 0 .. n |->
                                 IF i = 0 THEN tree
                                 ELSE IF ParsePattern(file[i]) = {} THEN h[i - 1]
                                 ELSE Insert(h[i - 1], file[i].name, Only(ParsePattern(file[i])))]
           F == CHOOSE h : Defined(h)
<1>1. LoadAll(tree, file, ParsePattern) = F[n]
  BY DEF LoadAll
<1>2. n \in Nat /\ DOMAIN file = 1 .. n
  BY DEF IsList
<1>3. \A i \in 1 .. n : names[i] = file[i].name /\ found[i] = ParsePattern(file[i])
  BY <1>2
<1> HIDE DEF n, names, found
<1>4. ASSUME NEW h PROVE Defined(h) <=> TreesOf(h, n, tree, names, found)
  <2> DEFINE a(i) == IF i = 0 THEN tree
                     ELSE IF ParsePattern(file[i]) = {} THEN h[i - 1]
                     ELSE Insert(h[i - 1], file[i].name, Only(ParsePattern(file[i])))
             b(i) == IF i = 0 THEN tree
                     ELSE IF found[i] = {} THEN h[i - 1]
                     ELSE Insert(h[i - 1], names[i], Only(found[i]))
  <2>1. \A i \in 0 .. n : a(i) = b(i)
    BY <1>2, <1>3
  <2>2. (Defined(h) <=> h = [i \in 0 .. n |-> a(i)])
        /\ (TreesOf(h, n, tree, names, found) <=> h = [i \in 0 .. n |-> b(i)])
    BY DEF TreesOf
  <2> HIDE DEF a, b, Defined
  <2>3. [i \in 0 .. n |-> a(i)] = [i \in 0 .. n |-> b(i)]
    BY <2>1
  <2>4. QED
    BY <2>2, <2>3
<1>5. \E h : Defined(h)
  <2> HIDE DEF Defined
  <2>1. QED
    BY <1>2, <1>4, TreesExist
<1> HIDE DEF Defined
<1>6. Defined(F)
  BY <1>5
<1> HIDE DEF F
<1>7. QED
  BY <1>1, <1>4, <1>6 DEF n, names, found


LEMMA AliasesLoaded ==
    ASSUME NEW file, file # NotTables, IsList(file), NEW tree, IsTree(tree)
    PROVE  \E h : /\ TreesOf(h, Len(file), tree, [j \in DOMAIN file |-> file[j].name],
                             [j \in DOMAIN file |-> ParseAlias(file[j])])
                  /\ LoadAll(tree, file, ParseAlias) = h[Len(file)]
<1> DEFINE n == Len(file)
           names == [j \in DOMAIN file |-> file[j].name]
           found == [j \in DOMAIN file |-> ParseAlias(file[j])]
           Defined(h) == h = [i \in 0 .. n |->
                                 IF i = 0 THEN tree
                                 ELSE IF ParseAlias(file[i]) = {} THEN h[i - 1]
                                 ELSE Insert(h[i - 1], file[i].name, Only(ParseAlias(file[i])))]
           F == CHOOSE h : Defined(h)
<1>1. LoadAll(tree, file, ParseAlias) = F[n]
  BY DEF LoadAll
<1>2. n \in Nat /\ DOMAIN file = 1 .. n
  BY DEF IsList
<1>3. \A i \in 1 .. n : names[i] = file[i].name /\ found[i] = ParseAlias(file[i])
  BY <1>2
<1> HIDE DEF n, names, found
<1>4. ASSUME NEW h PROVE Defined(h) <=> TreesOf(h, n, tree, names, found)
  <2> DEFINE a(i) == IF i = 0 THEN tree
                     ELSE IF ParseAlias(file[i]) = {} THEN h[i - 1]
                     ELSE Insert(h[i - 1], file[i].name, Only(ParseAlias(file[i])))
             b(i) == IF i = 0 THEN tree
                     ELSE IF found[i] = {} THEN h[i - 1]
                     ELSE Insert(h[i - 1], names[i], Only(found[i]))
  <2>1. \A i \in 0 .. n : a(i) = b(i)
    BY <1>2, <1>3
  <2>2. (Defined(h) <=> h = [i \in 0 .. n |-> a(i)])
        /\ (TreesOf(h, n, tree, names, found) <=> h = [i \in 0 .. n |-> b(i)])
    BY DEF TreesOf
  <2> HIDE DEF a, b, Defined
  <2>3. [i \in 0 .. n |-> a(i)] = [i \in 0 .. n |-> b(i)]
    BY <2>1
  <2>4. QED
    BY <2>2, <2>3
<1>5. \E h : Defined(h)
  <2> HIDE DEF Defined
  <2>1. QED
    BY <1>2, <1>4, TreesExist
<1> HIDE DEF Defined
<1>6. Defined(F)
  BY <1>5
<1> HIDE DEF F
<1>7. QED
  BY <1>1, <1>4, <1>6 DEF n, names, found


(* The keys and the parsed values of the places in a directory's files       *)
Places == Nat \X Nat
KeysAt(files) == [p \in Places |-> Key[files[p[1]][p[2]].name]]
PatternsAt(files) == [p \in Places |-> ParsePattern(files[p[1]][p[2]])]
AliasesAt(files) == [p \in Places |-> ParseAlias(files[p[1]][p[2]])]

AreFiles(files) ==
    /\ IsList(files)
    /\ \A j \in DOMAIN files : files[j] # NotTables => IsList(files[j])

TreeHolds(tree, files, offset, r, V) ==
    IsTree(tree) /\ Holds(tree, Whole(PlacesRead(files, offset, r), V), KeysAt(files), V)

(* The next file of the directory has been loaded.                           *)
LEMMA FileLoaded ==
    ASSUME NEW files, AreFiles(files), NEW offset \in Nat, NEW r \in Seq(BOOLEAN),
           NEW i \in DOMAIN files, i + offset = Len(r) + 1, files[i] # NotTables,
           NEW b \in BOOLEAN, b = TRUE,
           NEW V, \A p \in Places : V[p] # {} => V[p] = {Only(V[p])},
           NEW tree, TreeHolds(tree, files, offset, r, V),
           NEW names, \A j \in DOMAIN files[i] : names[j] = files[i][j].name,
           NEW found, \A j \in DOMAIN files[i] : found[j] = V[<<i, j>>],
           NEW h, TreesOf(h, Len(files[i]), tree, names, found)
    PROVE  TreeHolds(h[Len(files[i])], files, offset, Append(r, b), V)
<1> DEFINE n == Len(files[i])
           K == KeysAt(files)
           P == Whole(PlacesRead(files, offset, r), V)
           R == WithFile(P, i, n, found)
<1>1. /\ IsList(files) /\ IsList(files[i]) /\ n \in Nat /\ DOMAIN files[i] = 1 .. n
      /\ i \in Nat
  BY DEF AreFiles, IsList
<1>2. P \in SUBSET (Nat \X Nat)
  BY <1>1, PlaceOf DEF AreFiles, Whole
<1>3. \A p \in PlacesRead(files, offset, r) : p[1] < i
  BY <1>1, NextPlaces
<1>4. \A p \in P : p[1] < i
  BY <1>3 DEF Whole
<1>5. ASSUME NEW j \in 1 .. n
      PROVE  /\ <<i, j>> \in Places /\ V[<<i, j>>] = found[j] /\ K[<<i, j>>] = Key[names[j]]
             /\ found[j] # {} => found[j] = {Only(found[j])}
  <2>1. <<i, j>> \in Places
    BY <1>1 DEF Places
  <2>2. K[<<i, j>>] = Key[files[i][j].name]
    BY <2>1 DEF KeysAt
  <2>3. names[j] = files[i][j].name /\ found[j] = V[<<i, j>>]
    BY <1>1
  <2> HIDE DEF K
  <2>4. QED
    BY <2>1, <2>2, <2>3
<1>6. IsTree(tree) /\ Holds(tree, P, K, V)
  BY DEF TreeHolds
<1>7. Whole(PlacesRead(files, offset, Append(r, b)), V) = R
  <2>1. PlacesRead(files, offset, Append(r, b))
           = PlacesRead(files, offset, r) \cup ({i} \X (1 .. n))
    <3>1. PlacesRead(files, offset, Append(r, b))
             = PlacesRead(files, offset, r) \cup PlacesOf(files, i)
      <4> HIDE DEF n, K, P, R
      <4>1. IsList(files)
        BY <1>1
      <4>2. \A x : x \in PlacesRead(files, offset, Append(r, b)) <=>
                     \/ x \in PlacesRead(files, offset, r)
                     \/ files[i] # NotTables /\ x \in PlacesOf(files, i)
        BY <4>1, NextPlaces
      <4>3. QED
        BY <4>2
    <3>2. QED
      BY <1>1, <3>1 DEF PlacesOf
  <2>2. \A x : x \in {i} \X (1 .. n) /\ V[x] # {}
                  <=> x \in {<<i, j>> : j \in {m \in 1 .. n : found[m] # {}}}
    BY <1>5
  <2> HIDE DEF n
  <2>3. QED
    BY <2>1, <2>2 DEF Whole, WithFile
<1> HIDE DEF n, K, P
<1>8. AreOfFile(names, found, n, i, K, V) /\ EarlierThan(P, i)
  BY <1>2, <1>4, <1>5 DEF AreOfFile, EarlierThan
<1>9. TreesOf(h, n, tree, names, found)
  BY DEF n
<1>10. IsTree(h[n]) /\ Holds(h[n], R, K, V)
  <2> HIDE DEF R
  <2>1. QED
    BY <1>1, <1>6, <1>8, <1>9, TreesHold DEF R
<1>11. QED
  BY <1>7, <1>10 DEF TreeHolds, K, n


------------------------------------------------------------------------------
(* A directory's next file, whatever it holds                                *)
LEMMA PatternsValues ==
    ASSUME NEW files, NEW p \in Places, PatternsAt(files)[p] # {}
    PROVE  PatternsAt(files)[p] = {Only(PatternsAt(files)[p])}
<1>1. PICK v : PatternsAt(files)[p] = {v}
  BY PatternParsed DEF PatternsAt
<1>2. QED
  BY <1>1, OneIsFound

LEMMA PatternsFile ==
    ASSUME NEW files, AreFiles(files), NEW offset \in Nat, NEW r \in Seq(BOOLEAN),
           NEW i \in DOMAIN files, i + offset = Len(r) + 1, NEW b \in BOOLEAN, b = TRUE,
           NEW tree, TreeHolds(tree, files, offset, r, PatternsAt(files))
    PROVE  TreeHolds(LoadAll(tree, files[i], ParsePattern), files, offset, Append(r, b),
                     PatternsAt(files))
<1>1. CASE files[i] = NotTables
  <2>1. LoadAll(tree, files[i], ParsePattern) = tree
    BY <1>1 DEF LoadAll
  <2>2. IsList(files)
    BY DEF AreFiles
  <2>3. PlacesRead(files, offset, Append(r, b)) = PlacesRead(files, offset, r)
    BY <1>1, <2>2, PlacesKept
  <2>4. QED
    BY <2>1, <2>3 DEF TreeHolds
<1>2. CASE files[i] # NotTables
  <2> DEFINE file == files[i]
             names == [j \in DOMAIN file |-> file[j].name]
             found == [j \in DOMAIN file |-> ParsePattern(file[j])]
             V == PatternsAt(files)
  <2>1. IsList(file) /\ IsTree(tree)
    BY <1>2 DEF AreFiles, TreeHolds
  <2>2. PICK h : /\ TreesOf(h, Len(file), tree, names, found)
                 /\ LoadAll(tree, file, ParsePattern) = h[Len(file)]
    BY <1>2, <2>1, PatternsLoaded
  <2>3. \A j \in DOMAIN file : names[j] = files[i][j].name
    OBVIOUS
  <2>4. \A j \in DOMAIN file : found[j] = V[<<i, j>>]
    <3>1. ASSUME NEW j \in DOMAIN file PROVE <<i, j>> \in Places
      BY <2>1 DEF Places, AreFiles, IsList
    <3>2. QED
      BY <3>1 DEF PatternsAt
  <2>5. \A p \in Places : V[p] # {} => V[p] = {Only(V[p])}
    BY PatternsValues
  <2> HIDE DEF names, found, V
  <2>6. TreeHolds(h[Len(file)], files, offset, Append(r, b), V)
    <3>1. TreeHolds(tree, files, offset, r, V)
      BY DEF V
    <3>2. QED
      BY <1>2, <2>2, <2>3, <2>4, <2>5, <3>1, FileLoaded
  <2>7. QED
    BY <2>2, <2>6 DEF V
<1>3. QED
  BY <1>1, <1>2

LEMMA AliasesValues ==
    ASSUME NEW files, NEW p \in Places, AliasesAt(files)[p] # {}
    PROVE  AliasesAt(files)[p] = {Only(AliasesAt(files)[p])}
<1>1. PICK v : AliasesAt(files)[p] = {v}
  BY AliasParsed DEF AliasesAt
<1>2. QED
  BY <1>1, OneIsFound

LEMMA AliasesFile ==
    ASSUME NEW files, AreFiles(files), NEW offset \in Nat, NEW r \in Seq(BOOLEAN),
           NEW i \in DOMAIN files, i + offset = Len(r) + 1, NEW b \in BOOLEAN, b = TRUE,
           NEW tree, TreeHolds(tree, files, offset, r, AliasesAt(files))
    PROVE  TreeHolds(LoadAll(tree, files[i], ParseAlias), files, offset, Append(r, b),
                     AliasesAt(files))
<1>1. CASE files[i] = NotTables
  <2>1. LoadAll(tree, files[i], ParseAlias) = tree
    BY <1>1 DEF LoadAll
  <2>2. IsList(files)
    BY DEF AreFiles
  <2>3. PlacesRead(files, offset, Append(r, b)) = PlacesRead(files, offset, r)
    BY <1>1, <2>2, PlacesKept
  <2>4. QED
    BY <2>1, <2>3 DEF TreeHolds
<1>2. CASE files[i] # NotTables
  <2> DEFINE file == files[i]
             names == [j \in DOMAIN file |-> file[j].name]
             found == [j \in DOMAIN file |-> ParseAlias(file[j])]
             V == AliasesAt(files)
  <2>1. IsList(file) /\ IsTree(tree)
    BY <1>2 DEF AreFiles, TreeHolds
  <2>2. PICK h : /\ TreesOf(h, Len(file), tree, names, found)
                 /\ LoadAll(tree, file, ParseAlias) = h[Len(file)]
    BY <1>2, <2>1, AliasesLoaded
  <2>3. \A j \in DOMAIN file : names[j] = files[i][j].name
    OBVIOUS
  <2>4. \A j \in DOMAIN file : found[j] = V[<<i, j>>]
    <3>1. ASSUME NEW j \in DOMAIN file PROVE <<i, j>> \in Places
      BY <2>1 DEF Places, AreFiles, IsList
    <3>2. QED
      BY <3>1 DEF AliasesAt
  <2>5. \A p \in Places : V[p] # {} => V[p] = {Only(V[p])}
    BY AliasesValues
  <2> HIDE DEF names, found, V
  <2>6. TreeHolds(h[Len(file)], files, offset, Append(r, b), V)
    <3>1. TreeHolds(tree, files, offset, r, V)
      BY DEF V
    <3>2. QED
      BY <1>2, <2>2, <2>3, <2>4, <2>5, <3>1, FileLoaded
  <2>7. QED
    BY <2>2, <2>6 DEF V
<1>3. QED
  BY <1>1, <1>2


------------------------------------------------------------------------------
(* The inductive invariant: each tree holds the first definitions of the     *)
(* files of its directory that were read.                                    *)
FilesInv ==
    /\ read \in Seq(BOOLEAN)
    /\ AreFiles(patternFiles) /\ AreFiles(aliasFiles)
    /\ \A j \in DOMAIN patternFiles : patternFiles[j] \in PatternFiles
    /\ TreeHolds(patterns, patternFiles, 0, read, PatternsAt(patternFiles))
    /\ TreeHolds(aliases, aliasFiles, Len(patternFiles), read, AliasesAt(aliasFiles))

LEMMA ListOfMap ==
    ASSUME NEW n \in Nat, NEW S, NEW f \in [1 .. n -> S]
    PROVE  IsList(f) /\ Len(f) = n
<1>1. f \in Seq(S)
  OBVIOUS
<1>2. QED
  BY <1>1 DEF IsList

LEMMA NoTreeHolds ==
    ASSUME NEW files, NEW offset, NEW V
    PROVE  TreeHolds(<<>>, files, offset, <<>>, V)
<1>1. DOMAIN <<>> = {}
  OBVIOUS
<1>2. PlacesRead(files, offset, <<>>) = {}
  BY <1>1 DEF PlacesRead
<1>3. Whole(PlacesRead(files, offset, <<>>), V) = {}
  BY <1>2 DEF Whole
<1>4. IsTree(<<>>)
  BY <1>1 DEF IsTree
<1> DEFINE P == Whole(PlacesRead(files, offset, <<>>), V)
<1> HIDE DEF P
<1>5. Holds(<<>>, P, KeysAt(files), V)
  BY <1>1, <1>3 DEF Holds, P
<1>6. QED
  BY <1>4, <1>5 DEF TreeHolds, P

LEMMA FilesInit ==
    ASSUME Init
    PROVE  FilesInv
<1>1. PICK n \in 0 .. MaxFiles, m \in 0 .. MaxFiles :
         patternFiles \in [1 .. n -> PatternFiles] /\ aliasFiles \in [1 .. m -> AliasFiles]
  BY DEF Init
<1>2. n \in Nat /\ m \in Nat
  BY FilesAssumption
<1>3. IsList(patternFiles) /\ IsList(aliasFiles)
  BY <1>1, <1>2, ListOfMap
<1>4. /\ \A j \in DOMAIN patternFiles : patternFiles[j] \in PatternFiles
      /\ \A j \in DOMAIN aliasFiles : aliasFiles[j] \in AliasFiles
  BY <1>1
<1>5. AreFiles(patternFiles) /\ AreFiles(aliasFiles)
  BY <1>3, <1>4, FilesAssumption DEF AreFiles
<1>6. read = <<>> /\ patterns = <<>> /\ aliases = <<>>
  BY DEF Init
<1>7. read \in Seq(BOOLEAN)
  BY <1>6
<1>8. QED
  BY <1>4, <1>5, <1>6, <1>7, NoTreeHolds DEF FilesInv

(* A file of the other directory, or one that can't be read, changes nothing. *)
LEMMA TreeStays ==
    ASSUME NEW files, IsList(files), NEW offset \in Nat, NEW r \in Seq(BOOLEAN),
           NEW b \in BOOLEAN, \A j \in DOMAIN files : j + offset # Len(r) + 1 \/ ~ b,
           NEW V, NEW tree, TreeHolds(tree, files, offset, r, V)
    PROVE  TreeHolds(tree, files, offset, Append(r, b), V)
<1>1. PlacesRead(files, offset, Append(r, b)) = PlacesRead(files, offset, r)
  BY PlacesStay
<1>2. QED
  BY <1>1 DEF TreeHolds

LEMMA FilesStep ==
    ASSUME FilesInv, [Next]_vars
    PROVE  FilesInv'
<1> DEFINE n == Len(patternFiles)
<1>1. /\ read \in Seq(BOOLEAN) /\ Len(read) \in Nat
      /\ IsList(patternFiles) /\ IsList(aliasFiles)
      /\ n \in Nat /\ DOMAIN patternFiles = 1 .. n
      /\ Len(aliasFiles) \in Nat /\ DOMAIN aliasFiles = 1 .. Len(aliasFiles)
  BY DEF FilesInv, AreFiles, IsList
<1>2. /\ TreeHolds(patterns, patternFiles, 0, read, PatternsAt(patternFiles))
      /\ TreeHolds(aliases, aliasFiles, n, read, AliasesAt(aliasFiles))
  BY DEF FilesInv
<1>3. ASSUME NEW b \in BOOLEAN, LoadPatternFile(b) PROVE FilesInv'
  <2> DEFINE i == Len(read) + 1
  <2>1. /\ i \in DOMAIN patternFiles /\ i + 0 = Len(read) + 1 /\ 0 \in Nat
        /\ read' = Append(read, b)
        /\ UNCHANGED <<patternFiles, aliasFiles, aliases>>
        /\ patterns' = IF b THEN LoadAll(patterns, patternFiles[i], ParsePattern)
                                 ELSE patterns
    BY <1>1, <1>3 DEF LoadPatternFile
  <2>2. \A j \in DOMAIN aliasFiles : j + n # Len(read) + 1 \/ ~ b
    BY <1>1, <2>1
  <2>3. TreeHolds(aliases, aliasFiles, n, Append(read, b), AliasesAt(aliasFiles))
    BY <1>1, <1>2, <2>2, TreeStays
  <2>4. TreeHolds(patterns', patternFiles, 0, Append(read, b), PatternsAt(patternFiles))
    <3>1. CASE b = TRUE
      <4> DEFINE V == PatternsAt(patternFiles)
      <4>1. AreFiles(patternFiles)
        BY DEF FilesInv
      <4>2. patterns' = LoadAll(patterns, patternFiles[i], ParsePattern)
        BY <2>1, <3>1
      <4> HIDE DEF i
      <4>3. TreeHolds(LoadAll(patterns, patternFiles[i], ParsePattern), patternFiles, 0,
                      Append(read, b), PatternsAt(patternFiles))
        BY <1>1, <1>2, <2>1, <3>1, <4>1, PatternsFile
      <4>4. QED
        BY <4>2, <4>3
    <3>2. CASE b = FALSE
      <4>1. patterns' = patterns
        BY <2>1, <3>2
      <4>2. QED
        BY <1>1, <1>2, <2>1, <3>2, <4>1, TreeStays
    <3>3. QED
      BY <3>1, <3>2
  <2>5. read' \in Seq(BOOLEAN)
    BY <1>1, <2>1
  <2>6. QED
    BY <2>1, <2>3, <2>4, <2>5 DEF FilesInv
<1>4. ASSUME NEW b \in BOOLEAN, LoadAliasFile(b) PROVE FilesInv'
  <2> DEFINE i == Len(read) + 1 - n
  <2>1. /\ i \in DOMAIN aliasFiles /\ i + n = Len(read) + 1
        /\ read' = Append(read, b)
        /\ UNCHANGED <<patternFiles, aliasFiles, patterns>>
        /\ aliases' = IF b THEN LoadAll(aliases, aliasFiles[i], ParseAlias) ELSE aliases
    BY <1>1, <1>4 DEF LoadAliasFile
  <2>2. \A j \in DOMAIN patternFiles : j + 0 # Len(read) + 1 \/ ~ b
    BY <1>1, <2>1
  <2>3. TreeHolds(patterns, patternFiles, 0, Append(read, b), PatternsAt(patternFiles))
    BY <1>1, <1>2, <2>2, TreeStays
  <2>4. TreeHolds(aliases', aliasFiles, n, Append(read, b), AliasesAt(aliasFiles))
    <3>1. CASE b = TRUE
      <4>1. AreFiles(aliasFiles)
        BY DEF FilesInv
      <4>2. aliases' = LoadAll(aliases, aliasFiles[i], ParseAlias)
        BY <2>1, <3>1
      <4> HIDE DEF i, n
      <4>3. TreeHolds(LoadAll(aliases, aliasFiles[i], ParseAlias), aliasFiles, n,
                      Append(read, b), AliasesAt(aliasFiles))
        BY <1>1, <1>2, <2>1, <3>1, <4>1, AliasesFile
      <4>4. QED
        BY <4>2, <4>3
    <3>2. CASE b = FALSE
      <4>1. aliases' = aliases
        BY <2>1, <3>2
      <4>2. QED
        BY <1>1, <1>2, <2>1, <3>2, <4>1, TreeStays
    <3>3. QED
      BY <3>1, <3>2
  <2>5. read' \in Seq(BOOLEAN)
    BY <1>1, <2>1
  <2>6. QED
    BY <2>1, <2>3, <2>4, <2>5 DEF FilesInv
<1>5. CASE UNCHANGED vars
  BY <1>5 DEF FilesInv, vars
<1>6. QED
  BY <1>3, <1>4, <1>5 DEF Next


LEMMA FilesInvariant ==
    Spec => []FilesInv
<1>1. Init => FilesInv
  BY FilesInit
<1>2. FilesInv /\ [Next]_vars => FilesInv'
  BY FilesStep
<1>3. QED
  BY <1>1, <1>2, PTL DEF Spec

------------------------------------------------------------------------------
(* Of every name, the first whole definition is loaded.                      *)
LEMMA PatternsHoldFirst ==
    ASSUME FilesInv
    PROVE  HoldsFirst(patterns, patternFiles, 0, PatternIsWhole, ParsePattern)
<1> DEFINE files == patternFiles
           V == PatternsAt(files)
           K == KeysAt(files)
           P == PlacesRead(files, 0, read)
           W == {p \in P : PatternIsWhole(files[p[1]][p[2]])}
<1>1. PlacesIn(files, 0) = P
  BY DEF PlacesIn, PlacesRead, PlacesOf
<1>2. IsList(files) /\ \A j \in DOMAIN files : files[j] # NotTables => IsList(files[j])
  BY DEF FilesInv, AreFiles
<1>3. \A p \in P : p \in Places
  BY <1>2, PlaceOf DEF Places
<1>4. \A p \in P : /\ V[p] = ParsePattern(files[p[1]][p[2]])
                   /\ K[p] = Key[files[p[1]][p[2]].name]
                   /\ V[p] # {} <=> PatternIsWhole(files[p[1]][p[2]])
  BY <1>3, PatternParsed DEF PatternsAt, KeysAt
<1>5. Holds(patterns, Whole(P, V), K, V)
  BY DEF FilesInv, TreeHolds
<1>6. Whole(P, V) = W
  BY <1>4 DEF Whole
<1>7. \A p \in W : p \in P
  OBVIOUS
<1> HIDE DEF V, K, P, W
<1>8. /\ DOMAIN patterns = {K[p] : p \in W}
      /\ \A p \in W : (\A q \in W : K[q] = K[p] => ~ Before(q, p)) => V[p] = {patterns[K[p]]}
  BY <1>5, <1>6 DEF Holds
<1>9. DOMAIN patterns = {Key[files[p[1]][p[2]].name] : p \in W}
  BY <1>4, <1>7, <1>8
<1>10. \A p \in W :
          (\A q \in W : Key[files[q[1]][q[2]].name] = Key[files[p[1]][p[2]].name]
                          => ~ Before(q, p))
             => ParsePattern(files[p[1]][p[2]]) = {patterns[Key[files[p[1]][p[2]].name]]}
  BY <1>4, <1>7, <1>8
<1>11. QED
  BY <1>1, <1>9, <1>10 DEF HoldsFirst, W

LEMMA AliasesHoldFirst ==
    ASSUME FilesInv
    PROVE  HoldsFirst(aliases, aliasFiles, Len(patternFiles), AliasIsWhole, ParseAlias)
<1> DEFINE files == aliasFiles
           offset == Len(patternFiles)
           V == AliasesAt(files)
           K == KeysAt(files)
           P == PlacesRead(files, offset, read)
           W == {p \in P : AliasIsWhole(files[p[1]][p[2]])}
<1>1. PlacesIn(files, offset) = P
  BY DEF PlacesIn, PlacesRead, PlacesOf
<1>2. IsList(files) /\ \A j \in DOMAIN files : files[j] # NotTables => IsList(files[j])
  BY DEF FilesInv, AreFiles
<1>3. \A p \in P : p \in Places
  BY <1>2, PlaceOf DEF Places
<1>4. \A p \in P : /\ V[p] = ParseAlias(files[p[1]][p[2]])
                   /\ K[p] = Key[files[p[1]][p[2]].name]
                   /\ V[p] # {} <=> AliasIsWhole(files[p[1]][p[2]])
  BY <1>3, AliasParsed DEF AliasesAt, KeysAt
<1>5. Holds(aliases, Whole(P, V), K, V)
  BY DEF FilesInv, TreeHolds
<1>6. Whole(P, V) = W
  BY <1>4 DEF Whole
<1>7. \A p \in W : p \in P
  OBVIOUS
<1> HIDE DEF V, K, P, W
<1>8. /\ DOMAIN aliases = {K[p] : p \in W}
      /\ \A p \in W : (\A q \in W : K[q] = K[p] => ~ Before(q, p)) => V[p] = {aliases[K[p]]}
  BY <1>5, <1>6 DEF Holds
<1>9. DOMAIN aliases = {Key[files[p[1]][p[2]].name] : p \in W}
  BY <1>4, <1>7, <1>8
<1>10. \A p \in W :
          (\A q \in W : Key[files[q[1]][q[2]].name] = Key[files[p[1]][p[2]].name]
                          => ~ Before(q, p))
             => ParseAlias(files[p[1]][p[2]]) = {aliases[Key[files[p[1]][p[2]].name]]}
  BY <1>4, <1>7, <1>8
<1>11. QED
  BY <1>1, <1>9, <1>10 DEF HoldsFirst, W

(***************************************************************************)
(* Whatever the files hold and whichever can be read: of all the           *)
(* definitions of a name, the first that is whole is loaded                *)
(* (led_patterns.c:443-583, led_aliases.c:217-333).                        *)
(***************************************************************************)
THEOREM FirstDefinitionsWin ==
    Spec => []FirstDefinitionsAreLoaded
<1>1. FilesInv => FirstDefinitionsAreLoaded
  BY PatternsHoldFirst, AliasesHoldFirst DEF FirstDefinitionsAreLoaded
<1>2. QED
  BY <1>1, FilesInvariant, PTL


------------------------------------------------------------------------------
(* No pattern is loaded in part.                                             *)
LEMMA FirstPlace ==
    ASSUME NEW S \in SUBSET (Nat \X Nat), S # {}
    PROVE  \E p \in S : \A q \in S : ~ Before(q, p)
<1> DEFINE A == {p[1] : p \in S}
<1>1. A \in SUBSET Nat /\ A # {}
  OBVIOUS
<1>2. PICK a \in A : \A x \in A : a <= x
  BY <1>1, LeastNatural
<1> DEFINE B == {p[2] : p \in {q \in S : q[1] = a}}
<1>3. B \in SUBSET Nat /\ B # {}
  BY <1>2
<1>4. PICK c \in B : \A x \in B : c <= x
  BY <1>3, LeastNatural
<1>5. PICK p \in S : p[1] = a /\ p[2] = c
  BY <1>4
<1>6. ASSUME NEW q \in S, Before(q, p) PROVE FALSE
  <2>1. q[1] \in Nat /\ q[2] \in Nat /\ a \in Nat /\ c \in Nat
    BY <1>1, <1>2, <1>3, <1>4
  <2>2. q[1] \in A /\ (q[1] = a => q[2] \in B)
    OBVIOUS
  <2>3. a <= q[1] /\ (q[1] = a => c <= q[2])
    BY <1>2, <1>4, <2>2
  <2>4. QED
    BY <1>5, <1>6, <2>1, <2>3 DEF Before
<1>7. QED
  BY <1>6

LEMMA MappedList ==
    ASSUME NEW s, IsList(s), NEW f, DOMAIN f = DOMAIN s, f = [i \in DOMAIN s |-> f[i]]
    PROVE  Len(f) = Len(s)
<1> DEFINE R == {f[i] : i \in DOMAIN s}
<1>1. Len(s) \in Nat /\ f \in [1 .. Len(s) -> R]
  BY DEF IsList
<1> HIDE DEF R
<1>2. QED
  BY <1>1, ListOfMap

(* A step that was parsed has all the LEDs.                                  *)
LEMMA StepsAlike ==
    ASSUME NEW s, s # Missing, s.leds # NotTables => IsList(s.leds), NEW v, ParseStep(s) = {v}
    PROVE  SameStep(v, s)
<1>1. PICK w : /\ ParseStep(s) = {w} /\ DOMAIN w.leds = DOMAIN s.leds
               /\ w.leds = [i \in DOMAIN s.leds |-> ParseLed(s.leds[i])]
  BY StepsParsed
<1>2. v = w /\ IsList(s.leds)
  BY <1>1, StepsParsed DEF StepIsWhole
<1> DEFINE f == w.leds
<1>3. DOMAIN f = DOMAIN s.leds /\ f = [i \in DOMAIN s.leds |-> f[i]]
  BY <1>1
<1> HIDE DEF f
<1>4. Len(f) = Len(s.leds)
  BY <1>2, <1>3, MappedList
<1>5. QED
  BY <1>2, <1>4 DEF SameStep, f

LEMMA OptionalStepsAlike ==
    ASSUME NEW s, s # Missing => (s.leds # NotTables => IsList(s.leds)),
           NEW v, ParseOptional(s) = {v}
    PROVE  SameStep(v, s)
<1>1. CASE s = Missing
  <2>1. v = NoStep
    BY <1>1 DEF ParseOptional
  <2>2. Len(NoStep.leds) = 0
    BY DEF NoStep
  <2>3. QED
    BY <1>1, <2>1, <2>2 DEF SameStep
<1>2. CASE s # Missing
  BY <1>2, StepsAlike DEF ParseOptional
<1>3. QED
  BY <1>1, <1>2

LEMMA ParsedIsComplete ==
    ASSUME NEW file \in PatternFiles, file # NotTables, NEW i \in DOMAIN file,
           NEW v, ParsePattern(file[i]) = {v}
    PROVE  Complete(v, file[i])
<1> DEFINE d == file[i]
<1>1. /\ d.steps # NotTables =>
            /\ IsList(d.steps)
            /\ \A n \in DOMAIN d.steps :
                  /\ d.steps[n] # Missing
                  /\ d.steps[n].leds # NotTables => IsList(d.steps[n].leds)
      /\ \A s \in {d.start, d.end} \ {Missing} : s.leds # NotTables => IsList(s.leds)
  BY FilesAssumption
<1> HIDE DEF d
<1>2. ParsePattern(d) = {v}
  BY DEF d
<1>3. PatternIsWhole(d)
  BY <1>2, PatternParsed
<1> DEFINE f == [n \in DOMAIN d.steps |-> Only(ParseStep(d.steps[n]))]
<1>4. PICK start, end, repeat, playCount :
         /\ ParseOptional(d.start) = {start} /\ ParseOptional(d.end) = {end}
         /\ ParsePattern(d) = {[repeat |-> repeat, playCount |-> playCount, start |-> start,
                                steps |-> f, end |-> end]}
  BY <1>3, PatternParsed
<1>5. DOMAIN f = DOMAIN d.steps /\ f = [n \in DOMAIN d.steps |-> f[n]]
  OBVIOUS
<1>6. IsList(d.steps) /\ \A n \in DOMAIN d.steps : StepIsWhole(d.steps[n])
  BY <1>1, <1>3 DEF PatternIsWhole
<1>7. ASSUME NEW n \in DOMAIN d.steps PROVE SameStep(f[n], d.steps[n])
  <2> DEFINE s == d.steps[n]
  <2>1. s # Missing /\ (s.leds # NotTables => IsList(s.leds)) /\ StepIsWhole(s)
    BY <1>1, <1>3, <1>6 DEF PatternIsWhole
  <2>2. f[n] = Only(ParseStep(s))
    OBVIOUS
  <2> HIDE DEF s, f
  <2>3. PICK w : ParseStep(s) = {w}
    BY <2>1, StepsParsed
  <2>4. f[n] = w
    BY <2>2, <2>3, OneIsFound
  <2>5. SameStep(w, s)
    BY <2>1, <2>3, StepsAlike
  <2>6. QED
    BY <2>4, <2>5 DEF s
<1> HIDE DEF f
<1>8. v.start = start /\ v.end = end /\ v.steps = f
  BY <1>2, <1>4
<1>9. Len(f) = Len(d.steps)
  BY <1>5, <1>6, MappedList
<1>10. SameStep(start, d.start) /\ SameStep(end, d.end)
  <2>1. /\ d.start # Missing => (d.start.leds # NotTables => IsList(d.start.leds))
        /\ d.end # Missing => (d.end.leds # NotTables => IsList(d.end.leds))
    BY <1>1
  <2>2. QED
    BY <1>4, <2>1, OptionalStepsAlike
<1>11. Complete(v, d)
  BY <1>3, <1>5, <1>7, <1>8, <1>9, <1>10 DEF Complete
<1>12. QED
  BY <1>11 DEF d

LEMMA LoadedAreComplete ==
    ASSUME FilesInv
    PROVE  NoPatternIsLoadedInPart
<1> SUFFICES ASSUME NEW k \in DOMAIN patterns
             PROVE  \E at \in PlacesIn(patternFiles, 0) :
                       /\ patternFiles[at[1]][at[2]].name # Missing
                       /\ Key[patternFiles[at[1]][at[2]].name] = k
                       /\ Complete(patterns[k], patternFiles[at[1]][at[2]])
  BY DEF NoPatternIsLoadedInPart
<1> DEFINE files == patternFiles
           V == PatternsAt(files)
           K == KeysAt(files)
           P == PlacesRead(files, 0, read)
           S == {p \in Whole(P, V) : K[p] = k}
<1>1. PlacesIn(files, 0) = P
  BY DEF PlacesIn, PlacesRead, PlacesOf
<1>2. IsList(files) /\ \A j \in DOMAIN files : files[j] # NotTables => IsList(files[j])
  BY DEF FilesInv, AreFiles
<1>3. \A p \in P : /\ p \in Nat \X Nat /\ p[1] \in DOMAIN files /\ files[p[1]] # NotTables
                   /\ p[2] \in DOMAIN files[p[1]]
  BY <1>2, PlaceOf
<1>4. Holds(patterns, Whole(P, V), K, V)
  BY DEF FilesInv, TreeHolds
<1>5. \A p \in P : V[p] = ParsePattern(files[p[1]][p[2]]) /\ K[p] = Key[files[p[1]][p[2]].name]
  BY <1>3 DEF PatternsAt, KeysAt, Places
<1> HIDE DEF V, K, P
<1>6. S \in SUBSET (Nat \X Nat) /\ S \in SUBSET P /\ S # {}
  BY <1>3, <1>4 DEF Holds, Whole
<1> HIDE DEF S
<1>7. PICK p \in S : \A q \in S : ~ Before(q, p)
  BY <1>6, FirstPlace
<1>8. /\ p \in P /\ p \in Whole(P, V) /\ K[p] = k
      /\ \A q \in Whole(P, V) : K[q] = K[p] => ~ Before(q, p)
  BY <1>6, <1>7 DEF S
<1>9. V[p] = {patterns[k]}
  BY <1>4, <1>8 DEF Holds
<1> DEFINE d == files[p[1]][p[2]]
<1>10. ParsePattern(d) = {patterns[k]} /\ Key[d.name] = k
  BY <1>5, <1>8, <1>9
<1>11. files[p[1]] \in PatternFiles
  BY <1>3, <1>8 DEF FilesInv
<1>12. Complete(patterns[k], d)
  BY <1>3, <1>8, <1>10, <1>11, ParsedIsComplete
<1>13. d.name # Missing
  BY <1>12 DEF Complete, PatternIsWhole
<1>14. QED
  BY <1>1, <1>8, <1>10, <1>12, <1>13

(***************************************************************************)
(* Each loaded pattern has every step, and each step every LED, of one     *)
(* definition of its name (led_patterns.c:171-206, 253-300, 361-397).      *)
(***************************************************************************)
THEOREM PatternsAreComplete ==
    Spec => []NoPatternIsLoadedInPart
<1>1. FilesInv => NoPatternIsLoadedInPart
  BY LoadedAreComplete
<1>2. QED
  BY <1>1, FilesInvariant, PTL
==============================================================================
