-------------------------- MODULE PidWatcherProofs --------------------------
(***************************************************************************)
(* The kernel module and pspidwatcher, for any number of processes that    *)
(* open the device, any tasks and any environments.                        *)
(*                                                                         *)
(* Counted: the use count is the number of the processes that are in the   *)
(* module's code or will come back to it, however their steps interleave   *)
(* with rmmod.                                                             *)
(* Accounted: the memory that is not freed is that of the openers and one  *)
(* block at most for every open that failed.                               *)
(* Snapshots: what the buffers of pspidwatcher hold, and what it has       *)
(* printed of the records it has gone through.                             *)
(***************************************************************************)
EXTENDS PidWatcher, Least, SequenceTheorems

In == {f \in File : file[f].pc # "closed"}

\* EXCEPT changes a field of a record that has it.
Shape == /\ file = [f \in File |-> file[f]]
         /\ \A f \in File : "pc" \in DOMAIN file[f]

Counted ==
    /\ Shape
    /\ loaded \in BOOLEAN
    /\ useCount = Cardinality(In)
    /\ ~loaded => In = {}

LEMMA InIsFinite == IsFiniteSet(In)
<1> QED  BY PidWatcherAssumption, FS_Subset DEF In

LEMMA InitCounted == Init => Counted
<1> SUFFICES ASSUME Init PROVE Counted  OBVIOUS
<1>1. In = {} /\ Shape  BY DEF Init, In, Closed, Shape
<1> QED  BY <1>1, FS_EmptySet DEF Init, Counted

\* A process comes in, or leaves, or stays where it is.
LEMMA Enters ==
    ASSUME Counted, NEW f \in File, f \notin In, In' = In \cup {f}
    PROVE  Cardinality(In') = useCount + 1
<1> QED  BY InIsFinite, FS_AddElement DEF Counted

LEMMA Leaves ==
    ASSUME Counted, NEW f \in File, f \in In, In' = In \ {f}
    PROVE  Cardinality(In') = useCount - 1
<1> QED  BY InIsFinite, FS_RemoveElement DEF Counted

LEMMA StepCounted == Counted /\ [Next]_vars => Counted'
<1> SUFFICES ASSUME Counted, [Next]_vars PROVE Counted'
  OBVIOUS
<1>0. Shape /\ loaded \in BOOLEAN /\ useCount = Cardinality(In) /\ (~loaded => In = {})
  BY DEF Counted
<1>1. ASSUME NEW t \in Task, Exit(t) \/ \E e \in Environ : Fork(t, e) PROVE Counted'
  BY <1>0, <1>1 DEF Exit, Fork, Counted, In, Shape
<1>2. CASE Load \/ Unload
  <2>1. UNCHANGED <<file, useCount>> /\ loaded' \in BOOLEAN  BY <1>2 DEF Load, Unload
  <2>2. In' = In /\ Shape'  BY <1>0, <2>1 DEF In, Shape
  <2>3. ~loaded' => In = {}
    <3>1. CASE Load  BY <3>1 DEF Load
    <3>2. CASE Unload  BY <1>0, <3>2, InIsFinite, FS_EmptySet DEF Unload
    <3> QED  BY <1>2, <3>1, <3>2
  <2> QED  BY <1>0, <2>1, <2>2, <2>3 DEF Counted
<1>3. ASSUME NEW f \in File, Open(f) PROVE Counted'
  <2>1. file' = [file EXCEPT ![f].pc = "store"] /\ loaded /\ loaded' = loaded
        /\ file[f].pc = "closed" /\ useCount' = useCount + 1
    BY <1>3 DEF Open, CountUse
  <2>2. Shape' /\ f \notin In /\ In' = In \cup {f}  BY <1>0, <2>1 DEF In, Shape
  <2> QED  BY <1>0, <2>1, <2>2, Enters DEF Counted
<1>4. ASSUME NEW f \in File, NoMemory(f) \/ Release(f) PROVE Counted'
  <2>1. file' = [file EXCEPT ![f] = Closed] /\ loaded' = loaded
        /\ file[f].pc # "closed" /\ useCount' = useCount - 1
    BY <1>4 DEF NoMemory, Release
  <2>2. Shape' /\ f \in In /\ In' = In \ {f}  BY <1>0, <2>1 DEF In, Shape, Closed
  <2> QED  BY <1>0, <2>1, <2>2, Leaves DEF Counted
<1>5. ASSUME NEW f \in File, Count(f) \/ Walk(f) \/ Read(f) \/ Parse(f) \/ ReadOn(f)
      PROVE  Counted'
  <2>1. /\ UNCHANGED <<loaded, useCount>>
        /\ file[f].pc # "closed"
        /\ file' = [g \in File |-> file'[g]]
        /\ "pc" \in DOMAIN file'[f] /\ file'[f].pc # "closed"
        /\ \A g \in File : g # f => file'[g] = file[g]
    <3>1. CASE Count(f)  BY <1>0, <3>1 DEF Count, Shape
    <3>2. CASE Walk(f)  BY <1>0, <3>2 DEF Walk, Shape
    <3>3. CASE Read(f)  BY <1>0, <3>3 DEF Read, Shape, kernel
    <3>4. CASE Parse(f)  BY <1>0, <3>4 DEF Parse, Shape, kernel
    <3>5. CASE ReadOn(f)  BY <1>0, <3>5 DEF ReadOn, Shape, kernel
    <3> QED  BY <1>5, <3>1, <3>2, <3>3, <3>4, <3>5
  <2>2. \A g \in File : "pc" \in DOMAIN file'[g]  BY <1>0, <2>1 DEF Shape
  <2>3. Shape'  BY <2>1, <2>2 DEF Shape
  <2>4. In' = In  BY <2>1 DEF In
  <2> QED  BY <1>0, <2>1, <2>3, <2>4 DEF Counted
<1>6. CASE UNCHANGED vars
  BY <1>0, <1>6 DEF vars, Counted, In, Shape
<1> QED  BY <1>1, <1>2, <1>3, <1>4, <1>5, <1>6 DEF Next

\* rmmod never takes the module away from a process that is in open, holds
\* the device or is in release.
THEOREM UnloadIsSafe == Spec => []UnloadSafe
<1>1. Counted => UnloadSafe  BY DEF Counted, UnloadSafe, In
<1> QED  BY <1>1, InitCounted, StepCounted, PTL DEF Spec

-----------------------------------------------------------------------------
(* The memory of the module.                                               *)

Held == {f \in File : file[f].pc \in {"read", "parse"}}
Half == {f \in File : file[f].pc = "data"}

\* What is allocated and belongs to nobody, and the opens that device_is_open
\* has counted and that hold nothing.
Accounted ==
    /\ Shape
    /\ blocks \in Int /\ deviceIsOpen \in Int
    /\ LossIsCounted

LEMMA SetsAreFinite ==
    /\ IsFiniteSet(In) /\ IsFiniteSet(Held) /\ IsFiniteSet(Half)
    /\ Cardinality(In) \in Nat /\ Cardinality(Held) \in Nat /\ Cardinality(Half) \in Nat
<1>1. In \subseteq File /\ Held \subseteq File /\ Half \subseteq File
  BY DEF In, Held, Half
<1> QED  BY <1>1, PidWatcherAssumption, FS_Subset, FS_CardinalityType

\* The loss and its bound in the sizes of the three sets.
LEMMA Loss ==
    /\ Owned = 2 * Cardinality(Held) + Cardinality(Half)
    /\ Openers = Cardinality(In)
BY DEF Owned, Openers, In, Held, Half

LEMMA InitAccounted == Init => Accounted
<1> SUFFICES ASSUME Init PROVE Accounted  OBVIOUS
<1>1. In = {} /\ Held = {} /\ Half = {} /\ Shape
  BY DEF Init, In, Held, Half, Closed, Shape
<1>2. Owned = 0 /\ Openers = 0  BY <1>1, Loss, FS_EmptySet
<1> QED  BY <1>1, <1>2 DEF Init, Accounted, LossIsCounted

\* How a step that moves one process changes the sizes of the sets.
LEMMA Moves ==
    ASSUME NEW f \in File, \A g \in File : g # f => file'[g] = file[g]
    PROVE  /\ Cardinality(In') = Cardinality(In)
                + (IF f \in In' THEN 1 ELSE 0) - (IF f \in In THEN 1 ELSE 0)
           /\ Cardinality(Held') = Cardinality(Held)
                + (IF f \in Held' THEN 1 ELSE 0) - (IF f \in Held THEN 1 ELSE 0)
           /\ Cardinality(Half') = Cardinality(Half)
                + (IF f \in Half' THEN 1 ELSE 0) - (IF f \in Half THEN 1 ELSE 0)
<1>1. ASSUME NEW S, NEW T, IsFiniteSet(S), S \ {f} = T \ {f}
      PROVE  Cardinality(T) = Cardinality(S)
                + (IF f \in T THEN 1 ELSE 0) - (IF f \in S THEN 1 ELSE 0)
  <2>1. Cardinality(S) \in Nat  BY <1>1, FS_CardinalityType
  <2>2. CASE (f \in S) <=> (f \in T)
    <3>1. S = T  BY <1>1, <2>2
    <3> QED  BY <2>1, <3>1
  <2>3. CASE f \in S /\ f \notin T
    <3>1. T = S \ {f}  BY <1>1, <2>3
    <3>2. Cardinality(T) = Cardinality(S) - 1
      BY <1>1, <2>3, <3>1, FS_RemoveElement
    <3> QED  BY <2>1, <2>3, <3>2
  <2>4. CASE f \notin S /\ f \in T
    <3>1. T = S \cup {f}  BY <1>1, <2>4
    <3>2. Cardinality(T) = Cardinality(S) + 1  BY <1>1, <2>4, <3>1, FS_AddElement
    <3> QED  BY <2>1, <2>4, <3>2
  <2> QED  BY <2>2, <2>3, <2>4
<1>2. /\ In \ {f} = In' \ {f}
      /\ Held \ {f} = Held' \ {f}
      /\ Half \ {f} = Half' \ {f}
  BY DEF In, Held, Half
<1> QED  BY <1>1, <1>2, SetsAreFinite

LEMMA StepAccounted == Accounted /\ [Next]_vars => Accounted'
<1> SUFFICES ASSUME Accounted, [Next]_vars PROVE Accounted'
  OBVIOUS
<1>0. Shape /\ blocks \in Int /\ deviceIsOpen \in Int
  BY DEF Accounted
<1>1. blocks - (2 * Cardinality(Held) + Cardinality(Half)) \in 0 .. deviceIsOpen - Cardinality(In)
  BY Loss DEF Accounted, LossIsCounted
<1> DEFINE
      Sum == blocks' - (2 * Cardinality(Held') + Cardinality(Half'))
      Goal == Sum \in 0 .. deviceIsOpen' - Cardinality(In')
<1>2. ASSUME Shape', blocks' \in Int, deviceIsOpen' \in Int, Goal PROVE Accounted'
  <2>1. /\ Owned' = 2 * Cardinality(Held') + Cardinality(Half')
        /\ Openers' = Cardinality(In')
    BY Loss DEF Owned, Openers, In, Held, Half
  <2> QED  BY <1>2, <2>1 DEF Accounted, LossIsCounted
<1> HIDE DEF Goal
<1>3. CASE UNCHANGED <<file, blocks, deviceIsOpen>>
  BY <1>0, <1>3 DEF Accounted, LossIsCounted, Owned, Openers, Shape
<1>4. ASSUME NEW f \in File, Open(f) PROVE Accounted'
  <2>1. /\ file[f].pc = "closed" /\ file'[f].pc = "store"
        /\ \A g \in File : g # f => file'[g] = file[g]
        /\ blocks' = blocks /\ deviceIsOpen' = deviceIsOpen + 1 /\ Shape'
    BY <1>0, <1>4 DEF Open, Shape
  <2>2. f \notin In /\ f \in In' /\ f \notin Held \cup Held' \cup Half \cup Half'
    BY <2>1 DEF In, Held, Half
  <2>3. Goal  BY <1>0, <1>1, <2>1, <2>2, Moves, SetsAreFinite DEF Goal
  <2> QED  BY <1>0, <1>2, <2>1, <2>3
<1>5. ASSUME NEW f \in File, NoMemory(f) PROVE Accounted'
  <2>1. /\ file[f].pc \in {"store", "data"} /\ file'[f].pc = "closed"
        /\ \A g \in File : g # f => file'[g] = file[g]
        /\ blocks' = blocks /\ deviceIsOpen' = deviceIsOpen /\ Shape'
    BY <1>0, <1>5 DEF NoMemory, Shape, Closed
  <2>2. f \in In /\ f \notin In' /\ f \notin Held \cup Held' \cup Half'
    BY <2>1 DEF In, Held, Half
  <2>3. Goal  BY <1>0, <1>1, <2>1, <2>2, Moves, SetsAreFinite DEF Goal
  <2> QED  BY <1>0, <1>2, <2>1, <2>3
<1>6. ASSUME NEW f \in File, Count(f) PROVE Accounted'
  <2>1. /\ file[f].pc = "store" /\ file'[f].pc = "data"
        /\ \A g \in File : g # f => file'[g] = file[g]
        /\ blocks' = blocks + 1 /\ deviceIsOpen' = deviceIsOpen /\ Shape'
    BY <1>0, <1>6 DEF Count, Shape
  <2>2. f \in In /\ f \in In' /\ f \in Half' /\ f \notin Held \cup Held' \cup Half
    BY <2>1 DEF In, Held, Half
  <2>3. Goal  BY <1>0, <1>1, <2>1, <2>2, Moves, SetsAreFinite DEF Goal
  <2> QED  BY <1>0, <1>2, <2>1, <2>3
<1>7. ASSUME NEW f \in File, Walk(f) PROVE Accounted'
  <2>1. /\ file[f].pc = "data" /\ file'[f].pc = "read"
        /\ \A g \in File : g # f => file'[g] = file[g]
        /\ blocks' = blocks + 1 /\ deviceIsOpen' = deviceIsOpen /\ Shape'
    BY <1>0, <1>7 DEF Walk, Shape
  <2>2. f \in In /\ f \in In' /\ f \in Half /\ f \in Held' /\ f \notin Held \cup Half'
    BY <2>1 DEF In, Held, Half
  <2>3. Goal  BY <1>0, <1>1, <2>1, <2>2, Moves, SetsAreFinite DEF Goal
  <2> QED  BY <1>0, <1>2, <2>1, <2>3
<1>8. ASSUME NEW f \in File, Release(f) PROVE Accounted'
  <2>1. /\ file[f].pc \in {"read", "parse"} /\ file'[f].pc = "closed"
        /\ \A g \in File : g # f => file'[g] = file[g]
        /\ blocks' = blocks - 2 /\ deviceIsOpen' = deviceIsOpen - 1 /\ Shape'
    BY <1>0, <1>8 DEF Release, Free, Shape, Closed
  <2>2. f \in In /\ f \notin In' /\ f \in Held /\ f \notin Held' \cup Half \cup Half'
    BY <2>1 DEF In, Held, Half
  <2>3. Goal  BY <1>0, <1>1, <2>1, <2>2, Moves, SetsAreFinite DEF Goal
  <2> QED  BY <1>0, <1>2, <2>1, <2>3
<1>9. ASSUME NEW f \in File, Read(f) \/ Parse(f) \/ ReadOn(f) PROVE Accounted'
  <2>1. /\ file[f].pc \in {"read", "parse"} /\ file'[f].pc \in {"read", "parse"}
        /\ \A g \in File : g # f => file'[g] = file[g]
        /\ blocks' = blocks /\ deviceIsOpen' = deviceIsOpen /\ Shape'
    <3>1. CASE Read(f)  BY <1>0, <3>1 DEF Read, Shape, kernel
    <3>2. CASE Parse(f)  BY <1>0, <3>2 DEF Parse, Shape, kernel
    <3>3. CASE ReadOn(f)  BY <1>0, <3>3 DEF ReadOn, Shape, kernel
    <3> QED  BY <1>9, <3>1, <3>2, <3>3
  <2>2. f \in In /\ f \in In' /\ f \in Held /\ f \in Held' /\ f \notin Half \cup Half'
    BY <2>1 DEF In, Held, Half
  <2>3. Goal  BY <1>0, <1>1, <2>1, <2>2, Moves, SetsAreFinite DEF Goal
  <2> QED  BY <1>0, <1>2, <2>1, <2>3
<1>10. CASE \E t \in Task : Exit(t) \/ \E e \in Environ : Fork(t, e)
  BY <1>3, <1>10 DEF Exit, Fork
<1>11. CASE Load \/ Unload  BY <1>3, <1>11 DEF Load, Unload
<1>12. CASE UNCHANGED vars  BY <1>3, <1>12 DEF vars
<1> QED
  BY <1>4, <1>5, <1>6, <1>7, <1>8, <1>9, <1>10, <1>11, <1>12 DEF Next

\* Whatever fails in open, no more memory is lost than device_is_open counts
\* opens that hold nothing, and nothing is freed twice.
THEOREM LossHasABound == Spec => []LossIsCounted
<1>1. Accounted => LossIsCounted  BY DEF Accounted
<1> QED  BY <1>1, InitAccounted, StepAccounted, PTL DEF Spec

-----------------------------------------------------------------------------
(* The strings of an environment in the buffer of pspidwatcher.            *)

String == {Blank, Plain} \cup {Variable(n) : n \in Name}

\* What is in the buffer "string" between two records.
Left == {Blank} \cup {Variable(n) : n \in Name} \cup {<<"mixed", m, n>> : m, n \in Name}

\* The first of a set of positions.
LEMMA MinIs ==
    ASSUME NEW S \in SUBSET Nat, S # {}
    PROVE  Min(S) \in S /\ \A i \in S : Min(S) <= i
<1>1. \E i \in S : \A j \in S : i <= j  BY LeastNat
<1> QED  BY <1>1 DEF Min

LEMMA StringsAre ==
    ASSUME NEW x \in String
    PROVE  /\ Match(x) <=> x[1] = "name"
           /\ x \in Text
           /\ x[1] = "name" <=> x \notin {Blank, Plain}
           /\ x[1] = "name" => x \in Left /\ x[2] \in Name /\ x = Variable(x[2])
<1>1. CASE x = Blank  BY <1>1 DEF Match, Blank, Plain, Text
<1>2. CASE x = Plain  BY <1>2 DEF Match, Blank, Plain, Text
<1>3. ASSUME NEW n \in Name, x = Variable(n)
      PROVE  x[1] = "name" /\ x[2] = n /\ x # Blank /\ x # Plain
  BY <1>3 DEF Variable, Blank, Plain
<1>4. ASSUME NEW n \in Name, x = Variable(n)
      PROVE  x \in Text /\ x \in Left /\ Match(x)
  BY <1>3, <1>4 DEF Text, Left, Match
<1> QED  BY <1>1, <1>2, <1>3, <1>4 DEF String

LEMMA LeftIs ==
    ASSUME NEW x \in Left
    PROVE  /\ x \in Text /\ x # Plain
           /\ x # Blank => Match(x) /\ x[2] \in Name /\ x[Len(x)] \in Name
<1>1. CASE x = Blank  BY <1>1 DEF Blank, Plain, Text
<1>2. ASSUME NEW n \in Name, x = Variable(n)
      PROVE  x[1] = "name" /\ x # Blank /\ x # Plain /\ x[2] = n /\ Len(x) = 2
  BY <1>2 DEF Variable, Blank, Plain
<1>3. ASSUME NEW m \in Name, NEW n \in Name, x = <<"mixed", m, n>>
      PROVE  x # Blank /\ x # Plain /\ x[2] = m /\ x[3] = n /\ Len(x) = 3
  BY <1>3 DEF Variable, Blank, Plain
<1>4. x \in Text  BY DEF Left, Text
<1>5. CASE x # Blank
  <2>1. x # Plain /\ x[2] \in Name /\ x[Len(x)] \in Name
    BY <1>2, <1>3, <1>5 DEF Left
  <2> QED  BY <1>4, <1>5, <2>1 DEF Match
<1> QED  BY <1>1, <1>4, <1>5

LEMMA OverIs ==
    ASSUME NEW x \in String, NEW left \in Left
    PROVE  /\ x = Blank => Over(x, left) = left
           /\ x = Plain => Over(x, left) = Plain
           /\ x[1] = "name" => /\ Over(x, left) \in Left \ {Blank}
                               /\ \/ Over(x, left) = x
                                  \/ /\ left # Blank /\ left[Len(left)] > x[2]
                                     /\ Over(x, left) = <<"mixed", x[2], left[Len(left)]>>
<1>1. CASE x = Blank
  <2>1. x[1] # "name"  BY <1>1 DEF Blank
  <2> QED  BY <1>1, <2>1 DEF Over, Blank, Plain
<1>2. CASE x = Plain
  <2>1. x[1] # "name" /\ x # Blank  BY <1>2 DEF Blank, Plain
  <2> QED  BY <1>2, <2>1 DEF Over
<1>3. CASE x[1] = "name"
  <2>1. PICK n \in Name : x = Variable(n) /\ x[2] = n  BY <1>3, StringsAre
  <2>2. x # Blank /\ x # Plain /\ x \in Left  BY <1>3, <2>1, StringsAre DEF Variable
  <2>3. CASE left # Blank /\ x[2] < left[Len(left)]
    <3>1. PICK k \in Name : k = left[Len(left)]  BY <2>3, LeftIs
    <3>2. Over(x, left) = <<"mixed", n, k>>  BY <1>3, <2>1, <2>2, <2>3, <3>1 DEF Over
    <3>3. <<"mixed", n, k>> # Blank  BY DEF Blank
    <3>4. left # Blank /\ k > n  BY <2>1, <2>3, <3>1, PidWatcherAssumption
    <3>5. <<"mixed", n, k>> \in Left \ {Blank}  BY <3>3 DEF Left
    <3> QED  BY <1>3, <2>1, <2>2, <3>1, <3>2, <3>4, <3>5
  <2>4. CASE ~(left # Blank /\ x[2] < left[Len(left)])
    <3>1. Over(x, left) = x  BY <2>2, <2>4 DEF Over
    <3> QED  BY <1>3, <2>2, <3>1
  <2> QED  BY <2>3, <2>4
<1> QED  BY <1>1, <1>2, <1>3

\* What a turn of the loop finds in an environment: its first variable, whose
\* end may be that of what was left in the buffer, or, if it begins with an
\* empty string, what was left.  Matching are the strings that match.
Matching(strings) == {i \in DOMAIN strings : Match(strings[i])}

Named(env, left, found) ==
    \/ found = Variable(NameIn(env))
    \/ /\ env[1] = Variable(NameIn(env)) /\ left # Blank /\ left[Len(left)] > NameIn(env)
       /\ found = <<"mixed", NameIn(env), left[Len(left)]>>

LEMMA Finds ==
    ASSUME NEW env \in Seq(String), NEW left \in Left,
           NEW strings, strings = Strings(env, left),
           NEW matches, matches = Matching(strings),
           NEW found, found = strings[Min(matches)]
    PROVE  /\ strings = <<>> => matches = {}
           /\ matches # {} => found \in Left \ {Blank}
           /\ env # <<>> /\ env[1] = Blank /\ left # Blank => matches # {} /\ found = left
           /\ ~(env # <<>> /\ env[1] = Blank /\ left # Blank) =>
                 /\ matches = {} <=> Variables(env) = {}
                 /\ matches # {} => Named(env, left, found)
<1> USE DEF Matching
<1>1. /\ Len(env) \in Nat /\ DOMAIN env = 1 .. Len(env)
      /\ \A i \in 1 .. Len(env) : env[i] \in String
  BY LenProperties, ElementOfSeq
<1>2. /\ strings = [i \in 1 .. Len(env) |-> IF i = 1 THEN Over(env[1], left) ELSE env[i]]
      /\ DOMAIN strings = 1 .. Len(env)
  BY <1>1 DEF Strings
<1>3. matches \in SUBSET Nat /\ Variables(env) \in SUBSET Nat  BY <1>1, <1>2 DEF Variables
<1>4. strings = <<>> => matches = {}  BY <1>2
<1>5. CASE env # <<>> /\ env[1] = Blank /\ left # Blank
  <2>1. Len(env) # 0  BY <1>1, <1>5, EmptySeq
  <2>2. strings[1] = left /\ Match(left)  BY <1>1, <1>2, <1>5, <2>1, OverIs, LeftIs
  <2>3. 1 \in matches  BY <1>1, <1>2, <2>1, <2>2
  <2>4. Min(matches) = 1
    <3>1. Min(matches) \in matches /\ Min(matches) <= 1  BY <1>3, <2>3, MinIs
    <3>2. \A i \in matches : i >= 1  BY <1>1, <1>2
    <3>3. Min(matches) \in Nat  BY <1>3, <3>1
    <3> QED  BY <3>1, <3>2, <3>3
  <2> QED  BY <1>2, <1>4, <1>5, <2>2, <2>3, <2>4
<1>6. CASE ~(env # <<>> /\ env[1] = Blank /\ left # Blank)
  <2> DEFINE
        Kept(i) == \/ strings[i] = Variable(env[i][2])
                   \/ /\ i = 1 /\ left # Blank /\ left[Len(left)] > env[1][2]
                      /\ env[1] = Variable(env[1][2])
                      /\ strings[i] = <<"mixed", env[1][2], left[Len(left)]>>
  <2>1. \A i \in 1 .. Len(env) : /\ Match(strings[i]) <=> env[i][1] = "name"
                                 /\ env[i][1] = "name" => strings[i] \in Left \ {Blank}
                                 /\ env[i][1] = "name" => Kept(i)
    <3> SUFFICES ASSUME NEW i \in 1 .. Len(env)
                 PROVE  /\ Match(strings[i]) <=> env[i][1] = "name"
                        /\ env[i][1] = "name" => strings[i] \in Left \ {Blank}
                        /\ env[i][1] = "name" => Kept(i)
      OBVIOUS
    <3>1. env[i] \in String /\ env # <<>>  BY <1>1
    <3>2. CASE i # 1
      <4>1. strings[i] = env[i]  BY <1>2, <3>2
      <4>2. env[i][1] = "name" => Kept(i)  BY <3>1, <4>1, StringsAre
      <4>3. env[i][1] = "name" => env[i] \in Left \ {Blank}  BY <3>1, StringsAre
      <4>4. Match(env[i]) <=> env[i][1] = "name"  BY <3>1, StringsAre
      <4> QED  BY <4>1, <4>2, <4>3, <4>4
    <3>3. CASE i = 1
      <4>1. strings[1] = Over(env[1], left)  BY <1>2, <3>3
      <4>2. CASE env[1] = Blank
        <5>1. strings[1] = Blank  BY <1>6, <3>1, <3>3, <4>1, <4>2, OverIs
        <5>2. ~Match(Blank) /\ Blank[1] # "name"  BY DEF Match, Blank
        <5> QED  BY <3>3, <4>2, <5>1, <5>2
      <4>3. CASE env[1] = Plain
        <5>1. strings[1] = Plain  BY <3>1, <3>3, <4>1, <4>3, OverIs
        <5>2. ~Match(Plain) /\ Plain[1] # "name"  BY DEF Match, Plain
        <5> QED  BY <3>3, <4>3, <5>1, <5>2
      <4>4. CASE env[1] \notin {Blank, Plain}
        <5>1. env[1][1] = "name"  BY <3>1, <3>3, <4>4, StringsAre
        <5>2. strings[1] \in Left \ {Blank}  BY <3>1, <3>3, <4>1, <5>1, OverIs
        <5>3. Match(strings[1])  BY <5>2, LeftIs
        <5>4. \/ strings[1] = env[1]
              \/ /\ left # Blank /\ left[Len(left)] > env[1][2]
                 /\ strings[1] = <<"mixed", env[1][2], left[Len(left)]>>
          BY <3>1, <3>3, <4>1, <5>1, OverIs
        <5>5. env[1] = Variable(env[1][2])  BY <3>1, <3>3, <5>1, StringsAre
        <5>6. Kept(1)  BY <5>4, <5>5
        <5> QED  BY <3>3, <5>1, <5>2, <5>3, <5>6
      <4> QED  BY <4>2, <4>3, <4>4
    <3> QED  BY <3>2, <3>3
  <2>2. matches = Variables(env)  BY <1>1, <1>2, <2>1 DEF Variables
  <2>3. ASSUME matches # {}
        PROVE  found \in Left \ {Blank} /\ Named(env, left, found)
    <3>1. PICK m : m = Min(matches)  OBVIOUS
    <3>2. m \in 1 .. Len(env) /\ env[m][1] = "name" /\ found = strings[m]
      BY <1>1, <1>3, <2>2, <2>3, <3>1, MinIs DEF Variables
    <3>3. NameIn(env) = env[m][2]  BY <2>2, <3>1 DEF NameIn
    <3>4. Kept(m) /\ strings[m] \in Left \ {Blank}  BY <2>1, <3>2
    <3> QED  BY <3>2, <3>3, <3>4 DEF Named
  <2> QED  BY <1>4, <1>6, <2>2, <2>3
<1> QED  BY <1>5, <1>6

-----------------------------------------------------------------------------
(* The snapshots.                                                          *)

Files == [pc : {"closed", "store", "data", "read", "parse"}, len : Nat, pids : Nat,
          data : Seq(Record), offset : Nat, buf : Seq(Record), string : Text,
          printed : Seq(Task \X Text)]

\* The records of a snapshot r that pspidwatcher has gone through.
Through(r) == r.offset - Len(r.buf)

\* A snapshot names no task twice, the buffer holds the records that follow
\* those gone through, and what was printed of these is right.
Reading(r) ==
    /\ r.pc \in {"read", "parse"}
    /\ Len(r.data) = r.len
    /\ \A i, j \in 1 .. r.len : r.data[i].pid = r.data[j].pid => i = j \/ r.data[i].pid = 0
    /\ \A i \in 1 .. r.len : r.data[i].pid = 0 => r.data[i].environ = <<>>
    /\ r.offset <= r.len /\ Through(r) >= 0
    /\ r.pc = "read" => r.buf = <<>>
    /\ \A j \in 1 .. Len(r.buf) : r.buf[j] = r.data[Through(r) + j]
    /\ r.string \in Left
    /\ LeftFor(r, Through(r) + 1) = IF r.string = Blank THEN {} ELSE {r.string}
    /\ \A a \in 1 .. Len(r.printed) :
        \E i \in 1 .. Through(r) : r.printed[a][1] = r.data[i].pid
    /\ LinesInOrder(r)
    /\ \A i \in 1 .. Through(r) : TextIsRight(r, i)

\* Nothing is read before the snapshot is made.
Fresh(r) ==
    /\ r.pc \in {"closed", "store", "data"}
    /\ r.offset = 0 /\ r.buf = <<>> /\ r.string = Blank /\ r.printed = <<>>

Snapshots ==
    /\ file \in [File -> Files]
    /\ tasks \in Seq(Task)
    /\ \A i, j \in 1 .. Len(tasks) : tasks[i] = tasks[j] => i = j
    /\ environ \in [Task -> Environ \cup {<<>>}]
    /\ \A f \in File : Reading(file[f]) \/ Fresh(file[f])

LEMMA ClosedIs == Closed \in Files /\ Fresh(Closed)
<1>1. <<>> \in Seq(Record) /\ <<>> \in Seq(Task \X Text) /\ Blank \in Text
  BY EmptySeq DEF Text
<1> QED  BY <1>1 DEF Closed, Files, Fresh

LEMMA InitSnapshots == Init => Snapshots
<1> SUFFICES ASSUME Init PROVE Snapshots  OBVIOUS
<1>1. <<>> \in Seq(Task) /\ Len(<<>>) = 0  BY EmptySeq
<1> QED  BY <1>1, ClosedIs DEF Init, Snapshots

\* One opener makes a step.
LEMMA OneFile ==
    ASSUME Snapshots, NEW f \in File, NEW r, file' = [file EXCEPT ![f] = r],
           UNCHANGED <<tasks, environ>>, r \in Files, Reading(r) \/ Fresh(r)
    PROVE  Snapshots'
BY DEF Snapshots

\* Tasks come and go.
LEMMA TasksChange ==
    ASSUME Snapshots, NEW t \in Task, Exit(t) \/ \E e \in Environ : Fork(t, e)
    PROVE  Snapshots'
<1> USE DEF Snapshots
<1>1. Len(tasks) \in Nat /\ DOMAIN tasks = 1 .. Len(tasks)
      /\ \A i \in 1 .. Len(tasks) : tasks[i] \in Task
  BY LenProperties, ElementOfSeq
<1>2. file' = file  BY DEF Exit, Fork
<1>3. CASE Exit(t)
  <2>1. environ' \in [Task -> Environ \cup {<<>>}]  BY <1>3 DEF Exit
  <2>2. PICK n \in 1 .. Len(tasks) : tasks' = SubSeq(tasks, 1, n - 1) \o SubSeq(tasks, n + 1, Len(tasks))
    BY <1>3 DEF Exit, RemoveAt
  <2>3. PICK a : a = SubSeq(tasks, 1, n - 1)  OBVIOUS
  <2>4. PICK b : b = SubSeq(tasks, n + 1, Len(tasks))  OBVIOUS
  <2>5. /\ a \in Seq(Task) /\ Len(a) = n - 1
        /\ \A i \in 1 .. n - 1 : a[i] = tasks[i]
    <3>1. n - 1 \in Nat /\ n - 1 \in Int /\ 1 .. n - 1 \subseteq 1 .. Len(tasks)  BY <1>1
    <3>2. \A i \in 1 .. n - 1 : tasks[i] \in Task  BY <1>1, <3>1
    <3>3. a \in Seq(Task)  BY <1>1, <2>3, <3>1, <3>2, SubSeqProperties
    <3>4. Len(a) = IF 1 <= n - 1 THEN n - 1 - 1 + 1 ELSE 0
      BY <1>1, <2>3, <3>1, <3>2, SubSeqProperties
    <3>5. \A i \in 1 .. n - 1 - 1 + 1 : a[i] = tasks[1 + i - 1]
      BY <1>1, <2>3, <3>1, <3>2, SubSeqProperties
    <3> QED  BY <3>1, <3>3, <3>4, <3>5
  <2>6. /\ b \in Seq(Task) /\ Len(b) = Len(tasks) - n
        /\ \A i \in 1 .. Len(tasks) - n : b[i] = tasks[n + i]
    <3>1. n + 1 \in Int /\ Len(tasks) \in Int /\ n + 1 .. Len(tasks) \subseteq 1 .. Len(tasks)  BY <1>1
    <3>2. \A i \in n + 1 .. Len(tasks) : tasks[i] \in Task  BY <1>1, <3>1
    <3>3. b \in Seq(Task)  BY <1>1, <2>4, <3>1, <3>2, SubSeqProperties
    <3>4. Len(b) = IF n + 1 <= Len(tasks) THEN Len(tasks) - (n + 1) + 1 ELSE 0
      BY <1>1, <2>4, <3>1, <3>2, SubSeqProperties
    <3>5. \A i \in 1 .. Len(tasks) - (n + 1) + 1 : b[i] = tasks[n + 1 + i - 1]
      BY <1>1, <2>4, <3>1, <3>2, SubSeqProperties
    <3>6. Len(b) = Len(tasks) - n
      <4>1. PICK l \in Nat : l = Len(tasks)  BY <1>1
      <4>2. n \in 1 .. l /\ Len(b) = IF n + 1 <= l THEN l - (n + 1) + 1 ELSE 0  BY <3>4, <4>1
      <4>3. Len(b) = l - n  BY <4>2
      <4> QED  BY <4>1, <4>3
    <3>7. \A i \in 1 .. Len(tasks) - n : b[i] = tasks[n + i]
      <4>1. Len(tasks) - (n + 1) + 1 = Len(tasks) - n
            /\ \A i \in 1 .. Len(tasks) - n : n + 1 + i - 1 = n + i
        BY <1>1
      <4> QED  BY <3>5, <4>1
    <3> QED  BY <3>3, <3>6, <3>7
  <2>7. /\ tasks' \in Seq(Task) /\ Len(tasks') = Len(tasks) - 1
        /\ \A i \in 1 .. Len(tasks) - 1 : tasks'[i] = IF i < n THEN tasks[i] ELSE tasks[i + 1]
    <3>1. /\ a \o b \in Seq(Task) /\ Len(a \o b) = Len(a) + Len(b)
          /\ \A i \in 1 .. Len(a) + Len(b) :
                (a \o b)[i] = IF i <= Len(a) THEN a[i] ELSE b[i - Len(a)]
      <4>1. a \in Seq(Task) /\ b \in Seq(Task)  BY <2>5, <2>6
      <4> QED  BY <4>1, ConcatProperties
    <3>2. Len(a) + Len(b) = Len(tasks) - 1  BY <1>1, <2>5, <2>6
    <3>3. ASSUME NEW i \in 1 .. Len(tasks) - 1
          PROVE  (a \o b)[i] = IF i < n THEN tasks[i] ELSE tasks[i + 1]
      <4>1. CASE i < n
        <5>1. i <= Len(a) /\ i \in 1 .. n - 1  BY <1>1, <2>5, <4>1
        <5> QED  BY <2>5, <3>1, <3>2, <4>1, <5>1
      <4>2. CASE ~(i < n)
        <5>1. ~(i <= Len(a)) /\ i - Len(a) \in 1 .. Len(tasks) - n /\ n + (i - Len(a)) = i + 1
          BY <1>1, <2>5, <4>2
        <5>2. b[i - Len(a)] = tasks[i + 1]  BY <2>6, <5>1
        <5> QED  BY <3>1, <3>2, <4>2, <5>1, <5>2
      <4> QED  BY <4>1, <4>2
    <3> QED  BY <2>2, <2>3, <2>4, <3>1, <3>2, <3>3
  <2>8. \A i, j \in 1 .. Len(tasks') : tasks'[i] = tasks'[j] => i = j
    <3> SUFFICES ASSUME NEW i \in 1 .. Len(tasks) - 1, NEW j \in 1 .. Len(tasks) - 1,
                        tasks'[i] = tasks'[j]
                 PROVE  i = j
      BY <2>7
    <3>1. i \in 1 .. Len(tasks) /\ i + 1 \in 1 .. Len(tasks)
          /\ j \in 1 .. Len(tasks) /\ j + 1 \in 1 .. Len(tasks)
      BY <1>1
    <3>2. PICK u \in 1 .. Len(tasks), v \in 1 .. Len(tasks) :
             /\ u = (IF i < n THEN i ELSE i + 1) /\ v = (IF j < n THEN j ELSE j + 1)
      BY <3>1
    <3>3. tasks[u] = tasks[v]  BY <2>7, <3>2
    <3>4. u = v  BY <3>3
    <3> QED  BY <3>2, <3>4
  <2> QED  BY <1>2, <2>1, <2>7, <2>8
<1>4. ASSUME NEW e \in Environ, Fork(t, e) PROVE Snapshots'
  <2>1. environ' \in [Task -> Environ \cup {<<>>}]  BY <1>4 DEF Fork
  <2>2. tasks' = Append(tasks, t) /\ \A i \in 1 .. Len(tasks) : tasks[i] # t
    BY <1>1, <1>4 DEF Fork, ToSet
  <2>3. /\ tasks' \in Seq(Task) /\ Len(tasks') = Len(tasks) + 1
        /\ \A i \in 1 .. Len(tasks) : tasks'[i] = tasks[i]
        /\ tasks'[Len(tasks) + 1] = t
    BY <2>2, AppendProperties
  <2>4. \A i \in 1 .. Len(tasks) + 1 : i \in 1 .. Len(tasks) \/ i = Len(tasks) + 1  BY <1>1
  <2>5. \A i, j \in 1 .. Len(tasks') : tasks'[i] = tasks'[j] => i = j
    BY <2>2, <2>3, <2>4
  <2> QED  BY <1>2, <2>1, <2>3, <2>5
<1> QED  BY <1>3, <1>4

LEMMA EnvironsAre ==
    ASSUME NEW env \in Environ \cup {<<>>}
    PROVE  env \in Seq(String)
BY PidWatcherAssumption, EmptySeq DEF String

\* Opens and closes.
LEMMA OpensAndCloses ==
    ASSUME Snapshots, NEW f \in File, Open(f) \/ NoMemory(f) \/ Count(f) \/ Release(f)
    PROVE  Snapshots'
<1>0. file[f] \in Files /\ file \in [File -> Files]  BY DEF Snapshots
<1>1. CASE NoMemory(f) \/ Release(f)
  BY <1>1, ClosedIs, OneFile DEF NoMemory, Release
<1>2. CASE Open(f)
  <2>1. PICK r : r = [file[f] EXCEPT !.pc = "store"]  OBVIOUS
  <2>2. r \in Files /\ Fresh(r)
    <3>1. Fresh(file[f])  BY <1>2 DEF Open, Snapshots, Reading
    <3> QED  BY <1>0, <2>1, <3>1 DEF Files, Fresh
  <2>3. file' = [file EXCEPT ![f] = r] /\ UNCHANGED <<tasks, environ>>
    BY <1>2, <2>1 DEF Open
  <2> QED  BY <2>2, <2>3, OneFile
<1>3. CASE Count(f)
  <2>1. PICK r : r = [file[f] EXCEPT !.pc = "data", !.len = Len(tasks)]  OBVIOUS
  <2>2. r \in Files /\ Fresh(r)
    <3>1. Fresh(file[f])  BY <1>3 DEF Count, Snapshots, Reading
    <3>2. Len(tasks) \in Nat  BY LenProperties DEF Snapshots
    <3> QED  BY <1>0, <2>1, <3>1, <3>2 DEF Files, Fresh
  <2>3. file' = [file EXCEPT ![f] = r] /\ UNCHANGED <<tasks, environ>>
    BY <1>0, <1>3, <2>1 DEF Count, Files
  <2> QED  BY <2>2, <2>3, OneFile
<1> QED  BY <1>1, <1>2, <1>3

\* A sequence that is given by a function.
LEMMA IsSequence ==
    ASSUME NEW S, NEW n \in Nat, NEW g \in [1 .. n -> S]
    PROVE  g \in Seq(S) /\ Len(g) = n
BY SeqDef, LenProperties

\* Nothing is left in the buffer for the first task.
LEMMA LeftAtStart == ASSUME NEW r PROVE LeftFor(r, 1) = {}
<1>1. \A k \in 1 .. 1 - 1 : FALSE  OBVIOUS
<1>2. {k \in 1 .. 1 - 1 : r.data[k].environ # <<>> /\ \A j \in k + 1 .. 1 - 1 : r.data[j].environ = <<>>} = {}
  BY <1>1
<1>3. UNION {Texts(r, k) : k \in {}} = {}  OBVIOUS
<1> QED  BY <1>2, <1>3 DEF LeftFor

\* The snapshot is made.
LEMMA Walks == ASSUME Snapshots, NEW f \in File, Walk(f) PROVE Snapshots'
<1>0. file[f] \in Files /\ file \in [File -> Files]  BY DEF Snapshots
<1>1. Fresh(file[f])  BY DEF Walk, Snapshots, Reading
<1>2. PICK n \in Nat : n = file[f].len  BY <1>0 DEF Files
<1>3. PICK d : d = [i \in 1 .. n |-> IF i <= Len(tasks) THEN TaskRecord(tasks[i]) ELSE Unused]
  OBVIOUS
<1>4. /\ Len(tasks) \in Nat
      /\ \A i \in 1 .. n : i <= Len(tasks) => tasks[i] \in Task /\ i \in 1 .. Len(tasks)
  BY LenProperties, ElementOfSeq DEF Snapshots
<1>5. \A i \in 1 .. n :
         /\ d[i] \in Record
         /\ d[i].pid = IF i <= Len(tasks) THEN tasks[i] ELSE 0
         /\ ~(i <= Len(tasks)) => d[i].environ = <<>>
  <2> SUFFICES ASSUME NEW i \in 1 .. n
               PROVE  /\ d[i] \in Record
                      /\ d[i].pid = IF i <= Len(tasks) THEN tasks[i] ELSE 0
                      /\ ~(i <= Len(tasks)) => d[i].environ = <<>>
    OBVIOUS
  <2>1. CASE i <= Len(tasks)
    BY <1>3, <1>4, <2>1 DEF Snapshots, TaskRecord, Record
  <2>2. CASE ~(i <= Len(tasks))
    BY <1>3, <2>2 DEF Unused, Record
  <2> QED  BY <2>1, <2>2
<1>6. d \in Seq(Record) /\ Len(d) = n
  <2>1. d \in [1 .. n -> Record]  BY <1>3, <1>5
  <2> QED  BY <2>1, IsSequence
<1>7. PICK r : r = [file[f] EXCEPT !.pc = "read", !.pids = Len(tasks), !.data = d]
  OBVIOUS
<1>8. /\ r \in Files
      /\ r.pc = "read" /\ r.len = n /\ r.data = d /\ r.offset = 0 /\ r.buf = <<>>
      /\ r.string = Blank /\ r.printed = <<>>
  BY <1>0, <1>1, <1>2, <1>4, <1>6, <1>7 DEF Files, Fresh
<1>9. Len(r.buf) = 0 /\ Through(r) = 0
  <2>1. Len(r.buf) = 0  BY <1>8
  <2>2. Through(r) = 0 - 0  BY <1>8, <2>1 DEF Through
  <2> QED  BY <2>1, <2>2
<1>10. Reading(r)
  <2>1. \A i, j \in 1 .. n : d[i].pid = d[j].pid => i = j \/ d[i].pid = 0
    <3>1. \A i \in 1 .. n : d[i].pid # 0 => i \in 1 .. Len(tasks) /\ d[i].pid = tasks[i]
      BY <1>4, <1>5
    <3>2. \A i, j \in 1 .. Len(tasks) : tasks[i] = tasks[j] => i = j  BY DEF Snapshots
    <3> QED  BY <3>1, <3>2
  <2>2. \A i \in 1 .. n : d[i].pid = 0 => d[i].environ = <<>>
    BY <1>4, <1>5, PidWatcherAssumption
  <2>3. r.string \in Left  BY <1>8 DEF Left
  <2>4. LeftFor(r, Through(r) + 1) = {}
    <3>1. LeftFor(r, 1) = {}  BY LeftAtStart
    <3>2. Through(r) + 1 = 1  BY <1>9
    <3> QED  BY <3>1, <3>2
  <2>5. Len(r.printed) = 0 /\ LinesInOrder(r)
    <3>1. Len(r.printed) = 0  BY <1>8, EmptySeq
    <3> QED  BY <3>1 DEF LinesInOrder
  <2> QED  BY <1>2, <1>6, <1>8, <1>9, <2>1, <2>2, <2>3, <2>4, <2>5 DEF Reading
<1>11. file' = [file EXCEPT ![f] = r] /\ UNCHANGED <<tasks, environ>>
  BY <1>0, <1>2, <1>3, <1>7 DEF Walk, Files
<1> QED  BY <1>8, <1>10, <1>11, OneFile

\* What is right depends on the snapshot and on what is printed.
LEMMA SameText ==
    ASSUME NEW r, NEW o, r.data = o.data, r.len = o.len, r.printed = o.printed
    PROVE  /\ \A i : TextIsRight(r, i) <=> TextIsRight(o, i)
           /\ \A i : LeftFor(r, i) = LeftFor(o, i)
           /\ LinesInOrder(r) <=> LinesInOrder(o)
<1>1. \A i : Texts(r, i) = Texts(o, i)  BY DEF Texts, Lines
<1>2. \A i : LeftFor(r, i) = LeftFor(o, i)  BY <1>1 DEF LeftFor
<1>3. \A i : TextIsRight(r, i) <=> TextIsRight(o, i)  BY <1>1, <1>2 DEF TextIsRight
<1> QED  BY <1>2, <1>3 DEF LinesInOrder

\* A line more: one text more for the tasks with its pid.
LEMMA OneLineMore ==
    ASSUME NEW r, NEW o, o.printed \in Seq(Task \X Text), NEW p, NEW text,
           r.data = o.data, r.printed = Append(o.printed, <<p, text>>), NEW i
    PROVE  Texts(r, i) = Texts(o, i) \cup (IF r.data[i].pid = p THEN {text} ELSE {})
<1>1. PICK s \in Seq(Task \X Text) : s = o.printed  OBVIOUS
<1>2. PICK t : t = r.printed  OBVIOUS
<1>3. PICK n \in Nat : n = Len(s)  BY LenProperties
<1>4. /\ DOMAIN s = 1 .. n /\ DOMAIN t = 1 .. n + 1
      /\ \A a \in 1 .. n : t[a] = s[a]
      /\ t[n + 1] = <<p, text>>
  BY <1>1, <1>2, <1>3, AppendProperties, LenProperties
<1>5. PICK q : q = r.data[i].pid  OBVIOUS
<1>6. \A a \in 1 .. n + 1 : a \in 1 .. n \/ a = n + 1  OBVIOUS
<1>7. 1 .. n \subseteq 1 .. n + 1 /\ n + 1 \in 1 .. n + 1  OBVIOUS
<1>8. Texts(r, i) = {line[2] : line \in {t[a] : a \in {b \in 1 .. n + 1 : t[b][1] = q}}}
  BY <1>2, <1>4, <1>5 DEF Texts, Lines
<1>8a. Texts(o, i) = {line[2] : line \in {s[a] : a \in {b \in 1 .. n : s[b][1] = q}}}
  <2>1. o.data[i].pid = q  BY <1>5
  <2> QED  BY <1>1, <1>4, <2>1 DEF Texts, Lines
<1>9. {t[a] : a \in {b \in 1 .. n + 1 : t[b][1] = q}}
        = {s[a] : a \in {b \in 1 .. n : s[b][1] = q}} \cup (IF q = p THEN {<<p, text>>} ELSE {})
  <2>1. <<p, text>>[1] = p  OBVIOUS
  <2>2. t[n + 1][1] = p  BY <1>4, <2>1
  <2> DEFINE A == {t[a] : a \in {b \in 1 .. n + 1 : t[b][1] = q}}
             B == {s[a] : a \in {b \in 1 .. n : s[b][1] = q}}
  <2>3. ASSUME NEW x \in A PROVE x \in B \cup (IF q = p THEN {<<p, text>>} ELSE {})
    <3>1. PICK a \in 1 .. n + 1 : t[a][1] = q /\ x = t[a]  BY <2>3
    <3>2. CASE a \in 1 .. n  BY <1>4, <3>1, <3>2
    <3>3. CASE a = n + 1  BY <1>4, <2>2, <3>1, <3>3
    <3> QED  BY <1>6, <3>2, <3>3
  <2>4. ASSUME NEW x \in B PROVE x \in A
    <3>1. PICK a \in 1 .. n : s[a][1] = q /\ x = s[a]  BY <2>4
    <3>2. a \in 1 .. n + 1 /\ t[a] = s[a]  BY <1>4, <1>7
    <3> QED  BY <3>1, <3>2
  <2>5. q = p => <<p, text>> \in A  BY <1>4, <1>7, <2>2
  <2> QED  BY <2>3, <2>4, <2>5
<1>10. <<p, text>>[2] = text  OBVIOUS
<1>11. Texts(r, i) = Texts(o, i) \cup {line[2] : line \in IF q = p THEN {<<p, text>>} ELSE {}}
  BY <1>8, <1>8a, <1>9
<1> QED  BY <1>5, <1>10, <1>11

\* What is left after the n-th task.
LEMMA LeftAfter ==
    ASSUME NEW r, NEW n \in Nat, n # 0
    PROVE  LeftFor(r, n + 1) = IF r.data[n].environ # <<>> THEN Texts(r, n) ELSE LeftFor(r, n)
<1> DEFINE
      LastIs(m) == {k \in 1 .. m - 1 :
          r.data[k].environ # <<>> /\ \A j \in k + 1 .. m - 1 : r.data[j].environ = <<>>}
<1>1. n + 1 - 1 = n /\ n \in 1 .. n /\ n - 1 \in Int  OBVIOUS
<1>2. \A k \in 1 .. n : k \in 1 .. n - 1 \/ k = n  OBVIOUS
<1>3. CASE r.data[n].environ # <<>>
  <2>1. \A k \in 1 .. n - 1 : n \in k + 1 .. n  OBVIOUS
  <2>2. \A j \in n + 1 .. n : FALSE  OBVIOUS
  <2>3. LastIs(n + 1) = {n}  BY <1>1, <1>2, <1>3, <2>1, <2>2
  <2>4. UNION {Texts(r, k) : k \in {n}} = Texts(r, n)  OBVIOUS
  <2> QED  BY <1>3, <2>3, <2>4 DEF LeftFor
<1>4. CASE r.data[n].environ = <<>>
  <2>1. \A k \in 1 .. n - 1 : k \in 1 .. n  OBVIOUS
  <2>2. \A k \in 1 .. n - 1 : \A j \in k + 1 .. n : j \in k + 1 .. n - 1 \/ j = n  OBVIOUS
  <2>3. \A k \in 1 .. n - 1 : \A j \in k + 1 .. n - 1 : j \in k + 1 .. n  OBVIOUS
  <2>4. LastIs(n + 1) = LastIs(n)  BY <1>1, <1>2, <1>4, <2>1, <2>2, <2>3
  <2> QED  BY <1>4, <2>4 DEF LeftFor
<1> QED  BY <1>3, <1>4

\* A buffer is read, and pspidwatcher has gone through it.
LEMMA Reads == ASSUME Snapshots, NEW f \in File, Read(f) \/ ReadOn(f) PROVE Snapshots'
<1>0. file[f] \in Files /\ file \in [File -> Files]  BY DEF Snapshots
<1>1. PICK o : o = file[f]  OBVIOUS
<1>2. o \in Files /\ Reading(o)  BY <1>1 DEF Read, ReadOn, Snapshots, Fresh
<1>3. CASE ReadOn(f)
  <2>1. PICK r : r = [o EXCEPT !.pc = "read"]  OBVIOUS
  <2>2. o.buf = <<>>  BY <1>1, <1>3 DEF ReadOn
  <2>3. /\ r \in Files /\ r.pc = "read" /\ r.len = o.len /\ r.data = o.data
        /\ r.offset = o.offset /\ r.buf = o.buf /\ r.string = o.string /\ r.printed = o.printed
    BY <1>2, <2>1 DEF Files
  <2>4. Through(r) = Through(o)  BY <2>3 DEF Through
  <2>5. Reading(r)
    <3>1. /\ \A i : TextIsRight(r, i) <=> TextIsRight(o, i)
          /\ \A i : LeftFor(r, i) = LeftFor(o, i)
          /\ LinesInOrder(r) <=> LinesInOrder(o)
      BY <2>3, SameText
    <3> QED  BY <1>2, <2>2, <2>3, <2>4, <3>1 DEF Reading
  <2>6. file' = [file EXCEPT ![f] = r] /\ UNCHANGED <<tasks, environ>>
    BY <1>1, <1>3, <2>1 DEF ReadOn, kernel
  <2> QED  BY <2>3, <2>5, <2>6, OneFile
<1>4. CASE Read(f)
  <2>1. PICK n : n = IF o.offset + Buf > o.len THEN o.len - o.offset ELSE Buf  OBVIOUS
  <2>2. o.pc = "read" /\ o.offset < o.len /\ o.buf = <<>>
    BY <1>1, <1>2, <1>4 DEF Read, Reading
  <2>3. o.offset \in Nat /\ o.len \in Nat /\ o.data \in Seq(Record) /\ Len(o.data) = o.len
    BY <1>2 DEF Files, Reading
  <2>4. n \in Nat /\ n # 0 /\ o.offset + n <= o.len
    BY <2>1, <2>2, <2>3, PidWatcherAssumption
  <2>5. PICK b : b = SubSeq(o.data, o.offset + 1, o.offset + n)  OBVIOUS
  <2>6. b \in Seq(Record) /\ Len(b) = n /\ \A j \in 1 .. n : b[j] = o.data[o.offset + j]
    <3>1. o.offset + 1 \in Int /\ o.offset + n \in Int
          /\ \A i \in o.offset + 1 .. o.offset + n : o.data[i] \in Record
      <4>1. \A i \in o.offset + 1 .. o.offset + n : i \in 1 .. o.len  BY <2>3, <2>4
      <4> QED  BY <2>3, <2>4, <4>1, ElementOfSeq
    <3>2. PICK x \in Int, y \in Int : x = o.offset + 1 /\ y = o.offset + n  BY <3>1
    <3>3. /\ b \in Seq(Record) /\ Len(b) = IF x <= y THEN y - x + 1 ELSE 0
          /\ \A i \in 1 .. y - x + 1 : b[i] = o.data[x + i - 1]
      <4>1. o.data \in Seq(Record) /\ b = SubSeq(o.data, x, y)  BY <2>3, <2>5, <3>2
      <4>2. \A i \in x .. y : o.data[i] \in Record  BY <3>1, <3>2
      <4>3. PICK s : s = o.data  OBVIOUS
      <4>4. \A i \in x .. y : s[i] \in Record  BY <4>2, <4>3
      <4>5. /\ SubSeq(s, x, y) \in Seq(Record)
            /\ Len(SubSeq(s, x, y)) = IF x <= y THEN y - x + 1 ELSE 0
            /\ \A i \in 1 .. y - x + 1 : SubSeq(s, x, y)[i] = s[x + i - 1]
        BY <4>4, SubSeqProperties
      <4> QED  BY <4>1, <4>3, <4>5
    <3>4. y - x + 1 = n /\ x <= y /\ \A i \in 1 .. n : x + i - 1 = o.offset + i
      <4>1. PICK e \in Nat : e = o.offset  BY <2>3
      <4>2. x = e + 1 /\ y = e + n  BY <3>2, <4>1
      <4>3. y - x + 1 = n /\ x <= y /\ \A i \in 1 .. n : x + i - 1 = e + i
        BY <2>4, <4>2
      <4> QED  BY <4>1, <4>3
    <3> QED  BY <3>3, <3>4
  <2>7. PICK r : r = [o EXCEPT !.pc = "parse", !.offset = o.offset + n, !.buf = b]  OBVIOUS
  <2>8. /\ r \in Files /\ r.pc = "parse" /\ r.len = o.len /\ r.data = o.data
        /\ r.offset = o.offset + n /\ r.buf = b /\ r.string = o.string /\ r.printed = o.printed
    <3>1. o.offset + n \in Nat  BY <2>3, <2>4
    <3> QED  BY <1>2, <2>6, <2>7, <3>1 DEF Files
  <2>9. Through(o) = o.offset /\ Through(r) = o.offset
    BY <2>2, <2>3, <2>4, <2>6, <2>8, EmptySeq DEF Through
  <2>10. Reading(r)
    <3>1. \A j \in 1 .. Len(r.buf) : r.buf[j] = r.data[Through(r) + j]
      BY <2>6, <2>8, <2>9
    <3>2. r.offset <= r.len /\ Through(r) >= 0  BY <2>3, <2>4, <2>8, <2>9
    <3>3. Through(r) = Through(o)  BY <2>9
    <3>4. /\ \A i : TextIsRight(r, i) <=> TextIsRight(o, i)
          /\ \A i : LeftFor(r, i) = LeftFor(o, i)
          /\ LinesInOrder(r) <=> LinesInOrder(o)
      BY <2>8, SameText
    <3> QED  BY <1>2, <2>8, <3>1, <3>2, <3>3, <3>4 DEF Reading
  <2>11. file' = [file EXCEPT ![f] = r] /\ UNCHANGED <<tasks, environ>>
    BY <1>1, <1>4, <2>1, <2>5, <2>7 DEF Read, Advanced, kernel
  <2> QED  BY <2>8, <2>10, <2>11, OneFile
<1> QED  BY <1>3, <1>4

\* The record after those that pspidwatcher has gone through is parsed.
LEMMA Parses == ASSUME Snapshots, NEW f \in File, Parse(f) PROVE Snapshots'
<1>0. file[f] \in Files /\ file \in [File -> Files]  BY DEF Snapshots
<1>1. PICK o : o = file[f]  OBVIOUS
<1>2. o \in Files /\ Reading(o) /\ o.pc = "parse" /\ o.buf # <<>>
  BY <1>1 DEF Parse, Snapshots, Fresh
<1>3. PICK c : c = Through(o)  OBVIOUS
<1>4. /\ o.offset \in Nat /\ o.len \in Nat /\ Len(o.buf) \in Nat /\ Len(o.buf) # 0
      /\ c = o.offset - Len(o.buf) /\ c \in Nat /\ c + 1 \in 1 .. o.len
  <2>1. o.offset \in Nat /\ o.len \in Nat /\ Len(o.buf) \in Nat /\ Len(o.buf) # 0
    BY <1>2, LenProperties, EmptySeq DEF Files
  <2>2. c = o.offset - Len(o.buf) /\ c >= 0 /\ o.offset <= o.len
    BY <1>2, <1>3 DEF Reading, Through
  <2> QED  BY <2>1, <2>2
<1>5. PICK record : record = Head(o.buf)  OBVIOUS
<1>6. /\ record = o.data[c + 1] /\ record \in Record
      /\ Tail(o.buf) \in Seq(Record) /\ Len(Tail(o.buf)) = Len(o.buf) - 1
      /\ \A j \in 1 .. Len(o.buf) - 1 : Tail(o.buf)[j] = o.data[c + 1 + j]
  <2>1. /\ o.buf \in Seq(Record) /\ Head(o.buf) = o.buf[1] /\ Head(o.buf) \in Record
        /\ Tail(o.buf) \in Seq(Record) /\ Len(Tail(o.buf)) = Len(o.buf) - 1
        /\ \A j \in 1 .. Len(Tail(o.buf)) : Tail(o.buf)[j] = o.buf[j + 1]
    <3>1. o.buf \in Seq(Record)  BY <1>2 DEF Files
    <3> QED  BY <1>2, <1>4, <3>1, HeadTailProperties, ElementOfSeq
  <2>2. \A j \in 1 .. Len(o.buf) : o.buf[j] = o.data[c + j]
    BY <1>2, <1>3 DEF Reading
  <2>3. 1 \in 1 .. Len(o.buf)  BY <1>4
  <2>4. ASSUME NEW j \in 1 .. Len(o.buf) - 1 PROVE Tail(o.buf)[j] = o.data[c + 1 + j]
    <3>1. j + 1 \in 1 .. Len(o.buf) /\ c + (j + 1) = c + 1 + j  BY <1>4
    <3> QED  BY <2>1, <2>2, <3>1
  <2> QED  BY <1>5, <2>1, <2>2, <2>3, <2>4
<1>7. PICK env : env = record.environ  OBVIOUS
<1>8. env \in Seq(String) /\ (record.pid = 0 => env = <<>>) /\ record.pid \in Task \cup {0}
  <2>1. env \in Environ \cup {<<>>} /\ record.pid \in Task \cup {0}  BY <1>6, <1>7 DEF Record
  <2> QED  BY <1>2, <1>4, <1>6, <1>7, <2>1, EnvironsAre DEF Reading
<1>9. PICK strings : strings = Strings(env, o.string)  OBVIOUS
<1>10. PICK matches : matches = Matching(strings)  OBVIOUS
<1>11. PICK found : found = strings[Min(matches)]  OBVIOUS
<1>12. o.string \in Left  BY <1>2 DEF Reading
<1>13. /\ strings = <<>> => matches = {}
       /\ matches # {} => found \in Left \ {Blank}
       /\ env # <<>> /\ env[1] = Blank /\ o.string # Blank => matches # {} /\ found = o.string
       /\ ~(env # <<>> /\ env[1] = Blank /\ o.string # Blank) =>
             /\ matches = {} <=> Variables(env) = {}
             /\ matches # {} => Named(env, o.string, found)
  <2>1. PICK left \in Left : left = o.string  BY <1>12
  <2>2. env \in Seq(String) /\ strings = Strings(env, left)  BY <1>8, <1>9, <2>1
  <2>3. /\ strings = <<>> => matches = {}
        /\ matches # {} => found \in Left \ {Blank}
        /\ env # <<>> /\ env[1] = Blank /\ left # Blank => matches # {} /\ found = left
        /\ ~(env # <<>> /\ env[1] = Blank /\ left # Blank) =>
              /\ matches = {} <=> Variables(env) = {}
              /\ matches # {} => Named(env, left, found)
    BY <1>10, <1>11, <2>2, Finds
  <2> QED  BY <2>1, <2>3
<1>14. env = <<>> => matches = {}
  <2>1. DOMAIN <<>> = {}  OBVIOUS
  <2>2. env = <<>> => DOMAIN strings = {}  BY <1>9, <2>1 DEF Strings
  <2> QED  BY <1>10, <2>2 DEF Matching
<1>15. PICK r :
          r = [o EXCEPT !.buf = Tail(o.buf),
                 !.string = IF matches # {} THEN found
                            ELSE IF strings = <<>> THEN o.string ELSE Blank,
                 !.printed = IF matches = {} THEN o.printed
                             ELSE Append(o.printed, <<record.pid, found>>)]
  OBVIOUS
<1>16. /\ r.pc = "parse" /\ r.len = o.len /\ r.data = o.data /\ r.offset = o.offset
       /\ r.buf = Tail(o.buf)
       /\ r.string = IF matches # {} THEN found
                     ELSE IF strings = <<>> THEN o.string ELSE Blank
       /\ r.printed = IF matches = {} THEN o.printed
                      ELSE Append(o.printed, <<record.pid, found>>)
       /\ r.pids = o.pids
       /\ r = [pc |-> r.pc, len |-> r.len, pids |-> r.pids, data |-> r.data,
               offset |-> r.offset, buf |-> r.buf, string |-> r.string, printed |-> r.printed]
  BY <1>2, <1>15 DEF Files
<1>17. r \in Files
  <2>1. r.string \in Text
    BY <1>2, <1>13, <1>16, LeftIs DEF Files, Text
  <2>2. matches # {} => record.pid \in Task /\ found \in Text
    BY <1>8, <1>13, <1>14, LeftIs
  <2>3. r.printed \in Seq(Task \X Text)
    <3>1. o.printed \in Seq(Task \X Text)  BY <1>2 DEF Files
    <3>2. CASE matches = {}  BY <1>16, <3>1, <3>2
    <3>3. CASE matches # {}
      <4>1. <<record.pid, found>> \in Task \X Text  BY <2>2, <3>3
      <4> QED  BY <1>16, <3>1, <3>3, <4>1, AppendProperties
    <3> QED  BY <3>2, <3>3
  <2> QED  BY <1>2, <1>6, <1>16, <2>1, <2>3 DEF Files
<1>18. Through(r) = c + 1
  <2>1. Through(r) = o.offset - (Len(o.buf) - 1)  BY <1>6, <1>16 DEF Through
  <2> QED  BY <1>4, <2>1
<1>19. matches # {} => record.pid # 0  BY <1>8, <1>14
<1>20. r.data[c + 1].environ = env /\ r.data[c + 1].pid = record.pid  BY <1>6, <1>7, <1>16
\* No other record has the pid, and no line is printed of it.
<1>21. \A i \in 1 .. c : record.pid # 0 => o.data[i].pid # record.pid
  <2>1. \A i \in 1 .. c : i \in 1 .. o.len /\ i # c + 1  BY <1>4
  <2> QED  BY <1>2, <1>4, <1>6, <2>1 DEF Reading
<1>22. /\ Len(o.printed) \in Nat /\ DOMAIN o.printed = 1 .. Len(o.printed)
       /\ \A a \in 1 .. Len(o.printed) : o.printed[a][1] \in Task
  <2>1. PICK s \in Seq(Task \X Text) : s = o.printed  BY <1>2 DEF Files
  <2>2. Len(s) \in Nat /\ DOMAIN s = 1 .. Len(s) /\ \A a \in 1 .. Len(s) : s[a] \in Task \X Text
    BY LenProperties, ElementOfSeq
  <2> QED  BY <2>1, <2>2
<1>23. Texts(o, c + 1) = {}
  <2>1. ASSUME NEW a \in 1 .. Len(o.printed), o.printed[a][1] = record.pid PROVE FALSE
    <3>1. PICK i \in 1 .. c : o.printed[a][1] = o.data[i].pid  BY <1>2, <1>3 DEF Reading
    <3>2. record.pid # 0  BY <1>22, <2>1, PidWatcherAssumption
    <3> QED  BY <1>21, <2>1, <3>1, <3>2
  <2>2. o.data[c + 1].pid = record.pid  BY <1>6
  <2> QED  BY <1>22, <2>1, <2>2 DEF Texts, Lines
<1>24. /\ \A i \in 1 .. c : Texts(r, i) = Texts(o, i)
       /\ Texts(r, c + 1) = IF matches = {} THEN {} ELSE {found}
  <2>1. CASE matches = {}
    <3>1. \A i : Texts(r, i) = Texts(o, i)  BY <1>16, <2>1 DEF Texts, Lines
    <3> QED  BY <1>23, <2>1, <3>1
  <2>2. CASE matches # {}
    <3>1. /\ o.printed \in Seq(Task \X Text) /\ r.data = o.data
          /\ r.printed = Append(o.printed, <<record.pid, found>>)
      BY <1>2, <1>16, <2>2 DEF Files
    <3>2. \A i : Texts(r, i)
                   = Texts(o, i) \cup (IF r.data[i].pid = record.pid THEN {found} ELSE {})
      <4> SUFFICES ASSUME NEW i
                   PROVE  Texts(r, i)
                            = Texts(o, i) \cup (IF r.data[i].pid = record.pid THEN {found} ELSE {})
        OBVIOUS
      <4> QED  BY <3>1, OneLineMore
    <3>3. \A i \in 1 .. c : r.data[i].pid # record.pid  BY <1>16, <1>19, <1>21, <2>2
    <3> QED  BY <1>20, <1>23, <2>2, <3>2, <3>3
  <2> QED  BY <2>1, <2>2
<1>25. \A i \in 1 .. c + 1 : LeftFor(r, i) = LeftFor(o, i)
  <2> SUFFICES ASSUME NEW i \in 1 .. c + 1 PROVE LeftFor(r, i) = LeftFor(o, i)  OBVIOUS
  <2>1. \A k \in 1 .. i - 1 : k \in 1 .. c  BY <1>4
  <2>2. \A k \in 1 .. i - 1 : Texts(r, k) = Texts(o, k)  BY <1>24, <2>1
  <2> QED  BY <1>16, <2>2 DEF LeftFor
<1>26. c + 1 \in 1 .. c + 1 /\ \A i \in 1 .. c + 1 : i \in 1 .. c \/ i = c + 1  BY <1>4
<1>27. LeftFor(r, c + 1) = IF o.string = Blank THEN {} ELSE {o.string}
  BY <1>2, <1>3, <1>25, <1>26 DEF Reading
<1>28. ASSUME NEW i \in 1 .. c PROVE TextIsRight(r, i)
  <2>1. TextIsRight(o, i)  BY <1>2, <1>3 DEF Reading
  <2>2. i \in 1 .. c + 1  BY <1>4
  <2>3. Texts(r, i) = Texts(o, i) /\ LeftFor(r, i) = LeftFor(o, i) /\ r.data = o.data
    BY <1>16, <1>24, <1>25, <2>2
  <2> QED  BY <2>1, <2>3 DEF TextIsRight
<1>29. TextIsRight(r, c + 1)
  <2>1. CASE env # <<>> /\ env[1] = Blank /\ o.string # Blank
    <3>1. Texts(r, c + 1) = {o.string} /\ LeftFor(r, c + 1) = {o.string}
      BY <1>13, <1>24, <1>27, <2>1
    <3> QED  BY <1>20, <2>1, <3>1 DEF TextIsRight
  <2>2. CASE ~(env # <<>> /\ env[1] = Blank /\ o.string # Blank)
    <3>1. ~(env # <<>> /\ env[1] = Blank /\ LeftFor(r, c + 1) # {})  BY <1>27, <2>2
    <3>2. CASE matches = {}
      <4>1. Texts(r, c + 1) = {} /\ Variables(env) = {}  BY <1>13, <1>24, <2>2, <3>2
      <4> QED  BY <1>20, <3>1, <4>1 DEF TextIsRight
    <3>3. CASE matches # {}
      <4>1. /\ Texts(r, c + 1) = {found} /\ Variables(env) # {}
            /\ Named(env, o.string, found)
        BY <1>13, <1>24, <2>2, <3>3
      <4>2. \/ Texts(r, c + 1) = {Variable(NameIn(env))}
            \/ /\ env[1] = Variable(NameIn(env))
               /\ \E text \in LeftFor(r, c + 1) :
                    /\ text[Len(text)] > NameIn(env)
                    /\ Texts(r, c + 1) = {<<"mixed", NameIn(env), text[Len(text)]>>}
        <5>1. CASE found = Variable(NameIn(env))  BY <4>1, <5>1
        <5>2. CASE found # Variable(NameIn(env))
          <6>1. o.string \in LeftFor(r, c + 1)  BY <1>27, <4>1, <5>2 DEF Named
          <6> QED  BY <4>1, <5>2, <6>1 DEF Named
        <5> QED  BY <5>1, <5>2
      <4> QED  BY <1>20, <3>1, <4>1, <4>2 DEF TextIsRight
    <3> QED  BY <3>2, <3>3
  <2> QED  BY <2>1, <2>2
<1>30. LeftFor(r, c + 2) = IF r.string = Blank THEN {} ELSE {r.string}
  <2>1. PICK n \in Nat : n = c + 1 /\ n # 0  BY <1>4
  <2>2. LeftFor(r, n + 1) = IF r.data[n].environ # <<>> THEN Texts(r, n) ELSE LeftFor(r, n)
    BY <2>1, LeftAfter
  <2>3. c + 2 = n + 1  BY <1>4, <2>1
  <2>4. LeftFor(r, c + 2) = IF env # <<>> THEN Texts(r, c + 1) ELSE LeftFor(r, c + 1)
    BY <1>20, <2>1, <2>2, <2>3
  <2>5. CASE matches # {}
    <3>1. env # <<>> /\ found # Blank /\ r.string = found  BY <1>13, <1>14, <1>16, <2>5
    <3> QED  BY <1>24, <2>4, <2>5, <3>1
  <2>6. CASE matches = {} /\ strings = <<>>
    <3>1. env = <<>>
      <4>1. PICK s \in Seq(String) : s = env  BY <1>8
      <4>2. DOMAIN strings = DOMAIN s /\ DOMAIN strings = {}  BY <1>9, <2>6, <4>1 DEF Strings
      <4>3. Len(s) \in Nat /\ DOMAIN s = 1 .. Len(s)  BY LenProperties
      <4>4. Len(s) = 0
        <5>1. PICK m \in Nat : m = Len(s)  BY <4>3
        <5>2. m # 0 => 1 \in 1 .. m  OBVIOUS
        <5> QED  BY <4>2, <4>3, <5>1, <5>2
      <4> QED  BY <4>1, <4>4, EmptySeq
    <3>2. r.string = o.string  BY <1>16, <2>6
    <3> QED  BY <1>27, <2>4, <3>1, <3>2
  <2>7. CASE matches = {} /\ strings # <<>>
    <3>1. env # <<>>
      <4>1. env = <<>> => strings = <<>>  BY <1>9 DEF Strings
      <4> QED  BY <2>7, <4>1
    <3>2. r.string = Blank  BY <1>16, <2>7
    <3> QED  BY <1>24, <2>4, <2>7, <3>1, <3>2
  <2> QED  BY <2>5, <2>6, <2>7
<1>31. /\ \A a \in 1 .. Len(r.printed) : \E i \in 1 .. c + 1 : r.printed[a][1] = r.data[i].pid
       /\ LinesInOrder(r)
  <2>1. PICK n \in Nat : n = Len(o.printed)  BY <1>22
  <2>2. /\ \A a \in 1 .. n : \E i \in 1 .. c : o.printed[a][1] = o.data[i].pid
        /\ LinesInOrder(o)
    BY <1>2, <1>3, <2>1 DEF Reading
  <2>3. CASE matches = {}
    <3>1. LinesInOrder(r)  BY <1>16, <2>2, <2>3 DEF LinesInOrder
    <3>2. 1 .. c \subseteq 1 .. c + 1  BY <1>4
    <3> QED  BY <1>16, <2>1, <2>2, <2>3, <3>1, <3>2
  <2>4. CASE matches # {}
    <3>1. /\ Len(r.printed) = n + 1
          /\ \A a \in 1 .. n : r.printed[a] = o.printed[a]
          /\ r.printed[n + 1][1] = r.data[c + 1].pid
      <4>1. PICK s \in Seq(Task \X Text) : s = o.printed  BY <1>2 DEF Files
      <4>2. r.printed = Append(s, <<record.pid, found>>) /\ n = Len(s)
        BY <1>16, <2>1, <2>4, <4>1
      <4>3. /\ Len(Append(s, <<record.pid, found>>)) = Len(s) + 1
            /\ \A a \in 1 .. Len(s) : Append(s, <<record.pid, found>>)[a] = s[a]
            /\ Append(s, <<record.pid, found>>)[Len(s) + 1] = <<record.pid, found>>
        BY AppendProperties, LenProperties
      <4>4. <<record.pid, found>>[1] = record.pid  OBVIOUS
      <4> QED  BY <1>20, <4>1, <4>2, <4>3, <4>4
    <3>2. \A a \in 1 .. n + 1 : a \in 1 .. n \/ a = n + 1  OBVIOUS
    <3>3. \A i \in 1 .. c : i \in 1 .. c + 1 /\ i < c + 1 /\ i \in 1 .. r.len
      BY <1>4, <1>16
    <3>4. \A a \in 1 .. Len(r.printed) : \E i \in 1 .. c + 1 : r.printed[a][1] = r.data[i].pid
      BY <1>16, <1>26, <2>2, <3>1, <3>2, <3>3
    <3>5. ASSUME NEW a \in 1 .. n + 1, NEW b \in 1 .. n + 1, a < b
          PROVE  \E i, j \in 1 .. r.len :
                    i < j /\ r.printed[a][1] = r.data[i].pid /\ r.printed[b][1] = r.data[j].pid
      <4>1. a \in 1 .. n  BY <3>5
      <4>2. CASE b \in 1 .. n
        <5>1. \E i, j \in 1 .. o.len :
                 i < j /\ o.printed[a][1] = o.data[i].pid /\ o.printed[b][1] = o.data[j].pid
          BY <2>1, <2>2, <3>5, <4>1, <4>2 DEF LinesInOrder
        <5> QED  BY <1>16, <3>1, <4>1, <4>2, <5>1
      <4>3. CASE b = n + 1
        <5>1. PICK i \in 1 .. c : o.printed[a][1] = o.data[i].pid  BY <2>2, <4>1
        <5>2. i \in 1 .. r.len /\ c + 1 \in 1 .. r.len /\ i < c + 1  BY <1>4, <1>16, <3>3
        <5> QED  BY <1>16, <3>1, <4>1, <4>3, <5>1, <5>2
      <4> QED  BY <3>2, <4>2, <4>3
    <3>6. LinesInOrder(r)
      <4> SUFFICES ASSUME NEW a \in 1 .. Len(r.printed), NEW b \in 1 .. Len(r.printed), a < b
                   PROVE  \E i, j \in 1 .. r.len :
                             /\ i < j
                             /\ r.printed[a][1] = r.data[i].pid
                             /\ r.printed[b][1] = r.data[j].pid
        BY DEF LinesInOrder
      <4>1. a \in 1 .. n + 1 /\ b \in 1 .. n + 1  BY <3>1
      <4> QED  BY <4>1, <3>5, Zenon
    <3> QED  BY <3>4, <3>6
  <2> QED  BY <2>3, <2>4
<1>32. Reading(r)
  <2>1. \A j \in 1 .. Len(r.buf) : r.buf[j] = r.data[Through(r) + j]
    BY <1>6, <1>16, <1>18
  <2>2. \A i \in 1 .. Through(r) : TextIsRight(r, i)  BY <1>18, <1>26, <1>28, <1>29
  <2>3. Through(r) >= 0  BY <1>4, <1>18
  <2>4. LeftFor(r, Through(r) + 1) = IF r.string = Blank THEN {} ELSE {r.string}
    <3>1. Through(r) + 1 = c + 2  BY <1>4, <1>18
    <3> QED  BY <1>30, <3>1
  <2>5. r.string \in Left  BY <1>12, <1>13, <1>16 DEF Left
  <2>6. \A a \in 1 .. Len(r.printed) :
           \E i \in 1 .. Through(r) : r.printed[a][1] = r.data[i].pid
    BY <1>18, <1>31
  <2>7. /\ r.pc \in {"read", "parse"} /\ Len(r.data) = r.len /\ r.offset <= r.len
        /\ r.pc = "read" => r.buf = <<>>
        /\ \A i, j \in 1 .. r.len : r.data[i].pid = r.data[j].pid => i = j \/ r.data[i].pid = 0
        /\ \A i \in 1 .. r.len : r.data[i].pid = 0 => r.data[i].environ = <<>>
    BY <1>2, <1>16 DEF Reading
  <2>8. LinesInOrder(r)  BY <1>31
  <2> QED  BY <2>1, <2>2, <2>3, <2>4, <2>5, <2>6, <2>7, <2>8, Zenon DEF Reading
<1>33. file' = [file EXCEPT ![f] = r] /\ UNCHANGED <<tasks, environ>>
  <2>1. UNCHANGED <<tasks, environ>>  BY DEF Parse, kernel
  <2>2. file' = [file EXCEPT ![f].buf = Tail(@),
           ![f].string = IF matches # {} THEN found
                         ELSE IF strings = <<>> THEN @ ELSE Blank,
           ![f].printed = IF matches = {} THEN @ ELSE Append(@, <<record.pid, found>>)]
    BY <1>1, <1>5, <1>7, <1>9, <1>10, <1>11 DEF Parse, Matching
  <2> QED  BY <1>0, <1>1, <1>15, <2>1, <2>2 DEF Files
<1> QED  BY <1>17, <1>32, <1>33, OneFile

LEMMA StepSnapshots == Snapshots /\ [Next]_vars => Snapshots'
<1> SUFFICES ASSUME Snapshots, [Next]_vars PROVE Snapshots'  OBVIOUS
<1>1. CASE UNCHANGED vars  BY <1>1 DEF vars, Snapshots
<1>2. CASE Load \/ Unload  BY <1>2 DEF Load, Unload, Snapshots
<1> QED
  BY <1>1, <1>2, TasksChange, OpensAndCloses, Walks, Reads, Parses DEF Next

\* pspidwatcher prints no task twice and keeps the order of the snapshot, and
\* when it has read everything it has printed just the tasks that have the
\* variable, with their names, up to what the buffer adds from a line before.
THEOREM PrintsSupervised == Spec => []PrintedAreSupervised
<1>1. Snapshots => PrintedAreSupervised
  <2> SUFFICES ASSUME Snapshots, NEW f \in File
               PROVE  /\ LinesInOrder(file[f])
                      /\ Done(f) => \A i \in 1 .. file[f].len : TextIsRight(file[f], i)
    BY DEF PrintedAreSupervised
  <2>1. PICK o : o = file[f]  OBVIOUS
  <2>2. Reading(o) \/ Fresh(o)  BY <2>1 DEF Snapshots
  <2>3. LinesInOrder(o)
    <3>1. CASE Reading(o)  BY <3>1 DEF Reading
    <3>2. CASE Fresh(o)
      <4>1. Len(o.printed) = 0  BY <3>2, EmptySeq DEF Fresh
      <4> QED  BY <4>1 DEF LinesInOrder
    <3> QED  BY <2>2, <3>1, <3>2
  <2>4. ASSUME Done(f) PROVE \A i \in 1 .. o.len : TextIsRight(o, i)
    <3>1. o.pc = "read" /\ o.offset = o.len /\ o.len \in Nat
      BY <2>1, <2>4 DEF Done, Snapshots, Files
    <3>2. Reading(o) /\ o.buf = <<>>  BY <2>2, <3>1 DEF Reading, Fresh
    <3>3. Len(o.buf) = 0  BY <3>2
    <3>4. Through(o) = o.len  BY <3>1, <3>3 DEF Through
    <3> QED  BY <3>2, <3>4 DEF Reading
  <2> QED  BY <2>1, <2>3, <2>4
<1> QED  BY <1>1, InitSnapshots, StepSnapshots, PTL DEF Spec

\* The types: the counters of the module do not become negative either.
THEOREM Typing == Spec => []TypeOK
<1>1. Snapshots /\ Counted /\ Accounted => TypeOK
  <2> SUFFICES ASSUME Snapshots, Counted, Accounted PROVE TypeOK  OBVIOUS
  <2>1. useCount \in Nat  BY SetsAreFinite DEF Counted
  <2>2. blocks \in Nat /\ deviceIsOpen \in Nat
    <3>1. /\ blocks \in Int /\ deviceIsOpen \in Int
          /\ blocks - (2 * Cardinality(Held) + Cardinality(Half))
                \in 0 .. deviceIsOpen - Cardinality(In)
      BY Loss DEF Accounted, LossIsCounted
    <3> QED  BY <3>1, SetsAreFinite
  <2>3. ASSUME NEW f \in File
        PROVE  /\ file[f].pc \in {"closed", "store", "data", "read", "parse"}
               /\ file[f].len \in Nat /\ file[f].pids \in Nat
               /\ file[f].data \in Seq(Record) /\ file[f].buf \in Seq(Record)
               /\ file[f].offset \in 0 .. file[f].len
               /\ file[f].string \in Text
               /\ file[f].printed \in Seq(Task \X Text)
    <3>1. file[f] \in Files  BY DEF Snapshots
    <3>2. file[f].offset <= file[f].len
      <4>1. CASE Reading(file[f])  BY <4>1 DEF Reading
      <4>2. CASE Fresh(file[f])  BY <3>1, <4>2 DEF Fresh, Files
      <4> QED  BY <4>1, <4>2 DEF Snapshots
    <3> QED  BY <3>1, <3>2 DEF Files
  <2> QED  BY <2>1, <2>2, <2>3 DEF TypeOK, Snapshots, Counted
<1> QED
  BY <1>1, InitSnapshots, StepSnapshots, InitCounted, StepCounted, InitAccounted,
     StepAccounted, PTL DEF Spec
=============================================================================
