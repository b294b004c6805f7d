------------------------------- MODULE Sorts -------------------------------
(***************************************************************************)
(* The sorts of algolib (issort.c, mgsort.c, qksort.c, ctsort.c and        *)
(* rxsort.c) on an array, one call at a time, as sortari-general.c makes   *)
(* them.                                                                   *)
(*                                                                         *)
(* An element is named by the position it had when the sort was called, so *)
(* that elements with one key are told apart.  The recursion of mgsort and *)
(* of qksort is the stack of the calls that are still to be made.          *)
(***************************************************************************)
EXTENDS Integers, Sequences, FiniteSets

CONSTANTS
    N,           \* the length of the array
    Base, Digits \* of the keys: k and p of rxsort

ASSUME SortsAssumption == N \in Nat \ {0} /\ Base \in Nat \ {0, 1} /\ Digits \in Nat

Place == 0 .. N - 1
Power[n \in 0 .. Digits] == IF n = 0 THEN 1 ELSE Base * Power[n - 1]
Key == 0 .. Power[Digits] - 1

VARIABLES
    sort,   \* the function that was called, or "none"
    retval, \* "" as long as it runs, then "ok" or "failed"
    key,    \* of the elements
    data,   \* the element at each place
    step,   \* issort: j, rxsort: n, ctsort: 1 when it is done
    todo,   \* mgsort and qksort: the innermost call or merge and those after it
    scan    \* qksort: i, k and pval of the partition that is under way

sorting == <<sort, retval, key, data, step, todo, scan>>

Part(op, i, k) == [op |-> op, i |-> i, k |-> k]
\* A call for fewer than two elements returns at once and is left out.
CallFor(i, k) == IF i < k THEN <<Part("sort", i, k)>> ELSE <<>>
NoScan == [pval |-> -1, i |-> 0, k |-> 0]
KeyAt(p) == key[data[p]]

SortInit ==
    /\ sort = "none" /\ retval = "ok"
    /\ key = [e \in Place |-> 0] /\ data = [p \in Place |-> p]
    /\ step = 0 /\ todo = <<>> /\ scan = NoScan

Begin(function) ==
    /\ sort = "none"
    /\ sort' = function /\ retval' = ""
    /\ key' \in [Place -> Key] /\ data' = [p \in Place |-> p]
    /\ step' = IF function = "issort" THEN 1 ELSE 0
    /\ todo' = IF function \in {"mgsort", "qksort"} THEN CallFor(0, N - 1) ELSE <<>>
    /\ scan' = NoScan

Runs(function) == sort = function /\ retval = ""

\* The program has read the array, or the error.
Read ==
    /\ retval # "" /\ sort # "none"
    /\ sort' = "none" /\ retval' = "ok"
    /\ key' = [e \in Place |-> 0] /\ data' = [p \in Place |-> p]
    /\ step' = 0 /\ todo' = <<>> /\ scan' = NoScan

\* malloc returns NULL, at the beginning or, in a merge or a partition, later.
MallocFails ==
    /\ retval = ""
    /\ \/ sort = "issort" /\ step = 1
       \/ sort \in {"ctsort", "rxsort"} /\ step = 0
       \/ sort = "mgsort" /\ todo # <<>> /\ todo[1].op = "merge"
       \/ sort = "qksort" /\ todo # <<>> /\ scan = NoScan
    /\ retval' = "failed" /\ todo' = <<>>
    /\ UNCHANGED <<sort, key, data, step, scan>>

\* The loop, or the outermost call, has come to its end.
SortReturns ==
    /\ retval = "" /\ todo = <<>>
    /\ step = CASE sort = "issort" -> N [] sort = "rxsort" -> Digits
                [] sort = "ctsort" -> 1 [] OTHER -> 0
    /\ retval' = "ok"
    /\ UNCHANGED <<sort, key, data, step, todo, scan>>

-----------------------------------------------------------------------------
(* issort.                                                                 *)

BehindLess(j, e) ==  \* mutant: moves past its equals, >= for >
    LET kept == {p \in 0 .. j - 1 : key[e] > KeyAt(p)}
    IN  IF kept = {} THEN 0 ELSE 1 + CHOOSE p \in kept : \A q \in kept : q <= p

\* Where the inner loop stops for the element e: behind the last one of the
\* first j that is not greater.
Behind(j, e) ==
    LET kept == {p \in 0 .. j - 1 : key[e] >= KeyAt(p)}
    IN  IF kept = {} THEN 0 ELSE 1 + CHOOSE p \in kept : \A q \in kept : q <= p

InsertNext ==
    LET e == data[step]
        to == Behind(step, e)
    IN  /\ Runs("issort") /\ step < N
        /\ data' = [p \in Place |-> IF p = to THEN e
                                    ELSE IF p \in to + 1 .. step THEN data[p - 1] ELSE data[p]]
        /\ step' = step + 1
        /\ UNCHANGED <<sort, retval, key, todo, scan>>

-----------------------------------------------------------------------------
(* ctsort and rxsort.                                                      *)

InFrontOf(rank, p) == {q \in Place : rank[data[q]] < rank[data[p]]}
Equals(rank, p) == {q \in Place : rank[data[q]] = rank[data[p]]}

FromTheLeft(rank, p) ==  \* mutant: the elements are taken from the left
    Cardinality(InFrontOf(rank, p)) + Cardinality({q \in Equals(rank, p) : q > p})
\* Where the element at p goes: the counts say how many are not greater, and
\* the elements are taken from the right.
Destination(rank, p) ==
    Cardinality(InFrontOf(rank, p)) + Cardinality({q \in Equals(rank, p) : q < p})

Counted(rank) == [x \in Place |-> data[CHOOSE p \in Place : Destination(rank, p) = x]]

\* ctsort with a k that is greater than every key.
CountKeys ==
    /\ Runs("ctsort") /\ step = 0
    /\ data' = Counted(key)
    /\ step' = 1
    /\ UNCHANGED <<sort, retval, key, todo, scan>>

\* The pass of rxsort for the digit n.
CountDigit ==
    /\ Runs("rxsort") /\ step < Digits
    /\ data' = Counted([e \in Place |-> (key[e] \div Power[step]) % Base])
    /\ step' = step + 1
    /\ UNCHANGED <<sort, retval, key, todo, scan>>

-----------------------------------------------------------------------------
(* mgsort.                                                                 *)

Middle(i, k) == (i + k - 1) \div 2

\* merge(data, i, j, k): of the two elements in front it takes the right one
\* unless the left one is less.  n have been taken, ipos - i of them on the left.
Jpos(i, j, n, ipos) == j + 1 + n - (ipos - i)
TakesLeft(i, j, k, n, ipos) ==
    LET jpos == Jpos(i, j, n, ipos)
    IN  ipos <= j /\ (jpos > k \/ KeyAt(ipos) < KeyAt(jpos))

Ipos(i, j, k) ==
    LET ipos[n \in 0 .. k - i + 1] ==
            IF n = 0 THEN i
            ELSE ipos[n - 1] + IF TakesLeft(i, j, k, n - 1, ipos[n - 1]) THEN 1 ELSE 0
    IN  ipos

Merged(i, j, k) ==
    LET ipos    == Ipos(i, j, k)
        from(n) == IF TakesLeft(i, j, k, n, ipos[n]) THEN ipos[n] ELSE Jpos(i, j, n, ipos[n])
    IN  [p \in Place |-> IF p \in i .. k THEN data[from(p - i)] ELSE data[p]]

Halve ==
    /\ Runs("mgsort") /\ todo # <<>>
    /\ LET call == todo[1]
           j    == Middle(call.i, call.k)
       IN  /\ call.op = "sort"
           /\ todo' = CallFor(call.i, j) \o CallFor(j + 1, call.k)
                         \o <<Part("merge", call.i, call.k)>> \o Tail(todo)
    /\ UNCHANGED <<sort, retval, key, data, step, scan>>

Merge ==
    /\ Runs("mgsort") /\ todo # <<>> /\ todo[1].op = "merge"
    /\ data' = Merged(todo[1].i, Middle(todo[1].i, todo[1].k), todo[1].k)
    /\ todo' = Tail(todo)
    /\ UNCHANGED <<sort, retval, key, step, scan>>

-----------------------------------------------------------------------------
(* qksort.                                                                 *)

\* partition(data, i, k) draws three places and takes the middle one of them,
\* which may be any place from i to k, for its pivot.
Pivot ==
    /\ Runs("qksort") /\ todo # <<>> /\ scan = NoScan
    /\ \E r \in todo[1].i .. todo[1].k :
          scan' = [pval |-> KeyAt(r), i |-> todo[1].i - 1, k |-> todo[1].k + 1]
    /\ UNCHANGED <<sort, retval, key, data, step, todo>>

\* Where the two inner loops may stop.  Neither looks at the bounds.
StopsDown == {p \in Place : p < scan.k /\ KeyAt(p) <= scan.pval}
StopsUpLater == {p \in Place : p > scan.i /\ KeyAt(p) > scan.pval}  \* mutant: <= for <
StopsUp == {p \in Place : p > scan.i /\ KeyAt(p) >= scan.pval}
Rightmost(S) == CHOOSE p \in S : \A q \in S : q <= p
Leftmost(S) == CHOOSE p \in S : \A q \in S : p <= q

\* One turn of the loop that ends with a swap, ...
Swap ==
    LET k == Rightmost(StopsDown)
        i == Leftmost(StopsUp)
    IN  /\ Runs("qksort") /\ scan # NoScan /\ StopsDown # {} /\ StopsUp # {}
        /\ i < k
        /\ data' = [data EXCEPT ![i] = data[k], ![k] = data[i]]
        /\ scan' = [scan EXCEPT !.i = i, !.k = k]
        /\ UNCHANGED <<sort, retval, key, step, todo>>

\* ... and the one that breaks, and the two calls for the parts.
SplitAtUp(i, k) == i  \* mutant: partition returns i
SplitAt(i, k) == k
Split ==
    LET k == Rightmost(StopsDown)
        i == Leftmost(StopsUp)
        j == SplitAt(i, k)
    IN  /\ Runs("qksort") /\ scan # NoScan /\ StopsDown # {} /\ StopsUp # {}
        /\ i >= k
        /\ todo' = CallFor(todo[1].i, j) \o CallFor(j + 1, todo[1].k) \o Tail(todo)
        /\ scan' = NoScan
        /\ UNCHANGED <<sort, retval, key, data, step>>

SortNext ==
    \/ \E function \in {"issort", "mgsort", "qksort", "ctsort", "rxsort"} : Begin(function)
    \/ InsertNext \/ CountKeys \/ CountDigit
    \/ Halve \/ Merge \/ Pivot \/ Swap \/ Split
    \/ MallocFails \/ SortReturns \/ Read

SortSpec == SortInit /\ [][SortNext]_sorting

-----------------------------------------------------------------------------
(* Properties.                                                             *)

SortTypeOK ==
    /\ sort \in {"none", "issort", "mgsort", "qksort", "ctsort", "rxsort"}
    /\ retval \in {"", "ok", "failed"}
    /\ key \in [Place -> Key] /\ data \in [Place -> Place] /\ step \in Nat
    /\ todo \in Seq([op : {"sort", "merge"}, i : Place, k : Place])
    /\ scan \in [pval : Key \cup {-1}, i : -1 .. N, k : 0 .. N]

\* Elements that the sort that runs has still to compare, or to move.
Pending(p, q) ==
    \/ sort = "issort" /\ q >= step
    \/ sort = "ctsort" /\ step = 0
    \/ \E n \in DOMAIN todo : p >= todo[n].i /\ q <= todo[n].k

\* What rxsort has looked at is the last digits only.
Rank(e) == IF sort = "rxsort" THEN key[e] % Power[step] ELSE key[e]

\* No sort loses or doubles an element, not even one that fails; and while it
\* runs, elements stand in the wrong order only where it has still to go, so
\* that it is right when it returns: qksort never leaves a greater element in
\* the first of the parts (qksort.c:90-100), mgsort merges halves that are
\* sorted, and a pass of rxsort keeps the order of the passes before it.
SortedSoFar ==
    /\ SortTypeOK
    /\ \A p, q \in Place : data[p] = data[q] => p = q
    /\ retval # "failed" =>
          \A p, q \in Place : p < q /\ Rank(data[p]) > Rank(data[q]) => Pending(p, q)
    /\ retval # "failed" /\ sort \in {"issort", "ctsort", "rxsort"} =>
          \A p, q \in Place : p < q /\ Rank(data[p]) = Rank(data[q]) => data[p] < data[q]

\* The inner loops of partition have no bound (qksort.c:49-61): they stop
\* inside the part because an element that stops them is there, at first the
\* pivot and later what the last swap has put there.
ScansStayInside ==
    sort = "qksort" /\ scan # NoScan =>
        /\ \E p \in StopsDown : p >= todo[1].i
        /\ \E p \in StopsUp : p <= todo[1].k

\* Both parts that partition makes are shorter than the part it was given, or
\* else the pivot drawn was the last and the only greatest element: then qksort
\* calls itself for the same part (qksort.c:93) and draws again.
PartsShrink ==
    [][scan # NoScan /\ scan' = NoScan /\ retval' = "" =>
        LET part  == todo[1]
            calls == SubSeq(todo', 1, Len(todo') - Len(todo) + 1)
        IN  \A n \in DOMAIN calls :
                /\ calls[n].i >= part.i /\ calls[n].k <= part.k
                /\ calls[n] = part =>
                      /\ KeyAt(part.k) = scan.pval
                      /\ \A p \in part.i .. part.k - 1 : KeyAt(p) < scan.pval]_sorting
=============================================================================
