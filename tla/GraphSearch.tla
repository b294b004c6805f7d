---------------------------- MODULE GraphSearch ----------------------------
(***************************************************************************)
(* A program that builds a graph with algolib and searches it, breadth     *)
(* first (bfs.c) and depth first (dfs.c), as graf-parcurgere.c does.       *)
(*                                                                         *)
(* The searches keep their state in the vertices; it is of no use once the *)
(* program has read the result.                                            *)
(***************************************************************************)
EXTENDS Graph, Integers

VARIABLES
    phase,     \* "idle", or the search that is under way or has returned
    color, hops,  \* of each vertex
    member,    \* of the adjacency list that is being traversed, or NULL
    queue,     \* bfs: the vertices whose adjacency lists are to be traversed
    stack,     \* dfs: the callers of the innermost dfs_main, and itself
    element,   \* dfs: of the loop over all the adjacency lists
    result     \* the list that is returned

searching == <<phase, color, hops, member, queue, stack, element, result>>
vars == <<graph, searching>>

Frame == [vertex : Vertex, member : Pointer]

SearchTypeOK ==
    /\ TypeOK
    /\ phase \in {"idle", "bfs", "dfs", "bfs returned", "dfs returned"}
    /\ color \in [Vertex -> {"white", "gray", "black"}]
    /\ hops \in [Vertex -> Int]
    /\ member \in Pointer /\ element \in Pointer
    /\ queue \in List /\ result \in List
    /\ stack \in Seq(Frame)

SearchInit ==
    /\ Init
    /\ phase = "idle"
    /\ color = [v \in Vertex |-> "white"] /\ hops = [v \in Vertex |-> -1]
    /\ member = NULL /\ element = NULL
    /\ queue = EmptyList /\ result = EmptyList /\ stack = <<>>

\* The program has read the result, or the error, and destroyed the list.
Forget ==
    /\ phase' = "idle"
    /\ color' = [v \in Vertex |-> "white"] /\ hops' = [v \in Vertex |-> -1]
    /\ member' = NULL /\ element' = NULL
    /\ queue' = EmptyList /\ result' = EmptyList /\ stack' = <<>>

-----------------------------------------------------------------------------
(* bfs.                                                                    *)

\* Every vertex is white and -1 hops away, but for start.
BfsStart(start) ==
    /\ phase = "idle" /\ IsVertex(start)
    /\ phase' = "bfs"
    /\ color' = [v \in Vertex |-> IF v = start THEN "gray" ELSE "white"]
    /\ hops' = [v \in Vertex |-> IF v = start THEN 0 ELSE -1]
    /\ queue' = Enqueue(EmptyList, start)
    /\ member' = adjacent[start].head
    /\ UNCHANGED <<graph, stack, element, result>>

NotFinished(v) == color[v] # "black"  \* mutant: a gray vertex is discovered again
Undiscovered(v) == color[v] = "white"

\* One turn of the loop over the adjacency list of the first in the queue.
BfsVisit ==
    LET first == Peek(queue) IN
    /\ phase = "bfs" /\ member # NULL /\ IsVertex(member)
    /\ \/ /\ Undiscovered(member)
          /\ color' = [color EXCEPT ![member] = "gray"]
          /\ hops' = [hops EXCEPT ![member] = hops[first] + 1]
          /\ queue' = Enqueue(queue, member)
       \/ ~Undiscovered(member) /\ UNCHANGED <<color, hops, queue>>
    /\ member' = adjacent[first].next[member]
    /\ UNCHANGED <<graph, phase, stack, element, result>>

\* The member is not a vertex, or there is no memory to enqueue it or for the
\* list that is returned.
BfsFails ==
    /\ phase = "bfs"
    /\ \/ member # NULL /\ (IsVertex(member) => Undiscovered(member))
       \/ queue.size = 0
    /\ Forget
    /\ UNCHANGED graph

BfsDequeue ==
    LET rest == Dequeue(queue) IN
    /\ phase = "bfs" /\ member = NULL /\ queue.size > 0
    /\ color' = [color EXCEPT ![Peek(queue)] = "black"]
    /\ queue' = rest
    /\ member' = IF rest.head = NULL THEN NULL ELSE adjacent[rest.head].head
    /\ UNCHANGED <<graph, phase, hops, stack, element, result>>

\* The list of the vertices that were reached, in the order of the graph.
BfsReturn ==
    /\ phase = "bfs" /\ queue.size = 0
    /\ phase' = "bfs returned"
    /\ result' = Gathered(EmptyList, adjlists, {v \in Vertex : hops[v] # -1})
    /\ UNCHANGED <<graph, color, hops, member, queue, stack, element>>

-----------------------------------------------------------------------------
(* dfs and the recursive dfs_main.                                         *)

DfsStart ==
    /\ phase = "idle"
    /\ phase' = "dfs"
    /\ color' = [v \in Vertex |-> "white"]
    /\ element' = adjlists.head
    /\ UNCHANGED <<graph, hops, member, queue, stack, result>>

Call(v) == Append(stack, [vertex |-> v, member |-> adjacent[v].head])
Innermost == stack[Len(stack)]
\* The caller's loop goes on with the next member.
Advanced == [stack EXCEPT ![Len(stack)].member = adjacent[Innermost.vertex].next[@]]

\* One turn of the loop over all the adjacency lists.
DfsElement ==
    /\ phase = "dfs" /\ stack = <<>> /\ element # NULL
    /\ \/ /\ Undiscovered(element)
          /\ color' = [color EXCEPT ![element] = "gray"]
          /\ stack' = Call(element)
       \/ ~Undiscovered(element) /\ UNCHANGED <<color, stack>>
    /\ element' = adjlists.next[element]
    /\ UNCHANGED <<graph, phase, hops, member, queue, result>>

\* One turn of the loop of dfs_main.
DfsVisit ==
    /\ phase = "dfs" /\ stack # <<>>
    /\ LET v == Innermost.member IN
          /\ v # NULL /\ IsVertex(v)
          /\ \/ /\ Undiscovered(v)
                /\ color' = [color EXCEPT ![v] = "gray"]
                /\ stack' = Append(Advanced, Call(v)[Len(stack) + 1])
             \/ ~Undiscovered(v) /\ stack' = Advanced /\ UNCHANGED color
    /\ UNCHANGED <<graph, phase, hops, member, queue, element, result>>

AtTheTail(v) == InsNext(result, result.tail, v)  \* mutant: in the order they are left
InFront(v) == InsNext(result, NULL, v)

\* dfs_main comes to its end.
DfsLeave ==
    /\ phase = "dfs" /\ stack # <<>> /\ Innermost.member = NULL
    /\ color' = [color EXCEPT ![Innermost.vertex] = "black"]
    /\ result' = InFront(Innermost.vertex)
    /\ stack' = Front(stack)
    /\ UNCHANGED <<graph, phase, hops, member, queue, element>>

\* The member is not a vertex, or there is no memory to put one on the list.
DfsFails ==
    /\ phase = "dfs" /\ stack # <<>>
    /\ LET v == Innermost.member IN v = NULL \/ ~IsVertex(v)
    /\ Forget
    /\ UNCHANGED graph

DfsReturn ==
    /\ phase = "dfs" /\ stack = <<>> /\ element = NULL
    /\ phase' = "dfs returned"
    /\ UNCHANGED <<graph, color, hops, member, queue, stack, element, result>>

-----------------------------------------------------------------------------

Return == phase \in {"bfs returned", "dfs returned"} /\ Forget /\ UNCHANGED graph

SearchNext ==
    \/ phase = "idle" /\ Next /\ UNCHANGED searching
    \/ \E v \in Vertex : BfsStart(v)
    \/ BfsVisit \/ BfsFails \/ BfsDequeue \/ BfsReturn
    \/ DfsStart \/ DfsElement \/ DfsVisit \/ DfsLeave \/ DfsFails \/ DfsReturn
    \/ Return

SearchSpec == SearchInit /\ [][SearchNext]_vars

-----------------------------------------------------------------------------
(* Properties.                                                             *)

\* The list holds the members, each once.
Holds(list, members) == Represents(list, Chain(list)) /\ Members(list) = members

\* What set.c makes of two sets, whatever the order of their lists is, is the
\* union, the intersection or the difference in a list that is intact, and its
\* comparisons are right although they look at the sizes first.
SetsCombine ==
    phase = "idle" =>
        \A v, w \in Vertex :
            LET a == adjacent[v]
                b == adjacent[w]
            IN  /\ Holds(SetUnion(a, b), Members(a) \cup Members(b))
                /\ Holds(SetIntersection(a, b), Members(a) \cap Members(b))
                /\ Holds(SetDifference(a, b), Members(a) \ Members(b))
                /\ SetIsSubset(a, b) <=> Members(a) \subseteq Members(b)
                /\ SetIsEqual(a, b) <=> Members(a) = Members(b)

\* The vertices within n edges of v.
Within(v) ==
    LET edges == Edges
        within[n \in 0 .. Cardinality(Vertex)] ==
            IF n = 0 THEN {v}
            ELSE LET near == within[n - 1]
                 IN  near \cup {e[2] : e \in {d \in edges : d[1] \in near}}
    IN  within

Reaches(a, b) == b \in Within(a)[Cardinality(Vertex)]

\* The distances from v of the vertices within reach, -1 of the others.
Distances(v) ==
    LET within == Within(v) IN
    [w \in Vertex |->
        LET near == {n \in DOMAIN within : w \in within[n]}
        IN  IF near = {} THEN -1 ELSE CHOOSE n \in near : \A m \in near : n <= m]

\* As soon as bfs gives a vertex a number of hops, this is its distance from
\* the start; when it returns, those within reach have it and are the result.
\* In graphs of three vertices that is so in whatever order the queue is; that
\* it is nearest first is in GrayAreOpen.
HopsAreDistances ==
    phase \in {"bfs", "bfs returned"} =>
        \E start \in Vertices :
            LET distances == Distances(start) IN
            /\ \A v \in Vertices : hops[v] \in {distances[v]} \cup
                                       IF phase = "bfs" THEN {-1} ELSE {}
            /\ phase = "bfs returned" =>
                  Members(result) = {v \in Vertices : distances[v] # -1}

Gray == {v \in Vertex : color[v] = "gray"}

\* The queue of bfs, nearest first, spans at most two distances.
NearestFirst(q) == \A i, j \in DOMAIN q : i <= j => hops[q[j]] - hops[q[i]] \in {0, 1}

\* The vertices that are open are the gray ones.  For bfs they are those in
\* the queue.  For dfs they are those of the activations of dfs_main, which
\* are a path in the graph: the recursion is no deeper than the graph has
\* vertices.
GrayAreOpen ==
    /\ SearchTypeOK
    /\ phase = "bfs" =>
          LET q == Chain(queue) IN
          Represents(queue, q) /\ ToSet(q) = Gray /\ NearestFirst(q)
    /\ phase = "dfs" =>
          /\ {stack[i].vertex : i \in DOMAIN stack} = Gray
          /\ Len(stack) = Cardinality(Gray)
          /\ \A i \in 2 .. Len(stack) : <<stack[i - 1].vertex, stack[i].vertex>> \in Edges

\* When dfs returns, the list holds every vertex once, and an edge points
\* backwards in it only if it is part of a cycle: without cycles the list is
\* a topological order.
OrderIsTopological ==
    phase = "dfs returned" =>
        LET order == Chain(result) IN
        /\ Represents(result, order) /\ ToSet(order) = Vertices
        /\ \A i, j \in DOMAIN order :
              j < i /\ <<order[i], order[j]>> \in Edges => Reaches(order[j], order[i])
=============================================================================
