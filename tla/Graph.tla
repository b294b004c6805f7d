------------------------------- MODULE Graph -------------------------------
(***************************************************************************)
(* The graphs of algolib (graph.c): a list of adjacency lists, each with a *)
(* vertex and the set of the vertices adjacent to it.  Data are vertices;  *)
(* two data match if and only if they are the same.                        *)
(*                                                                         *)
(* A call that is refused, because a vertex or an edge is there already or *)
(* is not there, or because memory is short, changes no graph; it is not   *)
(* an action.                                                              *)
(***************************************************************************)
EXTENDS LinkedList

Vertex == Element

VARIABLES
    adjlists,        \* the list of the adjacency lists, named after their vertices
    adjacent,        \* the set of each of them
    vcount, ecount

graph == <<adjlists, adjacent, vcount, ecount>>

TypeOK ==
    /\ adjlists \in List
    /\ adjacent \in [Vertex -> List]
    /\ vcount \in Nat /\ ecount \in Nat

\* graph_init.
Init ==
    /\ adjlists = EmptyList
    /\ adjacent = [v \in Vertex |-> EmptyList]
    /\ vcount = 0 /\ ecount = 0

\* The loop that looks for a vertex finds it.
IsVertex(v) == v \in Members(adjlists)

\* graph_is_adjacent.
IsAdjacent(a, b) == IsVertex(a) /\ IsMember(adjacent[a], b)

-----------------------------------------------------------------------------

\* graph_ins_vertex.
InsVertex(v) ==
    /\ ~IsVertex(v)
    /\ adjlists' = InsNext(adjlists, adjlists.tail, v)
    /\ adjacent' = [adjacent EXCEPT ![v] = EmptyList]
    /\ vcount' = vcount + 1
    /\ UNCHANGED ecount

\* graph_ins_edge from a to b.
InsEdge(a, b) ==
    /\ IsVertex(b) /\ IsVertex(a)
    /\ ~IsMember(adjacent[a], b)
    /\ adjacent' = [adjacent EXCEPT ![a] = SetInsert(@, b)]
    /\ ecount' = ecount + 1
    /\ UNCHANGED <<adjlists, vcount>>

HasEdgesOut(v) == adjacent[v].size > 0  \* mutant: nobody asks for edges to v
HasEdges(v) ==
    \/ \E a \in Members(adjlists) : IsMember(adjacent[a], v)
    \/ adjacent[v].size > 0

CountVertex == vcount' = vcount - 1 /\ UNCHANGED ecount

\* graph_rem_vertex.
RemVertex(v) ==
    /\ IsVertex(v) /\ ~HasEdges(v)
    /\ adjlists' = RemNext(adjlists, Prev(adjlists, v))
    /\ CountVertex
    /\ UNCHANGED adjacent

\* graph_rem_edge from a to b.
RemEdge(a, b) ==
    /\ IsAdjacent(a, b)
    /\ adjacent' = [adjacent EXCEPT ![a] = SetRemove(@, b)]
    /\ ecount' = ecount - 1
    /\ UNCHANGED <<adjlists, vcount>>

\* graph_destroy, and graph_init for the next use.
Destroy ==
    /\ adjlists' = EmptyList
    /\ adjacent' = [v \in Vertex |-> EmptyList]
    /\ vcount' = 0 /\ ecount' = 0

Next ==
    \/ \E v \in Vertex : InsVertex(v) \/ RemVertex(v)
    \/ \E a, b \in Vertex : InsEdge(a, b) \/ RemEdge(a, b)
    \/ Destroy

Spec == Init /\ [][Next]_graph

-----------------------------------------------------------------------------
(* Properties.                                                             *)

Vertices == Members(adjlists)
Edges == UNION {{v} \X Members(adjacent[v]) : v \in Vertices}

\* After any sequence of insertions and removals at the head, in the middle
\* and at the tail, the header and the next fields of every list (list.c)
\* represent a sequence: no element is lost, met twice or left behind, and
\* size and tail, which nothing recomputes, are right.
ListsIntact ==
    /\ TypeOK
    /\ Represents(adjlists, Chain(adjlists))
    /\ \A v \in Vertex : Represents(adjacent[v], Chain(adjacent[v]))

\* graph.c implements the directed graph that it promises: its counters are
\* right, and an edge never joins anything but vertices.
Promised == INSTANCE AbstractGraph WITH V <- Vertices, E <- Edges
IsAGraph == Promised!Spec
=============================================================================
