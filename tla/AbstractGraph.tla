--------------------------- MODULE AbstractGraph ---------------------------
(***************************************************************************)
(* What graph.c promises: a directed graph that changes by a vertex or an  *)
(* edge at a time, in which every edge joins vertices of the graph, and    *)
(* that counts both.                                                       *)
(***************************************************************************)
EXTENDS Integers, FiniteSets

CONSTANT Vertex

VARIABLES V, E, vcount, ecount

vars == <<V, E, vcount, ecount>>

Init == V = {} /\ E = {} /\ vcount = 0 /\ ecount = 0

InsVertex(v) ==
    /\ vcount' = vcount + 1 /\ UNCHANGED ecount
    /\ v \notin V
    /\ V' = V \cup {v} /\ UNCHANGED E

InsEdge(a, b) ==
    /\ ecount' = ecount + 1 /\ UNCHANGED vcount
    /\ {a, b} \subseteq V /\ <<a, b>> \notin E
    /\ E' = E \cup {<<a, b>>} /\ UNCHANGED V

\* Only a vertex without edges may be removed.
RemVertex(v) ==
    /\ vcount' = vcount - 1 /\ UNCHANGED ecount
    /\ v \in V /\ \A e \in E : v # e[1] /\ v # e[2]
    /\ V' = V \ {v} /\ UNCHANGED E

RemEdge(a, b) ==
    /\ ecount' = ecount - 1 /\ UNCHANGED vcount
    /\ <<a, b>> \in E
    /\ E' = E \ {<<a, b>>} /\ UNCHANGED V

Destroy ==
    /\ vcount' = 0 /\ ecount' = 0
    /\ V' = {} /\ E' = {}

Next ==
    \/ \E v \in Vertex : InsVertex(v) \/ RemVertex(v)
    \/ \E a, b \in Vertex : InsEdge(a, b) \/ RemEdge(a, b)
    \/ Destroy

Spec == Init /\ [][Next]_vars

\* No edge is left behind by a vertex (graph_rem_vertex), and the counters
\* of graph.c, which are only ever counted up and down, count.
Consistent ==
    /\ IsFiniteSet(V) /\ IsFiniteSet(E)
    /\ E \subseteq V \X V
    /\ vcount = Cardinality(V) /\ ecount = Cardinality(E)
=============================================================================
