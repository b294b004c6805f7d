----------------------------- MODULE MCAlgolib -----------------------------
(* For TLC: a program that uses algolib, for a graph or for an array as    *)
(* those of main/grafuri and main/sortari.                                 *)
EXTENDS GraphSearch, Sorts, TLC

\* The vertices all play the same part.
Symmetry == Permutations(Vertex)

ProgramInit == SearchInit /\ SortInit

\* A sort needs no graph; one is made only while there is none.
ProgramNext ==
    \/ sort = "none" /\ SearchNext /\ UNCHANGED sorting
    \/ adjlists.size = 0 /\ phase = "idle" /\ SortNext /\ UNCHANGED vars

ProgramSpec == ProgramInit /\ [][ProgramNext]_<<vars, sorting>>
=============================================================================
