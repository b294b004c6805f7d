----------------------------- MODULE MCCServer -----------------------------
(* CServer for TLC.                                                        *)
EXTENDS CServer, TLC

\* The clients play the same part, and so do the ids.  For safety only.
Symmetry == Permutations(Client) \cup Permutations(Id)

\* A constraint: one hazard at a time, and three clients as long as there is
\* none and no signal.  After it two, which is one to hold what the other has
\* just lost.
OneHazard ==
    /\ Cardinality(hazard) <= 1
    /\ hazard # {} \/ ~running => \E c \in Client : peer[c] = "away"

\* For liveness: the clients have one id, and the mutex is not initialised
\* under threads that have already met in it.
NotBoth == ~({"sameid", "reinit"} \subseteq hazard)

\* For the counterexample: one hazard alone.
OnlyReinit == hazard \subseteq {"reinit"}
=============================================================================
