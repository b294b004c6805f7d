----------------------------- MODULE MCWatchdog -----------------------------
(* Watchdog for TLC.                                                       *)
EXTENDS Watchdog, TLC

CONSTANTS m1, m2

\* No module's name begins with another's.
Distinct == {<<m, m>> : m \in Module}

\* The name of m2 begins with that of m1, as MP3Encoder-10 with MP3Encoder-1.
Prefixed == Distinct \cup {<<m1, m2>>}

\* For safety only, and the second only where Matches is Distinct.
Symmetry == Permutations(Pid) \cup Permutations(Inode)
ModuleSymmetry == Symmetry \cup Permutations(Module)

\* A constraint: no command of a module gets to run.  The locks do not depend
\* on that; a fork that fails takes startmodule through its loop all the same.
NoCommandRuns == running = {}
=============================================================================
