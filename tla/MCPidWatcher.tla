---------------------------- MODULE MCPidWatcher ----------------------------
(* PidWatcher for TLC.                                                     *)
EXTENDS PidWatcher, TLC

CONSTANT MaxOpen    \* bound on device_is_open, which failed opens only raise

\* A kernel thread has none; the variable is the first string, where it meets
\* what is left in the buffer, or comes later.
Environs == {<<>>, <<Variable(1)>>, <<Variable(2)>>, <<Plain, Variable(1)>>,
             <<Blank, Variable(2)>>}

Bound == deviceIsOpen <= MaxOpen

\* Tasks that come and go while a snapshot is read make no difference to it;
\* they do so before the next one is made.
QuietWhileRead ==
    tasks' # tasks => \A f \in File : file[f].pc \notin {"read", "parse"}

Symmetry == Permutations(Task)
=============================================================================
