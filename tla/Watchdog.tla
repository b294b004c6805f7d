------------------------------ MODULE Watchdog ------------------------------
(***************************************************************************)
(* The watchdog suite of pidwatcher: the scripts startmodule, stopmodule   *)
(* and boot-modules, the files through which they communicate, and the     *)
(* processes of the modules that they supervise.                           *)
(*                                                                         *)
(* Every run of a script is a process of its own.  Nothing orders the runs *)
(* but the operator: Overlap says what the operator lets run at the same   *)
(* time.  A startmodule that has got to its loop stays there, supervising  *)
(* its module, until it is killed.                                         *)
(***************************************************************************)
EXTENDS Naturals, FiniteSets, SequencesExt

CONSTANTS Module,      \* the modules
          Pid,         \* process ids of the scripts
          Inode,       \* files that are, or are to become, started.conf
          Second,      \* the values of time() in names of temporary files
          NONE,
          Matches,     \* <<m, n>>: the pattern for module m matches the name n
          Overlap      \* "none": scripts run one at a time, "modules": those
                       \* of different modules may overlap, "any": all may

ASSUME WatchdogAssumption ==
    /\ NONE \notin Module \cup Pid \cup Inode
    /\ {"absent", "empty"} \cap Pid = {}
    /\ Matches \subseteq Module \X Module
    /\ \A m \in Module : <<m, m>> \in Matches
    /\ Overlap \in {"none", "modules", "any"}

VARIABLES
    pc, kind, mod,     \* per script: where it is, which one, for which module
    second, handle, lines,  \* per script: its temporary started.conf
    others,            \* per script: the .used file without its device
    target,            \* per script: the pid that stopmodule read, or NONE
    child,             \* per script: startmodule forked, the child has not exec'ed
    content,           \* the lines of a file
    conf, tmp,         \* the files named started.conf and /tmp/started.conf.<time>
    params,            \* <module>.params: "absent", "empty" or "whole"
    lock,              \* <module>.lock: "absent", "empty" or a pid
    used,              \* the modules whose device is in the .used file
    left,              \* history: those whose device a stopmodule left in it
    running,           \* the modules that have processes with their name in
                       \* the environment
    boot, queue        \* boot-modules and what it has still to start

script == <<pc, kind, mod>>
rewrite == <<second, handle, lines, content, conf, tmp>>
vars == <<script, rewrite, others, target, child, params, lock, used, left, running, boot, queue>>

StartPC == {"params", "device", "check", "touch", "pid", "launch", "child", "scan"}
StopPC  == {"freeRead", "freeTruncate", "freeWrite", "lock", "kill", "killScan",
            "unlinkLock", "unlinkParams"}
BothPC  == {"open", "read", "write", "move"}

Supervising == {"launch", "child", "scan"}

TypeOK ==
    /\ pc \in [Pid -> {"idle"} \cup StartPC \cup StopPC \cup BothPC]
    /\ kind \in [Pid -> {"start", "stop"}]
    /\ mod \in [Pid -> Module \cup {NONE}]
    /\ second \in [Pid -> Second \cup {NONE}]
    /\ handle \in [Pid -> Inode \cup {NONE}]
    /\ lines \in [Pid -> Seq(Module)]
    /\ others \in [Pid -> SUBSET Module]
    /\ target \in [Pid -> Pid \cup {NONE}]
    /\ child \in [Pid -> Module \cup {NONE}]
    /\ content \in [Inode -> Seq(Module)]
    /\ conf \in Inode
    /\ tmp \in [Second -> Inode \cup {NONE}]
    /\ params \in [Module -> {"absent", "empty", "whole"}]
    /\ used \subseteq Module /\ left \subseteq Module /\ running \subseteq Module
    /\ lock \in [Module -> {"absent", "empty"} \cup Pid]
    /\ boot \in {"up", "unlink"}
    /\ queue \in Seq(Module)

Init ==
    /\ pc = [p \in Pid |-> "idle"]
    /\ kind = [p \in Pid |-> "start"]
    /\ mod = [p \in Pid |-> NONE]
    /\ second = [p \in Pid |-> NONE]
    /\ handle = [p \in Pid |-> NONE]
    /\ lines = [p \in Pid |-> <<>>]
    /\ others = [p \in Pid |-> {}]
    /\ target = [p \in Pid |-> NONE]
    /\ child = [p \in Pid |-> NONE]
    /\ content = [i \in Inode |-> <<>>]
    /\ conf \in Inode
    /\ tmp = [s \in Second |-> NONE]
    /\ params = [m \in Module |-> "absent"]
    /\ used = {} /\ left = {} /\ running = {}
    /\ lock = [m \in Module |-> "absent"]
    /\ boot = "up" /\ queue = <<>>

Goto(p, label) == pc' = [pc EXCEPT ![p] = label]

Supervisors(m) == {p \in Pid : pc[p] \in Supervising /\ mod[p] = m}
Busy(p)        == pc[p] \notin {"idle"} \cup Supervising
Recorded       == ToSet(content[conf])
Startable      == {m \in Module : params[m] = "whole"}

-----------------------------------------------------------------------------
(* Running a script.                                                       *)

MayRun(m) ==
    /\ boot = "up"
    /\ \A q \in Pid : Busy(q) => \/ Overlap = "any"
                                 \/ Overlap = "modules" /\ mod[q] # m

Run(p, k, m, label) ==
    /\ pc[p] = "idle" /\ child[p] = NONE
    /\ \A n \in Module : lock[n] # p   \* the kernel may reuse any other pid
    /\ MayRun(m)
    /\ kind' = [kind EXCEPT ![p] = k]
    /\ mod' = [mod EXCEPT ![p] = m]
    /\ Goto(p, label)

\* startmodule with arguments on the command line: MakeParamsFile empties the
\* file, and writes it on close.
StartWithArguments(p, m) ==
    /\ queue = <<>> \/ Overlap = "any"
    /\ Run(p, "start", m, "params")
    /\ params' = [params EXCEPT ![m] = "empty"]
    /\ UNCHANGED <<rewrite, others, target, child, lock, used, left, running, boot, queue>>

WriteParams(p) ==
    /\ pc[p] = "params"
    /\ params' = [params EXCEPT ![mod[p]] = "whole"]
    /\ Goto(p, "open")
    /\ UNCHANGED <<kind, mod, rewrite, others, target, child, lock, used, left, running,
                   boot, queue>>

\* startmodule with the name alone: ReadParamsFile.  Without parameters it aborts.
StartFromParams(p, m) ==
    /\ queue = <<>> \/ Overlap = "any"
    /\ m \in Startable
    /\ Run(p, "start", m, "open")
    /\ UNCHANGED <<rewrite, others, target, child, params, lock, used, left, running,
                   boot, queue>>

\* stopmodule: the devices to free are those of the .params file, and none if it
\* is empty.
Stop(p, m) ==
    /\ queue = <<>> \/ Overlap = "any"
    /\ Run(p, "stop", m, IF m \in Startable THEN "freeRead" ELSE "lock")
    /\ left' = IF m \in Startable THEN left ELSE left \cup ({m} \cap used)
    /\ UNCHANGED <<rewrite, others, target, child, params, lock, used, running, boot,
                   queue>>

Finish(p) ==
    /\ Goto(p, "idle")
    /\ mod' = [mod EXCEPT ![p] = NONE]
    /\ kind' = [kind EXCEPT ![p] = "start"]

-----------------------------------------------------------------------------
(* Both scripts rewrite started.conf: the lines other than the module's,   *)
(* and, by startmodule, the module's at the end, go to a temporary file    *)
(* named after the second, which is then moved over it.                    *)

\* A loop over the lines s.
Without(s, m) ==
    LET kept[i \in 0 .. Len(s)] ==
            IF i = 0 THEN <<>>
            ELSE IF s[i] = m THEN kept[i - 1] ELSE Append(kept[i - 1], s[i])
    IN  kept[Len(s)]

AllLines(m) == content[conf]  \* mutant: the module's old line is kept
WithoutModule(m) == Without(content[conf], m)

InUse(i) == \/ i = conf
            \/ \E s \in Second : tmp[s] = i
            \/ \E p \in Pid : handle[p] = i

RewriteOpen(p, s, i) ==
    /\ pc[p] = "open"
    /\ IF tmp[s] = NONE THEN ~InUse(i) ELSE i = tmp[s]
    /\ second' = [second EXCEPT ![p] = s]
    /\ handle' = [handle EXCEPT ![p] = i]
    /\ tmp' = [tmp EXCEPT ![s] = i]
    /\ content' = [content EXCEPT ![i] = <<>>]
    /\ Goto(p, "read")
    /\ UNCHANGED <<kind, mod, lines, conf, others, target, child, params, lock, used, left,
                   running, boot, queue>>

RewriteRead(p) ==
    /\ pc[p] = "read"
    /\ lines' = [lines EXCEPT ![p] = IF kind[p] = "start"
                                     THEN Append(WithoutModule(mod[p]), mod[p])
                                     ELSE WithoutModule(mod[p])]
    /\ Goto(p, "write")
    /\ UNCHANGED <<kind, mod, second, handle, content, conf, tmp, others, target, child,
                   params, lock, used, left, running, boot, queue>>

\* The buffered lines go to the file on close, over what another script that
\* opened it within the same second has put there.
RewriteWrite(p) ==
    /\ pc[p] = "write"
    /\ content' = [content EXCEPT ![handle[p]] =
                     lines[p] \o SubSeq(@, Len(lines[p]) + 1, Len(@))]
    /\ handle' = [handle EXCEPT ![p] = NONE]
    /\ lines' = [lines EXCEPT ![p] = <<>>]
    /\ Goto(p, "move")
    /\ UNCHANGED <<kind, mod, second, conf, tmp, others, target, child, params, lock,
                   used, left, running, boot, queue>>

MovedBlindly(s) == tmp[s]  \* mutant: as if mv could not fail
Moved(s) == IF tmp[s] = NONE THEN conf ELSE tmp[s]

\* mv -f; it fails if another script has moved the file.  A file that has lost its
\* name is gone.
RewriteMove(p) ==
    /\ pc[p] = "move"
    /\ conf' = Moved(second[p])
    /\ content' = [i \in Inode |-> IF i = conf /\ conf' # conf THEN <<>> ELSE content[i]]
    /\ tmp' = [tmp EXCEPT ![second[p]] = NONE]
    /\ second' = [second EXCEPT ![p] = NONE]
    /\ Goto(p, IF kind[p] = "start" THEN "device" ELSE "unlinkLock")
    /\ UNCHANGED <<kind, mod, handle, lines, others, target, child, params, lock,
                   used, left, running, boot, queue>>

-----------------------------------------------------------------------------
(* startmodule.                                                            *)

DeclareDeviceAsUsed(p) ==
    /\ pc[p] = "device"
    /\ used' = used \cup {mod[p]}
    /\ Goto(p, "check")
    /\ UNCHANGED <<kind, mod, rewrite, others, target, child, params, lock, left,
                   running, boot, queue>>

NeverLocked(m) == FALSE  \* mutant: the lock file is not looked at
Locked(m) == lock[m] # "absent"

\* "already started" if there is a lock file.
CheckLock(p) ==
    /\ pc[p] = "check"
    /\ \/ ~Locked(mod[p]) /\ Goto(p, "touch") /\ UNCHANGED <<kind, mod>>
       \/ Locked(mod[p]) /\ Finish(p)
    /\ UNCHANGED <<rewrite, others, target, child, params, lock, used, left, running,
                   boot, queue>>

TouchLock(p) ==
    /\ pc[p] = "touch"
    /\ lock' = [lock EXCEPT ![mod[p]] = "empty"]
    /\ Goto(p, "pid")
    /\ UNCHANGED <<kind, mod, rewrite, others, target, child, params, used, left,
                   running, boot, queue>>

WritePid(p) ==
    /\ pc[p] = "pid"
    /\ lock' = [lock EXCEPT ![mod[p]] = p]
    /\ Goto(p, "launch")
    /\ UNCHANGED <<kind, mod, rewrite, others, target, child, params, used, left,
                   running, boot, queue>>

\* StartModule: system() forks.  It waits for the shell that the child turns
\* into, which puts the module's command in the background.
Fork(p) ==
    /\ pc[p] = "launch"
    /\ child' = [child EXCEPT ![p] = mod[p]]
    /\ Goto(p, "child")
    /\ UNCHANGED <<kind, mod, rewrite, others, target, params, lock, used, left,
                   running, boot, queue>>

\* system() returned -1; the module is waited for all the same.
ForkFails(p) ==
    /\ pc[p] = "launch"
    /\ Goto(p, "scan")
    /\ UNCHANGED <<kind, mod, rewrite, others, target, child, params, lock, used, left,
                   running, boot, queue>>

\* Only when the child executes the shell does the name of the module get into
\* the environment that the kernel shows.  The child does not need its parent.
Exec(p) ==
    /\ child[p] # NONE
    /\ running' = running \cup {child[p]}
    /\ child' = [child EXCEPT ![p] = NONE]
    /\ IF pc[p] = "child" THEN Goto(p, "scan") ELSE UNCHANGED pc
    /\ UNCHANGED <<kind, mod, rewrite, others, target, params, lock, used, left, boot,
                   queue>>

Listed(m) == {n \in Recorded : <<m, n>> \in Matches}  \* mutant: asks started.conf
Found(m) == {n \in running : <<m, n>> \in Matches}

\* WaitForModuleClose returns when a scan finds no process of the module.
ModuleClosed(p) ==
    /\ pc[p] = "scan"
    /\ Found(mod[p]) = {}
    /\ Goto(p, "launch")
    /\ UNCHANGED <<kind, mod, rewrite, others, target, child, params, lock, used, left,
                   running, boot, queue>>

-----------------------------------------------------------------------------
(* stopmodule.                                                             *)

\* DeclareDeviceAsFree reads .used, then overwrites it with the other devices.
FreeRead(p) ==
    /\ pc[p] = "freeRead"
    /\ others' = [others EXCEPT ![p] = used \ {mod[p]}]
    /\ Goto(p, "freeTruncate")
    /\ UNCHANGED <<kind, mod, rewrite, target, child, params, lock, used, left,
                   running, boot, queue>>

FreeTruncate(p) ==
    /\ pc[p] = "freeTruncate"
    /\ used' = {}
    /\ Goto(p, "freeWrite")
    /\ UNCHANGED <<kind, mod, rewrite, others, target, child, params, lock, left,
                   running, boot, queue>>

FreeWrite(p) ==
    /\ pc[p] = "freeWrite"
    /\ used' = others[p] /\ left' = left \ {mod[p]}
    /\ others' = [others EXCEPT ![p] = {}]
    /\ Goto(p, "lock")
    /\ UNCHANGED <<kind, mod, rewrite, target, child, params, lock, running, boot, queue>>

NoWayOut(p) == FALSE  \* mutant: waits for a lock file
Unlocked(p) == lock[mod[p]] \notin Pid

\* Without a lock file, or with an empty one, nobody is killed.
ReadLock(p) ==
    /\ pc[p] = "lock"
    /\ \/ /\ lock[mod[p]] \in Pid
          /\ target' = [target EXCEPT ![p] = lock[mod[p]]]
          /\ Goto(p, "kill")
       \/ Unlocked(p) /\ Goto(p, "open") /\ UNCHANGED target
    /\ UNCHANGED <<kind, mod, rewrite, others, child, params, lock, used, left,
                   running, boot, queue>>

\* kill -9; a child that startmodule has forked lives on.
KillSupervisor(p) ==
    LET t == target[p] IN
    /\ pc[p] = "kill"
    /\ pc' = [pc EXCEPT ![p] = "killScan", ![t] = "idle"]
    /\ mod' = [mod EXCEPT ![t] = NONE]
    /\ UNCHANGED <<kind, rewrite, others, target, child, params, lock, used, left,
                   running, boot, queue>>

\* One scan and the signals to what it found.  A signalled process ends, or
\* it takes its time.
KillProcesses(p) ==
    LET found == Found(mod[p]) IN
    /\ pc[p] = "killScan" /\ found # {}
    /\ \E dead \in SUBSET found : running' = running \ dead
    /\ UNCHANGED <<script, rewrite, others, target, child, params, lock, used, left,
                   boot, queue>>

\* A scan found nothing: "Module stopped".
ModuleStopped(p) ==
    /\ pc[p] = "killScan" /\ Found(mod[p]) = {}
    /\ Goto(p, "open")
    /\ UNCHANGED <<kind, mod, rewrite, others, target, child, params, lock, used, left,
                   running, boot, queue>>

UnlinkLock(p) ==
    /\ pc[p] = "unlinkLock"
    /\ lock' = [lock EXCEPT ![mod[p]] = "absent"]
    /\ Goto(p, "unlinkParams")
    /\ UNCHANGED <<kind, mod, rewrite, others, target, child, params, used, left,
                   running, boot, queue>>

UnlinkParams(p) ==
    /\ pc[p] = "unlinkParams"
    /\ params' = [params EXCEPT ![mod[p]] = "absent"]
    /\ target' = [target EXCEPT ![p] = NONE]
    /\ Finish(p)
    /\ UNCHANGED <<rewrite, others, child, lock, used, left, running, boot, queue>>

-----------------------------------------------------------------------------
(* Modules end, and so does the system.                                    *)

Terminate(m) ==
    /\ m \in running
    /\ running' = running \ {m}
    /\ UNCHANGED <<script, rewrite, others, target, child, params, lock, used, left,
                   boot, queue>>

\* Every process is gone; the files that matter are as they were.
Reboot ==
    /\ pc' = [p \in Pid |-> "idle"]
    /\ mod' = [p \in Pid |-> NONE]
    /\ second' = [p \in Pid |-> NONE]
    /\ handle' = [p \in Pid |-> NONE]
    /\ lines' = [p \in Pid |-> <<>>]
    /\ others' = [p \in Pid |-> {}]
    /\ target' = [p \in Pid |-> NONE]
    /\ child' = [p \in Pid |-> NONE]
    /\ tmp' = [s \in Second |-> NONE]
    /\ running' = {}
    /\ boot' = "unlink" /\ queue' = <<>>
    /\ kind' = [p \in Pid |-> "start"]
    /\ content' = [i \in Inode |-> IF i = conf THEN content[i] ELSE <<>>]
    /\ UNCHANGED <<conf, params, lock, used, left>>

KeptLocks == lock  \* mutant: the locks survive
NoLocks == [m \in Module |-> "absent"]

\* boot-modules removes the locks and reads started.conf ...
BootUnlink ==
    /\ boot = "unlink"
    /\ lock' = NoLocks
    /\ boot' = "up"
    /\ queue' = content[conf]
    /\ UNCHANGED <<script, rewrite, others, target, child, params, used, left, running>>

\* ... and runs startmodule for one line after the other; without parameters
\* startmodule aborts.
BootNext(p) ==
    /\ queue # <<>>
    /\ queue' = Tail(queue)
    /\ \/ Head(queue) \in Startable /\ Run(p, "start", Head(queue), "open")
       \/ Head(queue) \notin Startable /\ UNCHANGED script
    /\ UNCHANGED <<rewrite, others, target, child, params, lock, used, left, running, boot>>

-----------------------------------------------------------------------------

\* The steps of a script once it runs.
StartStep(p) ==
    \/ WriteParams(p) \/ DeclareDeviceAsUsed(p) \/ CheckLock(p) \/ TouchLock(p) \/ WritePid(p)
    \/ Fork(p) \/ ModuleClosed(p)

StopStep(p) ==
    \/ FreeRead(p) \/ FreeTruncate(p) \/ FreeWrite(p) \/ ReadLock(p)
    \/ KillSupervisor(p) \/ KillProcesses(p) \/ ModuleStopped(p)
    \/ UnlinkLock(p) \/ UnlinkParams(p)

RewriteStep(p) ==
    \/ \E s \in Second, i \in Inode : RewriteOpen(p, s, i)
    \/ RewriteRead(p) \/ RewriteWrite(p) \/ RewriteMove(p)

Next ==
    \/ \E p \in Pid, m \in Module :
          StartWithArguments(p, m) \/ StartFromParams(p, m) \/ Stop(p, m)
    \/ \E p \in Pid : StartStep(p) \/ StopStep(p) \/ RewriteStep(p) \/ ForkFails(p) \/ Exec(p)
    \/ \E m \in Module : Terminate(m)
    \/ Reboot \/ BootUnlink
    \/ \E p \in Pid : BootNext(p)

Spec == Init /\ [][Next]_vars

(***************************************************************************)
(* The scripts go on once they run, and so do boot-modules, the children   *)
(* of startmodule and the processes that stopmodule signals.  fork may     *)
(* fail, but not every time.  Nothing makes the operator run a script, a   *)
(* module end by itself or the system reboot.                              *)
(***************************************************************************)
Fairness ==
    /\ \A p \in Pid :
          /\ WF_vars(StartStep(p) \/ RewriteStep(p) \/ StopStep(p))
          /\ SF_vars(Fork(p))
          /\ WF_vars(Exec(p))
          /\ SF_vars(pc[p] = "killScan" /\ ModuleStopped(p))
    /\ WF_vars(BootUnlink)
    /\ WF_vars(\E p \in Pid : BootNext(p))

FairSpec == Spec /\ Fairness

-----------------------------------------------------------------------------
(* Properties.                                                             *)

\* No script is under way, apart from the supervisors.
Quiet == boot = "up" /\ queue = <<>> /\ \A p \in Pid : ~Busy(p)

\* If the operator runs one script at a time, then between two of them what
\* the files say is so, whatever reboots there were: a module is supervised if and
\* only if it is recorded in started.conf, once, and has its parameters, by one
\* startmodule, whose pid is in the lock file; then its device is in use.  What else
\* is recorded lost its parameters, as a reboot came between the two halves of
\* MakeParamsFile.  And what else is in use is of such a module, or was when a
\* stopmodule found no parameters to tell it which device to free.
FilesAgree ==
    Overlap = "none" /\ Quiet =>
        /\ Len(content[conf]) = Cardinality(Recorded)
        /\ \A m \in Recorded : params[m] # "absent"
        /\ Recorded \cap Startable \subseteq used /\ used \subseteq Recorded \cup left
        /\ \A m \in Module :
              IF m \in Recorded \cap Startable THEN Supervisors(m) = {lock[m]}
              ELSE Supervisors(m) = {} /\ lock[m] = "absent"

\* Scripts of different modules do not disturb the lock: a supervisor's pid is
\* in its module's lock file, so that there is one and stopmodule can kill it.
SupervisorHoldsLock ==
    Overlap # "any" => \A p \in Pid : pc[p] \in Supervising => lock[mod[p]] = p

\* "previously running modules" are restarted (boot-modules:38-40): what is
\* supervised is recorded in started.conf.
SupervisedIsRecorded ==
    \A m \in Module : Supervisors(m) # {} => m \in Recorded \/ \E p \in Pid : Busy(p)

\* "terminated while watchdog is enabled. Restarting it." (startmodule:262):
\* a supervised module that has no process gets one, or loses its supervisor.
\* That is so as long as no name of a module begins with another's: else the
\* supervisor of the shorter takes the processes of the longer for its own.
Restarted ==
    \A m \in Module :
        Supervisors(m) # {} /\ m \notin running ~> m \in running \/ Supervisors(m) = {}

\* If the system stays up, the modules that started.conf names at boot get
\* supervised, provided that the reboot did not come when the parameters of the
\* module were emptied and not yet written: then startmodule aborts.
BootRestarts ==
    <>[](boot = "up") =>
        \A m \in Module : boot = "unlink" /\ m \in Recorded \cap Startable ~> Supervisors(m) # {}

\* A stopmodule comes to its end, unless the system goes down.
StopEnds == \A p \in Pid : kind[p] = "stop" /\ Busy(p) ~> ~Busy(p)
=============================================================================
