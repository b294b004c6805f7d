--------------------------- MODULE WatchdogProofs ---------------------------
(***************************************************************************)
(* The files of the watchdog suite, for any modules and any number of      *)
(* processes, files and reboots.                                           *)
(*                                                                         *)
(* LockInv: as long as no two scripts run for the same module at a time,   *)
(* the pid in a lock file is that of the supervisor.                       *)
(* TypeInv: the types, whatever runs at the same time.                     *)
(* FilesInv: as long as one script runs at a time, what a script may rely  *)
(* on where it is, and what is so of the modules that it is not about.     *)
(***************************************************************************)
EXTENDS Watchdog, Least, SequenceTheorems

-----------------------------------------------------------------------------
(* The locks.                                                              *)

PCs == {"idle"} \cup StartPC \cup StopPC \cup BothPC

Typed ==
    /\ pc \in [Pid -> PCs]
    /\ kind \in [Pid -> {"start", "stop"}]
    /\ mod \in [Pid -> Module \cup {NONE}]
    /\ \A p \in Pid : pc[p] # "idle" => mod[p] \in Module
    /\ target \in [Pid -> Pid \cup {NONE}]
    /\ lock \in [Module -> {"absent", "empty"} \cup Pid]
    /\ boot \in {"up", "unlink"}
    /\ boot = "unlink" => \A p \in Pid : pc[p] = "idle"

\* At most one script is under way for a module.
Alone == \A p, q \in Pid : Busy(p) /\ Busy(q) /\ p # q => mod[p] # mod[q]

\* A stopmodule that has got past the lock.
PastLock(p) == \/ pc[p] \in {"killScan", "unlinkLock"}
               \/ pc[p] \in BothPC /\ kind[p] = "stop"

\* What a script may rely on where it is.
Knows(p) ==
    /\ pc[p] \in Supervising => lock[mod[p]] = p
    /\ pc[p] = "params" => kind[p] = "start"
    /\ pc[p] = "touch" => lock[mod[p]] = "absent"
    /\ pc[p] = "pid" => lock[mod[p]] = "empty"
    /\ pc[p] = "kill" => target[p] \in Pid /\ lock[mod[p]] = target[p]
    /\ PastLock(p) => Supervisors(mod[p]) = {}

\* A pid in a lock file is the supervisor's, or nobody's: the supervisor has
\* been killed, or the system went down.
Owners == \A m \in Module, p \in Pid :
    lock[m] = p => pc[p] = "idle" \/ (pc[p] \in Supervising /\ mod[p] = m)

LockInv == Typed /\ Alone /\ Owners /\ \A p \in Pid : Knows(p)

\* What LockInv is about.
locking == <<script, target, lock, boot>>

LEMMA InitLock == Init => LockInv
<1> SUFFICES ASSUME Init PROVE LockInv  OBVIOUS
<1>1. Typed /\ Owners
  BY WatchdogAssumption DEF Init, Typed, PCs, Owners
<1>2. Alone /\ \A p \in Pid : Knows(p)
  BY DEF Init, Alone, Busy, Knows, PastLock, BothPC, Supervising
<1> QED  BY <1>1, <1>2 DEF LockInv

LEMMA Stays == LockInv /\ UNCHANGED locking => LockInv'
<1> SUFFICES ASSUME LockInv, UNCHANGED locking PROVE LockInv'  OBVIOUS
<1>1. UNCHANGED <<pc, kind, mod, target, lock, boot>>
  BY DEF locking, script
<1>2. Typed' /\ Alone' /\ Owners'
  BY <1>1 DEF LockInv, Typed, Alone, Owners, Busy
<1>3. \A p \in Pid : Knows(p)'
  BY <1>1 DEF LockInv, Knows, PastLock, Supervisors
<1> QED  BY <1>2, <1>3 DEF LockInv

\* A script goes from one place to another and leaves the locks alone.
LEMMA GoesOn ==
    ASSUME LockInv, NEW p \in Pid, NEW l \in PCs \ {"idle"},
           pc[p] # "idle", Goto(p, l), l \in Supervising <=> pc[p] \in Supervising,
           UNCHANGED <<kind, mod, lock, boot>>,
           target' \in [Pid -> Pid \cup {NONE}],
           \A q \in Pid \ {p} : target'[q] = target[q],
           Knows(p)'
    PROVE  LockInv'
<1> USE DEF LockInv
<1>1. Typed'  BY DEF Typed, Goto
<1>2. \A q \in Pid : /\ pc'[q] = (IF q = p THEN l ELSE pc[q])
                     /\ pc'[q] \in Supervising <=> pc[q] \in Supervising
                     /\ pc'[q] = "idle" <=> pc[q] = "idle"
  BY DEF Typed, Goto
<1>3. Alone'  BY <1>2 DEF Alone, Busy
<1>4. Owners'  BY <1>2 DEF Owners
<1>5. \A m : Supervisors(m)' = Supervisors(m)  BY <1>2 DEF Supervisors
<1>6. \A q \in Pid \ {p} : Knows(q)'  BY <1>2, <1>5 DEF Knows, PastLock
<1> QED  BY <1>1, <1>3, <1>4, <1>6

\* A script comes to its end.
LEMMA Ends ==
    ASSUME LockInv, NEW p \in Pid, Busy(p), Finish(p),
           UNCHANGED <<lock, boot>>,
           target' \in [Pid -> Pid \cup {NONE}],
           \A q \in Pid \ {p} : target'[q] = target[q]
    PROVE  LockInv'
<1> USE DEF LockInv
<1>1. Typed'  BY DEF Typed, Finish, Goto, PCs
<1>2. /\ pc'[p] = "idle" /\ pc[p] \notin Supervising \cup {"idle"}
      /\ \A q \in Pid \ {p} : pc'[q] = pc[q] /\ mod'[q] = mod[q] /\ kind'[q] = kind[q]
  BY DEF Typed, Finish, Goto, Busy
<1>3. Alone'  BY <1>2 DEF Alone, Busy
<1>4. Owners'  BY <1>2 DEF Owners
<1>5. \A m : Supervisors(m)' = Supervisors(m)
  BY <1>2 DEF Supervisors, Supervising
<1>6. \A q \in Pid \ {p} : Knows(q)'  BY <1>2, <1>5 DEF Knows, PastLock
<1>7. Knows(p)'  BY <1>2 DEF Knows, PastLock, BothPC, Supervising
<1> QED  BY <1>1, <1>3, <1>4, <1>6, <1>7

\* A script is run: no other one is under way for its module.
LEMMA Begins ==
    ASSUME LockInv, Overlap # "any", NEW p \in Pid, NEW k \in {"start", "stop"},
           NEW m \in Module, NEW l \in {"params", "open", "freeRead", "lock"},
           Run(p, k, m, l), l \in {"params", "open"} => k = "start",
           UNCHANGED <<target, lock, boot>>
    PROVE  LockInv'
<1> USE DEF LockInv
<1>1. Typed'
  BY DEF Typed, Run, MayRun, Goto, PCs, BothPC, StartPC, StopPC
<1>2. /\ pc[p] = "idle" /\ pc'[p] = l /\ mod'[p] = m /\ kind'[p] = k
      /\ \A n \in Module : lock[n] # p
      /\ \A q \in Pid \ {p} : pc'[q] = pc[q] /\ mod'[q] = mod[q] /\ kind'[q] = kind[q]
  BY DEF Typed, Run, Goto
<1>3. \A q \in Pid : Busy(q) => mod[q] # m  BY DEF Run, MayRun
<1>4. Alone'  BY <1>2, <1>3 DEF Alone, Busy
<1>5. Owners'  BY <1>2 DEF Owners
<1>6. \A n : Supervisors(n)' = Supervisors(n)
  BY <1>2 DEF Supervisors, Supervising
<1>7. \A q \in Pid \ {p} : Knows(q)'  BY <1>2, <1>6 DEF Knows, PastLock
<1>8. Knows(p)'  BY <1>2 DEF Knows, PastLock, BothPC, Supervising
<1> QED  BY <1>1, <1>4, <1>5, <1>7, <1>8

\* A script changes the lock of its module, which no other one relies on.
LEMMA Locks ==
    ASSUME LockInv, NEW p \in Pid, Busy(p), NEW l \in PCs \ {"idle"}, Goto(p, l),
           NEW v \in {"absent", "empty", p}, lock' = [lock EXCEPT ![mod[p]] = v],
           UNCHANGED <<kind, mod, target, boot>>,
           Supervisors(mod[p]) = {},
           v = p <=> l \in Supervising,
           Knows(p)'
    PROVE  LockInv'
<1> USE DEF LockInv
<1>1. Typed'  BY DEF Typed, Goto, Busy
<1>2. /\ pc'[p] = l /\ pc[p] \notin {"idle"} \cup Supervising /\ mod[p] \in Module
      /\ \A q \in Pid \ {p} : pc'[q] = pc[q]
      /\ lock'[mod[p]] = v
      /\ \A m \in Module \ {mod[p]} : lock'[m] = lock[m]
  BY DEF Typed, Goto, Busy
<1>3. \A q \in Pid \ {p} : pc[q] # "idle" => mod[q] # mod[p] /\ mod[q] \in Module
  BY <1>2 DEF Typed, Alone, Busy, Supervisors
<1>4. Alone'  BY <1>2 DEF Alone, Busy
<1>5. Owners'
  BY <1>2, WatchdogAssumption DEF Owners, Typed
<1>6. \A q \in Pid \ {p} : pc[q] # "idle" => Supervisors(mod[q])' = Supervisors(mod[q])
  BY <1>2, <1>3 DEF Supervisors
<1>7. ASSUME NEW q \in Pid \ {p} PROVE Knows(q)'
  <2>1. CASE pc[q] = "idle"
    BY <1>2, <2>1 DEF Knows, PastLock, BothPC, Supervising
  <2>2. CASE pc[q] # "idle"
    BY <1>2, <1>3, <1>6, <2>2 DEF Knows, PastLock
  <2> QED  BY <2>1, <2>2
<1> QED  BY <1>1, <1>4, <1>5, <1>7

\* stopmodule kills the supervisor, if the pid in the lock was one.
LEMMA Kills == ASSUME LockInv, NEW p \in Pid, KillSupervisor(p) PROVE LockInv'
<1> USE DEF LockInv
<1>0. PICK t : t = target[p]  OBVIOUS
<1>1. /\ pc[p] = "kill" /\ t \in Pid /\ mod[p] \in Module /\ lock[mod[p]] = t
      /\ pc[t] = "idle" \/ (pc[t] \in Supervising /\ mod[t] = mod[p])
      /\ UNCHANGED <<kind, target, lock, boot>>
  BY <1>0 DEF KillSupervisor, Typed, Knows, Owners
<1>2. t # p  BY <1>1 DEF Supervising
<1>3. /\ pc'[p] = "killScan" /\ mod'[p] = mod[p] /\ pc'[t] = "idle"
      /\ \A q \in Pid \ {p, t} : pc'[q] = pc[q] /\ mod'[q] = mod[q]
  BY <1>0, <1>1, <1>2 DEF KillSupervisor, Typed
<1>4. Typed'  BY <1>0, <1>1, <1>2 DEF KillSupervisor, Typed, PCs, StopPC
<1>5. Alone'  BY <1>1, <1>3 DEF Alone, Busy, Supervising
<1>6. Owners'  BY <1>1, <1>3 DEF Owners, Supervising
<1>7. \A q \in Pid : Busy(q) => pc'[q] \notin {"idle"} \cup Supervising /\ mod'[q] = mod[q]
  BY <1>1, <1>3 DEF Busy, Supervising
<1>8. \A m : Supervisors(m)' \subseteq Supervisors(m)
  BY <1>1, <1>3 DEF Supervisors, Supervising
<1>9. Supervisors(mod[p])' = {}
  <2> SUFFICES ASSUME NEW q \in Supervisors(mod[p])' PROVE FALSE  OBVIOUS
  <2>1. q \in Pid /\ pc[q] \in Supervising /\ mod[q] = mod[p]
    BY <1>1, <1>3 DEF Supervisors, Supervising
  <2>2. q = t  BY <1>1, <2>1 DEF Knows
  <2> QED  BY <1>3, <2>2 DEF Supervisors, Supervising
<1>10. Knows(p)'  BY <1>0, <1>1, <1>3, <1>9 DEF Knows, PastLock, BothPC, Supervising
<1>11. Knows(t)'  BY <1>3 DEF Knows, PastLock, BothPC, Supervising
<1>12. ASSUME NEW q \in Pid \ {p, t} PROVE Knows(q)'
  BY <1>1, <1>3, <1>8 DEF Knows, PastLock
<1> QED  BY <1>4, <1>5, <1>6, <1>10, <1>11, <1>12

\* Nothing runs after a reboot, and until the locks are gone.
LEMMA Boots == LockInv /\ (Reboot \/ BootUnlink) => LockInv'
<1> SUFFICES ASSUME LockInv, Reboot \/ BootUnlink PROVE LockInv'  OBVIOUS
<1> USE DEF LockInv
<1>1. CASE Reboot
  <2>1. \A p \in Pid : pc'[p] = "idle"  BY <1>1 DEF Reboot
  <2>2. Typed'  BY <1>1, <2>1 DEF Reboot, Typed, PCs
  <2>3. Alone' /\ Owners' /\ \A p \in Pid : Knows(p)'
    BY <2>1 DEF Alone, Busy, Owners, Knows, PastLock, BothPC, Supervising
  <2> QED  BY <2>2, <2>3
<1>2. CASE BootUnlink
  <2>1. /\ \A p \in Pid : pc[p] = "idle"
        /\ UNCHANGED <<pc, kind, mod, target>>
        /\ lock' = NoLocks /\ boot' = "up"
    BY <1>2 DEF BootUnlink, Typed, script
  <2>2. Typed'  BY <2>1 DEF NoLocks, Typed
  <2>3. Alone' /\ Owners' /\ \A p \in Pid : Knows(p)'
    BY <2>1 DEF Alone, Busy, Owners, Knows, PastLock, BothPC, Supervising
  <2> QED  BY <2>2, <2>3
<1> QED  BY <1>1, <1>2

LEMMA StartSteps ==
    ASSUME LockInv, NEW p \in Pid, StartStep(p) \/ ForkFails(p) \/ Exec(p)
    PROVE  LockInv'
<1> USE DEF LockInv
<1>1. CASE DeclareDeviceAsUsed(p)
  <2>1. Knows(p)'
    BY <1>1 DEF DeclareDeviceAsUsed, Goto, Typed, Knows, PastLock, BothPC, Supervising
  <2>2. /\ "check" \in PCs \ {"idle"} /\ "check" \notin Supervising
        /\ pc[p] # "idle" /\ pc[p] \notin Supervising
    BY <1>1 DEF DeclareDeviceAsUsed, PCs, StartPC, Supervising
  <2>3. target' \in [Pid -> Pid \cup {NONE}] /\ \A q \in Pid \ {p} : target'[q] = target[q]
    BY <1>1 DEF DeclareDeviceAsUsed, Typed
  <2> QED  BY <1>1, <2>1, <2>2, <2>3, GoesOn DEF DeclareDeviceAsUsed
<1>8. CASE WriteParams(p)
  <2>4. pc'[p] = "open" /\ kind'[p] = "start"
    BY <1>8 DEF WriteParams, Goto, Typed, Knows
  <2>1. Knows(p)'  BY <2>4 DEF Knows, PastLock, Supervising
  <2>2. /\ "open" \in PCs \ {"idle"} /\ "open" \notin Supervising
        /\ pc[p] # "idle" /\ pc[p] \notin Supervising
    BY <1>8 DEF WriteParams, PCs, BothPC, Supervising
  <2>3. target' \in [Pid -> Pid \cup {NONE}] /\ \A q \in Pid \ {p} : target'[q] = target[q]
    BY <1>8 DEF WriteParams, Typed
  <2> QED  BY <1>8, <2>1, <2>2, <2>3, GoesOn DEF WriteParams
<1>2. CASE CheckLock(p)
  <2>1. CASE ~Locked(mod[p]) /\ Goto(p, "touch") /\ UNCHANGED <<kind, mod>>
    <3>1. Knows(p)'
      BY <1>2, <2>1 DEF CheckLock, Goto, Locked, Typed, Knows, PastLock, BothPC, Supervising
    <3> QED
      BY <1>2, <2>1, <3>1, GoesOn DEF CheckLock, Typed, PCs, StartPC, Supervising
  <2>2. CASE Finish(p)
    BY <1>2, <2>2, Ends DEF CheckLock, Typed, Busy, Supervising
  <2> QED  BY <1>2, <2>1, <2>2 DEF CheckLock
<1>3. CASE TouchLock(p)
  <2>1. pc[p] = "touch" /\ mod[p] \in Module /\ lock[mod[p]] = "absent"
    BY <1>3 DEF TouchLock, Typed, Knows
  <2>2. Supervisors(mod[p]) = {}
    BY <2>1, WatchdogAssumption DEF Supervisors, Knows
  <2>3. Knows(p)'
    BY <1>3, <2>1 DEF TouchLock, Goto, Typed, Knows, PastLock, BothPC, Supervising
  <2>4. /\ "empty" # p /\ Busy(p)
        /\ "pid" \in PCs \ {"idle"} /\ "pid" \notin Supervising
    BY <2>1, WatchdogAssumption DEF PCs, StartPC, Supervising, Busy
  <2> QED  BY <1>3, <2>2, <2>3, <2>4, Locks DEF TouchLock
<1>4. CASE WritePid(p)
  <2>1. pc[p] = "pid" /\ mod[p] \in Module /\ lock[mod[p]] = "empty"
    BY <1>4 DEF WritePid, Typed, Knows
  <2>2. Supervisors(mod[p]) = {}
    BY <2>1, WatchdogAssumption DEF Supervisors, Knows
  <2>3. Knows(p)'
    BY <1>4, <2>1 DEF WritePid, Goto, Typed, Knows, PastLock, BothPC, Supervising
  <2> QED
    BY <1>4, <2>1, <2>2, <2>3, Locks DEF WritePid, PCs, StartPC, Supervising, Busy
<1>5. ASSUME NEW l \in {"child", "scan", "launch"}, Goto(p, l), pc[p] \in Supervising,
             UNCHANGED <<kind, mod, target, lock, boot>>
      PROVE  LockInv'
  <2>1. Knows(p)'
    BY <1>5 DEF Goto, Typed, Knows, PastLock, BothPC, Supervising
  <2> QED  BY <1>5, <2>1, GoesOn DEF Typed, PCs, StartPC, Supervising
<1>6. CASE Fork(p) \/ ForkFails(p) \/ ModuleClosed(p)
  BY <1>5, <1>6 DEF Fork, ForkFails, ModuleClosed, Supervising
<1>7. CASE Exec(p)
  <2>1. CASE pc[p] = "child"  BY <1>5, <1>7, <2>1 DEF Exec, Supervising
  <2>2. CASE pc[p] # "child"
    BY <1>7, <2>2, Stays DEF Exec, locking, script
  <2> QED  BY <2>1, <2>2
<1> QED  BY <1>1, <1>2, <1>3, <1>4, <1>6, <1>7, <1>8 DEF StartStep

LEMMA StopSteps == ASSUME LockInv, NEW p \in Pid, StopStep(p) PROVE LockInv'
<1> USE DEF LockInv
<1>1. ASSUME NEW l \in {"freeTruncate", "freeWrite", "lock"}, Goto(p, l),
             pc[p] \in {"freeRead", "freeTruncate", "freeWrite"},
             UNCHANGED <<kind, mod, target, lock, boot>>
      PROVE  LockInv'
  <2>1. Knows(p)'
    BY <1>1 DEF Goto, Typed, Knows, PastLock, BothPC, Supervising
  <2> QED  BY <1>1, <2>1, GoesOn DEF Typed, PCs, StopPC, Supervising
<1>2. CASE FreeRead(p) \/ FreeTruncate(p) \/ FreeWrite(p)
  BY <1>1, <1>2 DEF FreeRead, FreeTruncate, FreeWrite
<1>3. CASE ReadLock(p)
  <2>1. pc[p] = "lock" /\ mod[p] \in Module  BY <1>3 DEF ReadLock, Typed
  <2>2. CASE /\ lock[mod[p]] \in Pid
             /\ target' = [target EXCEPT ![p] = lock[mod[p]]]
             /\ Goto(p, "kill")
    <3>1. Knows(p)'
      BY <1>3, <2>1, <2>2 DEF ReadLock, Goto, Typed, Knows, PastLock, BothPC, Supervising
    <3>2. target' \in [Pid -> Pid \cup {NONE}] /\ \A q \in Pid \ {p} : target'[q] = target[q]
      BY <2>2 DEF Typed
    <3> QED
      BY <1>3, <2>1, <2>2, <3>1, <3>2, GoesOn DEF ReadLock, PCs, StopPC, Supervising
  <2>3. CASE Unlocked(p) /\ Goto(p, "open") /\ UNCHANGED target
    <3>1. Supervisors(mod[p]) = {}
      BY <2>1, <2>3 DEF Unlocked, Supervisors, Knows
    <3>2. Supervisors(mod[p])' = {}
      BY <1>3, <2>1, <2>3, <3>1 DEF ReadLock, Goto, Typed, Supervisors, Supervising
    <3>3. Knows(p)'
      BY <1>3, <2>3, <3>2 DEF ReadLock, Goto, Typed, Knows, PastLock, BothPC, Supervising
    <3> QED
      BY <1>3, <2>1, <2>3, <3>3, GoesOn DEF ReadLock, Typed, PCs, BothPC, Supervising
  <2> QED  BY <1>3, <2>2, <2>3 DEF ReadLock
<1>4. CASE KillSupervisor(p)  BY <1>4, Kills
<1>5. CASE KillProcesses(p)  BY <1>5, Stays DEF KillProcesses, locking
<1>6. CASE ModuleStopped(p)
  <2>1. Supervisors(mod[p]) = {}  BY <1>6 DEF ModuleStopped, Knows, PastLock
  <2>2. Supervisors(mod[p])' = {}
    BY <1>6, <2>1 DEF ModuleStopped, Goto, Typed, Supervisors, Supervising
  <2>3. Knows(p)'
    BY <1>6, <2>2 DEF ModuleStopped, Goto, Typed, Knows, PastLock, BothPC, Supervising
  <2> QED
    BY <1>6, <2>3, GoesOn DEF ModuleStopped, Typed, PCs, BothPC, Supervising
<1>7. CASE UnlinkLock(p)
  <2>1. pc[p] = "unlinkLock" /\ mod[p] \in Module /\ Supervisors(mod[p]) = {}
    BY <1>7 DEF UnlinkLock, Typed, Knows, PastLock
  <2>2. Knows(p)'
    BY <1>7, <2>1 DEF UnlinkLock, Goto, Typed, Knows, PastLock, BothPC, Supervising
  <2>3. /\ "absent" # p /\ Busy(p)
        /\ "unlinkParams" \in PCs \ {"idle"} /\ "unlinkParams" \notin Supervising
    BY <2>1, WatchdogAssumption DEF PCs, StopPC, Supervising, Busy
  <2> QED  BY <1>7, <2>1, <2>2, <2>3, Locks DEF UnlinkLock
<1>8. CASE UnlinkParams(p)
  BY <1>8, Ends DEF UnlinkParams, Typed, Busy, Supervising
<1> QED
  BY <1>2, <1>3, <1>4, <1>5, <1>6, <1>7, <1>8 DEF StopStep

LEMMA RewriteSteps == ASSUME LockInv, NEW p \in Pid, RewriteStep(p) PROVE LockInv'
<1> USE DEF LockInv
<1>1. ASSUME NEW l \in {"read", "write", "move", "device", "unlinkLock"},
             Goto(p, l), pc[p] \in BothPC,
             l = "unlinkLock" => kind[p] = "stop",
             UNCHANGED <<kind, mod, target, lock, boot>>
      PROVE  LockInv'
  <2>5. pc'[p] = l /\ (\A q \in Pid \ {p} : pc'[q] = pc[q]) /\ mod' = mod
    BY <1>1 DEF Goto, Typed
  <2>1. Supervisors(mod[p])' = Supervisors(mod[p])
    BY <1>1, <2>5 DEF Supervisors, Supervising, BothPC
  <2>2. Knows(p)'
    BY <1>1, <2>1, <2>5 DEF Goto, Typed, Knows, PastLock, BothPC, Supervising
  <2>3. /\ l \in PCs \ {"idle"} /\ l \notin Supervising
        /\ pc[p] # "idle" /\ pc[p] \notin Supervising
    BY <1>1 DEF PCs, StartPC, StopPC, BothPC, Supervising
  <2>4. target' \in [Pid -> Pid \cup {NONE}] /\ \A q \in Pid \ {p} : target'[q] = target[q]
    BY <1>1 DEF Typed
  <2> QED  BY <1>1, <2>2, <2>3, <2>4, GoesOn
<1>2. CASE \E s \in Second, i \in Inode : RewriteOpen(p, s, i)
  BY <1>1, <1>2 DEF RewriteOpen, BothPC
<1>3. CASE RewriteWrite(p)  BY <1>1, <1>3 DEF RewriteWrite, BothPC
<1>5. CASE RewriteRead(p)  BY <1>1, <1>5 DEF RewriteRead, BothPC
<1>4. CASE RewriteMove(p)  BY <1>1, <1>4 DEF RewriteMove, BothPC, Typed
<1> QED  BY <1>2, <1>3, <1>4, <1>5 DEF RewriteStep

LEMMA Runs ==
    ASSUME LockInv, Overlap # "any", NEW p \in Pid,
           \/ \E m \in Module : StartWithArguments(p, m) \/ StartFromParams(p, m) \/ Stop(p, m)
           \/ BootNext(p)
    PROVE  LockInv'
<1> USE DEF LockInv
<1>1. ASSUME NEW m \in Module, StartWithArguments(p, m) PROVE LockInv'
  BY <1>1, Begins DEF StartWithArguments
<1>2. ASSUME NEW m \in Module, StartFromParams(p, m) PROVE LockInv'
  BY <1>2, Begins DEF StartFromParams
<1>3. ASSUME NEW m \in Module, Stop(p, m) PROVE LockInv'
  <2>1. CASE m \in Startable
    <3>1. Run(p, "stop", m, "freeRead")  BY <1>3, <2>1 DEF Stop
    <3> QED  BY <1>3, <3>1, Begins DEF Stop
  <2>2. CASE m \notin Startable
    <3>1. Run(p, "stop", m, "lock")  BY <1>3, <2>2 DEF Stop
    <3> QED  BY <1>3, <3>1, Begins DEF Stop
  <2> QED  BY <2>1, <2>2
<1>4. CASE BootNext(p)
  <2>1. CASE Head(queue) \in Startable /\ Run(p, "start", Head(queue), "open")
    <3>1. Head(queue) \in Module  BY <2>1 DEF Startable
    <3> QED  BY <1>4, <2>1, <3>1, Begins DEF BootNext
  <2>2. CASE UNCHANGED script
    BY <1>4, <2>2, Stays DEF BootNext, locking
  <2> QED  BY <1>4, <2>1, <2>2 DEF BootNext
<1> QED  BY <1>1, <1>2, <1>3, <1>4

LEMMA StepLock == Overlap # "any" /\ LockInv /\ [Next]_vars => LockInv'
<1> SUFFICES ASSUME Overlap # "any", LockInv, [Next]_vars PROVE LockInv'  OBVIOUS
<1>1. CASE \E m \in Module : Terminate(m)
  BY <1>1, Stays DEF Terminate, locking
<1>2. CASE UNCHANGED vars  BY <1>2, Stays DEF vars, locking
<1> QED
  BY <1>1, <1>2, Runs, StartSteps, StopSteps, RewriteSteps, Boots DEF Next

\* As long as the operator runs no two scripts for the same module at a time,
\* the lock file of a supervised module has its supervisor's pid, whatever the
\* scripts of other modules do, supervisors are killed and the system reboots:
\* a module has one supervisor at most, and stopmodule can kill it.
THEOREM LockTellsSupervisor == Spec => []SupervisorHoldsLock
<1>1. CASE Overlap = "any"
  <2>1. SupervisorHoldsLock  BY <1>1 DEF SupervisorHoldsLock
  <2> QED  BY <2>1, PTL
<1>2. CASE Overlap # "any"
  <2>1. LockInv => SupervisorHoldsLock
    BY DEF LockInv, Knows, SupervisorHoldsLock
  <2>2. LockInv /\ [Next]_vars => LockInv'  BY <1>2, StepLock
  <2> QED  BY <2>1, <2>2, InitLock, PTL DEF Spec
<1> QED  BY <1>1, <1>2

-----------------------------------------------------------------------------
(* The lines of started.conf.                                              *)

\* No line twice.
OnceEach(s) == \A i, j \in 1 .. Len(s) : s[i] = s[j] => i = j

\* What the loop has kept after i lines: there is a function that obeys the
\* recursion.
Kept(f, s, m, n) ==
    f = [i \in 0 .. n |-> IF i = 0 THEN <<>>
                          ELSE IF s[i] = m THEN f[i - 1] ELSE Append(f[i - 1], s[i])]

LEMMA KeptExists ==
    ASSUME NEW s \in Seq(Module), NEW m
    PROVE  \E f : Kept(f, s, m, Len(s))
<1>0. Len(s) \in Nat  BY LenProperties
<1> DEFINE T == {n \in 0 .. Len(s) : ~\E f : Kept(f, s, m, n)}
<1>1. T = {}
  <2> SUFFICES ASSUME T # {} PROVE FALSE  OBVIOUS
  <2>1. T \in SUBSET Nat  BY <1>0
  <2>2. PICK n \in T : \A k \in T : n <= k  BY <2>1, LeastNat
  <2>3. n \in 0 .. Len(s) /\ n \in Nat  BY <1>0, <2>2
  <2>4. CASE n = 0
    <3>1. PICK f : f = [i \in 0 .. 0 |-> <<>>]  OBVIOUS
    <3>2. \A i \in 0 .. 0 : i = 0  OBVIOUS
    <3>3. Kept(f, s, m, 0)  BY <3>1, <3>2 DEF Kept
    <3> QED  BY <2>2, <2>4, <3>3
  <2>5. CASE n # 0
    <3>1. n - 1 \in 0 .. Len(s) /\ n - 1 \notin T  BY <1>0, <2>2, <2>3, <2>5
    <3>2. PICK f : Kept(f, s, m, n - 1)  BY <3>1
    <3>3. PICK g : g = [i \in 0 .. n |->
                           IF i < n THEN f[i]
                           ELSE IF s[n] = m THEN f[n - 1] ELSE Append(f[n - 1], s[n])]
      OBVIOUS
    <3>4. \A i \in 0 .. n - 1 : g[i] = f[i]  BY <2>3, <3>3
    <3>5. g[n] = IF s[n] = m THEN f[n - 1] ELSE Append(f[n - 1], s[n])  BY <2>3, <3>3
    <3>6. \A i \in 0 .. n - 1 : f[i] = IF i = 0 THEN <<>>
                          ELSE IF s[i] = m THEN f[i - 1] ELSE Append(f[i - 1], s[i])
      BY <3>2, Zenon DEF Kept
    <3>7. \A i \in 0 .. n : g[i] = IF i = 0 THEN <<>>
                          ELSE IF s[i] = m THEN g[i - 1] ELSE Append(g[i - 1], s[i])
      <4> SUFFICES ASSUME NEW i \in 0 .. n
                   PROVE  g[i] = IF i = 0 THEN <<>>
                          ELSE IF s[i] = m THEN g[i - 1] ELSE Append(g[i - 1], s[i])
        OBVIOUS
      <4>1. CASE i = n
        <5>1. n - 1 \in 0 .. n - 1  BY <2>3, <2>5
        <5>2. g[n - 1] = f[n - 1]  BY <3>4, <5>1
        <5> QED  BY <2>5, <3>5, <4>1, <5>2
      <4>2. CASE i # n
        <5>1. i \in 0 .. n - 1 /\ (i # 0 => i - 1 \in 0 .. n - 1)  BY <2>3, <4>2
        <5>2. g[i] = f[i] /\ (i # 0 => g[i - 1] = f[i - 1])  BY <3>4, <5>1
        <5> QED  BY <3>6, <5>1, <5>2
      <4> QED  BY <4>1, <4>2
    <3>8. Kept(g, s, m, n)  BY <3>3, <3>7 DEF Kept
    <3> QED  BY <2>2, <3>8
  <2> QED  BY <2>4, <2>5
<1>2. Len(s) \in 0 .. Len(s)  BY <1>0
<1> QED  BY <1>1, <1>2

\* The lines without a module are the others, and none of them comes twice
\* that did not before.
LEMMA WithoutIs ==
    ASSUME NEW s \in Seq(Module), NEW m
    PROVE  /\ Without(s, m) \in Seq(Module)
           /\ ToSet(Without(s, m)) = ToSet(s) \ {m}
           /\ OnceEach(s) => OnceEach(Without(s, m))
<1>0. Len(s) \in Nat /\ \A i \in 1 .. Len(s) : s[i] \in Module  BY LenProperties, ElementOfSeq
<1>1. PICK f : f = CHOOSE g : Kept(g, s, m, Len(s))  OBVIOUS
<1>2. Without(s, m) = f[Len(s)]
  BY <1>1 DEF Without, Kept
<1>3. \A i \in 0 .. Len(s) : f[i] = IF i = 0 THEN <<>>
                          ELSE IF s[i] = m THEN f[i - 1] ELSE Append(f[i - 1], s[i])
  <2>1. Kept(f, s, m, Len(s))  BY <1>1, KeptExists
  <2> QED  BY <2>1, Zenon DEF Kept
<1> DEFINE Good(i) == /\ f[i] \in Seq(Module)
                      /\ \A x : (\E k \in 1 .. Len(f[i]) : f[i][k] = x) <=>
                                   x # m /\ \E k \in 1 .. i : s[k] = x
                      /\ OnceEach(s) => OnceEach(f[i])
           T == {n \in 0 .. Len(s) : ~Good(n)}
<1>4. T = {}
  <2> SUFFICES ASSUME T # {} PROVE FALSE  OBVIOUS
  <2>1. T \in SUBSET Nat  BY <1>0
  <2>2. PICK n \in T : \A k \in T : n <= k  BY <2>1, LeastNat
  <2>3. n \in 0 .. Len(s) /\ n \in Nat /\ ~Good(n)  BY <1>0, <2>2
  <2>4. CASE n = 0
    <3>1. f[0] = <<>> /\ Len(f[0]) = 0 /\ f[0] \in Seq(Module)
      <4>1. f[0] = <<>>  BY <1>3, <2>3, <2>4
      <4> QED  BY <4>1, EmptySeq
    <3> QED  BY <2>3, <2>4, <3>1 DEF OnceEach
  <2>5. CASE n # 0
    <3>1. n - 1 \in 0 .. Len(s) /\ n - 1 \notin T
      <4>1. n - 1 \in 0 .. Len(s) /\ ~(n <= n - 1)  BY <1>0, <2>3, <2>5
      <4> HIDE DEF T
      <4> QED  BY <2>2, <4>1
    <3>2. Good(n - 1)  BY <3>1
    <3>3. PICK u : u = f[n - 1]  OBVIOUS
    <3>4. n \in 1 .. Len(s) /\ s[n] \in Module /\ n \in 1 .. n
          /\ \A k \in 1 .. n : k \in 1 .. n - 1 \/ k = n
      BY <1>0, <2>3, <2>5
    <3>40. 1 .. n - 1 \subseteq 1 .. n /\ 1 .. n \subseteq 1 .. Len(s)  BY <1>0, <2>3
    <3>5. CASE s[n] = m
      <4>1. f[n] = u  BY <1>3, <2>3, <2>5, <3>3, <3>5
      <4>2. \A x : x # m => ((\E k \in 1 .. n : s[k] = x) <=> (\E k \in 1 .. n - 1 : s[k] = x))
        BY <3>4, <3>40, <3>5
      <4>3. Good(n)  BY <3>2, <3>3, <4>1, <4>2
      <4> QED  BY <2>3, <4>3
    <3>6. CASE s[n] # m
      <4>1. f[n] = Append(u, s[n])  BY <1>3, <2>3, <2>5, <3>3, <3>6
      <4>2. /\ u \in Seq(Module) /\ Len(u) \in Nat /\ (OnceEach(s) => OnceEach(u))
            /\ \A x : (\E k \in 1 .. Len(u) : u[k] = x) <=> x # m /\ \E k \in 1 .. n - 1 : s[k] = x
        BY <3>2, <3>3, LenProperties
      <4>3. /\ f[n] \in Seq(Module) /\ Len(f[n]) = Len(u) + 1
            /\ \A i \in 1 .. Len(u) : f[n][i] = u[i]
            /\ f[n][Len(u) + 1] = s[n]
        BY <3>4, <4>1, <4>2, AppendProperties
      <4>4. \A k \in 1 .. Len(u) + 1 : k \in 1 .. Len(u) \/ k = Len(u) + 1  BY <4>2
      <4>40. Len(u) + 1 \in 1 .. Len(u) + 1 /\ 1 .. Len(u) \subseteq 1 .. Len(u) + 1  BY <4>2
      <4>5. ASSUME NEW x
            PROVE  (\E k \in 1 .. Len(f[n]) : f[n][k] = x) <=> x # m /\ \E k \in 1 .. n : s[k] = x
        <5>1. (\E k \in 1 .. Len(u) + 1 : f[n][k] = x) <=>
                  (x = s[n] \/ \E k \in 1 .. Len(u) : u[k] = x)
          BY <4>3, <4>4, <4>40
        <5>2. (\E k \in 1 .. n : s[k] = x) <=> (x = s[n] \/ \E k \in 1 .. n - 1 : s[k] = x)
          BY <3>4, <3>40
        <5> QED  BY <3>6, <4>2, <4>3, <5>1, <5>2
      <4>6. ASSUME OnceEach(s) PROVE OnceEach(f[n])
        <5> SUFFICES ASSUME NEW i \in 1 .. Len(u) + 1, NEW j \in 1 .. Len(u) + 1,
                            f[n][i] = f[n][j]
                     PROVE  i = j
          BY <4>3 DEF OnceEach
        <5>1. ~\E k \in 1 .. Len(u) : u[k] = s[n]
          <6>1. ~\E k \in 1 .. n - 1 : s[k] = s[n]
            <7> SUFFICES ASSUME NEW k \in 1 .. n - 1, s[k] = s[n] PROVE FALSE  OBVIOUS
            <7>1. k \in 1 .. Len(s)  BY <3>40
            <7>2. k # n  BY <2>3
            <7> QED  BY <3>4, <4>6, <7>1, <7>2 DEF OnceEach
          <6> QED  BY <4>2, <6>1
        <5>2. CASE i = Len(u) + 1 /\ j # Len(u) + 1  BY <4>3, <4>4, <5>1, <5>2
        <5>3. CASE j = Len(u) + 1 /\ i # Len(u) + 1  BY <4>3, <4>4, <5>1, <5>3
        <5>4. CASE i # Len(u) + 1 /\ j # Len(u) + 1
          <6>1. i \in 1 .. Len(u) /\ j \in 1 .. Len(u) /\ u[i] = u[j]  BY <4>3, <4>4, <5>4
          <6> QED  BY <4>2, <4>6, <6>1 DEF OnceEach
        <5> QED  BY <5>2, <5>3, <5>4
      <4>7. Good(n)  BY <4>3, <4>5, <4>6
      <4> QED  BY <2>3, <4>7
    <3> QED  BY <3>5, <3>6
  <2> QED  BY <2>4, <2>5
<1>5. Len(s) \in 0 .. Len(s)  BY <1>0
<1>6. Good(Len(s))  BY <1>4, <1>5
<1>7. PICK t : t = Without(s, m)  OBVIOUS
<1>8. /\ t \in Seq(Module) /\ DOMAIN t = 1 .. Len(t) /\ DOMAIN s = 1 .. Len(s)
      /\ \A x : (\E k \in 1 .. Len(t) : t[k] = x) <=> x # m /\ \E k \in 1 .. Len(s) : s[k] = x
      /\ OnceEach(s) => OnceEach(t)
  BY <1>2, <1>6, <1>7, LenProperties
<1>9. ToSet(t) = ToSet(s) \ {m}
  BY <1>8 DEF ToSet
<1> QED  BY <1>7, <1>8, <1>9

-----------------------------------------------------------------------------
(* The types.                                                              *)

\* What is known of the variables of a script from where it is.
Filled(p) ==
    /\ pc[p] # "idle" => mod[p] \in Module
    /\ pc[p] = "kill" => target[p] \in Pid
    /\ pc[p] \in {"read", "write"} => handle[p] \in Inode
    /\ pc[p] \in {"read", "write", "move"} => second[p] \in Second

TypeInv == TypeOK /\ \A p \in Pid : Filled(p)

LEMMA InitTypes == Init => TypeInv
<1> SUFFICES ASSUME Init PROVE TypeInv  OBVIOUS
<1>1. <<>> \in Seq(Module)  BY EmptySeq
<1>2. TypeOK  BY <1>1 DEF Init, TypeOK
<1>3. \A p \in Pid : Filled(p)  BY DEF Init, Filled
<1> QED  BY <1>2, <1>3 DEF TypeInv

\* The lines of started.conf, with and without a module, are modules.
LEMMA LinesTyped ==
    ASSUME TypeInv, NEW m \in Module
    PROVE  WithoutModule(m) \in Seq(Module) /\ Append(WithoutModule(m), m) \in Seq(Module)
<1>1. content[conf] \in Seq(Module)  BY DEF TypeInv, TypeOK
<1>2. WithoutModule(m) \in Seq(Module)  BY <1>1, WithoutIs DEF WithoutModule
<1> QED  BY <1>2, AppendProperties

\* A script is run.
LEMMA RunTypes ==
    ASSUME TypeInv, NEW p \in Pid, NEW k \in {"start", "stop"}, NEW m \in Module,
           NEW l \in {"params", "open", "freeRead", "lock"}, Run(p, k, m, l),
           UNCHANGED <<rewrite, others, target, child, lock, used, running, boot>>,
           params' \in [Module -> {"absent", "empty", "whole"}], left' \subseteq Module,
           queue' \in Seq(Module)
    PROVE  TypeInv'
<1>1. TypeOK'
  BY DEF TypeInv, TypeOK, Run, Goto, StartPC, BothPC, StopPC, rewrite
<1>2. ASSUME NEW q \in Pid PROVE Filled(q)'
  BY DEF TypeInv, TypeOK, Filled, Run, Goto, rewrite
<1> QED  BY <1>1, <1>2 DEF TypeInv

LEMMA StepTypes == TypeInv /\ [Next]_vars => TypeInv'
<1> SUFFICES ASSUME TypeInv, [Next]_vars PROVE TypeInv'  OBVIOUS
<1>0. TypeOK /\ \A p \in Pid : Filled(p)  BY DEF TypeInv
<1> USE DEF Goto, script, rewrite, StartPC, StopPC, BothPC
<1>1. CASE UNCHANGED vars
  BY <1>1 DEF vars, TypeInv, TypeOK, Filled
<1>2. ASSUME NEW p \in Pid, NEW m \in Module,
             StartWithArguments(p, m) \/ StartFromParams(p, m) \/ Stop(p, m)
      PROVE  TypeInv'
  <2>1. /\ params' \in [Module -> {"absent", "empty", "whole"}]
        /\ left' \subseteq Module /\ queue' \in Seq(Module)
    BY <1>0, <1>2 DEF StartWithArguments, StartFromParams, Stop, TypeOK
  <2>2. PICK k \in {"start", "stop"}, l \in {"params", "open", "freeRead", "lock"} :
          Run(p, k, m, l)
    BY <1>2 DEF StartWithArguments, StartFromParams, Stop
  <2>3. UNCHANGED <<rewrite, others, target, child, lock, used, running, boot>>
    BY <1>2 DEF StartWithArguments, StartFromParams, Stop
  <2> HIDE DEF rewrite
  <2> QED  BY <2>1, <2>2, <2>3, RunTypes
<1>3. ASSUME NEW p \in Pid, BootNext(p) PROVE TypeInv'
  <2>1. /\ Head(queue) \in Module /\ queue' \in Seq(Module)
        /\ params' = params /\ left' = left
    BY <1>0, <1>3, HeadTailProperties DEF BootNext, TypeOK
  <2>2. CASE Run(p, "start", Head(queue), "open")
    <3>1. UNCHANGED <<rewrite, others, target, child, lock, used, running, boot>>
      BY <1>3 DEF BootNext
    <3> HIDE DEF rewrite
    <3> QED  BY <1>0, <2>1, <2>2, <3>1, RunTypes DEF TypeOK
  <2>3. CASE UNCHANGED script
    BY <1>0, <1>3, <2>1, <2>3 DEF BootNext, TypeInv, TypeOK, Filled
  <2> QED  BY <1>3, <2>2, <2>3 DEF BootNext
<1>4. ASSUME NEW p \in Pid, NEW l, Goto(p, l),
             l \in StartPC \cup StopPC \cup {"open"}, l = "kill" => target'[p] \in Pid,
             pc[p] # "idle",
             target' \in [Pid -> Pid \cup {NONE}],
             \A q \in Pid \ {p} : target'[q] = target[q],
             UNCHANGED <<kind, mod, rewrite, queue, boot>>,
             others' \in [Pid -> SUBSET Module], child' \in [Pid -> Module \cup {NONE}],
             params' \in [Module -> {"absent", "empty", "whole"}],
             used' \subseteq Module, left' \subseteq Module, running' \subseteq Module,
             lock' \in [Module -> {"absent", "empty"} \cup Pid]
      PROVE  TypeInv'
  <2>1. TypeOK'  BY <1>0, <1>4 DEF TypeOK
  <2>2. ASSUME NEW q \in Pid PROVE Filled(q)'
    BY <1>0, <1>4 DEF Filled, TypeOK
  <2> QED  BY <2>1, <2>2 DEF TypeInv
<1>5. ASSUME NEW p \in Pid, Finish(p),
             params' \in [Module -> {"absent", "empty", "whole"}],
             target' \in [Pid -> Pid \cup {NONE}],
             \A q \in Pid \ {p} : target'[q] = target[q],
             UNCHANGED <<rewrite, others, child, lock, used, left, running, queue, boot>>
      PROVE  TypeInv'
  <2>1. TypeOK'  BY <1>0, <1>5 DEF TypeOK, Finish
  <2>2. ASSUME NEW q \in Pid PROVE Filled(q)'
    BY <1>0, <1>5 DEF Filled, TypeOK, Finish
  <2> QED  BY <2>1, <2>2 DEF TypeInv
<1>6. ASSUME NEW p \in Pid, StartStep(p) \/ ForkFails(p) PROVE TypeInv'
  <2> HIDE DEF Goto, rewrite
  <2>7. CASE WriteParams(p)
    <3>1. params' \in [Module -> {"absent", "empty", "whole"}] /\ mod[p] \in Module
      BY <1>0, <2>7 DEF WriteParams, TypeOK, Filled
    <3> QED  BY <1>0, <1>4, <2>7, <3>1 DEF WriteParams, TypeOK
  <2>1. CASE DeclareDeviceAsUsed(p)
    BY <1>0, <1>4, <2>1 DEF DeclareDeviceAsUsed, TypeOK, Filled
  <2>2. CASE CheckLock(p)
    BY <1>0, <1>4, <1>5, <2>2 DEF CheckLock, TypeOK, Filled
  <2>3. CASE TouchLock(p)
    BY <1>0, <1>4, <2>3 DEF TouchLock, TypeOK, Filled
  <2>4. CASE WritePid(p)
    BY <1>0, <1>4, <2>4 DEF WritePid, TypeOK, Filled
  <2>5. CASE Fork(p) \/ ForkFails(p)
    BY <1>0, <1>4, <2>5 DEF Fork, ForkFails, TypeOK, Filled
  <2>6. CASE ModuleClosed(p)
    BY <1>0, <1>4, <2>6 DEF ModuleClosed, TypeOK, Filled
  <2> QED  BY <1>6, <2>1, <2>2, <2>3, <2>4, <2>5, <2>6, <2>7 DEF StartStep
<1>7. ASSUME NEW p \in Pid, Exec(p) PROVE TypeInv'
  <2> HIDE DEF Goto, rewrite
  <2>1. child[p] \in Module /\ running' \subseteq Module
        /\ child' \in [Pid -> Module \cup {NONE}]
    BY <1>0, <1>7 DEF Exec, TypeOK
  <2>2. CASE pc[p] = "child"
    BY <1>0, <1>4, <1>7, <2>1, <2>2 DEF Exec, TypeOK
  <2>3. CASE pc[p] # "child"
    BY <1>0, <1>7, <2>1, <2>3 DEF Exec, TypeInv, TypeOK, Filled, rewrite
  <2> QED  BY <2>2, <2>3
<1>8. ASSUME NEW p \in Pid, StopStep(p) PROVE TypeInv'
  <2> HIDE DEF Goto, rewrite
  <2>1. CASE FreeRead(p)
    <3>1. others' \in [Pid -> SUBSET Module]  BY <1>0, <2>1 DEF FreeRead, TypeOK
    <3> QED  BY <1>0, <1>4, <2>1, <3>1 DEF FreeRead, TypeOK
  <2>9. CASE FreeTruncate(p)
    BY <1>0, <1>4, <2>9 DEF FreeTruncate, TypeOK
  <2>2. CASE FreeWrite(p)
    BY <1>0, <1>4, <2>2 DEF FreeWrite, TypeOK, Filled
  <2>3. CASE ReadLock(p)
    BY <1>0, <1>4, <2>3 DEF ReadLock, TypeOK, Filled
  <2>4. CASE KillSupervisor(p)
    <3>1. target[p] \in Pid /\ mod[p] \in Module  BY <1>0, <2>4 DEF KillSupervisor, Filled
    <3>2. TypeOK'  BY <1>0, <2>4, <3>1 DEF KillSupervisor, TypeOK, rewrite
    <3>3. ASSUME NEW q \in Pid PROVE Filled(q)'
      BY <1>0, <2>4, <3>1 DEF KillSupervisor, TypeOK, Filled, rewrite
    <3> QED  BY <3>2, <3>3 DEF TypeInv
  <2>5. CASE KillProcesses(p)
    BY <1>0, <2>5 DEF KillProcesses, Found, TypeInv, TypeOK, Filled, rewrite
  <2>6. CASE ModuleStopped(p)
    BY <1>0, <1>4, <2>6 DEF ModuleStopped, TypeOK, Filled
  <2>7. CASE UnlinkLock(p)
    BY <1>0, <1>4, <2>7 DEF UnlinkLock, TypeOK, Filled
  <2>8. CASE UnlinkParams(p)
    <3>1. TypeOK'  BY <1>0, <2>8 DEF UnlinkParams, Finish, Goto, rewrite, TypeOK
    <3>2. ASSUME NEW q \in Pid PROVE Filled(q)'
      BY <1>0, <2>8 DEF UnlinkParams, Finish, Goto, rewrite, TypeOK, Filled
    <3> QED  BY <3>1, <3>2 DEF TypeInv
  <2> QED  BY <1>8, <2>1, <2>2, <2>3, <2>4, <2>5, <2>6, <2>7, <2>8, <2>9 DEF StopStep
<1>9. ASSUME NEW p \in Pid, NEW s \in Second, NEW i \in Inode, RewriteOpen(p, s, i)
      PROVE  TypeInv'
  <2>1. mod[p] \in Module  BY <1>0, <1>9 DEF RewriteOpen, Filled
  <2>2. content' \in [Inode -> Seq(Module)]
    <3>1. <<>> \in Seq(Module)  BY EmptySeq
    <3> QED  BY <1>0, <1>9, <3>1 DEF RewriteOpen, TypeOK
  <2>3. TypeOK'
    BY <1>0, <1>9, <2>2 DEF RewriteOpen, TypeOK
  <2>4. ASSUME NEW q \in Pid PROVE Filled(q)'
    BY <1>0, <1>9, <2>1 DEF RewriteOpen, TypeOK, Filled
  <2> QED  BY <2>3, <2>4 DEF TypeInv
<1>15. ASSUME NEW p \in Pid, RewriteRead(p) PROVE TypeInv'
  <2>1. mod[p] \in Module /\ handle[p] \in Inode /\ second[p] \in Second
    BY <1>0, <1>15 DEF RewriteRead, Filled
  <2>2. WithoutModule(mod[p]) \in Seq(Module)
        /\ Append(WithoutModule(mod[p]), mod[p]) \in Seq(Module)
    BY <2>1, LinesTyped
  <2>3. lines' \in [Pid -> Seq(Module)]
    BY <1>0, <1>15, <2>2 DEF RewriteRead, TypeOK
  <2>4. TypeOK'
    BY <1>0, <1>15, <2>3 DEF RewriteRead, TypeOK
  <2>5. ASSUME NEW q \in Pid PROVE Filled(q)'
    BY <1>0, <1>15, <2>1 DEF RewriteRead, TypeOK, Filled
  <2> QED  BY <2>4, <2>5 DEF TypeInv
<1>10. ASSUME NEW p \in Pid, RewriteWrite(p) PROVE TypeInv'
  <2>1. /\ handle[p] \in Inode /\ second[p] \in Second /\ mod[p] \in Module
        /\ lines[p] \in Seq(Module) /\ content[handle[p]] \in Seq(Module)
    BY <1>0, <1>10 DEF RewriteWrite, TypeOK, Filled
  <2>2. PICK s \in Seq(Module) : s = content[handle[p]]  BY <2>1
  <2>3. Len(s) \in Int /\ Len(lines[p]) + 1 \in Int
    BY <2>1, <2>2, LenProperties
  <2>4. \A i \in Len(lines[p]) + 1 .. Len(s) : s[i] \in Module
    <3> SUFFICES ASSUME NEW i \in Len(lines[p]) + 1 .. Len(s) PROVE s[i] \in Module
      OBVIOUS
    <3>1. i \in 1 .. Len(s)  BY <2>1, <2>3, LenProperties
    <3> QED  BY <2>2, <3>1, ElementOfSeq
  <2>5. SubSeq(s, Len(lines[p]) + 1, Len(s)) \in Seq(Module)
    BY <2>3, <2>4, SubSeqProperties
  <2>6. lines[p] \o SubSeq(s, Len(lines[p]) + 1, Len(s)) \in Seq(Module)
    BY <2>1, <2>5, ConcatProperties
  <2>7. content' \in [Inode -> Seq(Module)] /\ lines' \in [Pid -> Seq(Module)]
    <3>1. <<>> \in Seq(Module)  BY EmptySeq
    <3> QED  BY <1>0, <1>10, <2>2, <2>6, <3>1 DEF RewriteWrite, TypeOK
  <2>8. TypeOK'  BY <1>0, <1>10, <2>7 DEF RewriteWrite, TypeOK
  <2>9. ASSUME NEW q \in Pid PROVE Filled(q)'
    BY <1>0, <1>10, <2>1 DEF RewriteWrite, TypeOK, Filled
  <2> QED  BY <2>8, <2>9 DEF TypeInv
<1>11. ASSUME NEW p \in Pid, RewriteMove(p) PROVE TypeInv'
  <2>1. second[p] \in Second /\ mod[p] \in Module
    BY <1>0, <1>11 DEF RewriteMove, Filled
  <2>4. content' \in [Inode -> Seq(Module)]
    <3>1. <<>> \in Seq(Module)  BY EmptySeq
    <3> QED  BY <1>0, <1>11, <3>1 DEF RewriteMove, TypeOK
  <2>2. TypeOK'  BY <1>0, <1>11, <2>1, <2>4 DEF RewriteMove, Moved, TypeOK
  <2>3. ASSUME NEW q \in Pid PROVE Filled(q)'
    BY <1>0, <1>11, <2>1 DEF RewriteMove, TypeOK, Filled
  <2> QED  BY <2>2, <2>3 DEF TypeInv
<1>12. ASSUME NEW m \in Module, Terminate(m) PROVE TypeInv'
  BY <1>0, <1>12 DEF Terminate, TypeInv, TypeOK, Filled
<1>13. CASE Reboot
  <2>1. <<>> \in Seq(Module)  BY EmptySeq
  <2>2. TypeOK'  BY <1>0, <1>13, <2>1 DEF Reboot, TypeOK
  <2>3. ASSUME NEW q \in Pid PROVE Filled(q)'  BY <1>13 DEF Reboot, Filled
  <2> QED  BY <2>2, <2>3 DEF TypeInv
<1>14. CASE BootUnlink
  BY <1>0, <1>14 DEF BootUnlink, NoLocks, TypeInv, TypeOK, Filled
<1> QED
  BY <1>1, <1>2, <1>3, <1>6, <1>7, <1>8, <1>9, <1>10, <1>11, <1>12, <1>13, <1>14,
     <1>15 DEF Next, RewriteStep

\* The types, whatever the operator lets run at the same time: in particular a
\* script writes and moves only a file that it has opened, and kills only a pid.
THEOREM Typing == Spec => []TypeOK
<1>1. TypeInv => TypeOK  BY DEF TypeInv
<1> QED  BY InitTypes, StepTypes, <1>1, PTL DEF Spec

-----------------------------------------------------------------------------
(* The files, while one script runs at a time.                             *)

\* What started.conf will hold when the script has rewritten it.
NewLines(p) == IF kind[p] = "start" THEN Append(WithoutModule(mod[p]), mod[p])
                                    ELSE WithoutModule(mod[p])

OneBusy == \A p, q \in Pid : Busy(p) /\ Busy(q) => p = q

\* Whatever is recorded has a file of parameters, and what is in use is recorded
\* or was left in use.
Recording ==
    /\ OnceEach(content[conf])
    /\ \A m \in Recorded : params[m] # "absent"
    /\ used \subseteq Recorded \cup left
    /\ ToSet(queue) \subseteq Recorded
    /\ queue # <<>> =>
          \A p \in Pid : Busy(p) => kind[p] = "start" /\ pc[p] \notin StopPC

\* Where a script is that has opened a temporary file.
TmpPC == {"read", "write", "move"}

\* The temporary file is the script's own.
Temporary ==
    /\ \A s \in Second : tmp[s] # NONE => \E p \in Pid : pc[p] \in TmpPC /\ second[p] = s
    /\ \A p \in Pid : handle[p] # NONE => pc[p] \in {"read", "write"}
    /\ \A p \in Pid : pc[p] \in {"read", "write"} =>
          handle[p] = tmp[second[p]] /\ handle[p] # conf /\ content[handle[p]] = <<>>
    /\ \A p \in Pid : pc[p] = "write" => lines[p] = NewLines(p)
    /\ \A p \in Pid : pc[p] = "move" =>
          tmp[second[p]] \in Inode /\ content[tmp[second[p]]] = NewLines(p)

\* If startmodule finds a lock, the module is supervised indeed.
LockMeans(m) ==
    \/ lock[m] = "absent"
    \/ Supervisors(m) # {} /\ m \in Recorded /\ m \in used

\* What holds of a script's module where the script is.
Along(p) ==
    LET m == mod[p] IN
    /\ pc[p] \in StopPC => kind[p] = "stop"
    /\ pc[p] = "params" => kind[p] = "start" /\ params[m] = "empty" /\ LockMeans(m)
    /\ pc[p] \in BothPC /\ kind[p] = "start" => m \in Startable /\ LockMeans(m)
    /\ pc[p] = "device" => m \in Recorded /\ m \in Startable /\ LockMeans(m)
    /\ pc[p] = "check" => m \in Recorded /\ m \in Startable /\ m \in used /\ LockMeans(m)
    /\ pc[p] \in {"touch", "pid"} => m \in Recorded /\ m \in Startable /\ m \in used
    /\ pc[p] \in {"freeTruncate", "freeWrite"} => others[p] \subseteq (Recorded \cup left) \ {m}
    /\ pc[p] \in {"lock", "kill", "killScan"} => m \notin used \ left
    /\ pc[p] \in BothPC /\ kind[p] = "stop" => m \notin used \ left
    /\ pc[p] = "unlinkLock" => m \notin Recorded
    /\ pc[p] = "unlinkParams" => m \notin Recorded /\ lock[m] = "absent"

\* The device of a module is in use, even if DeclareDeviceAsFree is about to
\* write the .used file anew.
DeviceKept(m) ==
    /\ m \in used \/ \E p \in Pid : pc[p] = "freeWrite"
    /\ \A p \in Pid : pc[p] \in {"freeTruncate", "freeWrite"} => m \in others[p]

\* What boot-modules can start again.
Restorable == Recorded \cap Startable

\* A module for which no script is under way is supervised, waits for
\* boot-modules, or is not started at all.
Settled(m) ==
    \/ \E p \in Pid : Busy(p) /\ mod[p] = m
    \/ m \in Restorable /\ Supervisors(m) # {} /\ DeviceKept(m)
    \/ m \in ToSet(queue) /\ lock[m] = "absent"
    \/ m \notin Restorable /\ lock[m] = "absent"

FilesInv ==
    /\ OneBusy /\ Recording /\ Temporary
    /\ \A p \in Pid : Along(p)
    /\ boot = "up" => \A m \in Module : Settled(m)

Inv == TypeInv /\ LockInv /\ FilesInv

LEMMA InitFiles == Init => FilesInv
<1> SUFFICES ASSUME Init PROVE FilesInv  OBVIOUS
<1>1. \A p \in Pid : pc[p] = "idle" /\ ~Busy(p)  BY DEF Init, Busy
<1>2. /\ content[conf] = <<>> /\ OnceEach(content[conf])
      /\ ToSet(content[conf]) = {} /\ ToSet(queue) = {}
  BY DEF Init, ToSet, OnceEach
<1>3. OneBusy  BY <1>1 DEF OneBusy
<1>4. Recording  BY <1>2 DEF Init, Recording, Recorded
<1>5. Temporary  BY <1>1 DEF Init, Temporary
<1>6. \A p \in Pid : Along(p)  BY <1>1 DEF Along, BothPC, StopPC
<1>7. \A m \in Module : Settled(m)  BY <1>2 DEF Init, Settled, Restorable, Recorded
<1> QED  BY <1>3, <1>4, <1>5, <1>6, <1>7 DEF FilesInv

LEMMA SeqToSetIn == ASSUME NEW s \in Seq(Module) PROVE ToSet(s) \subseteq Module
BY ElementOfSeq, LenProperties DEF ToSet

\* A sequence without repetitions is as long as the set of what is in it.
LEMMA CardinalityOnce ==
    ASSUME NEW s \in Seq(Module), OnceEach(s)
    PROVE  Len(s) = Cardinality(ToSet(s))
<1>1. Len(s) \in Nat /\ DOMAIN s = 1 .. Len(s)  BY LenProperties
<1>2. IsFiniteSet(1 .. Len(s)) /\ Cardinality(1 .. Len(s)) = Len(s)  BY <1>1, UpTo
<1>3. s \in Bijection(1 .. Len(s), ToSet(s))
  <2>1. s = [i \in 1 .. Len(s) |-> s[i]]  BY <1>1, SeqDef
  <2>2. \A i \in 1 .. Len(s) : s[i] \in ToSet(s)  BY <1>1 DEF ToSet
  <2>3. s \in [1 .. Len(s) -> ToSet(s)]  BY <2>1, <2>2
  <2>4. \A t \in ToSet(s) : \E i \in 1 .. Len(s) : s[i] = t  BY <1>1 DEF ToSet
  <2>5. s \in Injection(1 .. Len(s), ToSet(s))  BY <2>3 DEF Injection, IsInjective, OnceEach
  <2>6. s \in Surjection(1 .. Len(s), ToSet(s))  BY <2>3, <2>4 DEF Surjection
  <2> QED  BY <2>5, <2>6 DEF Bijection
<1>4. Cardinality(ToSet(s)) = Cardinality(1 .. Len(s))
  BY <1>2, <1>3, FS_Bijection DEF ExistsBijection
<1> QED  BY <1>2, <1>4

\* What the files say when no script is under way.
LEMMA QuietAgree == Inv => FilesAgree
<1> SUFFICES ASSUME Inv, Overlap = "none", Quiet
             PROVE  /\ Len(content[conf]) = Cardinality(Recorded)
                    /\ \A m \in Recorded : params[m] # "absent"
                    /\ Recorded \cap Startable \subseteq used
                    /\ used \subseteq Recorded \cup left
                    /\ \A m \in Module :
                          IF m \in Recorded \cap Startable THEN Supervisors(m) = {lock[m]}
                          ELSE Supervisors(m) = {} /\ lock[m] = "absent"
  BY DEF FilesAgree
<1>1. Recording /\ boot = "up" /\ queue = <<>> /\ \A p \in Pid : ~Busy(p)
  BY DEF Inv, FilesInv, Quiet
<1>2. \A p \in Pid : pc[p] # "freeWrite"  BY <1>1 DEF Busy, Supervising
<1>3. ToSet(queue) = {}  BY <1>1 DEF ToSet
<1>4. \A m \in Module : \/ m \in Restorable /\ Supervisors(m) # {} /\ m \in used
                        \/ m \notin Restorable /\ lock[m] = "absent"
  BY <1>1, <1>2, <1>3 DEF Inv, FilesInv, Settled, DeviceKept
<1>5. \A m \in Module : \A p \in Supervisors(m) : p = lock[m] /\ p \in Pid
  BY DEF Inv, LockInv, Knows, Supervisors
<1>6. \A m \in Module : IF m \in Restorable THEN Supervisors(m) = {lock[m]}
                        ELSE Supervisors(m) = {} /\ lock[m] = "absent"
  <2> SUFFICES ASSUME NEW m \in Module
               PROVE  IF m \in Restorable THEN Supervisors(m) = {lock[m]}
                      ELSE Supervisors(m) = {} /\ lock[m] = "absent"
    OBVIOUS
  <2>1. CASE m \in Restorable  BY <1>4, <1>5, <2>1
  <2>2. CASE m \notin Restorable
    <3>1. lock[m] \notin Pid  BY <1>4, <2>2, WatchdogAssumption
    <3> QED  BY <1>4, <1>5, <2>2, <3>1
  <2> QED  BY <2>1, <2>2
<1>7. content[conf] \in Seq(Module)  BY DEF Inv, TypeInv, TypeOK
<1>8. Restorable \subseteq used  BY <1>4 DEF Restorable, Startable
<1>9. Len(content[conf]) = Cardinality(Recorded)
  BY <1>1, <1>7, CardinalityOnce DEF Recording, Recorded
<1> QED  BY <1>1, <1>6, <1>8, <1>9 DEF Recording, Restorable

\* Only supervisors and modules do something: fork, exec, scan, end.
LEMMA Aside ==
    ASSUME Inv,
           UNCHANGED <<kind, rewrite, others, params, lock, used, left, boot, queue>>,
           \A q \in Pid : \/ Busy(q) /\ pc'[q] = pc[q] /\ mod'[q] = mod[q]
                          \/ ~Busy(q) /\ pc'[q] \in {"idle"} \cup Supervising,
           \A m \in Module : Supervisors(m)' = Supervisors(m)
    PROVE  FilesInv'
<1> USE DEF Inv, FilesInv
<1>1. UNCHANGED <<kind, second, handle, lines, content, conf, tmp, others, params,
                  lock, used, left, boot, queue>>
  BY DEF rewrite
<1>2. \A q \in Pid : /\ Busy(q)' <=> Busy(q)
                     /\ Busy(q) => pc'[q] = pc[q] /\ mod'[q] = mod[q]
                     /\ ~Busy(q) => pc'[q] \in {"idle"} \cup Supervising
                     /\ ~Busy(q) => pc[q] \in {"idle"} \cup Supervising
                     /\ Busy(q) => pc[q] \notin {"idle"} \cup Supervising /\ mod[q] \in Module
  BY DEF Busy, Supervising, TypeInv, Filled
<1>20. \A q \in Pid : \A l : l \notin {"idle"} \cup Supervising => (pc'[q] = l <=> pc[q] = l)
  BY <1>2
<1>3. Recorded' = Recorded /\ Startable' = Startable /\ Restorable' = Restorable
  BY <1>1 DEF Recorded, Startable, Restorable
<1>4. OneBusy'  BY <1>2 DEF OneBusy
<1>5. Recording'
  <2>1. \A q \in Pid : Busy(q)' => Busy(q) /\ kind'[q] = kind[q] /\ pc'[q] = pc[q]
    BY <1>1, <1>2
  <2> QED  BY <1>1, <1>3, <2>1 DEF Recording
<1>6. Temporary'
  <2>1. \A q \in Pid : /\ pc'[q] = "read" <=> pc[q] = "read"
                       /\ pc'[q] = "write" <=> pc[q] = "write"
                       /\ pc'[q] = "move" <=> pc[q] = "move"
    BY <1>20 DEF Supervising
  <2>2. \A q \in Pid : pc[q] \in TmpPC => NewLines(q)' = NewLines(q)
    <3>1. \A q \in Pid : pc[q] \in TmpPC => mod'[q] = mod[q]
      BY <1>2 DEF Supervising, TmpPC
    <3> QED  BY <1>1, <3>1 DEF NewLines, WithoutModule
  <2>3. Temporary  OBVIOUS
  <2>4. \A q \in Pid : pc'[q] \in TmpPC <=> pc[q] \in TmpPC  BY <2>1 DEF TmpPC
  <2>5. \A s \in Second : tmp'[s] # NONE => \E q \in Pid : pc'[q] \in TmpPC /\ second'[q] = s
    BY <1>1, <2>3, <2>4 DEF Temporary
  <2>6. \A q \in Pid : handle'[q] # NONE => pc'[q] \in {"read", "write"}
    BY <1>1, <2>1, <2>3 DEF Temporary
  <2>7. \A q \in Pid : pc'[q] \in {"read", "write"} =>
           /\ handle'[q] = tmp'[second'[q]] /\ handle'[q] # conf'
           /\ content'[handle'[q]] = <<>>
    BY <1>1, <2>1, <2>3 DEF Temporary
  <2>8. \A q \in Pid : pc'[q] = "write" => lines'[q] = NewLines(q)'
    BY <1>1, <2>1, <2>2, <2>3 DEF Temporary, TmpPC
  <2>9. \A q \in Pid : pc'[q] = "move" =>
           tmp'[second'[q]] \in Inode /\ content'[tmp'[second'[q]]] = NewLines(q)'
    BY <1>1, <2>1, <2>2, <2>3 DEF Temporary, TmpPC
  <2> QED  BY <2>5, <2>6, <2>7, <2>8, <2>9 DEF Temporary
<1>7. ASSUME NEW q \in Pid PROVE Along(q)'
  <2>1. CASE ~Busy(q)
    <3>1. pc'[q] \in {"idle"} \cup Supervising  BY <1>2, <2>1
    <3> QED  BY <3>1 DEF Along, Supervising, BothPC, StopPC
  <2>2. CASE Busy(q)
    <3>1. pc'[q] = pc[q] /\ mod'[q] = mod[q] /\ mod[q] \in Module  BY <1>2, <2>2
    <3>2. LockMeans(mod[q])' <=> LockMeans(mod[q])
      BY <1>1, <1>3, <3>1 DEF LockMeans
    <3>3. Along(q)  OBVIOUS
    <3> QED  BY <1>1, <1>3, <3>1, <3>2, <3>3 DEF Along
  <2> QED  BY <2>1, <2>2
<1>8. ASSUME NEW m \in Module, boot' = "up" PROVE Settled(m)'
  <2>1. Settled(m)  BY <1>1, <1>8
  <2>2. DeviceKept(m)' <=> DeviceKept(m)
    <3>1. \A q \in Pid : /\ pc'[q] = "freeWrite" <=> pc[q] = "freeWrite"
                         /\ pc'[q] = "freeTruncate" <=> pc[q] = "freeTruncate"
      BY <1>20 DEF Supervising
    <3> QED  BY <1>1, <3>1 DEF DeviceKept
  <2>3. (\E q \in Pid : Busy(q) /\ mod[q] = m) <=> (\E q \in Pid : Busy(q) /\ mod[q] = m)'
    BY <1>2
  <2>4. Supervisors(m)' = Supervisors(m)  BY <1>8
  <2> QED  BY <1>1, <1>3, <2>1, <2>2, <2>3, <2>4 DEF Settled
<1> QED  BY <1>4, <1>5, <1>6, <1>7, <1>8

\* The other modules stay settled.
LEMMA OthersSettled ==
    ASSUME Inv, NEW p \in Pid, Busy(p), NEW m \in Module, m # mod[p],
           lock'[m] = lock[m], Supervisors(m)' = Supervisors(m),
           (m \in Restorable)' <=> m \in Restorable, queue' = queue,
           DeviceKept(m) => DeviceKept(m)'
    PROVE  Settled(m)'
<1>1. boot = "up"  BY DEF Inv, LockInv, Typed, Busy
<1>2. Settled(m)  BY <1>1 DEF Inv, FilesInv
<1>3. ~\E q \in Pid : Busy(q) /\ mod[q] = m  BY DEF Inv, FilesInv, OneBusy
<1> QED  BY <1>2, <1>3 DEF Settled

\* The one script that is under way makes a step.
LEMMA AloneAlong ==
    ASSUME Inv, NEW p \in Pid, Busy(p), NEW n \in Module, n = mod[p],
           \A q \in Pid \ {p} : pc'[q] \in {"idle"} \cup Supervising,
           Recording', Temporary', Along(p)',
           \A m \in Module \ {n} : Settled(m)',
           (Busy(p)' /\ mod'[p] = n) \/ Settled(n)'
    PROVE  FilesInv'
<1>1. \A q \in Pid \ {p} : ~Busy(q)' /\ Along(q)'
  BY DEF Busy, Along, Supervising, BothPC, StopPC
<1>2. OneBusy'  BY <1>1 DEF OneBusy
<1>3. \A m \in Module : Settled(m)'
  <2>1. Busy(p)' /\ mod'[p] = n => Settled(n)'  BY DEF Settled
  <2> QED  BY <2>1
<1> QED  BY <1>1, <1>2, <1>3 DEF FilesInv

\* What is known when a script makes a step: it is the only one under way.
LEMMA Only ==
    ASSUME Inv, NEW p \in Pid, Busy(p)
    PROVE  /\ mod[p] \in Module
           /\ boot = "up"
           /\ \A q \in Pid \ {p} : ~Busy(q) /\ pc[q] \in {"idle"} \cup Supervising
           /\ \A s \in Second : tmp[s] # NONE =>
                 pc[p] \in TmpPC /\ second[p] = s
           /\ \A q \in Pid \ {p} : handle[q] = NONE
           /\ Along(p)
           /\ pc[p] \in StopPC \/ kind[p] = "stop" => queue = <<>>
<1>1. mod[p] \in Module  BY DEF Inv, TypeInv, Filled, Busy
<1>2. boot = "up"  BY DEF Inv, LockInv, Typed, Busy
<1>3. \A q \in Pid \ {p} : ~Busy(q)  BY DEF Inv, FilesInv, OneBusy
<1>4. \A q \in Pid \ {p} : pc[q] \in {"idle"} \cup Supervising  BY <1>3 DEF Busy
<1>5. \A q \in Pid \ {p} : pc[q] \notin TmpPC  BY <1>4 DEF Supervising, TmpPC
<1>6. \A s \in Second : tmp[s] # NONE => pc[p] \in TmpPC /\ second[p] = s
  BY <1>5 DEF Inv, FilesInv, Temporary
<1>7. \A q \in Pid \ {p} : handle[q] = NONE  BY <1>5 DEF Inv, FilesInv, Temporary, TmpPC
<1>8. Along(p)  BY DEF Inv, FilesInv
<1>9. pc[p] \in StopPC \/ kind[p] = "stop" => queue = <<>>
  BY DEF Inv, FilesInv, Recording
<1> QED  BY <1>1, <1>2, <1>3, <1>4, <1>6, <1>7, <1>8, <1>9

\* A script goes from one place to another, writes neither started.conf nor
\* its temporary file, and the other modules do not notice.
LEMMA Moves ==
    ASSUME Inv, NEW p \in Pid, Busy(p), NEW n \in Module, n = mod[p], NEW l \in PCs, Goto(p, l),
           pc[p] \notin TmpPC, l \notin TmpPC,
           UNCHANGED <<rewrite, boot, queue>>,
           \A q \in Pid \ {p} : kind'[q] = kind[q],
           kind'[p] = kind[p] \/ l = "idle",
           mod'[p] = n \/ (l = "idle" /\ mod'[p] = NONE),
           \A q \in Pid \ {p} : mod'[q] = mod[q],
           \A m \in Module \ {n} : lock'[m] = lock[m] /\ params'[m] = params[m],
           \A m \in Module \ {n} : DeviceKept(m) => DeviceKept(m)',
           \A m \in Recorded : params'[m] # "absent",
           used' \subseteq Recorded \cup left',
           l \in StopPC => kind[p] = "stop",
           l \notin {"idle"} \cup Supervising => mod'[p] = n /\ Along(p)',
           l \in {"idle"} \cup Supervising => Settled(n)'
    PROVE  FilesInv'
<1>1. UNCHANGED <<second, handle, lines, content, conf, tmp, boot, queue>>
  BY DEF rewrite
<1>2. /\ mod[p] \in Module
      /\ pc[p] \notin {"idle"} \cup Supervising
      /\ \A q \in Pid \ {p} : ~Busy(q) /\ pc[q] \in {"idle"} \cup Supervising
  BY Only DEF Busy
<1>3. pc'[p] = l /\ \A q \in Pid \ {p} : pc'[q] = pc[q]
  BY DEF Inv, TypeInv, TypeOK, Goto
<1>4. Recorded' = Recorded  BY <1>1 DEF Recorded
<1>40. \A m \in Module \ {n} : (m \in Restorable)' <=> m \in Restorable
  BY <1>4 DEF Restorable, Startable
<1>5. Recording'
  <2>1. \A q \in Pid \ {p} : ~Busy(q)'  BY <1>2, <1>3 DEF Busy
  <2>2. queue # <<>> => kind[p] = "start"  BY DEF Inv, FilesInv, Recording
  <2>3. Recording  BY DEF Inv, FilesInv
  <2>4. queue' # <<>> => \A q \in Pid : Busy(q)' => kind'[q] = "start" /\ pc'[q] \notin StopPC
    <3>1. ASSUME Busy(p)' PROVE l # "idle"  BY <1>3, <3>1 DEF Busy
    <3> QED  BY <1>1, <1>3, <2>1, <2>2, <3>1
  <2> QED  BY <1>1, <1>4, <2>3, <2>4 DEF Recording
<1>6. Temporary'
  <2>1. \A q \in Pid : pc[q] \notin TmpPC /\ pc'[q] \notin TmpPC
    BY <1>2, <1>3 DEF Supervising, TmpPC
  <2>2. Temporary  BY DEF Inv, FilesInv
  <2> QED  BY <1>1, <2>1, <2>2 DEF Temporary, TmpPC
<1>7. ASSUME NEW m \in Module \ {n} PROVE Settled(m)'
  <2>1. Supervisors(m)' = Supervisors(m)
    <3>1. p \notin Supervisors(m) /\ p \notin Supervisors(m)'
      BY <1>2, <1>3, <1>7 DEF Supervisors, Supervising
    <3>2. \A q \in Pid \ {p} : q \in Supervisors(m) <=> q \in Supervisors(m)'
      BY <1>3 DEF Supervisors
    <3>3. Supervisors(m) \subseteq Pid /\ Supervisors(m)' \subseteq Pid  BY DEF Supervisors
    <3>4. Supervisors(m)' \subseteq Supervisors(m)  BY <3>1, <3>2, <3>3
    <3>5. Supervisors(m) \subseteq Supervisors(m)'  BY <3>1, <3>2, <3>3
    <3> QED  BY <3>4, <3>5
  <2> QED  BY <1>1, <1>7, <1>40, <2>1, OthersSettled
<1>8. Along(p)'
  <2>1. CASE l \in {"idle"} \cup Supervising
    BY <1>3, <2>1 DEF Along, Supervising, BothPC, StopPC
  <2> QED  BY <2>1
<1>9. \A q \in Pid \ {p} : pc'[q] \in {"idle"} \cup Supervising  BY <1>2, <1>3
<1>10. (Busy(p)' /\ mod'[p] = n) \/ Settled(n)'
  BY <1>3 DEF Busy
<1> QED  BY <1>5, <1>6, <1>7, <1>8, <1>9, <1>10, AloneAlong

LEMMA StartFiles ==
    ASSUME Inv, NEW p \in Pid, StartStep(p) \/ ForkFails(p) \/ Exec(p) PROVE FilesInv'
<1>0. /\ TypeOK /\ WatchdogAssumption
      /\ \A q \in Pid : pc[q] # "idle" => mod[q] \in Module
  BY WatchdogAssumption DEF Inv, TypeInv, Filled
<1>00. \A m \in Recorded : params[m] # "absent"  BY DEF Inv, FilesInv, Recording
<1>8. CASE WriteParams(p)
  <2>1. PICK n : n = mod[p]  OBVIOUS
  <2>2. Busy(p) /\ n \in Module /\ pc[p] = "params" /\ Along(p)
    BY <1>0, <1>8, <2>1, Only DEF WriteParams, Busy, Supervising
  <2>3. kind[p] = "start" /\ LockMeans(n)  BY <2>1, <2>2 DEF Along
  <2>4. used \subseteq Recorded \cup left  BY DEF Inv, FilesInv, Recording
  <2>5. /\ Goto(p, "open") /\ mod'[p] = n
        /\ params'[n] = "whole" /\ \A m \in Module \ {n} : params'[m] = params[m]
        /\ UNCHANGED <<kind, mod, rewrite, others, lock, used, left, boot, queue>>
        /\ UNCHANGED <<content, conf>>
    BY <1>0, <1>8, <2>1, <2>2 DEF WriteParams, rewrite, TypeOK
  <2>6. pc'[p] = "open" /\ (\A q \in Pid \ {p} : pc'[q] = pc[q])
    BY <1>0, <2>5 DEF TypeOK, Goto
  <2>7. Recorded' = Recorded /\ n \in Startable'
    BY <2>2, <2>5 DEF Recorded, Startable
  <2>8. Supervisors(n)' = Supervisors(n)
    BY <2>2, <2>5, <2>6 DEF Supervisors, Supervising
  <2>9. LockMeans(n)'  BY <2>3, <2>5, <2>7, <2>8 DEF LockMeans
  <2>10. Along(p)'  BY <2>3, <2>5, <2>6, <2>7, <2>9 DEF Along, BothPC, StopPC
  <2>11. \A m \in Module : DeviceKept(m) => DeviceKept(m)'
    BY <2>2, <2>5, <2>6 DEF DeviceKept
  <2>12. \A m \in Recorded : params'[m] # "absent"
    <3> SUFFICES ASSUME NEW m \in Recorded PROVE params'[m] # "absent"  OBVIOUS
    <3>1. Recorded \subseteq Module
      BY <1>0, SeqToSetIn DEF Recorded, TypeOK
    <3> QED  BY <1>00, <2>5, <3>1
  <2>13. /\ "params" \notin TmpPC /\ "open" \notin TmpPC
         /\ "open" \in PCs /\ "open" \notin StopPC
         /\ "open" \notin {"idle"} \cup Supervising
    BY DEF TmpPC, PCs, BothPC, StopPC, Supervising
  <2> QED
    BY <2>1, <2>2, <2>4, <2>5, <2>10, <2>11, <2>12, <2>13, Moves
<1>1. CASE DeclareDeviceAsUsed(p)
  <2>1. PICK n : n = mod[p]  OBVIOUS
  <2>2. Busy(p) /\ n \in Module /\ pc[p] = "device" /\ Along(p)
    BY <1>0, <1>1, <2>1, Only DEF DeclareDeviceAsUsed, Busy, Supervising
  <2>3. n \in Recorded /\ n \in Startable /\ LockMeans(n) /\ used \subseteq Recorded \cup left
    BY <2>1, <2>2 DEF Along, Inv, FilesInv, Recording
  <2>4. /\ Goto(p, "check") /\ used' = used \cup {n} /\ mod'[p] = n
        /\ UNCHANGED <<kind, mod, rewrite, others, params, lock, left, boot, queue>>
        /\ UNCHANGED <<content, conf>>
    BY <1>1, <2>1 DEF DeclareDeviceAsUsed, rewrite
  <2>5. pc'[p] = "check" /\ (\A q \in Pid \ {p} : pc'[q] = pc[q])
    BY <1>0, <2>4 DEF TypeOK, Goto
  <2>6. Recorded' = Recorded /\ Startable' = Startable  BY <2>4 DEF Recorded, Startable
  <2>7. Supervisors(n)' = Supervisors(n)
    BY <2>2, <2>4, <2>5 DEF Supervisors, Supervising
  <2>8. LockMeans(n)'  BY <2>3, <2>4, <2>6, <2>7 DEF LockMeans
  <2>9. Along(p)'  BY <2>3, <2>4, <2>5, <2>6, <2>8 DEF Along, BothPC, StopPC
  <2>10. \A m \in Module : DeviceKept(m) => DeviceKept(m)'
    BY <2>2, <2>4, <2>5 DEF DeviceKept
  <2>11. used' \subseteq Recorded \cup left'  BY <2>3, <2>4
  <2>12. /\ "device" \notin TmpPC /\ "check" \notin TmpPC
         /\ "check" \in PCs /\ "check" \notin StopPC
         /\ "check" \notin {"idle"} \cup Supervising
    BY DEF TmpPC, PCs, StartPC, StopPC, Supervising
  <2> QED
    BY <1>00, <2>1, <2>2, <2>4, <2>9, <2>10, <2>11, <2>12, Moves
<1>2. CASE CheckLock(p)
  <2>1. PICK n : n = mod[p]  OBVIOUS
  <2>2. Busy(p) /\ n \in Module /\ pc[p] = "check" /\ Along(p)
    BY <1>0, <1>2, <2>1, Only DEF CheckLock, Busy, Supervising
  <2>3. /\ n \in Recorded /\ n \in Startable /\ n \in used
        /\ LockMeans(n) /\ used \subseteq Recorded \cup left
    BY <2>1, <2>2 DEF Along, Inv, FilesInv, Recording
  <2>4. /\ UNCHANGED <<rewrite, others, params, used, left, lock, boot, queue>>
        /\ UNCHANGED <<content, conf>>
    BY <1>2 DEF CheckLock, rewrite
  <2>5. \A q \in Pid \ {p} : pc[q] \in {"idle"} \cup Supervising
    BY <2>2, Only
  <2>6. Recorded' = Recorded /\ Startable' = Startable  BY <2>4 DEF Recorded, Startable
  <2>7. CASE Goto(p, "touch") /\ UNCHANGED <<kind, mod>>
    <3>1. pc'[p] = "touch" /\ (\A q \in Pid \ {p} : pc'[q] = pc[q])
      BY <1>0, <2>7 DEF TypeOK, Goto
    <3>2. Along(p)'  BY <2>1, <2>3, <2>4, <2>6, <2>7, <3>1 DEF Along, BothPC, StopPC
    <3>3. \A m \in Module : DeviceKept(m) => DeviceKept(m)'
      BY <2>2, <2>4, <3>1 DEF DeviceKept
    <3>4. /\ "check" \notin TmpPC /\ "touch" \notin TmpPC
          /\ "touch" \in PCs /\ "touch" \notin StopPC
          /\ "touch" \notin {"idle"} \cup Supervising
      BY DEF TmpPC, PCs, StartPC, StopPC, Supervising
    <3> QED
      BY <1>00, <2>1, <2>2, <2>3, <2>4, <2>7, <3>2, <3>3, <3>4, Moves
  <2>8. CASE Locked(n) /\ Finish(p)
    <3>1. /\ pc'[p] = "idle" /\ (\A q \in Pid \ {p} : pc'[q] = pc[q] /\ mod'[q] = mod[q])
          /\ mod'[p] = NONE /\ Goto(p, "idle")
          /\ \A q \in Pid \ {p} : kind'[q] = kind[q]
      BY <1>0, <2>8 DEF TypeOK, Goto, Finish
    <3>2. \A m \in Module : DeviceKept(m) => DeviceKept(m)'
      BY <2>2, <2>4, <3>1 DEF DeviceKept
    <3>3. Supervisors(n) # {}  BY <2>3, <2>8 DEF LockMeans, Locked
    <3>4. Supervisors(n)' = Supervisors(n)
      BY <2>2, <3>1 DEF Supervisors, Supervising
    <3>5. DeviceKept(n)'
      BY <2>3, <2>4, <2>5, <3>1 DEF DeviceKept, Supervising
    <3>6. Settled(n)'  BY <2>3, <2>6, <3>3, <3>4, <3>5 DEF Settled, Restorable
    <3>7. /\ "check" \notin TmpPC /\ "idle" \notin TmpPC
          /\ "idle" \in PCs /\ "idle" \notin StopPC
      BY DEF TmpPC, PCs, StopPC
    <3> QED
      BY <1>00, <2>1, <2>2, <2>3, <2>4, <3>1, <3>2, <3>6, <3>7, Moves
  <2> QED  BY <1>2, <2>1, <2>7, <2>8 DEF CheckLock
<1>3. CASE TouchLock(p)
  <2>1. PICK n : n = mod[p]  OBVIOUS
  <2>2. Busy(p) /\ n \in Module /\ pc[p] = "touch" /\ Along(p)
    BY <1>0, <1>3, <2>1, Only DEF TouchLock, Busy, Supervising
  <2>3. n \in Recorded /\ n \in Startable /\ n \in used /\ used \subseteq Recorded \cup left
    BY <2>1, <2>2 DEF Along, Inv, FilesInv, Recording
  <2>4. /\ Goto(p, "pid") /\ mod'[p] = n
        /\ \A m \in Module \ {n} : lock'[m] = lock[m]
        /\ UNCHANGED <<kind, mod, rewrite, others, params, used, left, boot, queue>>
        /\ UNCHANGED <<content, conf>>
    BY <1>0, <1>3, <2>1 DEF TouchLock, rewrite, TypeOK
  <2>5. pc'[p] = "pid" /\ (\A q \in Pid \ {p} : pc'[q] = pc[q])
    BY <1>0, <2>4 DEF TypeOK, Goto
  <2>6. Recorded' = Recorded /\ Startable' = Startable  BY <2>4 DEF Recorded, Startable
  <2>7. Along(p)'  BY <2>3, <2>4, <2>5, <2>6 DEF Along, BothPC, StopPC
  <2>8. \A m \in Module : DeviceKept(m) => DeviceKept(m)'
    BY <2>2, <2>4, <2>5 DEF DeviceKept
  <2>9. /\ "touch" \notin TmpPC /\ "pid" \notin TmpPC
        /\ "pid" \in PCs /\ "pid" \notin StopPC
        /\ "pid" \notin {"idle"} \cup Supervising
    BY DEF TmpPC, PCs, StartPC, StopPC, Supervising
  <2> QED
    BY <1>00, <2>1, <2>2, <2>3, <2>4, <2>7, <2>8, <2>9, Moves
<1>4. CASE WritePid(p)
  <2>1. PICK n : n = mod[p]  OBVIOUS
  <2>2. Busy(p) /\ n \in Module /\ pc[p] = "pid" /\ Along(p)
    BY <1>0, <1>4, <2>1, Only DEF WritePid, Busy, Supervising
  <2>3. n \in Recorded /\ n \in Startable /\ n \in used /\ used \subseteq Recorded \cup left
    BY <2>1, <2>2 DEF Along, Inv, FilesInv, Recording
  <2>4. /\ Goto(p, "launch") /\ mod'[p] = n
        /\ \A m \in Module \ {n} : lock'[m] = lock[m]
        /\ UNCHANGED <<kind, mod, rewrite, others, params, used, left, boot, queue>>
        /\ UNCHANGED <<content, conf>>
    BY <1>0, <1>4, <2>1 DEF WritePid, rewrite, TypeOK
  <2>5. pc'[p] = "launch" /\ (\A q \in Pid \ {p} : pc'[q] = pc[q])
    BY <1>0, <2>4 DEF TypeOK, Goto
  <2>50. \A q \in Pid \ {p} : pc[q] \in {"idle"} \cup Supervising
    BY <2>2, Only
  <2>6. Recorded' = Recorded /\ Startable' = Startable  BY <2>4 DEF Recorded, Startable
  <2>7. \A m \in Module : DeviceKept(m) => DeviceKept(m)'
    BY <2>2, <2>4, <2>5 DEF DeviceKept
  <2>8. p \in Supervisors(n)'  BY <2>4, <2>5 DEF Supervisors, Supervising
  <2>9. DeviceKept(n)'
    BY <2>3, <2>4, <2>5, <2>50 DEF DeviceKept, Supervising
  <2>10. Settled(n)'  BY <2>3, <2>6, <2>8, <2>9 DEF Settled, Restorable
  <2>11. /\ "pid" \notin TmpPC /\ "launch" \notin TmpPC
         /\ "launch" \in PCs /\ "launch" \notin StopPC /\ "launch" \in Supervising
    BY DEF TmpPC, PCs, StartPC, StopPC, Supervising
  <2> QED
    BY <1>00, <2>1, <2>2, <2>3, <2>4, <2>7, <2>10, <2>11, Moves
<1>5. ASSUME NEW l \in Supervising, Goto(p, l), pc[p] \in Supervising,
             UNCHANGED <<kind, mod, rewrite, others, params, lock, used, left, boot, queue>>
      PROVE  FilesInv'
  <2>1. \A q \in Pid : pc'[q] = IF q = p THEN l ELSE pc[q]
    BY <1>0, <1>5 DEF TypeOK, Goto
  <2>2. \A m \in Module : Supervisors(m)' = Supervisors(m)
    BY <1>5, <2>1 DEF Supervisors
  <2>3. \A q \in Pid : \/ Busy(q) /\ pc'[q] = pc[q] /\ mod'[q] = mod[q]
                       \/ ~Busy(q) /\ pc'[q] \in {"idle"} \cup Supervising
    BY <1>5, <2>1 DEF Busy
  <2> QED  BY <1>5, <2>2, <2>3, Aside
<1>6. CASE Fork(p) \/ ForkFails(p) \/ ModuleClosed(p)
  BY <1>5, <1>6 DEF Fork, ForkFails, ModuleClosed, Supervising
<1>7. CASE Exec(p)
  <2>1. CASE pc[p] = "child"  BY <1>5, <1>7, <2>1 DEF Exec, Supervising
  <2>2. CASE pc[p] # "child"
    <3>1. /\ UNCHANGED <<kind, rewrite, others, params, lock, used, left, boot, queue>>
          /\ UNCHANGED <<pc, mod>>
      BY <1>7, <2>2 DEF Exec
    <3>2. \A m \in Module : Supervisors(m)' = Supervisors(m)  BY <3>1 DEF Supervisors
    <3>3. \A q \in Pid : \/ Busy(q) /\ pc'[q] = pc[q] /\ mod'[q] = mod[q]
                         \/ ~Busy(q) /\ pc'[q] \in {"idle"} \cup Supervising
      BY <3>1 DEF Busy
    <3> QED  BY <3>1, <3>2, <3>3, Aside
  <2> QED  BY <2>1, <2>2
<1> QED  BY <1>1, <1>2, <1>3, <1>4, <1>6, <1>7, <1>8 DEF StartStep

LEMMA StopFiles ==
    ASSUME Inv, NEW p \in Pid, StopStep(p) PROVE FilesInv'
<1>0. TypeOK  BY DEF Inv, TypeInv
<1>1. PICK n : n = mod[p]  OBVIOUS
<1>2. Busy(p) /\ pc[p] \in StopPC
  BY DEF StopStep, FreeRead, FreeTruncate, FreeWrite, ReadLock, KillSupervisor,
         KillProcesses, ModuleStopped, UnlinkLock, UnlinkParams, Busy, Supervising, StopPC
<1>3. /\ n \in Module /\ boot = "up" /\ Along(p) /\ queue = <<>>
      /\ \A q \in Pid \ {p} : ~Busy(q) /\ pc[q] \in {"idle"} \cup Supervising
  BY <1>1, <1>2, Only
<1>4. Recording  BY DEF Inv, FilesInv
<1>5. kind[p] = "stop"  BY <1>2, <1>3 DEF Along
<1>40. \A m \in Recorded : params[m] # "absent"  BY <1>4 DEF Recording
<1>6. ASSUME UNCHANGED <<kind, mod, rewrite, lock, params, queue, boot>>,
             NEW l \in {"freeTruncate", "freeWrite", "lock", "kill", "open"}, Goto(p, l),
             Along(p)', used' \subseteq Recorded \cup left',
             \A m \in Module \ {n} : DeviceKept(m) => DeviceKept(m)'
      PROVE  FilesInv'
  <2>1. l \in PCs /\ l \notin {"idle"} \cup Supervising /\ l \notin TmpPC
    BY <1>6 DEF PCs, StopPC, BothPC, Supervising, TmpPC
  <2>2. pc[p] \notin TmpPC  BY <1>2 DEF StopPC, TmpPC
  <2>3. mod'[p] = n /\ (\A q \in Pid \ {p} : mod'[q] = mod[q])
        /\ (\A m \in Module \ {n} : lock'[m] = lock[m] /\ params'[m] = params[m])
        /\ (\A m \in Recorded : params'[m] # "absent")
    BY <1>1, <1>6, <1>40
  <2> QED  BY <1>1, <1>2, <1>3, <1>5, <1>6, <2>1, <2>2, <2>3, Moves
<1>7. CASE FreeRead(p)
  <2>1. /\ UNCHANGED <<kind, mod, rewrite, lock, params, used, left, queue, boot,
                       content, conf>>
        /\ Goto(p, "freeTruncate") /\ pc[p] = "freeRead"
        /\ others'[p] = used \ {n}
    BY <1>0, <1>1, <1>7 DEF FreeRead, TypeOK, rewrite
  <2>2. pc'[p] = "freeTruncate" /\ \A q \in Pid \ {p} : pc'[q] = pc[q]
    BY <1>0, <2>1 DEF TypeOK, Goto
  <2>3. Along(p)'
    BY <1>1, <1>4, <1>5, <2>1, <2>2 DEF Along, BothPC, StopPC, Recording, Recorded
  <2>4. ASSUME NEW m \in Module \ {n}, DeviceKept(m) PROVE DeviceKept(m)'
    <3>1. m \in used  BY <1>3, <2>1, <2>4 DEF DeviceKept, Supervising
    <3> QED  BY <1>3, <2>1, <2>2, <3>1 DEF DeviceKept, Supervising
  <2> QED  BY <1>4, <1>6, <2>1, <2>3, <2>4 DEF Recording
<1>8. CASE FreeTruncate(p)
  <2>1. /\ UNCHANGED <<kind, mod, rewrite, lock, params, others, left, queue, boot,
                       content, conf>>
        /\ Goto(p, "freeWrite") /\ pc[p] = "freeTruncate" /\ used' = {}
    BY <1>8 DEF FreeTruncate, rewrite
  <2>2. pc'[p] = "freeWrite" /\ \A q \in Pid \ {p} : pc'[q] = pc[q]
    BY <1>0, <2>1 DEF TypeOK, Goto
  <2>3. Along(p)'
    BY <1>1, <1>3, <1>5, <2>1, <2>2 DEF Along, BothPC, StopPC, Recorded
  <2>4. ASSUME NEW m \in Module \ {n}, DeviceKept(m) PROVE DeviceKept(m)'
    BY <1>3, <2>1, <2>2, <2>4 DEF DeviceKept, Supervising
  <2> QED  BY <1>4, <1>6, <2>1, <2>3, <2>4 DEF Recording
<1>9. CASE FreeWrite(p)
  <2>1. /\ UNCHANGED <<kind, mod, rewrite, lock, params, queue, boot, content, conf>>
        /\ Goto(p, "lock") /\ pc[p] = "freeWrite"
        /\ used' = others[p] /\ left' = left \ {n}
        /\ others[p] \subseteq (Recorded \cup left) \ {n}
    BY <1>1, <1>3, <1>9 DEF FreeWrite, rewrite, Along
  <2>2. pc'[p] = "lock" /\ \A q \in Pid \ {p} : pc'[q] = pc[q]
    BY <1>0, <2>1 DEF TypeOK, Goto
  <2>3. Along(p)'
    BY <1>1, <1>5, <2>1, <2>2 DEF Along, BothPC, StopPC, Recorded
  <2>4. ASSUME NEW m \in Module \ {n}, DeviceKept(m) PROVE DeviceKept(m)'
    <3>1. m \in others[p]  BY <2>1, <2>4 DEF DeviceKept
    <3>2. \A q \in Pid : pc'[q] \notin {"freeTruncate", "freeWrite"}
      BY <1>3, <2>2 DEF Supervising
    <3> QED  BY <2>1, <3>1, <3>2 DEF DeviceKept
  <2>5. used' \subseteq Recorded \cup left'  BY <2>1
  <2> QED  BY <1>6, <2>1, <2>3, <2>4, <2>5
<1>10. ASSUME UNCHANGED <<kind, mod, rewrite, lock, params, others, used, left, queue, boot>>,
              pc[p] \in {"lock", "killScan"},
              NEW l \in {"kill", "open"}, Goto(p, l)
       PROVE  FilesInv'
  <2>0. UNCHANGED <<content, conf>>  BY <1>10 DEF rewrite
  <2>1. n \notin used \ left  BY <1>1, <1>3, <1>10 DEF Along
  <2>2. pc'[p] = l /\ \A q \in Pid \ {p} : pc'[q] = pc[q]
    BY <1>0, <1>10 DEF TypeOK, Goto
  <2>3. Along(p)'
    BY <1>1, <1>5, <1>10, <2>0, <2>1, <2>2 DEF Along, BothPC, StopPC
  <2>4. ASSUME NEW m \in Module \ {n}, DeviceKept(m) PROVE DeviceKept(m)'
    BY <1>3, <1>10, <2>2, <2>4 DEF DeviceKept, Supervising
  <2> QED  BY <1>4, <1>6, <1>10, <2>3, <2>4 DEF Recording
<1>11. CASE ReadLock(p)
  BY <1>10, <1>11 DEF ReadLock
<1>12. CASE ModuleStopped(p)
  BY <1>10, <1>12 DEF ModuleStopped
<1>13. CASE KillProcesses(p)
  <2>1. UNCHANGED <<kind, rewrite, others, params, lock, used, left, boot, queue, pc, mod>>
    BY <1>13 DEF KillProcesses, script
  <2>2. \A m \in Module : Supervisors(m)' = Supervisors(m)  BY <2>1 DEF Supervisors
  <2>3. \A q \in Pid : \/ Busy(q) /\ pc'[q] = pc[q] /\ mod'[q] = mod[q]
                       \/ ~Busy(q) /\ pc'[q] \in {"idle"} \cup Supervising
    BY <2>1 DEF Busy
  <2> QED  BY <2>1, <2>2, <2>3, Aside
<1>14. CASE KillSupervisor(p)
  <2>1. PICK t : t = target[p]  OBVIOUS
  <2>2. pc[p] = "kill" /\ t \in Pid /\ lock[n] = t /\ n \notin used \ left
    BY <1>1, <1>3, <1>14, <2>1 DEF KillSupervisor, Along, Inv, LockInv, Knows
  <2>3. t # p /\ (pc[t] = "idle" \/ (pc[t] \in Supervising /\ mod[t] = n))
    BY <1>3, <2>2 DEF Inv, LockInv, Owners, Supervising
  <2>4. /\ pc'[p] = "killScan" /\ mod'[p] = n /\ pc'[t] = "idle"
        /\ \A q \in Pid \ {p, t} : pc'[q] = pc[q] /\ mod'[q] = mod[q]
    BY <1>0, <1>1, <1>14, <2>1, <2>2, <2>3 DEF KillSupervisor, TypeOK
  <2>5. UNCHANGED <<kind, rewrite, others, params, lock, used, left, boot, queue,
                    content, conf, tmp, handle>>
    BY <1>14 DEF KillSupervisor, rewrite
  <2>6. Recorded' = Recorded /\ Restorable' = Restorable
    BY <2>5 DEF Recorded, Startable, Restorable
  <2>7. \A q \in Pid \ {p} : pc'[q] \in {"idle"} \cup Supervising
    BY <1>3, <2>4
  <2>8. Recording'
    BY <1>3, <1>4, <2>5, <2>6 DEF Recording
  <2>9. Temporary'
    <3>1. Temporary  BY DEF Inv, FilesInv
    <3>2. \A q \in Pid : pc'[q] \notin TmpPC /\ pc[q] \notin TmpPC
      BY <1>3, <2>2, <2>4, <2>7 DEF Supervising, TmpPC
    <3> QED  BY <2>5, <3>1, <3>2 DEF Temporary, TmpPC
  <2>10. Along(p)'
    BY <1>5, <2>2, <2>4, <2>5 DEF Along, BothPC, StopPC
  <2>11. ASSUME NEW m \in Module \ {n} PROVE Settled(m)'
    <3>1. Supervisors(m)' = Supervisors(m)
      <4>1. p \notin Supervisors(m) /\ p \notin Supervisors(m)'
        BY <2>2, <2>4 DEF Supervisors, Supervising
      <4>2. t \notin Supervisors(m) /\ t \notin Supervisors(m)'
        BY <2>3, <2>4, <2>11 DEF Supervisors, Supervising
      <4>3. \A q \in Pid \ {p, t} : q \in Supervisors(m) <=> q \in Supervisors(m)'
        BY <2>4 DEF Supervisors
      <4>4. Supervisors(m) \subseteq Pid /\ Supervisors(m)' \subseteq Pid  BY DEF Supervisors
      <4> QED  BY <4>1, <4>2, <4>3, <4>4
    <3>2. DeviceKept(m) => DeviceKept(m)'
      BY <1>3, <2>2, <2>4, <2>5, <2>7 DEF DeviceKept, Supervising
    <3> QED  BY <1>1, <1>2, <2>5, <2>6, <2>11, <3>1, <3>2, OthersSettled
  <2>12. Busy(p)' /\ mod'[p] = n  BY <2>4 DEF Busy, Supervising
  <2> QED  BY <1>1, <1>2, <1>3, <2>7, <2>8, <2>9, <2>10, <2>11, <2>12, AloneAlong
<1>15. CASE UnlinkLock(p)
  <2>1. /\ UNCHANGED <<kind, mod, rewrite, params, others, used, left, queue, boot,
                       content, conf>>
        /\ Goto(p, "unlinkParams") /\ pc[p] = "unlinkLock" /\ n \notin Recorded
        /\ lock'[n] = "absent" /\ \A m \in Module \ {n} : lock'[m] = lock[m]
    BY <1>0, <1>1, <1>3, <1>15 DEF UnlinkLock, rewrite, Along, TypeOK
  <2>2. pc'[p] = "unlinkParams" /\ \A q \in Pid \ {p} : pc'[q] = pc[q]
    BY <1>0, <2>1 DEF TypeOK, Goto
  <2>3. Along(p)'
    BY <1>1, <1>5, <2>1, <2>2 DEF Along, BothPC, StopPC, Recorded
  <2>4. \A m \in Module : DeviceKept(m) => DeviceKept(m)'
    BY <1>3, <2>1, <2>2 DEF DeviceKept, Supervising
  <2>5. used' \subseteq Recorded \cup left'  BY <1>4, <2>1 DEF Recording
  <2>6. /\ mod'[p] = n /\ "unlinkParams" \in PCs
        /\ "unlinkParams" \notin {"idle"} \cup Supervising
        /\ "unlinkParams" \notin TmpPC /\ pc[p] \notin TmpPC
        /\ \A m \in Recorded : params'[m] # "absent"
    BY <1>1, <1>40, <2>1 DEF PCs, StopPC, Supervising, TmpPC
  <2> QED  BY <1>1, <1>2, <1>3, <1>5, <2>1, <2>3, <2>4, <2>5, <2>6, Moves
<1>16. CASE UnlinkParams(p)
  <2>1. /\ UNCHANGED <<rewrite, lock, others, used, left, queue, boot>>
        /\ UNCHANGED <<second, handle, lines, content, conf, tmp>>
        /\ pc[p] = "unlinkParams" /\ n \notin Recorded /\ lock[n] = "absent"
        /\ params' = [params EXCEPT ![n] = "absent"] /\ Finish(p)
    <3>1. UNCHANGED <<rewrite, lock, others, used, left, queue, boot>> /\ pc[p] = "unlinkParams"
          /\ params' = [params EXCEPT ![n] = "absent"] /\ Finish(p)
      BY <1>1, <1>16 DEF UnlinkParams
    <3>2. n \notin Recorded /\ lock[n] = "absent"  BY <1>1, <1>3, <3>1 DEF Along
    <3> QED  BY <3>1, <3>2 DEF rewrite
  <2>2. /\ pc'[p] = "idle" /\ mod'[p] = NONE
        /\ \A q \in Pid \ {p} : pc'[q] = pc[q] /\ mod'[q] = mod[q]
    BY <1>0, <2>1 DEF TypeOK, Goto, Finish
  <2>3. Recorded' = Recorded  BY <2>1 DEF Recorded
  <2>30. \A m \in Module \ {n} : params'[m] = params[m]  BY <1>0, <2>1 DEF TypeOK
  <2>31. \A m \in Module \ {n} : (m \in Restorable)' <=> m \in Restorable
    BY <2>3, <2>30 DEF Restorable, Startable
  <2>4. Recording'
    <3>1. Recorded \subseteq Module
      BY <1>0, SeqToSetIn DEF Recorded, TypeOK
    <3>2. \A m \in Recorded : params'[m] # "absent"  BY <1>40, <2>1, <2>30, <3>1
    <3> QED  BY <1>3, <1>4, <2>1, <2>3, <3>2 DEF Recording
  <2>5. \A q \in Pid \ {p} : pc'[q] \in {"idle"} \cup Supervising  BY <1>3, <2>2
  <2>6. Temporary'
    <3>1. Temporary  BY DEF Inv, FilesInv
    <3>2. \A q \in Pid : pc'[q] \notin TmpPC /\ pc[q] \notin TmpPC
      BY <1>3, <2>1, <2>2, <2>5 DEF Supervising, TmpPC
    <3> QED  BY <2>1, <3>1, <3>2 DEF Temporary, TmpPC
  <2>7. Along(p)'  BY <2>2 DEF Along, BothPC, StopPC
  <2>8. ASSUME NEW m \in Module \ {n} PROVE Settled(m)'
    <3>1. Supervisors(m)' = Supervisors(m)
      BY <2>1, <2>2 DEF Supervisors, Supervising
    <3>2. DeviceKept(m) => DeviceKept(m)'
      BY <1>3, <2>1, <2>2, <2>5 DEF DeviceKept, Supervising
    <3> QED  BY <1>1, <1>2, <2>1, <2>8, <2>31, <3>1, <3>2, OthersSettled
  <2>9. Settled(n)'  BY <2>1, <2>3 DEF Settled, Restorable
  <2> QED  BY <1>1, <1>2, <1>3, <2>4, <2>5, <2>6, <2>7, <2>8, <2>9, AloneAlong
<1> QED
  BY <1>7, <1>8, <1>9, <1>11, <1>12, <1>13, <1>14, <1>15, <1>16 DEF StopStep

\* The lines that a script is about to write.
LEMMA NewLinesAre ==
    ASSUME Inv, NEW p \in Pid, mod[p] \in Module
    PROVE  /\ NewLines(p) \in Seq(Module)
           /\ OnceEach(NewLines(p))
           /\ ToSet(NewLines(p)) = IF kind[p] = "start" THEN Recorded \cup {mod[p]}
                                   ELSE Recorded \ {mod[p]}
<1>1. content[conf] \in Seq(Module) /\ OnceEach(content[conf])
  BY DEF Inv, TypeInv, TypeOK, FilesInv, Recording
<1>2. PICK w : w = WithoutModule(mod[p])  OBVIOUS
<1>3. w \in Seq(Module) /\ OnceEach(w) /\ ToSet(w) = Recorded \ {mod[p]}
  BY <1>1, <1>2, WithoutIs DEF WithoutModule, Recorded
<1>4. CASE kind[p] # "start"
  BY <1>2, <1>3, <1>4 DEF NewLines
<1>5. CASE kind[p] = "start"
  <2>1. PICK a : a = Append(w, mod[p])  OBVIOUS
  <2>2. /\ a \in Seq(Module) /\ Len(w) \in Nat /\ Len(a) = Len(w) + 1
        /\ DOMAIN a = 1 .. Len(a) /\ DOMAIN w = 1 .. Len(w)
        /\ \A i \in 1 .. Len(w) : a[i] = w[i]
        /\ a[Len(w) + 1] = mod[p]
    BY <1>3, <2>1, AppendProperties, LenProperties
  <2>3. 1 .. Len(a) = 1 .. Len(w) \cup {Len(w) + 1}  BY <2>2
  <2>4. ToSet(a) = ToSet(w) \cup {mod[p]}
    BY <2>2, <2>3 DEF ToSet
  <2>5. \A i \in 1 .. Len(w) : w[i] # mod[p]
    BY <1>3, <2>2 DEF ToSet
  <2>6. OnceEach(a)
    BY <1>3, <2>2, <2>3, <2>5 DEF OnceEach
  <2> QED  BY <1>2, <1>3, <1>5, <2>1, <2>2, <2>4, <2>6 DEF NewLines
<1> QED  BY <1>4, <1>5

LEMMA RewriteFiles ==
    ASSUME Inv, NEW p \in Pid, RewriteStep(p) PROVE FilesInv'
<1>0. TypeOK  BY DEF Inv, TypeInv
<1>1. PICK n : n = mod[p]  OBVIOUS
<1>2. Busy(p) /\ pc[p] \in BothPC
  BY DEF RewriteStep, RewriteOpen, RewriteRead, RewriteWrite, RewriteMove, Busy,
         Supervising, BothPC
<1>3. /\ n \in Module /\ boot = "up" /\ Along(p)
      /\ \A q \in Pid \ {p} : ~Busy(q) /\ pc[q] \in {"idle"} \cup Supervising
      /\ \A s \in Second : tmp[s] # NONE => pc[p] \in TmpPC /\ second[p] = s
      /\ \A q \in Pid \ {p} : handle[q] = NONE
      /\ kind[p] = "stop" => queue = <<>>
  BY <1>1, <1>2, Only
<1>4. Recording /\ Temporary  BY DEF Inv, FilesInv
<1>5. kind[p] \in {"start", "stop"}  BY <1>0 DEF TypeOK
\* The file named started.conf is the same as before.
<1>6. ASSUME UNCHANGED <<kind, mod, conf, others, params, lock, used, left, boot, queue>>,
             content'[conf] = content[conf],
             NEW l \in {"read", "write", "move"}, Goto(p, l), Temporary'
      PROVE  FilesInv'
  <2>1. pc'[p] = l /\ \A q \in Pid \ {p} : pc'[q] = pc[q]
    BY <1>0, <1>6 DEF TypeOK, Goto
  <2>2. \A q \in Pid \ {p} : pc'[q] \in {"idle"} \cup Supervising  BY <1>3, <2>1
  <2>3. Recorded' = Recorded /\ Startable' = Startable /\ Restorable' = Restorable
    BY <1>6 DEF Recorded, Startable, Restorable
  <2>4. \A m \in Module : Supervisors(m)' = Supervisors(m)
    BY <1>2, <1>6, <2>1 DEF Supervisors, Supervising, BothPC
  <2>5. Recording'
    <3>1. queue' # <<>> => \A q \in Pid : Busy(q)' => kind'[q] = "start" /\ pc'[q] \notin StopPC
      BY <1>2, <1>3, <1>4, <1>5, <1>6, <2>1, <2>2 DEF Busy, StopPC
    <3> QED  BY <1>4, <1>6, <2>3, <3>1 DEF Recording
  <2>6. Along(p)'
    <3>1. LockMeans(n)' <=> LockMeans(n)
      BY <1>3, <1>6, <2>3, <2>4 DEF LockMeans
    <3>2. /\ kind[p] = "start" => n \in Startable /\ LockMeans(n)
          /\ kind[p] = "stop" => n \notin used \ left
      BY <1>1, <1>2, <1>3 DEF Along
    <3> QED  BY <1>1, <1>6, <2>1, <2>3, <3>1, <3>2 DEF Along, BothPC, StopPC
  <2>7. ASSUME NEW m \in Module \ {n} PROVE Settled(m)'
    <3>1. DeviceKept(m) => DeviceKept(m)'
      BY <1>2, <1>6, <2>1 DEF DeviceKept, BothPC
    <3> QED  BY <1>1, <1>2, <1>6, <2>3, <2>4, <2>7, <3>1, OthersSettled
  <2>8. Busy(p)' /\ mod'[p] = n  BY <1>1, <1>6, <2>1 DEF Busy, Supervising
  <2> QED  BY <1>1, <1>2, <1>3, <1>6, <2>2, <2>5, <2>6, <2>7, <2>8, AloneAlong
<1>7. ASSUME NEW s \in Second, NEW i \in Inode, RewriteOpen(p, s, i) PROVE FilesInv'
  <2>1. /\ pc[p] = "open" /\ (IF tmp[s] = NONE THEN ~InUse(i) ELSE i = tmp[s])
        /\ UNCHANGED <<kind, mod, conf, others, params, lock, used, left, boot, queue>>
        /\ Goto(p, "read")
        /\ second'[p] = s /\ handle'[p] = i /\ content'[i] = <<>> /\ tmp'[s] = i
        /\ \A q \in Pid \ {p} : handle'[q] = handle[q]
        /\ \A j \in Inode \ {i} : content'[j] = content[j]
        /\ \A t \in Second \ {s} : tmp'[t] = tmp[t]
    BY <1>0, <1>7 DEF RewriteOpen, TypeOK
  <2>2. \A t \in Second : tmp[t] = NONE  BY <1>3, <2>1 DEF TmpPC
  <2>3. i # conf  BY <2>1, <2>2 DEF InUse
  <2>4. content'[conf] = content[conf]  BY <1>0, <2>1, <2>3 DEF TypeOK
  <2>5. pc'[p] = "read" /\ \A q \in Pid \ {p} : pc'[q] \in {"idle"} \cup Supervising
    BY <1>0, <1>3, <2>1 DEF TypeOK, Goto
  <2>6. Temporary'
    <3>1. \A t \in Second : tmp'[t] # NONE => t = s  BY <2>1, <2>2
    <3>2. \A q \in Pid : handle'[q] # NONE => q = p  BY <1>3, <2>1
    <3>3. \A q \in Pid : pc'[q] \in {"read", "write"} => q = p  BY <2>5 DEF Supervising
    <3>4. \A q \in Pid : pc'[q] \notin {"write", "move"}  BY <2>5 DEF Supervising
    <3>5. \A t \in Second : tmp'[t] # NONE => \E q \in Pid : pc'[q] \in TmpPC /\ second'[q] = t
      BY <2>1, <2>5, <3>1 DEF TmpPC
    <3>6. handle'[p] = tmp'[second'[p]] /\ handle'[p] # conf' /\ content'[handle'[p]] = <<>>
      BY <2>1, <2>3
    <3> QED  BY <2>5, <3>2, <3>3, <3>4, <3>5, <3>6 DEF Temporary
  <2> QED  BY <1>6, <2>1, <2>4, <2>6
<1>10. CASE RewriteRead(p)
  <2>1. /\ pc[p] = "read"
        /\ UNCHANGED <<kind, mod, conf, others, params, lock, used, left, boot, queue>>
        /\ UNCHANGED <<second, handle, tmp, content>>
        /\ Goto(p, "write") /\ lines'[p] = NewLines(p)
    BY <1>0, <1>10 DEF RewriteRead, TypeOK, NewLines
  <2>2. pc'[p] = "write" /\ \A q \in Pid \ {p} : pc'[q] \in {"idle"} \cup Supervising
    BY <1>0, <1>3, <2>1 DEF TypeOK, Goto
  <2>3. NewLines(p)' = NewLines(p)  BY <2>1 DEF NewLines, WithoutModule
  <2>4. Temporary'
    <3>1. \A q \in Pid : handle'[q] # NONE => q = p  BY <1>3, <2>1
    <3>2. \A q \in Pid : pc'[q] \in {"read", "write"} => q = p  BY <2>2 DEF Supervising
    <3>3. \A q \in Pid : pc'[q] # "move"  BY <2>2 DEF Supervising
    <3>4. lines'[p] = NewLines(p)'  BY <2>1, <2>3
    <3>5. \A t \in Second : tmp'[t] # NONE => \E q \in Pid : pc'[q] \in TmpPC /\ second'[q] = t
      BY <1>3, <2>1, <2>2 DEF TmpPC
    <3>6. handle'[p] = tmp'[second'[p]] /\ handle'[p] # conf' /\ content'[handle'[p]] = <<>>
      BY <1>4, <2>1 DEF Temporary
    <3> QED  BY <2>2, <3>1, <3>2, <3>3, <3>4, <3>5, <3>6 DEF Temporary
  <2> QED  BY <1>6, <2>1, <2>4
<1>8. CASE RewriteWrite(p)
  <2>1. PICK h : h = handle[p]  OBVIOUS
  <2>2. PICK u : u = NewLines(p)  OBVIOUS
  <2>3. /\ pc[p] = "write" /\ h = tmp[second[p]] /\ h # conf
        /\ content[h] = <<>> /\ lines[p] = u
    BY <1>4, <1>8, <2>1, <2>2 DEF RewriteWrite, Temporary
  <2>4. h \in Inode /\ second[p] \in Second
    BY <2>1, <2>3 DEF Inv, TypeInv, Filled
  <2>5. u \in Seq(Module)  BY <1>1, <1>3, <2>2, NewLinesAre
  <2>6. u \o SubSeq(<<>>, Len(u) + 1, Len(<<>>)) = u
    <3>1. Len(u) \in Nat /\ Len(<<>>) = 0  BY <2>5, LenProperties, EmptySeq
    <3>2. SubSeq(<<>>, Len(u) + 1, 0) = <<>>
      <4>1. <<>> \in Seq(Module) /\ Len(u) + 1 \in Int /\ 0 \in Int /\ Len(u) + 1 > 0
        BY <3>1, EmptySeq
      <4> QED  BY <4>1, SubSeqEmpty
    <3> QED  BY <2>5, <3>1, <3>2, ConcatEmptySeq
  <2>7. /\ UNCHANGED <<kind, mod, conf, others, params, lock, used, left, boot, queue>>
        /\ UNCHANGED <<second, tmp>> /\ Goto(p, "move")
        /\ content'[h] = u /\ handle'[p] = NONE
        /\ \A q \in Pid \ {p} : handle'[q] = handle[q]
        /\ \A j \in Inode \ {h} : content'[j] = content[j]
    <3>1. content' = [content EXCEPT ![h] = u \o SubSeq(content[h], Len(u) + 1, Len(content[h]))]
      BY <1>8, <2>1, <2>3 DEF RewriteWrite
    <3>2. content' = [content EXCEPT ![h] = u]  BY <2>3, <2>6, <3>1
    <3> QED  BY <1>0, <1>8, <2>4, <3>2 DEF RewriteWrite, TypeOK
  <2>8. content'[conf] = content[conf]  BY <1>0, <2>3, <2>7 DEF TypeOK
  <2>9. pc'[p] = "move" /\ \A q \in Pid \ {p} : pc'[q] \in {"idle"} \cup Supervising
    BY <1>0, <1>3, <2>7 DEF TypeOK, Goto
  <2>10. NewLines(p)' = NewLines(p)
    BY <2>7, <2>8 DEF NewLines, WithoutModule
  <2>11. Temporary'
    <3>1. \A q \in Pid : handle'[q] = NONE  BY <1>3, <2>7
    <3>2. \A q \in Pid : pc'[q] = "move" => q = p  BY <2>9 DEF Supervising
    <3>3. \A q \in Pid : pc'[q] \notin {"read", "write"}  BY <2>9 DEF Supervising
    <3>4. \A t \in Second : tmp'[t] # NONE => \E q \in Pid : pc'[q] \in TmpPC /\ second'[q] = t
      BY <1>3, <2>7, <2>9 DEF TmpPC
    <3>5. tmp'[second'[p]] \in Inode /\ content'[tmp'[second'[p]]] = NewLines(p)'
      BY <2>2, <2>3, <2>4, <2>7, <2>10
    <3> QED  BY <3>1, <3>2, <3>3, <3>4, <3>5 DEF Temporary
  <2> QED  BY <1>6, <2>7, <2>8, <2>11
<1>9. CASE RewriteMove(p)
  <2>1. PICK s : s = second[p]  OBVIOUS
  <2>2. PICK i : i = tmp[s]  OBVIOUS
  <2>3. pc[p] = "move" /\ i \in Inode /\ content[i] = NewLines(p) /\ s \in Second
    BY <1>4, <1>9, <2>1, <2>2 DEF RewriteMove, Temporary, Inv, TypeInv, Filled
  <2>4. i # NONE  BY <2>3, WatchdogAssumption
  <2>5. /\ conf' = i /\ tmp'[s] = NONE /\ (\A t \in Second \ {s} : tmp'[t] = tmp[t])
        /\ UNCHANGED <<kind, mod, handle, lines, others, params, lock, used, left,
                       boot, queue>>
        /\ Goto(p, IF kind[p] = "start" THEN "device" ELSE "unlinkLock")
    BY <1>0, <1>9, <2>1, <2>2, <2>3, <2>4 DEF RewriteMove, Moved, TypeOK
  <2>50. content'[conf'] = content[i]  BY <1>9, <2>3, <2>5 DEF RewriteMove
  <2>6. /\ pc'[p] = IF kind[p] = "start" THEN "device" ELSE "unlinkLock"
        /\ \A q \in Pid \ {p} : pc'[q] = pc[q]
        /\ \A q \in Pid \ {p} : pc'[q] \in {"idle"} \cup Supervising
    BY <1>0, <1>3, <2>5 DEF TypeOK, Goto
  <2>7. Recorded' = IF kind[p] = "start" THEN Recorded \cup {n} ELSE Recorded \ {n}
    <3>1. Recorded' = ToSet(NewLines(p))  BY <2>3, <2>50 DEF Recorded
    <3> QED  BY <1>1, <1>3, <3>1, NewLinesAre
  <2>8. /\ kind[p] = "start" => n \in Startable /\ LockMeans(n)
        /\ kind[p] = "stop" => n \notin used \ left /\ queue = <<>>
    BY <1>1, <1>2, <1>3 DEF Along
  <2>80. Startable' = Startable  BY <2>5 DEF Startable
  <2>9. \A m \in Module : Supervisors(m)' = Supervisors(m)
    BY <2>3, <2>5, <2>6 DEF Supervisors, Supervising
  <2>10. Recording'
    <3>1. OnceEach(content'[conf'])  BY <1>1, <1>3, <2>3, <2>50, NewLinesAre
    <3>2. \A m \in Recorded' : params'[m] # "absent"
      BY <1>4, <1>5, <2>5, <2>7, <2>8 DEF Recording, Startable
    <3>5. used' \subseteq Recorded' \cup left'
      BY <1>4, <1>5, <2>5, <2>7, <2>8 DEF Recording
    <3>3. ToSet(queue') \subseteq Recorded'
      <4>1. queue = <<>> => ToSet(queue) = {}  BY DEF ToSet
      <4> QED  BY <1>4, <1>5, <2>5, <2>7, <2>8, <4>1 DEF Recording
    <3>4. queue' # <<>> => \A q \in Pid : Busy(q)' => kind'[q] = "start" /\ pc'[q] \notin StopPC
      BY <1>5, <2>5, <2>6, <2>8 DEF Busy, StopPC
    <3> QED  BY <3>1, <3>2, <3>3, <3>4, <3>5 DEF Recording
  <2>11. Temporary'
    <3>1. \A t \in Second : tmp'[t] = NONE  BY <1>3, <2>1, <2>5
    <3>2. \A q \in Pid : pc'[q] \notin {"read", "write", "move"}
      BY <2>6 DEF Supervising
    <3>3. \A q \in Pid : handle'[q] = NONE
      BY <1>4, <2>3, <1>3, <2>5 DEF Temporary
    <3> QED  BY <3>1, <3>2, <3>3 DEF Temporary
  <2>12. Along(p)'
    <3>1. LockMeans(n) /\ kind[p] = "start" => LockMeans(n)'
      BY <1>3, <2>5, <2>7, <2>9 DEF LockMeans
    <3>2. mod'[p] = n  BY <1>1, <2>5
    <3>3. CASE kind[p] = "start"
      BY <2>5, <2>6, <2>7, <2>8, <2>80, <3>1, <3>2, <3>3 DEF Along, BothPC, StopPC
    <3>4. CASE kind[p] = "stop"
      BY <2>5, <2>6, <2>7, <2>8, <3>2, <3>4 DEF Along, BothPC, StopPC
    <3> QED  BY <1>5, <3>3, <3>4
  <2>13. ASSUME NEW m \in Module \ {n} PROVE Settled(m)'
    <3>1. DeviceKept(m) => DeviceKept(m)'
      BY <2>3, <2>5, <2>6 DEF DeviceKept
    <3>2. (m \in Restorable)' <=> m \in Restorable  BY <2>7, <2>13, <2>80 DEF Restorable
    <3> QED  BY <1>1, <1>2, <2>5, <2>9, <2>13, <3>1, <3>2, OthersSettled
  <2>14. Busy(p)' /\ mod'[p] = n  BY <1>1, <2>5, <2>6 DEF Busy, Supervising
  <2> QED  BY <1>1, <1>2, <1>3, <2>6, <2>10, <2>11, <2>12, <2>13, <2>14, AloneAlong
<1> QED  BY <1>7, <1>8, <1>9, <1>10 DEF RewriteStep

\* A script is run, the only one.
LEMMA RunFiles ==
    ASSUME Inv, Overlap = "none", NEW p \in Pid, NEW k \in {"start", "stop"}, NEW n \in Module,
           NEW l \in {"params", "open", "freeRead", "lock"}, Run(p, k, n, l),
           UNCHANGED <<rewrite, others, lock, used, boot>>,
           left \subseteq left',
           \A m \in Module \ {n} : params'[m] = params[m],
           params'[n] = params[n] \/ params'[n] = "empty",
           l \in {"params", "open"} <=> k = "start",
           l = "params" => params'[n] = "empty",
           l = "open" => params'[n] = "whole",
           l = "lock" => n \notin used \ left',
           k = "stop" => queue = <<>>,
           queue' # <<>> => queue # <<>>,
           \A m \in ToSet(queue) : m = n \/ m \in ToSet(queue'),
           ToSet(queue') \subseteq ToSet(queue)
    PROVE  FilesInv'
<1>0. TypeOK  BY DEF Inv, TypeInv
<1>1. UNCHANGED <<second, handle, lines, content, conf, tmp, others, lock, used, boot>>
  BY DEF rewrite
<1>2. pc[p] = "idle" /\ boot = "up" /\ \A q \in Pid : ~Busy(q)
  BY DEF Run, MayRun
<1>3. \A q \in Pid : pc[q] \in {"idle"} \cup Supervising  BY <1>2 DEF Busy
<1>4. /\ pc'[p] = l /\ mod'[p] = n /\ kind'[p] = k
      /\ \A q \in Pid \ {p} : pc'[q] = pc[q] /\ mod'[q] = mod[q] /\ kind'[q] = kind[q]
  BY <1>0 DEF TypeOK, Run, Goto
<1>5. Recording /\ Temporary  BY DEF Inv, FilesInv
<1>6. Recorded' = Recorded  BY <1>1 DEF Recorded
<1>7. \A m \in Module : Supervisors(m)' = Supervisors(m)
  <2>1. p \notin {q \in Pid : pc[q] \in Supervising} /\ l \notin Supervising
    BY <1>2 DEF Supervising
  <2> QED  BY <1>4, <2>1 DEF Supervisors
<1>8. \A q \in Pid \ {p} : ~Busy(q)'  BY <1>3, <1>4 DEF Busy
<1>9. OneBusy'  BY <1>8 DEF OneBusy
<1>10. Recording'
  <2>1. \A m \in Recorded : params'[m] # "absent"
    <3>1. Recorded \subseteq Module
      BY <1>0, SeqToSetIn DEF Recorded, TypeOK
    <3> QED  BY <1>5, <3>1 DEF Recording
  <2>2. /\ used \subseteq Recorded \cup left' /\ ToSet(queue') \subseteq Recorded
        /\ OnceEach(content[conf])
    BY <1>5 DEF Recording
  <2>3. queue' # <<>> => \A q \in Pid : Busy(q)' => kind'[q] = "start" /\ pc'[q] \notin StopPC
    BY <1>4, <1>8 DEF StopPC
  <2> QED  BY <1>1, <1>6, <2>1, <2>2, <2>3 DEF Recording
<1>11. Temporary'
  <2>1. \A q \in Pid : pc'[q] \notin TmpPC /\ pc[q] \notin TmpPC
    BY <1>3, <1>4 DEF Supervising, TmpPC
  <2> QED  BY <1>1, <1>5, <2>1 DEF Temporary, TmpPC
<1>12. Along(p)'
  <2>1. CASE l \in {"params", "open"}
    <3>1. Settled(n)  BY <1>2 DEF Inv, FilesInv
    <3>2. ~\E q \in Pid : pc[q] = "freeWrite"  BY <1>3 DEF Supervising
    <3>3. LockMeans(n)  BY <1>2, <3>1, <3>2 DEF Settled, Restorable, LockMeans, DeviceKept
    <3>4. LockMeans(n)'  BY <1>1, <1>6, <1>7, <3>3 DEF LockMeans
    <3>5. l = "open" => n \in Startable'  BY DEF Startable
    <3> QED  BY <1>4, <2>1, <3>4, <3>5 DEF Along, BothPC, StopPC
  <2>2. CASE l = "freeRead"  BY <1>4, <2>2 DEF Along, BothPC, StopPC
  <2>3. CASE l = "lock"  BY <1>1, <1>4, <2>3 DEF Along, BothPC, StopPC
  <2> QED  BY <2>1, <2>2, <2>3
<1>13. ASSUME NEW q \in Pid \ {p} PROVE Along(q)'
  <2>1. pc'[q] \in {"idle"} \cup Supervising  BY <1>3, <1>4
  <2> QED  BY <2>1 DEF Along, Supervising, BothPC, StopPC
<1>14. ASSUME NEW m \in Module PROVE Settled(m)'
  <2>1. CASE m = n
    <3>1. Busy(p)'  BY <1>4 DEF Busy, Supervising
    <3> QED  BY <1>4, <2>1, <3>1 DEF Settled
  <2>2. CASE m # n
    <3>1. Settled(m)  BY <1>2 DEF Inv, FilesInv
    <3>2. DeviceKept(m) => DeviceKept(m)'
      BY <1>1, <1>3, <1>4 DEF DeviceKept, Supervising
    <3>3. m \in ToSet(queue) => m \in ToSet(queue')  BY <2>2
    <3>4. (m \in Restorable)' <=> m \in Restorable
      BY <1>6, <2>2 DEF Restorable, Startable
    <3> QED  BY <1>1, <1>2, <1>7, <3>1, <3>2, <3>3, <3>4 DEF Settled
  <2> QED  BY <2>1, <2>2
<1> QED  BY <1>9, <1>10, <1>11, <1>12, <1>13, <1>14 DEF FilesInv

LEMMA RunsFiles ==
    ASSUME Inv, Overlap = "none", NEW p \in Pid,
           \/ \E m \in Module : StartWithArguments(p, m) \/ StartFromParams(p, m) \/ Stop(p, m)
           \/ BootNext(p)
    PROVE  FilesInv'
<1>0. TypeOK  BY DEF Inv, TypeInv
<1>1. ASSUME NEW m \in Module, StartWithArguments(p, m) PROVE FilesInv'
  <2>1. params'[m] = "empty" /\ \A n \in Module \ {m} : params'[n] = params[n]
    BY <1>0, <1>1 DEF StartWithArguments, TypeOK
  <2>2. /\ Run(p, "start", m, "params") /\ queue' = queue /\ left' = left
        /\ UNCHANGED <<rewrite, others, lock, used, boot>>
    BY <1>1 DEF StartWithArguments
  <2> QED  BY <2>1, <2>2, RunFiles
<1>2. ASSUME NEW m \in Module, StartFromParams(p, m) PROVE FilesInv'
  <2>1. /\ Run(p, "start", m, "open") /\ queue' = queue /\ left' = left
        /\ params' = params /\ params'[m] = "whole"
        /\ UNCHANGED <<rewrite, others, lock, used, boot>>
    BY <1>2 DEF StartFromParams, Startable
  <2> QED  BY <2>1, RunFiles
<1>3. ASSUME NEW m \in Module, Stop(p, m) PROVE FilesInv'
  <2>1. /\ queue = <<>> /\ queue' = queue /\ params' = params
        /\ UNCHANGED <<rewrite, others, lock, used, boot>>
    BY <1>3 DEF Stop
  <2>2. CASE m \in Startable
    <3>1. Run(p, "stop", m, "freeRead") /\ left' = left  BY <1>3, <2>2 DEF Stop
    <3> QED  BY <2>1, <3>1, RunFiles
  <2>3. CASE m \notin Startable
    <3>1. Run(p, "stop", m, "lock") /\ left' = left \cup ({m} \cap used)
      BY <1>3, <2>3 DEF Stop
    <3>2. left \subseteq left' /\ m \notin used \ left'  BY <3>1
    <3> QED  BY <2>1, <3>1, <3>2, RunFiles
  <2> QED  BY <2>2, <2>3
<1>4. CASE BootNext(p)
  <2>1. PICK n : n = Head(queue)  OBVIOUS
  <2>2. queue \in Seq(Module) /\ queue # <<>> /\ queue' = Tail(queue)
    BY <1>4 DEF BootNext, Inv, TypeInv, TypeOK
  <2>3. /\ Len(queue) \in Nat /\ DOMAIN queue = 1 .. Len(queue) /\ n = queue[1]
        /\ Tail(queue) \in Seq(Module) /\ Len(Tail(queue)) = Len(queue) - 1
        /\ DOMAIN Tail(queue) = 1 .. Len(queue) - 1 /\ Len(queue) >= 1
        /\ \A i \in 1 .. Len(queue) - 1 : Tail(queue)[i] = queue[i + 1]
    <3>1. /\ Len(queue) \in Nat /\ DOMAIN queue = 1 .. Len(queue)
          /\ Tail(queue) \in Seq(Module) /\ Len(Tail(queue)) = Len(queue) - 1
          /\ Head(queue) = queue[1]
          /\ \A i \in 1 .. Len(Tail(queue)) : Tail(queue)[i] = queue[i + 1]
      BY <2>2, HeadTailProperties, LenProperties
    <3>2. DOMAIN Tail(queue) = 1 .. Len(Tail(queue))  BY <3>1, LenProperties
    <3>3. Len(queue) # 0  BY <2>2, EmptySeq
    <3> QED  BY <2>1, <3>1, <3>2, <3>3
  <2>4. n \in ToSet(queue)  BY <2>3 DEF ToSet
  <2>5. n \in Module  BY <2>2, <2>3, ElementOfSeq
  <2>6. ToSet(Tail(queue)) \subseteq ToSet(queue)
    <3>1. \A i \in 1 .. Len(queue) - 1 : i + 1 \in 1 .. Len(queue)  BY <2>3
    <3> QED  BY <2>3, <3>1 DEF ToSet
  <2>7. \A m \in ToSet(queue) : m = n \/ m \in ToSet(Tail(queue))
    <3> SUFFICES ASSUME NEW i \in 1 .. Len(queue), i # 1
                 PROVE  queue[i] \in ToSet(Tail(queue))
      BY <2>3 DEF ToSet
    <3>1. i - 1 \in 1 .. Len(queue) - 1 /\ (i - 1) + 1 = i  BY <2>3
    <3>2. Tail(queue)[i - 1] = queue[i]  BY <2>3, <3>1
    <3> QED  BY <2>3, <3>1, <3>2 DEF ToSet
  <2>8. UNCHANGED <<rewrite, others, params, lock, used, left, boot>>
    BY <1>4 DEF BootNext
  <2>9. CASE n \in Startable
    <3>1. Run(p, "start", n, "open")  BY <1>4, <2>1, <2>9 DEF BootNext
    <3>2. params[n] = "whole"  BY <2>9 DEF Startable
    <3> QED  BY <2>2, <2>5, <2>6, <2>7, <2>8, <3>1, <3>2, RunFiles
  <2>10. CASE n \notin Startable
    <3>1. UNCHANGED <<pc, kind, mod>>  BY <1>4, <2>1, <2>10 DEF BootNext, script
    <3>2. UNCHANGED <<second, handle, lines, content, conf, tmp, others, params, lock,
                      used, left, boot>>
      BY <2>8 DEF rewrite
    <3>3. /\ Recorded' = Recorded /\ Restorable' = Restorable
          /\ \A m \in Module : Supervisors(m)' = Supervisors(m)
      BY <3>1, <3>2 DEF Recorded, Restorable, Startable, Supervisors
    <3>4. OneBusy'  BY <3>1 DEF Inv, FilesInv, OneBusy, Busy
    <3>5. Recording'
      <4>1. Recording  BY DEF Inv, FilesInv
      <4>2. \A q \in Pid : Busy(q)' <=> Busy(q)  BY <3>1 DEF Busy
      <4> QED  BY <2>2, <2>6, <3>1, <3>2, <3>3, <4>1, <4>2 DEF Recording
    <3>6. Temporary'
      <4>1. Temporary  BY DEF Inv, FilesInv
      <4>2. \A q \in Pid : NewLines(q)' = NewLines(q)
        BY <3>1, <3>2 DEF NewLines, WithoutModule
      <4> QED  BY <3>1, <3>2, <4>1, <4>2 DEF Temporary
    <3>7. ASSUME NEW q \in Pid PROVE Along(q)'
      <4>1. Along(q)  BY DEF Inv, FilesInv
      <4>2. Startable' = Startable  BY <3>2 DEF Startable
      <4>3. pc[q] # "idle" => (LockMeans(mod[q])' <=> LockMeans(mod[q]))
        <5>1. pc[q] # "idle" => mod[q] \in Module  BY DEF Inv, TypeInv, Filled
        <5> QED  BY <3>1, <3>2, <3>3, <5>1 DEF LockMeans
      <4> QED  BY <3>1, <3>2, <3>3, <4>1, <4>2, <4>3 DEF Along, BothPC, StopPC
    <3>8. ASSUME NEW m \in Module, boot' = "up" PROVE Settled(m)'
      <4>1. Settled(m)  BY <3>2, <3>8 DEF Inv, FilesInv
      <4>2. DeviceKept(m)' <=> DeviceKept(m)  BY <3>1, <3>2 DEF DeviceKept
      <4>3. (\E q \in Pid : Busy(q) /\ mod[q] = m) => (\E q \in Pid : Busy(q) /\ mod[q] = m)'
        BY <3>1 DEF Busy
      <4>4. m \in ToSet(queue) => m \in ToSet(queue') \/ m \notin Restorable
        BY <2>2, <2>7, <2>10 DEF Restorable
      <4> QED  BY <3>2, <3>3, <4>1, <4>2, <4>3, <4>4 DEF Settled
    <3> QED  BY <3>4, <3>5, <3>6, <3>7, <3>8 DEF FilesInv
  <2> QED  BY <2>9, <2>10
<1> QED  BY <1>1, <1>2, <1>3, <1>4

LEMMA BootFiles == Inv /\ (Reboot \/ BootUnlink) => FilesInv'
<1> SUFFICES ASSUME Inv, Reboot \/ BootUnlink PROVE FilesInv'  OBVIOUS
<1>0. Recording /\ Temporary  BY DEF Inv, FilesInv
<1>1. ASSUME \A q \in Pid : pc'[q] = "idle", \A s \in Second : tmp'[s] = NONE,
             \A q \in Pid : handle'[q] = NONE,
             UNCHANGED <<conf, params, used, left>>, content'[conf] = content[conf],
             ToSet(queue') \subseteq Recorded,
             boot' = "up" => queue' = content[conf] /\ \A m \in Module : lock'[m] = "absent"
      PROVE  FilesInv'
  <2>1. \A q \in Pid : ~Busy(q)'  BY <1>1 DEF Busy
  <2>2. OneBusy'  BY <2>1 DEF OneBusy
  <2>3. Recorded' = Recorded  BY <1>1 DEF Recorded
  <2>4. Recording'  BY <1>0, <1>1, <2>1, <2>3 DEF Recording
  <2>5. Temporary'  BY <1>1 DEF Temporary
  <2>6. \A q \in Pid : Along(q)'  BY <1>1 DEF Along, BothPC, StopPC
  <2>7. boot' = "up" => \A m \in Module : Settled(m)'
    BY <1>1, <2>3 DEF Settled, Restorable, Recorded
  <2> QED  BY <2>2, <2>4, <2>5, <2>6, <2>7 DEF FilesInv
<1>2. CASE Reboot
  <2>1. ToSet(<<>>) = {}  BY DEF ToSet
  <2>2. /\ boot' # "up" /\ queue' = <<>> /\ UNCHANGED <<conf, params, used, left>>
        /\ content'[conf] = content[conf]
    BY <1>2 DEF Reboot, Inv, TypeInv, TypeOK
  <2>3. /\ \A q \in Pid : pc'[q] = "idle" /\ handle'[q] = NONE
        /\ \A s \in Second : tmp'[s] = NONE
    BY <1>2 DEF Reboot
  <2> QED  BY <1>1, <2>1, <2>2, <2>3
<1>3. CASE BootUnlink
  <2>1. /\ \A q \in Pid : pc[q] = "idle"
        /\ UNCHANGED <<pc, tmp, handle, content, conf, params, used, left>>
        /\ lock' = NoLocks /\ queue' = content[conf]
    BY <1>3 DEF BootUnlink, script, rewrite, Inv, LockInv, Typed
  <2>2. \A s \in Second : tmp[s] = NONE  BY <1>0, <2>1 DEF Temporary, TmpPC
  <2>3. \A q \in Pid : handle[q] = NONE  BY <1>0, <2>1 DEF Temporary
  <2>4. \A m \in Module : lock'[m] = "absent"  BY <2>1 DEF NoLocks
  <2>5. ToSet(queue') \subseteq Recorded  BY <2>1 DEF Recorded
  <2> QED  BY <1>1, <2>1, <2>2, <2>3, <2>4, <2>5
<1> QED  BY <1>2, <1>3

LEMMA StepFiles == Overlap = "none" /\ Inv /\ [Next]_vars => FilesInv'
<1> SUFFICES ASSUME Overlap = "none", Inv, [Next]_vars PROVE FilesInv'  OBVIOUS
<1>1. ASSUME UNCHANGED <<script, rewrite, others, params, lock, used, left, boot, queue>>
      PROVE  FilesInv'
  <2>1. UNCHANGED <<pc, kind, mod>>  BY <1>1 DEF script
  <2>2. \A m \in Module : Supervisors(m)' = Supervisors(m)  BY <2>1 DEF Supervisors
  <2>3. \A q \in Pid : \/ Busy(q) /\ pc'[q] = pc[q] /\ mod'[q] = mod[q]
                       \/ ~Busy(q) /\ pc'[q] \in {"idle"} \cup Supervising
    BY <2>1 DEF Busy
  <2> QED  BY <1>1, <2>1, <2>2, <2>3, Aside
<1>2. CASE UNCHANGED vars  BY <1>1, <1>2 DEF vars
<1>3. ASSUME NEW m \in Module, Terminate(m) PROVE FilesInv'
  BY <1>1, <1>3 DEF Terminate
<1> QED
  BY <1>2, <1>3, RunsFiles, StartFiles, StopFiles, RewriteFiles, BootFiles DEF Next

\* As long as the operator runs one script at a time, the files agree with
\* each other and with the supervisors whenever no script is under way,
\* wherever reboots have cut the scripts before.
THEOREM Agreement == Spec => []FilesAgree
<1>1. CASE Overlap # "none"
  <2>1. FilesAgree  BY <1>1 DEF FilesAgree
  <2> QED  BY <2>1, PTL
<1>2. CASE Overlap = "none"
  <2>1. Init => Inv  BY InitTypes, InitLock, InitFiles DEF Inv
  <2>2. Inv /\ [Next]_vars => Inv'
    BY <1>2, StepTypes, StepLock, StepFiles DEF Inv
  <2> QED  BY <2>1, <2>2, QuietAgree, PTL DEF Spec
<1> QED  BY <1>1, <1>2
=============================================================================
