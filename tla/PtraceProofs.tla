---------------------------- MODULE PtraceProofs ----------------------------
(***************************************************************************)
(* Theorems about Ptrace, for any signals from elsewhere, any system calls *)
(* and any of them without a name: pidwatcher-ptrace takes no stop for     *)
(* another, and supervision takes no signal away from the command.         *)
(***************************************************************************)
EXTENDS Ptrace, TLAPS

-----------------------------------------------------------------------------
(* What is always so.                                                      *)

\* A process that is not traced does not stop, and what it handles was sent to it.
TypeInv ==
    /\ PtraceTypeOK
    /\ syscalls => traced
    /\ stop = "exit" => level = "return"
    /\ stop \in Sent => level # "kernel"
    /\ place \in Ended => stop = "none" /\ pending = {}
    /\ pc \in Finished => ~traced
    /\ traced \/ pc \in Finished \/ place \in {"born"} \cup Ended
    /\ place \in {"born", "ready"} =>
          pc = "spin" /\ ~got_sig /\ level = "user" /\ pending = {} /\ stop = "none"
    /\ pc = "act" => stop \in Stopsig \/ place \in Ended
    /\ Handled \cap (pending \cup {stop}) \subseteq sent

\* The tracer still follows it.
Followed == pc \notin Finished /\ place \notin Ended

\* Where the child's own calls are made from.
OwnCalls ==
    /\ level = "kernel" /\ call = "sigreturn" => place = "handler"
    /\ level = "kernel" /\ call = "execve" => place = "exec"

\* Waiting for SIGUSR1: the tracer sends it when the child has got ready for it.
GettingReady ==
    /\ ~syscalls /\ level = "user" /\ call = "none"
    /\ place \in {"born", "ready", "spin"}
    /\ pending \cup {stop} \subseteq {"USR1", "none"}
    /\ got_sig \/ pending # {} \/ stop # "none" \/ pc = "kill" => place = "spin"
    /\ pc \in {"spin", "kill"} => pending = {} /\ stop = "none"
    /\ stop = "USR1" => pending = {}

\* Waiting for the SIGSTOP of the attachment.
Attaching ==
    /\ place = "image"
    /\ "STOP" \in pending \/ stop = "STOP"
    /\ syscalls => level # "kernel"
    /\ stop \notin {"entry", "exit"} /\ "TRAP" \notin pending

\* PTRACE_SYSCALL, waiting for the entry into a call, for execve to return, for the
\* SIGTRAP that it sends, for another call to return, and for the end.
ToEntry ==
    /\ syscalls /\ "TRAP" \notin pending /\ stop # "TRAP"
    /\ level = "kernel" /\ stop = "none" => ~Named(call)
    /\ stop = "exit" => ~Named(call)
ToExec ==
    /\ syscalls /\ call = "execve"
    /\ \/ level = "kernel" /\ stop = "none" /\ "TRAP" \notin pending
       \/ level = "return" /\ stop = "exit" /\ ("TRAP" \in pending <=> place = "image")
ToTrap ==
    /\ syscalls /\ level = "return" /\ stop \notin {"entry", "exit"}
    /\ "TRAP" \in pending <=> stop # "TRAP"
ToExit ==
    /\ syscalls /\ "TRAP" \notin pending
    /\ Named(call) /\ call \notin {"execve", "exit"}
    /\ (level = "kernel" /\ stop = "none") \/ (level = "return" /\ stop = "exit")
ToEnd == call = "exit" /\ level = "kernel" /\ stop = "none"

AsAwaited ==
    /\ awaits = "usr1" => GettingReady
    /\ awaits # "usr1" => pc \notin {"spin", "kill"}
    /\ awaits = "stop" => Attaching
    /\ awaits = "entry" => ToEntry
    /\ awaits = "exec" => ToExec
    /\ awaits = "again" => ToTrap
    /\ awaits = "exit" => ToExit
    /\ awaits = "end" => ToEnd

\* PTRACE_CONT, as long as no signal has come: the child does not stop at calls.
Undisturbed ==
    /\ ~syscalls /\ stop \notin {"entry", "exit"}
    /\ awaits = "usr1" => GettingReady
    /\ awaits # "usr1" => pc \notin {"spin", "kill"}
    /\ awaits = "stop" => place = "image" /\ pending \cup {stop} \subseteq {"STOP", "none"}
                          /\ (stop = "STOP" => pending = {})
    /\ awaits \notin {"usr1", "stop"} =>
          /\ pending \cup {stop} \subseteq {"TRAP", "none"}
          /\ place \in {"handler", "exec", "fail"} => awaits = "entry"
          /\ "TRAP" \in pending \/ stop = "TRAP" => awaits = "entry" /\ place = "image"
          /\ stop = "TRAP" => pending = {}

Expected ==
    /\ OwnCalls
    /\ request = "SYSCALL" => AsAwaited
    /\ request = "CONT" /\ sent = {} => Undisturbed

StepInv == TypeInv /\ (Followed => Expected)

KeptInv == TypeInv /\ SignalsKept

USE PtraceAssumption

LEMMA TypeInit == Init \/ NoSyscallInit => TypeInv
BY DEF Init, NoSyscallInit, Begin, TypeInv, PtraceTypeOK, Finished, Ended, Sent, Stopsig

Awaited == {"usr1", "stop", "entry", "exec", "again", "exit", "end"}

\* The tracer's own variables, after a step.
TracerOK ==
    /\ request' = request /\ got_sig' \in BOOLEAN
    /\ pc' \in {"spin", "kill", "wait", "act"} \cup Finished /\ awaits' \in Awaited

\* A step of the child or of the outside.
LEMMA TracerRests ==
    ASSUME TypeInv, UNCHANGED <<request, tracer>>
    PROVE  TracerOK /\ Stopsig' = Stopsig /\ pc' = pc
BY DEF TypeInv, PtraceTypeOK, tracer, TracerOK, Awaited, Stopsig

\* What the end of the child leaves.
LEMMA EndedWell ==
    ASSUME TypeInv, NEW how \in Ended, EndAs(how), TracerOK,
           syscalls' \in BOOLEAN, syscalls' => traced, pc' \in Finished => pc \in Finished
    PROVE  TypeInv'
<1>1. PtraceTypeOK'
  BY DEF EndAs, TypeInv, PtraceTypeOK, Ended, Finished, Sent, TracerOK, Awaited
<1> QED
  BY <1>1 DEF EndAs, TypeInv, PtraceTypeOK, Ended, Finished, Sent, TracerOK

LEMMA ChildEnds ==
    ASSUME TypeInv, NEW how \in Ended, EndChild(how), UNCHANGED <<request, tracer>>
    PROVE  TypeInv'
<1>1. TracerOK /\ pc' = pc  BY TracerRests
<1>2. EndAs(how) /\ syscalls' = syscalls  BY DEF EndChild
<1>3. syscalls' \in BOOLEAN /\ (syscalls' => traced)  BY <1>2 DEF TypeInv, PtraceTypeOK
<1> QED  BY <1>1, <1>2, <1>3, EndedWell

\* What a signal does that is delivered.
LEMMA DeliveredWell ==
    ASSUME TypeInv, NEW s, NEW left \in SUBSET pending, Deliver(s, left), TracerOK,
           s \in Handled => s \in sent,
           syscalls' \in BOOLEAN, syscalls' => traced,
           place \notin {"born", "ready"}, pc \in Finished => pc' = pc,
           pc' # "act", pc' \in Finished => pc \in Finished, place \notin Ended
    PROVE  TypeInv'
<1>1. CASE EndAs("killed")
  BY <1>1, EndedWell DEF Ended
<1>2. CASE /\ place' \in {place, "handler", "halted"} /\ stop' = "none" /\ pending' = left
           /\ UNCHANGED <<call, level, traced, sent>>
           /\ handled' \subseteq sent
  <2>1. PtraceTypeOK'
    BY <1>2 DEF TypeInv, PtraceTypeOK, Ended, Finished, Sent, TracerOK, Awaited
  <2>2. Handled \cap (pending \cup {stop})' \subseteq sent'
    BY <1>2 DEF TypeInv, PtraceTypeOK, Sent
  <2> QED
    BY <1>2, <2>1, <2>2 DEF TypeInv, Ended, Finished, Sent, TracerOK
<1> QED
  BY <1>1, <1>2 DEF Deliver, TypeInv, PtraceTypeOK

LEMMA LeftWell ==
    ASSUME TypeInv, pc # "spin", NEW how \in Finished, Leave(how), request' = request
    PROVE  TypeInv'
<1>1. PtraceTypeOK'
  <2>1. /\ pc' = how /\ traced' \in BOOLEAN /\ syscalls' \in BOOLEAN /\ stop' = "none"
        /\ UNCHANGED <<request, awaits, got_sig, place, call, level, pending, sent,
                       handled>>
    BY Zenon DEF Leave
  <2> QED  BY <2>1 DEF TypeInv, PtraceTypeOK, Ended, Finished, Sent
<1> QED
  BY <1>1 DEF Leave, TypeInv, PtraceTypeOK, Ended, Finished, Sent

LEMMA ResumedWell ==
    ASSUME TypeInv, pc # "spin", NEW how \in {"SYSCALL", "CONT"}, NEW s \in {"none", "USR1", stop},
           NEW next \in Awaited, ResumeBy(how, s, next), request' = request
    PROVE  TypeInv'
<1>1. CASE stop = "none"
  BY <1>1, LeftWell DEF ResumeBy, Finished
<1> SUFFICES ASSUME stop # "none" PROVE TypeInv'  BY <1>1
<1>2. /\ pc' = "wait" /\ awaits' = next /\ got_sig' = got_sig
      /\ syscalls' \in BOOLEAN /\ traced /\ place \notin Ended
      /\ place \notin {"born", "ready"} /\ pc \notin Finished
  BY DEF ResumeBy, TypeInv, PtraceTypeOK
<1>3. TracerOK  BY <1>2 DEF TracerOK, TypeInv, PtraceTypeOK
<1>4. CASE s = "none"
  <2>1. stop' = "none" /\ UNCHANGED <<place, call, level, traced, pending, sent, handled>>
    BY <1>4 DEF ResumeBy
  <2>2. PtraceTypeOK'
    BY <1>2, <1>3, <2>1 DEF TypeInv, PtraceTypeOK, Ended, Finished, Sent, TracerOK, Awaited
  <2>3. Handled \cap (pending \cup {stop})' \subseteq sent'
    BY <2>1 DEF TypeInv
  <2> QED
    BY <1>2, <2>1, <2>2, <2>3 DEF TypeInv, Ended, Finished, Sent
<1>5. CASE s # "none"
  <2>1. Deliver(s, pending)  BY <1>5 DEF ResumeBy
  <2>2. s \in Handled => s \in sent  BY <1>5 DEF TypeInv
  <2> QED  BY <1>2, <1>3, <2>1, <2>2, DeliveredWell DEF Finished
<1> QED  BY <1>4, <1>5

LEMMA TypeStep ==
    ASSUME TypeInv, [Next]_vars
    PROVE  TypeInv'
<1>1. CASE TraceMe /\ UNCHANGED request
  <2>1. CASE EndChild("exited")
    BY <1>1, <2>1, ChildEnds DEF TraceMe, Ended
  <2>2. CASE ~EndChild("exited")
    <3>1. /\ place = "born" /\ place' = "ready" /\ traced' = TRUE
          /\ UNCHANGED <<request, pc, awaits, got_sig>>
          /\ UNCHANGED <<call, level, syscalls, stop, pending, sent, handled>>
      BY <1>1, <2>2 DEF TraceMe, tracer
    <3>2. PtraceTypeOK'
      BY <3>1 DEF TypeInv, PtraceTypeOK, Ended, Finished, Sent
    <3>3. (pc \in Finished => ~traced)'
      BY <3>1 DEF TypeInv, Finished
    <3> QED  BY <3>1, <3>2, <3>3 DEF Stopsig, TypeInv, Ended, Finished, Sent
  <2> QED  BY <2>1, <2>2
<1>2. CASE SignalParent /\ UNCHANGED request
  BY <1>2 DEF SignalParent, Running, Stopsig, TypeInv, PtraceTypeOK, Ended, Finished, Sent
<1>3. CASE EnterCall /\ UNCHANGED request
  <2>1. PtraceTypeOK'
    BY <1>3 DEF EnterCall, tracer, Running, CallFrom, TypeInv, PtraceTypeOK, Ended,
           Finished, Sent
  <2>2. place \notin {"born", "ready"}  BY <1>3 DEF EnterCall, CallFrom
  <2>3. /\ stop' \in {"none", "entry"} /\ stop = "none" /\ place \notin Ended /\ level' = "kernel"
        /\ UNCHANGED <<pc, awaits, got_sig, place, traced, syscalls, pending, sent,
                       handled>>
    BY <1>3 DEF EnterCall, tracer, Running
  <2>4. pc # "act"  BY <2>3 DEF Stopsig, TypeInv
  <2>5. {"none", "entry"} \cap Sent = {} /\ Handled \subseteq Sent  BY DEF Sent
  <2> QED
    BY <2>1, <2>2, <2>3, <2>4, <2>5 DEF TypeInv
<1>4. CASE LeaveCall /\ UNCHANGED request
  <2>1. CASE EndChild("exited")
    BY <1>4, <2>1, ChildEnds DEF LeaveCall, Ended
  <2>2. CASE ~EndChild("exited")
    <3>1. /\ level' = "return" /\ stop' = (IF syscalls THEN "exit" ELSE "none")
          /\ UNCHANGED <<request, pc, awaits, got_sig, call, traced, syscalls, sent,
                         handled>>
          /\ place' \in {"image", "fail", "exec", place}
          /\ pending' \subseteq pending \cup {"TRAP"}
          /\ stop = "none" /\ place \notin Ended
      BY <1>4, <2>2 DEF LeaveCall, tracer, Running
    <3>2. PtraceTypeOK'
      BY <3>1 DEF TypeInv, PtraceTypeOK, Ended, Finished, Sent
    <3>3. Handled \cap (pending \cup {stop})' \subseteq sent'
      BY <3>1 DEF TypeInv, PtraceTypeOK
    <3>4. pc # "act"  BY <3>1 DEF Stopsig, TypeInv
    <3>5. place \notin {"born", "ready"} /\ level = "kernel"
      BY <1>4 DEF LeaveCall, TypeInv
    <3>6. stop' \notin Sent /\ place' \notin {"born", "ready"} \cup Ended
      BY <3>1, <3>5 DEF Sent, Ended
    <3> QED
      BY <3>1, <3>2, <3>3, <3>4, <3>5, <3>6 DEF TypeInv
  <2> QED  BY <2>1, <2>2
<1>5. CASE BackToUser /\ UNCHANGED request
  BY <1>5 DEF BackToUser, tracer, Running, Stopsig, TypeInv, PtraceTypeOK, Ended,
         Finished, Sent
<1>6. CASE TakeSignal /\ UNCHANGED request
  <2>1. PICK s \in pending :
           IF traced THEN /\ stop' = s /\ pending' = pending \ {s}
                          /\ UNCHANGED <<place, call, level, traced, sent, handled>>
           ELSE Deliver(s, pending \ {s})
    BY <1>6 DEF TakeSignal
  <2>2. /\ TracerOK /\ Stopsig' = Stopsig
        /\ pc' = pc /\ got_sig' = got_sig
    BY <1>6, TracerRests DEF TakeSignal, tracer
  <2>3. syscalls' = syscalls /\ level # "kernel" /\ stop = "none" /\ place \notin Ended
    BY <1>6 DEF TakeSignal, Running
  <2>4. CASE traced
    <3>1. /\ stop' = s /\ pending' = pending \ {s}
          /\ UNCHANGED <<place, call, level, traced, sent, handled>>
      BY <2>1, <2>4
    <3>2. PtraceTypeOK'
      BY <2>2, <2>3, <2>4, <3>1 DEF TypeInv, PtraceTypeOK, Ended, Finished, Sent,
             TracerOK, Awaited
    <3>3. Handled \cap (pending \cup {stop})' \subseteq sent'
      BY <3>1 DEF TypeInv
    <3>4. pc # "act"  BY <2>3 DEF TypeInv, Stopsig
    <3> QED
      BY <2>2, <2>3, <2>4, <3>1, <3>2, <3>3, <3>4 DEF TypeInv, PtraceTypeOK, Ended,
             Finished, Sent
  <2>5. CASE ~traced
    <3>1. s \in Handled => s \in sent  BY DEF TypeInv
    <3>2. syscalls' \in BOOLEAN /\ (syscalls' => traced)  BY <2>3 DEF TypeInv, PtraceTypeOK
    <3>3. pc # "act"  BY <2>3 DEF TypeInv, Stopsig
    <3>4. place \notin {"born", "ready"}  BY DEF TypeInv
    <3> QED  BY <2>1, <2>2, <2>3, <2>5, <3>1, <3>2, <3>3, <3>4, DeliveredWell
  <2> QED  BY <2>4, <2>5
<1>7. CASE SendSignal /\ UNCHANGED request
  <2>1. PtraceTypeOK'
    BY <1>7 DEF SendSignal, tracer, TypeInv, PtraceTypeOK, Ended, Finished, Sent
  <2> QED
    BY <1>7, <2>1 DEF SendSignal, tracer, Stopsig, TypeInv, PtraceTypeOK, Ended,
           Finished, Sent
<1>8. CASE Kill /\ UNCHANGED request
  BY <1>8, ChildEnds DEF Kill, Ended
<1>9. CASE Spin /\ UNCHANGED request
  BY <1>9 DEF Spin, child, TypeInv, PtraceTypeOK, Ended, Finished, Sent
<1>10. CASE KillChild /\ UNCHANGED request
  BY <1>10 DEF KillChild, TypeInv, PtraceTypeOK, Ended, Finished, Sent
<1>11. CASE WaitStopped /\ UNCHANGED request
  BY <1>11 DEF WaitStopped, child, Stopsig, TypeInv, PtraceTypeOK, Ended, Finished, Sent
<1>12. CASE WaitDifferent /\ UNCHANGED request
  <2>1. ResumeBy("SYSCALL", stop, awaits) /\ awaits \in Awaited /\ pc # "spin"
    BY <1>12 DEF WaitDifferent, SendOn, TypeInv, PtraceTypeOK, Awaited
  <2> QED  BY <1>12, <2>1, ResumedWell
<1>13. CASE WaitEnded /\ UNCHANGED request
  <2>1. pc # "spin" /\ \E how \in Finished : Leave(how)  BY <1>13 DEF WaitEnded, Finished
  <2> QED  BY <1>13, <2>1, LeftWell
<1>14. CASE Traced /\ UNCHANGED request
  <2>1. PICK s \in {"none", "USR1"}, next \in Awaited : Resume(s, next)
    BY <1>14 DEF Traced, OnceMore, Awaited
  <2>2. PICK how \in {"SYSCALL", "CONT"} : ResumeBy(how, s, next)
    BY <2>1 DEF Resume, NoSyscallResume
  <2>3. pc # "spin"  BY <1>14 DEF Traced
  <2> QED  BY <1>14, <2>2, <2>3, ResumedWell
<1>15. CASE Interrupt /\ UNCHANGED request
  <2>1. pc # "spin" /\ Leave("interrupted")  BY <1>15 DEF Interrupt
  <2> QED  BY <1>15, <2>1, LeftWell DEF Finished
<1>16. CASE UNCHANGED vars
  BY <1>16 DEF vars, tracer, child, Stopsig, TypeInv, PtraceTypeOK, Ended, Finished, Sent
<1> QED
  BY <1>1, <1>2, <1>3, <1>4, <1>5, <1>6, <1>7, <1>8, <1>9, <1>10, <1>11, <1>12, <1>13,
     <1>14, <1>15, <1>16
     DEF Next, Tracer, Child, Outside, NoSyscallChild, NoSyscallReady, NoSyscallWait,
         NoSyscallTraced, NoSyscallInterrupt
\* What is followed after a step was followed before it.
LEMMA FollowedBefore ==
    ASSUME TypeInv, [Next]_vars, Followed'
    PROVE  Followed
<1>1. CASE pc \in Finished
  <2>1. pc \notin {"spin", "kill", "wait", "act"}  BY <1>1 DEF Finished
  <2>2. pc' = pc
    BY <2>1 DEF Next, Tracer, Child, Outside, NoSyscallChild, NoSyscallReady, NoSyscallWait,
         NoSyscallTraced, NoSyscallInterrupt, Spin, KillChild, WaitStopped, WaitDifferent,
         WaitEnded, Traced, Interrupt, TraceMe, SignalParent, EnterCall, LeaveCall,
         BackToUser, TakeSignal, SendSignal, Kill, tracer, vars
  <2> QED  BY <1>1, <2>2 DEF Followed
<1>2. CASE place \in Ended
  <2>1. stop = "none" /\ ~Running /\ place # "image"
    BY <1>2 DEF TypeInv, Running, Ended
  <2>2. ASSUME NEW how, NEW s, NEW next, ResumeBy(how, s, next) PROVE FALSE
    BY <2>1, <2>2 DEF ResumeBy, Leave, Followed, Finished
  <2>3. ~WaitDifferent /\ ~Traced
    BY <2>2 DEF WaitDifferent, SendOn, Traced, Resume, NoSyscallResume
  <2>4. place' = place
    BY <1>2, <2>1, <2>3 DEF Next, Tracer, Child, Outside, NoSyscallChild, NoSyscallReady,
         NoSyscallWait, NoSyscallTraced, NoSyscallInterrupt, Spin, KillChild, WaitStopped,
         WaitEnded, Leave, Interrupt, TraceMe, SignalParent, EnterCall, LeaveCall,
         BackToUser, TakeSignal, SendSignal, Kill, child, vars
  <2> QED  BY <1>2, <2>4 DEF Followed
<1> QED  BY <1>1, <1>2 DEF Followed

-----------------------------------------------------------------------------
(* Signals.                                                                *)

\* No stop of the tracer's own is a signal from elsewhere.
LEMMA OwnStops ==
    ASSUME "TRAP" \notin Signals, TypeInv, pc = "act", place \notin Ended
    PROVE  stop \notin Signals /\ "none" \notin Signals
BY DEF TypeInv, Stopsig

\* Resuming the child takes nothing away.
LEMMA ResumedKeeps ==
    ASSUME KeptInv, NEW how, NEW s, NEW next, ResumeBy(how, s, next), Followed, Followed',
           stop \in Signals => s = stop
    PROVE  SignalsKept'
<1>1. sent \subseteq handled \cup pending \cup {stop}
  BY DEF KeptInv, SignalsKept, Followed
<1>2. stop # "none"  BY DEF ResumeBy, Leave, Followed, Finished
<1>3. stop' = "none" /\ pending' = pending /\ sent' = sent /\ handled \subseteq handled'
      /\ (stop \in Signals => stop \in handled')
  <2>1. CASE s = "none"
    BY <1>2, <2>1 DEF ResumeBy
  <2>2. CASE s # "none"
    <3>1. Deliver(s, pending)  BY <1>2, <2>2 DEF ResumeBy
    <3>2. ~EndAs("killed")  BY DEF EndAs, Followed, Ended
    <3>3. s \in Signals => s \notin {"USR1", "STOP"}  OBVIOUS
    <3> QED  BY <3>1, <3>2, <3>3 DEF Deliver
  <2> QED  BY <2>1, <2>2
<1>4. sent \subseteq Signals  BY DEF KeptInv, TypeInv, PtraceTypeOK
<1> QED  BY <1>1, <1>3, <1>4 DEF SignalsKept

LEMMA KeptStep ==
    ASSUME "TRAP" \notin Signals, KeptInv, [Next]_vars
    PROVE  SignalsKept'
<1> SUFFICES ASSUME Followed' PROVE SignalsKept'
  BY DEF SignalsKept, Followed
<1> USE DEF KeptInv
<1>0. Followed  BY FollowedBefore
<1>s. sent \subseteq handled \cup pending \cup {stop} /\ sent \subseteq Signals
  BY <1>0 DEF SignalsKept, Followed, TypeInv, PtraceTypeOK
<1>c. CASE UNCHANGED <<sent, handled, pending, stop>>
  BY <1>s, <1>c DEF SignalsKept
<1>1. CASE TraceMe \/ SignalParent \/ BackToUser
  <2>1. UNCHANGED <<sent, handled, pending, stop>>
    BY <1>1 DEF TraceMe, SignalParent, BackToUser, EndChild, EndAs, Followed, Ended
  <2> QED  BY <1>c, <2>1
<1>2. CASE EnterCall \/ LeaveCall
  <2>1. /\ stop = "none" /\ pending \subseteq pending' /\ UNCHANGED <<sent, handled>>
    BY <1>2 DEF EnterCall, LeaveCall, EndChild, EndAs, Followed, Ended, Running
  <2> QED  BY <1>s, <2>1 DEF SignalsKept
<1>3. CASE TakeSignal
  <2>1. PICK s \in pending :
           IF traced THEN /\ stop' = s /\ pending' = pending \ {s}
                          /\ UNCHANGED <<place, call, level, traced, sent, handled>>
           ELSE Deliver(s, pending \ {s})
    BY <1>3 DEF TakeSignal
  <2>2. ~EndAs("killed")  BY DEF EndAs, Followed, Ended
  <2>3. s \in Signals => s \notin {"USR1", "STOP"}  OBVIOUS
  <2>4. stop = "none"  BY <1>3 DEF TakeSignal, Running
  <2>5. /\ pending' = pending \ {s} /\ sent' = sent /\ handled \subseteq handled'
        /\ s \in Signals => s \in handled' \/ stop' = s
    BY <2>1, <2>2, <2>3 DEF Deliver
  <2> QED  BY <1>s, <2>4, <2>5 DEF SignalsKept
<1>4. CASE SendSignal
  BY <1>s, <1>4 DEF SendSignal, SignalsKept
<1>5. CASE Kill \/ Interrupt \/ WaitEnded
  BY <1>5 DEF Kill, Interrupt, WaitEnded, EndChild, EndAs, Leave, Followed, Ended, Finished
<1>6. CASE Spin \/ WaitStopped
  BY <1>6, <1>c DEF Spin, WaitStopped, child
<1>7. CASE KillChild
  BY <1>0, <1>s, <1>7 DEF KillChild, Followed, SignalsKept
<1>8. CASE WaitDifferent
  BY <1>0, <1>8, ResumedKeeps DEF WaitDifferent, SendOn
<1>9. CASE Traced
  <2>1. PICK s \in {"none", "USR1"}, next \in Awaited : Resume(s, next)
    BY <1>9 DEF Traced, OnceMore, Awaited
  <2>2. PICK how \in {"SYSCALL", "CONT"} : ResumeBy(how, s, next)
    BY <2>1 DEF Resume, NoSyscallResume
  <2>3. stop \notin Signals  BY <1>0, <1>9, OwnStops DEF Traced, Followed
  <2> QED  BY <1>0, <2>2, <2>3, ResumedKeeps
<1>10. CASE UNCHANGED vars
  BY <1>10, <1>c DEF vars, child
<1> QED
  BY <1>1, <1>2, <1>3, <1>4, <1>5, <1>6, <1>7, <1>8, <1>9, <1>10
     DEF Next, Tracer, Child, Outside, NoSyscallChild, NoSyscallReady, NoSyscallWait,
         NoSyscallTraced, NoSyscallInterrupt
-----------------------------------------------------------------------------
(* Stops.                                                                  *)

\* The child goes on: what the kernel does with it.
LEMMA ChildAsExpected ==
    ASSUME "TRAP" \notin Signals, TypeInv, Expected, Followed, Followed', request' = request,
           TraceMe \/ SignalParent \/ EnterCall \/ LeaveCall \/ BackToUser
    PROVE  Expected'
<1>1. CASE TraceMe
  <2>1. /\ place = "born" /\ place' = "ready" /\ traced' = TRUE
        /\ UNCHANGED <<request, pc, awaits, got_sig>>
        /\ UNCHANGED <<call, level, syscalls, stop, pending, sent, handled>>
    BY <1>1 DEF TraceMe, EndChild, EndAs, Followed, Ended, tracer
  <2>2. OwnCalls'  BY <2>1 DEF Expected, OwnCalls
  <2>3. ASSUME request = "SYSCALL" PROVE AsAwaited'
    BY <2>1, <2>3 DEF Expected, AsAwaited, GettingReady, Attaching, ToEntry, ToExec,
           ToTrap, ToExit, ToEnd, Named, TypeInv
  <2>4. ASSUME request = "CONT", sent = {} PROVE Undisturbed'
    BY <2>1, <2>4 DEF Expected, Undisturbed, GettingReady, TypeInv
  <2> QED  BY <2>1, <2>2, <2>3, <2>4 DEF Expected
<1>2. CASE SignalParent
  <2>1. /\ place = "ready" /\ place' = "spin" /\ got_sig' = TRUE
        /\ UNCHANGED <<request, pc, awaits, call, level, traced, syscalls, stop,
                       pending, sent, handled>>
    BY <1>2 DEF SignalParent
  <2>2. OwnCalls'  BY <2>1 DEF Expected, OwnCalls
  <2>3. ASSUME request = "SYSCALL" PROVE AsAwaited'
    BY <2>1, <2>3 DEF Expected, AsAwaited, GettingReady, Attaching, ToEntry, ToExec,
           ToTrap, ToExit, ToEnd, Named, TypeInv
  <2>4. ASSUME request = "CONT", sent = {} PROVE Undisturbed'
    BY <2>1, <2>4 DEF Expected, Undisturbed, GettingReady, TypeInv
  <2> QED  BY <2>1, <2>2, <2>3, <2>4 DEF Expected
<1>3. CASE EnterCall
  <2>1. /\ stop = "none" /\ level = "user" /\ pending = {} /\ call' \in CallFrom
        /\ level' = "kernel" /\ stop' = (IF syscalls THEN "entry" ELSE "none")
        /\ UNCHANGED <<request, pc, awaits, got_sig, place, traced, syscalls, pending,
                       sent, handled>>
    BY <1>3 DEF EnterCall, Running, tracer
  <2>2. OwnCalls'  BY <2>1 DEF OwnCalls, CallFrom
  <2>3. ASSUME request = "SYSCALL" PROVE AsAwaited'
    BY <2>1, <2>3 DEF Expected, AsAwaited, GettingReady, Attaching, ToEntry, ToExec,
           ToTrap, ToExit, ToEnd, Named, TypeInv, CallFrom
  <2>4. ASSUME request = "CONT", sent = {} PROVE Undisturbed'
    BY <2>1, <2>4 DEF Expected, Undisturbed, GettingReady, TypeInv, CallFrom
  <2> QED  BY <2>1, <2>2, <2>3, <2>4 DEF Expected
<1>4. CASE LeaveCall
  <2>1. /\ stop = "none" /\ level = "kernel" /\ level' = "return"
        /\ stop' = (IF syscalls THEN "exit" ELSE "none")
        /\ UNCHANGED <<request, pc, awaits, got_sig, call, traced, syscalls, sent, handled>>
        /\ call \notin {"exit", "exit_group"}
        /\ \/ call = "execve" /\ place' = "image"
              /\ pending' = pending \cup IF traced THEN {"TRAP"} ELSE {}
           \/ call = "execve" /\ place' = "fail" /\ UNCHANGED pending
           \/ call = "sigreturn" /\ place' = "exec" /\ UNCHANGED pending
           \/ call \in Calls /\ UNCHANGED <<place, pending>>
    BY <1>4 DEF LeaveCall, EndChild, EndAs, Followed, Ended, Running, tracer
  <2>2. OwnCalls'  BY <2>1 DEF OwnCalls
  <2>3. ASSUME request = "SYSCALL" PROVE AsAwaited'
    BY <2>1, <2>3 DEF Expected, OwnCalls, AsAwaited, GettingReady, Attaching, ToEntry,
           ToExec, ToTrap, ToExit, ToEnd, Named, TypeInv
  <2>4. ASSUME request = "CONT", sent = {} PROVE Undisturbed'
    BY <2>1, <2>4 DEF Expected, OwnCalls, Undisturbed, GettingReady, TypeInv
  <2> QED  BY <2>1, <2>2, <2>3, <2>4 DEF Expected
<1>5. CASE BackToUser
  <2>1. /\ level = "return" /\ stop = "none" /\ pending = {} /\ level' = "user" /\ call' = "none"
        /\ UNCHANGED <<request, pc, awaits, got_sig, place, traced, syscalls, stop,
                       pending, sent, handled>>
    BY <1>5 DEF BackToUser, Running, tracer
  <2>2. OwnCalls'  BY <2>1 DEF OwnCalls
  <2>3. ASSUME request = "SYSCALL" PROVE AsAwaited'
    BY <2>1, <2>3 DEF Expected, AsAwaited, GettingReady, Attaching, ToEntry, ToExec,
           ToTrap, ToExit, ToEnd, Named, TypeInv
  <2>4. ASSUME request = "CONT", sent = {} PROVE Undisturbed'
    BY <2>1, <2>4 DEF Expected, Undisturbed, GettingReady, TypeInv
  <2> QED  BY <2>1, <2>2, <2>3, <2>4 DEF Expected
<1> QED  BY <1>1, <1>2, <1>3, <1>4, <1>5
\* Signals for the child.
LEMMA SignalsAsExpected ==
    ASSUME "TRAP" \notin Signals, TypeInv, Expected, Followed, Followed', request' = request,
           TakeSignal \/ SendSignal \/ KillChild
    PROVE  Expected'
<1>1. CASE TakeSignal /\ traced
  <2>1. PICK s \in pending : stop' = s /\ pending' = pending \ {s}
    BY <1>1 DEF TakeSignal
  <2>2. /\ stop = "none" /\ level # "kernel" /\ s \in Sent
        /\ UNCHANGED <<request, pc, awaits, got_sig, place, call, level, traced,
                       syscalls, sent, handled>>
    BY <1>1 DEF TakeSignal, Running, tracer, TypeInv, PtraceTypeOK
  <2>3. OwnCalls'  BY <2>1, <2>2 DEF Expected, OwnCalls
  <2>4. s \notin {"none", "entry", "exit"} /\ "none" \notin pending
    BY <2>2 DEF Sent, TypeInv, PtraceTypeOK
  <2>5. ASSUME request = "SYSCALL" PROVE AsAwaited'
    BY <2>1, <2>2, <2>4, <2>5 DEF Expected, AsAwaited, GettingReady, Attaching, ToEntry,
           ToExec, ToTrap, ToExit, ToEnd, Named
  <2>6. ASSUME request = "CONT", sent = {} PROVE Undisturbed'
    BY <2>1, <2>2, <2>4, <2>6 DEF Expected, Undisturbed, GettingReady
  <2> QED  BY <2>2, <2>3, <2>5, <2>6 DEF Expected
<1>2. CASE TakeSignal /\ ~traced
  BY <1>2 DEF TypeInv, Followed, TakeSignal
<1>3. CASE SendSignal
  <2>1. PICK s \in Signals \ sent : sent' = sent \cup {s} /\ pending' = pending \cup {s}
    BY <1>3 DEF SendSignal
  <2>2. /\ place = "image" /\ s \notin {"STOP", "TRAP", "USR1"}
        /\ UNCHANGED <<request, pc, awaits, got_sig, place, call, level, traced,
                       syscalls, stop, handled>>
    BY <1>3 DEF SendSignal, tracer
  <2>3. OwnCalls'  BY <2>2 DEF Expected, OwnCalls
  <2>4. ASSUME request = "SYSCALL" PROVE AsAwaited'
    BY <2>1, <2>2, <2>4 DEF Expected, AsAwaited, GettingReady, Attaching, ToEntry,
           ToExec, ToTrap, ToExit, ToEnd, Named
  <2>5. sent' # {}  BY <2>1
  <2> QED  BY <2>2, <2>3, <2>4, <2>5 DEF Expected
<1>4. CASE KillChild
  <2>1. /\ pc = "kill" /\ pc' = "wait" /\ pending' = pending \cup {"USR1"}
        /\ UNCHANGED <<request, awaits, got_sig, place, call, level, traced, syscalls,
                       stop, sent, handled>>
    BY <1>4 DEF KillChild, Followed
  <2>2. OwnCalls'  BY <2>1 DEF Expected, OwnCalls
  <2>3. ASSUME request = "SYSCALL" PROVE AsAwaited'
    BY <2>1, <2>3 DEF Expected, AsAwaited, GettingReady
  <2>4. ASSUME request = "CONT", sent = {} PROVE Undisturbed'
    BY <2>1, <2>4 DEF Expected, Undisturbed, GettingReady
  <2> QED  BY <2>1, <2>2, <2>3, <2>4 DEF Expected
<1> QED  BY <1>1, <1>2, <1>3, <1>4

\* The tracer takes a stop, and a signal that it did not wait for is sent on.
LEMMA StopsAsExpected ==
    ASSUME "TRAP" \notin Signals, TypeInv, Expected, Followed, Followed', request' = request,
           Spin \/ WaitStopped \/ WaitDifferent
    PROVE  Expected'
<1>1. CASE Spin \/ WaitStopped
  <2>1. UNCHANGED <<awaits, got_sig, place, call, level, traced, syscalls, stop,
                    pending, sent, handled>>
    BY <1>1 DEF Spin, WaitStopped, child
  <2>2. \/ pc = "spin" /\ got_sig /\ pc' = "kill"
        \/ pc = "wait" /\ pc' = "act"
    BY <1>1 DEF Spin, WaitStopped
  <2>3. OwnCalls'  BY <2>1 DEF Expected, OwnCalls
  <2>4. ASSUME request = "SYSCALL" PROVE AsAwaited'
    BY <2>1, <2>2, <2>4 DEF Expected, AsAwaited, GettingReady, Attaching, ToEntry,
           ToExec, ToTrap, ToExit, ToEnd, Named
  <2>5. ASSUME request = "CONT", sent = {} PROVE Undisturbed'
    BY <2>1, <2>2, <2>5 DEF Expected, Undisturbed, GettingReady
  <2> QED  BY <2>1, <2>3, <2>4, <2>5 DEF Expected
<1>2. CASE WaitDifferent
  <2>1. /\ pc = "wait" /\ stop # "none" /\ stop \notin Stopsig
        /\ pc' = "wait" /\ syscalls' = TRUE /\ UNCHANGED <<awaits, got_sig>>
        /\ Deliver(stop, pending)
    BY <1>2 DEF WaitDifferent, SendOn, ResumeBy
  <2>2. ~EndAs("killed")  BY DEF EndAs, Followed, Ended
  <2>3. ASSUME stop \notin Sent PROVE FALSE
    <3>1. stop \notin {"USR1", "STOP"} /\ stop \notin Handled  BY <2>3 DEF Sent
    <3> QED  BY <2>1, <2>2, <3>1 DEF Deliver
  <2>4. level # "kernel"  BY <2>3 DEF TypeInv
  <2>5. /\ stop' = "none" /\ pending' = pending /\ UNCHANGED <<call, level, traced, sent>>
        /\ \/ stop = "USR1" /\ place = "spin" /\ place' = "handler"
           \/ stop \in Handled /\ place' = place
           \/ stop = "STOP" /\ place' = "halted"
    BY <2>1, <2>2 DEF Deliver
  <2>6. OwnCalls'  BY <2>4, <2>5 DEF OwnCalls
  <2>7. ASSUME request = "SYSCALL" PROVE AsAwaited'
    BY <2>1, <2>4, <2>5, <2>7 DEF Expected, AsAwaited, GettingReady, Attaching, ToEntry,
           ToExec, ToTrap, ToExit, ToEnd, Named, Stopsig
  <2>8. ASSUME request = "CONT", sent = {} PROVE FALSE
    <3>1. stop \notin Handled  BY <2>1, <2>8 DEF TypeInv
    <3> QED  BY <2>1, <2>5, <2>8, <3>1 DEF Expected, Undisturbed, GettingReady, Stopsig,
           TypeInv, PtraceTypeOK
  <2> QED  BY <2>5, <2>6, <2>7, <2>8 DEF Expected
<1> QED  BY <1>1, <1>2
\* What main's loop does with a stop that it waited for.
Resumed(s, next) ==
    /\ stop # "none" /\ pc' = "wait" /\ awaits' = next /\ got_sig' = got_sig
    /\ syscalls' = (request = "SYSCALL") /\ stop' = "none"
    /\ UNCHANGED <<call, level, traced, pending, sent>>
    /\ IF s = "none" THEN place' = place
       ELSE (place = "spin" /\ place' = "handler") \/ (place # "spin" /\ place' = place)

LEMMA ResumedSo ==
    ASSUME TypeInv, Followed, Followed', NEW s \in {"none", "USR1"}, NEW next, Resume(s, next)
    PROVE  Resumed(s, next)
<1>1. ASSUME NEW how, ResumeBy(how, s, next)
      PROVE  /\ stop # "none" /\ pc' = "wait" /\ awaits' = next /\ got_sig' = got_sig
             /\ syscalls' = (how = "SYSCALL") /\ stop' = "none"
             /\ UNCHANGED <<call, level, traced, pending, sent>>
             /\ IF s = "none" THEN place' = place
                ELSE (place = "spin" /\ place' = "handler") \/ (place # "spin" /\ place' = place)
  <2>1. stop # "none"
    BY <1>1 DEF ResumeBy, Leave, Followed, Finished
  <2>2. CASE s = "none"
    BY <1>1, <2>1, <2>2 DEF ResumeBy
  <2>3. CASE s = "USR1"
    <3>1. Deliver(s, pending) /\ ~EndAs("killed")
      BY <1>1, <2>1, <2>3 DEF ResumeBy, EndAs, Followed, Ended
    <3>2. s \notin Handled  BY <2>3
    <3> QED  BY <1>1, <2>1, <2>3, <3>1, <3>2 DEF ResumeBy, Deliver
  <2> QED  BY <2>2, <2>3
<1>2. CASE request = "SYSCALL" /\ ResumeBy("SYSCALL", s, next)
  BY <1>1, <1>2 DEF Resumed
<1>3. CASE request = "CONT" /\ ResumeBy("CONT", s, next)
  BY <1>1, <1>3 DEF Resumed
<1> QED  BY <1>2, <1>3 DEF Resume, NoSyscallResume

LEMMA TracedAsExpected ==
    ASSUME "TRAP" \notin Signals, TypeInv, Expected, Followed, Followed', request' = request,
           Traced
    PROVE  Expected'
<1>1. PICK s \in {"none", "USR1"}, next \in Awaited :
         /\ Resumed(s, next)
         /\ \/ awaits = "usr1" /\ s = "USR1" /\ next = "entry"
            \/ awaits = "stop" /\ s = "none" /\ next = "entry"
            \/ /\ awaits = "entry" /\ s = "none"
               /\ \/ Named(call) /\ call = "execve" /\ next = "exec"
                  \/ Named(call) /\ call \in {"exit", "exit_group"} /\ next = "end"
                  \/ Named(call) /\ call \notin {"execve", "exit", "exit_group"} /\ next = "exit"
                  \/ ~Named(call) /\ next = "entry"
            \/ /\ awaits = "exec" /\ s = "none"
               /\ \E zero \in EaxIsZero : next = OnceMore(zero)
            \/ awaits \in {"again", "exit"} /\ s = "none" /\ next = "entry"
  <2>1. "none" \in {"none", "USR1"} /\ "USR1" \in {"none", "USR1"}  OBVIOUS
  <2>2. {"entry", "exec", "end", "exit"} \subseteq Awaited /\ \A zero : OnceMore(zero) \in Awaited
    BY DEF Awaited, OnceMore
  <2> QED  BY <2>1, <2>2, ResumedSo DEF Traced
<1>2. pc = "act" /\ stop \in Stopsig
  BY DEF Traced, TypeInv, Followed
<1>3. OwnCalls'
  <2>1. place' = place \/ (awaits = "usr1" /\ place = "spin")
    BY <1>1 DEF Resumed
  <2>2. call' = call /\ level' = level  BY <1>1 DEF Resumed
  <2> QED  BY <2>1, <2>2 DEF Expected, OwnCalls
<1>4. ASSUME request = "SYSCALL" PROVE AsAwaited'
  <2> USE <1>1, <1>2, <1>4 DEF Resumed, Expected, AsAwaited, Stopsig
  <2>1. CASE awaits = "usr1"
    BY <2>1 DEF GettingReady, ToEntry
  <2>2. CASE awaits = "stop"
    <3>1. level # "kernel"  BY <2>2 DEF TypeInv, Sent
    <3> QED  BY <2>2, <3>1 DEF Attaching, ToEntry
  <2>3. CASE awaits = "entry"
    BY <2>3 DEF ToEntry, ToExec, ToExit, ToEnd, Named, TypeInv, PtraceTypeOK
  <2>4. CASE awaits = "exec"
    BY <2>4 DEF ToEntry, ToExec, ToTrap, EaxIsZero, OnceMore
  <2>5. CASE awaits = "again"
    BY <2>5 DEF ToEntry, ToTrap
  <2>6. CASE awaits = "exit"
    BY <2>6 DEF ToEntry, ToExit
  <2> QED  BY <2>1, <2>2, <2>3, <2>4, <2>5, <2>6
<1>5. ASSUME request = "CONT", sent = {} PROVE Undisturbed'
  BY <1>1, <1>2, <1>5 DEF Resumed, Expected, Undisturbed, GettingReady, Stopsig, OnceMore
<1> QED  BY <1>1, <1>3, <1>4, <1>5 DEF Expected, Resumed

LEMMA StepStep ==
    ASSUME "TRAP" \notin Signals, StepInv, [Next]_vars
    PROVE  StepInv'
<1>1. TypeInv /\ TypeInv'  BY TypeStep DEF StepInv
<1> SUFFICES ASSUME Followed' PROVE Expected'
  BY <1>1 DEF StepInv
<1>2. Followed /\ Expected  BY <1>1, FollowedBefore DEF StepInv
<1>3. ~Kill /\ ~WaitEnded /\ ~Interrupt
  BY DEF Kill, WaitEnded, Interrupt, EndChild, EndAs, Leave, Followed, Ended, Finished
<1>4. CASE UNCHANGED vars
  BY <1>2, <1>4 DEF vars, tracer, child, Expected, OwnCalls, AsAwaited, Undisturbed,
         GettingReady,
     Attaching, ToEntry, ToExec, ToTrap, ToExit, ToEnd
<1>5. CASE Next
  <2>1. request' = request
    BY <1>5 DEF Next, Tracer, Child, Outside
  <2>2. \/ TraceMe \/ SignalParent \/ EnterCall \/ LeaveCall \/ BackToUser
        \/ TakeSignal \/ SendSignal \/ KillChild
        \/ Spin \/ WaitStopped \/ WaitDifferent
        \/ Traced
    BY <1>3, <1>5 DEF Next, Tracer, Child, Outside, NoSyscallChild, NoSyscallReady,
           NoSyscallWait,
         NoSyscallTraced, NoSyscallInterrupt
  <2> QED
    BY <1>1, <1>2, <2>1, <2>2, ChildAsExpected, SignalsAsExpected, StopsAsExpected,
       TracedAsExpected
<1> QED  BY <1>4, <1>5

LEMMA ExpectedGives == StepInv => InStep
<1> SUFFICES ASSUME StepInv PROVE InStep  OBVIOUS
<1>1. PtraceTypeOK /\ TypeInv  BY DEF StepInv, TypeInv
<1>2. stop # "none" => place \notin Ended /\ pc \notin Finished
  BY <1>1 DEF TypeInv, PtraceTypeOK
<1>3. stop # "none" => Expected  BY <1>2 DEF StepInv, Followed
<1>4. ASSUME request = "SYSCALL", pc = "act", stop # "none"
      PROVE  /\ awaits = "entry" => stop = "entry" \/ (stop = "exit" /\ ~Named(call))
             /\ awaits \in {"exec", "exit"} => stop = "exit"
             /\ awaits = "again" => stop = "TRAP"
  <2>1. AsAwaited /\ stop \in Stopsig
    BY <1>1, <1>2, <1>3, <1>4 DEF Expected, TypeInv
  <2> QED  BY <1>4, <2>1 DEF AsAwaited, Stopsig, ToEntry, ToExec, ToTrap, ToExit
<1>5. ASSUME request = "CONT", stop \in {"entry", "exit"} PROVE sent # {}
  BY <1>3, <1>5 DEF Expected, Undisturbed
<1> QED  BY <1>1, <1>4, <1>5 DEF InStep

-----------------------------------------------------------------------------

LEMMA Beginning == Init \/ NoSyscallInit => StepInv /\ KeptInv
<1> SUFFICES ASSUME Init \/ NoSyscallInit PROVE StepInv /\ KeptInv  OBVIOUS
<1>1. TypeInv  BY TypeInit
<1>2. SignalsKept  BY DEF Init, NoSyscallInit, Begin, SignalsKept
<1>3. OwnCalls  BY DEF Init, NoSyscallInit, Begin, OwnCalls
<1>4. AsAwaited /\ Undisturbed
  BY DEF Init, NoSyscallInit, Begin, AsAwaited, Undisturbed, GettingReady, Attaching
<1> QED  BY <1>1, <1>2, <1>3, <1>4 DEF StepInv, KeptInv, Expected

\* Every variable keeps its type, and only what is traced stops: whatever the command
\* does and is sent, and for both programs.
THEOREM Typing == Spec => []PtraceTypeOK
<1>1. Init \/ NoSyscallInit => TypeInv  BY TypeInit
<1>2. TypeInv /\ [Next]_vars => TypeInv'  BY TypeStep
<1>3. TypeInv => PtraceTypeOK  BY DEF TypeInv
<1> QED  BY <1>1, <1>2, <1>3, PTL DEF Spec

\* pidwatcher-ptrace takes no stop for another, whatever calls the command makes and
\* whatever signals it is sent but three: a SIGTRAP from elsewhere, which the tracer
\* cannot tell from its own, is excluded here, SIGSTOP and SIGUSR1 by PtraceAssumption.
THEOREM StaysInStep == "TRAP" \notin Signals => (Spec => []InStep)
<1> SUFFICES ASSUME "TRAP" \notin Signals PROVE Spec => []InStep  OBVIOUS
<1>1. Init \/ NoSyscallInit => StepInv  BY Beginning
<1>2. StepInv /\ [Next]_vars => StepInv'  BY StepStep
<1>3. StepInv => InStep  BY ExpectedGives
<1> QED  BY <1>1, <1>2, <1>3, PTL DEF Spec

\* Neither program takes a signal away from the command that it follows, the same
\* three excluded: a SIGTRAP from elsewhere would be dropped wherever a system call is
\* waited for, a SIGSTOP while the tracer attaches.
THEOREM KeepsSignals == "TRAP" \notin Signals => (Spec => []SignalsKept)
<1> SUFFICES ASSUME "TRAP" \notin Signals PROVE Spec => []SignalsKept  OBVIOUS
<1>1. Init \/ NoSyscallInit => KeptInv  BY Beginning
<1>2. KeptInv /\ [Next]_vars => KeptInv'
  BY KeptStep, TypeStep DEF KeptInv
<1>3. KeptInv => SignalsKept  BY DEF KeptInv
<1> QED  BY <1>1, <1>2, <1>3, PTL DEF Spec
=============================================================================
