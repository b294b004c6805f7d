------------------------------- MODULE Ptrace -------------------------------
(***************************************************************************)
(* pidwatcher-ptrace: starts a command, or attaches to one, and follows it *)
(* from system call to system call; pidwatcher-ptrace-nosyscall is to      *)
(* follow it from signal to signal.  Signals come from elsewhere while the *)
(* command runs, and SIGKILL at any moment.  The child up to its execve is *)
(* the program's own code; ptrace, signals and wait are the kernel's.      *)
(***************************************************************************)
EXTENDS FiniteSets, Naturals

CONSTANTS
    Signals,       \* those that come from elsewhere, once the command runs
    Handled,       \* those of them that it handles; the others end it
    Calls,         \* the system calls of the command, beside those that end it
    Nameless       \* those of them that syscall_names has no name for

\* SIGUSR1 and SIGSTOP are the programs' own.  One from elsewhere is left out: a
\* SIGSTOP would be taken for the tracer's while it attaches, and be lost, and what a
\* group stop reports to a tracer is not modelled.
ASSUME PtraceAssumption ==
    /\ Signals \cap {"USR1", "STOP", "none", "entry", "exit"} = {}
    /\ Handled \subseteq Signals \ {"TRAP"}
    /\ Calls \cap {"none", "sigreturn", "execve", "exit", "exit_group"} = {}
    /\ Nameless \subseteq Calls

VARIABLES
    request,       \* which program it is: the request with which main resumes the child
    pc,            \* of the tracer: "spin", "wait", "act", "exit0", "exit1", ...
    awaits,        \* what my_wait is called for
    got_sig,       \* the tracer's
    place,         \* of the child
    call,          \* orig_eax: the system call that it is in, or returns from
    level,         \* "user", "kernel" or "return" from a call
    traced, syscalls,
    stop,          \* "none", "entry", "exit" or a signal that is to be delivered
    pending,       \* signals for the child
    sent, handled  \* those from elsewhere: history, for a property

tracer == <<pc, awaits, got_sig>>
child  == <<place, call, level, traced, syscalls, stop, pending, sent, handled>>
vars   == <<request, tracer, child>>

Finished == {"exit0", "exit1", "interrupted"}
Ended == {"exited", "killed"}
Sent == Signals \cup {"USR1", "STOP", "TRAP"}

PtraceTypeOK ==
    /\ request \in {"SYSCALL", "CONT"}
    /\ pc \in {"spin", "kill", "wait", "act"} \cup Finished
    /\ awaits \in {"usr1", "stop", "entry", "exec", "again", "exit", "end"}
    /\ place \in {"born", "ready", "spin", "handler", "exec", "fail", "image", "halted"} \cup Ended
    /\ level \in {"user", "kernel", "return"}
    /\ call \in Calls \cup {"none", "sigreturn", "execve", "exit", "exit_group"}
    /\ stop \in {"none", "entry", "exit"} \cup Sent /\ pending \subseteq Sent
    /\ got_sig \in BOOLEAN /\ traced \in BOOLEAN /\ syscalls \in BOOLEAN
    /\ (stop # "none" => traced) /\ (stop = "entry" => level = "kernel")
    /\ sent \subseteq Signals /\ handled \subseteq sent

\* The tracer forks, or is given the pid of a command and attaches to it.
Begin ==
    /\ got_sig = FALSE /\ call = "none" /\ level = "user"
    /\ syscalls = FALSE /\ stop = "none" /\ sent = {} /\ handled = {}
    /\ \/ pc = "spin" /\ awaits = "usr1" /\ place = "born" /\ traced = FALSE /\ pending = {}
       \/ pc = "wait" /\ awaits = "stop" /\ place = "image" /\ traced = TRUE
          /\ pending = {"STOP"}

Init == request = "SYSCALL" /\ Begin

-----------------------------------------------------------------------------
(* The child, and what the kernel makes of it.                             *)

\* external
Running == place \notin Ended \cup {"halted"} /\ stop = "none"

EndAs(how) ==
    /\ place' = how /\ call' = "none" /\ level' = "user" /\ stop' = "none"
    /\ pending' = {} /\ UNCHANGED <<traced, sent, handled>>
EndChild(how) == EndAs(how) /\ UNCHANGED syscalls

TraceMe ==
    /\ place = "born" /\ Running
    /\ \/ place' = "ready" /\ traced' = TRUE
          /\ UNCHANGED <<call, level, syscalls, stop, pending, sent, handled>>
       \/ EndChild("exited")            \* ptrace fails
    /\ UNCHANGED tracer

SignalParent ==
    /\ place = "ready" /\ Running
    /\ place' = "spin" /\ got_sig' = TRUE
    /\ UNCHANGED <<pc, awaits, call, level, traced, syscalls, stop, pending, sent, handled>>

\* external
CallFrom ==
    CASE place = "handler" -> {"sigreturn"}
      [] place = "exec"    -> {"execve"}
      [] place = "fail"    -> {"exit_group"}
      [] place = "image"   -> Calls \cup {"exit", "exit_group"}
      [] OTHER             -> {}

\* external
EnterCall ==
    /\ Running /\ level = "user" /\ pending = {}
    /\ \E c \in CallFrom : call' = c
    /\ level' = "kernel" /\ stop' = IF syscalls THEN "entry" ELSE "none"
    /\ UNCHANGED <<tracer, place, traced, syscalls, pending, sent, handled>>

\* external: a traced execve that succeeds sends a SIGTRAP.
LeaveCall ==
    /\ Running /\ level = "kernel"
    /\ IF call \in {"exit", "exit_group"} THEN EndChild("exited")
       ELSE /\ level' = "return" /\ stop' = IF syscalls THEN "exit" ELSE "none"
            /\ \/ call = "execve" /\ place' = "image"
                  /\ pending' = pending \cup IF traced THEN {"TRAP"} ELSE {}
               \/ call = "execve" /\ place' = "fail" /\ UNCHANGED pending
               \/ call = "sigreturn" /\ place' = "exec" /\ UNCHANGED pending
               \/ call \in Calls /\ UNCHANGED <<place, pending>>
            /\ UNCHANGED <<call, traced, syscalls, sent, handled>>
    /\ UNCHANGED tracer

\* external
BackToUser ==
    /\ Running /\ level = "return" /\ pending = {}
    /\ level' = "user" /\ call' = "none"
    /\ UNCHANGED <<tracer, place, traced, syscalls, stop, pending, sent, handled>>

\* external: what a signal does that is delivered in the end; others are left.
Deliver(s, left) ==
    IF s = "USR1" /\ place = "spin"
    THEN /\ place' = "handler" /\ stop' = "none" /\ pending' = left
         /\ UNCHANGED <<call, level, traced, sent, handled>>
    ELSE IF s \in Handled
    THEN /\ handled' = handled \cup {s} /\ stop' = "none" /\ pending' = left
         /\ UNCHANGED <<place, call, level, traced, sent>>
    ELSE IF s = "STOP"
    THEN /\ place' = "halted" /\ stop' = "none" /\ pending' = left
         /\ UNCHANGED <<call, level, traced, sent, handled>>
    ELSE EndAs("killed")

\* external: a traced process stops first.
TakeSignal ==
    /\ Running /\ level # "kernel"
    /\ \E s \in pending :
          IF traced THEN stop' = s /\ pending' = pending \ {s}
                         /\ UNCHANGED <<place, call, level, traced, sent, handled>>
          ELSE Deliver(s, pending \ {s})
    /\ UNCHANGED <<tracer, syscalls>>

\* external
SendSignal ==
    /\ place = "image"
    /\ \E s \in Signals \ sent : sent' = sent \cup {s} /\ pending' = pending \cup {s}
    /\ UNCHANGED <<tracer, place, call, level, traced, syscalls, stop, handled>>

\* external
Kill == place \notin Ended /\ EndChild("killed") /\ UNCHANGED tracer

-----------------------------------------------------------------------------
(* The tracer.                                                             *)

\* The calls that syscall_names has a name for: exit_group is none of them.
Named(c) == c \in {"sigreturn", "execve", "exit"} \cup (Calls \ Nameless)

Spin == pc = "spin" /\ got_sig /\ pc' = "kill" /\ UNCHANGED <<awaits, got_sig, child>>

\* my_kill does not fail for a child that is not waited for.
KillChild ==
    /\ pc = "kill" /\ pc' = "wait"
    /\ pending' = IF place \in Ended THEN {} ELSE pending \cup {"USR1"}
    /\ UNCHANGED <<awaits, got_sig, place, call, level, traced, syscalls, stop, sent, handled>>

\* The tracer ends, and leaves the child to itself.
LeaveStopped(how) ==  \* mutant: the child stays in its stop
    /\ pc' = how /\ traced' = FALSE /\ syscalls' = FALSE
    /\ UNCHANGED <<awaits, got_sig, place, call, level, stop, pending, sent, handled>>
Leave(how) ==
    /\ pc' = how /\ traced' = FALSE /\ syscalls' = FALSE /\ stop' = "none"
    /\ UNCHANGED <<awaits, got_sig, place, call, level, pending, sent, handled>>

\* PTRACE_SYSCALL or PTRACE_CONT, with the signal that the child is to get, then
\* my_wait for what is next.  It fails if the child was killed while it was stopped.
ResumeBy(how, s, next) ==
    IF stop = "none" THEN Leave("exit1")
    ELSE /\ pc' = "wait" /\ awaits' = next /\ syscalls' = (how = "SYSCALL") /\ UNCHANGED got_sig
         /\ IF s = "none" THEN stop' = "none"
                               /\ UNCHANGED <<place, call, level, traced, pending, sent, handled>>
            ELSE Deliver(s, pending)

NoSyscallResume(s, next) == ResumeBy("CONT", s, next)

Resume(s, next) == \/ request = "SYSCALL" /\ ResumeBy("SYSCALL", s, next)
                   \/ request = "CONT" /\ NoSyscallResume(s, next)

Stopsig ==
    CASE awaits = "usr1" -> {"USR1"}
      [] awaits = "stop" -> {"STOP"}
      [] awaits = "end"  -> {}
      [] OTHER -> {"entry", "exit", "TRAP"}   \* SIGTRAP, with or without the bit

\* my_wait: a different signal is sent on.
WaitStopped ==
    /\ pc = "wait" /\ stop \in Stopsig
    /\ pc' = "act" /\ UNCHANGED <<awaits, got_sig, child>>

\* Both programs, by PTRACE_SYSCALL.
SendNothing == ResumeBy("SYSCALL", "none", awaits)  \* mutant: the signal is not sent on
SendOn == ResumeBy("SYSCALL", stop, awaits)

WaitDifferent ==
    /\ pc = "wait" /\ stop # "none" /\ stop \notin Stopsig
    /\ SendOn

WaitAgain == pc = "wait" /\ place \in Ended /\ UNCHANGED vars  \* mutant: for a stop that never comes
WaitEnded ==
    /\ pc = "wait" /\ place \in Ended
    /\ Leave(IF awaits = "end" THEN "exit0" ELSE "exit1")

\* Whether eax is 0: not at the entry into a call, where it is -ENOSYS.
EaxIsZero == IF stop = "entry" THEN {FALSE}
             ELSE IF call = "execve" THEN {place = "image"} ELSE BOOLEAN

\* "For a successful execve we get one more trap".
NoMore(zero) == "entry"  \* mutant: it is not waited for
OnceMore(zero) == IF zero THEN "again" ELSE "entry"

\* main, up to the next my_wait: the loop looks at a call only if it has a name.
Traced ==
    /\ pc = "act"
    /\ \/ awaits = "usr1" /\ Resume("USR1", "entry")
       \/ awaits = "stop" /\ Resume("none", "entry")
       \/ /\ awaits = "entry"
          /\ \/ Named(call) /\ call = "execve" /\ Resume("none", "exec")
             \/ Named(call) /\ call \in {"exit", "exit_group"} /\ Resume("none", "end")
             \/ Named(call) /\ call \notin {"execve", "exit", "exit_group"}
                   /\ Resume("none", "exit")
             \/ ~Named(call) /\ Resume("none", "entry")
       \/ awaits = "exec" /\ \E zero \in EaxIsZero : Resume("none", OnceMore(zero))
       \/ awaits \in {"again", "exit"} /\ Resume("none", "entry")

\* SIGINT detaches from a command that was attached to.
Interrupt ==
    /\ pc \in {"wait", "act"} /\ got_sig = FALSE
    /\ Leave("interrupted")

(* pidwatcher-ptrace-nosyscall has the same text but for the request of    *)
(* main: it gets PTRACE_CONT's stops, and those at system calls once       *)
(* my_wait has sent a signal on.                                           *)

NoSyscallInit == request = "CONT" /\ Begin
NoSyscallChild == TraceMe \/ SignalParent
NoSyscallReady == Spin \/ KillChild
NoSyscallWait == WaitStopped \/ WaitDifferent \/ WaitEnded
NoSyscallTraced == Traced
NoSyscallInterrupt == Interrupt

-----------------------------------------------------------------------------

Tracer ==
    /\ UNCHANGED request
    /\ \/ /\ request = "SYSCALL"
          /\ Spin \/ KillChild \/ WaitStopped \/ WaitDifferent \/ WaitEnded \/ Traced
       \/ /\ request = "CONT"
          /\ NoSyscallReady \/ NoSyscallWait \/ NoSyscallTraced

Child ==
    /\ UNCHANGED request
    /\ \/ request = "SYSCALL" /\ (TraceMe \/ SignalParent)
       \/ request = "CONT" /\ NoSyscallChild
       \/ EnterCall \/ LeaveCall \/ BackToUser \/ TakeSignal

Outside ==
    /\ UNCHANGED request
    /\ \/ SendSignal \/ Kill
       \/ request = "SYSCALL" /\ Interrupt
       \/ request = "CONT" /\ NoSyscallInterrupt

Next == Tracer \/ Child \/ Outside

Spec == (Init \/ NoSyscallInit) /\ [][Next]_vars
FairSpec == Spec /\ WF_vars(Tracer) /\ WF_vars(Child)

-----------------------------------------------------------------------------
(* Properties.                                                             *)

\* As long as no SIGTRAP, SIGSTOP or SIGUSR1 comes from elsewhere, pidwatcher-ptrace
\* takes no stop for another: where it waits for the entry into a call the child stands
\* at one, and the same for the return and for the SIGTRAP of execve.  Only a call
\* without a name comes by twice as an entry.  pidwatcher-ptrace-nosyscall does, but
\* the child of it stops at system calls only after a signal has come.
InStep ==
    /\ PtraceTypeOK
    /\ request = "SYSCALL" /\ pc = "act" /\ stop # "none" =>
        /\ awaits = "entry" => stop = "entry" \/ (stop = "exit" /\ ~Named(call))
        /\ awaits \in {"exec", "exit"} => stop = "exit"
        /\ awaits = "again" => stop = "TRAP"
    /\ request = "CONT" /\ stop \in {"entry", "exit"} => sent # {}

\* Supervision takes no signal away from the command, but for a SIGTRAP, SIGSTOP or
\* SIGUSR1 from elsewhere, which are not in the model's signals or not in its runs: the
\* tracer drops a SIGTRAP wherever it waits for a system call, and a SIGSTOP while it
\* attaches.  Each other signal that was sent is on its way or was handled, unless the
\* tracer was interrupted or the child ended.
SignalsKept ==
    pc \notin Finished /\ place \notin Ended => sent \subseteq handled \cup pending \cup {stop}

\* The tracer does not go on for ever when the child has ended, whatever it ended
\* of, once the child has been ready.
TracerEnds == (place \in Ended /\ pc # "spin") ~> pc \in Finished
=============================================================================
