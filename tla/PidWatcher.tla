----------------------------- MODULE PidWatcher -----------------------------
(***************************************************************************)
(* The kernel module pidwatcher, the tasks it looks at, and pspidwatcher,  *)
(* which reads its device and prints the tasks of supervised modules.      *)
(*                                                                         *)
(* A string of an environment is Blank (empty), Plain (not empty, nothing  *)
(* to do with the watchdog) or the variable MediaBoxModuleName, named by   *)
(* the length of its value; values of different modules differ in length.  *)
(* No environment is longer than a record has room for.                    *)
(***************************************************************************)
EXTENDS Integers, FiniteSets, SequencesExt

CONSTANTS
    Task,       \* pids
    File,       \* the processes that open the device, each once at a time
    Name,       \* lengths of the values of the variable
    Environ,    \* the environments that tasks have
    Buf         \* records in the buffer of pspidwatcher

Blank == <<"blank">>
Plain == <<"plain">>
Variable(n) == <<"name", n>>

ASSUME PidWatcherAssumption ==
    /\ 0 \notin Task /\ IsFiniteSet(File)
    /\ Name \subseteq Nat \ {0} /\ Buf \in Nat \ {0}
    /\ Environ \subseteq Seq({Blank, Plain} \cup {Variable(n) : n \in Name})

VARIABLES
    loaded,        \* insmod and rmmod
    tasks,         \* the task list of the kernel, in the order of for_each_task
    environ,       \* of a task
    useCount, deviceIsOpen,
    blocks,        \* vmalloc'd and not freed
    file           \* of an opener: how far it is, and its private_data

vars == <<loaded, tasks, environ, useCount, deviceIsOpen, blocks, file>>
kernel == <<loaded, tasks, environ, useCount, deviceIsOpen, blocks>>

\* What the buffer "string" of pspidwatcher may hold: a string of an
\* environment, or the beginning is one and the rest the end of another.
Text == {Blank, Plain} \cup {Variable(n) : n \in Name}
            \cup {<<"mixed", m, n>> : m, n \in Name}

Record == [pid : Task \cup {0}, environ : Environ \cup {<<>>}]
Unused == [pid |-> 0, environ |-> <<>>]

\* pc is where the opener is: "store" and "data" are the two vmalloc of open,
\* "read" and "parse" the loops of pspidwatcher.  len is in records.
Closed == [pc |-> "closed", len |-> 0, pids |-> 0, data |-> <<>>, offset |-> 0,
           buf |-> <<>>, string |-> Blank, printed |-> <<>>]

TypeOK ==
    /\ loaded \in BOOLEAN
    /\ tasks \in Seq(Task) /\ environ \in [Task -> Environ \cup {<<>>}]
    /\ useCount \in Nat /\ deviceIsOpen \in Nat /\ blocks \in Nat
    /\ \A f \in File :
        /\ file[f].pc \in {"closed", "store", "data", "read", "parse"}
        /\ file[f].len \in Nat /\ file[f].pids \in Nat
        /\ file[f].data \in Seq(Record) /\ file[f].buf \in Seq(Record)
        /\ file[f].offset \in 0 .. file[f].len
        /\ file[f].string \in Text
        /\ file[f].printed \in Seq(Task \X Text)

Init ==
    /\ loaded = TRUE
    /\ tasks = <<>> /\ environ = [t \in Task |-> <<>>]
    /\ useCount = 0 /\ deviceIsOpen = 0 /\ blocks = 0
    /\ file = [f \in File |-> Closed]

-----------------------------------------------------------------------------
(* The kernel: tasks come and go, both under the lock of the task list;    *)
(* modules are loaded, and unloaded when they are not in use.              *)

Fork(t, e) ==
    /\ t \notin ToSet(tasks)
    /\ tasks' = Append(tasks, t) /\ environ' = [environ EXCEPT ![t] = e]
    /\ UNCHANGED <<loaded, useCount, deviceIsOpen, blocks, file>>

Exit(t) ==
    /\ \E i \in 1 .. Len(tasks) : tasks[i] = t /\ tasks' = RemoveAt(tasks, i)
    /\ environ' = [environ EXCEPT ![t] = <<>>]
    /\ UNCHANGED <<loaded, useCount, deviceIsOpen, blocks, file>>

Load ==
    /\ ~loaded /\ loaded' = TRUE
    /\ UNCHANGED <<tasks, environ, useCount, deviceIsOpen, blocks, file>>

Unload ==
    /\ loaded /\ useCount = 0 /\ loaded' = FALSE
    /\ UNCHANGED <<tasks, environ, useCount, deviceIsOpen, blocks, file>>

-----------------------------------------------------------------------------
(* pidwatcher.c.                                                           *)

CountLater == UNCHANGED useCount  \* mutant: not counted before open may sleep
CountUse == useCount' = useCount + 1

\* pidwatcher_device_open, up to the first vmalloc.
Open(f) ==
    /\ loaded /\ file[f].pc = "closed"
    /\ deviceIsOpen' = deviceIsOpen + 1
    /\ CountUse
    /\ file' = [file EXCEPT ![f].pc = "store"]
    /\ UNCHANGED <<loaded, tasks, environ, blocks>>

\* One vmalloc fails, and open: device_is_open keeps its count, and what was
\* allocated before is not freed.
NoMemory(f) ==
    /\ file[f].pc \in {"store", "data"}
    /\ useCount' = useCount - 1
    /\ file' = [file EXCEPT ![f] = Closed]
    /\ UNCHANGED <<loaded, tasks, environ, deviceIsOpen, blocks>>

\* The tasks are counted; the second vmalloc may sleep.
Count(f) ==
    /\ file[f].pc = "store"
    /\ blocks' = blocks + 1
    /\ file' = [file EXCEPT ![f].pc = "data", ![f].len = Len(tasks)]
    /\ UNCHANGED <<loaded, tasks, environ, useCount, deviceIsOpen>>

TaskRecord(t) == [pid |-> t, environ |-> environ[t]]

\* The walk over the task list, under its lock.  It has no end but that of
\* the list: more tasks than were counted are written behind the data.
Walk(f) ==
    LET len == file[f].len IN
    /\ file[f].pc = "data"
    /\ blocks' = blocks + 1
    /\ file' = [file EXCEPT ![f].pc = "read", ![f].pids = Len(tasks),
            ![f].data = [i \in 1 .. len |->
                IF i <= Len(tasks) THEN TaskRecord(tasks[i]) ELSE Unused]]
    /\ UNCHANGED <<loaded, tasks, environ, useCount, deviceIsOpen>>

Overrun(f) == file[f].pids > file[f].len

FreeData == blocks' = blocks - 1  \* mutant: info is not freed
Free == blocks' = blocks - 2

\* pidwatcher_device_release, also when the opener is killed.
Release(f) ==
    /\ file[f].pc \in {"read", "parse"}
    /\ Free
    /\ useCount' = useCount - 1 /\ deviceIsOpen' = deviceIsOpen - 1
    /\ file' = [file EXCEPT ![f] = Closed]
    /\ UNCHANGED <<loaded, tasks, environ>>

InPlace(f, length) == file[f].offset  \* mutant: the offset is left
OneShort(f, length) == file[f].offset + length - 1  \* mutant: off by one
Advanced(f, length) == file[f].offset + length

\* pidwatcher_device_read of a full buffer; nothing is left to read at the end.
Read(f) ==
    LET offset == file[f].offset
        length == IF offset + Buf > file[f].len THEN file[f].len - offset ELSE Buf
    IN
    /\ file[f].pc = "read" /\ offset < file[f].len
    /\ file' = [file EXCEPT ![f].pc = "parse", ![f].offset = Advanced(f, length),
                   ![f].buf = SubSeq(file[f].data, offset + 1, offset + length)]
    /\ UNCHANGED kernel

-----------------------------------------------------------------------------
(* pspidwatcher.c.                                                         *)

\* strstr finds the variable.
Match(text) == text \notin {Blank, Plain}

\* The buffer after a string of an environment has been copied over what is
\* left in it, without the NUL.
Over(string, left) ==
    IF string = Blank THEN left
    ELSE IF string[1] = "name" /\ left # Blank /\ string[2] < left[Len(left)]
         THEN <<"mixed", string[2], left[Len(left)]>>
    ELSE string

\* Only the first string of an environment meets anything in the buffer: it
\* is cleared after one that does not match, and a match ends the loop.
Strings(env, string) ==
    [i \in DOMAIN env |-> IF i = 1 THEN Over(env[1], string) ELSE env[i]]

\* One turn of the loop over the records.
Parse(f) ==
    LET record  == Head(file[f].buf)
        strings == Strings(record.environ, file[f].string)
        matches == {i \in DOMAIN strings : Match(strings[i])}
        found   == strings[Min(matches)]
    IN
    /\ file[f].pc = "parse" /\ file[f].buf # <<>>
    /\ file' = [file EXCEPT ![f].buf = Tail(@),
           ![f].string = IF matches # {} THEN found
                         ELSE IF strings = <<>> THEN @ ELSE Blank,
           ![f].printed = IF matches = {} THEN @ ELSE Append(@, <<record.pid, found>>)]
    /\ UNCHANGED kernel

ReadOn(f) ==
    /\ file[f].pc = "parse" /\ file[f].buf = <<>>
    /\ file' = [file EXCEPT ![f].pc = "read"]
    /\ UNCHANGED kernel

-----------------------------------------------------------------------------

\* Nothing is said of what happens once memory has been overrun.
Next ==
    /\ ~\E f \in File : Overrun(f)
    /\ \/ \E t \in Task : Exit(t) \/ \E e \in Environ : Fork(t, e)
       \/ Load \/ Unload
       \/ \E f \in File :
            \/ Open(f) \/ NoMemory(f) \/ Count(f) \/ Walk(f) \/ Release(f)
            \/ Read(f) \/ Parse(f) \/ ReadOn(f)

Done(f) == file[f].pc = "read" /\ file[f].offset = file[f].len

\* A process that has opened the device goes on, and closes it at the end.
Spec == Init /\ [][Next]_vars
LiveSpec ==
    /\ Spec
    /\ \A f \in File : WF_vars(/\ ~\E g \in File : Overrun(g)
                               /\ \/ Count(f) \/ Walk(f)
                                  \/ Read(f) \/ Parse(f) \/ ReadOn(f)
                                  \/ Done(f) /\ Release(f))

-----------------------------------------------------------------------------
(* Properties.                                                             *)

\* The module is never unloaded under a process that is in its code or will
\* come back to it: the use is counted before open may sleep, and no longer
\* only when release has done its work.
UnloadSafe == ~loaded => \A f \in File : file[f].pc = "closed"

Owned == 2 * Cardinality({f \in File : file[f].pc \in {"read", "parse"}})
             + Cardinality({f \in File : file[f].pc = "data"})
Openers == Cardinality({f \in File : file[f].pc # "closed"})

\* Memory is lost by opens that fail only, a block each, and device_is_open
\* tells: it has counted every one of them.
LossIsCounted == blocks - Owned \in 0 .. deviceIsOpen - Openers

\* The variable in an environment, and the name in the first one.
Variables(env) == {i \in DOMAIN env : env[i][1] = "name"}
NameIn(env) == env[Min(Variables(env))][2]

\* What was printed of the i-th task of the snapshot of an opener r.
Lines(r, i) == {r.printed[a] : a \in {b \in DOMAIN r.printed : r.printed[b][1] = r.data[i].pid}}
Texts(r, i) == {line[2] : line \in Lines(r, i)}

\* What is left in the buffer for the i-th task: what was printed of the last
\* one before it that has an environment, if it was.
LeftFor(r, i) == UNION {Texts(r, k) : k \in {k \in 1 .. i - 1 :
    r.data[k].environ # <<>> /\ \A j \in k + 1 .. i - 1 : r.data[j].environ = <<>>}}

\* The text of the i-th task is the variable and nothing else; but if a line
\* was printed of the last task before it, then an environment that begins
\* with an empty string gives the same text once more, and one that begins
\* with the variable may end in that of a longer name.
TextIsRight(r, i) ==
    LET env  == r.data[i].environ
        left == LeftFor(r, i)
        name == NameIn(env)
    IN
    IF env # <<>> /\ env[1] = Blank /\ left # {} THEN Texts(r, i) = left
    ELSE IF Variables(env) = {} THEN Texts(r, i) = {}
    ELSE \/ Texts(r, i) = {Variable(name)}
         \/ /\ env[1] = Variable(name)
            /\ \E text \in left : /\ text[Len(text)] > name
                                  /\ Texts(r, i) = {<<"mixed", name, text[Len(text)]>>}

\* The lines are in the order of the snapshot, whose pids differ: no task is
\* printed twice.
LinesInOrder(r) ==
    \A a, b \in 1 .. Len(r.printed) : a < b =>
        \E i, j \in 1 .. r.len :
            i < j /\ r.printed[a][1] = r.data[i].pid /\ r.printed[b][1] = r.data[j].pid

\* pspidwatcher prints the tasks of the snapshot that have the variable, each
\* in one line and in their order, however reads and records fall on each
\* other; when it has read everything none is missing, no other is printed,
\* and the texts are right.
PrintedAreSupervised ==
    \A f \in File :
        /\ LinesInOrder(file[f])
        /\ Done(f) => \A i \in 1 .. file[f].len : TextIsRight(file[f], i)

\* pspidwatcher comes to an end, or memory is overrun.
Closes == \A f \in File :
    file[f].pc = "read" ~> file[f].pc = "closed" \/ \E g \in File : Overrun(g)
=============================================================================
