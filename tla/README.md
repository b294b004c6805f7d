# A verification project for cretaceous-code

The repository collects some thirty independent programs. This directory holds
TLA+ models of those that have behaviour worth checking - threads, processes,
shared files, linked structures - with TLC configurations for small instances
and TLAPS proofs of the theorems that matter most.

    tlc -config MCCServer.cfg MCCServer         # model-check one run
    tlapm CServerProofs.tla                     # check the proofs of a module

`PROJECT.json` lists the components, the runs, the mutants (one faulty variant
of the code for each property, which the property must detect), the source lines
of every definition, the findings, the hazards and the theorems.

## 1. Inventory

### cserver - a chat server (`src/cserver`, C, threads)

* State: `_global.running`; the listener; the shared linked list of clients
  (`_list`: head, tail, size); one `pthread_mutex_t`; per client a heap-allocated
  `client_info` (descriptor, id, ip) and a thread; a shared `struct sockaddr_in sa`.
* Operations: main polls, accepts, logs a client on *itself* (blocking), creates
  the thread; the thread puts the client on the list, echoes messages, closes,
  finds its client by id, removes and frees it; a signal clears `running`;
  main then closes the listener and destroys the list.
* Hard: the mutex is initialised in every turn of main's loop; the identifier by
  which a client is found is chosen by the client; `list_destroy` takes no lock;
  the logon blocks main; failing calls leave things behind.
* Correct means: mutual exclusion, an intact list that is the roster of the
  clients served, memory freed once and by its owner, no lost wakeup, shutdown.

### watchdog suite (`src/pidwatcher/watchdog`, Perl, processes and files)

* State: `started.conf`, `<module>.params`, `<module>.lock`, `.used` device
  files; the processes of the modules as `/dev/pidwatcher` shows them.
* Operations: `startmodule` records, locks, and supervises a module for ever;
  `stopmodule` kills the supervisor and the module and undoes the records;
  `boot-modules` cleans up and starts what was recorded.
* Hard: every script is a process of its own, nothing serialises them; all
  communication is by files that are read, rewritten and moved; a power cut may
  come at any step; fork and exec are two steps.
* Correct means: files and processes agree; one supervisor a module; what is
  supervised is restarted, also after a reboot; what is stopped is stopped.

### pidwatcher kernel module and pspidwatcher (`src/pidwatcher/*.c`)

* State: per open file a snapshot of all tasks; `device_is_open`; the use count.
  pspidwatcher: a buffer of records and a string buffer.
* Operations: open counts the tasks, allocates, then walks the task list under a
  lock; read copies from the snapshot; release frees it. pspidwatcher reads to
  the end and prints the tasks with `MediaBoxModuleName` in their environment.
* Hard: tasks fork and exit between the count and the walk; failed allocations;
  rmmod while open sleeps; what is left in the string buffer after a match.
* Correct means: the use count covers every process in the module's code,
  memory is given back, the supervised tasks and no others are printed.

### algolib (`src/algolib`) - lists, sets, queues, graphs, searches, sorts

* State: pointer structures; the same list algorithms as cserver's.
* Correct means: the pointers represent the sequence, set or graph; the counts
  agree; the searches and the sorts meet their definitions; ownership of data.

### lcdcontrol (`src/lcdcontrol`, Perl)

* State: the menu whose options are shown, the selected option and the options
  selected on the way to it; the text of a prompt and where its cursor is; the
  lines of a file that is shown; the widgets that LCDd has; `lcdinputs.conf`,
  with the menu and the command in progress.
* Operations: keys (up, down, go, cancel, a command's own key) in a menu, in a
  prompt, in a file; commands that are run, the *safe* ones recorded first; start.
* Hard: every screen reuses the widgets of the one before; a menu is left by
  another path than it was entered; power cuts while a command runs or the file
  is written.
* Correct means: LCDd has what is shown; cancel goes back where one came from;
  the file tells what to take up again.

### lcdstats, the plugin with the vu meter (`src/lcdproc-vumeter-plugin`, C)

* State: of each mode of the command line a timer and whether it is visible; the
  size of the display; of each screen whether it was drawn before; the lines of
  the disk screen; two buffers, `buffer` and `tmp`, that all screens share.
* Operations: the lines of LCDd (`connect`, `listen`, `ignore`, `key`, `bye`), and
  a turn every 1/8 second that draws the screens that are due.
* Hard: LCDd answers when it likes; a screen's layout is that of its first
  drawing; file systems come and go; one screen appends to a shared buffer.
* Correct means: only widgets that were added are set, also after a long run;
  no screen is older than its period; the buffer is not overrun.

### pidwatcher-ptrace (`src/pidwatcher/ptrace-examples`, C, processes)

* State: the tracer's place in its loop, the child's in its system calls, and
  the stops and signals in between.
* Operations: fork and handshake by SIGUSR1, or attaching; a loop from the entry
  of a system call to its return; an extra trap after execve; signals sent on.
* Hard: all stops look alike; signals come from elsewhere at any moment; the
  child may be killed at any moment.
* Correct means: the tracer takes no stop for another, swallows no signal, and
  ends when the child does.

### fastweb, logem, others

* fastwebd: a select loop, a child per connection, a SIGCHLD handler that waits.
* logem: a character device with one buffer and a busy flag.
* csstats: one query over UDP without a timeout. mplayer-fifo: commands in a
  pipe. ipallow: a verdict for each packet. tdune: terrain generation.
* Pure I/O, one request at a time, or configuration: ecards, perl-web-libs,
  mediapck, modular-iptables-firewall, lcdsetup, sensors, cdripp, alsa-mixer,
  libc-highjack, the patches and the pages. Not modelled; `PROJECT.json` says
  why for each.

The components do not call one another, with three exceptions: lcdcontrol runs
lcdstats, one mode at a time, as safe commands of its menus; the watchdog
scripts read the processes of a module through pspidwatcher and the kernel
module, and the graphs of algolib are made of its sets, and these of its lists.

## 2. The modules and the code

| Module | Models | Uses |
|---|---|---|
| `CServer` | cserver: main, client threads, mutex, list, shutdown | |
| `CServerProofs` | theorems about it | `CServer`, `Least` |
| `Watchdog` | startmodule, stopmodule, boot-modules and their files | |
| `WatchdogProofs` | theorems about it | `Watchdog`, `Least` |
| `PidWatcher` | the kernel module, its device, pspidwatcher | |
| `PidWatcherProofs` | theorems about it | `PidWatcher`, `Least` |
| `LinkedList` | list.c, and the sets and queues made of it | |
| `AbstractGraph` | what graph.c promises | |
| `Graph` | graph.c, an implementation of `AbstractGraph` | `LinkedList` |
| `GraphSearch` | bfs.c, dfs.c and a program that calls them | `Graph` |
| `Sorts` | issort.c, mgsort.c, qksort.c, ctsort.c, rxsort.c | |
| `AlgolibProofs` | theorems about `LinkedList`, `AbstractGraph`, `Graph`, `GraphSearch` and `Sorts` | `GraphSearch`, `Sorts`, `Least` |
| `LcdControl` | lcdcontrol, its display and the file it keeps | |
| `LcdControlProofs` | theorems about it | `LcdControl`, `Least` |
| `LcdStats` | lcdstats: its turns, its screens, what LCDd has of them | |
| `LcdStatsProofs` | theorems about it | `LcdStats`, `Least` |
| `Ptrace` | pidwatcher-ptrace and -nosyscall, and the command they trace | |
| `PtraceProofs` | theorems about it | `Ptrace` |
| `Least` | numbers: the least and the greatest element of a set, induction and recursion | |
| `MC*` | bounds, symmetry and constraints for TLC | |

**CServer.** One process per thread: `pc[MAIN]` walks through `main`'s loop
(`check`, `poll`, `logon`, then `list_rem_next` for `list_destroy`),
`pc[c]` through `tcp_client_process`. A client names its thread and all that is
allocated for it, since the code allocates one of each per connection: the list
element, the `client_info`, its `ip`, the buffers of the logon and of the loop,
and the thread's arguments; `heap` tells which of them are. What a failure leaves
allocated stays so (`Reclaimed` says what that is). The
list is `head`, `tail`, `size` and `next`, as in `_list`. `list_ins_next` and
`list_rem_next` have a step that loads the pointers and one that stores them, and
`size++` and `size--` at their ends are a load and a store of their own, because
two threads can be inside them at once; `size` is unsigned and counts modulo
`Word`, which is more than there are clients (`WordAssumption`). The test of
`size` at the beginning of a removal and the one before `tail` is stored read it
anew. The search is a step per element. The
mutex is glibc's lock word (free, held, contended) with parked threads: this is
what `pthread_mutex_init` on a mutex in use overwrites. A step of a thread that
touches freed memory or follows NULL may crash the process or go on; what it
then reads is any value. `hazard` is a history variable with the four events
after which guarantees weaken; each property names those it excuses. Receiving
and sending a message are single steps, as the messages are not part of a
property. Each client connects once, which bounds the threads.

**Watchdog.** A run of a script is a pid with a `pc`; every read, rewrite, move
and removal of a file is a step. `started.conf` is an inode with lines: it is
replaced by a move, and two scripts of one second use one temporary file.
`child` is the process between startmodule's fork and the exec of the command,
when the kernel does not show the module's name for it. `Matches` is the
pattern that is a prefix of a name. `Overlap` says what the operator lets run at
the same time; nothing in the scripts does. A pid that is in a lock file is not
given to another script. A reboot may come at any step; files keep what was
written. startmodule empties `<module>.params` when it opens it and writes it when
it closes it (`StartWithArguments`, `WriteParams`), so that a reboot may leave it
empty: `Startable` are the modules for which it is whole. `left` is a history
variable, the modules whose device a stopmodule left in `.used` as an empty file of
parameters did not tell it which that is.

**PidWatcher.** `open` is three steps (`Open`, `Count`, `Walk`), because each of
its two `vmalloc` may sleep; `NoMemory` is their failure. Forks and exits come in
between, but not within the walk, which holds the lock of the task list. What
the kernel does (`Fork`, `Exit`, `nr_threads` counting the task list, opens and
rmmod under the big kernel lock up to where they sleep) is external and taken
from Linux 2.4, for which the module is written. An environment is a sequence of
strings that are blank, plain or the variable; `Over` is what copying a string
over the rest of an old one leaves: for a shorter name over a longer one, the
new name with the end of the old. `Variables` and `NameIn` are what should be
printed. After an overrun nothing more is said.

**LinkedList, Graph, GraphSearch.** A list is a record of its header and the next
fields; the operators are the functions of list.c, set.c and queue.c.
`Represents(list, seq)` says that the fields are those of a sequence. `Graph`
has one list of vertices and one set per vertex; calls that the code refuses
change nothing and are not actions. `GraphSearch` runs bfs and dfs in steps,
one per turn of a loop, with dfs's recursion as an explicit stack of
activations; allocations may fail in the searches. A datum names its element:
the callers' lists hold distinct data. Union, intersection, difference, subset
and equality are operators on two lists.

**Sorts.** One call at a time on one array; a step is an insertion (issort), a
pass (ctsort, rxsort), a call or a merge (mgsort), and in qksort the draw of a
pivot and every turn of partition's loop. The recursion of mgsort and qksort is
a stack of the calls still to be made. An element is named by the place it had
at first, so that stability can be told. rand may give any pivot: the middle one
of three draws may be any place of the part. `MallocFails` is the end of a call
for lack of memory.

**LcdControl.** `pc` is where the program waits, for a key in a menu, a prompt
or a file, or for a command, or where power may be cut with an effect: in
`write_inputs`, which empties `lcdinputs.conf` and then writes it (`write` at
the end of `do_action`, `save` before a safe command). `DoAction` is `do_action`
up to where it waits. An option is a record of what its line in `lcdmenus.conf`
makes `do_action` do; characters are left out, and a text is the lengths of its
rows. `text.lost` is a history variable: `get_input` has asked for a row before the
first one. LCDd has the numbered widgets of one screen.

**LcdStats.** `Turn` is a turn of `main_loop`: every mode's timer counts, and the
screens that are due are drawn in their order (`DrawModes`), `n` file systems and `k` changed
digits being what the drawing finds, and `c` whether the sensors can be read. For
each screen there is the set of widgets that its first drawing adds, and of those
that a drawing sets, for any height of the display. `screens` is what LCDd has of
them. `ConnectTorn` is a line
`connect` that two reads divide, which the program does not put together again.
`Received` is whatever comes from LCDd, and `FileSystems` how many file systems
are mounted when the disk screen is drawn.

**Ptrace.** The tracer and the child are two processes; what the kernel does for
the child (entering and leaving a call, taking a signal, stopping) is external.
`awaits` is what `my_wait` was called for; `Resume` is `PTRACE_SYSCALL` and the
`my_wait` after it. `SendSignal` and `Kill` come from elsewhere at any time.
`Named` is the test that guards the whole body of the loop since the statement
under it was commented out: of a call without a name in the table, as
exit_group is, the tracer takes entry and return for two calls. `request` tells
the two programs apart: pidwatcher-ptrace-nosyscall (the `NoSyscall` actions) is
the same text with `PTRACE_CONT` for the request by which main resumes the
child, but its `my_wait` still says `PTRACE_SYSCALL`. `Signals` and `Handled` are
what others send to the command and what of it the command handles, `Calls` and
`Nameless` its system calls and those that `syscall_names` does not know.

## 3. What the runs check

| Run | Instance | Checks |
|---|---|---|
| `cserver` | 3 clients, 3 ids, failing calls, size modulo 4; one hazard at a time, and 2 clients after it or after a signal | `TypeOK` `MutualExclusion` `ListIntact` `Reclaimed` `ListIsRoster` `NoWildAccess` `FreedByOwner` |
| `cserver_live` | 2 clients with one id, size modulo 3, fairness; the hazards but for `sameid` and `reinit` together | `Deregistered` `ShutdownCompletes` |
| `cserver_bug_reinit` | 2 clients, the mutex initialised anew | `NoBugMessage`, violated |
| `watchdog_one` | 2 modules, 3 pids, prefix names, one script at a time, reboots | `FilesAgree` |
| `watchdog_modules` | 2 modules, 3 pids, scripts of different modules overlap | `TypeOK` `SupervisorHoldsLock` |
| `watchdog_live` | 2 modules, 2 pids, names that do not begin with one another, fairness | `Restarted` `StopEnds` `BootRestarts` |
| `watchdog_lost_record` | overlapping scripts | `SupervisedIsRecorded`, violated |
| `pidwatcher` | 2 openers, 3 tasks, 5 environments, fairness | `TypeOK` `UnloadSafe` `LossIsCounted` `PrintedAreSupervised` `Closes` |
| `algolib` | all graphs of 3 vertices, in every order of their lists; all arrays of 4 keys below 4 | `ListsIntact` `SetsCombine` `HopsAreDistances` `GrayAreOpen` `OrderIsTopological` `IsAGraph` `SortedSoFar` `ScansStayInside` `PartsShrink` |
| `lcdcontrol` | 3 menus with options of every kind, a display of 2 by 4, a menu longer than it and one of a single option, prompts with and without a default | `WidgetsAsShown` `HistoryLeadsBack` `FileTellsState` `TextUnderCursor` |
| `lcdproc` | the default modes and 10 command lines, with all ten modes; displays of 1, 2 and 4 rows, up to 2 disks | `SetsAreAdded` `LinesOfDisks` `TmpInBounds` `InTime` |
| `ptrace` | a command with two kinds of calls, 2 signals and SIGKILL, fairness | `InStep` `SignalsKept` `TracerEnds` |

Every property of a passing run has a mutant in `PROJECT.json`: an operator
beside the definition it replaces, with the fault a programmer could have made.

### Bounds, constraints and symmetry

* Two client threads suffice for every interleaving of a pair of list
  operations, with or without the mutex; the third is there for removals in the
  middle of the list. `OneHazard` lets it come only as long as nothing has gone
  wrong and no signal has come: what is said of the states behind a hazard is
  about one thread and what another holds or has just lost, and `CServerProofs`
  covers them with any number. `Word` is as small as it may be, so that `size`
  wraps in both directions when two threads count at once.
* Two modules, one whose name begins with the other's, and three scripts: a
  supervisor each and one more. `NoCommandRuns` (in `watchdog_modules` only)
  leaves out commands of modules: the lock does not depend on them, and
  `ForkFails` takes startmodule through its loop.
* Three tasks and a buffer of two records make the last read a short one and let
  a match, the task that meets its leftovers and one after it stand in a row.
  `MaxOpen` bounds `device_is_open`, which a failed open raises for ever.
  `QuietWhileRead` lets tasks come and go between two snapshots only: they do
  not matter to one that has been taken.
* Three vertices have self-loops, cycles, two paths of different length between
  two vertices and vertices out of reach; lists of three have a head, a middle
  and a tail.
* Four elements give parts of every length that partition treats differently,
  and two digits a pass after another; keys below 4 leave equal ones among them.
  `MCAlgolib` lets a program sort only while it has no graph: the two share no
  state.
* A row of two characters wraps after one. Four rows are what LCDd reports
  (lcdcontrol:118), and with them every branch of `get_input` is taken: rows that
  scroll and rows that do not, and a row that is asked for in vain. `MaxRows` and
  `MaxTop` bound how far a text and a file are scrolled, a row and a line beyond
  where the code branches. Three menus are a menu, one below it and one below that.
* The periods of the screens are shortened in their order, some of them made
  equal. `Room` is what two drawings of the big clock append at the most, far less
  than `tmp` has. The sequences are some of those in which another screen begins
  `tmp` anew often enough (`Safe`), in front of the clock or behind it, and some of
  those in which none does: the clock alone, and beside sensors, which begin `tmp`
  only if they can be read. In these `tmp` is overrun, in the run as in the program.
* Two signals for the traced command, one that it handles and one that ends it,
  and two system calls, with and without a name. Each signal is sent once: a
  second one meets the same states.
* Symmetry is used in runs without liveness only, and not over modules where
  one name is a prefix of another.

### Fairness

* cserver: threads that are not blocked run (weak fairness). poll returns, recv
  and the futex return when there is cause to, and a NULL that is dereferenced
  ends the process. No client must ever connect, log on, send or hang up, so
  that `ShutdownCompletes` is conditional on every logon coming to an end: main
  waits for it without a timeout.
* watchdog: scripts that run go on; strong fairness of `Fork` says that fork
  does not fail every time, and strong fairness of `ModuleStopped` that
  signalled processes end at last. Nothing makes the operator do anything.
* pidwatcher: a process that has opened the device reads on and closes it.
* ptrace: the tracer and the child each run when they can; nobody must send a
  signal. `TracerEnds` begins when the tracer has left the loop at line 279, in
  which it waits for a signal of a child that may be gone.
* lcdcontrol, lcdproc and algolib: no liveness is stated.

### What the checks show

Found violated, each with a counterexample in its run:

* `cserver_bug_reinit`: the mutex is initialised in every turn of main's loop, so
  that it stops excluding; a client is lost from the list and "BUG: cannot find
  client in list." is printed.
* `watchdog_lost_record`: of two scripts that rewrite `started.conf` at once, one
  loses its change, and the module is not restarted at boot.

Further observations, which the models have and no run reports: a
module that startmodule was given anew, with arguments, and that a reboot cut off
between the emptying and the writing of its parameters is recorded, but
boot-modules' startmodule aborts on it (startmodule:155-158), although
"previously running modules" are to be started (boot-modules:38-40), and a
stopmodule of it leaves its device in use; stopmodule may kill
startmodule between fork and exec, when no process shows the module's name, and
report "Module stopped" while the command is about to run; tasks that are forked
between the count and the walk are written behind pidwatcher's snapshot; a client that
logs on with the id of another makes a thread take the other's element and free
memory that is in use (hazard `sameid`; nothing in the code or the docs says that
ids are unique); a client that connects and sends nothing keeps main, and with
it shutdown, waiting; nothing frees a client_info's `ip`, a failed logon leaves its descriptor
open and its memory allocated, and a client that hangs up leaves `recvbuf`
(`Reclaimed` says that no more is lost); two startmodules of one module can both find no lock;
the supervisor of `x-1` takes the processes of `x-10` for its own and does not
restart `x-1` (`Restarted` with the names of `Prefixed`), and stopmodule kills
them, since the pattern matches the beginning of a name;
main prints the address of a client from a structure that all threads share;
`client_limit` is parsed and never used; when an environment begins with an
empty string, pspidwatcher may print its task with the variable of another
(`LeftFor`, `PrintedAreSupervised`), or repeat the task before it, or end a shorter
name with the rest of a longer one. Of lcdcontrol: `tail_file` sets the widget of
a second line, also when the menu it was called from had one option and LCDd has
one widget (the exception in `WidgetsAsShown`); going back beyond the first menu makes the
cursor undefined, which Perl takes for 0; a file shorter than the display makes
`tail_file` read for ever (`hung`); the first character of a default is in the
second column; on a display of three rows or more, `get_input` counts `logical_row` up when
the text wraps but not down when the cursor goes back over a row that was not
scrolled, and later takes a row for one that was scrolled when it was not: the cursor
is on another row than the text, and going on to the left the text is empty, upon
which the next up or down ends the program (`TextUnderCursor` says when nothing is
lost);
a safe command whose prompt was cancelled stays in the file and
runs at the next start (the third part of `FileTellsState`). Of lcdstats: the
sensors use the screen of the vu meter, so that their own line `listen` never
comes; "ignore" makes a screen visible, as "listen" does; a `connect` that comes
after the first drawing changes the layout under the widgets (`SetsAreAdded`
excuses it); on a display of one row the vu meter and the sensors set widgets that they
never add; a drawing that finds no file system leaves the lines of the one before it
on the disk screen; lcdstats K, which the help offers, appends to `tmp` at every drawing and writes
past its end at last, since only another screen begins it anew (`Safe` says which
command lines are safe); the clock compares with an array that has no value. Of
pidwatcher-ptrace: a child that ends by itself through exit_group, as programs
do, is reported as "Not stopped?" and ends the tracer with a failure. Of the
sorts: mgsort is not stable, and qksort may call itself for the same part when
it draws its only greatest and last element (`PartsShrink`).

What holds in spite of all this is in the passing runs. `Deregistered` and
`ListIntact`, for instance, excuse only the mutex's reinitialisation and
`list_destroy`, and `FilesAgree` holds over any sequence of scripts that do not
overlap, whatever reboots interrupt them: what a reboot has left of a file of
parameters is in it (`Startable`, `left`), and nothing else disagrees.

## 4. What is proved

The proofs are for every value of the constants that satisfies the named
`ASSUME`s: sets of clients, modules, processes, openers and vertices of any size,
arrays and lists of any length. Clients, openers and list elements are finite
sets (`ClientsAssumption`, `PidWatcherAssumption`, `LinkedListAssumption`), which
descriptors and memory see to.

**Invariants.** Hardly any of the properties is inductive. The invariants that
are, and what each adds:

* `CServerProofs`: `TInv` (what was tested in an earlier step, because of which
  a cursor is followed) gives `Typing`. `LInv` ties the lock
  word to the threads - unless the mutex was reinitialised, it is not free while
  a thread is inside, and no two are - and gives `Exclusion`. `CInv` adds that
  there is *a sequence* of clients that the list represents, and of each thread
  where it stands in relation to it: not yet on it, on it, at the `k`-th element of
  its search, about to store what it loaded, about to count (`ListInv`, `At`; until it
  has counted `size` is one off), with its memory and descriptor as its place
  demands (`Roster`, `Logons`, `Holdings`). It gives `ListStaysIntact`,
  `ListTellsRoster`, `NoUseAfterFree`, `OwnerFrees` and `EndReclaims`.
* `WatchdogProofs`: `LockInv` (the script that is past the lock's test is the one
  that the lock names, unless that one is gone) gives `LockTellsSupervisor`.
  `TypeInv` adds to the types what a script has read or opened before the step it
  is at. `FilesInv` is for one script at a time, and says of that script what it
  may rely on at each of its steps (`Along`, `Temporary`), of `started.conf` that
  it has each module once, with a file of parameters that may be empty
  (`Recording`), and of the modules that the script is not about that they are in
  order (`Settled`); `Agreement` follows from it when no script is left. Reboots at
  every step are among its cases.
* `PidWatcherProofs`: `Counted` (the use count is the number of processes in the
  module's code) gives `UnloadIsSafe`; `Accounted` (the blocks that are not freed
  are those of the openers, and one at most for each failed open) gives
  `LossHasABound`; `Snapshots` says of a snapshot that is being read which records
  pspidwatcher has gone through, from whose variable the rest in its string buffer
  comes (`LeftFor`), that what is printed so far is right, in the order of the task list
  and no task twice; it gives `PrintsSupervised` and,
  with the two others, `Typing`.
* `AlgolibProofs`, graphs: `InsNextRepresents`, `RemNextRepresents`, `CannotRemoveAtTail` are
  list.c's two operations at any place of a list that represents a sequence: they
  give the list of the sequence with an element more or less, header included.
  `GraphInv` says that every list of the graph represents what a
  loop over it meets, that edges lead to vertices only and that the counters
  count. It gives `ListsStayIntact` and `ImplementsGraph`, the refinement of
  `AbstractGraph`, whose own invariant is that of `ConsistentAlways`.
  What a call does to a list is taken from the lemmas about list.c.
  Of the programs that search: `SearchInv` adds that bfs's queue and result are
  intact lists, that the gray vertices are those in the queue, nearest first, or
  those on dfs's stack, which is a path (`BfsOpen`, `DfsOpen`), and where each
  loop stands in its list; it gives `OpenOnesAreGray` and, with what a loop that
  gathers data makes of a list (`Gathers`), `SetsAreCombined`. `HopsInv`: there is
  a start such that what has a number of hops has its distance from it, that those
  as near as the first in the queue have theirs, and that the vertices that a loop
  has passed are not white (`FromStart`, `Passed`); when the queue is empty, none
  that can be reached is left, which gives `ShortestWays`. `OrderInv` says that the
  finished vertices are the list, each in front of those its edges lead to, but
  for edges that close a cycle, and that an edge of an activation that has been
  passed leads to a vertex that is not white (`OnTheWay`). An edge to a gray
  vertex leads down the stack, so that it is part of a cycle (`StackReaches`).
  This gives `TopologicalOrder`.
* `AlgolibProofs`, sorts: `QksortInv` says that in front of both inner loops of partition
  there is an element that stops them: first the pivot, later what the last swap
  has put there. It gives `ScansAreBounded` and `QksortShrinks`. `SortedInv` has
  a part for each of the sorts and gives `Sorting`. issort has the first elements in
  order and has not touched the others (`Inserting`); a pass of ctsort or rxsort
  puts an element behind those that come before it, which is a permutation
  (`Destinations`, `CountedIs`), and the order of the digits that were
  looked at goes on to the next one (`ByDigits`, `DigitOf`). For mgsort and
  qksort `Stacked` says how the calls and merges that are left lie in one another
  (`Nested`), that every pair in the wrong order lies in one of them (`Covered`), and
  if it is in a half that is merged later, in one that comes before that merge
  (`Halves`). `Merges` is what merge makes of two sorted halves, `Scanned` what a
  partition has passed, and `Rearranged` that moving elements inside one part
  makes no new pair in the wrong order outside it.
* `LcdControlProofs`: `ControlInv` adds to the types where the program can wait for
  what, and that a row has no more characters than up to the cursor; it gives
  `Typing` and is needed for the others. `WidgetsInv`: `maxopts` is the number of
  widgets at every step, and in a prompt it is the height of the display; it gives
  `WidgetsFollow`. `FileInv` says what the variables have before the file has it,
  and at which steps the two agree; a safe command without a prompt is in the
  variables only while it runs. It gives `FileTells`. `HistoryInv`: while a command
  waits or runs, the history has one entry more than leads to the menu. A push of
  `selected` in a menu lengthens the way by that option (`LeadsAway`), and _cancel
  goes back to the menu before, if the configuration is one whose _cancels do
  (`CancelsBack`, `LeadsBack`). It gives `HistoryLeads`; `CancelsBack` is a hypothesis,
  and the run's configuration is checked to satisfy it. `TextInv` has two parts.
  `Placed`: the rows that `logical_row` counts too many (`NotCounted`) are at most
  those between the first two and the last one of the display, since a row that was
  scrolled is always there to go back to; while there are none, the cursor is on its
  row. `Exact`: unless a row was asked for in vain, the length of the text in the row
  is the column of the cursor, less one in the first row of a default, and the rows
  above are full. `FurtherPlaced`, `NearerPlaced`, `FurtherExact` and `NearerExact`
  keep them, and give `CursorOnText` for a display of any size.
* `LcdStatsProofs`: `StatsInv` says (`Good`) that of a screen that was drawn LCDd has
  what is added for the height of that time, that what was rejected in the last
  turn is of screens that were drawn for another height, that up to the line
  "connect" there is none of another height, and that the lines of the disk screen
  are those of its file systems. Every screen sets only what it adds for the same
  height (`SetsOfScreens`); each way to draw one keeps `Good` (`UpdateScreenIs`), and
  so do all drawings of a turn, one after the other (`DrawModesAre`). It gives
  `WidgetsAreThere`, `FrameOfDisks`, `Typing` and, with the assumption that periods are
  positive, `DrawnInTime`. `TmpInv` compares the commands in `tmp` with the turns since a screen that begins `tmp`
  (`Begins`) was drawn last (`Lasted`): they are no more than six for each drawing of
  the clock there was time for since then (`Fits`), and a turn keeps this, in
  whichever order the two stand in the command line (`LastedStep`). It gives
  `TmpHasRoom`; the command lines that are not `Safe` are named in the property.
* `PtraceProofs`: `TypeInv` adds that the tracer acts on a stop of the kind it waits for
  and gives `Typing`. `StepInv` says of each of the seven waits what the child may be
  doing meanwhile (`AsAwaited`): between the entry into execve and its return,
  for instance, that a SIGTRAP is on its way just when execve has succeeded
  (`ToExec`), and where an entry is waited for, that the child is in a call without
  a name or in none (`ToEntry`). Of the other program it says that nothing but the
  signals of the handshake and of execve stops the child before another signal
  has come (`Undisturbed`). It gives `StaysInStep`. `KeepsSignals` rests on
  `OwnStops`: what the tracer swallows is never a signal from elsewhere. Both
  theorems leave out SIGTRAP, SIGSTOP and SIGUSR1 from elsewhere
  (`PtraceAssumption`), which the tracer takes for its own stop, or for that of the
  handshake or of attaching; TLC finds both properties violated with SIGTRAP.

**Induction over data.** The provers cannot be given an induction theorem, which
takes an operator. Where an induction over numbers is needed (the turns of a
loop over a list, the lines of `started.conf` without a module, the elements that
merge has taken), the proof takes the least number at which the statement fails;
`Least` has that there is one, and from it an induction over the members of a set
(`UpTheNumbers`). That a recursively defined function is a function at all is
proved by giving it (`LinkedList!Met` by `Meets`, `Watchdog!Without` by
`KeptExists`) or from `RecursionExists` (`Sorts!Power`, `Sorts!Ipos`,
`LinkedList!Gathered`, `GraphSearch!Within`, `LcdControl!Typed`,
`LcdStats!DrawModes`).

Only model-checked: liveness (`Deregistered`, `ShutdownCompletes`, `Restarted`,
`StopEnds`, `BootRestarts`, `Closes`, `TracerEnds`), for the provers have no rule for
fairness and `ENABLED`. Every other property of a passing run is a theorem, three
of them under a hypothesis: `InStep` and `SignalsKept` of commands that nobody
sends SIGTRAP, SIGSTOP or SIGUSR1, and `HistoryLeadsBack` of configurations whose
_cancels lead back. Each hypothesis holds in the run that checks the property.

## 5. What is not modelled

`PROJECT.json` lists every component and says why. In the modelled ones: the
contents of messages and most of configuration; the address structure that
cserver's threads share; the other functions of `utils.pm`; a device file used by
two modules at once; the bytes behind a record of pidwatcher (environments are
taken to fit) and the use of the processor; the memory of algolib's graphs (who
owns the data, what a failed insertion leaks); how lcdcontrol parses its menus
and the keypad's configuration, chooses among alternative options and substitutes
variables, and the network settings it reads and writes; the figures on the
screens of lcdstats and the screens that no command line can select (battery,
load, histogram, credits); the other experiments beside pidwatcher-ptrace.

## 6. Plan

Order, most important first; what is done is in the past.

1. `CServer` with its proofs, `Watchdog`, `LinkedList`/`Graph`/`GraphSearch`
   with the refinement of `AbstractGraph`, `PidWatcher`: done.
2. `LcdControl`, `LcdStats`, `Ptrace`, `Sorts` and the sets of `LinkedList`: done.
3. Proofs: all invariants and action properties of the runs, and the refinement
   of `AbstractGraph`: done. What is left is the lifting of `CancelsBack`: that the
   menus the parser builds satisfy it.
4. `FastWebD` (children, SIGCHLD, the select loop), `Logem` (one buffer and a busy
   flag), tdune's terrain, ipallow's verdict, utils.pm's device files.
5. Composition: `Watchdog` over what `PidWatcher` prints, in place of the exact
   list of processes that it assumes now.

When new components need runs, the violation runs whose findings are recorded
give way first.
