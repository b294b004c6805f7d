------------------------------ MODULE CServer ------------------------------
(***************************************************************************)
(* The chat server cserver: the main thread that accepts connections and   *)
(* logs clients on, one thread per logged-on client, the unsynchronised    *)
(* linked list of clients they share, the mutex that is to protect it, and *)
(* shutdown on a signal.                                                   *)
(*                                                                         *)
(* A client c owns three things that are named after it: its thread, the   *)
(* client_info that main allocates for it and the list element that its    *)
(* thread allocates for that client_info.  list_ins_next and list_rem_next *)
(* are split where they load and where they store the list's fields, since *)
(* nothing but the mutex keeps two threads from doing so at once; size++   *)
(* and size-- at their ends are a load and a store of their own.           *)
(***************************************************************************)
EXTENDS Naturals, FiniteSets

CONSTANTS Client,    \* the clients that may connect, each at most once
          Id,        \* the identifiers a client may send when it logs on
          MAIN,      \* the main thread
          NULL,      \* the null pointer
          Word,      \* size is unsigned and counts modulo Word
          CallsFail  \* whether malloc, pthread_create and sendto may fail

ASSUME CServerAssumption ==
    /\ MAIN \notin Client
    /\ NULL \notin Client
    /\ NULL \notin Id
    /\ CallsFail \in BOOLEAN

\* The number of descriptors is limited, and far below what size can count.
ASSUME ClientsAssumption == IsFiniteSet(Client)
ASSUME WordAssumption == Word \in Nat /\ Cardinality(Client) < Word

VARIABLES
    process,  \* "up", "exited" or "crashed"
    running,  \* global.running = CSERVER_RUNNING
    peer,     \* the remote end of each connection
    fd,       \* cinfo->descriptor: "none", "open" or "closed"
    id,       \* cinfo->id
    logging,  \* the client main is logging on, or NULL
    pc,       \* where each thread is
    mutex,    \* the lock word: "free", "held" or "contended"
    waiting,  \* what a thread does at the mutex: "no", "parked" or "woken"
    head, tail, size,  \* _list
    next,     \* _element.next
    heap,     \* the allocated blocks, each with the client it is for
    reg,      \* the locals of list_ins_next, list_rem_next and the search
    hazard    \* history: what has gone wrong so far

env   == <<peer, fd, id, logging>>
lock  == <<mutex, waiting>>
list  == <<head, tail, size, next>>
vars  == <<process, running, env, pc, lock, list, heap, reg, hazard>>

Proc == Client \cup {MAIN}
Ptr  == Client \cup {NULL}
Size == 0 .. Word - 1

Elements == {"cell"} \X Client

\* Also the client_info, its ip, the buffers of the logon and of the thread,
\* and the thread's arguments.
Blocks == {"cell", "info", "ip", "commbuf", "recvbuf", "args"} \X Client

\* The steps of tcp_client_process between pthread_mutex_lock and _unlock.
Critical == {"insLoad", "insStore", "insSize", "insCount", "insUnlock", "find", "walk",
             "remLoad", "remStore", "remSize", "remCount", "remUnlock"}

\* Those of list_rem_next, which list_destroy calls, too.
Removal == {"remLoad", "remStore", "remSize", "remCount"}

ThreadPC == {"none", "insLock", "loop", "recv", "reply", "close", "remLock", "done"}
                \cup Critical
MainPC   == {"check", "poll", "logon", "done"} \cup Removal

Hazards == {"reinit",   \* the mutex was initialised while it was in use
            "sameid",   \* a client logged on with the id of a live one
            "destroy",  \* main began to destroy the list
            "nomem"}    \* a client could not be put on the list

NoReg == [element |-> NULL, sel |-> NULL, old |-> NULL, after |-> NULL, size |-> 0]

TypeOK ==
    /\ process \in {"up", "exited", "crashed"}
    /\ running \in BOOLEAN
    /\ peer \in [Client -> {"away", "pending", "online", "gone"}]
    /\ fd \in [Client -> {"none", "open", "closed"}]
    /\ id \in [Client -> Id \cup {NULL}]
    /\ logging \in Ptr
    /\ pc \in [Proc -> ThreadPC \cup MainPC]
    /\ mutex \in {"free", "held", "contended"}
    /\ waiting \in [Client -> {"no", "parked", "woken"}]
    /\ head \in Ptr /\ tail \in Ptr /\ size \in Size
    /\ next \in [Client -> Ptr]
    /\ heap \subseteq Blocks
    /\ reg \in [Proc -> [element : Ptr, sel : Ptr, old : Ptr, after : Ptr, size : Size]]
    /\ hazard \subseteq Hazards

Init ==
    /\ process = "up" /\ running = TRUE
    /\ peer = [c \in Client |-> "away"]
    /\ fd = [c \in Client |-> "none"]
    /\ id = [c \in Client |-> NULL]
    /\ logging = NULL
    /\ pc = [p \in Proc |-> IF p = MAIN THEN "check" ELSE "none"]
    /\ mutex = "free" /\ waiting = [c \in Client |-> "no"]
    /\ head = NULL /\ tail = NULL /\ size = 0
    /\ next = [c \in Client |-> NULL]
    /\ heap = {} /\ hazard = {}
    /\ reg = [p \in Proc |-> NoReg]

Goto(p, label) == pc' = [pc EXCEPT ![p] = label]

-----------------------------------------------------------------------------
(* The remote clients and the operator.                                    *)

Connect(c) ==
    /\ peer[c] = "away"
    /\ pc[MAIN] \in {"check", "poll", "logon"}   \* the listener is open
    /\ peer' = [peer EXCEPT ![c] = "pending"]
    /\ UNCHANGED <<process, running, fd, id, logging, pc, lock, list, heap, reg, hazard>>

HangUp(c) ==
    /\ peer[c] \in {"pending", "online"}
    /\ fd[c] # "closed"   \* afterwards the server sees nothing of it
    /\ peer' = [peer EXCEPT ![c] = "gone"]
    /\ UNCHANGED <<process, running, fd, id, logging, pc, lock, list, heap, reg, hazard>>

\* SIGINT or SIGTERM.
SigDie ==
    /\ running
    /\ running' = FALSE
    /\ UNCHANGED <<process, env, pc, lock, list, heap, reg, hazard>>

-----------------------------------------------------------------------------
(* The main thread.                                                        *)

GoOnForever == TRUE  \* mutant: the loop test is missing
GoOn == running

\* The loop test of main, then pthread_mutex_init in tcp_server_process: it
\* makes the lock word free whoever holds it, and forgets who waits.
InitMutex ==
    /\ pc[MAIN] = "check" /\ GoOn
    /\ mutex' = "free"
    /\ hazard' = hazard \cup IF mutex = "free" THEN {} ELSE {"reinit"}
    /\ Goto(MAIN, "poll")
    /\ UNCHANGED <<process, running, env, waiting, list, heap, reg>>

\* Nothing to accept within the timeout, a signal, or accept failed.
PollFails ==
    /\ pc[MAIN] = "poll"
    /\ Goto(MAIN, "check")
    /\ UNCHANGED <<process, running, env, lock, list, heap, reg, hazard>>

InBacklog(c) == fd[c] = "none" /\ peer[c] \in {"pending", "gone"}

\* Main accepts c and allocates what the logon needs, one block after the
\* other.  If there is no memory it returns and drops what it has.
Accept(c) ==
    /\ pc[MAIN] = "poll" /\ InBacklog(c)
    /\ fd' = [fd EXCEPT ![c] = "open"]
    /\ peer' = [peer EXCEPT ![c] = IF @ = "pending" THEN "online" ELSE @]
    /\ \/ /\ logging' = c /\ Goto(MAIN, "logon")
          /\ heap' = heap \cup {"info", "ip", "commbuf"} \X {c}
       \/ /\ CallsFail
          /\ logging' = NULL /\ Goto(MAIN, "check")
          /\ \E got \in {{}, {"info"}, {"info", "ip"}} : heap' = heap \cup got \X {c}
    /\ UNCHANGED <<process, running, id, lock, list, reg, hazard>>

\* The clients that have a client_info with their id.
LiveClients == {c \in Client : <<"info", c>> \in heap /\ id[c] # NULL}

KeepBuffer(h) == h  \* mutant: tcp_client_logon returns without free(commbuf)
DropBuffer(h) == h \ {<<"commbuf", logging>>}

\* tcp_client_logon got the client's id and answered; its thread is created.
\* A client that has hung up may have sent its id before.
LogonOK ==
    /\ pc[MAIN] = "logon"
    /\ \E i \in Id :
          /\ id' = [id EXCEPT ![logging] = i]
          /\ hazard' = hazard \cup IF \E c \in LiveClients : id[c] = i
                                   THEN {"sameid"} ELSE {}
    /\ pc' = [pc EXCEPT ![MAIN] = "check", ![logging] = "insLock"]
    /\ logging' = NULL
    /\ heap' = DropBuffer(heap) \cup {<<"args", logging>>}
    /\ UNCHANGED <<process, running, peer, fd, lock, list, reg>>

\* The client hung up or the answer could not be sent, so that commbuf is
\* not freed; or there is no memory for the thread's arguments; or
\* pthread_create failed.  The descriptor stays open, what was allocated
\* stays so, and nothing refers to it any more.
LogonFails ==
    /\ pc[MAIN] = "logon"
    /\ \/ (CallsFail \/ peer[logging] = "gone") /\ UNCHANGED heap
       \/ CallsFail /\ heap' = DropBuffer(heap)
       \/ CallsFail /\ heap' = DropBuffer(heap) \cup {<<"args", logging>>}
    /\ logging' = NULL
    /\ Goto(MAIN, "check")
    /\ UNCHANGED <<process, running, peer, fd, id, lock, list, reg, hazard>>

\* tcp_server_shutdown, and into list_destroy.
Shutdown ==
    /\ pc[MAIN] = "check" /\ ~running
    /\ hazard' = hazard \cup {"destroy"}
    /\ Goto(MAIN, "remLoad")
    /\ UNCHANGED <<process, running, env, lock, list, heap, reg>>

\* list_destroy is done and main returns, which ends every thread.
Exit ==
    /\ pc[MAIN] = "remLoad" /\ size = 0
    /\ Goto(MAIN, "done")
    /\ process' = "exited"
    /\ UNCHANGED <<running, env, lock, list, heap, reg, hazard>>

-----------------------------------------------------------------------------
(* The mutex (pthread_mutex_lock and pthread_mutex_unlock).                *)

AfterLock == [insLock |-> "insLoad", remLock |-> "find"]

FreeToInsert(t) == mutex = "free" \/ pc[t] = "insLock"  \* mutant: no lock around the insertion
IsFree(t) == mutex = "free"

Acquire(t) ==
    /\ pc[t] \in {"insLock", "remLock"} /\ waiting[t] # "parked"
    /\ IsFree(t)
    /\ mutex' = IF waiting[t] = "woken" THEN "contended" ELSE "held"
    /\ waiting' = [waiting EXCEPT ![t] = "no"]
    /\ Goto(t, AfterLock[pc[t]])
    /\ UNCHANGED <<process, running, env, list, heap, reg, hazard>>

Park(t) ==
    /\ pc[t] \in {"insLock", "remLock"} /\ waiting[t] # "parked"
    /\ mutex # "free"
    /\ mutex' = "contended"
    /\ waiting' = [waiting EXCEPT ![t] = "parked"]
    /\ UNCHANGED <<process, running, env, pc, list, heap, reg, hazard>>

Parked == {c \in Client : waiting[c] = "parked"}

Wake == IF mutex = "contended" /\ Parked # {}
        THEN \E c \in Parked : waiting' = [waiting EXCEPT ![c] = "woken"]
        ELSE UNCHANGED waiting

\* mutant: the unlock after list_ins_next is missing
ReleaseAtEnd(t) == IF pc[t] = "insUnlock" THEN UNCHANGED lock ELSE mutex' = "free" /\ Wake
Release(t) == mutex' = "free" /\ Wake

\* After the second unlock the thread frees its arguments and ends.
Unlock(t) ==
    /\ \/ pc[t] = "insUnlock" /\ Goto(t, "loop") /\ UNCHANGED heap
       \/ pc[t] = "remUnlock" /\ Goto(t, "done") /\ heap' = heap \ {<<"args", t>>}
    /\ Release(t)
    /\ reg' = [reg EXCEPT ![t] = NoReg]   \* the locals are out of scope
    /\ UNCHANGED <<process, running, env, list, hazard>>

-----------------------------------------------------------------------------
(* list_ins_next(clients, NULL, cinfo): the new element becomes the head.  *)

InsLoad(t) ==
    /\ pc[t] = "insLoad"
    /\ heap' = heap \cup {<<"cell", t>>}
    /\ next' = [next EXCEPT ![t] = head]
    /\ tail' = IF size = 0 THEN t ELSE tail
    /\ Goto(t, "insStore")
    /\ UNCHANGED <<process, running, env, lock, head, size, reg, hazard>>

\* malloc failed; the caller does not look at the result.
InsNoMemory(t) ==
    /\ pc[t] = "insLoad" /\ CallsFail
    /\ hazard' = hazard \cup {"nomem"}
    /\ Goto(t, "insUnlock")
    /\ UNCHANGED <<process, running, env, lock, list, heap, reg>>

InsStore(t) ==
    /\ pc[t] = "insStore"
    /\ head' = t
    /\ Goto(t, "insSize")
    /\ UNCHANGED <<process, running, env, lock, tail, size, next, heap, reg, hazard>>

\* list->size++
InsSize(t) ==
    /\ pc[t] = "insSize"
    /\ reg' = [reg EXCEPT ![t].size = size]
    /\ Goto(t, "insCount")
    /\ UNCHANGED <<process, running, env, lock, list, heap, hazard>>

Up(s) == IF s = Word - 1 THEN 0 ELSE s + 1

InsCount(t) ==
    /\ pc[t] = "insCount"
    /\ size' = Up(reg[t].size)
    /\ Goto(t, "insUnlock")
    /\ reg' = [reg EXCEPT ![t] = NoReg]
    /\ UNCHANGED <<process, running, env, lock, head, tail, next, heap, hazard>>

-----------------------------------------------------------------------------
(* The thread's loop: receive a message, send it back prefixed with the id. *)

Loop(t) ==
    /\ pc[t] = "loop"
    /\ \/ running /\ Goto(t, "recv") /\ heap' = heap \cup {<<"recvbuf", t>>}
       \/ (~running \/ CallsFail) /\ Goto(t, "close") /\ UNCHANGED heap
    /\ UNCHANGED <<process, running, env, lock, list, reg, hazard>>

Receive(t) ==
    /\ pc[t] = "recv" /\ peer[t] = "online"
    /\ Goto(t, "reply")
    /\ UNCHANGED <<process, running, env, lock, list, heap, reg, hazard>>

\* recvbuf is not freed.
ReceiveFails(t) ==
    /\ pc[t] = "recv"
    /\ CallsFail \/ peer[t] = "gone"
    /\ Goto(t, "close")
    /\ UNCHANGED <<process, running, env, lock, list, heap, reg, hazard>>

\* recvbuf is freed once the reply is made, and not if there is no memory to
\* make it in.
Reply(t) ==
    /\ pc[t] = "reply"
    /\ \/ Goto(t, "loop") /\ heap' = heap \ {<<"recvbuf", t>>}
       \/ /\ CallsFail \/ peer[t] = "gone"
          /\ Goto(t, "close") /\ heap' = heap \ {<<"recvbuf", t>>}
       \/ CallsFail /\ Goto(t, "close") /\ UNCHANGED heap
    /\ UNCHANGED <<process, running, env, lock, list, reg, hazard>>

Close(t) ==
    /\ pc[t] = "close"
    /\ fd' = [fd EXCEPT ![t] = "closed"]
    /\ Goto(t, "remLock")
    /\ UNCHANGED <<process, running, peer, id, logging, lock, list, heap, reg, hazard>>

-----------------------------------------------------------------------------
(* client_find_next_client_id: the element before the first with the id.   *)

AnyId(c, t) == {TRUE}  \* mutant: the ids are not compared

\* Whether the element of c carries the id t looks for.  Memory that was
\* freed may hold any id.
SameId(c, t) ==
    IF {<<"info", c>>, <<"info", t>>} \subseteq heap THEN {id[c] = id[t]} ELSE BOOLEAN

StaleElement == head  \* mutant: *element = NULL is missing
BeforeHead == NULL

\* Not found: "BUG: cannot find client in list."
Find(t) ==
    /\ pc[t] = "find"
    /\ \/ size = 0 /\ Goto(t, "remUnlock") /\ UNCHANGED reg
       \/ /\ size # 0 /\ head # NULL
          /\ \E same \in SameId(head, t) :
                /\ Goto(t, IF same THEN "remLoad" ELSE "walk")
                /\ reg' = [reg EXCEPT ![t].element = BeforeHead, ![t].sel = head]
    /\ UNCHANGED <<process, running, env, lock, list, heap, hazard>>

Following(t) == next[reg[t].sel]
Forgotten(t) == reg[t].element    \* mutant: *element = selement is missing
Passed(t) == reg[t].sel

Walk(t) ==
    LET sel == reg[t].sel IN
    /\ pc[t] = "walk"
    /\ \/ next[sel] = NULL /\ Goto(t, "remUnlock") /\ UNCHANGED reg
       \/ /\ next[sel] # NULL
          /\ \E same \in SameId(Following(t), t) :
                /\ Goto(t, IF same THEN "remLoad" ELSE "walk")
                /\ reg' = [reg EXCEPT ![t].element = Passed(t), ![t].sel = next[sel]]
    /\ UNCHANGED <<process, running, env, lock, list, heap, hazard>>

-----------------------------------------------------------------------------
(* list_rem_next(list, element, data): by a thread with the element before *)
(* its client's, by list_destroy with NULL.                                *)

Old(p) == IF reg[p].element = NULL THEN head ELSE next[reg[p].element]

RemLoad(p) ==
    /\ pc[p] = "remLoad" /\ size # 0 /\ Old(p) # NULL
    /\ reg' = [reg EXCEPT ![p].sel = NULL, ![p].old = Old(p), ![p].after = next[Old(p)]]
    /\ Goto(p, "remStore")
    /\ UNCHANGED <<process, running, env, lock, list, heap, hazard>>

\* list_rem_next returned -1: "BUG: Cannot remove client from list."  The
\* client_info is freed and its element stays where it is.
RemFails(t) ==
    /\ pc[t] = "remLoad"
    /\ size = 0 \/ (reg[t].element # NULL /\ Old(t) = NULL)
    /\ heap' = heap \ {<<"info", t>>}
    /\ Goto(t, "remUnlock")
    /\ UNCHANGED <<process, running, env, lock, list, reg, hazard>>

TailLeft(r) == IF size = 1 THEN NULL ELSE tail  \* mutant: only the head case
TailAfter(r) ==
    IF r.element = NULL THEN IF size = 1 THEN NULL ELSE tail
                        ELSE IF r.after = NULL THEN r.element ELSE tail

\* The stores, with the second test of the size, and the free of the element.
RemStore(p) ==
    LET r == reg[p] IN
    /\ pc[p] = "remStore"
    /\ IF r.element = NULL
       THEN head' = r.after /\ UNCHANGED next
       ELSE next' = [next EXCEPT ![r.element] = r.after] /\ UNCHANGED head
    /\ tail' = TailAfter(r)
    /\ heap' = heap \ {<<"cell", r.old>>}
    /\ reg' = [reg EXCEPT ![p] = [NoReg EXCEPT !.old = r.old]]
    /\ Goto(p, "remSize")
    /\ UNCHANGED <<process, running, env, lock, size, hazard>>

\* list->size--
RemSize(p) ==
    /\ pc[p] = "remSize"
    /\ reg' = [reg EXCEPT ![p].size = size]
    /\ Goto(p, "remCount")
    /\ UNCHANGED <<process, running, env, lock, list, heap, hazard>>

DownSigned(s) == s - 1  \* mutant: size is signed
Down(s) == IF s = 0 THEN Word - 1 ELSE s - 1

\* The caller frees the data that list_rem_next returned, but not its ip.
RemCount(p) ==
    /\ pc[p] = "remCount"
    /\ size' = Down(reg[p].size)
    /\ heap' = heap \ {<<"info", reg[p].old>>}
    /\ Goto(p, IF p = MAIN THEN "remLoad" ELSE "remUnlock")
    /\ reg' = [reg EXCEPT ![p] = NoReg]   \* the locals are out of scope
    /\ UNCHANGED <<process, running, env, lock, head, tail, next, hazard>>

-----------------------------------------------------------------------------
(* Memory.                                                                 *)

\* The elements and client_infos that the next step of p reads, writes or
\* frees.  The other blocks are reached by the thread alone whose locals
\* point to them.
Touches(p) ==
    LET r == reg[p]
        own == IF pc[p] \in {"recv", "reply", "close", "find"} THEN {<<"info", p>>} ELSE {}
    IN own \cup
       CASE pc[p] = "find" /\ size # 0 -> {<<"cell", head>>, <<"info", head>>}
         [] pc[p] = "walk" -> {<<"cell", r.sel>>} \cup
                IF next[r.sel] = NULL THEN {}
                ELSE {<<"cell", next[r.sel]>>, <<"info", next[r.sel]>>}
         [] pc[p] = "remLoad" /\ size # 0 /\ r.element = NULL -> {<<"cell", head>>}
         [] pc[p] = "remLoad" /\ size # 0 /\ r.element # NULL ->
                {<<"cell", r.element>>} \cup
                IF Old(p) = NULL THEN {<<"info", p>>} ELSE {<<"cell", Old(p)>>}
         [] pc[p] = "remLoad" /\ size = 0 /\ p # MAIN -> {<<"info", p>>}
         [] pc[p] = "remStore" -> {<<"cell", r.old>>} \cup
                IF r.element = NULL THEN {} ELSE {<<"cell", r.element>>}
         [] pc[p] = "remCount" -> {<<"info", r.old>>}
         [] OTHER -> {}

WildAccess(p) == ~(Touches(p) \subseteq heap)

\* A use of a null pointer or of freed memory, or a second free, may end the
\* process.  If it does not, the step itself goes on with what it finds.
Crash ==
    /\ \E p \in Proc : WildAccess(p)
    /\ process' = "crashed"
    /\ UNCHANGED <<running, env, pc, lock, list, heap, reg, hazard>>

-----------------------------------------------------------------------------

\* list_rem_next
Remove(p) == RemLoad(p) \/ RemStore(p) \/ RemSize(p) \/ RemCount(p)

Main == InitMutex \/ PollFails \/ (\E c \in Client : Accept(c))
           \/ LogonOK \/ LogonFails \/ Shutdown \/ Exit \/ Remove(MAIN)

\* What a thread does without waiting for its client.
Work(t) == \/ Acquire(t) \/ Park(t) \/ Unlock(t)
           \/ InsLoad(t) \/ InsStore(t) \/ InsSize(t) \/ InsCount(t)
           \/ Loop(t) \/ Reply(t) \/ Close(t)
           \/ Find(t) \/ Walk(t) \/ Remove(t) \/ RemFails(t)

Thread(t) == Work(t) \/ InsNoMemory(t) \/ Receive(t) \/ ReceiveFails(t)

Step ==
    /\ process = "up"
    /\ \/ \E c \in Client : Connect(c) \/ HangUp(c)
       \/ SigDie
       \/ Main
       \/ \E t \in Client : Thread(t)
       \/ Crash

\* The process has ended.
Ended == process # "up" /\ UNCHANGED vars

Next == Step \/ Ended

Spec == Init /\ [][Next]_vars

(***************************************************************************)
(* The scheduler runs every thread that is not blocked: main while it does *)
(* not wait for a client's logon, a client's thread while it does not wait *)
(* for a message.  poll, recv and the futex return when there is cause to, *)
(* and a null pointer that is followed ends the process.                   *)
(* Nothing makes a client connect, log on, send or hang up.                *)
(***************************************************************************)
Alive(A) == process = "up" /\ A

Fairness ==
    /\ WF_vars(Alive(InitMutex \/ PollFails \/ Shutdown \/ Exit \/ Remove(MAIN)))
    /\ WF_vars(Alive(LogonFails /\ peer[logging] = "gone"))
    /\ WF_vars(Alive(Crash /\ \E p \in Proc : <<"cell", NULL>> \in Touches(p)))
    /\ \A t \in Client :
          /\ WF_vars(Alive(Work(t)))
          /\ WF_vars(Alive(ReceiveFails(t) /\ peer[t] = "gone"))

FairSpec == Spec /\ Fairness

-----------------------------------------------------------------------------
(* Properties.                                                             *)

InCritical(t) == pc[t] \in Critical

\* Unless the mutex was initialised while it was in use, at most one client
\* thread is between pthread_mutex_lock and pthread_mutex_unlock.
MutualExclusion ==
    "reinit" \notin hazard =>
        \A s, t \in Client : InCritical(s) /\ InCritical(t) => s = t

\* The n-th element of the list, NULL beyond its end.
Nth[n \in 1 .. Cardinality(Client) + 1] ==
    IF n = 1 THEN head ELSE IF Nth[n - 1] = NULL THEN NULL ELSE next[Nth[n - 1]]

OnList == {Nth[n] : n \in DOMAIN Nth} \ {NULL}

\* Nobody is between the loads and the stores of a list operation.
Settled == \A p \in Proc : pc[p] \notin {"insStore", "insSize", "insCount",
                                          "remStore", "remSize", "remCount"}

\* While the mutex protects it, the list has no cycle, holds exactly the
\* allocated elements, and its size and tail agree with them: no insertion or
\* removal of list.c is lost or half done.
ListIntact ==
    hazard \cap {"reinit", "destroy"} = {} /\ Settled =>
        /\ Nth[Cardinality(Client) + 1] = NULL
        /\ {<<"cell", c>> : c \in OnList} = heap \cap Elements
        /\ size = Cardinality(OnList)
        /\ IF size = 0 THEN tail = NULL ELSE tail \in OnList /\ next[tail] = NULL

\* The threads that have put their client on the list and not yet removed it.
Registered == {t \in Client : pc[t] \in {"insUnlock", "loop", "recv", "reply", "close",
                                         "remLock", "find", "walk", "remLoad"}}

\* A thread is about to print "BUG: cannot find client in list." (tcp.c:205).
CannotFind(t) == \/ pc[t] = "find" /\ size = 0
                 \/ pc[t] = "walk" /\ next[reg[t].sel] = NULL

\* ... or "BUG: Cannot remove client from list." (tcp.c:208).
CannotRemove(t) == pc[t] = "remLoad" /\ (size = 0 \/ Old(t) = NULL)

\* The two messages are never printed, as their wording promises.
NoBugMessage == \A t \in Client : ~CannotFind(t) /\ ~CannotRemove(t)

\* While the mutex works, no two live clients have one id, every element could
\* be allocated and the list is not being destroyed, the list holds the clients
\* that have a thread to serve them: nobody is missing and nobody is left
\* behind; and so neither message is printed.
ListIsRoster ==
    hazard = {} => (Settled => OnList = Registered) /\ NoBugMessage

\* With the same reservations, but also when an element could not be
\* allocated, no thread follows a null pointer, uses freed memory or frees
\* twice.
NoWildAccess == hazard \subseteq {"nomem"} => \A p \in Proc : ~WildAccess(p)

\* Under the same conditions a client_info is freed only by the thread that
\* uses it, as its last step on the list.
FreedByOwner ==
    [][hazard' \subseteq {"nomem"} =>
         \A c \in Client : <<"info", c>> \in heap /\ <<"info", c>> \notin heap'
                              => pc[c] = "remCount" /\ pc'[c] = "remUnlock"]_vars

\* The kinds of blocks that are still allocated for c.
Left(c) == {b[1] : b \in {x \in heap : x[2] = c}}

\* Main has accepted c and dropped it.
Refused(c) == fd[c] # "none" /\ pc[c] = "none" /\ logging # c

\* What is lost for good, and when.  A thread that ends has closed its
\* descriptor and freed all its client held but ip and, if the client hung up
\* or a call failed, recvbuf.  A client is dropped with its descriptor open
\* only for these reasons, too, and with one of commbuf and args at most.
Reclaimed ==
    /\ hazard = {} => \A t \in Client : pc[t] = "done" =>
           /\ fd[t] = "closed"
           /\ Left(t) \subseteq IF CallsFail \/ peer[t] = "gone" THEN {"ip", "recvbuf"} ELSE {"ip"}
    /\ \A c \in Client : Refused(c) =>
           /\ CallsFail \/ peer[c] = "gone"
           /\ \E last \in {"commbuf", "args"} : Left(c) \subseteq {"info", "ip", last}

\* A thread whose client hangs up eventually gets through the list and ends,
\* unless the process does, or the mutex was initialised while it was in use,
\* which may leave the thread parked for ever.
Deregistered ==
    \A t \in Client :
        pc[t] = "recv" /\ peer[t] = "gone" ~>
            pc[t] = "done" \/ process # "up" \/ "reinit" \in hazard

\* After a signal the process ends, provided that every logon comes to an end.
ShutdownCompletes == ([]<>(pc[MAIN] # "logon")) => (~running ~> process # "up")
=============================================================================
