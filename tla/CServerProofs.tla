--------------------------- MODULE CServerProofs ---------------------------
(***************************************************************************)
(* Type correctness and mutual exclusion of CServer, and that the list of  *)
(* clients and the memory stay in order, for any finite set of clients and *)
(* any set of ids.                                                         *)
(***************************************************************************)
EXTENDS CServer, Least

-----------------------------------------------------------------------------
(* Type correctness.  A cursor is followed and a client is logged on on    *)
(* the strength of an earlier step, so TypeOK is not inductive.            *)

\* size can count at least to 0.
LEMMA Sizes == Word \in Nat /\ Word # 0 /\ 0 \in Size /\ Size \subseteq Nat
<1>1. Cardinality(Client) \in Nat  BY ClientsAssumption, FS_CardinalityType
<1> QED  BY <1>1, WordAssumption DEF Size

\* size++ and size-- stay within the word.
LEMMA Counts == \A s \in Size : Up(s) \in Size /\ Down(s) \in Size
BY Sizes DEF Up, Down, Size

LocalsOK ==
    /\ \A p \in Proc : pc[p] = "walk" => reg[p].sel # NULL
    /\ pc[MAIN] = "logon" => logging \in Client

TInv == TypeOK /\ LocalsOK

\* The initial state has the types, and no thread is inside an operation.
LEMMA InitTyped == Init => TInv
  BY Sizes DEF Init, TInv, TypeOK, LocalsOK, NoReg, Proc, Ptr, ThreadPC, MainPC

\* Every step keeps the types and what the locals were tested for.
LEMMA StepTyped == TInv /\ [Next]_vars => TInv'
<1> SUFFICES ASSUME TInv, [Next]_vars PROVE TInv'
  OBVIOUS
<1> USE CServerAssumption DEF TInv, TypeOK, LocalsOK, Proc, Ptr, Goto, ThreadPC, MainPC,
        Critical, Removal, Hazards, env, lock, list
<1>1. CASE UNCHANGED vars
  BY <1>1 DEF vars
<1>2. CASE Ended
  BY <1>2 DEF Ended, vars
<1>3. ASSUME NEW c \in Client, Connect(c) \/ HangUp(c) PROVE TInv'
  <2>1. CASE Connect(c)
    BY <2>1 DEF Connect
  <2>2. CASE HangUp(c)
    BY <2>2 DEF HangUp
  <2>3. QED
    BY <1>3, <2>1, <2>2
<1>4. CASE SigDie
  BY <1>4 DEF SigDie
<1>5. CASE InitMutex
  BY <1>5 DEF InitMutex
<1>6. CASE PollFails \/ LogonFails \/ Shutdown \/ Exit \/ Crash
  <2>1. CASE PollFails
    BY <2>1 DEF PollFails
  <2>2. CASE LogonFails
    <3>1. heap' \subseteq Blocks
      BY <2>2 DEF LogonFails, DropBuffer, Blocks
    <3> QED  BY <2>2, <3>1 DEF LogonFails
  <2>3. CASE Shutdown
    BY <2>3 DEF Shutdown
  <2>4. CASE Exit
    BY <2>4 DEF Exit
  <2>5. CASE Crash
    BY <2>5 DEF Crash
  <2>6. QED
    BY <1>6, <2>1, <2>2, <2>3, <2>4, <2>5
<1>7. ASSUME NEW c \in Client, Accept(c) PROVE TInv'
  <2>1. heap' \subseteq Blocks
    BY <1>7 DEF Accept, Blocks
  <2>2. /\ fd' = [fd EXCEPT ![c] = "open"]
        /\ peer' = [peer EXCEPT ![c] = IF @ = "pending" THEN "online" ELSE @]
        /\ \/ logging' = c /\ pc' = [pc EXCEPT ![MAIN] = "logon"]
           \/ logging' = NULL /\ pc' = [pc EXCEPT ![MAIN] = "check"]
        /\ UNCHANGED <<process, running, id, mutex, waiting, head, tail, size, next, reg, hazard>>
    BY <1>7 DEF Accept
  <2> QED  BY <2>1, <2>2
<1>8. CASE LogonOK
  <2>1. id' \in [Client -> Id \cup {NULL}]
    BY <1>8 DEF LogonOK
  <2>2. hazard' \subseteq Hazards
    BY <1>8 DEF LogonOK
  <2>3. pc' \in [Proc -> ThreadPC \cup MainPC]
    BY <1>8 DEF LogonOK
  <2>4. LocalsOK'
    BY <1>8 DEF LogonOK
  <2>5. heap' \subseteq Blocks
    BY <1>8 DEF LogonOK, DropBuffer, Blocks
  <2>6. QED
    BY <1>8, <2>1, <2>2, <2>3, <2>4, <2>5 DEF LogonOK
<1>9. ASSUME NEW t \in Client, Acquire(t) PROVE TInv'
  BY <1>9 DEF Acquire, AfterLock
<1>10. ASSUME NEW t \in Client, Park(t) \/ InsNoMemory(t) \/ Loop(t) PROVE TInv'
  <2>1. CASE Park(t)
    BY <2>1 DEF Park
  <2>2. CASE InsNoMemory(t)
    BY <2>2 DEF InsNoMemory
  <2>3. CASE Loop(t)
    BY <2>3 DEF Loop, Blocks
  <2>4. QED
    BY <1>10, <2>1, <2>2, <2>3
<1>11. ASSUME NEW t \in Client, Unlock(t) PROVE TInv'
  BY <1>11, Sizes DEF Unlock, Release, Wake, Parked, NoReg
<1>12. ASSUME NEW t \in Client, InsLoad(t) \/ InsStore(t) PROVE TInv'
  <2>1. CASE InsLoad(t)
    BY <2>1 DEF InsLoad, Blocks
  <2>2. CASE InsStore(t)
    BY <2>2 DEF InsStore
  <2>3. QED
    BY <1>12, <2>1, <2>2
<1>13. ASSUME NEW t \in Client, InsSize(t) \/ InsCount(t) PROVE TInv'
  <2>1. CASE InsSize(t)
    BY <2>1 DEF InsSize
  <2>2. CASE InsCount(t)
    <3>1. size' \in Size
      BY <2>2, Counts DEF InsCount
    <3>2. reg' \in [Proc -> [element : Ptr, sel : Ptr, old : Ptr, after : Ptr, size : Size]]
      BY <2>2, Sizes DEF InsCount, NoReg
    <3>3. QED
      BY <2>2, <3>1, <3>2 DEF InsCount
  <2>3. QED
    BY <1>13, <2>1, <2>2
<1>14. ASSUME NEW t \in Client, Receive(t) \/ ReceiveFails(t) \/ Reply(t) PROVE TInv'
  <2>1. CASE Receive(t)
    BY <2>1 DEF Receive
  <2>2. CASE ReceiveFails(t)
    BY <2>2 DEF ReceiveFails
  <2>3. CASE Reply(t)
    BY <2>3 DEF Reply
  <2>4. QED
    BY <1>14, <2>1, <2>2, <2>3
<1>15. ASSUME NEW t \in Client, Close(t) PROVE TInv'
  BY <1>15 DEF Close
<1>16. ASSUME NEW t \in Client, Find(t) PROVE TInv'
  BY <1>16, SMTT(60) DEF Find, BeforeHead
<1>17. ASSUME NEW t \in Client, Walk(t) PROVE TInv'
  BY <1>17, SMTT(60) DEF Walk, Following, Passed
<1>18. ASSUME NEW p \in Proc, RemLoad(p) PROVE TInv'
  <2>1. Old(p) \in Client /\ next[Old(p)] \in Client \cup {NULL}
    BY <1>18 DEF RemLoad, Old
  <2> HIDE DEF Old
  <2>2. QED
    BY <1>18, <2>1, SMTT(60) DEF RemLoad
<1>19. ASSUME NEW t \in Client, RemFails(t) PROVE TInv'
  BY <1>19 DEF RemFails
<1>20. ASSUME NEW p \in Proc, RemStore(p) PROVE TInv'
  <2>1. reg' \in [Proc -> [element : Ptr, sel : Ptr, old : Ptr, after : Ptr, size : Size]]
    BY <1>20, Sizes DEF RemStore, NoReg
  <2>2. QED
    BY <1>20, <2>1 DEF RemStore, TailAfter
<1>21. ASSUME NEW p \in Proc, RemSize(p) \/ RemCount(p) PROVE TInv'
  <2>1. CASE RemSize(p)
    BY <2>1 DEF RemSize
  <2>2. CASE RemCount(p)
    <3>1. size' \in Size
      BY <2>2, Counts DEF RemCount
    <3>2. reg' \in [Proc -> [element : Ptr, sel : Ptr, old : Ptr, after : Ptr, size : Size]]
      BY <2>2, Sizes DEF RemCount, NoReg
    <3>3. QED
      BY <2>2, <3>1, <3>2 DEF RemCount
  <2>3. QED
    BY <1>21, <2>1, <2>2
<1>22. QED
  BY <1>1, <1>2, <1>3, <1>4, <1>5, <1>6, <1>7, <1>8, <1>9, <1>10, <1>11, <1>12, <1>13,
     <1>14, <1>15, <1>16, <1>17, <1>18, <1>19, <1>20, <1>21
     DEF Next, Step, Main, Thread, Work, Remove

\* Every reachable state of cserver has the declared types: size, which is
\* loaded and stored in different steps (list.c:71 and 104), counts modulo the
\* word, below zero, too, when removals race.
THEOREM Typing == Spec => []TypeOK
<1>1. Init => TInv
  BY InitTyped
<1>2. TInv /\ [Next]_vars => TInv'
  BY StepTyped
<1>3. TInv => TypeOK
  BY DEF TInv
<1>4. QED
  BY <1>1, <1>2, <1>3, PTL DEF Spec

-----------------------------------------------------------------------------
(* Mutual exclusion.  The lock word has to be known to be taken while a    *)
(* thread is in its critical section; the parked and the woken threads do  *)
(* not matter.                                                             *)

LockTaken == "reinit" \notin hazard =>
                \A t \in Client : InCritical(t) => mutex # "free"

LInv == TInv /\ MutualExclusion /\ LockTaken

\* Initially nobody is in a critical section.
LEMMA InitLocked == Init => LInv
  BY InitTyped, CServerAssumption
     DEF Init, LInv, MutualExclusion, LockTaken, InCritical, Critical, Proc

\* A step that leaves the lock word alone and takes no thread into its
\* critical section preserves what is known about the lock.
LEMMA Bystander ==
  ASSUME LInv, hazard \subseteq hazard', mutex' = mutex,
         \A t \in Client : InCritical(t)' => InCritical(t)
  PROVE  (MutualExclusion /\ LockTaken)'
  BY DEF LInv, MutualExclusion, LockTaken

\* Every step keeps the lock word and the critical sections in agreement.
LEMMA StepLocked == LInv /\ [Next]_vars => LInv'
<1> SUFFICES ASSUME LInv, [Next]_vars PROVE LInv'
  OBVIOUS
<1>1. TInv'
  BY StepTyped DEF LInv
<1>2. /\ pc \in [Proc -> ThreadPC \cup MainPC] /\ Client \subseteq Proc
      /\ MAIN \in Proc /\ MAIN \notin Client
  BY CServerAssumption DEF LInv, TInv, TypeOK, Proc
<1> USE <1>2 DEF Goto, InCritical, Critical
<1>3. CASE InitMutex
  \* The lock word is taken away from a thread only by recording the hazard.
  BY <1>1, <1>3 DEF InitMutex, LInv, MutualExclusion, LockTaken
<1>4. ASSUME NEW t \in Client, Acquire(t) PROVE LInv'
  \* The lock word was free, so nobody was inside.
  BY <1>1, <1>4 DEF Acquire, IsFree, AfterLock, LInv, MutualExclusion, LockTaken
<1>5. ASSUME NEW t \in Client, Park(t) PROVE LInv'
  BY <1>1, <1>5 DEF Park, LInv, MutualExclusion, LockTaken
<1>6. ASSUME NEW t \in Client, Unlock(t) PROVE LInv'
  \* The thread that leaves was the only one inside.
  BY <1>1, <1>6 DEF Unlock, Release, LInv, MutualExclusion, LockTaken
<1>7. CASE UNCHANGED vars \/ Ended
  BY <1>1, <1>7, Bystander DEF Ended, vars, lock, LInv
<1>8. ASSUME NEW c \in Client, Connect(c) \/ HangUp(c) PROVE LInv'
  BY <1>1, <1>8, Bystander DEF Connect, HangUp, lock, LInv
<1>9. CASE SigDie \/ PollFails \/ LogonFails \/ Shutdown \/ Exit \/ Crash
  BY <1>1, <1>9, Bystander DEF SigDie, PollFails, LogonFails, Shutdown, Exit, Crash, lock, LInv
<1>10. ASSUME NEW c \in Client, Accept(c) PROVE LInv'
  BY <1>1, <1>10, Bystander DEF Accept, lock, LInv
<1>11. CASE LogonOK
  BY <1>1, <1>11, Bystander DEF LogonOK, lock, LInv
<1>12. ASSUME NEW t \in Client, InsLoad(t) \/ InsNoMemory(t) \/ InsStore(t) PROVE LInv'
  BY <1>1, <1>12, Bystander DEF InsLoad, InsNoMemory, InsStore, lock, LInv
<1>13. ASSUME NEW t \in Client, InsSize(t) \/ InsCount(t) PROVE LInv'
  BY <1>1, <1>13, Bystander DEF InsSize, InsCount, lock, LInv
<1>14. ASSUME NEW t \in Client, Loop(t) \/ Receive(t) \/ ReceiveFails(t) \/ Reply(t) \/ Close(t)
       PROVE  LInv'
  BY <1>1, <1>14, Bystander DEF Loop, Receive, ReceiveFails, Reply, Close, lock, LInv
<1>15. ASSUME NEW t \in Client, Find(t) \/ Walk(t) \/ RemFails(t) PROVE LInv'
  BY <1>1, <1>15, Bystander DEF Find, Walk, RemFails, lock, LInv
<1>16. ASSUME NEW p \in Proc, RemLoad(p) \/ RemStore(p) PROVE LInv'
  BY <1>1, <1>16, Bystander DEF RemLoad, RemStore, lock, LInv
<1>17. ASSUME NEW p \in Proc, RemSize(p) \/ RemCount(p) PROVE LInv'
  BY <1>1, <1>17, Bystander DEF RemSize, RemCount, lock, LInv
<1>18. QED
  BY <1>3, <1>4, <1>5, <1>6, <1>7, <1>8, <1>9, <1>10, <1>11, <1>12, <1>13, <1>14, <1>15,
     <1>16, <1>17
     DEF Next, Step, Main, Thread, Work, Remove

\* Until main initialises the mutex while a thread holds it, no two threads
\* are between pthread_mutex_lock and pthread_mutex_unlock (tcp.c:161-163 and
\* 201-212), with any number of clients.
THEOREM Exclusion == Spec => []MutualExclusion
<1>1. LInv => MutualExclusion
  BY DEF LInv
<1>2. QED
  BY InitLocked, StepLocked, <1>1, PTL DEF Spec

-----------------------------------------------------------------------------
(* The list.  What the properties rest on is told along the life of a      *)
(* client: who it is known by, what it holds, and where it is in the list. *)

\* A client's thread before it is on the list, and from its close on.
Before == {"none", "insLock", "insLoad", "insStore"}
Leaving == {"remLock", "find", "walk", "remLoad", "remStore", "remSize", "remCount",
            "remUnlock", "done"}
Listed == {"insStore", "insSize", "insCount", "insUnlock", "loop", "recv", "reply", "close",
           "remLock", "find", "walk", "remLoad", "remStore"}
Served == {"insLock", "insLoad", "remSize", "remCount"} \cup Listed

\* Main logs on a client that has no thread and no id yet.
Logons ==
    /\ pc[MAIN] \in MainPC
    /\ pc[MAIN] = "logon" => /\ logging \in Client /\ pc[logging] = "none"
                             /\ id[logging] = NULL /\ fd[logging] # "none"
    /\ pc[MAIN] \in {"done"} \cup Removal => "destroy" \in hazard
    /\ \A t \in Client : /\ pc[t] \in ThreadPC
                         /\ pc[t] # "none" => id[t] # NULL
                         /\ id[t] # NULL => fd[t] # "none"
                         /\ <<"info", t>> \in heap => fd[t] # "none"
                         /\ pc[t] \in Leaving => fd[t] = "closed"

\* When the buffers and the arguments are allocated, and what has happened to
\* a client that was dropped.
Keeps(t) ==
    /\ <<"cell", t>> \in heap => pc[t] \notin {"none", "insLock", "insLoad"}
    /\ <<"commbuf", t>> \in heap => pc[t] = "none" /\ fd[t] # "none"
    /\ <<"args", t>> \in heap =>
          /\ pc[t] # "done" /\ fd[t] # "none"
          /\ pc[t] = "none" => logging # t /\ <<"commbuf", t>> \notin heap
    /\ <<"recvbuf", t>> \in heap =>
          \/ pc[t] \in {"recv", "reply"}
          \/ pc[t] \in {"close"} \cup Leaving /\ (CallsFail \/ peer[t] = "gone")
    /\ Refused(t) => CallsFail \/ peer[t] = "gone"

Holdings == (pc[MAIN] # "logon" => logging = NULL) /\ \A t \in Client : Keeps(t)

\* seq is what the list of n elements is: the header, the next fields and the
\* allocated elements agree with it, and the locals of the thread at work with
\* both.  The insertion into the empty list sets tail first; size follows when
\* the element is in or out.
Counting == {"insSize", "insCount", "remSize", "remCount"}

Linked(seq, n) ==
    /\ seq \in [1 .. n -> Client]
    /\ \A j, k \in 1 .. n : seq[j] = seq[k] => j = k
    /\ head = IF n = 0 THEN NULL ELSE seq[1]
    /\ \A k \in 1 .. n : next[seq[k]] = IF k = n THEN NULL ELSE seq[k + 1]
    /\ n # 0 => tail = seq[n]
    /\ n = 0 /\ (\A t \in Client : pc[t] # "insStore") => tail = NULL
    /\ \A c \in Client : <<"cell", c>> \in heap <=>
                             pc[c] = "insStore" \/ \E k \in 1 .. n : seq[k] = c
    /\ \A t \in Client : pc[t] \in Before => \A k \in 1 .. n : seq[k] # t
    /\ (\A t \in Client : pc[t] \notin Counting) => size = n

Inserting(t, n) == next[t] = head /\ (n = 0 => tail = t)

Cursor(t, seq, k) == reg[t].element = IF k = 1 THEN NULL ELSE seq[k - 1]

At(t, seq, n) ==
    /\ pc[t] = "insStore" => Inserting(t, n)
    /\ pc[t] \in {"insSize", "insCount"} => size + 1 = n
    /\ pc[t] \in {"insCount", "remCount"} => reg[t].size = size
    /\ pc[t] = "walk" =>
          \E k \in 1 .. n :
              /\ reg[t].sel = seq[k] /\ Cursor(t, seq, k)
              /\ hazard \subseteq {"nomem"} => \A j \in 1 .. k : seq[j] # t
    /\ pc[t] \in {"remLoad", "remStore"} =>
          \E k \in 1 .. n :
              /\ Cursor(t, seq, k)
              /\ hazard \subseteq {"nomem"} => seq[k] = t
              /\ pc[t] = "remStore" => reg[t].old = seq[k] /\ reg[t].after = next[seq[k]]
    /\ pc[t] \in {"remSize", "remCount"} =>
          /\ size = n + 1
          /\ hazard \subseteq {"nomem"} => reg[t].old = t

Worked(seq, n) == \A t \in Client : At(t, seq, n)

ListInv ==
    hazard \cap {"reinit", "destroy"} = {} =>
        \E n \in Nat : \E seq \in [1 .. n -> Client] : Linked(seq, n) /\ Worked(seq, n)

\* No two live clients have the same id; a client that is served has its
\* client_info, and is on the list unless memory was short.
Roster ==
    hazard \subseteq {"nomem"} =>
        /\ \A c, d \in LiveClients : id[c] = id[d] => c = d
        /\ pc[MAIN] = "logon" => <<"info", logging>> \in heap
        /\ \A t \in Client :
              /\ pc[t] \in Served => <<"info", t>> \in heap
              /\ <<"cell", t>> \in heap => pc[t] \in Listed
              /\ hazard = {} =>
                    /\ pc[t] \in Listed => <<"cell", t>> \in heap
                    /\ pc[t] \in {"remUnlock", "done"} => <<"info", t>> \notin heap

IInv == Logons /\ Holdings /\ ListInv /\ Roster

\* Initially there are no clients and the list is empty.
LEMMA InitInv == Init => IInv
<1> SUFFICES ASSUME Init PROVE IInv  OBVIOUS
<1> USE CServerAssumption DEF Init, Proc
<1>1. Logons  BY DEF Logons, ThreadPC, MainPC, Removal, Leaving
<1>2. Roster  BY DEF Roster, LiveClients, Listed, Served
<1>3. ListInv
  <2>1. PICK n \in Nat : n = 0  OBVIOUS
  <2>2. PICK seq \in [1 .. n -> Client] : TRUE
    <3>1. 1 .. n = {}  BY <2>1
    <3>2. [k \in 1 .. n |-> head] \in [1 .. n -> Client]  BY <3>1
    <3> QED  BY <3>2
  <2>3. Linked(seq, n)  BY <2>1 DEF Linked
  <2>4. Worked(seq, n)  BY DEF Worked, At
  <2> QED  BY <2>3, <2>4 DEF ListInv
<1>4. Holdings  BY DEF Holdings, Keeps, Refused
<1> QED  BY <1>1, <1>2, <1>3, <1>4 DEF IInv

\* Every step keeps what is known of the logons and of the descriptors.
LEMMA StepLogons == TInv /\ Logons /\ [Next]_vars => Logons'
<1> SUFFICES ASSUME TInv, Logons, [Next]_vars PROVE Logons'
  OBVIOUS
<1> USE CServerAssumption DEF Logons, Leaving, MainPC, Removal, Goto, env, lock, list
<1>1. /\ pc \in [Proc -> ThreadPC \cup MainPC] /\ Client \subseteq Proc
      /\ MAIN \in Proc /\ MAIN \notin Client
      /\ fd \in [Client -> {"none", "open", "closed"}]
      /\ id \in [Client -> Id \cup {NULL}]
  BY DEF TInv, TypeOK, Proc
<1>2. CASE UNCHANGED vars \/ Ended
  BY <1>2 DEF Ended, vars
<1>3. ASSUME NEW c \in Client, Connect(c) \/ HangUp(c) PROVE Logons'
  BY <1>3 DEF Connect, HangUp
<1>4. CASE SigDie \/ Crash
  BY <1>4 DEF SigDie, Crash
<1>5. CASE InitMutex \/ PollFails \/ Shutdown \/ Exit
  BY <1>1, <1>5 DEF InitMutex, PollFails, Shutdown, Exit
<1>6. ASSUME NEW c \in Client, Accept(c) PROVE Logons'
  <2>1. /\ fd[c] = "none" /\ fd' = [fd EXCEPT ![c] = "open"] /\ id' = id
        /\ \/ logging' = c /\ pc' = [pc EXCEPT ![MAIN] = "logon"]
           \/ pc' = [pc EXCEPT ![MAIN] = "check"]
    BY <1>6 DEF Accept, InBacklog
  <2>2. \A t \in Client : pc'[t] = pc[t]  BY <1>1, <2>1
  <2>3. \A t \in Client : fd'[t] = IF t = c THEN "open" ELSE fd[t]  BY <1>1, <2>1
  <2>4. \A t \in Client : <<"info", t>> \in heap' => t = c \/ <<"info", t>> \in heap
    BY <1>6 DEF Accept
  <2>5. pc'[MAIN] \in {"logon", "check"} /\ (pc'[MAIN] = "logon" => logging' = c)
    BY <1>1, <2>1
  <2>6. id' = id /\ fd[c] = "none" /\ id[c] = NULL /\ pc[c] = "none"  BY <2>1
  <2>7. ASSUME NEW t \in Client
        PROVE  /\ pc[t] \in ThreadPC /\ (pc[t] # "none" => id[t] # NULL)
               /\ id[t] # NULL => fd[t] # "none"
               /\ <<"info", t>> \in heap => fd[t] # "none"
               /\ pc[t] \in Leaving => fd[t] = "closed"
    OBVIOUS
  <2>8. ASSUME NEW t \in Client
        PROVE  /\ pc'[t] \in ThreadPC /\ (pc'[t] # "none" => id'[t] # NULL)
               /\ id'[t] # NULL => fd'[t] # "none"
               /\ <<"info", t>> \in heap' => fd'[t] # "none"
               /\ pc'[t] \in Leaving => fd'[t] = "closed"
    <3> HIDE DEF Logons
    <3>1. pc'[t] = pc[t] /\ id'[t] = id[t]  BY <2>2, <2>6
    <3>2. CASE t = c
      <4>1. fd'[t] = "open" /\ pc[t] = "none"  BY <2>3, <2>6, <3>2
      <4> QED  BY <2>7, <3>1, <4>1
    <3>3. CASE t # c
      <4>1. fd'[t] = fd[t]  BY <2>3, <3>3
      <4>2. <<"info", t>> \in heap' => <<"info", t>> \in heap  BY <2>4, <3>3
      <4> QED  BY <2>7, <3>1, <4>1, <4>2
    <3> QED  BY <3>2, <3>3
  <2>9. pc'[MAIN] \in MainPC /\ pc'[MAIN] \notin {"done"} \cup Removal  BY <2>5
  <2>10. pc'[c] = "none" /\ id'[c] = NULL /\ fd'[c] = "open"  BY <2>2, <2>3, <2>6
  <2>11. pc'[MAIN] = "logon" => /\ logging' \in Client /\ pc'[logging'] = "none"
                                /\ id'[logging'] = NULL /\ fd'[logging'] # "none"
    BY <2>5, <2>10
  <2> QED  BY <2>8, <2>9, <2>11
<1>7. CASE LogonOK \/ LogonFails
  <2>1. \A t \in Client : <<"info", t>> \in heap' => <<"info", t>> \in heap
    BY <1>7 DEF LogonOK, LogonFails, DropBuffer
  <2>2. CASE LogonOK
    BY <1>1, <2>1, <2>2 DEF LogonOK, ThreadPC
  <2>3. CASE LogonFails
    BY <1>1, <2>1, <2>3 DEF LogonFails
  <2> QED  BY <1>7, <2>2, <2>3
<1>8. ASSUME NEW t \in Client, Acquire(t) \/ Park(t) \/ Unlock(t) PROVE Logons'
  <2>1. CASE Acquire(t) \/ Park(t)
    BY <1>1, <2>1 DEF Acquire, Park, AfterLock, ThreadPC, Critical
  <2>2. CASE Unlock(t)
    <3>1. \A c \in Client : <<"info", c>> \in heap' => <<"info", c>> \in heap
      BY <2>2 DEF Unlock
    <3> QED  BY <1>1, <2>2, <3>1 DEF Unlock, ThreadPC, Critical
  <2> QED  BY <1>8, <2>1, <2>2
<1>9. ASSUME NEW t \in Client,
             InsLoad(t) \/ InsNoMemory(t) \/ InsStore(t) \/ InsSize(t) \/ InsCount(t)
      PROVE  Logons'
  <2>1. \A c \in Client : <<"info", c>> \in heap' => <<"info", c>> \in heap
    BY <1>9 DEF InsLoad, InsNoMemory, InsStore, InsSize, InsCount
  <2>2. /\ pc[t] \in {"insLoad", "insStore", "insSize", "insCount"}
        /\ \E there \in {"insStore", "insSize", "insCount", "insUnlock"} :
               pc' = [pc EXCEPT ![t] = there]
        /\ UNCHANGED <<fd, id, logging>> /\ hazard \subseteq hazard'
    BY <1>9 DEF InsLoad, InsNoMemory, InsStore, InsSize, InsCount
  <2> QED  BY <1>1, <2>1, <2>2 DEF ThreadPC, Critical
<1>10. ASSUME NEW t \in Client, Loop(t) \/ Receive(t) \/ ReceiveFails(t) \/ Reply(t) \/ Close(t)
       PROVE  Logons'
  <2>1. \A c \in Client : <<"info", c>> \in heap' => <<"info", c>> \in heap
    BY <1>10 DEF Loop, Receive, ReceiveFails, Reply, Close
  <2>2. CASE Close(t)
    BY <1>1, <2>1, <2>2 DEF Close, ThreadPC, Critical
  <2>3. CASE ~Close(t)
    <3>1. /\ pc[t] \in {"loop", "recv", "reply"}
          /\ \E there \in {"loop", "recv", "reply", "close"} : pc' = [pc EXCEPT ![t] = there]
          /\ UNCHANGED <<fd, id, logging, hazard>>
      BY <1>10, <2>3 DEF Loop, Receive, ReceiveFails, Reply
    <3> QED  BY <1>1, <2>1, <3>1 DEF ThreadPC, Critical
  <2> QED  BY <2>2, <2>3
<1>11. ASSUME NEW t \in Client, Find(t) \/ Walk(t) PROVE Logons'
  <2>1. /\ pc[t] \in {"find", "walk"} /\ UNCHANGED <<fd, id, logging, heap, hazard>>
        /\ \E there \in {"walk", "remLoad", "remUnlock"} : pc' = [pc EXCEPT ![t] = there]
    BY <1>11 DEF Find, Walk
  <2> QED  BY <1>1, <2>1 DEF ThreadPC, Critical
<1>12. ASSUME NEW t \in Client, RemFails(t) PROVE Logons'
  <2>1. /\ pc[t] = "remLoad" /\ UNCHANGED <<fd, id, logging, hazard>>
        /\ pc' = [pc EXCEPT ![t] = "remUnlock"] /\ heap' = heap \ {<<"info", t>>}
    BY <1>12 DEF RemFails
  <2> QED  BY <1>1, <2>1 DEF ThreadPC, Critical
<1>13. ASSUME NEW p \in Proc, Remove(p) PROVE Logons'
  <2>1. /\ pc[p] \in Removal /\ UNCHANGED <<fd, id, logging, hazard>>
        /\ \E there \in Removal \cup IF p = MAIN THEN {} ELSE {"remUnlock"} :
               pc' = [pc EXCEPT ![p] = there]
    BY <1>13 DEF Remove, RemLoad, RemStore, RemSize, RemCount
  <2>2. \A c \in Client : <<"info", c>> \in heap' => <<"info", c>> \in heap
    BY <1>13 DEF Remove, RemLoad, RemStore, RemSize, RemCount
  <2>3. CASE p = MAIN
    <3>1. /\ pc'[MAIN] \in Removal /\ "destroy" \in hazard'
          /\ \A t \in Client : pc'[t] = pc[t]
      BY <1>1, <2>1, <2>3
    <3> QED  BY <2>1, <2>2, <3>1
  <2>4. CASE p \in Client
    <3>1. /\ pc'[p] \in {"remUnlock"} \cup Removal /\ pc'[MAIN] = pc[MAIN] /\ fd[p] = "closed"
          /\ \A t \in Client \ {p} : pc'[t] = pc[t]
      BY <1>1, <2>1, <2>4
    <3>2. pc[MAIN] = "logon" => logging # p  BY <2>1, <2>4
    <3> QED  BY <2>1, <2>2, <3>1, <3>2 DEF ThreadPC, Critical
  <2> QED  BY <2>3, <2>4 DEF Proc
<1> QED
  BY <1>1, <1>2, <1>3, <1>4, <1>5, <1>6, <1>7, <1>8, <1>9, <1>10, <1>11, <1>12, <1>13
     DEF Next, Step, Main, Thread, Work

\* Nothing changes for a client whose thread stays where it is.
LEMMA KeepsOn ==
    ASSUME NEW t \in Client, Keeps(t), pc'[t] = pc[t], fd'[t] = fd[t], logging' = logging,
           \A kind \in {"cell", "commbuf", "args", "recvbuf"} :
               <<kind, t>> \in heap' => <<kind, t>> \in heap,
           peer[t] = "gone" => peer'[t] = "gone"
    PROVE  Keeps(t)'
BY DEF Keeps, Refused

\* A step of a client's thread leaves the other threads where they are ...
LEMMA OthersStay ==
    ASSUME NEW t \in Client, Thread(t), Client \subseteq Proc, MAIN \in Proc, MAIN \notin Client,
           pc \in [Proc -> ThreadPC \cup MainPC],
           fd \in [Client -> {"none", "open", "closed"}]
    PROVE  /\ UNCHANGED <<peer, logging>> /\ pc'[MAIN] = pc[MAIN]
           /\ \A s \in Client : s # t => pc'[s] = pc[s] /\ fd'[s] = fd[s]
           /\ fd'[t] = "none" => fd[t] = "none"
           /\ pc[t] # "none" /\ pc'[t] # "none"
<1> USE DEF Goto, env
<1>1. CASE Acquire(t)  BY <1>1 DEF Acquire, AfterLock
<1>2. CASE Park(t)  BY <1>2 DEF Park
<1>3. CASE Unlock(t)  BY <1>3 DEF Unlock
<1>4. CASE InsLoad(t) \/ InsNoMemory(t) \/ InsStore(t) \/ InsSize(t) \/ InsCount(t)
  BY <1>4 DEF InsLoad, InsNoMemory, InsStore, InsSize, InsCount
<1>5. CASE Loop(t) \/ Receive(t) \/ ReceiveFails(t) \/ Reply(t) \/ Close(t)
  BY <1>5 DEF Loop, Receive, ReceiveFails, Reply, Close
<1>6. CASE Find(t)  BY <1>6 DEF Find
<1>7. CASE Walk(t)  BY <1>7 DEF Walk
<1>8. CASE RemFails(t)  BY <1>8 DEF RemFails
<1>9. CASE Remove(t)  BY <1>9 DEF Remove, RemLoad, RemStore, RemSize, RemCount
<1> QED  BY <1>1, <1>2, <1>3, <1>4, <1>5, <1>6, <1>7, <1>8, <1>9 DEF Thread, Work

\* ... gives nothing to their clients ...
LEMMA OthersKeep ==
    ASSUME NEW t \in Client, Thread(t), NEW s, s # t, NEW kind, <<kind, s>> \in heap'
    PROVE  <<kind, s>> \in heap
<1>1. CASE Acquire(t) \/ Park(t)  BY <1>1 DEF Acquire, Park
<1>2. CASE Unlock(t)  BY <1>2 DEF Unlock
<1>3. CASE InsLoad(t) \/ InsNoMemory(t) \/ InsStore(t) \/ InsSize(t) \/ InsCount(t)
  BY <1>3 DEF InsLoad, InsNoMemory, InsStore, InsSize, InsCount
<1>4. CASE Loop(t) \/ Receive(t) \/ ReceiveFails(t) \/ Reply(t) \/ Close(t)
  BY <1>4 DEF Loop, Receive, ReceiveFails, Reply, Close
<1>5. CASE Find(t) \/ Walk(t)  BY <1>5 DEF Find, Walk
<1>6. CASE RemFails(t) \/ Remove(t)
  BY <1>6 DEF RemFails, Remove, RemLoad, RemStore, RemSize, RemCount
<1> QED  BY <1>1, <1>2, <1>3, <1>4, <1>5, <1>6 DEF Thread, Work

\* ... and keeps its own buffers and arguments where they belong.
LEMMA OwnKeeps ==
    ASSUME NEW t \in Client, Thread(t), Keeps(t), Client \subseteq Proc,
           pc \in [Proc -> ThreadPC \cup MainPC]
    PROVE  /\ <<"cell", t>> \in heap' => pc'[t] \notin {"none", "insLock", "insLoad"}
           /\ <<"commbuf", t>> \notin heap'
           /\ <<"args", t>> \in heap' => pc'[t] # "done" /\ fd[t] # "none"
           /\ <<"recvbuf", t>> \in heap' =>
                 \/ pc'[t] \in {"recv", "reply"}
                 \/ pc'[t] \in {"close"} \cup Leaving /\ (CallsFail \/ peer[t] = "gone")
<1> USE DEF Goto, env, Keeps, Leaving
<1>1. CASE Acquire(t)  BY <1>1 DEF Acquire, AfterLock
<1>2. CASE Park(t)  BY <1>2 DEF Park
<1>3. CASE Unlock(t)  BY <1>3 DEF Unlock
<1>4. CASE InsLoad(t) \/ InsNoMemory(t) \/ InsStore(t) \/ InsSize(t) \/ InsCount(t)
  BY <1>4 DEF InsLoad, InsNoMemory, InsStore, InsSize, InsCount
<1>5. CASE Loop(t)  BY <1>5 DEF Loop
<1>6. CASE Receive(t) \/ ReceiveFails(t) \/ Close(t)
  BY <1>6 DEF Receive, ReceiveFails, Close
<1>7. CASE Reply(t)  BY <1>7 DEF Reply
<1>8. CASE Find(t)  BY <1>8 DEF Find
<1>9. CASE Walk(t)  BY <1>9 DEF Walk
<1>10. CASE RemFails(t)  BY <1>10 DEF RemFails
<1>11. CASE Remove(t)
  <2>1. /\ pc[t] \in {"remLoad", "remStore", "remSize", "remCount"}
        /\ pc'[t] \in {"remStore", "remSize", "remCount", "remUnlock", "remLoad"}
    BY <1>11 DEF Remove, RemLoad, RemStore, RemSize, RemCount
  <2>2. \A b : b \in heap' => b \in heap
    BY <1>11 DEF Remove, RemLoad, RemStore, RemSize, RemCount
  <2> QED  BY <2>1, <2>2
<1> QED
  BY <1>1, <1>2, <1>3, <1>4, <1>5, <1>6, <1>7, <1>8, <1>9, <1>10, <1>11
     DEF Thread, Work

\* Every step keeps the buffers and the arguments where they belong.
LEMMA StepHoldings == TInv /\ Logons /\ Holdings /\ [Next]_vars => Holdings'
<1> SUFFICES ASSUME TInv, Logons, Holdings, [Next]_vars PROVE Holdings'
  OBVIOUS
<1> USE CServerAssumption DEF Goto, env, lock, list
<1>1. /\ pc \in [Proc -> ThreadPC \cup MainPC] /\ Client \subseteq Proc
      /\ MAIN \in Proc /\ MAIN \notin Client
      /\ fd \in [Client -> {"none", "open", "closed"}]
      /\ peer \in [Client -> {"away", "pending", "online", "gone"}]
  BY DEF TInv, TypeOK, Proc
<1>2. (pc[MAIN] # "logon" => logging = NULL) /\ \A t \in Client : Keeps(t)
  BY DEF Holdings
<1>3. CASE UNCHANGED vars \/ Ended
  BY <1>2, <1>3 DEF Ended, vars, Holdings, Keeps, Refused
<1>4. ASSUME NEW c \in Client, Connect(c) \/ HangUp(c) PROVE Holdings'
  <2>1. /\ UNCHANGED <<pc, fd, logging, heap>>
        /\ \A t \in Client : peer[t] = "gone" => peer'[t] = "gone"
    BY <1>1, <1>4 DEF Connect, HangUp
  <2> QED  BY <1>2, <2>1, KeepsOn DEF Holdings
<1>5. CASE SigDie \/ Crash
  BY <1>2, <1>5, KeepsOn DEF SigDie, Crash, Holdings
<1>6. CASE InitMutex \/ PollFails \/ Shutdown \/ Exit
  <2>1. /\ UNCHANGED <<fd, peer, logging, heap>> /\ \A t \in Client : pc'[t] = pc[t]
        /\ pc[MAIN] # "logon"
    BY <1>1, <1>6 DEF InitMutex, PollFails, Shutdown, Exit
  <2> QED  BY <1>2, <2>1, KeepsOn DEF Holdings
<1>7. ASSUME NEW c \in Client, Accept(c) PROVE Holdings'
  <2>1. /\ pc[MAIN] = "poll" /\ fd[c] = "none" /\ fd'[c] = "open" /\ logging = NULL
        /\ \A t \in Client : pc'[t] = pc[t]
        /\ \A t \in Client : t # c => fd'[t] = fd[t] /\ peer'[t] = peer[t]
        /\ \A b : b \in heap' /\ b \notin heap => b \in {"info", "ip", "commbuf"} \X {c}
        /\ \/ logging' = c /\ pc'[MAIN] = "logon"
           \/ CallsFail /\ logging' = NULL
              /\ \A b : b \in heap' /\ b \notin heap => b \in {"info", "ip"} \X {c}
    BY <1>1, <1>2, <1>7 DEF Accept, InBacklog
  <2>2. pc[c] = "none"  BY <2>1 DEF Logons
  <2>3. Keeps(c)'
    BY <1>2, <2>1, <2>2 DEF Keeps, Refused, Leaving
  <2>4. ASSUME NEW t \in Client, t # c PROVE Keeps(t)'
    <3>1. \A kind : <<kind, t>> \in heap' => <<kind, t>> \in heap  BY <2>1, <2>4
    <3>2. pc'[t] = pc[t] /\ fd'[t] = fd[t] /\ peer'[t] = peer[t]  BY <2>1, <2>4
    <3>3. Refused(t)' => Refused(t)  BY <2>1, <3>2 DEF Refused
    <3>4. logging # t  BY <2>1
    <3>5. logging' # t  BY <2>1, <2>4
    <3> QED  BY <1>2, <3>1, <3>2, <3>3, <3>5 DEF Keeps
  <2> QED  BY <2>1, <2>3, <2>4 DEF Holdings
<1>8. CASE LogonOK \/ LogonFails
  <2>1. /\ pc[MAIN] = "logon" /\ pc'[MAIN] = "check" /\ logging \in Client /\ logging' = NULL
        /\ pc[logging] = "none" /\ fd[logging] # "none"
        /\ UNCHANGED <<fd, peer>>
        /\ \A t \in Client : t # logging => pc'[t] = pc[t]
        /\ \A t \in Client, kind \in {"cell", "commbuf", "args", "recvbuf"} :
               /\ t # logging => (<<kind, t>> \in heap' <=> <<kind, t>> \in heap)
               /\ kind \in {"cell", "recvbuf"} => (<<kind, t>> \in heap' <=> <<kind, t>> \in heap)
    <3>1. /\ pc[MAIN] = "logon" /\ logging \in Client /\ pc[logging] = "none"
          /\ fd[logging] # "none" /\ logging' = NULL /\ UNCHANGED <<fd, peer>>
      BY <1>8 DEF LogonOK, LogonFails, Logons
    <3>2. pc'[MAIN] = "check" /\ \A t \in Client : t # logging => pc'[t] = pc[t]
      BY <1>1, <1>8, <3>1 DEF LogonOK, LogonFails
    <3>3. \A b : b[2] # logging \/ b[1] \notin {"commbuf", "args"} => (b \in heap' <=> b \in heap)
      BY <1>8 DEF LogonOK, LogonFails, DropBuffer
    <3> QED  BY <3>1, <3>2, <3>3
  <2>2. ASSUME NEW t \in Client, t # logging PROVE Keeps(t)'
    <3>1. Keeps(t)  BY <1>2
    <3>2. logging' # t  BY <2>1
    <3>3. Refused(t)' => Refused(t)  BY <2>1, <2>2 DEF Refused
    <3> QED  BY <2>1, <2>2, <3>1, <3>2, <3>3 DEF Keeps
  <2>3. Keeps(logging)
    BY <1>2, <2>1
  <2>4. <<"args", logging>> \notin heap
    BY <2>1, <2>3 DEF Keeps
  <2>5. \A t \in Client : t = logging => Keeps(t)'
    <3> SUFFICES ASSUME NEW t \in Client, t = logging PROVE Keeps(t)'  OBVIOUS
    <3>1. /\ <<"cell", t>> \notin heap' /\ <<"recvbuf", t>> \notin heap'
      BY <2>1, <2>3 DEF Keeps, Leaving
    <3>2. CASE LogonOK
      <4>1. pc'[t] = "insLock" /\ <<"commbuf", t>> \notin heap'
        BY <1>1, <2>1, <3>2 DEF LogonOK, DropBuffer
      <4> QED  BY <2>1, <3>1, <4>1 DEF Keeps, Refused
    <3>3. CASE LogonFails
      <4>1. pc'[t] = "none" /\ (CallsFail \/ peer'[t] = "gone")
        BY <1>1, <2>1, <3>3 DEF LogonFails
      <4>2. <<"args", t>> \in heap' => <<"commbuf", t>> \notin heap'
        BY <2>4, <3>3 DEF LogonFails, DropBuffer
      <4> QED  BY <2>1, <3>1, <4>1, <4>2 DEF Keeps, Refused
    <3> QED  BY <1>8, <3>2, <3>3
  <2> QED  BY <2>1, <2>2, <2>5 DEF Holdings
<1>9. ASSUME NEW t \in Client, Thread(t) PROVE Holdings'
  <2>1. /\ UNCHANGED <<peer, logging>> /\ pc'[MAIN] = pc[MAIN]
        /\ \A s \in Client : s # t => pc'[s] = pc[s] /\ fd'[s] = fd[s]
        /\ fd'[t] = "none" => fd[t] = "none"
        /\ pc[t] # "none" /\ pc'[t] # "none"
    BY <1>1, <1>9, OthersStay
  <2>2. ASSUME NEW s \in Client, s # t PROVE Keeps(s)'
    <3>1. \A kind \in {"cell", "commbuf", "args", "recvbuf"} :
              <<kind, s>> \in heap' => <<kind, s>> \in heap
      BY <1>9, <2>2, OthersKeep
    <3> QED  BY <1>2, <2>1, <2>2, <3>1, KeepsOn
  <2>3. Keeps(t)'
    <3>1. /\ <<"cell", t>> \in heap' => pc'[t] \notin {"none", "insLock", "insLoad"}
          /\ <<"commbuf", t>> \notin heap'
          /\ <<"args", t>> \in heap' => pc'[t] # "done" /\ fd[t] # "none"
          /\ <<"recvbuf", t>> \in heap' =>
                \/ pc'[t] \in {"recv", "reply"}
                \/ pc'[t] \in {"close"} \cup Leaving /\ (CallsFail \/ peer[t] = "gone")
      BY <1>1, <1>2, <1>9, OwnKeeps
    <3> QED  BY <2>1, <3>1 DEF Keeps, Refused
  <2> QED  BY <1>2, <2>1, <2>2, <2>3 DEF Holdings
<1>10. CASE Remove(MAIN)
  <2>1. /\ UNCHANGED <<peer, fd, logging>> /\ \A t \in Client : pc'[t] = pc[t]
        /\ pc[MAIN] # "logon" /\ \A b : b \in heap' => b \in heap
    BY <1>1, <1>10 DEF Remove, RemLoad, RemStore, RemSize, RemCount
  <2> QED  BY <1>2, <2>1, KeepsOn DEF Holdings
<1> QED
  BY <1>3, <1>4, <1>5, <1>6, <1>7, <1>8, <1>9, <1>10
     DEF Next, Step, Main
\* The inductive invariant.
CInv == LInv /\ IInv

\* What the types say of the variables of the list.
LEMMA Types ==
    ASSUME CInv
    PROVE  /\ pc \in [Proc -> ThreadPC \cup MainPC]
           /\ Client \subseteq Proc /\ MAIN \in Proc /\ MAIN \notin Client /\ NULL \notin Client
           /\ head \in Ptr /\ tail \in Ptr /\ size \in Size /\ size \in Nat
           /\ next \in [Client -> Ptr]
           /\ reg \in [Proc -> [element : Ptr, sel : Ptr, old : Ptr, after : Ptr, size : Size]]
           /\ hazard \subseteq Hazards
           /\ id \in [Client -> Id \cup {NULL}] /\ NULL \notin Id
           /\ heap \subseteq Blocks
BY Sizes, CServerAssumption DEF CInv, LInv, TInv, TypeOK, Proc

\* A thread at work on the list is the only one, unless the mutex was
\* initialised while it was in use.
LEMMA Alone ==
    ASSUME CInv, "reinit" \notin hazard, NEW t \in Client, pc[t] \in Critical
    PROVE  \A s \in Client \ {t} : pc[s] \notin Critical
BY DEF CInv, LInv, MutualExclusion, InCritical

\* Main is not at work on the list before it destroys it.
LEMMA MainOutside ==
    ASSUME CInv, "destroy" \notin hazard
    PROVE  pc[MAIN] \notin {"done"} \cup Removal
BY DEF CInv, IInv, Logons

\* Where a thread relies on what it has read from the list.
Inside == {"insStore", "walk"} \cup Removal \cup Counting

\* A step that leaves the list alone, and takes nobody to work on it.
LEMMA ListStays ==
    ASSUME CInv,
           UNCHANGED <<head, tail, size, next>>, hazard \subseteq hazard',
           \A c \in Client : <<"cell", c>> \in heap' <=> <<"cell", c>> \in heap,
           \A t \in Client : \/ pc'[t] = pc[t] /\ reg'[t] = reg[t]
                             \/ /\ pc[t] \notin {"insStore"} \cup Counting /\ pc'[t] \notin Inside
                                /\ pc'[t] \in Before => pc[t] \in Before
    PROVE  ListInv'
<1> SUFFICES ASSUME hazard' \cap {"reinit", "destroy"} = {}
             PROVE  \E m \in Nat : \E new \in [1 .. m -> Client] : Linked(new, m)' /\ Worked(new, m)'
  BY DEF ListInv
<1>1a. PICK n \in Nat : \E seq \in [1 .. n -> Client] : Linked(seq, n) /\ Worked(seq, n)
  BY DEF CInv, IInv, ListInv
<1>1. PICK seq \in [1 .. n -> Client] : Linked(seq, n) /\ Worked(seq, n)
  BY <1>1a
<1>2. \A t \in Client : /\ pc'[t] = "insStore" <=> pc[t] = "insStore"
                        /\ pc'[t] \in Counting <=> pc[t] \in Counting
  BY DEF Inside, Counting
<1>3. \A t \in Client : pc'[t] \in Before => pc[t] \in Before
  OBVIOUS
<1>4. Linked(seq, n)'
  BY <1>1, <1>2, <1>3 DEF Linked
<1>5. \A t \in Client : pc'[t] \in Inside => pc'[t] = pc[t] /\ reg'[t] = reg[t]
  OBVIOUS
<1>6. hazard' \subseteq {"nomem"} => hazard \subseteq {"nomem"}
  OBVIOUS
<1>7. Worked(seq, n)'
  <2> SUFFICES ASSUME NEW t \in Client, pc'[t] \in Inside PROVE At(t, seq, n)'
    BY DEF Worked, At, Inside, Removal, Counting
  <2>1. pc'[t] = pc[t] /\ reg'[t] = reg[t]  BY <1>5
  <2>2. Inserting(t, n) => Inserting(t, n)'  BY <2>1 DEF Inserting
  <2>3. \A k \in 1 .. n : Cursor(t, seq, k) => Cursor(t, seq, k)'  BY <2>1 DEF Cursor
  <2> QED  BY <1>1, <1>6, <2>1, <2>2, <2>3 DEF Worked, At
<1> QED  BY <1>1, <1>4, <1>7

\* list_ins_next, up to the stores: the new element is not on the list yet.
LEMMA InsLoads ==
    ASSUME CInv, NEW t \in Client, InsLoad(t)
    PROVE  ListInv'
<1> SUFFICES ASSUME hazard' \cap {"reinit", "destroy"} = {}
             PROVE  \E m \in Nat : \E new \in [1 .. m -> Client] : Linked(new, m)' /\ Worked(new, m)'
  BY DEF ListInv
<1>0. /\ pc[t] = "insLoad" /\ pc' = [pc EXCEPT ![t] = "insStore"]
      /\ heap' = heap \cup {<<"cell", t>>}
      /\ next' = [next EXCEPT ![t] = head]
      /\ tail' = IF size = 0 THEN t ELSE tail
      /\ head' = head /\ size' = size /\ hazard' = hazard
  BY DEF InsLoad, Goto
<1>1a. PICK n \in Nat : \E seq \in [1 .. n -> Client] : Linked(seq, n) /\ Worked(seq, n)
  BY <1>0 DEF CInv, IInv, ListInv
<1>1. PICK seq \in [1 .. n -> Client] : Linked(seq, n) /\ Worked(seq, n)
  BY <1>1a
<1>2. \A s \in Client \ {t} : pc[s] \notin Critical
  BY <1>0, Alone DEF Critical
<1>3. /\ pc'[t] = "insStore" /\ \A s \in Client \ {t} : pc'[s] = pc[s]
      /\ next'[t] = head /\ \A s \in Client \ {t} : next'[s] = next[s]
      /\ size = n
  <2>1. \A s \in Client : pc[s] \notin Counting
    BY <1>0, <1>2 DEF Critical, Counting
  <2> QED  BY <1>0, <1>1, <2>1, Types DEF Linked
<1>4. \A k \in 1 .. n : seq[k] # t
  BY <1>0, <1>1 DEF Linked, Before
<1>5. \A c \in Client : <<"cell", c>> \in heap' <=> c = t \/ <<"cell", c>> \in heap
  BY <1>0
<1>6. Linked(seq, n)'
  <2>1. \A c \in Client : <<"cell", c>> \in heap' <=>
                             pc'[c] = "insStore" \/ \E k \in 1 .. n : seq[k] = c
    BY <1>1, <1>2, <1>3, <1>5 DEF Linked, Critical
  <2>2. \A s \in Client : pc'[s] \in Before => \A k \in 1 .. n : seq[k] # s
    BY <1>1, <1>3, <1>4 DEF Linked
  <2>3. \A k \in 1 .. n : next'[seq[k]] = next[seq[k]]
    BY <1>3, <1>4
  <2>4. size' = n /\ (n # 0 => tail' = seq[n]) /\ (n = 0 => pc'[t] = "insStore")
    BY <1>0, <1>1, <1>3 DEF Linked
  <2> QED  BY <1>0, <1>1, <1>3, <2>1, <2>2, <2>3, <2>4 DEF Linked
<1>7. Worked(seq, n)'
  <2>1. Inserting(t, n)'  BY <1>0, <1>3 DEF Inserting
  <2>2. \A s \in Client : pc'[s] \in Inside => s = t
    BY <1>2, <1>3 DEF Inside, Critical, Removal, Counting
  <2> QED  BY <1>3, <2>1, <2>2 DEF Worked, At, Inside, Removal, Counting
<1> QED  BY <1>1, <1>6, <1>7

\* The store of head puts the element in front.
LEMMA InsStores ==
    ASSUME CInv, NEW t \in Client, InsStore(t)
    PROVE  ListInv'
<1> SUFFICES ASSUME hazard' \cap {"reinit", "destroy"} = {}
             PROVE  \E m \in Nat : \E new \in [1 .. m -> Client] : Linked(new, m)' /\ Worked(new, m)'
  BY DEF ListInv
<1>0. /\ pc[t] = "insStore" /\ pc' = [pc EXCEPT ![t] = "insSize"]
      /\ head' = t
      /\ UNCHANGED <<tail, size, next, heap, reg, hazard>>
  BY DEF InsStore, Goto
<1>1a. PICK n \in Nat : \E seq \in [1 .. n -> Client] : Linked(seq, n) /\ Worked(seq, n)
  BY <1>0 DEF CInv, IInv, ListInv
<1>1. PICK seq \in [1 .. n -> Client] : Linked(seq, n) /\ Worked(seq, n)
  BY <1>1a
<1>1b. PICK m \in Nat : m = n + 1
  OBVIOUS
<1>2. \A s \in Client \ {t} : pc[s] \notin Critical
  BY <1>0, Alone DEF Critical
<1>3. /\ pc'[t] = "insSize" /\ \A s \in Client \ {t} : pc'[s] = pc[s]
      /\ n \in Nat /\ Inserting(t, n) /\ size' = n
      /\ t # NULL /\ m = n + 1
  <2>1. Inserting(t, n)  BY <1>0, <1>1 DEF Worked, At
  <2>2. \A s \in Client : pc[s] \notin Counting
    BY <1>0, <1>2 DEF Critical, Counting
  <2>3. size = n  BY <1>1, <2>2 DEF Linked
  <2> QED  BY <1>0, <1>1b, <2>1, <2>3, Types
<1>4. \A k \in 1 .. n : seq[k] # t
  BY <1>0, <1>1 DEF Linked, Before
<1>5. PICK new \in [1 .. n + 1 -> Client] :
             new = [k \in 1 .. n + 1 |-> IF k = 1 THEN t ELSE seq[k - 1]]
  <2>1. [k \in 1 .. n + 1 |-> IF k = 1 THEN t ELSE seq[k - 1]] \in [1 .. n + 1 -> Client]
    BY <1>1, <1>3
  <2> QED  BY <2>1
<1>5a. /\ new \in [1 .. m -> Client] /\ new[1] = t
       /\ \A k \in 2 .. n + 1 : k - 1 \in 1 .. n /\ new[k] = seq[k - 1]
       /\ \A k \in 1 .. n : k + 1 \in 2 .. n + 1 /\ new[k + 1] = seq[k]
  BY <1>1, <1>3, <1>5
<1>6. Linked(new, m)'
  <2>1. \A j, k \in 1 .. m : new[j] = new[k] => j = k
    <3> SUFFICES ASSUME NEW j \in 1 .. n + 1, NEW k \in 1 .. n + 1, new[j] = new[k]
                 PROVE  j = k
      BY <1>3
    <3>1. CASE j = 1  BY <1>3, <1>4, <1>5a, <3>1
    <3>2. CASE k = 1  BY <1>3, <1>4, <1>5a, <3>2
    <3>3. CASE j # 1 /\ k # 1
      <4>0. j \in 2 .. n + 1 /\ k \in 2 .. n + 1  BY <1>3, <3>3
      <4>1. j - 1 \in 1 .. n /\ k - 1 \in 1 .. n /\ seq[j - 1] = seq[k - 1]
        BY <1>5a, <4>0
      <4> QED  BY <1>1, <1>3, <3>3, <4>1 DEF Linked
    <3> QED  BY <3>1, <3>2, <3>3
  <2>2. \A k \in 1 .. m : next'[new[k]] = IF k = m THEN NULL ELSE new[k + 1]
    <3> SUFFICES ASSUME NEW k \in 1 .. n + 1
                 PROVE  next[new[k]] = IF k = n + 1 THEN NULL ELSE new[k + 1]
      BY <1>0, <1>3
    <3>1. CASE k = 1
      <4>1. next[new[k]] = IF n = 0 THEN NULL ELSE seq[1]
        BY <1>1, <1>3, <1>5a, <3>1 DEF Inserting, Linked
      <4>2. CASE n = 0  BY <3>1, <4>1, <4>2
      <4>3. CASE n # 0
        <5>1. 1 \in 1 .. n  BY <1>3, <4>3
        <5>2. new[1 + 1] = seq[1]  BY <1>5a, <5>1
        <5> QED  BY <1>3, <3>1, <4>1, <4>3, <5>2
      <4> QED  BY <4>2, <4>3
    <3>2. CASE k # 1
      <4>1. k - 1 \in 1 .. n /\ new[k] = seq[k - 1]  BY <1>3, <1>5a, <3>2
      <4>2. next[new[k]] = IF k - 1 = n THEN NULL ELSE seq[(k - 1) + 1]
        BY <1>1, <4>1 DEF Linked
      <4>3. CASE k = n + 1  BY <1>3, <4>2, <4>3
      <4>4. CASE k # n + 1
        <5>0. k \in 1 .. n  BY <1>3, <4>4
        <5>1. k \in 1 .. n /\ (k - 1) + 1 = k /\ k - 1 # n /\ k \in Int
          BY <1>3, <4>4
        <5>2. next[new[k]] = seq[k]  BY <4>2, <5>1
        <5>3. new[k + 1] = seq[k]  BY <1>3, <1>5, <5>0
        <5> QED  BY <4>4, <5>2, <5>3
      <4> QED  BY <4>3, <4>4
    <3> QED  BY <3>1, <3>2
  <2>3. tail = new[n + 1]
    <3>1. CASE n = 0  BY <1>3, <1>5a, <3>1 DEF Inserting
    <3>2. CASE n # 0
      <4>1. n \in 1 .. n  BY <1>3, <3>2
      <4> QED  BY <1>1, <1>5a, <3>2, <4>1 DEF Linked
    <3> QED  BY <3>1, <3>2
  <2>4. \A c \in Client : (\E k \in 1 .. m : new[k] = c) <=>
                              c = t \/ \E k \in 1 .. n : seq[k] = c
    <3>1. 1 \in 1 .. m /\ \A k \in 1 .. n : k + 1 \in 1 .. m  BY <1>3
    <3>2. \A k \in 1 .. m : k = 1 \/ k \in 2 .. n + 1  BY <1>3
    <3> QED  BY <1>5a, <3>1, <3>2
  <2>5. \A c \in Client : <<"cell", c>> \in heap' <=>
                             pc'[c] = "insStore" \/ \E k \in 1 .. m : new[k] = c
    <3>1. \A c \in Client : <<"cell", c>> \in heap <=>
                               pc[c] = "insStore" \/ \E k \in 1 .. n : seq[k] = c
      BY <1>1 DEF Linked
    <3> QED  BY <1>0, <1>1, <1>2, <1>3, <2>4, <3>1 DEF Critical
  <2>6. \A s \in Client : pc'[s] \in Before => \A k \in 1 .. m : new[k] # s
    <3>1. \A s \in Client : pc'[s] \in Before => s # t /\ pc[s] \in Before
      BY <1>3 DEF Before
    <3>2. \A s \in Client : pc[s] \in Before => ~\E k \in 1 .. n : seq[k] = s
      BY <1>1 DEF Linked
    <3> QED  BY <2>4, <3>1, <3>2
  <2>7. /\ head' = IF m = 0 THEN NULL ELSE new[1]
        /\ m # 0 => tail' = new[m]
        /\ m # 0
    BY <1>0, <1>3, <1>5a, <2>3
  <2>8. \E s \in Client : pc'[s] \in Counting  BY <1>3 DEF Counting
  <2> QED  BY <1>5a, <2>1, <2>2, <2>5, <2>6, <2>7, <2>8 DEF Linked
<1>7. Worked(new, m)'
  <2>1. \A s \in Client : pc'[s] \in Inside => s = t
    BY <1>2, <1>3 DEF Inside, Critical, Removal, Counting
  <2>2. At(t, new, m)'  BY <1>3 DEF At
  <2> QED  BY <2>1, <2>2 DEF Worked, At, Inside, Removal, Counting
<1> QED  BY <1>5a, <1>6, <1>7

\* The list is no longer than there are clients.
LEMMA Fits ==
    ASSUME NEW n \in Nat, NEW seq \in [1 .. n -> Client], Linked(seq, n)
    PROVE  n <= Cardinality(Client) /\ Cardinality(Client) \in Nat /\ n < Word
<1>1. Cardinality(Client) \in Nat  BY ClientsAssumption, FS_CardinalityType
<1>2. IsFiniteSet(1 .. n) /\ Cardinality(1 .. n) = n  BY UpTo
<1>3. \A j, k \in 1 .. n : seq[j] = seq[k] => j = k  BY DEF Linked
<1>4. ~(Cardinality(Client) < Cardinality(1 .. n))
  <2> SUFFICES ASSUME Cardinality(Client) < Cardinality(1 .. n) PROVE FALSE
    OBVIOUS
  <2>1. \E x, y \in 1 .. n : x # y /\ seq[x] = seq[y]
    BY <1>2, ClientsAssumption, FS_PigeonHole, Zenon
  <2> QED  BY <1>3, <2>1
<1> QED  BY <1>1, <1>2, <1>4, WordAssumption

\* size++ and size-- in two steps: nobody else counts in the meantime, and
\* nothing wraps around.
LEMMA SizeCounts ==
    ASSUME CInv, NEW t \in Client, InsSize(t) \/ InsCount(t) \/ RemSize(t) \/ RemCount(t)
    PROVE  ListInv'
<1> SUFFICES ASSUME hazard' \cap {"reinit", "destroy"} = {}
             PROVE  \E m \in Nat : \E new \in [1 .. m -> Client] : Linked(new, m)' /\ Worked(new, m)'
  BY DEF ListInv
<1>0. /\ UNCHANGED <<head, tail, next, hazard>>
      /\ \A c \in Client : <<"cell", c>> \in heap' <=> <<"cell", c>> \in heap
  BY DEF InsSize, InsCount, RemSize, RemCount, list
<1>1a. PICK n \in Nat : \E seq \in [1 .. n -> Client] : Linked(seq, n) /\ Worked(seq, n)
  BY <1>0 DEF CInv, IInv, ListInv
<1>1. PICK seq \in [1 .. n -> Client] : Linked(seq, n) /\ Worked(seq, n)
  BY <1>1a
<1>2. pc[t] \in Counting /\ \A s \in Client \ {t} : pc[s] \notin Critical
  <2>1. pc[t] \in Counting /\ pc[t] \in Critical
    BY DEF InsSize, InsCount, RemSize, RemCount, Counting, Critical
  <2> QED  BY <1>0, <2>1, Alone
<1>3. \A s \in Client \ {t} : pc'[s] = pc[s]
  BY Types DEF InsSize, InsCount, RemSize, RemCount, Goto
<1>4. \A s \in Client : pc'[s] \in Inside => s = t
  BY <1>2, <1>3, Types
     DEF Inside, Critical, Removal, Counting
<1>5. /\ pc'[t] \in Counting \cup {"insUnlock", "remUnlock"}
      /\ pc[t] # "insStore"
  BY Types, CServerAssumption DEF InsSize, InsCount, RemSize, RemCount, Goto, Counting
<1>6. At(t, seq, n)  BY <1>1 DEF Worked
<1>7. /\ pc'[t] \notin Counting => size' = n
      /\ pc'[t] \in Counting => At(t, seq, n)'
  <2>1. CASE InsSize(t)
    <3>1. /\ pc[t] = "insSize" /\ pc'[t] = "insCount" /\ size' = size /\ reg'[t].size = size
      BY <2>1, Types DEF InsSize, Goto, list
    <3>2. size + 1 = n  BY <1>6, <3>1 DEF At
    <3> QED  BY <3>1, <3>2 DEF At, Counting
  <2>2. CASE InsCount(t)
    <3>1. pc[t] = "insCount" /\ pc'[t] = "insUnlock" /\ size' = Up(reg[t].size)
      BY <2>2, Types DEF InsCount, Goto
    <3>2. size + 1 = n /\ reg[t].size = size  BY <1>6, <3>1 DEF At
    <3>3. n < Word /\ n \in Nat  BY <1>1, Fits
    <3>4. size' = n  BY <3>1, <3>2, <3>3, Sizes, Types DEF Up
    <3> QED  BY <3>1, <3>4 DEF Counting
  <2>3. CASE RemSize(t)
    <3>1. /\ pc[t] = "remSize" /\ pc'[t] = "remCount" /\ size' = size /\ hazard' = hazard
          /\ reg'[t].size = size /\ reg'[t].old = reg[t].old
      BY <2>3, Types DEF RemSize, Goto, list
    <3>2. size = n + 1 /\ (hazard \subseteq {"nomem"} => reg[t].old = t)
      BY <1>6, <3>1 DEF At
    <3> QED  BY <3>1, <3>2 DEF At, Counting
  <2>4. CASE RemCount(t)
    <3>1. pc[t] = "remCount" /\ pc'[t] = "remUnlock" /\ size' = Down(reg[t].size)
      BY <2>4, Types DEF RemCount, Goto
    <3>2. size = n + 1 /\ reg[t].size = size  BY <1>6, <3>1 DEF At
    <3>3. size' = n  BY <3>1, <3>2 DEF Down
    <3> QED  BY <3>1, <3>3 DEF Counting
  <2> QED  BY <2>1, <2>2, <2>3, <2>4
<1>8. Linked(seq, n)'
  <2>1. /\ \A s \in Client : pc'[s] = "insStore" <=> pc[s] = "insStore"
        /\ \A s \in Client : pc'[s] \in Before => pc[s] \in Before
    BY <1>3, <1>5 DEF Counting, Before
  <2>2. (\A s \in Client : pc'[s] \notin Counting) => size' = n
    BY <1>7
  <2> QED  BY <1>0, <1>1, <2>1, <2>2 DEF Linked
<1>9. Worked(seq, n)'
  <2>1. At(t, seq, n)'
    <3>1. CASE pc'[t] \in Counting  BY <1>7, <3>1
    <3>2. CASE pc'[t] \in {"insUnlock", "remUnlock"}  BY <3>2 DEF At
    <3> QED  BY <1>5, <3>1, <3>2
  <2> QED  BY <1>4, <2>1 DEF Worked, At, Inside, Removal, Counting
<1> QED  BY <1>1, <1>8, <1>9

\* Whether the id found in an element of the list is the wanted one is a
\* matter of whose element it is.
LEMMA FoundIs ==
    ASSUME CInv, hazard \subseteq {"nomem"}, NEW c \in Client, NEW t \in Client,
           <<"cell", c>> \in heap, pc[t] \in {"find", "walk"}
    PROVE  SameId(c, t) = {c = t}
<1>1. <<"info", c>> \in heap /\ <<"info", t>> \in heap /\ pc[c] \in Listed
  BY DEF CInv, IInv, Roster, Listed, Served
<1>2. id[c] # NULL /\ id[t] # NULL
  BY <1>1 DEF CInv, IInv, Logons, Listed
<1>3. id[c] = id[t] <=> c = t
  BY <1>1, <1>2 DEF CInv, IInv, Roster, LiveClients
<1>4. SameId(c, t) = {id[c] = id[t]}
  BY <1>1 DEF SameId
<1> QED  BY <1>3, <1>4

\* A step of the removal that does not store yet.
LEMMA Advances ==
    ASSUME CInv, NEW t \in Client, pc[t] \in {"find", "walk", "remLoad"},
           hazard \cap {"reinit", "destroy"} = {},
           UNCHANGED <<list, heap, hazard>>,
           pc'[t] \in {"walk", "remLoad", "remStore", "remUnlock"},
           \A s \in Client \ {t} : pc'[s] = pc[s],
           NEW n \in Nat, NEW seq \in [1 .. n -> Client], Linked(seq, n), At(t, seq, n)'
    PROVE  ListInv'
<1>1. \A s \in Client \ {t} : pc[s] \notin Critical
  BY Alone DEF Critical
<1>2. Linked(seq, n)'
  <2>1. \A s \in Client : pc'[s] = "insStore" <=> pc[s] = "insStore"  OBVIOUS
  <2>2. \A s \in Client : pc'[s] \in Before => pc[s] \in Before
    BY DEF Before
  <2>3. \A s \in Client : pc'[s] \notin Counting /\ pc[s] \notin Counting
    BY <1>1 DEF Counting, Critical
  <2>4. size' = n  BY <2>3 DEF Linked, list
  <2> QED  BY <2>1, <2>2, <2>3, <2>4 DEF Linked, list
<1>3. Worked(seq, n)'
  <2> SUFFICES ASSUME NEW s \in Client, s # t PROVE At(s, seq, n)'
    BY DEF Worked
  <2> QED  BY <1>1 DEF At, Critical
<1> QED  BY <1>2, <1>3 DEF ListInv

\* While a thread searches or removes, size is the number of elements.
LEMMA SizeIs ==
    ASSUME CInv, "reinit" \notin hazard, NEW t \in Client,
           pc[t] \in {"find", "walk", "remLoad", "remStore"},
           NEW n \in Nat, NEW seq \in [1 .. n -> Client], Linked(seq, n)
    PROVE  size = n
<1>1. \A s \in Client \ {t} : pc[s] \notin Critical
  BY Alone DEF Critical
<1>2. \A s \in Client : pc[s] \notin Counting
  BY <1>1 DEF Counting, Critical
<1> QED  BY <1>2 DEF Linked

\* client_find_next_client_id, its first element.
LEMMA Finds ==
    ASSUME CInv, NEW t \in Client, Find(t)
    PROVE  ListInv'
<1> SUFFICES ASSUME hazard \cap {"reinit", "destroy"} = {}
             PROVE  ListInv'
  BY DEF ListInv, Find
<1>1. /\ pc[t] = "find" /\ UNCHANGED <<list, heap, hazard>>
      /\ pc'[t] \in {"walk", "remLoad", "remUnlock"}
      /\ \A s \in Client \ {t} : pc'[s] = pc[s]
  BY Types DEF Find, Goto
<1>2a. PICK n \in Nat : \E seq \in [1 .. n -> Client] : Linked(seq, n) /\ Worked(seq, n)
  BY DEF CInv, IInv, ListInv
<1>2. PICK seq \in [1 .. n -> Client] : Linked(seq, n) /\ Worked(seq, n)
  BY <1>2a
<1>3. At(t, seq, n)'
  <2>1. CASE size = 0
    <3>1. pc'[t] = "remUnlock"  BY <1>1, <2>1, Types DEF Find, Goto
    <3> QED  BY <3>1 DEF At
  <2>2. CASE size # 0
    <3>1. PICK same \in SameId(head, t) :
              /\ pc' = [pc EXCEPT ![t] = IF same THEN "remLoad" ELSE "walk"]
              /\ reg' = [reg EXCEPT ![t].element = NULL, ![t].sel = head]
      BY <2>2 DEF Find, Goto, BeforeHead
    <3>0. n # 0  BY <1>1, <1>2, <2>2, SizeIs
    <3>2. 1 \in 1 .. n /\ head = seq[1] /\ head \in Client
      BY <1>2, <3>0, Types DEF Linked
    <3>3. <<"cell", head>> \in heap
      BY <1>2, <3>2 DEF Linked
    <3>4. hazard \subseteq {"nomem"} => SameId(head, t) = {head = t}
      BY <1>1, <3>2, <3>3, FoundIs
    <3>5. hazard \subseteq {"nomem"} => (same <=> seq[1] = t)
      BY <3>1, <3>2, <3>4
    <3>6. reg'[t].element = NULL /\ reg'[t].sel = seq[1]
      BY <3>1, <3>2, Types
    <3>7. Cursor(t, seq, 1)'  BY <3>6 DEF Cursor
    <3>8. pc'[t] = IF same THEN "remLoad" ELSE "walk"  BY <3>1, Types
    <3>9. \A j \in 1 .. 1 : j = 1  OBVIOUS
    <3>10. hazard' = hazard  BY <1>1
    <3>11. CASE same
      <4>1. pc'[t] = "remLoad" /\ (hazard' \subseteq {"nomem"} => seq[1] = t)
        BY <3>5, <3>8, <3>10, <3>11
      <4> QED  BY <3>2, <3>7, <3>10, <4>1 DEF At
    <3>12. CASE ~same
      <4>1. pc'[t] = "walk" /\ (hazard' \subseteq {"nomem"} => \A j \in 1 .. 1 : seq[j] # t)
        BY <3>5, <3>8, <3>9, <3>10, <3>12
      <4> QED  BY <3>2, <3>6, <3>7, <3>10, <4>1 DEF At
    <3> QED  BY <3>11, <3>12
  <2> QED  BY <2>1, <2>2
<1> QED  BY <1>1, <1>2, <1>3, Advances

\* ... and its next ones.
LEMMA Walks ==
    ASSUME CInv, NEW t \in Client, Walk(t)
    PROVE  ListInv'
<1> SUFFICES ASSUME hazard \cap {"reinit", "destroy"} = {}
             PROVE  ListInv'
  BY DEF ListInv, Walk
<1>1. /\ pc[t] = "walk" /\ UNCHANGED <<list, heap, hazard>>
      /\ pc'[t] \in {"walk", "remLoad", "remUnlock"}
      /\ \A s \in Client \ {t} : pc'[s] = pc[s]
  BY Types DEF Walk, Goto
<1>2a. PICK n \in Nat : \E seq \in [1 .. n -> Client] : Linked(seq, n) /\ Worked(seq, n)
  BY DEF CInv, IInv, ListInv
<1>2. PICK seq \in [1 .. n -> Client] : Linked(seq, n) /\ Worked(seq, n)
  BY <1>2a
<1>3. PICK k \in 1 .. n :
          /\ reg[t].sel = seq[k] /\ Cursor(t, seq, k)
          /\ hazard \subseteq {"nomem"} => \A j \in 1 .. k : seq[j] # t
  BY <1>1, <1>2 DEF Worked, At
<1>4. next[seq[k]] = IF k = n THEN NULL ELSE seq[k + 1]
  BY <1>2 DEF Linked
<1>5. At(t, seq, n)'
  <2>1. CASE next[seq[k]] = NULL
    <3>1. pc'[t] = "remUnlock"  BY <1>1, <1>3, <2>1, Types DEF Walk, Goto
    <3> QED  BY <3>1 DEF At
  <2>2. CASE next[seq[k]] # NULL
    <3>0. /\ k + 1 \in 1 .. n /\ next[seq[k]] = seq[k + 1] /\ seq[k + 1] \in Client
          /\ (k + 1) - 1 = k /\ k + 1 # 1
      BY <1>2, <1>4, <2>2, Types
    <3>1. PICK same \in SameId(seq[k + 1], t) :
              /\ pc' = [pc EXCEPT ![t] = IF same THEN "remLoad" ELSE "walk"]
              /\ reg' = [reg EXCEPT ![t].element = seq[k], ![t].sel = seq[k + 1]]
      BY <1>3, <2>2, <3>0 DEF Walk, Goto, Following, Passed
    <3>3. <<"cell", seq[k + 1]>> \in heap
      BY <1>2, <3>0 DEF Linked
    <3>4. hazard \subseteq {"nomem"} => SameId(seq[k + 1], t) = {seq[k + 1] = t}
      BY <1>1, <3>0, <3>3, FoundIs
    <3>5. hazard \subseteq {"nomem"} => (same <=> seq[k + 1] = t)
      <4> SUFFICES ASSUME hazard \subseteq {"nomem"} PROVE same <=> seq[k + 1] = t
        OBVIOUS
      <4>1. same \in {seq[k + 1] = t}  BY <3>1, <3>4, Zenon
      <4> QED  BY <4>1
    <3>6. reg'[t].element = seq[k] /\ reg'[t].sel = seq[k + 1]
      BY <3>1, Types
    <3>7. Cursor(t, seq, k + 1)'  BY <3>0, <3>6 DEF Cursor
    <3>8. pc'[t] = IF same THEN "remLoad" ELSE "walk"  BY <3>1, Types
    <3>9. \A j \in 1 .. k + 1 : j = k + 1 \/ j \in 1 .. k  OBVIOUS
    <3>10. hazard' = hazard  BY <1>1
    <3>11. CASE same
      <4>1. pc'[t] = "remLoad" /\ (hazard' \subseteq {"nomem"} => seq[k + 1] = t)
        BY <3>5, <3>8, <3>10, <3>11
      <4> QED  BY <3>0, <3>7, <3>10, <4>1 DEF At
    <3>12. CASE ~same
      <4>1. pc'[t] = "walk" /\ (hazard' \subseteq {"nomem"} => \A j \in 1 .. k + 1 : seq[j] # t)
        BY <1>3, <3>5, <3>8, <3>9, <3>10, <3>12
      <4> QED  BY <3>0, <3>6, <3>7, <3>10, <4>1 DEF At
    <3> QED  BY <3>11, <3>12
  <2> QED  BY <2>1, <2>2
<1> QED  BY <1>1, <1>2, <1>5, Advances

\* list_rem_next, up to the stores.
LEMMA RemLoads ==
    ASSUME CInv, NEW t \in Client, RemLoad(t)
    PROVE  ListInv'
<1> SUFFICES ASSUME hazard \cap {"reinit", "destroy"} = {}
             PROVE  ListInv'
  BY DEF ListInv, RemLoad
<1>1. /\ pc[t] = "remLoad" /\ UNCHANGED <<list, heap, hazard>>
      /\ pc'[t] = "remStore"
      /\ \A s \in Client \ {t} : pc'[s] = pc[s]
      /\ next' = next
  BY Types DEF RemLoad, Goto, list
<1>2a. PICK n \in Nat : \E seq \in [1 .. n -> Client] : Linked(seq, n) /\ Worked(seq, n)
  BY DEF CInv, IInv, ListInv
<1>2. PICK seq \in [1 .. n -> Client] : Linked(seq, n) /\ Worked(seq, n)
  BY <1>2a
<1>3. PICK k \in 1 .. n :
          Cursor(t, seq, k) /\ (hazard \subseteq {"nomem"} => seq[k] = t)
  BY <1>1, <1>2 DEF Worked, At
<1>4. Old(t) = seq[k]
  <2>1. CASE k = 1
    BY <1>2, <1>3, <2>1, Types DEF Old, Cursor, Linked
  <2>2. CASE k # 1
    <3>1. k - 1 \in 1 .. n /\ k - 1 # n /\ (k - 1) + 1 = k  BY <2>2
    <3>2. reg[t].element = seq[k - 1] /\ seq[k - 1] # NULL
      BY <1>2, <1>3, <2>2, <3>1, Types DEF Cursor
    <3>3. next[seq[k - 1]] = seq[(k - 1) + 1]  BY <1>2, <3>1 DEF Linked
    <3> QED  BY <3>1, <3>2, <3>3 DEF Old
  <2> QED  BY <2>1, <2>2
<1>5. /\ reg'[t].element = reg[t].element /\ reg'[t].old = seq[k]
      /\ reg'[t].after = next[seq[k]]
  <2>1. reg' = [reg EXCEPT ![t].sel = NULL, ![t].old = seq[k], ![t].after = next[seq[k]]]
    BY <1>4 DEF RemLoad
  <2> QED  BY <2>1, Types
<1>6. At(t, seq, n)'
  <2>1. Cursor(t, seq, k)'  BY <1>3, <1>5 DEF Cursor
  <2> QED  BY <1>1, <1>3, <1>5, <2>1 DEF At
<1> QED  BY <1>1, <1>2, <1>6, Advances

\* The stores take the element at the cursor out.
LEMMA RemStores ==
    ASSUME CInv, NEW t \in Client, RemStore(t)
    PROVE  ListInv'
<1> SUFFICES ASSUME hazard \cap {"reinit", "destroy"} = {}
             PROVE  \E m \in Nat : \E new \in [1 .. m -> Client] : Linked(new, m)' /\ Worked(new, m)'
  BY DEF ListInv, RemStore
<1>1a. PICK n \in Nat : \E seq \in [1 .. n -> Client] : Linked(seq, n) /\ Worked(seq, n)
  BY DEF CInv, IInv, ListInv
<1>1. PICK seq \in [1 .. n -> Client] : Linked(seq, n) /\ Worked(seq, n)
  BY <1>1a
<1>2. \A s \in Client \ {t} : pc[s] \notin Critical
  BY Alone DEF Critical, RemStore
<1>3. PICK k \in 1 .. n :
          /\ Cursor(t, seq, k)
          /\ hazard \subseteq {"nomem"} => seq[k] = t
          /\ reg[t].old = seq[k] /\ reg[t].after = next[seq[k]]
  BY <1>1 DEF Worked, At, RemStore
<1>3a. size = n /\ n # 0
  BY <1>1, <1>3, SizeIs DEF RemStore
<1>3b. PICK m \in Nat : m = n - 1
  BY <1>3a
<1>4. /\ k \in Nat /\ k # 0 /\ n \in Nat /\ k <= n /\ m = n - 1
      /\ \A j \in 1 .. n : seq[j] \in Client /\ seq[j] # NULL
      /\ \A i, j \in 1 .. n : seq[i] = seq[j] => i = j
      /\ \A j \in 1 .. n : next[seq[j]] = IF j = n THEN NULL ELSE seq[j + 1]
      /\ k # 1 => k - 1 \in 1 .. n
  <2>1. k \in Nat /\ k # 0 /\ k <= n /\ (k # 1 => k - 1 \in 1 .. n)
    BY <1>3
  <2>2. \A j \in 1 .. n : seq[j] \in Client /\ seq[j] # NULL
    BY <1>1, CServerAssumption, Zenon
  <2> QED  BY <1>1, <1>3b, <2>1, <2>2 DEF Linked
<1>5. /\ IF k = 1 THEN head' = next[seq[k]] /\ next' = next
                  ELSE /\ next' = [next EXCEPT ![seq[k - 1]] = next[seq[k]]]
                       /\ head' = head
      /\ tail' = IF k = 1 THEN IF n = 1 THEN NULL ELSE tail
                 ELSE IF next[seq[k]] = NULL THEN seq[k - 1] ELSE tail
  <2>1. reg[t].element = NULL <=> k = 1  BY <1>3, <1>4 DEF Cursor
  <2>2. k # 1 => reg[t].element = seq[k - 1]  BY <1>3 DEF Cursor
  <2> QED  BY <1>3, <1>3a, <2>1, <2>2 DEF RemStore, TailAfter
<1>6. /\ heap' = heap \ {<<"cell", seq[k]>>}
      /\ pc'[t] = "remSize" /\ \A s \in Client \ {t} : pc'[s] = pc[s]
      /\ size' = size /\ hazard' = hazard /\ reg'[t].old = seq[k]
  BY <1>3, Types DEF RemStore, Goto, NoReg
<1>7. PICK new \in [1 .. n - 1 -> Client] :
          new = [j \in 1 .. n - 1 |-> IF j < k THEN seq[j] ELSE seq[j + 1]]
  <2>1. [j \in 1 .. n - 1 |-> IF j < k THEN seq[j] ELSE seq[j + 1]] \in [1 .. n - 1 -> Client]
    BY <1>4
  <2> QED  BY <2>1
<1>8. /\ \A j \in 1 .. n - 1 : j < k => j \in 1 .. n /\ new[j] = seq[j]
      /\ \A j \in 1 .. n - 1 : ~(j < k) => j + 1 \in 1 .. n /\ new[j] = seq[j + 1]
      /\ \A j \in 1 .. n - 1 : j \in Int
  BY <1>4, <1>7
<1>9. Linked(new, m)'
  <2>1. \A i, j \in 1 .. m : new[i] = new[j] => i = j
    <3> SUFFICES ASSUME NEW i \in 1 .. n - 1, NEW j \in 1 .. n - 1, new[i] = new[j]
                 PROVE  i = j
      BY <1>4
    <3>1. CASE i < k /\ j < k  BY <1>4, <1>8, <3>1
    <3>2. CASE i < k /\ ~(j < k)
      <4>1. seq[i] = seq[j + 1] /\ i \in 1 .. n /\ j + 1 \in 1 .. n  BY <1>8, <3>2
      <4>2. i = j + 1  BY <1>4, <4>1
      <4> QED  BY <1>4, <1>8, <3>2, <4>2
    <3>3. CASE ~(i < k) /\ j < k
      <4>1. seq[j] = seq[i + 1] /\ j \in 1 .. n /\ i + 1 \in 1 .. n  BY <1>8, <3>3
      <4>2. j = i + 1  BY <1>4, <4>1
      <4> QED  BY <1>4, <1>8, <3>3, <4>2
    <3>4. CASE ~(i < k) /\ ~(j < k)
      <4>1. seq[j + 1] = seq[i + 1] /\ j + 1 \in 1 .. n /\ i + 1 \in 1 .. n
        BY <1>8, <3>4
      <4>2. j + 1 = i + 1  BY <1>4, <4>1
      <4> QED  BY <1>8, <4>2
    <3> QED  BY <3>1, <3>2, <3>3, <3>4
  <2>2. head' = IF m = 0 THEN NULL ELSE new[1]
    <3>1. CASE n = 1
      <4>1. k = 1  BY <1>4, <3>1
      <4> QED  BY <1>4, <1>5, <3>1, <4>1
    <3>2. CASE n # 1
      <4>1. 1 \in 1 .. n - 1 /\ 1 \in 1 .. n /\ m # 0  BY <1>4, <1>5, <3>2
      <4>2. CASE k = 1
        <5>1. new[1] = seq[1 + 1]  BY <1>8, <4>1, <4>2
        <5>2. next[seq[1]] = seq[1 + 1]  BY <1>4, <3>2, <4>1
        <5> QED  BY <1>5, <4>1, <4>2, <5>1, <5>2
      <4>3. CASE k # 1
        <5>1. 1 < k  BY <1>4, <4>3
        <5>2. new[1] = seq[1]  BY <1>8, <4>1, <5>1
        <5>3. head = seq[1]  BY <1>1, <1>4 DEF Linked
        <5> QED  BY <1>5, <4>1, <4>3, <5>2, <5>3
      <4> QED  BY <4>2, <4>3
    <3> QED  BY <3>1, <3>2
  <2>3. \A j \in 1 .. m : next'[new[j]] = IF j = m THEN NULL ELSE new[j + 1]
    <3> SUFFICES ASSUME NEW j \in 1 .. n - 1
                 PROVE  next'[new[j]] = IF j = n - 1 THEN NULL ELSE new[j + 1]
      BY <1>4
    <3>0. next \in [Client -> Ptr]  BY Types
    <3>1. CASE j + 1 < k
      <4>1. j < k /\ j + 1 \in 1 .. n - 1 /\ j # n - 1 /\ j # k - 1 /\ k # 1 /\ j # n
        BY <1>4, <1>8, <3>1
      <4>2. new[j] = seq[j] /\ j \in 1 .. n  BY <1>8, <4>1
      <4>3. new[j + 1] = seq[j + 1]  BY <1>8, <3>1, <4>1
      <4>4. seq[j] # seq[k - 1]  BY <1>4, <4>1, <4>2
      <4>5. next'[seq[j]] = next[seq[j]]  BY <1>4, <1>5, <3>0, <4>1, <4>2, <4>4
      <4>6. next[seq[j]] = seq[j + 1]  BY <1>4, <4>1, <4>2
      <4> QED  BY <4>1, <4>2, <4>3, <4>5, <4>6
    <3>2. CASE j + 1 = k
      <4>1. j < k /\ j = k - 1 /\ k # 1 /\ (j = n - 1 <=> k = n)
        BY <1>4, <1>8, <3>2
      <4>2. new[j] = seq[j] /\ j \in 1 .. n  BY <1>8, <4>1
      <4>3. next'[seq[j]] = next[seq[k]]  BY <1>4, <1>5, <3>0, <4>1, <4>2
      <4>4. CASE k = n  BY <1>4, <4>1, <4>2, <4>3, <4>4
      <4>5. CASE k # n
        <5>1. k \in 1 .. n - 1 /\ ~(k < k)  BY <1>4, <4>5
        <5>2. new[k] = seq[k + 1]  BY <1>8, <5>1
        <5>3. next[seq[k]] = seq[k + 1]  BY <1>4, <4>5
        <5>4. new[j + 1] = new[k]  BY <3>2
        <5> QED  BY <4>1, <4>2, <4>3, <4>5, <5>2, <5>3, <5>4
      <4> QED  BY <4>4, <4>5
    <3>3. CASE ~(j < k)
      <4>1. new[j] = seq[j + 1] /\ j + 1 \in 1 .. n  BY <1>8, <3>3
      <4>2. j + 1 # k - 1 /\ j \in Int /\ (j + 1 = n <=> j = n - 1)
        BY <1>4, <1>8, <3>3
      <4>3. k # 1 => seq[j + 1] # seq[k - 1]  BY <1>4, <4>1, <4>2
      <4>4. next'[seq[j + 1]] = next[seq[j + 1]]  BY <1>4, <1>5, <3>0, <4>1, <4>3
      <4>5. next[seq[j + 1]] = IF j + 1 = n THEN NULL ELSE seq[(j + 1) + 1]
        BY <1>4, <4>1
      <4>6. CASE j = n - 1  BY <4>1, <4>2, <4>4, <4>5, <4>6
      <4>7. CASE j # n - 1
        <5>1. j + 1 \in 1 .. n - 1 /\ ~(j + 1 < k)  BY <1>4, <1>8, <3>3, <4>1, <4>7
        <5>2. new[j + 1] = seq[(j + 1) + 1]  BY <1>8, <5>1
        <5> QED  BY <4>1, <4>2, <4>4, <4>5, <4>7, <5>2
      <4> QED  BY <4>6, <4>7
    <3>4. j + 1 < k \/ j + 1 = k \/ ~(j < k)  BY <1>4, <1>8
    <3> QED  BY <3>1, <3>2, <3>3, <3>4
  <2>4. m # 0 => tail' = new[m]
    <3> SUFFICES ASSUME n # 1 PROVE tail' = new[n - 1]
      BY <1>4, <1>5
    <3>0. n - 1 \in 1 .. n - 1 /\ n \in 1 .. n /\ (n - 1) + 1 = n
      BY <1>4
    <3>1. tail = seq[n]  BY <1>1, <1>4 DEF Linked
    <3>2. CASE k = n
      <4>1. n - 1 < k /\ k # 1 /\ next[seq[k]] = NULL  BY <1>4, <3>2
      <4>2. new[n - 1] = seq[k - 1]  BY <1>8, <3>0, <3>2, <4>1
      <4> QED  BY <1>5, <4>1, <4>2
    <3>3. CASE k # n
      <4>1. ~(n - 1 < k) /\ k + 1 \in 1 .. n  BY <1>4, <3>3
      <4>2. next[seq[k]] # NULL  BY <1>4, <3>3, <4>1
      <4>3. new[n - 1] = seq[(n - 1) + 1]  BY <1>8, <3>0, <4>1
      <4>4. tail' = tail  BY <1>5, <4>2
      <4> QED  BY <3>0, <3>1, <4>3, <4>4
    <3> QED  BY <3>2, <3>3
  <2>5. m = 0 => tail' = NULL
    <3> SUFFICES ASSUME n = 1 PROVE tail' = NULL  BY <1>4, <1>5
    <3>1. k = 1  BY <1>4
    <3> QED  BY <1>5, <3>1
  <2>6. \A c \in Client : (\E j \in 1 .. m : new[j] = c) <=>
                              c # seq[k] /\ \E j \in 1 .. n : seq[j] = c
    <3> SUFFICES ASSUME NEW c \in Client
                 PROVE  (\E j \in 1 .. n - 1 : new[j] = c) <=>
                            c # seq[k] /\ \E j \in 1 .. n : seq[j] = c
      BY <1>4
    <3>1. ASSUME NEW j \in 1 .. n - 1, new[j] = c
          PROVE  c # seq[k] /\ \E i \in 1 .. n : seq[i] = c
      <4>1. CASE j < k
        <5>1. j \in 1 .. n /\ seq[j] = c /\ j # k  BY <1>4, <1>8, <3>1, <4>1
        <5> QED  BY <1>3, <1>4, <5>1
      <4>2. CASE ~(j < k)
        <5>1. j + 1 \in 1 .. n /\ seq[j + 1] = c /\ j + 1 # k  BY <1>4, <1>8, <3>1, <4>2
        <5> QED  BY <1>3, <1>4, <5>1
      <4> QED  BY <4>1, <4>2
    <3>2. ASSUME NEW i \in 1 .. n, seq[i] = c, c # seq[k]
          PROVE  \E j \in 1 .. n - 1 : new[j] = c
      <4>1. CASE i < k
        <5>1. i \in 1 .. n - 1  BY <1>4, <4>1
        <5>2. new[i] = c  BY <1>8, <3>2, <4>1, <5>1
        <5> QED  BY <5>1, <5>2
      <4>2. CASE ~(i < k)
        <5>1. i # k  BY <3>2
        <5>2. i - 1 \in 1 .. n - 1 /\ ~(i - 1 < k) /\ (i - 1) + 1 = i  BY <1>4, <4>2, <5>1
        <5>3. new[i - 1] = seq[(i - 1) + 1]  BY <1>8, <5>2
        <5> QED  BY <3>2, <5>2, <5>3
      <4> QED  BY <4>1, <4>2
    <3> QED  BY <3>1, <3>2
  <2>7. \A c \in Client : pc'[c] # "insStore" /\ pc[c] # "insStore"
    BY <1>2, <1>6 DEF Critical, RemStore
  <2>8. \A c \in Client : <<"cell", c>> \in heap' <=>
                             pc'[c] = "insStore" \/ \E j \in 1 .. m : new[j] = c
    <3>1. \A c \in Client : <<"cell", c>> \in heap' <=> <<"cell", c>> \in heap /\ c # seq[k]
      BY <1>6
    <3>2. \A c \in Client : <<"cell", c>> \in heap <=> \E j \in 1 .. n : seq[j] = c
      BY <1>1, <2>7 DEF Linked
    <3> QED  BY <2>6, <2>7, <3>1, <3>2
  <2>9. \A s \in Client : pc'[s] \in Before => \A j \in 1 .. m : new[j] # s
    <3>1. \A s \in Client : pc'[s] \in Before => pc[s] \in Before
      BY <1>6 DEF Before
    <3>2. \A s \in Client : pc[s] \in Before => ~\E j \in 1 .. n : seq[j] = s
      BY <1>1 DEF Linked
    <3> QED  BY <2>6, <3>1, <3>2
  <2>10. new \in [1 .. m -> Client]  BY <1>4, <1>7
  <2>11. \E s \in Client : pc'[s] \in Counting  BY <1>6 DEF Counting
  <2> QED  BY <2>1, <2>2, <2>3, <2>4, <2>5, <2>8, <2>9, <2>10, <2>11 DEF Linked
<1>10. Worked(new, m)'
  <2>1. \A s \in Client : pc'[s] \in Inside => s = t
    BY <1>2, <1>6 DEF Inside, Critical, Removal, Counting
  <2>2. /\ size' = m + 1
        /\ hazard' \subseteq {"nomem"} => reg'[t].old = t
    BY <1>3, <1>3a, <1>3b, <1>6
  <2>3. At(t, new, m)'  BY <1>6, <2>2 DEF At
  <2> QED  BY <2>1, <2>3 DEF Worked, At, Inside, Removal, Counting
<1> QED  BY <1>4, <1>7, <1>9, <1>10

\* Every step leaves a list behind.
LEMMA StepList == CInv /\ [Next]_vars => ListInv'
<1> SUFFICES ASSUME CInv, [Next]_vars PROVE ListInv'
  OBVIOUS
<1>1. /\ pc \in [Proc -> ThreadPC \cup MainPC] /\ Client \subseteq Proc
      /\ MAIN \in Proc /\ MAIN \notin Client
      /\ reg \in [Proc -> [element : Ptr, sel : Ptr, old : Ptr, after : Ptr, size : Size]]
  BY Types
<1> USE DEF Goto, list, env, Before, Inside, Removal, Counting
<1>2. CASE UNCHANGED vars \/ Ended
  BY <1>2, ListStays DEF Ended, vars
<1>3. ASSUME NEW c \in Client, Connect(c) \/ HangUp(c) PROVE ListInv'
  BY <1>3, ListStays DEF Connect, HangUp
<1>4. CASE SigDie \/ Crash
  BY <1>4, ListStays DEF SigDie, Crash
<1>5. CASE InitMutex \/ PollFails \/ LogonFails \/ Shutdown \/ Exit
  <2>1. /\ UNCHANGED <<head, tail, size, next, reg>> /\ hazard \subseteq hazard'
        /\ \A t \in Client : pc'[t] = pc[t]
    BY <1>1, <1>5 DEF InitMutex, PollFails, LogonFails, Shutdown, Exit
  <2>2. \A c \in Client : <<"cell", c>> \in heap' <=> <<"cell", c>> \in heap
    BY <1>5 DEF InitMutex, PollFails, LogonFails, DropBuffer, Shutdown, Exit
  <2> QED  BY <2>1, <2>2, ListStays
<1>6. ASSUME NEW c \in Client, Accept(c) PROVE ListInv'
  <2>1. /\ UNCHANGED <<head, tail, size, next, reg, hazard>>
        /\ \A t \in Client : pc'[t] = pc[t]
    BY <1>1, <1>6 DEF Accept
  <2>2. \A d \in Client : <<"cell", d>> \in heap' <=> <<"cell", d>> \in heap
    BY <1>6 DEF Accept
  <2> QED  BY <2>1, <2>2, ListStays
<1>7. CASE LogonOK
  <2>1. pc[MAIN] = "logon" /\ logging \in Client /\ pc[logging] = "none"
    BY <1>7 DEF LogonOK, CInv, IInv, Logons
  <2>2. /\ UNCHANGED <<head, tail, size, next, reg>> /\ hazard \subseteq hazard'
        /\ pc'[logging] = "insLock" /\ \A t \in Client : t # logging => pc'[t] = pc[t]
    BY <1>1, <1>7, <2>1 DEF LogonOK
  <2>3. \A c \in Client : <<"cell", c>> \in heap' <=> <<"cell", c>> \in heap
    BY <1>7 DEF LogonOK, DropBuffer
  <2> QED  BY <2>1, <2>2, <2>3, ListStays
<1>8. ASSUME NEW t \in Client, Acquire(t) \/ Park(t) \/ Unlock(t) PROVE ListInv'
  <2>1. CASE Acquire(t) \/ Park(t)
    BY <1>1, <2>1, ListStays DEF Acquire, Park, AfterLock
  <2>2. CASE Unlock(t)
    <3>1. /\ UNCHANGED <<head, tail, size, next, hazard>>
          /\ pc[t] \in {"insUnlock", "remUnlock"} /\ pc'[t] \in {"loop", "done"}
          /\ \A s \in Client : s # t => pc'[s] = pc[s] /\ reg'[s] = reg[s]
      BY <1>1, <2>2 DEF Unlock
    <3>2. \A c \in Client : <<"cell", c>> \in heap' <=> <<"cell", c>> \in heap
      BY <2>2 DEF Unlock
    <3> QED  BY <3>1, <3>2, ListStays
  <2> QED  BY <1>8, <2>1, <2>2
<1>9. ASSUME NEW t \in Client, InsNoMemory(t) PROVE ListInv'
  BY <1>1, <1>9, ListStays DEF InsNoMemory
<1>10. ASSUME NEW t \in Client, Loop(t) \/ Receive(t) \/ ReceiveFails(t) \/ Reply(t) \/ Close(t)
       PROVE  ListInv'
  <2>1. /\ UNCHANGED <<head, tail, size, next, reg, hazard>>
        /\ pc[t] \in {"loop", "recv", "reply", "close"}
        /\ pc'[t] \in {"loop", "recv", "reply", "close", "remLock"}
        /\ \A s \in Client : s # t => pc'[s] = pc[s]
    BY <1>1, <1>10 DEF Loop, Receive, ReceiveFails, Reply, Close
  <2>2. \A c \in Client : <<"cell", c>> \in heap' <=> <<"cell", c>> \in heap
    BY <1>10 DEF Loop, Receive, ReceiveFails, Reply, Close
  <2> QED  BY <2>1, <2>2, ListStays
<1>11. ASSUME NEW t \in Client, RemFails(t) PROVE ListInv'
  BY <1>1, <1>11, ListStays DEF RemFails
<1>12. CASE Remove(MAIN)
  <2>1. "destroy" \in hazard'
    BY <1>12, MainOutside DEF Remove, RemLoad, RemStore, RemSize, RemCount
  <2> QED  BY <2>1 DEF ListInv
<1> QED
  BY <1>1, <1>2, <1>3, <1>4, <1>5, <1>6, <1>7, <1>8, <1>9, <1>10, <1>11, <1>12,
     InsLoads, InsStores, SizeCounts, Finds, Walks, RemLoads, RemStores
     DEF Next, Step, Main, Thread, Work, Remove

\* A step after which nobody has come onto the list or off it.
LEMMA RosterStays ==
    ASSUME CInv, id' = id, hazard \subseteq hazard',
           \A kind \in {"cell", "info"}, c \in Ptr : <<kind, c>> \in heap' <=> <<kind, c>> \in heap,
           \A t \in Client : \/ pc'[t] = pc[t]
                             \/ pc'[t] \in {"insLock", "insLoad"} /\ pc[t] \in {"insLock", "insLoad"}
                             \/ pc'[t] \in {"remSize", "remCount"} /\ pc[t] \in {"remSize", "remCount"}
                             \/ pc'[t] \in Listed /\ pc[t] \in Listed
                             \/ pc[t] = "insLoad" /\ pc'[t] = "insUnlock" /\ "nomem" \in hazard'
                             \/ pc[t] = "remUnlock" /\ pc'[t] = "done",
           pc'[MAIN] = "logon" => pc[MAIN] = "logon" /\ logging' = logging
    PROVE  Roster'
<1> SUFFICES ASSUME hazard' \subseteq {"nomem"} PROVE Roster'
  BY DEF Roster
<1>1. hazard \subseteq {"nomem"}  OBVIOUS
<1>2. Roster  BY DEF CInv, IInv
<1>3. \A t \in Client :
        /\ pc'[t] \in Served => pc[t] \in Served
        /\ pc[t] \in Listed => pc'[t] \in Listed
        /\ hazard' = {} /\ pc'[t] \in Listed => pc[t] \in Listed
        /\ pc'[t] \in {"remUnlock", "done"} => pc[t] \in {"remUnlock", "done"}
  BY DEF Listed, Served
<1>4. /\ \A c \in Client : <<"info", c>> \in heap' <=> <<"info", c>> \in heap
      /\ \A c \in Client : <<"cell", c>> \in heap' <=> <<"cell", c>> \in heap
      /\ pc[MAIN] = "logon" /\ <<"info", logging>> \in heap => <<"info", logging>> \in heap'
  BY DEF Ptr, CInv, IInv, Logons
<1>5. LiveClients' = LiveClients  BY <1>4 DEF LiveClients
<1>6. hazard' = {} => hazard = {}  OBVIOUS
<1> QED  BY <1>1, <1>2, <1>3, <1>4, <1>5, <1>6 DEF Roster

\* A client that has an element finds it.
LEMMA FindsItself ==
    ASSUME CInv, hazard \subseteq {"nomem"}, NEW t \in Client, <<"cell", t>> \in heap,
           pc[t] \in {"find", "walk"}
    PROVE  /\ pc[t] = "find" => size # 0 /\ head # NULL
           /\ pc[t] = "walk" => next[reg[t].sel] # NULL
<1>1a. PICK n \in Nat : \E seq \in [1 .. n -> Client] : Linked(seq, n) /\ Worked(seq, n)
  BY DEF CInv, IInv, ListInv
<1>1. PICK seq \in [1 .. n -> Client] : Linked(seq, n) /\ Worked(seq, n)
  BY <1>1a
<1>2. size = n
  BY <1>1, SizeIs
<1>3. PICK j \in 1 .. n : seq[j] = t
  BY <1>1 DEF Linked
<1>4. CASE pc[t] = "find"
  <2>1. n # 0 /\ 1 \in 1 .. n  BY <1>3
  <2>2. head = seq[1] /\ seq[1] \in Client  BY <1>1, <2>1 DEF Linked
  <2> QED  BY <1>2, <1>4, <2>1, <2>2, Types
<1>5. CASE pc[t] = "walk"
  <2>1. PICK k \in 1 .. n : reg[t].sel = seq[k] /\ \A i \in 1 .. k : seq[i] # t
    BY <1>1, <1>5 DEF Worked, At
  <2>2. j \notin 1 .. k  BY <1>3, <2>1
  <2>3. k # n /\ k + 1 \in 1 .. n  BY <2>2
  <2>4. next[seq[k]] = seq[k + 1] /\ seq[k + 1] \in Client  BY <1>1, <2>3 DEF Linked
  <2> QED  BY <1>5, <2>1, <2>4, Types
<1> QED  BY <1>4, <1>5

\* What it then has at hand is its own element.
LEMMA RemovesItself ==
    ASSUME CInv, hazard \subseteq {"nomem"}, NEW t \in Client, pc[t] \in {"remLoad", "remStore"}
    PROVE  /\ pc[t] = "remLoad" => size # 0 /\ Old(t) = t
           /\ pc[t] = "remStore" => reg[t].old = t
           /\ reg[t].element # NULL => <<"cell", reg[t].element>> \in heap
           /\ <<"cell", t>> \in heap /\ <<"info", t>> \in heap
<1>1a. PICK n \in Nat : \E seq \in [1 .. n -> Client] : Linked(seq, n) /\ Worked(seq, n)
  BY DEF CInv, IInv, ListInv
<1>1. PICK seq \in [1 .. n -> Client] : Linked(seq, n) /\ Worked(seq, n)
  BY <1>1a
<1>1b. size = n
  BY <1>1, SizeIs
<1>2. PICK k \in 1 .. n :
          /\ Cursor(t, seq, k) /\ seq[k] = t
          /\ pc[t] = "remStore" => reg[t].old = seq[k]
  BY <1>1 DEF Worked, At
<1>3. size # 0 /\ n # 0 /\ (k # 1 => k - 1 \in 1 .. n /\ k - 1 # n /\ (k - 1) + 1 = k)
  BY <1>1b, <1>2
<1>4. k # 1 => seq[k - 1] \in Client /\ seq[k - 1] # NULL
  BY <1>1, <1>3, CServerAssumption
<1>5. Old(t) = t
  <2>1. CASE k = 1
    <3>1. reg[t].element = NULL  BY <1>2, <2>1 DEF Cursor
    <3>2. head = seq[1]  BY <1>1, <1>3 DEF Linked
    <3> QED  BY <1>2, <2>1, <3>1, <3>2 DEF Old
  <2>2. CASE k # 1
    <3>1. reg[t].element = seq[k - 1] /\ reg[t].element # NULL
      BY <1>2, <1>4, <2>2 DEF Cursor
    <3>2. next[seq[k - 1]] = seq[(k - 1) + 1]  BY <1>1, <1>3, <2>2 DEF Linked
    <3> QED  BY <1>2, <1>3, <2>2, <3>1, <3>2 DEF Old
  <2> QED  BY <2>1, <2>2
<1>6. reg[t].element # NULL => <<"cell", reg[t].element>> \in heap
  <2> SUFFICES ASSUME reg[t].element # NULL PROVE <<"cell", reg[t].element>> \in heap
    OBVIOUS
  <2>1. k # 1 /\ reg[t].element = seq[k - 1]  BY <1>2 DEF Cursor
  <2> QED  BY <1>1, <1>3, <1>4, <2>1 DEF Linked
<1>7. <<"cell", t>> \in heap
  BY <1>1, <1>2 DEF Linked
<1>8. <<"info", t>> \in heap
  BY DEF CInv, IInv, Roster, Listed, Served
<1> QED  BY <1>2, <1>3, <1>5, <1>6, <1>7, <1>8

\* What it frees at the end is its own client_info.
LEMMA FreesItself ==
    ASSUME CInv, hazard \subseteq {"nomem"}, NEW t \in Client, pc[t] \in {"remSize", "remCount"}
    PROVE  reg[t].old = t /\ <<"info", t>> \in heap
<1>1. \E n \in Nat : \E seq \in [1 .. n -> Client] : Worked(seq, n)
  BY DEF CInv, IInv, ListInv
<1>2. reg[t].old = t  BY <1>1 DEF Worked, At
<1>3. <<"info", t>> \in heap  BY DEF CInv, IInv, Roster, Served
<1> QED  BY <1>2, <1>3

\* Every step keeps the list and the live clients in agreement.
LEMMA StepRoster == CInv /\ [Next]_vars => Roster'
<1> SUFFICES ASSUME CInv, [Next]_vars PROVE Roster'
  OBVIOUS
<1>1. /\ pc \in [Proc -> ThreadPC \cup MainPC] /\ Client \subseteq Proc
      /\ MAIN \in Proc /\ MAIN \notin Client
      /\ id \in [Client -> Id \cup {NULL}] /\ NULL \notin Id
  BY Types
<1>0. Roster /\ Logons  BY DEF CInv, IInv
<1> USE CServerAssumption DEF Goto, list, env, Ptr
<1>2. CASE UNCHANGED vars \/ Ended
  BY <1>2, RosterStays DEF Ended, vars
<1>3. ASSUME NEW c \in Client, Connect(c) \/ HangUp(c) PROVE Roster'
  BY <1>3, RosterStays DEF Connect, HangUp
<1>4. CASE SigDie \/ Crash
  BY <1>4, RosterStays DEF SigDie, Crash
<1>5. CASE InitMutex \/ PollFails \/ LogonFails \/ Shutdown \/ Exit
  <2>1. /\ id' = id /\ hazard \subseteq hazard' /\ pc'[MAIN] # "logon"
        /\ \A t \in Client : pc'[t] = pc[t]
    BY <1>1, <1>5 DEF InitMutex, PollFails, LogonFails, Shutdown, Exit
  <2>2. \A kind \in {"cell", "info"}, c \in Ptr : <<kind, c>> \in heap' <=> <<kind, c>> \in heap
    BY <1>5 DEF InitMutex, PollFails, LogonFails, DropBuffer, Shutdown, Exit
  <2> QED  BY <2>1, <2>2, RosterStays
<1>6. ASSUME NEW c \in Client, Accept(c) PROVE Roster'
  <2>1. /\ fd[c] = "none" /\ id' = id /\ hazard' = hazard
        /\ \A t \in Client : pc'[t] = pc[t]
    BY <1>1, <1>6 DEF Accept, InBacklog
  <2>2. id[c] = NULL /\ pc[c] = "none" /\ <<"info", c>> \notin heap
    BY <1>0, <1>1, <2>1 DEF Logons
  <2>3. /\ \A t \in Client : <<"cell", t>> \in heap' <=> <<"cell", t>> \in heap
        /\ \A t \in Client : t # c => (<<"info", t>> \in heap' <=> <<"info", t>> \in heap)
        /\ \/ <<"info", c>> \in heap' /\ logging' = c
           \/ pc'[MAIN] # "logon"
    <3>1. \/ /\ logging' = c /\ pc'[MAIN] = "logon"
             /\ heap' = heap \cup {"info", "ip", "commbuf"} \X {c}
          \/ /\ pc'[MAIN] = "check"
             /\ \E got \in {{}, {"info"}, {"info", "ip"}} : heap' = heap \cup got \X {c}
      BY <1>1, <1>6 DEF Accept
    <3>2. \A b : b \in heap => b \in heap'  BY <3>1
    <3>3. \A b : b \in heap' /\ b \notin heap => b[1] # "cell" /\ b[2] = c  BY <3>1
    <3>4. \/ <<"info", c>> \in heap' /\ logging' = c
          \/ pc'[MAIN] # "logon"
      BY <3>1
    <3> QED  BY <3>2, <3>3, <3>4
  <2>4. LiveClients' = LiveClients  BY <2>1, <2>2, <2>3 DEF LiveClients
  <2>5. pc'[MAIN] = "logon" => <<"info", logging'>> \in heap'  BY <2>3
  <2> QED  BY <1>0, <2>1, <2>2, <2>3, <2>4, <2>5 DEF Roster, Listed, Served
<1>7. CASE LogonOK
  <2> SUFFICES ASSUME hazard' \subseteq {"nomem"} PROVE Roster'
    BY DEF Roster
  <2>1. /\ pc[MAIN] = "logon" /\ logging \in Client /\ pc[logging] = "none"
        /\ id[logging] = NULL
    BY <1>0, <1>7 DEF LogonOK, Logons
  <2>2. PICK i \in Id : /\ id' = [id EXCEPT ![logging] = i]
                        /\ hazard' = hazard \cup IF \E c \in LiveClients : id[c] = i
                                                 THEN {"sameid"} ELSE {}
    BY <1>7 DEF LogonOK
  <2>3. hazard' = hazard /\ \A c \in LiveClients : id[c] # i  BY <2>2
  <2>4. /\ \A kind \in {"cell", "info"}, c \in Client : <<kind, c>> \in heap' <=> <<kind, c>> \in heap
        /\ <<"info", logging>> \in heap
    <3>1. heap' = (heap \ {<<"commbuf", logging>>}) \cup {<<"args", logging>>}
      BY <1>7 DEF LogonOK, DropBuffer
    <3> QED  BY <1>0, <2>1, <2>3, <3>1 DEF Roster
  <2>5. id'[logging] = i /\ \A c \in Client : c # logging => id'[c] = id[c]
    BY <1>1, <2>1, <2>2
  <2>6. LiveClients' = LiveClients \cup {logging}
    BY <1>1, <2>1, <2>4, <2>5 DEF LiveClients
  <2>7. \A c, d \in LiveClients' : id'[c] = id'[d] => c = d
    BY <1>0, <2>3, <2>5, <2>6 DEF Roster, LiveClients
  <2>8. /\ pc'[MAIN] = "check" /\ pc'[logging] = "insLock"
        /\ \A t \in Client : t # logging => pc'[t] = pc[t]
    BY <1>1, <1>7, <2>1 DEF LogonOK
  <2> QED  BY <1>0, <2>1, <2>3, <2>4, <2>7, <2>8 DEF Roster, Listed, Served
<1>8. ASSUME NEW t \in Client, Acquire(t) \/ Park(t) \/ Unlock(t) PROVE Roster'
  <2>1. CASE Acquire(t) \/ Park(t)
    BY <1>1, <2>1, RosterStays DEF Acquire, Park, AfterLock, Listed
  <2>2. CASE Unlock(t)
    <3>1. /\ UNCHANGED <<id, logging, hazard>>
          /\ \/ pc[t] = "insUnlock" /\ pc' = [pc EXCEPT ![t] = "loop"]
             \/ pc[t] = "remUnlock" /\ pc' = [pc EXCEPT ![t] = "done"]
      BY <2>2 DEF Unlock
    <3>2. \A kind \in {"cell", "info"}, c \in Ptr : <<kind, c>> \in heap' <=> <<kind, c>> \in heap
      BY <2>2 DEF Unlock
    <3> QED  BY <1>1, <3>1, <3>2, RosterStays DEF Listed
  <2> QED  BY <1>8, <2>1, <2>2
<1>9. ASSUME NEW t \in Client, InsNoMemory(t) PROVE Roster'
  BY <1>1, <1>9, RosterStays DEF InsNoMemory
<1>10. ASSUME NEW t \in Client, Loop(t) \/ Receive(t) \/ ReceiveFails(t) \/ Reply(t) \/ Close(t)
       PROVE  Roster'
  <2>1. /\ UNCHANGED <<id, logging, hazard>>
        /\ pc[t] \in Listed /\ pc'[t] \in Listed
        /\ pc'[MAIN] = pc[MAIN] /\ \A s \in Client : s # t => pc'[s] = pc[s]
    BY <1>1, <1>10 DEF Loop, Receive, ReceiveFails, Reply, Close, Listed
  <2>2. \A kind \in {"cell", "info"}, c \in Ptr : <<kind, c>> \in heap' <=> <<kind, c>> \in heap
    BY <1>10 DEF Loop, Receive, ReceiveFails, Reply, Close
  <2> QED  BY <2>1, <2>2, RosterStays
<1>11. ASSUME NEW t \in Client, InsLoad(t) PROVE Roster'
  <2>1. /\ pc[t] = "insLoad" /\ pc' = [pc EXCEPT ![t] = "insStore"]
        /\ heap' = heap \cup {<<"cell", t>>}
        /\ UNCHANGED <<id, logging, hazard>>
    BY <1>11 DEF InsLoad
  <2>2. pc'[t] = "insStore" /\ \A s \in Client \cup {MAIN} : s # t => pc'[s] = pc[s]
    BY <1>1, <2>1
  <2>3. /\ \A c \in Client : <<"info", c>> \in heap' <=> <<"info", c>> \in heap
        /\ LiveClients' = LiveClients
    BY <2>1 DEF LiveClients
  <2>4. pc'[MAIN] = "logon" => logging \in Client /\ pc[MAIN] = "logon"
    BY <1>0, <1>1, <2>2 DEF Logons
  <2> QED  BY <1>0, <1>1, <2>1, <2>2, <2>3, <2>4 DEF Roster, Listed, Served
<1>12. ASSUME NEW t \in Client, InsStore(t) \/ InsSize(t) \/ InsCount(t) PROVE Roster'
  BY <1>1, <1>12, RosterStays DEF InsStore, InsSize, InsCount, Listed
<1>13. ASSUME NEW t \in Client, Find(t) \/ Walk(t) PROVE Roster'
  <2> SUFFICES ASSUME hazard \subseteq {"nomem"} PROVE Roster'
    BY <1>13 DEF Roster, Find, Walk
  <2>1. /\ pc[t] \in {"find", "walk"} /\ UNCHANGED <<id, logging, heap, hazard>>
        /\ \E there \in {"walk", "remLoad", "remUnlock"} : pc' = [pc EXCEPT ![t] = there]
    BY <1>13 DEF Find, Walk
  <2>2. CASE pc'[t] # "remUnlock"
    BY <1>1, <2>1, <2>2, RosterStays DEF Listed
  <2>3. CASE pc'[t] = "remUnlock"
    <3>1. \/ pc[t] = "find" /\ size = 0
          \/ pc[t] = "walk" /\ next[reg[t].sel] = NULL
      BY <1>1, <1>13, <2>3 DEF Find, Walk
    <3>2. <<"cell", t>> \notin heap  BY <2>1, <3>1, FindsItself
    <3>3. hazard # {}  BY <1>0, <2>1, <3>2 DEF Roster, Listed
    <3>4. /\ \A s \in Client : s # t => pc'[s] = pc[s]
          /\ pc'[MAIN] = pc[MAIN]
      BY <1>1, <2>1
    <3>5. LiveClients' = LiveClients  BY <2>1 DEF LiveClients
    <3> QED  BY <1>0, <2>1, <2>3, <3>2, <3>3, <3>4, <3>5 DEF Roster, Listed, Served
  <2> QED  BY <2>2, <2>3
<1>14. ASSUME NEW t \in Client, RemLoad(t) PROVE Roster'
  BY <1>1, <1>14, RosterStays DEF RemLoad, Listed
<1>15. ASSUME NEW t \in Client, RemFails(t) PROVE Roster'
  <2>1. pc[t] = "remLoad" /\ hazard' = hazard /\ (size = 0 \/ Old(t) = NULL)
    BY <1>15 DEF RemFails
  <2>2. ~(hazard \subseteq {"nomem"})  BY <2>1, RemovesItself, CServerAssumption
  <2> QED  BY <2>1, <2>2 DEF Roster
<1>16. ASSUME NEW t \in Client, RemStore(t) PROVE Roster'
  <2> SUFFICES ASSUME hazard \subseteq {"nomem"} PROVE Roster'
    BY <1>16 DEF Roster, RemStore
  <2>1. pc[t] = "remStore"  BY <1>16 DEF RemStore
  <2>2. reg[t].old = t  BY <2>1, RemovesItself
  <2>3. /\ heap' = heap \ {<<"cell", t>>}
        /\ UNCHANGED <<id, logging, hazard>>
        /\ pc' = [pc EXCEPT ![t] = "remSize"]
    BY <1>1, <1>16, <2>2 DEF RemStore
  <2>4. /\ pc'[t] = "remSize" /\ pc'[MAIN] = pc[MAIN]
        /\ \A s \in Client : s # t => pc'[s] = pc[s]
    BY <1>1, <2>3
  <2>5. LiveClients' = LiveClients  BY <2>3 DEF LiveClients
  <2> QED  BY <1>0, <2>1, <2>3, <2>4, <2>5 DEF Roster, Listed, Served
<1>17. ASSUME NEW t \in Client, RemSize(t) PROVE Roster'
  BY <1>1, <1>17, RosterStays DEF RemSize
<1>18. ASSUME NEW t \in Client, RemCount(t) PROVE Roster'
  <2> SUFFICES ASSUME hazard \subseteq {"nomem"} PROVE Roster'
    BY <1>18 DEF Roster, RemCount
  <2>1. pc[t] = "remCount"  BY <1>18 DEF RemCount
  <2>2. reg[t].old = t  BY <2>1, FreesItself
  <2>3. /\ heap' = heap \ {<<"info", t>>}
        /\ UNCHANGED <<id, logging, hazard>>
        /\ pc' = [pc EXCEPT ![t] = "remUnlock"]
    BY <1>1, <1>18, <2>2 DEF RemCount
  <2>4. /\ pc'[t] = "remUnlock" /\ pc'[MAIN] = pc[MAIN]
        /\ \A s \in Client : s # t => pc'[s] = pc[s]
    BY <1>1, <2>3
  <2>5. LiveClients' = LiveClients \ {t}  BY <2>3 DEF LiveClients
  <2>6. pc[MAIN] = "logon" => logging # t  BY <1>0, <2>1 DEF Logons
  <2> QED  BY <1>0, <2>1, <2>3, <2>4, <2>5, <2>6 DEF Roster, Listed, Served
<1>19. CASE Remove(MAIN)
  <2>1. "destroy" \in hazard'
    BY <1>19, MainOutside DEF Remove, RemLoad, RemStore, RemSize, RemCount, Removal
  <2> QED  BY <2>1 DEF Roster
<1> QED
  BY <1>1, <1>2, <1>3, <1>4, <1>5, <1>6, <1>7, <1>8, <1>9, <1>10, <1>11, <1>12, <1>13,
     <1>14, <1>15, <1>16, <1>17, <1>18, <1>19
     DEF Next, Step, Main, Thread, Work, Remove

\* Every step keeps all of it.
LEMMA StepInv == CInv /\ [Next]_vars => CInv'
<1> SUFFICES ASSUME CInv, [Next]_vars PROVE CInv'
  OBVIOUS
<1>1. LInv'  BY StepLocked DEF CInv
<1>2. Logons'  BY StepLogons DEF CInv, LInv, IInv
<1>3. Holdings'  BY StepHoldings DEF CInv, LInv, IInv
<1> QED  BY <1>1, <1>2, <1>3, StepList, StepRoster DEF CInv, IInv

\* It holds initially.
LEMMA InitCInv == Init => CInv
BY InitLocked, InitInv DEF CInv

-----------------------------------------------------------------------------

\* A thread that ends has closed its descriptor and given back everything its
\* client held but ip and, after a failure, recvbuf; a client that is dropped
\* before it has a thread is dropped after a failure, and leaves no more than
\* client_info, ip and one of commbuf and args (tcp.c:81-147 and 172-216).
THEOREM EndReclaims == Spec => []Reclaimed
<1>1. CInv => Reclaimed
  <2> SUFFICES ASSUME CInv PROVE Reclaimed  OBVIOUS
  <2>0. heap \subseteq Blocks  BY Types
  <2>1. \A c \in Client : Keeps(c)  BY DEF CInv, IInv, Holdings
  <2>2. ASSUME NEW c \in Client, NEW kind \in Left(c)
        PROVE  <<kind, c>> \in heap /\ kind \in {"cell", "info", "ip", "commbuf", "recvbuf", "args"}
    BY <2>0, <2>2 DEF Left, Blocks
  <2>3. ASSUME hazard = {}, NEW t \in Client, pc[t] = "done"
        PROVE  /\ fd[t] = "closed"
               /\ Left(t) \subseteq IF CallsFail \/ peer[t] = "gone" THEN {"ip", "recvbuf"} ELSE {"ip"}
    <3>1. fd[t] = "closed"  BY <2>3 DEF CInv, IInv, Logons, Leaving
    <3>2. <<"cell", t>> \notin heap /\ <<"info", t>> \notin heap
      BY <2>3 DEF CInv, IInv, Roster, Listed
    <3>3. /\ <<"commbuf", t>> \notin heap /\ <<"args", t>> \notin heap
          /\ <<"recvbuf", t>> \in heap => CallsFail \/ peer[t] = "gone"
      BY <2>1, <2>3 DEF Keeps
    <3>4. \A kind \in Left(t) : \/ kind = "ip"
                                \/ kind = "recvbuf" /\ (CallsFail \/ peer[t] = "gone")
      BY <2>2, <3>2, <3>3
    <3> QED  BY <3>1, <3>4
  <2>4. ASSUME NEW c \in Client, Refused(c)
        PROVE  /\ CallsFail \/ peer[c] = "gone"
               /\ \E last \in {"commbuf", "args"} : Left(c) \subseteq {"info", "ip", last}
    <3>1. pc[c] = "none" /\ logging # c  BY <2>4 DEF Refused
    <3>2. CallsFail \/ peer[c] = "gone"  BY <2>1, <2>4 DEF Keeps
    <3>3. /\ <<"cell", c>> \notin heap /\ <<"recvbuf", c>> \notin heap
          /\ <<"args", c>> \in heap => <<"commbuf", c>> \notin heap
      BY <2>1, <3>1 DEF Keeps, Leaving
    <3>4. CASE <<"args", c>> \in heap
      <4>1. \A kind \in Left(c) : kind \in {"info", "ip", "args"}  BY <2>2, <3>3, <3>4
      <4> QED  BY <3>2, <4>1
    <3>5. CASE <<"args", c>> \notin heap
      <4>1. \A kind \in Left(c) : kind \in {"info", "ip", "commbuf"}  BY <2>2, <3>3, <3>5
      <4> QED  BY <3>2, <4>1
    <3> QED  BY <3>4, <3>5
  <2> QED  BY <2>3, <2>4 DEF Reclaimed
<1> QED  BY InitCInv, StepInv, <1>1, PTL DEF Spec

\* The list is no longer than there are clients, and who follows it from its
\* head meets its elements and then NULL.
LEMMA NthIs ==
    ASSUME CInv, NEW n \in Nat, NEW seq \in [1 .. n -> Client], Linked(seq, n)
    PROVE  /\ n <= Cardinality(Client) /\ Cardinality(Client) \in Nat
           /\ Nth = [i \in 1 .. Cardinality(Client) + 1 |->
                        IF i <= n THEN seq[i] ELSE NULL]
<1> DEFINE last == Cardinality(Client) + 1
           Turn(f, i) == IF i = 1 THEN head
                         ELSE IF f[i - 1] = NULL THEN NULL ELSE next[f[i - 1]]
           g == [i \in 1 .. last |-> IF i <= n THEN seq[i] ELSE NULL]
<1>1. n \in Nat /\ last \in Nat /\ Cardinality(Client) \in Nat /\ n < last
  BY Fits
<1>2. /\ head = IF n = 0 THEN NULL ELSE seq[1]
      /\ \A k \in 1 .. n : next[seq[k]] = IF k = n THEN NULL ELSE seq[k + 1]
  BY DEF Linked
<1>2a. \A k \in 1 .. n : seq[k] # NULL
  BY CServerAssumption
<1>3. Nth = CHOOSE f : f = [i \in 1 .. last |-> Turn(f, i)]
  BY DEF Nth
<1> HIDE DEF last
<1>4. g = [i \in 1 .. last |-> Turn(g, i)]
  <2> SUFFICES ASSUME NEW i \in 1 .. last PROVE g[i] = Turn(g, i)  OBVIOUS
  <2>1. CASE i = 1  BY <1>1, <1>2, <2>1
  <2>2. CASE i # 1
    <3>1. i - 1 \in 1 .. last /\ i \in Nat  BY <1>1, <2>2
    <3>2. CASE i - 1 <= n
      <4>1. i - 1 \in 1 .. n /\ g[i - 1] = seq[i - 1]  BY <1>1, <3>1, <3>2
      <4>2. Turn(g, i) = IF i - 1 = n THEN NULL ELSE seq[(i - 1) + 1]
        BY <1>2, <1>2a, <2>2, <4>1
      <4> QED  BY <1>1, <3>1, <3>2, <4>2
    <3>3. CASE ~(i - 1 <= n)
      BY <1>1, <2>2, <3>1, <3>3
    <3> QED  BY <3>2, <3>3
  <2> QED  BY <2>1, <2>2
<1>5. ASSUME NEW f, f = [i \in 1 .. last |-> Turn(f, i)] PROVE f = g
  <2> DEFINE T == {i \in 1 .. last : f[i] # g[i]}
  <2>1. T = {}
    <3> SUFFICES ASSUME T # {} PROVE FALSE  OBVIOUS
    <3>1. T \in SUBSET Nat  BY <1>1
    <3>2. PICK m \in T : \A k \in T : m <= k  BY <3>1, LeastNat
    <3>3. m \in 1 .. last /\ m \in Nat /\ f[m] = Turn(f, m) /\ g[m] = Turn(g, m)
      <4>1. m \in 1 .. last /\ m \in Nat  BY <1>1, <3>2
      <4> HIDE DEF Turn
      <4>2. \A h : h = [i \in 1 .. last |-> Turn(h, i)] => h[m] = Turn(h, m)
        BY <4>1
      <4> HIDE DEF g
      <4> QED  BY <1>4, <1>5, <4>1, <4>2
    <3>4. m # 1  BY <3>2, <3>3
    <3>5. m - 1 \in 1 .. last /\ m - 1 \notin T  BY <1>1, <3>2, <3>3, <3>4
    <3>6. f[m - 1] = g[m - 1]  BY <3>5
    <3> QED  BY <3>2, <3>3, <3>6
  <2>2. DOMAIN f = 1 .. last  BY <1>5
  <2> QED  BY <1>5, <2>1
<1> HIDE DEF g, Turn
<1>6. Nth = g  BY <1>3, <1>4, <1>5
<1> QED  BY <1>1, <1>6 DEF g, last

\* What it meets is what is on the list.
LEMMA OnListIs ==
    ASSUME CInv, NEW n \in Nat, NEW seq \in [1 .. n -> Client], Linked(seq, n)
    PROVE  /\ OnList = {c \in Client : \E k \in 1 .. n : seq[k] = c}
           /\ IsFiniteSet(OnList) /\ Cardinality(OnList) = n
<1> DEFINE last == Cardinality(Client) + 1
<1>1. n \in Nat /\ last \in Nat /\ n < last  BY NthIs
<1>2. Nth = [i \in 1 .. last |-> IF i <= n THEN seq[i] ELSE NULL]
  BY NthIs
<1> HIDE DEF last
<1>3. OnList = {c \in Client : \E k \in 1 .. n : seq[k] = c}
  <2>1. DOMAIN Nth = 1 .. last  BY <1>2
  <2>2. ASSUME NEW c \in OnList PROVE c \in Client /\ \E k \in 1 .. n : seq[k] = c
    <3>1. PICK i \in 1 .. last : c = Nth[i] /\ c # NULL  BY <2>1 DEF OnList
    <3>2. i <= n /\ c = seq[i]  BY <1>2, <3>1
    <3>3. i \in 1 .. n  BY <1>1, <3>2
    <3> QED  BY <3>2, <3>3
  <2>3. ASSUME NEW k \in 1 .. n PROVE seq[k] \in OnList
    <3>1. k \in 1 .. last /\ Nth[k] = seq[k]  BY <1>1, <1>2
    <3>2. seq[k] \in Client /\ seq[k] # NULL  BY CServerAssumption
    <3> QED  BY <2>1, <3>1, <3>2 DEF OnList
  <2> QED  BY <2>2, <2>3
<1>4. IsFiniteSet(1 .. n) /\ Cardinality(1 .. n) = n
  BY <1>1, UpTo
<1>5. seq \in [1 .. n -> OnList]  BY <1>3
<1>6. \A j, k \in 1 .. n : seq[j] = seq[k] => j = k  BY DEF Linked
<1>7. seq \in Bijection(1 .. n, OnList)
  BY <1>3, <1>5, <1>6 DEF Bijection, Injection, Surjection, IsInjective
<1>8. ExistsBijection(1 .. n, OnList)  BY <1>7 DEF ExistsBijection
<1> QED  BY <1>3, <1>4, <1>8, FS_Bijection

\* While the mutex protects it, the list has no cycle, holds exactly the
\* allocated elements and agrees with its size and tail: list_ins_next and
\* list_rem_next of two clients never mix (list.c:42-127, tcp.c:161-212).
THEOREM ListStaysIntact == Spec => []ListIntact
<1>1. CInv => ListIntact
  <2> SUFFICES ASSUME CInv, hazard \cap {"reinit", "destroy"} = {}, Settled
               PROVE  /\ Nth[Cardinality(Client) + 1] = NULL
                      /\ {<<"cell", c>> : c \in OnList} = heap \cap Elements
                      /\ size = Cardinality(OnList)
                      /\ IF size = 0 THEN tail = NULL
                         ELSE tail \in OnList /\ next[tail] = NULL
    BY DEF ListIntact
  <2>1a. PICK n \in Nat : \E seq \in [1 .. n -> Client] : Linked(seq, n)
    BY DEF CInv, IInv, ListInv
  <2>1. PICK seq \in [1 .. n -> Client] : Linked(seq, n)
    BY <2>1a
  <2>2. \A t \in Client : pc[t] \notin {"insStore"} \cup Counting
    BY Types DEF Settled, Counting
  <2>2a. size = n  BY <2>1, <2>2 DEF Linked
  <2>3. size \in Nat /\ size <= Cardinality(Client) /\ Cardinality(Client) \in Nat
    BY <2>1, <2>2a, Fits
  <2>4. Nth[Cardinality(Client) + 1] = NULL
    <3>1. Nth = [i \in 1 .. Cardinality(Client) + 1 |-> IF i <= n THEN seq[i] ELSE NULL]
      BY <2>1, NthIs
    <3>2. Cardinality(Client) + 1 \in 1 .. Cardinality(Client) + 1  BY <2>3
    <3>3. ~(Cardinality(Client) + 1 <= size)  BY <2>3
    <3> QED  BY <2>2a, <3>1, <3>2, <3>3
  <2>5. OnList = {c \in Client : \E k \in 1 .. n : seq[k] = c}  BY <2>1, OnListIs
  <2>6. {<<"cell", c>> : c \in OnList} = heap \cap Elements
    <3>1. \A c \in Client : <<"cell", c>> \in heap <=> c \in OnList
      BY <2>1, <2>2, <2>5 DEF Linked
    <3>2. OnList \subseteq Client  BY <2>5
    <3> QED  BY <3>1, <3>2 DEF Elements
  <2>7. size = Cardinality(OnList)  BY <2>1, <2>2a, OnListIs
  <2>8. IF size = 0 THEN tail = NULL ELSE tail \in OnList /\ next[tail] = NULL
    <3>1. CASE size = 0  BY <2>1, <2>2, <2>2a, <3>1 DEF Linked
    <3>2. CASE size # 0
      <4>1. n \in 1 .. n /\ n # 0  BY <2>2a, <2>3, <3>2
      <4>2. tail = seq[n] /\ next[seq[n]] = NULL  BY <2>1, <4>1 DEF Linked
      <4> QED  BY <2>1, <2>5, <3>2, <4>1, <4>2
    <3> QED  BY <3>1, <3>2
  <2> QED  BY <2>4, <2>6, <2>7, <2>8
<1> QED  BY InitCInv, StepInv, <1>1, PTL DEF Spec

\* As long as all goes well, the clients on the list are those with a thread
\* to serve them, and no thread fails to find or to remove its own
\* (tcp.c:201-208).
THEOREM ListTellsRoster == Spec => []ListIsRoster
<1>1. CInv => ListIsRoster
  <2> SUFFICES ASSUME CInv, hazard = {}
               PROVE  (Settled => OnList = Registered) /\ NoBugMessage
    BY DEF ListIsRoster
  <2>1a. PICK n \in Nat : \E seq \in [1 .. n -> Client] : Linked(seq, n)
    BY DEF CInv, IInv, ListInv
  <2>1. PICK seq \in [1 .. n -> Client] : Linked(seq, n)
    BY <2>1a
  <2>2. ASSUME Settled PROVE OnList = Registered
    <3>1. \A t \in Client : pc[t] \notin {"insStore", "insSize", "insCount", "remStore"}
      BY <2>2, Types DEF Settled
    <3>2. \A c \in Client : c \in OnList <=> <<"cell", c>> \in heap
      <4>1. OnList = {c \in Client : \E k \in 1 .. n : seq[k] = c}
        BY <2>1, OnListIs
      <4>2. \A c \in Client : <<"cell", c>> \in heap <=> \E k \in 1 .. n : seq[k] = c
        BY <2>1, <3>1 DEF Linked
      <4> QED  BY <4>1, <4>2
    <3>3. \A c \in Client : <<"cell", c>> \in heap <=> pc[c] \in Listed
      BY DEF CInv, IInv, Roster
    <3>4. OnList \subseteq Client  BY <2>1, OnListIs
    <3> QED  BY <3>1, <3>2, <3>3, <3>4 DEF Registered, Listed
  <2>3. ASSUME NEW t \in Client PROVE ~CannotFind(t) /\ ~CannotRemove(t)
    <3>1. pc[t] \in {"find", "walk"} => <<"cell", t>> \in heap
      BY DEF CInv, IInv, Roster, Listed
    <3>2. ~CannotFind(t)  BY <3>1, FindsItself DEF CannotFind
    <3>3. ~CannotRemove(t)  BY RemovesItself, Types DEF CannotRemove
    <3> QED  BY <3>2, <3>3
  <2> QED  BY <2>2, <2>3 DEF NoBugMessage
<1> QED  BY InitCInv, StepInv, <1>1, PTL DEF Spec

\* No thread follows a null pointer, uses freed memory or frees twice, unless
\* the mutex was initialised under it, two live clients have one id, or the
\* list is being destroyed.
THEOREM NoUseAfterFree == Spec => []NoWildAccess
<1>1. CInv => NoWildAccess
  <2> SUFFICES ASSUME CInv, hazard \subseteq {"nomem"}, NEW p \in Proc
               PROVE  Touches(p) \subseteq heap
    BY DEF NoWildAccess, WildAccess
  <2>1a. PICK n \in Nat : \E seq \in [1 .. n -> Client] : Linked(seq, n) /\ Worked(seq, n)
    BY DEF CInv, IInv, ListInv
  <2>1. PICK seq \in [1 .. n -> Client] : Linked(seq, n) /\ Worked(seq, n)
    BY <2>1a
  <2>2. \A k \in 1 .. n : <<"cell", seq[k]>> \in heap
    BY <2>1 DEF Linked
  <2>3. \A k \in 1 .. n : <<"info", seq[k]>> \in heap
    <3>1. \A c \in Client : <<"cell", c>> \in heap => <<"info", c>> \in heap
      BY DEF CInv, IInv, Roster, Listed, Served
    <3> QED  BY <2>1, <2>2, <3>1
  <2>4. n # 0 => head = seq[1] /\ 1 \in 1 .. n
    BY <2>1 DEF Linked
  <2>5. CASE p = MAIN
    <3>1. pc[p] \in {"check", "poll", "logon"}
      BY <2>5, MainOutside DEF CInv, IInv, Logons, MainPC
    <3> QED  BY <3>1 DEF Touches
  <2>6. CASE p \in Client
    <3>1. /\ pc[p] \in Served => <<"info", p>> \in heap
          /\ pc[p] \in {"find", "remLoad"} => size = n
      BY <2>1, <2>6, SizeIs DEF CInv, IInv, Roster
    <3>2. CASE pc[p] \in {"recv", "reply", "close"}
      <4>1. Touches(p) = {<<"info", p>>}  BY <3>2 DEF Touches
      <4> QED  BY <3>1, <3>2, <4>1 DEF Listed, Served
    <3>3. CASE pc[p] = "find"
      <4>1. Touches(p) \subseteq {<<"info", p>>} \cup
                IF size # 0 THEN {<<"cell", head>>, <<"info", head>>} ELSE {}
        BY <3>3 DEF Touches
      <4> QED  BY <2>2, <2>3, <2>4, <3>1, <3>3, <4>1 DEF Listed, Served
    <3>4. CASE pc[p] = "walk"
      <4>1. PICK k \in 1 .. n : reg[p].sel = seq[k]
        BY <2>1, <2>6, <3>4 DEF Worked, At
      <4>2. Touches(p) = {<<"cell", seq[k]>>} \cup
                IF next[seq[k]] = NULL THEN {}
                ELSE {<<"cell", next[seq[k]]>>, <<"info", next[seq[k]]>>}
        BY <3>4, <4>1 DEF Touches
      <4>3. next[seq[k]] # NULL => next[seq[k]] = seq[k + 1] /\ k + 1 \in 1 .. n
        <5>1. next[seq[k]] = IF k = n THEN NULL ELSE seq[k + 1]  BY <2>1 DEF Linked
        <5>2. k # n => k + 1 \in 1 .. n  OBVIOUS
        <5> QED  BY <5>1, <5>2
      <4> QED  BY <2>2, <2>3, <4>2, <4>3
    <3>5. CASE pc[p] = "remLoad"
      <4>1. /\ size # 0 /\ Old(p) = p /\ <<"cell", p>> \in heap /\ p # NULL
            /\ reg[p].element # NULL => <<"cell", reg[p].element>> \in heap
        BY <2>6, <3>5, RemovesItself, CServerAssumption
      <4>2. Touches(p) = IF reg[p].element = NULL THEN {<<"cell", head>>}
                         ELSE {<<"cell", reg[p].element>>} \cup {<<"cell", Old(p)>>}
        BY <3>5, <4>1 DEF Touches
      <4>3. <<"cell", head>> \in heap  BY <2>2, <2>4, <3>1, <3>5, <4>1
      <4> QED  BY <4>1, <4>2, <4>3
    <3>6. CASE pc[p] = "remStore"
      <4>1. /\ reg[p].old = p /\ <<"cell", p>> \in heap
            /\ reg[p].element # NULL => <<"cell", reg[p].element>> \in heap
        BY <2>6, <3>6, RemovesItself
      <4>2. Touches(p) = {<<"cell", p>>} \cup
                IF reg[p].element = NULL THEN {} ELSE {<<"cell", reg[p].element>>}
        BY <3>6, <4>1 DEF Touches
      <4> QED  BY <4>1, <4>2
    <3>7. CASE pc[p] = "remCount"
      <4>1. Touches(p) = {<<"info", reg[p].old>>}  BY <3>7 DEF Touches
      <4> QED  BY <2>6, <3>7, <4>1, FreesItself
    <3>8. CASE pc[p] \notin {"recv", "reply", "close", "find", "walk", "remLoad", "remStore",
                             "remCount"}
      BY <3>8 DEF Touches
    <3> QED  BY <3>2, <3>3, <3>4, <3>5, <3>6, <3>7, <3>8
  <2> QED  BY <2>5, <2>6 DEF Proc
<1> QED  BY InitCInv, StepInv, <1>1, PTL DEF Spec

\* A client_info is freed by the thread that uses it, as its last step on the
\* list (tcp.c:206-210), under the same conditions.
THEOREM OwnerFrees == Spec => FreedByOwner
<1> DEFINE Owned == hazard' \subseteq {"nomem"} =>
               \A c \in Client : <<"info", c>> \in heap /\ <<"info", c>> \notin heap'
                              => pc[c] = "remCount" /\ pc'[c] = "remUnlock"
<1>1. CInv /\ [Next]_vars => [Owned]_vars
  <2> SUFFICES ASSUME CInv, Next, hazard' \subseteq {"nomem"}, NEW c \in Client,
                      <<"info", c>> \in heap, <<"info", c>> \notin heap'
               PROVE  pc[c] = "remCount" /\ pc'[c] = "remUnlock"
    OBVIOUS
  <2>0. hazard' \subseteq {"nomem"} /\ <<"info", c>> \in heap /\ <<"info", c>> \notin heap'
    OBVIOUS
  <2>1. \/ \E t \in Client : RemFails(t) \/ RemCount(t)
        \/ Remove(MAIN)
    <3>1. CASE LogonOK \/ LogonFails \/ \E d \in Client : Accept(d)
      BY <2>0, <3>1 DEF LogonOK, LogonFails, DropBuffer, Accept
    <3>2. CASE \E t \in Client : Unlock(t) \/ Loop(t) \/ Reply(t) \/ InsLoad(t) \/ RemStore(t)
      BY <2>0, <3>2 DEF Unlock, Loop, Reply, InsLoad, RemStore
    <3>3. CASE heap' = heap
      BY <2>0, <3>3
    <3>4. CASE Ended \/ (\E d \in Client : Connect(d) \/ HangUp(d)) \/ SigDie \/ Crash
      BY <3>3, <3>4 DEF Ended, vars, Connect, HangUp, SigDie, Crash
    <3>5. CASE InitMutex \/ PollFails \/ Shutdown \/ Exit
      BY <3>3, <3>5 DEF InitMutex, PollFails, Shutdown, Exit
    <3>6. CASE \E t \in Client : \/ Acquire(t) \/ Park(t) \/ InsNoMemory(t) \/ InsStore(t)
                                  \/ InsSize(t) \/ InsCount(t)
      BY <3>3, <3>6 DEF Acquire, Park, InsNoMemory, InsStore, InsSize, InsCount
    <3>7. CASE \E t \in Client : \/ Receive(t) \/ ReceiveFails(t) \/ Close(t) \/ Find(t)
                                  \/ Walk(t) \/ RemLoad(t) \/ RemSize(t)
      BY <3>3, <3>7 DEF Receive, ReceiveFails, Close, Find, Walk, RemLoad, RemSize
    <3> QED  BY <3>1, <3>2, <3>4, <3>5, <3>6, <3>7 DEF Next, Step, Main, Thread, Work, Remove
  <2>2. ~Remove(MAIN)
    <3>1. hazard' = hazard \/ ~Remove(MAIN)
      BY DEF Remove, RemLoad, RemStore, RemSize, RemCount
    <3> QED  BY <2>0, <3>1, MainOutside DEF Remove, RemLoad, RemStore, RemSize, RemCount, Removal
  <2>3. ASSUME NEW t \in Client PROVE ~RemFails(t)
    BY <2>0, RemovesItself, CServerAssumption DEF RemFails
  <2>4. PICK t \in Client : RemCount(t)  BY <2>1, <2>2, <2>3
  <2>5. pc[t] = "remCount" /\ hazard' = hazard  BY <2>4 DEF RemCount
  <2>6. reg[t].old = t  BY <2>0, <2>5, FreesItself
  <2>7. heap' = heap \ {<<"info", t>>} /\ pc' = [pc EXCEPT ![t] = "remUnlock"]
    BY <2>4, <2>6, Types DEF RemCount, Goto
  <2>8. c = t  BY <2>0, <2>7
  <2> QED  BY <2>5, <2>7, <2>8, Types
<1> QED  BY InitCInv, StepInv, <1>1, PTL DEF Spec, FreedByOwner
=============================================================================
