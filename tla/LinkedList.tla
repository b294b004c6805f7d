----------------------------- MODULE LinkedList -----------------------------
(***************************************************************************)
(* The singly linked lists of algolib, and the sets and the queues, which  *)
(* are lists.                                                              *)
(*                                                                         *)
(* A list is a record of its header and of the next fields of its          *)
(* elements.  An element has the name of the datum it carries: no list of  *)
(* the library's callers, whose lists are sets or queues of distinct data, *)
(* carries one datum twice.                                                *)
(***************************************************************************)
EXTENDS Naturals, FiniteSets, SequencesExt

CONSTANTS Element, NULL

\* Memory is finite.
ASSUME LinkedListAssumption == NULL \notin Element /\ IsFiniteSet(Element)

Pointer == Element \cup {NULL}

List == [head : Pointer, tail : Pointer, size : Nat, next : [Element -> Pointer]]

\* list_init.  A next field of memory that is not allocated is NULL.
EmptyList == [head |-> NULL, tail |-> NULL, size |-> 0, next |-> [e \in Element |-> NULL]]

\* list_ins_next(list, element, data), where malloc returns new.
InsNext(list, element, new) ==
    IF element = NULL
    THEN [head |-> new,
          tail |-> IF list.size = 0 THEN new ELSE list.tail,
          size |-> list.size + 1,
          next |-> [list.next EXCEPT ![new] = list.head]]
    ELSE [head |-> list.head,
          tail |-> IF list.next[element] = NULL THEN new ELSE list.tail,
          size |-> list.size + 1,
          next |-> [list.next EXCEPT ![new] = list.next[element], ![element] = new]]

\* The element that list_rem_next(list, element, data) takes off the list.
Old(list, element) == IF element = NULL THEN list.head ELSE list.next[element]

\* It returns -1.
CannotRemove(list, element) ==
    list.size = 0 \/ (element # NULL /\ list.next[element] = NULL)

\* mutant: the new tail is forgotten
RemNextOnly(list, element) ==
    LET old   == Old(list, element)
        after == list.next[old]
    IN  IF element = NULL
        THEN [head |-> after, tail |-> IF list.size = 1 THEN NULL ELSE list.tail,
              size |-> list.size - 1, next |-> [list.next EXCEPT ![old] = NULL]]
        ELSE [head |-> list.head, tail |-> list.tail,
              size |-> list.size - 1,
              next |-> [list.next EXCEPT ![element] = after, ![old] = NULL]]

RemNext(list, element) ==
    LET old   == Old(list, element)
        after == list.next[old]
    IN  IF element = NULL
        THEN [head |-> after,
              tail |-> IF list.size = 1 THEN NULL ELSE list.tail,
              size |-> list.size - 1,
              next |-> [list.next EXCEPT ![old] = NULL]]
        ELSE [head |-> list.head,
              tail |-> IF after = NULL THEN element ELSE list.tail,
              size |-> list.size - 1,
              next |-> [list.next EXCEPT ![element] = after, ![old] = NULL]]

\* What a loop from list_head by list_next meets: an element in each turn,
\* and NULL for good where it ends.
Met(list) ==
    LET met[n \in 1 .. Cardinality(Element) + 1] ==
            IF n = 1 THEN list.head
            ELSE LET e == met[n - 1] IN IF e = NULL THEN NULL ELSE list.next[e]
    IN  met

Chain(list) ==
    LET met == Met(list)
    IN  SubSeq(met, 1, Cardinality({n \in DOMAIN met : met[n] # NULL}))

\* The list is the linked representation of the sequence seq.
Represents(list, seq) ==
    /\ list \in List
    /\ seq \in Seq(Element)
    /\ \A i, j \in 1 .. Len(seq) : seq[i] = seq[j] => i = j
    /\ list.size = Len(seq)
    /\ list.head = IF seq = <<>> THEN NULL ELSE seq[1]
    /\ list.tail = IF seq = <<>> THEN NULL ELSE seq[Len(seq)]
    /\ \A i \in 1 .. Len(seq) :
          list.next[seq[i]] = IF i = Len(seq) THEN NULL ELSE seq[i + 1]

\* The pointer to the i-th element; NULL stands before the first.
At(seq, i) == IF i = 0 THEN NULL ELSE seq[i]

-----------------------------------------------------------------------------
(* set.c and queue.c.                                                      *)

Members(list) == ToSet(Chain(list))

\* set_is_member.
IsMember(set, data) == data \in Members(set)

\* set_insert; it returns 1 for a member.
SetInsert(set, data) == IF IsMember(set, data) THEN set ELSE InsNext(set, set.tail, data)

\* prev when the loop of set_remove breaks at data.
Prev(list, data) ==
    LET chain == Chain(list)
        i     == CHOOSE k \in DOMAIN chain : chain[k] = data
    IN  At(chain, i - 1)

\* set_remove of a member.
SetRemove(set, data) == RemNext(set, Prev(set, data))

\* list, and at its tail the data that a loop over from meets and does not
\* pass over.
Gathered(list, from, kept) ==
    LET chain == Chain(from)
        gathered[n \in 0 .. Len(chain)] ==
            IF n = 0 THEN list
            ELSE LET l == gathered[n - 1]
                 IN  IF chain[n] \in kept THEN InsNext(l, l.tail, chain[n]) ELSE l
    IN  gathered[Len(chain)]

Anything(set) == Element  \* mutant: the other set is not asked
NotMembers(set) == Element \ Members(set)

\* set_union, set_intersection and set_difference, unless memory is short and
\* they destroy what they have made.
SetUnion(set1, set2) == Gathered(Gathered(EmptyList, set1, Element), set2, NotMembers(set1))
SetIntersection(set1, set2) == Gathered(EmptyList, set1, Members(set2))
SetDifference(set1, set2) == Gathered(EmptyList, set1, NotMembers(set2))

\* set_is_subset and set_is_equal.
SetIsSubset(set1, set2) ==
    set1.size <= set2.size /\ \A data \in Members(set1) : IsMember(set2, data)
SetIsEqual(set1, set2) == set1.size = set2.size /\ SetIsSubset(set1, set2)

Push(queue, data) == InsNext(queue, NULL, data)  \* mutant: in front of the others
Enqueue(queue, data) == InsNext(queue, queue.tail, data)
Dequeue(queue) == RemNext(queue, NULL)
Peek(queue) == queue.head
=============================================================================
