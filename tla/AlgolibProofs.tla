---------------------------- MODULE AlgolibProofs ----------------------------
(***************************************************************************)
(* Theorems about algolib, in two halves: its graphs and the searches in   *)
(* them, then its sorts.                                                   *)
(*                                                                         *)
(* graph.c on top of set.c and list.c, for any finite number of vertices:  *)
(* its lists stay intact, and it implements the directed graph that it     *)
(* promises.  And what is made of its graphs: the sets that set.c combines *)
(* (set.c), shortest ways (bfs.c) and topological orders (dfs.c).          *)
(* First what list.c promises its callers, for lists of any length:        *)
(* insertion and removal change the header and the next fields into those  *)
(* of the sequence with an element more or less.                           *)
(***************************************************************************)
EXTENDS GraphSearch, Sorts, SequenceTheorems, Least

-----------------------------------------------------------------------------
(* Lists.                                                                  *)

\* The place of every element after an insertion behind the i-th.
LEMMA Inserted ==
    ASSUME NEW S, NEW s \in Seq(S), NEW i \in 0 .. Len(s), NEW e \in S
    PROVE  LET t == InsertAt(s, i + 1, e) IN
           /\ t \in Seq(S) /\ Len(t) = Len(s) + 1
           /\ \A k \in 1 .. Len(t) :
                 t[k] = IF k <= i THEN s[k] ELSE IF k = i + 1 THEN e ELSE s[k - 1]
<1> DEFINE a == SubSeq(s, 1, i)
           b == SubSeq(s, i + 1, Len(s))
           t == InsertAt(s, i + 1, e)
<1>1. Len(s) \in Nat  BY LenProperties
<1>2. a \in Seq(S) /\ Len(a) = i /\ \A k \in 1 .. i : a[k] = s[k]
  BY <1>1, SubSeqProperties
<1>3. b \in Seq(S) /\ Len(b) = Len(s) - i /\ \A k \in 1 .. Len(s) - i : b[k] = s[k + i]
  BY <1>1, SubSeqProperties
<1>4. <<e>> \in Seq(S) /\ Len(<<e>>) = 1 /\ <<e>>[1] = e
  OBVIOUS
<1>5. a \o <<e>> \in Seq(S) /\ Len(a \o <<e>>) = i + 1
  BY <1>2, <1>4, ConcatProperties
<1>6. t = (a \o <<e>>) \o b
  <2>1. (i + 1) - 1 = i  OBVIOUS
  <2> QED  BY <2>1, Zenon DEF InsertAt
<1> HIDE DEF a, b, t
<1> DEFINE c == a \o <<e>>
<1>7. \A k \in 1 .. i + 1 : c[k] = IF k <= i THEN s[k] ELSE e
  BY <1>2, <1>4, ConcatProperties
<1>9. c \in Seq(S) /\ Len(c) = i + 1
  BY <1>5
<1> HIDE DEF c
<1>10. t = c \o b
  BY <1>6 DEF c
<1>11. t \in Seq(S) /\ Len(t) = Len(s) + 1
  <2>1. t \in Seq(S) /\ Len(t) = Len(c) + Len(b)
    BY <1>3, <1>9, <1>10, ConcatProperties
  <2> QED  BY <2>1, <1>1, <1>3, <1>9
<1>12. ASSUME NEW k \in 1 .. Len(t)
       PROVE  t[k] = IF k <= i THEN s[k] ELSE IF k = i + 1 THEN e ELSE s[k - 1]
  <2>1. t[k] = IF k <= Len(c) THEN c[k] ELSE b[k - Len(c)]
    BY <1>3, <1>9, <1>10, <1>11, ConcatProperties
  <2> QED  BY <2>1, <1>1, <1>3, <1>7, <1>9, <1>11
<1> QED  BY <1>11, <1>12 DEF t

\* The place of every element after the removal of the one behind the i-th.
LEMMA Removed ==
    ASSUME NEW S, NEW s \in Seq(S), NEW i \in 0 .. Len(s) - 1
    PROVE  LET t == RemoveAt(s, i + 1) IN
           /\ t \in Seq(S) /\ Len(t) = Len(s) - 1
           /\ \A k \in 1 .. Len(t) : t[k] = IF k <= i THEN s[k] ELSE s[k + 1]
<1> DEFINE a == SubSeq(s, 1, i)
           b == SubSeq(s, i + 2, Len(s))
           t == RemoveAt(s, i + 1)
<1>1. Len(s) \in Nat /\ i \in Nat /\ i < Len(s)  BY LenProperties
<1>2. a \in Seq(S) /\ Len(a) = i /\ \A k \in 1 .. i : a[k] = s[k]
  BY <1>1, SubSeqProperties
<1>3. b \in Seq(S) /\ Len(b) = Len(s) - i - 1
      /\ \A k \in 1 .. Len(s) - i - 1 : b[k] = s[k + i + 1]
  BY <1>1, SubSeqProperties
<1>4. t = a \o b
  <2>1. (i + 1) - 1 = i /\ (i + 1) + 1 = i + 2  OBVIOUS
  <2> QED  BY <2>1, Zenon DEF RemoveAt
<1> HIDE DEF a, b, t
<1>5. t \in Seq(S) /\ Len(t) = Len(s) - 1
  BY <1>1, <1>2, <1>3, <1>4, ConcatProperties
<1>6. ASSUME NEW k \in 1 .. Len(t)
      PROVE  t[k] = IF k <= i THEN s[k] ELSE s[k + 1]
  BY <1>1, <1>2, <1>3, <1>4, <1>5, ConcatProperties
<1> QED  BY <1>5, <1>6 DEF t

-----------------------------------------------------------------------------

\* What the fields of the list say of the sequence that it represents.
LEMMA Fields ==
    ASSUME NEW list, NEW seq, Represents(list, seq)
    PROVE  /\ list \in List /\ seq \in Seq(Element) /\ Len(seq) \in Nat
           /\ \A k \in 1 .. Len(seq) : seq[k] \in Element /\ seq[k] # NULL
           /\ list.size = Len(seq)
           /\ list.head = IF Len(seq) = 0 THEN NULL ELSE seq[1]
           /\ list.tail = IF Len(seq) = 0 THEN NULL ELSE seq[Len(seq)]
           /\ \A k \in 1 .. Len(seq) :
                 list.next[seq[k]] = IF k = Len(seq) THEN NULL ELSE seq[k + 1]
           /\ \A j, k \in 1 .. Len(seq) : seq[j] = seq[k] => j = k
           /\ list.next \in [Element -> Pointer]
<1>1. seq \in Seq(Element) /\ list \in List  BY DEF Represents
<1>2. Len(seq) \in Nat /\ (Len(seq) = 0 <=> seq = <<>>)  BY <1>1, LenProperties, EmptySeq
<1>3. \A k \in 1 .. Len(seq) : seq[k] \in Element  BY <1>1, ElementOfSeq
<1> QED  BY <1>1, <1>2, <1>3, LinkedListAssumption DEF Represents, List

\* And back.
LEMMA Represented ==
    ASSUME NEW list \in List, NEW t \in Seq(Element), NEW n \in Nat, Len(t) = n,
           list.size = n,
           list.head = IF n = 0 THEN NULL ELSE t[1],
           list.tail = IF n = 0 THEN NULL ELSE t[n],
           \A k \in 1 .. n : list.next[t[k]] = IF k = n THEN NULL ELSE t[k + 1],
           \A j, k \in 1 .. n : t[j] = t[k] => j = k
    PROVE  Represents(list, t)
<1>1. n = 0 <=> t = <<>>  BY EmptySeq
<1> QED  BY <1>1 DEF Represents

\* list_ins_next behind the i-th element, or at the head, of a list that
\* represents seq makes it represent seq with the new element behind the i-th.
THEOREM InsNextRepresents ==
    ASSUME NEW list, NEW seq, Represents(list, seq),
           NEW i \in 0 .. Len(seq),
           NEW new \in Element, \A k \in 1 .. Len(seq) : seq[k] # new
    PROVE  Represents(InsNext(list, At(seq, i), new), InsertAt(seq, i + 1, new))
<1> DEFINE n == Len(seq)
           l == InsNext(list, At(seq, i), new)
           t == InsertAt(seq, i + 1, new)
<1>1. i \in 0 .. n /\ \A k \in 1 .. n : seq[k] # new
  OBVIOUS
<1>2. /\ list \in List /\ seq \in Seq(Element) /\ n \in Nat
      /\ \A k \in 1 .. n : seq[k] \in Element /\ seq[k] # NULL
      /\ list.size = n
      /\ list.head = IF n = 0 THEN NULL ELSE seq[1]
      /\ list.tail = IF n = 0 THEN NULL ELSE seq[n]
      /\ \A k \in 1 .. n : list.next[seq[k]] = IF k = n THEN NULL ELSE seq[k + 1]
      /\ \A j, k \in 1 .. n : seq[j] = seq[k] => j = k
      /\ list.next \in [Element -> Pointer]
  BY Fields
<1>3. /\ t \in Seq(Element) /\ Len(t) = n + 1
      /\ \A k \in 1 .. n + 1 :
            t[k] = IF k <= i THEN seq[k] ELSE IF k = i + 1 THEN new ELSE seq[k - 1]
  BY <1>2, Inserted
<1> HIDE DEF n, t
<1>4. \A j, k \in 1 .. n + 1 : t[j] = t[k] => j = k
  <2> SUFFICES ASSUME NEW j \in 1 .. n + 1, NEW k \in 1 .. n + 1, t[j] = t[k]
               PROVE  j = k
    OBVIOUS
  <2>1. /\ t[j] = IF j <= i THEN seq[j] ELSE IF j = i + 1 THEN new ELSE seq[j - 1]
        /\ t[k] = IF k <= i THEN seq[k] ELSE IF k = i + 1 THEN new ELSE seq[k - 1]
    BY <1>3
  <2>2. \A m \in 1 .. n + 1 : m # i + 1 => t[m] # new
    <3> SUFFICES ASSUME NEW m \in 1 .. n + 1, m # i + 1  PROVE t[m] # new
      OBVIOUS
    <3>1. CASE m <= i
      <4>1. t[m] = seq[m] /\ m \in 1 .. n  BY <1>1, <1>2, <1>3, <3>1
      <4> QED  BY <1>1, <4>1
    <3>2. CASE m > i + 1
      <4>1. t[m] = seq[m - 1] /\ m - 1 \in 1 .. n  BY <1>1, <1>2, <1>3, <3>2
      <4> QED  BY <1>1, <4>1
    <3> QED  BY <1>1, <1>2, <3>1, <3>2
  <2>3. CASE j = i + 1 \/ k = i + 1
    <3>1. t[i + 1] = new  BY <1>1, <1>2, <1>3
    <3> QED  BY <2>2, <2>3, <3>1
  <2>4. CASE j # i + 1 /\ k # i + 1
    <3> DEFINE from(m) == IF m <= i THEN m ELSE m - 1
    <3>1. from(j) \in 1 .. n /\ from(k) \in 1 .. n  BY <1>1, <1>2, <2>4
    <3>2. seq[from(j)] = seq[from(k)]  BY <2>1, <2>4
    <3>3. from(j) = from(k)  BY <1>2, <3>1, <3>2, Zenon
    <3> QED  BY <1>1, <1>2, <2>4, <3>3, SMTT(60)
  <2> QED  BY <2>2, <2>3, <2>4
<1>7. n + 1 \in Nat /\ (n + 1 # 0)  BY <1>2
<1>5. CASE i = 0
  <2>1. l = [head |-> new, tail |-> IF n = 0 THEN new ELSE list.tail,
             size |-> n + 1, next |-> [list.next EXCEPT ![new] = list.head]]
    BY <1>2, <1>5 DEF InsNext, At
  <2> HIDE DEF l
  <2>2. l \in List
    BY <1>2, <2>1 DEF List, Pointer
  <2>3. l.size = n + 1 /\ l.head = t[1] /\ l.tail = t[n + 1]
    BY <1>2, <1>3, <1>5, <2>1
  <2>4. \A k \in 1 .. n + 1 : l.next[t[k]] = IF k = n + 1 THEN NULL ELSE t[k + 1]
    BY <1>1, <1>2, <1>3, <1>5, <2>1, SMTT(60)
  <2>5. Represents(l, t)
    BY <1>2, <1>3, <1>4, <1>7, <2>2, <2>3, <2>4, Represented, ZenonT(60)
  <2> QED  BY <2>5 DEF l, t
<1>6. CASE i > 0
  <2>1. l = [head |-> list.head, tail |-> IF i = n THEN new ELSE list.tail,
             size |-> n + 1,
             next |-> [list.next EXCEPT ![new] = list.next[seq[i]], ![seq[i]] = new]]
    BY <1>1, <1>2, <1>6, SMTT(60) DEF InsNext, At
  <2> HIDE DEF l
  <2>2. l \in List
    BY <1>1, <1>2, <1>6, <2>1 DEF List, Pointer
  <2>3. l.size = n + 1 /\ l.head = t[1] /\ l.tail = t[n + 1]
    BY <1>1, <1>2, <1>3, <1>6, <2>1
  <2>4. ASSUME NEW k \in 1 .. n + 1
        PROVE  l.next[t[k]] = IF k = n + 1 THEN NULL ELSE t[k + 1]
    <3>1. l.next[seq[i]] = new /\ l.next[new] = list.next[seq[i]]
      BY <1>1, <1>2, <1>6, <2>1
    <3>2. \A m \in 1 .. n : m # i => l.next[seq[m]] = list.next[seq[m]]
      BY <1>1, <1>2, <1>6, <2>1
    <3>3. CASE k < i
      <4>0. k + 1 \in 1 .. n + 1 /\ k + 1 <= i  BY <1>1, <1>2, <3>3
      <4>1. t[k] = seq[k] /\ t[k + 1] = seq[k + 1]
        <5>1. t[k] = seq[k]  BY <1>3, <3>3, <4>0
        <5>2. t[k + 1] = seq[k + 1]  BY <1>3, <4>0
        <5> QED  BY <5>1, <5>2
      <4>2. l.next[seq[k]] = list.next[seq[k]]  BY <1>1, <1>2, <3>2, <3>3
      <4>3. list.next[seq[k]] = seq[k + 1]  BY <1>1, <1>2, <3>3
      <4> QED  BY <1>1, <1>2, <3>3, <4>1, <4>2, <4>3
    <3>4. CASE k = i
      BY <1>1, <1>2, <1>3, <1>6, <3>1, <3>4
    <3>5. CASE k = i + 1
      BY <1>1, <1>2, <1>3, <1>6, <3>1, <3>5
    <3>6. CASE k > i + 1
      <4>1. t[k] = seq[k - 1] /\ (k # n + 1 => t[k + 1] = seq[k])
        <5>1. /\ ~(k <= i) /\ k # i + 1
              /\ k # n + 1 => /\ k + 1 \in 1 .. n + 1 /\ ~(k + 1 <= i)
                              /\ k + 1 # i + 1 /\ (k + 1) - 1 = k
          BY <1>1, <1>2, <3>6
        <5>2. t[k] = seq[k - 1]  BY <1>3, <5>1
        <5>3. ASSUME k # n + 1  PROVE t[k + 1] = seq[k]
          <6>1. t[k + 1] = seq[(k + 1) - 1]  BY <1>3, <5>1, <5>3
          <6> QED  BY <5>1, <5>3, <6>1
        <5> QED  BY <5>2, <5>3
      <4>2. l.next[seq[k - 1]] = list.next[seq[k - 1]]  BY <1>1, <1>2, <3>2, <3>6
      <4>3. list.next[seq[k - 1]] = IF k = n + 1 THEN NULL ELSE seq[k]
        <5>1. k - 1 \in 1 .. n /\ (k - 1 = n <=> k = n + 1) /\ (k - 1) + 1 = k
          BY <1>1, <1>2, <3>6
        <5> QED  BY <1>2, <5>1
      <4> QED  BY <4>1, <4>2, <4>3
    <3> QED  BY <1>1, <1>2, <3>3, <3>4, <3>5, <3>6
  <2>5. Represents(l, t)
    BY <1>2, <1>3, <1>4, <1>7, <2>2, <2>3, <2>4, Represented, ZenonT(60)
  <2> QED  BY <2>5 DEF l, t
<1> QED  BY <1>5, <1>6, <1>1

\* list_rem_next fails at the tail, and on an empty list, only.
THEOREM CannotRemoveAtTail ==
    ASSUME NEW list, NEW seq, Represents(list, seq), NEW i \in 0 .. Len(seq)
    PROVE  CannotRemove(list, At(seq, i)) <=> i = Len(seq)
<1> DEFINE n == Len(seq)
<1>1. /\ n \in Nat /\ list.size = n /\ i \in 0 .. n
      /\ \A k \in 1 .. n : seq[k] # NULL
      /\ \A k \in 1 .. n : list.next[seq[k]] = IF k = n THEN NULL ELSE seq[k + 1]
  BY Fields
<1> HIDE DEF n
<1> QED  BY <1>1 DEF CannotRemove, At, n

\* list_rem_next behind any other element, or of the head, returns the
\* element that comes next and makes the list represent seq without it.
THEOREM RemNextRepresents ==
    ASSUME NEW list, NEW seq, Represents(list, seq), NEW i \in 0 .. Len(seq) - 1
    PROVE  /\ Old(list, At(seq, i)) = seq[i + 1]
           /\ Represents(RemNext(list, At(seq, i)), RemoveAt(seq, i + 1))
<1> DEFINE n == Len(seq)
           l == RemNext(list, At(seq, i))
           t == RemoveAt(seq, i + 1)
<1>1. /\ list \in List /\ seq \in Seq(Element) /\ n \in Nat /\ i \in 0 .. n - 1
      /\ \A k \in 1 .. n : seq[k] \in Element /\ seq[k] # NULL
      /\ list.size = n
      /\ list.head = IF n = 0 THEN NULL ELSE seq[1]
      /\ list.tail = IF n = 0 THEN NULL ELSE seq[n]
      /\ \A k \in 1 .. n : list.next[seq[k]] = IF k = n THEN NULL ELSE seq[k + 1]
      /\ \A j, k \in 1 .. n : seq[j] = seq[k] => j = k
      /\ list.next \in [Element -> Pointer]
  BY Fields
<1>2. /\ t \in Seq(Element) /\ Len(t) = n - 1
      /\ \A k \in 1 .. n - 1 : t[k] = IF k <= i THEN seq[k] ELSE seq[k + 1]
  BY <1>1, Removed
<1> HIDE DEF n, t
<1>3. \A j, k \in 1 .. n - 1 : t[j] = t[k] => j = k
  BY <1>1, <1>2
<1>4. Old(list, At(seq, i)) = seq[i + 1]
  BY <1>1 DEF Old, At
<1>7. n - 1 \in Nat  BY <1>1
<1>5. CASE i = 0
  <2>1. l = [head |-> IF n = 1 THEN NULL ELSE seq[2],
             tail |-> IF n = 1 THEN NULL ELSE list.tail,
             size |-> n - 1, next |-> [list.next EXCEPT ![seq[1]] = NULL]]
    BY <1>1, <1>4, <1>5 DEF RemNext, At
  <2> HIDE DEF l
  <2>2. l \in List
    BY <1>1, <1>5, <2>1 DEF List, Pointer
  <2>3. /\ l.size = n - 1
        /\ l.head = IF n - 1 = 0 THEN NULL ELSE t[1]
        /\ l.tail = IF n - 1 = 0 THEN NULL ELSE t[n - 1]
    BY <1>1, <1>2, <1>5, <2>1
  <2>4. \A k \in 1 .. n - 1 : l.next[t[k]] = IF k = n - 1 THEN NULL ELSE t[k + 1]
    BY <1>1, <1>2, <1>5, <2>1
  <2>5. Represents(l, t)
    BY <1>1, <1>2, <1>3, <1>7, <2>2, <2>3, <2>4, Represented, Zenon
  <2> QED  BY <2>5, <1>4 DEF l, t
<1>6. CASE i > 0
  <2> DEFINE after == IF i + 1 = n THEN NULL ELSE seq[i + 2]
  <2>0. /\ At(seq, i) = seq[i] /\ seq[i] # NULL
        /\ list.next[seq[i + 1]] = after /\ (after = NULL <=> i + 1 = n)
        /\ seq[i] \in Element /\ seq[i + 1] \in Element /\ after \in Pointer
    BY <1>1, <1>6 DEF At, Pointer
  <2> HIDE DEF after
  <2>1. l = [head |-> list.head, tail |-> IF i + 1 = n THEN seq[i] ELSE list.tail,
             size |-> n - 1,
             next |-> [list.next EXCEPT ![seq[i]] = after, ![seq[i + 1]] = NULL]]
    BY <1>1, <1>4, <2>0 DEF RemNext
  <2> HIDE DEF l
  <2>2. l \in List
    BY <1>1, <1>7, <2>0, <2>1 DEF List, Pointer
  <2>3. /\ l.size = n - 1
        /\ l.head = IF n - 1 = 0 THEN NULL ELSE t[1]
        /\ l.tail = IF n - 1 = 0 THEN NULL ELSE t[n - 1]
    BY <1>1, <1>2, <1>6, <2>1
  <2>4. ASSUME NEW k \in 1 .. n - 1
        PROVE  l.next[t[k]] = IF k = n - 1 THEN NULL ELSE t[k + 1]
    <3>1. l.next[seq[i]] = after
      BY <1>1, <1>6, <2>0, <2>1
    <3>2. \A m \in 1 .. n : m # i /\ m # i + 1 => l.next[seq[m]] = list.next[seq[m]]
      BY <1>1, <1>6, <2>0, <2>1
    <3>3. CASE k < i
      <4>1. t[k] = seq[k] /\ t[k + 1] = seq[k + 1]  BY <1>1, <1>2, <3>3
      <4>2. l.next[seq[k]] = list.next[seq[k]]  BY <1>1, <3>2, <3>3
      <4>3. list.next[seq[k]] = seq[k + 1]
        <5>1. k \in 1 .. n /\ k # n  BY <1>1, <3>3
        <5> QED  BY <1>1, <5>1
      <4> QED  BY <1>1, <3>3, <4>1, <4>2, <4>3
    <3>4. CASE k = i
      BY <1>1, <1>2, <1>6, <3>1, <3>4 DEF after
    <3>5. CASE k > i
      <4>1. t[k] = seq[k + 1] /\ (k # n - 1 => t[k + 1] = seq[(k + 1) + 1])
        BY <1>1, <1>2, <3>5
      <4>2. k + 1 \in 1 .. n /\ k + 1 # i /\ k + 1 # i + 1 /\ (k + 1 = n <=> k = n - 1)
        BY <1>1, <3>5
      <4>3. l.next[seq[k + 1]] = list.next[seq[k + 1]]  BY <3>2, <4>2
      <4>4. list.next[seq[k + 1]] = IF k + 1 = n THEN NULL ELSE seq[(k + 1) + 1]
        BY <1>1, <4>2
      <4> QED  BY <4>1, <4>2, <4>3, <4>4
    <3> QED  BY <1>1, <3>3, <3>4, <3>5
  <2>5. Represents(l, t)
    BY <1>1, <1>2, <1>3, <1>7, <2>2, <2>3, <2>4, Represented, Zenon
  <2> QED  BY <2>5, <1>4 DEF l, t
<1> QED  BY <1>5, <1>6, <1>1

-----------------------------------------------------------------------------
(* Graphs.                                                                 *)

\* A list that represents a sequence is no longer than memory allows.
LEMMA FitsInMemory ==
    ASSUME NEW list, NEW seq, Represents(list, seq)
    PROVE  Len(seq) \in Nat /\ Cardinality(Element) \in Nat /\ Len(seq) <= Cardinality(Element)
<1>1. /\ seq \in Seq(Element) /\ Len(seq) \in Nat
      /\ \A j, k \in 1 .. Len(seq) : seq[j] = seq[k] => j = k
  BY Fields
<1>2. Cardinality(Element) \in Nat  BY LinkedListAssumption, FS_CardinalityType
<1>3. IsFiniteSet(1 .. Len(seq)) /\ Cardinality(1 .. Len(seq)) = Len(seq)
  BY <1>1, UpTo
<1>4. seq \in [1 .. Len(seq) -> Element]  BY <1>1, LenProperties
<1>5. ~(Cardinality(Element) < Cardinality(1 .. Len(seq)))
  BY <1>1, <1>3, <1>4, LinkedListAssumption, FS_PigeonHole
<1> QED  BY <1>1, <1>2, <1>3, <1>5

\* The turns of a loop over a list that represents seq: there is a function
\* that obeys the recursion, and only one.
LEMMA Meets ==
    ASSUME NEW list, NEW seq, Represents(list, seq)
    PROVE  Met(list) = [n \in 1 .. Cardinality(Element) + 1 |->
                           IF n <= Len(seq) THEN seq[n] ELSE NULL]
<1> DEFINE last == Cardinality(Element) + 1
           len == Len(seq)
           Turn(f, n) == IF n = 1 THEN list.head
                         ELSE IF f[n - 1] = NULL THEN NULL ELSE list.next[f[n - 1]]
           g == [n \in 1 .. last |-> IF n <= len THEN seq[n] ELSE NULL]
<1>1. len \in Nat /\ last \in Nat /\ len < last
  BY FitsInMemory
<1>2. /\ list.head = IF len = 0 THEN NULL ELSE seq[1]
      /\ \A k \in 1 .. len : /\ seq[k] # NULL
                             /\ list.next[seq[k]] = IF k = len THEN NULL ELSE seq[k + 1]
  BY Fields
<1>3. Met(list) = CHOOSE f : f = [n \in 1 .. last |-> Turn(f, n)]
  BY DEF Met
<1> HIDE DEF last, len
<1>4. g = [n \in 1 .. last |-> Turn(g, n)]
  <2> SUFFICES ASSUME NEW n \in 1 .. last PROVE g[n] = Turn(g, n)  OBVIOUS
  <2>1. CASE n = 1  BY <1>1, <1>2, <2>1
  <2>2. CASE n # 1
    <3>1. n - 1 \in 1 .. last /\ n \in Nat  BY <1>1, <2>2
    <3>2. CASE n - 1 <= len
      <4>1. n - 1 \in 1 .. len /\ g[n - 1] = seq[n - 1]  BY <1>1, <3>1, <3>2
      <4>2. Turn(g, n) = IF n - 1 = len THEN NULL ELSE seq[(n - 1) + 1]
        BY <1>2, <2>2, <4>1
      <4> QED  BY <1>1, <3>1, <3>2, <4>2
    <3>3. CASE ~(n - 1 <= len)
      BY <1>1, <2>2, <3>1, <3>3
    <3> QED  BY <3>2, <3>3
  <2> QED  BY <2>1, <2>2
<1>5. ASSUME NEW f, f = [n \in 1 .. last |-> Turn(f, n)] PROVE f = g
  <2> DEFINE T == {n \in 1 .. last : f[n] # g[n]}
  <2>1. T = {}
    <3> SUFFICES ASSUME T # {} PROVE FALSE  OBVIOUS
    <3>1. T \in SUBSET Nat  BY <1>1
    <3>2. PICK m \in T : \A k \in T : m <= k  BY <3>1, LeastNat
    <3>3. m \in 1 .. last /\ m \in Nat /\ f[m] = Turn(f, m) /\ g[m] = Turn(g, m)
      <4>1. m \in 1 .. last /\ m \in Nat  BY <1>1, <3>2
      <4> HIDE DEF Turn
      <4>2. \A h : h = [n \in 1 .. last |-> Turn(h, n)] => h[m] = Turn(h, m)
        BY <4>1
      <4> HIDE DEF g
      <4> QED  BY <1>4, <1>5, <4>1, <4>2
    <3>4. m # 1  BY <3>2, <3>3
    <3>5. m - 1 \in 1 .. last /\ m - 1 \notin T  BY <1>1, <3>2, <3>3, <3>4
    <3>6. f[m - 1] = g[m - 1]  BY <3>5
    <3> QED  BY <3>2, <3>3, <3>6
  <2>2. DOMAIN f = 1 .. last  BY <1>5
  <2> QED  BY <1>5, <2>1
<1> HIDE DEF g, Turn
<1>6. Met(list) = g  BY <1>3, <1>4, <1>5
<1> QED  BY <1>6 DEF g, last, len

\* A list represents one sequence, and a loop over it meets that one.
LEMMA ChainIs ==
    ASSUME NEW list, NEW seq, Represents(list, seq)
    PROVE  Chain(list) = seq
<1> DEFINE last == Cardinality(Element) + 1
           len == Len(seq)
           met == Met(list)
           elements == {n \in DOMAIN met : met[n] # NULL}
<1>1. len \in Nat /\ last \in Nat /\ len < last
  BY FitsInMemory
<1>2. seq \in Seq(Element) /\ \A k \in 1 .. len : seq[k] \in Element /\ seq[k] # NULL
  BY Fields
<1>3. met = [n \in 1 .. last |-> IF n <= len THEN seq[n] ELSE NULL]
  BY Meets
<1> HIDE DEF met, last, len
<1>4. elements = 1 .. len
  BY <1>1, <1>2, <1>3
<1>5. Cardinality(elements) = len
  BY <1>1, <1>4, UpTo
<1>6. Chain(list) = SubSeq(met, 1, len)
  BY <1>5 DEF Chain, met
<1>7. \A k \in 1 .. len : met[k] = seq[k] /\ met[k] \in Element
  BY <1>1, <1>2, <1>3
<1> DEFINE chain == Chain(list)
<1>8. /\ chain \in Seq(Element) /\ Len(chain) = len
      /\ \A k \in 1 .. len : chain[k] = seq[k]
  <2> DEFINE c == SubSeq(met, 1, len)
  <2>1. /\ c \in Seq(Element) /\ Len(c) = IF 1 <= len THEN len - 1 + 1 ELSE 0
        /\ \A k \in 1 .. len - 1 + 1 : c[k] = met[1 + k - 1]
    BY <1>1, <1>7, SubSeqProperties
  <2> HIDE DEF c
  <2>2. Len(c) = len  BY <1>1, <2>1
  <2>3. ASSUME NEW k \in 1 .. len PROVE c[k] = seq[k]
    <3>1. k \in 1 .. len - 1 + 1 /\ 1 + k - 1 = k  BY <1>1
    <3> QED  BY <1>7, <2>1, <3>1
  <2> QED  BY <1>6, <2>1, <2>2, <2>3 DEF c
<1> HIDE DEF chain
<1>9. chain = seq
  BY <1>2, <1>8, LenProperties, SeqEqual DEF len
<1> QED  BY <1>9 DEF chain

\* The set of the data of a list.
LEMMA MembersAre ==
    ASSUME NEW list, NEW seq, Represents(list, seq)
    PROVE  /\ Members(list) = {seq[k] : k \in 1 .. Len(seq)}
           /\ Members(list) \subseteq Element /\ IsFiniteSet(Members(list))
           /\ Cardinality(Members(list)) = list.size
           /\ list.size = 0 <=> Members(list) = {}
<1> DEFINE len == Len(seq)
<1>1. /\ seq \in Seq(Element) /\ len \in Nat /\ list.size = len
      /\ \A k \in 1 .. len : seq[k] \in Element
      /\ \A j, k \in 1 .. len : seq[j] = seq[k] => j = k
  BY Fields
<1>2. DOMAIN seq = 1 .. len  BY <1>1, LenProperties
<1>3. Members(list) = {seq[k] : k \in 1 .. len}
  BY <1>2, ChainIs DEF Members, ToSet
<1>4. Members(list) \subseteq Element  BY <1>1, <1>3
<1>5. IsFiniteSet(Members(list))  BY <1>4, LinkedListAssumption, FS_Subset
<1>6. Cardinality(Members(list)) = len
  <2> DEFINE m == Members(list)
  <2>1. IsFiniteSet(1 .. len) /\ Cardinality(1 .. len) = len
    BY <1>1, UpTo
  <2>2. seq \in [1 .. len -> m]  BY <1>1, <1>2, <1>3, LenProperties
  <2>3. seq \in Bijection(1 .. len, m)
    BY <1>1, <1>3, <2>2 DEF Bijection, Injection, Surjection, IsInjective
  <2>4. ExistsBijection(1 .. len, m)  BY <2>3 DEF ExistsBijection
  <2> QED  BY <2>1, <2>4, FS_Bijection
<1>7. Cardinality(Members(list)) = list.size  BY <1>1, <1>6
<1>8. list.size = 0 <=> Members(list) = {}  BY <1>5, <1>7, FS_EmptySet
<1> QED  BY <1>3, <1>4, <1>5, <1>7, <1>8

-----------------------------------------------------------------------------
(* The operations of list.c and set.c as the graph uses them.              *)

Intact(list) == Represents(list, Chain(list))

LEMMA IntactIf ==
    ASSUME NEW list, NEW seq, Represents(list, seq)
    PROVE  Intact(list)
BY ChainIs DEF Intact

LEMMA EmptyIsIntact == Intact(EmptyList) /\ Members(EmptyList) = {}
<1>1. EmptyList \in List  BY DEF EmptyList, List, Pointer
<1>2. Represents(EmptyList, <<>>)
  BY <1>1 DEF EmptyList, Represents
<1> QED  BY <1>2, IntactIf, MembersAre DEF EmptyList

\* list_ins_next at the tail.
LEMMA Adds ==
    ASSUME NEW list, Intact(list), NEW new \in Element, new \notin Members(list),
           NEW l, l = InsNext(list, list.tail, new)
    PROVE  Intact(l) /\ Members(l) = Members(list) \cup {new}
<1> DEFINE seq == Chain(list)
           n == Len(seq)
           t == InsertAt(seq, n + 1, new)
<1>1. /\ Represents(list, seq) /\ seq \in Seq(Element) /\ n \in Nat
      /\ list.tail = IF n = 0 THEN NULL ELSE seq[n]
  BY Fields DEF Intact
<1>2. Members(list) = {seq[k] : k \in 1 .. n}  BY <1>1, MembersAre
<1>3. list.tail = At(seq, n)  BY <1>1 DEF At
<1>4. Represents(l, t)
  <2>1. n \in 0 .. n /\ \A k \in 1 .. n : seq[k] # new  BY <1>1, <1>2
  <2> QED  BY <1>1, <1>3, <2>1, InsNextRepresents
<1>5. /\ Len(t) = n + 1
      /\ \A k \in 1 .. n + 1 : t[k] = IF k <= n THEN seq[k] ELSE IF k = n + 1 THEN new ELSE seq[k - 1]
  <2>1. PICK i \in 0 .. n : i = n  BY <1>1
  <2>2. /\ Len(InsertAt(seq, i + 1, new)) = n + 1
        /\ \A k \in 1 .. n + 1 :
              InsertAt(seq, i + 1, new)[k]
                = IF k <= i THEN seq[k] ELSE IF k = i + 1 THEN new ELSE seq[k - 1]
    BY <1>1, Inserted
  <2> QED  BY <2>1, <2>2
<1>6. Members(l) = {t[k] : k \in 1 .. Len(t)}  BY <1>4, MembersAre
<1> HIDE DEF t, n, seq
<1>7. Members(l) = Members(list) \cup {new}
  <2>1. \A k \in 1 .. n : k \in 1 .. n + 1 /\ t[k] = seq[k]  BY <1>1, <1>5
  <2>2. n + 1 \in 1 .. n + 1 /\ t[n + 1] = new  BY <1>1, <1>5
  <2>3. \A k \in 1 .. n + 1 : k \in 1 .. n \/ k = n + 1  BY <1>1
  <2> QED  BY <1>2, <1>5, <1>6, <2>1, <2>2, <2>3
<1> QED  BY <1>4, <1>7, IntactIf

\* list_rem_next behind the element that the loop of set_remove, or that of
\* graph_rem_vertex, has found in front of the datum.
LEMMA Takes ==
    ASSUME NEW list, Intact(list), NEW datum \in Members(list),
           NEW l, l = RemNext(list, Prev(list, datum))
    PROVE  Intact(l) /\ Members(l) = Members(list) \ {datum}
<1> DEFINE seq == Chain(list)
           n == Len(seq)
<1>1. /\ Represents(list, seq) /\ seq \in Seq(Element) /\ n \in Nat
      /\ \A j, k \in 1 .. n : seq[j] = seq[k] => j = k
  BY Fields DEF Intact
<1>2. Members(list) = {seq[k] : k \in 1 .. n}  BY <1>1, MembersAre
<1>3. DOMAIN seq = 1 .. n  BY <1>1, LenProperties
<1> DEFINE p == CHOOSE k \in DOMAIN seq : seq[k] = datum
<1>4. p \in 1 .. n /\ seq[p] = datum
  BY <1>2, <1>3
<1>5. Prev(list, datum) = At(seq, p - 1)  BY DEF Prev
<1> HIDE DEF p
<1> DEFINE i == p - 1
           t == RemoveAt(seq, i + 1)
<1>6. i \in 0 .. n - 1 /\ i + 1 = p  BY <1>1, <1>4
<1>7. Represents(l, t)  BY <1>1, <1>5, <1>6, RemNextRepresents
<1>8. /\ Len(t) = n - 1
      /\ \A k \in 1 .. n - 1 : t[k] = IF k <= i THEN seq[k] ELSE seq[k + 1]
  BY <1>1, <1>6, Removed
<1>9. Members(l) = {t[k] : k \in 1 .. Len(t)}  BY <1>7, MembersAre
<1> HIDE DEF t, n, seq, i
<1>10. Members(l) = Members(list) \ {datum}
  <2>1. ASSUME NEW k \in 1 .. n - 1 PROVE t[k] \in Members(list) \ {datum}
    <3>1. CASE k <= i
      <4>1. k \in 1 .. n /\ k # p  BY <1>1, <1>6, <3>1
      <4> QED  BY <1>1, <1>2, <1>4, <1>8, <3>1, <4>1
    <3>2. CASE ~(k <= i)
      <4>1. k + 1 \in 1 .. n /\ k + 1 # p  BY <1>1, <1>6, <3>2
      <4>2. t[k] = seq[k + 1]  BY <1>8, <3>2
      <4> QED  BY <1>1, <1>2, <1>4, <4>1, <4>2
    <3> QED  BY <3>1, <3>2
  <2>2. ASSUME NEW k \in 1 .. n, k # p PROVE seq[k] \in {t[j] : j \in 1 .. n - 1}
    <3>1. CASE k <= i
      <4>1. k \in 1 .. n - 1  BY <1>1, <1>6, <3>1
      <4> QED  BY <1>8, <3>1, <4>1
    <3>2. CASE ~(k <= i)
      <4>1. k - 1 \in 1 .. n - 1 /\ ~(k - 1 <= i) /\ (k - 1) + 1 = k
        BY <1>1, <1>4, <1>6, <2>2, <3>2
      <4>2. t[k - 1] = seq[(k - 1) + 1]  BY <1>8, <4>1
      <4> QED  BY <4>1, <4>2
    <3> QED  BY <3>1, <3>2
  <2>3. Members(list) \ {datum} \subseteq {t[j] : j \in 1 .. n - 1}
    BY <1>2, <1>4, <2>2
  <2>4. Members(l) = {t[j] : j \in 1 .. n - 1}  BY <1>8, <1>9
  <2> QED  BY <2>1, <2>3, <2>4
<1> QED  BY <1>7, <1>10, IntactIf

-----------------------------------------------------------------------------
(* The graph.                                                              *)

\* What the promise rests on: the lists are right, those of the vertices
\* that have been removed too, and the abstract graph is consistent.
GraphInv ==
    /\ adjacent \in [Vertex -> List]
    /\ Intact(adjlists)
    /\ \A v \in Vertex : Intact(adjacent[v])
    /\ Promised!Consistent

\* The numbers are those of this module's FiniteSets.
LEMMA ConsistentIs ==
    Promised!Consistent <=> /\ IsFiniteSet(Vertices) /\ IsFiniteSet(Edges)
                            /\ Edges \subseteq Vertices \X Vertices
                            /\ vcount = Cardinality(Vertices) /\ ecount = Cardinality(Edges)
BY Zenon DEF Promised!Consistent, Promised!Cardinality, Cardinality,
             Promised!IsFiniteSet, IsFiniteSet

LEMMA VerticesAre ==
    ASSUME GraphInv
    PROVE  /\ Vertices \subseteq Vertex
           /\ \A v \in Vertex : Members(adjacent[v]) \subseteq Vertex
           /\ \A a, b : <<a, b>> \in Edges <=> a \in Vertices /\ b \in Members(adjacent[a])
           /\ Edges = {e \in Vertex \X Vertex : e \in Edges}
<1>1. Vertices \subseteq Vertex
  BY MembersAre DEF GraphInv, Intact, Vertices, Vertex
<1>2. \A v \in Vertex : Members(adjacent[v]) \subseteq Vertex
  BY MembersAre DEF GraphInv, Intact, Vertex
<1>3. \A a, b : <<a, b>> \in Edges <=> a \in Vertices /\ b \in Members(adjacent[a])
  BY DEF Edges
<1>4. Edges = {e \in Vertex \X Vertex : e \in Edges}
  BY <1>1, <1>2 DEF Edges
<1> QED  BY <1>1, <1>2, <1>3, <1>4

LEMMA InitGraph == Init => GraphInv /\ Promised!Init
<1> SUFFICES ASSUME Init PROVE GraphInv /\ Promised!Init  OBVIOUS
<1>1. EmptyList \in List /\ Intact(EmptyList) /\ Members(EmptyList) = {}
  BY EmptyIsIntact, Fields DEF Intact
<1>2. Vertices = {} /\ Edges = {}
  BY <1>1 DEF Init, Vertices, Edges
<1>3. Promised!Init  BY <1>2 DEF Init, Promised!Init
<1>4. Promised!Consistent
  BY <1>2, FS_EmptySet, ConsistentIs DEF Init
<1> QED  BY <1>1, <1>3, <1>4 DEF Init, GraphInv

\* What a step leaves to show: that the lists stay right, and which step of
\* the abstract graph it is.
Lists ==
    /\ adjacent \in [Vertex -> List]
    /\ Intact(adjlists)
    /\ \A v \in Vertex : Intact(adjacent[v])

\* A new vertex is given an empty set, whatever the memory held before.
LEMMA InsVertexSteps ==
    ASSUME GraphInv, NEW v \in Vertex, InsVertex(v)
    PROVE  Lists' /\ Promised!InsVertex(v)
<1>1. Intact(adjlists') /\ Vertices' = Vertices \cup {v}
  BY Adds DEF GraphInv, InsVertex, IsVertex, Vertices, Vertex
<1>2. EmptyList \in List /\ Intact(EmptyList) /\ Members(EmptyList) = {}
  BY EmptyIsIntact, Fields DEF Intact
<1>3. /\ v \notin Vertices /\ vcount' = vcount + 1 /\ ecount' = ecount
      /\ adjacent \in [Vertex -> List]
      /\ adjacent' = [adjacent EXCEPT ![v] = EmptyList]
  BY DEF GraphInv, InsVertex, IsVertex, Vertices
<1>4. adjacent' \in [Vertex -> List] /\ \A u \in Vertex : Intact(adjacent'[u])
  BY <1>2, <1>3 DEF GraphInv
<1>5. Members(adjacent'[v]) = {} /\ \A u \in Vertices : adjacent'[u] = adjacent[u]
  BY <1>2, <1>3
<1>6. Edges' = Edges
  BY <1>1, <1>5 DEF Edges
<1> QED  BY <1>1, <1>3, <1>4, <1>6 DEF Lists, Promised!InsVertex

LEMMA InsEdgeSteps ==
    ASSUME GraphInv, NEW a \in Vertex, NEW b \in Vertex, InsEdge(a, b)
    PROVE  Lists' /\ Promised!InsEdge(a, b)
<1>1. /\ a \in Vertices /\ b \in Vertices /\ b \notin Members(adjacent[a])
      /\ adjacent \in [Vertex -> List] /\ Intact(adjacent[a])
      /\ adjacent' = [adjacent EXCEPT ![a] = InsNext(adjacent[a], adjacent[a].tail, b)]
      /\ ecount' = ecount + 1 /\ vcount' = vcount /\ adjlists' = adjlists
  BY DEF GraphInv, InsEdge, IsVertex, IsMember, SetInsert, Vertices
<1>2. PICK l : l = InsNext(adjacent[a], adjacent[a].tail, b)  OBVIOUS
<1>3. Intact(l) /\ Members(l) = Members(adjacent[a]) \cup {b}
  BY <1>1, <1>2, Adds DEF Vertex
<1>4. l \in List  BY <1>3, Fields DEF Intact
<1>5. /\ adjacent' \in [Vertex -> List] /\ adjacent'[a] = l
      /\ \A u \in Vertex \ {a} : adjacent'[u] = adjacent[u]
  BY <1>1, <1>2, <1>4
<1>6. \A u \in Vertex : Intact(adjacent'[u])
  BY <1>3, <1>5 DEF GraphInv
<1>7. Vertices' = Vertices  BY <1>1 DEF Vertices
<1>8. Edges' = Edges \cup {<<a, b>>}
  <2>1. \A u \in Vertices : Members(adjacent'[u]) =
                              IF u = a THEN Members(adjacent[a]) \cup {b} ELSE Members(adjacent[u])
    BY <1>3, <1>5, VerticesAre
  <2>2. Edges' = UNION {{u} \X Members(adjacent'[u]) : u \in Vertices}
    BY <1>7 DEF Edges
  <2> QED  BY <1>1, <2>1, <2>2 DEF Edges
<1>9. <<a, b>> \notin Edges  BY <1>1, VerticesAre
<1> QED  BY <1>1, <1>5, <1>6, <1>7, <1>8, <1>9 DEF Lists, GraphInv, Promised!InsEdge

\* The guard of graph_rem_vertex is what keeps every edge between vertices.
LEMMA RemVertexSteps ==
    ASSUME GraphInv, NEW v \in Vertex, RemVertex(v)
    PROVE  Lists' /\ Promised!RemVertex(v)
<1>1. /\ v \in Members(adjlists) /\ adjlists' = RemNext(adjlists, Prev(adjlists, v))
      /\ Intact(adjlists) /\ Intact(adjacent[v])
      /\ vcount' = vcount - 1 /\ ecount' = ecount /\ adjacent' = adjacent
      /\ \A a \in Vertices : v \notin Members(adjacent[a])
      /\ ~(adjacent[v].size > 0)
  BY DEF GraphInv, RemVertex, CountVertex, IsVertex, HasEdges, IsMember, Vertices
<1>2. Intact(adjlists') /\ Vertices' = Vertices \ {v}
  BY <1>1, Takes DEF Vertices
<1>3. Members(adjacent[v]) = {}
  <2>1. adjacent[v].size \in Nat  BY <1>1, Fields DEF Intact
  <2> QED  BY <1>1, <2>1, MembersAre DEF Intact
<1>4. Edges' = Edges
  <2>1. Edges' = UNION {{u} \X Members(adjacent[u]) : u \in Vertices \ {v}}
    BY <1>1, <1>2 DEF Edges
  <2> QED  BY <1>3, <2>1 DEF Edges
<1>5. \A e \in Edges : v # e[1] /\ v # e[2]
  BY <1>1, <1>3 DEF Edges
<1> QED  BY <1>1, <1>2, <1>4, <1>5 DEF Lists, GraphInv, Vertices, Promised!RemVertex

LEMMA RemEdgeSteps ==
    ASSUME GraphInv, NEW a \in Vertex, NEW b \in Vertex, RemEdge(a, b)
    PROVE  Lists' /\ Promised!RemEdge(a, b)
<1>1. /\ a \in Vertices /\ b \in Members(adjacent[a])
      /\ adjacent \in [Vertex -> List] /\ Intact(adjacent[a])
      /\ adjacent' = [adjacent EXCEPT ![a] = RemNext(adjacent[a], Prev(adjacent[a], b))]
      /\ ecount' = ecount - 1 /\ vcount' = vcount /\ adjlists' = adjlists
  BY DEF GraphInv, RemEdge, IsAdjacent, IsVertex, IsMember, SetRemove, Vertices
<1>2. PICK l : l = RemNext(adjacent[a], Prev(adjacent[a], b))  OBVIOUS
<1>3. Intact(l) /\ Members(l) = Members(adjacent[a]) \ {b}
  BY <1>1, <1>2, Takes
<1>4. l \in List  BY <1>3, Fields DEF Intact
<1>5. /\ adjacent' \in [Vertex -> List] /\ adjacent'[a] = l
      /\ \A u \in Vertex \ {a} : adjacent'[u] = adjacent[u]
  BY <1>1, <1>2, <1>4
<1>6. \A u \in Vertex : Intact(adjacent'[u])
  BY <1>3, <1>5 DEF GraphInv
<1>7. Vertices' = Vertices  BY <1>1 DEF Vertices
<1>8. Edges' = Edges \ {<<a, b>>}
  <2>1. \A u \in Vertices : Members(adjacent'[u]) =
                              IF u = a THEN Members(adjacent[a]) \ {b} ELSE Members(adjacent[u])
    BY <1>3, <1>5, VerticesAre
  <2>2. Edges' = UNION {{u} \X Members(adjacent'[u]) : u \in Vertices}
    BY <1>7 DEF Edges
  <2> QED  BY <2>1, <2>2 DEF Edges
<1>9. <<a, b>> \in Edges  BY <1>1, VerticesAre
<1> QED  BY <1>1, <1>5, <1>6, <1>7, <1>8, <1>9 DEF Lists, GraphInv, Promised!RemEdge

LEMMA DestroySteps ==
    ASSUME Destroy
    PROVE  Lists' /\ Promised!Destroy
<1>1. EmptyList \in List /\ Intact(EmptyList) /\ Members(EmptyList) = {}
  BY EmptyIsIntact, Fields DEF Intact
<1>2. Vertices' = {} /\ Edges' = {}
  BY <1>1 DEF Destroy, Vertices, Edges
<1> QED  BY <1>1, <1>2 DEF Destroy, Lists, Promised!Destroy

\* The abstract graph stays consistent, one step per operation; the counters follow
\* because a set gains or loses exactly one member.
LEMMA StepPromised ==
    Promised!Consistent /\ [Promised!Next]_Promised!vars => Promised!Consistent'
<1> SUFFICES ASSUME Promised!Consistent, [Promised!Next]_Promised!vars
             PROVE  Promised!Consistent'
  OBVIOUS
<1>1. /\ IsFiniteSet(Vertices) /\ IsFiniteSet(Edges) /\ Edges \subseteq Vertices \X Vertices
      /\ vcount = Cardinality(Vertices) /\ ecount = Cardinality(Edges)
  BY ConsistentIs
<1>2. /\ IsFiniteSet(Vertices') /\ IsFiniteSet(Edges') /\ Edges' \subseteq Vertices' \X Vertices'
      /\ vcount' = Cardinality(Vertices') /\ ecount' = Cardinality(Edges')
      => Promised!Consistent'
  BY Zenon DEF Promised!Consistent, Promised!Cardinality, Cardinality,
               Promised!IsFiniteSet, IsFiniteSet
<1>3. ASSUME NEW v \in Vertex, Promised!InsVertex(v) PROVE Promised!Consistent'
  <2>1. IsFiniteSet(Vertices') /\ Cardinality(Vertices') = Cardinality(Vertices) + 1
    BY <1>1, <1>3, FS_AddElement DEF Promised!InsVertex
  <2> QED  BY <1>1, <1>2, <1>3, <2>1 DEF Promised!InsVertex
<1>4. ASSUME NEW v \in Vertex, Promised!RemVertex(v) PROVE Promised!Consistent'
  <2>1. IsFiniteSet(Vertices') /\ Cardinality(Vertices') = Cardinality(Vertices) - 1
    BY <1>1, <1>4, FS_RemoveElement DEF Promised!RemVertex
  <2>2. Edges' \subseteq Vertices' \X Vertices'
    BY <1>1, <1>4 DEF Promised!RemVertex
  <2> QED  BY <1>1, <1>2, <1>4, <2>1, <2>2 DEF Promised!RemVertex
<1>5. ASSUME NEW a \in Vertex, NEW b \in Vertex, Promised!InsEdge(a, b)
      PROVE  Promised!Consistent'
  <2>1. IsFiniteSet(Edges') /\ Cardinality(Edges') = Cardinality(Edges) + 1
    BY <1>1, <1>5, FS_AddElement DEF Promised!InsEdge
  <2>2. Edges' \subseteq Vertices' \X Vertices'
    BY <1>1, <1>5 DEF Promised!InsEdge
  <2> QED  BY <1>1, <1>2, <1>5, <2>1, <2>2 DEF Promised!InsEdge
<1>6. ASSUME NEW a \in Vertex, NEW b \in Vertex, Promised!RemEdge(a, b)
      PROVE  Promised!Consistent'
  <2>1. IsFiniteSet(Edges') /\ Cardinality(Edges') = Cardinality(Edges) - 1
    BY <1>1, <1>6, FS_RemoveElement DEF Promised!RemEdge
  <2>2. Edges' \subseteq Vertices' \X Vertices'
    BY <1>1, <1>6 DEF Promised!RemEdge
  <2> QED  BY <1>1, <1>2, <1>6, <2>1, <2>2 DEF Promised!RemEdge
<1>7. CASE Promised!Destroy
  BY <1>2, <1>7, FS_EmptySet DEF Promised!Destroy
<1>8. CASE UNCHANGED Promised!vars
  BY <1>1, <1>2, <1>8 DEF Promised!vars
<1> QED  BY <1>3, <1>4, <1>5, <1>6, <1>7, <1>8 DEF Promised!Next

LEMMA StepGraph == GraphInv /\ [Next]_graph => GraphInv' /\ [Promised!Next]_Promised!vars
<1> SUFFICES ASSUME GraphInv, [Next]_graph
             PROVE  GraphInv' /\ [Promised!Next]_Promised!vars
  OBVIOUS
<1>1. Lists' /\ [Promised!Next]_Promised!vars
  <2>1. CASE \E v \in Vertex : InsVertex(v) \/ RemVertex(v)
    BY <2>1, InsVertexSteps, RemVertexSteps DEF Promised!Next
  <2>2. CASE \E a, b \in Vertex : InsEdge(a, b) \/ RemEdge(a, b)
    BY <2>2, InsEdgeSteps, RemEdgeSteps DEF Promised!Next
  <2>3. CASE Destroy  BY <2>3, DestroySteps DEF Promised!Next
  <2>4. CASE UNCHANGED graph
    <3>1. UNCHANGED <<adjlists, adjacent, vcount, ecount>>  BY <2>4 DEF graph
    <3>2. UNCHANGED Promised!vars
      BY <3>1 DEF Promised!vars, Vertices, Edges
    <3> QED  BY <3>1, <3>2 DEF Lists, GraphInv
  <2> QED  BY <2>1, <2>2, <2>3, <2>4 DEF Next
<1>2. Promised!Consistent'
  BY <1>1, StepPromised DEF GraphInv
<1> QED  BY <1>1, <1>2 DEF Lists, GraphInv

\* After any sequence of insertions and removals every list of the graph is
\* the linked representation of the sequence that a loop over it meets.
THEOREM ListsStayIntact == Spec => []ListsIntact
<1>1. GraphInv => ListsIntact
  <2> SUFFICES ASSUME GraphInv PROVE ListsIntact  OBVIOUS
  <2>1. vcount \in Nat /\ ecount \in Nat
    BY FS_CardinalityType, ConsistentIs DEF GraphInv
  <2>2. adjlists \in List  BY Fields DEF GraphInv, Intact
  <2> QED  BY <2>1, <2>2 DEF GraphInv, Intact, ListsIntact, TypeOK
<1> QED  BY <1>1, InitGraph, StepGraph, PTL DEF Spec

\* Each function of graph.c does to the lists what the directed graph
\* promises, and nothing else.
THEOREM ImplementsGraph == Spec => IsAGraph
<1> QED  BY InitGraph, StepGraph, PTL DEF Spec, IsAGraph, Promised!Spec

\* A graph never has an edge from or to a vertex that was removed, and its
\* counters are the numbers of its vertices and of its edges, whatever
\* implements it (graph_rem_vertex and the counters of graph.c).
THEOREM ConsistentAlways == IsAGraph => []Promised!Consistent
<1>1. Promised!Init => Promised!Consistent
  BY FS_EmptySet, ConsistentIs DEF Promised!Init
<1> QED  BY <1>1, StepPromised, PTL DEF IsAGraph, Promised!Spec

-----------------------------------------------------------------------------
(* What set.c makes of two sets, and the list that bfs returns.            *)

\* Where a list is intact, the chain of it.
LEMMA ChainOf ==
    ASSUME NEW list, Intact(list)
    PROVE  /\ list \in List /\ Chain(list) \in Seq(Element) /\ Len(Chain(list)) \in Nat
           /\ list.size = Len(Chain(list))
           /\ \A i \in 1 .. Len(Chain(list)) : Chain(list)[i] \in Members(list)
           /\ Members(list) = {Chain(list)[i] : i \in 1 .. Len(Chain(list))}
           /\ \A i, j \in 1 .. Len(Chain(list)) : Chain(list)[i] = Chain(list)[j] => i = j
<1>1. PICK seq : seq = Chain(list)  OBVIOUS
<1>2. Represents(list, seq)  BY <1>1 DEF Intact
<1>3. /\ list \in List /\ seq \in Seq(Element) /\ Len(seq) \in Nat
      /\ list.size = Len(seq)
      /\ \A i, j \in 1 .. Len(seq) : seq[i] = seq[j] => i = j
  BY <1>2, Fields
<1>4. Members(list) = {seq[i] : i \in 1 .. Len(seq)}  BY <1>2, MembersAre
<1> QED  BY <1>1, <1>3, <1>4

LEMMA InsNextIsList ==
    ASSUME NEW list \in List, NEW new \in Element
    PROVE  InsNext(list, list.tail, new) \in List
<1>1. PICK l : l = InsNext(list, list.tail, new)  OBVIOUS
<1>2. /\ list.head \in Pointer /\ list.tail \in Pointer /\ list.size \in Nat
      /\ list.next \in [Element -> Pointer] /\ new \in Pointer
  BY DEF List, Pointer
<1>3. CASE list.tail = NULL
  <2>1. [list.next EXCEPT ![new] = list.head] \in [Element -> Pointer]  BY <1>2
  <2> QED  BY <1>1, <1>2, <1>3, <2>1 DEF InsNext, List
<1>4. CASE list.tail # NULL
  <2>1. list.next[list.tail] \in Pointer  BY <1>2, <1>4 DEF Pointer
  <2>2. [list.next EXCEPT ![new] = list.next[list.tail], ![list.tail] = new] \in [Element -> Pointer]
    BY <1>2, <2>1
  <2> QED  BY <1>1, <1>2, <1>4, <2>2 DEF InsNext, List
<1> QED  BY <1>1, <1>3, <1>4

\* One turn of the loop that Gathered stands for.
Put(list, kept, datum) == IF datum \in kept THEN InsNext(list, list.tail, datum) ELSE list

\* There is a function that obeys the recursion.
LEMMA GatheredIs ==
    ASSUME NEW list \in List, NEW from, Intact(from), NEW kept
    PROVE  \E f : /\ Gathered(list, from, kept) = f[Len(Chain(from))]
                  /\ f[0] = list
                  /\ \A k \in 1 .. Len(Chain(from)) : f[k] = Put(f[k - 1], kept, Chain(from)[k])
<1>1. PICK chain : chain = Chain(from)  OBVIOUS
<1>2. PICK n : n = Len(chain)  OBVIOUS
<1>3. n \in Nat /\ \A k \in 1 .. n : chain[k] \in Element
  <2>1. Represents(from, chain)  BY <1>1 DEF Intact
  <2> QED  BY <1>2, <2>1, Fields
<1> DEFINE Turn(f, k) == IF k = 0 THEN list
                         ELSE IF chain[k] \in kept
                              THEN InsNext(f[k - 1], f[k - 1].tail, chain[k]) ELSE f[k - 1]
<1>4. Gathered(list, from, kept) = (CHOOSE f : f = [k \in 0 .. n |-> Turn(f, k)])[n]
  BY <1>1, <1>2 DEF Gathered
<1>5. \E f : f = [k \in 0 .. n |-> Turn(f, k)]
  <2>1. PICK F : F = [k \in 1 .. n |-> [l \in List |-> Put(l, kept, chain[k])]]  OBVIOUS
  <2>2. \A k \in 1 .. n, l \in List : Put(l, kept, chain[k]) \in List
    BY <1>3, InsNextIsList DEF Put
  <2>3. F \in [1 .. n -> [List -> List]]  BY <2>1, <2>2
  <2>4. PICK f : Obeys(f, n, List, list, F)
    BY <1>3, <2>3, RecursionExists
  <2>5. f \in [0 .. n -> List] /\ f[0] = list /\ \A k \in 1 .. n : f[k] = F[k][f[k - 1]]
    BY <2>4 DEF Obeys
  <2>6. ASSUME NEW k \in 1 .. n PROVE f[k] = Put(f[k - 1], kept, chain[k])
    <3>1. k - 1 \in 0 .. n  BY <1>3
    <3>2. f[k - 1] \in List  BY <2>5, <3>1
    <3> QED  BY <2>1, <2>5, <3>2
  <2>7. \A k \in 0 .. n : f[k] = Turn(f, k)
    <3> SUFFICES ASSUME NEW k \in 0 .. n PROVE f[k] = Turn(f, k)  OBVIOUS
    <3>1. CASE k = 0  BY <2>5, <3>1
    <3>2. CASE k # 0
      <4>1. k \in 1 .. n  BY <1>3, <3>2
      <4> QED  BY <2>6, <3>2, <4>1 DEF Put
    <3> QED  BY <3>1, <3>2
  <2> HIDE DEF Turn
  <2>8. f = [k \in 0 .. n |-> Turn(f, k)]  BY <2>5, <2>7
  <2> QED  BY <2>8
<1> HIDE DEF Turn
<1>6. PICK f : f = CHOOSE g : g = [k \in 0 .. n |-> Turn(g, k)]  OBVIOUS
<1>7. f = [k \in 0 .. n |-> Turn(f, k)]  BY <1>5, <1>6
<1>8. \A k \in 0 .. n : f[k] = Turn(f, k)
  <2>1. \A g : g = [k \in 0 .. n |-> Turn(f, k)] => \A k \in 0 .. n : g[k] = Turn(f, k)
    OBVIOUS
  <2> QED  BY <1>7, <2>1
<1>9. f[0] = list
  <2>1. 0 \in 0 .. n  BY <1>3
  <2> QED  BY <1>8, <2>1 DEF Turn
<1>10. ASSUME NEW k \in 1 .. n PROVE f[k] = Put(f[k - 1], kept, chain[k])
  <2>1. k \in 0 .. n /\ k # 0  BY <1>3
  <2> QED  BY <1>8, <2>1 DEF Turn, Put
<1>11. Gathered(list, from, kept) = f[n]  BY <1>4, <1>6
<1> QED  BY <1>1, <1>2, <1>9, <1>10, <1>11

\* The list that set.c, or bfs, gathers is intact, and holds what is to be kept.
LEMMA Gathers ==
    ASSUME NEW list, Intact(list), NEW from, Intact(from), NEW kept,
           \A datum \in kept : datum \in Members(from) => datum \notin Members(list),
           NEW l, l = Gathered(list, from, kept)
    PROVE  Intact(l) /\ Members(l) = Members(list) \cup (Members(from) \cap kept)
<1>1. PICK chain : chain = Chain(from)  OBVIOUS
<1>2. PICK n : n = Len(chain)  OBVIOUS
<1>3. /\ n \in Nat /\ \A k \in 1 .. n : chain[k] \in Element
      /\ Members(from) = {chain[k] : k \in 1 .. n}
      /\ \A j, k \in 1 .. n : chain[j] = chain[k] => j = k
  <2>1. Represents(from, chain)  BY <1>1 DEF Intact
  <2> QED  BY <1>2, <2>1, Fields, MembersAre
<1>4. list \in List  BY Fields DEF Intact
<1>5. PICK f : /\ l = f[n]
               /\ f[0] = list
               /\ \A k \in 1 .. n : f[k] = Put(f[k - 1], kept, chain[k])
  BY <1>1, <1>2, <1>4, GatheredIs
<1> DEFINE met(k) == {chain[i] : i \in 1 .. k}
           T == {k \in 0 .. n : /\ Intact(f[k])
                                /\ Members(f[k]) = Members(list) \cup (met(k) \cap kept)}
<1>6. 0 \in T
  <2>1. met(0) = {} /\ 0 \in 0 .. n  BY <1>3
  <2> QED  BY <1>5, <2>1
<1>7. ASSUME NEW k \in 1 .. n, k - 1 \in T PROVE k \in T
  <2>1. /\ Intact(f[k - 1]) /\ Members(f[k - 1]) = Members(list) \cup (met(k - 1) \cap kept)
        /\ f[k] = Put(f[k - 1], kept, chain[k]) /\ k \in 0 .. n
        /\ chain[k] \in Element /\ chain[k] \in Members(from)
    BY <1>3, <1>5, <1>7
  <2>2. met(k) = met(k - 1) \cup {chain[k]}
    <3>1. \A i : i \in 1 .. k <=> i \in 1 .. k - 1 \/ i = k  BY <1>3
    <3> QED  BY <3>1
  <2>3. chain[k] \notin met(k - 1)
    <3>1. \A i \in 1 .. k - 1 : i \in 1 .. n /\ i # k  BY <1>3
    <3> QED  BY <1>3, <3>1
  <2> HIDE DEF met
  <2>4. CASE chain[k] \in kept
    <3>1. chain[k] \notin Members(f[k - 1])  BY <2>1, <2>3, <2>4
    <3>2. PICK b : b = f[k - 1]  OBVIOUS
    <3>3. f[k] = InsNext(b, b.tail, chain[k])  BY <2>1, <2>4, <3>2 DEF Put
    <3>4. Intact(f[k]) /\ Members(f[k]) = Members(b) \cup {chain[k]}
      BY <2>1, <3>1, <3>2, <3>3, Adds
    <3>5. Members(f[k]) = Members(list) \cup (met(k) \cap kept)
      BY <2>1, <2>2, <2>4, <3>2, <3>4
    <3> QED  BY <2>1, <3>4, <3>5
  <2>5. CASE chain[k] \notin kept
    <3>1. f[k] = f[k - 1]  BY <2>1, <2>5 DEF Put
    <3>2. met(k) \cap kept = met(k - 1) \cap kept  BY <2>2, <2>5
    <3> QED  BY <2>1, <3>1, <3>2
  <2> QED  BY <2>4, <2>5
<1> HIDE DEF T
<1>8. n \in T
  <2>1. \A k \in 0 .. n : k \in T  BY <1>3, <1>6, <1>7, UpTheNumbers
  <2> QED  BY <1>3, <2>1
<1>9. met(n) = Members(from)  BY <1>3
<1> QED  BY <1>5, <1>8, <1>9 DEF T

LEMMA Combines ==
    ASSUME NEW a, Intact(a), NEW b, Intact(b)
    PROVE  /\ Holds(SetUnion(a, b), Members(a) \cup Members(b))
           /\ Holds(SetIntersection(a, b), Members(a) \cap Members(b))
           /\ Holds(SetDifference(a, b), Members(a) \ Members(b))
           /\ SetIsSubset(a, b) <=> Members(a) \subseteq Members(b)
           /\ SetIsEqual(a, b) <=> Members(a) = Members(b)
<1>1. Intact(EmptyList) /\ Members(EmptyList) = {}  BY EmptyIsIntact
<1>2. /\ Members(a) \subseteq Element /\ IsFiniteSet(Members(a)) /\ Cardinality(Members(a)) = a.size
      /\ Members(b) \subseteq Element /\ IsFiniteSet(Members(b)) /\ Cardinality(Members(b)) = b.size
  BY MembersAre DEF Intact
<1>3. Holds(SetUnion(a, b), Members(a) \cup Members(b))
  <2>1. PICK c : c = Gathered(EmptyList, a, Element)  OBVIOUS
  <2>2. Intact(c) /\ Members(c) = Members(a)
    <3>1. Intact(c) /\ Members(c) = Members(EmptyList) \cup (Members(a) \cap Element)
      BY <1>1, <2>1, Gathers
    <3> QED  BY <1>1, <1>2, <3>1
  <2>3. PICK u : u = Gathered(c, b, NotMembers(a))  OBVIOUS
  <2>4. Intact(u) /\ Members(u) = Members(c) \cup (Members(b) \cap NotMembers(a))
    <3>1. \A datum \in NotMembers(a) : datum \in Members(b) => datum \notin Members(c)
      BY <2>2 DEF NotMembers
    <3> QED  BY <2>2, <2>3, <3>1, Gathers
  <2>5. Members(u) = Members(a) \cup Members(b)
    BY <1>2, <2>2, <2>4 DEF NotMembers
  <2>6. SetUnion(a, b) = u  BY <2>1, <2>3 DEF SetUnion
  <2> QED  BY <2>4, <2>5, <2>6 DEF Holds, Intact
<1>4. Holds(SetIntersection(a, b), Members(a) \cap Members(b))
  <2>1. PICK c : c = Gathered(EmptyList, a, Members(b))  OBVIOUS
  <2>2. Intact(c) /\ Members(c) = Members(EmptyList) \cup (Members(a) \cap Members(b))
    BY <1>1, <2>1, Gathers
  <2>3. Members(c) = Members(a) \cap Members(b)  BY <1>1, <2>2
  <2>4. SetIntersection(a, b) = c  BY <2>1 DEF SetIntersection
  <2> QED  BY <2>2, <2>3, <2>4 DEF Holds, Intact
<1>5. Holds(SetDifference(a, b), Members(a) \ Members(b))
  <2>1. PICK c : c = Gathered(EmptyList, a, NotMembers(b))  OBVIOUS
  <2>2. Intact(c) /\ Members(c) = Members(EmptyList) \cup (Members(a) \cap NotMembers(b))
    BY <1>1, <2>1, Gathers
  <2>3. Members(c) = Members(a) \ Members(b)  BY <1>1, <1>2, <2>2 DEF NotMembers
  <2>4. SetDifference(a, b) = c  BY <2>1 DEF SetDifference
  <2> QED  BY <2>2, <2>3, <2>4 DEF Holds, Intact
<1>6. SetIsSubset(a, b) <=> Members(a) \subseteq Members(b)
  <2>1. Members(a) \subseteq Members(b) => a.size <= b.size
    BY <1>2, FS_Subset
  <2> QED  BY <2>1 DEF SetIsSubset, IsMember
<1>7. SetIsEqual(a, b) <=> Members(a) = Members(b)
  <2>1. Members(a) \subseteq Members(b) /\ a.size = b.size => Members(a) = Members(b)
    BY <1>2, FS_Subset
  <2>2. Members(a) = Members(b) => a.size = b.size  BY <1>2
  <2> QED  BY <1>6, <2>1, <2>2 DEF SetIsEqual
<1> QED  BY <1>3, <1>4, <1>5, <1>6, <1>7

-----------------------------------------------------------------------------
(* The queue of bfs and the list of dfs.                                   *)

\* list_ins_next at the tail, at the head, and list_rem_next of the head.
LEMMA ChainAfterEnqueue ==
    ASSUME NEW list, Intact(list), NEW new \in Element, new \notin Members(list),
           NEW l, l = InsNext(list, list.tail, new)
    PROVE  /\ Intact(l) /\ Members(l) = Members(list) \cup {new}
           /\ Len(Chain(l)) = Len(Chain(list)) + 1
           /\ \A k \in 1 .. Len(Chain(list)) : Chain(l)[k] = Chain(list)[k]
           /\ Chain(l)[Len(Chain(list)) + 1] = new
<1>0. Intact(l) /\ Members(l) = Members(list) \cup {new}  BY Adds
<1>1. PICK seq : seq = Chain(list)  OBVIOUS
<1>2. PICK n : n = Len(seq)  OBVIOUS
<1>3. /\ Represents(list, seq) /\ seq \in Seq(Element) /\ n \in Nat
      /\ list.tail = IF n = 0 THEN NULL ELSE seq[n]
  BY <1>1, <1>2, Fields DEF Intact
<1>4. Members(list) = {seq[k] : k \in 1 .. n}  BY <1>2, <1>3, MembersAre
<1>5. PICK i \in 0 .. n : i = n  BY <1>3
<1>6. list.tail = At(seq, i)  BY <1>3, <1>5 DEF At
<1>7. PICK t : t = InsertAt(seq, i + 1, new)  OBVIOUS
<1>8. Represents(l, t)
  <2>1. \A k \in 1 .. n : seq[k] # new  BY <1>4
  <2>2. Represents(InsNext(list, At(seq, i), new), InsertAt(seq, i + 1, new))
    BY <1>2, <1>3, <1>5, <2>1, InsNextRepresents
  <2>3. l = InsNext(list, At(seq, i), new)  BY <1>6
  <2> QED  BY <1>7, <2>2, <2>3
<1>9. /\ Len(t) = n + 1
      /\ \A k \in 1 .. n + 1 : t[k] = IF k <= i THEN seq[k] ELSE IF k = i + 1 THEN new ELSE seq[k - 1]
  <2>1. /\ Len(t) = Len(seq) + 1
        /\ \A k \in 1 .. Len(t) :
              t[k] = IF k <= i THEN seq[k] ELSE IF k = i + 1 THEN new ELSE seq[k - 1]
    <3>1. i \in 0 .. Len(seq)  BY <1>2, <1>5
    <3>2. /\ Len(InsertAt(seq, i + 1, new)) = Len(seq) + 1
          /\ \A k \in 1 .. Len(InsertAt(seq, i + 1, new)) :
                InsertAt(seq, i + 1, new)[k]
                  = IF k <= i THEN seq[k] ELSE IF k = i + 1 THEN new ELSE seq[k - 1]
      BY <1>3, <3>1, Inserted
    <3> QED  BY <1>7, <3>2
  <2> QED  BY <1>2, <2>1
<1>10. Chain(l) = t  BY <1>8, ChainIs
<1>11. \A k \in 1 .. n : t[k] = seq[k]
  <2>1. \A k \in 1 .. n : k \in 1 .. n + 1 /\ k <= i  BY <1>3, <1>5
  <2> QED  BY <1>9, <2>1
<1>12. t[n + 1] = new
  <2>1. n + 1 \in 1 .. n + 1 /\ ~(n + 1 <= i) /\ n + 1 = i + 1  BY <1>3, <1>5
  <2> QED  BY <1>9, <2>1
<1> QED  BY <1>0, <1>1, <1>2, <1>9, <1>10, <1>11, <1>12

LEMMA ChainAfterPush ==
    ASSUME NEW list, Intact(list), NEW new \in Element, new \notin Members(list),
           NEW l, l = InsNext(list, NULL, new)
    PROVE  /\ Intact(l) /\ Members(l) = Members(list) \cup {new}
           /\ Len(Chain(l)) = Len(Chain(list)) + 1
           /\ \A k \in 1 .. Len(Chain(list)) : Chain(l)[k + 1] = Chain(list)[k]
           /\ Chain(l)[1] = new
<1>1. PICK seq : seq = Chain(list)  OBVIOUS
<1>2. PICK n : n = Len(seq)  OBVIOUS
<1>3. Represents(list, seq) /\ seq \in Seq(Element) /\ n \in Nat
  BY <1>1, <1>2, Fields DEF Intact
<1>4. Members(list) = {seq[k] : k \in 1 .. n}  BY <1>2, <1>3, MembersAre
<1>5. PICK i \in 0 .. n : i = 0  BY <1>3
<1>6. At(seq, i) = NULL  BY <1>5 DEF At
<1>7. PICK t : t = InsertAt(seq, i + 1, new)  OBVIOUS
<1>8. Represents(l, t)
  <2>1. \A k \in 1 .. n : seq[k] # new  BY <1>4
  <2>2. Represents(InsNext(list, At(seq, i), new), InsertAt(seq, i + 1, new))
    BY <1>2, <1>3, <1>5, <2>1, InsNextRepresents
  <2>3. l = InsNext(list, At(seq, i), new)  BY <1>6
  <2> QED  BY <1>7, <2>2, <2>3
<1>9. /\ Len(t) = n + 1
      /\ \A k \in 1 .. n + 1 : t[k] = IF k <= i THEN seq[k] ELSE IF k = i + 1 THEN new ELSE seq[k - 1]
  <2>1. /\ Len(t) = Len(seq) + 1
        /\ \A k \in 1 .. Len(t) :
              t[k] = IF k <= i THEN seq[k] ELSE IF k = i + 1 THEN new ELSE seq[k - 1]
    <3>1. i \in 0 .. Len(seq)  BY <1>2, <1>5
    <3>2. /\ Len(InsertAt(seq, i + 1, new)) = Len(seq) + 1
          /\ \A k \in 1 .. Len(InsertAt(seq, i + 1, new)) :
                InsertAt(seq, i + 1, new)[k]
                  = IF k <= i THEN seq[k] ELSE IF k = i + 1 THEN new ELSE seq[k - 1]
      BY <1>3, <3>1, Inserted
    <3> QED  BY <1>7, <3>2
  <2> QED  BY <1>2, <2>1
<1>10. Chain(l) = t /\ Intact(l)  BY <1>8, ChainIs, IntactIf
<1>11. ASSUME NEW k \in 1 .. n PROVE t[k + 1] = seq[k]
  <2>1. k + 1 \in 1 .. n + 1 /\ ~(k + 1 <= i) /\ k + 1 # i + 1 /\ (k + 1) - 1 = k
    BY <1>3, <1>5
  <2>2. t[k + 1] = seq[(k + 1) - 1]  BY <1>9, <2>1
  <2> QED  BY <2>1, <2>2
<1>12. t[1] = new
  <2>1. 1 \in 1 .. n + 1 /\ ~(1 <= i) /\ 1 = i + 1  BY <1>3, <1>5
  <2> QED  BY <1>9, <2>1
<1>13. Members(l) = {t[k] : k \in 1 .. n + 1}  BY <1>8, <1>9, MembersAre
<1>14. Members(l) = Members(list) \cup {new}
  <2>1. \A k \in 1 .. n + 1 : k = 1 \/ (k - 1 \in 1 .. n /\ k = (k - 1) + 1)  BY <1>3
  <2>2. 1 \in 1 .. n + 1 /\ \A k \in 1 .. n : k + 1 \in 1 .. n + 1  BY <1>3
  <2>3. ASSUME NEW k \in 1 .. n + 1 PROVE t[k] \in Members(list) \cup {new}
    <3>1. CASE k = 1  BY <1>12, <3>1
    <3>2. CASE k # 1
      <4>1. k - 1 \in 1 .. n /\ (k - 1) + 1 = k  BY <2>1, <3>2
      <4>2. t[(k - 1) + 1] = seq[k - 1]  BY <1>11, <4>1
      <4> QED  BY <1>4, <4>1, <4>2
    <3> QED  BY <3>1, <3>2
  <2>4. ASSUME NEW k \in 1 .. n PROVE seq[k] \in Members(l)
    BY <1>11, <1>13, <2>2
  <2>5. new \in Members(l)  BY <1>12, <1>13, <2>2
  <2> QED  BY <1>4, <1>13, <2>3, <2>4, <2>5
<1> QED  BY <1>1, <1>2, <1>9, <1>10, <1>11, <1>12, <1>14

LEMMA ChainAfterDequeue ==
    ASSUME NEW list, Intact(list), list.size > 0, NEW l, l = RemNext(list, NULL)
    PROVE  /\ Intact(l) /\ list.head = Chain(list)[1]
           /\ Members(l) = Members(list) \ {list.head}
           /\ Len(Chain(l)) = Len(Chain(list)) - 1
           /\ \A k \in 1 .. Len(Chain(list)) - 1 : Chain(l)[k] = Chain(list)[k + 1]
<1>1. PICK seq : seq = Chain(list)  OBVIOUS
<1>2. PICK n : n = Len(seq)  OBVIOUS
<1>3. /\ Represents(list, seq) /\ seq \in Seq(Element) /\ n \in Nat /\ n > 0
      /\ list.head = seq[1]
      /\ \A j, k \in 1 .. n : seq[j] = seq[k] => j = k
  <2>1. Represents(list, seq)  BY <1>1 DEF Intact
  <2>2. /\ seq \in Seq(Element) /\ n \in Nat /\ list.size = n
        /\ list.head = IF n = 0 THEN NULL ELSE seq[1]
        /\ \A j, k \in 1 .. n : seq[j] = seq[k] => j = k
    BY <1>2, <2>1, Fields
  <2> QED  BY <2>1, <2>2
<1>4. Members(list) = {seq[k] : k \in 1 .. n}  BY <1>2, <1>3, MembersAre
<1>5. PICK i \in 0 .. n - 1 : i = 0  BY <1>3
<1>6. At(seq, i) = NULL  BY <1>5 DEF At
<1>7. PICK t : t = RemoveAt(seq, i + 1)  OBVIOUS
<1>8. Represents(l, t)
  <2>1. Represents(RemNext(list, At(seq, i)), RemoveAt(seq, i + 1))
    BY <1>2, <1>3, <1>5, RemNextRepresents
  <2> QED  BY <1>6, <1>7, <2>1
<1>9. /\ Len(t) = n - 1
      /\ \A k \in 1 .. n - 1 : t[k] = IF k <= i THEN seq[k] ELSE seq[k + 1]
  <2>1. /\ Len(t) = Len(seq) - 1
        /\ \A k \in 1 .. Len(t) : t[k] = IF k <= i THEN seq[k] ELSE seq[k + 1]
    BY <1>2, <1>3, <1>5, <1>7, Removed
  <2> QED  BY <1>2, <2>1
<1>10. Chain(l) = t /\ Intact(l)  BY <1>8, ChainIs, IntactIf
<1>11. ASSUME NEW k \in 1 .. n - 1 PROVE t[k] = seq[k + 1]
  <2>1. ~(k <= i)  BY <1>3, <1>5
  <2> QED  BY <1>9, <2>1
<1>12. Members(l) = {t[k] : k \in 1 .. n - 1}  BY <1>8, <1>9, MembersAre
<1>13. Members(l) = Members(list) \ {seq[1]}
  <2>1. ASSUME NEW k \in 1 .. n - 1 PROVE t[k] \in Members(list) \ {seq[1]}
    <3>1. k + 1 \in 1 .. n /\ k + 1 # 1 /\ 1 \in 1 .. n  BY <1>3
    <3> QED  BY <1>3, <1>4, <1>11, <3>1
  <2>2. ASSUME NEW k \in 1 .. n, k # 1 PROVE seq[k] \in Members(l)
    <3>1. k - 1 \in 1 .. n - 1 /\ (k - 1) + 1 = k  BY <1>3, <2>2
    <3>2. t[k - 1] = seq[(k - 1) + 1]  BY <1>11, <3>1
    <3> QED  BY <1>12, <3>1, <3>2
  <2>3. Members(list) \ {seq[1]} \subseteq Members(l)  BY <1>4, <2>2
  <2> QED  BY <1>12, <2>1, <2>3
<1> QED  BY <1>1, <1>2, <1>3, <1>9, <1>10, <1>11, <1>13

\* What a loop over a list meets: its members, one by one, and NULL.
LEMMA Loops ==
    ASSUME NEW list, Intact(list)
    PROVE  /\ list.head \in Members(list) \cup {NULL}
           /\ list.size = 0 <=> list.head = NULL
           /\ list.size > 0 <=> list.head # NULL
           /\ \A datum \in Members(list) : list.next[datum] \in Members(list) \cup {NULL}
<1>1. PICK seq : seq = Chain(list)  OBVIOUS
<1>2. PICK n : n = Len(seq)  OBVIOUS
<1>3. Represents(list, seq)  BY <1>1 DEF Intact
<1>4. /\ n \in Nat /\ list.size = n
      /\ \A k \in 1 .. n : seq[k] # NULL
      /\ list.head = IF n = 0 THEN NULL ELSE seq[1]
      /\ \A k \in 1 .. n : list.next[seq[k]] = IF k = n THEN NULL ELSE seq[k + 1]
  BY <1>2, <1>3, Fields
<1>5. Members(list) = {seq[k] : k \in 1 .. n}  BY <1>2, <1>3, MembersAre
<1>6. n > 0 => 1 \in 1 .. n  BY <1>4
<1>7. ASSUME NEW k \in 1 .. n PROVE list.next[seq[k]] \in Members(list) \cup {NULL}
  <2>1. CASE k = n  BY <1>4, <2>1
  <2>2. CASE k # n
    <3>1. k + 1 \in 1 .. n  BY <1>4, <2>2
    <3> QED  BY <1>4, <1>5, <2>2, <3>1
  <2> QED  BY <2>1, <2>2
<1>8. n = 0 \/ n > 0  BY <1>4
<1> QED  BY <1>4, <1>5, <1>6, <1>7, <1>8

-----------------------------------------------------------------------------
(* The vertices that a search has open.                                    *)

Black == {v \in Vertex : color[v] = "black"}
White == {v \in Vertex : color[v] = "white"}

\* The queue of bfs holds the gray vertices; the member is one of those
\* adjacent to the first in the queue.
BfsOpen ==
    /\ Intact(queue)
    /\ Members(queue) = Gray /\ Gray \subseteq Vertices
    /\ NearestFirst(Chain(queue))
    /\ queue.size = 0 => member = NULL
    /\ queue.size > 0 => member \in Members(adjacent[Peek(queue)]) \cup {NULL}

\* The activations of dfs_main are a path of the gray vertices, and the list
\* holds the black ones.
DfsOpen ==
    /\ \A i \in 1 .. Len(stack) :
          /\ stack[i].vertex \in Vertices
          /\ stack[i].member \in Members(adjacent[stack[i].vertex]) \cup {NULL}
    /\ {stack[i].vertex : i \in 1 .. Len(stack)} = Gray
    /\ \A i, j \in 1 .. Len(stack) : stack[i].vertex = stack[j].vertex => i = j
    /\ \A i \in 2 .. Len(stack) : <<stack[i - 1].vertex, stack[i].vertex>> \in Edges
    /\ element \in Vertices \cup {NULL}
    /\ Intact(result) /\ Members(result) = Black /\ Black \subseteq Vertices

SearchInv ==
    /\ GraphInv
    /\ SearchTypeOK
    /\ phase = "idle" => stack = <<>> /\ result = EmptyList
    /\ phase = "bfs" => BfsOpen
    /\ phase = "dfs" => DfsOpen

LEMMA GraphTyped == GraphInv => TypeOK
<1> SUFFICES ASSUME GraphInv PROVE TypeOK  OBVIOUS
<1>1. vcount \in Nat /\ ecount \in Nat
  BY FS_CardinalityType, ConsistentIs DEF GraphInv
<1>2. adjlists \in List  BY Fields DEF GraphInv, Intact
<1> QED  BY <1>1, <1>2 DEF GraphInv, TypeOK

\* A search does not change the graph.
LEMMA SameGraph ==
    ASSUME GraphInv, UNCHANGED graph
    PROVE  /\ adjlists' = adjlists /\ adjacent' = adjacent
           /\ Vertices' = Vertices /\ Edges' = Edges
           /\ TypeOK' /\ GraphInv'
<1>1. adjlists' = adjlists /\ adjacent' = adjacent /\ vcount' = vcount /\ ecount' = ecount
  BY DEF graph
<1>2. Vertices' = Vertices  BY <1>1 DEF Vertices
<1>3. Edges' = Edges  BY <1>1, <1>2 DEF Edges
<1>4. TypeOK  BY GraphTyped
<1>5. TypeOK'  BY <1>1, <1>4 DEF TypeOK
<1>6. GraphInv'
  <2>1. Promised!Consistent'
    <3>1. UNCHANGED Promised!vars  BY <1>1, <1>2, <1>3 DEF Promised!vars
    <3> QED  BY <3>1, StepPromised DEF GraphInv
  <2> QED  BY <1>1, <2>1 DEF GraphInv
<1> QED  BY <1>1, <1>2, <1>3, <1>5, <1>6

LEMMA NullIsNoVertex == NULL \notin Vertex /\ NULL \in Pointer /\ Vertex \subseteq Pointer
BY LinkedListAssumption DEF Vertex, Pointer

LEMMA StartInv == SearchInit => SearchInv
<1> SUFFICES ASSUME SearchInit PROVE SearchInv  OBVIOUS
<1>1. GraphInv  BY InitGraph DEF SearchInit
<1>2. EmptyList \in List /\ NULL \in Pointer
  BY EmptyIsIntact, Fields, NullIsNoVertex DEF Intact
<1>3. TypeOK
  BY <1>2 DEF SearchInit, Init, TypeOK, Vertex
<1>4. phase = "idle" /\ stack = <<>> /\ result = EmptyList  BY DEF SearchInit
<1>5. SearchTypeOK
  BY <1>2, <1>3 DEF SearchInit, SearchTypeOK
<1> QED  BY <1>1, <1>4, <1>5 DEF SearchInv

LEMMA ForgetKeeps ==
    ASSUME SearchInv, UNCHANGED graph, Forget
    PROVE  SearchInv'
<1>1. GraphInv' /\ TypeOK'  BY SameGraph DEF SearchInv
<1>2. EmptyList \in List /\ NULL \in Pointer
  BY EmptyIsIntact, Fields, NullIsNoVertex DEF Intact
<1>3. phase' = "idle" /\ stack' = <<>> /\ result' = EmptyList  BY DEF Forget
<1>4. SearchTypeOK'
  BY <1>1, <1>2 DEF Forget, SearchTypeOK
<1> QED  BY <1>1, <1>3, <1>4 DEF SearchInv

LEMMA GraphStepKeeps ==
    ASSUME SearchInv, phase = "idle", Next, UNCHANGED searching
    PROVE  SearchInv'
<1>1. GraphInv'  BY StepGraph DEF SearchInv
<1>2. TypeOK'  BY <1>1, GraphTyped, PTL
<1>3. /\ phase' = phase /\ color' = color /\ hops' = hops /\ member' = member
      /\ queue' = queue /\ stack' = stack /\ element' = element /\ result' = result
  BY DEF searching
<1>4. SearchTypeOK'  BY <1>2, <1>3 DEF SearchTypeOK, SearchInv
<1> QED  BY <1>1, <1>3, <1>4 DEF SearchInv

\* Nothing but what a search changes is to be shown.
LEMMA Shown ==
    ASSUME SearchInv, UNCHANGED graph,
           (phase \in {"idle", "bfs", "dfs", "bfs returned", "dfs returned"})',
           (color \in [Vertex -> {"white", "gray", "black"}])', (hops \in [Vertex -> Int])',
           (member \in Pointer)', (element \in Pointer)', (queue \in List)', (result \in List)',
           (stack \in Seq(Frame))',
           (phase = "idle" => stack = <<>> /\ result = EmptyList)',
           (phase = "bfs" => BfsOpen)', (phase = "dfs" => DfsOpen)'
    PROVE  SearchInv'
<1>1. GraphInv' /\ TypeOK'  BY SameGraph DEF SearchInv
<1> QED  BY <1>1 DEF SearchInv, SearchTypeOK

\* The facts about a state in which a search is under way.
LEMMA Typed ==
    ASSUME SearchInv
    PROVE  /\ color \in [Vertex -> {"white", "gray", "black"}] /\ hops \in [Vertex -> Int]
           /\ member \in Pointer /\ element \in Pointer /\ queue \in List /\ result \in List
           /\ stack \in Seq(Frame)
           /\ GraphInv /\ Vertices \subseteq Vertex
           /\ \A v \in Vertex : Intact(adjacent[v]) /\ Members(adjacent[v]) \subseteq Vertex
           /\ \A v \in Vertices : v \in Vertex /\ Members(adjacent[v]) \subseteq Vertices
           /\ Intact(adjlists)
<1>1. GraphInv  BY DEF SearchInv
<1>2. /\ Vertices \subseteq Vertex /\ \A v \in Vertex : Members(adjacent[v]) \subseteq Vertex
      /\ \A a, b : <<a, b>> \in Edges <=> a \in Vertices /\ b \in Members(adjacent[a])
  BY <1>1, VerticesAre
<1>3. Edges \subseteq Vertices \X Vertices  BY <1>1, ConsistentIs DEF GraphInv
<1>4. ASSUME NEW v \in Vertices, NEW w \in Members(adjacent[v]) PROVE w \in Vertices
  <2>1. <<v, w>> \in Edges  BY <1>2
  <2> QED  BY <1>3, <2>1
<1> QED  BY <1>1, <1>2, <1>4 DEF SearchInv, SearchTypeOK, GraphInv

LEMMA HeadIsPointer ==
    ASSUME NEW list, Intact(list)
    PROVE  list.head \in Pointer /\ \A v \in Element : list.next[v] \in Pointer
BY Fields DEF Intact, List

LEMMA BfsStartKeeps ==
    ASSUME SearchInv, NEW start \in Vertex, BfsStart(start)
    PROVE  SearchInv'
<1>1. /\ UNCHANGED graph /\ start \in Vertices /\ phase' = "bfs"
      /\ color' = [v \in Vertex |-> IF v = start THEN "gray" ELSE "white"]
      /\ hops' = [v \in Vertex |-> IF v = start THEN 0 ELSE -1]
      /\ queue' = Enqueue(EmptyList, start)
      /\ member' = adjacent[start].head
      /\ stack' = stack /\ element' = element /\ result' = result
  BY DEF BfsStart, IsVertex, Vertices
<1>2. adjacent' = adjacent /\ Vertices' = Vertices  BY <1>1, SameGraph DEF SearchInv
<1>3. Intact(EmptyList) /\ Members(EmptyList) = {} /\ Len(Chain(EmptyList)) = 0
  <2>1. Intact(EmptyList) /\ Members(EmptyList) = {} /\ EmptyList.size = 0
    BY EmptyIsIntact DEF EmptyList
  <2> QED  BY <2>1, ChainOf
<1>4. PICK q : q = Enqueue(EmptyList, start)  OBVIOUS
<1>5. Intact(q) /\ Members(q) = {start} /\ Len(Chain(q)) = 1 /\ Chain(q)[1] = start
  <2>1. q = InsNext(EmptyList, EmptyList.tail, start)  BY <1>4 DEF Enqueue
  <2>2. start \in Element /\ start \notin Members(EmptyList)  BY <1>3 DEF Vertex
  <2>3. PICK e : e = EmptyList  OBVIOUS
  <2>4. Intact(e) /\ q = InsNext(e, e.tail, start) /\ start \notin Members(e)
    BY <1>3, <2>1, <2>2, <2>3
  <2>5. /\ Intact(q) /\ Members(q) = Members(e) \cup {start}
        /\ Len(Chain(q)) = Len(Chain(e)) + 1
        /\ Chain(q)[Len(Chain(e)) + 1] = start
    BY <2>2, <2>4, ChainAfterEnqueue
  <2> QED  BY <1>3, <2>3, <2>5
<1>6. q \in List /\ q.size = 1 /\ q.head = start
  <2>1. q \in List /\ q.size = 1  BY <1>5, ChainOf
  <2>2. q.head \in {start}  BY <1>5, <2>1, Loops
  <2> QED  BY <2>1, <2>2
<1>7. Gray' = {start}  BY <1>1 DEF Gray
<1>8. NearestFirst(Chain(queue))'
  <2>1. DOMAIN Chain(q) = 1 .. 1  BY <1>5, ChainOf, LenProperties
  <2>2. \A i, j \in DOMAIN Chain(q) : hops'[Chain(q)[j]] - hops'[Chain(q)[i]] \in {0, 1}
    <3> SUFFICES ASSUME NEW i \in DOMAIN Chain(q), NEW j \in DOMAIN Chain(q)
                 PROVE  hops'[Chain(q)[j]] - hops'[Chain(q)[i]] \in {0, 1}
      OBVIOUS
    <3>1. Chain(q)[i] = start /\ Chain(q)[j] = start  BY <1>5, <2>1
    <3>2. hops'[start] = 0  BY <1>1
    <3> QED  BY <3>1, <3>2
  <2> QED  BY <1>1, <1>4, <2>2 DEF NearestFirst
<1>9. member' \in Members(adjacent[start]) \cup {NULL} /\ member' \in Pointer
  BY <1>1, Typed, Loops, HeadIsPointer
<1>10. BfsOpen'
  <2>1. queue' = q /\ Peek(q) = start  BY <1>1, <1>4, <1>6 DEF Peek
  <2> QED  BY <1>1, <1>2, <1>5, <1>6, <1>7, <1>8, <1>9, <2>1 DEF BfsOpen
<1>11. (color \in [Vertex -> {"white", "gray", "black"}])' /\ (hops \in [Vertex -> Int])'
  BY <1>1
<1> QED  BY <1>1, <1>4, <1>6, <1>9, <1>10, <1>11, Typed, Shown

LEMMA BfsVisitKeeps ==
    ASSUME SearchInv, BfsVisit
    PROVE  SearchInv'
<1>1. PICK first : first = Peek(queue)  OBVIOUS
<1>2. /\ UNCHANGED graph /\ phase = "bfs" /\ phase' = "bfs" /\ member # NULL /\ member \in Vertices
      /\ member' = adjacent[first].next[member]
      /\ stack' = stack /\ element' = element /\ result' = result
      /\ \/ /\ color[member] = "white"
            /\ color' = [color EXCEPT ![member] = "gray"]
            /\ hops' = [hops EXCEPT ![member] = hops[first] + 1]
            /\ queue' = InsNext(queue, queue.tail, member)
         \/ UNCHANGED <<color, hops, queue>>
  BY <1>1 DEF BfsVisit, IsVertex, Vertices, Undiscovered, Enqueue
<1>3. adjacent' = adjacent /\ Vertices' = Vertices  BY <1>2, SameGraph DEF SearchInv
<1>4. BfsOpen  BY <1>2 DEF SearchInv
<1>5. /\ queue.size \in Nat /\ queue.size > 0
      /\ member \in Members(adjacent[first])
      /\ first \in Gray /\ first \in Vertices /\ first \in Vertex /\ member \in Vertex
      /\ color[first] = "gray"
  <2>1. queue.size \in Nat /\ queue.size # 0  BY <1>2, <1>4, ChainOf DEF BfsOpen
  <2>2. queue.size > 0  BY <2>1
  <2>3. member \in Members(adjacent[first])  BY <1>1, <1>2, <1>4, <2>2 DEF BfsOpen
  <2>4. first \in Members(queue)  BY <1>1, <1>4, <2>2, Loops DEF BfsOpen, Peek
  <2> QED  BY <1>2, <1>4, <2>1, <2>2, <2>3, <2>4, Typed DEF BfsOpen, Gray
<1>6. member' \in Members(adjacent[first]) \cup {NULL} /\ member' \in Pointer
  BY <1>2, <1>5, Typed, Loops, HeadIsPointer DEF Vertex
<1>7. CASE UNCHANGED <<color, hops, queue>>
  <2>1. Gray' = Gray  BY <1>7 DEF Gray
  <2>2. NearestFirst(Chain(queue))'
    BY <1>4, <1>7 DEF BfsOpen, NearestFirst
  <2>3. BfsOpen'
    BY <1>1, <1>3, <1>4, <1>5, <1>6, <1>7, <2>1, <2>2 DEF BfsOpen, Peek
  <2> QED  BY <1>2, <1>6, <1>7, <2>3, Typed, Shown
<1>8. CASE /\ color[member] = "white"
           /\ color' = [color EXCEPT ![member] = "gray"]
           /\ hops' = [hops EXCEPT ![member] = hops[first] + 1]
           /\ queue' = InsNext(queue, queue.tail, member)
  <2>1. PICK q : q = InsNext(queue, queue.tail, member)  OBVIOUS
  <2>2. PICK c : c = Chain(queue)  OBVIOUS
  <2>3. PICK n : n = Len(c)  OBVIOUS
  <2>4. member \notin Members(queue)  BY <1>4, <1>8 DEF BfsOpen, Gray
  <2>5. /\ n \in Nat /\ n > 0 /\ queue.size = n
        /\ \A k \in 1 .. n : c[k] \in Gray
        /\ c[1] = first /\ DOMAIN c = 1 .. n
    <3>1. /\ n \in Nat /\ queue.size = n /\ \A k \in 1 .. n : c[k] \in Members(queue)
          /\ DOMAIN c = 1 .. n
      BY <1>4, <2>2, <2>3, ChainOf, LenProperties DEF BfsOpen
    <3>2. queue.head = c[1]
      <4>1. queue.head = IF n = 0 THEN NULL ELSE c[1]
        BY <1>4, <2>2, <2>3, Fields DEF BfsOpen, Intact
      <4> QED  BY <1>5, <3>1, <4>1
    <3> QED  BY <1>1, <1>4, <1>5, <3>1, <3>2 DEF BfsOpen, Peek
  <2>6. /\ Intact(q) /\ Members(q) = Members(queue) \cup {member}
        /\ Len(Chain(q)) = n + 1
        /\ \A k \in 1 .. n : Chain(q)[k] = c[k]
        /\ Chain(q)[n + 1] = member
    BY <1>4, <1>5, <2>1, <2>2, <2>3, <2>4, ChainAfterEnqueue DEF BfsOpen, Vertex
  <2>7. q \in List /\ q.size > 0 /\ q.head = first
    <3>1. q \in List /\ q.size = n + 1 /\ n + 1 > 0  BY <2>5, <2>6, ChainOf
    <3>2. q.head = Chain(q)[1]
      <4>1. q.head = IF n + 1 = 0 THEN NULL ELSE Chain(q)[1]
        BY <2>6, Fields DEF Intact
      <4> QED  BY <2>5, <4>1
    <3>3. Chain(q)[1] = c[1]  BY <2>5, <2>6
    <3> QED  BY <2>5, <3>1, <3>2, <3>3
  <2>8. Gray' = Gray \cup {member}
    BY <1>5, <1>8, Typed DEF Gray
  <2>9. hops' \in [Vertex -> Int] /\ color' \in [Vertex -> {"white", "gray", "black"}]
    BY <1>5, <1>8, Typed
  <2>10. NearestFirst(Chain(queue))'
    <3>1. DOMAIN Chain(q) = 1 .. n + 1
      BY <2>6, ChainOf, LenProperties
    <3>2. \A i, j \in 1 .. n : i <= j => hops[c[j]] - hops[c[i]] \in {0, 1}
      BY <1>4, <2>2, <2>5 DEF BfsOpen, NearestFirst
    <3>3. \A k \in 1 .. n : /\ c[k] \in Vertex /\ c[k] # member /\ Chain(q)[k] = c[k]
                            /\ hops'[Chain(q)[k]] = hops[c[k]] /\ hops[c[k]] \in Int
      BY <1>5, <1>8, <2>5, <2>6, Typed DEF Gray
    <3>4. hops'[Chain(q)[n + 1]] = hops[first] + 1 /\ hops[first] \in Int
      BY <1>5, <1>8, <2>6, Typed
    <3>5. ASSUME NEW i \in 1 .. n + 1, NEW j \in 1 .. n + 1, i <= j
          PROVE  hops'[Chain(q)[j]] - hops'[Chain(q)[i]] \in {0, 1}
      <4>1. CASE j \in 1 .. n
        <5>1. i \in 1 .. n  BY <2>5, <3>5, <4>1
        <5> QED  BY <3>2, <3>3, <3>5, <4>1, <5>1
      <4>2. CASE j = n + 1 /\ i = n + 1  BY <3>4, <4>2
      <4>3. CASE j = n + 1 /\ i \in 1 .. n
        <5>1. 1 \in 1 .. n /\ 1 <= i  BY <2>5, <4>3
        <5>2. hops[c[i]] - hops[first] \in {0, 1}  BY <2>5, <3>2, <4>3, <5>1
        <5>3. hops'[Chain(q)[i]] = hops[c[i]] /\ hops[c[i]] \in Int  BY <3>3, <4>3
        <5> QED  BY <3>4, <4>3, <5>2, <5>3
      <4> QED  BY <2>5, <3>5, <4>1, <4>2, <4>3
    <3> QED  BY <1>8, <2>1, <3>1, <3>5 DEF NearestFirst
  <2>11. BfsOpen'
    <3>1. queue' = q /\ Peek(q) = first  BY <1>8, <2>1, <2>7 DEF Peek
    <3>2. q.size # 0  BY <2>7
    <3>3. Gray' \subseteq Vertices /\ Members(q) = Gray'
      BY <1>2, <1>4, <2>6, <2>8 DEF BfsOpen
    <3> QED  BY <1>3, <1>6, <2>6, <2>10, <3>1, <3>2, <3>3 DEF BfsOpen
  <2> QED  BY <1>2, <1>6, <1>8, <2>1, <2>7, <2>9, <2>11, Typed, Shown
<1> QED  BY <1>2, <1>7, <1>8

LEMMA BfsDequeueKeeps ==
    ASSUME SearchInv, BfsDequeue
    PROVE  SearchInv'
<1>1. PICK q : q = Dequeue(queue)  OBVIOUS
<1>2. PICK first : first = Peek(queue)  OBVIOUS
<1>3. /\ UNCHANGED graph /\ phase = "bfs" /\ phase' = "bfs" /\ queue.size > 0
      /\ color' = [color EXCEPT ![first] = "black"] /\ hops' = hops
      /\ queue' = q
      /\ member' = IF q.head = NULL THEN NULL ELSE adjacent[q.head].head
      /\ stack' = stack /\ element' = element /\ result' = result
  BY <1>1, <1>2 DEF BfsDequeue
<1>4. adjacent' = adjacent /\ Vertices' = Vertices  BY <1>3, SameGraph DEF SearchInv
<1>5. BfsOpen  BY <1>3 DEF SearchInv
<1>6. PICK c : c = Chain(queue)  OBVIOUS
<1>7. PICK n : n = Len(c)  OBVIOUS
<1>8. /\ Intact(q) /\ Members(q) = Members(queue) \ {first}
      /\ Len(Chain(q)) = n - 1
      /\ \A k \in 1 .. n - 1 : Chain(q)[k] = c[k + 1]
  <2>1. q = RemNext(queue, NULL)  BY <1>1 DEF Dequeue
  <2> QED  BY <1>2, <1>3, <1>5, <1>6, <1>7, <2>1, ChainAfterDequeue DEF BfsOpen, Peek
<1>9. /\ n \in Nat /\ DOMAIN c = 1 .. n /\ DOMAIN Chain(q) = 1 .. n - 1
      /\ q \in List /\ q.size \in Nat
  <2>1. n \in Nat /\ DOMAIN c = 1 .. n
    BY <1>5, <1>6, <1>7, ChainOf, LenProperties DEF BfsOpen
  <2>2. q \in List /\ DOMAIN Chain(q) = 1 .. n - 1 /\ q.size = Len(Chain(q)) /\ Len(Chain(q)) \in Nat
    BY <1>8, ChainOf, LenProperties
  <2> QED  BY <2>1, <2>2
<1>10. first \in Gray /\ first \in Vertex
  <2>1. first \in Members(queue)  BY <1>2, <1>3, <1>5, Loops DEF BfsOpen, Peek
  <2> QED  BY <1>5, <2>1 DEF BfsOpen, Gray
<1>11. color' \in [Vertex -> {"white", "gray", "black"}]
  BY <1>3, <1>10, Typed
<1>12. Gray' = Gray \ {first}
  BY <1>3, <1>10, Typed DEF Gray
<1>13. NearestFirst(Chain(queue))'
  <2>1. ASSUME NEW i \in 1 .. n - 1, NEW j \in 1 .. n - 1, i <= j
        PROVE  hops[Chain(q)[j]] - hops[Chain(q)[i]] \in {0, 1}
    <3>1. i + 1 \in 1 .. n /\ j + 1 \in 1 .. n /\ i + 1 <= j + 1  BY <1>9, <2>1
    <3>2. hops[c[j + 1]] - hops[c[i + 1]] \in {0, 1}
      BY <1>5, <1>6, <1>9, <3>1 DEF BfsOpen, NearestFirst
    <3> QED  BY <1>8, <3>2
  <2> QED  BY <1>3, <1>9, <2>1 DEF NearestFirst
<1>14. /\ member' \in Pointer
       /\ q.size = 0 => member' = NULL
       /\ q.size > 0 => member' \in Members(adjacent[q.head]) \cup {NULL}
  <2>1. CASE q.head = NULL
    <3>1. member' = NULL  BY <1>3, <2>1
    <3> QED  BY <3>1, NullIsNoVertex
  <2>2. CASE q.head # NULL
    <3>1. q.size > 0 /\ q.head \in Members(q)  BY <1>8, <2>2, Loops
    <3>2. q.head \in Vertex  BY <1>5, <1>8, <3>1 DEF BfsOpen, Gray
    <3>3. member' = adjacent[q.head].head  BY <1>3, <2>2
    <3>4. Intact(adjacent[q.head])  BY <3>2, Typed
    <3>5. q.size # 0  BY <3>1
    <3> QED  BY <3>3, <3>4, <3>5, Loops, HeadIsPointer
  <2> QED  BY <2>1, <2>2
<1>15. BfsOpen'
  <2>1. Gray' \subseteq Vertices /\ Members(q) = Gray'  BY <1>5, <1>8, <1>12 DEF BfsOpen
  <2> QED  BY <1>3, <1>4, <1>8, <1>13, <1>14, <2>1 DEF BfsOpen, Peek
<1> QED  BY <1>3, <1>9, <1>11, <1>14, <1>15, Typed, Shown

LEMMA BfsReturnKeeps ==
    ASSUME SearchInv, BfsReturn
    PROVE  /\ SearchInv'
           /\ Members(result') = {v \in Vertices : hops[v] # -1}
<1>1. PICK kept : kept = {v \in Vertex : hops[v] # -1}  OBVIOUS
<1>2. PICK l : l = Gathered(EmptyList, adjlists, kept)  OBVIOUS
<1>3. /\ UNCHANGED graph /\ phase' = "bfs returned" /\ result' = l
      /\ color' = color /\ hops' = hops /\ member' = member /\ queue' = queue
      /\ stack' = stack /\ element' = element
  BY <1>1, <1>2 DEF BfsReturn
<1>4. Intact(EmptyList) /\ Members(EmptyList) = {} /\ Intact(adjlists)
  BY EmptyIsIntact, Typed
<1>5. Intact(l) /\ Members(l) = Members(EmptyList) \cup (Members(adjlists) \cap kept)
  BY <1>2, <1>4, Gathers
<1>6. Members(l) = {v \in Vertices : hops[v] # -1}
  <2>1. Vertices \subseteq Vertex  BY Typed
  <2> QED  BY <1>1, <1>4, <1>5, <2>1 DEF Vertices
<1>7. l \in List  BY <1>5, ChainOf
<1>8. SearchInv'  BY <1>3, <1>7, Typed, Shown
<1> QED  BY <1>3, <1>6, <1>8

LEMMA DfsStartKeeps ==
    ASSUME SearchInv, DfsStart
    PROVE  SearchInv'
<1>1. /\ UNCHANGED graph /\ phase = "idle" /\ phase' = "dfs"
      /\ color' = [v \in Vertex |-> "white"]
      /\ element' = adjlists.head
      /\ hops' = hops /\ member' = member /\ queue' = queue
      /\ stack' = stack /\ result' = result
  BY DEF DfsStart
<1>2. adjacent' = adjacent /\ Vertices' = Vertices /\ Edges' = Edges
  BY <1>1, SameGraph DEF SearchInv
<1>3. stack = <<>> /\ result = EmptyList  BY <1>1 DEF SearchInv
<1>4. Intact(EmptyList) /\ Members(EmptyList) = {}  BY EmptyIsIntact
<1>5. Gray' = {} /\ Black' = {}  BY <1>1 DEF Gray, Black
<1>6. element' \in Vertices \cup {NULL} /\ element' \in Pointer
  BY <1>1, Typed, Loops, HeadIsPointer DEF Vertices
<1>7. Len(stack') = 0 /\ \A i \in 1 .. Len(stack') : FALSE
  BY <1>1, <1>3
<1>8. \A i \in 2 .. Len(stack') : FALSE  BY <1>7
<1>9. {stack'[i].vertex : i \in 1 .. Len(stack')} = {}  BY <1>7
<1>10. DfsOpen'
  BY <1>1, <1>2, <1>3, <1>4, <1>5, <1>6, <1>7, <1>8, <1>9 DEF DfsOpen
<1>11. (color \in [Vertex -> {"white", "gray", "black"}])'  BY <1>1
<1> QED  BY <1>1, <1>6, <1>10, <1>11, Typed, Shown

LEMMA DfsElementKeeps ==
    ASSUME SearchInv, DfsElement
    PROVE  SearchInv'
<1>1. /\ UNCHANGED graph /\ phase = "dfs" /\ phase' = "dfs" /\ stack = <<>> /\ element # NULL
      /\ \/ /\ color[element] = "white"
            /\ color' = [color EXCEPT ![element] = "gray"]
            /\ stack' = Append(stack, [vertex |-> element, member |-> adjacent[element].head])
         \/ UNCHANGED <<color, stack>>
      /\ element' = adjlists.next[element]
      /\ hops' = hops /\ member' = member /\ queue' = queue /\ result' = result
  BY DEF DfsElement, Undiscovered, Call
<1>2. adjlists' = adjlists /\ adjacent' = adjacent /\ Vertices' = Vertices /\ Edges' = Edges
  BY <1>1, SameGraph DEF SearchInv
<1>3. DfsOpen  BY <1>1 DEF SearchInv
<1>4. element \in Vertices /\ element \in Vertex  BY <1>1, <1>3, Typed DEF DfsOpen
<1>5. element' \in Vertices \cup {NULL} /\ element' \in Pointer
  BY <1>1, <1>4, Typed, Loops, HeadIsPointer DEF Vertices, Vertex
<1>6. CASE UNCHANGED <<color, stack>>
  <2>1. Gray' = Gray /\ Black' = Black  BY <1>6 DEF Gray, Black
  <2>2. DfsOpen'  BY <1>1, <1>2, <1>3, <1>5, <1>6, <2>1 DEF DfsOpen
  <2> QED  BY <1>1, <1>5, <1>6, <2>2, Typed, Shown
<1>7. CASE /\ color[element] = "white"
           /\ color' = [color EXCEPT ![element] = "gray"]
           /\ stack' = Append(stack, [vertex |-> element, member |-> adjacent[element].head])
  <2>1. PICK e : e = element  OBVIOUS
  <2>2. PICK f : f = [vertex |-> e, member |-> adjacent[e].head]  OBVIOUS
  <2>3. PICK s : s = <<f>>  OBVIOUS
  <2>4. stack' = s  BY <1>1, <1>7, <2>1, <2>2, <2>3
  <2>5. /\ e \in Vertices /\ e \in Vertex
        /\ adjacent[e].head \in Members(adjacent[e]) \cup {NULL} /\ adjacent[e].head \in Pointer
    BY <1>4, <2>1, Typed, Loops, HeadIsPointer
  <2>6. f \in Frame /\ f.vertex = e /\ f.member = adjacent[e].head
    BY <2>2, <2>5 DEF Frame
  <2>7. s \in Seq(Frame) /\ Len(s) = 1 /\ s[1] = f  BY <2>3, <2>6
  <2>8. Gray = {}
    <3>1. 1 .. Len(stack) = {}  BY <1>1
    <3> QED  BY <1>3, <3>1 DEF DfsOpen
  <2>9. Gray' = {e} /\ Black' = Black
    BY <1>7, <2>1, <2>5, <2>8, Typed DEF Gray, Black
  <2>10. 1 .. Len(s) = {1} /\ 2 .. Len(s) = {}  BY <2>7
  <2>11. {s[i].vertex : i \in 1 .. Len(s)} = Gray'  BY <2>6, <2>7, <2>9, <2>10
  <2>12. DfsOpen'
    BY <1>1, <1>2, <1>3, <1>5, <2>4, <2>5, <2>6, <2>7, <2>9, <2>10, <2>11 DEF DfsOpen
  <2>13. color' \in [Vertex -> {"white", "gray", "black"}]  BY <1>4, <1>7, Typed
  <2> QED  BY <1>1, <1>5, <2>4, <2>7, <2>12, <2>13, Typed, Shown
<1> QED  BY <1>1, <1>6, <1>7

\* The stack when the innermost activation goes on with the next member.
LEMMA AdvancedIs ==
    ASSUME SearchInv, phase = "dfs", stack # <<>>, Innermost.member # NULL
    PROVE  /\ Len(stack) \in Nat /\ Len(stack) > 0
           /\ Innermost = stack[Len(stack)] /\ Innermost.vertex \in Vertices
           /\ Innermost.member \in Members(adjacent[Innermost.vertex])
           /\ <<Innermost.vertex, Innermost.member>> \in Edges
           /\ Advanced \in Seq(Frame) /\ Len(Advanced) = Len(stack)
           /\ \A i \in 1 .. Len(stack) : Advanced[i].vertex = stack[i].vertex
           /\ \A i \in 1 .. Len(stack) - 1 : Advanced[i] = stack[i]
           /\ Advanced[Len(stack)].member = adjacent[Innermost.vertex].next[Innermost.member]
           /\ Advanced[Len(stack)].member \in Members(adjacent[Innermost.vertex]) \cup {NULL}
<1>1. PICK n : n = Len(stack)  OBVIOUS
<1>2. stack \in Seq(Frame) /\ DfsOpen  BY Typed DEF SearchInv
<1>3. n \in Nat /\ n > 0 /\ n \in 1 .. n /\ stack \in [1 .. n -> Frame]
  <2>1. n \in Nat /\ stack \in [1 .. n -> Frame]  BY <1>1, <1>2, LenProperties
  <2>2. n # 0  BY <1>1, <1>2, EmptySeq
  <2> QED  BY <2>1, <2>2
<1>4. PICK f : f = stack[n]  OBVIOUS
<1>5. f \in Frame /\ Innermost = f  BY <1>1, <1>3, <1>4 DEF Innermost
<1>6. f.vertex \in Vertices /\ f.member \in Members(adjacent[f.vertex]) /\ f.vertex \in Vertex
  BY <1>1, <1>2, <1>3, <1>4, <1>5, Typed DEF DfsOpen
<1>7. PICK m : m = adjacent[f.vertex].next[f.member]  OBVIOUS
<1>8. m \in Members(adjacent[f.vertex]) \cup {NULL} /\ m \in Pointer
  <2>1. f.member \in Vertex  BY <1>6, Typed
  <2> QED  BY <1>6, <1>7, <2>1, Typed, Loops, HeadIsPointer DEF Vertex
<1>9. PICK g : g = [f EXCEPT !.member = m]  OBVIOUS
<1>10. g \in Frame /\ g.vertex = f.vertex /\ g.member = m
  BY <1>5, <1>8, <1>9 DEF Frame
<1>11. Advanced = [stack EXCEPT ![n] = g]
  BY <1>1, <1>4, <1>5, <1>7, <1>9 DEF Advanced
<1>12. PICK a : a = [stack EXCEPT ![n] = g]  OBVIOUS
<1>13. a \in Seq(Frame) /\ Len(a) = n  BY <1>1, <1>2, <1>3, <1>10, <1>12, ExceptSeq
<1>14. /\ \A i \in 1 .. n - 1 : a[i] = stack[i]
       /\ a[n] = g
  BY <1>3, <1>12
<1>15. \A i \in 1 .. n : a[i].vertex = stack[i].vertex
  <2> SUFFICES ASSUME NEW i \in 1 .. n PROVE a[i].vertex = stack[i].vertex  OBVIOUS
  <2>1. CASE i = n  BY <1>4, <1>10, <1>14, <2>1
  <2>2. CASE i # n
    <3>1. i \in 1 .. n - 1  BY <1>3, <2>2
    <3> QED  BY <1>14, <3>1
  <2> QED  BY <2>1, <2>2
<1>16. <<f.vertex, f.member>> \in Edges  BY <1>6, VerticesAre, Typed
<1>17. a[n].member = m  BY <1>10, <1>14
<1> QED  BY <1>1, <1>3, <1>4, <1>5, <1>6, <1>7, <1>8, <1>11, <1>12, <1>13, <1>14, <1>15, <1>16, <1>17

LEMMA DfsVisitKeeps ==
    ASSUME SearchInv, DfsVisit
    PROVE  SearchInv'
<1>1. PICK v : v = Innermost.member  OBVIOUS
<1>2. /\ UNCHANGED graph /\ phase = "dfs" /\ phase' = "dfs" /\ stack # <<>>
      /\ v # NULL /\ v \in Vertices
      /\ \/ /\ color[v] = "white"
            /\ color' = [color EXCEPT ![v] = "gray"]
            /\ stack' = Append(Advanced, Call(v)[Len(stack) + 1])
         \/ stack' = Advanced /\ color' = color
      /\ hops' = hops /\ member' = member /\ queue' = queue /\ element' = element
      /\ result' = result
  BY <1>1 DEF DfsVisit, IsVertex, Vertices, Undiscovered
<1>3. adjlists' = adjlists /\ adjacent' = adjacent /\ Vertices' = Vertices /\ Edges' = Edges
  BY <1>2, SameGraph DEF SearchInv
<1>4. DfsOpen  BY <1>2 DEF SearchInv
<1>5. PICK n : n = Len(stack)  OBVIOUS
<1>6. PICK u : u = Innermost.vertex  OBVIOUS
<1>7. PICK a : a = Advanced  OBVIOUS
<1>8. /\ n \in Nat /\ n > 0 /\ stack[n].vertex = u /\ u \in Vertices
      /\ <<u, v>> \in Edges
      /\ a \in Seq(Frame) /\ Len(a) = n
      /\ \A i \in 1 .. n : a[i].vertex = stack[i].vertex
      /\ \A i \in 1 .. n - 1 : a[i] = stack[i]
      /\ a[n].member \in Members(adjacent[u]) \cup {NULL}
  BY <1>1, <1>2, <1>5, <1>6, <1>7, AdvancedIs
<1>9. /\ \A i \in 1 .. n : stack[i].vertex \in Vertices
      /\ \A i \in 1 .. n :
            a[i].vertex \in Vertices /\ a[i].member \in Members(adjacent[a[i].vertex]) \cup {NULL}
      /\ {a[i].vertex : i \in 1 .. n} = Gray
      /\ \A i, j \in 1 .. n : a[i].vertex = a[j].vertex => i = j
      /\ \A i \in 2 .. n : <<a[i - 1].vertex, a[i].vertex>> \in Edges
  <2>1. \A i \in 1 .. n : stack[i].vertex \in Vertices  BY <1>4, <1>5 DEF DfsOpen
  <2>2. ASSUME NEW i \in 1 .. n
        PROVE  a[i].vertex \in Vertices /\ a[i].member \in Members(adjacent[a[i].vertex]) \cup {NULL}
    <3>1. CASE i = n  BY <1>8, <2>2, <3>1
    <3>2. CASE i # n
      <4>1. i \in 1 .. n - 1  BY <1>8, <3>2
      <4> QED  BY <1>4, <1>5, <1>8, <4>1 DEF DfsOpen
    <3> QED  BY <3>1, <3>2
  <2>3. {a[i].vertex : i \in 1 .. n} = Gray
    <3>1. {a[i].vertex : i \in 1 .. n} = {stack[i].vertex : i \in 1 .. n}  BY <1>8
    <3> QED  BY <1>4, <1>5, <3>1 DEF DfsOpen
  <2>4. \A i, j \in 1 .. n : a[i].vertex = a[j].vertex => i = j
    BY <1>4, <1>5, <1>8 DEF DfsOpen
  <2>5. ASSUME NEW i \in 2 .. n PROVE <<a[i - 1].vertex, a[i].vertex>> \in Edges
    <3>1. i \in 1 .. n /\ i - 1 \in 1 .. n  BY <1>8
    <3>2. <<stack[i - 1].vertex, stack[i].vertex>> \in Edges  BY <1>4, <1>5 DEF DfsOpen
    <3> QED  BY <1>8, <3>1, <3>2
  <2> QED  BY <2>1, <2>2, <2>3, <2>4, <2>5
<1>10. CASE stack' = a /\ color' = color
  <2>1. Gray' = Gray /\ Black' = Black  BY <1>10 DEF Gray, Black
  <2>2. stack' = a /\ Len(a) = n  BY <1>8, <1>10
  <2>3. \A i \in 1 .. n :
            a[i].vertex \in Vertices' /\ a[i].member \in Members(adjacent'[a[i].vertex]) \cup {NULL}
    BY <1>3, <1>9
  <2>4. /\ {a[i].vertex : i \in 1 .. n} = Gray'
        /\ \A i, j \in 1 .. n : a[i].vertex = a[j].vertex => i = j
        /\ \A i \in 2 .. n : <<a[i - 1].vertex, a[i].vertex>> \in Edges'
    BY <1>3, <1>9, <2>1
  <2>5. /\ element' \in Vertices' \cup {NULL}
        /\ Intact(result') /\ Members(result') = Black' /\ Black' \subseteq Vertices'
    BY <1>2, <1>3, <1>4, <2>1 DEF DfsOpen
  <2>6. DfsOpen'  BY <2>2, <2>3, <2>4, <2>5 DEF DfsOpen
  <2> QED  BY <1>2, <1>8, <1>10, <2>6, Typed, Shown
<1>11. CASE /\ color[v] = "white"
            /\ color' = [color EXCEPT ![v] = "gray"]
            /\ stack' = Append(a, Call(v)[n + 1])
  <2>1. PICK f : f = [vertex |-> v, member |-> adjacent[v].head]  OBVIOUS
  <2>2. v \in Vertex  BY <1>2, Typed
  <2>3. adjacent[v].head \in Members(adjacent[v]) \cup {NULL} /\ adjacent[v].head \in Pointer
    BY <2>2, Typed, Loops, HeadIsPointer
  <2>4. f \in Frame /\ f.vertex = v /\ f.member = adjacent[v].head
    BY <2>1, <2>2, <2>3 DEF Frame
  <2>5. Call(v)[n + 1] = f
    <3>1. Call(v) = Append(stack, f)  BY <2>1 DEF Call
    <3>2. stack \in Seq(Frame)  BY Typed
    <3> QED  BY <1>5, <2>4, <3>1, <3>2, AppendProperties
  <2>6. PICK s : s = Append(a, f)  OBVIOUS
  <2>7. /\ stack' = s /\ s \in Seq(Frame) /\ Len(s) = n + 1
        /\ \A i \in 1 .. n : s[i] = a[i]
        /\ s[n + 1] = f
    BY <1>8, <1>11, <2>4, <2>5, <2>6, AppendProperties
  <2>8. Gray' = Gray \cup {v} /\ Black' = Black /\ v \notin Gray
    BY <1>11, <2>2, Typed DEF Gray, Black
  <2>9. \A i : i \in 1 .. n + 1 <=> i \in 1 .. n \/ i = n + 1  BY <1>8
  <2>10. {s[i].vertex : i \in 1 .. n + 1} = Gray \cup {v}
    BY <1>9, <2>4, <2>7, <2>9
  <2>11. ASSUME NEW i \in 1 .. n + 1
         PROVE  s[i].vertex \in Vertices /\ s[i].member \in Members(adjacent[s[i].vertex]) \cup {NULL}
    BY <1>2, <1>9, <2>3, <2>4, <2>7, <2>9
  <2>12. ASSUME NEW i \in 1 .. n + 1, NEW j \in 1 .. n + 1, s[i].vertex = s[j].vertex
         PROVE  i = j
    <3>1. \A k \in 1 .. n : s[k].vertex \in Gray  BY <1>9, <2>7
    <3>2. s[n + 1].vertex \notin Gray  BY <2>4, <2>7, <2>8
    <3> QED  BY <1>9, <2>7, <2>9, <2>12, <3>1, <3>2
  <2>13. ASSUME NEW i \in 2 .. n + 1 PROVE <<s[i - 1].vertex, s[i].vertex>> \in Edges
    <3>1. CASE i = n + 1
      <4>1. i - 1 = n /\ n \in 1 .. n  BY <1>8, <3>1
      <4> QED  BY <1>8, <2>4, <2>7, <3>1, <4>1
    <3>2. CASE i # n + 1
      <4>1. i \in 2 .. n /\ i \in 1 .. n /\ i - 1 \in 1 .. n  BY <1>8, <3>2
      <4> QED  BY <1>9, <2>7, <4>1
    <3> QED  BY <3>1, <3>2
  <2>14. color' \in [Vertex -> {"white", "gray", "black"}]  BY <1>11, <2>2, Typed
  <2>15. Intact(result) /\ Members(result) = Black /\ Black \subseteq Vertices
         /\ element \in Vertices \cup {NULL}
    BY <1>4 DEF DfsOpen
  <2>16. DfsOpen'
    BY <1>2, <1>3, <2>7, <2>8, <2>10, <2>11, <2>12, <2>13, <2>15 DEF DfsOpen
  <2> QED  BY <1>2, <2>7, <2>14, <2>16, Typed, Shown
<1> QED  BY <1>2, <1>5, <1>7, <1>10, <1>11

LEMMA DfsLeaveKeeps ==
    ASSUME SearchInv, DfsLeave
    PROVE  SearchInv'
<1>1. PICK n : n = Len(stack)  OBVIOUS
<1>2. PICK u : u = stack[n].vertex  OBVIOUS
<1>3. PICK s : s = Front(stack)  OBVIOUS
<1>4. PICK l : l = InsNext(result, NULL, u)  OBVIOUS
<1>5. /\ UNCHANGED graph /\ phase = "dfs" /\ phase' = "dfs" /\ stack # <<>>
      /\ color' = [color EXCEPT ![u] = "black"]
      /\ result' = l /\ stack' = s
      /\ hops' = hops /\ member' = member /\ queue' = queue /\ element' = element
  BY <1>1, <1>2, <1>3, <1>4 DEF DfsLeave, InFront, Innermost
<1>6. adjlists' = adjlists /\ adjacent' = adjacent /\ Vertices' = Vertices /\ Edges' = Edges
  BY <1>5, SameGraph DEF SearchInv
<1>7. DfsOpen /\ stack \in Seq(Frame)  BY <1>5, Typed DEF SearchInv
<1>8. n \in Nat /\ n > 0 /\ n \in 1 .. n /\ stack \in [1 .. n -> Frame]
  <2>1. n \in Nat /\ stack \in [1 .. n -> Frame]  BY <1>1, <1>7, LenProperties
  <2>2. n # 0  BY <1>1, <1>5, <1>7, EmptySeq
  <2> QED  BY <2>1, <2>2
<1>9. s \in Seq(Frame) /\ Len(s) = n - 1 /\ \A i \in 1 .. n - 1 : s[i] = stack[i]
  <2>1. s = SubSeq(stack, 1, n - 1)  BY <1>1, <1>3 DEF Front
  <2>2. \A i \in 1 .. n - 1 : stack[i] \in Frame  BY <1>8
  <2>3. /\ s \in Seq(Frame) /\ Len(s) = IF 1 <= n - 1 THEN n - 1 - 1 + 1 ELSE 0
        /\ \A i \in 1 .. n - 1 - 1 + 1 : s[i] = stack[1 + i - 1]
    BY <1>8, <2>1, <2>2, SubSeqProperties
  <2>4. Len(s) = n - 1  BY <1>8, <2>3
  <2>5. ASSUME NEW i \in 1 .. n - 1 PROVE s[i] = stack[i]
    <3>1. i \in 1 .. n - 1 - 1 + 1 /\ 1 + i - 1 = i  BY <1>8
    <3> QED  BY <2>3, <3>1
  <2> QED  BY <2>3, <2>4, <2>5
<1>10. u \in Vertices /\ u \in Gray /\ u \in Vertex
  <2>1. u \in Vertices /\ u \in Gray  BY <1>1, <1>2, <1>7, <1>8 DEF DfsOpen
  <2> QED  BY <2>1, Typed
<1>11. Gray' = Gray \ {u} /\ Black' = Black \cup {u} /\ u \notin Black
  BY <1>5, <1>10, Typed DEF Gray, Black
<1>12. Intact(l) /\ Members(l) = Members(result) \cup {u}
  <2>1. Intact(result) /\ u \notin Members(result) /\ u \in Element
    BY <1>7, <1>10, <1>11 DEF DfsOpen, Vertex
  <2> QED  BY <1>4, <2>1, ChainAfterPush
<1>13. /\ \A i \in 1 .. n - 1 :
             s[i].vertex \in Vertices /\ s[i].member \in Members(adjacent[s[i].vertex]) \cup {NULL}
       /\ \A i, j \in 1 .. n - 1 : s[i].vertex = s[j].vertex => i = j
       /\ \A i \in 2 .. n - 1 : <<s[i - 1].vertex, s[i].vertex>> \in Edges
  <2>1. \A i \in 1 .. n - 1 : i \in 1 .. n  BY <1>8
  <2>2. \A i \in 2 .. n - 1 : i \in 1 .. n - 1 /\ i - 1 \in 1 .. n - 1 /\ i \in 2 .. n  BY <1>8
  <2>3. \A i \in 1 .. n :
           stack[i].vertex \in Vertices /\ stack[i].member \in Members(adjacent[stack[i].vertex]) \cup {NULL}
    BY <1>1, <1>7 DEF DfsOpen
  <2>4. \A i, j \in 1 .. n : stack[i].vertex = stack[j].vertex => i = j
    BY <1>1, <1>7 DEF DfsOpen
  <2>5. \A i \in 2 .. n : <<stack[i - 1].vertex, stack[i].vertex>> \in Edges
    BY <1>1, <1>7 DEF DfsOpen
  <2>6. \A i \in 1 .. n - 1 :
           s[i].vertex \in Vertices /\ s[i].member \in Members(adjacent[s[i].vertex]) \cup {NULL}
    BY <1>9, <2>1, <2>3
  <2>7. \A i, j \in 1 .. n - 1 : s[i].vertex = s[j].vertex => i = j
    BY <1>9, <2>1, <2>4
  <2>8. \A i \in 2 .. n - 1 : <<s[i - 1].vertex, s[i].vertex>> \in Edges
    BY <1>9, <2>2, <2>5
  <2> QED  BY <2>6, <2>7, <2>8
<1>14. {s[i].vertex : i \in 1 .. n - 1} = Gray'
  <2>1. Gray = {stack[i].vertex : i \in 1 .. n}  BY <1>1, <1>7 DEF DfsOpen
  <2>2. \A i \in 1 .. n - 1 : stack[i].vertex # u
    BY <1>1, <1>2, <1>7, <1>8 DEF DfsOpen
  <2>3. \A i : i \in 1 .. n <=> i \in 1 .. n - 1 \/ i = n  BY <1>8
  <2>4. {s[i].vertex : i \in 1 .. n - 1} = {stack[i].vertex : i \in 1 .. n - 1}  BY <1>9
  <2>5. Gray \ {u} = {stack[i].vertex : i \in 1 .. n - 1}
    BY <1>2, <2>1, <2>2, <2>3
  <2> QED  BY <1>11, <2>4, <2>5
<1>15. Black' \subseteq Vertices /\ Members(l) = Black' /\ element \in Vertices \cup {NULL}
  BY <1>7, <1>10, <1>11, <1>12 DEF DfsOpen
<1>16. DfsOpen'
  BY <1>5, <1>6, <1>9, <1>12, <1>13, <1>14, <1>15 DEF DfsOpen
<1>17. color' \in [Vertex -> {"white", "gray", "black"}]  BY <1>5, <1>10, Typed
<1>18. l \in List  BY <1>12, ChainOf
<1> QED  BY <1>5, <1>9, <1>16, <1>17, <1>18, Typed, Shown

LEMMA FailsKeep ==
    ASSUME SearchInv, BfsFails \/ DfsFails \/ Return
    PROVE  SearchInv'
BY ForgetKeeps DEF BfsFails, DfsFails, Return

LEMMA DfsReturnKeeps ==
    ASSUME SearchInv, DfsReturn
    PROVE  SearchInv'
<1>1. /\ UNCHANGED graph /\ phase' = "dfs returned"
      /\ color' = color /\ hops' = hops /\ member' = member /\ queue' = queue
      /\ stack' = stack /\ element' = element /\ result' = result
  BY DEF DfsReturn
<1> QED  BY <1>1, Typed, Shown

LEMMA IdleKeeps ==
    ASSUME SearchInv, UNCHANGED vars
    PROVE  SearchInv'
<1>1. /\ UNCHANGED graph
      /\ phase' = phase /\ color' = color /\ hops' = hops /\ member' = member
      /\ queue' = queue /\ stack' = stack /\ element' = element /\ result' = result
  BY DEF vars, searching
<1>2. adjacent' = adjacent /\ Vertices' = Vertices /\ Edges' = Edges
  BY <1>1, SameGraph DEF SearchInv
<1>3. Gray' = Gray /\ Black' = Black  BY <1>1 DEF Gray, Black
<1>4. NearestFirst(Chain(queue))' <=> NearestFirst(Chain(queue))
  BY <1>1 DEF NearestFirst
<1>5. (phase = "bfs" => BfsOpen)'
  BY <1>1, <1>2, <1>3, <1>4 DEF SearchInv, BfsOpen, Peek
<1>6. (phase = "dfs" => DfsOpen)'
  BY <1>1, <1>2, <1>3 DEF SearchInv, DfsOpen
<1>7. (phase = "idle" => stack = <<>> /\ result = EmptyList)'
  BY <1>1 DEF SearchInv
<1>8. phase \in {"idle", "bfs", "dfs", "bfs returned", "dfs returned"}
  BY DEF SearchInv, SearchTypeOK
<1> QED  BY <1>1, <1>5, <1>6, <1>7, <1>8, Typed, Shown

LEMMA StepSearch == SearchInv /\ [SearchNext]_vars => SearchInv'
<1> SUFFICES ASSUME SearchInv, [SearchNext]_vars PROVE SearchInv'  OBVIOUS
<1>1. CASE phase = "idle" /\ Next /\ UNCHANGED searching  BY <1>1, GraphStepKeeps
<1>2. CASE \E v \in Vertex : BfsStart(v)  BY <1>2, BfsStartKeeps
<1>3. CASE BfsVisit  BY <1>3, BfsVisitKeeps
<1>4. CASE BfsDequeue  BY <1>4, BfsDequeueKeeps
<1>5. CASE BfsReturn  BY <1>5, BfsReturnKeeps
<1>6. CASE DfsStart  BY <1>6, DfsStartKeeps
<1>7. CASE DfsElement  BY <1>7, DfsElementKeeps
<1>8. CASE DfsVisit  BY <1>8, DfsVisitKeeps
<1>9. CASE DfsLeave  BY <1>9, DfsLeaveKeeps
<1>10. CASE DfsReturn  BY <1>10, DfsReturnKeeps
<1>11. CASE BfsFails \/ DfsFails \/ Return  BY <1>11, FailsKeep
<1>12. CASE UNCHANGED vars  BY <1>12, IdleKeeps
<1> QED
  BY <1>1, <1>2, <1>3, <1>4, <1>5, <1>6, <1>7, <1>8, <1>9, <1>10, <1>11, <1>12 DEF SearchNext

\* A sequence that holds no vertex twice is as long as it has vertices.
LEMMA Counts ==
    ASSUME NEW n \in Nat, NEW s, \A i, j \in 1 .. n : s[i].vertex = s[j].vertex => i = j
    PROVE  Cardinality({s[i].vertex : i \in 1 .. n}) = n
<1>1. PICK S : S = {s[i].vertex : i \in 1 .. n}  OBVIOUS
<1>2. PICK f : f = [i \in 1 .. n |-> s[i].vertex]  OBVIOUS
<1>3. f \in Bijection(1 .. n, S)
  BY <1>1, <1>2 DEF Bijection, Injection, Surjection, IsInjective
<1>4. ExistsBijection(1 .. n, S)  BY <1>3 DEF ExistsBijection
<1>5. IsFiniteSet(1 .. n) /\ Cardinality(1 .. n) = n  BY UpTo
<1>6. Cardinality(S) = n  BY <1>4, <1>5, FS_Bijection
<1> QED  BY <1>1, <1>6

LEMMA Opened == SearchInv => GrayAreOpen
<1> SUFFICES ASSUME SearchInv PROVE GrayAreOpen  OBVIOUS
<1>1. SearchTypeOK  BY DEF SearchInv
<1>2. ASSUME phase = "bfs"
      PROVE  /\ Represents(queue, Chain(queue)) /\ ToSet(Chain(queue)) = Gray
             /\ NearestFirst(Chain(queue))
  BY <1>2 DEF SearchInv, BfsOpen, Intact, Members
<1>3. ASSUME phase = "dfs"
      PROVE  /\ {stack[i].vertex : i \in DOMAIN stack} = Gray
             /\ Len(stack) = Cardinality(Gray)
             /\ \A i \in 2 .. Len(stack) : <<stack[i - 1].vertex, stack[i].vertex>> \in Edges
  <2>1. DfsOpen /\ stack \in Seq(Frame)  BY <1>3, Typed DEF SearchInv
  <2>2. Len(stack) \in Nat /\ DOMAIN stack = 1 .. Len(stack)  BY <2>1, LenProperties
  <2>3. Cardinality({stack[i].vertex : i \in 1 .. Len(stack)}) = Len(stack)
    BY <2>1, <2>2, Counts DEF DfsOpen
  <2> QED  BY <2>1, <2>2, <2>3 DEF DfsOpen
<1> QED  BY <1>1, <1>2, <1>3 DEF GrayAreOpen

LEMMA Combined == SearchInv => SetsCombine
BY Typed, Combines DEF SetsCombine

\* The vertices that bfs and dfs have open are those in the queue, nearest
\* first, and those on the stack, which are a path.
THEOREM OpenOnesAreGray == SearchSpec => []GrayAreOpen
<1> QED  BY StartInv, StepSearch, Opened, PTL DEF SearchSpec

\* What set.c makes of any two of the sets of a graph, in whatever order their
\* lists have come to be, is the union, the intersection and the difference,
\* and its comparisons are right.
THEOREM SetsAreCombined == SearchSpec => []SetsCombine
<1> QED  BY StartInv, StepSearch, Combined, PTL DEF SearchSpec

-----------------------------------------------------------------------------
(* Distances in the graph, and bfs.                                        *)

Depth == Cardinality(Vertex)

\* Those of near, and the vertices an edge away from them.
Spread(near) == near \cup {e[2] : e \in {d \in Edges : d[1] \in near}}

LEMMA DepthIsNat == Depth \in Nat /\ IsFiniteSet(Vertex)
BY LinkedListAssumption, FS_CardinalityType DEF Depth, Vertex

\* There is a function that obeys the recursion of Within.
LEMMA WithinIs ==
    ASSUME GraphInv, NEW v \in Vertex
    PROVE  /\ Within(v) \in [0 .. Depth -> SUBSET Vertex]
           /\ Within(v)[0] = {v}
           /\ \A n \in 1 .. Depth : Within(v)[n] = Spread(Within(v)[n - 1])
<1>1. Depth \in Nat  BY DepthIsNat
<1> DEFINE Turn(f, n) == IF n = 0 THEN {v}
                         ELSE f[n - 1] \cup {e[2] : e \in {d \in Edges : d[1] \in f[n - 1]}}
<1>2. Within(v) = CHOOSE f : f = [n \in 0 .. Depth |-> Turn(f, n)]
  BY DEF Within, Depth
<1>3. \A near \in SUBSET Vertex : Spread(near) \in SUBSET Vertex
  <2> SUFFICES ASSUME NEW near \in SUBSET Vertex, NEW e \in Edges PROVE e[2] \in Vertex
    BY DEF Spread
  <2>1. Edges = {d \in Vertex \X Vertex : d \in Edges}  BY VerticesAre
  <2> QED  BY <2>1
<1>4. \E f : f = [n \in 0 .. Depth |-> Turn(f, n)]
  <2>1. PICK F : F = [n \in 1 .. Depth |-> [near \in SUBSET Vertex |-> Spread(near)]]  OBVIOUS
  <2>2. F \in [1 .. Depth -> [SUBSET Vertex -> SUBSET Vertex]]  BY <1>3, <2>1
  <2>3. PICK f : Obeys(f, Depth, SUBSET Vertex, {v}, F)
    <3>1. {v} \in SUBSET Vertex  OBVIOUS
    <3> QED  BY <1>1, <2>2, <3>1, RecursionExists
  <2>4. f \in [0 .. Depth -> SUBSET Vertex] /\ f[0] = {v} /\ \A n \in 1 .. Depth : f[n] = F[n][f[n - 1]]
    BY <2>3 DEF Obeys
  <2>5. ASSUME NEW n \in 1 .. Depth PROVE f[n] = Spread(f[n - 1])
    <3>1. n - 1 \in 0 .. Depth  BY <1>1
    <3>2. f[n - 1] \in SUBSET Vertex  BY <2>4, <3>1
    <3> QED  BY <2>1, <2>4, <3>2
  <2>6. \A n \in 0 .. Depth : f[n] = Turn(f, n)
    <3> SUFFICES ASSUME NEW n \in 0 .. Depth PROVE f[n] = Turn(f, n)  OBVIOUS
    <3>1. CASE n = 0  BY <2>4, <3>1
    <3>2. CASE n # 0
      <4>1. n \in 1 .. Depth  BY <1>1, <3>2
      <4> QED  BY <2>5, <3>2, <4>1 DEF Spread
    <3> QED  BY <3>1, <3>2
  <2> HIDE DEF Turn
  <2>7. f = [n \in 0 .. Depth |-> Turn(f, n)]  BY <2>4, <2>6
  <2> QED  BY <2>7
<1> HIDE DEF Turn
<1>5. PICK f : f = CHOOSE g : g = [n \in 0 .. Depth |-> Turn(g, n)]  OBVIOUS
<1>6. f = [n \in 0 .. Depth |-> Turn(f, n)]  BY <1>4, <1>5
<1>7. (\A n \in 0 .. Depth : f[n] = Turn(f, n)) /\ DOMAIN f = 0 .. Depth
  <2>1. \A g : g = [n \in 0 .. Depth |-> Turn(f, n)]
               => (\A n \in 0 .. Depth : g[n] = Turn(f, n)) /\ DOMAIN g = 0 .. Depth
    OBVIOUS
  <2> QED  BY <1>6, <2>1
<1>8. f[0] = {v}
  <2>1. 0 \in 0 .. Depth  BY <1>1
  <2> QED  BY <1>7, <2>1 DEF Turn
<1>9. ASSUME NEW n \in 1 .. Depth PROVE f[n] = Spread(f[n - 1])
  <2>1. n \in 0 .. Depth /\ n # 0  BY <1>1
  <2> QED  BY <1>7, <2>1 DEF Turn, Spread
<1>10. \A n \in 0 .. Depth : f[n] \in SUBSET Vertex
  <2>1. PICK T : T = {n \in 0 .. Depth : f[n] \in SUBSET Vertex}  OBVIOUS
  <2>2. 0 \in T  BY <1>1, <1>8, <2>1
  <2>3. \A n \in 1 .. Depth : n - 1 \in T => n \in T
    BY <1>1, <1>3, <1>9, <2>1
  <2>4. \A n \in 0 .. Depth : n \in T  BY <1>1, <2>2, <2>3, UpTheNumbers
  <2> QED  BY <2>1, <2>4
<1>11. f \in [0 .. Depth -> SUBSET Vertex]
  <2>1. f = [n \in 0 .. Depth |-> f[n]]  BY <1>6, <1>7
  <2> QED  BY <1>10, <2>1
<1> QED  BY <1>2, <1>5, <1>8, <1>9, <1>11

\* It grows.
LEMMA WithinGrows ==
    ASSUME GraphInv, NEW v \in Vertex, NEW m \in 0 .. Depth, NEW n \in 0 .. Depth, m <= n
    PROVE  Within(v)[m] \subseteq Within(v)[n]
<1>1. PICK w : w = Within(v)  OBVIOUS
<1>2. Depth \in Nat /\ \A k \in 1 .. Depth : w[k - 1] \subseteq w[k]
  BY <1>1, WithinIs, DepthIsNat DEF Spread
<1>3. PICK T : T = {k \in 0 .. Depth : k >= m => w[m] \subseteq w[k]}  OBVIOUS
<1>4. 0 \in T
  <2>1. 0 >= m => m = 0  OBVIOUS
  <2> QED  BY <1>2, <1>3, <2>1
<1>5. ASSUME NEW k \in 1 .. Depth, k - 1 \in T PROVE k \in T
  <2>1. k >= m => k - 1 >= m \/ k = m  BY <1>2
  <2>2. k \in 0 .. Depth  BY <1>2
  <2>3. w[k - 1] \subseteq w[k]  BY <1>2
  <2> QED  BY <1>3, <1>5, <2>1, <2>2, <2>3
<1>6. \A k \in 0 .. Depth : k \in T  BY <1>2, <1>4, <1>5, UpTheNumbers
<1> QED  BY <1>1, <1>3, <1>6

\* It grows along the edges, and only along them.
LEMMA WithinSpreads ==
    ASSUME GraphInv, NEW v \in Vertex, NEW n \in 1 .. Depth
    PROVE  /\ \A a \in Vertices : a \in Within(v)[n - 1] =>
                  \A b \in Members(adjacent[a]) : b \in Within(v)[n]
           /\ \A b \in Within(v)[n] : b \notin Within(v)[n - 1] =>
                  \E a \in Vertices : a \in Within(v)[n - 1] /\ b \in Members(adjacent[a])
<1>1. PICK near : near = Within(v)[n - 1]  OBVIOUS
<1>2. Within(v)[n] = near \cup {e[2] : e \in {d \in Edges : d[1] \in near}}
  BY <1>1, WithinIs DEF Spread
<1>3. \A a, b : <<a, b>> \in Edges <=> a \in Vertices /\ b \in Members(adjacent[a])
  BY VerticesAre
<1>4. Edges = {d \in Vertex \X Vertex : d \in Edges}  BY VerticesAre
<1>5. ASSUME NEW a \in Vertices, a \in near, NEW b \in Members(adjacent[a])
      PROVE  b \in Within(v)[n]
  <2>1. <<a, b>> \in Edges /\ <<a, b>>[1] = a /\ <<a, b>>[2] = b  BY <1>3
  <2> QED  BY <1>2, <1>5, <2>1
<1>6. ASSUME NEW b \in Within(v)[n], b \notin near
      PROVE  \E a \in Vertices : a \in near /\ b \in Members(adjacent[a])
  <2>1. PICK d \in Edges : d[1] \in near /\ d[2] = b  BY <1>2, <1>6
  <2>2. d = <<d[1], d[2]>>  BY <1>4
  <2> QED  BY <1>3, <2>1, <2>2
<1> QED  BY <1>1, <1>5, <1>6

AtDistance(s, v, n) == v \in Within(s)[n] /\ \A m \in 0 .. n - 1 : v \notin Within(s)[m]

LEMMA DistanceIs ==
    ASSUME GraphInv, NEW s \in Vertex, NEW v \in Vertex
    PROVE  /\ \A n \in 0 .. Depth : AtDistance(s, v, n) => Distances(s)[v] = n
           /\ (\A n \in 0 .. Depth : v \notin Within(s)[n]) => Distances(s)[v] = -1
<1>1. PICK within : within = Within(s)  OBVIOUS
<1>2. PICK near : near = {n \in DOMAIN within : v \in within[n]}  OBVIOUS
<1>3. DOMAIN within = 0 .. Depth /\ Depth \in Nat  BY <1>1, WithinIs, DepthIsNat
<1>4. Distances(s)[v] = IF near = {} THEN -1 ELSE CHOOSE n \in near : \A m \in near : n <= m
  BY <1>1, <1>2 DEF Distances
<1>5. ASSUME NEW n \in 0 .. Depth, AtDistance(s, v, n) PROVE Distances(s)[v] = n
  <2>1. n \in near  BY <1>1, <1>2, <1>3, <1>5 DEF AtDistance
  <2>2. \A m \in near : n <= m
    <3> SUFFICES ASSUME NEW m \in near, m < n PROVE FALSE
      BY <1>2, <1>3
    <3>1. m \in 0 .. n - 1 /\ v \in within[m]  BY <1>2, <1>3
    <3> QED  BY <1>1, <1>5, <3>1 DEF AtDistance
  <2>3. PICK k : k = CHOOSE i \in near : \A m \in near : i <= m  OBVIOUS
  <2>4. k \in near /\ \A m \in near : k <= m  BY <2>1, <2>2, <2>3
  <2>5. k <= n /\ n <= k /\ k \in Nat /\ n \in Nat  BY <1>2, <1>3, <2>1, <2>2, <2>4
  <2>6. k = n  BY <2>5
  <2> QED  BY <1>4, <2>1, <2>3, <2>6
<1>6. ASSUME \A n \in 0 .. Depth : v \notin Within(s)[n] PROVE Distances(s)[v] = -1
  BY <1>1, <1>2, <1>3, <1>4, <1>6
<1> QED  BY <1>5, <1>6

\* Those of a list that a loop over it has met before e are not white.
Passed(list, e, white) ==
    \A k \in 1 .. Len(Chain(list)) :
        (\A j \in 1 .. k : Chain(list)[j] # e) => Chain(list)[k] \notin white

LEMMA PassedOn ==
    ASSUME NEW list, Intact(list), NEW e \in Members(list), NEW white, Passed(list, e, white),
           NEW less, less \subseteq white, e \notin less
    PROVE  Passed(list, list.next[e], less)
<1>1. PICK c : c = Chain(list)  OBVIOUS
<1>2. PICK n : n = Len(c)  OBVIOUS
<1>3. PICK next : next = list.next[e]  OBVIOUS
<1>4. /\ n \in Nat /\ Members(list) = {c[k] : k \in 1 .. n}
      /\ \A k \in 1 .. n : list.next[c[k]] = IF k = n THEN NULL ELSE c[k + 1]
  BY <1>1, <1>2, Fields, MembersAre DEF Intact
<1>5. PICK p \in 1 .. n : c[p] = e  BY <1>4
<1>6. ASSUME NEW k \in 1 .. n, \A j \in 1 .. k : c[j] # next PROVE c[k] \notin less
  <2>1. k <= p
    <3> SUFFICES ASSUME ~(k <= p) PROVE FALSE  OBVIOUS
    <3>1. p # n /\ p + 1 \in 1 .. k  BY <1>4
    <3>2. next = c[p + 1]  BY <1>3, <1>4, <1>5, <3>1
    <3> QED  BY <1>6, <3>1, <3>2
  <2>2. CASE k = p  BY <1>5, <2>2
  <2>3. CASE k # p
    <3>1. ASSUME NEW i \in 1 .. k PROVE c[i] # e
      <4>1. i \in 1 .. n /\ i # p  BY <1>4, <2>1, <2>3
      <4>2. \A j \in 1 .. n : c[j] = c[p] => j = p
        BY <1>1, <1>2, ChainOf
      <4> QED  BY <1>5, <4>1, <4>2
    <3>2. c[k] \notin white  BY <1>1, <1>2, <3>1 DEF Passed
    <3> QED  BY <3>2
  <2> QED  BY <2>2, <2>3
<1> QED  BY <1>1, <1>2, <1>3, <1>6 DEF Passed

LEMMA PassedNone ==
    ASSUME NEW list, Intact(list), NEW white
    PROVE  Passed(list, list.head, white)
<1>1. PICK c : c = Chain(list)  OBVIOUS
<1>2. PICK n : n = Len(c)  OBVIOUS
<1>3. n \in Nat /\ list.head = IF n = 0 THEN NULL ELSE c[1]
  BY <1>1, <1>2, Fields DEF Intact
<1>4. ASSUME NEW k \in 1 .. n PROVE \E j \in 1 .. k : c[j] = list.head
  <2>1. 1 \in 1 .. k /\ n # 0  BY <1>3
  <2> QED  BY <1>3, <2>1
<1> QED  BY <1>1, <1>2, <1>4 DEF Passed

LEMMA PassedAll ==
    ASSUME NEW list, Intact(list), NEW white, Passed(list, NULL, white)
    PROVE  Members(list) \cap white = {}
<1>1. PICK c : c = Chain(list)  OBVIOUS
<1>2. PICK n : n = Len(c)  OBVIOUS
<1>3. /\ n \in Nat /\ Members(list) = {c[k] : k \in 1 .. n}
      /\ \A k \in 1 .. n : c[k] # NULL
  BY <1>1, <1>2, Fields, MembersAre DEF Intact
<1>4. ASSUME NEW k \in 1 .. n PROVE c[k] \notin white
  <2>1. \A j \in 1 .. k : c[j] # NULL
    <3>1. \A j \in 1 .. k : j \in 1 .. n  BY <1>3
    <3> QED  BY <1>3, <3>1
  <2> QED  BY <1>1, <1>2, <2>1 DEF Passed
<1> QED  BY <1>3, <1>4

\* bfs from s: a vertex that is not white has its distance; those adjacent to
\* a black one, and those as near as the first in the queue, are not white.
FromStart(s) ==
    /\ hops[s] = 0
    /\ \A v \in Vertex : v \in White <=> hops[v] = -1
    /\ \A v \in Vertex \ White :
          /\ hops[v] \in 0 .. Depth /\ AtDistance(s, v, hops[v])
          /\ \A n \in 0 .. hops[v] - 1 : \E u \in Vertex : hops[u] = n
    /\ \A u \in Black : u \in Vertices /\ Members(adjacent[u]) \cap White = {}
    /\ queue.size > 0 =>
          /\ Passed(adjacent[Peek(queue)], member, White)
          /\ Within(s)[hops[Peek(queue)]] \cap White = {}
          /\ \A u \in Black : hops[u] <= hops[Peek(queue)]

HopsInv ==
    /\ phase = "bfs" => \E s \in Vertices : FromStart(s)
    /\ phase = "bfs returned" => HopsAreDistances

\* There are more vertices than hops to any of them.
LEMMA HopsBounded ==
    ASSUME NEW h \in [Vertex -> Int], NEW v \in Vertex, h[v] >= 0,
           \A n \in 0 .. h[v] - 1 : \E u \in Vertex : h[u] = n
    PROVE  h[v] \in 0 .. Depth
<1>1. PICK d : d = h[v]  OBVIOUS
<1>2. d \in Nat /\ Depth \in Nat /\ IsFiniteSet(Vertex)  BY <1>1, DepthIsNat
<1>3. \A n \in 0 .. d : \E u \in Vertex : h[u] = n
  <2> SUFFICES ASSUME NEW n \in 0 .. d PROVE \E u \in Vertex : h[u] = n  OBVIOUS
  <2>1. n = d \/ n \in 0 .. d - 1  BY <1>2
  <2> QED  BY <1>1, <2>1
<1>4. PICK f : f = [n \in 0 .. d |-> CHOOSE u \in Vertex : h[u] = n]  OBVIOUS
<1>5. f \in [0 .. d -> Vertex] /\ \A n \in 0 .. d : h[f[n]] = n
  BY <1>3, <1>4
<1>6. IsFiniteSet(0 .. d) /\ Cardinality(0 .. d) = d + 1
  <2>1. IsFiniteSet(0 .. d) /\ Cardinality(0 .. d) = IF 0 > d THEN 0 ELSE d - 0 + 1
    BY <1>2, FS_Interval
  <2> QED  BY <1>2, <2>1
<1>7. ~(Depth < d + 1)
  <2> SUFFICES ASSUME Depth < d + 1 PROVE FALSE  OBVIOUS
  <2>1. PICK m \in 0 .. d, n \in 0 .. d : m # n /\ f[m] = f[n]
    BY <1>2, <1>5, <1>6, FS_PigeonHole DEF Depth
  <2> QED  BY <1>5, <2>1
<1> QED  BY <1>1, <1>2, <1>7

\* Where bfs is with the first in its queue.
LEMMA Visiting ==
    ASSUME SearchInv, phase = "bfs", queue.size > 0
    PROVE  /\ BfsOpen /\ Peek(queue) \in Gray /\ Peek(queue) \in Vertices /\ Peek(queue) \in Vertex
           /\ color[Peek(queue)] = "gray" /\ queue.tail # NULL
<1>1. BfsOpen  BY DEF SearchInv
<1>2. Peek(queue) \in Members(queue)  BY <1>1, Loops DEF BfsOpen, Peek
<1>3. queue.tail # NULL
  <2>1. PICK c : c = Chain(queue)  OBVIOUS
  <2>2. PICK n : n = Len(c)  OBVIOUS
  <2>3. /\ n \in Nat /\ queue.size = n /\ \A k \in 1 .. n : c[k] # NULL
        /\ queue.tail = IF n = 0 THEN NULL ELSE c[n]
    BY <1>1, <2>1, <2>2, Fields DEF BfsOpen, Intact
  <2>4. n \in 1 .. n /\ n # 0  BY <2>3
  <2> QED  BY <2>3, <2>4
<1> QED  BY <1>1, <1>2, <1>3, Typed DEF BfsOpen, Gray

LEMMA WithinSame ==
    ASSUME Edges' = Edges
    PROVE  \A v : Within(v)' = Within(v)
BY DEF Within

LEMMA StartFromStart ==
    ASSUME SearchInv, NEW s \in Vertex, BfsStart(s)
    PROVE  s \in Vertices' /\ FromStart(s)'
<1>1. PICK q : q = Enqueue(EmptyList, s)  OBVIOUS
<1>2. /\ UNCHANGED graph /\ s \in Vertices
      /\ color' = [v \in Vertex |-> IF v = s THEN "gray" ELSE "white"]
      /\ hops' = [v \in Vertex |-> IF v = s THEN 0 ELSE -1]
      /\ queue' = q
      /\ member' = adjacent[s].head
  BY <1>1 DEF BfsStart, IsVertex, Vertices
<1>3. adjacent' = adjacent /\ Vertices' = Vertices /\ Edges' = Edges /\ GraphInv
  BY <1>2, SameGraph DEF SearchInv
<1>4. Peek(queue') = s
  <2>1. q.head = s
    BY <1>1 DEF Enqueue, EmptyList, InsNext
  <2> QED  BY <1>2, <2>1 DEF Peek
<1>5. White' = Vertex \ {s} /\ Black' = {}  BY <1>2 DEF White, Black
<1>6. Within(s)' = Within(s) /\ Within(s)[0] = {s}  BY <1>3, WithinSame, WithinIs
<1>7. hops'[s] = 0 /\ \A v \in Vertex : v \in White' <=> hops'[v] = -1
  BY <1>2, <1>5
<1>8. /\ hops'[s] \in 0 .. Depth /\ AtDistance(s, s, hops[s])'
      /\ \A n \in 0 .. hops'[s] - 1 : \E u \in Vertex : hops'[u] = n
  <2>1. 0 .. 0 - 1 = {}  OBVIOUS
  <2>2. 0 \in 0 .. Depth  BY DepthIsNat
  <2> QED  BY <1>6, <1>7, <2>1, <2>2 DEF AtDistance
<1>9. \A v \in Vertex \ White' : v = s  BY <1>5
<1>10. Passed(adjacent[s], adjacent[s].head, White')  BY Typed, PassedNone
<1>11. Within(s)[0] \cap White' = {}  BY <1>5, <1>6
<1> QED  BY <1>2, <1>3, <1>4, <1>5, <1>6, <1>7, <1>8, <1>9, <1>10, <1>11 DEF FromStart

LEMMA VisitFromStart ==
    ASSUME SearchInv, NEW s \in Vertices, FromStart(s), BfsVisit
    PROVE  FromStart(s)'
<1>1. PICK first : first = Peek(queue)  OBVIOUS
<1>2. /\ UNCHANGED graph /\ phase = "bfs" /\ member # NULL /\ member \in Vertices
      /\ member' = adjacent[first].next[member]
      /\ \/ /\ color[member] = "white"
            /\ color' = [color EXCEPT ![member] = "gray"]
            /\ hops' = [hops EXCEPT ![member] = hops[first] + 1]
            /\ queue' = InsNext(queue, queue.tail, member)
         \/ color[member] # "white" /\ UNCHANGED <<color, hops, queue>>
  BY <1>1 DEF BfsVisit, IsVertex, Vertices, Undiscovered, Enqueue
<1>3. adjacent' = adjacent /\ Vertices' = Vertices /\ Edges' = Edges /\ GraphInv
  BY <1>2, SameGraph DEF SearchInv
<1>4. Within(s)' = Within(s)  BY <1>3, WithinSame
<1>5. BfsOpen  BY <1>2 DEF SearchInv
<1>6. queue.size \in Nat /\ queue.size > 0
  <2>1. queue.size \in Nat /\ queue.size # 0  BY <1>2, <1>5, ChainOf DEF BfsOpen
  <2> QED  BY <2>1
<1>7. /\ first \in Vertices /\ first \in Vertex /\ member \in Vertex /\ s \in Vertex
      /\ color[first] = "gray" /\ queue.tail # NULL
      /\ member \in Members(adjacent[first]) /\ Intact(adjacent[first])
      /\ color \in [Vertex -> {"white", "gray", "black"}] /\ hops \in [Vertex -> Int]
  BY <1>1, <1>2, <1>5, <1>6, Visiting, Typed DEF BfsOpen
<1>8. /\ Passed(adjacent[first], member, White)
      /\ Within(s)[hops[first]] \cap White = {}
      /\ \A u \in Black : hops[u] <= hops[first]
  BY <1>1, <1>6 DEF FromStart
<1>9. CASE color[member] # "white" /\ UNCHANGED <<color, hops, queue>>
  <2>1. White' = White /\ Black' = Black /\ member \notin White
    BY <1>9 DEF White, Black
  <2>2. Passed(adjacent[first], member', White)
    BY <1>2, <1>7, <1>8, <2>1, PassedOn
  <2>3. \A v : AtDistance(s, v, hops[v])' <=> AtDistance(s, v, hops[v])
    BY <1>4, <1>9 DEF AtDistance
  <2> QED  BY <1>1, <1>3, <1>4, <1>8, <1>9, <2>1, <2>2, <2>3 DEF FromStart
<1>10. CASE /\ color[member] = "white"
            /\ color' = [color EXCEPT ![member] = "gray"]
            /\ hops' = [hops EXCEPT ![member] = hops[first] + 1]
            /\ queue' = InsNext(queue, queue.tail, member)
  <2>1. Peek(queue') = first
    <3>1. InsNext(queue, queue.tail, member).head = queue.head  BY <1>7 DEF InsNext
    <3> QED  BY <1>1, <1>10, <3>1 DEF Peek
  <2>2. White' = White \ {member} /\ Black' = Black /\ member \in White
    BY <1>7, <1>10 DEF White, Black
  <2>3. Passed(adjacent[first], member', White')
    <3>1. White' \subseteq White /\ member \notin White'  BY <2>2
    <3>2. PICK w : w = White'  OBVIOUS
    <3>3. Passed(adjacent[first], adjacent[first].next[member], w)
      BY <1>7, <1>8, <3>1, <3>2, PassedOn
    <3> QED  BY <1>2, <3>2, <3>3
  <2>4. PICK d : d = hops[first]  OBVIOUS
  <2>5. /\ first \in Vertex \ White /\ d \in 0 .. Depth /\ AtDistance(s, first, d)
        /\ \A n \in 0 .. d - 1 : \E u \in Vertex : hops[u] = n
    <3>1. first \in Vertex \ White  BY <1>7 DEF White
    <3> QED  BY <2>4, <3>1 DEF FromStart
  <2>6. hops'[member] = d + 1 /\ \A v \in Vertex \ {member} : hops'[v] = hops[v]
    BY <1>7, <1>10, <2>4
  <2>7. first # member /\ member # s
    <3>1. hops[member] = -1 /\ hops[s] = 0  BY <1>7, <2>2 DEF FromStart
    <3> QED  BY <2>2, <2>5, <3>1
  <2>8. \A n \in 0 .. d : \E u \in Vertex : hops[u] = n /\ hops'[u] = n
    <3> SUFFICES ASSUME NEW n \in 0 .. d PROVE \E u \in Vertex : hops[u] = n /\ hops'[u] = n
      OBVIOUS
    <3>1. CASE n = d  BY <1>7, <2>4, <2>6, <2>7, <3>1
    <3>2. CASE n # d
      <4>1. n \in 0 .. d - 1  BY <2>5, <3>2
      <4>2. PICK u \in Vertex : hops[u] = n  BY <2>5, <4>1
      <4>3. u # member
        <5>1. hops[member] = -1  BY <1>7, <2>2 DEF FromStart
        <5>2. n # -1  OBVIOUS
        <5> QED  BY <4>2, <5>1, <5>2
      <4> QED  BY <2>6, <4>2, <4>3
    <3> QED  BY <3>1, <3>2
  <2>9. d \in Nat /\ Depth \in Nat  BY <2>5, DepthIsNat
  <2>10. d + 1 \in 0 .. Depth
    <3>1. PICK h : h = hops'  OBVIOUS
    <3>2. h \in [Vertex -> Int]  BY <1>7, <1>10, <2>4, <2>9, <3>1
    <3>3. h[member] = d + 1 /\ h[member] >= 0  BY <2>6, <2>9, <3>1
    <3>4. \A n \in 0 .. h[member] - 1 : \E u \in Vertex : h[u] = n
      <4>1. h[member] - 1 = d  BY <2>9, <3>3
      <4> QED  BY <2>8, <3>1, <4>1
    <3> QED  BY <1>7, <3>2, <3>3, <3>4, HopsBounded
  <2>11. AtDistance(s, member, d + 1)
    <3>1. d + 1 \in 1 .. Depth /\ (d + 1) - 1 = d  BY <2>9, <2>10
    <3>2. first \in Within(s)[d]  BY <2>5 DEF AtDistance
    <3>3. member \in Within(s)[d + 1]
      <4>1. PICK n \in 1 .. Depth : n = d + 1  BY <3>1
      <4>2. first \in Within(s)[n - 1]  BY <3>1, <3>2, <4>1
      <4>3. member \in Within(s)[n]  BY <1>3, <1>7, <4>2, WithinSpreads
      <4> QED  BY <4>1, <4>3
    <3>4. ASSUME NEW m \in 0 .. d PROVE member \notin Within(s)[m]
      <4>1. m \in 0 .. Depth /\ m <= d  BY <2>5, <2>9
      <4>2. Within(s)[m] \subseteq Within(s)[d]  BY <1>3, <1>7, <2>5, <4>1, WithinGrows
      <4> QED  BY <1>8, <2>2, <2>4, <4>2
    <3>5. (d + 1) - 1 = d  BY <2>9
    <3> QED  BY <3>3, <3>4, <3>5 DEF AtDistance
  <2>12. ASSUME NEW v \in Vertex \ White'
         PROVE  /\ hops'[v] \in 0 .. Depth /\ AtDistance(s, v, hops[v])'
                /\ \A n \in 0 .. hops'[v] - 1 : \E u \in Vertex : hops'[u] = n
    <3>1. CASE v = member
      <4>1. AtDistance(s, v, d + 1)'
        BY <1>4, <2>11, <3>1 DEF AtDistance
      <4>2. hops'[v] - 1 = d  BY <2>6, <2>9, <3>1
      <4>3. hops'[v] = d + 1  BY <2>6, <3>1
      <4>4. AtDistance(s, v, hops[v])'
        <5>1. v \in Within(s)[hops'[v]] /\ \A m \in 0 .. hops'[v] - 1 : v \notin Within(s)[m]
          BY <2>11, <3>1, <4>3 DEF AtDistance
        <5> QED  BY <1>4, <5>1 DEF AtDistance
      <4> QED  BY <2>8, <2>10, <4>2, <4>3, <4>4
    <3>2. CASE v # member
      <4>1. v \in Vertex \ White  BY <2>2, <2>12, <3>2
      <4>2. hops'[v] = hops[v]  BY <2>6, <3>2
      <4>3. /\ hops[v] \in 0 .. Depth /\ AtDistance(s, v, hops[v])
            /\ \A n \in 0 .. hops[v] - 1 : \E u \in Vertex : hops[u] = n
        BY <4>1 DEF FromStart
      <4>4. AtDistance(s, v, hops[v])'
        BY <1>4, <4>2, <4>3 DEF AtDistance
      <4>5. ASSUME NEW n \in 0 .. hops[v] - 1 PROVE \E u \in Vertex : hops'[u] = n
        <5>1. PICK u \in Vertex : hops[u] = n  BY <4>3
        <5>2. u # member
          <6>1. hops[member] = -1  BY <1>7, <2>2 DEF FromStart
          <6>2. n # -1  OBVIOUS
          <6> QED  BY <5>1, <6>1, <6>2
        <5> QED  BY <2>6, <5>1, <5>2
      <4> QED  BY <4>2, <4>3, <4>4, <4>5
    <3> QED  BY <3>1, <3>2
  <2>13. \A v \in Vertex : v \in White' <=> hops'[v] = -1
    <3> SUFFICES ASSUME NEW v \in Vertex PROVE v \in White' <=> hops'[v] = -1  OBVIOUS
    <3>1. CASE v = member
      <4>1. d + 1 # -1  BY <2>9
      <4> QED  BY <2>2, <2>6, <3>1, <4>1
    <3>2. CASE v # member
      <4>1. v \in White <=> hops[v] = -1  BY DEF FromStart
      <4> QED  BY <2>2, <2>6, <3>2, <4>1
    <3> QED  BY <3>1, <3>2
  <2>14. hops'[s] = 0  BY <1>7, <2>6, <2>7 DEF FromStart
  <2>15. \A u \in Black : hops'[u] = hops[u]
    BY <1>7, <2>2, <2>6 DEF Black, White
  <2>16. \A u \in Black' : u \in Vertices /\ Members(adjacent[u]) \cap White' = {}
    BY <2>2 DEF FromStart
  <2>17. hops'[first] = d  BY <1>7, <2>4, <2>6, <2>7
  <2>18. Within(s)[d] \cap White' = {} /\ \A u \in Black' : hops'[u] <= d
    BY <1>8, <2>2, <2>4, <2>15
  <2> QED
    BY <1>3, <1>4, <2>1, <2>3, <2>12, <2>13, <2>14, <2>16, <2>17, <2>18 DEF FromStart
<1> QED  BY <1>2, <1>9, <1>10

LEMMA DequeueFromStart ==
    ASSUME SearchInv, NEW s \in Vertices, FromStart(s), BfsDequeue
    PROVE  FromStart(s)'
<1>1. PICK q : q = Dequeue(queue)  OBVIOUS
<1>2. PICK first : first = Peek(queue)  OBVIOUS
<1>3. /\ UNCHANGED graph /\ phase = "bfs" /\ member = NULL /\ queue.size > 0
      /\ color' = [color EXCEPT ![first] = "black"] /\ hops' = hops
      /\ queue' = q
      /\ member' = IF q.head = NULL THEN NULL ELSE adjacent[q.head].head
  BY <1>1, <1>2 DEF BfsDequeue
<1>4. adjacent' = adjacent /\ Vertices' = Vertices /\ Edges' = Edges /\ GraphInv
  BY <1>3, SameGraph DEF SearchInv
<1>5. Within(s)' = Within(s)  BY <1>4, WithinSame
<1>6. /\ BfsOpen /\ first \in Vertices /\ first \in Vertex /\ s \in Vertex
      /\ color[first] = "gray" /\ Intact(adjacent[first])
      /\ color \in [Vertex -> {"white", "gray", "black"}] /\ hops \in [Vertex -> Int]
  BY <1>2, <1>3, Visiting, Typed
<1>7. /\ Passed(adjacent[first], NULL, White)
      /\ Within(s)[hops[first]] \cap White = {}
      /\ \A u \in Black : hops[u] <= hops[first]
  BY <1>2, <1>3 DEF FromStart
<1>8. White' = White /\ Black' = Black \cup {first}
  BY <1>3, <1>6 DEF White, Black
<1>9. Members(adjacent[first]) \cap White = {}
  BY <1>6, <1>7, PassedAll
<1>10. \A u \in Black' : u \in Vertices /\ Members(adjacent[u]) \cap White = {}
  BY <1>6, <1>8, <1>9 DEF FromStart
<1>11. \A v : AtDistance(s, v, hops[v])' <=> AtDistance(s, v, hops[v])
  BY <1>3, <1>5 DEF AtDistance
<1>12. PICK d : d = hops[first]  OBVIOUS
<1>13. first \in Vertex \ White /\ d \in 0 .. Depth /\ Depth \in Nat
  <2>1. first \in Vertex \ White  BY <1>6 DEF White
  <2> QED  BY <1>12, <2>1, DepthIsNat DEF FromStart
<1>14. ASSUME q.size > 0
       PROVE  /\ Passed(adjacent[q.head], member', White)
              /\ Within(s)[hops[q.head]] \cap White = {}
              /\ \A u \in Black' : hops[u] <= hops[q.head]
  <2>1. PICK c : c = Chain(queue)  OBVIOUS
  <2>2. PICK n : n = Len(c)  OBVIOUS
  <2>3. PICK h : h = q.head  OBVIOUS
  <2>4. /\ Intact(q) /\ Members(q) = Members(queue) \ {first}
        /\ Len(Chain(q)) = n - 1
        /\ \A k \in 1 .. n - 1 : Chain(q)[k] = c[k + 1]
        /\ queue.head = c[1]
    <3>1. q = RemNext(queue, NULL)  BY <1>1 DEF Dequeue
    <3> QED  BY <1>2, <1>3, <1>6, <2>1, <2>2, <3>1, ChainAfterDequeue DEF BfsOpen, Peek
  <2>5. n \in Nat /\ n >= 2 /\ h = c[2] /\ c[1] = first
        /\ DOMAIN c = 1 .. n
    <3>1. n \in Nat /\ DOMAIN c = 1 .. n
      BY <1>6, <2>1, <2>2, ChainOf, LenProperties DEF BfsOpen
    <3>2. q.size = n - 1  BY <2>4, ChainOf
    <3>3. q.head = IF n - 1 = 0 THEN NULL ELSE Chain(q)[1]
      <4>1. PICK r : r = Chain(q)  OBVIOUS
      <4>2. q.head = IF Len(r) = 0 THEN NULL ELSE r[1]
        BY <2>4, <4>1, Fields DEF Intact
      <4> QED  BY <2>4, <4>1, <4>2
    <3>4. 1 \in 1 .. n - 1 /\ n - 1 # 0  BY <1>14, <3>1, <3>2
    <3>5. h = c[1 + 1]  BY <2>3, <2>4, <3>3, <3>4
    <3>6. n >= 2 /\ h = c[2]
      <4>1. 1 + 1 = 2  OBVIOUS
      <4> QED  BY <3>1, <3>4, <3>5, <4>1
    <3>7. c[1] = first  BY <1>2, <2>4 DEF Peek
    <3> QED  BY <3>1, <3>6, <3>7
  <2>6. \A i, j \in 1 .. n : i <= j => hops[c[j]] - hops[c[i]] \in {0, 1}
    BY <1>6, <2>1, <2>5 DEF BfsOpen, NearestFirst
  <2>7. h # NULL /\ h \in Members(q)
    BY <1>14, <2>3, <2>4, Loops
  <2>8. h \in Gray /\ h \in Vertex /\ h \in Vertices
    BY <1>6, <2>4, <2>7 DEF BfsOpen, Gray
  <2>9. Passed(adjacent[h], member', White)
    <3>1. member' = adjacent[h].head  BY <1>3, <2>3, <2>7
    <3> QED  BY <2>8, <3>1, Typed, PassedNone
  <2>10. hops[h] \in Int /\ d \in Int /\ (hops[h] = d \/ hops[h] = d + 1)
    <3>1. 1 \in 1 .. n /\ 2 \in 1 .. n  BY <2>5
    <3>2. hops[c[2]] - hops[c[1]] \in {0, 1}  BY <2>6, <3>1
    <3>3. hops[h] \in Int /\ d \in Int  BY <1>6, <1>13, <2>8
    <3> QED  BY <1>12, <2>5, <3>2, <3>3
  <2>11. \A u \in Black' : hops[u] <= hops[h]
    <3> SUFFICES ASSUME NEW u \in Black' PROVE hops[u] <= hops[h]  OBVIOUS
    <3>1. hops[u] <= d
      <4>1. d <= d  BY <1>13
      <4> QED  BY <1>7, <1>8, <1>12, <4>1
    <3>2. hops[u] \in Int
      <4>1. u \in Vertex  BY <1>6, <1>8 DEF Black
      <4> QED  BY <1>6, <4>1
    <3> QED  BY <2>10, <3>1, <3>2
  <2>12. Within(s)[hops[h]] \cap White = {}
    <3>1. CASE hops[h] = d  BY <1>7, <1>12, <3>1
    <3>2. CASE hops[h] = d + 1
      <4>1. h \in Vertex \ White  BY <2>8 DEF Gray, White
      <4>2. hops[h] \in 0 .. Depth  BY <4>1 DEF FromStart
      <4>3. PICK m \in 1 .. Depth : m = d + 1  BY <1>13, <3>2, <4>2
      <4>4. m - 1 = d  BY <1>13, <4>3
      <4> SUFFICES ASSUME NEW b \in Within(s)[m], b \in White PROVE FALSE
        BY <3>2, <4>3
      <4>5. b \notin Within(s)[m - 1]  BY <1>7, <1>12, <4>4
      <4>6. PICK a \in Vertices : a \in Within(s)[m - 1] /\ b \in Members(adjacent[a])
        BY <1>4, <1>6, <4>5, WithinSpreads
      <4>7. a \in Vertex /\ a \notin White /\ a \in Within(s)[d]
        BY <1>7, <1>12, <4>4, <4>6, Typed
      <4>8. hops[a] \in 0 .. Depth /\ AtDistance(s, a, hops[a])
        BY <4>7 DEF FromStart
      <4>9. hops[a] <= d
        <5> SUFFICES ASSUME ~(hops[a] <= d) PROVE FALSE  OBVIOUS
        <5>1. d \in 0 .. hops[a] - 1  BY <1>13, <4>8
        <5> QED  BY <4>7, <4>8, <5>1 DEF AtDistance
      <4>10. a \in Black'
        <5> SUFFICES ASSUME a \notin Black' PROVE FALSE  OBVIOUS
        <5>1. a \in Gray /\ a # first  BY <1>6, <1>8, <4>7 DEF Gray, White, Black
        <5>2. a \in Members(q)  BY <1>6, <2>4, <5>1 DEF BfsOpen
        <5>3. PICK k \in 1 .. n - 1 : Chain(q)[k] = a  BY <2>4, <5>2, ChainOf
        <5>4. c[k + 1] = a /\ 2 \in 1 .. n /\ k + 1 \in 1 .. n /\ 2 <= k + 1
          BY <2>4, <2>5, <5>3
        <5>5. hops[a] - hops[h] \in {0, 1}  BY <2>5, <2>6, <5>4
        <5> QED  BY <1>13, <3>2, <4>8, <4>9, <5>5
      <4> QED  BY <1>10, <4>6, <4>10
    <3> QED  BY <2>10, <3>1, <3>2
  <2> QED  BY <2>3, <2>9, <2>11, <2>12
<1> QED
  BY <1>3, <1>4, <1>5, <1>8, <1>10, <1>11, <1>14 DEF FromStart, Peek

\* Those that bfs has reached are as far away as it says.
LEMMA FarAsSaid ==
    ASSUME SearchInv, NEW s \in Vertices, FromStart(s), NEW v \in Vertices
    PROVE  hops[v] # -1 => Distances(s)[v] = hops[v]
<1>1. v \in Vertex /\ s \in Vertex /\ GraphInv  BY Typed
<1>2. ASSUME hops[v] # -1 PROVE Distances(s)[v] = hops[v]
  <2>1. v \in Vertex \ White  BY <1>1, <1>2 DEF FromStart
  <2>2. hops[v] \in 0 .. Depth /\ AtDistance(s, v, hops[v])  BY <2>1 DEF FromStart
  <2> QED  BY <1>1, <2>2, DistanceIs
<1> QED  BY <1>2

LEMMA HopsSoFar ==
    ASSUME SearchInv, HopsInv
    PROVE  HopsAreDistances
<1>1. CASE phase = "bfs"
  <2>1. PICK s \in Vertices : FromStart(s)  BY <1>1 DEF HopsInv
  <2>2. \A v \in Vertices : hops[v] \in {Distances(s)[v]} \cup {-1}
    BY <2>1, FarAsSaid
  <2> QED  BY <1>1, <2>1, <2>2 DEF HopsAreDistances
<1>2. CASE phase = "bfs returned"  BY <1>2 DEF HopsInv
<1>3. CASE phase \notin {"bfs", "bfs returned"}  BY <1>3 DEF HopsAreDistances
<1> QED  BY <1>1, <1>2, <1>3

LEMMA DistancesSame ==
    ASSUME Edges' = Edges
    PROVE  \A v : Distances(v)' = Distances(v)
<1> SUFFICES ASSUME NEW v PROVE Distances(v)' = Distances(v)  OBVIOUS
<1>1. PICK w : w = Within(v)  OBVIOUS
<1>2. Within(v)' = w  BY <1>1, WithinSame
<1> QED  BY <1>1, <1>2 DEF Distances

LEMMA ReturnHops ==
    ASSUME SearchInv, NEW s \in Vertices, FromStart(s), BfsReturn
    PROVE  HopsAreDistances'
<1>1. /\ UNCHANGED graph /\ phase = "bfs" /\ phase' = "bfs returned" /\ queue.size = 0
      /\ hops' = hops
  BY DEF BfsReturn
<1>2. Vertices' = Vertices /\ Edges' = Edges /\ GraphInv
  BY <1>1, SameGraph DEF SearchInv
<1>3. s \in Vertex /\ color \in [Vertex -> {"white", "gray", "black"}]  BY Typed
<1>4. Gray = {}
  <2>1. Intact(queue) /\ Members(queue) = Gray  BY <1>1 DEF SearchInv, BfsOpen
  <2> QED  BY <1>1, <2>1, MembersAre DEF Intact
<1>5. \A v \in Vertex : v \in White \/ v \in Black
  BY <1>3, <1>4 DEF Gray, White, Black
<1>6. \A n \in 0 .. Depth : Within(s)[n] \cap White = {}
  <2>1. PICK T : T = {n \in 0 .. Depth : Within(s)[n] \cap White = {}}  OBVIOUS
  <2>2. 0 \in T
    <3>1. Within(s)[0] = {s} /\ 0 \in 0 .. Depth  BY <1>2, <1>3, WithinIs, DepthIsNat
    <3>2. s \notin White
      <4>1. hops[s] # -1  BY DEF FromStart
      <4> QED  BY <1>3, <4>1 DEF FromStart
    <3> QED  BY <2>1, <3>1, <3>2
  <2>3. ASSUME NEW n \in 1 .. Depth, n - 1 \in T PROVE n \in T
    <3>1. n \in 0 .. Depth  BY DepthIsNat
    <3> SUFFICES ASSUME NEW b \in Within(s)[n], b \in White PROVE FALSE  BY <2>1, <3>1
    <3>2. Within(s)[n - 1] \cap White = {}  BY <2>1, <2>3
    <3>3. PICK a \in Vertices : a \in Within(s)[n - 1] /\ b \in Members(adjacent[a])
      BY <1>2, <1>3, <3>2, WithinSpreads
    <3>4. a \in Black  BY <1>5, <3>2, <3>3, Typed
    <3> QED  BY <3>3, <3>4 DEF FromStart
  <2>4. \A n \in 0 .. Depth : n \in T  BY <2>2, <2>3, DepthIsNat, UpTheNumbers
  <2> QED  BY <2>1, <2>4
<1>7. ASSUME NEW v \in Vertices PROVE hops[v] = Distances(s)[v]
  <2>1. v \in Vertex  BY Typed
  <2>2. CASE hops[v] # -1  BY <2>2, FarAsSaid
  <2>3. CASE hops[v] = -1
    <3>1. v \in White  BY <2>1, <2>3 DEF FromStart
    <3>2. \A n \in 0 .. Depth : v \notin Within(s)[n]  BY <1>6, <3>1
    <3> QED  BY <1>2, <1>3, <2>1, <2>3, <3>2, DistanceIs
  <2> QED  BY <2>2, <2>3
<1>8. Members(result') = {v \in Vertices : hops[v] # -1}  BY BfsReturnKeeps
<1>9. Members(result') = {v \in Vertices : Distances(s)[v] # -1}  BY <1>7, <1>8
<1>10. Distances(s)' = Distances(s)  BY <1>2, DistancesSame
<1> QED  BY <1>1, <1>2, <1>7, <1>9, <1>10 DEF HopsAreDistances

LEMMA IdleHops ==
    ASSUME SearchInv, HopsInv, UNCHANGED vars
    PROVE  HopsInv'
<1>1. /\ UNCHANGED graph
      /\ phase' = phase /\ color' = color /\ hops' = hops /\ member' = member
      /\ queue' = queue /\ result' = result
  BY DEF vars, searching
<1>2. adjacent' = adjacent /\ Vertices' = Vertices /\ Edges' = Edges
  BY <1>1, SameGraph DEF SearchInv
<1>3. White' = White /\ Black' = Black  BY <1>1 DEF White, Black
<1>4. ASSUME phase' = "bfs" PROVE \E s \in Vertices' : FromStart(s)'
  <2>1. PICK s \in Vertices : FromStart(s)  BY <1>1, <1>4 DEF HopsInv
  <2>2. Within(s)' = Within(s)  BY <1>2, WithinSame
  <2>3. \A v : AtDistance(s, v, hops[v])' <=> AtDistance(s, v, hops[v])
    BY <1>1, <2>2 DEF AtDistance
  <2>4. FromStart(s)'  BY <1>1, <1>2, <1>3, <2>1, <2>2, <2>3 DEF FromStart, Peek
  <2> QED  BY <1>2, <2>4
<1>5. ASSUME phase' = "bfs returned" PROVE HopsAreDistances'
  <2>1. phase = "bfs returned" /\ HopsAreDistances  BY <1>1, <1>5 DEF HopsInv
  <2>2. PICK s \in Vertices :
           /\ \A v \in Vertices : hops[v] = Distances(s)[v]
           /\ Members(result) = {v \in Vertices : Distances(s)[v] # -1}
    BY <2>1 DEF HopsAreDistances
  <2>3. Distances(s)' = Distances(s)  BY <1>2, DistancesSame
  <2>4. PICK d : d = Distances(s)  OBVIOUS
  <2>5. /\ s \in Vertices' /\ d = Distances(s)' /\ phase' = "bfs returned"
        /\ \A v \in Vertices' : hops'[v] = d[v]
        /\ Members(result') = {v \in Vertices' : d[v] # -1}
    BY <1>1, <1>2, <1>5, <2>2, <2>3, <2>4
  <2> QED  BY <2>5, Zenon DEF HopsAreDistances
<1> QED  BY <1>4, <1>5 DEF HopsInv

LEMMA StepHops == SearchInv /\ HopsInv /\ [SearchNext]_vars => HopsInv'
<1> SUFFICES ASSUME SearchInv, HopsInv, [SearchNext]_vars PROVE HopsInv'  OBVIOUS
<1>1. CASE phase = "idle" /\ Next /\ UNCHANGED searching
  <2>1. phase' = "idle"  BY <1>1 DEF searching
  <2> QED  BY <2>1 DEF HopsInv
<1>2. CASE \E v \in Vertex : BfsStart(v)
  <2>1. PICK s \in Vertex : BfsStart(s)  BY <1>2
  <2>2. phase' = "bfs"  BY <2>1 DEF BfsStart
  <2> QED  BY <2>1, <2>2, StartFromStart DEF HopsInv
<1>3. CASE BfsVisit \/ BfsDequeue
  <2>1. phase = "bfs" /\ phase' = "bfs" /\ UNCHANGED graph
    BY <1>3 DEF BfsVisit, BfsDequeue
  <2>2. PICK s \in Vertices : FromStart(s)  BY <2>1 DEF HopsInv
  <2>3. Vertices' = Vertices  BY <2>1, SameGraph DEF SearchInv
  <2>4. FromStart(s)'  BY <1>3, <2>2, VisitFromStart, DequeueFromStart
  <2> QED  BY <2>1, <2>3, <2>4 DEF HopsInv
<1>4. CASE BfsReturn
  <2>1. phase = "bfs" /\ phase' = "bfs returned"  BY <1>4 DEF BfsReturn
  <2>2. PICK s \in Vertices : FromStart(s)  BY <2>1 DEF HopsInv
  <2> QED  BY <1>4, <2>1, <2>2, ReturnHops DEF HopsInv
<1>5. CASE DfsStart \/ DfsElement \/ DfsVisit \/ DfsLeave \/ DfsReturn
  <2>1. phase' \in {"dfs", "dfs returned"}
    BY <1>5 DEF DfsStart, DfsElement, DfsVisit, DfsLeave, DfsReturn
  <2> QED  BY <2>1 DEF HopsInv
<1>6. CASE BfsFails \/ DfsFails \/ Return
  <2>1. phase' = "idle"  BY <1>6 DEF BfsFails, DfsFails, Return, Forget
  <2> QED  BY <2>1 DEF HopsInv
<1>7. CASE UNCHANGED vars  BY <1>7, IdleHops
<1> QED  BY <1>1, <1>2, <1>3, <1>4, <1>5, <1>6, <1>7 DEF SearchNext

LEMMA FarEnough == SearchInv /\ HopsInv => HopsAreDistances
BY HopsSoFar

\* A vertex to which bfs gives a number of hops is as many edges away from the
\* start, at once and for good; when bfs returns, the vertices within reach
\* have their number and are the result.
THEOREM ShortestWays == SearchSpec => []HopsAreDistances
<1>1. SearchInit => HopsInv  BY DEF SearchInit, HopsInv
<1>2. SearchInv /\ HopsInv /\ [SearchNext]_vars => SearchInv' /\ HopsInv'
  BY StepSearch, StepHops
<1> QED  BY <1>1, <1>2, StartInv, FarEnough, PTL DEF SearchSpec

-----------------------------------------------------------------------------
(* The order in which dfs leaves the vertices.                             *)

\* The members of adjacency lists that dfs has met are not white; those
\* adjacent to a vertex on the list that it will return are behind it there,
\* or it can be reached from them.
OnTheWay ==
    /\ Passed(adjlists, element, White)
    /\ \A i \in 1 .. Len(stack) : Passed(adjacent[stack[i].vertex], stack[i].member, White)
    /\ \A i \in 1 .. Len(Chain(result)) : \A v \in Members(adjacent[Chain(result)[i]]) :
          /\ v \notin White
          /\ \/ \E j \in i .. Len(Chain(result)) : Chain(result)[j] = v
             \/ Reaches(v, Chain(result)[i])

OrderInv ==
    /\ phase = "dfs" => OnTheWay
    /\ phase = "dfs returned" => OrderIsTopological

LEMMA PassedLess ==
    ASSUME NEW list, NEW e, NEW white, Passed(list, e, white), NEW less, less \subseteq white
    PROVE  Passed(list, e, less)
BY DEF Passed

LEMMA ReachesSame ==
    ASSUME Edges' = Edges
    PROVE  \A a, b : Reaches(a, b)' <=> Reaches(a, b)
<1>1. \A v : Within(v)' = Within(v)  BY WithinSame
<1> QED  BY <1>1 DEF Reaches

\* Every activation of dfs_main can be reached from its callers.
LEMMA StackReaches ==
    ASSUME SearchInv, phase = "dfs", NEW p \in 1 .. Len(stack), Len(stack) \in Nat
    PROVE  Reaches(stack[p].vertex, stack[Len(stack)].vertex)
<1>1. PICK n : n = Len(stack)  OBVIOUS
<1>2. PICK v : v = stack[p].vertex  OBVIOUS
<1>3. DfsOpen /\ GraphInv /\ n \in Nat /\ p \in 1 .. n  BY <1>1, Typed DEF SearchInv
<1>4. v \in Vertex  BY <1>2, <1>3, Typed DEF DfsOpen
<1>5. Depth \in Nat /\ n <= Depth
  <2>1. Cardinality(Gray) = n
    <3>1. SearchInv => GrayAreOpen  BY Opened
    <3> QED  BY <1>1, <3>1 DEF GrayAreOpen
  <2>2. Gray \in SUBSET Vertex  BY DEF Gray
  <2>3. IsFiniteSet(Vertex) /\ Depth \in Nat  BY DepthIsNat
  <2>4. Cardinality(Gray) <= Cardinality(Vertex)  BY <2>2, <2>3, FS_Subset
  <2> QED  BY <2>1, <2>3, <2>4 DEF Depth
<1>6. PICK w : w = Within(v)  OBVIOUS
<1>7. PICK m \in 0 .. Depth : m = n - p  BY <1>3, <1>5
<1>8. PICK T : T = {k \in 0 .. m : stack[p + k].vertex \in w[k]}  OBVIOUS
<1>9. 0 \in T
  <2>1. w[0] = {v} /\ 0 \in 0 .. m  BY <1>3, <1>4, <1>6, WithinIs
  <2>2. p + 0 = p  BY <1>3
  <2> QED  BY <1>2, <1>8, <2>1, <2>2
<1>10. ASSUME NEW k \in 1 .. m, k - 1 \in T PROVE k \in T
  <2>1. k \in 1 .. Depth /\ k \in 0 .. m  BY <1>5, <1>7
  <2>2. p + k \in 2 .. n /\ (p + k) - 1 = p + (k - 1)  BY <1>3, <1>7
  <2>3. PICK i \in 2 .. n : i = p + k  BY <2>2
  <2>4. PICK a, b : a = stack[i - 1].vertex /\ b = stack[i].vertex  OBVIOUS
  <2>5. <<a, b>> \in Edges  BY <1>1, <1>3, <2>4 DEF DfsOpen
  <2>6. a \in Vertices /\ b \in Members(adjacent[a])  BY <1>3, <2>5, VerticesAre
  <2>7. a \in w[k - 1]  BY <1>8, <1>10, <2>2, <2>3, <2>4
  <2>8. b \in w[k]  BY <1>3, <1>4, <1>6, <2>1, <2>6, <2>7, WithinSpreads
  <2> QED  BY <1>8, <2>1, <2>3, <2>4, <2>8
<1>11. m \in T
  <2>1. m \in Nat /\ \A k \in 1 .. m : k - 1 \in T => k \in T  BY <1>7, <1>10
  <2>2. \A k \in 0 .. m : k \in T  BY <1>9, <2>1, UpTheNumbers
  <2> QED  BY <2>1, <2>2
<1>12. stack[n].vertex \in w[m]
  <2>1. p + m = n  BY <1>3, <1>7
  <2> QED  BY <1>8, <1>11, <2>1
<1>13. w[m] \subseteq w[Depth]
  <2>1. Depth \in 0 .. Depth /\ m <= Depth  BY <1>5
  <2> QED  BY <1>3, <1>4, <1>6, <2>1, WithinGrows
<1> QED  BY <1>1, <1>2, <1>6, <1>12, <1>13 DEF Reaches, Depth

LEMMA DfsStartOrder ==
    ASSUME SearchInv, DfsStart
    PROVE  OnTheWay'
<1>1. /\ phase = "idle" /\ element' = adjlists.head /\ stack' = stack /\ result' = result
      /\ UNCHANGED graph
  BY DEF DfsStart
<1>2. stack = <<>> /\ result = EmptyList  BY <1>1 DEF SearchInv
<1>3. Len(Chain(result)) = 0
  <2>1. Intact(EmptyList) /\ EmptyList.size = 0  BY EmptyIsIntact DEF EmptyList
  <2> QED  BY <1>2, <2>1, ChainOf
<1>4. adjlists' = adjlists  BY <1>1, SameGraph DEF SearchInv
<1>5. Passed(adjlists, adjlists.head, White')  BY Typed, PassedNone
<1>6. \A i \in 1 .. Len(stack') : FALSE  BY <1>1, <1>2
<1>7. \A i \in 1 .. Len(Chain(result')) : FALSE  BY <1>1, <1>3
<1> QED  BY <1>1, <1>4, <1>5, <1>6, <1>7 DEF OnTheWay

\* The list, and what is behind whom in it, stays as it is.
LEMMA SameOrder ==
    ASSUME SearchInv, OnTheWay, UNCHANGED <<graph, result>>, White' \subseteq White
    PROVE  \A i \in 1 .. Len(Chain(result')) : \A v \in Members(adjacent'[Chain(result')[i]]) :
              /\ v \notin White'
              /\ \/ \E j \in i .. Len(Chain(result')) : Chain(result')[j] = v
                 \/ Reaches(v, Chain(result)[i])'
<1>1. adjacent' = adjacent /\ Edges' = Edges /\ result' = result  BY SameGraph DEF SearchInv
<1>2. \A a, b : Reaches(a, b)' <=> Reaches(a, b)  BY <1>1, ReachesSame
<1>3. PICK c : c = Chain(result)  OBVIOUS
<1>4. Chain(result') = c  BY <1>1, <1>3
<1>5. ASSUME NEW i \in 1 .. Len(c), NEW v \in Members(adjacent[c[i]])
      PROVE  /\ v \notin White'
             /\ (\E j \in i .. Len(c) : c[j] = v) \/ Reaches(v, c[i])
  BY <1>3, <1>5 DEF OnTheWay
<1>6. ASSUME NEW i \in 1 .. Len(c), NEW v PROVE Reaches(v, Chain(result)[i])' <=> Reaches(v, c[i])
  <2>1. PICK u : u = c[i]  OBVIOUS
  <2>2. Chain(result')[i] = u  BY <1>4, <2>1
  <2>3. Reaches(v, Chain(result)[i])' <=> Reaches(v, u)'  BY <2>2 DEF Reaches
  <2> QED  BY <1>2, <2>1, <2>3
<1> QED  BY <1>1, <1>4, <1>5, <1>6

LEMMA DfsElementOrder ==
    ASSUME SearchInv, OnTheWay, DfsElement
    PROVE  OnTheWay'
<1>1. PICK e : e = element  OBVIOUS
<1>2. /\ UNCHANGED <<graph, result>> /\ phase = "dfs" /\ stack = <<>> /\ e # NULL
      /\ \/ /\ color[e] = "white"
            /\ color' = [color EXCEPT ![e] = "gray"]
            /\ stack' = Append(stack, [vertex |-> e, member |-> adjacent[e].head])
         \/ color[e] # "white" /\ UNCHANGED <<color, stack>>
      /\ element' = adjlists.next[e]
  BY <1>1 DEF DfsElement, Undiscovered, Call
<1>3. adjlists' = adjlists /\ adjacent' = adjacent /\ Vertices' = Vertices /\ Edges' = Edges
  BY <1>2, SameGraph DEF SearchInv
<1>4. e \in Vertices /\ e \in Vertex  BY <1>1, <1>2, Typed DEF SearchInv, DfsOpen
<1>5. color \in [Vertex -> {"white", "gray", "black"}] /\ Intact(adjlists)  BY Typed
<1>6. White' \subseteq White /\ e \notin White'
  BY <1>2, <1>4, <1>5 DEF White
<1>7. Passed(adjlists, element', White')
  <2>1. e \in Members(adjlists) /\ Passed(adjlists, e, White)
    BY <1>1, <1>4 DEF OnTheWay, Vertices
  <2>2. PICK w : w = White'  OBVIOUS
  <2>3. Passed(adjlists, adjlists.next[e], w)  BY <1>5, <1>6, <2>1, <2>2, PassedOn
  <2> QED  BY <1>2, <2>2, <2>3
<1>8. \A i \in 1 .. Len(stack') : Passed(adjacent[stack'[i].vertex], stack'[i].member, White')
  <2>1. CASE stack' = stack  BY <1>2, <2>1
  <2>2. CASE stack' = Append(stack, [vertex |-> e, member |-> adjacent[e].head])
    <3>1. PICK f : f = [vertex |-> e, member |-> adjacent[e].head]  OBVIOUS
    <3>2. stack' = <<f>>  BY <1>2, <2>2, <3>1
    <3>3. Len(stack') = 1 /\ stack'[1] = f  BY <3>2
    <3>4. Passed(adjacent[e], adjacent[e].head, White')  BY <1>4, Typed, PassedNone
    <3>5. f.vertex = e /\ f.member = adjacent[e].head  BY <3>1
    <3>6. \A i \in 1 .. Len(stack') : i = 1  BY <3>3
    <3> QED  BY <3>3, <3>4, <3>5, <3>6
  <2> QED  BY <1>2, <2>1, <2>2
<1> QED  BY <1>2, <1>3, <1>6, <1>7, <1>8, SameOrder DEF OnTheWay

LEMMA DfsVisitOrder ==
    ASSUME SearchInv, OnTheWay, DfsVisit
    PROVE  OnTheWay'
<1>1. PICK v : v = Innermost.member  OBVIOUS
<1>2. /\ UNCHANGED <<graph, result>> /\ phase = "dfs" /\ stack # <<>> /\ v # NULL /\ v \in Vertices
      /\ \/ /\ color[v] = "white"
            /\ color' = [color EXCEPT ![v] = "gray"]
            /\ stack' = Append(Advanced, Call(v)[Len(stack) + 1])
         \/ color[v] # "white" /\ stack' = Advanced /\ color' = color
      /\ element' = element
  BY <1>1 DEF DfsVisit, IsVertex, Vertices, Undiscovered
<1>3. adjlists' = adjlists /\ adjacent' = adjacent /\ Vertices' = Vertices /\ Edges' = Edges
  BY <1>2, SameGraph DEF SearchInv
<1>4. PICK n : n = Len(stack)  OBVIOUS
<1>5. PICK u : u = Innermost.vertex  OBVIOUS
<1>6. PICK a : a = Advanced  OBVIOUS
<1>7. /\ n \in Nat /\ n > 0 /\ stack[n].vertex = u /\ stack[n].member = v /\ u \in Vertices
      /\ v \in Members(adjacent[u])
      /\ a \in Seq(Frame) /\ Len(a) = n
      /\ \A i \in 1 .. n : a[i].vertex = stack[i].vertex
      /\ \A i \in 1 .. n - 1 : a[i] = stack[i]
      /\ a[n].member = adjacent[u].next[v]
  BY <1>1, <1>2, <1>4, <1>5, <1>6, AdvancedIs
<1>8. color \in [Vertex -> {"white", "gray", "black"}] /\ Intact(adjacent[u]) /\ v \in Vertex
  BY <1>2, <1>7, Typed
<1>9. White' \subseteq White /\ v \notin White'
  BY <1>2, <1>8 DEF White
<1>10. \A i \in 1 .. n : Passed(adjacent[a[i].vertex], a[i].member, White')
  <2> SUFFICES ASSUME NEW i \in 1 .. n PROVE Passed(adjacent[a[i].vertex], a[i].member, White')
    OBVIOUS
  <2>1. Passed(adjacent[stack[i].vertex], stack[i].member, White)  BY <1>4 DEF OnTheWay
  <2>2. PICK w : w = White'  OBVIOUS
  <2>3. CASE i = n
    <3>1. Passed(adjacent[u], v, White)  BY <1>7, <2>1, <2>3
    <3>2. Passed(adjacent[u], adjacent[u].next[v], w)
      BY <1>7, <1>8, <1>9, <2>2, <3>1, PassedOn
    <3> QED  BY <1>7, <2>2, <2>3, <3>2
  <2>4. CASE i # n
    <3>1. i \in 1 .. n - 1  BY <1>7, <2>4
    <3>2. Passed(adjacent[stack[i].vertex], stack[i].member, w)
      BY <1>9, <2>1, <2>2, PassedLess
    <3> QED  BY <1>7, <2>2, <3>1, <3>2
  <2> QED  BY <2>3, <2>4
<1>11. \A i \in 1 .. Len(stack') : Passed(adjacent[stack'[i].vertex], stack'[i].member, White')
  <2>1. CASE stack' = a  BY <1>7, <1>10, <2>1
  <2>2. CASE stack' = Append(a, Call(v)[n + 1])
    <3>1. PICK f : f = [vertex |-> v, member |-> adjacent[v].head]  OBVIOUS
    <3>2. f \in Frame /\ f.vertex = v /\ f.member = adjacent[v].head
      BY <1>8, <3>1, Typed, HeadIsPointer DEF Frame
    <3>3. Call(v)[n + 1] = f
      <4>1. Call(v) = Append(stack, f)  BY <3>1 DEF Call
      <4>2. stack \in Seq(Frame)  BY Typed
      <4> QED  BY <1>4, <3>2, <4>1, <4>2, AppendProperties
    <3>4. /\ Len(stack') = n + 1 /\ stack'[n + 1] = f
          /\ \A i \in 1 .. n : stack'[i] = a[i]
      BY <1>7, <2>2, <3>2, <3>3, AppendProperties
    <3>5. Passed(adjacent[v], adjacent[v].head, White')  BY <1>8, Typed, PassedNone
    <3>6. \A i : i \in 1 .. n + 1 <=> i \in 1 .. n \/ i = n + 1  BY <1>7
    <3> QED  BY <1>10, <3>2, <3>4, <3>5, <3>6
  <2> QED  BY <1>2, <1>4, <1>6, <2>1, <2>2
<1>12. Passed(adjlists, element', White')
  <2>1. PICK w : w = White'  OBVIOUS
  <2>2. Passed(adjlists, element, w)  BY <1>9, <2>1, PassedLess DEF OnTheWay
  <2> QED  BY <1>2, <2>1, <2>2
<1> QED  BY <1>2, <1>3, <1>9, <1>11, <1>12, SameOrder DEF OnTheWay

LEMMA DfsLeaveOrder ==
    ASSUME SearchInv, OnTheWay, DfsLeave
    PROVE  OnTheWay'
<1>1. PICK n : n = Len(stack)  OBVIOUS
<1>2. PICK u : u = stack[n].vertex  OBVIOUS
<1>3. PICK s : s = Front(stack)  OBVIOUS
<1>4. PICK l : l = InsNext(result, NULL, u)  OBVIOUS
<1>5. /\ UNCHANGED graph /\ phase = "dfs" /\ stack # <<>> /\ stack[n].member = NULL
      /\ color' = [color EXCEPT ![u] = "black"]
      /\ result' = l /\ stack' = s /\ element' = element
  BY <1>1, <1>2, <1>3, <1>4 DEF DfsLeave, InFront, Innermost
<1>6. adjlists' = adjlists /\ adjacent' = adjacent /\ Vertices' = Vertices /\ Edges' = Edges
  BY <1>5, SameGraph DEF SearchInv
<1>7. DfsOpen /\ stack \in Seq(Frame)  BY <1>5, Typed DEF SearchInv
<1>8. n \in Nat /\ n > 0 /\ n \in 1 .. n /\ stack \in [1 .. n -> Frame]
  <2>1. n \in Nat /\ stack \in [1 .. n -> Frame]  BY <1>1, <1>7, LenProperties
  <2>2. n # 0  BY <1>1, <1>5, <1>7, EmptySeq
  <2> QED  BY <2>1, <2>2
<1>9. Len(s) = n - 1 /\ \A i \in 1 .. n - 1 : s[i] = stack[i]
  <2>1. s = SubSeq(stack, 1, n - 1)  BY <1>1, <1>3 DEF Front
  <2>2. \A i \in 1 .. n - 1 : stack[i] \in Frame  BY <1>8
  <2>3. /\ Len(s) = IF 1 <= n - 1 THEN n - 1 - 1 + 1 ELSE 0
        /\ \A i \in 1 .. n - 1 - 1 + 1 : s[i] = stack[1 + i - 1]
    BY <1>8, <2>1, <2>2, SubSeqProperties
  <2>4. Len(s) = n - 1  BY <1>8, <2>3
  <2>5. ASSUME NEW i \in 1 .. n - 1 PROVE s[i] = stack[i]
    <3>1. i \in 1 .. n - 1 - 1 + 1 /\ 1 + i - 1 = i  BY <1>8
    <3> QED  BY <2>3, <3>1
  <2> QED  BY <2>4, <2>5
<1>10. u \in Vertices /\ u \in Gray /\ u \in Vertex
       /\ color \in [Vertex -> {"white", "gray", "black"}]
  <2>1. u \in Vertices /\ u \in Gray  BY <1>1, <1>2, <1>7, <1>8 DEF DfsOpen
  <2> QED  BY <2>1, Typed
<1>11. White' = White
  BY <1>5, <1>10 DEF Gray, White
<1>12. Members(adjacent[u]) \cap White = {}
  <2>1. Passed(adjacent[u], NULL, White)  BY <1>1, <1>2, <1>5, <1>8 DEF OnTheWay
  <2> QED  BY <1>10, <2>1, Typed, PassedAll
<1>13. PICK c : c = Chain(result)  OBVIOUS
<1>14. PICK m : m = Len(c)  OBVIOUS
<1>15. PICK d : d = Chain(l)  OBVIOUS
<1>16. /\ m \in Nat /\ Len(d) = m + 1 /\ d[1] = u
       /\ \A k \in 1 .. m : d[k + 1] = c[k]
       /\ Black = {c[k] : k \in 1 .. m}
  <2>1. Intact(result) /\ u \notin Members(result) /\ u \in Element /\ Members(result) = Black
    BY <1>7, <1>10 DEF DfsOpen, Vertex, Gray, Black
  <2>2. m \in Nat /\ Black = {c[k] : k \in 1 .. m}
    BY <1>13, <1>14, <2>1, ChainOf
  <2>3. Len(d) = m + 1 /\ d[1] = u /\ \A k \in 1 .. m : d[k + 1] = c[k]
    BY <1>4, <1>13, <1>14, <1>15, <2>1, ChainAfterPush
  <2> QED  BY <2>2, <2>3
<1>17. ASSUME NEW v \in Members(adjacent[u])
       PROVE  v \notin White /\ ((\E j \in 1 .. m + 1 : d[j] = v) \/ Reaches(v, u))
  <2>1. v \notin White /\ v \in Vertex  BY <1>10, <1>12, Typed
  <2>2. v \in Gray \/ v \in Black  BY <1>10, <2>1 DEF Gray, White, Black
  <2>3. CASE v \in Gray
    <3>1. PICK p \in 1 .. n : stack[p].vertex = v  BY <1>1, <1>7, <2>3 DEF DfsOpen
    <3>2. Reaches(stack[p].vertex, stack[Len(stack)].vertex)
      BY <1>1, <1>5, <1>8, StackReaches
    <3> QED  BY <1>1, <1>2, <2>1, <3>1, <3>2
  <2>4. CASE v \in Black
    <3>1. PICK k \in 1 .. m : c[k] = v  BY <1>16, <2>4
    <3>2. k + 1 \in 1 .. m + 1 /\ d[k + 1] = v  BY <1>16, <3>1
    <3> QED  BY <2>1, <3>2
  <2> QED  BY <2>2, <2>3, <2>4
<1>18. ASSUME NEW k \in 1 .. m, NEW v \in Members(adjacent[c[k]])
       PROVE  v \notin White /\ ((\E j \in k + 1 .. m + 1 : d[j] = v) \/ Reaches(v, c[k]))
  <2>1. v \notin White /\ ((\E j \in k .. m : c[j] = v) \/ Reaches(v, c[k]))
    BY <1>13, <1>14, <1>18 DEF OnTheWay
  <2>2. ASSUME NEW j \in k .. m, c[j] = v PROVE \E i \in k + 1 .. m + 1 : d[i] = v
    <3>1. j \in 1 .. m /\ j + 1 \in k + 1 .. m + 1  BY <1>16
    <3> QED  BY <1>16, <2>2, <3>1
  <2> QED  BY <2>1, <2>2
<1>19. ASSUME NEW i \in 1 .. m + 1, NEW v \in Members(adjacent[d[i]])
       PROVE  v \notin White /\ ((\E j \in i .. m + 1 : d[j] = v) \/ Reaches(v, d[i]))
  <2>1. CASE i = 1  BY <1>16, <1>17, <1>19, <2>1
  <2>2. CASE i # 1
    <3>1. PICK k \in 1 .. m : k + 1 = i
      <4>1. i - 1 \in 1 .. m /\ (i - 1) + 1 = i  BY <1>16, <2>2
      <4> QED  BY <4>1
    <3>2. d[i] = c[k]  BY <1>16, <3>1
    <3> QED  BY <1>18, <1>19, <3>1, <3>2
  <2> QED  BY <2>1, <2>2
<1>20. \A a, b : Reaches(a, b)' <=> Reaches(a, b)  BY <1>6, ReachesSame
<1>21. ASSUME NEW i \in 1 .. m + 1, NEW v
       PROVE  Reaches(v, Chain(result)[i])' <=> Reaches(v, d[i])
  <2>1. PICK w : w = d[i]  OBVIOUS
  <2>2. Chain(result')[i] = w  BY <1>5, <1>15, <2>1
  <2>3. Reaches(v, Chain(result)[i])' <=> Reaches(v, w)'  BY <2>2 DEF Reaches
  <2> QED  BY <1>20, <2>1, <2>3
<1>22. \A i \in 1 .. n - 1 : Passed(adjacent[s[i].vertex], s[i].member, White)
  <2>1. \A i \in 1 .. n - 1 : i \in 1 .. n  BY <1>8
  <2> QED  BY <1>1, <1>9, <2>1 DEF OnTheWay
<1>23. Passed(adjlists, element, White)  BY DEF OnTheWay
<1>24. Chain(result') = d /\ Len(d) = m + 1  BY <1>5, <1>15, <1>16
<1> QED  BY <1>5, <1>6, <1>9, <1>11, <1>19, <1>21, <1>22, <1>23, <1>24 DEF OnTheWay

LEMMA DfsReturnOrder ==
    ASSUME SearchInv, OnTheWay, DfsReturn
    PROVE  OrderIsTopological'
<1>1. /\ UNCHANGED <<graph, result>> /\ phase = "dfs" /\ stack = <<>> /\ element = NULL
  BY DEF DfsReturn
<1>2. Vertices' = Vertices /\ Edges' = Edges /\ result' = result
  BY <1>1, SameGraph DEF SearchInv
<1>3. PICK c : c = Chain(result)  OBVIOUS
<1>4. PICK m : m = Len(c)  OBVIOUS
<1>5. DfsOpen  BY <1>1 DEF SearchInv
<1>6. /\ Represents(result, c) /\ m \in Nat /\ DOMAIN c = 1 .. m
      /\ ToSet(c) = Black
      /\ \A i, j \in 1 .. m : c[i] = c[j] => i = j
  <2>1. m \in Nat /\ DOMAIN c = 1 .. m /\ \A i, j \in 1 .. m : c[i] = c[j] => i = j
    BY <1>3, <1>4, <1>5, ChainOf, LenProperties DEF DfsOpen
  <2>2. ToSet(c) = Black  BY <1>3, <1>5 DEF DfsOpen, Members
  <2> QED  BY <1>3, <1>5, <2>1, <2>2 DEF DfsOpen, Intact
<1>7. Gray = {}
  <2>1. 1 .. Len(stack) = {}  BY <1>1
  <2> QED  BY <1>5, <2>1 DEF DfsOpen
<1>8. Vertices \cap White = {}
  <2>1. Passed(adjlists, NULL, White)  BY <1>1 DEF OnTheWay
  <2> QED  BY <2>1, Typed, PassedAll DEF Vertices
<1>9. Black = Vertices
  <2>1. Black \subseteq Vertices  BY <1>5 DEF DfsOpen
  <2>2. ASSUME NEW v \in Vertices PROVE v \in Black
    <3>1. v \in Vertex /\ color \in [Vertex -> {"white", "gray", "black"}]  BY Typed
    <3> QED  BY <1>7, <1>8, <3>1 DEF White, Gray, Black
  <2> QED  BY <2>1, <2>2
<1>10. ASSUME NEW i \in 1 .. m, NEW j \in 1 .. m, j < i, <<c[i], c[j]>> \in Edges
       PROVE  Reaches(c[j], c[i])
  <2>1. c[j] \in Members(adjacent[c[i]])  BY <1>10, Typed, VerticesAre
  <2>2. (\E k \in i .. m : c[k] = c[j]) \/ Reaches(c[j], c[i])
    BY <1>3, <1>4, <2>1 DEF OnTheWay
  <2>3. ASSUME NEW k \in i .. m, c[k] = c[j] PROVE FALSE
    <3>1. k \in 1 .. m /\ k # j  BY <1>6, <1>10
    <3> QED  BY <1>6, <2>3, <3>1
  <2> QED  BY <2>2, <2>3
<1>11. \A a, b : Reaches(a, b)' <=> Reaches(a, b)  BY <1>2, ReachesSame
<1>12. ASSUME NEW i, NEW j
       PROVE  Reaches(Chain(result)[j], Chain(result)[i])' <=> Reaches(c[j], c[i])
  <2>1. PICK a, b : a = c[j] /\ b = c[i]  OBVIOUS
  <2>2. Chain(result')[j] = a /\ Chain(result')[i] = b  BY <1>2, <1>3, <2>1
  <2>3. Reaches(Chain(result)[j], Chain(result)[i])' <=> Reaches(a, b)'
    BY <2>2 DEF Reaches
  <2> QED  BY <1>11, <2>1, <2>3
<1>13. Chain(result') = c  BY <1>2, <1>3
<1>14. Represents(result', c) /\ ToSet(c) = Vertices'  BY <1>2, <1>6, <1>9
<1>15. \A i, j \in DOMAIN c : j < i /\ <<c[i], c[j]>> \in Edges'
                                => Reaches(Chain(result)[j], Chain(result)[i])'
  BY <1>2, <1>6, <1>10, <1>12
<1> QED  BY <1>13, <1>14, <1>15 DEF OrderIsTopological

LEMMA IdleOrder ==
    ASSUME SearchInv, OrderInv, UNCHANGED vars
    PROVE  OrderInv'
<1>1. /\ UNCHANGED <<graph, result>> /\ phase' = phase /\ color' = color
      /\ stack' = stack /\ element' = element /\ result' = result
  BY DEF vars, searching
<1>2. /\ adjlists' = adjlists /\ adjacent' = adjacent /\ Vertices' = Vertices /\ Edges' = Edges
  BY <1>1, SameGraph DEF SearchInv
<1>3. White' = White  BY <1>1 DEF White
<1>4. ASSUME phase' = "dfs" PROVE OnTheWay'
  <2>1. OnTheWay  BY <1>1, <1>4 DEF OrderInv
  <2>2. White' \subseteq White  BY <1>3
  <2> QED  BY <1>1, <1>2, <1>3, <2>1, <2>2, SameOrder DEF OnTheWay
<1>5. ASSUME phase' = "dfs returned" PROVE OrderIsTopological'
  <2>1. OrderIsTopological /\ phase = "dfs returned"  BY <1>1, <1>5 DEF OrderInv
  <2>2. PICK c : c = Chain(result)  OBVIOUS
  <2>3. Chain(result') = c  BY <1>1, <2>2
  <2>4. \A a, b : Reaches(a, b)' <=> Reaches(a, b)  BY <1>2, ReachesSame
  <2>5. ASSUME NEW i, NEW j
        PROVE  Reaches(Chain(result)[j], Chain(result)[i])' <=> Reaches(c[j], c[i])
    <3>1. PICK a, b : a = c[j] /\ b = c[i]  OBVIOUS
    <3>2. Chain(result')[j] = a /\ Chain(result')[i] = b  BY <2>3, <3>1
    <3>3. Reaches(Chain(result)[j], Chain(result)[i])' <=> Reaches(a, b)'
      BY <3>2 DEF Reaches
    <3> QED  BY <2>4, <3>1, <3>3
  <2>6. /\ Represents(result, c) /\ ToSet(c) = Vertices
        /\ \A i, j \in DOMAIN c : j < i /\ <<c[i], c[j]>> \in Edges => Reaches(c[j], c[i])
    BY <2>1, <2>2 DEF OrderIsTopological
  <2>7. \A i, j \in DOMAIN c : j < i /\ <<c[i], c[j]>> \in Edges'
                                => Reaches(Chain(result)[j], Chain(result)[i])'
    BY <1>2, <2>5, <2>6
  <2>8. Represents(result', c) /\ ToSet(c) = Vertices'  BY <1>1, <1>2, <2>6
  <2> QED  BY <2>3, <2>7, <2>8 DEF OrderIsTopological
<1> QED  BY <1>4, <1>5 DEF OrderInv

LEMMA StepOrder == SearchInv /\ OrderInv /\ [SearchNext]_vars => OrderInv'
<1> SUFFICES ASSUME SearchInv, OrderInv, [SearchNext]_vars PROVE OrderInv'  OBVIOUS
<1>1. CASE phase = "idle" /\ Next /\ UNCHANGED searching
  <2>1. phase' = "idle"  BY <1>1 DEF searching
  <2> QED  BY <2>1 DEF OrderInv
<1>2. CASE (\E v \in Vertex : BfsStart(v)) \/ BfsVisit \/ BfsDequeue \/ BfsReturn
  <2>1. phase' \in {"bfs", "bfs returned"}
    BY <1>2 DEF BfsStart, BfsVisit, BfsDequeue, BfsReturn
  <2> QED  BY <2>1 DEF OrderInv
<1>3. CASE DfsStart
  <2>1. phase' = "dfs"  BY <1>3 DEF DfsStart
  <2> QED  BY <1>3, <2>1, DfsStartOrder DEF OrderInv
<1>4. CASE DfsElement \/ DfsVisit \/ DfsLeave
  <2>1. phase = "dfs" /\ phase' = "dfs"  BY <1>4 DEF DfsElement, DfsVisit, DfsLeave
  <2> QED  BY <1>4, <2>1, DfsElementOrder, DfsVisitOrder, DfsLeaveOrder DEF OrderInv
<1>5. CASE DfsReturn
  <2>1. phase = "dfs" /\ phase' = "dfs returned"  BY <1>5 DEF DfsReturn
  <2> QED  BY <1>5, <2>1, DfsReturnOrder DEF OrderInv
<1>6. CASE BfsFails \/ DfsFails \/ Return
  <2>1. phase' = "idle"  BY <1>6 DEF BfsFails, DfsFails, Return, Forget
  <2> QED  BY <2>1 DEF OrderInv
<1>7. CASE UNCHANGED vars  BY <1>7, IdleOrder
<1> QED  BY <1>1, <1>2, <1>3, <1>4, <1>5, <1>6, <1>7 DEF SearchNext

LEMMA InOrder == OrderInv => OrderIsTopological
BY DEF OrderInv, OrderIsTopological

\* The list that dfs returns holds every vertex once, and an edge points
\* backwards in it only if its end reaches its start: without cycles the list
\* is a topological order.
THEOREM TopologicalOrder == SearchSpec => []OrderIsTopological
<1>1. SearchInit => OrderInv  BY DEF SearchInit, OrderInv
<1>2. SearchInv /\ OrderInv /\ [SearchNext]_vars => SearchInv' /\ OrderInv'
  BY StepSearch, StepOrder
<1> QED  BY <1>1, <1>2, StartInv, InOrder, PTL DEF SearchSpec

-----------------------------------------------------------------------------
(***************************************************************************)
(* The sorts on arrays of any length and keys of any number of digits: the *)
(* inner loops of qksort, which have no bound, stay inside the part that   *)
(* is partitioned, and its parts shrink; and each of the five sorts leaves *)
(* elements in the wrong order only where it has still something to do.    *)
(***************************************************************************)

\* The calls that qksort has still to make.
PartOf == {c \in [op : {"sort"}, i : Place, k : Place] : c.i < c.k}

\* A partition is somewhere between its two ends, unless it has just begun,
\* and what stops its loops is in front of both.
Partitioning ==
    LET part == todo[1] IN
    /\ todo # <<>>
    /\ scan \in [pval : Int, i : Int, k : Int] /\ scan.pval >= 0
    /\ \/ scan.i = part.i - 1 /\ scan.k = part.k + 1
       \/ scan.i >= part.i /\ scan.k <= part.k
    /\ \E p \in StopsDown : p >= part.i
    /\ \E p \in StopsUp : p <= part.k

QksortInv ==
    /\ sort = "none" \/ sort = "qksort" => data \in [Place -> Place]
    /\ sort = "qksort" =>
          /\ key \in [Place -> Nat]
          /\ todo \in Seq(PartOf)
    /\ scan # NoScan => sort = "qksort" /\ retval = "" /\ Partitioning

LEMMA Places ==
    /\ N \in Nat /\ N > 0
    /\ \A p \in Place : p \in Int /\ p >= 0 /\ p <= N - 1
    /\ \A p \in Int : p >= 0 /\ p <= N - 1 => p \in Place
BY SortsAssumption DEF Place

LEMMA RightmostOf ==
    ASSUME NEW S \in SUBSET Place, S # {}
    PROVE  Rightmost(S) \in S /\ \A q \in S : q <= Rightmost(S)
<1>0. 0 \in Int /\ N - 1 \in Int /\ S \in SUBSET (0 .. N - 1)
  BY SortsAssumption DEF Place
<1>1. \E p \in S : \A q \in S : q <= p
  BY <1>0, GreatestInt
<1> QED  BY <1>1 DEF Rightmost

LEMMA LeftmostOf ==
    ASSUME NEW S \in SUBSET Place, S # {}
    PROVE  Leftmost(S) \in S /\ \A q \in S : Leftmost(S) <= q
<1>0. 0 \in Int /\ N - 1 \in Int /\ S \in SUBSET (0 .. N - 1)
  BY SortsAssumption DEF Place
<1>1. \E p \in S : \A q \in S : p <= q
  BY <1>0, LeastInt
<1> QED  BY <1>1 DEF Leftmost

LEMMA Calling ==
    ASSUME NEW i \in Int, NEW k \in Int, i >= 0, k <= N - 1
    PROVE  /\ CallFor(i, k) \in Seq(PartOf)
           /\ Len(CallFor(i, k)) = IF i < k THEN 1 ELSE 0
           /\ i < k => CallFor(i, k)[1] = Part("sort", i, k)
<1>1. CASE i < k
  <2>1. i \in Place /\ k \in Place  BY <1>1, Places
  <2>2. Part("sort", i, k) \in PartOf  BY <1>1, <2>1 DEF Part, PartOf
  <2> QED  BY <1>1, <2>2 DEF CallFor
<1>2. CASE ~(i < k)
  BY <1>2 DEF CallFor
<1> QED  BY <1>1, <1>2

LEMMA FirstOf ==
    ASSUME NEW S, NEW s \in Seq(S), s # <<>>
    PROVE  s[1] \in S /\ Tail(s) \in Seq(S) /\ Len(Tail(s)) = Len(s) - 1
<1>1. Len(s) \in Nat /\ Len(s) # 0  BY LenProperties, EmptySeq
<1> QED  BY <1>1, ElementOfSeq, HeadTailProperties

\* What the inner loops meet, and where the partition stands then.
LEMMA Stops ==
    ASSUME QksortInv, scan # NoScan,
           NEW i, NEW k, i = Leftmost(StopsUp), k = Rightmost(StopsDown)
    PROVE  /\ todo \in Seq(PartOf) /\ todo # <<>> /\ todo[1] \in PartOf
           /\ scan \in [pval : Int, i : Int, k : Int] /\ scan.pval >= 0
           /\ data \in [Place -> Place] /\ key \in [Place -> Nat]
           /\ i \in StopsUp /\ k \in StopsDown /\ i \in Place /\ k \in Place
           /\ i <= todo[1].k /\ k >= todo[1].i
           /\ scan.i < i /\ k < scan.k
           /\ i >= todo[1].i /\ k <= todo[1].k
           /\ KeyAt(i) >= scan.pval /\ KeyAt(k) <= scan.pval
           /\ \A p \in Place : p < i /\ p > scan.i => KeyAt(p) < scan.pval
<1>1. /\ Partitioning /\ sort = "qksort" /\ retval = ""
      /\ data \in [Place -> Place] /\ key \in [Place -> Nat] /\ todo \in Seq(PartOf)
  BY DEF QksortInv
<1>2. /\ todo # <<>> /\ scan \in [pval : Int, i : Int, k : Int] /\ scan.pval >= 0
      /\ \/ scan.i = todo[1].i - 1 /\ scan.k = todo[1].k + 1
         \/ scan.i >= todo[1].i /\ scan.k <= todo[1].k
  BY <1>1 DEF Partitioning
<1>3. todo[1] \in PartOf
  BY <1>1, <1>2, FirstOf
<1>4. todo[1].i \in Int /\ todo[1].k \in Int
  BY <1>3, Places DEF PartOf
<1>5. PICK d \in StopsDown : d >= todo[1].i  BY <1>1 DEF Partitioning
<1>6. PICK u \in StopsUp : u <= todo[1].k  BY <1>1 DEF Partitioning
<1>7. StopsDown \in SUBSET Place /\ StopsUp \in SUBSET Place
  BY DEF StopsDown, StopsUp
<1>8. k \in StopsDown /\ d <= k  BY <1>5, <1>7, RightmostOf
<1>9. i \in StopsUp /\ i <= u /\ \A q \in StopsUp : i <= q
  BY <1>6, <1>7, LeftmostOf
<1>10. i \in Place /\ k \in Place /\ d \in Place /\ u \in Place
  BY <1>5, <1>6, <1>7, <1>8, <1>9
<1>11. i \in Int /\ k \in Int /\ d \in Int /\ u \in Int  BY <1>10, Places
<1>12. i <= todo[1].k /\ k >= todo[1].i
  BY <1>4, <1>5, <1>6, <1>8, <1>9, <1>11
<1>13. /\ scan.i < i /\ k < scan.k
       /\ KeyAt(i) >= scan.pval /\ KeyAt(k) <= scan.pval
  BY <1>8, <1>9 DEF StopsUp, StopsDown
<1>14. i >= todo[1].i /\ k <= todo[1].k
  <2>1. PICK a \in Int, b \in Int : a = todo[1].i /\ b = todo[1].k  BY <1>4
  <2>2. PICK x \in Int, z \in Int : x = scan.i /\ z = scan.k  BY <1>2
  <2>3. (x = a - 1 /\ z = b + 1) \/ (x >= a /\ z <= b)  BY <1>2, <2>1, <2>2
  <2>4. x < i /\ k < z  BY <1>13, <2>2
  <2> QED  BY <1>11, <2>1, <2>3, <2>4
<1>15. ASSUME NEW p \in Place, p < i, p > scan.i PROVE KeyAt(p) < scan.pval
  <2>1. p \notin StopsUp  BY <1>9, <1>11, <1>15, Places
  <2>2. ~(KeyAt(p) >= scan.pval)  BY <1>15, <2>1 DEF StopsUp
  <2>3. data[p] \in Place /\ KeyAt(p) \in Nat  BY <1>1, <1>15 DEF KeyAt
  <2> QED  BY <1>2, <2>2, <2>3
<1> QED
  BY <1>1, <1>2, <1>3, <1>8, <1>9, <1>10, <1>12, <1>13, <1>14, <1>15

LEMMA SwapStays == ASSUME QksortInv, Swap PROVE QksortInv'
<1>1. PICK i, k : i = Leftmost(StopsUp) /\ k = Rightmost(StopsDown)  OBVIOUS
<1>2. /\ scan # NoScan /\ i < k
      /\ data' = [data EXCEPT ![i] = data[k], ![k] = data[i]]
      /\ scan' = [scan EXCEPT !.i = i, !.k = k]
      /\ UNCHANGED <<sort, retval, key, step, todo>>
  BY <1>1 DEF Swap
<1>3. /\ todo \in Seq(PartOf) /\ todo # <<>> /\ todo[1] \in PartOf
      /\ scan \in [pval : Int, i : Int, k : Int] /\ scan.pval >= 0
      /\ data \in [Place -> Place] /\ key \in [Place -> Nat]
      /\ i \in Place /\ k \in Place
      /\ i <= todo[1].k /\ k >= todo[1].i
      /\ scan.i < i /\ k < scan.k
      /\ i >= todo[1].i /\ k <= todo[1].k
      /\ KeyAt(i) >= scan.pval /\ KeyAt(k) <= scan.pval
  BY <1>1, <1>2, Stops
<1>4. i \in Int /\ k \in Int  BY <1>3, Places
<1>5. data' \in [Place -> Place] /\ data'[i] = data[k] /\ data'[k] = data[i]
  BY <1>2, <1>3
<1>6. scan' = [pval |-> scan.pval, i |-> i, k |-> k]
  BY <1>2, <1>3
<1>7. i \in StopsDown'
  BY <1>2, <1>3, <1>5, <1>6 DEF StopsDown, KeyAt
<1>8. k \in StopsUp'
  BY <1>2, <1>3, <1>5, <1>6 DEF StopsUp, KeyAt
<1>9. Partitioning'
  BY <1>2, <1>3, <1>4, <1>6, <1>7, <1>8 DEF Partitioning
<1> QED  BY <1>2, <1>3, <1>5, <1>9 DEF QksortInv

\* The two calls for the parts, in front of the calls that were there.
LEMMA Parts ==
    ASSUME NEW part \in PartOf, NEW rest \in Seq(PartOf),
           NEW j \in Place, j >= part.i, j <= part.k,
           NEW t, t = CallFor(part.i, j) \o CallFor(j + 1, part.k) \o rest
    PROVE  /\ t \in Seq(PartOf) /\ Len(t) >= Len(rest)
           /\ \A n \in 1 .. Len(t) - Len(rest) :
                 t[n] \in {Part("sort", part.i, j), Part("sort", j + 1, part.k)}
<1> DEFINE c1 == CallFor(part.i, j)
           c2 == CallFor(j + 1, part.k)
           c  == c1 \o c2
<1>1. /\ part.i \in Int /\ part.k \in Int /\ j \in Int /\ j + 1 \in Int
      /\ part.i >= 0 /\ part.k <= N - 1 /\ j + 1 >= 0 /\ j <= N - 1
  <2>1. part.i \in Place /\ part.k \in Place  BY DEF PartOf
  <2> QED  BY <2>1, Places
<1>2. /\ c1 \in Seq(PartOf) /\ c2 \in Seq(PartOf)
      /\ Len(c1) = (IF part.i < j THEN 1 ELSE 0)
      /\ Len(c2) = (IF j + 1 < part.k THEN 1 ELSE 0)
      /\ part.i < j => c1[1] = Part("sort", part.i, j)
      /\ j + 1 < part.k => c2[1] = Part("sort", j + 1, part.k)
  BY <1>1, Calling
<1> HIDE DEF c1, c2
<1>3. /\ c \in Seq(PartOf) /\ Len(c) = Len(c1) + Len(c2)
      /\ \A n \in 1 .. Len(c1) + Len(c2) : c[n] = IF n <= Len(c1) THEN c1[n] ELSE c2[n - Len(c1)]
  <2>1. c1 \in Seq(PartOf) /\ c2 \in Seq(PartOf)  BY <1>2
  <2> QED  BY <2>1, ConcatProperties, Zenon
<1>4. t = c \o rest  BY DEF c1, c2
<1> HIDE DEF c
<1>5. Len(c) \in Nat /\ Len(rest) \in Nat /\ Len(c1) \in Nat /\ Len(c2) \in Nat
  BY <1>2, <1>3, LenProperties
<1>6. /\ t \in Seq(PartOf) /\ Len(t) = Len(c) + Len(rest)
      /\ \A n \in 1 .. Len(c) + Len(rest) : t[n] = IF n <= Len(c) THEN c[n] ELSE rest[n - Len(c)]
  <2>1. c \in Seq(PartOf) /\ rest \in Seq(PartOf)  BY <1>3
  <2>2. /\ c \o rest \in Seq(PartOf) /\ Len(c \o rest) = Len(c) + Len(rest)
        /\ \A n \in 1 .. Len(c) + Len(rest) :
              (c \o rest)[n] = IF n <= Len(c) THEN c[n] ELSE rest[n - Len(c)]
    BY <2>1, ConcatProperties, Zenon
  <2> QED  BY <1>4, <2>2
<1>7. Len(t) - Len(rest) = Len(c)  BY <1>5, <1>6
<1>8. \A n \in 1 .. Len(c) : t[n] = c[n] /\ t[n] \in PartOf
  BY <1>3, <1>5, <1>6, ElementOfSeq
<1>9. ASSUME NEW n \in 1 .. Len(t) - Len(rest)
      PROVE  t[n] \in {Part("sort", part.i, j), Part("sort", j + 1, part.k)}
  <2>1. n \in 1 .. Len(c1) + Len(c2) /\ t[n] = c[n]
    BY <1>3, <1>7, <1>8
  <2>2. CASE n <= Len(c1)
    <3>1. n = 1 /\ part.i < j  BY <1>1, <1>2, <1>5, <2>1, <2>2
    <3>2. c[n] = c1[1]  BY <1>3, <2>1, <2>2, <3>1
    <3> QED  BY <1>2, <2>1, <3>1, <3>2
  <2>3. CASE n > Len(c1)
    <3>1. n - Len(c1) = 1 /\ j + 1 < part.k /\ ~(n <= Len(c1))
      BY <1>1, <1>2, <1>5, <2>1, <2>3
    <3>2. c[n] = c2[1]  BY <1>3, <2>1, <3>1
    <3> QED  BY <1>2, <2>1, <3>1, <3>2
  <2> QED  BY <1>5, <2>1, <2>2, <2>3
<1> QED  BY <1>5, <1>6, <1>9

\* What Split does, from the part that was partitioned and the place where its
\* loops have stopped.
LEMMA SplitParts ==
    ASSUME QksortInv, Split,
           NEW calls, calls = SubSeq(todo', 1, Len(todo') - Len(todo) + 1)
    PROVE  /\ todo' \in Seq(PartOf)
           /\ \A n \in DOMAIN calls :
                 /\ calls[n].i >= todo[1].i /\ calls[n].k <= todo[1].k
                 /\ calls[n] = todo[1] =>
                       /\ KeyAt(todo[1].k) = scan.pval
                       /\ \A p \in todo[1].i .. todo[1].k - 1 : KeyAt(p) < scan.pval
<1>1. PICK i, k : i = Leftmost(StopsUp) /\ k = Rightmost(StopsDown)  OBVIOUS
<1>2. /\ scan # NoScan /\ i >= k
      /\ todo' = CallFor(todo[1].i, k) \o CallFor(k + 1, todo[1].k) \o Tail(todo)
  BY <1>1 DEF Split, SplitAt
<1>3. /\ todo \in Seq(PartOf) /\ todo # <<>> /\ todo[1] \in PartOf
      /\ scan \in [pval : Int, i : Int, k : Int] /\ scan.pval >= 0
      /\ data \in [Place -> Place] /\ key \in [Place -> Nat]
      /\ i \in Place /\ k \in Place /\ i <= todo[1].k /\ k >= todo[1].i
      /\ scan.i < i /\ k < scan.k
      /\ i >= todo[1].i /\ k <= todo[1].k
      /\ KeyAt(i) >= scan.pval /\ KeyAt(k) <= scan.pval
      /\ \A p \in Place : p < i /\ p > scan.i => KeyAt(p) < scan.pval
  BY <1>1, <1>2, Stops
<1>4. Tail(todo) \in Seq(PartOf) /\ Len(Tail(todo)) = Len(todo) - 1 /\ Len(todo) \in Nat
  BY <1>3, FirstOf, LenProperties
<1> DEFINE part == todo[1]
           rest == Tail(todo)
<1> HIDE DEF part, rest
<1>5. part \in PartOf /\ rest \in Seq(PartOf) /\ k >= part.i /\ k <= part.k /\ k \in Place
  BY <1>3, <1>4 DEF part, rest
<1>5a. todo' = CallFor(part.i, k) \o CallFor(k + 1, part.k) \o rest
  BY <1>2 DEF part, rest
<1>6. todo' \in Seq(PartOf)  BY <1>5, <1>5a, Parts
<1>7. Len(todo') \in Nat  BY <1>6, LenProperties
<1>8. Len(todo') - Len(todo) + 1 = Len(todo') - Len(rest)  BY <1>4, <1>7 DEF rest
<1>9. \A n \in DOMAIN calls :
         calls[n] = Part("sort", part.i, k) \/ calls[n] = Part("sort", k + 1, part.k)
  <2> DEFINE m == Len(todo') - Len(rest)
  <2>1. /\ m \in Int /\ Len(todo') >= Len(rest)
        /\ \A n \in 1 .. m : todo'[n] \in {Part("sort", part.i, k), Part("sort", k + 1, part.k)}
    <3>1. Len(rest) \in Nat  BY <1>5, LenProperties
    <3>2. Len(todo') >= Len(rest)  BY <1>5, <1>5a, Parts
    <3>3. m \in Int  BY <1>7, <3>1
    <3>4. \A n \in 1 .. Len(todo') - Len(rest) :
             todo'[n] \in {Part("sort", part.i, k), Part("sort", k + 1, part.k)}
      BY <1>5, <1>5a, Parts
    <3> QED  BY <3>2, <3>3, <3>4
  <2>2. calls = SubSeq(todo', 1, m)  BY <1>8
  <2> HIDE DEF m
  <2> DEFINE P == {Part("sort", part.i, k), Part("sort", k + 1, part.k)}
  <2>3. \A n \in 1 .. m : todo'[n] \in P  BY <2>1
  <2>4. calls \in Seq(P)
    <3> HIDE DEF P
    <3> QED  BY <2>1, <2>2, <2>3, SubSeqProperties
  <2> QED  BY <2>4, LenProperties, ElementOfSeq
<1>10. part.i \in Int /\ part.k \in Int /\ k \in Int /\ i \in Int
  BY <1>3, Places DEF PartOf, part
<1>11. ASSUME NEW n \in DOMAIN calls
       PROVE  calls[n].i >= part.i /\ calls[n].k <= part.k
  <2>1. CASE calls[n] = Part("sort", part.i, k)
    <3>1. calls[n].i = part.i /\ calls[n].k = k  BY <2>1 DEF Part
    <3> QED  BY <1>5, <1>10, <3>1, SMT
  <2>2. CASE calls[n] = Part("sort", k + 1, part.k)
    <3>1. calls[n].i = k + 1 /\ calls[n].k = part.k  BY <2>2 DEF Part
    <3> QED  BY <1>5, <1>10, <3>1, SMT
  <2> QED  BY <1>9, <2>1, <2>2
<1>12. ASSUME NEW n \in DOMAIN calls, calls[n] = part
       PROVE  /\ KeyAt(part.k) = scan.pval
              /\ \A p \in part.i .. part.k - 1 : KeyAt(p) < scan.pval
  <2>1. k = part.k
    <3>1. part.i # k + 1  BY <1>5, <1>10
    <3>2. calls[n].i = part.i  BY <1>12
    <3>3. calls[n] # Part("sort", k + 1, part.k)  BY <3>1, <3>2 DEF Part
    <3>4. part.k = Part("sort", part.i, k).k  BY <1>9, <1>12, <3>3
    <3> QED  BY <3>4 DEF Part
  <2>2. i = k
    <3>1. i >= k /\ i <= part.k  BY <1>2, <1>3 DEF part
    <3> QED  BY <1>10, <2>1, <3>1
  <2>3. scan.i = part.i - 1 /\ scan \in [pval : Int, i : Int, k : Int]
    <3>1. Partitioning  BY <1>2 DEF QksortInv
    <3> QED  BY <1>3, <1>10, <2>1, <3>1 DEF Partitioning, part
  <2>4. ASSUME NEW p \in part.i .. part.k - 1 PROVE KeyAt(p) < scan.pval
    <3>1. p \in Int /\ p >= 0 /\ p <= N - 1 /\ p >= part.i /\ p < part.k
      BY <1>5, <1>10, Places DEF PartOf
    <3>2. p \in Place  BY <3>1, Places
    <3>3. p < i  BY <2>1, <2>2, <3>1
    <3>4. p > scan.i  BY <1>10, <2>3, <3>1
    <3> QED  BY <1>3, <3>2, <3>3, <3>4
  <2>5. KeyAt(k) >= scan.pval /\ KeyAt(k) <= scan.pval
    BY <1>3, <2>2
  <2>6. KeyAt(k) \in Int
    <3>1. data[k] \in Place  BY <1>3
    <3> QED  BY <1>3, <3>1 DEF KeyAt
  <2>7. KeyAt(k) = scan.pval  BY <2>3, <2>5, <2>6
  <2> QED  BY <2>1, <2>4, <2>7
<1> QED  BY <1>6, <1>11, <1>12 DEF part

\* The pivot that is drawn stops both loops.
LEMMA PivotBegins == ASSUME QksortInv, Pivot PROVE QksortInv'
<1>1. /\ sort = "qksort" /\ retval = "" /\ todo # <<>> /\ scan = NoScan
      /\ UNCHANGED <<sort, retval, key, data, step, todo>>
  BY DEF Pivot, Runs
<1>2. PICK r \in todo[1].i .. todo[1].k :
         scan' = [pval |-> KeyAt(r), i |-> todo[1].i - 1, k |-> todo[1].k + 1]
  BY DEF Pivot
<1>3. /\ data \in [Place -> Place] /\ key \in [Place -> Nat] /\ todo \in Seq(PartOf)
  BY <1>1 DEF QksortInv
<1>4. todo[1].i \in Place /\ todo[1].k \in Place
  <2>1. todo[1] \in PartOf  BY <1>1, <1>3, FirstOf
  <2> QED  BY <2>1 DEF PartOf
<1>5. todo[1].i \in Int /\ todo[1].k \in Int /\ r \in Int /\ r \in Place
  BY <1>4, Places
<1>6. data[r] \in Place /\ KeyAt(r) \in Nat /\ KeyAt(r)' = KeyAt(r)
  BY <1>1, <1>3, <1>5 DEF KeyAt
<1>7. r \in StopsDown' /\ r \in StopsUp'
  BY <1>2, <1>5, <1>6 DEF StopsDown, StopsUp
<1>8. Partitioning'
  <2>1. todo' = todo /\ todo' # <<>>  BY <1>1
  <2>2. /\ scan' \in [pval : Int, i : Int, k : Int] /\ scan'.pval >= 0
        /\ scan'.i = todo[1].i - 1 /\ scan'.k = todo[1].k + 1
    BY <1>2, <1>5, <1>6
  <2>3. r >= todo[1].i /\ r <= todo[1].k  BY <1>5
  <2> QED  BY <1>7, <2>1, <2>2, <2>3 DEF Partitioning
<1> QED  BY <1>1, <1>3, <1>8 DEF QksortInv

LEMMA StepQksort == QksortInv /\ [SortNext]_sorting => QksortInv'
<1> SUFFICES ASSUME QksortInv, [SortNext]_sorting PROVE QksortInv'  OBVIOUS
<1>0. [p \in Place |-> p] \in [Place -> Place]  OBVIOUS
<1>1. ASSUME NEW function \in {"issort", "mgsort", "qksort", "ctsort", "rxsort"},
             Begin(function)
      PROVE  QksortInv'
  <2>1. key' \in [Place -> Nat]
    <3>1. key' \in [Place -> Key]  BY <1>1 DEF Begin
    <3>2. \A n : n \in Key => n \in Nat
      <4> DEFINE top == Power[Digits] - 1
      <4>1. Key = 0 .. top  BY DEF Key
      <4> HIDE DEF top
      <4> QED  BY <4>1
    <3> QED  BY <3>1, <3>2
  <2>2. CallFor(0, N - 1) \in Seq(PartOf)
    <3>1. N - 1 \in Int  BY Places
    <3> QED  BY <3>1, Calling
  <2> QED  BY <1>0, <1>1, <2>1, <2>2 DEF Begin, QksortInv
<1>2. CASE InsertNext \/ CountKeys \/ CountDigit \/ Halve \/ Merge
  BY <1>2 DEF InsertNext, CountKeys, CountDigit, Halve, Merge, Runs, QksortInv
<1>3. CASE Pivot  BY <1>3, PivotBegins
<1>4. CASE Swap  BY <1>4, SwapStays
<1>5. CASE Split
  <2>1. todo' \in Seq(PartOf)  BY <1>5, SplitParts
  <2> QED  BY <1>5, <2>1 DEF Split, QksortInv
<1>6. CASE MallocFails
  <2>1. scan' = NoScan  BY <1>6 DEF MallocFails, QksortInv
  <2>2. <<>> \in Seq(PartOf)  OBVIOUS
  <2> QED  BY <1>6, <2>1, <2>2 DEF MallocFails, QksortInv
<1>7. CASE SortReturns
  <2>1. scan' = NoScan  BY <1>7 DEF SortReturns, QksortInv, Partitioning
  <2> QED  BY <1>7, <2>1 DEF SortReturns, QksortInv
<1>8. CASE Read  BY <1>0, <1>8 DEF Read, QksortInv
<1>9. CASE UNCHANGED sorting
  BY <1>9 DEF sorting, QksortInv, Partitioning, StopsDown, StopsUp, KeyAt
<1> QED
  BY <1>1, <1>2, <1>3, <1>4, <1>5, <1>6, <1>7, <1>8, <1>9 DEF SortNext

LEMMA SwapGoesOn == QksortInv /\ Swap => scan' # NoScan
<1> SUFFICES ASSUME QksortInv, Swap, scan' = NoScan PROVE FALSE  OBVIOUS
<1>1. scan \in [pval : Int, i : Int, k : Int] /\ scan.pval >= 0
  BY DEF Swap, QksortInv, Partitioning
<1>2. scan'.pval = scan.pval  BY <1>1 DEF Swap
<1> QED  BY <1>1, <1>2 DEF NoScan

LEMMA InitQksort == SortInit => QksortInv
BY DEF SortInit, QksortInv

\* On an array of any length the inner loops of partition, which look at no
\* bound, find an element to stop at inside the part.
THEOREM ScansAreBounded == SortSpec => []ScansStayInside
<1>1. QksortInv => ScansStayInside
  BY DEF QksortInv, Partitioning, ScansStayInside
<1> QED  BY <1>1, InitQksort, StepQksort, PTL DEF SortSpec

\* qksort never calls itself for a part that is not shorter, unless it has
\* drawn the only greatest element, which is the last, for its pivot; so it
\* does not come back to an array of equal elements, for one.
THEOREM QksortShrinks == SortSpec => PartsShrink
<1> DEFINE Shrinks ==
      scan # NoScan /\ scan' = NoScan /\ retval' = "" =>
        LET part  == todo[1]
            calls == SubSeq(todo', 1, Len(todo') - Len(todo) + 1)
        IN  \A n \in DOMAIN calls :
                /\ calls[n].i >= part.i /\ calls[n].k <= part.k
                /\ calls[n] = part =>
                      /\ KeyAt(part.k) = scan.pval
                      /\ \A p \in part.i .. part.k - 1 : KeyAt(p) < scan.pval
<1>1. QksortInv /\ [SortNext]_sorting => [Shrinks]_sorting
  <2> SUFFICES ASSUME QksortInv, SortNext, scan # NoScan, scan' = NoScan, retval' = ""
               PROVE  Shrinks
    BY DEF sorting
  <2>1. sort = "qksort" /\ retval = "" /\ todo # <<>>  BY DEF QksortInv, Partitioning
  <2>2. ~Swap  BY SwapGoesOn
  <2>3. Split
    BY <2>1, <2>2 DEF SortNext, Begin, InsertNext, CountKeys, CountDigit, Halve, Merge, Pivot,
                MallocFails, SortReturns, Read, Runs
  <2> QED  BY <2>3, SplitParts
<1> QED  BY <1>1, InitQksort, StepQksort, PTL DEF SortSpec, PartsShrink

-----------------------------------------------------------------------------
(* The digits of a key.                                                    *)

LEMMA Powers ==
    /\ Power[0] = 1
    /\ \A n \in 1 .. Digits : Power[n] = Base * Power[n - 1]
    /\ \A n \in 0 .. Digits : Power[n] \in Nat /\ Power[n] > 0
<1>1. Digits \in Nat /\ Base \in Nat /\ Base > 1  BY SortsAssumption
<1>2. PICK F : F = [i \in 1 .. Digits |-> [x \in Nat |-> Base * x]]  OBVIOUS
<1>3. F \in [1 .. Digits -> [Nat -> Nat]]
  <2>1. \A x \in Nat : Base * x \in Nat  BY <1>1
  <2> QED  BY <1>2, <2>1
<1>4. PICK f \in [0 .. Digits -> Nat] :
          f[0] = 1 /\ \A i \in 1 .. Digits : f[i] = F[i][f[i - 1]]
  <2>1. PICK d \in Nat, one \in Nat : d = Digits /\ one = 1  BY <1>1
  <2>2. F \in [1 .. d -> [Nat -> Nat]]  BY <1>3, <2>1
  <2>3. \E f : Obeys(f, d, Nat, one, F)
    BY <2>2, RecursionExists
  <2> QED  BY <2>1, <2>3 DEF Obeys
<1>5. f = [n \in 0 .. Digits |-> IF n = 0 THEN 1 ELSE Base * f[n - 1]]
  <2>1. ASSUME NEW n \in 0 .. Digits
        PROVE  f[n] = IF n = 0 THEN 1 ELSE Base * f[n - 1]
    <3>1. CASE n # 0
      <4>1. n \in 1 .. Digits /\ n - 1 \in 0 .. Digits  BY <1>1, <3>1
      <4>2. f[n] = F[n][f[n - 1]] /\ f[n - 1] \in Nat  BY <1>4, <4>1
      <4>3. F[n][f[n - 1]] = Base * f[n - 1]  BY <1>2, <4>1, <4>2
      <4> QED  BY <3>1, <4>2, <4>3
    <3> QED  BY <1>4, <3>1
  <2> QED  BY <1>4, <2>1
<1>6. PICK g : g = Power  OBVIOUS
<1>7. g = [n \in 0 .. Digits |-> IF n = 0 THEN 1 ELSE Base * g[n - 1]]
  BY <1>5, <1>6 DEF Power
<1>8. g[0] = 1 /\ \A n \in 1 .. Digits : g[n] = Base * g[n - 1]
  <2>1. 0 \in 0 .. Digits /\ \A n \in 1 .. Digits : n \in 0 .. Digits /\ n # 0  BY <1>1
  <2> QED  BY <1>7, <2>1
<1>9. \A n \in 0 .. Digits : g[n] \in Nat /\ g[n] > 0
  <2> DEFINE T == {n \in 0 .. Digits : g[n] \in Nat /\ g[n] > 0}
  <2>1. 0 \in T  BY <1>1, <1>8
  <2>2. ASSUME NEW i \in 1 .. Digits, i - 1 \in T PROVE i \in T
    <3>1. PICK x \in Nat : x = g[i - 1] /\ x > 0  BY <2>2
    <3>2. g[i] = Base * x  BY <1>8, <3>1
    <3>3. Base * x \in Nat /\ Base * x > 0  BY <1>1, <3>1
    <3>4. i \in 0 .. Digits  BY <1>1
    <3> QED  BY <3>2, <3>3, <3>4
  <2> HIDE DEF T
  <2>3. \A i \in 0 .. Digits : i \in T  BY <1>1, <2>1, <2>2, UpTheNumbers
  <2> QED  BY <2>3 DEF T
<1> QED  BY <1>6, <1>8, <1>9

LEMMA KeysAre == 0 \in Key /\ \A x \in Key : x \in Nat
<1>1. PICK top \in Nat : top = Power[Digits] /\ top > 0
  <2>1. Digits \in 0 .. Digits  BY SortsAssumption
  <2> QED  BY <2>1, Powers
<1>2. Key = 0 .. top - 1  BY <1>1 DEF Key
<1> QED  BY <1>1, <1>2

\* Lexicographic order of a digit and the rest.
LEMMA Lexicographic ==
    ASSUME NEW m \in Nat, NEW u \in Nat, NEW v \in Nat, NEW r \in 0 .. m - 1, NEW s \in Nat,
           u < v
    PROVE  m * u + r < m * v + s
<1>1. PICK d \in Nat : v = u + 1 + d
  <2>1. v - u - 1 \in Nat /\ v = u + 1 + (v - u - 1)  OBVIOUS
  <2> QED  BY <2>1
<1>2. m * v = m * u + m + m * d  BY <1>1
<1>3. m * d \in Nat /\ m * u \in Nat  OBVIOUS
<1> QED  BY <1>2, <1>3

\* The digits of a number: the last ones, and the one in front of them.
LEMMA DigitOf ==
    ASSUME NEW a \in Nat, NEW m \in Nat, m > 0, NEW b \in Nat, b > 0
    PROVE  /\ a % (b * m) = (m * ((a \div m) % b)) + (a % m)
           /\ a % m \in 0 .. m - 1 /\ (a \div m) % b \in Nat
<1>1. PICK q \in Nat, r \in Nat : q = a \div m /\ r = a % m /\ a = m * q + r /\ r < m
  OBVIOUS
<1>2. PICK u \in Nat, v \in Nat : u = q \div b /\ v = q % b /\ q = b * u + v /\ v < b
  OBVIOUS
<1>3. PICK top \in Nat : top = b * m /\ top > 0  OBVIOUS
<1>4. PICK w \in Nat, z \in Nat : z = a % top /\ a = top * w + z /\ z < top
  <2>1. /\ a \div top \in Nat /\ a % top \in Nat /\ a % top < top
        /\ a = (top * (a \div top)) + (a % top)
    BY <1>3
  <2> QED  BY <2>1
<1>5. PICK y \in Nat : y = m * v + r  OBVIOUS
<1>6. a = top * u + y
  <2>1. m * q = m * (b * u) + m * v  BY <1>2
  <2>2. m * (b * u) = top * u  BY <1>3
  <2> QED  BY <1>1, <1>5, <2>1, <2>2
<1>7. y < top
  <2>1. r \in 0 .. m - 1 /\ 0 \in Nat  BY <1>1
  <2>2. m * v + r < m * b + 0  BY <1>2, <2>1, Lexicographic
  <2>3. b * m = m * b + 0  OBVIOUS
  <2> QED  BY <1>3, <1>5, <2>2, <2>3
<1>8. u = w
  <2>1. y \in 0 .. top - 1 /\ z \in 0 .. top - 1  BY <1>4, <1>7
  <2>2. top * u + y = top * w + z  BY <1>4, <1>6
  <2>3. top * u + y \in Int /\ top * w + z \in Int  BY <1>4, <1>6
  <2>4. \A x, t \in Int : x = t => ~(x < t) /\ ~(t < x)  OBVIOUS
  <2>5. CASE u < w
    <3>1. top * u + y < top * w + z  BY <2>1, <2>5, Lexicographic
    <3> QED  BY <2>2, <2>3, <2>4, <3>1, Zenon
  <2>6. CASE w < u
    <3>1. top * w + z < top * u + y  BY <2>1, <2>6, Lexicographic
    <3> QED  BY <2>2, <2>3, <2>4, <3>1, Zenon
  <2> QED  BY <2>5, <2>6
<1>9. y = z
  <2>1. PICK x \in Nat : x = top * u  OBVIOUS
  <2>2. a = x + y /\ a = x + z  BY <1>4, <1>6, <1>8, <2>1
  <2> QED  BY <2>2
<1> QED  BY <1>1, <1>2, <1>3, <1>4, <1>5, <1>9

-----------------------------------------------------------------------------
(* What a counting sort does with any ranks.                               *)

\* The elements are named, each once.
Permuted == /\ data \in [Place -> Place]
            /\ \A p, q \in Place : data[p] = data[q] => p = q

\* The element at q comes before the one at p in a stable order.
Precedes(rank, q, p) ==
    rank[data[q]] < rank[data[p]] \/ (rank[data[q]] = rank[data[p]] /\ q < p)

Before(rank, p) == {q \in Place : Precedes(rank, q, p)}

LEMMA PlaceIsFinite == IsFiniteSet(Place) /\ Cardinality(Place) = N
<1>1. 0 \in Int /\ N - 1 \in Int /\ ~(0 > N - 1) /\ N - 1 - 0 + 1 = N
  BY SortsAssumption
<1> QED  BY <1>1, FS_Interval DEF Place

LEMMA PrecedesIs ==
    ASSUME data \in [Place -> Place], NEW rank \in [Place -> Int],
           NEW p \in Place, NEW q \in Place
    PROVE  /\ ~Precedes(rank, p, p)
           /\ Precedes(rank, p, q) \/ Precedes(rank, q, p) \/ p = q
           /\ Precedes(rank, q, p) =>
                 \A r \in Place : Precedes(rank, r, q) => Precedes(rank, r, p)
<1>1. /\ p \in Int /\ q \in Int /\ rank[data[p]] \in Int /\ rank[data[q]] \in Int
      /\ \A r \in Place : r \in Int /\ rank[data[r]] \in Int
  BY Places
<1> QED  BY <1>1 DEF Precedes

\* The counts say how many come before an element.
LEMMA DestinationIs ==
    ASSUME data \in [Place -> Place], NEW rank \in [Place -> Int], NEW p \in Place
    PROVE  Destination(rank, p) = Cardinality(Before(rank, p))
<1> DEFINE I == InFrontOf(rank, p)
           E == {q \in Equals(rank, p) : q < p}
<1>1. I \in SUBSET Place /\ E \in SUBSET Place  BY DEF InFrontOf, Equals
<1>2. I \cap E = {}
  <2> SUFFICES ASSUME NEW q \in I, q \in E PROVE FALSE  OBVIOUS
  <2>1. q \in Place /\ rank[data[q]] < rank[data[p]] /\ rank[data[q]] = rank[data[p]]
    BY DEF InFrontOf, Equals
  <2>2. rank[data[q]] \in Int /\ rank[data[p]] \in Int  BY <2>1
  <2> QED  BY <2>1, <2>2
<1>3. I \cup E = Before(rank, p)
  BY DEF InFrontOf, Equals, Before, Precedes
<1>4. IsFiniteSet(I) /\ IsFiniteSet(E)  BY <1>1, PlaceIsFinite, FS_Subset
<1>5. Cardinality(I) \in Nat /\ Cardinality(E) \in Nat  BY <1>4, FS_CardinalityType
<1> HIDE DEF I, E
<1>6. Cardinality(I \cup E) = Cardinality(I) + Cardinality(E) - Cardinality(I \cap E)
  BY <1>4, FS_Union
<1>7. Cardinality(I \cap E) = 0  BY <1>2, FS_EmptySet, Zenon
<1>8. Cardinality(Before(rank, p)) = Cardinality(I) + Cardinality(E)
  <2>1. Cardinality(I \cup E) = Cardinality(I) + Cardinality(E) - 0  BY <1>6, <1>7
  <2>2. Cardinality(I \cup E) = Cardinality(I) + Cardinality(E)  BY <1>5, <2>1
  <2> QED  BY <1>3, <2>2
<1> QED  BY <1>8 DEF Destination, I, E

To(rank) == [p \in Place |-> Destination(rank, p)]

\* An element goes in front of those that it comes before, and every place is
\* taken.
LEMMA Destinations ==
    ASSUME data \in [Place -> Place], NEW rank \in [Place -> Int],
           NEW to, to = To(rank)
    PROVE  /\ to \in [Place -> Place]
           /\ \A p, q \in Place : Precedes(rank, q, p) => to[q] < to[p]
           /\ \A p, q \in Place : to[p] = to[q] => p = q
           /\ \A x \in Place : \E p \in Place : to[p] = x
<1>1. ASSUME NEW p \in Place
      PROVE  /\ Before(rank, p) \in SUBSET Place /\ IsFiniteSet(Before(rank, p))
             /\ Cardinality(Before(rank, p)) \in Place
             /\ to[p] = Cardinality(Before(rank, p))
  <2>1. Before(rank, p) \in SUBSET Place  BY DEF Before
  <2>2. /\ IsFiniteSet(Before(rank, p)) /\ Cardinality(Before(rank, p)) <= Cardinality(Place)
        /\ (Cardinality(Place) = Cardinality(Before(rank, p)) => Place = Before(rank, p))
    BY <2>1, PlaceIsFinite, FS_Subset
  <2>3. p \notin Before(rank, p)  BY PrecedesIs DEF Before
  <2>4. Cardinality(Before(rank, p)) \in Nat  BY <2>2, FS_CardinalityType
  <2>5. Cardinality(Before(rank, p)) # N  BY <2>2, <2>3, PlaceIsFinite
  <2>6. PICK n \in Nat : n = Cardinality(Before(rank, p)) /\ n <= N /\ n # N
    BY <2>2, <2>4, <2>5, PlaceIsFinite
  <2>7. n \in Place  BY <2>6, SortsAssumption DEF Place
  <2>8. to[p] = Cardinality(Before(rank, p))  BY DestinationIs DEF To
  <2> QED  BY <2>1, <2>2, <2>6, <2>7, <2>8
<1>2. to \in [Place -> Place]  BY <1>1 DEF To
<1>3. ASSUME NEW p \in Place, NEW q \in Place, Precedes(rank, q, p) PROVE to[q] < to[p]
  <2>1. Before(rank, q) \in SUBSET Before(rank, p)
    BY <1>3, PrecedesIs DEF Before
  <2>2. q \in Before(rank, p) /\ q \notin Before(rank, q)
    BY <1>3, PrecedesIs DEF Before
  <2>3. /\ IsFiniteSet(Before(rank, p)) /\ to[p] \in Int /\ to[q] \in Int
        /\ to[p] = Cardinality(Before(rank, p)) /\ to[q] = Cardinality(Before(rank, q))
    BY <1>1, Places
  <2>4. /\ Cardinality(Before(rank, q)) <= Cardinality(Before(rank, p))
        /\ Cardinality(Before(rank, p)) = Cardinality(Before(rank, q)) =>
               Before(rank, p) = Before(rank, q)
    BY <2>1, <2>3, FS_Subset
  <2>5. to[p] # to[q]  BY <2>2, <2>3, <2>4
  <2> QED  BY <2>3, <2>4, <2>5
<1>4. ASSUME NEW p \in Place, NEW q \in Place, to[p] = to[q] PROVE p = q
  <2>1. to[p] \in Int  BY <1>2, Places
  <2>2. ~(to[p] < to[q]) /\ ~(to[q] < to[p])  BY <1>4, <2>1
  <2> QED  BY <1>3, <2>2, PrecedesIs
<1>5. to \in Injection(Place, Place)  BY <1>2, <1>4 DEF Injection, IsInjective
<1>6. to \in Surjection(Place, Place)  BY <1>5, PlaceIsFinite, FS_Injection
<1>7. \A x \in Place : \E p \in Place : to[p] = x  BY <1>6 DEF Surjection
<1> QED  BY <1>2, <1>3, <1>4, <1>7

\* A pass of the counting sort is stable, and loses nothing.
LEMMA CountedIs ==
    ASSUME Permuted, NEW rank \in [Place -> Int], NEW c, c = Counted(rank)
    PROVE  /\ c \in [Place -> Place] /\ \A x, y \in Place : c[x] = c[y] => x = y
           /\ \A x, y \in Place : x < y =>
                 \E p, q \in Place : c[x] = data[p] /\ c[y] = data[q] /\ Precedes(rank, p, q)
<1>1. data \in [Place -> Place]  BY DEF Permuted
<1>2. PICK to : to = To(rank)  OBVIOUS
<1>3. /\ to \in [Place -> Place]
      /\ \A p, q \in Place : Precedes(rank, q, p) => to[q] < to[p]
      /\ \A p, q \in Place : to[p] = to[q] => p = q
      /\ \A x \in Place : \E p \in Place : to[p] = x
  BY <1>1, <1>2, Destinations
<1>4. PICK at : at = [x \in Place |-> CHOOSE p \in Place : Destination(rank, p) = x]  OBVIOUS
<1>5. \A x \in Place : at[x] \in Place /\ to[at[x]] = x
  <2> SUFFICES ASSUME NEW x \in Place PROVE at[x] \in Place /\ to[at[x]] = x  OBVIOUS
  <2>1. \E p \in Place : Destination(rank, p) = x  BY <1>2, <1>3 DEF To
  <2>2. at[x] = CHOOSE p \in Place : Destination(rank, p) = x  BY <1>4
  <2>3. at[x] \in Place /\ Destination(rank, at[x]) = x  BY <2>1, <2>2
  <2> QED  BY <1>2, <2>3 DEF To
<1>6. c = [x \in Place |-> data[at[x]]]
  <2>1. c = [x \in Place |-> data[CHOOSE p \in Place : Destination(rank, p) = x]]
    BY DEF Counted
  <2> QED  BY <1>4, <2>1
<1>7. c \in [Place -> Place]  BY <1>1, <1>5, <1>6
<1>8. ASSUME NEW x \in Place, NEW y \in Place, c[x] = c[y] PROVE x = y
  <2>1. at[x] = at[y]  BY <1>5, <1>6, <1>8 DEF Permuted
  <2> QED  BY <1>5, <2>1
<1>9. ASSUME NEW x \in Place, NEW y \in Place, x < y
      PROVE  \E p, q \in Place : c[x] = data[p] /\ c[y] = data[q] /\ Precedes(rank, p, q)
  <2>1. PICK p \in Place, q \in Place : p = at[x] /\ q = at[y] /\ to[p] = x /\ to[q] = y
    BY <1>5
  <2>2. x \in Int /\ y \in Int /\ x # y /\ ~(y < x)  BY <1>9, Places
  <2>3. p # q /\ ~Precedes(rank, q, p)  BY <1>3, <2>1, <2>2
  <2>4. Precedes(rank, p, q)  BY <1>1, <2>3, PrecedesIs
  <2> QED  BY <1>6, <2>1, <2>4
<1> QED  BY <1>7, <1>8, <1>9

-----------------------------------------------------------------------------
(* issort, ctsort and rxsort.                                              *)

\* The elements in front of the place n are in order, equal ones in that which
\* they had at first.
Ranked(rank, n) ==
    \A p, q \in Place : p < q /\ q < n =>
        \/ rank[data[p]] < rank[data[q]]
        \/ rank[data[p]] = rank[data[q]] /\ data[p] < data[q]

LowDigits(n) == [e \in Place |-> key[e] % Power[n]]

Inserting ==
    sort = "issort" =>
        /\ step \in 1 .. N /\ scan = NoScan /\ todo = <<>>
        /\ \A p \in Place : IF p < step THEN data[p] < step ELSE data[p] = p
        /\ Ranked(key, step)
Counting ==
    sort = "ctsort" =>
        /\ step \in {0, 1} /\ scan = NoScan /\ todo = <<>>
        /\ IF step = 0 THEN \A p \in Place : data[p] = p ELSE Ranked(key, N)
ByDigits ==
    sort = "rxsort" =>
        /\ step \in 0 .. Digits /\ scan = NoScan /\ todo = <<>>
        /\ Ranked(LowDigits(step), N)

\* Where the inner loop of issort stops.
LEMMA BehindIs ==
    ASSUME Permuted, NEW ke \in [Place -> Nat], ke = key,
           NEW n \in Place, Ranked(key, n), NEW e \in Place,
           NEW to, to = Behind(n, e)
    PROVE  /\ to \in 0 .. n
           /\ \A p \in Place : p < to => key[data[p]] <= key[e]
           /\ \A p \in Place : p >= to /\ p < n => key[e] < key[data[p]]
<1>1. /\ data \in [Place -> Place] /\ n \in Nat /\ n < N /\ key[e] \in Nat
      /\ \A p \in Place : p \in Nat /\ key[data[p]] \in Nat
  BY Places DEF Permuted
<1>2. PICK kept : kept = {p \in 0 .. n - 1 : key[e] >= KeyAt(p)}  OBVIOUS
<1>3. \A p : p \in kept <=> p \in Place /\ p < n /\ key[data[p]] <= key[e]
  <2>1. \A p : p \in 0 .. n - 1 <=> p \in Place /\ p < n
    <3>1. \A p \in 0 .. n - 1 : p \in Int /\ p < n /\ p >= 0 /\ p <= N - 1
      BY <1>1, SortsAssumption
    <3>2. \A p \in 0 .. n - 1 : p \in Place /\ p < n  BY <3>1, Places
    <3>3. \A p \in Place : p < n => p \in 0 .. n - 1  BY <1>1
    <3> QED  BY <3>2, <3>3
  <2> QED  BY <1>1, <1>2, <2>1 DEF KeyAt
<1>4. to = IF kept = {} THEN 0 ELSE 1 + CHOOSE p \in kept : \A q \in kept : q <= p
  BY <1>2 DEF Behind
<1>5. CASE kept = {}
  <2>1. to = 0  BY <1>4, <1>5
  <2>2. ASSUME NEW p \in Place, p < n PROVE key[e] < key[data[p]]
    <3>1. ~(key[data[p]] <= key[e])  BY <1>3, <1>5, <2>2
    <3> QED  BY <1>1, <3>1
  <2> QED  BY <1>1, <2>1, <2>2
<1>6. CASE kept # {}
  <2>1. kept \in SUBSET Place /\ kept = kept \cap Place  BY <1>3
  <2>2. PICK m : m = Rightmost(kept)  OBVIOUS
  <2>3. m \in kept /\ \A q \in kept : q <= m  BY <1>6, <2>1, <2>2, RightmostOf
  <2>4. to = 1 + m  BY <1>4, <1>6, <2>2 DEF Rightmost
  <2>5. m \in Place /\ m \in Nat /\ m < n /\ key[data[m]] <= key[e]  BY <1>1, <1>3, <2>3
  <2>6. to \in 0 .. n  BY <1>1, <2>4, <2>5
  <2>7. ASSUME NEW p \in Place, p < to PROVE key[data[p]] <= key[e]
    <3>1. p = m \/ p < m  BY <1>1, <2>4, <2>5, <2>7
    <3>2. CASE p < m
      <4>1. key[data[p]] <= key[data[m]]  BY <1>1, <2>5, <3>2 DEF Ranked
      <4> QED  BY <1>1, <2>5, <4>1
    <3> QED  BY <2>5, <3>1, <3>2
  <2>8. ASSUME NEW p \in Place, p >= to, p < n PROVE key[e] < key[data[p]]
    <3>1. ~(p <= m)  BY <1>1, <2>4, <2>5, <2>8
    <3>2. ~(key[data[p]] <= key[e])  BY <1>3, <2>3, <2>8, <3>1
    <3> QED  BY <1>1, <3>2
  <2> QED  BY <2>6, <2>7, <2>8
<1> QED  BY <1>5, <1>6

LEMMA Inserts ==
    ASSUME Permuted, key \in [Place -> Nat], Inserting, InsertNext
    PROVE  Permuted' /\ Inserting'
<1>1. PICK n, to : n = step /\ to = Behind(n, data[n])  OBVIOUS
<1>2. /\ sort = "issort" /\ n < N /\ step' = n + 1 /\ key' = key /\ sort' = sort
      /\ scan' = scan /\ todo' = todo
      /\ data' = [p \in Place |-> IF p = to THEN data[n]
                                  ELSE IF p \in to + 1 .. n THEN data[p - 1] ELSE data[p]]
  BY <1>1 DEF InsertNext, Runs
<1>3. /\ n \in Nat /\ n >= 1 /\ n \in Place /\ N \in Nat /\ scan = NoScan /\ todo = <<>>
      /\ \A p \in Place : IF p < n THEN data[p] < n ELSE data[p] = p
      /\ Ranked(key, n)
  BY <1>1, <1>2, Places DEF Inserting
<1>4. data \in [Place -> Place] /\ data[n] = n  BY <1>3 DEF Permuted
<1>5. /\ to \in 0 .. n
      /\ \A p \in Place : p < to => key[data[p]] <= key[n]
      /\ \A p \in Place : p >= to /\ p < n => key[n] < key[data[p]]
  BY <1>1, <1>3, <1>4, BehindIs
<1>6. PICK old :
         old = [p \in Place |-> IF p = to THEN n ELSE IF p \in to + 1 .. n THEN p - 1 ELSE p]
  OBVIOUS
<1>7. /\ \A p \in Place : p \in Int /\ p >= 0
      /\ \A p \in Place : p \in to + 1 .. n => p - 1 \in Place
  BY <1>3, <1>5, Places
<1>8. old \in [Place -> Place] /\ \A p, q \in Place : old[p] = old[q] => p = q
  <2>1. old \in [Place -> Place]  BY <1>3, <1>6, <1>7
  <2>2. to \in Int /\ n \in Int /\ to <= n /\ to >= 0  BY <1>3, <1>5
  <2>3. ASSUME NEW p \in Place, NEW q \in Place, old[p] = old[q] PROVE p = q
    <3>1. p \in Int /\ q \in Int  BY <1>7
    <3>2. \A x \in Int : x \in to + 1 .. n <=> to < x /\ x <= n  BY <2>2
    <3>3. PICK u, v : u = old[p] /\ v = old[q]  OBVIOUS
    <3>4. /\ u = (IF p = to THEN n ELSE IF to < p /\ p <= n THEN p - 1 ELSE p)
          /\ v = (IF q = to THEN n ELSE IF to < q /\ q <= n THEN q - 1 ELSE q)
          /\ u = v
      BY <1>6, <2>3, <3>1, <3>2, <3>3
    <3> QED  BY <2>2, <3>1, <3>4
  <2> QED  BY <2>1, <2>3
<1>9. data' = [p \in Place |-> data[old[p]]]  BY <1>2, <1>6
<1>10. Permuted'  BY <1>4, <1>8, <1>9 DEF Permuted
<1>11. ASSUME NEW p \in Place
       PROVE  IF p < n + 1 THEN data'[p] < n + 1 ELSE data'[p] = p
  <2>1. data[old[p]] \in Int /\ p \in Int /\ old[p] \in Int  BY <1>4, <1>7, <1>8
  <2>2. data'[p] = data[old[p]]  BY <1>9
  <2>3. CASE p < n + 1
    <3>1. old[p] <= n  BY <1>3, <1>5, <1>6, <2>1, <2>3
    <3>2. data[old[p]] < n \/ data[old[p]] = old[p]  BY <1>3, <1>8
    <3> QED  BY <1>3, <2>1, <2>2, <2>3, <3>1, <3>2
  <2>4. CASE ~(p < n + 1)
    <3>1. old[p] = p  BY <1>3, <1>5, <1>6, <2>1, <2>4
    <3> QED  BY <1>3, <2>1, <2>2, <2>4, <3>1
  <2> QED  BY <2>3, <2>4
<1>12. ASSUME NEW p \in Place, NEW q \in Place, p < q, q < n + 1
       PROVE  \/ key[data'[p]] < key[data'[q]]
              \/ key[data'[p]] = key[data'[q]] /\ data'[p] < data'[q]
  <2>1. /\ p \in Int /\ q \in Int /\ to \in Int /\ n \in Int /\ to <= n
        /\ data'[p] = data[old[p]] /\ data'[q] = data[old[q]]
        /\ old[p] = (IF p = to THEN n ELSE IF p \in to + 1 .. n THEN p - 1 ELSE p)
        /\ old[q] = (IF q = to THEN n ELSE IF q \in to + 1 .. n THEN q - 1 ELSE q)
        /\ old[p] \in Place /\ old[q] \in Place
    BY <1>3, <1>5, <1>6, <1>7, <1>8, <1>9
  <2>2. CASE q = to
    <3>1. old[p] = p /\ old[q] = n /\ p < to /\ p < n  BY <1>12, <2>1, <2>2
    <3>2. key[data[p]] <= key[n] /\ data[p] < n  BY <1>3, <1>5, <3>1
    <3>3. key[data[p]] \in Nat /\ key[n] \in Nat  BY <1>3, <1>4
    <3> QED  BY <1>4, <2>1, <3>1, <3>2, <3>3
  <2>3. CASE p = to
    <3>1. old[p] = n /\ old[q] = q - 1 /\ old[q] >= to /\ old[q] < n  BY <1>12, <2>1, <2>3
    <3>2. key[n] < key[data[old[q]]]  BY <1>5, <2>1, <3>1
    <3> QED  BY <1>4, <2>1, <3>1, <3>2
  <2>4. CASE p # to /\ q # to
    <3>1. old[p] < old[q] /\ old[q] < n  BY <1>12, <2>1, <2>4
    <3>2. PICK u \in Place, v \in Place : u = old[p] /\ v = old[q]  BY <2>1
    <3>3. \/ key[data[u]] < key[data[v]]
          \/ key[data[u]] = key[data[v]] /\ data[u] < data[v]
      BY <1>3, <3>1, <3>2 DEF Ranked
    <3>4. data'[p] = data[u] /\ data'[q] = data[v]  BY <2>1, <3>2
    <3> QED  BY <3>3, <3>4
  <2> QED  BY <2>2, <2>3, <2>4
<1>13. n + 1 \in 1 .. N  BY <1>2, <1>3
<1>14. Ranked(key, step)'  BY <1>2, <1>12 DEF Ranked
<1> QED  BY <1>2, <1>3, <1>10, <1>11, <1>13, <1>14 DEF Inserting

LEMMA CountsKeys ==
    ASSUME Permuted, key \in [Place -> Nat], Counting, CountKeys
    PROVE  Permuted' /\ Counting'
<1>1. /\ sort = "ctsort" /\ sort' = sort /\ step = 0 /\ step' = 1 /\ key' = key
      /\ scan' = scan /\ todo' = todo /\ data' = Counted(key)
  BY DEF CountKeys, Runs
<1>2. scan = NoScan /\ todo = <<>> /\ \A p \in Place : data[p] = p
  BY <1>1 DEF Counting
<1>3. PICK c : c = Counted(key)  OBVIOUS
<1>4. key \in [Place -> Int]  OBVIOUS
<1>5. /\ c \in [Place -> Place] /\ \A x, y \in Place : c[x] = c[y] => x = y
      /\ \A x, y \in Place : x < y =>
            \E p, q \in Place : c[x] = data[p] /\ c[y] = data[q] /\ Precedes(key, p, q)
  BY <1>3, <1>4, CountedIs
<1>6. Permuted'  BY <1>1, <1>3, <1>5 DEF Permuted
<1>7. Ranked(key, N)'
  <2> SUFFICES ASSUME NEW x \in Place, NEW y \in Place, x < y
               PROVE  \/ key[c[x]] < key[c[y]]
                      \/ key[c[x]] = key[c[y]] /\ c[x] < c[y]
    BY <1>1, <1>3 DEF Ranked
  <2>1. PICK p \in Place, q \in Place : c[x] = data[p] /\ c[y] = data[q] /\ Precedes(key, p, q)
    BY <1>5
  <2> QED  BY <1>2, <2>1 DEF Precedes
<1> QED  BY <1>1, <1>2, <1>6, <1>7 DEF Counting

LEMMA CountsDigit ==
    ASSUME Permuted, key \in [Place -> Nat], ByDigits, CountDigit
    PROVE  Permuted' /\ ByDigits'
<1>1. PICK n, m, rank : /\ n = step /\ m = Power[n]
                        /\ rank = [e \in Place |-> (key[e] \div m) % Base]
  OBVIOUS
<1>2. /\ sort = "rxsort" /\ sort' = sort /\ n < Digits /\ step' = n + 1 /\ key' = key
      /\ scan' = scan /\ todo' = todo /\ data' = Counted(rank)
  BY <1>1 DEF CountDigit, Runs
<1>3. scan = NoScan /\ todo = <<>> /\ n \in 0 .. Digits /\ Ranked(LowDigits(n), N)
  BY <1>1, <1>2 DEF ByDigits
<1>4. /\ m \in Nat /\ m > 0 /\ Base \in Nat /\ Base > 0 /\ Digits \in Nat
      /\ n + 1 \in 1 .. Digits /\ n + 1 \in 0 .. Digits /\ Power[n + 1] = Base * m
  <2>1. Digits \in Nat /\ Base \in Nat /\ Base > 0  BY SortsAssumption
  <2>2. n + 1 \in 1 .. Digits /\ n + 1 \in 0 .. Digits /\ n + 1 - 1 = n  BY <1>2, <1>3, <2>1
  <2>3. Power[n + 1] = Base * Power[n]
    <3>1. PICK l : l = n + 1  OBVIOUS
    <3>2. Power[l] = Base * Power[l - 1]  BY <2>2, <3>1, Powers
    <3>3. l - 1 = n  BY <1>3, <2>1, <3>1
    <3> QED  BY <3>1, <3>2, <3>3
  <2> QED  BY <1>1, <1>3, <2>1, <2>2, <2>3, Powers
<1>5. \A e \in Place : key[e] \in Nat /\ rank[e] = (key[e] \div m) % Base  BY <1>1
<1>6. \A e \in Place : /\ key[e] % (Base * m) = (m * rank[e]) + (key[e] % m)
                       /\ key[e] % m \in 0 .. m - 1 /\ rank[e] \in Nat
  <2> SUFFICES ASSUME NEW e \in Place
               PROVE  /\ key[e] % (Base * m) = (m * rank[e]) + (key[e] % m)
                      /\ key[e] % m \in 0 .. m - 1 /\ rank[e] \in Nat
    OBVIOUS
  <2>1. PICK a \in Nat, b \in Nat : a = key[e] /\ b = Base  BY <1>4, <1>5
  <2>2. /\ a % (b * m) = (m * ((a \div m) % b)) + (a % m)
        /\ a % m \in 0 .. m - 1 /\ (a \div m) % b \in Nat
    BY <1>4, <2>1, DigitOf
  <2> QED  BY <1>5, <2>1, <2>2
<1>7. rank \in [Place -> Int]  BY <1>1, <1>6
<1>8. PICK c : c = Counted(rank)  OBVIOUS
<1>9. /\ c \in [Place -> Place] /\ \A x, y \in Place : c[x] = c[y] => x = y
      /\ \A x, y \in Place : x < y =>
            \E p, q \in Place : c[x] = data[p] /\ c[y] = data[q] /\ Precedes(rank, p, q)
  BY <1>7, <1>8, CountedIs
<1>10. Permuted'  BY <1>2, <1>8, <1>9 DEF Permuted
<1>11. ASSUME NEW x \in Place, NEW y \in Place, x < y
       PROVE  \/ key[c[x]] % (Base * m) < key[c[y]] % (Base * m)
              \/ key[c[x]] % (Base * m) = key[c[y]] % (Base * m) /\ c[x] < c[y]
  <2>1. PICK p \in Place, q \in Place : c[x] = data[p] /\ c[y] = data[q] /\ Precedes(rank, p, q)
    BY <1>9, <1>11
  <2>2. PICK d \in Place, e \in Place : d = data[p] /\ e = data[q]  BY DEF Permuted
  <2>3. PICK kd, ke : kd = key[d] % (Base * m) /\ ke = key[e] % (Base * m)  OBVIOUS
  <2>4. PICK u \in Nat, v \in Nat : u = rank[d] /\ v = rank[e]  BY <1>6
  <2>5. PICK r \in 0 .. m - 1, s \in 0 .. m - 1 : r = key[d] % m /\ s = key[e] % m
    BY <1>6
  <2>6. kd = m * u + r /\ ke = m * v + s  BY <1>6, <2>3, <2>4, <2>5
  <2>7. u < v \/ (u = v /\ p < q)  BY <2>1, <2>2, <2>4 DEF Precedes
  <2>8. CASE u < v
    <3>1. s \in Nat  OBVIOUS
    <3>2. m * u + r < m * v + s  BY <1>4, <2>8, <3>1, Lexicographic
    <3> QED  BY <2>1, <2>2, <2>6, <2>3, <3>2
  <2>9. CASE u = v /\ p < q
    <3>1. q < N  BY Places
    <3>2. r < s \/ (r = s /\ d < e)
      BY <1>1, <1>3, <2>2, <2>5, <2>9, <3>1 DEF Ranked, LowDigits
    <3>3. PICK z \in Nat : z = m * u  BY <1>4
    <3>4. kd = z + r /\ ke = z + s  BY <2>6, <2>9, <3>3
    <3>5. kd < ke \/ (kd = ke /\ d < e)  BY <3>2, <3>3, <3>4
    <3> QED  BY <2>1, <2>2, <2>3, <3>5
  <2> QED  BY <2>7, <2>8, <2>9
<1>12. Ranked(LowDigits(step), N)'
  <2> SUFFICES ASSUME NEW x \in Place, NEW y \in Place, x < y
               PROVE  \/ LowDigits(n + 1)[c[x]] < LowDigits(n + 1)[c[y]]
                      \/ LowDigits(n + 1)[c[x]] = LowDigits(n + 1)[c[y]] /\ c[x] < c[y]
    BY <1>2, <1>8 DEF Ranked, LowDigits
  <2>1. \A e \in Place : LowDigits(n + 1)[e] = key[e] % (Base * m)
    BY <1>4 DEF LowDigits
  <2> QED  BY <1>9, <1>11, <2>1
<1> QED  BY <1>2, <1>3, <1>4, <1>10, <1>12 DEF ByDigits

-----------------------------------------------------------------------------
(* The hands of merge.                                                     *)

\* A sequence of numbers that never goes down from one to the next.
LEMMA Ascends ==
    ASSUME NEW n \in Nat, NEW f, \A m \in 0 .. n : f[m] \in Int,
           \A m \in 1 .. n : f[m - 1] <= f[m]
    PROVE  \A l, m \in 0 .. n : l <= m => f[l] <= f[m]
<1> DEFINE T == {m \in 0 .. n : \A l \in 0 .. m : f[l] <= f[m]}
<1>1. 0 \in T
  <2>1. f[0] \in Int /\ \A l \in 0 .. 0 : l = 0  OBVIOUS
  <2>2. \A l \in 0 .. 0 : f[l] <= f[0]  BY <2>1
  <2> QED  BY <2>2
<1>2. ASSUME NEW m \in 1 .. n, m - 1 \in T PROVE m \in T
  <2>1. m \in 0 .. n /\ m - 1 \in 0 .. n /\ f[m] \in Int /\ f[m - 1] \in Int /\ f[m - 1] <= f[m]
    OBVIOUS
  <2>2. ASSUME NEW l \in 0 .. m PROVE f[l] <= f[m]
    <3>1. CASE l = m  BY <2>1, <3>1
    <3>2. CASE l # m
      <4>1. l \in 0 .. m - 1 /\ l \in 0 .. n  BY <3>2
      <4>2. f[l] <= f[m - 1] /\ f[l] \in Int  BY <1>2, <4>1
      <4> QED  BY <2>1, <4>2
    <3> QED  BY <3>1, <3>2
  <2> QED  BY <2>1, <2>2
<1> HIDE DEF T
<1>3. \A m \in 0 .. n : m \in T  BY <1>1, <1>2, UpTheNumbers
<1>4. \A m \in 0 .. n : \A l \in 0 .. m : f[l] <= f[m]  BY <1>3 DEF T
<1> QED  BY <1>4

\* The loop of merge: n elements have been taken.
LEMMA IposIs ==
    ASSUME NEW i \in Int, NEW j, NEW k \in Int, i <= k, NEW ipos, ipos = Ipos(i, j, k)
    PROVE  /\ \A n \in 0 .. k - i + 1 : ipos[n] \in Int
           /\ ipos[0] = i
           /\ \A n \in 0 .. k - i :
                 ipos[n + 1] = ipos[n] + IF TakesLeft(i, j, k, n, ipos[n]) THEN 1 ELSE 0
<1>1. PICK c \in Nat : c = k - i + 1  OBVIOUS
<1> DEFINE Turn(n, x) == x + IF TakesLeft(i, j, k, n - 1, x) THEN 1 ELSE 0
<1>2. PICK F : F = [n \in 1 .. c |-> [x \in Int |-> Turn(n, x)]]  OBVIOUS
<1>3. \A n, x : x \in Int => Turn(n, x) \in Int  OBVIOUS
<1>4. ipos = CHOOSE f : f = [n \in 0 .. c |-> IF n = 0 THEN i ELSE Turn(n, f[n - 1])]
  BY <1>1 DEF Ipos
<1> HIDE DEF Turn
<1>5. F \in [1 .. c -> [Int -> Int]]  BY <1>2, <1>3
<1>6. PICK f : Obeys(f, c, Int, i, F)  BY <1>5, RecursionExists
<1>7. f \in [0 .. c -> Int] /\ f[0] = i /\ \A n \in 1 .. c : f[n] = F[n][f[n - 1]]
  BY <1>6 DEF Obeys
<1>8. f = [n \in 0 .. c |-> IF n = 0 THEN i ELSE Turn(n, f[n - 1])]
  <2>1. ASSUME NEW n \in 0 .. c PROVE f[n] = IF n = 0 THEN i ELSE Turn(n, f[n - 1])
    <3>1. CASE n # 0
      <4>1. n \in 1 .. c /\ n - 1 \in 0 .. c  BY <3>1
      <4>2. f[n] = F[n][f[n - 1]] /\ f[n - 1] \in Int  BY <1>7, <4>1
      <4> QED  BY <1>2, <3>1, <4>1, <4>2
    <3> QED  BY <1>7, <3>1
  <2> QED  BY <1>7, <2>1
<1>9. ipos = [n \in 0 .. c |-> IF n = 0 THEN i ELSE Turn(n, ipos[n - 1])]
  BY <1>4, <1>8
<1>10. ipos[0] = i /\ \A n \in 1 .. c : ipos[n] = Turn(n, ipos[n - 1])
  <2>1. 0 \in 0 .. c /\ \A n \in 1 .. c : n \in 0 .. c /\ n # 0  OBVIOUS
  <2> QED  BY <1>9, <2>1
<1>11. \A n \in 0 .. c : ipos[n] \in Int
  <2> DEFINE T == {n \in 0 .. c : ipos[n] \in Int}
  <2>1. 0 \in T  BY <1>10
  <2>2. ASSUME NEW n \in 1 .. c, n - 1 \in T PROVE n \in T
    <3>1. n \in 0 .. c /\ ipos[n - 1] \in Int  BY <2>2
    <3> QED  BY <1>3, <1>10, <3>1
  <2> HIDE DEF T
  <2>3. \A n \in 0 .. c : n \in T  BY <2>1, <2>2, UpTheNumbers
  <2> QED  BY <2>3 DEF T
<1>12. ASSUME NEW n \in 0 .. k - i
       PROVE  ipos[n + 1] = ipos[n] + IF TakesLeft(i, j, k, n, ipos[n]) THEN 1 ELSE 0
  <2>1. PICK m : m = n + 1  OBVIOUS
  <2>2. m \in 1 .. c /\ m - 1 = n  BY <1>1, <2>1
  <2>3. ipos[m] = Turn(m, ipos[n])  BY <1>10, <2>2
  <2> QED  BY <2>1, <2>2, <2>3 DEF Turn
<1> QED  BY <1>1, <1>10, <1>11, <1>12

RightHand(i, j, k, ipos) == [n \in 0 .. k - i + 1 |-> Jpos(i, j, n, ipos[n])]

HandsMove(i, j, k, ipos, jpos) ==
    /\ \A n \in 0 .. k - i + 1 :
          /\ ipos[n] \in i .. j + 1 /\ jpos[n] \in j + 1 .. k + 1
          /\ ipos[n] - i + jpos[n] = j + 1 + n
    /\ \A n \in 0 .. k - i :
          IF TakesLeft(i, j, k, n, ipos[n])
          THEN ipos[n] <= j /\ ipos[n + 1] = ipos[n] + 1 /\ jpos[n + 1] = jpos[n]
          ELSE jpos[n] <= k /\ ipos[n + 1] = ipos[n] /\ jpos[n + 1] = jpos[n] + 1
    /\ \A l, n \in 0 .. k - i + 1 : l <= n => ipos[l] <= ipos[n] /\ jpos[l] <= jpos[n]

\* Both hands of merge stay in their halves, and go up only.
LEMMA Hands ==
    ASSUME NEW i \in Int, NEW j \in Int, NEW k \in Int, i <= j, j < k,
           NEW ipos, ipos = Ipos(i, j, k),
           NEW jpos, jpos = RightHand(i, j, k, ipos)
    PROVE  HandsMove(i, j, k, ipos, jpos)
<1>1. /\ \A n \in 0 .. k - i + 1 : ipos[n] \in Int
      /\ ipos[0] = i
      /\ \A n \in 0 .. k - i :
            ipos[n + 1] = ipos[n] + IF TakesLeft(i, j, k, n, ipos[n]) THEN 1 ELSE 0
  BY IposIs
<1>2. PICK c \in Nat : c = k - i + 1  OBVIOUS
<1>3. ASSUME NEW n \in 0 .. c
      PROVE  /\ jpos[n] = j + 1 + n - (ipos[n] - i) /\ jpos[n] \in Int /\ ipos[n] \in Int
             /\ ipos[n] - i + jpos[n] = j + 1 + n
  <2>1. PICK a \in Int : a = ipos[n]  BY <1>1, <1>2
  <2>2. jpos[n] = Jpos(i, j, n, a)  BY <1>2, <2>1 DEF RightHand
  <2>3. jpos[n] = j + 1 + n - (a - i)  BY <2>2 DEF Jpos
  <2>4. jpos[n] \in Int /\ a - i + jpos[n] = j + 1 + n  BY <2>3
  <2> QED  BY <2>1, <2>3, <2>4
<1>4. \A n \in 0 .. k - i : n \in 0 .. c /\ n + 1 \in 0 .. c  BY <1>2
<1>5. ASSUME NEW n \in 0 .. k - i, ipos[n] \in i .. j + 1, jpos[n] \in j + 1 .. k + 1
      PROVE  IF TakesLeft(i, j, k, n, ipos[n])
             THEN ipos[n] <= j /\ ipos[n + 1] = ipos[n] + 1 /\ jpos[n + 1] = jpos[n]
             ELSE jpos[n] <= k /\ ipos[n + 1] = ipos[n] /\ jpos[n + 1] = jpos[n] + 1
  <2>1. PICK a \in Int, b \in Int, a1 \in Int, b1 \in Int :
           a = ipos[n] /\ b = jpos[n] /\ a1 = ipos[n + 1] /\ b1 = jpos[n + 1]
    BY <1>3, <1>4
  <2>2. b = j + 1 + n - (a - i) /\ b1 = j + 1 + (n + 1) - (a1 - i)  BY <1>3, <1>4, <2>1
  <2>3. CASE TakesLeft(i, j, k, n, ipos[n])
    <3>1. a <= j  BY <2>1, <2>3 DEF TakesLeft
    <3>2. a1 = a + 1  BY <1>1, <2>1, <2>3
    <3>3. b1 = b  BY <2>2, <3>2
    <3> QED  BY <2>1, <2>3, <3>1, <3>2, <3>3
  <2>4. CASE ~TakesLeft(i, j, k, n, ipos[n])
    <3>1. a1 = a  BY <1>1, <2>1, <2>4
    <3>2. b1 = b + 1  BY <2>2, <3>1
    <3>3. ~(a <= j /\ b > k)
      <4>1. b = Jpos(i, j, n, ipos[n])  BY <2>1, <2>2 DEF Jpos
      <4> QED  BY <2>1, <2>4, <4>1 DEF TakesLeft
    <3>4. b <= k  BY <1>5, <2>1, <2>2, <3>3
    <3> QED  BY <2>1, <2>4, <3>1, <3>2, <3>4
  <2> QED  BY <2>3, <2>4
<1>6. \A n \in 0 .. c : ipos[n] \in i .. j + 1 /\ jpos[n] \in j + 1 .. k + 1
  <2> DEFINE T == {n \in 0 .. c : ipos[n] \in i .. j + 1 /\ jpos[n] \in j + 1 .. k + 1}
  <2>1. 0 \in T
    <3>1. 0 \in 0 .. c  OBVIOUS
    <3>2. ipos[0] = i /\ jpos[0] = j + 1 + 0 - (i - i)  BY <1>1, <1>3, <3>1
    <3>3. ipos[0] \in i .. j + 1 /\ jpos[0] \in j + 1 .. k + 1  BY <3>2
    <3> QED  BY <3>1, <3>3
  <2>2. ASSUME NEW m \in 1 .. c, m - 1 \in T PROVE m \in T
    <3>1. PICK n : n = m - 1  OBVIOUS
    <3>2. n \in 0 .. k - i /\ m = n + 1 /\ m \in 0 .. c  BY <1>2, <3>1
    <3>3. ipos[n] \in i .. j + 1 /\ jpos[n] \in j + 1 .. k + 1  BY <2>2, <3>1
    <3>4. \/ ipos[n] <= j /\ ipos[m] = ipos[n] + 1 /\ jpos[m] = jpos[n]
          \/ jpos[n] <= k /\ ipos[m] = ipos[n] /\ jpos[m] = jpos[n] + 1
      BY <1>5, <3>2, <3>3
    <3>5. n \in 0 .. c  BY <1>2, <3>2
    <3>6. ipos[n] \in Int  BY <1>1, <1>2, <3>5
    <3>7. jpos[n] \in Int  BY <1>3, <3>5
    <3>8. ipos[m] \in Int  BY <1>1, <1>2, <3>2
    <3>9. PICK a \in Int, b \in Int : a = ipos[n] /\ b = jpos[n]  BY <3>6, <3>7
    <3>10. PICK a1 \in Int, b1 \in Int : a1 = ipos[m] /\ b1 = jpos[m]  BY <1>3, <3>2, <3>8
    <3>11. \/ a <= j /\ a1 = a + 1 /\ b1 = b
           \/ b <= k /\ a1 = a /\ b1 = b + 1
      BY <3>4, <3>9, <3>10
    <3>12. a1 \in i .. j + 1 /\ b1 \in j + 1 .. k + 1  BY <3>3, <3>9, <3>11
    <3> QED  BY <3>2, <3>10, <3>12
  <2> HIDE DEF T
  <2>3. \A n \in 0 .. c : n \in T  BY <2>1, <2>2, UpTheNumbers
  <2> QED  BY <2>3 DEF T
<1>7. \A n \in 0 .. k - i :
         IF TakesLeft(i, j, k, n, ipos[n])
         THEN ipos[n] <= j /\ ipos[n + 1] = ipos[n] + 1 /\ jpos[n + 1] = jpos[n]
         ELSE jpos[n] <= k /\ ipos[n + 1] = ipos[n] /\ jpos[n + 1] = jpos[n] + 1
  BY <1>4, <1>5, <1>6
<1>8. \A m \in 1 .. c : ipos[m - 1] <= ipos[m] /\ jpos[m - 1] <= jpos[m]
  <2> SUFFICES ASSUME NEW m \in 1 .. c PROVE ipos[m - 1] <= ipos[m] /\ jpos[m - 1] <= jpos[m]
    OBVIOUS
  <2>1. PICK n : n = m - 1  OBVIOUS
  <2>2. n \in 0 .. k - i /\ m = n + 1  BY <1>2, <2>1
  <2>3. ipos[n] \in Int /\ jpos[n] \in Int  BY <1>3, <1>4, <2>2
  <2>4. \/ ipos[m] = ipos[n] + 1 /\ jpos[m] = jpos[n]
        \/ ipos[m] = ipos[n] /\ jpos[m] = jpos[n] + 1
    BY <1>7, <2>2
  <2> QED  BY <2>1, <2>3, <2>4
<1>9. \A l, n \in 0 .. c : l <= n => ipos[l] <= ipos[n]
  BY <1>3, <1>8, Ascends
<1>10. \A l, n \in 0 .. c : l <= n => jpos[l] <= jpos[n]
  BY <1>3, <1>8, Ascends
<1>11. \A n \in 0 .. c : ipos[n] - i + jpos[n] = j + 1 + n
  BY <1>3
<1> QED  BY <1>2, <1>6, <1>7, <1>9, <1>10, <1>11 DEF HandsMove

-----------------------------------------------------------------------------
(* What merge makes of two sorted halves.                                  *)

\* m is data with the elements of the part from i to k put in another order.
Rearranges(old, i, k, m) ==
    /\ old \in [Place -> Place] /\ \A p, q \in Place : old[p] = old[q] => p = q
    /\ \A p \in Place : IF i <= p /\ p <= k THEN i <= old[p] /\ old[p] <= k ELSE old[p] = p
    /\ m = [p \in Place |-> data[old[p]]]

Ascending(i, k) ==
    \A p, q \in Place : i <= p /\ p < q /\ q <= k => KeyAt(p) <= KeyAt(q)

Taken(i, j, k, ipos) ==
    [n \in 0 .. k - i |-> IF TakesLeft(i, j, k, n, ipos[n])
                          THEN ipos[n] ELSE Jpos(i, j, n, ipos[n])]

\* What merge takes, one element after the other.
LEMMA TakesOne ==
    ASSUME data \in [Place -> Place], key \in [Place -> Nat],
           NEW i \in Place, NEW j \in Int, NEW k \in Place, i <= j, j < k,
           Ascending(i, j), Ascending(j + 1, k),
           NEW ipos, ipos = Ipos(i, j, k),
           NEW from, from = Taken(i, j, k, ipos)
    PROVE  /\ \A n \in 0 .. k - i : from[n] \in Place /\ i <= from[n] /\ from[n] <= k
           /\ \A l, n \in 0 .. k - i : l < n => from[l] # from[n]
           /\ \A n \in 1 .. k - i : KeyAt(from[n - 1]) <= KeyAt(from[n])
<1>1. i \in Int /\ k \in Int /\ \A p \in Place : data[p] \in Place /\ KeyAt(p) \in Nat
  BY Places DEF KeyAt
<1>2. PICK jpos : jpos = RightHand(i, j, k, ipos)  OBVIOUS
<1>3. /\ \A n \in 0 .. k - i + 1 :
            /\ ipos[n] \in i .. j + 1 /\ jpos[n] \in j + 1 .. k + 1
            /\ ipos[n] - i + jpos[n] = j + 1 + n
      /\ \A n \in 0 .. k - i :
            IF TakesLeft(i, j, k, n, ipos[n])
            THEN ipos[n] <= j /\ ipos[n + 1] = ipos[n] + 1 /\ jpos[n + 1] = jpos[n]
            ELSE jpos[n] <= k /\ ipos[n + 1] = ipos[n] /\ jpos[n + 1] = jpos[n] + 1
      /\ \A l, n \in 0 .. k - i + 1 : l <= n => ipos[l] <= ipos[n] /\ jpos[l] <= jpos[n]
  <2>1. HandsMove(i, j, k, ipos, jpos)  BY <1>1, <1>2, Hands
  <2> QED  BY <2>1 DEF HandsMove
<1>4. \A n \in 0 .. k - i : n \in 0 .. k - i + 1 /\ n + 1 \in 0 .. k - i + 1
  BY <1>1
<1>5. ASSUME NEW n \in 0 .. k - i
      PROVE  /\ ipos[n] \in Int /\ jpos[n] \in Int /\ ipos[n + 1] \in Int /\ jpos[n + 1] \in Int
             /\ ipos[n] >= i /\ jpos[n] >= j + 1
             /\ IF TakesLeft(i, j, k, n, ipos[n])
                THEN from[n] = ipos[n] /\ ipos[n] <= j
                     /\ ipos[n + 1] = ipos[n] + 1 /\ jpos[n + 1] = jpos[n]
                ELSE from[n] = jpos[n] /\ jpos[n] <= k
                     /\ ipos[n + 1] = ipos[n] /\ jpos[n + 1] = jpos[n] + 1
             /\ TakesLeft(i, j, k, n, ipos[n]) =>
                    jpos[n] > k \/ KeyAt(ipos[n]) < KeyAt(jpos[n])
             /\ ~TakesLeft(i, j, k, n, ipos[n]) =>
                    ipos[n] > j \/ ~(KeyAt(ipos[n]) < KeyAt(jpos[n]))
  <2>1. ipos[n] \in i .. j + 1 /\ jpos[n] \in j + 1 .. k + 1  BY <1>3, <1>4
  <2>2. ipos[n + 1] \in i .. j + 1 /\ jpos[n + 1] \in j + 1 .. k + 1  BY <1>3, <1>4
  <2>3. ipos[n] \in Int /\ jpos[n] \in Int /\ ipos[n] >= i /\ jpos[n] >= j + 1  BY <1>1, <2>1
  <2>4. ipos[n + 1] \in Int /\ jpos[n + 1] \in Int  BY <1>1, <2>2
  <2>5. jpos[n] = Jpos(i, j, n, ipos[n])  BY <1>2, <1>4 DEF RightHand
  <2>6. from[n] = IF TakesLeft(i, j, k, n, ipos[n]) THEN ipos[n] ELSE jpos[n]  BY <2>5 DEF Taken
  <2>7. TakesLeft(i, j, k, n, ipos[n]) <=>
           ipos[n] <= j /\ (jpos[n] > k \/ KeyAt(ipos[n]) < KeyAt(jpos[n]))
    BY <2>5 DEF TakesLeft
  <2>8. ~(ipos[n] <= j) <=> ipos[n] > j  BY <2>3
  <2>9. IF TakesLeft(i, j, k, n, ipos[n])
        THEN ipos[n] <= j /\ ipos[n + 1] = ipos[n] + 1 /\ jpos[n + 1] = jpos[n]
        ELSE jpos[n] <= k /\ ipos[n + 1] = ipos[n] /\ jpos[n + 1] = jpos[n] + 1
    BY <1>3
  <2> QED  BY <2>3, <2>4, <2>6, <2>7, <2>8, <2>9
<1>6. ASSUME NEW n \in 0 .. k - i
      PROVE  from[n] \in Place /\ i <= from[n] /\ from[n] <= k
  <2>1. PICK a \in Int, b \in Int : a = ipos[n] /\ b = jpos[n]  BY <1>5
  <2>2. from[n] \in Int /\ i <= from[n] /\ from[n] <= k
    <3>1. a >= i /\ b >= j + 1  BY <1>5, <2>1
    <3>2. (from[n] = a /\ a <= j) \/ (from[n] = b /\ b <= k)  BY <1>5, <2>1
    <3> QED  BY <1>1, <3>1, <3>2
  <2>3. i >= 0 /\ k <= N - 1 /\ N \in Nat  BY Places
  <2>4. from[n] >= 0 /\ from[n] <= N - 1  BY <1>1, <2>2, <2>3
  <2> QED  BY <2>2, <2>4, Places
<1>7. ASSUME NEW l \in 0 .. k - i, NEW n \in 0 .. k - i, l < n PROVE from[l] # from[n]
  <2>1. l + 1 \in 0 .. k - i + 1 /\ n \in 0 .. k - i + 1 /\ l + 1 <= n  BY <1>1, <1>7
  <2>2. ipos[l + 1] <= ipos[n] /\ jpos[l + 1] <= jpos[n]  BY <1>3, <2>1
  <2>3. PICK a \in Int, b \in Int : a = ipos[l] /\ b = jpos[l]  BY <1>5
  <2>4. PICK c \in Int, d \in Int : c = ipos[n] /\ d = jpos[n]  BY <1>5
  <2>5. \/ from[l] = a /\ a <= j /\ a + 1 <= c
        \/ from[l] = b /\ b >= j + 1 /\ b + 1 <= d
    BY <1>5, <2>2, <2>3, <2>4
  <2>6. \/ from[n] = c /\ c <= j
        \/ from[n] = d /\ d >= j + 1
    BY <1>5, <2>4
  <2> QED  BY <2>5, <2>6
<1>8. ASSUME NEW n \in 1 .. k - i PROVE KeyAt(from[n - 1]) <= KeyAt(from[n])
  <2>1. PICK l : l = n - 1  OBVIOUS
  <2>2. l \in 0 .. k - i /\ n \in 0 .. k - i /\ l + 1 = n  BY <1>1, <2>1
  <2>3. PICK a \in Int, b \in Int : a = ipos[l] /\ b = jpos[l]  BY <1>5, <2>2
  <2>4. PICK c \in Int, d \in Int : c = ipos[n] /\ d = jpos[n]  BY <1>5, <2>2
  <2>5. a >= i /\ b >= j + 1 /\ c >= i /\ d >= j + 1  BY <1>5, <2>2, <2>3, <2>4
  <2>6. \/ from[l] = a /\ a <= j /\ c = a + 1 /\ d = b /\ (b > k \/ KeyAt(a) < KeyAt(b))
        \/ from[l] = b /\ b <= k /\ c = a /\ d = b + 1 /\ (a > j \/ ~(KeyAt(a) < KeyAt(b)))
    BY <1>5, <2>2, <2>3, <2>4
  <2>7. \/ from[n] = c /\ c <= j
        \/ from[n] = d /\ d <= k
    BY <1>5, <2>2, <2>4
  <2>8. /\ \A x \in Int : i <= x /\ x <= k => x \in Place
        /\ \A x \in Int : i <= x /\ x <= k => KeyAt(x) \in Nat
    <3>1. i >= 0 /\ k <= N - 1 /\ N \in Nat  BY Places
    <3>2. \A x \in Int : i <= x /\ x <= k => x >= 0 /\ x <= N - 1  BY <1>1, <3>1
    <3> QED  BY <1>1, <3>2, Places
  <2>9. CASE from[l] = a /\ a <= j /\ c = a + 1 /\ d = b /\ (b > k \/ KeyAt(a) < KeyAt(b))
    <3>1. CASE from[n] = c /\ c <= j
      <4>1. a \in Place /\ c \in Place /\ i <= a /\ a < c  BY <1>1, <2>5, <2>8, <2>9, <3>1
      <4>2. KeyAt(a) <= KeyAt(c)  BY <3>1, <4>1 DEF Ascending
      <4> QED  BY <2>1, <2>9, <3>1, <4>2
    <3>2. CASE from[n] = d /\ d <= k
      <4>1. KeyAt(a) < KeyAt(b)  BY <1>1, <2>9, <3>2
      <4>2. i <= a /\ a <= k /\ i <= b /\ b <= k  BY <1>1, <2>5, <2>9, <3>2
      <4>3. KeyAt(a) \in Nat /\ KeyAt(b) \in Nat  BY <2>8, <4>2
      <4>4. KeyAt(a) <= KeyAt(b)  BY <4>1, <4>3
      <4> QED  BY <2>1, <2>9, <3>2, <4>4
    <3> QED  BY <2>7, <3>1, <3>2
  <2>10. CASE from[l] = b /\ b <= k /\ c = a /\ d = b + 1 /\ (a > j \/ ~(KeyAt(a) < KeyAt(b)))
    <3>1. CASE from[n] = c /\ c <= j
      <4>1. ~(KeyAt(a) < KeyAt(b))  BY <2>10, <3>1
      <4>2. i <= a /\ a <= k /\ i <= b /\ b <= k  BY <1>1, <2>5, <2>10, <3>1
      <4>3. KeyAt(a) \in Nat /\ KeyAt(b) \in Nat  BY <2>8, <4>2
      <4>4. KeyAt(b) <= KeyAt(a)  BY <4>1, <4>3
      <4> QED  BY <2>1, <2>10, <3>1, <4>4
    <3>2. CASE from[n] = d /\ d <= k
      <4>1. b \in Place /\ d \in Place /\ j + 1 <= b /\ b < d  BY <1>1, <2>5, <2>8, <2>10, <3>2
      <4>2. KeyAt(b) <= KeyAt(d)  BY <3>2, <4>1 DEF Ascending
      <4> QED  BY <2>1, <2>10, <3>2, <4>2
    <3> QED  BY <2>7, <3>1, <3>2
  <2> QED  BY <2>6, <2>9, <2>10
<1> QED  BY <1>6, <1>7, <1>8

\* merge puts two sorted halves in one order.
LEMMA Merges ==
    ASSUME data \in [Place -> Place], key \in [Place -> Nat],
           NEW i \in Place, NEW j \in Int, NEW k \in Place, i <= j, j < k,
           Ascending(i, j), Ascending(j + 1, k),
           NEW m, m = Merged(i, j, k)
    PROVE  /\ \E old : Rearranges(old, i, k, m)
           /\ \A p, q \in Place : i <= p /\ p < q /\ q <= k => key[m[p]] <= key[m[q]]
<1>1. PICK ipos : ipos = Ipos(i, j, k)  OBVIOUS
<1>2. PICK from : from = Taken(i, j, k, ipos)  OBVIOUS
<1>3. /\ \A n \in 0 .. k - i : from[n] \in Place /\ i <= from[n] /\ from[n] <= k
      /\ \A l, n \in 0 .. k - i : l < n => from[l] # from[n]
      /\ \A n \in 1 .. k - i : KeyAt(from[n - 1]) <= KeyAt(from[n])
  BY <1>1, <1>2, TakesOne
<1>4. PICK old : old = [p \in Place |-> IF i <= p /\ p <= k THEN from[p - i] ELSE p]  OBVIOUS
<1>5. /\ i \in Int /\ k \in Int /\ \A p \in Place : p \in Int
      /\ \A p \in Place : i <= p /\ p <= k => p - i \in 0 .. k - i
  BY Places
<1>6. /\ old \in [Place -> Place]
      /\ \A p \in Place : IF i <= p /\ p <= k THEN i <= old[p] /\ old[p] <= k ELSE old[p] = p
  BY <1>3, <1>4, <1>5
<1>7. ASSUME NEW p \in Place, NEW q \in Place, p < q PROVE old[p] # old[q]
  <2>1. CASE i <= p /\ p <= k /\ i <= q /\ q <= k
    <3>1. p - i \in 0 .. k - i /\ q - i \in 0 .. k - i /\ p - i < q - i
      BY <1>5, <1>7, <2>1
    <3>2. old[p] = from[p - i] /\ old[q] = from[q - i]  BY <1>4, <2>1
    <3> QED  BY <1>3, <3>1, <3>2
  <2>2. CASE ~(i <= p /\ p <= k) /\ ~(i <= q /\ q <= k)
    BY <1>5, <1>6, <1>7, <2>2
  <2>3. CASE (i <= p /\ p <= k) # (i <= q /\ q <= k)
    BY <1>6, <2>3
  <2> QED  BY <2>1, <2>2, <2>3
<1>8. ASSUME NEW p \in Place, NEW q \in Place, old[p] = old[q] PROVE p = q
  <2>1. ~(p < q) /\ ~(q < p)  BY <1>7, <1>8
  <2> QED  BY <1>5, <2>1
<1>9. m = [p \in Place |-> data[old[p]]]
  <2>1. ASSUME NEW p \in Place PROVE m[p] = data[old[p]]
    <3>1. CASE i <= p /\ p <= k
      <4>1. p \in i .. k /\ p - i \in 0 .. k - i  BY <1>5, <3>1
      <4>2. m[p] = data[from[p - i]]  BY <1>1, <1>2, <4>1 DEF Merged, Taken
      <4> QED  BY <1>4, <3>1, <4>2
    <3>2. CASE ~(i <= p /\ p <= k)
      <4>1. p \notin i .. k  BY <1>5, <3>2
      <4> QED  BY <1>4, <3>2, <4>1 DEF Merged
    <3> QED  BY <3>1, <3>2
  <2>2. m = [p \in Place |-> m[p]]  BY DEF Merged
  <2> QED  BY <2>1, <2>2
<1>10. Rearranges(old, i, k, m)  BY <1>6, <1>8, <1>9 DEF Rearranges
<1>11. ASSUME NEW p \in Place, NEW q \in Place, i <= p, p < q, q <= k
       PROVE  key[m[p]] <= key[m[q]]
  <2>1. PICK c \in Nat : c = k - i  BY <1>5, <1>11
  <2>2. PICK f : f = [n \in 0 .. c |-> KeyAt(from[n])]  OBVIOUS
  <2>3. \A n \in 0 .. c : f[n] \in Int
    BY <1>3, <2>1, <2>2 DEF KeyAt
  <2>4. \A n \in 1 .. c : f[n - 1] <= f[n]
    <3> SUFFICES ASSUME NEW n \in 1 .. c PROVE f[n - 1] <= f[n]  OBVIOUS
    <3>1. n \in 0 .. c /\ n - 1 \in 0 .. c  OBVIOUS
    <3>2. f[n] = KeyAt(from[n]) /\ f[n - 1] = KeyAt(from[n - 1])  BY <2>2, <3>1
    <3> QED  BY <1>3, <2>1, <3>2
  <2>5. \A l, n \in 0 .. c : l <= n => f[l] <= f[n]  BY <2>3, <2>4, Ascends
  <2>6. PICK l, n : l = p - i /\ n = q - i  OBVIOUS
  <2>7. l \in 0 .. c /\ n \in 0 .. c /\ l <= n  BY <1>5, <1>11, <2>1, <2>6
  <2>8. f[l] <= f[n]  BY <2>5, <2>7
  <2>9. old[p] = from[l] /\ old[q] = from[n]  BY <1>4, <1>5, <1>11, <2>6
  <2>10. f[l] = key[m[p]] /\ f[n] = key[m[q]]
    BY <1>9, <2>2, <2>7, <2>9 DEF KeyAt
  <2> QED  BY <2>8, <2>10
<1> QED  BY <1>10, <1>11

-----------------------------------------------------------------------------
(* What mgsort and qksort have still to do.                                *)

\* What mgsort and qksort have still to do.
StepsOf == {c \in [op : {"sort", "merge"}, i : Place, k : Place] : c.i < c.k}

\* The places from p to q are in one half of what c merges.
InHalf(c, p, q) ==
    /\ c.i <= p /\ q <= c.k
    /\ q <= Middle(c.i, c.k) \/ p > Middle(c.i, c.k)

Inside(c, p, q) == c.i <= p /\ q <= c.k
Inverted(p, q) == p < q /\ KeyAt(p) > KeyAt(q)

\* What is done later lies behind, or merges a part of which that is in one half.
Above(c, i, k) == k < c.i \/ (c.op = "merge" /\ InHalf(c, i, k))
Nested(t) ==
    \A m, n \in 1 .. Len(t) : m < n => Above(t[n], t[m].i, t[m].k)
CoveredBy(t, n, p, q) == \E m \in 1 .. n : Inside(t[m], p, q)
\* Elements stand in the wrong order in a half that is merged later only where
\* there is something to do first, ...
Halves(t) ==
    \A n \in 1 .. Len(t), p, q \in Place :
        t[n].op = "merge" /\ Inverted(p, q) /\ InHalf(t[n], p, q) => CoveredBy(t, n - 1, p, q)
\* ... and anywhere only where there is something to do.
Covered(t) == \A p, q \in Place : Inverted(p, q) => CoveredBy(t, Len(t), p, q)

LEMMA MiddleIs ==
    ASSUME NEW i \in Int, NEW k \in Int, i < k, i >= 0
    PROVE  Middle(i, k) \in Int /\ i <= Middle(i, k) /\ Middle(i, k) < k
<1>1. PICK s \in Nat : s = i + k - 1  OBVIOUS
<1>2. PICK h \in Nat, r \in 0 .. 1 : h = s \div 2 /\ s = 2 * h + r  BY <1>1
<1>3. i <= h /\ h < k  BY <1>1, <1>2
<1> QED  BY <1>1, <1>2, <1>3 DEF Middle

LEMMA Joined ==
    ASSUME NEW S, NEW s \in Seq(S), NEW u \in Seq(S), NEW t, t = s \o u, NEW d, d = Len(s)
    PROVE  /\ t \in Seq(S) /\ d \in Nat /\ Len(u) \in Nat /\ Len(t) = d + Len(u)
           /\ \A n \in 1 .. d : t[n] = s[n]
           /\ \A n \in 1 .. Len(u) : t[n + d] = u[n]
<1>1. d \in Nat /\ Len(u) \in Nat  BY LenProperties
<1>2. /\ t \in Seq(S) /\ Len(t) = d + Len(u)
      /\ \A n \in 1 .. d + Len(u) : t[n] = IF n <= d THEN s[n] ELSE u[n - d]
  BY ConcatProperties, Zenon
<1>3. \A n \in 1 .. d : t[n] = s[n]  BY <1>1, <1>2
<1>4. ASSUME NEW n \in 1 .. Len(u) PROVE t[n + d] = u[n]
  <2>1. PICK m : m = n + d  OBVIOUS
  <2>2. m \in 1 .. d + Len(u) /\ ~(m <= d) /\ m - d = n  BY <1>1, <2>1
  <2> QED  BY <1>2, <2>1, <2>2
<1> QED  BY <1>1, <1>2, <1>3, <1>4

\* The calls for two parts that lie one behind the other.
CallsFor(a, j, b) == CallFor(a, j) \o CallFor(j + 1, b)

Both(c, a, j, b, l, r) ==
    /\ c \in Seq(StepsOf)
    /\ \A n \in 1 .. Len(c) : c[n] \in {l, r}
    /\ \A m, n \in 1 .. Len(c) : m < n => c[m] = l /\ c[n] = r
    /\ a < j => \E n \in 1 .. Len(c) : c[n] = l
    /\ j + 1 < b => \E n \in 1 .. Len(c) : c[n] = r

LEMMA TwoCalls ==
    ASSUME NEW a \in Place, NEW b \in Place, NEW j \in Int, a <= j, j <= b,
           NEW c, c = CallsFor(a, j, b)
    PROVE  Both(c, a, j, b, Part("sort", a, j), Part("sort", j + 1, b))
<1>1. /\ a \in Int /\ b \in Int /\ a >= 0 /\ b <= N - 1 /\ N \in Nat /\ j + 1 \in Int
      /\ j + 1 >= 0 /\ j <= N - 1
  BY Places
<1>2. PICK l, r : l = Part("sort", a, j) /\ r = Part("sort", j + 1, b)  OBVIOUS
<1> SUFFICES Both(c, a, j, b, l, r)  BY <1>2
<1>3. a < j => j \in Place /\ l \in StepsOf
  BY <1>1, <1>2, Places DEF Part, StepsOf
<1>4. j + 1 < b => j + 1 \in Place /\ r \in StepsOf
  BY <1>1, <1>2, Places DEF Part, StepsOf
<1>5. c = (IF a < j THEN <<l>> ELSE <<>>) \o (IF j + 1 < b THEN <<r>> ELSE <<>>)
  BY <1>2 DEF CallFor, CallsFor
<1>6. CASE a < j /\ j + 1 < b
  <2>1. PICK s, u : s = <<l>> /\ u = <<r>>  OBVIOUS
  <2>2. s \in Seq(StepsOf) /\ u \in Seq(StepsOf)  BY <1>3, <1>4, <1>6, <2>1
  <2>3. c = s \o u  BY <1>5, <1>6, <2>1
  <2>4. PICK d : d = Len(s)  OBVIOUS
  <2>5. d = 1 /\ s[1] = l /\ Len(u) = 1 /\ u[1] = r  BY <2>1, <2>4
  <2>6. /\ c \in Seq(StepsOf) /\ Len(c) = d + Len(u)
        /\ \A n \in 1 .. d : c[n] = s[n]
        /\ \A n \in 1 .. Len(u) : c[n + d] = u[n]
    BY <2>2, <2>3, <2>4, Joined
  <2>7. c[1] = s[1] /\ c[1 + d] = u[1] /\ 1 + d = 2 /\ Len(c) = 2
    BY <2>5, <2>6
  <2>8. c \in Seq(StepsOf) /\ Len(c) = 2 /\ c[1] = l /\ c[2] = r
    BY <2>5, <2>6, <2>7
  <2>9. 1 \in 1 .. 2 /\ 2 \in 1 .. 2 /\ \A n \in 1 .. 2 : n = 1 \/ n = 2  OBVIOUS
  <2>10. \A m, n \in 1 .. 2 : m < n => m = 1 /\ n = 2  OBVIOUS
  <2> QED  BY <1>2, <2>8, <2>9, <2>10 DEF Both
<1>7. CASE a < j /\ ~(j + 1 < b)
  <2>1. c = <<l>>  BY <1>5, <1>7
  <2>2. c \in Seq(StepsOf) /\ Len(c) = 1 /\ c[1] = l  BY <1>3, <1>7, <2>1
  <2>3. \A n \in 1 .. 1 : n = 1  OBVIOUS
  <2>4. 1 \in 1 .. 1 /\ ~(1 < 1)  OBVIOUS
  <2>5. \A n \in 1 .. Len(c) : c[n] \in {l, r}  BY <2>2, <2>3
  <2>6. \A m, n \in 1 .. Len(c) : m < n => c[m] = l /\ c[n] = r
    BY <2>2, <2>3, <2>4
  <2>7. \E n \in 1 .. Len(c) : c[n] = l  BY <2>2, <2>4
  <2> QED  BY <1>7, <2>2, <2>5, <2>6, <2>7, Zenon DEF Both
<1>8. CASE ~(a < j) /\ j + 1 < b
  <2>1. c = <<r>>  BY <1>5, <1>8
  <2>2. c \in Seq(StepsOf) /\ Len(c) = 1 /\ c[1] = r  BY <1>4, <1>8, <2>1
  <2>3. \A n \in 1 .. 1 : n = 1  OBVIOUS
  <2>4. 1 \in 1 .. 1 /\ ~(1 < 1)  OBVIOUS
  <2>5. \A n \in 1 .. Len(c) : c[n] \in {l, r}  BY <2>2, <2>3
  <2>6. \A m, n \in 1 .. Len(c) : m < n => c[m] = l /\ c[n] = r
    BY <2>2, <2>3, <2>4
  <2>7. \E n \in 1 .. Len(c) : c[n] = r  BY <2>2, <2>4
  <2> QED  BY <1>8, <2>2, <2>5, <2>6, <2>7, Zenon DEF Both
<1>9. CASE ~(a < j) /\ ~(j + 1 < b)
  <2>1. c = <<>>  BY <1>5, <1>9
  <2> QED  BY <1>9, <2>1 DEF Both
<1> QED  BY <1>6, <1>7, <1>8, <1>9

\* The places of a part are put in another order: what was done for the pairs
\* of which one is outside holds as well for those they come from.
LEMMA Rearranged ==
    ASSUME NEW old, NEW i \in Place, NEW k \in Place, Rearranges(old, i, k, data'),
           key' = key, NEW p \in Place, NEW q \in Place, ~(i <= p /\ q <= k), p < q
    PROVE  /\ old[p] \in Place /\ old[q] \in Place /\ old[p] < old[q]
           /\ ~(i <= old[p] /\ old[q] <= k)
           /\ Inverted(p, q)' => Inverted(old[p], old[q])
           /\ \A a, b \in Int : k < a \/ b < i \/ (a <= i /\ k <= b) =>
                 ((a <= p /\ q <= b) <=> (a <= old[p] /\ old[q] <= b))
<1>1. PICK op \in Place, oq \in Place : op = old[p] /\ oq = old[q]  BY DEF Rearranges
<1>2. /\ i \in Int /\ k \in Int /\ p \in Int /\ q \in Int /\ op \in Int /\ oq \in Int
  BY Places
<1>3. /\ IF i <= p /\ p <= k THEN i <= op /\ op <= k ELSE op = p
      /\ IF i <= q /\ q <= k THEN i <= oq /\ oq <= k ELSE oq = q
  BY <1>1 DEF Rearranges
<1>4. op < oq /\ ~(i <= op /\ oq <= k)  BY <1>2, <1>3
<1>5. \A a, b \in Int : k < a \/ b < i \/ (a <= i /\ k <= b) =>
         ((a <= p /\ q <= b) <=> (a <= op /\ oq <= b))
  BY <1>2, <1>3
<1>6. ASSUME Inverted(p, q)' PROVE Inverted(op, oq)
  <2>1. data'[p] = data[op] /\ data'[q] = data[oq]  BY <1>1 DEF Rearranges
  <2>2. key[data[op]] > key[data[oq]]  BY <1>6, <2>1 DEF Inverted, KeyAt
  <2> QED  BY <1>4, <2>2 DEF Inverted, KeyAt
<1> QED  BY <1>1, <1>4, <1>5, <1>6

\* Two calls are put in front of what is to be done.
Pushed(t, u, a, j, b, d) ==
    /\ t \in Seq(StepsOf) /\ Len(t) = d + Len(u) /\ Nested(t)
    /\ \A n \in 1 .. d : t[n].op = "sort"
    /\ \A n \in 1 .. Len(u) : t[n + d] = u[n]
    /\ \A n \in 0 .. Len(u), p, q \in Place :
          /\ p < q
          /\ (a <= p /\ q <= j) \/ (j < p /\ q <= b) \/ CoveredBy(u, n, p, q)
          => CoveredBy(t, n + d, p, q)

LEMMA Pushing ==
    ASSUME NEW u \in Seq(StepsOf), Nested(u),
           NEW a \in Place, NEW b \in Place, NEW j \in Int, a <= j, j <= b,
           \A n \in 1 .. Len(u) : Above(u[n], a, j) /\ Above(u[n], j + 1, b),
           NEW t, t = CallsFor(a, j, b) \o u
    PROVE  \E d \in Nat : Pushed(t, u, a, j, b, d)
<1>1. a \in Int /\ b \in Int /\ \A p \in Place : p \in Int  BY Places
<1>2. PICK l, r : l = Part("sort", a, j) /\ r = Part("sort", j + 1, b)  OBVIOUS
<1>3. /\ l.op = "sort" /\ l.i = a /\ l.k = j
      /\ r.op = "sort" /\ r.i = j + 1 /\ r.k = b
  BY <1>2 DEF Part
<1>4. PICK c : c = CallsFor(a, j, b)  OBVIOUS
<1>5. /\ c \in Seq(StepsOf)
      /\ \A n \in 1 .. Len(c) : c[n] \in {l, r}
      /\ \A m, n \in 1 .. Len(c) : m < n => c[m] = l /\ c[n] = r
      /\ a < j => \E n \in 1 .. Len(c) : c[n] = l
      /\ j + 1 < b => \E n \in 1 .. Len(c) : c[n] = r
  <2>1. Both(c, a, j, b, l, r)  BY <1>2, <1>4, TwoCalls
  <2> QED  BY <2>1 DEF Both
<1>6. PICK d : d = Len(c)  OBVIOUS
<1>7. /\ t \in Seq(StepsOf) /\ d \in Nat /\ Len(u) \in Nat /\ Len(t) = d + Len(u)
      /\ \A n \in 1 .. d : t[n] = c[n]
      /\ \A n \in 1 .. Len(u) : t[n + d] = u[n]
  BY <1>4, <1>5, <1>6, Joined
<1>8. \A n \in 1 .. d : t[n] \in {l, r} /\ t[n].op = "sort"  BY <1>3, <1>5, <1>6, <1>7
<1>9. ASSUME NEW n \in 1 .. Len(t), ~(n <= d)
      PROVE  \E x \in 1 .. Len(u) : n = x + d /\ t[n] = u[x]
  <2>1. PICK x \in Int : x = n - d  BY <1>7
  <2>2. x \in 1 .. Len(u) /\ n = x + d  BY <1>7, <1>9, <2>1
  <2> QED  BY <1>7, <2>2
<1>10. Nested(t)
  <2> SUFFICES ASSUME NEW m \in 1 .. Len(t), NEW n \in 1 .. Len(t), m < n
               PROVE  Above(t[n], t[m].i, t[m].k)
    BY DEF Nested
  <2>1. CASE n <= d
    <3>1. m \in 1 .. d /\ n \in 1 .. d  BY <1>7, <2>1
    <3>2. t[m] = l /\ t[n] = r  BY <1>5, <1>6, <1>7, <3>1
    <3> QED  BY <1>3, <3>2 DEF Above
  <2>2. CASE m <= d /\ ~(n <= d)
    <3>1. PICK x \in 1 .. Len(u) : t[n] = u[x]  BY <1>9, <2>2
    <3>2. m \in 1 .. d  BY <1>7, <2>2
    <3>3. t[m] = l \/ t[m] = r  BY <1>8, <3>2
    <3> QED  BY <1>3, <3>1, <3>3
  <2>3. CASE ~(m <= d) /\ ~(n <= d)
    <3>1. PICK x \in 1 .. Len(u) : n = x + d /\ t[n] = u[x]  BY <1>9, <2>3
    <3>2. PICK y \in 1 .. Len(u) : m = y + d /\ t[m] = u[y]  BY <1>9, <2>3
    <3>3. y < x  BY <1>7, <3>1, <3>2
    <3> QED  BY <3>1, <3>2, <3>3 DEF Nested
  <2> QED  BY <1>7, <2>1, <2>2, <2>3
<1>11. ASSUME NEW n \in 0 .. Len(u), NEW p \in Place, NEW q \in Place, p < q,
              (a <= p /\ q <= j) \/ (j < p /\ q <= b) \/ CoveredBy(u, n, p, q)
       PROVE  CoveredBy(t, n + d, p, q)
  <2>1. \A x \in 1 .. d : x \in 1 .. n + d  BY <1>7
  <2>2. CASE a <= p /\ q <= j
    <3>1. a < j  BY <1>1, <1>11, <2>2
    <3>2. PICK x \in 1 .. d : t[x] = l  BY <1>5, <1>6, <1>7, <3>1
    <3>3. Inside(t[x], p, q)  BY <1>3, <2>2, <3>2 DEF Inside
    <3> QED  BY <2>1, <3>3 DEF CoveredBy
  <2>3. CASE j < p /\ q <= b
    <3>1. j + 1 < b /\ j + 1 <= p  BY <1>1, <1>11, <2>3
    <3>2. PICK x \in 1 .. d : t[x] = r  BY <1>5, <1>6, <1>7, <3>1
    <3>3. Inside(t[x], p, q)  BY <1>3, <2>3, <3>1, <3>2 DEF Inside
    <3> QED  BY <2>1, <3>3 DEF CoveredBy
  <2>4. CASE CoveredBy(u, n, p, q)
    <3>1. PICK x \in 1 .. n : Inside(u[x], p, q)  BY <2>4 DEF CoveredBy
    <3>2. x \in 1 .. Len(u) /\ x + d \in 1 .. n + d  BY <1>7
    <3>3. Inside(t[x + d], p, q)  BY <1>7, <3>1, <3>2
    <3> QED  BY <3>2, <3>3 DEF CoveredBy
  <2> QED  BY <1>11, <2>2, <2>3, <2>4
<1> QED  BY <1>7, <1>8, <1>10, <1>11 DEF Pushed

LEMMA TailOf ==
    ASSUME NEW S, NEW s \in Seq(S), s # <<>>, NEW u, u = Tail(s)
    PROVE  /\ s[1] \in S /\ u \in Seq(S) /\ Len(s) \in Nat /\ Len(s) >= 1
           /\ Len(u) \in Nat /\ Len(s) = Len(u) + 1
           /\ \A n \in 1 .. Len(u) : u[n] = s[n + 1]
<1>1. Len(s) \in Nat /\ Len(s) # 0  BY LenProperties, EmptySeq
<1>2. s[1] \in S  BY <1>1, ElementOfSeq
<1>3. /\ u \in Seq(S) /\ Len(u) = Len(s) - 1
      /\ \A n \in 1 .. Len(u) : u[n] = s[n + 1]
  BY HeadTailProperties
<1> QED  BY <1>1, <1>2, <1>3

\* A part of what was above is above.
LEMMA AbovePart ==
    ASSUME NEW c \in StepsOf, NEW i \in Int, NEW k \in Int, Above(c, i, k),
           NEW a \in Int, NEW b \in Int, i <= a, b <= k, a <= b
    PROVE  Above(c, a, b)
<1>1. c.i \in Int /\ c.k \in Int /\ c.i < c.k /\ c.i >= 0  BY Places DEF StepsOf
<1>2. PICK ci \in Int, ck \in Int, m \in Int : ci = c.i /\ ck = c.k /\ m = Middle(c.i, c.k)
  BY <1>1, MiddleIs
<1>3. CASE k < ci
  <2>1. b < ci  BY <1>2, <1>3
  <2> QED  BY <1>2, <2>1 DEF Above
<1>4. CASE c.op = "merge" /\ ci <= i /\ k <= ck /\ (k <= m \/ i > m)
  <2>1. ci <= a /\ b <= ck /\ (b <= m \/ a > m)  BY <1>2, <1>4
  <2> QED  BY <1>2, <1>4, <2>1 DEF Above, InHalf
<1> QED  BY <1>2, <1>3, <1>4 DEF Above, InHalf

-----------------------------------------------------------------------------
(* The steps of mgsort.                                                    *)

Stacked == todo \in Seq(StepsOf) /\ Nested(todo) /\ Halves(todo) /\ Covered(todo)

\* A call of mgsort makes way for the calls for its halves, and their merge.
LEMMA HalveStays == ASSUME Stacked, Halve PROVE Stacked'
<1>1. PICK i, k, j, M, rest, c :
         /\ i = todo[1].i /\ k = todo[1].k /\ j = Middle(i, k) /\ M = Part("merge", i, k)
         /\ rest = Tail(todo) /\ c = CallsFor(i, j, k)
  OBVIOUS
<1>2. /\ todo # <<>> /\ todo \in Seq(StepsOf) /\ todo[1].op = "sort"
      /\ data' = data /\ key' = key /\ todo' = (c \o <<M>>) \o rest
  BY <1>1 DEF Stacked, Halve, CallsFor
<1>3. /\ todo[1] \in StepsOf /\ rest \in Seq(StepsOf) /\ Len(todo) \in Nat /\ Len(todo) >= 1
      /\ Len(rest) \in Nat /\ Len(todo) = Len(rest) + 1
      /\ \A n \in 1 .. Len(rest) : rest[n] = todo[n + 1]
  BY <1>1, <1>2, TailOf
<1>4. i \in Place /\ k \in Place /\ i < k  BY <1>1, <1>3 DEF StepsOf
<1>5. /\ i \in Int /\ k \in Int /\ i >= 0 /\ j \in Int /\ i <= j /\ j < k
      /\ \A p \in Place : p \in Int
  BY <1>1, <1>4, Places, MiddleIs
<1>6. M \in StepsOf /\ M.op = "merge" /\ M.i = i /\ M.k = k
  BY <1>1, <1>4 DEF Part, StepsOf
<1>7. PICK one, u : one = <<M>> /\ u = one \o rest  OBVIOUS
<1>8. one \in Seq(StepsOf) /\ Len(one) = 1 /\ one[1] = M  BY <1>6, <1>7
<1>9. /\ u \in Seq(StepsOf) /\ Len(u) = 1 + Len(rest) /\ u[1] = M
      /\ \A n \in 1 .. Len(rest) : u[n + 1] = rest[n]
  <2>1. PICK d : d = Len(one)  OBVIOUS
  <2>2. /\ u \in Seq(StepsOf) /\ Len(u) = d + Len(rest)
        /\ \A n \in 1 .. d : u[n] = one[n]
        /\ \A n \in 1 .. Len(rest) : u[n + d] = rest[n]
    BY <1>3, <1>7, <1>8, <2>1, Joined
  <2> QED  BY <1>8, <2>1, <2>2
<1>10. todo' = c \o u
  <2>1. c \in Seq(StepsOf)
    <3>1. Both(c, i, j, k, Part("sort", i, j), Part("sort", j + 1, k))
      BY <1>1, <1>4, <1>5, TwoCalls
    <3> QED  BY <3>1 DEF Both
  <2>2. (c \o one) \o rest = c \o (one \o rest)
    BY <1>3, <1>8, <2>1, ConcatAssociative
  <2> QED  BY <1>2, <1>7, <2>2
<1>11. Len(u) = Len(todo) /\ \A n \in 1 .. Len(u) : n # 1 => u[n] = todo[n]
  <2>1. ASSUME NEW n \in 1 .. Len(u), n # 1 PROVE u[n] = todo[n]
    <3>1. PICK m : m = n - 1  OBVIOUS
    <3>2. m \in 1 .. Len(rest) /\ n = m + 1  BY <1>3, <1>9, <2>1, <3>1
    <3> QED  BY <1>3, <1>9, <3>2
  <2> QED  BY <1>3, <1>9, <2>1
<1>12. \A n \in 1 .. Len(u) : u[n] \in StepsOf /\ u[n].i = todo[n].i /\ u[n].k = todo[n].k
  BY <1>1, <1>6, <1>9, <1>11, ElementOfSeq
<1>13. Nested(u)
  <2> SUFFICES ASSUME NEW m \in 1 .. Len(u), NEW n \in 1 .. Len(u), m < n
               PROVE  Above(u[n], u[m].i, u[m].k)
    BY DEF Nested
  <2>1. n # 1  BY <1>3, <1>11
  <2>2. u[n] = todo[n] /\ u[m].i = todo[m].i /\ u[m].k = todo[m].k  BY <1>11, <1>12, <2>1
  <2> QED  BY <1>11, <2>2 DEF Stacked, Nested
<1>14. ASSUME NEW n \in 1 .. Len(u)
       PROVE  Above(u[n], i, j) /\ Above(u[n], j + 1, k)
  <2>1. CASE n = 1
    <3>1. InHalf(M, i, j) /\ InHalf(M, j + 1, k)  BY <1>1, <1>5, <1>6 DEF InHalf
    <3> QED  BY <1>6, <1>9, <2>1, <3>1 DEF Above
  <2>2. CASE n # 1
    <3>1. 1 \in 1 .. Len(todo) /\ n \in 1 .. Len(todo) /\ 1 < n  BY <1>3, <1>11, <2>2
    <3>2. Above(u[n], i, k)  BY <1>1, <1>11, <2>2, <3>1 DEF Stacked, Nested
    <3>3. j + 1 \in Int /\ i <= i /\ j <= k /\ i <= j + 1 /\ k <= k /\ j + 1 <= k  BY <1>5
    <3>4. Above(u[n], i, j)  BY <1>5, <1>12, <3>2, <3>3, AbovePart
    <3>5. Above(u[n], j + 1, k)  BY <1>5, <1>12, <3>2, <3>3, AbovePart
    <3> QED  BY <3>4, <3>5
  <2> QED  BY <2>1, <2>2
<1>15. PICK t : t = todo'  OBVIOUS
<1>16. PICK d \in Nat : Pushed(t, u, i, j, k, d)
  <2>1. j <= k  BY <1>5
  <2> QED  BY <1>1, <1>4, <1>5, <1>9, <1>10, <1>13, <1>14, <1>15, <2>1, Pushing
<1>17. /\ t \in Seq(StepsOf) /\ Len(t) = d + Len(u) /\ Nested(t)
       /\ \A n \in 1 .. d : t[n].op = "sort"
       /\ \A n \in 1 .. Len(u) : t[n + d] = u[n]
       /\ \A n \in 0 .. Len(u), p, q \in Place :
             /\ p < q
             /\ (i <= p /\ q <= j) \/ (j < p /\ q <= k) \/ CoveredBy(u, n, p, q)
             => CoveredBy(t, n + d, p, q)
  BY <1>16 DEF Pushed
<1>18. \A n \in 0 .. Len(u), p, q \in Place : CoveredBy(todo, n, p, q) => CoveredBy(u, n, p, q)
  <2> SUFFICES ASSUME NEW n \in 0 .. Len(u), NEW p \in Place, NEW q \in Place,
                      CoveredBy(todo, n, p, q)
               PROVE  CoveredBy(u, n, p, q)
    OBVIOUS
  <2>1. PICK x \in 1 .. n : Inside(todo[x], p, q)  BY DEF CoveredBy
  <2>2. x \in 1 .. Len(u)  OBVIOUS
  <2>3. Inside(u[x], p, q)  BY <1>12, <2>1, <2>2 DEF Inside
  <2> QED  BY <2>3 DEF CoveredBy
<1>19. Halves(t)
  <2> SUFFICES ASSUME NEW x \in 1 .. Len(t), NEW p \in Place, NEW q \in Place,
                      t[x].op = "merge", Inverted(p, q), InHalf(t[x], p, q)
               PROVE  CoveredBy(t, x - 1, p, q)
    BY DEF Halves
  <2>1. ~(x <= d)
    <3>1. x <= d => x \in 1 .. d  OBVIOUS
    <3> QED  BY <1>17, <3>1
  <2>2. PICK n \in Int : n = x - d  OBVIOUS
  <2>3. n \in 1 .. Len(u) /\ x = n + d  BY <1>9, <1>3, <1>17, <2>1, <2>2
  <2>4. t[x] = u[n] /\ n - 1 \in 0 .. Len(u) /\ x - 1 = (n - 1) + d  BY <1>17, <2>3
  <2>5. p < q  BY DEF Inverted
  <2>6. CASE n = 1
    <3>1. (i <= p /\ q <= j) \/ (j < p /\ q <= k)
      BY <1>1, <1>5, <1>6, <1>9, <2>4, <2>6 DEF InHalf
    <3> QED  BY <1>17, <2>4, <2>5, <3>1
  <2>7. CASE n # 1
    <3>1. n \in 1 .. Len(todo) /\ t[x] = todo[n]  BY <1>11, <2>3, <2>4, <2>7
    <3>2. CoveredBy(todo, n - 1, p, q)  BY <3>1 DEF Stacked, Halves
    <3>3. CoveredBy(u, n - 1, p, q)  BY <1>18, <2>4, <3>2
    <3> QED  BY <1>17, <2>4, <2>5, <3>3
  <2> QED  BY <2>6, <2>7
<1>20. Covered(t)
  <2> SUFFICES ASSUME NEW p \in Place, NEW q \in Place, Inverted(p, q)
               PROVE  CoveredBy(t, Len(t), p, q)
    BY DEF Covered
  <2>1. CoveredBy(todo, Len(u), p, q)  BY <1>11 DEF Stacked, Covered
  <2>2. Len(u) \in 0 .. Len(u) /\ Len(t) = Len(u) + d  BY <1>3, <1>9, <1>17
  <2>3. CoveredBy(u, Len(u), p, q)  BY <1>18, <2>1, <2>2
  <2>4. p < q  BY DEF Inverted
  <2>5. CoveredBy(t, Len(u) + d, p, q)  BY <1>17, <2>2, <2>3, <2>4
  <2> QED  BY <2>2, <2>5
<1> QED
  BY <1>2, <1>15, <1>17, <1>19, <1>20 DEF Stacked, Halves, Covered, Inverted, KeyAt

\* The first part is put in another order: outside, everything stays covered
\* by the same things to do.
LEMMA OutOfPart ==
    ASSUME Stacked, todo # <<>>, NEW i, NEW k, i = todo[1].i, k = todo[1].k,
           NEW old, Rearranges(old, i, k, data'), key' = key,
           NEW p \in Place, NEW q \in Place, ~(i <= p /\ q <= k), Inverted(p, q)'
    PROVE  /\ old[p] \in Place /\ old[q] \in Place /\ Inverted(old[p], old[q])
           /\ \A n \in 2 .. Len(todo) :
                 InHalf(todo[n], p, q) => InHalf(todo[n], old[p], old[q])
           /\ \A n \in 1 .. Len(todo) :
                 CoveredBy(todo, n, old[p], old[q]) => \E m \in 2 .. n : Inside(todo[m], p, q)
<1>1. /\ todo \in Seq(StepsOf) /\ todo[1] \in StepsOf /\ Len(todo) \in Nat /\ Len(todo) >= 1
      /\ Nested(todo)
  <2>1. todo \in Seq(StepsOf)  BY DEF Stacked
  <2>2. PICK rest : rest = Tail(todo)  OBVIOUS
  <2>3. todo[1] \in StepsOf /\ Len(todo) \in Nat /\ Len(todo) >= 1  BY <2>1, <2>2, TailOf
  <2> QED  BY <2>1, <2>3 DEF Stacked
<1>2. i \in Place /\ k \in Place  BY <1>1 DEF StepsOf
<1>3. i \in Int /\ k \in Int /\ p \in Int /\ q \in Int  BY <1>2, Places
<1>4. p < q
  <2>1. Inverted(p, q)' => p < q  BY DEF Inverted
  <2> QED  BY <2>1
<1>5. /\ old[p] \in Place /\ old[q] \in Place /\ old[p] < old[q]
      /\ ~(i <= old[p] /\ old[q] <= k)
      /\ Inverted(p, q)' => Inverted(old[p], old[q])
      /\ \A a, b \in Int : k < a \/ b < i \/ (a <= i /\ k <= b) =>
            ((a <= p /\ q <= b) <=> (a <= old[p] /\ old[q] <= b))
  BY <1>2, <1>4, Rearranged
<1>6. PICK op \in Place, oq \in Place : op = old[p] /\ oq = old[q]  BY <1>5
<1>7. op \in Int /\ oq \in Int /\ op < oq  BY <1>5, <1>6, Places
<1>8. ASSUME NEW n \in 2 .. Len(todo)
      PROVE  /\ Inside(todo[n], p, q) <=> Inside(todo[n], op, oq)
             /\ InHalf(todo[n], p, q) => InHalf(todo[n], op, oq)
  <2>1. n \in 1 .. Len(todo) /\ 1 \in 1 .. Len(todo) /\ 1 < n  BY <1>1
  <2>2. todo[n] \in StepsOf /\ Above(todo[n], i, k)
    BY <1>1, <2>1, ElementOfSeq DEF Nested
  <2>3. /\ todo[n].i \in Int /\ todo[n].k \in Int /\ todo[n].i >= 0
        /\ todo[n].i < todo[n].k
    BY <2>2, Places DEF StepsOf
  <2>4. PICK a \in Int, b \in Int, h \in Int :
           a = todo[n].i /\ b = todo[n].k /\ h = Middle(todo[n].i, todo[n].k)
    BY <2>3, MiddleIs
  <2>5. a <= h /\ h < b  BY <2>3, <2>4, MiddleIs
  <2>6. k < a \/ (a <= i /\ k <= b /\ (k <= h \/ i > h))
    BY <2>2, <2>4 DEF Above, InHalf
  <2>7. (a <= p /\ q <= b) <=> (a <= op /\ oq <= b)
    <3>1. k < a \/ b < i \/ (a <= i /\ k <= b)  BY <2>6
    <3> QED  BY <1>5, <1>6, <3>1
  <2>8. (a <= p /\ q <= h) <=> (a <= op /\ oq <= h)
    <3>1. k < a \/ h < i \/ (a <= i /\ k <= h)  BY <1>3, <2>6
    <3> QED  BY <1>5, <1>6, <3>1
  <2>9. (h + 1 <= p /\ q <= b) <=> (h + 1 <= op /\ oq <= b)
    <3>1. h + 1 \in Int  OBVIOUS
    <3>2. k < h + 1 \/ b < i \/ (h + 1 <= i /\ k <= b)  BY <1>3, <2>5, <2>6
    <3> QED  BY <1>5, <1>6, <3>1, <3>2
  <2>10. Inside(todo[n], p, q) <=> Inside(todo[n], op, oq)
    BY <2>4, <2>7 DEF Inside
  <2>11. InHalf(todo[n], p, q) => InHalf(todo[n], op, oq)
    <3> SUFFICES ASSUME InHalf(todo[n], p, q) PROVE InHalf(todo[n], op, oq)  OBVIOUS
    <3>1. a <= p /\ q <= b /\ (q <= h \/ p > h)  BY <2>4 DEF InHalf
    <3>2. a <= op /\ oq <= b /\ (oq <= h \/ op > h)
      BY <1>3, <1>7, <2>7, <2>8, <2>9, <3>1
    <3> QED  BY <2>4, <3>2 DEF InHalf
  <2> QED  BY <2>10, <2>11
<1>9. ASSUME NEW n \in 1 .. Len(todo), CoveredBy(todo, n, op, oq)
      PROVE  \E m \in 2 .. n : Inside(todo[m], p, q)
  <2>1. PICK x \in 1 .. n : Inside(todo[x], op, oq)  BY <1>9 DEF CoveredBy
  <2>2. x # 1  BY <1>5, <1>6, <2>1 DEF Inside
  <2>3. x \in 2 .. n /\ x \in 2 .. Len(todo)  BY <1>1, <2>2
  <2> QED  BY <1>8, <2>1, <2>3
<1> QED  BY <1>5, <1>6, <1>8, <1>9

LEMMA MergeStays ==
    ASSUME Stacked, Permuted, key \in [Place -> Nat], Merge
    PROVE  Stacked' /\ Permuted'
<1>1. PICK i, k, j, rest, t :
         i = todo[1].i /\ k = todo[1].k /\ j = Middle(i, k) /\ rest = Tail(todo) /\ t = todo'
  OBVIOUS
<1>2. /\ todo # <<>> /\ todo \in Seq(StepsOf) /\ todo[1].op = "merge"
      /\ key' = key /\ data' = Merged(i, j, k) /\ t = rest
      /\ data \in [Place -> Place]
  BY <1>1 DEF Stacked, Merge, Permuted
<1>3. /\ todo[1] \in StepsOf /\ rest \in Seq(StepsOf) /\ Len(todo) \in Nat /\ Len(todo) >= 1
      /\ Len(rest) \in Nat /\ Len(todo) = Len(rest) + 1
      /\ \A n \in 1 .. Len(rest) : rest[n] = todo[n + 1]
  BY <1>1, <1>2, TailOf
<1>4. i \in Place /\ k \in Place /\ i < k  BY <1>1, <1>3 DEF StepsOf
<1>5. /\ i \in Int /\ k \in Int /\ i >= 0 /\ j \in Int /\ i <= j /\ j < k
      /\ \A p \in Place : p \in Int /\ KeyAt(p) \in Nat
  BY <1>1, <1>2, <1>4, Places, MiddleIs DEF KeyAt
<1>6. ASSUME NEW p \in Place, NEW q \in Place, p < q, i <= p, q <= k, q <= j \/ j < p
      PROVE  KeyAt(p) <= KeyAt(q)
  <2>1. InHalf(todo[1], p, q)  BY <1>1, <1>5, <1>6 DEF InHalf
  <2>2. 1 \in 1 .. Len(todo) /\ 1 - 1 = 0  BY <1>3
  <2>3. ~CoveredBy(todo, 0, p, q)  BY DEF CoveredBy
  <2>4. ~Inverted(p, q)  BY <1>2, <2>1, <2>2, <2>3 DEF Stacked, Halves
  <2>5. ~(KeyAt(p) > KeyAt(q))  BY <1>6, <2>4 DEF Inverted
  <2> QED  BY <1>5, <2>5
<1>7. Ascending(i, j) /\ Ascending(j + 1, k)
  <2>1. \A p, q \in Place : i <= p /\ p < q /\ q <= j => q <= k  BY <1>5
  <2>2. \A p, q \in Place : j + 1 <= p /\ p < q /\ q <= k => i <= p /\ j < p  BY <1>5
  <2>3. Ascending(i, j)  BY <1>6, <2>1 DEF Ascending
  <2>4. Ascending(j + 1, k)  BY <1>6, <2>2 DEF Ascending
  <2> QED  BY <2>3, <2>4
<1>8. PICK m : m = data'  OBVIOUS
<1>9. m = Merged(i, j, k)  BY <1>2, <1>8
<1>10. /\ \E old : Rearranges(old, i, k, m)
       /\ \A p, q \in Place : i <= p /\ p < q /\ q <= k => key[m[p]] <= key[m[q]]
  BY <1>2, <1>4, <1>5, <1>7, <1>9, Merges
<1>11. PICK old : Rearranges(old, i, k, data')  BY <1>8, <1>10
<1>12. Permuted'
  BY <1>11 DEF Permuted, Rearranges
<1>13. ASSUME NEW p \in Place, NEW q \in Place, Inverted(p, q)'
       PROVE  ~(i <= p /\ q <= k)
  <2> SUFFICES ASSUME i <= p, q <= k PROVE FALSE  OBVIOUS
  <2>1. p < q /\ key[m[p]] > key[m[q]]  BY <1>2, <1>8, <1>13 DEF Inverted, KeyAt
  <2>2. key[m[p]] <= key[m[q]]  BY <1>10, <2>1
  <2>3. m[p] \in Place /\ m[q] \in Place  BY <1>8, <1>12 DEF Permuted
  <2>4. key[m[p]] \in Int /\ key[m[q]] \in Int  BY <2>3
  <2> QED  BY <2>1, <2>2, <2>4
<1>14. ASSUME NEW p \in Place, NEW q \in Place, Inverted(p, q)'
       PROVE  /\ old[p] \in Place /\ old[q] \in Place /\ Inverted(old[p], old[q])
              /\ \A n \in 2 .. Len(todo) :
                    InHalf(todo[n], p, q) => InHalf(todo[n], old[p], old[q])
              /\ \A n \in 1 .. Len(todo) :
                    CoveredBy(todo, n, old[p], old[q]) => CoveredBy(t, n - 1, p, q)
  <2>1. ~(i <= p /\ q <= k)  BY <1>13, <1>14
  <2>2. /\ old[p] \in Place /\ old[q] \in Place /\ Inverted(old[p], old[q])
        /\ \A n \in 2 .. Len(todo) :
              InHalf(todo[n], p, q) => InHalf(todo[n], old[p], old[q])
        /\ \A n \in 1 .. Len(todo) :
              CoveredBy(todo, n, old[p], old[q]) => \E x \in 2 .. n : Inside(todo[x], p, q)
    BY <1>1, <1>2, <1>11, <1>14, <2>1, OutOfPart
  <2>3. ASSUME NEW n \in 1 .. Len(todo), CoveredBy(todo, n, old[p], old[q])
        PROVE  CoveredBy(t, n - 1, p, q)
    <3>1. PICK x \in 2 .. n : Inside(todo[x], p, q)  BY <2>2, <2>3
    <3>2. PICK y \in Int : y = x - 1  OBVIOUS
    <3>3. y \in 1 .. n - 1 /\ y \in 1 .. Len(rest) /\ x = y + 1  BY <1>3, <3>2
    <3>4. Inside(t[y], p, q)  BY <1>2, <1>3, <3>1, <3>3
    <3> QED  BY <3>3, <3>4 DEF CoveredBy
  <2> QED  BY <2>2, <2>3
<1>15. Nested(t)
  <2> SUFFICES ASSUME NEW x \in 1 .. Len(t), NEW n \in 1 .. Len(t), x < n
               PROVE  Above(t[n], t[x].i, t[x].k)
    BY DEF Nested
  <2>1. x + 1 \in 1 .. Len(todo) /\ n + 1 \in 1 .. Len(todo) /\ x + 1 < n + 1
    BY <1>2, <1>3
  <2>2. t[n] = todo[n + 1] /\ t[x] = todo[x + 1]  BY <1>2, <1>3
  <2> QED  BY <2>1, <2>2 DEF Stacked, Nested
<1>16. ASSUME NEW n \in 1 .. Len(t), NEW p \in Place, NEW q \in Place,
              t[n].op = "merge", Inverted(p, q)', InHalf(t[n], p, q)
       PROVE  CoveredBy(t, n - 1, p, q)
  <2>1. PICK x \in Int : x = n + 1  OBVIOUS
  <2>2. x \in 1 .. Len(todo) /\ x \in 2 .. Len(todo) /\ t[n] = todo[x] /\ n = x - 1
    <3>1. n \in 1 .. Len(rest) /\ t[n] = rest[n]  BY <1>2
    <3>2. x \in 1 .. Len(todo) /\ x \in 2 .. Len(todo) /\ n = x - 1  BY <1>3, <2>1, <3>1
    <3>3. rest[n] = todo[x]  BY <1>3, <2>1, <3>1
    <3> QED  BY <3>1, <3>2, <3>3
  <2>3. PICK op \in Place, oq \in Place : op = old[p] /\ oq = old[q]  BY <1>14, <1>16
  <2>4. Inverted(op, oq) /\ InHalf(todo[x], op, oq)  BY <1>14, <1>16, <2>2, <2>3
  <2>5. CoveredBy(todo, x - 1, op, oq)  BY <1>16, <2>2, <2>4 DEF Stacked, Halves
  <2>6. CoveredBy(todo, n, op, oq) /\ n \in 1 .. Len(todo)  BY <1>2, <1>3, <2>2, <2>5
  <2> QED  BY <1>14, <1>16, <2>3, <2>6
<1>17. ASSUME NEW p \in Place, NEW q \in Place, Inverted(p, q)'
       PROVE  CoveredBy(t, Len(t), p, q)
  <2>1. PICK op \in Place, oq \in Place : op = old[p] /\ oq = old[q] /\ Inverted(op, oq)
    BY <1>14, <1>17
  <2>2. CoveredBy(todo, Len(todo), op, oq)  BY <2>1 DEF Stacked, Covered
  <2>3. Len(todo) \in 1 .. Len(todo) /\ Len(t) = Len(todo) - 1  BY <1>2, <1>3
  <2> QED  BY <1>14, <1>17, <2>1, <2>2, <2>3
<1>18. Halves(todo)'
  BY <1>1, <1>16 DEF Halves
<1>19. Covered(todo)'
  BY <1>1, <1>17 DEF Covered
<1> QED  BY <1>1, <1>2, <1>3, <1>12, <1>15, <1>18, <1>19 DEF Stacked

-----------------------------------------------------------------------------
(* The steps of qksort.                                                    *)

\* What partition has passed is on the right side of the pivot.
Scanned ==
    scan # NoScan =>
        \A p \in Place :
            /\ todo[1].i <= p /\ p <= scan.i => KeyAt(p) <= scan.pval
            /\ scan.k <= p /\ p <= todo[1].k => scan.pval <= KeyAt(p)

\* One turn of the loop: where it stops, and what it has passed.
LEMMA TurnOf ==
    ASSUME QksortInv, Scanned, scan # NoScan,
           NEW i, NEW k, i = Leftmost(StopsUp), k = Rightmost(StopsDown)
    PROVE  /\ \A p \in Place : todo[1].i <= p /\ p < i => KeyAt(p) <= scan.pval
           /\ \A p \in Place : k < p /\ p <= todo[1].k => scan.pval <= KeyAt(p)
<1>1. /\ todo[1] \in PartOf /\ scan \in [pval : Int, i : Int, k : Int]
      /\ data \in [Place -> Place] /\ key \in [Place -> Nat]
      /\ i \in Place /\ k \in Place
      /\ \A p \in Place : p < i /\ p > scan.i => KeyAt(p) < scan.pval
  BY Stops
<1>2. /\ scan.i \in Int /\ scan.k \in Int /\ scan.pval \in Int /\ i \in Int /\ k \in Int
      /\ todo[1].i \in Int /\ todo[1].k \in Int
      /\ \A p \in Place : p \in Int /\ KeyAt(p) \in Int
  BY <1>1, Places DEF PartOf, KeyAt
<1>3. ASSUME NEW p \in Place, todo[1].i <= p, p < i PROVE KeyAt(p) <= scan.pval
  <2>1. CASE p <= scan.i  BY <1>3, <2>1 DEF Scanned
  <2>2. CASE p > scan.i
    <3>1. KeyAt(p) < scan.pval  BY <1>1, <1>3, <2>2
    <3> QED  BY <1>2, <3>1
  <2> QED  BY <1>2, <2>1, <2>2
<1>4. ASSUME NEW p \in Place, k < p, p <= todo[1].k PROVE scan.pval <= KeyAt(p)
  <2>1. CASE p >= scan.k
    <3>1. scan.k <= p  BY <1>2, <2>1
    <3> QED  BY <1>4, <3>1 DEF Scanned
  <2>2. CASE p < scan.k
    <3>1. StopsDown \in SUBSET Place /\ StopsDown # {}
      <4>1. Partitioning  BY DEF QksortInv
      <4> QED  BY <4>1 DEF Partitioning, StopsDown
    <3>2. \A r \in StopsDown : r <= k  BY <3>1, RightmostOf
    <3>3. p \notin StopsDown  BY <1>2, <1>4, <3>2
    <3>4. ~(KeyAt(p) <= scan.pval)  BY <2>2, <3>3 DEF StopsDown
    <3> QED  BY <1>2, <3>4
  <2> QED  BY <1>2, <2>1, <2>2
<1> QED  BY <1>3, <1>4

LEMMA PivotScans == ASSUME QksortInv, Pivot PROVE Scanned'
<1>1. PICK r \in todo[1].i .. todo[1].k :
         scan' = [pval |-> KeyAt(r), i |-> todo[1].i - 1, k |-> todo[1].k + 1]
  BY DEF Pivot
<1>2. todo[1].i \in Int /\ todo[1].k \in Int /\ todo' = todo
  <2>1. todo \in Seq(PartOf) /\ todo # <<>> /\ todo' = todo  BY DEF Pivot, Runs, QksortInv
  <2>2. todo[1] \in PartOf  BY <2>1, FirstOf
  <2> QED  BY <2>1, <2>2, Places DEF PartOf
<1>3. scan'.i = todo'[1].i - 1 /\ scan'.k = todo'[1].k + 1  BY <1>1, <1>2
<1>4. \A p \in Place : /\ ~(todo'[1].i <= p /\ p <= scan'.i)
                       /\ ~(scan'.k <= p /\ p <= todo'[1].k)
  BY <1>2, <1>3, Places
<1> QED  BY <1>4 DEF Scanned

LEMMA SwapStacks ==
    ASSUME QksortInv, Stacked, Scanned, Permuted, Swap
    PROVE  Stacked' /\ Scanned' /\ Permuted'
<1>1. PICK i, k : i = Leftmost(StopsUp) /\ k = Rightmost(StopsDown)  OBVIOUS
<1>2. /\ scan # NoScan /\ i < k /\ key' = key /\ todo' = todo
      /\ data' = [data EXCEPT ![i] = data[k], ![k] = data[i]]
      /\ scan' = [scan EXCEPT !.i = i, !.k = k]
  BY <1>1 DEF Swap
<1>3. /\ todo \in Seq(PartOf) /\ todo # <<>> /\ todo[1] \in PartOf
      /\ scan \in [pval : Int, i : Int, k : Int]
      /\ data \in [Place -> Place] /\ key \in [Place -> Nat]
      /\ i \in Place /\ k \in Place
      /\ i >= todo[1].i /\ k <= todo[1].k
      /\ KeyAt(i) >= scan.pval /\ KeyAt(k) <= scan.pval
  BY <1>1, <1>2, Stops
<1>4. PICK a, b : a = todo[1].i /\ b = todo[1].k  OBVIOUS
<1>5. /\ a \in Place /\ b \in Place /\ a \in Int /\ b \in Int /\ i \in Int /\ k \in Int
      /\ a <= i /\ k <= b /\ \A p \in Place : p \in Int
  BY <1>3, <1>4, Places DEF PartOf
<1>6. PICK old : old = [p \in Place |-> IF p = i THEN k ELSE IF p = k THEN i ELSE p]  OBVIOUS
<1>7. Rearranges(old, a, b, data')
  <2>1. old \in [Place -> Place] /\ \A p, q \in Place : old[p] = old[q] => p = q
    BY <1>3, <1>6
  <2>2. ASSUME NEW p \in Place
        PROVE  IF a <= p /\ p <= b THEN a <= old[p] /\ old[p] <= b ELSE old[p] = p
    BY <1>2, <1>5, <1>6
  <2>3. data' = [p \in Place |-> data[old[p]]]
    BY <1>2, <1>3, <1>6
  <2> QED  BY <2>1, <2>2, <2>3 DEF Rearranges
<1>8. Permuted'  BY <1>7 DEF Permuted, Rearranges
<1>9. scan' = [pval |-> scan.pval, i |-> i, k |-> k]  BY <1>2, <1>3
<1>10. ASSUME NEW p \in Place
       PROVE  /\ a <= p /\ p <= i => key[data'[p]] <= scan.pval
              /\ k <= p /\ p <= b => scan.pval <= key[data'[p]]
  <2>1. /\ \A r \in Place : a <= r /\ r < i => KeyAt(r) <= scan.pval
        /\ \A r \in Place : k < r /\ r <= b => scan.pval <= KeyAt(r)
    BY <1>1, <1>2, <1>4, TurnOf
  <2>2. CASE p = i
    <3>1. ~(k <= p)  BY <1>2, <1>5, <2>2
    <3>2. data'[p] = data[k]  BY <1>2, <1>3, <2>2, <3>1
    <3> QED  BY <1>3, <3>1, <3>2 DEF KeyAt
  <2>3. CASE p = k
    <3>1. data'[p] = data[i] /\ ~(p <= i)  BY <1>2, <1>3, <1>5, <2>3
    <3>2. key[data[i]] >= scan.pval /\ key[data[i]] \in Int /\ scan.pval \in Int
      BY <1>3 DEF KeyAt
    <3> QED  BY <3>1, <3>2
  <2>4. CASE p # i /\ p # k
    <3>1. data'[p] = data[p]  BY <1>2, <1>3, <2>4
    <3>2. (p <= i => p < i) /\ (k <= p => k < p)  BY <1>5, <2>4
    <3> QED  BY <2>1, <3>1, <3>2 DEF KeyAt
  <2> QED  BY <2>2, <2>3, <2>4
<1>11. Scanned'
  BY <1>2, <1>4, <1>9, <1>10 DEF Scanned, KeyAt
<1>12. Halves(todo)'
  <2>1. \A n \in 1 .. Len(todo) : todo[n].op = "sort"
    BY <1>3, ElementOfSeq DEF PartOf
  <2> QED  BY <1>2, <2>1 DEF Halves
<1>13. Covered(todo)'
  <2> SUFFICES ASSUME NEW p \in Place, NEW q \in Place, Inverted(p, q)'
               PROVE  CoveredBy(todo, Len(todo), p, q)
    BY <1>2 DEF Covered
  <2>1. Len(todo) \in Nat /\ Len(todo) >= 1 /\ 1 \in 1 .. Len(todo) /\ Len(todo) \in 1 .. Len(todo)
    <3>1. Len(todo) \in Nat /\ Len(todo) # 0  BY <1>3, LenProperties, EmptySeq
    <3> QED  BY <3>1
  <2>2. CASE a <= p /\ q <= b
    <3>1. Inside(todo[1], p, q)  BY <1>4, <2>2 DEF Inside
    <3> QED  BY <2>1, <3>1 DEF CoveredBy
  <2>3. CASE ~(a <= p /\ q <= b)
    <3>1. /\ old[p] \in Place /\ old[q] \in Place /\ Inverted(old[p], old[q])
          /\ \A n \in 1 .. Len(todo) :
                CoveredBy(todo, n, old[p], old[q]) => \E m \in 2 .. n : Inside(todo[m], p, q)
      BY <1>2, <1>3, <1>4, <1>7, <2>3, OutOfPart
    <3>2. CoveredBy(todo, Len(todo), old[p], old[q])  BY <3>1 DEF Stacked, Covered
    <3>3. PICK m \in 2 .. Len(todo) : Inside(todo[m], p, q)  BY <2>1, <3>1, <3>2
    <3>4. m \in 1 .. Len(todo)  BY <2>1
    <3> QED  BY <3>3, <3>4 DEF CoveredBy
  <2> QED  BY <2>2, <2>3
<1>14. todo' \in Seq(StepsOf) /\ Nested(todo)'  BY <1>2 DEF Stacked, Nested
<1> QED  BY <1>8, <1>11, <1>12, <1>13, <1>14 DEF Stacked

LEMMA SplitStacks == ASSUME QksortInv, Stacked, Scanned, Split PROVE Stacked'
<1>1. PICK i, j, a, b, rest, t, c :
         /\ i = Leftmost(StopsUp) /\ j = Rightmost(StopsDown) /\ a = todo[1].i /\ b = todo[1].k
         /\ rest = Tail(todo) /\ t = todo' /\ c = CallsFor(a, j, b)
  OBVIOUS
<1>2. /\ scan # NoScan /\ i >= j /\ key' = key /\ data' = data
      /\ t = c \o rest
  BY <1>1 DEF Split, SplitAt, CallsFor
<1>3. /\ todo \in Seq(PartOf) /\ todo # <<>> /\ todo[1] \in PartOf
      /\ scan \in [pval : Int, i : Int, k : Int]
      /\ data \in [Place -> Place] /\ key \in [Place -> Nat]
      /\ i \in Place /\ j \in Place /\ j >= a /\ j <= b
      /\ KeyAt(j) <= scan.pval
  BY <1>1, <1>2, Stops
<1>4. /\ todo[1] \in StepsOf /\ rest \in Seq(StepsOf) /\ Len(todo) \in Nat /\ Len(todo) >= 1
      /\ Len(rest) \in Nat /\ Len(todo) = Len(rest) + 1
      /\ \A n \in 1 .. Len(rest) : rest[n] = todo[n + 1]
  <2>1. todo \in Seq(StepsOf)  BY DEF Stacked
  <2> QED  BY <1>1, <1>3, <2>1, TailOf
<1>5. /\ a \in Place /\ b \in Place /\ a \in Int /\ b \in Int /\ i \in Int /\ j \in Int
      /\ a <= j /\ j <= b /\ a < b /\ \A p \in Place : p \in Int /\ KeyAt(p) \in Int
  <2>1. a \in Place /\ b \in Place /\ a < b  BY <1>1, <1>3 DEF PartOf
  <2>2. a \in Int /\ b \in Int /\ i \in Int /\ j \in Int  BY <1>3, <2>1, Places
  <2>3. a <= j /\ j <= b  BY <1>3, <2>2
  <2>4. \A p \in Place : p \in Int /\ KeyAt(p) \in Int  BY <1>3, Places DEF KeyAt
  <2> QED  BY <2>1, <2>2, <2>3, <2>4
<1>6. /\ \A p \in Place : a <= p /\ p <= j => KeyAt(p) <= scan.pval
      /\ \A p \in Place : j < p /\ p <= b => scan.pval <= KeyAt(p)
  <2>1. /\ \A p \in Place : a <= p /\ p < i => KeyAt(p) <= scan.pval
        /\ \A p \in Place : j < p /\ p <= b => scan.pval <= KeyAt(p)
    BY <1>1, <1>2, TurnOf
  <2>2. \A p \in Place : p <= j => p < i \/ p = j  BY <1>2, <1>5
  <2> QED  BY <1>3, <2>1, <2>2
<1>7. Nested(rest)
  <2> SUFFICES ASSUME NEW x \in 1 .. Len(rest), NEW n \in 1 .. Len(rest), x < n
               PROVE  Above(rest[n], rest[x].i, rest[x].k)
    BY DEF Nested
  <2>1. x + 1 \in 1 .. Len(todo) /\ n + 1 \in 1 .. Len(todo) /\ x + 1 < n + 1  BY <1>4
  <2>2. rest[n] = todo[n + 1] /\ rest[x] = todo[x + 1]  BY <1>4
  <2> QED  BY <2>1, <2>2 DEF Stacked, Nested
<1>8. ASSUME NEW n \in 1 .. Len(rest)
      PROVE  Above(rest[n], a, j) /\ Above(rest[n], j + 1, b)
  <2>1. 1 \in 1 .. Len(todo) /\ n + 1 \in 1 .. Len(todo) /\ 1 < n + 1 /\ rest[n] = todo[n + 1]
    BY <1>4
  <2>2. Above(rest[n], a, b)  BY <1>1, <2>1 DEF Stacked, Nested
  <2>3. rest[n].op = "sort"
    <3>1. todo[n + 1] \in PartOf  BY <1>3, <2>1, ElementOfSeq
    <3> QED  BY <2>1, <3>1 DEF PartOf
  <2>4. rest[n] \in StepsOf /\ rest[n].i \in Int /\ b < rest[n].i
    BY <1>4, <2>2, <2>3, ElementOfSeq, Places DEF Above, StepsOf
  <2>5. j < rest[n].i  BY <1>5, <2>4
  <2> QED  BY <2>4, <2>5 DEF Above
<1>9. PICK d \in Nat : Pushed(t, rest, a, j, b, d)
  BY <1>1, <1>2, <1>4, <1>5, <1>7, <1>8, Pushing
<1>10. /\ t \in Seq(StepsOf) /\ Len(t) = d + Len(rest) /\ Nested(t)
       /\ \A n \in 1 .. d : t[n].op = "sort"
       /\ \A n \in 1 .. Len(rest) : t[n + d] = rest[n]
       /\ \A n \in 0 .. Len(rest), p, q \in Place :
             /\ p < q
             /\ (a <= p /\ q <= j) \/ (j < p /\ q <= b) \/ CoveredBy(rest, n, p, q)
             => CoveredBy(t, n + d, p, q)
  BY <1>9 DEF Pushed
<1>11. Halves(t)
  <2>1. todo' \in Seq(PartOf)
    <3>1. PICK calls : calls = SubSeq(todo', 1, Len(todo') - Len(todo) + 1)  OBVIOUS
    <3> QED  BY <3>1, SplitParts
  <2>2. \A n \in 1 .. Len(t) : t[n].op = "sort"  BY <1>1, <2>1, ElementOfSeq DEF PartOf
  <2> QED  BY <2>2 DEF Halves
<1>12. Covered(t)
  <2> SUFFICES ASSUME NEW p \in Place, NEW q \in Place, Inverted(p, q)
               PROVE  CoveredBy(t, Len(t), p, q)
    BY DEF Covered
  <2>1. p < q /\ KeyAt(p) > KeyAt(q)  BY DEF Inverted
  <2>2. PICK x \in 1 .. Len(todo) : Inside(todo[x], p, q)
    BY DEF Stacked, Covered, CoveredBy
  <2>3. (a <= p /\ q <= j) \/ (j < p /\ q <= b) \/ CoveredBy(rest, Len(rest), p, q)
    <3>1. CASE x = 1
      <4>1. a <= p /\ q <= b  BY <1>1, <2>2, <3>1 DEF Inside
      <4>2. ASSUME p <= j, j < q PROVE FALSE
        <5>1. KeyAt(p) <= scan.pval /\ scan.pval <= KeyAt(q)  BY <1>6, <4>1, <4>2
        <5>2. KeyAt(p) \in Int /\ KeyAt(q) \in Int /\ scan.pval \in Int  BY <1>3, <1>5
        <5> QED  BY <2>1, <5>1, <5>2
      <4> QED  BY <1>5, <4>1, <4>2
    <3>2. CASE x # 1
      <4>1. PICK y \in Int : y = x - 1  OBVIOUS
      <4>2. y \in 1 .. Len(rest) /\ x = y + 1  BY <1>4, <3>2, <4>1
      <4>3. Inside(rest[y], p, q)  BY <1>4, <2>2, <4>2
      <4> QED  BY <4>2, <4>3 DEF CoveredBy
    <3> QED  BY <3>1, <3>2
  <2>4. Len(rest) \in 0 .. Len(rest) /\ Len(t) = Len(rest) + d  BY <1>4, <1>10
  <2>5. CoveredBy(t, Len(rest) + d, p, q)  BY <1>10, <2>1, <2>3, <2>4
  <2> QED  BY <2>4, <2>5
<1> QED
  BY <1>1, <1>2, <1>10, <1>11, <1>12 DEF Stacked, Halves, Covered, Inverted, KeyAt

-----------------------------------------------------------------------------
(* All five.                                                               *)

Idle ==
    sort = "none" =>
        /\ retval = "ok" /\ step = 0 /\ todo = <<>> /\ scan = NoScan
        /\ key = [e \in Place |-> 0] /\ data = [p \in Place |-> p]

Dividing ==
    sort \in {"mgsort", "qksort"} =>
        /\ step = 0
        /\ IF retval = "failed" THEN todo = <<>> ELSE Stacked

\* scan is type correct.
ScanOK == scan \in [pval : Key \cup {-1}, i : -1 .. N, k : 0 .. N]

SortedInv ==
    /\ sort \in {"none", "issort", "mgsort", "qksort", "ctsort", "rxsort"}
    /\ retval \in {"", "ok", "failed"}
    /\ key \in [Place -> Key] /\ Permuted /\ ScanOK
    /\ Idle /\ Inserting /\ Counting /\ ByDigits /\ Dividing
    /\ QksortInv /\ Scanned

LEMMA NoScanOK == NoScan \in [pval : Key \cup {-1}, i : -1 .. N, k : 0 .. N]
<1>1. 0 \in -1 .. N /\ 0 \in 0 .. N  BY Places
<1> QED  BY <1>1 DEF NoScan

LEMMA FirstCall ==
    ASSUME todo' = CallFor(0, N - 1)
    PROVE  Stacked'
<1>1. N \in Nat /\ N > 0 /\ \A p \in Place : p \in Int /\ p >= 0 /\ p <= N - 1  BY Places
<1>2. PICK t : t = todo'  OBVIOUS
<1>3. CASE 0 < N - 1
  <2>1. PICK c : c = Part("sort", 0, N - 1)  OBVIOUS
  <2>2. t = <<c>>  BY <1>2, <1>3, <2>1 DEF CallFor
  <2>3. c \in StepsOf /\ c.op = "sort" /\ c.i = 0 /\ c.k = N - 1
    <3>1. 0 \in Place /\ N - 1 \in Place  BY <1>1, Places
    <3> QED  BY <1>3, <2>1, <3>1 DEF Part, StepsOf
  <2>4. t \in Seq(StepsOf) /\ Len(t) = 1 /\ t[1] = c  BY <2>2, <2>3
  <2>5. \A n \in 1 .. 1 : n = 1  OBVIOUS
  <2>6. 1 \in 1 .. 1 /\ ~(1 < 1)  OBVIOUS
  <2>7. Nested(t)  BY <2>4, <2>5, <2>6 DEF Nested
  <2>8. Halves(todo)'  BY <1>2, <2>3, <2>4, <2>5 DEF Halves
  <2>9. \A p, q \in Place : Inside(t[1], p, q)  BY <1>1, <2>3, <2>4 DEF Inside
  <2>10. Covered(todo)'  BY <1>2, <2>4, <2>6, <2>9 DEF Covered, CoveredBy
  <2> QED  BY <1>2, <2>4, <2>7, <2>8, <2>10 DEF Stacked
<1>4. CASE ~(0 < N - 1)
  <2>1. t = <<>>  BY <1>2, <1>4 DEF CallFor
  <2>2. t \in Seq(StepsOf) /\ Len(t) = 0  BY <2>1
  <2>3. \A n \in 1 .. 0 : FALSE  OBVIOUS
  <2>4. Nested(t)  BY <2>2, <2>3 DEF Nested
  <2>5. Halves(todo)'  BY <1>2, <2>2, <2>3 DEF Halves
  <2>6. \A p, q \in Place : ~(p < q)  BY <1>1, <1>4
  <2>7. Covered(todo)'
    <3> SUFFICES ASSUME NEW p \in Place, NEW q \in Place, Inverted(p, q)' PROVE FALSE
      BY DEF Covered
    <3>1. p < q  BY DEF Inverted
    <3> QED  BY <2>6, <3>1
  <2> QED  BY <1>2, <2>2, <2>4, <2>5, <2>7 DEF Stacked
<1> QED  BY <1>3, <1>4

LEMMA InitSorted == SortInit => SortedInv
<1> SUFFICES ASSUME SortInit PROVE SortedInv  OBVIOUS
<1>1. key \in [Place -> Key]  BY KeysAre DEF SortInit
<1>2. Permuted  BY DEF SortInit, Permuted
<1>3. ScanOK  BY NoScanOK DEF SortInit, ScanOK
<1>4. Idle /\ Inserting /\ Counting /\ ByDigits /\ Dividing
  BY DEF SortInit, Idle, Inserting, Counting, ByDigits, Dividing
<1>5. QksortInv /\ Scanned  BY InitQksort DEF SortInit, Scanned
<1> QED  BY <1>1, <1>2, <1>3, <1>4, <1>5 DEF SortInit, SortedInv

LEMMA BeginSorted ==
    ASSUME SortedInv, NEW function \in {"issort", "mgsort", "qksort", "ctsort", "rxsort"},
           Begin(function), QksortInv'
    PROVE  SortedInv'
<1>1. /\ sort' = function /\ retval' = "" /\ scan' = NoScan
      /\ key' \in [Place -> Key] /\ data' = [p \in Place |-> p]
      /\ step' = IF function = "issort" THEN 1 ELSE 0
      /\ todo' = IF function \in {"mgsort", "qksort"} THEN CallFor(0, N - 1) ELSE <<>>
  BY DEF Begin
<1>2. N \in Nat /\ N > 0 /\ \A p \in Place : p \in Int /\ p >= 0 /\ p <= N - 1  BY Places
<1>3. Permuted'  BY <1>1 DEF Permuted
<1>4. ScanOK'  BY <1>1, NoScanOK DEF ScanOK
<1>5. Inserting'
  <2>1. Ranked(key, 1)'
    <3>1. \A p, q \in Place : ~(p < q /\ q < 1)  BY <1>2
    <3> QED  BY <3>1 DEF Ranked
  <2>2. ASSUME function = "issort" PROVE step' \in 1 .. N /\ step' = 1 /\ todo' = <<>>
    <3>1. 1 \in 1 .. N  BY <1>2
    <3>2. step' = 1  BY <1>1, <2>2
    <3>3. todo' = <<>>  BY <1>1, <2>2
    <3> QED  BY <3>1, <3>2, <3>3
  <2>3. ASSUME function = "issort", NEW p \in Place
        PROVE  IF p < step' THEN data'[p] < step' ELSE data'[p] = p
    BY <1>1, <2>2, <2>3
  <2> QED  BY <1>1, <2>1, <2>2, <2>3 DEF Inserting, Ranked
<1>6. Counting'  BY <1>1 DEF Counting
<1>7. ByDigits'
  <2>1. 0 \in 0 .. Digits /\ Power[0] = 1  BY SortsAssumption, Powers
  <2>2. \A e \in Place : key'[e] \in Nat  BY <1>1, KeysAre
  <2>3. \A e \in Place : key'[e] % 1 = 0  BY <2>2
  <2>4. \A e \in Place : (LowDigits(0))'[e] = 0  BY <2>1, <2>3 DEF LowDigits
  <2>5. Ranked(LowDigits(0), N)'  BY <1>1, <2>4 DEF Ranked
  <2>6. function = "rxsort" => step' = 0 /\ todo' = <<>>  BY <1>1
  <2>7. function = "rxsort" => step' \in 0 .. Digits /\ scan' = NoScan /\ todo' = <<>>
    BY <1>1, <2>1, <2>6
  <2>8. function = "rxsort" => Ranked(LowDigits(step), N)'
    BY <2>5, <2>6 DEF LowDigits, Ranked
  <2>9. sort' = function  BY <1>1
  <2> QED  BY <2>7, <2>8, <2>9, Zenon DEF ByDigits
<1>8. Dividing'
  <2>1. function \in {"mgsort", "qksort"} => todo' = CallFor(0, N - 1)  BY <1>1
  <2>2. function \in {"mgsort", "qksort"} => Stacked'  BY <2>1, FirstCall
  <2>3. function \in {"mgsort", "qksort"} => step' = 0  BY <1>1
  <2> QED  BY <1>1, <2>2, <2>3 DEF Dividing
<1>9. Scanned' /\ Idle'  BY <1>1 DEF Scanned, Idle
<1> QED  BY <1>1, <1>3, <1>4, <1>5, <1>6, <1>7, <1>8, <1>9 DEF SortedInv

LEMMA ScanStays ==
    ASSUME SortedInv, Pivot \/ Swap
    PROVE  ScanOK'
<1>1. /\ scan \in [pval : Key \cup {-1}, i : -1 .. N, k : 0 .. N]
      /\ QksortInv /\ key \in [Place -> Key] /\ data \in [Place -> Place]
  BY DEF SortedInv, ScanOK, Permuted
<1>2. CASE Pivot
  <2>1. PICK r \in todo[1].i .. todo[1].k :
           scan' = [pval |-> KeyAt(r), i |-> todo[1].i - 1, k |-> todo[1].k + 1]
    BY <1>2 DEF Pivot
  <2>2. todo \in Seq(PartOf) /\ todo # <<>>  BY <1>1, <1>2 DEF Pivot, Runs, QksortInv
  <2>3. todo[1].i \in Place /\ todo[1].k \in Place
    <3>1. todo[1] \in PartOf  BY <2>2, FirstOf
    <3> QED  BY <3>1 DEF PartOf
  <2>4. PICK a \in Int, b \in Int : a = todo[1].i /\ b = todo[1].k  BY <2>3, Places
  <2>5. /\ a >= 0 /\ a <= N - 1 /\ b >= 0 /\ b <= N - 1 /\ N \in Nat
        /\ r \in Int /\ a <= r /\ r <= b
    BY <2>3, <2>4, Places
  <2>6. r \in Place  BY <2>5, Places
  <2>7. KeyAt(r) \in Key  BY <1>1, <2>6 DEF KeyAt
  <2>8. a - 1 \in -1 .. N /\ b + 1 \in 0 .. N  BY <2>5
  <2> QED  BY <2>1, <2>4, <2>7, <2>8 DEF ScanOK
<1>3. CASE Swap
  <2>1. PICK i, k : i = Leftmost(StopsUp) /\ k = Rightmost(StopsDown)  OBVIOUS
  <2>2. scan # NoScan /\ scan' = [scan EXCEPT !.i = i, !.k = k]  BY <1>3, <2>1 DEF Swap
  <2>3. i \in Place /\ k \in Place  BY <1>1, <2>1, <2>2, Stops
  <2>4. i \in -1 .. N /\ k \in 0 .. N  BY <2>3, Places
  <2> QED  BY <1>1, <2>2, <2>4 DEF ScanOK
<1> QED  BY <1>2, <1>3

LEMMA DigitsStay ==
    ASSUME ByDigits, sort' = sort, key' = key, data' = data, step' = step, scan' = scan,
           todo' = todo \/ todo' = <<>>
    PROVE  ByDigits'
<1> SUFFICES ASSUME sort = "rxsort"
             PROVE  /\ step \in 0 .. Digits /\ scan = NoScan /\ todo' = <<>>
                    /\ Ranked(LowDigits(step), N)'
  BY DEF ByDigits
<1>1. step \in 0 .. Digits /\ scan = NoScan /\ todo = <<>> /\ Ranked(LowDigits(step), N)
  BY DEF ByDigits
<1>2. LowDigits(step)' = LowDigits(step)  BY DEF LowDigits
<1>3. Ranked(LowDigits(step), N)'  BY <1>1, <1>2 DEF Ranked
<1> QED  BY <1>1, <1>3

LEMMA StepSorted == SortedInv /\ [SortNext]_sorting => SortedInv'
<1> SUFFICES ASSUME SortedInv, [SortNext]_sorting PROVE SortedInv'  OBVIOUS
<1>1. /\ QksortInv /\ QksortInv' /\ Permuted /\ Scanned /\ Dividing
      /\ Inserting /\ Counting /\ ByDigits /\ ScanOK /\ Idle
      /\ sort \in {"none", "issort", "mgsort", "qksort", "ctsort", "rxsort"}
      /\ retval \in {"", "ok", "failed"} /\ key \in [Place -> Key]
  BY StepQksort DEF SortedInv
<1>2. key \in [Place -> Nat]  BY <1>1, KeysAre
<1>3. ASSUME NEW function \in {"issort", "mgsort", "qksort", "ctsort", "rxsort"},
             Begin(function)
      PROVE  SortedInv'
  BY <1>1, <1>3, BeginSorted
<1>4. CASE InsertNext
  <2>1. Permuted' /\ Inserting'  BY <1>1, <1>2, <1>4, Inserts
  <2>2. /\ sort' = "issort" /\ retval' = retval /\ key' = key /\ scan' = scan /\ scan = NoScan
    BY <1>1, <1>4 DEF InsertNext, Runs, Inserting
  <2>3. ScanOK' /\ Idle' /\ Counting' /\ ByDigits' /\ Dividing' /\ Scanned'
    BY <1>1, <2>2 DEF ScanOK, Idle, Counting, ByDigits, Dividing, Scanned
  <2> QED  BY <1>1, <2>1, <2>2, <2>3 DEF SortedInv
<1>5. CASE CountKeys
  <2>1. Permuted' /\ Counting'  BY <1>1, <1>2, <1>5, CountsKeys
  <2>2. /\ sort' = "ctsort" /\ retval' = retval /\ key' = key /\ scan' = scan /\ scan = NoScan
    BY <1>1, <1>5 DEF CountKeys, Runs, Counting
  <2>3. ScanOK' /\ Idle' /\ Inserting' /\ ByDigits' /\ Dividing' /\ Scanned'
    BY <1>1, <2>2 DEF ScanOK, Idle, Inserting, ByDigits, Dividing, Scanned
  <2> QED  BY <1>1, <2>1, <2>2, <2>3 DEF SortedInv
<1>6. CASE CountDigit
  <2>1. Permuted' /\ ByDigits'  BY <1>1, <1>2, <1>6, CountsDigit
  <2>2. /\ sort' = "rxsort" /\ retval' = retval /\ key' = key /\ scan' = scan /\ scan = NoScan
    BY <1>1, <1>6 DEF CountDigit, Runs, ByDigits
  <2>3. ScanOK' /\ Idle' /\ Inserting' /\ Counting' /\ Dividing' /\ Scanned'
    BY <1>1, <2>2 DEF ScanOK, Idle, Inserting, Counting, Dividing, Scanned
  <2> QED  BY <1>1, <2>1, <2>2, <2>3 DEF SortedInv
<1>7. ASSUME sort' = sort, sort \in {"mgsort", "qksort"}, retval' = retval, key' = key,
             step' = step, retval = "", Stacked', Permuted', ScanOK', Scanned'
      PROVE  SortedInv'
  <2>1. step = 0  BY <1>1, <1>7 DEF Dividing
  <2>2. Idle' /\ Inserting' /\ Counting' /\ ByDigits' /\ Dividing'
    BY <1>7, <2>1 DEF Idle, Inserting, Counting, ByDigits, Dividing
  <2> QED  BY <1>1, <1>7, <2>2 DEF SortedInv
<1>8. CASE Halve \/ Merge
  <2>1. /\ sort = "mgsort" /\ retval = "" /\ sort' = sort /\ retval' = retval /\ key' = key
        /\ step' = step /\ scan' = scan
    BY <1>8 DEF Halve, Merge, Runs
  <2>2. Stacked /\ scan = NoScan  BY <1>1, <2>1 DEF Dividing, QksortInv
  <2>3. Stacked' /\ Permuted'
    <3>1. CASE Halve
      <4>1. data' = data  BY <3>1 DEF Halve
      <4> QED  BY <1>1, <2>2, <3>1, <4>1, HalveStays DEF Permuted
    <3>2. CASE Merge  BY <1>1, <1>2, <2>2, <3>2, MergeStays
    <3> QED  BY <1>8, <3>1, <3>2
  <2>4. ScanOK' /\ Scanned'  BY <1>1, <2>1, <2>2 DEF ScanOK, Scanned
  <2> QED  BY <1>7, <2>1, <2>3, <2>4
<1>9. CASE Pivot \/ Swap \/ Split
  <2>1. /\ sort = "qksort" /\ retval = "" /\ sort' = sort /\ retval' = retval /\ key' = key
        /\ step' = step
    BY <1>9 DEF Pivot, Swap, Split, Runs
  <2>2. Stacked  BY <1>1, <2>1 DEF Dividing
  <2>3. CASE Pivot
    <3>1. Scanned' /\ ScanOK'  BY <1>1, <2>3, PivotScans, ScanStays
    <3>2. data' = data /\ todo' = todo  BY <2>3 DEF Pivot
    <3>3. Stacked' /\ Permuted'
      BY <1>1, <2>1, <2>2, <3>2 DEF Stacked, Permuted, Nested, Halves, Covered, Inverted, KeyAt
    <3> QED  BY <1>7, <2>1, <3>1, <3>3
  <2>4. CASE Swap
    <3>1. Stacked' /\ Scanned' /\ Permuted'  BY <1>1, <2>2, <2>4, SwapStacks
    <3>2. ScanOK'  BY <2>4, ScanStays
    <3> QED  BY <1>7, <2>1, <3>1, <3>2
  <2>5. CASE Split
    <3>1. Stacked'  BY <1>1, <2>2, <2>5, SplitStacks
    <3>2. data' = data /\ scan' = NoScan  BY <2>5 DEF Split
    <3>3. Permuted' /\ Scanned' /\ ScanOK'
      BY <1>1, <3>2, NoScanOK DEF Permuted, Scanned, ScanOK
    <3> QED  BY <1>7, <2>1, <3>1, <3>3
  <2> QED  BY <1>9, <2>3, <2>4, <2>5
<1>10. CASE MallocFails
  <2>1. /\ retval = "" /\ retval' = "failed" /\ todo' = <<>> /\ sort' = sort /\ key' = key
        /\ data' = data /\ step' = step /\ scan' = scan
    BY <1>10 DEF MallocFails
  <2>2. scan = NoScan  BY <1>1, <1>10 DEF MallocFails, QksortInv
  <2>3. sort # "none"  BY <1>1, <2>1 DEF Idle
  <2>4. Permuted' /\ ScanOK' /\ Scanned' /\ Idle'
    BY <1>1, <2>1, <2>2, <2>3 DEF Permuted, ScanOK, Scanned, Idle
  <2>5. Inserting' /\ Counting' /\ ByDigits'
    <3>1. Inserting'  BY <1>1, <2>1 DEF Inserting, Ranked
    <3>2. Counting'  BY <1>1, <2>1 DEF Counting, Ranked
    <3>3. ByDigits'  BY <1>1, <2>1, DigitsStay
    <3> QED  BY <3>1, <3>2, <3>3
  <2>6. Dividing'  BY <1>1, <2>1 DEF Dividing
  <2> QED  BY <1>1, <2>1, <2>4, <2>5, <2>6 DEF SortedInv
<1>11. CASE SortReturns \/ UNCHANGED sorting
  <2>1. /\ todo' = todo /\ sort' = sort /\ key' = key /\ data' = data /\ step' = step
        /\ scan' = scan
        /\ retval' = retval \/ (retval = "" /\ retval' = "ok")
    BY <1>11 DEF SortReturns, sorting
  <2>2. Permuted' /\ ScanOK' /\ Scanned'
    BY <1>1, <2>1 DEF Permuted, ScanOK, Scanned, KeyAt
  <2>3. Idle'  BY <1>1, <2>1 DEF Idle
  <2>4. Inserting' /\ Counting' /\ ByDigits'
    <3>1. Inserting'  BY <1>1, <2>1 DEF Inserting, Ranked
    <3>2. Counting'  BY <1>1, <2>1 DEF Counting, Ranked
    <3>3. ByDigits'  BY <1>1, <2>1, DigitsStay
    <3> QED  BY <3>1, <3>2, <3>3
  <2>5. Stacked => Stacked'
    BY <2>1 DEF Stacked, Nested, Halves, Covered, Inverted, KeyAt
  <2>6. Dividing'  BY <1>1, <2>1, <2>5 DEF Dividing
  <2>7. retval' \in {"", "ok", "failed"}  BY <1>1, <2>1
  <2> QED  BY <1>1, <2>1, <2>2, <2>3, <2>4, <2>6, <2>7 DEF SortedInv
<1>12. CASE Read
  <2>1. /\ sort' = "none" /\ retval' = "ok" /\ step' = 0 /\ todo' = <<>> /\ scan' = NoScan
        /\ key' = [e \in Place |-> 0] /\ data' = [p \in Place |-> p]
    BY <1>12 DEF Read
  <2>2. key' \in [Place -> Key]  BY <2>1, KeysAre
  <2>3. Permuted' /\ ScanOK' /\ Scanned' /\ Idle'
    BY <2>1, NoScanOK DEF Permuted, ScanOK, Scanned, Idle
  <2>4. Inserting' /\ Counting' /\ ByDigits' /\ Dividing'
    BY <2>1 DEF Inserting, Counting, ByDigits, Dividing
  <2> QED  BY <1>1, <2>1, <2>2, <2>3, <2>4 DEF SortedInv
<1> QED
  BY <1>3, <1>4, <1>5, <1>6, <1>8, <1>9, <1>10, <1>11, <1>12 DEF SortNext

LEMMA TypesFollow == SortedInv => SortTypeOK
<1> SUFFICES ASSUME SortedInv PROVE SortTypeOK  OBVIOUS
<1> DEFINE Things == [op : {"sort", "merge"}, i : Place, k : Place]
<1>1. /\ sort \in {"none", "issort", "mgsort", "qksort", "ctsort", "rxsort"}
      /\ retval \in {"", "ok", "failed"} /\ key \in [Place -> Key]
      /\ data \in [Place -> Place] /\ scan \in [pval : Key \cup {-1}, i : -1 .. N, k : 0 .. N]
      /\ Idle /\ Inserting /\ Counting /\ ByDigits /\ Dividing
  BY DEF SortedInv, Permuted, ScanOK
<1>2. step \in Nat
  <2>1. N \in Nat /\ Digits \in Nat  BY SortsAssumption
  <2>2. CASE sort = "issort"
    <3>1. step \in 1 .. N  BY <1>1, <2>2, Zenon DEF Inserting
    <3> QED  BY <2>1, <3>1
  <2>3. CASE sort = "rxsort"
    <3>1. step \in 0 .. Digits  BY <1>1, <2>3, Zenon DEF ByDigits
    <3> QED  BY <2>1, <3>1
  <2>4. CASE sort = "ctsort"
    <3>1. step \in {0, 1}  BY <1>1, <2>4, Zenon DEF Counting
    <3> QED  BY <3>1
  <2>5. CASE sort \in {"none", "mgsort", "qksort"}
    <3>1. step = 0  BY <1>1, <2>5, Zenon DEF Idle, Dividing
    <3> QED  BY <3>1
  <2> QED  BY <1>1, <2>2, <2>3, <2>4, <2>5
<1>3. todo \in Seq(Things)
  <2>1. CASE todo = <<>>  BY <2>1
  <2>2. CASE todo # <<>>
    <3>1. sort \in {"mgsort", "qksort"}
      BY <1>1, <2>2 DEF Idle, Inserting, Counting, ByDigits
    <3>2. todo \in Seq(StepsOf)  BY <1>1, <2>2, <3>1 DEF Dividing, Stacked
    <3>3. StepsOf \in SUBSET Things  BY DEF StepsOf
    <3> HIDE DEF Things
    <3> QED  BY <3>2, <3>3, SeqMonotonic
  <2> QED  BY <2>1, <2>2
<1> QED  BY <1>1, <1>2, <1>3 DEF SortTypeOK

LEMMA OrderFollows ==
    ASSUME SortedInv, retval # "failed", NEW p \in Place, NEW q \in Place, p < q
    PROVE  /\ Rank(data[p]) > Rank(data[q]) => Pending(p, q)
           /\ sort \in {"issort", "ctsort", "rxsort"} /\ Rank(data[p]) = Rank(data[q]) =>
                 data[p] < data[q]
<1>1. /\ sort \in {"none", "issort", "mgsort", "qksort", "ctsort", "rxsort"}
      /\ key \in [Place -> Key] /\ data \in [Place -> Place]
      /\ Idle /\ Inserting /\ Counting /\ ByDigits /\ Dividing
  BY DEF SortedInv, Permuted
<1>2. PICK d \in Place, e \in Place : d = data[p] /\ e = data[q]  BY <1>1
<1>3. /\ N \in Nat /\ p \in Int /\ q \in Int /\ d \in Int /\ e \in Int /\ q < N
      /\ key[d] \in Nat /\ key[e] \in Nat
  BY <1>1, KeysAre, Places
<1>4. CASE sort = "none"
  <2>1. key[d] = 0 /\ key[e] = 0  BY <1>1, <1>4 DEF Idle
  <2> QED  BY <1>2, <1>4, <2>1 DEF Rank
<1>5. CASE sort = "issort"
  <2>1. Rank(d) = key[d] /\ Rank(e) = key[e]  BY <1>5 DEF Rank
  <2>2. step \in 1 .. N /\ \A r \in Place : IF r < step THEN data[r] < step ELSE data[r] = r
    BY <1>1, <1>5 DEF Inserting
  <2>3. CASE q >= step
    <3>1. Pending(p, q)  BY <1>5, <2>3 DEF Pending
    <3>2. ~(q < step) /\ step \in Int  BY <1>3, <2>2, <2>3
    <3>3. e = q  BY <1>2, <2>2, <3>2
    <3>4. d < step \/ d = p  BY <1>2, <2>2
    <3>5. d < e  BY <1>3, <2>3, <3>2, <3>3, <3>4
    <3> QED  BY <1>2, <3>1, <3>5
  <2>4. CASE q < step
    <3>1. Ranked(key, step)  BY <1>1, <1>5 DEF Inserting
    <3>2. key[d] < key[e] \/ (key[d] = key[e] /\ d < e)  BY <1>2, <2>4, <3>1 DEF Ranked
    <3> QED  BY <1>2, <1>3, <2>1, <3>2
  <2> QED  BY <1>3, <2>2, <2>3, <2>4
<1>6. CASE sort = "ctsort"
  <2>1. Rank(d) = key[d] /\ Rank(e) = key[e]  BY <1>6 DEF Rank
  <2>2. /\ step \in {0, 1}
        /\ IF step = 0 THEN \A r \in Place : data[r] = r ELSE Ranked(key, N)
    BY <1>1, <1>6 DEF Counting
  <2>3. CASE step = 0
    <3>1. Pending(p, q)  BY <1>6, <2>3 DEF Pending
    <3>2. d < e  BY <1>2, <2>2, <2>3
    <3> QED  BY <1>2, <3>1, <3>2
  <2>4. CASE step # 0
    <3>1. key[d] < key[e] \/ (key[d] = key[e] /\ d < e)
      BY <1>2, <1>3, <2>2, <2>4 DEF Ranked
    <3> QED  BY <1>2, <1>3, <2>1, <3>1
  <2> QED  BY <2>3, <2>4
<1>7. CASE sort = "rxsort"
  <2>1. step \in 0 .. Digits /\ Ranked(LowDigits(step), N)  BY <1>1, <1>7 DEF ByDigits
  <2>2. Rank(d) = key[d] % Power[step] /\ Rank(e) = key[e] % Power[step]
    BY <1>7 DEF Rank
  <2>3. \/ key[d] % Power[step] < key[e] % Power[step]
        \/ key[d] % Power[step] = key[e] % Power[step] /\ d < e
    BY <1>2, <1>3, <2>1 DEF Ranked, LowDigits
  <2>4. PICK u \in Int, v \in Int : u = Rank(d) /\ v = Rank(e)
    <3>1. Power[step] \in Nat /\ Power[step] > 0  BY <2>1, Powers
    <3>2. key[d] % Power[step] \in Int /\ key[e] % Power[step] \in Int  BY <1>3, <3>1
    <3> QED  BY <2>2, <3>2
  <2>5. u < v \/ (u = v /\ d < e)  BY <2>2, <2>3, <2>4
  <2> QED  BY <1>2, <2>4, <2>5
<1>8. CASE sort \in {"mgsort", "qksort"}
  <2>1. Stacked  BY <1>1, <1>8 DEF Dividing
  <2>2. Rank(d) = key[d] /\ Rank(e) = key[e]  BY <1>8 DEF Rank
  <2>3. ASSUME Rank(d) > Rank(e) PROVE Pending(p, q)
    <3>1. Inverted(p, q)  BY <1>2, <2>2, <2>3 DEF Inverted, KeyAt
    <3>2. PICK n \in 1 .. Len(todo) : Inside(todo[n], p, q)
      BY <2>1, <3>1 DEF Stacked, Covered, CoveredBy
    <3>3. n \in DOMAIN todo  BY <2>1, LenProperties DEF Stacked
    <3>4. todo[n].i \in Int /\ todo[n].i <= p /\ q <= todo[n].k
      BY <2>1, <3>2, ElementOfSeq, Places DEF Stacked, StepsOf, Inside
    <3>5. p >= todo[n].i  BY <1>3, <3>4
    <3> QED  BY <3>3, <3>4, <3>5 DEF Pending
  <2> QED  BY <1>2, <1>8, <2>3
<1> QED  BY <1>1, <1>4, <1>5, <1>6, <1>7, <1>8

\* On an array of any length, with keys of any number of digits, no sort loses
\* or doubles an element, and at any time of its run elements stand in the wrong
\* order only where it has still something to do: qksort in one of the calls that
\* are left, mgsort in a half it has not merged, issort behind j, and rxsort in the
\* digits it has not looked at; issort, ctsort and rxsort leave equal elements in
\* the order they had.  So what is there when a sort returns is in order.
THEOREM Sorting == SortSpec => []SortedSoFar
<1>1. SortedInv => SortedSoFar
  <2> SUFFICES ASSUME SortedInv PROVE SortedSoFar  OBVIOUS
  <2>1. SortTypeOK /\ \A p, q \in Place : data[p] = data[q] => p = q
    BY TypesFollow DEF SortedInv, Permuted
  <2> QED  BY <2>1, OrderFollows DEF SortedSoFar
<1> QED  BY <1>1, InitSorted, StepSorted, PTL DEF SortSpec
=============================================================================
