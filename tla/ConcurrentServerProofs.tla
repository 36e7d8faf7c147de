------------------------ MODULE ConcurrentServerProofs ------------------------
(***************************************************************************)
(* Proofs about the single-threaded server: responses leave in order of    *)
(* receipt, only a handler that waits holds them back, and the handlers    *)
(* that wait share the answers of the client, for any number of documents  *)
(* and messages.                                                           *)
(***************************************************************************)
EXTENDS ConcurrentServer, SequenceTheorems, FiniteSetTheorems, WellFoundedInduction, TLAPS

-----------------------------------------------------------------------------
(* Sorting a finite set of numbers.  The induction on the bound of the     *)
(* numbers is an argument about the least bound for which it fails.        *)

\* A set of natural numbers that is not empty has a least element.
LEMMA LeastNumber ==
    ASSUME NEW T, T \subseteq Nat, T # {}
    PROVE  \E x \in T : \A y \in T : x <= y
<1>1. PICK x \in T : \A y \in T : ~(<<y, x>> \in OpToRel(<, Nat))
  BY NatLessThanWellFounded, WFMin
<1>2. \A y \in T : ~(y < x)
  BY <1>1 DEF OpToRel
<1> QED
  BY <1>2

Ascending(s) == \A i, j \in DOMAIN s : i < j => s[i] < s[j]

\* The sequences that enumerate a set of numbers in order.
SortedSeqs(S) == {s \in [1 .. Cardinality(S) -> S] : Ascending(s)}

Below(S, n) == {k \in S : k < n}

\* A finite set of natural numbers can be enumerated in order.
LEMMA SortedSeqExists ==
    ASSUME NEW S, NEW n \in Nat, \A k \in S : k \in Nat /\ k < n
    PROVE  SortedSeqs(S) # {}
<1> DEFINE T == {m \in Nat : SortedSeqs(Below(S, m)) = {}}
<1>a. T \subseteq Nat /\ \A m \in Nat : m \in T <=> SortedSeqs(Below(S, m)) = {}
  OBVIOUS
<1> HIDE DEF T
<1>0. \A m \in Nat : IsFiniteSet(Below(S, m)) /\ Cardinality(Below(S, m)) \in Nat
  <2> SUFFICES ASSUME NEW m \in Nat PROVE IsFiniteSet(Below(S, m))
    BY FS_CardinalityType
  <2>1. Below(S, m) \in SUBSET Nat /\ \A k \in Below(S, m) : k <= m
    BY DEF Below
  <2> QED
    BY <2>1, FS_BoundedSetOfNaturals
<1>1. T = {}
  <2> SUFFICES ASSUME T # {} PROVE FALSE
    OBVIOUS
  <2>1. PICK m \in T : \A y \in T : m <= y
    BY LeastNumber, <1>a
  <2>m. m \in Nat /\ SortedSeqs(Below(S, m)) = {}
    BY <1>a
  <2>2. m # 0
    <3>1. Below(S, 0) = {}
      BY DEF Below
    <3>2. << >> \in SortedSeqs({})
      <4>1. Cardinality({}) = 0
        BY FS_EmptySet
      <4> QED
        BY <4>1 DEF SortedSeqs, Ascending
    <3> QED
      BY <3>1, <3>2, <2>m
  <2> DEFINE p == m - 1
             B == Below(S, p)
             c == Cardinality(B)
  <2>3. p \in Nat /\ p \notin T
    BY <2>1, <2>2, <2>m
  <2>4. PICK s \in [1 .. c -> B] : Ascending(s)
    BY <2>3, <1>a DEF SortedSeqs
  <2> HIDE DEF p
  <2>p. m = p + 1
    BY <2>m DEF p
  <2>5. CASE p \notin S
    <3>1. Below(S, m) = B
      BY <2>5, <2>3, <2>p DEF Below
    <3> QED
      BY <3>1, <2>m, <2>3, <1>a
  <2>6. CASE p \in S
    <3>a. p \notin B
      BY <2>3 DEF Below
    <3>b. \A k \in S : k < m <=> k < p \/ k = p
      BY <2>3, <2>p
    <3>1. Below(S, m) = B \cup {p} /\ p \notin B
      BY <3>a, <3>b, <2>6 DEF Below
    <3>2. c \in Nat /\ Cardinality(B \cup {p}) = c + 1
      BY <3>1, <2>3, <1>0, FS_AddElement
    <3> DEFINE t == [i \in 1 .. c + 1 |-> IF i = c + 1 THEN p ELSE s[i]]
    <3>3. t \in [1 .. c + 1 -> B \cup {p}]
      BY <3>2
    <3>4. \A i \in 1 .. c : s[i] \in Nat /\ s[i] < p
      BY DEF Below
    <3>5. Ascending(t)
      <4>1. t[c + 1] = p /\ \A i \in 1 .. c : t[i] = s[i]
        BY <3>2
      <4>2. DOMAIN t = 1 .. c + 1 /\ DOMAIN s = 1 .. c
        OBVIOUS
      <4> HIDE DEF t, c
      <4>3. ASSUME NEW i \in 1 .. c + 1, NEW j \in 1 .. c + 1, i < j PROVE t[i] < t[j]
        <5>1. i \in 1 .. c
          BY <3>2, <4>3
        <5>2. CASE j = c + 1
          BY <3>4, <4>1, <5>1, <5>2
        <5>3. CASE j \in 1 .. c
          BY <2>4, <4>1, <4>2, <4>3, <5>1, <5>3 DEF Ascending
        <5> QED BY <3>2, <5>2, <5>3
      <4> QED BY <4>2, <4>3 DEF Ascending
    <3>6. t \in SortedSeqs(Below(S, m))
      BY <3>1, <3>2, <3>3, <3>5 DEF SortedSeqs
    <3> QED
      BY <3>6, <2>m
  <2> QED
    BY <2>5, <2>6
<1>2. Below(S, n) = S
  BY DEF Below
<1> QED
  BY <1>a, <1>1, <1>2

-----------------------------------------------------------------------------
(* The order of responses                                                  *)

IdsOf(s) == {e.id : e \in s.pendingMessages}

\* The messages that need no turn any more: their turn has passed, or they have
\* an entry in the heap.
Done(s) == {k \in Nat : k < s.pendingSendId} \cup IdsOf(s)

\* What the sender keeps between two messages, the numbers being below N: what
\* was sent is in order and below the number whose turn it is, what is kept is not.
SenderType(s, N) ==
    s \in [outgoing : Seq(Nat), pendingSendId : 0 .. N, pendingMessages : SUBSET Pending]
InTurn(s, N) ==
    /\ SenderType(s, N)
    /\ Ascending(s.outgoing)
    /\ \A i \in DOMAIN s.outgoing : s.outgoing[i] < s.pendingSendId
    /\ \A e \in s.pendingMessages : s.pendingSendId <= e.id /\ e.id < N

\* Nothing that is kept could be sent.
Settled(s) == s.pendingSendId \notin IdsOf(s)

\* Texts gives the numbers of the messages among the entries in order.
LEMMA TextsAreSorted ==
    ASSUME NEW E, NEW N \in Nat, \A e \in E : e.id \in Nat /\ e.id < N
    PROVE  /\ Texts(E) \in Seq(Nat)
           /\ Ascending(Texts(E))
           /\ \A i \in DOMAIN Texts(E) : \E e \in E : Texts(E)[i] = e.id
<1> DEFINE ids == {e.id : e \in {e \in E : e.text}}
<1>1. \A k \in ids : k \in Nat /\ k < N /\ \E e \in E : k = e.id
  OBVIOUS
<1>2. Texts(E) = CHOOSE s \in [1 .. Cardinality(ids) -> ids] :
                     \A i, j \in DOMAIN s : i < j => s[i] < s[j]
  BY DEF Texts
<1> HIDE DEF ids
<1>3. SortedSeqs(ids) # {}
  BY <1>1, SortedSeqExists
<1>4. Texts(E) \in [1 .. Cardinality(ids) -> ids] /\ Ascending(Texts(E))
  BY <1>2, <1>3 DEF SortedSeqs, Ascending
<1>5. Cardinality(ids) \in Nat
  <2>1. ids \in SUBSET Nat /\ \A k \in ids : k <= N
    BY <1>1
  <2> QED
    BY <2>1, FS_BoundedSetOfNaturals, FS_CardinalityType
<1>6. Texts(E) \in [1 .. Cardinality(ids) -> Nat]
  BY <1>1, <1>4
<1>7. Texts(E) \in Seq(Nat)
  BY <1>5, <1>6
<1> QED
  BY <1>1, <1>4, <1>7

\* There is a first number from P on that is not among finitely many.
LEMMA FirstMissing ==
    ASSUME NEW ids, NEW P \in Nat, IsFiniteSet(ids)
    PROVE  \E n \in P .. P + Cardinality(ids) : n \notin ids /\ \A k \in P .. n - 1 : k \in ids
<1> DEFINE c == Cardinality(ids)
           T == (P .. P + c) \ ids
<1>1. c \in Nat
  BY FS_CardinalityType
<1>2. IsFiniteSet(P .. P + c) /\ Cardinality(P .. P + c) = c + 1
  BY <1>1, FS_Interval
<1>3. T # {}
  <2> SUFFICES ASSUME P .. P + c \subseteq ids PROVE FALSE
    OBVIOUS
  <2>1. Cardinality(P .. P + c) <= c
    BY FS_Subset
  <2> QED
    BY <1>1, <1>2, <2>1
<1>4. PICK n \in T : \A y \in T : n <= y
  <2>1. T \subseteq Nat
    BY <1>1
  <2> QED
    BY <2>1, <1>3, LeastNumber
<1>5. \A k \in P .. n - 1 : k \in ids
  BY <1>1, <1>4
<1> QED
  BY <1>4, <1>5

\* Sequences in order can be joined when all of the first is below the second.
LEMMA AscendingConcat ==
    ASSUME NEW s \in Seq(Nat), NEW t \in Seq(Nat), NEW P \in Nat, Ascending(s), Ascending(t),
           \A i \in DOMAIN s : s[i] < P,
           \A i \in DOMAIN t : P <= t[i]
    PROVE  Ascending(s \o t)
<1>1. /\ s \o t \in Seq(Nat)
      /\ Len(s \o t) = Len(s) + Len(t)
      /\ \A i \in 1 .. Len(s \o t) : (s \o t)[i] = IF i <= Len(s) THEN s[i] ELSE t[i - Len(s)]
  BY ConcatProperties
<1>2. SUFFICES ASSUME NEW i \in 1 .. Len(s \o t), NEW j \in 1 .. Len(s \o t), i < j
               PROVE  (s \o t)[i] < (s \o t)[j]
  BY <1>1 DEF Ascending
<1>3. CASE j <= Len(s)
  BY <1>1, <1>2, <1>3 DEF Ascending
<1>4. CASE i > Len(s)
  BY <1>1, <1>2, <1>4 DEF Ascending
<1>5. CASE i <= Len(s) /\ j > Len(s)
  <2>1. s[i] \in Nat /\ s[i] < P
    BY <1>1, <1>5
  <2>2. t[j - Len(s)] \in Nat /\ P <= t[j - Len(s)]
    BY <1>1, <1>5
  <2> QED
    BY <1>1, <1>5, <2>1, <2>2
<1> QED
  BY <1>1, <1>3, <1>4, <1>5

\* sendAllReady() sends in order, keeps only what cannot be sent, and forgets
\* nothing.
LEMMA SendAllReadyInTurn ==
    ASSUME NEW s, NEW N \in Nat, InTurn(s, N)
    PROVE  /\ InTurn(SendAllReady(s), N)
           /\ Settled(SendAllReady(s))
           /\ Done(SendAllReady(s)) = Done(s)
<1> DEFINE P == s.pendingSendId
           ids == IdsOf(s)
           next == CHOOSE n \in P .. P + Cardinality(ids) :
                       n \notin ids /\ \A k \in P .. n - 1 : k \in ids
           ready == {e \in s.pendingMessages : e.id < next}
           t == [outgoing |-> s.outgoing \o Texts(ready),
                 pendingSendId |-> next,
                 pendingMessages |-> s.pendingMessages \ ready]
<1>1. SendAllReady(s) = t
  BY DEF SendAllReady, IdsOf
<1>2. /\ P \in 0 .. N
      /\ s.outgoing \in Seq(Nat)
      /\ s.pendingMessages \subseteq Pending
      /\ Ascending(s.outgoing)
      /\ \A i \in DOMAIN s.outgoing : s.outgoing[i] < P
      /\ \A e \in s.pendingMessages : P <= e.id /\ e.id < N
  BY DEF InTurn, SenderType
<1>3. \A e \in s.pendingMessages : e.id \in Nat /\ P <= e.id /\ e.id < N
  BY <1>2 DEF Pending
<1>4. \A k \in ids : k \in Nat /\ P <= k /\ k < N
  BY <1>3 DEF IdsOf
<1> HIDE DEF P, ids
<1>5. IsFiniteSet(ids) /\ Cardinality(ids) \in Nat
  <2>1. ids \in SUBSET Nat /\ \A k \in ids : k <= N
    BY <1>4
  <2> QED
    BY <2>1, FS_BoundedSetOfNaturals, FS_CardinalityType
<1>6. /\ next \in P .. P + Cardinality(ids)
      /\ next \notin ids
      /\ \A k \in P .. next - 1 : k \in ids
  <2>1. \E n \in P .. P + Cardinality(ids) : n \notin ids /\ \A k \in P .. n - 1 : k \in ids
    BY <1>2, <1>5, FirstMissing
  <2> QED
    BY <2>1
<1> HIDE DEF next
<1>7. next \in Nat /\ P <= next /\ next <= N
  <2>1. next \in Nat /\ P <= next
    BY <1>2, <1>5, <1>6
  <2>2. CASE next = P
    BY <1>2, <2>1, <2>2
  <2>3. CASE next # P
    <3>1. next - 1 \in ids
      BY <1>2, <1>6, <2>1, <2>3
    <3> QED
      BY <1>4, <2>1, <3>1
  <2> QED
    BY <2>1, <2>2, <2>3
<1>8. /\ Texts(ready) \in Seq(Nat)
      /\ Ascending(Texts(ready))
      /\ \A i \in DOMAIN Texts(ready) : P <= Texts(ready)[i] /\ Texts(ready)[i] < next
  <2>1. \A e \in ready : e.id \in Nat /\ e.id < N /\ P <= e.id /\ e.id < next
    BY <1>3
  <2> HIDE DEF ready
  <2> QED
    BY <2>1, TextsAreSorted
<1> HIDE DEF ready
<1>9. InTurn(t, N)
  <2>1. SenderType(t, N)
    BY <1>2, <1>7, <1>8, ConcatProperties DEF SenderType
  <2>2. Ascending(t.outgoing)
    <3>1. P \in Nat
      BY <1>2
    <3>2. Ascending(s.outgoing \o Texts(ready))
      BY <1>2, <1>8, <3>1, AscendingConcat
    <3> QED
      BY <3>2
  <2>3. \A i \in DOMAIN t.outgoing : t.outgoing[i] < t.pendingSendId
    <3>1. /\ s.outgoing \o Texts(ready) \in Seq(Nat)
          /\ Len(s.outgoing \o Texts(ready)) = Len(s.outgoing) + Len(Texts(ready))
          /\ \A i \in 1 .. Len(s.outgoing) + Len(Texts(ready)) : (s.outgoing \o Texts(ready))[i] =
                 IF i <= Len(s.outgoing) THEN s.outgoing[i] ELSE Texts(ready)[i - Len(s.outgoing)]
      BY <1>2, <1>8, ConcatProperties
    <3>2. \A i \in 1 .. Len(s.outgoing) : s.outgoing[i] \in Nat /\ s.outgoing[i] < next
      BY <1>2, <1>7
    <3>3. \A i \in 1 .. Len(Texts(ready)) : Texts(ready)[i] < next
      BY <1>8
    <3>4. \A i \in 1 .. Len(s.outgoing) + Len(Texts(ready)) : (s.outgoing \o Texts(ready))[i] < next
      <4> SUFFICES ASSUME NEW i \in 1 .. Len(s.outgoing) + Len(Texts(ready))
                   PROVE  (s.outgoing \o Texts(ready))[i] < next
        OBVIOUS
      <4>0. Len(s.outgoing) \in Nat /\ Len(Texts(ready)) \in Nat
        BY <1>2, <1>8
      <4>1. CASE i <= Len(s.outgoing)
        <5>1. i \in 1 .. Len(s.outgoing)
          BY <4>0, <4>1
        <5> QED
          BY <3>1, <3>2, <4>1, <5>1
      <4>2. CASE ~(i <= Len(s.outgoing))
        <5>1. i - Len(s.outgoing) \in 1 .. Len(Texts(ready))
          BY <4>0, <4>2
        <5> QED
          BY <3>1, <3>3, <4>0, <4>2, <5>1
      <4> QED
        BY <4>1, <4>2
    <3> QED
      BY <3>1, <3>4
  <2>4. \A e \in t.pendingMessages : t.pendingSendId <= e.id /\ e.id < N
    BY <1>3, <1>7 DEF ready
  <2> QED
    BY <2>1, <2>2, <2>3, <2>4 DEF InTurn
<1>10. Settled(t)
  BY <1>6 DEF Settled, IdsOf, ids
<1>11. Done(t) = Done(s)
  <2>1. \A k : k \in IdsOf(t) <=> k \in ids /\ ~(k < next)
    BY DEF ids, IdsOf, ready
  <2>2. \A k \in Nat : k < next /\ ~(k < P) => k \in ids
    BY <1>2, <1>6, <1>7
  <2>3. \A k \in Nat : k < P => k < next
    BY <1>2, <1>7
  <2>4. \A k : k \in Done(t) <=> (k \in Nat /\ k < next) \/ k \in IdsOf(t)
    BY DEF Done
  <2>5. \A k : k \in Done(s) <=> (k \in Nat /\ k < P) \/ k \in ids
    BY DEF Done, P, ids
  <2>6. \A k : k \in Done(t) <=> k \in Done(s)
    BY <1>4, <2>1, <2>2, <2>3, <2>4, <2>5
  <2>7. Done(t) \subseteq Done(s) /\ Done(s) \subseteq Done(t)
    BY <2>6
  <2> QED
    BY <2>7
<1> QED
  BY <1>1, <1>9, <1>10, <1>11

\* Adding an entry whose turn has not passed.
LEMMA AddEntry ==
    ASSUME NEW s, NEW N \in Nat, InTurn(s, N), NEW n \in Nat, n < N, s.pendingSendId <= n, NEW b \in BOOLEAN
    PROVE  LET t == [s EXCEPT !.pendingMessages = @ \cup {[id |-> n, text |-> b]}]
           IN  InTurn(t, N) /\ Done(t) = Done(s) \cup {n}
<1> DEFINE e == [id |-> n, text |-> b]
           t == [s EXCEPT !.pendingMessages = @ \cup {e}]
<1>1. e \in Pending /\ e.id = n
  BY DEF Pending
<1> HIDE DEF e
<1>2. /\ t.outgoing = s.outgoing
      /\ t.pendingSendId = s.pendingSendId
      /\ t.pendingMessages = s.pendingMessages \cup {e}
  BY DEF InTurn, SenderType
<1>3. SenderType(t, N)
  BY <1>1 DEF InTurn, SenderType
<1> HIDE DEF t
<1>4. InTurn(t, N)
  BY <1>1, <1>2, <1>3 DEF InTurn
<1>5. IdsOf(t) = IdsOf(s) \cup {n}
  BY <1>1, <1>2 DEF IdsOf
<1>6. Done(t) = Done(s) \cup {n}
  BY <1>2, <1>5 DEF Done
<1> QED
  BY <1>4, <1>6 DEF t, e

\* send() of a message whose turn has not passed.
LEMMA SendInTurn ==
    ASSUME NEW s, NEW N \in Nat, InTurn(s, N), Settled(s),
           NEW n \in Nat, n < N, s.pendingSendId <= n
    PROVE  InTurn(Send(s, n), N) /\ Settled(Send(s, n)) /\ Done(Send(s, n)) = Done(s) \cup {n}
<1>1. CASE s.pendingSendId = n
  <2> DEFINE t == [s EXCEPT !.outgoing = Append(@, n), !.pendingSendId = n + 1]
  <2>1. Send(s, n) = SendAllReady(t)
    BY <1>1 DEF Send
  <2>2. /\ t.outgoing = Append(s.outgoing, n)
        /\ t.pendingSendId = n + 1
        /\ t.pendingMessages = s.pendingMessages
    BY DEF InTurn, SenderType
  <2>3. /\ s.outgoing \in Seq(Nat)
        /\ Append(s.outgoing, n) \in Seq(Nat)
        /\ Len(Append(s.outgoing, n)) = Len(s.outgoing) + 1
        /\ \A i \in 1 .. Len(s.outgoing) : Append(s.outgoing, n)[i] = s.outgoing[i]
        /\ Append(s.outgoing, n)[Len(s.outgoing) + 1] = n
    BY AppendProperties DEF InTurn, SenderType
  <2>4. SenderType(t, N)
    <3>1. n + 1 \in 0 .. N
      OBVIOUS
    <3> QED
      BY <2>3, <3>1 DEF InTurn, SenderType
  <2> HIDE DEF t
  <2>5. \A i \in 1 .. Len(s.outgoing) : s.outgoing[i] \in Nat /\ s.outgoing[i] < n
    BY <1>1, <2>3 DEF InTurn
  <2>6. Ascending(Append(s.outgoing, n))
    <3> SUFFICES ASSUME NEW i \in 1 .. Len(s.outgoing) + 1, NEW j \in 1 .. Len(s.outgoing) + 1, i < j
                 PROVE  Append(s.outgoing, n)[i] < Append(s.outgoing, n)[j]
      BY <2>3 DEF Ascending
    <3>0. Len(s.outgoing) \in Nat /\ i \in 1 .. Len(s.outgoing)
      BY <2>3
    <3>1. CASE j = Len(s.outgoing) + 1
      BY <2>3, <2>5, <3>0, <3>1
    <3>2. CASE j # Len(s.outgoing) + 1
      <4>1. j \in 1 .. Len(s.outgoing)
        BY <3>0, <3>2
      <4>2. s.outgoing[i] < s.outgoing[j]
        BY <2>3, <3>0, <4>1 DEF InTurn, Ascending
      <4> QED
        BY <2>3, <3>0, <4>1, <4>2
    <3> QED
      BY <3>1, <3>2
  <2>7. \A i \in 1 .. Len(s.outgoing) + 1 : Append(s.outgoing, n)[i] < n + 1
    <3> SUFFICES ASSUME NEW i \in 1 .. Len(s.outgoing) + 1
                 PROVE  Append(s.outgoing, n)[i] < n + 1
      OBVIOUS
    <3>1. CASE i = Len(s.outgoing) + 1
      BY <2>3, <3>1
    <3>2. CASE i # Len(s.outgoing) + 1
      <4>1. i \in 1 .. Len(s.outgoing)
        BY <2>3, <3>2
      <4> QED
        BY <2>3, <2>5, <4>1
    <3> QED
      BY <3>1, <3>2
  <2>8. \A e \in s.pendingMessages : n + 1 <= e.id /\ e.id < N
    <3>1. \A e \in s.pendingMessages : e.id \in Nat /\ n <= e.id /\ e.id < N /\ e.id # n
      BY <1>1 DEF InTurn, SenderType, Pending, Settled, IdsOf
    <3> QED
      BY <3>1
  <2>9. InTurn(t, N)
    BY <2>2, <2>3, <2>4, <2>6, <2>7, <2>8 DEF InTurn
  <2>10. Done(t) = Done(s) \cup {n}
    <3>1. IdsOf(t) = IdsOf(s)
      BY <2>2 DEF IdsOf
    <3>2. \A k \in Nat : k < n + 1 <=> k < n \/ k = n
      OBVIOUS
    <3> QED
      BY <1>1, <2>2, <3>1, <3>2 DEF Done
  <2> QED
    BY <2>1, <2>9, <2>10, SendAllReadyInTurn
<1>2. CASE s.pendingSendId # n
  <2> DEFINE t == [s EXCEPT !.pendingMessages = @ \cup {[id |-> n, text |-> TRUE]}]
  <2>1. Send(s, n) = SendAllReady(t)
    BY <1>2 DEF Send
  <2>2. InTurn(t, N) /\ Done(t) = Done(s) \cup {n}
    BY AddEntry
  <2> QED
    BY <2>1, <2>2, SendAllReadyInTurn
<1> QED
  BY <1>1, <1>2

\* The end of handle().
LEMMA CompleteInTurn ==
    ASSUME NEW s, NEW N \in Nat, InTurn(s, N), Settled(s), NEW n \in Nat, n < N
    PROVE  /\ InTurn(Complete(s, n), N)
           /\ Settled(Complete(s, n))
           /\ Done(Complete(s, n)) = Done(s) \cup {n}
<1>1. CASE s.pendingSendId <= n
  <2> DEFINE t == [s EXCEPT !.pendingMessages = @ \cup {[id |-> n, text |-> FALSE]}]
  <2>1. Complete(s, n) = SendAllReady(t)
    BY <1>1 DEF Complete
  <2>2. InTurn(t, N) /\ Done(t) = Done(s) \cup {n}
    BY <1>1, AddEntry
  <2> QED
    BY <2>1, <2>2, SendAllReadyInTurn
<1>2. CASE ~(s.pendingSendId <= n)
  <2>1. Complete(s, n) = s
    BY <1>2 DEF Complete
  <2>2. n \in Done(s)
    BY <1>2 DEF Done, InTurn, SenderType
  <2>3. Done(s) = Done(s) \cup {n}
    BY <2>2
  <2> QED
    BY <2>1, <2>3
<1> QED
  BY <1>1, <1>2

\* A response to n, and the end of its handle().
LEMMA AnswerInTurn ==
    ASSUME NEW s, NEW N \in Nat, InTurn(s, N), Settled(s),
           NEW n \in Nat, n < N, s.pendingSendId <= n
    PROVE  LET t == Complete(Send(s, n), n)
           IN  InTurn(t, N) /\ Settled(t) /\ Done(t) = Done(s) \cup {n}
<1>1. InTurn(Send(s, n), N) /\ Settled(Send(s, n)) /\ Done(Send(s, n)) = Done(s) \cup {n}
  BY SendInTurn
<1> QED
  BY <1>1, CompleteInTurn

-----------------------------------------------------------------------------
(* The inductive invariant                                                 *)

\* Turns: a handler that waits has not had its turn, and each message that was
\* received has had it, or is kept, or has its handler on the stack.
TurnInv ==
    /\ InTurn(sender, serialSendId)
    /\ Settled(sender)
    /\ \A i \in DOMAIN stack : stack[i].sendId \notin Done(sender)
    /\ ~exit => \A k \in 0 .. serialSendId - 1 :
                   k \in Done(sender) \/ \E i \in DOMAIN stack : stack[i].sendId = k

IsResponse(m) == m.kind \in {"result", "error"}

\* The responses that are on their way are to different requests, and to none
\* that has a recorded response.
IncomingInv ==
    /\ \A i \in 1 .. Len(incoming) :
           IsResponse(incoming[i]) => incoming[i].arg \in answered \ DOMAIN responses
    /\ \A i, j \in 1 .. Len(incoming) :
           IsResponse(incoming[i]) /\ IsResponse(incoming[j]) /\ incoming[i].arg = incoming[j].arg => i = j

Refused(u) == pending[u] \in DOMAIN responses /\ ~responses[pending[u]]

\* Answers: a handler waits for the request its document has asked for, until
\* that has a result; one that is recorded in a pending entry is an error.
AnswerInv ==
    /\ \A i \in DOMAIN stack :
           \/ pending[stack[i].uri] = stack[i].awaits
           \/ stack[i].awaits \in DOMAIN responses /\ responses[stack[i].awaits]
    /\ \A u \in Uris : pending[u] \in DOMAIN responses => Refused(u)
    /\ \A f \in failed : exit \/ Refused(f.uri)

ServerInv == TypeOK /\ TurnInv /\ IncomingInv /\ AnswerInv

-----------------------------------------------------------------------------
(* The stack of handlers                                                   *)

Frames == [sendId : Nat, uri : Uris, awaits : Nat]

\* Frames that are numbered below N and wait for requests below R.
FramesBelow(s, N, R) == \A i \in 1 .. Len(s) : s[i].sendId < N /\ s[i].awaits < R

\* Frames with bounds on their fields, elementwise.
LEMMA FrameTypes ==
    ASSUME NEW N \in Nat, NEW R \in Nat, NEW s
    PROVE  s \in Seq([sendId : 0 .. N - 1, uri : Uris, awaits : 0 .. R - 1]) <=>
               s \in Seq(Frames) /\ FramesBelow(s, N, R)
<1> DEFINE F == [sendId : 0 .. N - 1, uri : Uris, awaits : 0 .. R - 1]
<1>1. F \subseteq Frames
  BY DEF Frames
<1>2. \A f \in Frames : f \in F <=> f.sendId < N /\ f.awaits < R
  BY DEF Frames
<1> HIDE DEF F
<1>3. ASSUME s \in Seq(F) PROVE s \in Seq(Frames) /\ FramesBelow(s, N, R)
  <2>1. \A i \in 1 .. Len(s) : s[i] \in F
    BY <1>3, ElementOfSeq
  <2>2. s \in [1 .. Len(s) -> Frames] /\ Len(s) \in Nat
    BY <1>1, <1>3
  <2>3. s \in Seq(Frames)
    BY <2>2
  <2> QED
    BY <1>1, <1>2, <2>1, <2>3 DEF FramesBelow
<1>4. ASSUME s \in Seq(Frames), FramesBelow(s, N, R) PROVE s \in Seq(F)
  <2>1. \A i \in 1 .. Len(s) : s[i] \in Frames
    BY <1>4, ElementOfSeq
  <2>2. \A i \in 1 .. Len(s) : s[i] \in F
    BY <1>2, <1>4, <2>1 DEF FramesBelow
  <2>3. s \in [1 .. Len(s) -> F] /\ Len(s) \in Nat
    BY <1>4, <2>2
  <2> QED
    BY <2>3
<1> QED
  BY <1>3, <1>4 DEF F

\* The handler that is called last is put on top of the stack.
LEMMA PushFrame ==
    ASSUME NEW s \in Seq(Frames), NEW f \in Frames
    PROVE  /\ Append(s, f) \in Seq(Frames)
           /\ DOMAIN s = 1 .. Len(s)
           /\ DOMAIN Append(s, f) = (1 .. Len(s)) \cup {Len(s) + 1}
           /\ \A i \in 1 .. Len(s) : Append(s, f)[i] = s[i]
           /\ Append(s, f)[Len(s) + 1] = f
           /\ Len(s) \in Nat
           /\ Len(Append(s, f)) = Len(s) + 1
<1>1. /\ Append(s, f) \in Seq(Frames)
      /\ Len(Append(s, f)) = Len(s) + 1
      /\ \A i \in 1 .. Len(s) : Append(s, f)[i] = s[i]
      /\ Append(s, f)[Len(s) + 1] = f
  BY AppendProperties
<1>2. Len(s) \in Nat /\ DOMAIN s = 1 .. Len(s)
  BY LenProperties
<1>3. DOMAIN Append(s, f) = 1 .. Len(s) + 1
  BY <1>1, LenProperties
<1>4. 1 .. Len(s) + 1 = (1 .. Len(s)) \cup {Len(s) + 1}
  BY <1>2
<1> QED
  BY <1>1, <1>2, <1>3, <1>4

\* The innermost handler is taken from the stack.
LEMMA PopFrame ==
    ASSUME NEW s \in Seq(Frames), s # << >>
    PROVE  /\ Len(s) \in Nat /\ Len(s) \in 1 .. Len(s)
           /\ Last(s) = s[Len(s)]
           /\ Front(s) \in Seq(Frames)
           /\ DOMAIN s = (1 .. Len(s) - 1) \cup {Len(s)}
           /\ DOMAIN Front(s) = 1 .. Len(s) - 1
           /\ Len(Front(s)) = Len(s) - 1
           /\ \A i \in 1 .. Len(s) - 1 : Front(s)[i] = s[i]
<1>1. Len(s) \in Nat \ {0} /\ DOMAIN s = 1 .. Len(s)
  BY EmptySeq, LenProperties
<1>2. \A i \in 1 .. Len(s) - 1 : s[i] \in Frames
  BY <1>1, ElementOfSeq
<1>3. /\ SubSeq(s, 1, Len(s) - 1) \in Seq(Frames)
      /\ Len(SubSeq(s, 1, Len(s) - 1)) = Len(s) - 1
      /\ \A i \in 1 .. Len(s) - 1 : SubSeq(s, 1, Len(s) - 1)[i] = s[i]
  <2>1. /\ SubSeq(s, 1, Len(s) - 1) \in Seq(Frames)
        /\ Len(SubSeq(s, 1, Len(s) - 1)) = IF 1 <= Len(s) - 1 THEN Len(s) - 1 - 1 + 1 ELSE 0
        /\ \A i \in 1 .. Len(s) - 1 - 1 + 1 : SubSeq(s, 1, Len(s) - 1)[i] = s[1 + i - 1]
    BY <1>1, <1>2, SubSeqProperties
  <2>2. \A i \in 1 .. Len(s) - 1 : 1 + i - 1 = i
    BY <1>1
  <2>3. Len(s) - 1 - 1 + 1 = Len(s) - 1
    BY <1>1
  <2>4. Len(SubSeq(s, 1, Len(s) - 1)) = Len(s) - 1
    BY <1>1, <2>1
  <2> QED
    BY <2>1, <2>2, <2>3, <2>4
<1>4. 1 .. Len(s) = (1 .. Len(s) - 1) \cup {Len(s)}
  BY <1>1
<1>5. DOMAIN SubSeq(s, 1, Len(s) - 1) = 1 .. Len(s) - 1
  BY <1>3, LenProperties
<1> QED
  BY <1>1, <1>3, <1>4, <1>5 DEF Front, Last

-----------------------------------------------------------------------------
(* Turns                                                                   *)

\* What the type invariant says of the stack.
LEMMA StackFacts ==
    TypeOK => /\ serialSendId \in Nat /\ requests \in Nat
              /\ stack \in Seq(Frames)
              /\ FramesBelow(stack, serialSendId, requests)
              /\ DOMAIN stack = 1 .. Len(stack)
              /\ \A i \in DOMAIN stack : stack[i] \in Frames
              /\ \A i, j \in DOMAIN stack : i < j => stack[i].sendId < stack[j].sendId
<1> SUFFICES ASSUME TypeOK PROVE /\ serialSendId \in Nat /\ requests \in Nat
                                 /\ stack \in Seq(Frames)
                                 /\ FramesBelow(stack, serialSendId, requests)
  BY ElementOfSeq, LenProperties DEF TypeOK
<1>1. serialSendId \in Nat /\ requests \in Nat
  BY DEF TypeOK
<1>2. stack \in Seq([sendId : 0 .. serialSendId - 1, uri : Uris, awaits : 0 .. requests - 1])
  BY DEF TypeOK
<1> QED
  BY <1>1, <1>2, FrameTypes

\* The numbers that are done are below the number of the next message.
LEMMA DoneBelow ==
    ASSUME NEW s, NEW N \in Nat, InTurn(s, N)
    PROVE  \A k \in Done(s) : k \in Nat /\ k < N
<1>1. s.pendingSendId \in 0 .. N
  BY DEF InTurn, SenderType
<1>2. \A k \in IdsOf(s) : k \in Nat /\ k < N
  BY DEF InTurn, SenderType, IdsOf, Pending
<1> QED
  BY <1>1, <1>2 DEF Done

\* The turn has not come to a message that is not done.
LEMMA NotDone ==
    ASSUME NEW s, NEW N \in Nat, InTurn(s, N), NEW n \in Nat, n \notin Done(s)
    PROVE  s.pendingSendId <= n
BY DEF Done, InTurn, SenderType

\* A bound on the numbers may grow.
LEMMA InTurnGrows ==
    ASSUME NEW s, NEW N \in Nat, InTurn(s, N)
    PROVE  InTurn(s, N + 1)
<1>1. SenderType(s, N + 1)
  BY DEF InTurn, SenderType
<1>2. \A e \in s.pendingMessages : e.id \in Nat /\ e.id < N
  BY DEF InTurn, SenderType, Pending
<1>3. \A e \in s.pendingMessages : e.id < N + 1
  BY <1>2
<1> QED
  BY <1>1, <1>3 DEF InTurn

\* A step completes the message it has received or the handler on top of the
\* stack, or puts the handler of the message it has received there.
LEMMA TurnStep ==
    ServerInv /\ [Next]_vars => TurnInv'
<1> SUFFICES ASSUME ServerInv, [Next]_vars PROVE TurnInv'
  OBVIOUS
<1> DEFINE N == serialSendId
<1>0. /\ N \in Nat
      /\ stack \in Seq(Frames)
      /\ DOMAIN stack = 1 .. Len(stack)
      /\ \A i \in DOMAIN stack : stack[i] \in Frames /\ stack[i].sendId \in Nat /\ stack[i].sendId < N
      /\ \A i, j \in DOMAIN stack : i < j => stack[i].sendId < stack[j].sendId
      /\ requests \in Nat
      /\ pending \in [Uris -> (0 .. requests - 1) \cup {None}]
  <2>1. TypeOK
    BY DEF ServerInv
  <2>2. pending \in [Uris -> (0 .. requests - 1) \cup {None}]
    BY <2>1 DEF TypeOK
  <2>3. \A f \in Frames : f.sendId \in Nat
    BY DEF Frames
  <2> QED
    BY <2>1, <2>2, <2>3, StackFacts DEF FramesBelow
<1>t. /\ InTurn(sender, N)
      /\ Settled(sender)
      /\ \A i \in DOMAIN stack : stack[i].sendId \notin Done(sender)
      /\ ~exit => \A k \in 0 .. N - 1 :
                     k \in Done(sender) \/ \E i \in DOMAIN stack : stack[i].sendId = k
  BY DEF ServerInv, TurnInv
<1>n. N \notin Done(sender) /\ sender.pendingSendId <= N /\ InTurn(sender, N + 1)
  BY <1>0, <1>t, DoneBelow, NotDone, InTurnGrows
<1>1. CASE UNCHANGED <<sender, serialSendId, stack, exit>>
  BY <1>t, <1>1 DEF TurnInv
<1>2. ASSUME serialSendId' = N + 1, UNCHANGED <<stack, exit>>,
             InTurn(sender', N + 1), Settled(sender'), Done(sender') = Done(sender) \cup {N}
      PROVE  TurnInv'
  <2>1. \A i \in DOMAIN stack : stack[i].sendId \notin Done(sender')
    BY <1>0, <1>t, <1>2
  <2>2. ASSUME ~exit, NEW k \in 0 .. N
        PROVE  k \in Done(sender') \/ \E i \in DOMAIN stack : stack[i].sendId = k
    <3>1. k = N \/ k \in 0 .. N - 1
      BY <1>0
    <3> QED
      BY <1>t, <1>2, <2>2, <3>1
  <2>3. 0 .. serialSendId' - 1 = 0 .. N
    BY <1>0, <1>2
  <2>4. ~exit' => \A k \in 0 .. serialSendId' - 1 :
                     k \in Done(sender') \/ \E i \in DOMAIN stack' : stack'[i].sendId = k
    BY <1>2, <2>2, <2>3
  <2> QED
    BY <1>2, <2>1, <2>4 DEF TurnInv
<1>3. ASSUME serialSendId' = N + 1, UNCHANGED <<stack, exit>>, ~exit, Answer(N)
      PROVE  TurnInv'
  <2>1. sender' = Complete(Send(sender, N), N)
    BY <1>3 DEF Answer
  <2>2. N < N + 1 /\ N + 1 \in Nat
    BY <1>0
  <2>3. InTurn(sender', N + 1) /\ Settled(sender') /\ Done(sender') = Done(sender) \cup {N}
    BY <1>0, <1>t, <1>n, <2>1, <2>2, AnswerInTurn
  <2> QED
    BY <1>2, <1>3, <2>3
<1>4. CASE HandlePlain
  BY <1>3, <1>4 DEF HandlePlain, Receive
<1>5. CASE HandleExit
  <2>1. sender' = sender /\ serialSendId' = N + 1 /\ stack' = stack /\ exit'
    BY <1>5 DEF HandleExit, Receive
  <2> QED
    BY <1>t, <1>n, <2>1 DEF TurnInv
<1>6. ASSUME NEW u \in Uris, HandleKnown(u) PROVE TurnInv'
  BY <1>3, <1>6 DEF HandleKnown, Receive
<1>7. ASSUME NEW u \in Uris, HandleRefused(u) PROVE TurnInv'
  BY <1>3, <1>7 DEF HandleRefused, Receive
<1>8. ASSUME NEW u \in Uris, NEW r \in Nat, Await(u, r), serialSendId' = N + 1, UNCHANGED <<sender, exit>>
      PROVE  TurnInv'
  <2> DEFINE f == [sendId |-> N, uri |-> u, awaits |-> r]
  <2>1. stack' = Append(stack, f) /\ f \in Frames /\ f.sendId = N
    BY <1>0, <1>8 DEF Await, Frames
  <2> HIDE DEF f
  <2>2. /\ DOMAIN stack' = (1 .. Len(stack)) \cup {Len(stack) + 1}
        /\ \A i \in 1 .. Len(stack) : stack'[i] = stack[i]
        /\ stack'[Len(stack) + 1] = f
    BY <1>0, <2>1, PushFrame
  <2>3. \A i \in DOMAIN stack' : stack'[i].sendId \notin Done(sender)
    BY <1>0, <1>t, <1>n, <2>1, <2>2
  <2>4. ASSUME ~exit, NEW k \in 0 .. N
        PROVE  k \in Done(sender) \/ \E i \in DOMAIN stack' : stack'[i].sendId = k
    <3>1. k = N \/ k \in 0 .. N - 1
      BY <1>0
    <3>2. CASE k = N
      BY <2>1, <2>2, <3>2
    <3>3. CASE k \in 0 .. N - 1
      BY <1>0, <1>t, <2>2, <2>4, <3>3
    <3> QED
      BY <3>1, <3>2, <3>3
  <2>5. 0 .. serialSendId' - 1 = 0 .. N
    BY <1>0, <1>8
  <2>6. ~exit' => \A k \in 0 .. serialSendId' - 1 :
                     k \in Done(sender') \/ \E i \in DOMAIN stack' : stack'[i].sendId = k
    BY <1>8, <2>4, <2>5
  <2> QED
    BY <1>t, <1>n, <1>8, <2>3, <2>6 DEF TurnInv
<1>9. ASSUME NEW u \in Uris, HandleAsk(u) PROVE TurnInv'
  BY <1>0, <1>8, <1>9 DEF HandleAsk, Receive
<1>10. ASSUME NEW u \in Uris, HandleJoin(u) PROVE TurnInv'
  <2>1. pending[u] \in Nat
    BY <1>0, <1>10 DEF HandleJoin, MustAsk
  <2> QED
    BY <1>8, <1>10, <2>1 DEF HandleJoin, Receive
<1>11. ASSUME NEW kind, NEW id, HandleResponse(kind, id) PROVE TurnInv'
  <2>1. sender' = Complete(sender, N) /\ serialSendId' = N + 1 /\ UNCHANGED <<stack, exit>>
    BY <1>11 DEF HandleResponse, Receive
  <2>2. N < N + 1 /\ N + 1 \in Nat
    BY <1>0
  <2>3. InTurn(sender', N + 1) /\ Settled(sender') /\ Done(sender') = Done(sender) \cup {N}
    BY <1>0, <1>t, <1>n, <2>1, <2>2, CompleteInTurn
  <2> QED
    BY <1>2, <2>1, <2>3
<1>12. CASE Resume
  <2> DEFINE n == stack[Len(stack)].sendId
  <2>1. /\ stack # << >> /\ stack' = Front(stack)
        /\ Answer(Last(stack).sendId) \/ Skip(Last(stack).sendId)
        /\ UNCHANGED <<serialSendId, exit>>
    BY <1>12 DEF Resume, IsDone
  <2>2. /\ Len(stack) \in DOMAIN stack /\ Len(stack) \in Nat
        /\ Last(stack) = stack[Len(stack)]
        /\ DOMAIN stack = (1 .. Len(stack) - 1) \cup {Len(stack)}
        /\ DOMAIN stack' = 1 .. Len(stack) - 1
        /\ \A i \in 1 .. Len(stack) - 1 : stack'[i] = stack[i]
    BY <1>0, <2>1, PopFrame
  <2>3. n \in Nat /\ n < N /\ n \notin Done(sender) /\ sender.pendingSendId <= n
    BY <1>0, <1>t, <2>2, NotDone
  <2>4. CASE exit
    <3>1. sender' = sender
      BY <2>1, <2>4 DEF Answer, Skip
    <3>2. \A i \in DOMAIN stack' : stack'[i].sendId \notin Done(sender)
      BY <1>t, <2>2
    <3> QED
      BY <1>t, <2>1, <2>4, <3>1, <3>2 DEF TurnInv
  <2>5. CASE ~exit
    <3>1. sender' = Complete(Send(sender, n), n) \/ sender' = Complete(sender, n)
      BY <2>1, <2>2, <2>5 DEF Answer, Skip
    <3>2. InTurn(sender', N) /\ Settled(sender') /\ Done(sender') = Done(sender) \cup {n}
      BY <1>0, <1>t, <2>3, <3>1, AnswerInTurn, CompleteInTurn
    <3>3. \A i \in 1 .. Len(stack) - 1 : stack[i].sendId \in Nat /\ stack[i].sendId < n
      BY <1>0, <2>2
    <3>4. \A i \in DOMAIN stack' : stack'[i].sendId \notin Done(sender')
      <4>1. \A i \in 1 .. Len(stack) - 1 : stack[i].sendId \notin Done(sender)
        BY <1>t, <2>2
      <4>2. \A i \in 1 .. Len(stack) - 1 : stack[i].sendId # n
        <5> HIDE DEF n
        <5> QED
          BY <2>3, <3>3
      <4> HIDE DEF n
      <4> QED
        BY <2>2, <3>2, <4>1, <4>2
    <3>5. \A k \in 0 .. N - 1 : k \in Done(sender') \/ \E i \in DOMAIN stack' : stack'[i].sendId = k
      BY <1>t, <2>2, <2>5, <3>2
    <3> QED
      BY <2>1, <3>2, <3>4, <3>5 DEF TurnInv
  <2> QED
    BY <2>4, <2>5
<1>13. CASE ClientSends
  BY <1>1, <1>13 DEF ClientSends, serverVars
<1>14. CASE ClientAnswers
  BY <1>1, <1>14 DEF ClientAnswers, serverVars
<1>15. CASE Continue
  BY <1>1, <1>15 DEF Continue
<1>16. CASE UNCHANGED vars
  BY <1>1, <1>16 DEF vars, serverVars
<1> QED
  BY <1>4, <1>5, <1>6, <1>7, <1>9, <1>10, <1>11, <1>12, <1>13, <1>14, <1>15, <1>16 DEF Next, Server

-----------------------------------------------------------------------------
(* The messages that come in                                               *)

\* What a step does to incoming, answered and responses.
IncomingStep ==
    \/ incoming' = incoming /\ UNCHANGED <<answered, responses>>
    \/ \E m \in Message : incoming' = Append(incoming, m) /\ UNCHANGED <<answered, responses>>
    \/ \E r \in (0 .. requests - 1) \ answered, kind \in {"result", "error"} :
           /\ incoming' = Append(incoming, [kind |-> kind, arg |-> r])
           /\ answered' = answered \cup {r}
           /\ responses' = responses
    \/ incoming # << >> /\ incoming' = Tail(incoming) /\ UNCHANGED <<answered, responses>>
    \/ /\ incoming # << >> /\ incoming' = Tail(incoming) /\ answered' = answered
       /\ IsResponse(Head(incoming))
       /\ responses' = [r \in DOMAIN responses \cup {Head(incoming).arg} |->
                           IF r = Head(incoming).arg THEN Head(incoming).kind = "result" ELSE responses[r]]

\* Every step is one of these.
LEMMA IncomingSteps == [Next]_vars => IncomingStep
<1> SUFFICES ASSUME [Next]_vars PROVE IncomingStep
  OBVIOUS
<1>1. CASE ClientSends
  BY <1>1 DEF ClientSends, serverVars, IncomingStep
<1>2. CASE ClientAnswers
  BY <1>2 DEF ClientAnswers, serverVars, IncomingStep
<1>3. CASE HandlePlain
  BY <1>3 DEF HandlePlain, Receive, IncomingStep
<1>4. CASE HandleExit
  BY <1>4 DEF HandleExit, Receive, IncomingStep
<1>5. ASSUME NEW u \in Uris, HandleKnown(u) PROVE IncomingStep
  BY <1>5 DEF HandleKnown, Receive, IncomingStep
<1>6. ASSUME NEW u \in Uris, HandleRefused(u) PROVE IncomingStep
  BY <1>6 DEF HandleRefused, Receive, IncomingStep
<1>7. ASSUME NEW u \in Uris, HandleAsk(u) PROVE IncomingStep
  BY <1>7 DEF HandleAsk, Receive, IncomingStep
<1>8. ASSUME NEW u \in Uris, HandleJoin(u) PROVE IncomingStep
  BY <1>8 DEF HandleJoin, Receive, IncomingStep
<1>9. ASSUME NEW kind \in {"result", "error"}, NEW id \in 0 .. requests - 1, HandleResponse(kind, id)
      PROVE  IncomingStep
  <2>1. Head(incoming).kind = kind /\ Head(incoming).arg = id
    BY <1>9 DEF HandleResponse, Receive
  <2>2. responses' = [r \in DOMAIN responses \cup {Head(incoming).arg} |->
                         IF r = Head(incoming).arg THEN Head(incoming).kind = "result" ELSE responses[r]]
    BY <1>9, <2>1 DEF HandleResponse
  <2>3. /\ incoming # << >> /\ incoming' = Tail(incoming) /\ answered' = answered
        /\ IsResponse(Head(incoming))
    BY <1>9, <2>1 DEF HandleResponse, Receive, IsResponse
  <2> QED
    BY <2>2, <2>3 DEF IncomingStep
<1>10. CASE Resume
  BY <1>10 DEF Resume, IncomingStep
<1>11. CASE Continue
  BY <1>11 DEF Continue, IncomingStep
<1>12. CASE UNCHANGED vars
  BY <1>12 DEF vars, serverVars, IncomingStep
<1> QED
  BY <1>1, <1>2, <1>3, <1>4, <1>5, <1>6, <1>7, <1>8, <1>9, <1>10, <1>11, <1>12 DEF Next, Server

\* The client answers a request once, so that each response is new when it is
\* handled.
LEMMA IncomingPreserved ==
    ServerInv /\ [Next]_vars =>
        /\ IncomingInv'
        /\ incoming' \in Seq(Message \cup Response)
        /\ answered' \subseteq 0 .. requests - 1
        /\ DOMAIN responses' \subseteq answered'
        /\ responses' \in [DOMAIN responses' -> BOOLEAN]
<1> SUFFICES ASSUME ServerInv, [Next]_vars
             PROVE  /\ IncomingInv'
                    /\ incoming' \in Seq(Message \cup Response)
                    /\ answered' \subseteq 0 .. requests - 1
                    /\ DOMAIN responses' \subseteq answered'
                    /\ responses' \in [DOMAIN responses' -> BOOLEAN]
  OBVIOUS
<1> DEFINE M == Message \cup Response
<1>0. /\ incoming \in Seq(M)
      /\ requests \in Nat
      /\ answered \subseteq 0 .. requests - 1
      /\ DOMAIN responses \subseteq answered
      /\ responses \in [DOMAIN responses -> BOOLEAN]
  BY DEF ServerInv, TypeOK
<1>i. /\ \A i \in 1 .. Len(incoming) :
             IsResponse(incoming[i]) => incoming[i].arg \in answered \ DOMAIN responses
      /\ \A i, j \in 1 .. Len(incoming) :
             IsResponse(incoming[i]) /\ IsResponse(incoming[j]) /\ incoming[i].arg = incoming[j].arg => i = j
  BY DEF ServerInv, IncomingInv
<1>m. \A m \in Message : m \in M /\ ~IsResponse(m)
  BY DEF Message, IsResponse
<1>r. \A r \in 0 .. requests - 1, kind \in {"result", "error"} :
          [kind |-> kind, arg |-> r] \in M /\ IsResponse([kind |-> kind, arg |-> r])
  BY <1>0 DEF Response, IsResponse
<1> HIDE DEF M
<1>s. IncomingStep
  BY IncomingSteps
<1>l. Len(incoming) \in Nat
  BY <1>0
<1>1. CASE incoming' = incoming /\ UNCHANGED <<answered, responses>>
  BY <1>0, <1>i, <1>1 DEF IncomingInv, M
<1>2. ASSUME NEW m \in Message, incoming' = Append(incoming, m), UNCHANGED <<answered, responses>>
      PROVE  IncomingInv' /\ incoming' \in Seq(M)
  <2>1. /\ incoming' \in Seq(M)
        /\ Len(incoming') = Len(incoming) + 1
        /\ \A i \in 1 .. Len(incoming) : incoming'[i] = incoming[i]
        /\ incoming'[Len(incoming) + 1] = m
    BY <1>0, <1>m, <1>2, AppendProperties
  <2>2. \A i \in 1 .. Len(incoming') : IsResponse(incoming'[i]) =>
            i \in 1 .. Len(incoming) /\ incoming'[i] = incoming[i]
    <3> SUFFICES ASSUME NEW i \in 1 .. Len(incoming) + 1, IsResponse(incoming'[i])
                 PROVE  i \in 1 .. Len(incoming)
      BY <2>1
    <3>1. i # Len(incoming) + 1
      BY <1>m, <2>1
    <3> QED
      BY <1>l, <3>1
  <2> QED
    BY <1>i, <1>2, <2>1, <2>2 DEF IncomingInv
<1>3. ASSUME NEW r \in (0 .. requests - 1) \ answered, NEW kind \in {"result", "error"},
             incoming' = Append(incoming, [kind |-> kind, arg |-> r]),
             answered' = answered \cup {r}, responses' = responses
      PROVE  IncomingInv' /\ incoming' \in Seq(M) /\ answered' \subseteq 0 .. requests - 1
  <2> DEFINE m == [kind |-> kind, arg |-> r]
  <2>0. m \in M /\ IsResponse(m) /\ m.arg = r
    BY <1>r
  <2> HIDE DEF m
  <2>1. /\ incoming' \in Seq(M)
        /\ Len(incoming') = Len(incoming) + 1
        /\ \A i \in 1 .. Len(incoming) : incoming'[i] = incoming[i]
        /\ incoming'[Len(incoming) + 1] = m
    BY <1>0, <1>3, <2>0, AppendProperties DEF m
  <2>2. \A i \in 1 .. Len(incoming') :
            i = Len(incoming) + 1 \/ (i \in 1 .. Len(incoming) /\ incoming'[i] = incoming[i])
    <3> SUFFICES ASSUME NEW i \in 1 .. Len(incoming'), i # Len(incoming) + 1
                 PROVE  i \in 1 .. Len(incoming) /\ incoming'[i] = incoming[i]
      OBVIOUS
    <3>1. i \in 1 .. Len(incoming) + 1
      BY <2>1
    <3>2. i \in 1 .. Len(incoming)
      BY <1>l, <3>1
    <3> QED
      BY <2>1, <3>2
  <2>3. r \notin DOMAIN responses
    BY <1>0
  <2>4. \A i \in 1 .. Len(incoming') :
            IsResponse(incoming'[i]) => incoming'[i].arg \in answered' \ DOMAIN responses'
    BY <1>i, <1>3, <2>0, <2>1, <2>2, <2>3
  <2>5. \A i \in 1 .. Len(incoming) : IsResponse(incoming[i]) => incoming[i].arg # r
    BY <1>i
  <2>6. ASSUME NEW i \in 1 .. Len(incoming'), NEW j \in 1 .. Len(incoming'),
               IsResponse(incoming'[i]), IsResponse(incoming'[j]), incoming'[i].arg = incoming'[j].arg
        PROVE  i = j
    <3>1. CASE i = Len(incoming) + 1
      BY <2>0, <2>1, <2>2, <2>5, <2>6, <3>1
    <3>2. CASE j = Len(incoming) + 1
      BY <2>0, <2>1, <2>2, <2>5, <2>6, <3>2
    <3>3. CASE i # Len(incoming) + 1 /\ j # Len(incoming) + 1
      BY <1>i, <2>2, <2>6, <3>3
    <3> QED
      BY <3>1, <3>2, <3>3
  <2> QED
    BY <1>0, <1>3, <2>1, <2>4, <2>6 DEF IncomingInv
<1>t. ASSUME incoming # << >>, incoming' = Tail(incoming)
      PROVE  /\ incoming' \in Seq(M)
             /\ 1 \in 1 .. Len(incoming) /\ Head(incoming) = incoming[1]
             /\ \A i \in 1 .. Len(incoming') :
                    i + 1 \in 1 .. Len(incoming) /\ i + 1 # 1 /\ incoming'[i] = incoming[i + 1]
  <2>1. /\ incoming' \in Seq(M)
        /\ Len(incoming') = Len(incoming) - 1
        /\ \A i \in 1 .. Len(incoming') : incoming'[i] = incoming[i + 1]
    BY <1>0, <1>t, HeadTailProperties
  <2>2. Len(incoming) \in Nat \ {0} /\ Head(incoming) = incoming[1]
    BY <1>0, <1>t, EmptySeq
  <2>3. \A i \in 1 .. Len(incoming') : i + 1 \in 1 .. Len(incoming) /\ i + 1 # 1
    BY <2>1, <2>2
  <2> QED
    BY <2>1, <2>2, <2>3
<1>u. ASSUME incoming # << >>, incoming' = Tail(incoming)
      PROVE  \A i, j \in 1 .. Len(incoming') :
                 IsResponse(incoming'[i]) /\ IsResponse(incoming'[j]) /\ incoming'[i].arg = incoming'[j].arg
                     => i = j
  <2> SUFFICES ASSUME NEW i \in 1 .. Len(incoming'), NEW j \in 1 .. Len(incoming'),
                      IsResponse(incoming'[i]), IsResponse(incoming'[j]), incoming'[i].arg = incoming'[j].arg
               PROVE  i = j
    OBVIOUS
  <2>1. /\ i + 1 \in 1 .. Len(incoming) /\ incoming'[i] = incoming[i + 1]
        /\ j + 1 \in 1 .. Len(incoming) /\ incoming'[j] = incoming[j + 1]
    BY <1>t, <1>u
  <2>2. i + 1 = j + 1
    BY <1>i, <2>1
  <2> QED
    BY <2>2
<1>4. CASE incoming # << >> /\ incoming' = Tail(incoming) /\ UNCHANGED <<answered, responses>>
  <2>1. \A i \in 1 .. Len(incoming') :
            IsResponse(incoming'[i]) => incoming'[i].arg \in answered' \ DOMAIN responses'
    BY <1>i, <1>t, <1>4
  <2> QED
    BY <1>0, <1>4, <1>t, <1>u, <2>1 DEF IncomingInv, M
<1>5. ASSUME incoming # << >>, incoming' = Tail(incoming), answered' = answered,
             IsResponse(Head(incoming)),
             responses' = [r \in DOMAIN responses \cup {Head(incoming).arg} |->
                              IF r = Head(incoming).arg THEN Head(incoming).kind = "result" ELSE responses[r]]
      PROVE  /\ IncomingInv' /\ incoming' \in Seq(M) /\ DOMAIN responses' \subseteq answered'
             /\ responses' \in [DOMAIN responses' -> BOOLEAN]
  <2>1. DOMAIN responses' = DOMAIN responses \cup {incoming[1].arg} /\ IsResponse(incoming[1])
    BY <1>5, <1>t
  <2>2. \A i \in 1 .. Len(incoming') : IsResponse(incoming'[i]) => incoming'[i].arg # incoming[1].arg
    BY <1>i, <1>t, <1>5, <2>1
  <2>3. \A i \in 1 .. Len(incoming') :
            IsResponse(incoming'[i]) => incoming'[i].arg \in answered' \ DOMAIN responses'
    BY <1>i, <1>t, <1>5, <2>1, <2>2
  <2>4. DOMAIN responses' \subseteq answered'
    BY <1>0, <1>i, <1>t, <1>5, <2>1
  <2>5. responses' \in [DOMAIN responses' -> BOOLEAN]
    BY <1>0, <1>5
  <2> QED
    BY <1>t, <1>u, <1>5, <2>3, <2>4, <2>5 DEF IncomingInv
<1> QED
  BY <1>0, <1>s, <1>1, <1>2, <1>3, <1>4, <1>5 DEF IncomingStep, M

-----------------------------------------------------------------------------
(* Answers                                                                 *)

\* Handlers keep waiting for the request of their document, and whoever fails
\* has been refused.
LEMMA AnswerStep ==
    ServerInv /\ [Next]_vars => AnswerInv'
<1> SUFFICES ASSUME ServerInv, [Next]_vars PROVE AnswerInv'
  OBVIOUS
<1>0. /\ stack \in Seq(Frames)
      /\ DOMAIN stack = 1 .. Len(stack)
      /\ \A i \in DOMAIN stack : stack[i].uri \in Uris /\ stack[i].awaits \in Nat
      /\ serialSendId \in Nat
      /\ requests \in Nat
      /\ pending \in [Uris -> (0 .. requests - 1) \cup {None}]
      /\ DOMAIN responses \subseteq answered
      /\ answered \subseteq 0 .. requests - 1
      /\ \A f \in failed : f.uri \in Uris
      /\ None \notin Nat
  <2>1. TypeOK
    BY DEF ServerInv
  <2>2. /\ stack \in Seq(Frames) /\ serialSendId \in Nat /\ requests \in Nat
        /\ DOMAIN stack = 1 .. Len(stack)
        /\ \A i \in DOMAIN stack : stack[i] \in Frames
    BY <2>1, StackFacts
  <2>3. \A f \in Frames : f.uri \in Uris /\ f.awaits \in Nat
    BY DEF Frames
  <2>4. None \notin Nat
    BY ConcurrentAssumption
  <2>5. /\ pending \in [Uris -> (0 .. requests - 1) \cup {None}]
        /\ DOMAIN responses \subseteq answered
        /\ answered \subseteq 0 .. requests - 1
        /\ \A f \in failed : f.uri \in Uris
    BY <2>1 DEF TypeOK
  <2> QED
    BY <2>2, <2>3, <2>4, <2>5
<1>a. /\ \A i \in DOMAIN stack :
             \/ pending[stack[i].uri] = stack[i].awaits
             \/ stack[i].awaits \in DOMAIN responses /\ responses[stack[i].awaits]
      /\ \A u \in Uris : pending[u] \in DOMAIN responses => Refused(u)
      /\ \A f \in failed : exit \/ Refused(f.uri)
  BY DEF ServerInv, AnswerInv
<1>b. None \notin DOMAIN responses /\ requests \notin DOMAIN responses
  <2>1. \A r \in 0 .. requests - 1 : r \in Nat /\ r # requests
    BY <1>0
  <2> QED
    BY <1>0, <2>1
<1>1. CASE UNCHANGED <<stack, pending, responses, failed, exit>>
  BY <1>a, <1>1 DEF AnswerInv, Refused
<1>2. CASE HandleExit
  BY <1>a, <1>2 DEF HandleExit, AnswerInv, Refused
<1>3. ASSUME NEW u \in Uris, HandleRefused(u) PROVE AnswerInv'
  <2>1. /\ failed' = failed \cup {[sendId |-> serialSendId, uri |-> u]}
        /\ pending[u] \in DOMAIN responses
        /\ UNCHANGED <<stack, pending, responses, exit>>
    BY <1>3 DEF HandleRefused
  <2>2. Refused(u)
    BY <1>a, <2>1
  <2>3. \A f \in failed' : exit \/ Refused(f.uri)
    BY <1>a, <2>1, <2>2
  <2> QED
    BY <1>a, <2>1, <2>3 DEF AnswerInv, Refused
<1>4. ASSUME NEW u \in Uris, HandleAsk(u) PROVE AnswerInv'
  <2> DEFINE f == [sendId |-> serialSendId, uri |-> u, awaits |-> requests]
  <2>1. /\ stack' = Append(stack, f)
        /\ pending[u] = None
        /\ pending' = [pending EXCEPT ![u] = requests]
        /\ UNCHANGED <<responses, failed, exit>>
    BY <1>4 DEF HandleAsk, MustAsk, Await
  <2>2. f \in Frames /\ f.uri = u /\ f.awaits = requests
    BY <1>0 DEF Frames
  <2> HIDE DEF f
  <2>3. /\ DOMAIN stack' = (1 .. Len(stack)) \cup {Len(stack) + 1}
        /\ \A i \in 1 .. Len(stack) : stack'[i] = stack[i]
        /\ stack'[Len(stack) + 1] = f
    BY <1>0, <2>1, <2>2, PushFrame
  <2>4. pending'[u] = requests /\ \A v \in Uris \ {u} : pending'[v] = pending[v]
    BY <1>0, <2>1
  <2>5. \A i \in DOMAIN stack' :
            \/ pending'[stack'[i].uri] = stack'[i].awaits
            \/ stack'[i].awaits \in DOMAIN responses /\ responses[stack'[i].awaits]
    <3>1. ASSUME NEW i \in DOMAIN stack
          PROVE  \/ pending'[stack[i].uri] = stack[i].awaits
                 \/ stack[i].awaits \in DOMAIN responses /\ responses[stack[i].awaits]
      BY <1>0, <1>a, <2>1, <2>4
    <3> QED
      BY <1>0, <2>2, <2>3, <2>4, <3>1
  <2>6. \A v \in Uris : pending'[v] \in DOMAIN responses => v # u /\ Refused(v)
    BY <1>a, <1>b, <2>4
  <2>7. \A v \in Uris : Refused(v) => Refused(v)'
    BY <1>b, <2>1, <2>4 DEF Refused
  <2> QED
    BY <1>0, <1>a, <2>1, <2>5, <2>6, <2>7 DEF AnswerInv
<1>5. ASSUME NEW u \in Uris, HandleJoin(u) PROVE AnswerInv'
  <2> DEFINE f == [sendId |-> serialSendId, uri |-> u, awaits |-> pending[u]]
  <2>1. /\ stack' = Append(stack, f)
        /\ pending[u] # None
        /\ UNCHANGED <<pending, responses, failed, exit>>
    BY <1>5 DEF HandleJoin, MustAsk, Await
  <2>2. f \in Frames /\ f.uri = u /\ f.awaits = pending[u]
    BY <1>0, <2>1 DEF Frames
  <2> HIDE DEF f
  <2>3. /\ DOMAIN stack' = (1 .. Len(stack)) \cup {Len(stack) + 1}
        /\ \A i \in 1 .. Len(stack) : stack'[i] = stack[i]
        /\ stack'[Len(stack) + 1] = f
    BY <1>0, <2>1, <2>2, PushFrame
  <2>4. \A i \in DOMAIN stack' :
            \/ pending'[stack'[i].uri] = stack'[i].awaits
            \/ stack'[i].awaits \in DOMAIN responses /\ responses[stack'[i].awaits]
    BY <1>0, <1>a, <2>1, <2>2, <2>3
  <2> QED
    BY <1>a, <2>1, <2>4 DEF AnswerInv, Refused
<1>6. ASSUME NEW kind \in {"result", "error"}, NEW id \in 0 .. requests - 1, HandleResponse(kind, id)
      PROVE  AnswerInv'
  <2>1. /\ UNCHANGED <<stack, failed, exit>>
        /\ responses' = [r \in DOMAIN responses \cup {id} |-> IF r = id THEN kind = "result" ELSE responses[r]]
    BY <1>6 DEF HandleResponse
  <2>2. id \notin DOMAIN responses
    <3>1. incoming # << >> /\ Head(incoming) = [kind |-> kind, arg |-> id]
      BY <1>6 DEF HandleResponse, Receive
    <3>2. incoming \in Seq(Message \cup Response)
      BY DEF ServerInv, TypeOK
    <3>3. 1 \in 1 .. Len(incoming) /\ incoming[1].kind = kind /\ incoming[1].arg = id
      BY <3>1, <3>2, EmptySeq
    <3> QED
      BY <3>3 DEF ServerInv, IncomingInv, IsResponse
  <2>3. DOMAIN responses' = DOMAIN responses \cup {id} /\ \A r \in DOMAIN responses : responses'[r] = responses[r]
    BY <2>1, <2>2
  <2>4. responses'[id] = (kind = "result")
    BY <2>1
  <2>5. CASE kind = "result"
    <3>1. pending' = [u \in Uris |-> IF pending[u] = id THEN None ELSE pending[u]]
      BY <1>6, <2>5 DEF HandleResponse
    <3>2. \A u \in Uris : pending'[u] = IF pending[u] = id THEN None ELSE pending[u]
      BY <3>1
    <3>3. responses'[id]
      BY <2>4, <2>5
    <3>4. \A i \in DOMAIN stack' :
              \/ pending'[stack'[i].uri] = stack'[i].awaits
              \/ stack'[i].awaits \in DOMAIN responses' /\ responses'[stack'[i].awaits]
      BY <1>0, <1>a, <2>1, <2>3, <3>2, <3>3
    <3>5. None \notin DOMAIN responses'
      BY <1>0, <1>b, <2>3
    <3>6. \A u \in Uris : pending'[u] \in DOMAIN responses' => pending'[u] = pending[u] /\ Refused(u)
      BY <1>a, <2>3, <3>2, <3>5
    <3>7. \A u \in Uris : Refused(u) => Refused(u)'
      BY <2>2, <2>3, <3>2 DEF Refused
    <3> QED
      BY <1>0, <1>a, <2>1, <3>4, <3>6, <3>7 DEF AnswerInv
  <2>6. CASE kind = "error"
    <3>1. pending' = pending
      BY <1>6, <2>6 DEF HandleResponse
    <3>2. ~responses'[id]
      BY <2>4, <2>6
    <3>3. \A i \in DOMAIN stack' :
              \/ pending'[stack'[i].uri] = stack'[i].awaits
              \/ stack'[i].awaits \in DOMAIN responses' /\ responses'[stack'[i].awaits]
      BY <1>a, <2>1, <2>3, <3>1
    <3>4. \A u \in Uris : Refused(u) => Refused(u)'
      BY <2>3, <3>1 DEF Refused
    <3>5. \A u \in Uris : pending'[u] \in DOMAIN responses' => Refused(u)'
      <4> SUFFICES ASSUME NEW u \in Uris, pending'[u] \in DOMAIN responses' PROVE Refused(u)'
        OBVIOUS
      <4>1. CASE pending[u] = id
        BY <2>3, <3>1, <3>2, <4>1 DEF Refused
      <4>2. CASE pending[u] # id
        BY <1>a, <2>3, <3>1, <3>4, <4>2
      <4> QED
        BY <4>1, <4>2
    <3> QED
      BY <1>0, <1>a, <2>1, <3>3, <3>4, <3>5 DEF AnswerInv
  <2> QED
    BY <2>5, <2>6
<1>7. CASE Resume
  <2> DEFINE top == stack[Len(stack)]
             ok == top.awaits \in DOMAIN responses /\ responses[top.awaits]
  <2>1. /\ stack # << >> /\ stack' = Front(stack)
        /\ Last(stack).awaits \in DOMAIN responses \/ exit
        /\ UNCHANGED <<pending, responses, exit>>
    BY <1>7 DEF Resume, IsDone
  <2>2. /\ Len(stack) \in DOMAIN stack
        /\ Last(stack) = top
        /\ DOMAIN stack = (1 .. Len(stack) - 1) \cup {Len(stack)}
        /\ DOMAIN stack' = 1 .. Len(stack) - 1
        /\ \A i \in 1 .. Len(stack) - 1 : stack'[i] = stack[i]
    BY <1>0, <2>1, PopFrame
  <2>3. failed' = IF ok THEN failed ELSE failed \cup {[sendId |-> top.sendId, uri |-> top.uri]}
    BY <1>7, <2>2 DEF Resume
  <2>4. ~ok => exit \/ Refused(top.uri)
    BY <1>0, <1>a, <2>1, <2>2
  <2>5. \A f \in failed' : exit \/ Refused(f.uri)
    BY <1>a, <2>3, <2>4
  <2>6. \A i \in DOMAIN stack' :
            \/ pending[stack'[i].uri] = stack'[i].awaits
            \/ stack'[i].awaits \in DOMAIN responses /\ responses[stack'[i].awaits]
    BY <1>a, <2>2
  <2> QED
    BY <1>a, <2>1, <2>5, <2>6 DEF AnswerInv, Refused
<1>8. CASE HandlePlain
  BY <1>1, <1>8 DEF HandlePlain
<1>9. ASSUME NEW u \in Uris, HandleKnown(u) PROVE AnswerInv'
  BY <1>1, <1>9 DEF HandleKnown
<1>10. CASE ClientSends \/ ClientAnswers \/ Continue \/ UNCHANGED vars
  BY <1>1, <1>10 DEF ClientSends, ClientAnswers, Continue, vars, serverVars
<1> QED
  BY <1>2, <1>3, <1>4, <1>5, <1>6, <1>7, <1>8, <1>9, <1>10 DEF Next, Server

-----------------------------------------------------------------------------
(* Types                                                                   *)

\* The variables whose types depend on the number of messages and requests.
Counted == <<serialSendId, requests, stack, pending, failed>>

StackOK == stack \in Seq(Frames) /\ FramesBelow(stack, serialSendId, requests)
               /\ \A i, j \in DOMAIN stack : i < j => stack[i].sendId < stack[j].sendId
FailedOK == failed \subseteq [sendId : 0 .. serialSendId - 1, uri : Uris]
PendingOK == pending \in [Uris -> (0 .. requests - 1) \cup {None}]

\* A step keeps the types of these variables.
LEMMA CountedStep ==
    ServerInv /\ [Next]_vars =>
        /\ StackOK' /\ FailedOK' /\ PendingOK'
        /\ serialSendId' \in Nat /\ requests' \in Nat /\ requests' >= requests
<1> SUFFICES ASSUME ServerInv, [Next]_vars
             PROVE  /\ StackOK' /\ FailedOK' /\ PendingOK'
                    /\ serialSendId' \in Nat /\ requests' \in Nat /\ requests' >= requests
  OBVIOUS
<1> DEFINE N == serialSendId
           R == requests
           Goal == /\ StackOK' /\ FailedOK' /\ PendingOK'
                   /\ serialSendId' \in Nat /\ requests' \in Nat /\ requests' >= requests
<1>0. /\ N \in Nat /\ R \in Nat
      /\ stack \in Seq(Frames)
      /\ Len(stack) \in Nat
      /\ DOMAIN stack = 1 .. Len(stack)
      /\ \A i \in 1 .. Len(stack) :
             /\ stack[i].sendId \in Nat /\ stack[i].sendId < N /\ stack[i].uri \in Uris
             /\ stack[i].awaits \in Nat /\ stack[i].awaits < R
      /\ \A i, j \in 1 .. Len(stack) : i < j => stack[i].sendId < stack[j].sendId
      /\ pending \in [Uris -> (0 .. R - 1) \cup {None}]
      /\ failed \subseteq [sendId : 0 .. N - 1, uri : Uris]
  <2>1. TypeOK
    BY DEF ServerInv
  <2>2. \A f \in Frames : f.sendId \in Nat /\ f.awaits \in Nat /\ f.uri \in Uris
    BY DEF Frames
  <2>3. pending \in [Uris -> (0 .. R - 1) \cup {None}] /\ failed \subseteq [sendId : 0 .. N - 1, uri : Uris]
    BY <2>1 DEF TypeOK
  <2>4. stack \in Seq(Frames) => Len(stack) \in Nat
    OBVIOUS
  <2> QED
    BY <2>1, <2>2, <2>3, <2>4, StackFacts DEF FramesBelow
<1>f. [sendId : 0 .. N - 1, uri : Uris] \subseteq [sendId : 0 .. N, uri : Uris]
  BY <1>0
<1>1. CASE UNCHANGED Counted
  BY <1>0, <1>1 DEF Counted, StackOK, FailedOK, PendingOK, FramesBelow
<1>2. ASSUME serialSendId' = N + 1, UNCHANGED <<requests, stack, pending>>,
             failed' \subseteq [sendId : 0 .. N, uri : Uris]
      PROVE  Goal
  <2>1. StackOK'
    BY <1>0, <1>2 DEF StackOK, FramesBelow
  <2>2. FailedOK'
    <3>1. serialSendId' - 1 = N
      BY <1>0, <1>2
    <3> QED
      BY <1>2, <3>1 DEF FailedOK
  <2> QED
    BY <1>0, <1>2, <2>1, <2>2 DEF PendingOK
<1>3. CASE HandlePlain
  BY <1>0, <1>f, <1>2, <1>3 DEF HandlePlain, Receive
<1>4. CASE HandleExit
  BY <1>0, <1>f, <1>2, <1>4 DEF HandleExit, Receive
<1>5. ASSUME NEW u \in Uris, HandleKnown(u) PROVE Goal
  BY <1>0, <1>f, <1>2, <1>5 DEF HandleKnown, Receive
<1>6. ASSUME NEW u \in Uris, HandleRefused(u) PROVE Goal
  <2>1. /\ failed' = failed \cup {[sendId |-> N, uri |-> u]}
        /\ serialSendId' = N + 1 /\ UNCHANGED <<requests, stack, pending>>
    BY <1>6 DEF HandleRefused, Receive
  <2>2. [sendId |-> N, uri |-> u] \in [sendId : 0 .. N, uri : Uris]
    BY <1>0
  <2>3. failed' \subseteq [sendId : 0 .. N, uri : Uris]
    BY <1>0, <1>f, <2>1, <2>2
  <2> QED
    BY <1>2, <2>1, <2>3
<1>7. ASSUME NEW u \in Uris, NEW r \in Nat, Await(u, r), serialSendId' = N + 1,
             requests' \in {R, R + 1}, r < requests', failed' = failed
      PROVE  StackOK' /\ FailedOK'
  <2> DEFINE f == [sendId |-> N, uri |-> u, awaits |-> r]
  <2>1. stack' = Append(stack, f) /\ f \in Frames /\ f.sendId = N /\ f.awaits = r
    BY <1>0, <1>7 DEF Await, Frames
  <2> HIDE DEF f
  <2>2. /\ stack' \in Seq(Frames)
        /\ Len(stack') = Len(stack) + 1
        /\ DOMAIN stack' = (1 .. Len(stack)) \cup {Len(stack) + 1}
        /\ \A i \in 1 .. Len(stack) : stack'[i] = stack[i]
        /\ stack'[Len(stack) + 1] = f
    BY <1>0, <2>1, PushFrame
  <2>3. \A i \in 1 .. Len(stack') : i = Len(stack) + 1 \/ i \in 1 .. Len(stack)
    <3>1. \A i \in 1 .. Len(stack) + 1 : i = Len(stack) + 1 \/ i \in 1 .. Len(stack)
      BY <1>0
    <3> QED
      BY <2>2, <3>1
  <2>4. FramesBelow(stack', N + 1, requests')
    <3> SUFFICES ASSUME NEW i \in 1 .. Len(stack')
                 PROVE  stack'[i].sendId < N + 1 /\ stack'[i].awaits < requests'
      BY DEF FramesBelow
    <3>1. CASE i = Len(stack) + 1
      BY <1>0, <1>7, <2>1, <2>2, <3>1
    <3>2. CASE i \in 1 .. Len(stack)
      <4>1. stack'[i] = stack[i]
        BY <2>2, <3>2
      <4>2. /\ stack[i].sendId \in Nat /\ stack[i].sendId < N
            /\ stack[i].awaits \in Nat /\ stack[i].awaits < R
        BY <1>0, <3>2
      <4> QED
        BY <1>0, <1>7, <4>1, <4>2
    <3> QED
      BY <2>3, <3>1, <3>2
  <2>5. \A i, j \in DOMAIN stack' : i < j => stack'[i].sendId < stack'[j].sendId
    <3> SUFFICES ASSUME NEW i \in DOMAIN stack', NEW j \in DOMAIN stack', i < j
                 PROVE  stack'[i].sendId < stack'[j].sendId
      OBVIOUS
    <3>1. i \in 1 .. Len(stack)
      BY <1>0, <2>2
    <3>2. CASE j = Len(stack) + 1
      BY <1>0, <2>1, <2>2, <3>1, <3>2
    <3>3. CASE j \in 1 .. Len(stack)
      BY <1>0, <2>2, <3>1, <3>3
    <3> QED
      BY <2>2, <3>2, <3>3
  <2>6. StackOK'
    BY <1>7, <2>2, <2>4, <2>5 DEF StackOK
  <2>7. N + 1 - 1 = N
    BY <1>0
  <2>8. FailedOK'
    BY <1>0, <1>f, <1>7, <2>7 DEF FailedOK
  <2> QED
    BY <2>6, <2>8
<1>8. ASSUME NEW u \in Uris, HandleAsk(u) PROVE Goal
  <2>1. /\ Await(u, R) /\ serialSendId' = N + 1 /\ requests' = R + 1 /\ failed' = failed
        /\ pending' = [pending EXCEPT ![u] = R]
    BY <1>8 DEF HandleAsk, Receive
  <2>2. StackOK' /\ FailedOK'
    BY <1>0, <1>7, <2>1
  <2>3. PendingOK'
    BY <1>0, <2>1 DEF PendingOK
  <2> QED
    BY <1>0, <2>1, <2>2, <2>3
<1>9. ASSUME NEW u \in Uris, HandleJoin(u) PROVE Goal
  <2>1. /\ Await(u, pending[u]) /\ serialSendId' = N + 1
        /\ UNCHANGED <<requests, pending, failed>> /\ pending[u] # None
    BY <1>9 DEF HandleJoin, Receive, MustAsk
  <2>2. pending[u] \in Nat /\ pending[u] < R
    BY <1>0, <2>1
  <2>3. StackOK' /\ FailedOK'
    BY <1>0, <1>7, <2>1, <2>2
  <2> QED
    BY <1>0, <2>1, <2>3 DEF PendingOK
<1>10. ASSUME NEW kind \in {"result", "error"}, NEW id, HandleResponse(kind, id) PROVE Goal
  <2>1. serialSendId' = N + 1 /\ UNCHANGED <<requests, stack, failed>>
    BY <1>10 DEF HandleResponse, Receive
  <2>2. StackOK'
    BY <1>0, <2>1 DEF StackOK, FramesBelow
  <2>3. N + 1 - 1 = N
    BY <1>0
  <2>4. FailedOK'
    BY <1>0, <1>f, <2>1, <2>3 DEF FailedOK
  <2>5. PendingOK'
    <3>1. CASE kind = "result"
      <4>1. pending' = [u \in Uris |-> IF pending[u] = id THEN None ELSE pending[u]]
        BY <1>10, <3>1 DEF HandleResponse
      <4> QED
        BY <1>0, <2>1, <4>1 DEF PendingOK
    <3>2. CASE kind = "error"
      <4>1. pending' = pending
        BY <1>10, <3>2 DEF HandleResponse
      <4> QED
        BY <1>0, <2>1, <4>1 DEF PendingOK
    <3> QED
      BY <3>1, <3>2
  <2> QED
    BY <1>0, <2>1, <2>2, <2>4, <2>5
<1>11. CASE Resume
  <2> DEFINE top == stack[Len(stack)]
  <2>1. /\ stack # << >> /\ stack' = Front(stack)
        /\ UNCHANGED <<serialSendId, requests, pending>>
    BY <1>11 DEF Resume, IsDone
  <2>2. /\ Len(stack) \in 1 .. Len(stack)
        /\ Last(stack) = top
        /\ stack' \in Seq(Frames)
        /\ Len(stack') = Len(stack) - 1
        /\ DOMAIN stack' = 1 .. Len(stack) - 1
        /\ \A i \in 1 .. Len(stack) - 1 : stack'[i] = stack[i]
    BY <1>0, <2>1, PopFrame
  <2>3. failed' = failed \/ failed' = failed \cup {[sendId |-> top.sendId, uri |-> top.uri]}
    BY <1>11, <2>2 DEF Resume
  <2>4. [sendId |-> top.sendId, uri |-> top.uri] \in [sendId : 0 .. N - 1, uri : Uris]
    <3>1. top.sendId \in 0 .. N - 1 /\ top.uri \in Uris
      BY <1>0, <2>2
    <3> QED
      BY <3>1
  <2>5. FailedOK'
    BY <1>0, <2>1, <2>3, <2>4 DEF FailedOK
  <2>6. \A i \in 1 .. Len(stack) - 1 : i \in 1 .. Len(stack)
    BY <1>0
  <2>7. StackOK'
    BY <1>0, <2>1, <2>2, <2>6 DEF StackOK, FramesBelow
  <2> QED
    BY <1>0, <2>1, <2>5, <2>7 DEF PendingOK
<1>12. CASE ClientSends \/ ClientAnswers \/ Continue \/ UNCHANGED vars
  BY <1>1, <1>12 DEF ClientSends, ClientAnswers, Continue, vars, serverVars, Counted
<1> QED
  BY <1>3, <1>4, <1>5, <1>6, <1>8, <1>9, <1>10, <1>11, <1>12 DEF Next, Server

\* A step keeps the type invariant.
LEMMA TypeStep ==
    ServerInv /\ [Next]_vars => TypeOK'
<1> SUFFICES ASSUME ServerInv, [Next]_vars PROVE TypeOK'
  OBVIOUS
<1>1. /\ StackOK' /\ FailedOK' /\ PendingOK'
      /\ serialSendId' \in Nat /\ requests' \in Nat /\ requests' >= requests
  BY CountedStep
<1>2. stack' \in Seq([sendId : 0 .. serialSendId' - 1, uri : Uris, awaits : 0 .. requests' - 1])
  BY <1>1, FrameTypes DEF StackOK
<1>3. sender' \in [outgoing : Seq(Nat), pendingSendId : 0 .. serialSendId', pendingMessages : SUBSET Pending]
  BY TurnStep DEF TurnInv, InTurn, SenderType
<1>4. /\ incoming' \in Seq(Message \cup Response)
      /\ answered' \subseteq 0 .. requests - 1
      /\ DOMAIN responses' \subseteq answered'
      /\ responses' \in [DOMAIN responses' -> BOOLEAN]
  BY IncomingPreserved
<1>5. answered' \subseteq 0 .. requests' - 1
  <2>1. requests \in Nat
    BY DEF ServerInv, TypeOK
  <2>2. \A k \in 0 .. requests - 1 : k \in 0 .. requests' - 1
    <3>1. requests' \in Nat /\ requests' >= requests
      BY <1>1
    <3>2. \A m, n \in Nat : n >= m => \A k \in 0 .. m - 1 : k \in 0 .. n - 1
      OBVIOUS
    <3> QED
      BY <2>1, <3>1, <3>2
  <2> QED
    BY <1>4, <2>2
<1>6. left' \in 0 .. MaxMessages
  <2>1. left \in 0 .. MaxMessages /\ MaxMessages \in Nat
    BY ConcurrentAssumption DEF ServerInv, TypeOK
  <2>2. left' = left \/ (left > 0 /\ left' = left - 1)
    BY DEF Next, Server, ClientSends, ClientAnswers, HandlePlain, HandleExit, HandleKnown, HandleRefused,
           HandleAsk, HandleJoin, HandleResponse, Resume, Continue, vars
  <2> QED
    BY <2>1, <2>2
<1>7. returned' \in BOOLEAN /\ exit' \in BOOLEAN
  <2>1. returned \in BOOLEAN /\ exit \in BOOLEAN
    BY DEF ServerInv, TypeOK
  <2>2. returned' \in {returned, TRUE, FALSE} /\ exit' \in {exit, TRUE}
    BY DEF Next, Server, ClientSends, ClientAnswers, HandlePlain, HandleExit, HandleKnown, HandleRefused,
           HandleAsk, HandleJoin, HandleResponse, Resume, Continue, vars, serverVars
  <2> QED
    BY <2>1, <2>2
<1>8. configs' \subseteq Uris
  <2>1. configs \subseteq Uris
    BY DEF ServerInv, TypeOK
  <2>2. configs' = configs \/ \E id : configs' = configs \cup {u \in Uris : pending[u] = id}
    BY DEF Next, Server, ClientSends, ClientAnswers, HandlePlain, HandleExit, HandleKnown, HandleRefused,
           HandleAsk, HandleJoin, HandleResponse, Resume, Continue, vars, serverVars
  <2> QED
    BY <2>1, <2>2
<1> QED
  BY <1>1, <1>2, <1>3, <1>4, <1>5, <1>6, <1>7, <1>8 DEF TypeOK, StackOK, FailedOK, PendingOK

-----------------------------------------------------------------------------
(* The theorems                                                            *)

\* The initial state.
LEMMA InitServer == Init => ServerInv
<1> SUFFICES ASSUME Init PROVE ServerInv
  OBVIOUS
<1>0. MaxMessages \in Nat
  BY ConcurrentAssumption
<1>1. /\ sender.outgoing = << >> /\ sender.pendingSendId = 0 /\ sender.pendingMessages = {}
      /\ sender \in [outgoing : Seq(Nat), pendingSendId : 0 .. 0, pendingMessages : SUBSET Pending]
  BY DEF Init
<1>2. TypeOK
  <2>1. stack \in Seq([sendId : 0 .. serialSendId - 1, uri : Uris, awaits : 0 .. requests - 1])
    BY DEF Init
  <2>2. incoming \in Seq(Message \cup Response)
    BY DEF Init
  <2>3. /\ pending \in [Uris -> (0 .. requests - 1) \cup {None}]
        /\ DOMAIN responses = {}
        /\ responses \in [DOMAIN responses -> BOOLEAN]
    BY DEF Init
  <2>4. DOMAIN stack = {}
    BY DEF Init
  <2>5. left \in 0 .. MaxMessages
    BY <1>0 DEF Init
  <2> QED
    BY <1>1, <2>1, <2>2, <2>3, <2>4, <2>5 DEF Init, TypeOK
<1>3. TurnInv
  BY <1>1 DEF Init, TurnInv, InTurn, SenderType, Ascending, Settled, IdsOf, Done
<1>4. IncomingInv /\ AnswerInv
  BY ConcurrentAssumption DEF Init, IncomingInv, AnswerInv
<1> QED
  BY <1>2, <1>3, <1>4 DEF ServerInv

\* The invariant is inductive.
LEMMA ServerInductive == Spec => []ServerInv
<1>1. ServerInv /\ [Next]_vars => ServerInv'
  BY TypeStep, TurnStep, IncomingPreserved, AnswerStep DEF ServerInv
<1> QED
  BY InitServer, <1>1, PTL DEF Spec

\* The responses leave the single-threaded server in order of receipt, each
\* once, however its handlers nest: send(), sendAllReady() and the end of
\* handle().
THEOREM ConcurrentServerKeepsOrder == Spec => []InOrderOfReceipt
<1>1. ServerInv => InOrderOfReceipt
  BY DEF ServerInv, TurnInv, InTurn, Ascending, InOrderOfReceipt
<1> QED
  BY <1>1, ServerInductive, PTL

\* Between two messages the turn is with the outermost handler that waits in
\* awaitResponse(); if none does, everything has been sent.
THEOREM ConcurrentServerHoldsBackOnly == Spec => []OnlyAwaitHoldsBack
<1>1. ServerInv => OnlyAwaitHoldsBack
  <2> SUFFICES ASSUME ServerInv, ~exit
               PROVE  /\ sender.pendingSendId = IF stack = << >> THEN serialSendId ELSE stack[1].sendId
                      /\ stack = << >> => sender.pendingMessages = {}
    BY DEF ServerInv, OnlyAwaitHoldsBack
  <2>1. TypeOK /\ TurnInv
    BY DEF ServerInv
  <2>2. /\ serialSendId \in Nat
        /\ stack \in Seq(Frames)
        /\ DOMAIN stack = 1 .. Len(stack)
        /\ \A i \in DOMAIN stack : stack[i].sendId \in Nat /\ stack[i].sendId < serialSendId
        /\ \A i, j \in DOMAIN stack : i < j => stack[i].sendId < stack[j].sendId
    <3>1. \A f \in Frames : f.sendId \in Nat
      BY DEF Frames
    <3> QED
      BY <2>1, <3>1, StackFacts DEF FramesBelow
  <2> DEFINE P == sender.pendingSendId
  <2>3. P \in 0 .. serialSendId
    BY <2>1 DEF TurnInv, InTurn, SenderType
  <2>4. P \notin Done(sender)
    BY <2>1, <2>3 DEF TurnInv, Settled, Done
  <2>5. P = serialSendId \/ \E i \in DOMAIN stack : stack[i].sendId = P
    <3>1. P = serialSendId \/ P \in 0 .. serialSendId - 1
      BY <2>2, <2>3
    <3> QED
      BY <2>1, <2>4, <3>1 DEF TurnInv
  <2>6. CASE stack = << >>
    <3>1. DOMAIN stack = {}
      BY <2>6
    <3>2. P = serialSendId
      BY <2>5, <3>1
    <3>3. \A e \in sender.pendingMessages : e.id \in Nat /\ P <= e.id /\ e.id < serialSendId
      BY <2>1 DEF TurnInv, InTurn, SenderType, Pending
    <3>4. \A e \in sender.pendingMessages : FALSE
      BY <2>2, <3>2, <3>3
    <3> QED
      BY <2>6, <3>2, <3>4
  <2>7. CASE stack # << >>
    <3>1. 1 \in DOMAIN stack
      BY <2>2, <2>7, EmptySeq
    <3>2. stack[1].sendId \in Nat /\ P <= stack[1].sendId /\ stack[1].sendId < serialSendId
      BY <2>1, <2>2, <3>1, NotDone DEF TurnInv
    <3>3. PICK i \in DOMAIN stack : stack[i].sendId = P
      BY <2>2, <2>3, <2>5, <3>2
    <3>4. stack[1].sendId <= stack[i].sendId
      BY <2>2, <3>1
    <3> QED
      BY <2>3, <2>7, <3>2, <3>3, <3>4
  <2> QED
    BY <2>6, <2>7
<1> QED
  BY <1>1, ServerInductive, PTL

\* The handlers that need the configuration of a document share one request
\* and one answer, and a request fails only if the client refused the
\* configuration of its document, or the server exits: getConfig() and
\* handleResponse().
THEOREM ConcurrentServerSharesAnswers == Spec => []AnswersAreShared
<1>1. ServerInv => AnswersAreShared
  BY DEF ServerInv, AnswerInv, AnswersAreShared, Refused
<1> QED
  BY <1>1, ServerInductive, PTL
=============================================================================
