------------------------- MODULE ThreadPoolProofs -------------------------
(***************************************************************************)
(* Theorems about Queue (src/server/queue.hpp), for every capacity, set of *)
(* threads and set of values, and about ThreadPool, which is built on it   *)
(* (src/server/thread_pool.cpp), for every set of workers, clients and     *)
(* tasks.  Those about Queue do not use PoolAssumption.                    *)
(***************************************************************************)
EXTENDS ThreadPool, SequenceTheorems, FiniteSetTheorems, TLAPS

USE QueueAssumption

\* Every ring index the code computes is the wrapped sum of two numbers
\* below the capacity, so % is a single conditional subtraction.
LEMMA Wrap ==
  ASSUME NEW n \in Nat \ {0}, NEW x \in 0 .. 2 * n - 1
  PROVE  x % n = IF x < n THEN x ELSE x - n
<1>1. CASE x < n
  BY <1>1, SMT
<1>2. CASE x >= n
  <2>1. PICK y \in 0 .. n - 1 : x = n + y
    <3>1. x - n \in 0 .. n - 1 /\ x = n + (x - n)
      BY <1>2
    <3> QED BY <3>1
  <2>2. (n + y) % n = y
    BY SMT
  <2> QED BY <1>2, <2>1, <2>2
<1> QED BY <1>1, <1>2

\* The slot k places after h.
Nth(h, k) == IF h + k < N THEN h + k ELSE h + k - N

LEMMA WrapSum ==
  ASSUME NEW h \in 0 .. N - 1, NEW k \in 0 .. N
  PROVE  (h + k) % N = Nth(h, k)
<1>1. N \in Nat \ {0}
  BY QueueAssumption
<1>2. h + k \in 0 .. 2 * N - 1
  BY <1>1
<1>3. (h + k) % N = IF h + k < N THEN h + k ELSE (h + k) - N
  BY <1>1, <1>2, Wrap, Zenon
<1> QED BY <1>3 DEF Nth

\* FirstInFirstOut with the modulo resolved.
RingInv ==
    /\ seen = Len(accepted)
    /\ Len(accepted) = Len(delivered) + size
    /\ tail = Nth(head, size)
    /\ \A k \in 1 .. Len(delivered) : delivered[k] = accepted[k]
    /\ \A k \in 0 .. size - 1 :
           buffer[Nth(head, k)] = accepted[Len(delivered) + k + 1]

\* Under the type invariant, RingInv is FirstInFirstOut.
LEMMA RingInvIsFifo == QTypeOK => (RingInv <=> FirstInFirstOut)
<1> SUFFICES ASSUME QTypeOK PROVE RingInv <=> FirstInFirstOut
  OBVIOUS
<1>1. \A k \in 0 .. N : (head + k) % N = Nth(head, k)
  BY WrapSum DEF QTypeOK, Slots
<1>2. size \in 0 .. N
  BY DEF QTypeOK
<1>3. (head + size) % N = Nth(head, size)
  BY <1>1, <1>2
<1>4. \A k \in 0 .. size - 1 : (head + k) % N = Nth(head, k)
  BY <1>1, <1>2
<1> QED BY <1>3, <1>4 DEF RingInv, FirstInFirstOut

QInv == QTypeOK /\ RingInv

LEMMA QInitInv == QInit => QInv
BY DEF QInit, QInv, QTypeOK, RingInv, Nth, Slots, PC, EnqueuePC

\* The two actions that write the ring.
LEMMA PutKeepsRing ==
  ASSUME NEW t \in Threads, QInv, EnqueuePut(t)
  PROVE  QInv'
<1> USE DEF QInv
<1>0. /\ head \in 0 .. N - 1
      /\ tail \in 0 .. N - 1
      /\ size \in 0 .. N - 1
      /\ seen \in Nat
      /\ arg[t] \in Values
  BY DEF QTypeOK, Slots, EnqueuePut, EnqueuePC
<1>1. tail' = Nth(tail, 1)
  BY <1>0, WrapSum DEF EnqueuePut, Advance
<1>2. QTypeOK'
  <2>1. tail' \in Slots
    BY <1>0, <1>1 DEF Nth, Slots
  <2>2. size' \in 0 .. N /\ seen' \in Nat
    BY <1>0 DEF EnqueuePut
  <2>3. buffer' \in [Slots -> Values \cup {NoValue}] /\ ret' \in [Threads -> Slots \cup Values \cup {NoValue}]
    BY <1>0 DEF EnqueuePut, QTypeOK, Slots
  <2>4. accepted' \in Seq(Values)
    BY <1>0 DEF EnqueuePut, QTypeOK
  <2>5. pc' \in [Threads -> PC] /\ \A u \in Threads : pc'[u] \in EnqueuePC => arg'[u] \in Values
    BY <1>0 DEF EnqueuePut, QTypeOK, Goto, PC, EnqueuePC
  <2> QED BY <2>1, <2>2, <2>3, <2>4, <2>5 DEF EnqueuePut, QTypeOK, flags
<1>3. RingInv'
  <2>1. Len(accepted') = Len(accepted) + 1 /\ Len(accepted) \in Nat /\ Len(delivered) \in Nat
    BY <1>0 DEF EnqueuePut, QTypeOK
  <2>2. \A k \in 1 .. Len(accepted) : accepted'[k] = accepted[k]
    BY <1>0 DEF EnqueuePut, QTypeOK
  <2>3. accepted'[Len(accepted) + 1] = arg[t]
    BY <1>0 DEF EnqueuePut, QTypeOK
  <2>4. seen' = Len(accepted') /\ Len(accepted') = Len(delivered') + size'
    BY <1>0, <2>1 DEF EnqueuePut, RingInv
  <2>5. tail' = Nth(head', size')
    BY <1>0, <1>1 DEF EnqueuePut, RingInv, Nth
  <2>6. \A k \in 1 .. Len(delivered') : delivered'[k] = accepted'[k]
    BY <1>0, <2>1, <2>2 DEF EnqueuePut, RingInv
  <2>7. ASSUME NEW k \in 0 .. size' - 1
        PROVE  buffer'[Nth(head', k)] = accepted'[Len(delivered') + k + 1]
    <3>1. size' = size + 1 /\ head' = head /\ delivered' = delivered
      BY DEF EnqueuePut
    <3>2. buffer' = [buffer EXCEPT ![tail] = arg[t]] /\ buffer \in [0 .. N - 1 -> Values \cup {NoValue}]
      BY DEF EnqueuePut, QTypeOK, Slots
    <3>3. CASE k = size
      BY <1>0, <2>1, <2>3, <3>1, <3>2, <3>3 DEF RingInv
    <3>4. CASE k < size
      <4>0. k \in 0 .. size - 1
        BY <1>0, <3>1, <3>4
      <4>1. Nth(head, k) \in 0 .. N - 1 /\ Nth(head, k) # Nth(head, size)
        BY <1>0, <4>0 DEF Nth
      <4>2. Len(delivered) + k + 1 \in 1 .. Len(accepted)
        BY <1>0, <2>1, <3>4 DEF RingInv
      <4> QED BY <1>0, <2>2, <3>1, <3>2, <4>0, <4>1, <4>2 DEF RingInv
    <3> QED BY <1>0, <3>1, <3>3, <3>4
  <2> QED BY <2>4, <2>5, <2>6, <2>7 DEF RingInv
<1> QED BY <1>2, <1>3

LEMMA TakeKeepsRing ==
  ASSUME NEW t \in Threads, QInv, DequeueTake(t)
  PROVE  QInv'
<1> USE DEF QInv
<1>0. /\ head \in 0 .. N - 1
      /\ tail \in 0 .. N - 1
      /\ size \in 1 .. N
      /\ Len(accepted) \in Nat
      /\ Len(delivered) \in Nat
  BY DEF QTypeOK, Slots, DequeueTake
<1>1. head' = Nth(head, 1)
  BY <1>0, WrapSum DEF DequeueTake, Advance
<1>2. buffer[head] = accepted[Len(delivered) + 1]
  <2>1. Nth(head, 0) = head /\ 0 \in 0 .. size - 1
    BY <1>0 DEF Nth
  <2> QED BY <1>0, <2>1 DEF RingInv
<1>3. buffer[head] \in Values
  BY <1>0, <1>2 DEF RingInv, QTypeOK
<1>4. QTypeOK'
  <2>1. head' \in Slots
    BY <1>0, <1>1 DEF Nth, Slots
  <2>2. size' \in 0 .. N
    BY <1>0 DEF DequeueTake
  <2>3. ret' \in [Threads -> Slots \cup Values \cup {NoValue}] /\ delivered' \in Seq(Values)
    BY <1>3 DEF DequeueTake, QTypeOK
  <2>4. pc' \in [Threads -> PC] /\ \A u \in Threads : pc'[u] \in EnqueuePC => arg'[u] \in Values
    BY DEF DequeueTake, QTypeOK, Goto, PC, EnqueuePC, DequeuePC
  <2> QED BY <2>1, <2>2, <2>3, <2>4 DEF DequeueTake, QTypeOK, flags
<1>5. RingInv'
  <2>1. Len(delivered') = Len(delivered) + 1
    BY <1>3 DEF DequeueTake, QTypeOK
  <2>2. \A k \in 1 .. Len(delivered) : delivered'[k] = delivered[k]
    BY <1>3 DEF DequeueTake, QTypeOK
  <2>3. delivered'[Len(delivered) + 1] = buffer[head]
    BY <1>3 DEF DequeueTake, QTypeOK
  <2>4. size' = size - 1 /\ accepted' = accepted /\ buffer' = buffer /\ tail' = tail /\ seen' = seen
    BY DEF DequeueTake
  <2>5. tail' = Nth(head', size')
    <3>1. Nth(Nth(head, 1), size - 1) = Nth(head, size)
      BY <1>0 DEF Nth
    <3> QED BY <1>1, <2>4, <3>1 DEF RingInv
  <2>6. \A k \in 1 .. Len(delivered') : delivered'[k] = accepted'[k]
    BY <1>0, <1>2, <2>1, <2>2, <2>3, <2>4 DEF RingInv
  <2>7. ASSUME NEW k \in 0 .. size' - 1
        PROVE  buffer'[Nth(head', k)] = accepted'[Len(delivered') + k + 1]
    <3>0. k + 1 \in 1 .. size - 1 /\ k \in Nat
      BY <1>0, <2>4
    <3>1. k + 1 \in 0 .. size - 1 /\ Nth(head', k) = Nth(head, k + 1)
      BY <1>0, <1>1, <3>0 DEF Nth
    <3>2. Len(delivered') + k + 1 = Len(delivered) + (k + 1) + 1
      BY <1>0, <2>1
    <3> QED BY <2>4, <3>1, <3>2 DEF RingInv
  <2>8. seen' = Len(accepted') /\ Len(accepted') = Len(delivered') + size'
    <3>1. seen = Len(accepted) /\ Len(accepted) = Len(delivered) + size
      BY Zenon DEF RingInv
    <3> QED BY <1>0, <2>1, <2>4, <3>1
  <2> QED BY <2>5, <2>6, <2>7, <2>8, Zenon DEF RingInv
<1> QED BY <1>4, <1>5

\* Every other step leaves the ring alone.
LEMMA OthersKeepRing ==
  ASSUME QTypeOK, QTypeOK', RingInv, UNCHANGED ring
  PROVE  RingInv'
BY DEF RingInv, ring

LEMMA QNextInv == QInv /\ [QNext]_qvars => QInv'
<1> SUFFICES ASSUME QInv, [QNext]_qvars PROVE QInv'
  OBVIOUS
<1> USE DEF QInv
<1>1. CASE UNCHANGED qvars
  <2>1. QTypeOK'
    BY <1>1 DEF qvars, ring, flags, QTypeOK
  <2> QED BY <2>1, <1>1, OthersKeepRing DEF qvars
<1>2. ASSUME NEW t \in Threads, NEW v \in Values, EnqueueCall(t, v)
      PROVE  QInv'
  <2>1. QTypeOK'
    BY <1>2 DEF EnqueueCall, Goto, QTypeOK, ring, flags, PC, EnqueuePC
  <2> QED BY <1>2, <2>1, OthersKeepRing DEF EnqueueCall
<1>3. ASSUME NEW t \in Threads, EnqueueRefused(t)
      PROVE  QInv'
  <2>1. QTypeOK'
    BY <1>3 DEF EnqueueRefused, Return, Goto, QTypeOK, ring, flags, PC, EnqueuePC
  <2> QED BY <1>3, <2>1, OthersKeepRing DEF EnqueueRefused
<1>4. ASSUME NEW t \in Threads, DequeueCall(t)
      PROVE  QInv'
  <2>1. QTypeOK'
    BY <1>4 DEF DequeueCall, Goto, QTypeOK, ring, flags, PC, EnqueuePC, DequeuePC
  <2> QED BY <1>4, <2>1, OthersKeepRing DEF DequeueCall
<1>5. ASSUME NEW t \in Threads, DequeueRefused(t)
      PROVE  QInv'
  <2>1. QTypeOK'
    BY <1>5 DEF DequeueRefused, Return, Goto, QTypeOK, ring, flags, PC, EnqueuePC
  <2> QED BY <1>5, <2>1, OthersKeepRing DEF DequeueRefused
<1>6. ASSUME NEW t \in Threads, StopCall(t)
      PROVE  QInv'
  <2>1. QTypeOK'
    BY <1>6 DEF StopCall, Goto, QTypeOK, ring, PC, EnqueuePC, StopPC
  <2> QED BY <1>6, <2>1, OthersKeepRing DEF StopCall
<1>7. ASSUME NEW t \in Threads, StopNowCall(t)
      PROVE  QInv'
  <2>1. QTypeOK'
    BY <1>7 DEF StopNowCall, Goto, QTypeOK, ring, PC, EnqueuePC, StopPC
  <2> QED BY <1>7, <2>1, OthersKeepRing DEF StopNowCall
<1>8. ASSUME NEW t \in Threads, EnqueueStep(t)
      PROVE  QInv'
  <2>1. CASE EnqueuePut(t)
    BY <2>1, PutKeepsRing
  <2>2. CASE EnqueueWait(t)
    <3>1. QTypeOK'
      BY <2>2 DEF EnqueueWait, Goto, QTypeOK, ring, flags, PC, EnqueuePC
    <3> QED BY <2>2, <3>1, OthersKeepRing DEF EnqueueWait
  <2>3. CASE EnqueueBlock(t)
    <3>1. QTypeOK'
      BY <2>3 DEF EnqueueBlock, Goto, QTypeOK, ring, flags, PC, EnqueuePC
    <3> QED BY <2>3, <3>1, OthersKeepRing DEF EnqueueBlock
  <2>4. CASE EnqueueFail(t)
    <3>1. QTypeOK'
      BY <2>4 DEF EnqueueFail, Return, Goto, QTypeOK, ring, flags, PC, EnqueuePC
    <3> QED BY <2>4, <3>1, OthersKeepRing DEF EnqueueFail
  <2>5. CASE EnqueueNotify(t)
    <3>1. QTypeOK'
      BY <2>5 DEF EnqueueNotify, NotifyOne, At, Goto, QTypeOK, ring, flags, PC, EnqueuePC, DequeuePC
    <3> QED BY <2>5, <3>1, OthersKeepRing DEF EnqueueNotify
  <2> QED BY <1>8, <2>1, <2>2, <2>3, <2>4, <2>5 DEF EnqueueStep
<1>9. ASSUME NEW t \in Threads, DequeueStep(t)
      PROVE  QInv'
  <2>1. CASE DequeueTake(t)
    BY <2>1, TakeKeepsRing
  <2>2. CASE DequeueWait(t)
    <3>1. QTypeOK'
      BY <2>2 DEF DequeueWait, Goto, QTypeOK, ring, flags, PC, EnqueuePC, DequeuePC
    <3> QED BY <2>2, <3>1, OthersKeepRing DEF DequeueWait
  <2>3. CASE DequeueBlock(t)
    <3>1. QTypeOK'
      BY <2>3 DEF DequeueBlock, Goto, QTypeOK, ring, flags, PC, EnqueuePC, DequeuePC
    <3> QED BY <2>3, <3>1, OthersKeepRing DEF DequeueBlock
  <2>4. CASE DequeueFail(t)
    <3>1. QTypeOK'
      BY <2>4 DEF DequeueFail, Return, Goto, QTypeOK, ring, flags, PC, EnqueuePC
    <3> QED BY <2>4, <3>1, OthersKeepRing DEF DequeueFail
  <2>5. CASE DequeueNotify(t)
    <3>1. QTypeOK'
      BY <2>5 DEF DequeueNotify, NotifyOne, At, Goto, QTypeOK, ring, flags, PC, EnqueuePC, DequeuePC
    <3> QED BY <2>5, <3>1, OthersKeepRing DEF DequeueNotify
  <2> QED BY <1>9, <2>1, <2>2, <2>3, <2>4, <2>5 DEF DequeueStep
<1>10. ASSUME NEW t \in Threads, StopStep(t)
       PROVE  QInv'
  <2>1. QTypeOK'
    <3>1. CASE StopNotify(t)
      BY <3>1 DEF StopNotify, NotifyAll, QTypeOK, ring, flags, PC, EnqueuePC, StopPC
    <3>2. CASE StopNowNotify(t)
      BY <3>2 DEF StopNowNotify, NotifyAll, QTypeOK, ring, flags, PC, EnqueuePC, StopPC
    <3>3. CASE StopNowSending(t)
      BY <3>3 DEF StopNowSending, Goto, QTypeOK, ring, PC, EnqueuePC, StopPC
    <3>4. CASE StopNowNotifySending(t)
      BY <3>4 DEF StopNowNotifySending, NotifyAll, QTypeOK, ring, flags, PC, EnqueuePC, DequeuePC, StopPC
    <3> QED BY <1>10, <3>1, <3>2, <3>3, <3>4 DEF StopStep
  <2>2. UNCHANGED ring
    BY <1>10 DEF StopStep, StopNotify, StopNowNotify, StopNowSending, StopNowNotifySending
  <2> QED BY <2>1, <2>2, OthersKeepRing
<1>11. ASSUME NEW t \in Threads, SpuriousWakeup(t)
       PROVE  QInv'
  <2>1. QTypeOK'
    BY <1>11 DEF SpuriousWakeup, Goto, QTypeOK, ring, flags, PC, EnqueuePC, DequeuePC
  <2> QED BY <1>11, <2>1, OthersKeepRing DEF SpuriousWakeup
<1> QED
  BY <1>1, <1>2, <1>3, <1>4, <1>5, <1>6, <1>7, <1>8, <1>9, <1>10, <1>11 DEF QNext, Continue

\* Every variable of the queue keeps its type: in particular the indices stay
\* inside the buffer and the size between 0 and the capacity.
THEOREM QueueTyped == QSpec => []QTypeOK
<1>1. QInv => QTypeOK
  BY DEF QInv
<1> QED BY <1>1, QInitInv, QNextInv, PTL DEF QSpec

\* The queue delivers what it accepted, in order and once, whatever the
\* threads do and however they interleave.
THEOREM QueueIsFifo == QSpec => []FirstInFirstOut
<1>1. QInv => FirstInFirstOut
  BY RingInvIsFifo DEF QInv
<1> QED BY <1>1, QInitInv, QNextInv, PTL DEF QSpec

-----------------------------------------------------------------------------
(* Refinement of BoundedFifo                                               *)

\* The writing end is closed before stopNow() closes the reading end.
ClosingInv == \A t \in Threads : pc[t] \in {"nowNotify", "nowSending"} => ~receiving

LEMMA ClosingInitInv == QInit => ClosingInv
BY DEF QInit, ClosingInv

LEMMA ClosingNextInv == QTypeOK /\ ClosingInv /\ [QNext]_qvars => ClosingInv'
<1> SUFFICES ASSUME QTypeOK, ClosingInv, [QNext]_qvars PROVE ClosingInv'
  OBVIOUS
<1> USE DEF ClosingInv, QTypeOK, Goto, Return
<1>1. CASE UNCHANGED qvars
  BY <1>1 DEF qvars, flags
<1>2. ASSUME NEW t \in Threads, NEW v \in Values, EnqueueCall(t, v) PROVE ClosingInv'
  BY <1>2 DEF EnqueueCall, flags
<1>3. ASSUME NEW t \in Threads, EnqueueRefused(t) \/ DequeueCall(t) \/ DequeueRefused(t)
      PROVE  ClosingInv'
  BY <1>3 DEF EnqueueRefused, DequeueCall, DequeueRefused, flags
<1>4. ASSUME NEW t \in Threads, StopCall(t) \/ StopNowCall(t) PROVE ClosingInv'
  BY <1>4 DEF StopCall, StopNowCall
<1>5. ASSUME NEW t \in Threads, EnqueueStep(t) PROVE ClosingInv'
  <2>1. CASE EnqueuePut(t)
    BY <2>1 DEF EnqueuePut, flags
  <2>2. CASE EnqueueNotify(t)
    BY <2>2 DEF EnqueueNotify, NotifyOne, At, flags
  <2>3. CASE EnqueueWait(t) \/ EnqueueBlock(t) \/ EnqueueFail(t)
    BY <2>3 DEF EnqueueWait, EnqueueBlock, EnqueueFail, flags
  <2> QED BY <1>5, <2>1, <2>2, <2>3 DEF EnqueueStep
<1>6. ASSUME NEW t \in Threads, DequeueStep(t) PROVE ClosingInv'
  <2>1. CASE DequeueTake(t)
    BY <2>1 DEF DequeueTake, flags
  <2>2. CASE DequeueNotify(t)
    BY <2>2 DEF DequeueNotify, NotifyOne, At, flags
  <2>3. CASE DequeueWait(t) \/ DequeueBlock(t) \/ DequeueFail(t)
    BY <2>3 DEF DequeueWait, DequeueBlock, DequeueFail, flags
  <2> QED BY <1>6, <2>1, <2>2, <2>3 DEF DequeueStep
<1>7. ASSUME NEW t \in Threads, StopStep(t) PROVE ClosingInv'
  <2>1. CASE StopNotify(t)
    BY <2>1 DEF StopNotify, NotifyAll, flags
  <2>2. CASE StopNowNotify(t)
    BY <2>2 DEF StopNowNotify, NotifyAll, flags
  <2>3. CASE StopNowSending(t)
    BY <2>3 DEF StopNowSending
  <2>4. CASE StopNowNotifySending(t)
    BY <2>4 DEF StopNowNotifySending, NotifyAll, flags
  <2> QED BY <1>7, <2>1, <2>2, <2>3, <2>4 DEF StopStep
<1>8. ASSUME NEW t \in Threads, SpuriousWakeup(t) PROVE ClosingInv'
  BY <1>8 DEF SpuriousWakeup, flags
<1> QED BY <1>1, <1>2, <1>3, <1>4, <1>5, <1>6, <1>7, <1>8 DEF QNext, Continue

\* The abstract channel: the ring read from head.
fifoBar == [k \in 1 .. size |-> buffer[(head + k - 1) % N]]

\* It is what was accepted and not delivered yet.
Backlog ==
    /\ fifoBar \in Seq(Values)
    /\ Len(fifoBar) = size
    /\ \A k \in 1 .. size : fifoBar[k] = accepted[Len(delivered) + k]

LEMMA BarIsBacklog == QInv => Backlog
<1> SUFFICES ASSUME QInv PROVE Backlog
  OBVIOUS
<1> USE DEF QInv, Backlog
<1>1. size \in 0 .. N /\ Len(delivered) \in Nat /\ accepted \in Seq(Values)
      /\ Len(accepted) = Len(delivered) + size
  BY DEF QTypeOK, RingInv
<1>2. ASSUME NEW k \in 1 .. size
      PROVE  fifoBar[k] = accepted[Len(delivered) + k] /\ fifoBar[k] \in Values
  <2>1. k - 1 \in 0 .. size - 1 /\ head + k - 1 = head + (k - 1)
    BY <1>1 DEF QTypeOK, Slots
  <2>2. buffer[(head + (k - 1)) % N] = accepted[Len(delivered) + (k - 1) + 1]
    BY <2>1, RingInvIsFifo DEF FirstInFirstOut
  <2>3. Len(delivered) + (k - 1) + 1 = Len(delivered) + k
    BY <1>1
  <2>4. fifoBar[k] = accepted[Len(delivered) + k]
    BY <2>1, <2>2, <2>3 DEF fifoBar
  <2>5. Len(delivered) + k \in 1 .. Len(accepted)
    BY <1>1
  <2> QED BY <1>1, <2>4, <2>5
<1>3. fifoBar = [k \in 1 .. size |-> fifoBar[k]]
  BY DEF fifoBar
<1>4. fifoBar \in [1 .. size -> Values]
  BY <1>2, <1>3
<1> QED BY <1>1, <1>2, <1>4

\* enqueue() appends to the channel.
LEMMA PutIsPut ==
  ASSUME NEW t \in Threads, QInv, QInv', EnqueuePut(t)
  PROVE  Fifo!Put(arg[t]) /\ arg[t] \in Values
<1>0. /\ size \in 0 .. N - 1
      /\ size' = size + 1
      /\ Len(delivered) \in Nat
      /\ accepted \in Seq(Values)
      /\ arg[t] \in Values
      /\ delivered' = delivered
      /\ accepted' = Append(accepted, arg[t])
      /\ Len(accepted) = Len(delivered) + size
  BY DEF QInv, QTypeOK, RingInv, EnqueuePut, EnqueuePC
<1>a. Backlog /\ Backlog'
  BY BarIsBacklog, PTL
<1>1. fifoBar \in Seq(Values) /\ Len(fifoBar) = size
  BY <1>a DEF Backlog
<1>2. fifoBar' \in Seq(Values) /\ Len(fifoBar') = size + 1
  BY <1>0, <1>a DEF Backlog
<1>3. Append(fifoBar, arg[t]) \in Seq(Values) /\ Len(Append(fifoBar, arg[t])) = size + 1
  BY <1>0, <1>1
<1>4. ASSUME NEW k \in 1 .. size + 1 PROVE fifoBar'[k] = Append(fifoBar, arg[t])[k]
  <2>1. fifoBar'[k] = Append(accepted, arg[t])[Len(delivered) + k]
    BY <1>0, <1>a DEF Backlog
  <2>2. CASE k = size + 1
    <3>1. Len(delivered) + k = Len(accepted) + 1
      BY <1>0, <2>2
    <3>2. Append(accepted, arg[t])[Len(accepted) + 1] = arg[t]
      BY <1>0
    <3>3. Append(fifoBar, arg[t])[size + 1] = arg[t]
      BY <1>0, <1>1
    <3> QED BY <2>1, <2>2, <3>1, <3>2, <3>3
  <2>3. CASE k \in 1 .. size
    <3>1. fifoBar[k] = accepted[Len(delivered) + k]
      BY <2>3, <1>a DEF Backlog
    <3>2. Append(fifoBar, arg[t])[k] = fifoBar[k]
      BY <1>0, <1>1, <2>3
    <3>3. Len(delivered) + k \in 1 .. Len(accepted)
      BY <1>0, <2>3
    <3>4. Append(accepted, arg[t])[Len(delivered) + k] = accepted[Len(delivered) + k]
      BY <1>0, <3>3
    <3> QED BY <2>1, <3>1, <3>2, <3>4
  <2>4. k = size + 1 \/ k \in 1 .. size
    BY <1>0
  <2> QED BY <2>2, <2>3, <2>4
<1>5. fifoBar' = Append(fifoBar, arg[t])
  <2>1. Len(fifoBar') = Len(Append(fifoBar, arg[t]))
        /\ \A k \in 1 .. Len(fifoBar') : fifoBar'[k] = Append(fifoBar, arg[t])[k]
    BY <1>2, <1>3, <1>4
  <2> QED BY <1>2, <1>3, <2>1, SeqEqual
<1>6. receiving /\ Len(fifoBar) < N /\ UNCHANGED <<receiving, sending, delivered>>
  BY <1>0, <1>1 DEF EnqueuePut, flags
<1> QED BY <1>0, <1>5, <1>6 DEF Fifo!Put, fifoBar

\* dequeue() takes the head of the channel.
LEMMA TakeIsGet ==
  ASSUME NEW t \in Threads, QInv, QInv', DequeueTake(t)
  PROVE  Fifo!Get
<1>0. /\ size \in 1 .. N
      /\ size' = size - 1
      /\ Len(delivered) \in Nat
      /\ Len(delivered') = Len(delivered) + 1
      /\ accepted' = accepted
      /\ head \in 0 .. N - 1
  <2>1. /\ size \in 1 .. N
        /\ size' = size - 1
        /\ Len(delivered) \in Nat
        /\ accepted' = accepted
        /\ head \in 0 .. N - 1
    BY DEF QInv, QTypeOK, Slots, DequeueTake
  <2>2. /\ Len(accepted) = Len(delivered) + size
        /\ Len(accepted') = Len(delivered') + size'
        /\ Len(delivered') \in Nat
    BY DEF QInv, QTypeOK, RingInv
  <2> QED BY <2>1, <2>2
<1>a. Backlog /\ Backlog'
  BY BarIsBacklog, PTL
<1>1. fifoBar \in Seq(Values) /\ Len(fifoBar) = size
  BY <1>a DEF Backlog
<1>2. fifoBar' \in Seq(Values) /\ Len(fifoBar') = size - 1
  BY <1>0, <1>a DEF Backlog
<1>3. fifoBar # << >> /\ Head(fifoBar) = fifoBar[1] /\ Tail(fifoBar) \in Seq(Values)
      /\ Len(Tail(fifoBar)) = size - 1
      /\ \A k \in 1 .. size - 1 : Tail(fifoBar)[k] = fifoBar[k + 1]
  BY <1>0, <1>1
<1>4. fifoBar[1] = buffer[head]
  <2>1. fifoBar[1] = buffer[(head + 1 - 1) % N]
    BY <1>0 DEF fifoBar
  <2>2. head + 1 - 1 = head + 0
    BY <1>0
  <2>3. (head + 0) % N = Nth(head, 0)
    BY <1>0, WrapSum
  <2>4. Nth(head, 0) = head
    BY <1>0 DEF Nth
  <2> QED BY <2>1, <2>2, <2>3, <2>4
<1>5. ASSUME NEW k \in 1 .. size - 1 PROVE fifoBar'[k] = Tail(fifoBar)[k]
  <2>1. fifoBar'[k] = accepted[(Len(delivered) + 1) + k]
    BY <1>0, <1>a DEF Backlog
  <2>2. k + 1 \in 1 .. size /\ (Len(delivered) + 1) + k = Len(delivered) + (k + 1)
    BY <1>0
  <2>3. fifoBar[k + 1] = accepted[Len(delivered) + (k + 1)]
    BY <2>2, <1>a DEF Backlog
  <2> QED BY <1>3, <2>1, <2>2, <2>3
<1>6. fifoBar' = Tail(fifoBar)
  <2>1. Len(fifoBar') = Len(Tail(fifoBar))
        /\ \A k \in 1 .. Len(fifoBar') : fifoBar'[k] = Tail(fifoBar)[k]
    BY <1>2, <1>3, <1>5
  <2> QED BY <1>2, <1>3, <2>1, SeqEqual
<1>7. sending /\ delivered' = Append(delivered, Head(fifoBar)) /\ UNCHANGED <<receiving, sending>>
  BY <1>3, <1>4 DEF DequeueTake, flags
<1> QED BY <1>3, <1>6, <1>7 DEF Fifo!Get, fifoBar

\* A step that leaves the ring alone does the same to the channel.
LEMMA SameRingSameBar == UNCHANGED ring => UNCHANGED <<fifoBar, delivered>>
BY DEF ring, fifoBar

LEMMA FifoStep ==
  ASSUME QInv, QInv', ClosingInv, [QNext]_qvars
  PROVE  [Fifo!Next]_(Fifo!fvars)
<1> USE DEF Fifo!fvars
<1>1. ASSUME UNCHANGED ring, UNCHANGED flags PROVE UNCHANGED Fifo!fvars
  BY <1>1, SameRingSameBar DEF flags, fifoBar
<1>2. CASE UNCHANGED qvars
  BY <1>1, <1>2 DEF qvars
<1>3. ASSUME NEW t \in Threads, NEW v \in Values, EnqueueCall(t, v)
      PROVE  UNCHANGED Fifo!fvars
  BY <1>1, <1>3 DEF EnqueueCall
<1>4. ASSUME NEW t \in Threads,
             EnqueueRefused(t) \/ DequeueCall(t) \/ DequeueRefused(t) \/ SpuriousWakeup(t)
      PROVE  UNCHANGED Fifo!fvars
  BY <1>1, <1>4 DEF EnqueueRefused, DequeueCall, DequeueRefused, SpuriousWakeup
<1>5. ASSUME NEW t \in Threads, EnqueueStep(t)
      PROVE  (\E v \in Values : Fifo!Put(v)) \/ UNCHANGED Fifo!fvars
  <2>1. CASE EnqueuePut(t)
    <3>1. Fifo!Put(arg[t]) /\ arg[t] \in Values
      BY <2>1, PutIsPut
    <3> QED BY <3>1, Zenon DEF Fifo!Put
  <2>2. CASE ~EnqueuePut(t)
    BY <1>1, <1>5, <2>2 DEF EnqueueStep, EnqueueWait, EnqueueBlock, EnqueueFail, EnqueueNotify
  <2> QED BY <2>1, <2>2
<1>6. ASSUME NEW t \in Threads, DequeueStep(t) PROVE Fifo!Get \/ UNCHANGED Fifo!fvars
  <2>1. CASE DequeueTake(t)
    BY <2>1, TakeIsGet
  <2>2. CASE ~DequeueTake(t)
    BY <1>1, <1>6, <2>2 DEF DequeueStep, DequeueWait, DequeueBlock, DequeueFail, DequeueNotify
  <2> QED BY <2>1, <2>2
<1>7. ASSUME NEW t \in Threads, StopCall(t) \/ StopNowCall(t)
      PROVE  Fifo!CloseWriting \/ UNCHANGED Fifo!fvars
  <2>1. receiving' = FALSE /\ UNCHANGED sending /\ UNCHANGED ring
    BY <1>7 DEF StopCall, StopNowCall
  <2>2. receiving \in BOOLEAN
    BY DEF QInv, QTypeOK
  <2> QED BY <2>1, <2>2, SameRingSameBar DEF Fifo!CloseWriting, fifoBar
<1>8. ASSUME NEW t \in Threads, StopStep(t) PROVE Fifo!CloseReading \/ UNCHANGED Fifo!fvars
  <2>1. CASE StopNowSending(t)
    <3>1. sending' = FALSE /\ UNCHANGED receiving /\ UNCHANGED ring /\ ~receiving
      BY <2>1 DEF StopNowSending, ClosingInv
    <3>2. sending \in BOOLEAN
      BY DEF QInv, QTypeOK
    <3> QED BY <3>1, <3>2, SameRingSameBar DEF Fifo!CloseReading, fifoBar
  <2>2. CASE ~StopNowSending(t)
    BY <1>1, <1>8, <2>2 DEF StopStep, StopNotify, StopNowNotify, StopNowNotifySending
  <2> QED BY <2>1, <2>2
<1> QED BY <1>2, <1>3, <1>4, <1>5, <1>6, <1>7, <1>8 DEF QNext, Continue, Fifo!Next

\* queue.hpp implements the bounded FIFO channel: under the mapping that reads
\* the ring from head, every step of every thread is a step of the channel or
\* leaves it alone.
THEOREM QueueImplementsFifo == QSpec => ImplementsFifo
<1>1. QInit => Fifo!Init
  <2> SUFFICES ASSUME QInit PROVE Fifo!Init
    OBVIOUS
  <2>1. fifoBar = << >>
    <3>1. size = 0 /\ QInv
      BY QInitInv DEF QInit
    <3>2. fifoBar \in Seq(Values) /\ Len(fifoBar) = 0
      BY <3>1, BarIsBacklog DEF Backlog
    <3> QED BY <3>2
  <2> QED BY <2>1 DEF QInit, Fifo!Init, fifoBar
<1>2. QInv /\ QInv' /\ ClosingInv /\ [QNext]_qvars => [Fifo!Next]_(Fifo!fvars)
  BY FifoStep
<1>3. QInv => QTypeOK
  BY DEF QInv
<1> QED BY <1>1, <1>2, <1>3, QInitInv, QNextInv, ClosingInitInv, ClosingNextInv, PTL
        DEF QSpec, ImplementsFifo, Fifo!Spec
-----------------------------------------------------------------------------
(* No waiter is forgotten                                                  *)

\* The consumers that are about to look at the ring or to be sent there; the
\* producers likewise.
Takers == At("enqNotify") \cup At("deqLock")
Givers == At("deqNotify") \cup At("enqLock")

\* The mutex is held between two steps only by a thread that found its wait
\* predicate false, and so long the ring does not change.
MutexInv ==
    \A t \in Threads :
        /\ pc[t] \in {"enqWait", "deqWait"} => mutex = t
        /\ pc[t] = "deqWait" => size = 0
        /\ pc[t] = "enqWait" => size = N

\* Stronger than NoForgottenWaiter, which is not inductive: a consumer that
\* takes an element leaves one competitor less.  As soon as a consumer is
\* blocked, every element of the ring has its notification or its taker.
ConsumersInv == sending /\ At("deqBlocked") # {} => size <= Cardinality(Takers)
ProducersInv == receiving /\ At("enqBlocked") # {} => N - size <= Cardinality(Givers)

WaiterInv == MutexInv /\ ConsumersInv /\ ProducersInv

LEMMA WaiterInitInv == QInit => WaiterInv
BY DEF QInit, WaiterInv, MutexInv, ConsumersInv, ProducersInv, At

LEMMA WaiterInvSuffices == QTypeOK /\ WaiterInv => NoForgottenWaiter
<1> SUFFICES ASSUME QTypeOK, WaiterInv PROVE NoForgottenWaiter
  OBVIOUS
<1>1. IsFiniteSet(Takers) /\ IsFiniteSet(Givers)
  BY FS_Subset DEF Takers, Givers, At
<1>2. Cardinality(Takers) \in Nat /\ Cardinality(Givers) \in Nat
  BY <1>1, FS_CardinalityType
<1>3. Cardinality({}) = 0
  BY FS_EmptySet
<1>4. sending => Cardinality(At("deqBlocked")) <= Cardinality(Takers) \/ size <= Cardinality(Takers)
  BY <1>2, <1>3 DEF WaiterInv, ConsumersInv
<1>5. receiving => Cardinality(At("enqBlocked")) <= Cardinality(Givers) \/ N - size <= Cardinality(Givers)
  BY <1>2, <1>3 DEF WaiterInv, ProducersInv
<1> QED BY <1>4, <1>5 DEF NoForgottenWaiter, Takers, Givers

\* What a step does to a set of threads, and to its size.
LEMMA CardinalityOfMove ==
  ASSUME NEW S \in SUBSET Threads, NEW T \in SUBSET Threads, NEW t \in Threads, NEW w \in Threads
  PROVE  /\ Cardinality(S) \in Nat
         /\ S \subseteq T => Cardinality(S) <= Cardinality(T)
         /\ t \notin S /\ S \cup {t} \subseteq T => Cardinality(S) + 1 <= Cardinality(T)
         /\ S \ {t} \subseteq T => Cardinality(S) - 1 <= Cardinality(T)
         /\ w \notin S /\ (S \ {t}) \cup {w} \subseteq T => Cardinality(S) <= Cardinality(T)
<1>1. IsFiniteSet(S) /\ IsFiniteSet(T)
  BY FS_Subset
<1>2. Cardinality(S) \in Nat /\ Cardinality(T) \in Nat
  BY <1>1, FS_CardinalityType
<1>3. S \subseteq T => Cardinality(S) <= Cardinality(T)
  BY <1>1, FS_Subset
<1>4. t \notin S /\ S \cup {t} \subseteq T => Cardinality(S) + 1 <= Cardinality(T)
  <2>1. t \notin S => Cardinality(S \cup {t}) = Cardinality(S) + 1
    BY <1>1, FS_AddElement
  <2>2. S \cup {t} \subseteq T => Cardinality(S \cup {t}) <= Cardinality(T)
    BY <1>1, FS_Subset
  <2> QED BY <2>1, <2>2
<1>5. /\ IsFiniteSet(S \ {t})
      /\ Cardinality(S \ {t}) \in Nat
      /\ Cardinality(S) - 1 <= Cardinality(S \ {t})
  <2>1. IsFiniteSet(S \ {t})
        /\ Cardinality(S \ {t}) = IF t \in S THEN Cardinality(S) - 1 ELSE Cardinality(S)
    BY <1>1, FS_RemoveElement
  <2>2. Cardinality(S \ {t}) \in Nat
    BY <2>1, FS_CardinalityType
  <2> QED BY <1>2, <2>1, <2>2
<1>6. S \ {t} \subseteq T => Cardinality(S) - 1 <= Cardinality(T)
  <2>1. S \ {t} \subseteq T => Cardinality(S \ {t}) <= Cardinality(T)
    BY <1>1, FS_Subset
  <2> QED BY <1>2, <1>5, <2>1
<1>7. w \notin S /\ (S \ {t}) \cup {w} \subseteq T => Cardinality(S) <= Cardinality(T)
  <2>1. w \notin S => Cardinality((S \ {t}) \cup {w}) = Cardinality(S \ {t}) + 1
    <3>1. w \notin S => w \notin S \ {t}
      OBVIOUS
    <3> QED BY <1>5, <3>1, FS_AddElement
  <2>2. (S \ {t}) \cup {w} \subseteq T => Cardinality((S \ {t}) \cup {w}) <= Cardinality(T)
    BY <1>1, FS_Subset
  <2> QED BY <1>2, <1>5, <2>1, <2>2
<1> QED BY <1>2, <1>3, <1>4, <1>6, <1>7

LEMMA MutexNextInv == QTypeOK /\ MutexInv /\ [QNext]_qvars => MutexInv'
<1> SUFFICES ASSUME QTypeOK, MutexInv, [QNext]_qvars PROVE MutexInv'
  OBVIOUS
<1> USE DEF MutexInv, QTypeOK, Goto, Return
<1>1. CASE UNCHANGED qvars
  BY <1>1 DEF qvars, ring
<1>2. ASSUME NEW t \in Threads, NEW v \in Values, EnqueueCall(t, v) PROVE MutexInv'
  BY <1>2 DEF EnqueueCall, ring
<1>3. ASSUME NEW t \in Threads, EnqueueRefused(t) \/ DequeueCall(t) \/ DequeueRefused(t)
      PROVE  MutexInv'
  BY <1>3 DEF EnqueueRefused, DequeueCall, DequeueRefused, ring
<1>4. ASSUME NEW t \in Threads, StopCall(t) \/ StopNowCall(t) PROVE MutexInv'
  BY <1>4 DEF StopCall, StopNowCall, ring
<1>5. ASSUME NEW t \in Threads, EnqueueStep(t) PROVE MutexInv'
  <2>1. CASE EnqueuePut(t)
    BY <2>1 DEF EnqueuePut
  <2>2. CASE EnqueueNotify(t)
    BY <2>2 DEF EnqueueNotify, NotifyOne, At, ring
  <2>3. CASE EnqueueWait(t)
    BY <2>3 DEF EnqueueWait, ring
  <2>4. CASE EnqueueBlock(t)
    BY <2>4 DEF EnqueueBlock, ring
  <2>5. CASE EnqueueFail(t)
    BY <2>5 DEF EnqueueFail, ring
  <2> QED BY <1>5, <2>1, <2>2, <2>3, <2>4, <2>5 DEF EnqueueStep
<1>6. ASSUME NEW t \in Threads, DequeueStep(t) PROVE MutexInv'
  <2>1. CASE DequeueTake(t)
    BY <2>1 DEF DequeueTake
  <2>2. CASE DequeueNotify(t)
    BY <2>2 DEF DequeueNotify, NotifyOne, At, ring
  <2>3. CASE DequeueWait(t)
    BY <2>3 DEF DequeueWait, ring
  <2>4. CASE DequeueBlock(t)
    BY <2>4 DEF DequeueBlock, ring
  <2>5. CASE DequeueFail(t)
    BY <2>5 DEF DequeueFail, ring
  <2> QED BY <1>6, <2>1, <2>2, <2>3, <2>4, <2>5 DEF DequeueStep
<1>7. ASSUME NEW t \in Threads, StopStep(t) PROVE MutexInv'
  <2>1. CASE StopNotify(t)
    BY <2>1 DEF StopNotify, NotifyAll, ring
  <2>2. CASE StopNowNotify(t)
    BY <2>2 DEF StopNowNotify, NotifyAll, ring
  <2>3. CASE StopNowSending(t)
    BY <2>3 DEF StopNowSending, ring
  <2>4. CASE StopNowNotifySending(t)
    BY <2>4 DEF StopNowNotifySending, NotifyAll, ring
  <2> QED BY <1>7, <2>1, <2>2, <2>3, <2>4 DEF StopStep
<1>8. ASSUME NEW t \in Threads, SpuriousWakeup(t) PROVE MutexInv'
  BY <1>8 DEF SpuriousWakeup, ring
<1> QED BY <1>1, <1>2, <1>3, <1>4, <1>5, <1>6, <1>7, <1>8 DEF QNext, Continue

\* A step that takes no competitor away and blocks nobody.
LEMMA ConsumersKept ==
  ASSUME QTypeOK, ConsumersInv, NEW t \in Threads,
         sending' => sending, size' = size,
         Takers \subseteq Takers', At("deqBlocked")' \subseteq At("deqBlocked")
  PROVE  ConsumersInv'
<1>1. Takers \in SUBSET Threads /\ Takers' \in SUBSET Threads
  BY DEF Takers, At
<1>2. Cardinality(Takers) \in Nat /\ Cardinality(Takers) <= Cardinality(Takers')
      /\ Cardinality(Takers') \in Nat
  BY <1>1, CardinalityOfMove
<1> QED BY <1>2 DEF ConsumersInv, QTypeOK

LEMMA ConsumersNextInv ==
  ASSUME QTypeOK, MutexInv, ConsumersInv, [QNext]_qvars
  PROVE  ConsumersInv'
<1> USE DEF QTypeOK, Goto, Return
<1>1. CASE UNCHANGED qvars
  BY <1>1 DEF qvars, ring, flags, ConsumersInv, Takers, At
<1>2. ASSUME NEW t \in Threads, NEW v \in Values, EnqueueCall(t, v) PROVE ConsumersInv'
  <2>1. (sending' => sending) /\ size' = size /\ Takers \subseteq Takers'
        /\ At("deqBlocked")' \subseteq At("deqBlocked")
    BY <1>2 DEF EnqueueCall, flags, ring, Takers, At
  <2> QED BY <2>1, ConsumersKept
<1>3. ASSUME NEW t \in Threads, EnqueueRefused(t) \/ DequeueCall(t) \/ DequeueRefused(t)
      PROVE  ConsumersInv'
  <2>1. (sending' => sending) /\ size' = size /\ Takers \subseteq Takers'
        /\ At("deqBlocked")' \subseteq At("deqBlocked")
    BY <1>3 DEF EnqueueRefused, DequeueCall, DequeueRefused, flags, ring, Takers, At
  <2> QED BY <2>1, ConsumersKept
<1>4. ASSUME NEW t \in Threads, StopCall(t) \/ StopNowCall(t) PROVE ConsumersInv'
  <2>1. (sending' => sending) /\ size' = size /\ Takers \subseteq Takers'
        /\ At("deqBlocked")' \subseteq At("deqBlocked")
    BY <1>4 DEF StopCall, StopNowCall, ring, Takers, At
  <2> QED BY <2>1, ConsumersKept
<1>5. ASSUME NEW t \in Threads, EnqueueStep(t) PROVE ConsumersInv'
  <2>1. CASE EnqueuePut(t)
    <3>1. t \notin Takers /\ Takers \cup {t} \subseteq Takers'
          /\ At("deqBlocked")' = At("deqBlocked") /\ sending' = sending /\ size' = size + 1
      BY <2>1 DEF EnqueuePut, flags, Takers, At
    <3>2. Takers \in SUBSET Threads /\ Takers' \in SUBSET Threads
      BY DEF Takers, At
    <3>3. Cardinality(Takers) \in Nat /\ Cardinality(Takers') \in Nat
          /\ Cardinality(Takers) + 1 <= Cardinality(Takers')
      BY <3>1, <3>2, CardinalityOfMove
    <3> QED BY <3>1, <3>3 DEF ConsumersInv
  <2>2. CASE EnqueueNotify(t)
    <3>1. CASE At("deqBlocked") = {}
      <4>1. At("deqBlocked")' = {}
        BY <2>2, <3>1 DEF EnqueueNotify, NotifyOne, At
      <4> QED BY <4>1 DEF ConsumersInv
    <3>2. CASE At("deqBlocked") # {}
      <4>1. PICK w \in At("deqBlocked") : pc' = [pc EXCEPT ![t] = "idle", ![w] = "deqLock"]
        BY <2>2, <3>2 DEF EnqueueNotify, NotifyOne
      <4>2. w \in Threads /\ w \notin Takers /\ (Takers \ {t}) \cup {w} \subseteq Takers'
            /\ sending' = sending /\ size' = size
        BY <2>2, <4>1 DEF EnqueueNotify, flags, ring, Takers, At
      <4>3. Takers \in SUBSET Threads /\ Takers' \in SUBSET Threads
        BY DEF Takers, At
      <4>4. Cardinality(Takers) \in Nat /\ Cardinality(Takers') \in Nat
            /\ Cardinality(Takers) <= Cardinality(Takers')
        BY <4>2, <4>3, CardinalityOfMove
      <4> QED BY <3>2, <4>2, <4>4 DEF ConsumersInv
    <3> QED BY <3>1, <3>2
  <2>3. CASE EnqueueWait(t) \/ EnqueueBlock(t) \/ EnqueueFail(t)
    <3>1. (sending' => sending) /\ size' = size /\ Takers \subseteq Takers'
          /\ At("deqBlocked")' \subseteq At("deqBlocked")
      BY <2>3 DEF EnqueueWait, EnqueueBlock, EnqueueFail, flags, ring, Takers, At
    <3> QED BY <3>1, ConsumersKept
  <2> QED BY <1>5, <2>1, <2>2, <2>3 DEF EnqueueStep
<1>6. ASSUME NEW t \in Threads, DequeueStep(t) PROVE ConsumersInv'
  <2>0. Cardinality(Takers') \in Nat
    <3>1. Takers' \in SUBSET Threads
      BY DEF Takers, At
    <3> QED BY <3>1, CardinalityOfMove
  <2>1. CASE DequeueTake(t)
    <3>1. Takers \ {t} \subseteq Takers'
          /\ At("deqBlocked")' = At("deqBlocked") /\ sending' = sending /\ size' = size - 1
      BY <2>1 DEF DequeueTake, flags, Takers, At
    <3>2. Takers \in SUBSET Threads /\ Takers' \in SUBSET Threads
      BY DEF Takers, At
    <3>3. Cardinality(Takers) \in Nat /\ Cardinality(Takers) - 1 <= Cardinality(Takers')
      BY <3>1, <3>2, CardinalityOfMove
    <3> QED BY <2>0, <3>1, <3>3 DEF ConsumersInv
  <2>2. CASE DequeueNotify(t)
    <3>1. (sending' => sending) /\ size' = size /\ Takers \subseteq Takers'
          /\ At("deqBlocked")' \subseteq At("deqBlocked")
      BY <2>2 DEF DequeueNotify, NotifyOne, flags, ring, Takers, At
    <3> QED BY <3>1, ConsumersKept
  <2>3. CASE DequeueWait(t) \/ DequeueBlock(t)
    <3>1. size' = 0
      BY <2>3 DEF DequeueWait, DequeueBlock, ring, MutexInv
    <3> QED BY <2>0, <3>1 DEF ConsumersInv
  <2>4. CASE DequeueFail(t)
    BY <2>4 DEF DequeueFail, flags, ConsumersInv
  <2> QED BY <1>6, <2>1, <2>2, <2>3, <2>4 DEF DequeueStep
<1>7. ASSUME NEW t \in Threads, StopStep(t) PROVE ConsumersInv'
  <2>1. CASE StopNotify(t) \/ StopNowNotify(t)
    <3>1. (sending' => sending) /\ size' = size /\ Takers \subseteq Takers'
          /\ At("deqBlocked")' \subseteq At("deqBlocked")
      BY <2>1 DEF StopNotify, StopNowNotify, NotifyAll, flags, ring, Takers, At
    <3> QED BY <3>1, ConsumersKept
  <2>2. CASE StopNowSending(t)
    BY <2>2 DEF StopNowSending, ConsumersInv
  <2>3. CASE StopNowNotifySending(t)
    <3>1. At("deqBlocked")' = {}
      BY <2>3 DEF StopNowNotifySending, NotifyAll, At
    <3> QED BY <3>1 DEF ConsumersInv
  <2> QED BY <1>7, <2>1, <2>2, <2>3 DEF StopStep
<1>8. ASSUME NEW t \in Threads, SpuriousWakeup(t) PROVE ConsumersInv'
  <2>1. (sending' => sending) /\ size' = size /\ Takers \subseteq Takers'
        /\ At("deqBlocked")' \subseteq At("deqBlocked")
    BY <1>8 DEF SpuriousWakeup, flags, ring, Takers, At
  <2> QED BY <2>1, <1>8, ConsumersKept
<1> QED BY <1>1, <1>2, <1>3, <1>4, <1>5, <1>6, <1>7, <1>8 DEF QNext, Continue
LEMMA ProducersKept ==
  ASSUME QTypeOK, ProducersInv, NEW t \in Threads,
         receiving' => receiving, size' = size,
         Givers \subseteq Givers', At("enqBlocked")' \subseteq At("enqBlocked")
  PROVE  ProducersInv'
<1>1. Givers \in SUBSET Threads /\ Givers' \in SUBSET Threads
  BY DEF Givers, At
<1>2. Cardinality(Givers) \in Nat /\ Cardinality(Givers) <= Cardinality(Givers')
      /\ Cardinality(Givers') \in Nat
  BY <1>1, CardinalityOfMove
<1> QED BY <1>2 DEF ProducersInv, QTypeOK

LEMMA ProducersNextInv ==
  ASSUME QTypeOK, MutexInv, ProducersInv, [QNext]_qvars
  PROVE  ProducersInv'
<1> USE DEF QTypeOK, Goto, Return
<1>1. CASE UNCHANGED qvars
  BY <1>1 DEF qvars, ring, flags, ProducersInv, Givers, At
<1>2. ASSUME NEW t \in Threads, NEW v \in Values, EnqueueCall(t, v) PROVE ProducersInv'
  <2>1. (receiving' => receiving) /\ size' = size /\ Givers \subseteq Givers'
        /\ At("enqBlocked")' \subseteq At("enqBlocked")
    BY <1>2 DEF EnqueueCall, flags, ring, Givers, At
  <2> QED BY <2>1, ProducersKept
<1>3. ASSUME NEW t \in Threads, EnqueueRefused(t) \/ DequeueCall(t) \/ DequeueRefused(t)
      PROVE  ProducersInv'
  <2>1. (receiving' => receiving) /\ size' = size /\ Givers \subseteq Givers'
        /\ At("enqBlocked")' \subseteq At("enqBlocked")
    BY <1>3 DEF EnqueueRefused, DequeueCall, DequeueRefused, flags, ring, Givers, At
  <2> QED BY <2>1, ProducersKept
<1>4. ASSUME NEW t \in Threads, StopCall(t) \/ StopNowCall(t) PROVE ProducersInv'
  BY <1>4 DEF StopCall, StopNowCall, ProducersInv
<1>5. ASSUME NEW t \in Threads, EnqueueStep(t) PROVE ProducersInv'
  <2>0. Cardinality(Givers') \in Nat
    <3>1. Givers' \in SUBSET Threads
      BY DEF Givers, At
    <3> QED BY <3>1, CardinalityOfMove
  <2>1. CASE EnqueuePut(t)
    <3>1. Givers \ {t} \subseteq Givers'
          /\ At("enqBlocked")' = At("enqBlocked") /\ receiving' = receiving /\ size' = size + 1
      BY <2>1 DEF EnqueuePut, flags, Givers, At
    <3>2. Givers \in SUBSET Threads /\ Givers' \in SUBSET Threads
      BY DEF Givers, At
    <3>3. Cardinality(Givers) \in Nat /\ Cardinality(Givers) - 1 <= Cardinality(Givers')
      BY <3>1, <3>2, CardinalityOfMove
    <3> QED BY <2>0, <3>1, <3>3 DEF ProducersInv
  <2>2. CASE EnqueueNotify(t)
    <3>1. (receiving' => receiving) /\ size' = size /\ Givers \subseteq Givers'
          /\ At("enqBlocked")' \subseteq At("enqBlocked")
      BY <2>2 DEF EnqueueNotify, NotifyOne, flags, ring, Givers, At
    <3> QED BY <3>1, ProducersKept
  <2>3. CASE EnqueueWait(t) \/ EnqueueBlock(t)
    <3>1. size' = N
      BY <2>3 DEF EnqueueWait, EnqueueBlock, ring, MutexInv
    <3> QED BY <2>0, <3>1 DEF ProducersInv
  <2>4. CASE EnqueueFail(t)
    BY <2>4 DEF EnqueueFail, flags, ProducersInv
  <2> QED BY <1>5, <2>1, <2>2, <2>3, <2>4 DEF EnqueueStep
<1>6. ASSUME NEW t \in Threads, DequeueStep(t) PROVE ProducersInv'
  <2>1. CASE DequeueTake(t)
    <3>1. t \notin Givers /\ Givers \cup {t} \subseteq Givers'
          /\ At("enqBlocked")' = At("enqBlocked") /\ receiving' = receiving /\ size' = size - 1
      BY <2>1 DEF DequeueTake, flags, Givers, At
    <3>2. Givers \in SUBSET Threads /\ Givers' \in SUBSET Threads
      BY DEF Givers, At
    <3>3. Cardinality(Givers) \in Nat /\ Cardinality(Givers') \in Nat
          /\ Cardinality(Givers) + 1 <= Cardinality(Givers')
      BY <3>1, <3>2, CardinalityOfMove
    <3> QED BY <3>1, <3>3 DEF ProducersInv
  <2>2. CASE DequeueNotify(t)
    <3>1. CASE At("enqBlocked") = {}
      <4>1. At("enqBlocked")' = {}
        BY <2>2, <3>1 DEF DequeueNotify, NotifyOne, At
      <4> QED BY <4>1 DEF ProducersInv
    <3>2. CASE At("enqBlocked") # {}
      <4>1. PICK w \in At("enqBlocked") : pc' = [pc EXCEPT ![t] = "idle", ![w] = "enqLock"]
        BY <2>2, <3>2 DEF DequeueNotify, NotifyOne
      <4>2. w \in Threads /\ w \notin Givers /\ (Givers \ {t}) \cup {w} \subseteq Givers'
            /\ receiving' = receiving /\ size' = size
        BY <2>2, <4>1 DEF DequeueNotify, flags, ring, Givers, At
      <4>3. Givers \in SUBSET Threads /\ Givers' \in SUBSET Threads
        BY DEF Givers, At
      <4>4. Cardinality(Givers) \in Nat /\ Cardinality(Givers') \in Nat
            /\ Cardinality(Givers) <= Cardinality(Givers')
        BY <4>2, <4>3, CardinalityOfMove
      <4> QED BY <3>2, <4>2, <4>4 DEF ProducersInv
    <3> QED BY <3>1, <3>2
  <2>3. CASE DequeueWait(t) \/ DequeueBlock(t) \/ DequeueFail(t)
    <3>1. (receiving' => receiving) /\ size' = size /\ Givers \subseteq Givers'
          /\ At("enqBlocked")' \subseteq At("enqBlocked")
      BY <2>3 DEF DequeueWait, DequeueBlock, DequeueFail, flags, ring, Givers, At
    <3> QED BY <3>1, ProducersKept
  <2> QED BY <1>6, <2>1, <2>2, <2>3 DEF DequeueStep
<1>7. ASSUME NEW t \in Threads, StopStep(t) PROVE ProducersInv'
  <2>1. CASE StopNotify(t) \/ StopNowNotify(t)
    <3>1. At("enqBlocked")' = {}
      BY <2>1 DEF StopNotify, StopNowNotify, NotifyAll, At
    <3> QED BY <3>1 DEF ProducersInv
  <2>2. CASE StopNowSending(t) \/ StopNowNotifySending(t)
    <3>1. (receiving' => receiving) /\ size' = size /\ Givers \subseteq Givers'
          /\ At("enqBlocked")' \subseteq At("enqBlocked")
      BY <2>2 DEF StopNowSending, StopNowNotifySending, NotifyAll, flags, ring, Givers, At
    <3> QED BY <3>1, ProducersKept
  <2> QED BY <1>7, <2>1, <2>2 DEF StopStep
<1>8. ASSUME NEW t \in Threads, SpuriousWakeup(t) PROVE ProducersInv'
  <2>1. (receiving' => receiving) /\ size' = size /\ Givers \subseteq Givers'
        /\ At("enqBlocked")' \subseteq At("enqBlocked")
    BY <1>8 DEF SpuriousWakeup, flags, ring, Givers, At
  <2> QED BY <2>1, <1>8, ProducersKept
<1> QED BY <1>1, <1>2, <1>3, <1>4, <1>5, <1>6, <1>7, <1>8 DEF QNext, Continue

\* No notification is lost: a thread blocked in dequeue() or enqueue() is never
\* left behind with work in the ring, however notify_one, notify_all, spurious
\* wakeups and late arrivals at the mutex interleave.
THEOREM QueueForgetsNoWaiter == QSpec => []NoForgottenWaiter
<1>1. QTypeOK /\ WaiterInv /\ [QNext]_qvars => WaiterInv'
  BY MutexNextInv, ConsumersNextInv, ProducersNextInv DEF WaiterInv
<1>2. QInv => QTypeOK
  BY DEF QInv
<1> QED BY <1>1, <1>2, QInitInv, QNextInv, WaiterInitInv, WaiterInvSuffices, PTL DEF QSpec

-----------------------------------------------------------------------------
(* The queue inside the pool                                               *)

\* A step of the pool is a step of the queue, leaves the queue alone, or lets
\* a worker forget the element it has dequeued.
LEMMA PoolOnQueue ==
  ASSUME [PoolNext]_vars
  PROVE  \/ [QNext]_qvars
         \/ \E w \in Workers : Forget(w) /\ UNCHANGED <<ring, flags, mutex, pc, arg>>
<1> USE PoolAssumption
<1>1. CASE UNCHANGED vars
  BY <1>1 DEF vars
<1>2. ASSUME NEW w \in Workers, Worker(w)
      PROVE  [QNext]_qvars \/ (Forget(w) /\ UNCHANGED <<ring, flags, mutex, pc, arg>>)
  <2>1. CASE RunTest(w) \/ RunInterrupted(w) \/ RunTask(w)
    BY <2>1 DEF RunTest, RunInterrupted, RunTask
  <2>2. CASE RunDequeue(w)
    BY <2>2 DEF RunDequeue, QNext
  <2>3. CASE DequeueStep(w)
    BY <2>3 DEF QNext, Continue
  <2>4. CASE RunDrop(w) \/ RunReturn(w)
    BY <2>4 DEF RunDrop, RunReturn
  <2> QED BY <1>2, <2>1, <2>2, <2>3, <2>4 DEF Worker
<1>3. ASSUME NEW c \in Clients, Client(c) PROVE [QNext]_qvars
  <2>1. CASE ExecuteCall(c)
    BY <2>1 DEF ExecuteCall, QNext
  <2>2. CASE EnqueueStep(c)
    BY <2>2 DEF QNext, Continue
  <2>3. CASE ExecuteReturn(c) \/ ExecuteRefused(c) \/ Cancel(c)
    BY <2>3 DEF ExecuteReturn, ExecuteRefused, Cancel
  <2> QED BY <1>3, <2>1, <2>2, <2>3 DEF Client
<1>4. ASSUME NEW t \in Workers \cup Clients, SpuriousWakeup(t) PROVE [QNext]_qvars
  BY <1>4 DEF QNext
<1>5. CASE Stop \/ StopNow \/ EnsureCapacity \/ EnsureCapacityLocked
  BY <1>5 DEF Stop, StopNow, EnsureCapacity, EnsureCapacityLocked
<1>6. CASE ControllerStep
  <2>1. CASE StopQueue
    BY <2>1 DEF StopQueue, QNext
  <2>2. CASE StopNowQueue
    BY <2>2 DEF StopNowQueue, QNext
  <2>3. CASE StopStep(Controller)
    BY <2>3 DEF QNext, Continue
  <2>4. CASE StopRunningNow \/ Join \/ Joined
    BY <2>4 DEF StopRunningNow, Join, Joined
  <2> QED BY <1>6, <2>1, <2>2, <2>3, <2>4 DEF ControllerStep
<1> QED BY <1>1, <1>2, <1>3, <1>4, <1>5, <1>6 DEF PoolNext

LEMMA PoolKeepsQueue ==
  ASSUME QInv, [PoolNext]_vars
  PROVE  QInv'
<1>1. CASE [QNext]_qvars
  BY <1>1, QNextInv
<1>2. ASSUME NEW w \in Workers, Forget(w), UNCHANGED <<ring, flags, mutex, pc, arg>>
      PROVE  QInv'
  <2>1. QTypeOK'
    BY <1>2, PoolAssumption DEF QInv, QTypeOK, Forget, ring, flags
  <2> QED BY <1>2, <2>1, OthersKeepRing DEF QInv
<1> QED BY <1>1, <1>2, PoolOnQueue

-----------------------------------------------------------------------------
(* Types and roles                                                         *)

\* Every thread calls its own operations of the queue, so ret holds a task for
\* a worker and a slot for a client.
RolesInv ==
    /\ \A w \in Workers : ret[w] \in Values \cup {NoValue} /\ pc[w] \in {"idle"} \cup DequeuePC
    /\ \A c \in Clients : ret[c] \in Slots \cup {NoValue} /\ pc[c] \in {"idle"} \cup EnqueuePC
    /\ pc[Controller] \in {"idle"} \cup StopPC
    /\ \A w \in Workers : wpc[w] = "task" => ret[w] \in Values /\ pc[w] = "idle"

\* The variables the pool adds to those of its queue.
PoolVarsOK ==
    /\ started \subseteq Workers
    /\ wpc \in [Workers -> WorkerPC]
    /\ cpc \in [Clients -> {"idle", "enqueue"}]
    /\ kpc \in ControllerPC
    /\ growing \in BOOLEAN
    /\ handle \in [Clients -> Values \cup {NoValue}]
    /\ alive \in [Values -> BOOLEAN]
    /\ stopRunning \in BOOLEAN
    /\ stopRunningNow \in BOOLEAN
    /\ running \in BOOLEAN
    /\ nextGrowSize \in Nat \ {0}
    /\ executed \in [Values -> Nat]

Active == {w \in Workers : wpc[w] = "task"}

CountInv == activeCount = Cardinality(Active)

BaseInv == QInv /\ PoolVarsOK /\ RolesInv /\ CountInv

LEMMA BaseInitInv == PoolInit => BaseInv
<1> SUFFICES ASSUME PoolInit PROVE BaseInv
  OBVIOUS
<1>1. QInv
  BY QInitInv DEF PoolInit
<1>2. PoolVarsOK
  <2>1. started \subseteq Workers
    BY DEF PoolInit, kSubset
  <2>2. alive \in [Values -> BOOLEAN]
    BY Zenon DEF PoolInit
  <2>3. executed \in [Values -> Nat] /\ nextGrowSize \in Nat \ {0}
    BY DEF PoolInit
  <2>4. /\ wpc \in [Workers -> WorkerPC]
        /\ cpc \in [Clients -> {"idle", "enqueue"}]
        /\ handle \in [Clients -> Values \cup {NoValue}]
        /\ kpc \in ControllerPC
    BY DEF PoolInit, WorkerPC, ControllerPC
  <2> QED BY <2>1, <2>2, <2>3, <2>4, Zenon DEF PoolInit, PoolVarsOK
<1>3. RolesInv
  BY PoolAssumption DEF PoolInit, QInit, RolesInv
<1>4. Active = {} /\ activeCount = 0
  BY DEF PoolInit, Active
<1> QED BY <1>1, <1>2, <1>3, <1>4, FS_EmptySet DEF BaseInv, CountInv

LEMMA BaseInvSuffices == BaseInv => ActiveCountIsExact
<1> SUFFICES ASSUME BaseInv PROVE ActiveCountIsExact
  OBVIOUS
<1>1. Active \in SUBSET Workers /\ IsFiniteSet(Workers)
  BY PoolAssumption DEF Active
<1>2. IsFiniteSet(Active) /\ Cardinality(Active) <= Cardinality(Workers)
  BY <1>1, FS_Subset
<1>3. Cardinality(Active) \in Nat /\ Cardinality(Workers) \in Nat
  BY <1>1, <1>2, FS_CardinalityType
<1>4. activeCount \in 0 .. Cardinality(Workers)
  BY <1>2, <1>3 DEF BaseInv, CountInv
<1> QED BY <1>4 DEF BaseInv, QInv, PoolVarsOK, PoolTypeOK, CountInv, Active, ActiveCountIsExact

LEMMA VarsNextInv ==
  ASSUME BaseInv, [PoolNext]_vars
  PROVE  PoolVarsOK'
<1> USE DEF BaseInv, PoolVarsOK
<1>0. ASSUME UNCHANGED pvars PROVE PoolVarsOK'
  BY <1>0 DEF pvars, workerVars, clientVars, growVars, pflags, counts
<1>1. CASE UNCHANGED vars
  BY <1>0, <1>1 DEF vars
<1>2. ASSUME NEW w \in Workers, Worker(w) PROVE PoolVarsOK'
  <2>1. CASE RunTest(w)
    BY <2>1 DEF RunTest, WGoto, WorkerPC, clientVars, growVars, pflags, counts
  <2>2. CASE RunDequeue(w)
    BY <2>2 DEF RunDequeue, WGoto, WorkerPC, clientVars, growVars, pflags, counts
  <2>3. CASE DequeueStep(w) /\ UNCHANGED pvars
    BY <1>0, <2>3
  <2>4. CASE RunInterrupted(w)
    BY <2>4 DEF RunInterrupted, WGoto, WorkerPC, clientVars, growVars, pflags, counts
  <2>5. CASE RunTask(w)
    BY <2>5 DEF RunTask, WGoto, WorkerPC, clientVars, growVars, pflags
  <2>6. CASE RunDrop(w)
    BY <2>6 DEF RunDrop, WGoto, WorkerPC, clientVars, growVars, pflags, counts
  <2>7. CASE RunReturn(w)
    <3>1. ret[w] \in Values /\ executed[ret[w]] + 1 \in Nat
      BY <2>7 DEF RunReturn, RolesInv
    <3>2. executed' \in [Values -> Nat]
      BY <2>7, <3>1 DEF RunReturn
    <3> QED BY <2>7, <3>2 DEF RunReturn, WGoto, WorkerPC, clientVars, growVars, pflags
  <2> QED BY <1>2, <2>1, <2>2, <2>3, <2>4, <2>5, <2>6, <2>7 DEF Worker
<1>3. ASSUME NEW c \in Clients, Client(c) PROVE PoolVarsOK'
  <2>1. CASE ExecuteCall(c)
    BY <2>1 DEF ExecuteCall, workerVars, growVars, pflags, counts
  <2>2. CASE EnqueueStep(c) /\ UNCHANGED pvars
    BY <1>0, <2>2
  <2>3. CASE ExecuteReturn(c)
    <3>1. ret[c] # NoValue => buffer[ret[c]] \in Values \cup {NoValue}
      BY DEF RolesInv, QInv, QTypeOK
    <3> QED BY <2>3, <3>1 DEF ExecuteReturn, workerVars, growVars, pflags, counts
  <2>4. CASE ExecuteRefused(c)
    BY <2>4 DEF ExecuteRefused, workerVars, growVars, pflags, counts
  <2>5. CASE Cancel(c)
    BY <2>5 DEF Cancel, workerVars, growVars, pflags, counts
  <2> QED BY <1>3, <2>1, <2>2, <2>3, <2>4, <2>5 DEF Client
<1>4. CASE Stop \/ StopNow
  BY <1>4 DEF Stop, StopNow, KGoto, ControllerPC, workerVars, clientVars, growVars, counts
<1>5. CASE ControllerStep
  <2>1. CASE StopStep(Controller) /\ UNCHANGED pvars
    BY <1>0, <2>1
  <2>2. CASE StopQueue \/ StopNowQueue \/ Join
    BY <2>2 DEF StopQueue, StopNowQueue, Join, KGoto, ControllerPC, workerVars, clientVars,
                growVars, pflags, counts
  <2>3. CASE StopRunningNow \/ Joined
    BY <2>3 DEF StopRunningNow, Joined, KGoto, ControllerPC, workerVars, clientVars, growVars, counts
  <2> QED BY <1>5, <2>1, <2>2, <2>3 DEF ControllerStep
<1>6. CASE EnsureCapacity
  BY <1>6 DEF EnsureCapacity, workerVars, clientVars, pflags, counts
<1>7. CASE EnsureCapacityLocked
  <2>1. started' \subseteq Workers
    <3>1. CASE UNCHANGED started
      BY <3>1
    <3>2. ASSUME NEW more \in kSubset(nextGrowSize, Workers \ started), started' = started \cup more
          PROVE  started' \subseteq Workers
      BY <3>2 DEF kSubset
    <3> QED BY <1>7, <3>1, <3>2 DEF EnsureCapacityLocked
  <2>2. nextGrowSize' \in Nat \ {0}
    BY <1>7 DEF EnsureCapacityLocked
  <2> QED BY <1>7, <2>1, <2>2 DEF EnsureCapacityLocked, clientVars, pflags, counts
<1> QED BY <1>0, <1>1, <1>2, <1>3, <1>4, <1>5, <1>6, <1>7 DEF PoolNext

\* What dequeue() takes out of the ring is a task.
LEMMA HeadIsValue == QInv /\ size > 0 => buffer[head] \in Values /\ buffer[head] = accepted[Len(delivered) + 1]
<1> SUFFICES ASSUME QInv, size > 0
             PROVE  buffer[head] \in Values /\ buffer[head] = accepted[Len(delivered) + 1]
  OBVIOUS
<1>1. head \in 0 .. N - 1 /\ size \in 1 .. N /\ Len(delivered) \in Nat
  BY DEF QInv, QTypeOK, Slots
<1>2. Nth(head, 0) = head /\ 0 \in 0 .. size - 1
  BY <1>1 DEF Nth
<1>3. buffer[head] = accepted[Len(delivered) + 1]
  BY <1>1, <1>2 DEF QInv, RingInv
<1>4. Len(delivered) + 1 \in 1 .. Len(accepted)
  BY <1>1 DEF QInv, RingInv
<1> QED BY <1>3, <1>4 DEF QInv, QTypeOK

LEMMA RolesNextInv ==
  ASSUME BaseInv, [PoolNext]_vars
  PROVE  RolesInv'
<1>0. /\ Threads = Workers \cup Clients \cup {Controller}
      /\ Workers \cap Clients = {}
      /\ Controller \notin Workers \cup Clients
      /\ pc \in [Threads -> PC]
      /\ ret \in [Threads -> Slots \cup Values \cup {NoValue}]
      /\ tail \in Slots
      /\ wpc \in [Workers -> WorkerPC]
      /\ RolesInv
  BY PoolAssumption DEF BaseInv, QInv, QTypeOK, PoolVarsOK
<1> USE <1>0 DEF RolesInv, EnqueuePC, DequeuePC, StopPC, Goto, Return
<1> HIDE QueueAssumption
<1>1. CASE UNCHANGED vars
  BY <1>1 DEF vars, qvars, pvars, workerVars
<1>2. ASSUME NEW w \in Workers, Worker(w) PROVE RolesInv'
  <2>1. CASE RunTest(w)
    BY <2>1 DEF RunTest, WGoto, qvars
  <2>2. CASE RunDequeue(w)
    BY <2>2 DEF RunDequeue, WGoto, DequeueCall, DequeueRefused
  <2>3. CASE DequeueStep(w) /\ UNCHANGED pvars
    <3>0. UNCHANGED wpc
      BY <2>3 DEF pvars, workerVars
    <3>1. CASE DequeueTake(w)
      <4>1. buffer[head] \in Values
        BY <3>1, HeadIsValue DEF DequeueTake, BaseInv
      <4> QED BY <3>0, <3>1, <4>1 DEF DequeueTake
    <3>2. CASE DequeueWait(w) \/ DequeueBlock(w) \/ DequeueFail(w)
      BY <3>0, <3>2 DEF DequeueWait, DequeueBlock, DequeueFail
    <3>3. CASE DequeueNotify(w)
      BY <3>0, <3>3 DEF DequeueNotify, NotifyOne, At
    <3> QED BY <2>3, <3>1, <3>2, <3>3 DEF DequeueStep
  <2>4. CASE RunInterrupted(w)
    BY <2>4 DEF RunInterrupted, WGoto, qvars
  <2>5. CASE RunTask(w)
    BY <2>5 DEF RunTask, WGoto, qvars
  <2>6. CASE RunDrop(w)
    BY <2>6 DEF RunDrop, WGoto, Forget
  <2>7. CASE RunReturn(w)
    BY <2>7 DEF RunReturn, WGoto, Forget
  <2> QED BY <1>2, <2>1, <2>2, <2>3, <2>4, <2>5, <2>6, <2>7 DEF Worker
<1>3. ASSUME NEW c \in Clients, Client(c) PROVE RolesInv'
  <2>1. CASE ExecuteCall(c)
    BY <2>1 DEF ExecuteCall, EnqueueRefused, EnqueueCall, workerVars
  <2>2. CASE EnqueueStep(c) /\ UNCHANGED pvars
    <3>0. UNCHANGED wpc
      BY <2>2 DEF pvars, workerVars
    <3>1. CASE EnqueuePut(c)
      BY <3>0, <3>1 DEF EnqueuePut
    <3>2. CASE EnqueueWait(c) \/ EnqueueBlock(c) \/ EnqueueFail(c)
      BY <3>0, <3>2 DEF EnqueueWait, EnqueueBlock, EnqueueFail
    <3>3. CASE EnqueueNotify(c)
      BY <3>0, <3>3 DEF EnqueueNotify, NotifyOne, At
    <3> QED BY <2>2, <3>1, <3>2, <3>3 DEF EnqueueStep
  <2>3. CASE ExecuteReturn(c) \/ ExecuteRefused(c) \/ Cancel(c)
    BY <2>3 DEF ExecuteReturn, ExecuteRefused, Cancel, qvars, workerVars
  <2> QED BY <1>3, <2>1, <2>2, <2>3 DEF Client
<1>4. CASE Stop \/ StopNow
  BY <1>4 DEF Stop, StopNow, qvars, workerVars
<1>5. CASE ControllerStep
  <2>1. CASE StopStep(Controller) /\ UNCHANGED pvars
    <3>0. UNCHANGED wpc
      BY <2>1 DEF pvars, workerVars
    <3>1. CASE StopNotify(Controller)
      BY <3>0, <3>1 DEF StopNotify, NotifyAll
    <3>2. CASE StopNowNotify(Controller)
      BY <3>0, <3>2 DEF StopNowNotify, NotifyAll
    <3>3. CASE StopNowSending(Controller)
      BY <3>0, <3>3 DEF StopNowSending
    <3>4. CASE StopNowNotifySending(Controller)
      BY <3>0, <3>4 DEF StopNowNotifySending, NotifyAll
    <3> QED BY <2>1, <3>1, <3>2, <3>3, <3>4 DEF StopStep
  <2>2. CASE StopQueue
    BY <2>2 DEF StopQueue, StopCall, workerVars
  <2>3. CASE StopNowQueue
    BY <2>3 DEF StopNowQueue, StopNowCall, workerVars
  <2>4. CASE StopRunningNow \/ Join \/ Joined
    BY <2>4 DEF StopRunningNow, Join, Joined, qvars, workerVars
  <2> QED BY <1>5, <2>1, <2>2, <2>3, <2>4 DEF ControllerStep
<1>6. CASE EnsureCapacity \/ EnsureCapacityLocked
  BY <1>6 DEF EnsureCapacity, EnsureCapacityLocked, qvars, workerVars
<1>7. ASSUME NEW t \in Workers \cup Clients, SpuriousWakeup(t), UNCHANGED pvars PROVE RolesInv'
  BY <1>7 DEF SpuriousWakeup, pvars, workerVars
<1> QED BY <1>1, <1>2, <1>3, <1>4, <1>5, <1>6, <1>7 DEF PoolNext

LEMMA CountNextInv ==
  ASSUME BaseInv, [PoolNext]_vars
  PROVE  CountInv'
<1> USE PoolAssumption DEF BaseInv, PoolVarsOK, CountInv
<1>0. IsFiniteSet(Active) /\ Cardinality(Active) \in Nat
  <2>1. Active \in SUBSET Workers
    BY DEF Active
  <2>2. IsFiniteSet(Active)
    BY <2>1, FS_Subset
  <2> QED BY <2>2, FS_CardinalityType
<1>1. ASSUME UNCHANGED <<wpc, activeCount>> PROVE CountInv'
  BY <1>1 DEF Active
<1>2. ASSUME NEW w \in Workers, RunTask(w) PROVE CountInv'
  <2>1. w \notin Active /\ Active' = Active \cup {w} /\ activeCount' = activeCount + 1
    BY <1>2 DEF RunTask, WGoto, Active
  <2> QED BY <1>0, <2>1, FS_AddElement
<1>3. ASSUME NEW w \in Workers, RunReturn(w) PROVE CountInv'
  <2>1. w \in Active /\ Active' = Active \ {w} /\ activeCount' = activeCount - 1
    BY <1>3 DEF RunReturn, WGoto, Active
  <2> QED BY <1>0, <2>1, FS_RemoveElement
<1>4. ASSUME NEW w \in Workers,
             RunTest(w) \/ RunDequeue(w) \/ RunInterrupted(w) \/ RunDrop(w)
      PROVE  CountInv'
  <2>1. Active' = Active /\ activeCount' = activeCount
    BY <1>4 DEF RunTest, RunDequeue, RunInterrupted, RunDrop, WGoto, counts, Active
  <2> QED BY <2>1
<1>5. CASE UNCHANGED pvars
  BY <1>1, <1>5 DEF pvars, workerVars, counts
<1>6. ASSUME NEW c \in Clients, Client(c) PROVE CountInv'
  BY <1>1, <1>5, <1>6 DEF Client, ExecuteCall, ExecuteReturn, ExecuteRefused, Cancel, workerVars, counts
<1>7. CASE Stop \/ StopNow \/ ControllerStep
  BY <1>1, <1>5, <1>7 DEF Stop, StopNow, ControllerStep, StopQueue, StopRunningNow, StopNowQueue,
                          Join, Joined, workerVars, counts
<1>8. CASE EnsureCapacity \/ EnsureCapacityLocked
  BY <1>1, <1>8 DEF EnsureCapacity, EnsureCapacityLocked, workerVars, counts
<1> QED BY <1>2, <1>3, <1>4, <1>5, <1>6, <1>7, <1>8 DEF PoolNext, Worker, vars

LEMMA BaseNextInv == BaseInv /\ [PoolNext]_vars => BaseInv'
BY PoolKeepsQueue, VarsNextInv, RolesNextInv, CountNextInv DEF BaseInv

\* activeCount, which is bumped and dropped by the workers without the worker
\* mutex, is the number of workers inside a task in every state ensureCapacity
\* may read it in, and the queue inside the pool keeps its types.
THEOREM PoolCountIsExact == PoolSpec => []ActiveCountIsExact
BY BaseInitInv, BaseNextInv, BaseInvSuffices, PTL DEF PoolSpec
-----------------------------------------------------------------------------
(* A task is in one place                                                  *)

\* A task is submitted once: the ring never accepts a task a second time.  The
\* argument of execute() is visible until its notification has been sent, when
\* the ring has accepted it already.
OnceInv ==
    /\ \A i, j \in 1 .. Len(accepted) : accepted[i] = accepted[j] => i = j
    /\ \A t \in Threads : pc[t] \notin EnqueuePC => arg[t] = NoValue
    /\ \A t, u \in Threads : arg[t] = arg[u] /\ arg[t] # NoValue => t = u
    /\ \A t \in Threads : arg[t] # NoValue /\ pc[t] # "enqNotify" =>
           \A i \in 1 .. Len(accepted) : accepted[i] # arg[t]

Holding(w) == wpc[w] \in {"dequeuing", "task"} /\ ret[w] # NoValue
Output == {delivered[i] : i \in 1 .. Len(delivered)}

\* What a worker holds or has run came out of the ring, and it has it alone.
PlaceInv ==
    /\ \A w \in Workers : Holding(w) => ret[w] \in Output /\ executed[ret[w]] = 0
    /\ \A w, u \in Workers : Holding(w) /\ Holding(u) /\ ret[w] = ret[u] => w = u
    /\ \A v \in Values : executed[v] \in {0, 1} /\ (executed[v] = 1 => v \in Output)

LEMMA OnceKept ==
  ASSUME OnceInv, UNCHANGED <<arg, accepted>>,
         \A t \in Threads : pc[t] \in EnqueuePC => pc'[t] \in EnqueuePC,
         \A t \in Threads : pc[t] = "enqNotify" => pc'[t] = "enqNotify"
  PROVE  OnceInv'
BY DEF OnceInv

\* A client that fails, or has sent its notification, drops its argument.
LEMMA OnceDropped ==
  ASSUME OnceInv, BaseInv, NEW c \in Threads, UNCHANGED accepted, arg' = [arg EXCEPT ![c] = NoValue],
         \A t \in Threads : t # c => (pc[t] \in EnqueuePC => pc'[t] \in EnqueuePC),
         \A t \in Threads : t # c => (pc[t] = "enqNotify" => pc'[t] = "enqNotify")
  PROVE  OnceInv'
<1>1. arg \in [Threads -> Values \cup {NoValue}]
  BY DEF BaseInv, QInv, QTypeOK
<1>2. arg'[c] = NoValue /\ \A t \in Threads : t # c => arg'[t] = arg[t]
  BY <1>1
<1> HIDE QueueAssumption
<1> QED BY <1>2 DEF OnceInv

LEMMA OnceNextInv ==
  ASSUME BaseInv, OnceInv, [PoolNext]_vars
  PROVE  OnceInv'
<1>0. /\ Workers \subseteq Threads
      /\ Clients \subseteq Threads
      /\ Controller \in Threads
      /\ pc \in [Threads -> PC]
      /\ arg \in [Threads -> Values \cup {NoValue}]
      /\ accepted \in Seq(Values)
      /\ \A t \in Threads : pc[t] \in EnqueuePC => arg[t] \in Values
  BY PoolAssumption DEF BaseInv, QInv, QTypeOK
<1> DEFINE Kept == /\ UNCHANGED <<arg, accepted>>
                   /\ \A t \in Threads : pc[t] \in EnqueuePC => pc'[t] \in EnqueuePC
                   /\ \A t \in Threads : pc[t] = "enqNotify" => pc'[t] = "enqNotify"
<1>1. Kept => OnceInv'
  BY OnceKept
<1>2. UNCHANGED <<ring, pc, arg>> => Kept
  BY DEF ring
<1>3. UNCHANGED qvars => Kept
  BY <1>2 DEF qvars
<1>4. ASSUME NEW w \in Workers, Worker(w) PROVE Kept
  <2>1. CASE RunTest(w) \/ RunInterrupted(w) \/ RunTask(w)
    BY <1>3, <2>1 DEF RunTest, RunInterrupted, RunTask
  <2>2. CASE RunDrop(w) \/ RunReturn(w)
    BY <1>2, <2>2 DEF RunDrop, RunReturn
  <2>3. CASE RunDequeue(w)
    BY <1>0, <2>3 DEF RunDequeue, DequeueCall, DequeueRefused, Goto, Return, EnqueuePC, ring
  <2>4. CASE DequeueStep(w)
    <3>1. CASE DequeueTake(w)
      BY <1>0, <3>1 DEF DequeueTake, Goto, EnqueuePC
    <3>2. CASE DequeueWait(w) \/ DequeueBlock(w) \/ DequeueFail(w)
      BY <1>0, <3>2 DEF DequeueWait, DequeueBlock, DequeueFail, Goto, Return, EnqueuePC, ring
    <3>3. CASE DequeueNotify(w)
      BY <1>0, <3>3 DEF DequeueNotify, NotifyOne, At, Goto, EnqueuePC, ring
    <3> QED BY <2>4, <3>1, <3>2, <3>3 DEF DequeueStep
  <2> QED BY <1>4, <2>1, <2>2, <2>3, <2>4 DEF Worker
<1>5. ASSUME NEW c \in Clients, Client(c) PROVE OnceInv'
  <2>1. CASE ExecuteReturn(c) \/ ExecuteRefused(c) \/ Cancel(c)
    BY <1>1, <1>3, <2>1 DEF ExecuteReturn, ExecuteRefused, Cancel
  <2>2. CASE EnqueueRefused(c)
    <3>1. Kept
      BY <1>0, <2>2 DEF EnqueueRefused, Goto, Return, EnqueuePC, ring
    <3> QED BY <1>1, <3>1
  <2>3. ASSUME NEW v \in Values \ Submitted, EnqueueCall(c, v) PROVE OnceInv'
    <3>1. accepted' = accepted /\ arg' = [arg EXCEPT ![c] = v] /\ pc' = [pc EXCEPT ![c] = "enqLock"]
      BY <2>3 DEF EnqueueCall, Goto, ring
    <3>2. v # NoValue /\ (\A t \in Threads : arg[t] # v) /\ \A i \in 1 .. Len(accepted) : accepted[i] # v
      BY DEF Submitted
    <3>3. arg'[c] = v /\ pc'[c] = "enqLock"
          /\ \A t \in Threads : t # c => arg'[t] = arg[t] /\ pc'[t] = pc[t]
      BY <1>0, <3>1
    <3> HIDE QueueAssumption
    <3> QED BY <3>1, <3>2, <3>3 DEF OnceInv, EnqueuePC
  <2>4. CASE EnqueuePut(c)
    <3>1. pc[c] = "enqLock" /\ arg' = arg /\ accepted' = Append(accepted, arg[c])
          /\ pc' = [pc EXCEPT ![c] = "enqNotify"]
      BY <2>4 DEF EnqueuePut, Goto
    <3>2. arg[c] \in Values /\ arg[c] # NoValue
      BY <1>0, <3>1 DEF EnqueuePC
    <3>3. /\ Len(accepted') = Len(accepted) + 1
          /\ Len(accepted) \in Nat
          /\ \A i \in 1 .. Len(accepted) : accepted'[i] = accepted[i]
          /\ accepted'[Len(accepted) + 1] = arg[c]
      BY <1>0, <3>1, <3>2
    <3>4. pc'[c] = "enqNotify" /\ \A t \in Threads : t # c => pc'[t] = pc[t]
      BY <1>0, <3>1
    <3>5. \A i \in 1 .. Len(accepted) : accepted[i] # arg[c]
      BY <1>0, <3>1, <3>2 DEF OnceInv
    <3>6. \A i, j \in 1 .. Len(accepted') : accepted'[i] = accepted'[j] => i = j
      <4>1. \A i \in 1 .. Len(accepted') : i = Len(accepted) + 1 \/ i \in 1 .. Len(accepted)
        BY <3>3
      <4> HIDE QueueAssumption
      <4> QED BY <3>3, <3>5, <4>1 DEF OnceInv
    <3>7. ASSUME NEW t \in Threads, arg[t] # NoValue, pc'[t] # "enqNotify", NEW i \in 1 .. Len(accepted')
          PROVE  accepted'[i] # arg[t]
      <4>1. t # c /\ pc[t] # "enqNotify"
        BY <3>4, <3>7
      <4>2. arg[t] # arg[c]
        BY <1>0, <3>7, <4>1 DEF OnceInv
      <4>3. \A k \in 1 .. Len(accepted) : accepted[k] # arg[t]
        BY <3>7, <4>1 DEF OnceInv
      <4>4. i = Len(accepted) + 1 \/ i \in 1 .. Len(accepted)
        BY <3>3
      <4> QED BY <3>3, <4>2, <4>3, <4>4
    <3>8. \A t \in Threads : pc'[t] \notin EnqueuePC => arg[t] = NoValue
      BY <1>0, <3>4 DEF OnceInv, EnqueuePC
    <3>9. \A t, u \in Threads : arg[t] = arg[u] /\ arg[t] # NoValue => t = u
      BY DEF OnceInv
    <3> HIDE QueueAssumption
    <3> QED BY <3>1, <3>6, <3>7, <3>8, <3>9 DEF OnceInv
  <2>5. CASE EnqueueWait(c) \/ EnqueueBlock(c)
    <3>1. Kept
      BY <1>0, <2>5 DEF EnqueueWait, EnqueueBlock, Goto, EnqueuePC, ring
    <3> QED BY <1>1, <3>1
  <2>6. CASE EnqueueFail(c)
    BY <1>0, <2>6, OnceDropped DEF EnqueueFail, Goto, Return, EnqueuePC, ring
  <2>7. CASE EnqueueNotify(c)
    <3>1. UNCHANGED accepted /\ arg' = [arg EXCEPT ![c] = NoValue]
      BY <2>7 DEF EnqueueNotify, ring
    <3>2. \A t \in Threads : t # c => \/ pc'[t] = pc[t]
                                     \/ pc[t] = "deqBlocked"
      BY <1>0, <2>7 DEF EnqueueNotify, NotifyOne, At, Goto
    <3> QED BY <1>0, <3>1, <3>2, OnceDropped DEF EnqueuePC
  <2> QED BY <1>5, <2>1, <2>2, <2>3, <2>4, <2>5, <2>6, <2>7 DEF Client, ExecuteCall, EnqueueStep
<1>6. CASE Stop \/ StopNow \/ EnsureCapacity \/ EnsureCapacityLocked
  BY <1>1, <1>3, <1>6 DEF Stop, StopNow, EnsureCapacity, EnsureCapacityLocked
<1>7. CASE ControllerStep
  <2>0. StopStep(Controller) => Kept
    <3>1. StopNotify(Controller) => Kept
      BY <1>0 DEF StopNotify, NotifyAll, EnqueuePC, ring
    <3>2. StopNowNotify(Controller) => Kept
      BY <1>0 DEF StopNowNotify, NotifyAll, EnqueuePC, ring
    <3>3. StopNowSending(Controller) => Kept
      BY <1>0 DEF StopNowSending, Goto, EnqueuePC, ring
    <3>4. StopNowNotifySending(Controller) => Kept
      BY <1>0 DEF StopNowNotifySending, NotifyAll, EnqueuePC, ring
    <3> QED BY <3>1, <3>2, <3>3, <3>4 DEF StopStep
  <2>1. StopQueue => Kept
    BY <1>0 DEF StopQueue, StopCall, Goto, EnqueuePC, ring
  <2>2. StopNowQueue => Kept
    BY <1>0 DEF StopNowQueue, StopNowCall, Goto, EnqueuePC, ring
  <2>3. StopRunningNow \/ Join \/ Joined => Kept
    BY <1>3 DEF StopRunningNow, Join, Joined
  <2> QED BY <1>1, <1>7, <2>0, <2>1, <2>2, <2>3 DEF ControllerStep
<1>8. ASSUME NEW t \in Workers \cup Clients, SpuriousWakeup(t) PROVE Kept
  BY <1>0, <1>8 DEF SpuriousWakeup, Goto, EnqueuePC, ring
<1>9. UNCHANGED vars => Kept
  BY <1>3 DEF vars
<1> QED BY <1>1, <1>4, <1>5, <1>6, <1>7, <1>8, <1>9 DEF PoolNext
LEMMA PlaceKept ==
  ASSUME PlaceInv, UNCHANGED <<delivered, executed>>,
         \A w \in Workers : Holding(w)' => Holding(w) /\ ret'[w] = ret[w]
  PROVE  PlaceInv'
<1> HIDE QueueAssumption
<1> QED BY DEF PlaceInv, Output

LEMMA PlaceNextInv ==
  ASSUME BaseInv, OnceInv, PlaceInv, [PoolNext]_vars
  PROVE  PlaceInv'
<1>0. /\ Threads = Workers \cup Clients \cup {Controller}
      /\ Workers \cap Clients = {}
      /\ Controller \notin Workers \cup Clients
      /\ ret \in [Threads -> Slots \cup Values \cup {NoValue}]
      /\ wpc \in [Workers -> WorkerPC]
      /\ executed \in [Values -> Nat]
      /\ delivered \in Seq(Values)
      /\ \A w \in Workers : ret[w] \in Values \cup {NoValue}
  BY PoolAssumption DEF BaseInv, QInv, QTypeOK, PoolVarsOK, RolesInv
<1> DEFINE Kept == /\ UNCHANGED <<delivered, executed>>
                   /\ \A w \in Workers : Holding(w)' => Holding(w) /\ ret'[w] = ret[w]
<1>1. Kept => PlaceInv'
  BY PlaceKept
<1>2. UNCHANGED <<ring, ret, wpc, executed>> => Kept
  BY DEF ring, Holding
<1>3. UNCHANGED qvars /\ UNCHANGED <<wpc, executed>> => Kept
  BY <1>2 DEF qvars
\* A queue operation of another thread than a worker, or one that fails.
<1>4. ASSUME NEW t \in Threads, UNCHANGED <<delivered, wpc, executed>>,
             \/ ret' = ret
             \/ t \notin Workers /\ \E r : ret' = [ret EXCEPT ![t] = r]
             \/ ret' = [ret EXCEPT ![t] = NoValue]
      PROVE  Kept
  BY <1>0, <1>4 DEF Holding
<1>5. ASSUME NEW w \in Workers, Worker(w) PROVE PlaceInv'
  <2>1. CASE RunTest(w) \/ RunInterrupted(w)
    <3>1. Kept
      BY <1>0, <2>1 DEF RunTest, RunInterrupted, WGoto, Holding, qvars, ring, counts
    <3> QED BY <1>1, <3>1
  <2>2. CASE RunTask(w)
    <3>1. Kept
      BY <1>0, <2>2 DEF RunTask, WGoto, Holding, qvars, ring
    <3> QED BY <1>1, <3>1
  <2>3. CASE RunDrop(w)
    <3>1. Kept
      BY <1>0, <2>3 DEF RunDrop, WGoto, Forget, Holding, ring, counts
    <3> QED BY <1>1, <3>1
  <2>4. CASE RunDequeue(w)
    <3>1. Kept
      BY <1>0, <2>4 DEF RunDequeue, WGoto, DequeueCall, DequeueRefused, Return, Holding, ring, counts
    <3> QED BY <1>1, <3>1
  <2>5. CASE RunReturn(w)
    <3>1. ret[w] \in Values /\ Holding(w)
      BY <2>5 DEF RunReturn, BaseInv, RolesInv, Holding
    <3>2. executed' = [executed EXCEPT ![ret[w]] = executed[ret[w]] + 1] /\ delivered' = delivered
      BY <2>5 DEF RunReturn, ring
    <3>3. executed[ret[w]] = 0 /\ ret[w] \in Output
      BY <3>1 DEF PlaceInv
    <3>4. executed'[ret[w]] = 1 /\ \A v \in Values : v # ret[w] => executed'[v] = executed[v]
      BY <1>0, <3>1, <3>2, <3>3
    <3>5. ~Holding(w)' /\ \A u \in Workers : Holding(u)' => Holding(u) /\ ret'[u] = ret[u]
      BY <1>0, <2>5 DEF RunReturn, WGoto, Forget, Holding
    <3>6. Output' = Output
      BY <3>2 DEF Output
    <3>7. \A u \in Workers : Holding(u)' => ret[u] # ret[w] /\ ret[u] \in Values
      BY <1>0, <3>1, <3>5 DEF PlaceInv, Holding
    <3> HIDE QueueAssumption
    <3>8. \A u \in Workers : Holding(u)' => ret'[u] \in Output' /\ executed'[ret'[u]] = 0
      BY <3>4, <3>5, <3>6, <3>7 DEF PlaceInv
    <3>9. \A u, x \in Workers : Holding(u)' /\ Holding(x)' /\ ret'[u] = ret'[x] => u = x
      BY <3>5 DEF PlaceInv
    <3>10. \A v \in Values : executed'[v] \in {0, 1} /\ (executed'[v] = 1 => v \in Output')
      BY <3>3, <3>4, <3>6 DEF PlaceInv
    <3> QED BY <3>8, <3>9, <3>10 DEF PlaceInv
  <2>6. CASE DequeueStep(w) /\ UNCHANGED pvars
    <3>0. UNCHANGED <<wpc, executed>>
      BY <2>6 DEF pvars, workerVars, counts
    <3>1. CASE DequeueWait(w) \/ DequeueBlock(w) \/ DequeueFail(w) \/ DequeueNotify(w)
      <4>1. UNCHANGED delivered /\ (ret' = ret \/ ret' = [ret EXCEPT ![w] = NoValue])
        BY <3>1 DEF DequeueWait, DequeueBlock, DequeueFail, DequeueNotify, Return, ring
      <4> QED BY <1>0, <1>1, <1>4, <3>0, <4>1
    <3>2. CASE DequeueTake(w)
      <4> DEFINE v == buffer[head]
      <4>1. /\ ret' = [ret EXCEPT ![w] = v]
            /\ delivered' = Append(delivered, v)
            /\ size > 0
        BY <3>2 DEF DequeueTake
      <4>2. v \in Values /\ v = accepted[Len(delivered) + 1]
        BY <4>1, HeadIsValue DEF BaseInv
      <4>3. /\ Len(delivered) \in Nat
            /\ Len(delivered) + 1 \in 1 .. Len(accepted)
            /\ Len(accepted) \in Nat
            /\ \A k \in 1 .. Len(delivered) : delivered[k] = accepted[k] /\ k \in 1 .. Len(accepted)
        BY <4>1 DEF BaseInv, QInv, QTypeOK, RingInv
      <4>4. v \notin Output
        BY <4>2, <4>3 DEF Output, OnceInv
      <4> HIDE DEF v
      <4>5. /\ Len(delivered') = Len(delivered) + 1
            /\ \A k \in 1 .. Len(delivered) : delivered'[k] = delivered[k]
            /\ delivered'[Len(delivered) + 1] = v
        BY <1>0, <4>1, <4>2
      <4>6. v \in Output' /\ Output \subseteq Output'
        <5>1. v \in Output'
          BY <4>3, <4>5 DEF Output
        <5>2. \A k \in 1 .. Len(delivered) : k \in 1 .. Len(delivered')
          BY <4>3, <4>5
        <5> QED BY <4>5, <5>1, <5>2 DEF Output
      <4>7. executed[v] = 0 /\ \A u \in Workers : Holding(u) => ret[u] # v
        BY <4>2, <4>4 DEF PlaceInv
      <4>8. ret'[w] = v /\ \A u \in Workers : u # w => ret'[u] = ret[u] /\ (Holding(u)' <=> Holding(u))
        BY <1>0, <3>0, <4>1, <4>2 DEF Holding
      <4> HIDE QueueAssumption
      <4>9. \A u \in Workers : Holding(u)' => ret'[u] \in Output' /\ executed'[ret'[u]] = 0
        BY <3>0, <4>6, <4>7, <4>8 DEF PlaceInv
      <4>10. \A u, x \in Workers : Holding(u)' /\ Holding(x)' /\ ret'[u] = ret'[x] => u = x
        BY <4>7, <4>8 DEF PlaceInv
      <4>11. \A x \in Values : executed'[x] \in {0, 1} /\ (executed'[x] = 1 => x \in Output')
        BY <3>0, <4>6 DEF PlaceInv
      <4> QED BY <4>9, <4>10, <4>11 DEF PlaceInv
    <3> QED BY <2>6, <3>1, <3>2 DEF DequeueStep
  <2> QED BY <1>5, <2>1, <2>2, <2>3, <2>4, <2>5, <2>6 DEF Worker
<1>6. ASSUME NEW c \in Clients, Client(c) PROVE Kept
  <2>0. c \in Threads /\ c \notin Workers
    BY <1>0
  <2>1. CASE ExecuteCall(c)
    <3>1. UNCHANGED <<delivered, wpc, executed>> /\ ret' = [ret EXCEPT ![c] = NoValue]
      BY <2>1 DEF ExecuteCall, EnqueueRefused, EnqueueCall, Return, ring, workerVars, counts
    <3> QED BY <1>4, <2>0, <3>1
  <2>2. CASE EnqueueStep(c) /\ UNCHANGED pvars
    <3>1. UNCHANGED <<delivered, wpc, executed>>
      BY <2>2 DEF EnqueueStep, EnqueuePut, EnqueueWait, EnqueueBlock, EnqueueFail, EnqueueNotify,
                  ring, pvars, workerVars, counts
    <3>2. ret' = ret \/ \E r : ret' = [ret EXCEPT ![c] = r]
      BY <2>2 DEF EnqueueStep, EnqueuePut, EnqueueWait, EnqueueBlock, EnqueueFail, EnqueueNotify, Return
    <3> QED BY <1>4, <2>0, <3>1, <3>2
  <2>3. CASE ExecuteReturn(c) \/ ExecuteRefused(c) \/ Cancel(c)
    BY <1>3, <2>3 DEF ExecuteReturn, ExecuteRefused, Cancel, workerVars, counts
  <2> QED BY <1>6, <2>1, <2>2, <2>3 DEF Client
<1>7. CASE Stop \/ StopNow \/ EnsureCapacity \/ EnsureCapacityLocked
  BY <1>1, <1>3, <1>7 DEF Stop, StopNow, EnsureCapacity, EnsureCapacityLocked, workerVars, counts
<1>8. CASE ControllerStep
  <2>1. StopStep(Controller) /\ UNCHANGED pvars => Kept
    BY <1>2 DEF StopStep, StopNotify, StopNowNotify, StopNowSending, StopNowNotifySending,
                pvars, workerVars, counts
  <2>2. StopQueue \/ StopNowQueue => Kept
    BY <1>2 DEF StopQueue, StopNowQueue, StopCall, StopNowCall, workerVars, counts
  <2>3. StopRunningNow \/ Join \/ Joined => Kept
    BY <1>3 DEF StopRunningNow, Join, Joined, workerVars, counts
  <2> QED BY <1>1, <1>8, <2>1, <2>2, <2>3 DEF ControllerStep
<1>9. ASSUME NEW t \in Workers \cup Clients, SpuriousWakeup(t), UNCHANGED pvars PROVE Kept
  BY <1>2, <1>9 DEF SpuriousWakeup, pvars, workerVars, counts
<1>10. UNCHANGED vars => Kept
  BY <1>3 DEF vars, pvars, workerVars, counts
<1> QED BY <1>1, <1>5, <1>6, <1>7, <1>8, <1>9, <1>10 DEF PoolNext
\* A task that is still in the ring has not come out of it.
LEMMA QueuedIsNotOut ==
  ASSUME BaseInv, OnceInv, NEW v \in Values, Queued(v)
  PROVE  v \notin Output
<1>1. FirstInFirstOut /\ size \in 0 .. N /\ Len(delivered) \in Nat
  BY RingInvIsFifo DEF BaseInv, QInv, QTypeOK
<1>2. PICK k \in 0 .. size - 1 : buffer[(head + k) % N] = v
  BY DEF Queued
<1>3. v = accepted[Len(delivered) + k + 1] /\ Len(accepted) = Len(delivered) + size
  BY <1>1, <1>2 DEF FirstInFirstOut
<1>4. Len(delivered) + k + 1 \in 1 .. Len(accepted)
  BY <1>1, <1>3
<1>5. ASSUME NEW i \in 1 .. Len(delivered), delivered[i] = v PROVE FALSE
  <2>1. accepted[i] = v /\ i \in 1 .. Len(accepted)
    BY <1>1, <1>3, <1>5 DEF FirstInFirstOut
  <2>2. i = Len(delivered) + k + 1
    BY <1>3, <1>4, <2>1 DEF OnceInv
  <2> QED BY <1>1, <2>2
<1> QED BY <1>5 DEF Output

LEMMA PlaceInvSuffices == BaseInv /\ OnceInv /\ PlaceInv => TaskInOnePlace
<1> SUFFICES ASSUME BaseInv, OnceInv, PlaceInv, NEW v \in Values
             PROVE  executed[v] + Cardinality(Holders(v)) + (IF Queued(v) THEN 1 ELSE 0) <= 1
  BY DEF TaskInOnePlace
<1>1. \A w \in Holders(v) : w \in Workers /\ Holding(w) /\ ret[w] = v
  BY DEF Holders, Holding
<1>2. CASE Holders(v) = {}
  <2>1. Cardinality(Holders(v)) = 0
    BY <1>2, FS_EmptySet
  <2>2. executed[v] \in {0, 1} /\ (executed[v] = 1 => ~Queued(v))
    BY QueuedIsNotOut DEF PlaceInv
  <2> QED BY <2>1, <2>2
<1>3. CASE Holders(v) # {}
  <2>1. PICK w \in Holders(v) : TRUE
    BY <1>3
  <2>2. executed[v] = 0 /\ v \in Output
    BY <1>1, <2>1 DEF PlaceInv
  <2>3. \A u \in Holders(v) : u = w
    BY <1>1, <2>1 DEF PlaceInv
  <2>4. Holders(v) = {w}
    BY <2>1, <2>3
  <2>5. Cardinality(Holders(v)) = 1
    BY <2>4, FS_Singleton
  <2>6. ~Queued(v)
    BY <2>2, QueuedIsNotOut
  <2> QED BY <2>2, <2>5, <2>6
<1> QED BY <1>2, <1>3

\* A task is queued, in the hands of one worker, or executed, and only one of
\* these; it is executed at most once, whatever workers, canceling clients and
\* the two ways of stopping the pool do meanwhile.
THEOREM PoolRunsTasksOnce == PoolSpec => []TaskInOnePlace
<1>1. PoolInit => OnceInv /\ PlaceInv
  BY PoolAssumption DEF PoolInit, QInit, OnceInv, PlaceInv, Holding, Output
<1>2. BaseInv /\ OnceInv /\ PlaceInv /\ [PoolNext]_vars => BaseInv' /\ OnceInv' /\ PlaceInv'
  BY BaseNextInv, OnceNextInv, PlaceNextInv
<1> QED BY <1>1, <1>2, BaseInitInv, PlaceInvSuffices, PTL DEF PoolSpec

-----------------------------------------------------------------------------
(* join()                                                                  *)

\* Only started workers run, and after join() the pool has capacity to spare:
\* all its workers are gone and none of them is active.
JoinInv ==
    /\ started # {}
    /\ \A w \in Workers : wpc[w] # "top" => w \in started
    /\ ~running => kpc = "joined" /\ \A w \in started : wpc[w] = "gone"

LEMMA JoinInitInv == NumThreads > 0 /\ PoolInit => JoinInv
<1> SUFFICES ASSUME NumThreads > 0, PoolInit PROVE JoinInv
  OBVIOUS
<1>1. Cardinality(started) = NumThreads /\ NumThreads # 0
  BY PoolAssumption DEF PoolInit, kSubset
<1>2. started # {}
  BY <1>1, FS_EmptySet
<1> QED BY <1>2 DEF PoolInit, JoinInv

LEMMA JoinNextInv == BaseInv /\ JoinInv /\ [PoolNext]_vars => JoinInv'
<1> SUFFICES ASSUME BaseInv, JoinInv, [PoolNext]_vars PROVE JoinInv'
  OBVIOUS
<1>0. wpc \in [Workers -> WorkerPC] /\ started \subseteq Workers /\ running \in BOOLEAN
  BY DEF BaseInv, PoolVarsOK
<1>1. UNCHANGED <<started, wpc, kpc, running>> => JoinInv'
  BY DEF JoinInv
<1>2. UNCHANGED pvars => JoinInv'
  BY <1>1 DEF pvars, workerVars, pflags
<1>3. ASSUME NEW w \in Workers, UNCHANGED <<started, kpc, running>>,
             w \in started, wpc[w] # "gone", NEW label, wpc' = [wpc EXCEPT ![w] = label]
      PROVE  JoinInv'
  BY <1>0, <1>3 DEF JoinInv
<1>4. ASSUME NEW w \in Workers, Worker(w) PROVE JoinInv'
  <2>1. CASE RunTest(w)
    BY <1>3, <2>1 DEF RunTest, WGoto, pflags
  <2>2. CASE RunDequeue(w) \/ RunInterrupted(w) \/ RunTask(w) \/ RunDrop(w) \/ RunReturn(w)
    <3>1. UNCHANGED <<started, kpc, running>> /\ wpc[w] \notin {"top", "gone"}
      BY <2>2 DEF RunDequeue, RunInterrupted, RunTask, RunDrop, RunReturn, pflags
    <3>2. \E label : wpc' = [wpc EXCEPT ![w] = label]
      BY <2>2, Zenon DEF RunDequeue, RunInterrupted, RunTask, RunDrop, RunReturn, WGoto
    <3> QED BY <1>3, <3>1, <3>2 DEF JoinInv
  <2> QED BY <1>2, <1>4, <2>1, <2>2 DEF Worker
<1>5. ASSUME NEW c \in Clients, Client(c) PROVE JoinInv'
  BY <1>1, <1>2, <1>5 DEF Client, ExecuteCall, ExecuteReturn, ExecuteRefused, Cancel, workerVars, pflags
<1>6. CASE Stop \/ StopNow \/ StopQueue \/ StopRunningNow \/ StopNowQueue \/ Join
  <2>1. UNCHANGED <<started, wpc, running>> /\ kpc # "joined"
    BY <1>6 DEF Stop, StopNow, StopQueue, StopRunningNow, StopNowQueue, Join, workerVars, pflags
  <2> QED BY <2>1 DEF JoinInv
<1>7. CASE Joined
  BY <1>7 DEF Joined, KGoto, workerVars, JoinInv
<1>8. CASE EnsureCapacity
  BY <1>1, <1>8 DEF EnsureCapacity, workerVars, pflags
<1>9. CASE EnsureCapacityLocked
  <2>1. UNCHANGED <<wpc, kpc, running>>
    BY <1>9 DEF EnsureCapacityLocked, pflags
  <2>2. CASE running
    <3>1. started \subseteq started'
      BY <1>9 DEF EnsureCapacityLocked
    <3> QED BY <2>1, <2>2, <3>1 DEF JoinInv
  <2>3. CASE ~running
    <3>1. Active = {}
      BY <2>3 DEF JoinInv, Active
    <3>2. activeCount = 0
      BY <3>1, FS_EmptySet DEF BaseInv, CountInv
    <3>3. IsFiniteSet(started)
      BY <1>0, PoolAssumption, FS_Subset
    <3>4. Cardinality(started) \in Nat /\ Cardinality(started) # 0
      BY <3>3, FS_CardinalityType, FS_EmptySet DEF JoinInv
    <3>5. HasCapacity
      BY <3>2, <3>4 DEF HasCapacity
    <3>6. UNCHANGED started
      BY <1>9, <3>5 DEF EnsureCapacityLocked
    <3> QED BY <1>1, <2>1, <3>6
  <2> QED BY <2>2, <2>3
<1>10. CASE UNCHANGED vars
  BY <1>2, <1>10 DEF vars
<1> QED BY <1>2, <1>4, <1>5, <1>6, <1>7, <1>8, <1>9, <1>10 DEF PoolNext, ControllerStep

\* join() leaves no thread behind, although ensureCapacity may run before,
\* between its test and the lock, and after it: a pool whose workers are gone
\* has capacity.  A pool constructed with no thread at all has none, and then
\* ensureCapacity starts a thread after join(): hence NumThreads > 0.
THEOREM PoolLeavesNoThread == NumThreads > 0 /\ PoolSpec => []NothingRunsAfterJoin
<1>1. NumThreads > 0 /\ PoolInit => BaseInv /\ JoinInv
  BY BaseInitInv, JoinInitInv
<1>2. BaseInv /\ JoinInv /\ [PoolNext]_vars => BaseInv' /\ JoinInv'
  BY BaseNextInv, JoinNextInv
<1>3. JoinInv => NothingRunsAfterJoin
  BY DEF JoinInv, NothingRunsAfterJoin
<1> QED BY <1>1, <1>2, <1>3, PTL DEF PoolSpec
=============================================================================
