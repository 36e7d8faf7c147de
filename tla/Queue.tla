------------------------------- MODULE Queue -------------------------------
(***************************************************************************)
(* Queue<T,N> of src/server/queue.hpp: the blocking ring buffer that       *)
(* carries messages between the communicator and the language server and   *)
(* tasks between a thread pool's clients and its workers.                  *)
(*                                                                         *)
(* A thread is outside the queue (pc "idle") or between two atomic steps   *)
(* of one of its four operations.  The ring is only touched under `mutex`, *)
(* so taking the mutex, evaluating the wait predicate and, when it allows, *)
(* updating the ring is a single step.  What happens outside the mutex is  *)
(* a step of its own: the flag test before locking, notify_one after       *)
(* unlocking, and every flag change and notify_all of stop and stopNow,    *)
(* which never lock.  A waiter that found the predicate false still holds  *)
(* the mutex ("enqWait", "deqWait") until it blocks ("enqBlocked",         *)
(* "deqBlocked"); a notification sent in between does not reach it.        *)
(***************************************************************************)
EXTENDS Naturals, Sequences, FiniteSets

CONSTANTS Threads,   \* every thread that uses the queue
          N,         \* capacity of the ring
          Values,    \* elements that may be enqueued
          NoValue    \* nullptr, a failed dequeue, or nothing returned yet

ASSUME QueueAssumption ==
    /\ N \in Nat \ {0}
    /\ NoValue \notin Values
    /\ NoValue \notin Nat
    /\ NoValue \notin Threads
    /\ IsFiniteSet(Threads)

VARIABLES buffer, sending, receiving, head, tail, size, seen,
          mutex,      \* the holder of the mutex between two steps, or NoValue
          pc,         \* where each thread is in its operation
          arg,        \* the value each thread is enqueueing
          ret,        \* what its last operation returned: a slot (the pointer
                      \* of enqueue), a value (dequeue) or NoValue
          accepted,   \* history: the values put into the ring, in order
          delivered   \* history: the values taken out of the ring, in order

ring == <<buffer, head, tail, size, seen, accepted, delivered>>
flags == <<sending, receiving>>
qvars == <<ring, flags, mutex, pc, arg, ret>>

Slots == 0 .. N - 1
EnqueuePC == {"enqLock", "enqWait", "enqBlocked", "enqNotify"}
DequeuePC == {"deqLock", "deqWait", "deqBlocked", "deqNotify"}
StopPC == {"stopNotify", "nowNotify", "nowSending", "nowNotifySending"}
PC == {"idle"} \cup EnqueuePC \cup DequeuePC \cup StopPC

At(label) == {t \in Threads : pc[t] = label}

QInit ==
    /\ buffer = [i \in Slots |-> NoValue]
    /\ sending = TRUE
    /\ receiving = TRUE
    /\ head = 0
    /\ tail = 0
    /\ size = 0
    /\ seen = 0
    /\ mutex = NoValue
    /\ pc = [t \in Threads |-> "idle"]
    /\ arg = [t \in Threads |-> NoValue]
    /\ ret = [t \in Threads |-> NoValue]
    /\ accepted = << >>
    /\ delivered = << >>

\* Mutant: the index runs past the end of the buffer.
AdvanceUnwrapped(i) == i + 1

\* Mutant: the index stays where it is.
AdvanceNot(i) == i

Advance(i) == (i + 1) % N

Goto(t, label) == pc' = [pc EXCEPT ![t] = label]
Return(t, value) == Goto(t, "idle") /\ ret' = [ret EXCEPT ![t] = value]

\* cv.notify_one() by t, which then goes to label: one of the threads blocked
\* on the condition variable, if there is one, goes back for the mutex.
NotifyOne(t, label, blocked, woken) ==
    IF At(blocked) = {}
    THEN Goto(t, label)
    ELSE \E w \in At(blocked) : pc' = [pc EXCEPT ![t] = label, ![w] = woken]

\* cv.notify_all() by t, which then goes to label.
NotifyAll(t, label, blocked, woken) ==
    pc' = [u \in Threads |-> CASE u = t -> label
                               [] u # t /\ pc[u] = blocked -> woken
                               [] OTHER -> pc[u]]

-----------------------------------------------------------------------------
(* enqueue                                                                 *)

\* The unlocked test of `receiving`.
EnqueueCall(t, v) ==
    /\ pc[t] = "idle"
    /\ receiving
    /\ arg' = [arg EXCEPT ![t] = v]
    /\ ret' = [ret EXCEPT ![t] = NoValue]
    /\ Goto(t, "enqLock")
    /\ UNCHANGED <<ring, flags, mutex>>

EnqueueRefused(t) ==
    /\ pc[t] = "idle"
    /\ ~receiving
    /\ Return(t, NoValue)
    /\ UNCHANGED <<ring, flags, mutex, arg>>

EnqueuePut(t) ==
    /\ pc[t] = "enqLock"
    /\ mutex = NoValue
    /\ size < N
    /\ receiving
    /\ buffer' = [buffer EXCEPT ![tail] = arg[t]]
    /\ ret' = [ret EXCEPT ![t] = tail]
    /\ tail' = Advance(tail)
    /\ size' = size + 1
    /\ seen' = seen + 1
    /\ accepted' = Append(accepted, arg[t])
    /\ Goto(t, "enqNotify")
    /\ UNCHANGED <<head, delivered, flags, mutex, arg>>

EnqueueWait(t) ==
    /\ pc[t] = "enqLock"
    /\ mutex = NoValue
    /\ ~(size < N \/ ~receiving)
    /\ mutex' = t
    /\ Goto(t, "enqWait")
    /\ UNCHANGED <<ring, flags, arg, ret>>

EnqueueBlock(t) ==
    /\ pc[t] = "enqWait"
    /\ mutex' = NoValue
    /\ Goto(t, "enqBlocked")
    /\ UNCHANGED <<ring, flags, arg, ret>>

EnqueueFail(t) ==
    /\ pc[t] = "enqLock"
    /\ mutex = NoValue
    /\ ~receiving
    /\ Return(t, NoValue)
    /\ arg' = [arg EXCEPT ![t] = NoValue]
    /\ UNCHANGED <<ring, flags, mutex>>

\* Mutant: notify only when the element seems to be the only one.
EnqueueNotifyFirstOnly(t) ==
    /\ pc[t] = "enqNotify"
    /\ IF size = 1 THEN NotifyOne(t, "idle", "deqBlocked", "deqLock") ELSE Goto(t, "idle")
    /\ arg' = [arg EXCEPT ![t] = NoValue]
    /\ UNCHANGED <<ring, flags, mutex, ret>>

EnqueueNotify(t) ==
    /\ pc[t] = "enqNotify"
    /\ NotifyOne(t, "idle", "deqBlocked", "deqLock")
    /\ arg' = [arg EXCEPT ![t] = NoValue]
    /\ UNCHANGED <<ring, flags, mutex, ret>>

EnqueueStep(t) ==
    \/ EnqueuePut(t)
    \/ EnqueueWait(t)
    \/ EnqueueBlock(t)
    \/ EnqueueFail(t)
    \/ EnqueueNotify(t)

-----------------------------------------------------------------------------
(* dequeue                                                                 *)

\* The unlocked test of `sending`.
DequeueCall(t) ==
    /\ pc[t] = "idle"
    /\ sending
    /\ ret' = [ret EXCEPT ![t] = NoValue]
    /\ Goto(t, "deqLock")
    /\ UNCHANGED <<ring, flags, mutex, arg>>

DequeueRefused(t) ==
    /\ pc[t] = "idle"
    /\ ~sending
    /\ Return(t, NoValue)
    /\ UNCHANGED <<ring, flags, mutex, arg>>

DequeueTake(t) ==
    /\ pc[t] = "deqLock"
    /\ mutex = NoValue
    /\ size > 0
    /\ sending
    /\ ret' = [ret EXCEPT ![t] = buffer[head]]
    /\ delivered' = Append(delivered, buffer[head])
    /\ head' = Advance(head)
    /\ size' = size - 1
    /\ Goto(t, "deqNotify")
    /\ UNCHANGED <<buffer, tail, seen, accepted, flags, mutex, arg>>

DequeueWait(t) ==
    /\ pc[t] = "deqLock"
    /\ mutex = NoValue
    /\ ~(size > 0 \/ ~sending)
    /\ mutex' = t
    /\ Goto(t, "deqWait")
    /\ UNCHANGED <<ring, flags, arg, ret>>

DequeueBlock(t) ==
    /\ pc[t] = "deqWait"
    /\ mutex' = NoValue
    /\ Goto(t, "deqBlocked")
    /\ UNCHANGED <<ring, flags, arg, ret>>

\* The exception DEQUEUE_FAILED_MESSAGE.
DequeueFail(t) ==
    /\ pc[t] = "deqLock"
    /\ mutex = NoValue
    /\ ~sending
    /\ Return(t, NoValue)
    /\ UNCHANGED <<ring, flags, mutex, arg>>

DequeueNotify(t) ==
    /\ pc[t] = "deqNotify"
    /\ NotifyOne(t, "idle", "enqBlocked", "enqLock")
    /\ UNCHANGED <<ring, flags, mutex, arg, ret>>

DequeueStep(t) ==
    \/ DequeueTake(t)
    \/ DequeueWait(t)
    \/ DequeueBlock(t)
    \/ DequeueFail(t)
    \/ DequeueNotify(t)

\* A condition variable may also wake without a notification.
SpuriousWakeup(t) ==
    /\ \/ pc[t] = "enqBlocked" /\ Goto(t, "enqLock")
       \/ pc[t] = "deqBlocked" /\ Goto(t, "deqLock")
    /\ UNCHANGED <<ring, flags, mutex, arg, ret>>

-----------------------------------------------------------------------------
(* stop and stopNow                                                        *)

\* compare_exchange on `receiving`; a second stop throws and changes nothing.
StopCall(t) ==
    /\ pc[t] = "idle"
    /\ receiving
    /\ receiving' = FALSE
    /\ Goto(t, "stopNotify")
    /\ UNCHANGED <<ring, sending, mutex, arg, ret>>

StopNotify(t) ==
    /\ pc[t] = "stopNotify"
    /\ NotifyAll(t, "idle", "enqBlocked", "enqLock")
    /\ UNCHANGED <<ring, flags, mutex, arg, ret>>

\* Mutant: stopNow closes the reading end and leaves the writing end open.
StopNowCallReadingOnly(t) ==
    /\ pc[t] = "idle"
    /\ Goto(t, "nowSending")
    /\ UNCHANGED <<ring, flags, mutex, arg, ret>>

StopNowCall(t) ==
    /\ pc[t] = "idle"
    /\ receiving' = FALSE
    /\ Goto(t, IF receiving THEN "nowNotify" ELSE "nowSending")
    /\ UNCHANGED <<ring, sending, mutex, arg, ret>>

StopNowNotify(t) ==
    /\ pc[t] = "nowNotify"
    /\ NotifyAll(t, "nowSending", "enqBlocked", "enqLock")
    /\ UNCHANGED <<ring, flags, mutex, arg, ret>>

StopNowSending(t) ==
    /\ pc[t] = "nowSending"
    /\ sending' = FALSE
    /\ Goto(t, IF sending THEN "nowNotifySending" ELSE "idle")
    /\ UNCHANGED <<ring, receiving, mutex, arg, ret>>

StopNowNotifySending(t) ==
    /\ pc[t] = "nowNotifySending"
    /\ NotifyAll(t, "idle", "deqBlocked", "deqLock")
    /\ UNCHANGED <<ring, flags, mutex, arg, ret>>

StopStep(t) ==
    \/ StopNotify(t)
    \/ StopNowNotify(t)
    \/ StopNowSending(t)
    \/ StopNowNotifySending(t)

\* A thread that is inside an operation takes its next step.
Continue(t) == EnqueueStep(t) \/ DequeueStep(t) \/ StopStep(t)

QNext ==
    \E t \in Threads :
        \/ \E v \in Values : EnqueueCall(t, v)
        \/ EnqueueRefused(t)
        \/ DequeueCall(t)
        \/ DequeueRefused(t)
        \/ StopCall(t)
        \/ StopNowCall(t)
        \/ Continue(t)
        \/ SpuriousWakeup(t)

QSpec == QInit /\ [][QNext]_qvars

-----------------------------------------------------------------------------
(* Properties                                                              *)

\* The type invariant; the indices stay inside the ring of queue.hpp.
QTypeOK ==
    /\ buffer \in [Slots -> Values \cup {NoValue}]
    /\ sending \in BOOLEAN
    /\ receiving \in BOOLEAN
    /\ head \in Slots
    /\ tail \in Slots
    /\ size \in 0 .. N
    /\ seen \in Nat
    /\ mutex \in Threads \cup {NoValue}
    /\ pc \in [Threads -> PC]
    /\ arg \in [Threads -> Values \cup {NoValue}]
    /\ ret \in [Threads -> Slots \cup Values \cup {NoValue}]
    /\ accepted \in Seq(Values)
    /\ delivered \in Seq(Values)
    \* a value is held in arg exactly while it is being enqueued
    /\ \A t \in Threads : pc[t] \in EnqueuePC => arg[t] \in Values

\* The ring holds exactly the values that were accepted and not delivered
\* yet, in their order, starting at head and wrapping around at N; what was
\* delivered is what was accepted first.  Nothing is lost, duplicated,
\* reordered or overwritten while it is inside (the index arithmetic of
\* enqueue and dequeue).
FirstInFirstOut ==
    /\ seen = Len(accepted)
    /\ Len(accepted) = Len(delivered) + size
    /\ tail = (head + size) % N
    /\ \A k \in 1 .. Len(delivered) : delivered[k] = accepted[k]
    /\ \A k \in 0 .. size - 1 :
           buffer[(head + k) % N] = accepted[Len(delivered) + k + 1]

\* While dequeuing is allowed, a blocked consumer is never forgotten: of the
\* blocked consumers, as many as there are elements have a notification on its
\* way or a competitor that is about to take the element.  The same holds of
\* producers that wait for a free slot, while enqueueing is allowed.
NoForgottenWaiter ==
    /\ sending =>
        \/ Cardinality(At("deqBlocked")) <= Cardinality(At("enqNotify") \cup At("deqLock"))
        \/ size <= Cardinality(At("enqNotify") \cup At("deqLock"))
    /\ receiving =>
        \/ Cardinality(At("enqBlocked")) <= Cardinality(At("deqNotify") \cup At("enqLock"))
        \/ N - size <= Cardinality(At("deqNotify") \cup At("enqLock"))

\* The ring, read from head, is the abstract channel.
Fifo == INSTANCE BoundedFifo WITH
            fifo <- [k \in 1 .. size |-> buffer[(head + k - 1) % N]],
            accepting <- receiving,
            delivering <- sending,
            log <- delivered

\* queue.hpp implements the bounded FIFO channel its users rely on.
ImplementsFifo == Fifo!Spec
=============================================================================
