------------------------------ MODULE MCQueue ------------------------------
(***************************************************************************)
(* Queue with a fixed part for every thread: producers call enqueue,       *)
(* consumers call dequeue, stoppers call stop and stopNow.  Each value is  *)
(* enqueued successfully at most once, so Values bounds the run.           *)
(***************************************************************************)
EXTENDS Queue, TLC

CONSTANTS Producers, Consumers, Stoppers

ASSUME RolesAssumption == Threads = Producers \cup Consumers \cup Stoppers

Used == {accepted[i] : i \in 1 .. Len(accepted)} \cup {arg[t] : t \in Threads}

Produce(t) == EnqueueRefused(t) \/ \E v \in Values \ Used : EnqueueCall(t, v)
Consume(t) == DequeueCall(t) \/ DequeueRefused(t)
Stop(t) == StopCall(t) \/ StopNowCall(t)

MCNext ==
    \/ \E t \in Producers : Produce(t) \/ EnqueueStep(t) \/ SpuriousWakeup(t)
    \/ \E t \in Consumers : Consume(t) \/ DequeueStep(t) \/ SpuriousWakeup(t)
    \/ \E t \in Stoppers : Stop(t) \/ StopStep(t)

MCSpec == QInit /\ [][MCNext]_qvars

\* A thread inside an operation keeps running, and one that is offered the
\* mutex again and again eventually gets it, however often other waiters wake
\* spuriously; a consumer calls dequeue again when the last call has returned
\* (the loops of listen() and run()).
MCFairSpec ==
    /\ MCSpec
    /\ \A t \in Threads : SF_qvars(Continue(t))
    /\ \A t \in Consumers : WF_qvars(DequeueCall(t))

\* Without a stop, whatever enqueue accepted is eventually delivered.
EverythingIsDelivered ==
    \A v \in Values :
        (\E i \in 1 .. Len(accepted) : accepted[i] = v)
            ~> (\E i \in 1 .. Len(delivered) : delivered[i] = v)

\* Without a stop, a producer that called enqueue eventually returns.
ProducersReturn == \A t \in Producers : pc[t] \in EnqueuePC ~> pc[t] = "idle"

Symmetry == Permutations(Values)
=============================================================================
