------------------------- MODULE MCParallelServer -------------------------
(***************************************************************************)
(* ParallelServer for TLC: the specifications with the fairness of the     *)
(* runs.                                                                   *)
(***************************************************************************)
EXTENDS ParallelServer, TLC

\* The threads keep running; a thread that is offered sentMutex again and
\* again eventually gets it.  Messages may stop coming.
WorkerFairness == \A w \in Workers : SF_vars(Worker(w))

\* Everything may happen, exits included.
FairSpec == Spec /\ WF_vars(Execute) /\ WorkerFairness

\* The parent process stays alive and the client sends no exit notification.
QuietNext ==
    \/ Listen("reply")
    \/ Listen("silent")
    \/ Execute
    \/ \E w \in Workers : Worker(w) \/ SpuriousWakeup(w)

QuietSpec == Init /\ [][QuietNext]_vars /\ WF_vars(Execute) /\ WorkerFairness

\* No notify_all lands between the evaluation of another
\* thread's wait predicate and the moment that thread blocks.
NoNotifyInTheGap ==
    (\E w \in Workers : pc[w] = "notify" /\ pc'[w] = "idle")
        => \A u \in Workers : pc[u] \notin {"sendWait", "turnWait"}

\* As QuietSpec, when that is so and the server exits because cron finds that
\* the parent process is gone.
OrphanSpec ==
    /\ Init
    /\ [][(QuietNext \/ ListenerEnds \/ ParentIsGone \/ CronStopPools) /\ NoNotifyInTheGap]_vars
    /\ WF_vars(Execute)
    /\ WF_vars(ListenerEnds)
    /\ WF_vars(CronStopPools)
    /\ WorkerFairness

\* "Without knowledge of their dependencies, we must respond to all requests
\* in order of receipt" (parallel_lsp_language_server.cpp, send): every message
\* that is to be answered is answered.
AllRequestsAnswered ==
    \A i \in 0 .. MaxMessages - 1 :
        (i < serialSendId /\ KindOf(i) = "reply") ~> (i \in Answered)

\* A thread whose turn it is sleeps, and nobody is about to call notify_all.
LostNotification ==
    /\ \E w \in Workers : pc[w] \in {"sendBlocked", "turnBlocked"} /\ id[w] = pendingSendId
    /\ \A w \in Workers : pc[w] # "notify"

\* The turn taking of send() and handle() has one weak point only: every
\* message that is to be answered is answered, or the server exits, or a thread
\* has missed the notification for its turn.
AnsweredUnlessAsleep ==
    \A i \in 0 .. MaxMessages - 1 :
        (i < serialSendId /\ KindOf(i) = "reply")
            ~> (i \in Answered \/ exit \/ LostNotification)

\* exit() calls requestPool.stopNow(), "Stopping thread pool as quickly as
\* possible." (thread_pool.cpp, stopNow): every request thread ends, so that
\* join() returns.
ExitEndsWorkers == stopped ~> \A w \in Workers : pc[w] = "gone"
=============================================================================
