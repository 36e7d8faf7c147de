--------------------------- MODULE MCThreadPool ---------------------------
(***************************************************************************)
(* ThreadPool for TLC: the specifications with the fairness of the runs.   *)
(***************************************************************************)
EXTENDS ThreadPool, TLC

CONSTANTS t1, t2

Independent == [v \in Values |-> {}]

\* A request handler that waits for another one, as a handler waits for the
\* handler of the response to a request it sent.
Chain == [v \in Values |-> IF v = t1 THEN {t2} ELSE {}]

\* Scheduling: a thread that can run again and again does run (the mutex is
\* granted eventually); tasks return when what they wait for has happened;
\* the cron thread keeps calling ensureCapacity.
Fairness ==
    /\ \A w \in Workers : SF_vars(Worker(w))
    /\ \A c \in Clients : SF_vars(ExecuteReturn(c) \/ (EnqueueStep(c) /\ UNCHANGED pvars))
    /\ WF_vars(ControllerStep)

FairPoolSpec ==
    PoolSpec /\ Fairness /\ WF_vars(EnsureCapacity \/ EnsureCapacityLocked)

\* The controller stops the pool with stop() only, and joins it.
StopOnlySpec == PoolInit /\ [][PoolNext /\ kpc' # "now"]_vars /\ Fairness

\* The controller stops the pool with stopNow() only, and joins it.
StopNowSpec == PoolInit /\ [][PoolNext /\ kpc' # "stop"]_vars /\ Fairness

Accepted(v) == \E i \in 1 .. Len(accepted) : accepted[i] = v

Begun(v) == executed[v] > 0 \/ \E w \in Holders(v) : wpc[w] = "task"

\* Every task execute() accepted is begun unless it is canceled or the pool is
\* stopped, even when all workers are stuck in tasks that wait for it:
\* ensureCapacity adds threads.
AcceptedTasksBegin == \A v \in Values : Accepted(v) ~> (Begun(v) \/ ~alive[v] \/ stopRunning)

\* A worker sleeps in dequeue(), or runs a task that waits for another one.
Waiting(w) ==
    \/ pc[w] = "deqBlocked"
    \/ wpc[w] = "task" /\ \E v \in WaitsFor[ret[w]] : executed[v] = 0

\* Whichever way the pool is stopped, and whatever ensureCapacity was about to
\* do, join() returns unless a worker was not woken or its task is waiting.
JoinWaitsForSleepersOnly == (kpc = "join") ~> (~running \/ \E w \in started : Waiting(w))

\* stop() logs "Thread pool will no longer accept new tasks and will shut down
\* once those pending have returned." (thread_pool.cpp, stop).
StopShutsDown == (kpc = "join") ~> ~running

\* stopNow() logs "Stopping thread pool as quickly as possible."
\* (thread_pool.cpp, stopNow); join() then waits for the workers.
StopNowShutsDown == (kpc = "join") ~> ~running
=============================================================================
