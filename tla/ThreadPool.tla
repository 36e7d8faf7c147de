---------------------------- MODULE ThreadPool ----------------------------
(***************************************************************************)
(* ThreadPool of src/server/thread_pool.cpp on top of its task queue (the  *)
(* Queue module, step by step).  Workers run the loop of run(); clients    *)
(* call execute() and cancel tasks through the handle it returned; one     *)
(* controller calls stop() or stopNow() and then join(); the cron thread   *)
(* of the language server calls ensureCapacity().                          *)
(*                                                                         *)
(* A task is an element of Values.  Its shared atomic<bool> `taskIsRunning`*)
(* is alive[task]; a handle is the task whose flag it points to.  What a   *)
(* task does is external: it may wait until other tasks have finished      *)
(* (WaitsFor), as request handlers wait for the handlers of the responses  *)
(* they need.                                                              *)
(***************************************************************************)
EXTENDS Queue, FiniteSetsExt

CONSTANTS Workers,       \* the threads the pool may ever start
          Clients,       \* threads that call execute
          Controller,    \* the thread that stops and joins the pool
          NumThreads,    \* how many workers the constructor starts
          WaitsFor       \* [Values -> SUBSET Values], external

ASSUME PoolAssumption ==
    /\ Threads = Workers \cup Clients \cup {Controller}
    /\ Workers \cap Clients = {}
    /\ Controller \notin Workers \cup Clients
    /\ IsFiniteSet(Workers)
    /\ NumThreads \in 0 .. Cardinality(Workers)
    /\ WaitsFor \in [Values -> SUBSET Values]

VARIABLES started,        \* workers (the vector of threads)
          wpc,            \* where each worker is in run()
          cpc,            \* where each client is in execute()
          kpc,            \* where the controller is
          growing,        \* ensureCapacity found no capacity, before the lock
          handle,         \* what execute returned to each client
          alive,          \* the flag taskIsRunning of every task
          stopRunning, stopRunningNow, running,
          activeCount, nextGrowSize,
          executed        \* history: how often each task was run

workerVars == <<started, wpc>>
clientVars == <<cpc, handle, alive>>
growVars == <<growing, nextGrowSize>>
pflags == <<stopRunning, stopRunningNow, running>>
counts == <<activeCount, executed>>
pvars == <<workerVars, clientVars, kpc, growVars, pflags, counts>>
vars == <<qvars, pvars>>

WorkerPC == {"top", "dequeue", "dequeuing", "task", "gone"}
ControllerPC == {"idle", "stop", "stopping", "now", "nowQueue", "nowStopping", "join", "joined"}

PoolInit ==
    /\ QInit
    /\ started \in kSubset(NumThreads, Workers)
    /\ wpc = [w \in Workers |-> "top"]
    /\ cpc = [c \in Clients |-> "idle"]
    /\ kpc = "idle"
    /\ growing = FALSE
    /\ handle = [c \in Clients |-> NoValue]
    /\ alive = [v \in Values |-> TRUE]
    /\ stopRunning = FALSE
    /\ stopRunningNow = FALSE
    /\ running = TRUE
    /\ activeCount = 0
    /\ nextGrowSize = 1
    /\ executed = [v \in Values |-> 0]

-----------------------------------------------------------------------------
(* run(): one worker                                                       *)

\* The element goes out of scope at the end of the loop body.
Forget(w) == ret' = [ret EXCEPT ![w] = NoValue]

WGoto(w, label) == wpc' = [wpc EXCEPT ![w] = label]

\* while (!stopRunningNow && (!stopRunning || tasks.size() > 0))
RunTest(w) ==
    /\ w \in started
    /\ wpc[w] = "top"
    /\ WGoto(w, IF ~stopRunningNow /\ (~stopRunning \/ size > 0) THEN "dequeue" ELSE "gone")
    /\ UNCHANGED <<qvars, started, clientVars, kpc, growVars, pflags, counts>>

RunDequeue(w) ==
    /\ wpc[w] = "dequeue"
    /\ DequeueCall(w) \/ DequeueRefused(w)
    /\ WGoto(w, "dequeuing")
    /\ UNCHANGED <<started, clientVars, kpc, growVars, pflags, counts>>

\* dequeue threw: the exception ends the loop.
RunInterrupted(w) ==
    /\ wpc[w] = "dequeuing"
    /\ pc[w] = "idle"
    /\ ret[w] = NoValue
    /\ WGoto(w, "gone")
    /\ UNCHANGED <<qvars, started, clientVars, kpc, growVars, pflags, counts>>

Runnable(v) == ~stopRunningNow /\ alive[v]

RunTask(w) ==
    /\ wpc[w] = "dequeuing"
    /\ pc[w] = "idle"
    /\ ret[w] \in Values
    /\ Runnable(ret[w])
    /\ WGoto(w, "task")
    /\ activeCount' = activeCount + 1
    /\ UNCHANGED <<qvars, started, clientVars, kpc, growVars, pflags, executed>>

\* Mutant: a dropped task does not take the worker back to the loop test.
RunDropAgain(w) ==
    /\ wpc[w] = "dequeuing"
    /\ pc[w] = "idle"
    /\ ret[w] \in Values
    /\ ~Runnable(ret[w])
    /\ UNCHANGED vars

\* A canceled task, or one dequeued after stopNow, is dropped.
RunDrop(w) ==
    /\ wpc[w] = "dequeuing"
    /\ pc[w] = "idle"
    /\ ret[w] \in Values
    /\ ~Runnable(ret[w])
    /\ WGoto(w, "top")
    /\ Forget(w)
    /\ UNCHANGED <<ring, flags, mutex, pc, arg, started, clientVars, kpc, growVars, pflags, counts>>

\* Mutant: the worker leaves without giving its place back.
RunReturnForgotten(w) ==
    /\ wpc[w] = "task"
    /\ \A v \in WaitsFor[ret[w]] : executed[v] > 0
    /\ WGoto(w, "top")
    /\ executed' = [executed EXCEPT ![ret[w]] = @ + 1]
    /\ Forget(w)
    /\ UNCHANGED <<ring, flags, mutex, pc, arg, started, clientVars, kpc, growVars, pflags, activeCount>>

\* Mutant: the worker looks at the same element again.
RunReturnAgain(w) ==
    /\ wpc[w] = "task"
    /\ \A v \in WaitsFor[ret[w]] : executed[v] > 0
    /\ WGoto(w, "dequeuing")
    /\ activeCount' = activeCount - 1
    /\ executed' = [executed EXCEPT ![ret[w]] = @ + 1]
    /\ UNCHANGED <<qvars, started, clientVars, kpc, growVars, pflags>>

\* The task returns or throws; either way it counts as executed.
RunReturn(w) ==
    /\ wpc[w] = "task"
    /\ \A v \in WaitsFor[ret[w]] : executed[v] > 0
    /\ WGoto(w, "top")
    /\ activeCount' = activeCount - 1
    /\ executed' = [executed EXCEPT ![ret[w]] = @ + 1]
    /\ Forget(w)
    /\ UNCHANGED <<ring, flags, mutex, pc, arg, started, clientVars, kpc, growVars, pflags>>

Worker(w) ==
    \/ RunTest(w)
    \/ RunDequeue(w)
    \/ DequeueStep(w) /\ UNCHANGED pvars
    \/ RunInterrupted(w)
    \/ RunTask(w)
    \/ RunDrop(w)
    \/ RunReturn(w)

-----------------------------------------------------------------------------
(* execute(): one client                                                   *)

\* A client submits each task once.
Submitted == {arg[t] : t \in Threads} \cup {accepted[i] : i \in 1 .. Len(accepted)}

ExecuteCall(c) ==
    /\ cpc[c] = "idle"
    /\ ~stopRunning
    /\ \/ EnqueueRefused(c)
       \/ \E v \in Values \ Submitted : EnqueueCall(c, v)
    /\ cpc' = [cpc EXCEPT ![c] = "enqueue"]
    /\ UNCHANGED <<workerVars, kpc, growVars, handle, alive, pflags, counts>>

\* elem->second is read through the pointer into the ring after enqueue has
\* unlocked: what it yields is whatever the slot holds by then.
ExecuteReturn(c) ==
    /\ cpc[c] = "enqueue"
    /\ pc[c] = "idle"
    /\ handle' = [handle EXCEPT ![c] = IF ret[c] = NoValue THEN NoValue ELSE buffer[ret[c]]]
    /\ cpc' = [cpc EXCEPT ![c] = "idle"]
    /\ UNCHANGED <<qvars, workerVars, kpc, growVars, alive, pflags, counts>>

ExecuteRefused(c) ==
    /\ cpc[c] = "idle"
    /\ stopRunning
    /\ handle' = [handle EXCEPT ![c] = NoValue]
    /\ UNCHANGED <<qvars, workerVars, cpc, kpc, growVars, alive, pflags, counts>>

\* The holder of a handle cancels its task (*handle = false).
Cancel(c) ==
    /\ cpc[c] = "idle"
    /\ handle[c] # NoValue
    /\ alive' = [alive EXCEPT ![handle[c]] = FALSE]
    /\ UNCHANGED <<qvars, workerVars, cpc, kpc, growVars, handle, pflags, counts>>

Client(c) ==
    \/ ExecuteCall(c)
    \/ EnqueueStep(c) /\ UNCHANGED pvars
    \/ ExecuteReturn(c)
    \/ ExecuteRefused(c)
    \/ Cancel(c)

-----------------------------------------------------------------------------
(* stop(), stopNow() and join()                                            *)

KGoto(label) == kpc' = label

\* stop(): stopRunning = true, then tasks.stop().
Stop ==
    /\ kpc = "idle"
    /\ stopRunning' = TRUE
    /\ KGoto("stop")
    /\ UNCHANGED <<qvars, workerVars, clientVars, growVars, stopRunningNow, running, counts>>

StopQueue ==
    /\ kpc = "stop"
    /\ StopCall(Controller)
    /\ KGoto("stopping")
    /\ UNCHANGED <<workerVars, clientVars, growVars, pflags, counts>>

\* stopNow(): stopRunning = stopRunningNow = true, then tasks.stopNow().
\* It may also follow a stop().
StopNow ==
    /\ \/ kpc = "idle"
       \/ kpc = "stopping" /\ pc[Controller] = "idle"
    /\ stopRunning' = TRUE
    /\ KGoto("now")
    /\ UNCHANGED <<qvars, workerVars, clientVars, growVars, stopRunningNow, running, counts>>

StopRunningNow ==
    /\ kpc = "now"
    /\ stopRunningNow' = TRUE
    /\ KGoto("nowQueue")
    /\ UNCHANGED <<qvars, workerVars, clientVars, growVars, stopRunning, running, counts>>

StopNowQueue ==
    /\ kpc = "nowQueue"
    /\ StopNowCall(Controller)
    /\ KGoto("nowStopping")
    /\ UNCHANGED <<workerVars, clientVars, growVars, pflags, counts>>

\* join() takes the worker mutex and waits for every thread of the vector.
Join ==
    /\ kpc \in {"stopping", "nowStopping"}
    /\ pc[Controller] = "idle"
    /\ KGoto("join")
    /\ UNCHANGED <<qvars, workerVars, clientVars, growVars, pflags, counts>>

Joined ==
    /\ kpc = "join"
    /\ \A w \in started : wpc[w] = "gone"
    /\ running' = FALSE
    /\ KGoto("joined")
    /\ UNCHANGED <<qvars, workerVars, clientVars, growVars, stopRunning, stopRunningNow, counts>>

ControllerStep ==
    \/ StopQueue
    \/ StopRunningNow
    \/ StopNowQueue
    \/ StopStep(Controller) /\ UNCHANGED pvars
    \/ Join
    \/ Joined

-----------------------------------------------------------------------------
(* ensureCapacity(): the cron thread.  join() holds the worker mutex.      *)

\* Mutant: a pool whose workers are all busy counts as having capacity.
HasCapacityOffByOne == activeCount <= Cardinality(started)

HasCapacity == activeCount < Cardinality(started)

EnsureCapacity ==
    /\ ~growing
    /\ kpc # "join"
    /\ growing' = ~HasCapacity
    /\ nextGrowSize' = IF HasCapacity THEN 1 ELSE nextGrowSize
    /\ UNCHANGED <<qvars, workerVars, clientVars, kpc, pflags, counts>>

\* Mutant: capacity is not tested again under the lock.
EnsureCapacityUntested ==
    /\ growing
    /\ kpc # "join"
    /\ growing' = FALSE
    /\ nextGrowSize <= Cardinality(Workers \ started)
    /\ \E more \in kSubset(nextGrowSize, Workers \ started) : started' = started \cup more
    /\ nextGrowSize' = 2 * nextGrowSize
    /\ UNCHANGED <<qvars, wpc, clientVars, kpc, pflags, counts>>

\* Under the lock, with the second test.  Workers bounds the growth.
EnsureCapacityLocked ==
    /\ growing
    /\ kpc # "join"
    /\ growing' = FALSE
    /\ IF HasCapacity
       THEN UNCHANGED <<started, nextGrowSize>>
       ELSE /\ nextGrowSize <= Cardinality(Workers \ started)
            /\ \E more \in kSubset(nextGrowSize, Workers \ started) :
                   started' = started \cup more
            /\ nextGrowSize' = 2 * nextGrowSize
    /\ UNCHANGED <<qvars, wpc, clientVars, kpc, pflags, counts>>

PoolNext ==
    \/ \E w \in Workers : Worker(w)
    \/ \E c \in Clients : Client(c)
    \/ \E t \in Workers \cup Clients : SpuriousWakeup(t) /\ UNCHANGED pvars
    \/ Stop
    \/ StopNow
    \/ ControllerStep
    \/ EnsureCapacity
    \/ EnsureCapacityLocked

PoolSpec == PoolInit /\ [][PoolNext]_vars

-----------------------------------------------------------------------------
(* Properties                                                              *)

\* The type invariant; activeCount stays between 0 and the number of workers
\* and nextGrowSize positive, so that the pool can always grow.
PoolTypeOK ==
    /\ QTypeOK
    /\ started \subseteq Workers
    /\ wpc \in [Workers -> WorkerPC]
    /\ cpc \in [Clients -> {"idle", "enqueue"}]
    /\ kpc \in ControllerPC
    /\ growing \in BOOLEAN
    /\ handle \in [Clients -> Values \cup {NoValue}]
    /\ alive \in [Values -> BOOLEAN]
    /\ stopRunning \in BOOLEAN
    /\ stopRunningNow \in BOOLEAN
    /\ running \in BOOLEAN
    /\ activeCount \in 0 .. Cardinality(Workers)
    /\ nextGrowSize \in Nat \ {0}
    /\ executed \in [Values -> Nat]

\* activeCount, on which ensureCapacity bases its decision without looking at
\* the workers, is the number of workers that are inside a task.
ActiveCountIsExact ==
    /\ PoolTypeOK
    /\ activeCount = Cardinality({w \in Workers : wpc[w] = "task"})

Queued(v) == \E k \in 0 .. size - 1 : buffer[(head + k) % N] = v
Holders(v) == {w \in Workers : ret[w] = v /\ wpc[w] \in {"dequeuing", "task"}}

\* A task is in at most one place: still queued, in the hands of one worker,
\* or executed.  No two workers ever run the same task and none runs twice.
TaskInOnePlace ==
    \A v \in Values :
        executed[v] + Cardinality(Holders(v)) + (IF Queued(v) THEN 1 ELSE 0) <= 1

\* Once join() has returned no thread of the pool is left, also when
\* ensureCapacity had decided to grow the pool before join() took the lock.
NothingRunsAfterJoin == ~running => \A w \in started : wpc[w] = "gone"
=============================================================================
