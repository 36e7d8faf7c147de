-------------------------------- MODULE Cron --------------------------------
(***************************************************************************)
(* The cron thread of the parallel language server (schedule(),            *)
(* unschedule() and chronicle() of src/server/parallel_lsp_language_server)*)
(* composed with the worker pool it feeds and grows, and with the request  *)
(* threads that feed the same pool from validate() while they hold         *)
(* validationMutex (src/bin/parallel_lfortran_lsp_language_server.cpp).    *)
(*                                                                         *)
(* Time is abstract: an entry of the heap cronJobs gets due at any moment, *)
(* and the heap yields the entries in the order in which they got due.     *)
(* The pool is the bounded FIFO with workers of Queue and ThreadPool.  Of  *)
(* the notifications those two modules are about it keeps the one that can *)
(* get lost: stopNow() clears its flags and notifies without the mutex, so *)
(* the thread that holds it then, between its test and its wait, sleeps on.*)
(* Each validation is of a document of its own (Documents has those of one *)
(* document).                                                              *)
(* Workers differ only in what they run, so they are a number of threads   *)
(* and a set of pairs of a task and where it is.                           *)
(***************************************************************************)
EXTENDS Naturals, Sequences, FiniteSets

CONSTANTS Recurring,     \* the jobs with an entry in cronSchedules
          Retry,         \* the one of them that is retryRequests
          Dropped,       \* those of them that somebody unschedules
          OneShots,      \* the jobs retryRequests schedules, a new id each
          Validations,   \* calls of validate(), each by a request thread
          NumThreads,    \* the threads the worker pool starts with
          MaxThreads,    \* bound on their number
          Capacity,      \* TASK_QUEUE_CAPACITY
          Nothing

Jobs == Recurring \cup OneShots

ASSUME CronAssumption ==
    /\ Retry \in Recurring
    /\ Dropped \subseteq Recurring
    /\ Recurring \cap OneShots = {}
    /\ Jobs \cap Validations = {}
    /\ Nothing \notin Jobs \cup Validations
    /\ IsFiniteSet(Jobs \cup Validations)
    /\ NumThreads \in Nat \ {0}
    /\ MaxThreads \in Nat /\ NumThreads <= MaxThreads
    /\ Capacity \in Nat \ {0}

VARIABLES cronSchedules, \* its keys
          later,         \* entries of cronJobs that are not due yet
          due,           \* entries of cronJobs that are due, earliest first
          unused,        \* one-shot jobs not scheduled yet
          cron, popped,  \* where chronicle() is, and the job it has popped
          tasks,         \* the task queue of the worker pool
          threads,       \* how many threads it has
          active,        \* the tasks they are in, and where
          rpc,           \* where each call of validate() is
          validationMutex,
          exit, stopped, \* _exit; the pools were told to stop now
          asleep,        \* who missed the notification of that
          runs           \* history: starts of each one-shot job, and of each
                         \* other one since unschedule() returned true

heap == <<later, due, unused>>
thread == <<cron, popped>>
pool == <<tasks, threads, active>>
validation == <<rpc, validationMutex>>
ending == <<exit, stopped, asleep>>
vars == <<cronSchedules, heap, thread, pool, validation, ending, runs>>

Items == Jobs \cup Validations
TaskPC == {"job", "push", "validating", "erase"}

\* The state the constructor leaves when it has scheduled its jobs.
Init ==
    /\ cronSchedules = Recurring
    /\ later = Recurring
    /\ due = << >>
    /\ unused = OneShots
    /\ cron = "top"
    /\ popped = Nothing
    /\ tasks = << >>
    /\ threads = NumThreads
    /\ active = {}
    /\ rpc = [v \in Validations |-> "idle"]
    /\ validationMutex = Nothing
    /\ exit = FALSE
    /\ stopped = FALSE
    /\ asleep = "nobody"
    /\ runs = [j \in Jobs |-> 0]

\* Time passes.
Elapse(j) ==
    /\ j \in later
    /\ later' = later \ {j}
    /\ due' = Append(due, j)
    /\ UNCHANGED <<cronSchedules, unused, thread, pool, validation, ending, runs>>

-----------------------------------------------------------------------------
(* unschedule()                                                            *)

\* The lookup under the read lock only spares the write lock, under which it
\* is repeated; it returns true exactly if it erases.
Unschedule(j) ==
    /\ j \in cronSchedules
    /\ cronSchedules' = cronSchedules \ {j}
    /\ UNCHANGED <<heap, thread, pool, validation, ending, runs>>

-----------------------------------------------------------------------------
(* chronicle()                                                             *)

\* Mutant: the pool never grows.
EnsureCapacityNever == UNCHANGED threads

\* ThreadPool::ensureCapacity(), whose hasCapacity() is activeCount <
\* numThreads().  One thread more: ThreadPool has the momentum.
EnsureCapacity ==
    threads' = IF Cardinality(active) < threads \/ threads = MaxThreads
               THEN threads ELSE threads + 1

CronGrow ==
    /\ cron = "top"
    /\ ~exit
    /\ EnsureCapacity
    /\ cron' = "scan"
    /\ UNCHANGED <<cronSchedules, heap, popped, tasks, active, validation, ending, runs>>

\* Mutant: the job stays in the heap, at its next time, while it runs.
CronPopKeeps ==
    /\ cron = "scan"
    /\ due # << >>
    /\ popped' = Head(due)
    /\ due' = Tail(due)
    /\ later' = later \cup {Head(due)}
    /\ cron' = "submit"
    /\ UNCHANGED <<cronSchedules, unused, pool, validation, ending, runs>>

CronPop ==
    /\ cron = "scan"
    /\ due # << >>
    /\ popped' = Head(due)
    /\ due' = Tail(due)
    /\ cron' = "submit"
    /\ UNCHANGED <<cronSchedules, later, unused, pool, validation, ending, runs>>

\* Nothing is due: sleep and start over.
CronSleep ==
    /\ cron = "scan"
    /\ due = << >>
    /\ cron' = "top"
    /\ UNCHANGED <<cronSchedules, heap, popped, pool, validation, ending, runs>>

\* Mutant: no thread that waits for room is woken by stopNow().
ExecutesSleeping(item, who) == Len(tasks) < Capacity /\ tasks' = Append(tasks, item)

\* execute() returns: the task is queued, or refused by a pool that stops.
\* A thread that finds the queue full waits inside, and sleeps on if it is the
\* one that missed stopNow().
Executes(item, who) ==
    IF stopped THEN asleep # who /\ UNCHANGED tasks
               ELSE Len(tasks) < Capacity /\ tasks' = Append(tasks, item)

CronSubmit ==
    /\ cron = "submit"
    /\ Executes(popped, "cron")
    /\ popped' = Nothing
    /\ cron' = IF exit THEN "top" ELSE "scan"
    /\ UNCHANGED <<cronSchedules, heap, threads, active, validation, ending, runs>>

CronLeave ==
    /\ cron = "top"
    /\ exit
    /\ cron' = "gone"
    /\ UNCHANGED <<cronSchedules, heap, popped, pool, validation, ending, runs>>

Chronicle == CronGrow \/ CronPop \/ CronSleep \/ CronSubmit \/ CronLeave

-----------------------------------------------------------------------------
(* A worker                                                                *)

At(i, label) == [task |-> i, at |-> label] \in active
Goto(i, from, to) ==
    /\ At(i, from)
    /\ active' = (active \ {[task |-> i, at |-> from]}) \cup {[task |-> i, at |-> to]}
Finish(i, from) ==
    /\ At(i, from)
    /\ active' = active \ {[task |-> i, at |-> from]}

SomeIdle == Cardinality(active) < threads

\* tasks.dequeue() in run().
Take(i) ==
    /\ SomeIdle
    /\ ~stopped
    /\ tasks # << >>
    /\ i = Head(tasks)
    /\ tasks' = Tail(tasks)

\* The task of a cron job begins, unless the server exits.  Nobody holds its
\* handle, so taskIsRunning is true.
JobStart(j) ==
    /\ Take(j)
    /\ active' = active \cup (IF exit THEN {} ELSE {[task |-> j, at |-> "job"]})
    /\ runs' = [runs EXCEPT ![j] = IF j \in cronSchedules \/ exit THEN @ ELSE @ + 1]
    /\ UNCHANGED <<cronSchedules, heap, thread, threads, validation, ending>>

\* The task of a validation begins.
ValidationStart(v) ==
    /\ Take(v)
    /\ active' = active \cup {[task |-> v, at |-> "validating"]}
    /\ UNCHANGED <<cronSchedules, heap, thread, threads, validation, ending, runs>>

\* The idle workers that nothing wakes.
Sleeping == IF asleep = "worker" THEN 1 ELSE 0

\* A worker finds the pool stopped.
Leave ==
    /\ Cardinality(active) + Sleeping < threads
    /\ stopped
    /\ threads' = threads - 1
    /\ UNCHANGED <<cronSchedules, heap, thread, tasks, active, validation, ending, runs>>

\* retryRequests schedules the retry of one more request that timed out.
RetryRequests ==
    /\ At(Retry, "job")
    /\ ~exit
    /\ \E j \in unused : unused' = unused \ {j} /\ later' = later \cup {j}
    /\ UNCHANGED <<cronSchedules, due, thread, pool, validation, ending, runs>>

\* Mutant: the job is pushed again whether or not it has a schedule.
JobReturnIgnored(j) ==
    /\ Goto(j, "job", "push")
    /\ UNCHANGED <<cronSchedules, heap, thread, tasks, threads, validation, ending, runs>>

\* The job returns or throws, and its schedule is looked up.
JobReturn(j) ==
    /\ IF j \in cronSchedules THEN Goto(j, "job", "push") ELSE Finish(j, "job")
    /\ UNCHANGED <<cronSchedules, heap, thread, tasks, threads, validation, ending, runs>>

\* Its next time, under cronMutex.
JobPush(j) ==
    /\ Finish(j, "push")
    /\ later' = later \cup {j}
    /\ UNCHANGED <<cronSchedules, due, unused, thread, tasks, threads, validation, ending, runs>>

\* A validation gets the configuration it asked the client for and is through.
\* Once the pools are told to stop the client's answer is not handled.
Answer(v) ==
    /\ ~stopped
    /\ Goto(v, "validating", "erase")
    /\ UNCHANGED <<cronSchedules, heap, thread, tasks, threads, validation, ending, runs>>

\* It removes itself from validationsByUri.
Erase(v) ==
    /\ validationMutex = Nothing
    /\ Finish(v, "erase")
    /\ UNCHANGED <<cronSchedules, heap, thread, tasks, threads, validation, ending, runs>>

RunJob(j) == JobStart(j) \/ JobReturn(j) \/ JobPush(j)
RunValidation(v) == ValidationStart(v) \/ Erase(v)

-----------------------------------------------------------------------------
(* validate() of a request thread, and the end                             *)

ValidateLock(v) ==
    /\ rpc[v] = "idle"
    /\ validationMutex = Nothing
    /\ validationMutex' = v
    /\ rpc' = [rpc EXCEPT ![v] = "execute"]
    /\ UNCHANGED <<cronSchedules, heap, thread, pool, ending, runs>>

\* workerPool.execute() returns; the handle goes into validationsByUri.
ValidateExecute(v) ==
    /\ rpc[v] = "execute"
    /\ Executes(v, "validate")
    /\ rpc' = [rpc EXCEPT ![v] = "done"]
    /\ validationMutex' = Nothing
    /\ UNCHANGED <<cronSchedules, heap, thread, threads, active, ending, runs>>

\* exit(), from the exit notification or from checkParentProcessId ...
Exit ==
    /\ ~exit
    /\ exit' = TRUE
    /\ UNCHANGED <<cronSchedules, heap, thread, pool, validation, stopped, asleep, runs>>

\* Who may hold the mutex of the task queue, about to wait: a worker that found
\* the queue empty, or one of those who found it full.
MayMiss ==
    {who \in {"worker", "cron", "validate"} :
        \/ who = "worker" /\ SomeIdle /\ tasks = << >>
        \/ who = "cron" /\ cron = "submit" /\ Len(tasks) = Capacity
        \/ who = "validate" /\ validationMutex # Nothing /\ Len(tasks) = Capacity}

\* ... and requestPool.stopNow(), workerPool.stopNow(), whose notifications one
\* thread may miss.
StopPools ==
    /\ exit
    /\ ~stopped
    /\ stopped' = TRUE
    /\ asleep' \in {"nobody"} \cup MayMiss
    /\ UNCHANGED <<cronSchedules, heap, thread, pool, validation, exit, runs>>

\* A spurious wake-up of that thread.
SpuriousWakeup ==
    /\ asleep # "nobody"
    /\ asleep' = "nobody"
    /\ UNCHANGED <<cronSchedules, heap, thread, pool, validation, exit, stopped, runs>>

Next ==
    \/ \E j \in Jobs : Elapse(j) \/ RunJob(j)
    \/ \E j \in Dropped : Unschedule(j)
    \/ Chronicle
    \/ Leave
    \/ RetryRequests
    \/ \E v \in Validations : RunValidation(v) \/ Answer(v) \/ ValidateLock(v) \/ ValidateExecute(v)
    \/ Exit
    \/ StopPools
    \/ SpuriousWakeup

\* Threads that can run do, time passes, and an exit that began goes on.  A
\* thread that waits for room in the task queue is not passed over for ever.
\* The client need not answer, so a validation may wait for ever.
Spec ==
    /\ Init
    /\ [][Next]_vars
    /\ WF_vars(Chronicle)
    /\ WF_vars(Leave)
    /\ \A j \in Jobs : WF_vars(Elapse(j)) /\ WF_vars(RunJob(j))
    /\ \A v \in Validations : WF_vars(RunValidation(v)) /\ SF_vars(ValidateExecute(v))
    /\ WF_vars(StopPools)

-----------------------------------------------------------------------------
(* Properties                                                              *)

\* The type invariant.
TypeOK ==
    /\ cronSchedules \subseteq Recurring
    /\ later \subseteq Jobs
    /\ due \in Seq(Jobs)
    /\ unused \subseteq OneShots
    /\ cron \in {"top", "scan", "submit", "gone"}
    /\ popped \in Jobs \cup {Nothing}
    /\ tasks \in Seq(Items)
    /\ Len(tasks) <= Capacity
    /\ threads \in 0 .. MaxThreads
    /\ active \subseteq [task : Items, at : TaskPC]
    /\ Cardinality(active) <= threads
    /\ rpc \in [Validations -> {"idle", "execute", "done"}]
    /\ validationMutex \in Validations \cup {Nothing}
    /\ exit \in BOOLEAN
    /\ stopped \in BOOLEAN
    /\ asleep \in {"nobody", "worker", "cron", "validate"}
    /\ runs \in [Jobs -> Nat]

\* Where job j is: in the heap, in chronicle(), in the task queue, in a worker.
Places(j) ==
    {<<"later", i>> : i \in {j} \cap later}
        \cup {<<"due", i>> : i \in {k \in DOMAIN due : due[k] = j}}
        \cup {<<"popped", i>> : i \in {j} \cap {popped}}
        \cup {<<"tasks", i>> : i \in {k \in DOMAIN tasks : tasks[k] = j}}
        \cup {<<"worker", a>> : a \in {x \in active : x.task = j}}

\* No job is ever in two places, so none overlaps with itself (retryRequests
\* relies on it: it takes the top of retryAttempts after releasing the lock
\* under which it saw that there is one); and as long as a job has a schedule
\* and the server does not exit, none gets lost on its way from the heap
\* through the task queue and back.
JobInOnePlace ==
    /\ TypeOK
    /\ \A j \in Jobs :
           /\ Cardinality(Places(j)) <= 1
           /\ j \in cronSchedules /\ ~exit => Places(j) # {}

\* Once unschedule(j) has returned true job j starts at most once more, even
\* when its task had looked up the schedule before and pushed it after; and
\* the retry of a request, scheduled without a schedule, starts once.
NoRunsAfterUnschedule == \A j \in Jobs : runs[j] <= 1

\* The cron thread waits for room in the task queue, and every worker waits
\* for the client or for a mutex whose owner waits for that room too.
Wedged ==
    /\ cron = "submit"
    /\ ~stopped
    /\ Len(tasks) = Capacity
    /\ Cardinality({a \in active : a.at \in {"validating", "erase"}}) = threads

\* No circle of threads that wait for each other whatever the client does:
\* cron and a call of validate() for room in the task queue, all workers for
\* the mutex of that call.  The code does not exclude it.
NoCircularWait ==
    ~ /\ Wedged
      /\ validationMutex # Nothing
      /\ \A a \in active : a.at = "erase"

\* Every job that is scheduled runs again and again although validations may
\* wait for the client forever and fill the pool, because ensureCapacity()
\* adds threads; only a cron thread that itself waits for room can be stuck.
JobsKeepRunning ==
    \A j \in Recurring :
        []<>(\/ At(j, "job")
             \/ j \notin cronSchedules
             \/ exit
             \/ Wedged)

\* validate() waits for room in the task queue with validationMutex in its
\* hands, which the workers need to finish; it gets room nevertheless, or
\* learns of the stop, unless cron waits for room too and nothing can give it
\* or the call is the one that missed stopNow().
SubmitterReturns ==
    \A v \in Validations :
        rpc[v] = "execute" ~> rpc[v] = "done" \/ Wedged \/ asleep = "validate"

\* A worker waits for an answer of the client that no thread is left to handle,
\* or for the mutex of a call of validate() that missed stopNow().
LeftBehind(a) ==
    \/ a.at = "validating"
    \/ a.at = "erase" /\ asleep = "validate"

\* After exit() the threads do not all end: the notifications of stopNow() do
\* not reach a thread between its test and its wait.  But that is one thread at
\* most, the cron thread or one worker or one call of validate(), and all the
\* others end except the workers left behind in a validation.
ExitEndsThreads ==
    exit ~> /\ cron = "gone" \/ asleep = "cron"
            /\ threads = Sleeping + Cardinality({a \in active : LeftBehind(a)})
=============================================================================
