-------------------------- MODULE ParallelServer --------------------------
(***************************************************************************)
(* How the parallel language server answers messages in order of receipt   *)
(* (src/server/parallel_lsp_language_server.cpp).  The listener numbers    *)
(* each message (sendId) and hands it to the request pool; every request   *)
(* thread handles its message, waits on the condition variable `sent`      *)
(* until pendingSendId is its number (or the server exits), enqueues its   *)
(* response, waits once more and passes the turn on.                       *)
(*                                                                         *)
(* A message is known by its kind:                                         *)
(*   "reply"    the handler ends in send(): a request or a notification    *)
(*   "silent"   nothing is sent: a response, a canceled request, a handler *)
(*              that threw before send()                                   *)
(*   "exit"     the exit notification                                      *)
(* The request pool is the FIFO channel with workers of Queue and          *)
(* ThreadPool; a thread that finds the pool stopped drops its task.        *)
(***************************************************************************)
EXTENDS Naturals, Sequences

CONSTANTS Workers,       \* request threads
          MaxMessages,   \* bound on the messages received
          Nobody         \* no thread

ASSUME ServerAssumption ==
    /\ MaxMessages \in Nat
    /\ Nobody \notin Workers

VARIABLES serialSendId, pendingSendId,
          kind,        \* the kind of each message received, by sendId
          tasks,       \* sendIds queued in the request pool
          listener,    \* "listen", "execute" or "gone"
          pc,          \* where each worker is
          id,          \* the sendId each worker handles
          sentMutex,   \* the worker that holds sentMutex between two steps
          exit,        \* _exit
          stopped,     \* the pools were told to stop now
          cron,        \* the cron job checkParentProcessId
          outgoing     \* history: sendIds of the messages passed to
                       \* LanguageServer::send, in that order

vars == <<serialSendId, pendingSendId, kind, tasks, listener, pc, id, sentMutex,
          exit, stopped, cron, outgoing>>
intake == <<serialSendId, kind, listener>>
ending == <<exit, stopped, cron>>

Kinds == {"reply", "silent", "exit"}
WaitPC == {"sendLock", "sendWait", "sendBlocked", "turnLock", "turnWait", "turnBlocked"}
PC == {"idle", "taken", "handle", "stopPools", "sendTest", "sendNow", "bump",
       "notify", "gone"} \cup WaitPC

Init ==
    /\ serialSendId = 0
    /\ pendingSendId = 0
    /\ kind = << >>
    /\ tasks = << >>
    /\ listener = "listen"
    /\ pc = [w \in Workers |-> "idle"]
    /\ id = [w \in Workers |-> 0]
    /\ sentMutex = Nobody
    /\ exit = FALSE
    /\ stopped = FALSE
    /\ cron = "idle"
    /\ outgoing = << >>

KindOf(i) == kind[i + 1]
Goto(w, label) == pc' = [pc EXCEPT ![w] = label]

-----------------------------------------------------------------------------
(* listen()                                                                *)

\* incomingMessages.dequeue(), then the test of _exit and nextSendId().
Listen(k) ==
    /\ listener = "listen"
    /\ ~exit
    /\ serialSendId < MaxMessages
    /\ kind' = Append(kind, k)
    /\ serialSendId' = serialSendId + 1
    /\ listener' = "execute"
    /\ UNCHANGED <<pendingSendId, tasks, pc, id, sentMutex, ending, outgoing>>

\* Mutant: the task carries the number of the next message.
ExecuteOffByOne ==
    /\ listener = "execute"
    /\ tasks' = IF stopped THEN tasks ELSE Append(tasks, serialSendId)
    /\ listener' = "listen"
    /\ UNCHANGED <<serialSendId, pendingSendId, kind, pc, id, sentMutex, ending, outgoing>>

\* requestPool.execute(): a stopped pool refuses the task.
Execute ==
    /\ listener = "execute"
    /\ tasks' = IF stopped THEN tasks ELSE Append(tasks, serialSendId - 1)
    /\ listener' = "listen"
    /\ UNCHANGED <<serialSendId, pendingSendId, kind, pc, id, sentMutex, ending, outgoing>>

\* The loop test, or dequeue() interrupted by incomingMessages.stopNow().
ListenerEnds ==
    /\ listener = "listen"
    /\ exit
    /\ listener' = "gone"
    /\ UNCHANGED <<serialSendId, pendingSendId, kind, tasks, pc, id, sentMutex, ending, outgoing>>

-----------------------------------------------------------------------------
(* A request thread                                                        *)

\* Mutant: the task is looked at and left in the queue.
TakeTaskPeeked(w) ==
    /\ pc[w] = "idle"
    /\ tasks # << >>
    /\ ~stopped
    /\ id' = [id EXCEPT ![w] = Head(tasks)]
    /\ Goto(w, "taken")
    /\ UNCHANGED <<intake, pendingSendId, tasks, sentMutex, ending, outgoing>>

\* tasks.dequeue() in run().
TakeTask(w) ==
    /\ pc[w] = "idle"
    /\ tasks # << >>
    /\ ~stopped
    /\ id' = [id EXCEPT ![w] = Head(tasks)]
    /\ tasks' = Tail(tasks)
    /\ Goto(w, "taken")
    /\ UNCHANGED <<intake, pendingSendId, sentMutex, ending, outgoing>>

\* if (!stopRunningNow ...): the task is begun, or dropped with the thread.
BeginTask(w) ==
    /\ pc[w] = "taken"
    /\ Goto(w, IF stopped THEN "gone" ELSE "handle")
    /\ UNCHANGED <<intake, pendingSendId, tasks, id, sentMutex, ending, outgoing>>

\* Interrupted in dequeue(), or the loop test of run().
WorkerEnds(w) ==
    /\ pc[w] = "idle"
    /\ stopped
    /\ Goto(w, "gone")
    /\ UNCHANGED <<intake, pendingSendId, tasks, id, sentMutex, ending, outgoing>>

\* handle() up to the decision whether a response is sent.
Handle(w) ==
    /\ pc[w] = "handle"
    /\ KindOf(id[w]) # "exit"
    /\ Goto(w, IF KindOf(id[w]) = "reply" THEN "sendLock" ELSE "turnLock")
    /\ UNCHANGED <<intake, pendingSendId, tasks, id, sentMutex, ending, outgoing>>

\* receiveExit(): the first caller of exit() also stops the queue and the
\* pools; the response of the notification is prepared either way.
HandleExit(w) ==
    /\ pc[w] = "handle"
    /\ KindOf(id[w]) = "exit"
    /\ exit' = TRUE
    /\ Goto(w, IF exit THEN "sendLock" ELSE "stopPools")
    /\ UNCHANGED <<intake, pendingSendId, tasks, id, sentMutex, stopped, cron, outgoing>>

StopPools(w) ==
    /\ pc[w] = "stopPools"
    /\ stopped' = TRUE
    /\ Goto(w, "sendLock")
    /\ UNCHANGED <<intake, pendingSendId, tasks, id, sentMutex, exit, cron, outgoing>>

\* Mutant: a thread whose number has passed may also go ahead.
MyTurnOrLater(w) == pendingSendId <= id[w] \/ exit

MyTurn(w) == pendingSendId = id[w] \/ exit

\* sent.wait(sentLock, ...): from the label `lock` a thread takes the mutex and
\* evaluates the predicate; when it is false the thread blocks in a second
\* step.  `go` is where it continues, with the mutex released.
TakeTurn(w, lock, go) ==
    /\ pc[w] = lock
    /\ sentMutex = Nobody
    /\ MyTurn(w)
    /\ Goto(w, go)
    /\ UNCHANGED <<intake, pendingSendId, tasks, id, sentMutex, ending, outgoing>>

NotMyTurn(w, lock, wait) ==
    /\ pc[w] = lock
    /\ sentMutex = Nobody
    /\ ~MyTurn(w)
    /\ sentMutex' = w
    /\ Goto(w, wait)
    /\ UNCHANGED <<intake, pendingSendId, tasks, id, ending, outgoing>>

Block(w, wait, blocked) ==
    /\ pc[w] = wait
    /\ sentMutex' = Nobody
    /\ Goto(w, blocked)
    /\ UNCHANGED <<intake, pendingSendId, tasks, id, ending, outgoing>>

WaitTurn(w) ==
    \/ TakeTurn(w, "sendLock", "sendTest")
    \/ NotMyTurn(w, "sendLock", "sendWait")
    \/ Block(w, "sendWait", "sendBlocked")
    \/ TakeTurn(w, "turnLock", "bump")
    \/ NotMyTurn(w, "turnLock", "turnWait")
    \/ Block(w, "turnWait", "turnBlocked")

\* Mutant: the number is not compared again after the wait.
SendTestExitOnly(w) ==
    /\ pc[w] = "sendTest"
    /\ Goto(w, "sendNow")
    /\ UNCHANGED <<intake, pendingSendId, tasks, id, sentMutex, ending, outgoing>>

\* if ((pendingSendId == sendId) && !_exit), outside the mutex.
SendTest(w) ==
    /\ pc[w] = "sendTest"
    /\ Goto(w, IF pendingSendId = id[w] /\ ~exit THEN "sendNow" ELSE "turnLock")
    /\ UNCHANGED <<intake, pendingSendId, tasks, id, sentMutex, ending, outgoing>>

\* LanguageServer::send
SendNow(w) ==
    /\ pc[w] = "sendNow"
    /\ outgoing' = Append(outgoing, id[w])
    /\ Goto(w, "turnLock")
    /\ UNCHANGED <<intake, pendingSendId, tasks, id, sentMutex, ending>>

\* Mutant: only a message that was answered passes the turn on.
BumpAnswered(w) ==
    /\ pc[w] = "bump"
    /\ pendingSendId' = IF KindOf(id[w]) = "silent" THEN pendingSendId ELSE pendingSendId + 1
    /\ Goto(w, "notify")
    /\ UNCHANGED <<intake, tasks, id, sentMutex, ending, outgoing>>

\* ++pendingSendId, outside the mutex.
Bump(w) ==
    /\ pc[w] = "bump"
    /\ pendingSendId' = pendingSendId + 1
    /\ Goto(w, "notify")
    /\ UNCHANGED <<intake, tasks, id, sentMutex, ending, outgoing>>

\* sent.notify_all(), outside the mutex.
Notify(w) ==
    /\ pc[w] = "notify"
    /\ pc' = [u \in Workers |-> CASE u = w -> "idle"
                                  [] u # w /\ pc[u] = "sendBlocked" -> "sendLock"
                                  [] u # w /\ pc[u] = "turnBlocked" -> "turnLock"
                                  [] OTHER -> pc[u]]
    /\ UNCHANGED <<intake, pendingSendId, tasks, id, sentMutex, ending, outgoing>>

\* The condition variable may wake a thread that nobody notified.
SpuriousWakeup(w) ==
    /\ \/ pc[w] = "sendBlocked" /\ Goto(w, "sendLock")
       \/ pc[w] = "turnBlocked" /\ Goto(w, "turnLock")
    /\ UNCHANGED <<intake, pendingSendId, tasks, id, sentMutex, ending, outgoing>>

Worker(w) ==
    \/ TakeTask(w)
    \/ BeginTask(w)
    \/ WorkerEnds(w)
    \/ Handle(w)
    \/ HandleExit(w)
    \/ StopPools(w)
    \/ WaitTurn(w)
    \/ SendTest(w)
    \/ SendNow(w)
    \/ Bump(w)
    \/ Notify(w)

-----------------------------------------------------------------------------
(* checkParentProcessId(), run by cron in the worker pool: when the parent  *)
(* is gone it calls exit().                                                 *)

ParentIsGone ==
    /\ cron = "idle"
    /\ exit' = TRUE
    /\ cron' = IF exit THEN "done" ELSE "stopPools"
    /\ UNCHANGED <<intake, pendingSendId, tasks, pc, id, sentMutex, stopped, outgoing>>

CronStopPools ==
    /\ cron = "stopPools"
    /\ stopped' = TRUE
    /\ cron' = "done"
    /\ UNCHANGED <<intake, pendingSendId, tasks, pc, id, sentMutex, exit, outgoing>>

Next ==
    \/ \E k \in Kinds : Listen(k)
    \/ Execute
    \/ ListenerEnds
    \/ \E w \in Workers : Worker(w) \/ SpuriousWakeup(w)
    \/ ParentIsGone
    \/ CronStopPools

Spec == Init /\ [][Next]_vars

-----------------------------------------------------------------------------
(* Properties                                                              *)

SendIds == 0 .. serialSendId - 1

\* The type invariant; the numbers under way are numbers nextSendId() has given.
TypeOK ==
    /\ serialSendId \in 0 .. MaxMessages
    /\ pendingSendId \in Nat
    /\ kind \in Seq(Kinds)
    /\ Len(kind) = serialSendId
    /\ tasks \in Seq(SendIds)
    /\ listener \in {"listen", "execute", "gone"}
    /\ pc \in [Workers -> PC]
    /\ id \in [Workers -> Nat]
    /\ \A w \in Workers : pc[w] \notin {"idle", "gone"} => id[w] \in SendIds
    /\ sentMutex \in Workers \cup {Nobody}
    /\ exit \in BOOLEAN
    /\ stopped \in BOOLEAN
    /\ cron \in {"idle", "stopPools", "done"}
    /\ outgoing \in Seq(SendIds)

\* Responses leave the server in the order in which their messages were
\* received, whichever threads handle them and however long they take, also
\* while the server is exiting.
InOrderOfReceipt ==
    \A i, j \in 1 .. Len(outgoing) : i < j => outgoing[i] < outgoing[j]

Answered == {outgoing[i] : i \in 1 .. Len(outgoing)}

\* Until the server exits no message is passed over: when the turn comes to a
\* message, every earlier one that is to be answered has been answered.
NothingPassedOver ==
    ~exit => {i \in 0 .. pendingSendId - 1 : KindOf(i) = "reply"} \ Answered = {}

\* Until the server exits the turn belongs to one thread: between the moment a
\* thread finds that it is its turn and the moment it passes the turn on, no
\* other thread is in that window.
OneThreadAtATime ==
    ~exit => \A u, w \in Workers :
                 /\ pc[u] \in {"sendTest", "sendNow", "bump"}
                 /\ pc[w] \in {"sendTest", "sendNow", "bump"}
                 => u = w
=============================================================================
