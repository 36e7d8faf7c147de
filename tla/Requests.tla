----------------------------- MODULE Requests -----------------------------
(***************************************************************************)
(* The life of the client's requests in the parallel language server:      *)
(* initialization, dispatch, cancellation, shutdown and exit               *)
(* (base_lsp_language_server.cpp, handle() and what it calls, with the     *)
(* overrides of parallel_lsp_language_server.cpp).  Every message has its  *)
(* own task on the request pool, so the steps of different messages        *)
(* interleave; a step is what happens under one lock, or between two       *)
(* accesses to the atomics that the other tasks act upon.                  *)
(*                                                                         *)
(* Message m is the m-th one received; a request's id is its number.       *)
(***************************************************************************)
EXTENDS Naturals, Sequences

CONSTANT MaxMessages     \* bound on the messages received

ASSUME RequestsAssumption == MaxMessages \in Nat

VARIABLES message,       \* the messages received: type and, to cancel, target
          pc,            \* where the task of each message is
          taskIsRunning, \* the flag of each task
          active,        \* activeRequests: "absent", "task" (the flag of the
                         \* task) or "canceled" (a flag that was never a task's)
          recent,        \* recentRequests: ids whose entry is to expire
          content,       \* what the ResponseMessage holds so far
          response,      \* what was sent: "none" or a content
          initialized, shutdown, exit,
          late,          \* history: received after shutdown was answered
          forestalled    \* history: canceled before they were dispatched

vars == <<message, pc, taskIsRunning, active, recent, content, response,
          initialized, shutdown, exit, late, forestalled>>
server == <<initialized, shutdown, exit>>
table == <<active, recent>>
history == <<late, forestalled>>

Ids == 1 .. MaxMessages
RequestTypes == {"initialize", "request", "shutdown"}
Types == RequestTypes \cup {"cancel", "exit"}
Contents == {"empty", "result", "error"}

Init ==
    /\ message = << >>
    /\ pc = [m \in Ids |-> "none"]
    /\ taskIsRunning = [m \in Ids |-> TRUE]
    /\ active = [m \in Ids |-> "absent"]
    /\ recent = {}
    /\ content = [m \in Ids |-> "empty"]
    /\ response = [m \in Ids |-> "none"]
    /\ initialized = FALSE
    /\ shutdown = FALSE
    /\ exit = FALSE
    /\ late = {}
    /\ forestalled = {}

Type(m) == message[m].type
IsRequest(m) == m <= Len(message) /\ Type(m) \in RequestTypes
Goto(m, label) == pc' = [pc EXCEPT ![m] = label]
Fill(m, c) == content' = [content EXCEPT ![m] = c]

\* nextSendId(), counting from 1
NextSendId == Len(message) + 1

\* The listener hands a message to the request pool.
Receive(type, target) ==
    /\ ~exit
    /\ Len(message) < MaxMessages
    /\ IF type = "cancel" THEN IsRequest(target) ELSE target = Len(message) + 1
    /\ message' = Append(message, [type |-> type, target |-> target])
    /\ Goto(NextSendId, IF type \in RequestTypes THEN "register" ELSE "notify")
    /\ late' = IF \E m \in Ids : IsRequest(m) /\ Type(m) = "shutdown" /\ response[m] = "result"
               THEN late \cup {Len(message) + 1} ELSE late
    /\ UNCHANGED <<taskIsRunning, table, content, response, server, forestalled>>

-----------------------------------------------------------------------------
(* handleRequest()                                                         *)

\* Mutant: the flag of the task replaces whatever entry there is.
RegisterAnyway(m) ==
    /\ pc[m] = "register"
    /\ active' = [active EXCEPT ![m] = "task"]
    /\ Goto(m, "dispatch")
    /\ UNCHANGED <<message, taskIsRunning, recent, content, response, server, history>>

\* The entry of the request, under activeMutex.  When a cancellation came
\* first the request is not dispatched and its entry stays.
Register(m) ==
    /\ pc[m] = "register"
    /\ active' = [active EXCEPT ![m] = IF @ = "canceled" THEN @ ELSE "task"]
    /\ Goto(m, IF active[m] = "canceled" THEN "respond" ELSE "dispatch")
    /\ UNCHANGED <<message, taskIsRunning, recent, content, response, server, history>>

\* assertRunning()
IsRunning == ~shutdown

\* The flag is tested, then assertRunning() lets the request pass or throws.
Dispatch(m) ==
    /\ pc[m] = "dispatch"
    /\ Goto(m, IF taskIsRunning[m] /\ IsRunning THEN "accept" ELSE "respond")
    /\ IF taskIsRunning[m] /\ ~IsRunning THEN Fill(m, "error") ELSE UNCHANGED content
    /\ UNCHANGED <<message, taskIsRunning, table, response, server, history>>

\* Mutant: whether the server is initialized already is not tested.
AcceptsAgain(m) == Type(m) = "initialize" \/ initialized

\* assertInitialized(), or the only exchange of _initialized that succeeds.
Accepts(m) == IF Type(m) = "initialize" THEN ~initialized ELSE initialized

Accept(m) ==
    /\ pc[m] = "accept"
    /\ IF Accepts(m)
       THEN /\ Goto(m, "run")
            /\ initialized' = TRUE
            /\ UNCHANGED content
       ELSE /\ Goto(m, "respond")
            /\ Fill(m, "error")
            /\ UNCHANGED initialized
    /\ UNCHANGED <<message, taskIsRunning, table, response, shutdown, exit, history>>

\* The handler of the request returns a result ...
RunReturns(m) ==
    /\ pc[m] = "run"
    /\ Fill(m, "result")
    /\ shutdown' = (shutdown \/ Type(m) = "shutdown")
    /\ Goto(m, "recent")
    /\ UNCHANGED <<message, taskIsRunning, table, response, initialized, exit, history>>

\* ... or throws; the entry of the request stays.  initialize throws when no
\* parent process is known, and ends the server; when its parameters are
\* malformed the server goes on, and counts as initialized.
RunThrows(m) ==
    /\ pc[m] = "run"
    /\ Type(m) # "shutdown"
    /\ Fill(m, "error")
    /\ \E ends \in {FALSE, Type(m) = "initialize"} :
           shutdown' = (shutdown \/ ends) /\ exit' = (exit \/ ends)
    /\ Goto(m, "respond")
    /\ UNCHANGED <<message, taskIsRunning, table, response, initialized, history>>

\* ParallelLspLanguageServer::dispatch remembers the request for a while.
Remember(m) ==
    /\ pc[m] = "recent"
    /\ recent' = recent \cup {m}
    /\ Goto(m, "erase")
    /\ UNCHANGED <<message, taskIsRunning, active, content, response, server, history>>

Erase(m) ==
    /\ pc[m] = "erase"
    /\ active' = [active EXCEPT ![m] = "absent"]
    /\ Goto(m, "respond")
    /\ UNCHANGED <<message, taskIsRunning, recent, content, response, server, history>>

-----------------------------------------------------------------------------
(* The end of handle(), for requests and notifications alike               *)

\* The flag is tested before the task waits for its turn to send.
Respond(m) ==
    /\ pc[m] = "respond"
    /\ Goto(m, IF taskIsRunning[m] THEN "send" ELSE "turn")
    /\ UNCHANGED <<message, taskIsRunning, table, content, response, server, history>>

\* send(message, sendId): in order of receipt, and nothing once the server exits.
Finish(m) ==
    /\ pc[m] \in {"send", "turn"}
    /\ exit \/ \A n \in Ids : n < m => pc[n] = "done"
    /\ response' = IF pc[m] = "send" /\ ~exit
                   THEN [response EXCEPT ![m] = content[m]] ELSE response
    /\ Goto(m, "done")
    /\ UNCHANGED <<message, taskIsRunning, table, content, server, history>>

-----------------------------------------------------------------------------
(* handleNotification()                                                    *)

\* Mutant: the flags of all the registered tasks are cleared.
CancelAll(m) ==
    /\ pc[m] = "notify"
    /\ Type(m) = "cancel"
    /\ initialized /\ ~shutdown
    /\ taskIsRunning' = [i \in Ids |-> taskIsRunning[i] /\ active[i] # "task"]
    /\ Goto(m, "respond")
    /\ UNCHANGED <<message, table, content, response, server, history>>

\* receiveCancelRequest(), under activeMutex.
Cancel(m) ==
    /\ pc[m] = "notify"
    /\ Type(m) = "cancel"
    /\ initialized /\ ~shutdown
    /\ LET r == message[m].target IN
       /\ taskIsRunning' = [taskIsRunning EXCEPT ![r] = @ /\ active[r] # "task"]
       /\ active' = [active EXCEPT ![r] = IF @ = "absent" THEN "canceled" ELSE @]
       /\ forestalled' = IF pc[r] \in {"register", "dispatch"}
                         THEN forestalled \cup {r} ELSE forestalled
    /\ Goto(m, "respond")
    /\ UNCHANGED <<message, recent, content, response, server, late>>

\* dispatch() drops a notification before initialization and refuses it after
\* shutdown, exit excepted.
CancelDropped(m) ==
    /\ pc[m] = "notify"
    /\ Type(m) = "cancel"
    /\ ~initialized \/ shutdown
    /\ IF initialized THEN Fill(m, "error") ELSE UNCHANGED content
    /\ Goto(m, "respond")
    /\ UNCHANGED <<message, taskIsRunning, table, response, server, history>>

\* receiveExit() and exit()
Exit(m) ==
    /\ pc[m] = "notify"
    /\ Type(m) = "exit"
    /\ exit' = TRUE
    /\ shutdown' = TRUE
    /\ Goto(m, "respond")
    /\ UNCHANGED <<message, taskIsRunning, table, content, response, initialized, history>>

-----------------------------------------------------------------------------
(* Cron                                                                    *)

\* expireCaches(): the entry of a request that finished a second ago, which
\* only a late cancellation can have made.
Expire(r) ==
    /\ ~exit
    /\ r \in recent
    /\ recent' = recent \ {r}
    /\ active' = [active EXCEPT ![r] = "absent"]
    /\ UNCHANGED <<message, pc, taskIsRunning, content, response, server, history>>

\* checkParentProcessId(): shutdown(), then exit().  The process id may come
\* from the command line, before any initialization.
ParentIsGone ==
    /\ ~exit
    /\ shutdown' = TRUE
    /\ exit' = TRUE
    /\ UNCHANGED <<message, pc, taskIsRunning, table, content, response, initialized, history>>

Task(m) ==
    \/ Register(m)
    \/ Dispatch(m)
    \/ Accept(m)
    \/ RunReturns(m)
    \/ RunThrows(m)
    \/ Remember(m)
    \/ Erase(m)
    \/ Respond(m)
    \/ Finish(m)
    \/ Cancel(m)
    \/ CancelDropped(m)
    \/ Exit(m)

Next ==
    \/ \E type \in Types, target \in Ids : Receive(type, target)
    \/ \E m \in Ids : Task(m) \/ Expire(m)
    \/ ParentIsGone

Spec == Init /\ [][Next]_vars

-----------------------------------------------------------------------------
(* Properties                                                              *)

PC == {"none", "register", "dispatch", "accept", "run", "recent", "erase", "notify",
       "respond", "send", "turn", "done"}

\* The type invariant; a task is under way or over for exactly the messages
\* received, under the number listen() took from nextSendId().
TypeOK ==
    /\ message \in Seq([type : Types, target : Ids])
    /\ pc \in [Ids -> PC]
    /\ taskIsRunning \in [Ids -> BOOLEAN]
    /\ active \in [Ids -> {"absent", "task", "canceled"}]
    /\ recent \subseteq Ids
    /\ content \in [Ids -> Contents]
    /\ response \in [Ids -> Contents \cup {"none"}]
    /\ initialized \in BOOLEAN
    /\ shutdown \in BOOLEAN
    /\ exit \in BOOLEAN
    /\ late \subseteq Ids
    /\ forestalled \subseteq Ids
    /\ \A m \in Ids : pc[m] # "none" <=> m <= Len(message)

\* However many initialize requests are handled at once, one of them at most
\* initializes the server.
OneInitialization ==
    /\ TypeOK
    /\ \A m, n \in Ids :
           (/\ IsRequest(m) /\ Type(m) = "initialize" /\ content[m] = "result"
            /\ IsRequest(n) /\ Type(n) = "initialize" /\ content[n] = "result") => m = n

CancelReceived(r) ==
    \E m \in 1 .. Len(message) : Type(m) = "cancel" /\ message[m].target = r

\* A request nobody asked to cancel is answered with a result or an error,
\* whatever happens to the requests around it, unless the server exits.
UncanceledIsAnswered ==
    \A r \in Ids :
        (IsRequest(r) /\ pc[r] = "done" /\ ~CancelReceived(r) /\ ~exit) =>
            response[r] \in {"result", "error"}

\* A request that arrives after the client got the answer to shutdown is never
\* served, whatever tasks are still running; and a cancellation that is handled
\* before its request is dispatched keeps it from being dispatched, whether it
\* finds the entry of the request (receiveCancelRequest clears the flag) or
\* comes before it (handleRequest finds the cleared flag).
NothingServedTooLate ==
    /\ \A m \in late : IsRequest(m) => content[m] # "result"
    /\ \A r \in forestalled : content[r] = "empty"

\* "Neither of the mutually-exclusive, required ResponseMessage attributes
\* exist: result or error." (base_lsp_language_server.cpp, handleResponse): the
\* responses this server sends to requests have one of them.
ResponsesAreComplete == \A r \in Ids : IsRequest(r) => response[r] # "empty"
=============================================================================
