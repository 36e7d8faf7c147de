------------------------------- MODULE Config -------------------------------
(***************************************************************************)
(* How the parallel language server learns the configuration of a document *)
(* from its client: getConfig() of base_ and parallel_lsp_language_server, *)
(* the workspace/configuration request with its retries, the response, and *)
(* didChangeConfiguration, which invalidates what was learnt.              *)
(*                                                                         *)
(* One document.  A configuration is the version the client has reached,   *)
(* 0 at first.  A step is what happens under one lock.  The client is      *)
(* external: it answers a copy of a request with the version it has then,  *)
(* or it answers with an error, or the copy gets lost.                     *)
(***************************************************************************)
EXTENDS Naturals, FiniteSets

CONSTANTS Callers,       \* the threads that ask for the configuration
          None,
          MaxAttempts,   \* workspaceConfig->retry.maxAttempts
          MaxChanges,    \* bound on the changes of the configuration
          MaxRequests    \* bound on the requests sent, other than retries

ASSUME ConfigAssumption ==
    /\ MaxAttempts \in Nat
    /\ MaxChanges \in Nat
    /\ MaxRequests \in Nat \ {0}
    /\ None \notin Nat

VARIABLES conf,          \* configsByUri[uri]
          lsp,           \* lspConfigsByUri[uri]
          pendingByUri,  \* pendingConfigsByUri[uri]: the request awaited
          pendingById,   \* the keys of pendingConfigsById
          promise,       \* the promise of each request
          requests,      \* the keys of requestsById
          serialRequestId,
          retry,         \* the retry record of each request
          attempt,       \* the retries of each request so far
          copy,          \* where copy n of request id, or its reply, is
          value,         \* what that reply says
          pc, waitsFor, result, \* the callers
          floor,         \* history: the invalidations a caller may rely on
          client,        \* the version the client has reached
          change         \* where the handler of each change is

pending == <<pendingByUri, pendingById, promise>>
caches == <<conf, lsp>>
sending == <<requests, serialRequestId, retry, attempt>>
replies == <<copy, value>>
callers == <<pc, waitsFor, result, floor>>
environment == <<client, change>>
vars == <<caches, pending, sending, replies, callers, environment>>

Ids == 0 .. MaxRequests - 1
Copies == 1 .. MaxAttempts + 1
Versions == 0 .. MaxChanges
Changes == 1 .. MaxChanges

Init ==
    /\ conf = None
    /\ lsp = None
    /\ pendingByUri = None
    /\ pendingById = {}
    /\ promise = [id \in Ids |-> None]
    /\ requests = {}
    /\ serialRequestId = 0
    /\ retry = [id \in Ids |-> "none"]
    /\ attempt = [id \in Ids |-> 0]
    /\ copy = [id \in Ids |-> [n \in Copies |-> "none"]]
    /\ value = [id \in Ids |-> [n \in Copies |-> None]]
    /\ pc = [c \in Callers |-> "idle"]
    /\ waitsFor = [c \in Callers |-> None]
    /\ result = [c \in Callers |-> None]
    /\ floor = [c \in Callers |-> 0]
    /\ client = 0
    /\ change = [k \in Changes |-> "none"]

-----------------------------------------------------------------------------
(* getConfig()                                                             *)

Goto(c, label) == pc' = [pc EXCEPT ![c] = label]
Take(c, v) == result' = [result EXCEPT ![c] = v]

\* The last change whose handler has cleared both caches.
Invalidated == CHOOSE k \in Versions :
                   /\ k = 0 \/ change[k] = "done"
                   /\ \A j \in Changes : change[j] = "done" => j <= k

\* A call, up to the end of the lookup in lspConfigsByUri.
Call(c) ==
    /\ pc[c] = "idle"
    /\ Goto(c, IF lsp # None THEN "idle" ELSE "config")
    /\ Take(c, lsp)
    /\ floor' = [floor EXCEPT ![c] = Invalidated]
    /\ UNCHANGED <<caches, pending, sending, replies, waitsFor, environment>>

\* The lookup in configsByUri under the read lock.
LookUp(c) ==
    /\ pc[c] = "config"
    /\ Goto(c, IF conf # None THEN "store" ELSE "request")
    /\ Take(c, conf)
    /\ UNCHANGED <<caches, pending, sending, replies, waitsFor, floor, environment>>

\* The lookup again, under the write lock.
LookUpAgain(c) ==
    /\ pc[c] = "request"
    /\ conf # None
    /\ Goto(c, "store")
    /\ Take(c, conf)
    /\ UNCHANGED <<caches, pending, sending, replies, waitsFor, floor, environment>>

\* Mutant: whether a request is pending already is not looked up.
CanJoinNever == FALSE

\* pendingConfigsByUri has an entry.
CanJoin == pendingByUri # None

Join(c) ==
    /\ pc[c] = "request"
    /\ conf = None
    /\ CanJoin
    /\ Goto(c, "wait")
    /\ waitsFor' = [waitsFor EXCEPT ![c] = pendingByUri]
    /\ UNCHANGED <<caches, pending, sending, replies, result, floor, environment>>

\* LspLanguageServer::send enters the request unless it is there.
Enter(id) == requests \cup {id}

\* sendWorkspace_configuration() and the two pending entries.
Request(c) ==
    /\ pc[c] = "request"
    /\ conf = None
    /\ ~CanJoin
    /\ serialRequestId \in Ids
    /\ LET id == serialRequestId IN
       /\ serialRequestId' = id + 1
       /\ requests' = Enter(id)
       /\ copy' = [copy EXCEPT ![id][1] = "client"]
       /\ retry' = [retry EXCEPT ![id] = "armed"]
       /\ pendingById' = pendingById \cup {id}
       /\ pendingByUri' = id
       /\ waitsFor' = [waitsFor EXCEPT ![c] = id]
    /\ Goto(c, "wait")
    /\ UNCHANGED <<caches, promise, attempt, value, result, floor, environment>>

\* The future is ready.
Wake(c) ==
    /\ pc[c] = "wait"
    /\ promise[waitsFor[c]] # None
    /\ Goto(c, "store")
    /\ Take(c, promise[waitsFor[c]])
    /\ waitsFor' = [waitsFor EXCEPT ![c] = None]
    /\ UNCHANGED <<caches, pending, sending, replies, floor, environment>>

\* lspConfigsByUri under the write lock: the entry that is there wins.
Store(c) ==
    /\ pc[c] = "store"
    /\ lsp' = IF lsp # None THEN lsp ELSE result[c]
    /\ Take(c, lsp')
    /\ Goto(c, "idle")
    /\ UNCHANGED <<conf, pending, sending, replies, waitsFor, floor, environment>>

-----------------------------------------------------------------------------
(* The client (external)                                                   *)

Answer(id, n) ==
    /\ copy[id][n] = "client"
    /\ copy' = [copy EXCEPT ![id][n] = "arrived"]
    /\ value' = [value EXCEPT ![id][n] = client]
    /\ UNCHANGED <<caches, pending, sending, callers, environment>>

\* No answer comes, or an error does, or a result of the wrong size: dispatch()
\* or the handler logs it and nothing changes.
NoAnswer(id, n) ==
    /\ copy[id][n] = "client"
    /\ copy' = [copy EXCEPT ![id][n] = "done"]
    /\ UNCHANGED <<caches, pending, sending, value, callers, environment>>

Change ==
    /\ client < MaxChanges
    /\ client' = client + 1
    /\ change' = [change EXCEPT ![client + 1] = "sent"]
    /\ UNCHANGED <<caches, pending, sending, replies, callers>>

-----------------------------------------------------------------------------
(* The response                                                            *)

\* dispatch() looks the request up by its id.
Dispatch(id, n) ==
    /\ copy[id][n] = "arrived"
    /\ copy' = [copy EXCEPT ![id][n] = IF id \in requests THEN "found" ELSE "done"]
    /\ UNCHANGED <<caches, pending, sending, value, callers, environment>>

\* Mutant: the record is not looked up.
HasRecordAlways(id) == TRUE

\* pendingConfigsById has an entry.
HasRecord(id) == id \in pendingById

\* receiveWorkspace_configuration(), under the write lock of configMutex.  The
\* configuration that is there wins.
ReceiveConfiguration(id, n) ==
    /\ copy[id][n] = "found"
    /\ HasRecord(id)
    /\ conf' = IF conf # None THEN conf ELSE value[id][n]
    /\ promise' = [promise EXCEPT ![id] = conf']
    /\ pendingByUri' = None
    /\ pendingById' = pendingById \ {id}
    /\ copy' = [copy EXCEPT ![id][n] = "erase"]
    /\ UNCHANGED <<lsp, sending, value, callers, environment>>

\* "No record exists of this config being requested.": the handler throws, and
\* the entry of requestsById stays.
NoRecord(id, n) ==
    /\ copy[id][n] = "found"
    /\ ~HasRecord(id)
    /\ copy' = [copy EXCEPT ![id][n] = "norecord"]
    /\ UNCHANGED <<caches, pending, sending, value, callers, environment>>

\* The end of dispatch()
EraseRequest(id, n) ==
    /\ copy[id][n] = "erase"
    /\ requests' = requests \ {id}
    /\ copy' = [copy EXCEPT ![id][n] = "done"]
    /\ UNCHANGED <<caches, pending, serialRequestId, retry, attempt, value, callers, environment>>

-----------------------------------------------------------------------------
(* retryRequests()                                                         *)

CanRetry(id) == attempt[id] < MaxAttempts

\* The record of a request expires; it is scheduled again or given up.
TimeOut(id) ==
    /\ retry[id] = "armed"
    /\ retry' = [retry EXCEPT ![id] = IF CanRetry(id) THEN "scheduled" ELSE "spent"]
    /\ UNCHANGED <<caches, pending, requests, serialRequestId, attempt, replies, callers,
                   environment>>

\* The scheduled task looks for the request.
RetryLookUp(id) ==
    /\ retry[id] = "scheduled"
    /\ retry' = [retry EXCEPT ![id] = IF id \in requests THEN "send" ELSE "none"]
    /\ UNCHANGED <<caches, pending, requests, serialRequestId, attempt, replies, callers,
                   environment>>

\* It sends the request again, entering it anew if a reply has erased it since.
RetrySend(id) ==
    /\ retry[id] = "send"
    /\ requests' = Enter(id)
    /\ attempt' = [attempt EXCEPT ![id] = @ + 1]
    /\ copy' = [copy EXCEPT ![id][attempt[id] + 2] = "client"]
    /\ retry' = [retry EXCEPT ![id] = "armed"]
    /\ UNCHANGED <<caches, pending, serialRequestId, value, callers, environment>>

-----------------------------------------------------------------------------
(* didChangeConfiguration: invalidateConfigCaches()                        *)

ClearConfigs(k) ==
    /\ change[k] = "sent"
    /\ conf' = None
    /\ change' = [change EXCEPT ![k] = "cleared"]
    /\ UNCHANGED <<lsp, pending, sending, replies, callers, client>>

ClearLspConfigs(k) ==
    /\ change[k] = "cleared"
    /\ lsp' = None
    /\ change' = [change EXCEPT ![k] = "done"]
    /\ UNCHANGED <<conf, pending, sending, replies, callers, client>>

-----------------------------------------------------------------------------

Caller(c) ==
    \/ Call(c)
    \/ LookUp(c)
    \/ LookUpAgain(c)
    \/ Join(c)
    \/ Request(c)
    \/ Wake(c)
    \/ Store(c)

Reply(id, n) ==
    \/ Dispatch(id, n)
    \/ ReceiveConfiguration(id, n)
    \/ NoRecord(id, n)
    \/ EraseRequest(id, n)

Retry(id) == TimeOut(id) \/ RetryLookUp(id) \/ RetrySend(id)

Handler(k) == ClearConfigs(k) \/ ClearLspConfigs(k)

Next ==
    \/ \E c \in Callers : Caller(c)
    \/ \E id \in Ids, n \in Copies : Answer(id, n) \/ NoAnswer(id, n) \/ Reply(id, n)
    \/ \E id \in Ids : Retry(id)
    \/ Change
    \/ \E k \in Changes : Handler(k)

Spec == Init /\ [][Next]_vars

-----------------------------------------------------------------------------
(* Properties                                                              *)

Configs == Versions \cup {None}
CopyPC == {"none", "client", "arrived", "found", "erase", "norecord", "done"}

\* The type invariant.
TypeOK ==
    /\ conf \in Configs
    /\ lsp \in Configs
    /\ pendingByUri \in Ids \cup {None}
    /\ pendingById \subseteq Ids
    /\ promise \in [Ids -> Configs]
    /\ requests \subseteq Ids
    /\ serialRequestId \in 0 .. MaxRequests
    /\ retry \in [Ids -> {"none", "armed", "scheduled", "send", "spent"}]
    /\ attempt \in [Ids -> 0 .. MaxAttempts]
    /\ copy \in [Ids -> [Copies -> CopyPC]]
    /\ value \in [Ids -> [Copies -> Configs]]
    /\ pc \in [Callers -> {"idle", "config", "request", "wait", "store"}]
    /\ waitsFor \in [Callers -> Ids \cup {None}]
    /\ result \in [Callers -> Configs]
    /\ floor \in [Callers -> Versions]
    /\ client \in Versions
    /\ change \in [Changes -> {"none", "sent", "cleared", "done"}]

\* Whoever waits in getConfig() for an answer waits for a request that an answer
\* still finds: its promise is recorded and dispatch() can look it up, however
\* many copies, replies and invalidations have passed it by.  The two tables of
\* pending requests agree, so that of all callers one sends a request and the
\* others share its future; and the client is asked at most once for what it has
\* not invalidated.
OneRequestServesAll ==
    /\ TypeOK
    /\ \A c \in Callers :
           (pc[c] = "wait" /\ promise[waitsFor[c]] = None) =>
               waitsFor[c] \in pendingById \cap requests
    /\ pendingById = IF pendingByUri = None THEN {} ELSE {pendingByUri}
    /\ serialRequestId <= Cardinality({k \in Changes : change[k] \in {"cleared", "done"}}) + 1

\* However many replies a retried request gets, its promise is set once:
\* std::promise throws when it is set again.
PromiseIsSetOnce ==
    [][\A id \in Ids, n \in Copies :
           (copy[id][n] = "found" /\ copy'[id][n] = "erase") => promise[id] = None]_vars

\* What a caller gets is not older than an invalidation that was complete when
\* it called.  (src/tests: "The cache was invalidated so the config must be
\* requested again")
FreshConfig ==
    \A c \in Callers : (pc[c] = "idle" /\ result[c] # None) => result[c] >= floor[c]

\* "No record exists of this config being requested. Please file a ticket.": a
\* response to a request the server did send never gets there.
ResponseHasRecord == \A id \in Ids, n \in Copies : copy[id][n] # "norecord"
=============================================================================
