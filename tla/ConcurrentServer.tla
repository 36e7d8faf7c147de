-------------------------- MODULE ConcurrentServer --------------------------
(***************************************************************************)
(* The single-threaded server (src/server/concurrent_lsp_language_server). *)
(* A handler that needs a configuration asks the client for it and, while  *)
(* it waits, handles the messages that come in from inside awaitResponse():*)
(* handlers nest on the call stack, and the innermost returns first.  The  *)
(* responses nevertheless leave in order of receipt: those that are early  *)
(* stay in the heap pendingMessages.                                       *)
(*                                                                         *)
(* A message is "plain" (a request or notification whose handler returns   *)
(* at once), "exit", "needs" (a request that needs the configuration of a  *)
(* document), or the client's response to a request, a "result" or an      *)
(* "error".  There is one thread, so a step goes from one dequeue() or     *)
(* return to the next.                                                     *)
(***************************************************************************)
EXTENDS Integers, Sequences, FiniteSets, SequencesExt

CONSTANTS Uris,          \* documents
          MaxMessages,   \* bound on the messages other than responses
          None

ASSUME ConcurrentAssumption ==
    /\ MaxMessages \in Nat
    /\ None \notin Uris \cup Nat
    /\ IsFiniteSet(Uris)

VARIABLES incoming,      \* incomingMessages
          left,          \* messages the client may still send
          serialSendId,
          sender,        \* what is sent: [outgoing, pendingSendId, pendingMessages]
          stack,         \* the handlers inside awaitResponse(), outermost first
          returned,      \* a call of handle() has just returned
          configs,       \* the keys of configsByUri
          pending,       \* pendingConfigsByUri: the request asked for each document
          responses,     \* responsesById: was the response a result?
          requests,      \* serialRequestId
          answered,      \* the requests the client has answered
          exit,          \* _exit
          failed         \* history: requests answered with an error

serverVars == <<serialSendId, sender, stack, returned, configs, pending, responses, requests, exit, failed>>
vars == <<incoming, left, answered, serverVars>>

Response == [kind : {"result", "error"}, arg : Nat]
Message == [kind : {"plain", "exit"}, arg : {None}] \cup [kind : {"needs"}, arg : Uris]
\* The members of pendingMessages; `text` is FALSE for the empty optional.
Pending == [id : Nat, text : BOOLEAN]

Init ==
    /\ incoming = << >>
    /\ left = MaxMessages
    /\ serialSendId = 0
    /\ sender = [outgoing |-> << >>, pendingSendId |-> 0, pendingMessages |-> {}]
    /\ stack = << >>
    /\ returned = FALSE
    /\ configs = {}
    /\ pending = [u \in Uris |-> None]
    /\ responses = [r \in {} |-> TRUE]
    /\ requests = 0
    /\ answered = {}
    /\ exit = FALSE
    /\ failed = {}

-----------------------------------------------------------------------------
(* The client                                                              *)

ClientSends ==
    /\ left > 0
    /\ left' = left - 1
    /\ \E m \in Message : incoming' = Append(incoming, m)
    /\ UNCHANGED <<answered, serverVars>>

\* It answers requests in any order, with a result or with an error.
ClientAnswers ==
    /\ \E r \in (0 .. requests - 1) \ answered, kind \in {"result", "error"} :
        /\ incoming' = Append(incoming, [kind |-> kind, arg |-> r])
        /\ answered' = answered \cup {r}
    /\ UNCHANGED <<left, serverVars>>

-----------------------------------------------------------------------------
(* The order of responses                                                  *)

\* The messages among the entries, in order.
Texts(entries) ==
    LET ids == {e.id : e \in {e \in entries : e.text}}
    IN  CHOOSE s \in [1 .. Cardinality(ids) -> ids] : \A i, j \in DOMAIN s : i < j => s[i] < s[j]

\* Mutant: only the entry whose turn it is gets sent; the second entry of the
\* same number stays in the way.
SendAllReadyEqual(s) ==
    LET P == s.pendingSendId
        first == {e \in s.pendingMessages : e.id = P /\ ~e.text}
        e == CHOOSE e \in first : TRUE
    IN  IF first = {} \/ \E o \in s.pendingMessages : o.id < P THEN s
        ELSE [s EXCEPT !.pendingSendId = P + 1, !.pendingMessages = @ \ {e}]

\* Mutant: entries are sent as they are popped, whatever their turn.
SendAllReadyEager(s) ==
    [outgoing |-> s.outgoing \o Texts(s.pendingMessages),
     pendingSendId |-> s.pendingSendId,
     pendingMessages |-> {}]

\* The loop pops the entries up to the first number that is missing.
SendAllReady(s) ==
    LET ids == {e.id : e \in s.pendingMessages}
        next == CHOOSE n \in s.pendingSendId .. s.pendingSendId + Cardinality(ids) :
                    n \notin ids /\ \A k \in s.pendingSendId .. n - 1 : k \in ids
        ready == {e \in s.pendingMessages : e.id < next}
    IN  [outgoing |-> s.outgoing \o Texts(ready),
         pendingSendId |-> next,
         pendingMessages |-> s.pendingMessages \ ready]

\* send()
Send(s, n) ==
    SendAllReady(IF s.pendingSendId = n
                 THEN [s EXCEPT !.outgoing = Append(@, n), !.pendingSendId = n + 1]
                 ELSE [s EXCEPT !.pendingMessages = @ \cup {[id |-> n, text |-> TRUE]}])

\* Mutant: the turn of a message without response is never passed on.
CompleteSilently(s, n) == s

\* The end of handle().
Complete(s, n) ==
    IF s.pendingSendId <= n
    THEN SendAllReady([s EXCEPT !.pendingMessages = @ \cup {[id |-> n, text |-> FALSE]}])
    ELSE s

\* Message n is answered and its handle() returns; after exit nothing is sent.
Answer(n) ==
    IF exit THEN UNCHANGED sender
            ELSE \E s \in {Send(sender, n)} : sender' = Complete(s, n)

\* Message n is not answered, and its handle() returns.
Skip(n) == IF exit THEN UNCHANGED sender ELSE sender' = Complete(sender, n)

-----------------------------------------------------------------------------
(* listen() and awaitResponse() dequeue a message and handle it            *)

Receive(kind, arg) ==
    /\ ~returned
    /\ ~exit
    /\ incoming # << >>
    /\ Head(incoming) = [kind |-> kind, arg |-> arg]
    /\ incoming' = Tail(incoming)
    /\ serialSendId' = serialSendId + 1

HandlePlain ==
    /\ Receive("plain", None)
    /\ Answer(serialSendId)
    /\ returned' = TRUE
    /\ UNCHANGED <<left, answered, stack, configs, pending, responses, requests, exit, failed>>

HandleExit ==
    /\ Receive("exit", None)
    /\ exit' = TRUE
    /\ returned' = TRUE
    /\ UNCHANGED <<left, answered, sender, stack, configs, pending, responses, requests, failed>>

\* getConfig() finds the configuration.
HandleKnown(u) ==
    /\ Receive("needs", u)
    /\ u \in configs
    /\ Answer(serialSendId)
    /\ returned' = TRUE
    /\ UNCHANGED <<left, answered, stack, configs, pending, responses, requests, exit, failed>>

\* getConfig() finds a request whose response is there and was an error, or
\* else the pending entry would be gone: it throws.
HandleRefused(u) ==
    /\ Receive("needs", u)
    /\ u \notin configs
    /\ pending[u] # None
    /\ pending[u] \in DOMAIN responses
    /\ Answer(serialSendId)
    /\ failed' = failed \cup {[sendId |-> serialSendId, uri |-> u]}
    /\ returned' = TRUE
    /\ UNCHANGED <<left, answered, stack, configs, pending, responses, requests, exit>>

Await(u, r) == stack' = Append(stack, [sendId |-> serialSendId, uri |-> u, awaits |-> r])

\* Mutant: a request that is pending already is not joined.
MustAskAlways(u) == TRUE

MustAsk(u) == pending[u] = None

\* getConfig() asks the client, or joins a request that is pending, and waits.
HandleAsk(u) ==
    /\ Receive("needs", u)
    /\ u \notin configs
    /\ MustAsk(u)
    /\ pending' = [pending EXCEPT ![u] = requests]
    /\ requests' = requests + 1
    /\ Await(u, requests)
    /\ UNCHANGED <<left, answered, sender, returned, configs, responses, exit, failed>>

HandleJoin(u) ==
    /\ Receive("needs", u)
    /\ u \notin configs
    /\ ~MustAsk(u)
    /\ pending[u] \notin DOMAIN responses
    /\ Await(u, pending[u])
    /\ UNCHANGED <<left, answered, sender, returned, configs, pending, responses, requests, exit, failed>>

\* handleResponse(): a result fills the cache and the promise and removes the
\* pending entry, an error does not; either is recorded.
HandleResponse(kind, id) ==
    /\ Receive(kind, id)
    /\ LET waiting == {u \in Uris : pending[u] = id} IN
       IF kind = "result"
       THEN /\ configs' = configs \cup waiting
            /\ pending' = [u \in Uris |-> IF u \in waiting THEN None ELSE pending[u]]
       ELSE UNCHANGED <<configs, pending>>
    /\ responses' = [r \in DOMAIN responses \cup {id} |->
                        IF r = id THEN kind = "result" ELSE responses[r]]
    /\ sender' = Complete(sender, serialSendId)
    /\ returned' = TRUE
    /\ UNCHANGED <<left, answered, stack, requests, exit, failed>>

-----------------------------------------------------------------------------
(* A call of handle() has returned to listen() or to awaitResponse()       *)

\* The response the innermost handler waits for is there, or the server exits.
IsDone == stack # << >> /\ (Last(stack).awaits \in DOMAIN responses \/ exit)

\* A $/cancelRequest for it may be among the messages that were handled since,
\* the response it waited for not counted.
MayBeCanceled(frame) == serialSendId > frame.sendId + 2

\* The handler goes on to its end: with the configuration, or by an exception.
\* A request that was canceled meanwhile is not answered.
Resume ==
    /\ returned
    /\ IsDone
    /\ LET frame == Last(stack)
           ok == frame.awaits \in DOMAIN responses /\ responses[frame.awaits]
       IN  /\ \/ Answer(frame.sendId)
              \/ MayBeCanceled(frame) /\ Skip(frame.sendId)
           /\ failed' = IF ok THEN failed ELSE failed \cup {[sendId |-> frame.sendId, uri |-> frame.uri]}
    /\ stack' = Front(stack)
    /\ UNCHANGED <<incoming, left, answered, serialSendId, returned, configs, pending, responses, requests, exit>>

\* Back to dequeue().
Continue ==
    /\ returned
    /\ ~IsDone
    /\ returned' = FALSE
    /\ UNCHANGED <<incoming, left, answered, serialSendId, sender, stack, configs, pending, responses, requests, exit, failed>>

Server ==
    \/ HandlePlain
    \/ HandleExit
    \/ \E u \in Uris : HandleKnown(u) \/ HandleRefused(u) \/ HandleAsk(u) \/ HandleJoin(u)
    \/ \E kind \in {"result", "error"}, id \in 0 .. requests - 1 : HandleResponse(kind, id)
    \/ Resume
    \/ Continue

Next == ClientSends \/ ClientAnswers \/ Server

\* The server's thread runs, and the client answers every request in the end.
Spec == Init /\ [][Next]_vars /\ WF_vars(Server) /\ WF_vars(ClientAnswers)

-----------------------------------------------------------------------------
(* Properties                                                              *)

\* The type invariant; every message gets a number and every handler on the
\* stack an earlier one than those that were called from inside of it.
TypeOK ==
    /\ incoming \in Seq(Message \cup Response)
    /\ left \in 0 .. MaxMessages
    /\ serialSendId \in Nat
    /\ sender \in [outgoing : Seq(Nat), pendingSendId : 0 .. serialSendId, pendingMessages : SUBSET Pending]
    /\ stack \in Seq([sendId : 0 .. serialSendId - 1, uri : Uris, awaits : 0 .. requests - 1])
    /\ \A i, j \in DOMAIN stack : i < j => stack[i].sendId < stack[j].sendId
    /\ returned \in BOOLEAN
    /\ configs \subseteq Uris
    /\ pending \in [Uris -> (0 .. requests - 1) \cup {None}]
    /\ DOMAIN responses \subseteq answered
    /\ responses \in [DOMAIN responses -> BOOLEAN]
    /\ requests \in Nat
    /\ answered \subseteq 0 .. requests - 1
    /\ exit \in BOOLEAN
    /\ failed \subseteq [sendId : 0 .. serialSendId - 1, uri : Uris]

\* Responses leave in order of receipt, each once, although handlers nest and
\* the one called last finishes first ("we must respond to all requests in
\* order of receipt", the note in send()).
InOrderOfReceipt ==
    \A i, j \in DOMAIN sender.outgoing : i < j => sender.outgoing[i] < sender.outgoing[j]

\* A handler that waits holds back the responses to later messages and nothing
\* else does: whenever the server looks for its next message, the turn is with
\* the outermost handler, or, if none waits, all responses have been sent.
OnlyAwaitHoldsBack ==
    /\ TypeOK
    /\ ~returned /\ ~exit =>
           /\ sender.pendingSendId = IF stack = << >> THEN serialSendId ELSE stack[1].sendId
           /\ stack = << >> => sender.pendingMessages = {}

\* A document's configuration is asked for once at a time, however many
\* handlers come to need it while they nest: all of them wait for the request
\* whose answer will settle the pending entry of their document.  They do not
\* take each other's answers: a request fails only if the client refused the
\* configuration of its document, or the server exits.
AnswersAreShared ==
    /\ \A i \in DOMAIN stack :
           stack[i].awaits \in DOMAIN responses \/ pending[stack[i].uri] = stack[i].awaits
    /\ \A f \in failed :
           \/ exit
           \/ pending[f.uri] \in DOMAIN responses /\ ~responses[pending[f.uri]]

\* Every message that is received is dealt with if the client answers every
\* request in the end: the turn passes it, unless the server exits.
EveryTurnComes ==
    \A n \in 0 .. 2 * MaxMessages : serialSendId > n ~> sender.pendingSendId > n \/ exit

\* Once the client has refused a configuration, and nobody waits for it any
\* more, it can be asked for again.  The code does not do that: the pending
\* entry stays, its response stays in responsesById, and every later request
\* for the document fails.
RefusalIsForgotten ==
    \A u \in Uris : pending[u] \in DOMAIN responses => \E i \in DOMAIN stack : stack[i].uri = u
=============================================================================
