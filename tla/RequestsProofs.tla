-------------------------- MODULE RequestsProofs --------------------------
(***************************************************************************)
(* Theorems about Requests (handle() of base_lsp_language_server.cpp and   *)
(* what it calls), for any number of messages whose tasks interleave.      *)
(***************************************************************************)
EXTENDS Requests, SequenceTheorems, TLAPS

USE RequestsAssumption

-----------------------------------------------------------------------------
(* The inductive invariant                                                 *)

Undecided == {"none", "register", "dispatch", "accept", "run", "notify"}
Decided == {"respond", "send", "turn", "done"}

\* The response is empty until a handler is through, and is sent as it is.
ContentInv ==
    /\ \A m \in Ids : pc[m] \in Undecided => content[m] = "empty"
    /\ \A m \in Ids : response[m] # "none" => pc[m] = "done" /\ response[m] = content[m]

\* The one initialize request that gets past the exchange of _initialized.
Initializes(m) == IsRequest(m) /\ Type(m) = "initialize" /\ (pc[m] = "run" \/ content[m] = "result")

InitializeInv ==
    /\ \A m \in Ids : Initializes(m) => initialized
    /\ \A m, n \in Ids : Initializes(m) /\ Initializes(n) => m = n

\* A flag is cleared, and an entry of activeRequests made in advance, only for
\* a cancellation; who is not canceled has something to send.
CancelInv ==
    /\ \A r \in Ids : ~taskIsRunning[r] => CancelReceived(r)
    /\ \A r \in Ids : active[r] = "canceled" => CancelReceived(r)
    /\ \A r \in Ids :
           (IsRequest(r) /\ ~CancelReceived(r)) =>
               /\ pc[r] \in {"recent", "erase"} \cup Decided => content[r] \in {"result", "error"}
               /\ pc[r] # "turn"
               /\ pc[r] = "done" /\ ~exit => response[r] \in {"result", "error"}

\* Whoever was answered to shutdown shut the server down before, and what came
\* after that is not let past assertRunning().
LateInv ==
    /\ \A m \in Ids : IsRequest(m) /\ Type(m) = "shutdown" /\ content[m] = "result" => shutdown
    /\ \A m \in late : shutdown /\ pc[m] \notin {"accept", "run"} /\ content[m] # "result"

\* The entry of a request follows its task, and a cancellation that came before
\* the dispatch is found there or in the flag of the task.
ForestalledInv ==
    /\ \A r \in Ids : pc[r] \in {"none", "register"} => active[r] # "task"
    /\ \A r \in Ids : pc[r] = "dispatch" => active[r] = "task"
    /\ \A r \in recent : pc[r] \in {"erase"} \cup Decided
    /\ \A r \in forestalled :
           /\ content[r] = "empty"
           /\ \/ pc[r] = "register" /\ active[r] = "canceled"
              \/ pc[r] = "dispatch" /\ ~taskIsRunning[r]
              \/ pc[r] \in Decided

RequestsInv == TypeOK /\ ContentInv /\ InitializeInv /\ CancelInv /\ LateInv /\ ForestalledInv

LEMMA RequestsInitInv == Init => RequestsInv
<1> SUFFICES ASSUME Init PROVE RequestsInv
  OBVIOUS
<1> USE DEF Init, Ids
<1>1. TypeOK
  <2>1. taskIsRunning \in [Ids -> BOOLEAN]
    BY Zenon
  <2>2. message \in Seq([type : Types, target : Ids]) /\ Len(message) = 0
    OBVIOUS
  <2>3. \A m \in Ids : pc[m] # "none" <=> m <= Len(message)
    BY <2>2
  <2>4. /\ pc \in [Ids -> PC]
        /\ active \in [Ids -> {"absent", "task", "canceled"}]
        /\ content \in [Ids -> Contents]
        /\ response \in [Ids -> Contents \cup {"none"}]
    BY DEF PC, Contents
  <2> QED BY <2>1, <2>2, <2>3, <2>4, Zenon DEF TypeOK
<1>2. ContentInv /\ InitializeInv /\ LateInv /\ ForestalledInv
  BY DEF ContentInv, InitializeInv, Initializes, LateInv, ForestalledInv
<1>3. CancelInv
  BY DEF CancelInv, IsRequest
<1> QED BY <1>1, <1>2, <1>3 DEF RequestsInv

-----------------------------------------------------------------------------
(* Messages are only added                                                 *)

LEMMA ReceiveAppends ==
  ASSUME TypeOK, NEW type \in Types, NEW target \in Ids, Receive(type, target)
  PROVE  /\ NextSendId \in Ids
         /\ NextSendId = Len(message) + 1
         /\ Len(message) \in Nat
         /\ Len(message') = Len(message) + 1
         /\ \A m \in 1 .. Len(message) : message'[m] = message[m]
         /\ message'[NextSendId].type = type
         /\ message' \in Seq([type : Types, target : Ids])
<1>1. Len(message) \in Nat /\ Len(message) < MaxMessages /\ message \in Seq([type : Types, target : Ids])
  BY DEF TypeOK, Receive
<1>2. [type |-> type, target |-> target] \in [type : Types, target : Ids]
  OBVIOUS
<1>3. message' = Append(message, [type |-> type, target |-> target])
  BY DEF Receive
<1>4. Len(message) + 1 \in Ids
  BY <1>1 DEF Ids
<1> QED BY <1>1, <1>2, <1>3, <1>4 DEF NextSendId

\* For the messages received before, the words of the invariant mean the same.
LEMMA ReceiveKeeps ==
  ASSUME TypeOK, NEW type \in Types, NEW target \in Ids, Receive(type, target)
  PROVE  /\ \A m \in Ids : m <= Len(message) =>
                (IsRequest(m)' <=> IsRequest(m)) /\ Type(m)' = Type(m)
         /\ \A r \in Ids : CancelReceived(r) => CancelReceived(r)'
         /\ \A m \in Ids : pc[m] = "none" => ~IsRequest(m)
         /\ \A m \in Ids : m # NextSendId => (IsRequest(m)' <=> IsRequest(m))
         /\ \A m \in Ids : m # NextSendId /\ IsRequest(m) => Type(m)' = Type(m)
         /\ pc[NextSendId] = "none"
<1>0. message \in Seq([type : Types, target : Ids]) /\ \A m \in Ids : pc[m] # "none" <=> m <= Len(message)
  BY DEF TypeOK
<1>1. \A m \in Ids : m <= Len(message) => m \in 1 .. Len(message)
  BY <1>0 DEF Ids
<1>2. \A m \in Ids : m <= Len(message) => (IsRequest(m)' <=> IsRequest(m)) /\ Type(m)' = Type(m)
  BY <1>1, ReceiveAppends DEF IsRequest, Type, Ids
<1>3. ASSUME NEW r \in Ids, CancelReceived(r) PROVE CancelReceived(r)'
  <2>1. PICK m \in 1 .. Len(message) : message[m].type = "cancel" /\ message[m].target = r
    BY <1>3 DEF CancelReceived, Type
  <2>2. m \in 1 .. Len(message') /\ message'[m] = message[m]
    BY ReceiveAppends
  <2> QED BY <2>1, <2>2 DEF CancelReceived, Type
<1>4. \A m \in Ids : pc[m] = "none" => ~IsRequest(m)
  BY <1>0 DEF IsRequest
<1>5. \A m \in Ids : m # NextSendId /\ m <= Len(message') => m <= Len(message)
  BY ReceiveAppends DEF Ids
<1>6. \A m \in Ids : m # NextSendId => (IsRequest(m)' <=> IsRequest(m))
  BY <1>2, <1>5 DEF IsRequest
<1>7. \A m \in Ids : m # NextSendId /\ IsRequest(m) => Type(m)' = Type(m)
  BY <1>2 DEF IsRequest
<1>8. NextSendId \in Ids /\ ~(NextSendId <= Len(message))
  BY ReceiveAppends
<1> QED BY <1>0, <1>2, <1>3, <1>4, <1>6, <1>7, <1>8

LEMMA SameMessages ==
  ASSUME UNCHANGED message
  PROVE  /\ \A m \in Ids : (IsRequest(m)' <=> IsRequest(m)) /\ Type(m)' = Type(m)
         /\ \A r \in Ids : CancelReceived(r)' <=> CancelReceived(r)
BY DEF IsRequest, Type, CancelReceived

LEMMA TypeNextInv ==
  ASSUME TypeOK, [Next]_vars
  PROVE  TypeOK'
<1> USE DEF Goto, Fill, PC, Contents, table, server, history
<1>1. CASE UNCHANGED vars
  BY <1>1 DEF vars, TypeOK
<1>2. ASSUME NEW type \in Types, NEW target \in Ids, Receive(type, target) PROVE TypeOK'
  <2>1. message' \in Seq([type : Types, target : Ids]) /\ NextSendId \in Ids
        /\ Len(message') = Len(message) + 1 /\ Len(message) \in Nat /\ NextSendId = Len(message) + 1
    BY <1>2, ReceiveAppends
  <2>2. pc' \in [Ids -> PC] /\ pc'[NextSendId] \in {"register", "notify"}
        /\ \A m \in Ids : m # NextSendId => pc'[m] = pc[m]
    BY <1>2, <2>1 DEF Receive, TypeOK
  <2>3. \A m \in Ids : pc'[m] # "none" <=> m <= Len(message')
    <3>1. ASSUME NEW m \in Ids PROVE m <= Len(message') <=> m <= Len(message) \/ m = NextSendId
      BY <2>1 DEF Ids
    <3> QED BY <2>2, <3>1 DEF TypeOK
  <2>4. late' \subseteq Ids
    BY <1>2, <2>1 DEF Receive, TypeOK
  <2> QED BY <1>2, <2>1, <2>2, <2>3, <2>4 DEF Receive, TypeOK
<1>3. ASSUME NEW m \in Ids, Register(m) PROVE TypeOK'
  BY <1>3 DEF Register, TypeOK
<1>4. ASSUME NEW m \in Ids, Dispatch(m) PROVE TypeOK'
  BY <1>4 DEF Dispatch, TypeOK
<1>5. ASSUME NEW m \in Ids, Accept(m) PROVE TypeOK'
  <2>1. CASE Accepts(m)
    BY <1>5, <2>1 DEF Accept, TypeOK
  <2>2. CASE ~Accepts(m)
    BY <1>5, <2>2 DEF Accept, TypeOK
  <2> QED BY <2>1, <2>2
<1>6. ASSUME NEW m \in Ids, RunReturns(m) PROVE TypeOK'
  BY <1>6 DEF RunReturns, TypeOK
<1>7. ASSUME NEW m \in Ids, RunThrows(m) PROVE TypeOK'
  BY <1>7 DEF RunThrows, TypeOK
<1>8. ASSUME NEW m \in Ids, Remember(m) \/ Erase(m) PROVE TypeOK'
  BY <1>8 DEF Remember, Erase, TypeOK
<1>9. ASSUME NEW m \in Ids, Respond(m) \/ Finish(m) PROVE TypeOK'
  BY <1>9 DEF Respond, Finish, TypeOK
<1>10. ASSUME NEW m \in Ids, Cancel(m) PROVE TypeOK'
  <2>1. taskIsRunning' \in [Ids -> BOOLEAN]
    BY <1>10, Zenon DEF Cancel, TypeOK
  <2>2. active' \in [Ids -> {"absent", "task", "canceled"}]
    BY <1>10 DEF Cancel, TypeOK
  <2>3. forestalled' \subseteq Ids
    <3>1. m \in 1 .. Len(message)
      <4>1. m <= Len(message)
        BY <1>10 DEF Cancel, TypeOK
      <4> QED BY <4>1 DEF TypeOK, Ids
    <3>2. message[m].target \in Ids
      <4>1. message \in Seq([type : Types, target : Ids])
        BY DEF TypeOK
      <4>2. message[m] \in [type : Types, target : Ids]
        BY <3>1, <4>1, ElementOfSeq
      <4> QED BY <4>2
    <3> QED BY <1>10, <3>2 DEF Cancel, TypeOK
  <2>4. pc' \in [Ids -> PC] /\ \A n \in Ids : pc'[n] # "none" <=> n <= Len(message)
    BY <1>10 DEF Cancel, TypeOK
  <2> QED BY <1>10, <2>1, <2>2, <2>3, <2>4 DEF Cancel, TypeOK
<1>11. ASSUME NEW m \in Ids, CancelDropped(m) \/ Exit(m) PROVE TypeOK'
  BY <1>11 DEF CancelDropped, Exit, TypeOK
<1>12. ASSUME NEW m \in Ids, Expire(m) PROVE TypeOK'
  BY <1>12 DEF Expire, TypeOK
<1>13. CASE ParentIsGone
  BY <1>13 DEF ParentIsGone, TypeOK
<1> QED
  BY <1>1, <1>2, <1>3, <1>4, <1>5, <1>6, <1>7, <1>8, <1>9, <1>10, <1>11, <1>12, <1>13 DEF Next, Task

LEMMA ContentNextInv ==
  ASSUME TypeOK, ContentInv, [Next]_vars
  PROVE  ContentInv'
<1> USE DEF Goto, Fill, table, server, history
<1>0. pc \in [Ids -> PC] /\ content \in [Ids -> Contents] /\ response \in [Ids -> Contents \cup {"none"}]
  BY DEF TypeOK
<1>1. CASE UNCHANGED vars
  BY <1>1 DEF vars, ContentInv, Undecided
<1>2. ASSUME NEW type \in Types, NEW target \in Ids, Receive(type, target) PROVE ContentInv'
  <2>1. /\ NextSendId \in Ids
        /\ pc[NextSendId] = "none"
        /\ pc'[NextSendId] \in {"register", "notify"}
        /\ \A m \in Ids : m # NextSendId => pc'[m] = pc[m]
        /\ UNCHANGED <<taskIsRunning, table, content, response, server, forestalled>>
    BY <1>0, <1>2, ReceiveAppends, ReceiveKeeps DEF Receive
  <2> QED BY <2>1 DEF ContentInv, Undecided
<1>3. ASSUME NEW m \in Ids, Register(m) PROVE ContentInv'
  BY <1>0, <1>3 DEF Register, ContentInv, Undecided
<1>4. ASSUME NEW m \in Ids, Dispatch(m) PROVE ContentInv'
  BY <1>0, <1>4 DEF Dispatch, ContentInv, Undecided
<1>5. ASSUME NEW m \in Ids, Accept(m) PROVE ContentInv'
  BY <1>0, <1>5 DEF Accept, ContentInv, Undecided
<1>6. ASSUME NEW m \in Ids, RunReturns(m) PROVE ContentInv'
  BY <1>0, <1>6 DEF RunReturns, ContentInv, Undecided
<1>7. ASSUME NEW m \in Ids, RunThrows(m) PROVE ContentInv'
  BY <1>0, <1>7 DEF RunThrows, ContentInv, Undecided
<1>8. ASSUME NEW m \in Ids, Remember(m) PROVE ContentInv'
  BY <1>0, <1>8 DEF Remember, ContentInv, Undecided
<1>9. ASSUME NEW m \in Ids, Erase(m) PROVE ContentInv'
  BY <1>0, <1>9 DEF Erase, ContentInv, Undecided
<1>10. ASSUME NEW m \in Ids, Respond(m) PROVE ContentInv'
  BY <1>0, <1>10 DEF Respond, ContentInv, Undecided
<1>11. ASSUME NEW m \in Ids, Finish(m) PROVE ContentInv'
  BY <1>0, <1>11 DEF Finish, ContentInv, Undecided
<1>12. ASSUME NEW m \in Ids, Cancel(m) PROVE ContentInv'
  BY <1>0, <1>12 DEF Cancel, ContentInv, Undecided
<1>13. ASSUME NEW m \in Ids, CancelDropped(m) PROVE ContentInv'
  BY <1>0, <1>13 DEF CancelDropped, ContentInv, Undecided
<1>14. ASSUME NEW m \in Ids, Exit(m) PROVE ContentInv'
  BY <1>0, <1>14 DEF Exit, ContentInv, Undecided
<1>15. ASSUME NEW r \in Ids, Expire(r) PROVE ContentInv'
  BY <1>0, <1>15 DEF Expire, ContentInv, Undecided
<1>16. CASE ParentIsGone
  BY <1>0, <1>16 DEF ParentIsGone, ContentInv, Undecided
<1> QED
  BY <1>1, <1>2, <1>3, <1>4, <1>5, <1>6, <1>7, <1>8, <1>9, <1>10, <1>11, <1>12, <1>13, <1>14, <1>15, <1>16 DEF Next, Task

LEMMA InitializeNextInv ==
  ASSUME TypeOK, ContentInv, InitializeInv, [Next]_vars
  PROVE  InitializeInv'
<1> USE DEF Goto, Fill, table, server, history
<1>0. pc \in [Ids -> PC] /\ content \in [Ids -> Contents] /\ response \in [Ids -> Contents \cup {"none"}]
  BY DEF TypeOK
<1>a. UNCHANGED message => \A m \in Ids : (IsRequest(m)' <=> IsRequest(m)) /\ Type(m)' = Type(m)
  BY SameMessages
<1>1. CASE UNCHANGED vars
  BY <1>a, <1>1 DEF vars, InitializeInv, Initializes
<1>2. ASSUME NEW type \in Types, NEW target \in Ids, Receive(type, target) PROVE InitializeInv'
  <2>1. /\ NextSendId \in Ids
        /\ pc[NextSendId] = "none"
        /\ pc'[NextSendId] \in {"register", "notify"}
        /\ \A m \in Ids : m # NextSendId => pc'[m] = pc[m]
        /\ UNCHANGED <<taskIsRunning, table, content, response, server, forestalled>>
    BY <1>0, <1>2, ReceiveAppends, ReceiveKeeps DEF Receive
  <2>2. /\ \A m \in Ids : m # NextSendId => (IsRequest(m)' <=> IsRequest(m))
        /\ \A m \in Ids : m # NextSendId /\ IsRequest(m) => Type(m)' = Type(m)
        /\ \A r \in Ids : CancelReceived(r) => CancelReceived(r)'
    BY <1>2, ReceiveKeeps
  <2>3. content[NextSendId] = "empty"
    BY <2>1 DEF ContentInv, Undecided
  <2>4. \A m \in Ids : Initializes(m)' => Initializes(m)
    BY <2>1, <2>2, <2>3 DEF Initializes
  <2> QED BY <2>1, <2>4 DEF InitializeInv
<1>3. ASSUME NEW m \in Ids, Register(m) PROVE InitializeInv'
  BY <1>0, <1>a, <1>3 DEF Register, InitializeInv, Initializes
<1>4. ASSUME NEW m \in Ids, Dispatch(m) PROVE InitializeInv'
  BY <1>0, <1>a, <1>4 DEF Dispatch, InitializeInv, Initializes
<1>5. ASSUME NEW m \in Ids, Accept(m) PROVE InitializeInv'
  <2>1. CASE Accepts(m)
    <3>1. \A n \in Ids : Initializes(n)' => Initializes(n) \/ (n = m /\ Type(m) = "initialize")
      BY <1>0, <1>a, <1>5, <2>1 DEF Accept, Initializes
    <3>2. Type(m) = "initialize" => \A n \in Ids : ~Initializes(n)
      BY <2>1 DEF Accepts, InitializeInv
    <3>3. initialized'
      BY <1>5, <2>1 DEF Accept
    <3> QED BY <3>1, <3>2, <3>3 DEF InitializeInv
  <2>2. CASE ~Accepts(m)
    BY <1>0, <1>a, <1>5, <2>2 DEF Accept, InitializeInv, Initializes
  <2> QED BY <2>1, <2>2
<1>6. ASSUME NEW m \in Ids, RunReturns(m) PROVE InitializeInv'
  BY <1>0, <1>a, <1>6 DEF RunReturns, InitializeInv, Initializes
<1>7. ASSUME NEW m \in Ids, RunThrows(m) PROVE InitializeInv'
  BY <1>0, <1>a, <1>7 DEF RunThrows, InitializeInv, Initializes
<1>8. ASSUME NEW m \in Ids, Remember(m) PROVE InitializeInv'
  BY <1>0, <1>a, <1>8 DEF Remember, InitializeInv, Initializes
<1>9. ASSUME NEW m \in Ids, Erase(m) PROVE InitializeInv'
  BY <1>0, <1>a, <1>9 DEF Erase, InitializeInv, Initializes
<1>10. ASSUME NEW m \in Ids, Respond(m) PROVE InitializeInv'
  BY <1>0, <1>a, <1>10 DEF Respond, InitializeInv, Initializes
<1>11. ASSUME NEW m \in Ids, Finish(m) PROVE InitializeInv'
  BY <1>0, <1>a, <1>11 DEF Finish, InitializeInv, Initializes
<1>12. ASSUME NEW m \in Ids, Cancel(m) PROVE InitializeInv'
  BY <1>0, <1>a, <1>12 DEF Cancel, InitializeInv, Initializes
<1>13. ASSUME NEW m \in Ids, CancelDropped(m) PROVE InitializeInv'
  BY <1>0, <1>a, <1>13 DEF CancelDropped, InitializeInv, Initializes
<1>14. ASSUME NEW m \in Ids, Exit(m) PROVE InitializeInv'
  BY <1>0, <1>a, <1>14 DEF Exit, InitializeInv, Initializes
<1>15. ASSUME NEW r \in Ids, Expire(r) PROVE InitializeInv'
  BY <1>0, <1>a, <1>15 DEF Expire, InitializeInv, Initializes
<1>16. CASE ParentIsGone
  BY <1>0, <1>a, <1>16 DEF ParentIsGone, InitializeInv, Initializes
<1> QED
  BY <1>1, <1>2, <1>3, <1>4, <1>5, <1>6, <1>7, <1>8, <1>9, <1>10, <1>11, <1>12, <1>13, <1>14, <1>15, <1>16 DEF Next, Task

LEMMA CancelNextInv ==
  ASSUME TypeOK, CancelInv, [Next]_vars
  PROVE  CancelInv'
<1> USE DEF Goto, Fill, table, server, history
<1>0. pc \in [Ids -> PC] /\ content \in [Ids -> Contents] /\ response \in [Ids -> Contents \cup {"none"}]
      /\ active \in [Ids -> {"absent", "task", "canceled"}] /\ taskIsRunning \in [Ids -> BOOLEAN]
  BY DEF TypeOK
<1>a. UNCHANGED message => /\ \A m \in Ids : (IsRequest(m)' <=> IsRequest(m)) /\ Type(m)' = Type(m)
                            /\ \A r \in Ids : CancelReceived(r)' <=> CancelReceived(r)
  BY SameMessages
<1>1. CASE UNCHANGED vars
  BY <1>a, <1>1 DEF vars, CancelInv, Decided
<1>2. ASSUME NEW type \in Types, NEW target \in Ids, Receive(type, target) PROVE CancelInv'
  <2>1. /\ NextSendId \in Ids
        /\ pc[NextSendId] = "none"
        /\ pc'[NextSendId] \in {"register", "notify"}
        /\ \A m \in Ids : m # NextSendId => pc'[m] = pc[m]
        /\ UNCHANGED <<taskIsRunning, table, content, response, server, forestalled>>
    BY <1>0, <1>2, ReceiveAppends, ReceiveKeeps DEF Receive
  <2>2. /\ \A m \in Ids : m # NextSendId => (IsRequest(m)' <=> IsRequest(m))
        /\ \A m \in Ids : m # NextSendId /\ IsRequest(m) => Type(m)' = Type(m)
        /\ \A r \in Ids : CancelReceived(r) => CancelReceived(r)'
    BY <1>2, ReceiveKeeps
  <2>3. \A r \in Ids : ~CancelReceived(r)' => ~CancelReceived(r)
    BY <2>2
  <2> QED BY <2>1, <2>2, <2>3 DEF CancelInv, Decided
<1>3. ASSUME NEW m \in Ids, Register(m) PROVE CancelInv'
  BY <1>0, <1>a, <1>3 DEF Register, CancelInv, Decided
<1>4. ASSUME NEW m \in Ids, Dispatch(m) PROVE CancelInv'
  BY <1>0, <1>a, <1>4 DEF Dispatch, CancelInv, Decided
<1>5. ASSUME NEW m \in Ids, Accept(m) PROVE CancelInv'
  BY <1>0, <1>a, <1>5 DEF Accept, CancelInv, Decided
<1>6. ASSUME NEW m \in Ids, RunReturns(m) PROVE CancelInv'
  BY <1>0, <1>a, <1>6 DEF RunReturns, CancelInv, Decided
<1>7. ASSUME NEW m \in Ids, RunThrows(m) PROVE CancelInv'
  BY <1>0, <1>a, <1>7 DEF RunThrows, CancelInv, Decided
<1>8. ASSUME NEW m \in Ids, Remember(m) PROVE CancelInv'
  BY <1>0, <1>a, <1>8 DEF Remember, CancelInv, Decided
<1>9. ASSUME NEW m \in Ids, Erase(m) PROVE CancelInv'
  BY <1>0, <1>a, <1>9 DEF Erase, CancelInv, Decided
<1>10. ASSUME NEW m \in Ids, Respond(m) PROVE CancelInv'
  BY <1>0, <1>a, <1>10 DEF Respond, CancelInv, Decided
<1>11. ASSUME NEW m \in Ids, Finish(m) PROVE CancelInv'
  BY <1>0, <1>a, <1>11 DEF Finish, CancelInv, Decided
<1>12. ASSUME NEW m \in Ids, Cancel(m) PROVE CancelInv'
  <2> DEFINE r == message[m].target
  <2>1. /\ taskIsRunning' = [taskIsRunning EXCEPT ![r] = taskIsRunning[r] /\ active[r] # "task"]
        /\ active' = [active EXCEPT ![r] = IF active[r] = "absent" THEN "canceled" ELSE active[r]]
        /\ pc' = [pc EXCEPT ![m] = "respond"]
        /\ Type(m) = "cancel"
        /\ UNCHANGED <<message, content, response, server>>
    BY <1>12 DEF Cancel
  <2>2. m \in 1 .. Len(message)
    <3>1. m <= Len(message)
      BY <1>12 DEF Cancel, TypeOK
    <3> QED BY <3>1 DEF TypeOK, Ids
  <2>3. CancelReceived(r)
    BY <2>1, <2>2 DEF CancelReceived
  <2>4. ~IsRequest(m)
    BY <2>1 DEF IsRequest, RequestTypes
  <2> HIDE DEF r
  <2>5. \A i \in Ids : ~CancelReceived(i) => taskIsRunning'[i] = taskIsRunning[i] /\ active'[i] = active[i]
    BY <1>0, <2>1, <2>3
  <2>6. \A i \in Ids : i # m => pc'[i] = pc[i]
    BY <1>0, <2>1
  <2> QED BY <1>a, <2>1, <2>4, <2>5, <2>6 DEF CancelInv
<1>13. ASSUME NEW m \in Ids, CancelDropped(m) PROVE CancelInv'
  <2>1. ~IsRequest(m)
    BY <1>13 DEF CancelDropped, IsRequest, RequestTypes
  <2> QED BY <1>0, <1>a, <1>13, <2>1 DEF CancelDropped, CancelInv
<1>14. ASSUME NEW m \in Ids, Exit(m) PROVE CancelInv'
  <2>1. ~IsRequest(m)
    BY <1>14 DEF Exit, IsRequest, RequestTypes
  <2> QED BY <1>0, <1>a, <1>14, <2>1 DEF Exit, CancelInv
<1>15. ASSUME NEW r \in Ids, Expire(r) PROVE CancelInv'
  BY <1>0, <1>a, <1>15 DEF Expire, CancelInv, Decided
<1>16. CASE ParentIsGone
  BY <1>0, <1>a, <1>16 DEF ParentIsGone, CancelInv, Decided
<1> QED
  BY <1>1, <1>2, <1>3, <1>4, <1>5, <1>6, <1>7, <1>8, <1>9, <1>10, <1>11, <1>12, <1>13, <1>14, <1>15, <1>16 DEF Next, Task

LEMMA LateNextInv ==
  ASSUME TypeOK, ContentInv, LateInv, [Next]_vars
  PROVE  LateInv'
<1> USE DEF Goto, Fill, table, server, history
<1>0. pc \in [Ids -> PC] /\ content \in [Ids -> Contents] /\ response \in [Ids -> Contents \cup {"none"}]
      /\ late \subseteq Ids
  BY DEF TypeOK
<1>a. UNCHANGED message => \A m \in Ids : (IsRequest(m)' <=> IsRequest(m)) /\ Type(m)' = Type(m)
  BY SameMessages
<1>1. CASE UNCHANGED vars
  BY <1>a, <1>1 DEF vars, LateInv
<1>2. ASSUME NEW type \in Types, NEW target \in Ids, Receive(type, target) PROVE LateInv'
  <2>1. /\ NextSendId \in Ids
        /\ pc[NextSendId] = "none"
        /\ pc'[NextSendId] \in {"register", "notify"}
        /\ \A m \in Ids : m # NextSendId => pc'[m] = pc[m]
        /\ UNCHANGED <<taskIsRunning, table, content, response, server, forestalled>>
    BY <1>0, <1>2, ReceiveAppends, ReceiveKeeps DEF Receive
  <2>2. /\ \A m \in Ids : m # NextSendId => (IsRequest(m)' <=> IsRequest(m))
        /\ \A m \in Ids : m # NextSendId /\ IsRequest(m) => Type(m)' = Type(m)
        /\ \A r \in Ids : CancelReceived(r) => CancelReceived(r)'
    BY <1>2, ReceiveKeeps
  <2>3. content[NextSendId] = "empty"
    BY <2>1 DEF ContentInv, Undecided
  <2>4. late' = late \/ (late' = late \cup {NextSendId} /\ shutdown)
    <3>1. CASE \E m \in Ids : IsRequest(m) /\ Type(m) = "shutdown" /\ response[m] = "result"
      <4>1. shutdown
        BY <3>1 DEF ContentInv, LateInv
      <4> QED BY <1>2, <3>1, <4>1 DEF Receive, NextSendId
    <3>2. CASE ~\E m \in Ids : IsRequest(m) /\ Type(m) = "shutdown" /\ response[m] = "result"
      BY <1>2, <3>2 DEF Receive
    <3> QED BY <3>1, <3>2
  <2>5. ASSUME NEW m \in Ids, IsRequest(m)', Type(m)' = "shutdown", content'[m] = "result" PROVE shutdown'
    BY <2>1, <2>2, <2>3, <2>5 DEF LateInv
  <2>6. ASSUME NEW m \in late'
        PROVE  shutdown' /\ pc'[m] \notin {"accept", "run"} /\ content'[m] # "result"
    <3>1. CASE m = NextSendId /\ m \notin late
      BY <2>1, <2>3, <2>4, <2>6, <3>1
    <3>2. CASE m \in late
      BY <1>0, <2>1, <3>2 DEF LateInv
    <3> QED BY <2>4, <2>6, <3>1, <3>2
  <2> QED BY <2>5, <2>6 DEF LateInv
<1>3. ASSUME NEW m \in Ids, Register(m) PROVE LateInv'
  BY <1>0, <1>a, <1>3 DEF Register, LateInv
<1>4. ASSUME NEW m \in Ids, Dispatch(m) PROVE LateInv'
  BY <1>0, <1>a, <1>4 DEF Dispatch, IsRunning, LateInv
<1>5. ASSUME NEW m \in Ids, Accept(m) PROVE LateInv'
  <2>1. CASE Accepts(m)
    BY <1>0, <1>a, <1>5, <2>1 DEF Accept, LateInv
  <2>2. CASE ~Accepts(m)
    BY <1>0, <1>a, <1>5, <2>2 DEF Accept, LateInv
  <2> QED BY <2>1, <2>2
<1>6. ASSUME NEW m \in Ids, RunReturns(m) PROVE LateInv'
  BY <1>0, <1>a, <1>6 DEF RunReturns, LateInv
<1>7. ASSUME NEW m \in Ids, RunThrows(m) PROVE LateInv'
  BY <1>0, <1>a, <1>7 DEF RunThrows, LateInv
<1>8. ASSUME NEW m \in Ids, Remember(m) PROVE LateInv'
  BY <1>0, <1>a, <1>8 DEF Remember, LateInv
<1>9. ASSUME NEW m \in Ids, Erase(m) PROVE LateInv'
  BY <1>0, <1>a, <1>9 DEF Erase, LateInv
<1>10. ASSUME NEW m \in Ids, Respond(m) PROVE LateInv'
  BY <1>0, <1>a, <1>10 DEF Respond, LateInv
<1>11. ASSUME NEW m \in Ids, Finish(m) PROVE LateInv'
  BY <1>0, <1>a, <1>11 DEF Finish, LateInv
<1>12. ASSUME NEW m \in Ids, Cancel(m) PROVE LateInv'
  BY <1>0, <1>a, <1>12 DEF Cancel, LateInv
<1>13. ASSUME NEW m \in Ids, CancelDropped(m) PROVE LateInv'
  BY <1>0, <1>a, <1>13 DEF CancelDropped, LateInv
<1>14. ASSUME NEW m \in Ids, Exit(m) PROVE LateInv'
  BY <1>0, <1>a, <1>14 DEF Exit, LateInv
<1>15. ASSUME NEW r \in Ids, Expire(r) PROVE LateInv'
  BY <1>0, <1>a, <1>15 DEF Expire, LateInv
<1>16. CASE ParentIsGone
  BY <1>0, <1>a, <1>16 DEF ParentIsGone, LateInv
<1> QED
  BY <1>1, <1>2, <1>3, <1>4, <1>5, <1>6, <1>7, <1>8, <1>9, <1>10, <1>11, <1>12, <1>13, <1>14, <1>15, <1>16 DEF Next, Task

LEMMA ForestalledNextInv ==
  ASSUME TypeOK, ContentInv, ForestalledInv, [Next]_vars
  PROVE  ForestalledInv'
<1> USE DEF Goto, Fill, table, server, history
<1>0. pc \in [Ids -> PC] /\ content \in [Ids -> Contents] /\ response \in [Ids -> Contents \cup {"none"}]
      /\ active \in [Ids -> {"absent", "task", "canceled"}] /\ taskIsRunning \in [Ids -> BOOLEAN]
      /\ recent \subseteq Ids /\ forestalled \subseteq Ids
  BY DEF TypeOK
<1>b. forestalled' \subseteq Ids
  BY TypeNextInv DEF TypeOK
<1>1. CASE UNCHANGED vars
  BY <1>1 DEF vars, ForestalledInv, Decided
<1>2. ASSUME NEW type \in Types, NEW target \in Ids, Receive(type, target) PROVE ForestalledInv'
  <2>1. /\ NextSendId \in Ids
        /\ pc[NextSendId] = "none"
        /\ pc'[NextSendId] \in {"register", "notify"}
        /\ \A m \in Ids : m # NextSendId => pc'[m] = pc[m]
        /\ UNCHANGED <<taskIsRunning, table, content, response, server, forestalled>>
    BY <1>0, <1>2, ReceiveAppends, ReceiveKeeps DEF Receive
  <2>2. NextSendId \notin recent /\ NextSendId \notin forestalled /\ active[NextSendId] # "task"
    BY <2>1 DEF ForestalledInv, Decided
  <2> QED BY <1>0, <2>1, <2>2 DEF ForestalledInv
<1>3. ASSUME NEW m \in Ids, Register(m) PROVE ForestalledInv'
  BY <1>0, <1>3 DEF Register, ForestalledInv, Decided
<1>4. ASSUME NEW m \in Ids, Dispatch(m) PROVE ForestalledInv'
  BY <1>0, <1>4 DEF Dispatch, ForestalledInv, Decided
<1>5. ASSUME NEW m \in Ids, Accept(m) PROVE ForestalledInv'
  <2>1. CASE Accepts(m)
    BY <1>0, <1>5, <2>1 DEF Accept, ForestalledInv, Decided
  <2>2. CASE ~Accepts(m)
    BY <1>0, <1>5, <2>2 DEF Accept, ForestalledInv, Decided
  <2> QED BY <2>1, <2>2
<1>6. ASSUME NEW m \in Ids, RunReturns(m) PROVE ForestalledInv'
  BY <1>0, <1>6 DEF RunReturns, ForestalledInv, Decided
<1>7. ASSUME NEW m \in Ids, RunThrows(m) PROVE ForestalledInv'
  BY <1>0, <1>7 DEF RunThrows, ForestalledInv, Decided
<1>8. ASSUME NEW m \in Ids, Remember(m) PROVE ForestalledInv'
  BY <1>0, <1>8 DEF Remember, ForestalledInv, Decided
<1>9. ASSUME NEW m \in Ids, Erase(m) PROVE ForestalledInv'
  BY <1>0, <1>9 DEF Erase, ForestalledInv, Decided
<1>10. ASSUME NEW m \in Ids, Respond(m) PROVE ForestalledInv'
  BY <1>0, <1>10 DEF Respond, ForestalledInv, Decided
<1>11. ASSUME NEW m \in Ids, Finish(m) PROVE ForestalledInv'
  BY <1>0, <1>11 DEF Finish, ForestalledInv, Decided
<1>12. ASSUME NEW m \in Ids, Cancel(m) PROVE ForestalledInv'
  <2> DEFINE r == message[m].target
  <2>1. /\ taskIsRunning' = [taskIsRunning EXCEPT ![r] = taskIsRunning[r] /\ active[r] # "task"]
        /\ active' = [active EXCEPT ![r] = IF active[r] = "absent" THEN "canceled" ELSE active[r]]
        /\ pc' = [pc EXCEPT ![m] = "respond"]
        /\ forestalled' = IF pc[r] \in {"register", "dispatch"} THEN forestalled \cup {r} ELSE forestalled
        /\ pc[m] = "notify"
        /\ UNCHANGED <<message, content, recent>>
    BY <1>12 DEF Cancel
  <2> HIDE DEF r
  <2>2. pc'[m] = "respond" /\ \A i \in Ids : i # m => pc'[i] = pc[i]
    BY <1>0, <2>1
  <2>3. \A i \in Ids : i # r => active'[i] = active[i] /\ (taskIsRunning'[i] <=> taskIsRunning[i])
    BY <1>0, <2>1
  <2>4. r \in Ids => /\ active'[r] = IF active[r] = "absent" THEN "canceled" ELSE active[r]
                     /\ taskIsRunning'[r] <=> (taskIsRunning[r] /\ active[r] # "task")
    BY <1>0, <2>1
  <2>5. \A i \in Ids : pc'[i] \in {"none", "register"} => active'[i] # "task"
    BY <1>0, <2>2, <2>3, <2>4 DEF ForestalledInv
  <2>6. \A i \in Ids : pc'[i] = "dispatch" => active'[i] = "task"
    BY <1>0, <2>2, <2>3, <2>4 DEF ForestalledInv
  <2>7. \A i \in recent' : pc'[i] \in {"erase"} \cup Decided
    BY <1>0, <2>1, <2>2 DEF ForestalledInv, Decided
  <2>8. ASSUME NEW i \in forestalled'
        PROVE  /\ content'[i] = "empty"
               /\ \/ pc'[i] = "register" /\ active'[i] = "canceled"
                  \/ pc'[i] = "dispatch" /\ ~taskIsRunning'[i]
                  \/ pc'[i] \in Decided
    <3>1. i \in Ids
      BY <1>b, <2>8
    <3>2. CASE i \in forestalled
      BY <1>0, <2>1, <2>2, <2>3, <2>4, <3>1, <3>2 DEF ForestalledInv, Decided
    <3>3. CASE i \notin forestalled
      <4>1. i = r /\ pc[r] \in {"register", "dispatch"}
        BY <2>1, <2>8, <3>3
      <4>2. content[r] = "empty" /\ r # m
        BY <2>1, <3>1, <4>1 DEF ContentInv, Undecided
      <4>3. pc[r] = "register" => active'[r] = "canceled"
        BY <1>0, <2>4, <3>1, <4>1 DEF ForestalledInv
      <4>4. pc[r] = "dispatch" => ~taskIsRunning'[r]
        BY <2>4, <3>1, <4>1 DEF ForestalledInv
      <4> QED BY <2>1, <2>2, <3>1, <4>1, <4>2, <4>3, <4>4
    <3> QED BY <3>2, <3>3
  <2> QED BY <2>5, <2>6, <2>7, <2>8 DEF ForestalledInv
<1>13. ASSUME NEW m \in Ids, CancelDropped(m) PROVE ForestalledInv'
  BY <1>0, <1>13 DEF CancelDropped, ForestalledInv, Decided
<1>14. ASSUME NEW m \in Ids, Exit(m) PROVE ForestalledInv'
  BY <1>0, <1>14 DEF Exit, ForestalledInv, Decided
<1>15. ASSUME NEW r \in Ids, Expire(r) PROVE ForestalledInv'
  BY <1>0, <1>15 DEF Expire, ForestalledInv, Decided
<1>16. CASE ParentIsGone
  BY <1>0, <1>16 DEF ParentIsGone, ForestalledInv, Decided
<1> QED
  BY <1>1, <1>2, <1>3, <1>4, <1>5, <1>6, <1>7, <1>8, <1>9, <1>10, <1>11, <1>12, <1>13, <1>14, <1>15, <1>16 DEF Next, Task

LEMMA RequestsNextInv == RequestsInv /\ [Next]_vars => RequestsInv'
BY TypeNextInv, ContentNextInv, InitializeNextInv, CancelNextInv, LateNextInv, ForestalledNextInv
   DEF RequestsInv

\* One initialize request at most succeeds, however many are handled at once and
\* whatever else happens: the exchange of _initialized is the only way past it.
THEOREM ServerInitializesOnce == Spec => []OneInitialization
<1>1. RequestsInv => OneInitialization
  BY DEF RequestsInv, InitializeInv, Initializes, OneInitialization
<1> QED BY <1>1, RequestsInitInv, RequestsNextInv, PTL DEF Spec

\* A request nobody canceled is answered with a result or an error once its
\* handler is through, until the server exits.
THEOREM ServerAnswersUncanceled == Spec => []UncanceledIsAnswered
<1>1. RequestsInv => UncanceledIsAnswered
  BY DEF RequestsInv, CancelInv, UncanceledIsAnswered
<1> QED BY <1>1, RequestsInitInv, RequestsNextInv, PTL DEF Spec

\* What arrives after the answer to shutdown is not served, and a cancellation
\* handled before the dispatch of its request keeps the request from running.
THEOREM ServerServesNothingTooLate == Spec => []NothingServedTooLate
<1>1. RequestsInv => NothingServedTooLate
  BY DEF RequestsInv, LateInv, ForestalledInv, NothingServedTooLate
<1> QED BY <1>1, RequestsInitInv, RequestsNextInv, PTL DEF Spec
=============================================================================
