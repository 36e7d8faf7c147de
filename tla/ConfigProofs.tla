--------------------------- MODULE ConfigProofs ---------------------------
(***************************************************************************)
(* Theorems about Config (getConfig(), the workspace/configuration request *)
(* and its retries), for any number of callers, changes, retries and       *)
(* requests.                                                               *)
(***************************************************************************)
EXTENDS Config, FiniteSetTheorems, TLAPS

USE ConfigAssumption

-----------------------------------------------------------------------------
(* The inductive invariant                                                 *)

\* Nothing is known of a request that was not sent yet.
UnsentInv ==
    \A id \in Ids : id >= serialRequestId =>
        /\ promise[id] = None
        /\ retry[id] = "none"
        /\ \A n \in Copies : copy[id][n] = "none"

\* The tables of pending requests agree, and a request is in them, and found by
\* dispatch(), exactly as long as its promise is not set.
PendingInv ==
    /\ pendingById = IF pendingByUri = None THEN {} ELSE {pendingByUri}
    /\ pendingById \subseteq requests
    /\ \A id \in Ids : id \in pendingById <=> id < serialRequestId /\ promise[id] = None
    /\ \A c \in Callers : pc[c] = "wait" => waitsFor[c] \in Ids /\ waitsFor[c] < serialRequestId

\* A reply that is being handled says something, and one whose handler is
\* through has fulfilled the promise.
RepliesInv ==
    /\ \A id \in Ids, n \in Copies : copy[id][n] \in {"arrived", "found"} => value[id][n] # None
    /\ \A id \in Ids, n \in Copies : copy[id][n] = "erase" => id \notin pendingById

\* A retry that is under way has not used up the attempts.
RetryInv == \A id \in Ids : retry[id] \in {"scheduled", "send"} => attempt[id] < MaxAttempts

\* Changes come one after the other; there is a last one that is done.
ChangeInv ==
    /\ \A k \in Changes : change[k] # "none" => k <= client
    /\ \E k \in Versions : /\ k = 0 \/ change[k] = "done"
                           /\ \A j \in Changes : change[j] = "done" => j <= k

Cleared == {k \in Changes : change[k] \in {"cleared", "done"}}

\* Every request but the first follows an invalidation, and as long as nothing
\* is known and nothing asked one more request is allowed.
AskedInv ==
    /\ serialRequestId <= Cardinality(Cleared) + 1
    /\ conf = None /\ pendingByUri = None => serialRequestId <= Cardinality(Cleared)

ConfigInv == TypeOK /\ UnsentInv /\ PendingInv /\ RepliesInv /\ RetryInv /\ ChangeInv /\ AskedInv

LEMMA ConfigInitInv == Init => ConfigInv
<1> SUFFICES ASSUME Init PROVE ConfigInv
  OBVIOUS
<1> USE DEF Init
<1>1. TypeOK
  <2>1. /\ copy \in [Ids -> [Copies -> CopyPC]]
        /\ value \in [Ids -> [Copies -> Configs]]
        /\ promise \in [Ids -> Configs]
    BY DEF CopyPC, Configs
  <2>2. 0 \in Versions /\ 0 \in 0 .. MaxAttempts /\ serialRequestId \in 0 .. MaxRequests
    BY DEF Versions
  <2> QED BY <2>1, <2>2 DEF TypeOK, Configs
<1>2. UnsentInv /\ PendingInv /\ RepliesInv /\ RetryInv
  BY DEF UnsentInv, PendingInv, RepliesInv, RetryInv, Ids
<1>3. ChangeInv
  BY DEF ChangeInv, Versions
<1>4. Cleared = {}
  BY DEF Cleared
<1>5. AskedInv
  BY <1>4, FS_EmptySet DEF AskedInv
<1> QED BY <1>1, <1>2, <1>3, <1>5 DEF ConfigInv

\* What a caller may rely on is a version.
LEMMA InvalidatedIsVersion == ChangeInv => Invalidated \in Versions
BY DEF ChangeInv, Invalidated

LEMMA TypeNextInv ==
  ASSUME ConfigInv, [Next]_vars
  PROVE  TypeOK'
<1>0. TypeOK /\ Invalidated \in Versions
  BY InvalidatedIsVersion DEF ConfigInv
<1> USE <1>0 DEF TypeOK, Goto, Take, caches, pending, sending, replies, callers, environment, CopyPC
<1>1. CASE UNCHANGED vars
  BY <1>1 DEF vars
<1>2. ASSUME NEW c \in Callers, Call(c) PROVE TypeOK'
  BY <1>2 DEF Call
<1>3. ASSUME NEW c \in Callers, LookUp(c) \/ LookUpAgain(c) PROVE TypeOK'
  <2>1. CASE LookUp(c)
    BY <2>1 DEF LookUp
  <2>2. CASE LookUpAgain(c)
    BY <2>2 DEF LookUpAgain
  <2> QED BY <1>3, <2>1, <2>2
<1>4. ASSUME NEW c \in Callers, Join(c) PROVE TypeOK'
  BY <1>4 DEF Join
<1>5. ASSUME NEW c \in Callers, Request(c) PROVE TypeOK'
  <2>1. serialRequestId \in Ids /\ serialRequestId' \in 0 .. MaxRequests
    BY <1>5 DEF Request, Ids
  <2>2. copy' \in [Ids -> [Copies -> CopyPC]]
    BY <1>5, <2>1 DEF Request
  <2>3. /\ requests' \subseteq Ids
        /\ retry' \in [Ids -> {"none", "armed", "scheduled", "send", "spent"}]
        /\ pendingById' \subseteq Ids
        /\ pendingByUri' \in Ids \cup {None}
        /\ waitsFor' \in [Callers -> Ids \cup {None}]
        /\ pc' \in [Callers -> {"idle", "config", "request", "wait", "store"}]
    BY <1>5, <2>1 DEF Request, Enter
  <2> QED BY <1>5, <2>1, <2>2, <2>3 DEF Request
<1>6. ASSUME NEW c \in Callers, Wake(c) PROVE TypeOK'
  <2>1. promise[waitsFor[c]] \in Configs
    <3>1. waitsFor[c] \in Ids
      BY <1>6 DEF Wake, ConfigInv, PendingInv
    <3> QED BY <3>1
  <2> QED BY <1>6, <2>1 DEF Wake
<1>7. ASSUME NEW c \in Callers, Store(c) PROVE TypeOK'
  BY <1>7 DEF Store
<1>8. ASSUME NEW id \in Ids, NEW n \in Copies, Answer(id, n) PROVE TypeOK'
  BY <1>8 DEF Answer, Configs
<1>9. ASSUME NEW id \in Ids, NEW n \in Copies, NoAnswer(id, n) \/ Dispatch(id, n) \/ NoRecord(id, n)
      PROVE  TypeOK'
  <2>1. copy' \in [Ids -> [Copies -> CopyPC]]
    <3>1. CASE NoAnswer(id, n)
      BY <3>1 DEF NoAnswer
    <3>2. CASE Dispatch(id, n)
      BY <3>2 DEF Dispatch
    <3>3. CASE NoRecord(id, n)
      BY <3>3 DEF NoRecord
    <3> QED BY <1>9, <3>1, <3>2, <3>3
  <2>2. UNCHANGED <<caches, pending, sending, value, callers, environment>>
    BY <1>9 DEF NoAnswer, Dispatch, NoRecord
  <2> QED BY <2>1, <2>2
<1>10. CASE Change
  BY <1>10 DEF Change, Versions, Changes
<1>11. ASSUME NEW id \in Ids, NEW n \in Copies, ReceiveConfiguration(id, n) PROVE TypeOK'
  <2>1. conf' \in Configs
    BY <1>11 DEF ReceiveConfiguration
  <2>2. copy' \in [Ids -> [Copies -> CopyPC]]
    BY <1>11 DEF ReceiveConfiguration
  <2>3. promise' \in [Ids -> Configs] /\ pendingById' \subseteq Ids /\ pendingByUri' = None
    BY <1>11, <2>1 DEF ReceiveConfiguration
  <2> QED BY <1>11, <2>1, <2>2, <2>3 DEF ReceiveConfiguration
<1>12. ASSUME NEW id \in Ids, NEW n \in Copies, EraseRequest(id, n) PROVE TypeOK'
  BY <1>12 DEF EraseRequest
<1>13. ASSUME NEW id \in Ids, TimeOut(id) \/ RetryLookUp(id) PROVE TypeOK'
  BY <1>13 DEF TimeOut, RetryLookUp
<1>14. ASSUME NEW id \in Ids, RetrySend(id) PROVE TypeOK'
  <2>1. attempt[id] + 2 \in Copies /\ attempt[id] + 1 \in 0 .. MaxAttempts
    BY <1>14 DEF RetrySend, ConfigInv, RetryInv, Copies
  <2>2. copy' \in [Ids -> [Copies -> CopyPC]]
    BY <1>14, <2>1 DEF RetrySend
  <2>3. attempt' \in [Ids -> 0 .. MaxAttempts] /\ requests' \subseteq Ids
        /\ retry' \in [Ids -> {"none", "armed", "scheduled", "send", "spent"}]
    BY <1>14, <2>1 DEF RetrySend, Enter
  <2> QED BY <1>14, <2>2, <2>3 DEF RetrySend
<1>15. ASSUME NEW k \in Changes, ClearConfigs(k) \/ ClearLspConfigs(k) PROVE TypeOK'
  BY <1>15 DEF ClearConfigs, ClearLspConfigs, Configs
<1> QED
  BY <1>1, <1>2, <1>3, <1>4, <1>5, <1>6, <1>7, <1>8, <1>9, <1>10, <1>11, <1>12, <1>13, <1>14, <1>15
     DEF Next, Caller, Reply, Retry, Handler

LEMMA UnsentNextInv ==
  ASSUME ConfigInv, [Next]_vars
  PROVE  UnsentInv'
<1>0. TypeOK /\ UnsentInv
  BY DEF ConfigInv
<1> USE <1>0 DEF UnsentInv, caches, pending, sending, replies, callers, environment
<1>1. ASSUME UNCHANGED <<serialRequestId, promise, retry, copy>> PROVE UnsentInv'
  BY <1>1
<1>2. ASSUME NEW c \in Callers, Request(c) PROVE UnsentInv'
  <2>1. serialRequestId \in Ids /\ serialRequestId' = serialRequestId + 1 /\ promise' = promise
    BY <1>2 DEF Request
  <2>2. \A id \in Ids : id # serialRequestId => copy'[id] = copy[id] /\ retry'[id] = retry[id]
    BY <1>2, <2>1 DEF Request, TypeOK
  <2>3. \A id \in Ids : id >= serialRequestId + 1 => id >= serialRequestId /\ id # serialRequestId
    BY <2>1 DEF Ids
  <2> QED BY <2>1, <2>2, <2>3
<1>3. ASSUME NEW c \in Callers, Caller(c), ~Request(c) PROVE UnsentInv'
  BY <1>1, <1>3 DEF Caller, Call, LookUp, LookUpAgain, Join, Wake, Store
<1>4. ASSUME NEW id \in Ids, NEW n \in Copies, Answer(id, n) \/ NoAnswer(id, n) \/ Reply(id, n)
      PROVE  UnsentInv'
  <2>1. copy[id][n] # "none" /\ ~(id >= serialRequestId)
    BY <1>4 DEF Answer, NoAnswer, Reply, Dispatch, ReceiveConfiguration, NoRecord, EraseRequest
  <2>2. UNCHANGED <<serialRequestId, retry>>
    BY <1>4 DEF Answer, NoAnswer, Reply, Dispatch, ReceiveConfiguration, NoRecord, EraseRequest
  <2>3. \A i \in Ids : i # id => copy'[i] = copy[i] /\ promise'[i] = promise[i]
    BY <1>4 DEF Answer, NoAnswer, Reply, Dispatch, ReceiveConfiguration, NoRecord, EraseRequest, TypeOK
  <2> QED BY <2>1, <2>2, <2>3
<1>5. ASSUME NEW id \in Ids, Retry(id) PROVE UnsentInv'
  <2>1. retry[id] # "none" /\ ~(id >= serialRequestId)
    BY <1>5 DEF Retry, TimeOut, RetryLookUp, RetrySend
  <2>2. UNCHANGED <<serialRequestId, promise>>
    BY <1>5 DEF Retry, TimeOut, RetryLookUp, RetrySend
  <2>3. \A i \in Ids : i # id => copy'[i] = copy[i] /\ retry'[i] = retry[i]
    BY <1>5 DEF Retry, TimeOut, RetryLookUp, RetrySend, TypeOK
  <2> QED BY <2>1, <2>2, <2>3
<1>6. CASE Change
  BY <1>1, <1>6 DEF Change
<1>7. ASSUME NEW k \in Changes, Handler(k) PROVE UnsentInv'
  BY <1>1, <1>7 DEF Handler, ClearConfigs, ClearLspConfigs
<1>8. CASE UNCHANGED vars
  BY <1>1, <1>8 DEF vars
<1> QED BY <1>2, <1>3, <1>4, <1>5, <1>6, <1>7, <1>8 DEF Next

LEMMA PendingNextInv ==
  ASSUME ConfigInv, [Next]_vars
  PROVE  PendingInv'
<1>0. TypeOK /\ UnsentInv /\ PendingInv /\ RepliesInv
  BY DEF ConfigInv
<1> USE DEF PendingInv, caches, pending, sending, replies, callers, environment
<1>1. ASSUME UNCHANGED <<pending, requests, serialRequestId, pc, waitsFor>> PROVE PendingInv'
  BY <1>0, <1>1
\* a caller moves without waiting for a request
<1>2. ASSUME NEW c \in Callers, UNCHANGED <<pending, requests, serialRequestId>>,
             \A u \in Callers : pc'[u] = "wait" => pc[u] = "wait" /\ waitsFor'[u] = waitsFor[u]
      PROVE  PendingInv'
  BY <1>0, <1>2
<1>3. ASSUME NEW c \in Callers, Call(c) \/ LookUp(c) \/ LookUpAgain(c) \/ Store(c) PROVE PendingInv'
  <2>1. UNCHANGED <<pending, requests, serialRequestId, waitsFor>>
    BY <1>3 DEF Call, LookUp, LookUpAgain, Store
  <2>2. \A u \in Callers : pc'[u] = "wait" => pc[u] = "wait"
    BY <1>0, <1>3 DEF Call, LookUp, LookUpAgain, Store, Goto, TypeOK
  <2> QED BY <1>2, <2>1, <2>2
<1>4. ASSUME NEW c \in Callers, Wake(c) PROVE PendingInv'
  <2>1. UNCHANGED <<pending, requests, serialRequestId>>
    BY <1>4 DEF Wake
  <2>2. \A u \in Callers : pc'[u] = "wait" => pc[u] = "wait" /\ waitsFor'[u] = waitsFor[u]
    BY <1>0, <1>4 DEF Wake, Goto, TypeOK
  <2> QED BY <1>2, <2>1, <2>2
<1>5. ASSUME NEW c \in Callers, Join(c) PROVE PendingInv'
  <2>1. UNCHANGED <<pending, requests, serialRequestId>> /\ pendingByUri # None
    BY <1>5 DEF Join, CanJoin
  <2>2. pendingByUri \in Ids /\ pendingByUri < serialRequestId
    BY <1>0, <2>1 DEF TypeOK
  <2>3. waitsFor'[c] = pendingByUri /\ \A u \in Callers : u # c => pc'[u] = pc[u] /\ waitsFor'[u] = waitsFor[u]
    BY <1>0, <1>5 DEF Join, Goto, TypeOK
  <2> QED BY <1>0, <2>1, <2>2, <2>3
<1>6. ASSUME NEW c \in Callers, Request(c) PROVE PendingInv'
  <2> DEFINE id == serialRequestId
  <2>1. /\ id \in Ids
        /\ serialRequestId' = id + 1
        /\ requests' = requests \cup {id}
        /\ pendingById' = pendingById \cup {id}
        /\ pendingByUri' = id
        /\ pendingByUri = None
        /\ promise' = promise
    BY <1>6 DEF Request, Enter, CanJoin
  <2>2. pendingById = {} /\ promise[id] = None /\ id # None
    BY <1>0, <2>1 DEF UnsentInv, Ids
  <2>3. waitsFor'[c] = id /\ \A u \in Callers : u # c => pc'[u] = pc[u] /\ waitsFor'[u] = waitsFor[u]
    BY <1>0, <1>6, <2>1 DEF Request, Goto, TypeOK
  <2> HIDE DEF id
  <2>4. id = serialRequestId /\ id \in Nat /\ Ids \subseteq Nat
    BY <2>1 DEF id, Ids
  <2>5. \A i \in Ids : i < serialRequestId' <=> i < id \/ i = id
    BY <2>1, <2>4
  <2>6. \A i \in Ids : i \in pendingById' <=> i < serialRequestId' /\ promise'[i] = None
    BY <1>0, <2>1, <2>2, <2>4, <2>5
  <2>7. \A u \in Callers : pc'[u] = "wait" => waitsFor'[u] \in Ids /\ waitsFor'[u] < serialRequestId'
    BY <1>0, <2>1, <2>3, <2>4, <2>5
  <2> QED BY <1>0, <2>1, <2>2, <2>6, <2>7
<1>7. ASSUME NEW id \in Ids, NEW n \in Copies, ReceiveConfiguration(id, n) PROVE PendingInv'
  <2>1. /\ id \in pendingById
        /\ pendingByUri' = None
        /\ pendingById' = pendingById \ {id}
        /\ UNCHANGED <<requests, serialRequestId, pc, waitsFor>>
    BY <1>7 DEF ReceiveConfiguration, HasRecord
  <2>2. value[id][n] # None
    BY <1>0, <1>7 DEF ReceiveConfiguration, RepliesInv
  <2>3. promise'[id] # None /\ \A i \in Ids : i # id => promise'[i] = promise[i]
    BY <1>0, <1>7, <2>2 DEF ReceiveConfiguration, TypeOK
  <2>4. pendingById = {id} /\ pendingById' = {}
    BY <1>0, <2>1
  <2>5. \A i \in Ids : i \in pendingById' <=> i < serialRequestId' /\ promise'[i] = None
    BY <1>0, <2>1, <2>3, <2>4
  <2> QED BY <1>0, <2>1, <2>4, <2>5
<1>8. ASSUME NEW id \in Ids, NEW n \in Copies, EraseRequest(id, n) PROVE PendingInv'
  <2>1. id \notin pendingById /\ requests' = requests \ {id}
        /\ UNCHANGED <<pending, serialRequestId, pc, waitsFor>>
    BY <1>0, <1>8 DEF EraseRequest, RepliesInv
  <2> QED BY <1>0, <2>1
<1>9. ASSUME NEW id \in Ids, NEW n \in Copies,
             Answer(id, n) \/ NoAnswer(id, n) \/ Dispatch(id, n) \/ NoRecord(id, n)
      PROVE  PendingInv'
  BY <1>1, <1>9 DEF Answer, NoAnswer, Dispatch, NoRecord
<1>10. ASSUME NEW id \in Ids, Retry(id) PROVE PendingInv'
  <2>1. requests \subseteq requests' /\ UNCHANGED <<pending, serialRequestId, pc, waitsFor>>
    BY <1>10 DEF Retry, TimeOut, RetryLookUp, RetrySend, Enter
  <2> QED BY <1>0, <2>1
<1>11. CASE Change
  BY <1>1, <1>11 DEF Change
<1>12. ASSUME NEW k \in Changes, Handler(k) PROVE PendingInv'
  BY <1>1, <1>12 DEF Handler, ClearConfigs, ClearLspConfigs
<1>13. CASE UNCHANGED vars
  BY <1>1, <1>13 DEF vars
<1> QED
  BY <1>3, <1>4, <1>5, <1>6, <1>7, <1>8, <1>9, <1>10, <1>11, <1>12, <1>13 DEF Next, Caller, Reply

LEMMA RepliesNextInv ==
  ASSUME ConfigInv, [Next]_vars
  PROVE  RepliesInv'
<1>0. TypeOK /\ UnsentInv /\ PendingInv /\ RepliesInv
  BY DEF ConfigInv
<1> USE DEF RepliesInv, caches, pending, sending, replies, callers, environment
<1>1. ASSUME UNCHANGED <<copy, value, pendingById>> PROVE RepliesInv'
  BY <1>0, <1>1
<1>2. ASSUME NEW c \in Callers, Caller(c), ~Request(c) PROVE RepliesInv'
  BY <1>1, <1>2 DEF Caller, Call, LookUp, LookUpAgain, Join, Wake, Store
\* copy n of request id goes on
<1>3. ASSUME NEW id \in Ids, NEW n, copy'[id][n] \notin {"arrived", "found", "erase"},
             \A i \in Ids, k \in Copies : i # id \/ k # n => copy'[i][k] = copy[i][k],
             UNCHANGED <<value, pendingById>>
      PROVE  RepliesInv'
  BY <1>0, <1>3
<1>4. ASSUME NEW c \in Callers, Request(c) PROVE RepliesInv'
  <2> DEFINE id == serialRequestId
  <2>1. id \in Ids /\ pendingById' = pendingById \cup {id} /\ copy' = [copy EXCEPT ![id][1] = "client"]
        /\ UNCHANGED value
    BY <1>4 DEF Request
  <2>2. \A k \in Copies : copy[id][k] = "none"
    BY <1>0, <2>1 DEF UnsentInv, Ids
  <2> HIDE DEF id
  <2>3. \A k \in Copies : copy'[id][k] \in {"none", "client"}
    BY <1>0, <2>1, <2>2 DEF TypeOK
  <2>4. \A i \in Ids : i # id => copy'[i] = copy[i]
    BY <1>0, <2>1 DEF TypeOK
  <2> QED BY <1>0, <2>1, <2>3, <2>4
<1>5. ASSUME NEW id \in Ids, NEW n \in Copies, Answer(id, n) PROVE RepliesInv'
  <2>1. UNCHANGED pendingById /\ copy'[id][n] = "arrived" /\ value'[id][n] = client
    BY <1>0, <1>5 DEF Answer, TypeOK
  <2>2. \A i \in Ids, k \in Copies : i # id \/ k # n =>
            copy'[i][k] = copy[i][k] /\ value'[i][k] = value[i][k]
    BY <1>0, <1>5 DEF Answer, TypeOK
  <2>3. client # None
    BY <1>0 DEF TypeOK, Versions
  <2> QED BY <1>0, <2>1, <2>2, <2>3
<1>6. ASSUME NEW id \in Ids, NEW n \in Copies, NoAnswer(id, n) \/ NoRecord(id, n) \/ EraseRequest(id, n)
      PROVE  RepliesInv'
  <2>1. UNCHANGED <<value, pendingById>> /\ copy'[id][n] \in {"done", "norecord"}
    BY <1>0, <1>6 DEF NoAnswer, NoRecord, EraseRequest, TypeOK
  <2>2. \A i \in Ids, k \in Copies : i # id \/ k # n => copy'[i][k] = copy[i][k]
    BY <1>0, <1>6 DEF NoAnswer, NoRecord, EraseRequest, TypeOK
  <2> QED BY <1>3, <2>1, <2>2
<1>7. ASSUME NEW id \in Ids, NEW n \in Copies, Dispatch(id, n) PROVE RepliesInv'
  <2>1. UNCHANGED <<value, pendingById>> /\ copy'[id][n] \in {"done", "found"} /\ copy[id][n] = "arrived"
    BY <1>0, <1>7 DEF Dispatch, TypeOK
  <2>2. \A i \in Ids, k \in Copies : i # id \/ k # n => copy'[i][k] = copy[i][k]
    BY <1>0, <1>7 DEF Dispatch, TypeOK
  <2> QED BY <1>0, <2>1, <2>2
<1>8. ASSUME NEW id \in Ids, NEW n \in Copies, ReceiveConfiguration(id, n) PROVE RepliesInv'
  <2>1. UNCHANGED value /\ pendingById' = pendingById \ {id} /\ copy'[id][n] = "erase"
    BY <1>0, <1>8 DEF ReceiveConfiguration, TypeOK
  <2>2. \A i \in Ids, k \in Copies : i # id \/ k # n => copy'[i][k] = copy[i][k]
    BY <1>0, <1>8 DEF ReceiveConfiguration, TypeOK
  <2> QED BY <1>0, <2>1, <2>2
<1>9. ASSUME NEW id \in Ids, TimeOut(id) \/ RetryLookUp(id) PROVE RepliesInv'
  BY <1>1, <1>9 DEF TimeOut, RetryLookUp
<1>10. ASSUME NEW id \in Ids, RetrySend(id) PROVE RepliesInv'
  <2> DEFINE n == attempt[id] + 2
  <2>1. UNCHANGED <<value, pendingById>> /\ copy' = [copy EXCEPT ![id][n] = "client"]
    BY <1>10 DEF RetrySend
  <2>2. n \in Copies
    BY <1>0, <1>10 DEF RetrySend, ConfigInv, RetryInv, Copies, TypeOK
  <2> HIDE DEF n
  <2>3. copy'[id][n] = "client" /\ \A i \in Ids, k \in Copies : i # id \/ k # n => copy'[i][k] = copy[i][k]
    BY <1>0, <2>1, <2>2 DEF TypeOK
  <2> QED BY <1>0, <2>1, <2>3
<1>11. CASE Change
  BY <1>1, <1>11 DEF Change
<1>12. ASSUME NEW k \in Changes, Handler(k) PROVE RepliesInv'
  BY <1>1, <1>12 DEF Handler, ClearConfigs, ClearLspConfigs
<1>13. CASE UNCHANGED vars
  BY <1>1, <1>13 DEF vars
<1> QED
  BY <1>2, <1>4, <1>5, <1>6, <1>7, <1>8, <1>9, <1>10, <1>11, <1>12, <1>13 DEF Next, Reply, Retry

LEMMA RetryNextInv ==
  ASSUME ConfigInv, [Next]_vars
  PROVE  RetryInv'
<1>0. TypeOK /\ RetryInv
  BY DEF ConfigInv
<1> USE DEF RetryInv, caches, pending, sending, replies, callers, environment
<1>1. ASSUME UNCHANGED <<retry, attempt>> PROVE RetryInv'
  BY <1>0, <1>1
<1>2. ASSUME NEW c \in Callers, Caller(c), ~Request(c) PROVE RetryInv'
  BY <1>1, <1>2 DEF Caller, Call, LookUp, LookUpAgain, Join, Wake, Store
<1>3. ASSUME NEW c \in Callers, Request(c) PROVE RetryInv'
  <2>1. UNCHANGED attempt /\ \A i \in Ids : retry'[i] = retry[i] \/ retry'[i] = "armed"
    BY <1>0, <1>3 DEF Request, TypeOK
  <2> QED BY <1>0, <2>1
<1>4. ASSUME NEW id \in Ids, TimeOut(id) \/ RetryLookUp(id) PROVE RetryInv'
  <2>1. UNCHANGED attempt /\ \A i \in Ids : i # id => retry'[i] = retry[i]
    BY <1>0, <1>4 DEF TimeOut, RetryLookUp, TypeOK
  <2>2. retry'[id] \in {"scheduled", "send"} => attempt[id] < MaxAttempts
    BY <1>0, <1>4 DEF TimeOut, RetryLookUp, CanRetry, TypeOK
  <2> QED BY <1>0, <2>1, <2>2
<1>5. ASSUME NEW id \in Ids, RetrySend(id) PROVE RetryInv'
  <2>1. retry'[id] = "armed" /\ \A i \in Ids : i # id => retry'[i] = retry[i] /\ attempt'[i] = attempt[i]
    BY <1>0, <1>5 DEF RetrySend, TypeOK
  <2> QED BY <1>0, <2>1
<1>6. ASSUME NEW id \in Ids, NEW n \in Copies, Answer(id, n) \/ NoAnswer(id, n) \/ Reply(id, n)
      PROVE  RetryInv'
  BY <1>1, <1>6 DEF Answer, NoAnswer, Reply, Dispatch, ReceiveConfiguration, NoRecord, EraseRequest
<1>7. CASE Change
  BY <1>1, <1>7 DEF Change
<1>8. ASSUME NEW k \in Changes, Handler(k) PROVE RetryInv'
  BY <1>1, <1>8 DEF Handler, ClearConfigs, ClearLspConfigs
<1>9. CASE UNCHANGED vars
  BY <1>1, <1>9 DEF vars
<1> QED BY <1>2, <1>3, <1>4, <1>5, <1>6, <1>7, <1>8, <1>9 DEF Next, Retry

\* All steps but those of the client's changes and of their handlers.
LEMMA OtherStepsKeepChanges ==
  ASSUME [Next]_vars, ~Change, ~\E k \in Changes : Handler(k)
  PROVE  UNCHANGED environment
<1> USE DEF caches, pending, sending, replies, callers, environment
<1>1. ASSUME NEW c \in Callers, Caller(c) PROVE UNCHANGED environment
  BY <1>1 DEF Caller, Call, LookUp, LookUpAgain, Join, Request, Wake, Store
<1>2. ASSUME NEW id \in Ids, NEW n \in Copies, Answer(id, n) \/ NoAnswer(id, n) \/ Reply(id, n)
      PROVE  UNCHANGED environment
  BY <1>2 DEF Answer, NoAnswer, Reply, Dispatch, ReceiveConfiguration, NoRecord, EraseRequest
<1>3. ASSUME NEW id \in Ids, Retry(id) PROVE UNCHANGED environment
  BY <1>3 DEF Retry, TimeOut, RetryLookUp, RetrySend
<1> QED BY <1>1, <1>2, <1>3 DEF Next, vars

LEMMA ChangeNextInv ==
  ASSUME ConfigInv, [Next]_vars
  PROVE  ChangeInv'
<1>0. /\ ChangeInv
      /\ change \in [Changes -> {"none", "sent", "cleared", "done"}]
      /\ client \in Versions
  BY DEF ConfigInv, TypeOK
<1> USE DEF ChangeInv, environment
<1>1. CASE UNCHANGED environment
  BY <1>0, <1>1
<1>2. PICK k0 \in Versions : /\ k0 = 0 \/ change[k0] = "done"
                             /\ \A j \in Changes : change[j] = "done" => j <= k0
  BY <1>0
<1>a. k0 \in Nat /\ client \in Nat /\ Changes \subseteq Versions /\ Versions \subseteq Nat
  BY <1>0 DEF Versions, Changes
<1>b. k0 # 0 => k0 \in Changes
  BY DEF Versions, Changes
<1>3. CASE Change
  <2>1. client + 1 \in Changes /\ client' = client + 1 /\ change'[client + 1] = "sent"
        /\ \A j \in Changes : j # client + 1 => change'[j] = change[j]
    BY <1>0, <1>3 DEF Change, Versions, Changes
  <2>2. \A j \in Changes : change'[j] # "none" => j <= client'
    BY <1>0, <1>a, <2>1
  <2>3. change[client + 1] = "none"
    BY <1>0, <1>a, <2>1
  <2>4. k0 = 0 \/ change'[k0] = "done"
    BY <1>2, <1>b, <2>1, <2>3
  <2>5. \A j \in Changes : change'[j] = "done" => j <= k0
    BY <1>2, <2>1
  <2> QED BY <2>2, <2>4, <2>5
<1>4. ASSUME NEW k \in Changes, ClearConfigs(k) PROVE ChangeInv'
  <2>1. client' = client /\ change[k] = "sent" /\ change'[k] = "cleared"
        /\ \A j \in Changes : j # k => change'[j] = change[j]
    BY <1>0, <1>4 DEF ClearConfigs
  <2>2. k0 = 0 \/ change'[k0] = "done"
    BY <1>2, <1>b, <2>1
  <2> QED BY <1>0, <1>2, <2>1, <2>2
<1>5. ASSUME NEW k \in Changes, ClearLspConfigs(k) PROVE ChangeInv'
  <2>1. client' = client /\ change[k] = "cleared" /\ change'[k] = "done"
        /\ \A j \in Changes : j # k => change'[j] = change[j]
    BY <1>0, <1>5 DEF ClearLspConfigs
  <2>2. \A j \in Changes : change'[j] # "none" => j <= client'
    BY <1>0, <2>1
  <2>3. CASE k <= k0
    <3>1. k0 = 0 \/ change'[k0] = "done"
      BY <1>2, <1>b, <2>1
    <3> QED BY <1>2, <2>1, <2>2, <2>3, <3>1
  <2>4. CASE k0 < k
    <3>1. \A j \in Changes : change'[j] = "done" => j <= k
      BY <1>2, <1>a, <2>1, <2>4
    <3> QED BY <1>a, <2>1, <2>2, <3>1
  <2> QED BY <1>a, <2>3, <2>4
<1> QED BY <1>1, <1>3, <1>4, <1>5, OtherStepsKeepChanges DEF Handler

LEMMA ClearedIsFinite == IsFiniteSet(Cleared) /\ Cardinality(Cleared) \in Nat
<1>1. IsFiniteSet(Changes)
  BY FS_Interval DEF Changes
<1>2. Cleared \in SUBSET Changes
  BY DEF Cleared
<1> QED BY <1>1, <1>2, FS_Subset, FS_CardinalityType

LEMMA AskedNextInv ==
  ASSUME ConfigInv, [Next]_vars
  PROVE  AskedInv'
<1>0. /\ AskedInv /\ ChangeInv /\ RepliesInv
      /\ change \in [Changes -> {"none", "sent", "cleared", "done"}]
      /\ client \in Versions /\ serialRequestId \in Nat
      /\ Cardinality(Cleared) \in Nat /\ IsFiniteSet(Cleared)
  BY ClearedIsFinite DEF ConfigInv, TypeOK
<1> USE DEF AskedInv, caches, pending, sending, replies, callers, environment
<1>1. ASSUME Cleared' = Cleared, serialRequestId' = serialRequestId,
             conf' = None /\ pendingByUri' = None => conf = None /\ pendingByUri = None
      PROVE  AskedInv'
  BY <1>0, <1>1
<1>2. ASSUME UNCHANGED <<conf, pendingByUri, serialRequestId, change>> PROVE AskedInv'
  BY <1>1, <1>2 DEF Cleared
<1>3. ASSUME NEW c \in Callers, Caller(c), ~Request(c) PROVE AskedInv'
  BY <1>2, <1>3 DEF Caller, Call, LookUp, LookUpAgain, Join, Wake, Store
<1>4. ASSUME NEW c \in Callers, Request(c) PROVE AskedInv'
  <2>1. /\ conf = None /\ pendingByUri = None
        /\ serialRequestId \in Ids
        /\ serialRequestId' = serialRequestId + 1
        /\ pendingByUri' = serialRequestId
        /\ Cleared' = Cleared
    BY <1>4 DEF Request, CanJoin, Cleared
  <2>2. pendingByUri' # None
    BY <2>1 DEF Ids
  <2> QED BY <1>0, <2>1, <2>2
<1>5. ASSUME NEW id \in Ids, NEW n \in Copies, ReceiveConfiguration(id, n) PROVE AskedInv'
  <2>1. Cleared' = Cleared /\ serialRequestId' = serialRequestId
    BY <1>5 DEF ReceiveConfiguration, Cleared
  <2>2. conf' # None
    BY <1>0, <1>5 DEF ReceiveConfiguration, RepliesInv
  <2> QED BY <1>1, <2>1, <2>2
<1>6. ASSUME NEW id \in Ids, NEW n \in Copies,
             Answer(id, n) \/ NoAnswer(id, n) \/ Dispatch(id, n) \/ NoRecord(id, n) \/ EraseRequest(id, n)
      PROVE  AskedInv'
  BY <1>2, <1>6 DEF Answer, NoAnswer, Dispatch, NoRecord, EraseRequest
<1>7. ASSUME NEW id \in Ids, Retry(id) PROVE AskedInv'
  BY <1>2, <1>7 DEF Retry, TimeOut, RetryLookUp, RetrySend
<1>8. CASE Change
  <2>1. client + 1 \in Changes /\ client \in Nat /\ change'[client + 1] = "sent"
        /\ \A j \in Changes : j # client + 1 => change'[j] = change[j]
    BY <1>0, <1>8 DEF Change, Versions, Changes
  <2>2. change[client + 1] = "none"
    BY <1>0, <2>1 DEF ChangeInv
  <2>3. Cleared' = Cleared
    BY <2>1, <2>2 DEF Cleared
  <2> QED BY <1>1, <1>8, <2>3 DEF Change
<1>9. ASSUME NEW k \in Changes, ClearConfigs(k) PROVE AskedInv'
  <2>1. k \notin Cleared /\ Cleared' = Cleared \cup {k}
    BY <1>0, <1>9 DEF ClearConfigs, Cleared
  <2>2. Cardinality(Cleared') = Cardinality(Cleared) + 1
    BY <1>0, <2>1, FS_AddElement
  <2> QED BY <1>0, <1>9, <2>2 DEF ClearConfigs
<1>10. ASSUME NEW k \in Changes, ClearLspConfigs(k) PROVE AskedInv'
  <2>1. Cleared' = Cleared
    BY <1>0, <1>10 DEF ClearLspConfigs, Cleared
  <2> QED BY <1>1, <1>10, <2>1 DEF ClearLspConfigs
<1>11. CASE UNCHANGED vars
  BY <1>2, <1>11 DEF vars
<1> QED
  BY <1>3, <1>4, <1>5, <1>6, <1>7, <1>8, <1>9, <1>10, <1>11 DEF Next, Reply, Handler

LEMMA ConfigNextInv == ConfigInv /\ [Next]_vars => ConfigInv'
BY TypeNextInv, UnsentNextInv, PendingNextInv, RepliesNextInv, RetryNextInv, ChangeNextInv, AskedNextInv
   DEF ConfigInv

LEMMA ConfigIsInv == Spec => []ConfigInv
BY ConfigInitInv, ConfigNextInv, PTL DEF Spec

-----------------------------------------------------------------------------
(* The theorems                                                            *)

\* Whoever waits in getConfig() waits for a request that an answer still finds,
\* the two tables of pending requests agree, and the client is asked at most
\* once between two invalidations of configsByUri.
THEOREM ConfigRequestServesAll == Spec => []OneRequestServesAll
<1>1. ConfigInv => OneRequestServesAll
  <2> SUFFICES ASSUME ConfigInv PROVE OneRequestServesAll
    OBVIOUS
  <2>1. TypeOK /\ PendingInv /\ AskedInv
    BY DEF ConfigInv
  <2>2. ASSUME NEW c \in Callers, pc[c] = "wait", promise[waitsFor[c]] = None
        PROVE  waitsFor[c] \in pendingById \cap requests
    BY <2>1, <2>2 DEF PendingInv
  <2>3. pendingById = IF pendingByUri = None THEN {} ELSE {pendingByUri}
    BY <2>1 DEF PendingInv
  <2>4. serialRequestId <= Cardinality({k \in Changes : change[k] \in {"cleared", "done"}}) + 1
    BY <2>1 DEF AskedInv, Cleared
  <2> QED BY <2>1, <2>2, <2>3, <2>4 DEF OneRequestServesAll
<1> QED BY <1>1, ConfigIsInv, PTL

\* receiveWorkspace_configuration() sets the promise of a request once, however
\* many copies of it the client answers and in whatever order the replies are
\* handled: set_value never throws.
THEOREM ConfigPromiseIsSetOnce == Spec => PromiseIsSetOnce
<1> DEFINE Once == \A id \in Ids, n \in Copies :
                       (copy[id][n] = "found" /\ copy'[id][n] = "erase") => promise[id] = None
<1>1. ConfigInv /\ [Next]_vars => Once
  <2> SUFFICES ASSUME ConfigInv, [Next]_vars, NEW id \in Ids, NEW n \in Copies,
                      copy[id][n] = "found", copy'[id][n] = "erase"
               PROVE  promise[id] = None
    OBVIOUS
  <2>1. copy \in [Ids -> [Copies -> CopyPC]] /\ attempt \in [Ids -> 0 .. MaxAttempts] /\ PendingInv
    BY DEF ConfigInv, TypeOK
  <2> USE DEF caches, pending, sending, replies, callers, environment
  <2>2. ASSUME UNCHANGED copy PROVE FALSE
    BY <2>2
  <2>3. ASSUME NEW i \in Ids, NEW k, NEW l, l # "erase", copy' = [copy EXCEPT ![i][k] = l] PROVE FALSE
    BY <2>1, <2>3
  <2>4. ASSUME NEW c \in Callers, Caller(c) PROVE FALSE
    <3>1. CASE Request(c)
      <4>1. serialRequestId \in Ids /\ copy' = [copy EXCEPT ![serialRequestId][1] = "client"]
        BY <3>1 DEF Request
      <4> QED BY <2>3, <4>1
    <3>2. CASE ~Request(c)
      BY <2>2, <2>4, <3>2 DEF Caller, Call, LookUp, LookUpAgain, Join, Wake, Store
    <3> QED BY <3>1, <3>2
  <2>5. ASSUME NEW i \in Ids, NEW k \in Copies, ReceiveConfiguration(i, k) PROVE promise[id] = None
    <3>1. i = id
      BY <2>1, <2>5 DEF ReceiveConfiguration
    <3>2. id \in pendingById
      BY <2>5, <3>1 DEF ReceiveConfiguration, HasRecord
    <3> QED BY <2>1, <3>2 DEF PendingInv
  <2>6. ASSUME NEW i \in Ids, NEW k \in Copies,
               Answer(i, k) \/ NoAnswer(i, k) \/ Dispatch(i, k) \/ NoRecord(i, k) \/ EraseRequest(i, k)
        PROVE  FALSE
    <3>1. PICK l : l # "erase" /\ copy' = [copy EXCEPT ![i][k] = l]
      BY <2>6 DEF Answer, NoAnswer, Dispatch, NoRecord, EraseRequest
    <3> QED BY <2>3, <3>1
  <2>7. ASSUME NEW i \in Ids, Retry(i) PROVE FALSE
    BY <2>2, <2>3, <2>7 DEF Retry, TimeOut, RetryLookUp, RetrySend
  <2>8. ASSUME Change \/ \E k \in Changes : Handler(k) PROVE FALSE
    BY <2>2, <2>8 DEF Change, Handler, ClearConfigs, ClearLspConfigs
  <2> QED BY <2>2, <2>4, <2>5, <2>6, <2>7, <2>8 DEF Next, Reply, vars
<1>2. ConfigInv /\ [Next]_vars => [Once]_vars
  BY <1>1
<1> HIDE DEF Once
<1>3. Spec => [][Once]_vars
  BY <1>2, ConfigIsInv, PTL DEF Spec
<1> QED BY <1>3 DEF PromiseIsSetOnce, Once
=============================================================================
