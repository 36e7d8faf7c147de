----------------------- MODULE ParallelServerProofs -----------------------
(***************************************************************************)
(* Proofs about ParallelServer: for any number of request threads and of   *)
(* messages, responses leave in order of receipt, also while the server    *)
(* exits, and until it exits no answer is skipped and one thread at a time *)
(* has the turn.                                                           *)
(***************************************************************************)
EXTENDS ParallelServer, SequenceTheorems, TLAPS

-----------------------------------------------------------------------------
(* The inductive invariant                                                 *)

\* A thread holds a message that is still to be answered, or that waits for
\* the turn to be passed on.
BeforeSend == {"taken", "handle", "stopPools", "sendLock", "sendWait", "sendBlocked",
               "sendTest", "sendNow"}
AfterSend == {"turnLock", "turnWait", "turnBlocked", "bump"}
InTurn == {"sendTest", "sendNow", "bump"}
Holds(w) == pc[w] \in BeforeSend \cup AfterSend

\* The numbers in the system are distinct and increase from the threads that
\* hold them through the queue to the listener.
NumbersInv ==
    /\ \A u, w \in Workers : (Holds(u) /\ Holds(w) /\ u # w) => id[u] # id[w]
    /\ \A i, j \in 1 .. Len(tasks) : i < j => tasks[i] < tasks[j]
    /\ \A w \in Workers : Holds(w) => \A i \in 1 .. Len(tasks) : id[w] < tasks[i]
    /\ listener = "execute" =>
           /\ 1 <= serialSendId
           /\ \A w \in Workers : Holds(w) => id[w] < serialSendId - 1
           /\ \A i \in 1 .. Len(tasks) : tasks[i] < serialSendId - 1

\* Until the server exits the turn is never past a number that is still in the
\* system, and the threads that act on it have it.
TurnInv ==
    /\ ~exit =>
           /\ \A w \in Workers : Holds(w) => pendingSendId <= id[w]
           /\ \A i \in 1 .. Len(tasks) : pendingSendId <= tasks[i]
           /\ pendingSendId <= serialSendId
           /\ listener = "execute" => pendingSendId <= serialSendId - 1
           /\ \A w \in Workers : pc[w] \in InTurn => id[w] = pendingSendId
    /\ \A u, w \in Workers : (pc[u] = "sendNow" /\ pc[w] = "sendNow") => u = w

\* What has been sent is older than what is still in the system.
OutgoingInv ==
    /\ InOrderOfReceipt
    /\ \A w \in Workers : pc[w] = "sendNow" => \A i \in 1 .. Len(outgoing) : outgoing[i] < id[w]
    /\ ~exit => \A i \in 1 .. Len(outgoing) : outgoing[i] <= pendingSendId
    /\ \A w \in Workers : pc[w] \in BeforeSend =>
           \A i \in 1 .. Len(outgoing) : outgoing[i] # id[w]
    /\ \A i \in 1 .. Len(outgoing), k \in 1 .. Len(tasks) : outgoing[i] < tasks[k]
    /\ listener = "execute" => \A i \in 1 .. Len(outgoing) : outgoing[i] < serialSendId - 1

\* Until the server exits a thread that has passed send() has answered.
AnsweredInv ==
    ~exit =>
        /\ \A i \in 0 .. pendingSendId - 1 : KindOf(i) = "reply" => i \in Answered
        /\ \A w \in Workers :
               (pc[w] \in AfterSend /\ KindOf(id[w]) = "reply") => id[w] \in Answered

TurnsInv == TypeOK /\ NumbersInv /\ TurnInv /\ OutgoingInv /\ AnsweredInv

-----------------------------------------------------------------------------
(* Types                                                                   *)

\* The initial state satisfies the invariant.
LEMMA InitInv == Init => TurnsInv
  <1>. SUFFICES ASSUME Init PROVE TurnsInv
    OBVIOUS
  <1>1. TypeOK
    <2>1. << >> \in Seq(SendIds) /\ << >> \in Seq(Kinds) /\ Len(<< >>) = 0
      BY EmptySeq
    <2>2. kind \in Seq(Kinds) /\ tasks \in Seq(SendIds) /\ outgoing \in Seq(SendIds) /\ Len(kind) = 0
      BY <2>1 DEF Init
    <2>3. serialSendId \in 0 .. MaxMessages /\ pendingSendId \in Nat /\ Len(kind) = serialSendId
      BY <2>2, ServerAssumption DEF Init
    <2>4. pc \in [Workers -> PC] /\ id \in [Workers -> Nat] /\ sentMutex \in Workers \cup {Nobody}
      BY DEF Init, PC
    <2>5. \A w \in Workers : pc[w] \notin {"idle", "gone"} => id[w] \in SendIds
      BY DEF Init
    <2>. QED
      BY <2>2, <2>3, <2>4, <2>5 DEF Init, TypeOK
  <1>2. NumbersInv /\ TurnInv /\ OutgoingInv /\ AnsweredInv
    BY DEF Init, NumbersInv, TurnInv, OutgoingInv, AnsweredInv, InOrderOfReceipt, Holds,
       BeforeSend, AfterSend, InTurn
  <1>. QED
    BY <1>1, <1>2 DEF TurnsInv

\* Every step keeps the types.
LEMMA NextTypes == TypeOK /\ NumbersInv /\ [Next]_vars => TypeOK'
  <1>. SUFFICES ASSUME TypeOK, NumbersInv, [Next]_vars PROVE TypeOK'
    OBVIOUS
  <1>. USE DEF SendIds, intake, ending, Goto
  <1>1. ASSUME NEW k \in Kinds, Listen(k) PROVE TypeOK'
    <2>1. SendIds \subseteq SendIds'
      BY <1>1 DEF Listen, TypeOK
    <2>2. tasks' \in Seq(SendIds') /\ outgoing' \in Seq(SendIds')
      BY <1>1, <2>1, SeqMonotonic DEF Listen, TypeOK
    <2>3. kind' \in Seq(Kinds) /\ Len(kind') = Len(kind) + 1
      BY <1>1, AppendProperties DEF Listen, TypeOK
    <2>4. /\ serialSendId' \in 0 .. MaxMessages
          /\ Len(kind') = serialSendId'
          /\ \A u \in Workers : pc'[u] \notin {"idle", "gone"} => id'[u] \in SendIds'
      BY <1>1, <2>1, <2>3, ServerAssumption DEF Listen, TypeOK
    <2>. QED
      BY <1>1, <2>2, <2>3, <2>4 DEF Listen, TypeOK
  <1>2. CASE Execute
    <2>1. serialSendId - 1 \in SendIds => tasks' \in Seq(SendIds)
      BY <1>2, AppendProperties DEF Execute, TypeOK
    <2>2. serialSendId - 1 \in SendIds
      BY <1>2 DEF Execute, TypeOK, NumbersInv
    <2>. QED
      BY <1>2, <2>1, <2>2 DEF Execute, TypeOK
  <1>3. CASE ListenerEnds
    BY <1>3 DEF ListenerEnds, TypeOK
  <1>4. CASE ParentIsGone
    BY <1>4 DEF ParentIsGone, TypeOK
  <1>5. CASE CronStopPools
    BY <1>5 DEF CronStopPools, TypeOK
  <1>6. ASSUME NEW w \in Workers, Worker(w) \/ SpuriousWakeup(w) PROVE TypeOK'
    <2>1. CASE TakeTask(w)
      <3>1. Head(tasks) \in SendIds /\ Tail(tasks) \in Seq(SendIds)
        BY <2>1 DEF TakeTask, TypeOK
      <3>. QED
        BY <2>1, <3>1 DEF TakeTask, TypeOK, PC
    <2>2. CASE BeginTask(w)
      BY <2>2 DEF BeginTask, TypeOK, PC
    <2>3. CASE WorkerEnds(w)
      BY <2>3 DEF WorkerEnds, TypeOK, PC
    <2>4. CASE Handle(w)
      BY <2>4 DEF Handle, TypeOK, PC, WaitPC
    <2>5. CASE HandleExit(w)
      BY <2>5 DEF HandleExit, TypeOK, PC, WaitPC
    <2>6. CASE StopPools(w)
      BY <2>6 DEF StopPools, TypeOK, PC, WaitPC
    <2>7. CASE WaitTurn(w)
      BY <2>7 DEF WaitTurn, TakeTurn, NotMyTurn, Block, TypeOK, PC, WaitPC
    <2>8. CASE SendTest(w)
      BY <2>8 DEF SendTest, TypeOK, PC, WaitPC
    <2>9. CASE SendNow(w)
      BY <2>9 DEF SendNow, TypeOK, PC, WaitPC
    <2>10. CASE Bump(w)
      BY <2>10 DEF Bump, TypeOK, PC
    <2>11. CASE Notify(w)
      BY <2>11 DEF Notify, TypeOK, PC, WaitPC
    <2>12. CASE SpuriousWakeup(w)
      BY <2>12 DEF SpuriousWakeup, TypeOK, PC, WaitPC
    <2>. QED
      BY <1>6, <2>1, <2>2, <2>3, <2>4, <2>5, <2>6, <2>7, <2>8, <2>9, <2>10, <2>11, <2>12
         DEF Worker
  <1>7. CASE UNCHANGED vars
    BY <1>7 DEF vars, TypeOK
  <1>. QED
    BY <1>1, <1>2, <1>3, <1>4, <1>5, <1>6, <1>7 DEF Next

-----------------------------------------------------------------------------
(* What a step of a request thread leaves alone                             *)

\* A thread that does not take a task changes neither the numbers nor the
\* queue, takes hold of no message and never moves back before send().
LEMMA ThreadStep ==
  ASSUME TypeOK, NEW w \in Workers, Worker(w) \/ SpuriousWakeup(w), ~TakeTask(w)
  PROVE  /\ UNCHANGED <<serialSendId, kind, listener, tasks, id>>
         /\ \A u \in Workers : Holds(u)' => Holds(u)
         /\ \A u \in Workers : pc'[u] \in BeforeSend => pc[u] \in BeforeSend
         /\ exit => exit'
  <1>. USE DEF TypeOK, intake, ending, Goto, Holds, BeforeSend, AfterSend
  <1>1. CASE BeginTask(w)
    BY <1>1 DEF BeginTask
  <1>2. CASE WorkerEnds(w)
    BY <1>2 DEF WorkerEnds
  <1>3. CASE Handle(w)
    BY <1>3 DEF Handle
  <1>4. CASE HandleExit(w)
    BY <1>4 DEF HandleExit
  <1>5. CASE StopPools(w)
    BY <1>5 DEF StopPools
  <1>6. CASE WaitTurn(w)
    BY <1>6 DEF WaitTurn, TakeTurn, NotMyTurn, Block
  <1>7. CASE SendTest(w)
    BY <1>7 DEF SendTest
  <1>8. CASE SendNow(w)
    BY <1>8 DEF SendNow
  <1>9. CASE Bump(w)
    BY <1>9 DEF Bump
  <1>10. CASE Notify(w)
    BY <1>10 DEF Notify
  <1>11. CASE SpuriousWakeup(w)
    BY <1>11 DEF SpuriousWakeup
  <1>. QED
    BY <1>1, <1>2, <1>3, <1>4, <1>5, <1>6, <1>7, <1>8, <1>9, <1>10, <1>11 DEF Worker

\* Taking a task: the head of the queue moves to the thread.
LEMMA TakeStep ==
  ASSUME TypeOK, NEW w \in Workers, TakeTask(w)
  PROVE  /\ Len(tasks) >= 1 /\ Len(tasks) \in Nat
         /\ Len(tasks') = Len(tasks) - 1
         /\ \A i \in 1 .. Len(tasks') : i + 1 \in 1 .. Len(tasks) /\ tasks'[i] = tasks[i + 1]
         /\ id'[w] = tasks[1]
         /\ \A u \in Workers : u # w => id'[u] = id[u] /\ pc'[u] = pc[u]
         /\ ~Holds(w) /\ pc'[w] = "taken"
         /\ UNCHANGED <<serialSendId, pendingSendId, kind, listener, exit, outgoing>>
  <1>1. tasks # << >> /\ tasks \in Seq(SendIds)
    BY DEF TakeTask, TypeOK
  <1>2. /\ Len(tasks) \in Nat /\ Len(tasks) >= 1
        /\ Head(tasks) = tasks[1]
        /\ Len(Tail(tasks)) = Len(tasks) - 1
        /\ \A i \in 1 .. Len(tasks) - 1 : Tail(tasks)[i] = tasks[i + 1]
    BY <1>1
  <1>. QED
    BY <1>2 DEF TakeTask, TypeOK, Goto, Holds, BeforeSend, AfterSend, intake, ending

\* What the types say of the numbers.
LEMMA NumbersAreNat ==
  ASSUME TypeOK
  PROVE  /\ serialSendId \in Nat /\ pendingSendId \in Nat /\ Len(tasks) \in Nat
         /\ \A i \in 1 .. Len(tasks) : tasks[i] \in Nat /\ tasks[i] < serialSendId
         /\ \A u \in Workers : id[u] \in Nat /\ (Holds(u) => id[u] < serialSendId)
  <1>1. /\ serialSendId \in 0 .. MaxMessages /\ pendingSendId \in Nat
        /\ tasks \in Seq(SendIds) /\ id \in [Workers -> Nat]
        /\ \A u \in Workers : pc[u] \notin {"idle", "gone"} => id[u] \in SendIds
    BY Zenon DEF TypeOK
  <1>2. serialSendId \in Nat /\ \A n \in SendIds : n \in Nat /\ n < serialSendId
    BY <1>1 DEF SendIds
  <1>3. Len(tasks) \in Nat /\ \A i \in 1 .. Len(tasks) : tasks[i] \in SendIds
    BY <1>1, LenProperties, ElementOfSeq
  <1>4. \A u \in Workers : Holds(u) => id[u] \in SendIds
    BY <1>1 DEF Holds, BeforeSend, AfterSend
  <1>. QED
    BY <1>1, <1>2, <1>3, <1>4

\* Every step keeps the order of the numbers.
LEMMA NextNumbers == TypeOK /\ NumbersInv /\ [Next]_vars => NumbersInv'
  <1>. SUFFICES ASSUME TypeOK, NumbersInv, [Next]_vars PROVE NumbersInv'
    OBVIOUS
  <1>0. /\ serialSendId \in Nat /\ Len(tasks) \in Nat
        /\ \A i \in 1 .. Len(tasks) : tasks[i] \in Nat /\ tasks[i] < serialSendId
        /\ \A u \in Workers : id[u] \in Nat /\ (Holds(u) => id[u] < serialSendId)
    BY NumbersAreNat
  <1>1. ASSUME NEW k \in Kinds, Listen(k) PROVE NumbersInv'
    BY <1>0, <1>1 DEF Listen, NumbersInv, Holds, ending
  <1>2. CASE Execute
    <2>1. CASE stopped
      BY <1>2, <2>1 DEF Execute, NumbersInv, Holds, ending
    <2>2. CASE ~stopped
      <3>1. /\ tasks' = Append(tasks, serialSendId - 1)
            /\ UNCHANGED <<pc, id>>
            /\ listener = "execute" /\ listener' = "listen"
        BY <1>2, <2>2 DEF Execute
      <3>2. /\ Len(tasks') = Len(tasks) + 1
            /\ \A i \in 1 .. Len(tasks) : tasks'[i] = tasks[i]
            /\ tasks'[Len(tasks) + 1] = serialSendId - 1
        BY <3>1 DEF TypeOK
      <3>3. \A i, j \in 1 .. Len(tasks') : i < j => tasks'[i] < tasks'[j]
        BY <1>0, <3>1, <3>2 DEF NumbersInv
      <3>4. \A u \in Workers : Holds(u) => \A i \in 1 .. Len(tasks') : id[u] < tasks'[i]
        BY <1>0, <3>1, <3>2 DEF NumbersInv
      <3>. QED
        BY <3>1, <3>3, <3>4 DEF NumbersInv, Holds
    <2>. QED
      BY <2>1, <2>2
  <1>3. ASSUME NEW w \in Workers, TakeTask(w) PROVE NumbersInv'
    <2>1. \A u \in Workers : Holds(u)' => u = w \/ Holds(u)
      BY <1>3, TakeStep DEF Holds
    <2>2. \A u \in Workers : u # w /\ Holds(u) => id'[u] < id'[w]
      BY <1>0, <1>3, TakeStep DEF NumbersInv
    <2>3. \A u \in Workers : Holds(u)' => \A i \in 1 .. Len(tasks') : id'[u] < tasks'[i]
      BY <1>0, <1>3, <2>1, TakeStep DEF NumbersInv
    <2>4. \A i, j \in 1 .. Len(tasks') : i < j => tasks'[i] < tasks'[j]
      BY <1>0, <1>3, TakeStep DEF NumbersInv
    <2>5. \A u, v \in Workers : (Holds(u)' /\ Holds(v)' /\ u # v) => id'[u] # id'[v]
      BY <1>0, <1>3, <2>1, <2>2, TakeStep DEF NumbersInv
    <2>6. listener' = "execute" =>
              /\ 1 <= serialSendId'
              /\ \A u \in Workers : Holds(u)' => id'[u] < serialSendId' - 1
              /\ \A i \in 1 .. Len(tasks') : tasks'[i] < serialSendId' - 1
      BY <1>0, <1>3, <2>1, TakeStep DEF NumbersInv
    <2>. QED
      BY <2>3, <2>4, <2>5, <2>6 DEF NumbersInv
  <1>4. ASSUME NEW w \in Workers, Worker(w) \/ SpuriousWakeup(w), ~TakeTask(w) PROVE NumbersInv'
    BY <1>4, ThreadStep DEF NumbersInv
  <1>5. CASE ListenerEnds \/ ParentIsGone \/ CronStopPools \/ UNCHANGED vars
    <2>1. UNCHANGED <<serialSendId, tasks, pc, id>> /\ (listener' = listener \/ listener' = "gone")
      BY <1>5 DEF ListenerEnds, ParentIsGone, CronStopPools, vars, intake
    <2>. QED
      BY <2>1 DEF NumbersInv, Holds
  <1>. QED
    BY <1>1, <1>2, <1>3, <1>4, <1>5 DEF Next

-----------------------------------------------------------------------------
(* The turn                                                                *)

\* Every step keeps the turn behind everything that is still in the system.
LEMMA NextTurn == TypeOK /\ NumbersInv /\ TurnInv /\ [Next]_vars => TurnInv'
  <1>. SUFFICES ASSUME TypeOK, NumbersInv, TurnInv, [Next]_vars PROVE TurnInv'
    OBVIOUS
  <1>. DEFINE Behind ==
                  /\ \A u \in Workers : Holds(u) => pendingSendId <= id[u]
                  /\ \A i \in 1 .. Len(tasks) : pendingSendId <= tasks[i]
                  /\ pendingSendId <= serialSendId
                  /\ listener = "execute" => pendingSendId <= serialSendId - 1
              Theirs == \A u \in Workers : pc[u] \in InTurn => id[u] = pendingSendId
              OneSends == \A u, v \in Workers : (pc[u] = "sendNow" /\ pc[v] = "sendNow") => u = v
  <1>0. /\ serialSendId \in Nat /\ Len(tasks) \in Nat /\ pendingSendId \in Nat
        /\ \A i \in 1 .. Len(tasks) : tasks[i] \in Nat /\ tasks[i] < serialSendId
        /\ \A u \in Workers : id[u] \in Nat /\ (Holds(u) => id[u] < serialSendId)
    BY NumbersAreNat
  <1>00. OneSends /\ (~exit => Behind /\ Theirs)
    BY DEF TurnInv
  <1>01. \A u \in Workers : pc[u] \in InTurn => Holds(u)
    BY DEF InTurn, Holds, BeforeSend, AfterSend
  <1>000. SUFFICES OneSends' /\ (~exit' => Behind' /\ Theirs')
    BY DEF TurnInv
  <1>1. ASSUME NEW k \in Kinds, Listen(k) PROVE OneSends' /\ (~exit' => Behind' /\ Theirs')
    <2>1. UNCHANGED <<pendingSendId, tasks, pc, id, exit>> /\ serialSendId' = serialSendId + 1
      BY <1>1 DEF Listen, ending
    <2>. QED
      BY <1>0, <1>00, <2>1 DEF Holds
  <1>2. CASE Execute
    <2>1. /\ UNCHANGED <<pendingSendId, serialSendId, pc, id, exit>>
          /\ listener = "execute" /\ listener' = "listen"
          /\ tasks' = tasks \/ tasks' = Append(tasks, serialSendId - 1)
      BY <1>2 DEF Execute, ending
    <2>2. ~exit => \A i \in 1 .. Len(tasks') : pendingSendId <= tasks'[i]
      <3>1. CASE tasks' = tasks
        BY <1>00, <3>1
      <3>2. CASE tasks' = Append(tasks, serialSendId - 1)
        <4>1. /\ Len(tasks') = Len(tasks) + 1
              /\ \A i \in 1 .. Len(tasks) : tasks'[i] = tasks[i]
              /\ tasks'[Len(tasks) + 1] = serialSendId - 1
          BY <3>2 DEF TypeOK
        <4>. QED
          BY <1>0, <1>00, <2>1, <4>1
      <3>. QED
        BY <2>1, <3>1, <3>2
    <2>. QED
      BY <1>00, <2>1, <2>2 DEF Holds
  <1>3. ASSUME NEW w \in Workers, TakeTask(w) PROVE OneSends' /\ (~exit' => Behind' /\ Theirs')
    <2>1. \A u \in Workers : Holds(u)' => u = w \/ Holds(u)
      BY <1>3, TakeStep DEF Holds
    <2>2. \A u \in Workers : pc'[u] \in InTurn => u # w /\ pc'[u] = pc[u] /\ id'[u] = id[u]
      BY <1>3, TakeStep DEF InTurn
    <2>3. OneSends'
      BY <1>00, <2>2 DEF InTurn
    <2>4. ~exit' => Theirs'
      BY <1>00, <1>3, <2>2, TakeStep
    <2>5. ~exit' => Behind'
      <3>. SUFFICES ASSUME ~exit' PROVE Behind'
        OBVIOUS
      <3>1. /\ 1 \in 1 .. Len(tasks) /\ id'[w] = tasks[1]
            /\ \A i \in 1 .. Len(tasks') : i + 1 \in 1 .. Len(tasks) /\ tasks'[i] = tasks[i + 1]
            /\ \A u \in Workers : u # w => id'[u] = id[u]
            /\ UNCHANGED <<serialSendId, pendingSendId, listener, exit>>
        BY <1>3, TakeStep
      <3>2. Behind
        BY <1>00, <3>1
      <3>3. \A i \in 1 .. Len(tasks') : pendingSendId <= tasks'[i]
        BY <3>1, <3>2
      <3>4. ASSUME NEW u \in Workers, Holds(u)' PROVE pendingSendId <= id'[u]
        <4>1. CASE u = w
          BY <3>1, <3>2, <4>1
        <4>2. CASE u # w
          BY <2>1, <3>1, <3>2, <3>4, <4>2
        <4>. QED
          BY <4>1, <4>2
      <3>. QED
        BY <3>1, <3>2, <3>3, <3>4
    <2>. QED
      BY <2>3, <2>4, <2>5
  <1>4. ASSUME NEW w \in Workers, Bump(w) PROVE OneSends' /\ (~exit' => Behind' /\ Theirs')
    <2>1. /\ UNCHANGED <<serialSendId, listener, tasks, id, exit>>
          /\ pendingSendId' = pendingSendId + 1
          /\ pc[w] = "bump" /\ pc'[w] = "notify"
          /\ \A u \in Workers : u # w => pc'[u] = pc[u]
      BY <1>4 DEF Bump, Goto, TypeOK, intake, ending
    <2>2. Holds(w) /\ w \in Workers
      BY <2>1 DEF Holds, AfterSend
    <2>3. \A u \in Workers : Holds(u)' => u # w /\ Holds(u)
      BY <2>1 DEF Holds, BeforeSend, AfterSend
    <2>4. ~exit => id[w] = pendingSendId
      BY <1>00, <2>1 DEF InTurn
    <2>5. ~exit => \A u \in Workers : Holds(u)' => pendingSendId + 1 <= id[u]
      BY <1>0, <1>00, <2>2, <2>3, <2>4 DEF NumbersInv
    <2>6. ~exit => /\ \A i \in 1 .. Len(tasks) : pendingSendId + 1 <= tasks[i]
                   /\ pendingSendId + 1 <= serialSendId
                   /\ listener = "execute" => pendingSendId + 1 <= serialSendId - 1
      BY <1>0, <2>2, <2>4 DEF NumbersInv
    <2>7. ~exit => \A u \in Workers : pc'[u] \notin InTurn
      <3>. SUFFICES ASSUME ~exit, NEW u \in Workers, pc'[u] \in InTurn PROVE FALSE
        OBVIOUS
      <3>1. u # w /\ pc[u] \in InTurn
        BY <2>1 DEF InTurn
      <3>2. Holds(u) /\ id[u] = id[w]
        BY <1>00, <1>01, <2>4, <3>1
      <3>. QED
        BY <2>2, <3>1, <3>2 DEF NumbersInv
    <2>8. OneSends'
      BY <1>00, <2>1
    <2>. QED
      BY <2>1, <2>5, <2>6, <2>7, <2>8
  <1>5. ASSUME NEW w \in Workers, WaitTurn(w) \/ SendTest(w)
        PROVE  OneSends' /\ (~exit' => Behind' /\ Theirs')
    <2>1. /\ UNCHANGED <<serialSendId, pendingSendId, listener, tasks, id, exit>>
          /\ \A u \in Workers : u # w => pc'[u] = pc[u]
          /\ pc'[w] \in InTurn => pc[w] \in {"sendLock", "turnLock", "sendTest"}
          /\ pc'[w] \in InTurn => pendingSendId = id[w] \/ exit
          /\ pc'[w] = "sendNow" => pendingSendId = id[w] /\ ~exit
      <3>1. CASE WaitTurn(w)
        BY <3>1 DEF WaitTurn, TakeTurn, NotMyTurn, Block, MyTurn, Goto, TypeOK, intake, ending,
           InTurn
      <3>2. CASE SendTest(w)
        BY <3>2 DEF SendTest, Goto, TypeOK, intake, ending, InTurn
      <3>. QED
        BY <1>5, <3>1, <3>2
    <2>2. ~TakeTask(w) /\ (Worker(w) \/ SpuriousWakeup(w))
      <3>1. pc[w] # "idle"
        BY <1>5 DEF WaitTurn, TakeTurn, NotMyTurn, Block, SendTest
      <3>. QED
        BY <1>5, <3>1 DEF TakeTask, Worker
    <2>3. \A u \in Workers : Holds(u)' => Holds(u)
      BY <2>2, ThreadStep
    <2>4. ~exit' => Behind'
      BY <1>00, <2>1, <2>3
    <2>5. ~exit' => Theirs'
      BY <1>00, <2>1
    <2>6. pc'[w] = "sendNow" => \A u \in Workers : u # w => pc[u] # "sendNow"
      <3>. SUFFICES ASSUME pc'[w] = "sendNow", NEW u \in Workers, u # w, pc[u] = "sendNow" PROVE FALSE
        OBVIOUS
      <3>1. id[u] = id[w] /\ Holds(u)
        BY <1>00, <1>01, <2>1 DEF InTurn
      <3>2. Holds(w)
        BY <2>1 DEF InTurn, Holds, BeforeSend, AfterSend
      <3>. QED
        BY <3>1, <3>2 DEF NumbersInv
    <2>7. OneSends'
      BY <1>00, <2>1, <2>6
    <2>. QED
      BY <2>4, <2>5, <2>7
  <1>6. ASSUME NEW w \in Workers, Worker(w) \/ SpuriousWakeup(w),
               ~TakeTask(w), ~Bump(w), ~WaitTurn(w), ~SendTest(w)
        PROVE  OneSends' /\ (~exit' => Behind' /\ Theirs')
    <2>1. /\ UNCHANGED <<serialSendId, listener, tasks, id>>
          /\ \A u \in Workers : Holds(u)' => Holds(u)
          /\ exit => exit'
      BY <1>6, ThreadStep
    <2>2. UNCHANGED pendingSendId /\ \A u \in Workers : pc'[u] \in InTurn => pc'[u] = pc[u]
      BY <1>6 DEF Worker, SpuriousWakeup, BeginTask, WorkerEnds, Handle, HandleExit, StopPools, SendNow,
         Notify, Goto, TypeOK, InTurn, intake, ending
    <2>3. OneSends'
      BY <1>00, <2>2 DEF InTurn
    <2>4. ~exit' => Behind'
      BY <1>00, <2>1, <2>2
    <2>5. ~exit' => Theirs'
      BY <1>00, <2>1, <2>2
    <2>. QED
      BY <2>3, <2>4, <2>5
  <1>7. CASE ListenerEnds \/ ParentIsGone \/ CronStopPools \/ UNCHANGED vars
    <2>1. /\ UNCHANGED <<serialSendId, pendingSendId, tasks, pc, id>>
          /\ listener' = listener \/ listener' = "gone"
          /\ exit => exit'
      BY <1>7 DEF ListenerEnds, ParentIsGone, CronStopPools, vars, intake, ending
    <2>. QED
      BY <1>00, <2>1 DEF Holds
  <1>. QED
    BY <1>1, <1>2, <1>3, <1>4, <1>5, <1>6, <1>7 DEF Next

-----------------------------------------------------------------------------
(* What has been sent                                                      *)

\* Only SendNow changes the messages sent, by appending the thread's number.
LEMMA OnlySendNowSends ==
  ASSUME [Next]_vars,
         \A w \in Workers : ~SendNow(w)
  PROVE  outgoing' = outgoing
  <1>1. ASSUME NEW w \in Workers, Worker(w) \/ SpuriousWakeup(w) PROVE outgoing' = outgoing
    BY <1>1 DEF Worker, SpuriousWakeup, TakeTask, BeginTask, WorkerEnds, Handle, HandleExit, StopPools,
       WaitTurn, TakeTurn, NotMyTurn, Block, SendTest, Bump, Notify
  <1>. QED
    BY <1>1 DEF Next, vars, Listen, Execute, ListenerEnds, ParentIsGone, CronStopPools

\* The numbers sent are numbers of messages received.
LEMMA OutgoingAreNat ==
  ASSUME TypeOK
  PROVE  /\ Len(outgoing) \in Nat
         /\ \A i \in 1 .. Len(outgoing) : outgoing[i] \in Nat /\ outgoing[i] < serialSendId
  <1>1. outgoing \in Seq(SendIds) /\ serialSendId \in 0 .. MaxMessages
    BY Zenon DEF TypeOK
  <1>2. \A n \in SendIds : n \in Nat /\ n < serialSendId
    BY <1>1 DEF SendIds
  <1>3. Len(outgoing) \in Nat /\ \A i \in 1 .. Len(outgoing) : outgoing[i] \in SendIds
    BY <1>1, LenProperties, ElementOfSeq
  <1>. QED
    BY <1>2, <1>3

\* What SendNow does.
LEMMA SendNowStep ==
  ASSUME TypeOK, NEW w \in Workers, SendNow(w)
  PROVE  /\ Len(outgoing') = Len(outgoing) + 1
         /\ \A i \in 1 .. Len(outgoing) : outgoing'[i] = outgoing[i]
         /\ outgoing'[Len(outgoing) + 1] = id[w]
         /\ pc[w] = "sendNow" /\ pc'[w] = "turnLock"
         /\ \A u \in Workers : u # w => pc'[u] = pc[u]
         /\ UNCHANGED <<serialSendId, pendingSendId, kind, listener, tasks, id, exit>>
  <1>1. outgoing \in Seq(SendIds) /\ outgoing' = Append(outgoing, id[w])
    BY DEF SendNow, TypeOK
  <1>2. /\ Len(outgoing') = Len(outgoing) + 1
        /\ \A i \in 1 .. Len(outgoing) : outgoing'[i] = outgoing[i]
        /\ outgoing'[Len(outgoing) + 1] = id[w]
    BY <1>1
  <1>. QED
    BY <1>2 DEF SendNow, Goto, TypeOK, intake, ending

\* Every step keeps the messages sent in order and older than the rest.
LEMMA NextOutgoing ==
  TypeOK /\ NumbersInv /\ TurnInv /\ OutgoingInv /\ [Next]_vars => OutgoingInv'
  <1>. SUFFICES ASSUME TypeOK, NumbersInv, TurnInv, OutgoingInv, [Next]_vars PROVE OutgoingInv'
    OBVIOUS
  <1>. DEFINE Older(w) == \A i \in 1 .. Len(outgoing) : outgoing[i] < id[w]
              Unsent(w) == \A i \in 1 .. Len(outgoing) : outgoing[i] # id[w]
              UpToTurn == \A i \in 1 .. Len(outgoing) : outgoing[i] <= pendingSendId
              BeforeTasks == \A i \in 1 .. Len(outgoing), k \in 1 .. Len(tasks) : outgoing[i] < tasks[k]
              BeforeNext == \A i \in 1 .. Len(outgoing) : outgoing[i] < serialSendId - 1
              Sending == \A w \in Workers : pc[w] = "sendNow" => Older(w)
              Waiting == \A w \in Workers : pc[w] \in BeforeSend => Unsent(w)
              Executing == listener = "execute" => BeforeNext
  <1>0. /\ serialSendId \in Nat /\ Len(tasks) \in Nat /\ pendingSendId \in Nat
        /\ \A i \in 1 .. Len(tasks) : tasks[i] \in Nat /\ tasks[i] < serialSendId
        /\ \A u \in Workers : id[u] \in Nat /\ (Holds(u) => id[u] < serialSendId)
    BY NumbersAreNat
  <1>00. /\ Len(outgoing) \in Nat
         /\ \A i \in 1 .. Len(outgoing) : outgoing[i] \in Nat /\ outgoing[i] < serialSendId
    BY OutgoingAreNat
  <1>01. InOrderOfReceipt /\ Sending /\ (~exit => UpToTurn) /\ Waiting /\ BeforeTasks /\ Executing
    BY DEF OutgoingInv
  <1>02. SUFFICES /\ InOrderOfReceipt' /\ Sending' /\ (~exit' => UpToTurn')
                  /\ Waiting' /\ BeforeTasks' /\ Executing'
    BY DEF OutgoingInv
  <1>1. ASSUME NEW w \in Workers, SendNow(w)
        PROVE  /\ InOrderOfReceipt' /\ Sending' /\ (~exit' => UpToTurn')
               /\ Waiting' /\ BeforeTasks' /\ Executing'
    <2>1. /\ Len(outgoing') = Len(outgoing) + 1
          /\ \A i \in 1 .. Len(outgoing) : outgoing'[i] = outgoing[i]
          /\ outgoing'[Len(outgoing) + 1] = id[w]
          /\ pc[w] = "sendNow" /\ pc'[w] = "turnLock"
          /\ \A u \in Workers : u # w => pc'[u] = pc[u]
          /\ UNCHANGED <<serialSendId, pendingSendId, kind, listener, tasks, id, exit>>
      BY <1>1, SendNowStep
    <2>2. Holds(w) /\ Older(w)
      BY <1>01, <2>1 DEF Holds, BeforeSend
    <2>3. InOrderOfReceipt'
      <3>. SUFFICES ASSUME NEW i \in 1 .. Len(outgoing'), NEW j \in 1 .. Len(outgoing'), i < j
                    PROVE  outgoing'[i] < outgoing'[j]
        BY DEF InOrderOfReceipt
      <3>1. i \in 1 .. Len(outgoing) /\ outgoing'[i] = outgoing[i]
        BY <1>00, <2>1
      <3>2. CASE j \in 1 .. Len(outgoing)
        BY <1>01, <2>1, <3>1, <3>2 DEF InOrderOfReceipt
      <3>3. CASE j = Len(outgoing) + 1
        BY <2>1, <2>2, <3>1, <3>3
      <3>. QED
        BY <1>00, <2>1, <3>2, <3>3
    <2>4. Sending'
      BY <2>1 DEF TurnInv
    <2>5. ~exit' => UpToTurn'
      <3>1. ~exit => id[w] = pendingSendId
        BY <2>1 DEF TurnInv, InTurn
      <3>. QED
        BY <1>0, <1>00, <1>01, <2>1, <3>1
    <2>6. Waiting'
      <3>. SUFFICES ASSUME NEW u \in Workers, pc'[u] \in BeforeSend PROVE Unsent(u)'
        OBVIOUS
      <3>1. u # w /\ pc[u] \in BeforeSend
        BY <2>1 DEF BeforeSend
      <3>2. Unsent(u) /\ id[u] # id[w]
        BY <1>01, <2>2, <3>1 DEF NumbersInv, Holds
      <3>. QED
        BY <1>00, <2>1, <3>2
    <2>7. BeforeTasks'
      BY <1>0, <1>00, <1>01, <2>1, <2>2 DEF NumbersInv
    <2>8. Executing'
      <3>. SUFFICES ASSUME listener = "execute", NEW i \in 1 .. Len(outgoing')
                    PROVE  outgoing'[i] < serialSendId - 1
        BY <2>1
      <3>1. id[w] < serialSendId - 1 /\ BeforeNext
        BY <1>01, <2>2 DEF NumbersInv
      <3>. QED
        BY <1>00, <2>1, <3>1
    <2>. QED
      BY <2>3, <2>4, <2>5, <2>6, <2>7, <2>8
  <1>2. ASSUME \A w \in Workers : ~SendNow(w), outgoing' = outgoing
        PROVE  /\ InOrderOfReceipt' /\ Sending' /\ (~exit' => UpToTurn')
               /\ Waiting' /\ BeforeTasks' /\ Executing'
    <2>1. InOrderOfReceipt'
      BY <1>01, <1>2 DEF InOrderOfReceipt
    <2>2. ASSUME NEW k \in Kinds, Listen(k)
          PROVE  Sending' /\ (~exit' => UpToTurn') /\ Waiting' /\ BeforeTasks' /\ Executing'
      <3>1. UNCHANGED <<pendingSendId, tasks, pc, id, exit>> /\ serialSendId' = serialSendId + 1
        BY <2>2 DEF Listen, ending
      <3>2. serialSendId' - 1 = serialSendId
        BY <1>0, <3>1
      <3>3. Executing'
        BY <1>00, <1>2, <3>2
      <3>. QED
        BY <1>01, <1>2, <3>1, <3>3
    <2>3. CASE Execute
      <3>1. /\ UNCHANGED <<pendingSendId, serialSendId, pc, id, exit>>
            /\ listener = "execute" /\ listener' = "listen"
            /\ tasks' = tasks \/ tasks' = Append(tasks, serialSendId - 1)
        BY <2>3 DEF Execute, ending
      <3>2. BeforeTasks'
        <4>1. CASE tasks' = tasks
          BY <1>01, <1>2, <4>1
        <4>2. CASE tasks' = Append(tasks, serialSendId - 1)
          <5>1. /\ Len(tasks') = Len(tasks) + 1
                /\ \A i \in 1 .. Len(tasks) : tasks'[i] = tasks[i]
                /\ tasks'[Len(tasks) + 1] = serialSendId - 1
            BY <4>2 DEF TypeOK
          <5>2. BeforeNext /\ BeforeTasks
            BY <1>01, <3>1
          <5>3. ASSUME NEW i \in 1 .. Len(outgoing), NEW k \in 1 .. Len(tasks')
                PROVE  outgoing[i] < tasks'[k]
            <6>1. CASE k \in 1 .. Len(tasks)
              BY <5>1, <5>2, <6>1
            <6>2. CASE k = Len(tasks) + 1
              BY <5>1, <5>2, <6>2
            <6>. QED
              BY <1>0, <5>1, <6>1, <6>2
          <5>. QED
            BY <1>2, <5>3
        <4>. QED
          BY <3>1, <4>1, <4>2
      <3>3. Sending' /\ Waiting' /\ (~exit' => UpToTurn') /\ Executing'
        BY <1>01, <1>2, <3>1
      <3>. QED
        BY <2>1, <3>2, <3>3
    <2>4. ASSUME NEW w \in Workers, TakeTask(w)
          PROVE  Sending' /\ (~exit' => UpToTurn') /\ Waiting' /\ BeforeTasks' /\ Executing'
      <3>1. /\ Len(tasks) >= 1 /\ Len(tasks) \in Nat
            /\ Len(tasks') = Len(tasks) - 1
            /\ \A i \in 1 .. Len(tasks') : i + 1 \in 1 .. Len(tasks) /\ tasks'[i] = tasks[i + 1]
            /\ id'[w] = tasks[1]
            /\ \A u \in Workers : u # w => id'[u] = id[u] /\ pc'[u] = pc[u]
            /\ pc'[w] = "taken"
            /\ UNCHANGED <<serialSendId, pendingSendId, kind, listener, exit>>
        BY <2>4, TakeStep
      <3>2. Sending'
        BY <1>01, <1>2, <3>1
      <3>3. Waiting'
        <4>1. \A i \in 1 .. Len(outgoing) : outgoing[i] < tasks[1]
          BY <1>01, <3>1
        <4>2. Unsent(w)'
          BY <1>0, <1>00, <1>2, <3>1, <4>1
        <4>3. ASSUME NEW u \in Workers, u # w, pc'[u] \in BeforeSend PROVE Unsent(u)'
          <5>1. pc[u] \in BeforeSend /\ id'[u] = id[u]
            BY <3>1, <4>3
          <5>2. Unsent(u)
            BY <1>01, <5>1
          <5>. QED
            BY <1>2, <5>1, <5>2
        <4>. QED
          BY <4>2, <4>3
      <3>4. BeforeTasks' /\ Executing' /\ (~exit' => UpToTurn')
        BY <1>01, <1>2, <3>1
      <3>. QED
        BY <3>2, <3>3, <3>4
    <2>5. ASSUME NEW w \in Workers, Worker(w) \/ SpuriousWakeup(w), ~TakeTask(w)
          PROVE  Sending' /\ (~exit' => UpToTurn') /\ Waiting' /\ BeforeTasks' /\ Executing'
      <3>1. /\ UNCHANGED <<serialSendId, kind, listener, tasks, id>>
            /\ \A u \in Workers : pc'[u] \in BeforeSend => pc[u] \in BeforeSend
            /\ exit => exit'
        BY <2>5, ThreadStep
      <3>2. pendingSendId' = pendingSendId \/ pendingSendId' = pendingSendId + 1
        BY <2>5 DEF Worker, SpuriousWakeup, BeginTask, WorkerEnds, Handle, HandleExit, StopPools,
           WaitTurn, TakeTurn, NotMyTurn, Block, SendTest, SendNow, Bump, Notify, Goto, intake
      <3>3. \A u \in Workers : pc'[u] = "sendNow" =>
                pc[u] = "sendNow" \/ (pc[u] = "sendTest" /\ pendingSendId = id[u] /\ ~exit)
        BY <2>5 DEF Worker, SpuriousWakeup, BeginTask, WorkerEnds, Handle, HandleExit, StopPools,
           WaitTurn, TakeTurn, NotMyTurn, Block, SendTest, SendNow, Bump, Notify, Goto, TypeOK
      <3>4. Sending'
        <4>. SUFFICES ASSUME NEW u \in Workers, pc'[u] = "sendNow" PROVE Older(u)
          BY <1>2, <3>1
        <4>1. CASE pc[u] = "sendNow"
          BY <1>01, <4>1
        <4>2. CASE pc[u] = "sendTest" /\ pendingSendId = id[u] /\ ~exit
          <5>1. UpToTurn /\ Unsent(u)
            BY <1>01, <4>2 DEF BeforeSend
          <5>. QED
            BY <1>0, <1>00, <4>2, <5>1
        <4>. QED
          BY <3>3, <4>1, <4>2
      <3>5. ~exit' => UpToTurn'
        BY <1>0, <1>00, <1>01, <1>2, <3>1, <3>2
      <3>. QED
        BY <1>01, <1>2, <3>1, <3>4, <3>5
    <2>6. CASE ListenerEnds \/ ParentIsGone \/ CronStopPools \/ UNCHANGED vars
      <3>1. /\ UNCHANGED <<serialSendId, pendingSendId, tasks, pc, id>>
            /\ listener' = listener \/ listener' = "gone"
            /\ exit => exit'
        BY <2>6 DEF ListenerEnds, ParentIsGone, CronStopPools, vars, intake, ending
      <3>2. Sending' /\ Waiting' /\ (~exit' => UpToTurn') /\ BeforeTasks'
        BY <1>01, <1>2, <3>1
      <3>3. Executing'
        BY <1>01, <1>2, <3>1
      <3>. QED
        BY <2>1, <3>2, <3>3
    <2>. QED
      BY <2>1, <2>2, <2>3, <2>4, <2>5, <2>6 DEF Next
  <1>. QED
    BY <1>1, <1>2, OnlySendNowSends

\* Every step keeps what has to be answered answered.
LEMMA NextAnswered ==
  TypeOK /\ NumbersInv /\ TurnInv /\ AnsweredInv /\ [Next]_vars => AnsweredInv'
  <1>. SUFFICES ASSUME TypeOK, NumbersInv, TurnInv, AnsweredInv, [Next]_vars, ~exit'
                PROVE  AnsweredInv'
    BY DEF AnsweredInv
  <1>. DEFINE Passed == \A i \in 0 .. pendingSendId - 1 : KindOf(i) = "reply" => i \in Answered
              Sent(u) == (pc[u] \in AfterSend /\ KindOf(id[u]) = "reply") => id[u] \in Answered
  <1>0. /\ serialSendId \in Nat /\ pendingSendId \in Nat
        /\ \A u \in Workers : id[u] \in Nat /\ (Holds(u) => id[u] < serialSendId)
    BY NumbersAreNat
  <1>1. ~exit
    <2>1. ASSUME NEW w \in Workers, Worker(w) \/ SpuriousWakeup(w), ~TakeTask(w) PROVE ~exit
      BY <2>1, ThreadStep
    <2>. QED
      BY <2>1 DEF Next, vars, Listen, Execute, ListenerEnds, TakeTask, ParentIsGone, CronStopPools, ending
  <1>2. Passed /\ \A u \in Workers : Sent(u)
    BY <1>1 DEF AnsweredInv
  <1>3. SUFFICES Passed' /\ \A u \in Workers : Sent(u)'
    BY DEF AnsweredInv
  <1>4. Answered \subseteq Answered'
    <2>1. ASSUME NEW w \in Workers, SendNow(w) PROVE Answered \subseteq Answered'
      <3>1. /\ Len(outgoing') = Len(outgoing) + 1 /\ Len(outgoing) \in Nat
            /\ \A i \in 1 .. Len(outgoing) : outgoing'[i] = outgoing[i]
        BY <2>1, SendNowStep, OutgoingAreNat
      <3>2. \A i \in 1 .. Len(outgoing) : i \in 1 .. Len(outgoing')
        BY <3>1
      <3>. QED
        BY <3>1, <3>2 DEF Answered
    <2>2. ASSUME \A w \in Workers : ~SendNow(w) PROVE Answered \subseteq Answered'
      BY <2>2, OnlySendNowSends DEF Answered
    <2>. QED
      BY <2>1, <2>2
  <1>5. ASSUME NEW k \in Kinds, Listen(k) PROVE Passed' /\ \A u \in Workers : Sent(u)'
    <2>1. UNCHANGED <<pendingSendId, pc, id>> /\ kind' = Append(kind, k)
      BY <1>5 DEF Listen
    <2>2. pendingSendId <= serialSendId /\ serialSendId = Len(kind) /\ kind \in Seq(Kinds)
      BY <1>1 DEF TurnInv, TypeOK
    <2>3. \A i \in 0 .. serialSendId - 1 : KindOf(i)' = KindOf(i)
      BY <2>1, <2>2 DEF KindOf
    <2>4. Passed'
      BY <1>0, <1>2, <1>4, <2>1, <2>2, <2>3
    <2>5. ASSUME NEW u \in Workers PROVE Sent(u)'
      <3>1. CASE pc[u] \in AfterSend
        <4>1. id[u] \in 0 .. serialSendId - 1
          BY <1>0, <3>1 DEF Holds
        <4>. QED
          BY <1>2, <1>4, <2>1, <2>3, <4>1
      <3>2. CASE pc[u] \notin AfterSend
        BY <2>1, <3>2
      <3>. QED
        BY <3>1, <3>2
    <2>. QED
      BY <2>4, <2>5
  <1>6. ASSUME NEW w \in Workers, TakeTask(w) PROVE Passed' /\ \A u \in Workers : Sent(u)'
    <2>1. /\ \A u \in Workers : u # w => id'[u] = id[u] /\ pc'[u] = pc[u]
          /\ pc'[w] = "taken"
          /\ UNCHANGED <<pendingSendId, kind>>
      BY <1>6, TakeStep
    <2>2. Passed'
      BY <1>2, <1>4, <2>1 DEF KindOf
    <2>3. \A u \in Workers : Sent(u)'
      BY <1>2, <1>4, <2>1 DEF KindOf, AfterSend
    <2>. QED
      BY <2>2, <2>3
  <1>7. ASSUME NEW w \in Workers, Bump(w) PROVE Passed' /\ \A u \in Workers : Sent(u)'
    <2>1. /\ UNCHANGED <<id, kind>>
          /\ pendingSendId' = pendingSendId + 1
          /\ pc[w] = "bump" /\ pc'[w] = "notify"
          /\ \A u \in Workers : u # w => pc'[u] = pc[u]
      BY <1>7 DEF Bump, Goto, TypeOK, intake
    <2>2. id[w] = pendingSendId /\ Sent(w)
      BY <1>1, <1>2, <2>1 DEF TurnInv, InTurn
    <2>3. KindOf(pendingSendId) = "reply" => pendingSendId \in Answered
      BY <2>1, <2>2 DEF AfterSend
    <2>4. \A i \in 0 .. pendingSendId' - 1 : i = pendingSendId \/ i \in 0 .. pendingSendId - 1
      BY <1>0, <2>1
    <2>5. Passed'
      BY <1>2, <1>4, <2>1, <2>3, <2>4 DEF KindOf
    <2>6. \A u \in Workers : Sent(u)'
      BY <1>2, <1>4, <2>1 DEF KindOf, AfterSend
    <2>. QED
      BY <2>5, <2>6
  <1>8. ASSUME NEW w \in Workers, SendNow(w) PROVE Passed' /\ \A u \in Workers : Sent(u)'
    <2>1. /\ Len(outgoing') = Len(outgoing) + 1 /\ Len(outgoing) \in Nat
          /\ outgoing'[Len(outgoing) + 1] = id[w]
          /\ \A u \in Workers : u # w => pc'[u] = pc[u]
          /\ UNCHANGED <<pendingSendId, kind, id>>
      BY <1>8, SendNowStep, OutgoingAreNat
    <2>2. id[w] \in Answered'
      <3>1. Len(outgoing) + 1 \in 1 .. Len(outgoing')
        BY <2>1
      <3>. QED
        BY <2>1, <3>1 DEF Answered
    <2>3. Passed'
      BY <1>2, <1>4, <2>1 DEF KindOf
    <2>4. \A u \in Workers : Sent(u)'
      BY <1>2, <1>4, <2>1, <2>2 DEF KindOf
    <2>. QED
      BY <2>3, <2>4
  <1>9. ASSUME NEW w \in Workers, Worker(w) \/ SpuriousWakeup(w),
               ~TakeTask(w), ~Bump(w), ~SendNow(w)
        PROVE  Passed' /\ \A u \in Workers : Sent(u)'
    <2>1. UNCHANGED <<kind, id>>
      BY <1>9, ThreadStep
    <2>2. UNCHANGED pendingSendId
      BY <1>9 DEF Worker, SpuriousWakeup, BeginTask, WorkerEnds, Handle, HandleExit, StopPools,
         WaitTurn, TakeTurn, NotMyTurn, Block, SendTest, Notify
    <2>3. \A u \in Workers : pc'[u] \in AfterSend =>
              \/ pc[u] \in AfterSend
              \/ pc[u] = "handle" /\ KindOf(id[u]) # "reply"
              \/ pc[u] = "sendTest" /\ pendingSendId # id[u]
      BY <1>1, <1>9 DEF Worker, SpuriousWakeup, BeginTask, WorkerEnds, Handle, HandleExit, StopPools,
         WaitTurn, TakeTurn, NotMyTurn, Block, SendTest, Notify, Goto, TypeOK, AfterSend
    <2>4. \A u \in Workers : pc[u] = "sendTest" => pendingSendId = id[u]
      BY <1>1 DEF TurnInv, InTurn
    <2>5. Passed'
      BY <1>2, <1>4, <2>1, <2>2 DEF KindOf
    <2>6. \A u \in Workers : Sent(u)'
      BY <1>2, <1>4, <2>1, <2>3, <2>4 DEF KindOf
    <2>. QED
      BY <2>5, <2>6
  <1>10. CASE Execute \/ ListenerEnds \/ ParentIsGone \/ CronStopPools \/ UNCHANGED vars
    <2>1. UNCHANGED <<pendingSendId, kind, pc, id>>
      BY <1>10 DEF Execute, ListenerEnds, ParentIsGone, CronStopPools, vars, intake
    <2>. QED
      BY <1>2, <1>4, <2>1 DEF KindOf
  <1>. QED
    BY <1>5, <1>6, <1>7, <1>8, <1>9, <1>10 DEF Next

-----------------------------------------------------------------------------
(* The theorems                                                            *)

\* The invariant holds in every reachable state.
LEMMA TurnsInvHolds == Spec => []TurnsInv
  <1>1. TurnsInv /\ [Next]_vars => TurnsInv'
    BY NextTypes, NextNumbers, NextTurn, NextOutgoing, NextAnswered DEF TurnsInv
  <1>. QED
    BY InitInv, <1>1, PTL DEF Spec

\* The state of the server keeps its types: every number a thread or the queue
\* holds is the number of a message received.
THEOREM ServerTyped == Spec => []TypeOK
  <1>1. TurnsInv => TypeOK
    BY DEF TurnsInv
  <1>. QED
    BY TurnsInvHolds, <1>1, PTL

\* Responses leave in order of receipt, for any number of request threads and
\* messages, any interleaving and any moment of exit.
THEOREM ResponsesInOrder == Spec => []InOrderOfReceipt
  <1>1. TurnsInv => InOrderOfReceipt
    BY DEF TurnsInv, OutgoingInv
  <1>. QED
    BY TurnsInvHolds, <1>1, PTL

\* Until the server exits one thread at a time has the turn.
THEOREM TurnIsExclusive == Spec => []OneThreadAtATime
  <1>1. TurnsInv => OneThreadAtATime
    <2>. SUFFICES ASSUME TurnsInv, ~exit,
                         NEW u \in Workers, pc[u] \in InTurn,
                         NEW w \in Workers, pc[w] \in InTurn
                  PROVE  u = w
      BY DEF OneThreadAtATime, InTurn
    <2>1. Holds(u) /\ Holds(w)
      BY DEF Holds, InTurn, BeforeSend, AfterSend
    <2>2. id[u] = id[w]
      BY DEF TurnsInv, TurnInv
    <2>. QED
      BY <2>1, <2>2 DEF TurnsInv, NumbersInv
  <1>. QED
    BY TurnsInvHolds, <1>1, PTL

\* Until the server exits the turn passes no message that is still to be
\* answered.
THEOREM TurnSkipsNothing == Spec => []NothingPassedOver
  <1>1. TurnsInv => NothingPassedOver
    BY DEF TurnsInv, AnsweredInv, NothingPassedOver
  <1>. QED
    BY TurnsInvHolds, <1>1, PTL
=============================================================================
