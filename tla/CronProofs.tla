----------------------------- MODULE CronProofs -----------------------------
(***************************************************************************)
(* Theorems about Cron (schedule(), unschedule() and chronicle() with the  *)
(* worker pool), for any sets of jobs and validations, any capacity of the *)
(* task queue and any number of threads.                                   *)
(***************************************************************************)
EXTENDS Cron, SequenceTheorems, FiniteSetTheorems, TLAPS

USE CronAssumption

-----------------------------------------------------------------------------
(* The elements of a sequence                                              *)

Elems(s) == {s[k] : k \in 1 .. Len(s)}

\* No member of S occurs twice in s.
Once(s, S) == \A k, l \in 1 .. Len(s) : s[k] = s[l] /\ s[k] \in S => k = l

\* Adding an element that is not there.
LEMMA AppendElems ==
  ASSUME NEW T, NEW S, NEW s \in Seq(T), NEW e \in T, e \in S => e \notin Elems(s), Once(s, S)
  PROVE  /\ Elems(Append(s, e)) = Elems(s) \cup {e}
         /\ Once(Append(s, e), S)
<1> DEFINE a == Append(s, e)
<1>1. /\ Len(s) \in Nat
      /\ Len(a) = Len(s) + 1
      /\ \A k \in 1 .. Len(s) : a[k] = s[k]
      /\ a[Len(s) + 1] = e
  BY AppendProperties, LenProperties
<1> HIDE DEF a
<1>2. \A k \in 1 .. Len(a) : k \in 1 .. Len(s) \/ k = Len(s) + 1
  BY <1>1
<1>3. 1 .. Len(s) \subseteq 1 .. Len(a) /\ Len(s) + 1 \in 1 .. Len(a)
  BY <1>1
<1>4. Elems(a) = Elems(s) \cup {e}
  BY <1>1, <1>2, <1>3 DEF Elems
<1>5. Once(a, S)
  BY <1>1, <1>2 DEF Once, Elems
<1> QED BY <1>4, <1>5 DEF a

\* Taking the first element.
LEMMA TailElems ==
  ASSUME NEW T, NEW S, NEW s \in Seq(T), s # << >>, Once(s, S)
  PROVE  /\ Head(s) \in T /\ Tail(s) \in Seq(T) /\ Len(Tail(s)) = Len(s) - 1
         /\ Head(s) \in Elems(s)
         /\ Elems(Tail(s)) \subseteq Elems(s)
         /\ Elems(s) \subseteq Elems(Tail(s)) \cup {Head(s)}
         /\ Head(s) \in S => Head(s) \notin Elems(Tail(s))
         /\ Once(Tail(s), S)
<1> DEFINE t == Tail(s)
<1>1. /\ Head(s) \in T /\ t \in Seq(T)
      /\ Len(s) \in Nat \ {0}
      /\ Len(t) = Len(s) - 1
      /\ \A k \in 1 .. Len(t) : t[k] = s[k + 1]
      /\ Head(s) = s[1]
  BY HeadTailProperties, LenProperties, EmptySeq
<1> HIDE DEF t
<1>2. \A k \in 1 .. Len(t) : k + 1 \in 1 .. Len(s) /\ k + 1 # 1
  BY <1>1
<1>3. \A k \in 1 .. Len(s) : k = 1 \/ (k - 1 \in 1 .. Len(t) /\ k = (k - 1) + 1)
  BY <1>1
<1>4. 1 \in 1 .. Len(s)
  BY <1>1
<1>5. Head(s) \in Elems(s) /\ Elems(t) \subseteq Elems(s)
  BY <1>1, <1>2, <1>4 DEF Elems
<1>6. Elems(s) \subseteq Elems(t) \cup {Head(s)}
  <2> SUFFICES ASSUME NEW k \in 1 .. Len(s) PROVE s[k] \in Elems(t) \cup {Head(s)}
    BY DEF Elems
  <2>1. CASE k = 1
    BY <1>1, <2>1
  <2>2. CASE k # 1
    <3>1. s[k] = t[k - 1] /\ k - 1 \in 1 .. Len(t)
      BY <1>1, <1>3, <2>2
    <3> QED BY <3>1 DEF Elems
  <2> QED BY <2>1, <2>2
<1>7. Head(s) \in S => Head(s) \notin Elems(t)
  BY <1>1, <1>2, <1>4 DEF Elems, Once
<1>8. Once(t, S)
  <2> SUFFICES ASSUME NEW k \in 1 .. Len(t), NEW l \in 1 .. Len(t), t[k] = t[l], t[k] \in S
               PROVE  k = l
    BY DEF Once
  <2>1. s[k + 1] = s[l + 1] /\ s[k + 1] \in S
    BY <1>1
  <2>2. k + 1 = l + 1
    BY <1>2, <2>1 DEF Once
  <2> QED BY <1>1, <2>2
<1> QED BY <1>1, <1>5, <1>6, <1>7, <1>8 DEF t

-----------------------------------------------------------------------------
(* The inductive invariant                                                 *)

DueJobs == Elems(due)
PoppedJobs == {popped} \cap Jobs
QueuedJobs == Elems(tasks) \cap Jobs
RunningJobs == {j \in Jobs : \E a \in active : a.task = j}
PushingJobs == {j \in Jobs : At(j, "push")}
places == <<later, unused, DueJobs, PoppedJobs, QueuedJobs, RunningJobs, PushingJobs>>

\* chronicle() has popped a job exactly while it submits one; the pools are told
\* to stop by exit() only.
ThreadInv ==
    /\ cron = "submit" <=> popped # Nothing
    /\ stopped => exit
    /\ IsFiniteSet(active)

\* No two entries, tasks or workers for one job.
OnceInv ==
    /\ Once(due, Jobs)
    /\ Once(tasks, Jobs)
    /\ \A a, b \in active : a.task = b.task /\ a.task \in Jobs => a = b

\* A job that was not scheduled yet is nowhere, and no job is in two places.
PlaceInv ==
    /\ unused \cap (later \cup DueJobs \cup PoppedJobs \cup QueuedJobs \cup RunningJobs) = {}
    /\ later \cap (DueJobs \cup PoppedJobs \cup QueuedJobs \cup RunningJobs) = {}
    /\ DueJobs \cap (PoppedJobs \cup QueuedJobs \cup RunningJobs) = {}
    /\ PoppedJobs \cap (QueuedJobs \cup RunningJobs) = {}
    /\ QueuedJobs \cap RunningJobs = {}

\* A job that has a schedule is somewhere.
KeptInv ==
    ~exit => cronSchedules \subseteq later \cup DueJobs \cup PoppedJobs \cup QueuedJobs \cup RunningJobs

\* A job that has started without a schedule is in no place from which it could
\* start again.
RunsInv ==
    \A j \in Jobs :
        /\ runs[j] \in {0, 1}
        /\ j \in cronSchedules => runs[j] = 0
        /\ runs[j] = 1 =>
               j \notin unused \cup later \cup DueJobs \cup PoppedJobs \cup QueuedJobs \cup PushingJobs

CronInv == TypeOK /\ ThreadInv /\ OnceInv /\ PlaceInv /\ KeptInv /\ RunsInv

LEMMA CronInitInv == Init => CronInv
<1> SUFFICES ASSUME Init PROVE CronInv
  OBVIOUS
<1> USE DEF Init
<1>1. IsFiniteSet(active) /\ Cardinality(active) = 0
  BY FS_EmptySet
<1>2. due \in Seq(Jobs) /\ tasks \in Seq(Items) /\ Len(tasks) = 0 /\ Elems(due) = {} /\ Elems(tasks) = {}
      /\ Once(due, Jobs) /\ Once(tasks, Jobs)
  BY EmptySeq DEF Elems, Once
<1>3. RunningJobs = {} /\ PoppedJobs = {} /\ DueJobs = {} /\ QueuedJobs = {} /\ PushingJobs = {}
  BY <1>2 DEF RunningJobs, PoppedJobs, DueJobs, QueuedJobs, PushingJobs, At, Jobs
<1>4. TypeOK
  <2>1. rpc \in [Validations -> {"idle", "execute", "done"}] /\ runs \in [Jobs -> Nat]
    OBVIOUS
  <2>2. Cardinality(active) <= threads /\ threads \in 0 .. MaxThreads /\ Len(tasks) <= Capacity
    BY <1>1, <1>2
  <2>3. cronSchedules \subseteq Recurring /\ later \subseteq Jobs /\ unused \subseteq OneShots
        /\ active \subseteq [task : Items, at : TaskPC]
    BY DEF Jobs
  <2> QED BY <1>2, <2>1, <2>2, <2>3 DEF TypeOK
<1>5. ThreadInv /\ OnceInv
  BY <1>1, <1>2 DEF ThreadInv, OnceInv
<1>6. PlaceInv /\ KeptInv
  BY <1>3 DEF PlaceInv, KeptInv
<1>7. RunsInv
  BY <1>3 DEF RunsInv
<1> QED BY <1>4, <1>5, <1>6, <1>7 DEF CronInv

-----------------------------------------------------------------------------
(* Types and threads                                                       *)

\* A worker begins a task, goes on in it or finishes it.
LEMMA BeginActive ==
  ASSUME NEW A, IsFiniteSet(A), NEW n \in Nat, Cardinality(A) < n, NEW x
  PROVE  IsFiniteSet(A \cup {x}) /\ Cardinality(A \cup {x}) <= n
<1>1. Cardinality(A) \in Nat
  BY FS_CardinalityType
<1>2. /\ IsFiniteSet(A \cup {x})
      /\ Cardinality(A \cup {x}) = IF x \in A THEN Cardinality(A) ELSE Cardinality(A) + 1
  BY FS_AddElement
<1> QED BY <1>1, <1>2

LEMMA MoveActive ==
  ASSUME NEW A, IsFiniteSet(A), NEW n \in Nat, Cardinality(A) <= n, NEW x \in A, NEW y
  PROVE  /\ IsFiniteSet(A \ {x}) /\ Cardinality(A \ {x}) <= n
         /\ IsFiniteSet((A \ {x}) \cup {y}) /\ Cardinality((A \ {x}) \cup {y}) <= n
<1>1. IsFiniteSet(A \ {x}) /\ Cardinality(A \ {x}) = Cardinality(A) - 1 /\ Cardinality(A) \in Nat
  BY FS_RemoveElement, FS_CardinalityType
<1>2. Cardinality(A \ {x}) < n /\ Cardinality(A \ {x}) <= n
  BY <1>1
<1>3. IsFiniteSet((A \ {x}) \cup {y}) /\ Cardinality((A \ {x}) \cup {y}) <= n
  BY <1>1, <1>2, BeginActive
<1> QED BY <1>1, <1>2, <1>3

LEMMA TypeNextInv ==
  ASSUME CronInv, [Next]_vars
  PROVE  (TypeOK /\ ThreadInv)'
<1>0. /\ TypeOK /\ ThreadInv
      /\ Once(due, Jobs) /\ Once(tasks, Jobs)
      /\ Cardinality(active) \in Nat /\ threads \in Nat /\ Len(tasks) \in Nat
  BY FS_CardinalityType, LenProperties DEF CronInv, OnceInv, TypeOK, ThreadInv
<1> USE <1>0 DEF TypeOK, ThreadInv, heap, thread, pool, validation, ending
<1>1. CASE UNCHANGED vars
  BY <1>1 DEF vars
<1>2. ASSUME NEW j \in Jobs, Elapse(j) PROVE (TypeOK /\ ThreadInv)'
  <2>1. due' \in Seq(Jobs)
    BY <1>2, AppendProperties DEF Elapse
  <2> QED BY <1>2, <2>1 DEF Elapse
<1>3. ASSUME NEW j \in Dropped, Unschedule(j) PROVE (TypeOK /\ ThreadInv)'
  BY <1>3 DEF Unschedule
<1>4. CASE CronGrow
  <2>1. threads' \in 0 .. MaxThreads /\ Cardinality(active) <= threads'
    BY <1>4 DEF CronGrow, EnsureCapacity
  <2> QED BY <1>4, <2>1 DEF CronGrow
<1>5. CASE CronPop
  <2>1. popped' \in Jobs /\ due' \in Seq(Jobs)
    BY <1>5, TailElems DEF CronPop
  <2>2. popped' # Nothing
    BY <2>1
  <2> QED BY <1>5, <2>1, <2>2 DEF CronPop
<1>6. CASE CronSleep \/ CronLeave
  BY <1>6 DEF CronSleep, CronLeave
\* execute() by chronicle() or by validate()
<1>7. ASSUME NEW i \in Items, NEW who, Executes(i, who) PROVE tasks' \in Seq(Items) /\ Len(tasks') <= Capacity
  <2>1. CASE stopped
    BY <1>7, <2>1 DEF Executes
  <2>2. CASE ~stopped
    <3>1. Len(tasks) < Capacity /\ tasks' = Append(tasks, i)
      BY <1>7, <2>2 DEF Executes
    <3>2. tasks' \in Seq(Items) /\ Len(tasks') = Len(tasks) + 1
      BY <3>1, AppendProperties
    <3> QED BY <3>1, <3>2
  <2> QED BY <2>1, <2>2
<1>8. CASE CronSubmit
  <2>1. popped \in Items /\ Executes(popped, "cron")
    BY <1>8 DEF CronSubmit, Items
  <2>2. tasks' \in Seq(Items) /\ Len(tasks') <= Capacity
    BY <1>7, <2>1
  <2> QED BY <1>8, <2>2 DEF CronSubmit
\* a worker takes a task
<1>9. ASSUME NEW i \in Items, Take(i)
      PROVE  tasks' \in Seq(Items) /\ Len(tasks') <= Capacity /\ Cardinality(active) < threads
  <2>1. tasks # << >> /\ tasks' = Tail(tasks) /\ Cardinality(active) < threads
    BY <1>9 DEF Take, SomeIdle
  <2>2. Tail(tasks) \in Seq(Items) /\ Len(Tail(tasks)) = Len(tasks) - 1
    BY <2>1, TailElems
  <2> QED BY <2>1, <2>2
<1>10. ASSUME NEW j \in Jobs, JobStart(j) PROVE (TypeOK /\ ThreadInv)'
  <2> DEFINE a == [task |-> j, at |-> "job"]
  <2>1. tasks' \in Seq(Items) /\ Len(tasks') <= Capacity /\ Cardinality(active) < threads
    BY <1>9, <1>10 DEF JobStart, Items
  <2>2. IsFiniteSet(active \cup {a}) /\ Cardinality(active \cup {a}) <= threads
    BY <2>1, BeginActive
  <2>3. a \in [task : Items, at : TaskPC]
    BY DEF Items, TaskPC
  <2>4. active' = active \cup {a} \/ active' = active
    BY <1>10 DEF JobStart
  <2>5. IsFiniteSet(active') /\ Cardinality(active') <= threads /\ active' \subseteq [task : Items, at : TaskPC]
    BY <2>1, <2>2, <2>3, <2>4
  <2>6. runs' \in [Jobs -> Nat]
    BY <1>10 DEF JobStart
  <2> QED BY <1>10, <2>1, <2>5, <2>6 DEF JobStart
<1>11. ASSUME NEW v \in Validations, ValidationStart(v) PROVE (TypeOK /\ ThreadInv)'
  <2> DEFINE a == [task |-> v, at |-> "validating"]
  <2>1. tasks' \in Seq(Items) /\ Len(tasks') <= Capacity /\ Cardinality(active) < threads
    BY <1>9, <1>11 DEF ValidationStart, Items
  <2>2. IsFiniteSet(active \cup {a}) /\ Cardinality(active \cup {a}) <= threads
    BY <2>1, BeginActive
  <2>3. a \in [task : Items, at : TaskPC]
    BY DEF Items, TaskPC
  <2>4. active' = active \cup {a}
    BY <1>11 DEF ValidationStart
  <2> QED BY <1>11, <2>1, <2>2, <2>3, <2>4 DEF ValidationStart
<1>12. CASE Leave
  <2>1. threads' \in 0 .. MaxThreads /\ Cardinality(active) <= threads'
    BY <1>12 DEF Leave, Sleeping
  <2> QED BY <1>12, <2>1 DEF Leave
<1>13. CASE RetryRequests
  BY <1>13 DEF RetryRequests, Jobs
\* a worker goes on or finishes
<1>14. ASSUME NEW i \in Items, NEW l, NEW m \in TaskPC, Goto(i, l, m) \/ Finish(i, l)
       PROVE  IsFiniteSet(active') /\ Cardinality(active') <= threads /\ active' \subseteq [task : Items, at : TaskPC]
  <2> DEFINE a == [task |-> i, at |-> l]
             b == [task |-> i, at |-> m]
  <2>1. a \in active /\ (active' = (active \ {a}) \cup {b} \/ active' = active \ {a})
    BY <1>14 DEF Goto, Finish, At
  <2>2. b \in [task : Items, at : TaskPC]
    OBVIOUS
  <2> HIDE DEF a, b
  <2>3. /\ IsFiniteSet(active \ {a}) /\ Cardinality(active \ {a}) <= threads
        /\ IsFiniteSet((active \ {a}) \cup {b}) /\ Cardinality((active \ {a}) \cup {b}) <= threads
    BY <2>1, MoveActive
  <2> QED BY <2>1, <2>2, <2>3
<1>15. ASSUME NEW j \in Jobs, JobReturn(j) PROVE (TypeOK /\ ThreadInv)'
  <2>1. Goto(j, "job", "push") \/ Finish(j, "job")
    BY <1>15 DEF JobReturn
  <2>2. IsFiniteSet(active') /\ Cardinality(active') <= threads /\ active' \subseteq [task : Items, at : TaskPC]
    BY <1>14, <2>1 DEF Items, TaskPC
  <2> QED BY <1>15, <2>2 DEF JobReturn
<1>16. ASSUME NEW j \in Jobs, JobPush(j) PROVE (TypeOK /\ ThreadInv)'
  <2>1. Finish(j, "push") /\ "push" \in TaskPC
    BY <1>16 DEF JobPush, TaskPC
  <2>2. IsFiniteSet(active') /\ Cardinality(active') <= threads /\ active' \subseteq [task : Items, at : TaskPC]
    BY <1>14, <2>1 DEF Items
  <2> QED BY <1>16, <2>2 DEF JobPush
<1>17. ASSUME NEW v \in Validations, Answer(v) \/ Erase(v) PROVE (TypeOK /\ ThreadInv)'
  <2>1. Goto(v, "validating", "erase") \/ Finish(v, "erase")
    BY <1>17 DEF Answer, Erase
  <2>2. IsFiniteSet(active') /\ Cardinality(active') <= threads /\ active' \subseteq [task : Items, at : TaskPC]
    BY <1>14, <2>1 DEF Items, TaskPC
  <2> QED BY <1>17, <2>2 DEF Answer, Erase
<1>18. ASSUME NEW v \in Validations, ValidateLock(v) PROVE (TypeOK /\ ThreadInv)'
  BY <1>18 DEF ValidateLock
<1>19. ASSUME NEW v \in Validations, ValidateExecute(v) PROVE (TypeOK /\ ThreadInv)'
  <2>1. tasks' \in Seq(Items) /\ Len(tasks') <= Capacity
    BY <1>7, <1>19 DEF ValidateExecute, Items
  <2>2. rpc' \in [Validations -> {"idle", "execute", "done"}]
    BY <1>19 DEF ValidateExecute
  <2> QED BY <1>19, <2>1, <2>2 DEF ValidateExecute
<1>20. CASE Exit
  BY <1>20 DEF Exit
<1>21. CASE StopPools
  <2>1. MayMiss \subseteq {"worker", "cron", "validate"}
    BY DEF MayMiss
  <2>2. asleep' \in {"nobody", "worker", "cron", "validate"} /\ stopped' = TRUE
        /\ UNCHANGED <<cronSchedules, heap, thread, pool, validation, exit, runs>>
    BY <1>21, <2>1 DEF StopPools
  <2>3. exit
    BY <1>21 DEF StopPools
  <2> QED BY <2>2, <2>3
<1>22. CASE SpuriousWakeup
  BY <1>22 DEF SpuriousWakeup
<1> QED
  BY <1>1, <1>2, <1>3, <1>4, <1>5, <1>6, <1>8, <1>10, <1>11, <1>12, <1>13, <1>15, <1>16, <1>17, <1>18,
     <1>19, <1>20, <1>21, <1>22
     DEF Next, RunJob, Chronicle, RunValidation

-----------------------------------------------------------------------------
(* Where the jobs are                                                      *)

\* A worker begins job j.
LEMMA JobBegins ==
  ASSUME OnceInv, NEW j \in Jobs, j \notin RunningJobs, active' = active \cup {[task |-> j, at |-> "job"]}
  PROVE  /\ RunningJobs' = RunningJobs \cup {j}
         /\ PushingJobs' = PushingJobs
         /\ \A a, b \in active' : a.task = b.task /\ a.task \in Jobs => a = b
<1>1. \A a \in active : a.task # j
  BY DEF RunningJobs
<1>2. \A a \in active' : a \in active \/ (a = [task |-> j, at |-> "job"] /\ a.task = j)
  OBVIOUS
<1>3. \A a, b \in active' : a.task = b.task /\ a.task \in Jobs => a = b
  BY <1>1, <1>2 DEF OnceInv
<1>4. RunningJobs' = RunningJobs \cup {j}
  BY <1>2 DEF RunningJobs
<1>5. PushingJobs' = PushingJobs
  BY DEF PushingJobs, At
<1> QED BY <1>3, <1>4, <1>5

\* The job of a worker returns.
LEMMA JobGoesOn ==
  ASSUME OnceInv, NEW j \in Jobs, Goto(j, "job", "push")
  PROVE  /\ j \in RunningJobs
         /\ RunningJobs' = RunningJobs
         /\ PushingJobs' = PushingJobs \cup {j}
         /\ \A a, b \in active' : a.task = b.task /\ a.task \in Jobs => a = b
<1> DEFINE x == [task |-> j, at |-> "job"]
           y == [task |-> j, at |-> "push"]
<1>1. x \in active /\ active' = (active \ {x}) \cup {y} /\ x.task = j /\ y.task = j
  BY DEF Goto, At
<1>2. \A i \in Jobs : [task |-> i, at |-> "push"] # x /\ ([task |-> i, at |-> "push"] = y <=> i = j)
  OBVIOUS
<1>3. PushingJobs' = PushingJobs \cup {j}
  BY <1>1, <1>2 DEF PushingJobs, At
<1> HIDE DEF x, y
<1>4. \A a \in active : a.task = j => a = x
  BY <1>1 DEF OnceInv
<1>5. \A a, b \in active' : a.task = b.task /\ a.task \in Jobs => a = b
  BY <1>1, <1>4 DEF OnceInv
<1>6. j \in RunningJobs /\ RunningJobs' = RunningJobs
  BY <1>1, <1>4 DEF RunningJobs
<1> QED BY <1>3, <1>5, <1>6

\* A worker is through with job j.
LEMMA JobEnds ==
  ASSUME OnceInv, NEW j \in Jobs, NEW l, Finish(j, l)
  PROVE  /\ j \in RunningJobs
         /\ RunningJobs' = RunningJobs \ {j}
         /\ PushingJobs' \subseteq PushingJobs
         /\ \A a, b \in active' : a.task = b.task /\ a.task \in Jobs => a = b
<1> DEFINE x == [task |-> j, at |-> l]
<1>1. x \in active /\ active' = active \ {x} /\ x.task = j
  BY DEF Finish, At
<1> HIDE DEF x
<1>2. \A a \in active : a.task = j => a = x
  BY <1>1 DEF OnceInv
<1>3. j \in RunningJobs /\ RunningJobs' = RunningJobs \ {j}
  BY <1>1, <1>2 DEF RunningJobs
<1>4. PushingJobs' \subseteq PushingJobs
  BY <1>1 DEF PushingJobs, At
<1> QED BY <1>1, <1>3, <1>4 DEF OnceInv

\* A worker begins, goes on in or finishes a validation: no job moves.
LEMMA ValidationMoves ==
  ASSUME OnceInv, NEW v \in Validations, NEW l, NEW m,
         \/ active' = active \cup {[task |-> v, at |-> m]}
         \/ Goto(v, l, m)
         \/ Finish(v, l)
  PROVE  /\ RunningJobs' = RunningJobs
         /\ PushingJobs' = PushingJobs
         /\ \A a, b \in active' : a.task = b.task /\ a.task \in Jobs => a = b
<1> DEFINE x == [task |-> v, at |-> l]
           y == [task |-> v, at |-> m]
<1>1. /\ x.task \notin Jobs /\ y.task \notin Jobs
      /\ \A j \in Jobs : [task |-> j, at |-> "push"] \notin {x, y}
  OBVIOUS
<1>2. active' \subseteq active \cup {y} /\ active \subseteq active' \cup {x}
  BY DEF Goto, Finish
<1> HIDE DEF x, y
<1>3. PushingJobs' = PushingJobs
  BY <1>1, <1>2 DEF PushingJobs, At
<1>4. RunningJobs' = RunningJobs
  BY <1>1, <1>2 DEF RunningJobs
<1>5. \A a, b \in active' : a.task = b.task /\ a.task \in Jobs => a = b
  BY <1>1, <1>2 DEF OnceInv
<1> QED BY <1>3, <1>4, <1>5

\* A worker takes item i from the task queue.
LEMMA TakeQueued ==
  ASSUME TypeOK, OnceInv, NEW i \in Items, Take(i)
  PROVE  /\ QueuedJobs' = QueuedJobs \ {i}
         /\ i \in Jobs => i \in QueuedJobs
         /\ Once(tasks', Jobs)
<1>1. tasks # << >> /\ i = Head(tasks) /\ tasks' = Tail(tasks)
  BY DEF Take
<1>2. /\ Head(tasks) \in Elems(tasks)
      /\ Elems(Tail(tasks)) \subseteq Elems(tasks)
      /\ Elems(tasks) \subseteq Elems(Tail(tasks)) \cup {Head(tasks)}
      /\ Head(tasks) \in Jobs => Head(tasks) \notin Elems(Tail(tasks))
      /\ Once(Tail(tasks), Jobs)
  BY <1>1, TailElems DEF TypeOK, OnceInv
<1>3. QueuedJobs' = Elems(Tail(tasks)) \cap Jobs
  BY <1>1 DEF QueuedJobs
<1> QED BY <1>1, <1>2, <1>3 DEF QueuedJobs

\* execute() of item i: it is queued, unless the pool stops.
LEMMA ExecuteQueues ==
  ASSUME TypeOK, OnceInv, NEW i \in Items, i \notin QueuedJobs, NEW who, Executes(i, who)
  PROVE  /\ QueuedJobs' = QueuedJobs \cup (IF stopped THEN {} ELSE {i} \cap Jobs)
         /\ Once(tasks', Jobs)
<1>1. CASE stopped
  BY <1>1 DEF Executes, QueuedJobs, OnceInv
<1>2. CASE ~stopped
  <2>1. tasks' = Append(tasks, i)
    BY <1>2 DEF Executes
  <2>2. Elems(Append(tasks, i)) = Elems(tasks) \cup {i} /\ Once(Append(tasks, i), Jobs)
    BY AppendElems DEF TypeOK, OnceInv, QueuedJobs
  <2>3. QueuedJobs' = (Elems(tasks) \cup {i}) \cap Jobs
    BY <2>1, <2>2 DEF QueuedJobs
  <2> QED BY <1>2, <2>1, <2>2, <2>3 DEF QueuedJobs
<1> QED BY <1>1, <1>2

\* No job moves, and none is scheduled.
LEMMA JobsStay ==
  ASSUME CronInv, UNCHANGED <<places, runs>>, cronSchedules' \subseteq cronSchedules, exit => exit'
  PROVE  (PlaceInv /\ KeptInv /\ RunsInv)'
<1>1. PlaceInv /\ KeptInv /\ RunsInv
  BY DEF CronInv
<1>2. UNCHANGED <<later, unused, DueJobs, PoppedJobs, QueuedJobs, RunningJobs, PushingJobs, runs>>
  BY DEF places
<1>3. PlaceInv'
  BY <1>1, <1>2 DEF PlaceInv
<1>4. KeptInv'
  BY <1>1, <1>2 DEF KeptInv
<1>5. RunsInv'
  BY <1>1, <1>2 DEF RunsInv
<1> QED BY <1>3, <1>4, <1>5

\* What the sets of jobs depend on.
LEMMA PlacesOf ==
  /\ UNCHANGED due => UNCHANGED DueJobs
  /\ UNCHANGED popped => UNCHANGED PoppedJobs
  /\ UNCHANGED tasks => UNCHANGED QueuedJobs
  /\ UNCHANGED active => UNCHANGED <<RunningJobs, PushingJobs>>
BY DEF DueJobs, PoppedJobs, QueuedJobs, RunningJobs, PushingJobs, At

\* chronicle(), retryRequests and time move a job.
LEMMA CronMovesJobs ==
  ASSUME CronInv, NEW j \in Jobs, Elapse(j) \/ CronPop \/ CronSubmit \/ RetryRequests
  PROVE  (OnceInv /\ PlaceInv /\ KeptInv /\ RunsInv)'
<1>0. TypeOK /\ ThreadInv /\ OnceInv /\ PlaceInv /\ KeptInv /\ RunsInv
  BY DEF CronInv
<1> USE DEF heap, thread, pool, validation, ending
<1>1. CASE Elapse(j)
  <2>1. /\ j \in later /\ later' = later \ {j} /\ due' = Append(due, j)
        /\ UNCHANGED <<cronSchedules, unused, popped, tasks, active, exit, runs>>
    BY <1>1 DEF Elapse
  <2>2. j \notin Elems(due)
    BY <1>0, <2>1 DEF PlaceInv, DueJobs
  <2>3. DueJobs' = DueJobs \cup {j} /\ Once(due', Jobs)
    BY <1>0, <2>1, <2>2, AppendElems DEF TypeOK, OnceInv, DueJobs
  <2>4. UNCHANGED <<PoppedJobs, QueuedJobs, RunningJobs, PushingJobs>>
    BY <2>1, PlacesOf
  <2>5. OnceInv'
    BY <1>0, <2>1, <2>3 DEF OnceInv
  <2>6. PlaceInv' /\ KeptInv'
    BY <1>0, <2>1, <2>3, <2>4 DEF PlaceInv, KeptInv
  <2>7. RunsInv'
    BY <1>0, <2>1, <2>3, <2>4 DEF RunsInv
  <2> QED BY <2>5, <2>6, <2>7
<1>2. CASE CronPop
  <2>1. /\ due # << >> /\ popped' = Head(due) /\ due' = Tail(due) /\ cron = "scan"
        /\ UNCHANGED <<cronSchedules, later, unused, tasks, active, exit, runs>>
    BY <1>2 DEF CronPop
  <2> DEFINE i == Head(due)
  <2>2. /\ i \in Jobs /\ i \in Elems(due)
        /\ Elems(Tail(due)) \subseteq Elems(due) /\ Elems(due) \subseteq Elems(Tail(due)) \cup {i}
        /\ i \notin Elems(Tail(due))
        /\ Once(Tail(due), Jobs)
    <3>1. due \in Seq(Jobs) /\ Once(due, Jobs)
      BY <1>0 DEF TypeOK, OnceInv
    <3> QED BY <2>1, <3>1, TailElems
  <2>3. i \in DueJobs /\ DueJobs' = DueJobs \ {i}
    BY <2>1, <2>2 DEF DueJobs
  <2>4. PoppedJobs = {} /\ PoppedJobs' = {i}
    BY <1>0, <2>1, <2>2 DEF PoppedJobs, ThreadInv, Jobs
  <2> HIDE DEF i
  <2>5. UNCHANGED <<QueuedJobs, RunningJobs, PushingJobs>>
    BY <2>1, PlacesOf
  <2>6. OnceInv'
    BY <1>0, <2>1, <2>2 DEF OnceInv
  <2>7. PlaceInv' /\ KeptInv'
    BY <1>0, <2>1, <2>3, <2>4, <2>5 DEF PlaceInv, KeptInv
  <2>8. RunsInv'
    BY <1>0, <2>1, <2>3, <2>4, <2>5 DEF RunsInv
  <2> QED BY <2>6, <2>7, <2>8
<1>3. CASE CronSubmit
  <2>1. /\ popped' = Nothing /\ popped \in Jobs /\ Executes(popped, "cron")
        /\ UNCHANGED <<cronSchedules, later, due, unused, active, exit, runs>>
    BY <1>0, <1>3 DEF CronSubmit, ThreadInv, TypeOK
  <2>2. PoppedJobs = {popped} /\ PoppedJobs' = {}
    BY <2>1 DEF PoppedJobs, Jobs
  <2>3. popped \notin QueuedJobs /\ popped \in Items
    BY <1>0, <2>1, <2>2 DEF PlaceInv, Items
  <2>4. QueuedJobs' = QueuedJobs \cup (IF stopped THEN {} ELSE {popped}) /\ Once(tasks', Jobs)
    BY <1>0, <2>1, <2>3, ExecuteQueues
  <2>5. UNCHANGED <<DueJobs, RunningJobs, PushingJobs>>
    BY <2>1, PlacesOf
  <2>6. OnceInv'
    BY <1>0, <2>1, <2>4 DEF OnceInv
  <2>7. PlaceInv' /\ KeptInv'
    BY <1>0, <2>1, <2>2, <2>4, <2>5 DEF PlaceInv, KeptInv, ThreadInv
  <2>8. RunsInv'
    BY <1>0, <2>1, <2>2, <2>4, <2>5 DEF RunsInv
  <2> QED BY <2>6, <2>7, <2>8
<1>4. CASE RetryRequests
  <2>1. PICK i \in unused : unused' = unused \ {i} /\ later' = later \cup {i}
    BY <1>4 DEF RetryRequests
  <2>2. UNCHANGED <<cronSchedules, due, popped, tasks, active, exit, runs>>
    BY <1>4 DEF RetryRequests
  <2>3. UNCHANGED <<DueJobs, PoppedJobs, QueuedJobs, RunningJobs, PushingJobs>>
    BY <2>2, PlacesOf
  <2>4. OnceInv'
    BY <1>0, <2>2 DEF OnceInv
  <2>5. PlaceInv' /\ KeptInv'
    BY <1>0, <2>1, <2>2, <2>3 DEF PlaceInv, KeptInv
  <2>6. RunsInv'
    BY <1>0, <2>1, <2>2, <2>3 DEF RunsInv
  <2> QED BY <2>4, <2>5, <2>6
<1> QED BY <1>1, <1>2, <1>3, <1>4

\* The workers move a job.
LEMMA WorkersMoveJobs ==
  ASSUME CronInv, NEW j \in Jobs, RunJob(j)
  PROVE  (OnceInv /\ PlaceInv /\ KeptInv /\ RunsInv)'
<1>0. TypeOK /\ ThreadInv /\ OnceInv /\ PlaceInv /\ KeptInv /\ RunsInv
  BY DEF CronInv
<1> USE DEF heap, thread, pool, validation, ending
<1>1. CASE JobStart(j)
  <2>1. /\ Take(j)
        /\ active' = active \cup (IF exit THEN {} ELSE {[task |-> j, at |-> "job"]})
        /\ runs' = [runs EXCEPT ![j] = IF j \in cronSchedules \/ exit THEN @ ELSE @ + 1]
        /\ UNCHANGED <<cronSchedules, later, due, unused, popped, exit>>
    BY <1>1 DEF JobStart
  <2>2. QueuedJobs' = QueuedJobs \ {j} /\ j \in QueuedJobs /\ Once(tasks', Jobs)
    BY <1>0, <2>1, TakeQueued DEF Items
  <2>3. UNCHANGED <<DueJobs, PoppedJobs>>
    BY <2>1, PlacesOf
  <2>4. j \notin RunningJobs
    BY <1>0, <2>2 DEF PlaceInv
  <2>5. /\ RunningJobs' = RunningJobs \cup (IF exit THEN {} ELSE {j})
        /\ PushingJobs' = PushingJobs
        /\ \A a, b \in active' : a.task = b.task /\ a.task \in Jobs => a = b
    <3>1. CASE exit
      <4>1. active' = active
        BY <2>1, <3>1
      <4> QED BY <1>0, <3>1, <4>1, PlacesOf DEF OnceInv
    <3>2. CASE ~exit
      <4>1. active' = active \cup {[task |-> j, at |-> "job"]}
        BY <2>1, <3>2
      <4> QED BY <1>0, <2>4, <3>2, <4>1, JobBegins
    <3> QED BY <3>1, <3>2
  <2>6. OnceInv'
    BY <1>0, <2>1, <2>2, <2>5 DEF OnceInv
  <2>7. PlaceInv' /\ KeptInv'
    BY <1>0, <2>1, <2>2, <2>3, <2>5 DEF PlaceInv, KeptInv
  <2>8. RunsInv'
    <3>1. j \notin unused \cup later \cup DueJobs \cup PoppedJobs
      BY <1>0, <2>2 DEF PlaceInv
    <3>2. j \notin PushingJobs
      BY <2>4 DEF PushingJobs, RunningJobs, At
    <3>3. runs[j] = 0
      BY <1>0, <2>2 DEF RunsInv
    <3>4. runs'[j] \in {0, 1} /\ (j \in cronSchedules => runs'[j] = 0)
          /\ \A i \in Jobs : i # j => runs'[i] = runs[i]
      BY <1>0, <2>1, <3>3 DEF TypeOK
    <3> QED BY <1>0, <2>1, <2>2, <2>3, <2>5, <3>1, <3>2, <3>4 DEF RunsInv
  <2> QED BY <2>6, <2>7, <2>8
<1>2. CASE JobReturn(j)
  <2>1. UNCHANGED <<cronSchedules, later, due, unused, popped, tasks, exit, runs>>
    BY <1>2 DEF JobReturn
  <2>2. UNCHANGED <<DueJobs, PoppedJobs, QueuedJobs>>
    BY <2>1, PlacesOf
  <2>3. CASE j \in cronSchedules
    <3>1. /\ RunningJobs' = RunningJobs /\ PushingJobs' = PushingJobs \cup {j}
          /\ \A a, b \in active' : a.task = b.task /\ a.task \in Jobs => a = b
      BY <1>0, <1>2, <2>3, JobGoesOn DEF JobReturn
    <3>2. OnceInv'
      BY <1>0, <2>1, <3>1 DEF OnceInv
    <3>3. PlaceInv' /\ KeptInv'
      BY <1>0, <2>1, <2>2, <3>1 DEF PlaceInv, KeptInv
    <3>4. RunsInv'
      BY <1>0, <2>1, <2>2, <2>3, <3>1 DEF RunsInv
    <3> QED BY <3>2, <3>3, <3>4
  <2>4. CASE j \notin cronSchedules
    <3>1. /\ RunningJobs' = RunningJobs \ {j} /\ PushingJobs' \subseteq PushingJobs
          /\ \A a, b \in active' : a.task = b.task /\ a.task \in Jobs => a = b
      BY <1>0, <1>2, <2>4, JobEnds DEF JobReturn
    <3>2. OnceInv'
      BY <1>0, <2>1, <3>1 DEF OnceInv
    <3>3. PlaceInv' /\ KeptInv'
      BY <1>0, <2>1, <2>2, <2>4, <3>1 DEF PlaceInv, KeptInv
    <3>4. RunsInv'
      BY <1>0, <2>1, <2>2, <3>1 DEF RunsInv
    <3> QED BY <3>2, <3>3, <3>4
  <2> QED BY <2>3, <2>4
<1>3. CASE JobPush(j)
  <2>1. /\ later' = later \cup {j} /\ Finish(j, "push")
        /\ UNCHANGED <<cronSchedules, due, unused, popped, tasks, exit, runs>>
    BY <1>3 DEF JobPush
  <2>2. UNCHANGED <<DueJobs, PoppedJobs, QueuedJobs>>
    BY <2>1, PlacesOf
  <2>3. /\ j \in RunningJobs /\ RunningJobs' = RunningJobs \ {j} /\ PushingJobs' \subseteq PushingJobs
        /\ \A a, b \in active' : a.task = b.task /\ a.task \in Jobs => a = b
    BY <1>0, <2>1, JobEnds
  <2>4. OnceInv'
    BY <1>0, <2>1, <2>3 DEF OnceInv
  <2>5. PlaceInv' /\ KeptInv'
    BY <1>0, <2>1, <2>2, <2>3 DEF PlaceInv, KeptInv
  <2>6. j \in PushingJobs
    BY <2>1 DEF Finish, PushingJobs
  <2>7. RunsInv'
    BY <1>0, <2>1, <2>2, <2>3, <2>6 DEF RunsInv
  <2> QED BY <2>4, <2>5, <2>7
<1> QED BY <1>1, <1>2, <1>3 DEF RunJob

LEMMA JobsNextInv ==
  ASSUME CronInv, [Next]_vars
  PROVE  (OnceInv /\ PlaceInv /\ KeptInv /\ RunsInv)'
<1>0. TypeOK /\ OnceInv /\ RunsInv /\ cronSchedules \subseteq Recurring
  BY DEF CronInv, TypeOK
<1> USE DEF heap, thread, pool, validation, ending
<1>1. ASSUME UNCHANGED <<later, due, unused, popped, tasks, active, runs>>,
             cronSchedules' \subseteq cronSchedules, exit => exit'
      PROVE  (OnceInv /\ PlaceInv /\ KeptInv /\ RunsInv)'
  <2>1. UNCHANGED places
    BY <1>1, PlacesOf DEF places
  <2>2. OnceInv'
    BY <1>0, <1>1 DEF OnceInv
  <2> QED BY <1>1, <2>1, <2>2, JobsStay
<1>2. CASE UNCHANGED vars
  BY <1>1, <1>2 DEF vars
<1>3. ASSUME NEW j \in Dropped, Unschedule(j) PROVE (OnceInv /\ PlaceInv /\ KeptInv /\ RunsInv)'
  BY <1>1, <1>3 DEF Unschedule
<1>4. CASE CronGrow \/ CronSleep \/ CronLeave
  BY <1>1, <1>4 DEF CronGrow, CronSleep, CronLeave
<1>5. CASE CronPop \/ CronSubmit \/ RetryRequests
  BY <1>5, CronMovesJobs DEF Jobs
<1>6. ASSUME NEW j \in Jobs, Elapse(j) \/ RunJob(j) PROVE (OnceInv /\ PlaceInv /\ KeptInv /\ RunsInv)'
  BY <1>6, CronMovesJobs, WorkersMoveJobs
\* a validation moves
<1>7. ASSUME UNCHANGED <<later, due, unused, popped, runs, cronSchedules, exit>>,
             UNCHANGED <<QueuedJobs, RunningJobs, PushingJobs>>, Once(tasks', Jobs),
             \A a, b \in active' : a.task = b.task /\ a.task \in Jobs => a = b
      PROVE  (OnceInv /\ PlaceInv /\ KeptInv /\ RunsInv)'
  <2>1. UNCHANGED places
    BY <1>7, PlacesOf DEF places
  <2>2. OnceInv'
    BY <1>0, <1>7 DEF OnceInv
  <2> QED BY <1>7, <2>1, <2>2, JobsStay
<1>8. ASSUME NEW v \in Validations, ValidationStart(v) PROVE (OnceInv /\ PlaceInv /\ KeptInv /\ RunsInv)'
  <2>1. Take(v) /\ active' = active \cup {[task |-> v, at |-> "validating"]} /\ v \in Items /\ v \notin Jobs
        /\ UNCHANGED <<later, due, unused, popped, runs, cronSchedules, exit>>
    BY <1>8 DEF ValidationStart, Items
  <2>2. UNCHANGED QueuedJobs /\ Once(tasks', Jobs)
    BY <1>0, <2>1, TakeQueued DEF QueuedJobs
  <2>3. UNCHANGED <<RunningJobs, PushingJobs>> /\ \A a, b \in active' : a.task = b.task /\ a.task \in Jobs => a = b
    BY <1>0, <2>1, ValidationMoves
  <2> QED BY <1>7, <2>1, <2>2, <2>3
<1>9. ASSUME NEW v \in Validations, Answer(v) \/ Erase(v) PROVE (OnceInv /\ PlaceInv /\ KeptInv /\ RunsInv)'
  <2>1. (Goto(v, "validating", "erase") \/ Finish(v, "erase"))
        /\ UNCHANGED <<later, due, unused, popped, tasks, runs, cronSchedules, exit>>
    BY <1>9 DEF Answer, Erase
  <2>2. UNCHANGED QueuedJobs /\ Once(tasks', Jobs)
    BY <1>0, <2>1, PlacesOf DEF OnceInv
  <2>3. UNCHANGED <<RunningJobs, PushingJobs>> /\ \A a, b \in active' : a.task = b.task /\ a.task \in Jobs => a = b
    BY <1>0, <2>1, ValidationMoves
  <2> QED BY <1>7, <2>1, <2>2, <2>3
<1>10. ASSUME NEW v \in Validations, ValidateExecute(v) PROVE (OnceInv /\ PlaceInv /\ KeptInv /\ RunsInv)'
  <2>1. Executes(v, "validate") /\ v \in Items /\ v \notin Jobs /\ v \notin QueuedJobs
        /\ UNCHANGED <<later, due, unused, popped, active, runs, cronSchedules, exit>>
    BY <1>10 DEF ValidateExecute, Items, QueuedJobs
  <2>2. QueuedJobs' = QueuedJobs \cup (IF stopped THEN {} ELSE {v} \cap Jobs) /\ Once(tasks', Jobs)
    BY <1>0, <2>1, ExecuteQueues
  <2>3. QueuedJobs' = QueuedJobs
    BY <2>1, <2>2
  <2>4. UNCHANGED <<RunningJobs, PushingJobs>> /\ \A a, b \in active' : a.task = b.task /\ a.task \in Jobs => a = b
    BY <1>0, <2>1, PlacesOf DEF OnceInv
  <2> QED BY <1>7, <2>1, <2>2, <2>3, <2>4
<1>11. ASSUME NEW v \in Validations, ValidateLock(v) PROVE (OnceInv /\ PlaceInv /\ KeptInv /\ RunsInv)'
  BY <1>1, <1>11 DEF ValidateLock
<1>12. CASE Leave \/ Exit \/ StopPools \/ SpuriousWakeup
  BY <1>1, <1>12 DEF Leave, Exit, StopPools, SpuriousWakeup
<1> QED
  BY <1>2, <1>3, <1>4, <1>5, <1>6, <1>8, <1>9, <1>10, <1>11, <1>12 DEF Next, Chronicle, RunValidation

LEMMA CronNextInv == CronInv /\ [Next]_vars => CronInv'
BY TypeNextInv, JobsNextInv DEF CronInv

LEMMA CronIsInv == Spec => []CronInv
BY CronInitInv, CronNextInv, PTL DEF Spec

-----------------------------------------------------------------------------
(* The theorems                                                            *)

\* No job of the cron thread is in two places of the heap, chronicle(), the task
\* queue and the workers, whatever is unscheduled, validated or stopped
\* meanwhile, and none that has a schedule gets lost before the server exits.
THEOREM CronJobInOnePlace == Spec => []JobInOnePlace
<1>1. CronInv => JobInOnePlace
  <2> SUFFICES ASSUME CronInv PROVE JobInOnePlace
    OBVIOUS
  <2>0. TypeOK /\ OnceInv /\ PlaceInv /\ KeptInv
    BY DEF CronInv
  <2>1. ASSUME NEW j \in Jobs
        PROVE  /\ Cardinality(Places(j)) <= 1
               /\ j \in cronSchedules /\ ~exit => Places(j) # {}
    <3>1. /\ DOMAIN due = 1 .. Len(due) /\ DOMAIN tasks = 1 .. Len(tasks)
      BY <2>0, LenProperties DEF TypeOK
    <3> DEFINE D == {k \in DOMAIN due : due[k] = j}
               T == {k \in DOMAIN tasks : tasks[k] = j}
               W == {x \in active : x.task = j}
    <3>2. (j \in DueJobs <=> D # {}) /\ (j \in QueuedJobs <=> T # {}) /\ (j \in RunningJobs <=> W # {})
          /\ (j \in PoppedJobs <=> popped = j)
      BY <3>1 DEF DueJobs, QueuedJobs, RunningJobs, PoppedJobs, Elems
    <3>3. (\A k, l \in D : k = l) /\ (\A k, l \in T : k = l) /\ (\A x, y \in W : x = y)
      BY <2>0, <3>1 DEF OnceInv, Once
    <3>4. Places(j) = {<<"later", i>> : i \in {j} \cap later} \cup {<<"due", i>> : i \in D}
                          \cup {<<"popped", i>> : i \in {j} \cap {popped}}
                          \cup {<<"tasks", i>> : i \in T} \cup {<<"worker", a>> : a \in W}
      BY DEF Places
    <3> HIDE DEF D, T, W
    <3>5. \A p, q \in Places(j) : p = q
      <4>1. CASE j \in later
        BY <2>0, <3>2, <3>4, <4>1 DEF PlaceInv
      <4>2. CASE j \notin later /\ D # {}
        BY <2>0, <3>2, <3>3, <3>4, <4>2 DEF PlaceInv
      <4>3. CASE j \notin later /\ popped = j
        BY <2>0, <3>2, <3>4, <4>3 DEF PlaceInv
      <4>4. CASE j \notin later /\ T # {}
        BY <2>0, <3>2, <3>3, <3>4, <4>4 DEF PlaceInv
      <4>5. CASE j \notin later /\ D = {} /\ popped # j /\ T = {}
        BY <3>3, <3>4, <4>5
      <4> QED BY <4>1, <4>2, <4>3, <4>4, <4>5
    <3>6. Places(j) = {} \/ \E p : Places(j) = {p}
      BY <3>5
    <3>7. Cardinality(Places(j)) <= 1
      <4>1. Cardinality({}) = 0 /\ \A p : Cardinality({p}) = 1
        BY FS_EmptySet, FS_Singleton
      <4>2. CASE Places(j) = {}
        BY <4>1, <4>2
      <4>3. ASSUME NEW p, Places(j) = {p} PROVE Cardinality(Places(j)) <= 1
        BY <4>1, <4>3
      <4> QED BY <3>6, <4>2, <4>3
    <3>8. ASSUME j \in cronSchedules, ~exit PROVE Places(j) # {}
      <4>1. j \in later \/ D # {} \/ popped = j \/ T # {} \/ W # {}
        BY <2>0, <3>2, <3>8 DEF KeptInv
      <4>2. \/ <<"later", j>> \in Places(j) \/ <<"popped", j>> \in Places(j)
            \/ \E k \in D : <<"due", k>> \in Places(j)
            \/ \E k \in T : <<"tasks", k>> \in Places(j)
            \/ \E a \in W : <<"worker", a>> \in Places(j)
        BY <3>4, <4>1, Zenon
      <4> QED BY <4>2
    <3> QED BY <3>7, <3>8
  <2> QED BY <2>0, <2>1 DEF JobInOnePlace
<1> QED BY <1>1, CronIsInv, PTL

\* Once unschedule() has erased a job it starts at most once more, though its
\* task may have looked up the schedule before and push the job after; and the
\* retry of a request starts at most once.
THEOREM CronStopsUnscheduled == Spec => []NoRunsAfterUnschedule
<1>1. CronInv => NoRunsAfterUnschedule
  BY DEF CronInv, RunsInv, NoRunsAfterUnschedule
<1> QED BY <1>1, CronIsInv, PTL
=============================================================================
