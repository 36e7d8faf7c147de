# The LFortran language server and run-time input/output in TLA+

This directory holds TLA+ specifications of two parts of LFortran, the TLC
configurations that check them on small instances, and TLAPS proofs of the central
ones for every value of their constants. Paths below are relative to the directory
that holds `src/`.

The repository is a Fortran compiler. Most of it transforms programs sequentially
and keeps no state a model checker would explore. Two parts are different.

- The language server (`src/src/server/`, `src/src/bin/*_lsp_*`): a listener, a request
  pool, a worker pool, a cron thread and a communicator share documents, caches and
  tables of requests under a dozen locks and atomics, and they talk to a client that
  sends, cancels, retries and exits whenever it likes.
- Input and output of the run-time library
  (`src/src/libasr/runtime/lfortran_intrinsics.c`): a table of units and, in each unit,
  what is left of a record live from one call to the next, while the program may
  execute its statements in any order and every call of the C library may fail.

## Inventory

| Component | State | Operations | Correct when |
|---|---|---|---|
| Bounded message queue `queue.hpp` | ring of N slots, `head`, `tail`, `_size`, flags `sending`, `receiving`, two condition variables | `enqueue`, `dequeue`, `stop`, `stopNow` | FIFO, nothing lost or duplicated, nobody sleeps while there is work |
| Thread pool `thread_pool.cpp` | threads, task queue, `activeCount`, `nextGrowSize`, stop flags | `execute`, cancel by handle, `ensureCapacity`, `stop`, `stopNow`, `join` | no task runs twice, the pool grows when all threads are stuck, stopping ends all threads |
| Parallel server `parallel_lsp_language_server.cpp` | `serialSendId`, `pendingSendId`, `sent`, `_exit` | `listen`, `handle`, `send`, `exit`, orphan check | responses in order of receipt, all of them, and an exit that ends |
| Request life cycle `base_lsp_language_server.cpp` | `activeRequests`, `recentRequests`, `_initialized`, `_shutdown`, `_exit` | `initialize`, dispatch, `$/cancelRequest`, `shutdown`, `exit`, `expireCaches` | one initialization, nothing dispatched after cancel, nothing served after shutdown, every request answered |
| Documents, validation, highlights `base_`, `lfortran_`, `parallel_lfortran_lsp_language_server.cpp` | `documentsByUri`, `validationsByUri`, `highlightsByDocumentId` | `didOpen`, `didChange`, `didClose`, watched files, semantic tokens, the tasks they start | the server's document is the client's, results belong to the version they are filed under, every edit is diagnosed |
| Configuration requests `base_`, `parallel_lsp_language_server.cpp` | `configsByUri`, `lspConfigsByUri`, `pendingConfigsByUri`, `pendingConfigsById`, `requestsById`, retry records | `getConfig`, `workspace/configuration` and its response, retries, `invalidateConfigCaches` | whoever waits can be served, requests are shared, promises set once, no stale configuration |
| Cron (in `parallel_lsp_language_server.cpp`) | `cronSchedules`, heap `cronJobs`, the worker pool it feeds and grows | `schedule`, `unschedule`, `chronicle`, `retryRequests` | a job is in one place, runs when due and not after it is unscheduled; a full pool does not block cron for ever |
| Concurrent (single-threaded) server `concurrent_lsp_language_server.cpp` | call stack of handlers, `pendingMessages`, `pendingSendId`, responses | `listen`, `handle`, `send`, `awaitResponse`, `getConfig` | a wait ends, early responses are sent in order of receipt |
| Communication protocol, message stream | stream buffer, header state | `serve`, `listen`, `next` | each message framed once, responses reach the stream |
| Text document `lsp_text_document.cpp` | text, `posByLine`, `lenByLine`, version | `apply`, `update`, `indexLines`, `toPosition`, `fromPosition` | the text equals what the client computed, the index describes it |
| Units of a program `lfortran_intrinsics.c` | `unit_to_file`, open streams, files | `OPEN`, `CLOSE`, implicit connection, end of program | no stream lost or closed twice, scratch files deleted, an `OPEN` leaves other units alone |
| Sequential unformatted records `lfortran_intrinsics.c` | position, what is left of a record, after-endfile flag | `READ` (one call per item), `WRITE`, `BACKSPACE`, `REWIND`, `ENDFILE` | the program sees a sequence of records |
| Feature handlers, telemetry, JSON, generated message classes, CLI, logger | none shared, or reporting only | | |
| Compiler front end, ASR passes, code generators, the rest of the run-time library | none a model checker would explore | | |

How they interact. The communicator reads messages off the stream and enqueues
them on `incomingMessages`; the listener dequeues, numbers each message and gives
it to the request pool as a task; the task runs the handler, which reads and
writes the tables above, may start tasks on the worker pool and may wait on a
promise for the client's answer (which is another message, handled by another
request thread); it ends in `send()`, which waits for the message's turn and
enqueues on `outgoingMessages`; the communicator writes that queue to the stream.
Cron grows the pools, expires old request entries, retries unanswered requests
and exits the server when its parent process is gone. Its jobs run on the worker
pool, whose queue it fills together with the handlers. The concurrent server does
all of this on one thread: a handler that waits for the client handles other
messages meanwhile, from inside its own call. In a compiled program the code
generator emits one call of the run-time library per item of a `READ` or `WRITE`; the
calls find the unit in the table and act on its stream.

What is hard. All handlers of the parallel server run concurrently, even those
of two notifications about one document. Flags are atomics read outside the locks
under which other threads wait, so notifications can be lost. A handler that
waits for the client occupies a request thread. Validations are canceled by later
ones through a table the finished ones clean up. A request that timed out is sent
again under its old id, so it may be answered twice or late. Exit can come from
the client or from cron, at any moment. The thread that would grow a pool may itself
be waiting for room in its queue. On the run-time side, a statement that fails half
way leaves the table, the stream and the file in states the next statement starts
from. `PROJECT.json` lists each of these
hazards at the line where it bites, with the properties aimed at it.

## Modules

    BoundedFifo          abstract: a bounded FIFO channel
      ^ refined by
    Queue                queue.hpp, one step per lock or atomic access
      |-- MCQueue        producers, consumers, stoppers
      `-- ThreadPool     thread_pool.cpp, EXTENDS Queue (composition)
            |-- ThreadPoolProofs   TLAPS, of the queue and of the pool
            `-- MCThreadPool
    ParallelServer       order of responses
      |-- ParallelServerProofs   TLAPS
      `-- MCParallelServer
    Requests             request life cycle
      `-- RequestsProofs   TLAPS
    Documents            documents, validations, highlights
      |-- DocumentsProofs  TLAPS
      `-- MCDocuments
    Config               configuration requests and retries
      |-- ConfigProofs     TLAPS
      `-- MCConfig
    Cron                 cron, composed with the worker pool and validate()
      `-- CronProofs       TLAPS
    ConcurrentServer     the single-threaded server
      `-- ConcurrentServerProofs   TLAPS
    TextDocument         texts, line index, positions
    SequentialFile       abstract: a file of records
      ^ refined by
    UnformattedUnit      record markers and the calls of a statement
    UnitTable            units, streams, files
      `-- RuntimeProofs    TLAPS, of UnitTable and of UnformattedUnit

Conventions. A step is what the code does under one lock acquisition, or between
two accesses to atomics that other threads act upon. A `pc` variable says where a
thread, handler or task is between two steps. Variables keep the source's names;
those marked *history* in their declaration exist for the properties only. A
definition commented *Mutant* is a plausible wrong version of the definition
after it; no specification uses it, it documents that the properties notice it.
The first conjunct of most modules' main invariant is the module's type invariant.
Each `map` entry of `PROJECT.json` names the lines a definition translates.

**Queue.** `buffer`, `head`, `tail`, `size`, `seen`, `sending`, `receiving` are the
members of the class; `mutex` is the thread that holds the mutex between two
steps. `enqueue()` and `dequeue()` are: the flag test before the lock
(`EnqueueCall`/`EnqueueRefused`), the predicate and the ring update under the lock,
the two-step wait (predicate false, mutex still held; then blocked), and
`notify_one` after the unlock, which wakes any one waiter. `stop()` and `stopNow()`
change flags and notify without the lock, so their steps fall between those of
a waiter. Waiters may wake spuriously, as C++ permits. Unbounded `seen` and the
histories are bounded by the finite set of `Values` each used once.

**ThreadPool** conjoins the queue's steps with those of `run()`, `execute()`,
`ensureCapacity()`, `stop()`, `stopNow()` and `join()`. What a task does is external: it
waits for the tasks in `WaitsFor` and returns.

**ParallelServer** takes the request pool as a FIFO with workers and details the turn
taking: both waits on `sent`, each split where the mutex is held or not,
`++pendingSendId` and `notify_all` as separate steps outside the mutex, and `exit()`
from a handler or from cron.

**Requests** has one task per message and one step per table access of
`handle()`, `handleRequest()`, `handleNotification()`, `receiveCancelRequest()`,
`expireCaches()` and the initialize, shutdown and exit handlers. What an ordinary
handler computes is a result or an exception. An `initialize` that finds no parent
process ends the server; one with malformed parameters is refused by a server that goes
on and counts as initialized.

**Documents** follows one document. The client sends well-formed sequences
(open, changes, close, open again); `MaxBusy` bounds the notifications that have a
handler or a task at work. Their handlers take their steps in any order. `inTurn`, a
history variable, says that so far every handler began to work on the document after
those of all earlier notifications had changed what they were to change; what comes after
(lookups, validations, highlights) overlaps with the next handlers all the same. The text of a document is the sequence of edits that shaped it, so two
texts are equal exactly when the same edits were applied in the same order.
A `LspTextDocument` object is an index, because handlers keep a pointer to an
object that may no longer be the one in `documentsByUri`. `decompose()` may throw when the
object does not have the text the change was made for (`ApplyThrows`). A handler that is delayed past
a close and a new open validates the object that was closed, and cancels the validation
of the new document, as `validationsByUri` goes by the URI; `EditsAreDiagnosed` names that
case (`ValidatesClosed`).

**Config** follows one document's configuration. A configuration is the
version the client had when it answered. Copies of a request, one per retry, are
answered, refused or lost independently, and replies are handled concurrently.

**Cron** has the loop of `chronicle()` (grow the pools, pop, look the schedule up, submit,
sleep), the jobs on the worker pool, `retryRequests()` scheduling one-shot jobs from
inside a job, `unschedule()`, calls of `validate()` that hold `validationMutex` while they
wait for room in the task queue, and `exit()`. Time is abstract: an entry becomes due
at any moment. The pool is a bounded FIFO with a number of threads. Its notifications are
the business of Queue and ThreadPool, except for the one that gets lost: `stopNow()`
clears its flags and notifies without the mutex, and the thread that holds it then,
having found its predicate false, waits afterwards. `asleep` is that thread: a worker that
found the queue empty, or cron or a call of `validate()` that found it full. There is one
at most. Only the owner of the mutex can be between predicate and wait when the flags are
cleared; and of the two flags a producer that missed the first is woken by any later
`dequeue()`, and a consumer that missed the second found the queue empty.

**ConcurrentServer** keeps the call stack as a sequence. A step goes from one `dequeue()` or
return to the next. A frame waits for the answer to one request of
`workspace/configuration`; `IsDone` is the predicate of `awaitResponse()`. A handler that waited
while other messages were handled may have been canceled by one of them, and then does
not answer (`Skip`). `dequeue()` throws on a stopped queue, but never gets there: only
`exit()` stops `incomingMessages`, it runs on the one thread there is, and both loops test
`_exit` before they call `dequeue()` again.

**TextDocument** has the state of `LspTextDocument` and, beside it, the client's text.
Line ends LF, CR and CR LF are distinguished, as `indexLines()` does. `apply()` on a set
of changes sorts them by start (`std::sort`, so equal keys come in either order),
decomposes them into offsets of the text before the notification and splices. The
reference definitions (lines, offsets, sequential application) are those of
`metaModel.json`; a position past the end of its line or of the text defaults back
(`Offset`). Inputs are all changes and pairs of changes over all texts up to a length, with
ranges that `decompose()` rejects. `Beyond` names what a client may do in addition: send a
second change that is relative to the text after the first ("sequence"), or a range that
reaches past the end ("past"). The server counts bytes and the client UTF-16 units, as
the server negotiates no `positionEncoding`; bytes in `Trailing` continue a character, so
that the two differ. The listed run has one-byte characters and no `Beyond`; the further
configurations have each of the three.

**UnformattedUnit** has the file as a sequence of words, markers and data alike, so data that
looks like a marker is data the bound includes. A `READ` is one step per call the code
generator emits, `ReadCall` for each item and `EndRead` for `_lfortran_empty_read()`; the
other statements are one step each. A call is a function of the unit, which has what the
runtime keeps between calls and the statement's iostat and items so far. `read` has how
the `READ` under way found the unit: that is what a program sees until the statement is
over, and what the refinement shows of it. `Uses` names what a program may do in addition: read more than a record holds, have an empty array as an
item, reopen or write after the end-of-file record. The listed run has none of them;
the further configurations show what each leads to.

**UnitTable** has the table with the order of its entries, streams that `fopen()` may
hand out again once closed (`FreeStream` is one that is not open, always the same one, as
no statement tells streams apart), the files that exist, and an `IOSTAT=` or none on each
statement. `Beyond` names failures after which the library's state is wrong (a failing
`fclose()`, a deleted file, a failing `fopen()` in the reconnection of a unit, an
`OPEN` that fails after it made a scratch file).

## Runs

Each run asks one question of one component; each property of a run that holds has
a mutant in `PROJECT.json` that breaks it.

| Run | Question | Result |
|---|---|---|
| `queue` | Does the ring keep order and content, is no waiter forgotten while the queue is open, does it implement `BoundedFifo`? 2 producers, 2 consumers, 1 stopper, N = 2, 4 values (so the ring fills and wraps) | holds |
| `pool` | Is `activeCount` exact, does no task run twice, does nothing run after `join()`, does every accepted task begin although a task waits for another and one thread is started, and is a sleeping worker or a waiting task all that can keep `join()` from returning? | holds |
| `server` | Order of responses, no message passed over, exclusive turn, with exits at any moment; every message answered unless the server exits or a notification is lost | holds |
| `documents` | With handlers, validations and highlights of two notifications at once: same text and version as the client unless a handler began out of turn, published diagnostics and cached highlights belong to their version, every edit diagnosed although validations cancel each other | holds |
| `requests` | One initialization, answers for what is not canceled, nothing served after shutdown and no dispatch of what is canceled | holds |
| `config` | Whoever waits can be served, requests are shared, no promise is set twice | holds |
| `cron` | Is no job lost, doubled or run after `unschedule()`; do jobs keep running and submitters return, because the pool grows, unless cron itself waits for room and no worker can go on; do all threads end after `exit()` but the one that missed `stopNow()` and the workers in a validation? | holds |
| `concurrent_server` | Do responses leave in order of receipt although inner handlers finish first, does only the outermost wait hold them back, is a configuration asked for once, does every turn come? | holds |
| `text_document` | Is the text the client's after single changes and pairs sent last one first, does the index describe it, does the binary search end, and for exactly which positions does `toPosition()` give the client's offset? | holds |
| `text_document_sequence` | Also when the second change is relative to the text after the first? | **violated** |
| `records` | Does the stream rest between complete records, and does the unit implement `SequentialFile`? | holds |
| `units` | Is every open stream owned by exactly one entry, do scratch files not outlive their unit, does `OPEN` touch its own unit only? | holds |

Further configurations, not in the list because they ask a variant of a listed
question, can be run by hand (`tlc -config X.cfg M`):

| Configuration | Shows |
|---|---|
| `MCQueueLive.cfg` | a ring of one slot that nobody stops delivers everything and every enqueue returns |
| `MCThreadPoolStop.cfg`, `MCThreadPoolStopNow.cfg` | how a worker sleeps through `stop()` and through `stopNow()`, so that `join()` does not return |
| `MCParallelServerAnswers.cfg` | **violated**: is every message answered, when nobody exits? |
| `MCParallelServerOrphan.cfg` | how `exit()` from cron leaves request threads asleep |
| `MCDocumentsOverlap.cfg` | **violated**: is the document the client's in whatever order two handlers begin? |
| `MCDocumentsLatest.cfg` | **violated**: is only the latest version validated to the end? |
| `RequestsComplete.cfg` | **violated**: does each response hold a result or an error? |
| `MCConfigLive.cfg` | every `getConfig()` returns if the client answers the last retry |
| `MCConfigFresh.cfg` | **violated**: is no configuration served that an invalidation had overtaken? |
| `MCConfigRecord.cfg` | how the second answer to a retried request gets to "Please file a ticket." |
| `MCCronCircle.cfg` | **violated**: a circle: cron waits for room in the task queue, a call of `validate()` too, and all workers wait for the `validationMutex` it holds; nobody is left to grow the pool |
| `ConcurrentServerRefused.cfg` | **violated**: an error response leaves its request pending, so that every later request for that document's configuration fails |
| `TextDocumentPast.cfg` | **violated**: is the text the client's when a range reaches past the end of a line or of the text? |
| `TextDocumentWide.cfg` | **violated**: is it when a character takes more than one byte? |
| `UnformattedUnitEmptyItem.cfg` | **violated**: an empty array as the last item of a `READ` leaves the stream inside a record |
| `UnformattedUnitOverread.cfg` | **violated**: after a `READ` of more than the record holds, the position is not where the standard has it |
| `UnformattedUnitAtEnd.cfg` | **violated**: `OPEN` or `WRITE` after the end-of-file record |
| `UnitTableLost.cfg` | **violated**: an `OPEN` that fails after it has made its scratch file leaves the file |
| `UnitTableFlush.cfg` | **violated**: a `fclose()` that fails leaves a closed stream in the table |

### Bounds

Every bound is a constant or the size of a constant set.

- `N`, `Values` (Queue, ThreadPool): a ring smaller than the number of values fills,
  empties and wraps; `N` = 1 makes both waits happen at every operation.
- `Threads`, `Workers`, `Clients`, `Producers`, `Consumers`: two of a kind are needed for
  a notification to reach the wrong one. The pool starts one worker and may add the
  second when the first is stuck in a task that waits for the other task. With two
  request threads one waits for its turn while the other answers; the proofs cover any
  number of them.
- `MaxMessages`: in ParallelServer, one more than the threads, so a thread takes a
  second message while the others wait; in Requests, three messages suffice for
  request, cancel and shutdown or a second initialize in every order. The run `requests`
  also holds for four messages, in about four minutes (15 million states).
- `MaxNotes`: three: open and two edits, so that a validation can be superseded twice, or
  open, close and open again. The inductive invariant of DocumentsProofs was also checked
  for four, with `MaxBusy` = 2 (6.8 million states).
- `MaxBusy`: two notifications at work let every step of one fall between any two of the
  other, and a third begin as soon as one is over; the proofs cover any number.
- Cron: one thread, one slot and two validations fill the pool, so that cron and a
  submitter wait for room; `MaxThreads` = 3 is one more than the tasks that can be stuck.
- ConcurrentServer: four messages about two documents nest two handlers, with a
  message of each kind before, between and after them.
- TextDocument: texts of four characters hold two line ends of any kind and a letter
  on either side; `MaxPatch` = 1 lets a change insert, replace or delete.
- UnformattedUnit: nine words hold two records and a part of a third; values 0, 1, 2 are
  the lengths that occur, so data passes for markers; items up to two words.
- UnitTable: three units (pre-connected, numbered, `NEWUNIT=`) compete for the one entry
  of `MaxUnits` = 4 that the standard streams leave. `View` leaves out the result of the last
  statement and the order of the entries, on which no later one depends.
- `MaxAttempts`: one retry gives two copies of a request in flight under one id.
- `MaxChanges`, `MaxRequests`: one invalidation, and the request made after it.

Deadlock is not checked where the client may simply stop sending, where exited
threads end, or where the bound stops the run (`CHECK_DEADLOCK FALSE`); the queue and
pool runs check it, with waiting spelled out by the spurious wakeups that C++ allows.

Symmetry is used in safety runs only, over threads and values, which the
specifications never distinguish.

### Fairness

- Threads (workers, producers, consumers): strong fairness. A thread that is offered a
  mutex again and again gets it eventually; weak fairness would let other threads
  hold it at every moment it is looked at. `std::mutex` promises no more than that some
  thread gets it, so this is an assumption on the scheduler; the violated runs are
  violated in spite of it.
- Loops that call again (`dequeue` in `listen()` and `run()`, `ensureCapacity` from cron),
  handlers of Documents and Config, retries: weak fairness. They run on threads that keep
  running and are disabled by nobody else. Highlight and validation tasks likewise.
- Cron: weak fairness of `chronicle()`, of the jobs, of time and of the stop after an exit;
  strong fairness of a submitter that waits for room, which others may take each time.
  None of this wakes the thread that missed `stopNow()`.
- ConcurrentServer: weak fairness of its one thread.
- The client: none in the parallel server, except in `MCConfigLive.cfg`, where it answers
  the last copy of a request, and in ConcurrentServer, where it answers, if only with an
  error. Without that both wait for ever by design: `future.wait()` has no timeout and
  `awaitResponse()` ends with a response or an exit only. In Cron a validation may
  wait for the client for ever.
- Spurious wakeups, lost messages, cancellations, exits: never fair.

## Where the code and its statements disagree

The run `text_document_sequence` refutes the protocol's description of
`textDocument/didChange` in `src/src/server/generator/metaModel.json`: `apply()` sorts the
changes of one notification and applies all of them to the text before it, where the
protocol applies each to the result of the one before. `text_document` shows that the
two agree when the changes are sent last one first, as editors do. Two further
disagreements with `metaModel.json` are in `TextDocumentPast.cfg` and `TextDocumentWide.cfg`. A
position past the end "defaults back to the number of lines in the document" (line 6757) or
"to the line length" (line 6765); `toPosition()` throws for it, which is part of what
`PositionsRoundTrip` states, and `decompose()` takes the column as it is, or replaces as
many characters as it inserts. And columns are "based on a UTF-16 string representation"
(the definition of Position) unless the server says otherwise, which it does not; it
counts bytes.

The further configurations marked *violated* refute what a comment or a test says, or what
the Fortran standard has, in the same way.

1. `MCParallelServerAnswers`: `++pendingSendId` and `sent.notify_all()` are outside
   `sentMutex`. A thread whose turn it becomes between predicate and wait sleeps for ever,
   and every later response with it. `AnsweredUnlessAsleep` shows that nothing else is
   in the way.
2. `MCDocumentsOverlap`: two notifications in flight, `didOpen` and `didChange` or two
   `didChange`, are applied in either order. `RemoteDocumentAgrees` shows that this is the
   only way to lose an edit.
3. `MCDocumentsLatest`: a superseded validation erases the table entry of its successor,
   which the next edit then cannot cancel.
4. `RequestsComplete`: a request whose cancellation is handled first is answered with
   neither result nor error.
5. `MCConfigFresh`: a configuration obtained before an invalidation is cached after it.
6. `ConcurrentServerRefused`: the entry of a refused request stays in the table of pending
   configurations.
7. `UnformattedUnit*`: `lfortran_intrinsics.c` keeps the rest of a record and the
   after-endfile flag in the unit, and resets them where each call sees the record's end;
   an item without data, a `READ` beyond the record and an `OPEN` of the connected file
   meet a state that was not reset, or reset too early.
8. `UnitTableLost`, `UnitTableFlush`: the file is made before the checks that may fail, and
   the stream is closed before the entry is removed.

9. `MCCronCircle`: cron submits to the queue of the pool that only cron grows.

Also of this kind:
`ThreadPool::stop()` announces that the pool "will shut down once those pending have
returned", but stops the task queue in a way that wakes producers only, so idle workers
stay in `dequeue()`; `Queue::stopNow()` clears `sending` and notifies without the mutex, so
a worker between its predicate and its wait misses it; `exit()` from cron does not notify
`sent`; and a response to a request the server did send finds no record of it.
`JoinWaitsForSleepersOnly` shows that sleeping workers are all there is to the first two,
and `ExitEndsThreads` that after an exit it is one thread that sleeps, and which workers
it keeps from ending.

## Proofs

`tlapm` checks the theorems below for any number of threads, messages, jobs, documents
and slots, with the bounds that TLC needs (`MaxMessages`, `MaxNotes` and the like) as
arbitrary naturals. Except where a hypothesis is named, the assumptions are those of the
modules' `ASSUME`: counts are naturals, sets of threads and jobs are finite, roles are
disjoint, and the value that stands for "none" is not one of the others.

| Module | Theorem | States |
|---|---|---|
| ThreadPoolProofs | `QueueTyped`, `QueueIsFifo` | `QTypeOK`, `FirstInFirstOut` |
| | `QueueForgetsNoWaiter` | `NoForgottenWaiter` |
| | `QueueImplementsFifo` | the refinement `ImplementsFifo` |
| | `PoolCountIsExact`, `PoolRunsTasksOnce` | `ActiveCountIsExact`, `TaskInOnePlace` |
| | `PoolLeavesNoThread` | `NothingRunsAfterJoin`, if `NumThreads > 0` |
| ParallelServerProofs | `ServerTyped`, `ResponsesInOrder`, `TurnIsExclusive`, `TurnSkipsNothing` | `TypeOK`, `InOrderOfReceipt`, `OneThreadAtATime`, `NothingPassedOver` |
| RequestsProofs | `ServerInitializesOnce`, `ServerAnswersUncanceled`, `ServerServesNothingTooLate` | `OneInitialization`, `UncanceledIsAnswered`, `NothingServedTooLate` |
| ConfigProofs | `ConfigRequestServesAll` | `OneRequestServesAll` |
| | `ConfigPromiseIsSetOnce` | the action property `PromiseIsSetOnce` |
| CronProofs | `CronJobInOnePlace`, `CronStopsUnscheduled` | `JobInOnePlace`, `NoRunsAfterUnschedule` |
| DocumentsProofs | `DocumentsHighlightsMatch` | `HighlightsMatchVersion` |
| | `DocumentsAgree`, `DocumentsPublishedCover` | `RemoteDocumentAgrees`, `PublishedCoversItsVersion` |
| ConcurrentServerProofs | `ConcurrentServerKeepsOrder`, `ConcurrentServerHoldsBackOnly`, `ConcurrentServerSharesAnswers` | `InOrderOfReceipt`, `OnlyAwaitHoldsBack`, `AnswersAreShared` |
| RuntimeProofs | `TableOwnsStreams` | `StreamsAreOwned`, if `Beyond = {}` |
| | `TableDeletesScratchFiles`, `TableOpensOneUnit` | `ScratchFilesAreDeleted` and the action property `OpenTouchesOneUnit`, unless "lost" is in `Beyond` |
| | `UnitStaysBetweenRecords` | `BetweenRecords`, unless "overread" or "empty item" is in `Uses` |

Each proof has the same shape: an inductive invariant, one lemma that the initial states
have it, lemmas that each step keeps its parts, with one case per action, and a theorem
that draws the property from it. Why the invariants are stronger than the properties:

**ThreadPoolProofs, the queue.** `FirstInFirstOut` says that the ring, read from `head`, is what was
accepted and not yet delivered, in order. It is inductive together with the type invariant
once it is put in index form (`RingInv`): slot `(head + i) % N` holds
`accepted[Len(delivered) + i + 1]` for `i < size`, `tail` is `(head + size) % N`, and
`delivered` is a prefix of `accepted`. The arithmetic of wrapping round is in two lemmas,
`Wrap` and `WrapSum`; `PutKeepsRing` and `TakeKeepsRing` do the two steps that change the
ring, `OthersKeepRing` all others. For the refinement each step is shown to put, take,
close or stutter (`FifoStep`), which needs the index form and the order in which
`stopNow()` closes the two ends (`ClosingInv`). `NoForgottenWaiter` is not inductive, for a
consumer that takes an element leaves one competitor less for the others. `ConsumersInv` is
stronger: as soon as a consumer is blocked, every element of the ring has its own
notification or taker; `ProducersInv` says the same of producers and free slots. Whoever is
about to block has found its predicate false and still holds the mutex, so that the ring
cannot have changed since (`MutexInv`). The proofs count threads by cardinality, so the set
of threads must be finite.

**ThreadPoolProofs, the pool.** The ring is the queue's: a step of the pool is one of the
queue or leaves it alone (`PoolKeepsQueue`). `TaskInOnePlace` rests on `OnceInv`, that a
task enters the ring once, and `PlaceInv`, that what a worker holds or has run was delivered
to it alone. `NothingRunsAfterJoin` rests on `JoinInv`: after `join()` the started workers
are gone and none is active, so that the decision `ensureCapacity()` may have taken before
is not repeated. That needs a started worker: with `NumThreads = 0`, which
`std::thread::hardware_concurrency()` permits to arise, the pool has no worker and no
active one, and `ensureCapacity()` grows it after `join()`.

**ParallelServerProofs.** `InOrderOfReceipt` alone is not inductive: that the response now
being sent is newer than all sent before follows only from where all numbers are.
`TurnsInv` is the conjunction of
- `NumbersInv`: numbers held by threads are distinct, smaller than those queued, which
  increase and are smaller than the listener's;
- `TurnInv`: until exit, the turn is not past any number in the system, a thread acting
  in its turn has the turn's number, and at most one thread, exit or not, has passed
  the test before `LanguageServer::send` and not sent yet;
- `OutgoingInv`: what was sent is older than everything that is still to be sent;
- `AnsweredInv`: until exit, every number the turn has passed and that was to be
  answered was answered.

After exit the turn is meaningless (every waiter proceeds), which is why three of
these are conditional and order of responses is not: a thread that sees the exit does
not send, so at most the one that had passed its test before the exit still does.

**RequestsProofs.** `InitializeInv` follows the one request that got past the exchange of
`_initialized` from there to its result. `CancelInv` traces every cleared flag and every
entry made in advance to a cancellation of the same request. `LateInv` says that shutdown
came before its answer, and keeps later requests from the steps behind `assertRunning()`.
`ForestalledInv` says where a cancellation that came early is found: in the entry, then in
the flag, until the request is answered without having been dispatched.

**ConfigProofs.** A request is in the two tables, and found by `dispatch()`, exactly as long
as its promise is not set (`PendingInv`); a reply past that point has taken it out
(`RepliesInv`); nothing is known of a request not yet sent (`UnsentInv`). From these
whoever waits can be served, and a promise is set once. That the client is asked once
per invalidation is `AskedInv`, an inequality between the serial number of the request and
the number of caches cleared, with one request to spare while nothing is known or asked.

**CronProofs.** `Places(j)` has at most one element because the heap, the entry that was popped,
the task queue, the workers and the jobs not yet scheduled or not yet due are pairwise
disjoint sets of jobs (`PlaceInv`), and the sequences among them repeat nothing (`OnceInv`). `KeptInv`
says that a scheduled job is in one of them until the server exits; `RunsInv` bounds the
runs of an unscheduled job by whether it still has a place.

**DocumentsProofs.** All three theorems hold for any number of notifications, handlers and
tasks at work. Highlights are filed under the version of the object they were computed
from, so `HighlightsMatchVersion` needs only that an object's version is the last edit of its
text (`VersionInv`). The other two are conditional on `inTurn`, for `MCDocumentsOverlap` shows
that the text is wrong otherwise, and a `didOpen` that is handled late would replace the
text between the reading of a label and of the text it belongs to. `OrderInv` says what the
condition buys. `ClientInv`: the client's notifications alternate between open and close.
`KindInv`: a handler is at a step of its kind. And as long as `inTurn` holds, `TurnInv`: at
most one handler has begun to change the document and is not through, and those of all
earlier notifications are; and `HoldsInv`: between two such handlers the document has
exactly the edits of the notifications handled so far (`ServerEdits`), or is absent or read
from disk if the last of these was a close (`ServerOpened`). For the diagnostics,
`CoverInv` follows a validation: its label is among the edits of the text of its object from
the moment it takes the label on, as in turn an object loses edits only by an open, and an
object that is opened again is one read from disk, under which nothing is labelled.
`RemoteDocumentAgrees` compares with the set of the edits since the last open and their
order, which determine the sequence.

**ConcurrentServerProofs.** `Done` is the set of numbers that need no turn any more: those
below the turn, and those with an entry in the heap. `SendAllReadyInTurn`, `SendInTurn` and
`CompleteInTurn` show what the three functions do to any state of the sender: the output
stays in order, nothing is kept that could be sent, and `Done` gains the message's number and
nothing else. `TurnInv` then says that a handler on the stack is not done, and that
until exit every number is done or on the stack; so the turn is with the outermost handler.
`AnswerInv` strengthens `AnswersAreShared` by what the recorded responses are: a handler whose
request is no longer its document's has a result, and one in a pending entry is an error.
That needs each answer to be new when it is handled (`IncomingInv`).

What the loop of `sendAllReady()` pops and sends is an enumeration of a finite set in order.
That one exists is proved by induction on a bound of its elements, in the form of a least
counterexample: `LeastNumber` follows from the library's `WFMin`, which takes a set, where
its induction rules take an operator the provers cannot instantiate.

**RuntimeProofs, the table.** A statement of UnitTable is computed on a record of the whole
state, through states in which a file is made and nobody owns it yet. So the invariant is
one of that record: `Sound` is `Whole` while the program runs, and says after its end that no
scratch file is left. Each function of the module has a lemma about what it makes of a
sound record, and `BecomeIsSound` takes the last one back to the state. `Whole` has
- `WorldOK`: a unit has one entry, and the process's own streams are open and have no file;
- `NoLeak`: every other stream that is open is a unit's;
- `ScratchKept`: a scratch file belongs to one unit, which names it, and
  `_lfortran_close_all_units` is registered, so that an exit from any place deletes it;
- `Owned`, if nothing in `Beyond` happens: every unit's stream is open, and its own.

`StreamsAreOwned` counts the entries of a stream, which needs both that units do not share one
and that a stream is not handed out twice. That `fopen()` finds a free stream, and OPEN a
free name, is a pigeonhole argument (`OneIsFree`): the table has at most `MaxUnits` entries.
What the hypotheses leave out does happen: `UnitTableFlush.cfg` and `UnitTableLost.cfg` refute
the properties without them. `OpenTouchesOneUnit` is about a step and
the result it reports; as `Unlink` leaves the result of the last statement standing, the
invariant has that a successful `OPEN` is still in effect (`ResultHolds`).

**RuntimeProofs, the records.** That a file is a sequence of records is an inductive notion, and
induction over data is out of the prover's reach. `Cut(f, S)` says it without: `S` has the
begin and the end of `f`, and from each offset in it but the end the markers lead to the
next one, none being passed over. The last condition makes `S` the offsets between records
and no others, although data may look like markers, so that a record is found from its end
as well (`CutBefore`, `BACKSPACE`), a prefix up to an offset in `S` is cut (`CutPrefix`, `ENDFILE`) and so
is what `WRITE` makes of one (`CutAppend`). `BetweenRecords` says nothing of the unit while a
`READ` is under way. The invariant, `RecordsInv`, adds the four cases in which a call can
leave it (`Between`): within the record that begins where the `READ` found the stream, with as
much pending as the items have left; past it, with as many items as it had; at the end of the
file; or failed, which an empty record does to an item that asks it for something. The
lemmas on the calls lead from one case to another, and those on the last call from each to
an offset of the cut. A `READ` of more than the record has would begin the next record in
the second case, and one of an empty array would begin a record and not end it: the
hypotheses exclude what `UnformattedUnitOverread.cfg` and `UnformattedUnitEmptyItem.cfg` show to
break the property. `OPEN` and `WRITE` after the end-of-file record need no hypothesis here.

The proofs had these effects on the modules. Two assumptions on constants were made
explicit, that the set of threads is finite (Queue) and that `NumThreads <= MaxThreads`, or
else the initial state is beyond the bound (Cron). Config keeps copies and values as
functions of functions. `RemoteDocumentAgrees` was restated without a recursive filter, and
so was `Texts` in ConcurrentServer, whose request numbers are no longer bounded by a set
of their own. UnformattedUnit took a list of items in one step and defined records by
RECURSIVE operators; it now has a step per call, as the code does, and `Cut`. In UnitTable the
entries of a unit are a set, and a free stream is chosen among `Streams`.

Only model-checked:
- all liveness (`AcceptedTasksBegin`, `JoinWaitsForSleepersOnly`, `AnsweredUnlessAsleep`,
  `EditsAreDiagnosed`, `JobsKeepRunning`, `SubmitterReturns`, `ExitEndsThreads`,
  `EveryTurnComes`): fairness and ENABLED are outside the prover's reach;
- `TextMirrored`, `IndexMatchesText`, `PositionsRoundTrip`: what lines, offsets and the result
  of edits are is defined by RECURSIVE operators, which the prover's SMT backend does not
  survive, and induction over them is out of its reach;
- `ImplementsSequentialFile`: the refinement maps a file to the sequence of its records by the
  recursive function `Parse`; that a `WRITE` appends one record to it, say, is an induction
  over the file.

## Not modelled

- The compiler, its passes and code generators: sequential transformation of programs. They
  are by far the most of the repository's lines, so the map covers a small share of it.
- Formatted, list-directed, stream and direct-access input and output, `INQUIRE`, `FLUSH`, the
  intrinsics: conversion of data. A `WRITE` of the other form to a unit that is
  connected to `fort.<unit>` empties the file: UnitTable has the reconnection, not the data.
- The communication protocol and the message stream: next in the plan. Responses still
  queued when `serve()` reads the exit are dropped; Queue has what `stop()` does to them.
- `LspTextDocument::symbolAt()`, and two changes in one notification of which one names a line
  past the end, where `from()` indexes a vector past its end: undefined behaviour.
- A `fwrite()` that fails in `WRITE` (`lfortran_intrinsics.c:14735-14742`), and what
  `_lfortran_close_all_units` reads past the table after the exit at a full one: as
  `store_unit_file` counts the entry it refuses, that is out of bounds.
- Tasks that throw something not derived from `std::exception`, for which `ThreadPool::run()`
  skips the decrement of `activeCount` and ends: the server's own exceptions all derive from it.
- The JSON parser, the generated message classes, logger, CLI, process queries: text and
  data conversion. Malformed messages, answered before any state changes, are left out.
- Feature handlers other than semantic tokens: each reads one document and calls the
  compiler.
- Telemetry, tracing and lock instrumentation: nothing else reads them.
- Memory order: the atomics of the code are sequentially consistent, and so are the models.
- `didRenameFiles` (it uses an iterator found under the read lock after taking the write
  lock) and several documents at once; `updateWorkspaceConfig()`.
- `ThreadPool::execute()` returns a pointer into the ring after the unlock; the cancel flag it
  reads may belong to a later task. The models identify a task by its value instead.
- Growth of `activeRequests` by cancellations of requests that are over, the depth of the
  concurrent server's stack, and the sleep time that `retryRequests()` reads through a
  reference to an element it has popped: memory and durations, which the models abstract.

## Plan

Done: the queue and its abstract channel, the pool on top of it, the order of
responses, the request life cycle, one document and its text, configuration
requests, cron on the worker pool, the single-threaded server, the table of units, and
unformatted records with their abstract file; proofs of the safety of all of the
language server but its texts, and of the units and records of the run-time library.

Next, in this order:

1. **MessageStream** and **CommunicationProtocol**: the header state machine against a
   reference definition; `serve` composed with two queues, what is dropped at exit.
2. Documents with several URIs and `didRenameFiles`; Config with `exit`, and with a pool
   whose threads are all waiting for the configuration.
3. Direct-access records and list-directed input on top of UnitTable.
