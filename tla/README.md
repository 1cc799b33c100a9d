# Verification of mypojo

TLA+ modules, TLC configurations and TLAPS proofs for the stateful parts of the
`javaUtil` 2.0 library in this repository (`src/javaUtil/2.0/util/erwins/util`,
written `U/` below). Every definition is translated from the Java source; the
map in `PROJECT.json` gives the lines each one stands for.

The repository is a collection: a Java utility library in two versions, a
demonstration web application (`my_pojo`), a desktop program (`javaSWTUtil`),
Flex and JavaScript user interface code with vendored libraries, and Lua add-ons
of a game. What has protocols of its own, threads that share state and files
that outlive the process is in `javaUtil` 2.0, and that is what is modelled.

## Inventory

| component | state | operations | what is hard | what makes it correct |
|---|---|---|---|---|
| CSV log service, `U/tools/csvLog` | bounded queue, map of logs, per log a writer with a buffer, `<name>.log` and the closed `.csv` files; the worker's stop flag and interrupt flag; a counter per logger; the logs a transaction collected | `writeLog`, commit, rollback, `add`, `startup`, `interrupt`, `stopAndjoin`, the worker's loop and its `finally` | application threads, manager and worker interleave, also within `add`; queue full; clock passes an interval; kill, half-written rows and restart on the same files; failing file operations | nothing accepted is lost, doubled or reordered; files roll in time and never share a name; the worker ends when asked; nobody waits for ever |
| Identifiers, `U/si/idGererator` | sequence in the common database; per application `limit`, `currentValue`, `maxValue` | `nextval`, `setLimit` | several applications; crash or lost answer after the number was taken; `setLimit` unsynchronized in the middle of `nextval` | no identifier twice, none wasted, ascending |
| Messenger, `U/xmpp` | the field `connection`, a `ReadWriteLock` | `sendMessage`, `sendMessageOrRetry`, `startup`, `shutdown` | every statement reads the field anew; two senders reconnect; the server drops and refuses | a message once; no live connection forgotten; lock given back |
| External sort, `U/spring/batch/tool/MergeSortor` | step directories, file counters, futures of the pool | `sort` | merges of a failed call run on while the next call sorts; a new process on the old directories; odd files, empty files, last rows | every row once, in order, no file read while written |
| Directory monitor, `U/tools/fileMonitor` | list of monitors, files in a directory | polling `run`, `addMonitor`, the batch callback's step on one file and its `afterStep` | list changed while it is iterated; a crash between processing and moving a file | every file processed once and moved after it was |
| Running batch jobs, `U/spring/batch` | names of running jobs, job and step `ExecutionContext` | `beforeJob`, `afterJob`, `setCurrentStepInfo`, temporary data and sums of `BatchContext` | parallel steps share the job's context but lock their own object | one execution per name; no addition lost |
| Chunk steps and streams, `U/spring/batch/component`, `SpringBatchMock` | queue, collected items, restart position | chunk loop with one or several threads, `QueueWriter.run`, CSV writers | a failing chunk beside running ones; an interrupt in the middle of a write; restart | each item written once or reported |
| HBase access, `U/hadoop/hbase` | puts and deletes collected per transaction, rows and index rows | `add`, commit, `put` with indexes | the second table fails after the commit; stale index entries | what the transaction collected is applied; index agrees with row |
| Counters, `U/counter` | map from key to `AtomicLong` | increment, `clear`, moving to another map | creation against `clear`; reset of a counter still growing | no increment lost |
| Talk server and client, `U/nio` | one selector thread per side, receive buffers, client map | accept, read, send | message boundaries, a client that goes away | each message once and whole |
| Everything else | | | | see "Not modelled" |

How they meet. `CsvLogger` hands logs to the queue of `CsvLogMamager`, through
`TransactionSynchCommit` when there is a transaction; the worker writes them to
the files of `CsvLogInfo`; the closed files are what `FileMonitor` picks up, and
its batch callback feeds them to a batch step whose reader and writer are those
of `U/spring/batch/component`. `MergeSortor` is
built on the same readers and writers, from `ItemReaderFactory` and
`ItemWriterFactory`. The steps of a batch job share `BatchContext` objects and one
`UniqueExecutionListener`. `IncrementIdGenerator` and `XMPPBotClient` are used by
applications, not by the library.

So two compositions matter, and both are modelled: the closed files of the log
service picked up by the monitor (`LogPipeline`), and the listener with the
contexts of the executions it lets in (`BatchJob`). The rest shares no memory and
meets in the database, if at all.

## Modules

| module | models | role |
|---|---|---|
| `CsvLogInfo` | one log: fields, writer, files, and `close`, `reloadWriter`, CSVWriter as operators on a record | data module, no variables |
| `CsvLog` | loggers, transactions, queue, manager, worker, kill | EXTENDS `CsvLogInfo` and composes the threads |
| `LogStore` | what the service promises: accepted logs, one open file and the closed files of each name | abstract specification |
| `CsvLogStore` | the mapping from `CsvLog` to `LogStore` | EXTENDS `CsvLog`, INSTANCE `LogStore` |
| `FileMonitor` | monitor thread, batch callback, chunk loop, `afterStep` | component, without a specification of its own |
| `LogPipeline` | `LogStore` writing and `FileMonitor` reading the closed files | EXTENDS `FileMonitor`, INSTANCE `LogStore` |
| `UniqueExecution` | `UniqueExecutionListener` under Spring Batch | component |
| `BatchContext` | threads and steps on shared `ExecutionContext`s | component |
| `BatchJob` | executions from `beforeJob` to `afterJob`, their threads in between | EXTENDS `BatchContext`, INSTANCE `UniqueExecution` |
| `IncrementId` | applications on one sequence | |
| `XmppBot` | threads on one client | |
| `MergeSort` | `sort()` and its pool | |
| `MC*` | small instances for TLC | EXTEND the module |
| `*Proofs` | theorems and lemmas | EXTEND the module and TLAPS |

Conventions. Names of variables and actions are those of the Java code where
TLA+ allows. Variables called *history* in their comment are not in the code;
they record what properties need. `spent` counts the events that `Max...`
constants bound. An operator marked *Variant* is not the code: it is the
operator below it with a plausible mistake (a dropped guard, an off-by-one, a
swapped order), kept so that each property can be seen to notice one; no
specification uses it.

### CsvLogInfo and CsvLog

Time counts the units of `dateTimeFieldType`, so `roundFloor` is the identity
and `Interval` is a number of units. A line is the identity of a log and the time
the worker read before it wrote it. Where a writer begins stands a mark of
identity 0 with the start of its interval: the header row where `Header` says there is
one, and no row at all, history only, where `header` is null.

| state | Java |
|---|---|
| `infos[n]` | `csvLogInfoMap`, the fields of `CsvLogInfo` (`writer`, `nextInterval`), what the CSVWriter buffers, and the files of the log |
| `infos[n].state` | whether `n` is in the map, how far its `add` has come, whether it threw |
| `infos[n].log`, `buf`, `end` | whole rows in `<name>.log`, rows in the writer, and whether the file ends after a row or within one |
| `queue`, `mgr`, `thread` | `CsvLogMamager.queue`, its monitor, its thread |
| `addFrom` | the local `from` of the `reloadWriter` that `add` calls |
| `counter`, `out` | `CsvLogger.counter`, logs on their way through `offerLog` |
| `inTx`, `list` | Spring's transaction of the thread, `CsvLogWriterAfterCompletionAble.list` |
| `pc`, `hand`, `stamp`, `stop`, `intr`, `todo` | position, locals and flags of `CsvLogThread` |

One action per step another thread can see: `WriteLog` (count and build),
`Commit`/`Rollback`, `Offer`/`OfferFails` (one timed offer each), the five steps of
`add`, `AddDuplicate`, `Startup`, `Interrupt`, `Stop`/`JoinReturns`, and the
worker's `CheckStop`, `Take`/`TakeInterrupted`, `ReadClock`, `Write`/`WriteFails`,
`CloseOne`.

`add` holds the manager's monitor, which neither the worker nor a logger asks for. So
it is `Add` (map and queue: from here on the name's logs are accepted), `AddCheck`
(`init` finds no writer and sets the converter), `AddTest` (`reloadWriter` reads
the clock and looks whether there is something to close), `AddNext`
(`nextInterval`) and `AddOpen` (the file and the writer), and the worker may write or
roll the same log between any two of them. `early` remembers that a log of a
name was accepted before its `add` had returned, and `spent.races` counts the steps
of `add` that met what a worker had put there. Both are premises of properties,
because what then happens is a worker that dies of a null (no converter, no writer),
or a writer that is replaced with what it buffered. `AddOpen` takes lines 97 to 110
as one step, so `writer` and `writerFile` are set together.

`Write` is one step from the test of the interval to the flush. A kill within
it leaves what a kill after it leaves, but for an empty `<name>.log`, which the next
process would make anyway. Within an `add` it means that the worker's `reloadWriter`
falls between two steps of the manager's. The other order, a manager's step within
the worker's `reloadWriter`, needs a log offered early too; it ends in the same
files, but for one header more, or in a writer replaced with its buffer, which
is the case `races` stands for.

Abstractions:

- A log is its identity, its thread and its names; the columns are left out.
- The encoder hands its buffer to the file as it fills, in the middle of a row as
  well as after one: `Spill` takes a row over, or marks it as half there
  (`end = "half"`). A kill, a writer that fails to close or a replaced writer leave
  half a row as a "stump", to which the next writer's first row is glued: the header,
  which then is no row of its own, or a log, which can be read no more. What a kill
  costs is therefore up to one line of the next process.
- A spill happens only where something may yet lose the writer or its buffer
  (`Losable`): a kill, a fault, a duplicate `add`, an `add` that is under way. Nothing
  else tells a buffered row from one in the file. `Spilling` bounds it to some names.
- The half row a closed file may end with is left out: nothing is appended to it.
- `OfferFails` is possible at any time: the queue stays full, was never linked, or
  the thread is interrupted (`CsvLogger.java:105`) although there is room.
- The `finally` loop closes the logs registered when it began. The branch of
  `renameOnInterrupted = false` is left out: the field has no setter.
- A file operation that fails is a fault: a file that does not open, a writer
  that does not close, a rename that fails. `FailedReloads` lists what
  `reloadWriter` leaves behind in each case.
- `Begin` exists only when there are transactional loggers.

### LogStore and CsvLogStore

`LogStore` is the service as those see it who log or read the files: a log is
accepted, taken and added to the open file of its name; the open file becomes a
closed one as a whole; a closed file never changes. It has no clock, queue bound,
header, buffer or thread. `ok` is what the environment has spared the service so
far. While it is true nothing is dropped and no two logs of a name are in the
air at once; a failure may cost the log in hand or the end of an open file, a
crash also what waits, and the first log after it, which may join half a row (`Drop`);
nothing costs a line of a closed file.

The mapping: `accepted` and `waiting` are the identities in `CsvLog`'s history and
queue; `taken` what the workers hold, roll events left out; `open` is
`<name>.log` followed by the writer's buffer; `closed` the `.csv` files in the
order of their closing; `failures` counts failing operations, kills, duplicate
`add`s and the steps of `add` that met a worker's writer; `ok` is `Intact`. So a flush,
a spill and a step of the manager that meets nobody are stutters, and a `Write` that rolls closes one file and begins the next
in one step.

### FileMonitor and LogPipeline

| state | Java |
|---|---|
| `checkList`, `pc`, `iter`, `list` | `FileMonitor.checkList`, position in `run`, its two iterators (monitors, `FileList`) |
| `file`, `pos`, `status` | the file in `doFileCallback`, how far the reader is, the step's exit status |
| `handlers` | whether `exceptionHandler` is set, in the callback and in the monitor |
| `closed`, `gone` | files that appeared in the directory, files `afterStep` moved away |
| `sink` | what the item writer has written |

A chunk is one action, as the writer modelled keeps a chunk whole or not at all.
The item reader and writer are the application's; the comment above
`FileMonitorBatchCallback.itemWriter` says what they should do (move the file in
`afterStep`), and the model takes the policy "move when `COMPLETED`, else leave".
`checkList` is a plain list: a thread iterating it may see another thread's `add`
in the round (`BreakRound`, the exception ends the thread) or not; a new round
sees it. Left out: an `Error`, an `exceptionHandler` that itself throws, and a
`setResource` that does (`FileMonitorBatchCallback.java:31`, before its `try`). The
first two end the thread like an exception without a handler, which is modelled; the
last is one more exception for the monitor's handler.

`LogPipeline` runs `LogStore` in one process and the monitor in another; they share
`closed`. Because `CsvLog` implements `LogStore`, what is shown of the pipeline
holds of the service with its threads and files.

### UniqueExecution, BatchContext and BatchJob

`state` says where Spring Batch is with an execution: new, running, `afterJob` to
come, `removeJob` to come, ended. `AbstractJob.execute` (external) calls `afterJob`
also for an execution whose `beforeJob` threw, or which was stopped or had its
parameters refused before `beforeJob` was reached (`EndUnbegun`): that one removes
the name under which another may be running. `isUniqueNameSkip` is abstract in the
class; the model takes what its comment describes. Which step a name is
registered with is left out.

`jec` and `sec` hold one number of each `ExecutionContext`; get and put are separate
actions, since the map is concurrent and nothing makes the pair atomic but
`addSynchronized`'s monitor, which is that of the step's `BatchContext`. `temp` is
the entry `JOB_TEMP_DATA_KEY`, and the map in it is known by the thread that made
it. Threads work in one step or in different ones: `stepOf` is any function at
the start. A step makes its `BatchContext` in `beforeStep`.

### IncrementId

`seq` is the database sequence; `limit`, `currentValue`, `maxValue` are the fields
of the generator of each application; `pc` says between which statements of
`nextval` it is. `nextval` is synchronized, so one per application; the
assignments are separate actions because `setLimit` is not. `LoadFails` is a
number taken whose answer was lost, `Crash` a restart with the configured limit.
The sequence gives distinct, ascending numbers, as a database sequence
(`IncrementIdGroovyRepository`) and the `AtomicLong` of `IncrementIdSimpleRepository` do. The width of `long` is left out: `2^63 / limit` numbers would
have to be taken first.

### XmppBot

`connection` is the object in the field, with what Smack makes of it: "new",
"linked" after `connect`, "up" after `login`, "down" when the server dropped it,
"closed". Every statement of `shutdown` and `startup` is an action, because each
reads the field anew and nothing excludes other threads. Smack is external:
`connect` and `login` succeed or throw, `disconnect` ends what is live, `Drop` and
`Reconnect` come at any time. `connect` on a connection that is up keeps it.
`sendPacket` asks only for a connected socket (the exception the comment at line 218
names is "Not connected to server"), so it also passes between another thread's
`connect` and `login` (`CanSend`).
Roster, groups, accounts and the token parser change no state of the client and
are left out, as is the time slept before a retry.

### MergeSort

`file` maps a path (number of the step directory, number of the file) to rows;
`step` and `count` are the two counters that make paths; `todo` is the rest of
`readDir`; `merges` are the callables of the pool with their positions in both
files and the rows not yet committed. The split takes one file of rows per
action, because nothing reads the file meanwhile; a merge takes one row per
action, beside the other merges and the main thread. `listFiles` promises no
order, so `NextPass` chooses one. Collections.sort is stable, and `SortsOf`
gives the one stable order. The pool's size is left out: a merge waits for no
other. The output path is a fresh one for each call; that it exists is one of the
failures. The writer of Spring Batch (external) replaces a file that is there.
A new `MergeSortor`, which counts from `STEP_01` again, appears only after a kill.

## Runs

| run | instance | properties |
|---|---|---|
| `csvlog_flow` | 2 threads, 1 auto-flushing log (every 2nd), queue of 1, 4 logs, a clock that stands, `FairSpec` | `AutoFlushWindow`, `CleanStop`, `QueueDrains`, `InterruptEnds` |
| `csvlog_tx` | 1 thread, 2 transactional logs that flush always (interchangeable), 2 calls of `writeLog`, clock to 1, 1 fault, 1 duplicate `add` | `TypeOK`, `ProducerOrder`, `WorkerSurvives` |
| `csvlog_crash` | 1 thread, 1 log without a header, 2 calls, spills, clock to 1, 1 kill, 1 more `startup` | `Lossless`, `StoredInOrder`, `NoOverdueLine`, `NamesDistinct`, `FinishedForGood`, `ImplementsLogStore` |
| `csvlog_stop` | 1 thread, 1 log; violation | `StopEnds` |
| `csvlog_name` | 1 thread, 1 log, 2 calls, clock to 1; violation | `NamedForStart` |
| `logpipeline` | 1 log, 2 identities, commits of 2, 2 files, 1 failure of the logging side, 1 of the reading side, 1 kill of the monitor, `FairSpec` | `TypeOK`, `NothingLost`, `OncePerOpening`, `MovedWhole`, `EveryFileMoved` |
| `batchjob` | 3 executions of one job, the first with 2 threads in 1 or 2 steps, 2 calls each, `FairSpec` | `TypeOK`, `OnePerName`, `ExistsIfRunning`, `SumsHold`, `TempDataKept`, `NameComesFree` |
| `incrementid` | 2 applications, limit 2, `setLimit` to 1, 2 or 3, 4 numbers, 2 crashes | `TypeOK`, `Unique`, `NothingWasted`, `Ascending` |
| `xmpp_send` | 2 threads, see the cfg for the bounds | `TypeOK`, `SentOnce`, `ClosedBeforeReplaced`, `LockGivenBack` |
| `xmpp_double` | 2 threads; violation | `OneReconnects` |
| `mergesort` | inputs of 0, 2, 5 and 7 rows with equal keys, files of 2 rows, commits of 2, 2 calls, 1 failure or kill | `TypeOK`, `Complete`, `MergesKeepOrder`, `NoReadOfUnwritten`, `PassesHalve` |
| `mergesort_order` | two inputs whose last rows are not in order; violation | `SortedOutput` |

What the properties say, and what could break them:

- `Lossless`: files, writer, hand and queue together hold what the queue
  accepted, once and in order. `AutoFlushWindow`: how many lines a kill can take
  depends on the threads and the refused logs, not only on `limie`, because the
  counter runs ahead of the queue: one window of `limie - 1` lines for each thread
  and each refused flushing log, and one line more for each other thread. The last
  term was found with TLC: a bound without it holds for four logs and fails for five,
  when a thread that counted its log before the flushing one hands it over after
  it. `CleanStop`: the documented protocol (stop
  logging, then `stopAndjoin`) leaves nothing behind when the worker does end.
  `Lossless` holds for early logs too, as long as `add` meets no writer or interval of
  a worker; `CleanStop` does not: `init` throws where a worker came first, the name is
  left without a converter, and that ends the loop that closes the files.
- `QueueDrains`, `InterruptEnds`: while a worker runs, the queue is empty again and
  again or logs are taken from it again and again; an interrupted worker ends.
- `ProducerOrder`: one thread's logs keep their order through a transaction.
  `WorkerSurvives`: what can make the worker die of an exception: a failing file, a
  duplicate `add`, a second `startup`, and a log offered before its name's `add` had
  returned, which finds no converter, no interval or no writer.
- `StoredInOrder`, `NoOverdueLine`, `NamesDistinct`: over kills, restarts and the
  continued `<name>.log` or half a row of it, no line twice, none by a writer whose
  interval was over, no closed file overwritten. `FinishedForGood`: a worker started again after one
  has ended writes nothing.
- `ImplementsLogStore`: every step of the service is one `LogStore` allows, or none.
- `NothingLost`: a file leaves the directory only when its rows are written, and
  with an undisturbed logging side every accepted log is somewhere. `OncePerOpening`:
  rows come twice, as the class comment fears, only after a failure or a kill.
  `MovedWhole`: the last thing written before a file is moved is that file, whole.
  `EveryFileMoved`: every file of a watched log is processed in the end, and what can
  prevent it is on the list: an interrupt, a kill, a directory that is gone, and
  `addMonitor` in the middle of a round.
- `OnePerName`, `ExistsIfRunning`, `NameComesFree`: the listener lets one execution of
  a name run and never keeps a name for good; the exception is the execution that
  ended before it began. `SumsHold`, `TempDataKept`: which additions and which
  temporary data of parallel threads survive, and the exact conditions.
- `Unique`, `NothingWasted`, `Ascending`: the three promises of the generator and
  exactly when they hold. Changing a limit breaks the first two, lowering it the
  third.
- `SentOnce`: a send that returned handed its message over once, one that threw
  not at all. `ClosedBeforeReplaced`: only two threads at once, or a second
  `startup`, lose a live connection. `LockGivenBack`: no exception keeps the lock.
- `Complete`: every row of the input is in the output once even where a failed
  call left merges running and files behind. `MergesKeepOrder`: the merges are
  not to blame for an unordered output. `NoReadOfUnwritten`, `PassesHalve`:
  readers and writers never meet; a pass halves the files.

Bounds. A queue of one is full with one log and makes the second offer fail.
Four logs with a flush every second one give two windows, a flush one thread holds
back while the other fills the next, and a refused log. In `csvlog_tx` the symmetry of the two logs is sound: both flush always, both are
transactional, and the order `CHOOSE` and the properties take from them is none.
`csvlog_crash` has no header, which is the harder case: what joins half a row is then
a log. The other case is `Header = TRUE` in the same cfg; the theorems hold for both.
A clock to 1 with intervals of 1 has one roll, which is the case of two files for one start,
because the files are also closed at the end. One kill gives two processes on one set of files. In the pipeline, two
identities give a file of two rows (a whole chunk and an empty rest), a file of
one (the rest alone), empty files, and two files at once; they are used in order,
which identity is which changes nothing. One fault and one kill each make the
thread open a file again, together three times. Of three executions one runs, one
is refused and one ends unbegun; two threads in one step share a monitor and in
two do not; with two calls a thread adds twice, or adds and puts data, in both
orders. Limit 2 has a first and a
last identifier of a block; limits 1 and 3 lie on both sides. In files of
two rows, seven rows give four files and two passes, five give three files, so
that one is left without a partner and copied, two give a file and an empty one
that the merge must read, and none gives one file that no merge touches. Two
calls give the merges of a failed one beside the next.

Fairness. Four runs assume any. In `csvlog_flow` and `csvlog_stop`, `FairSpec` says
that a running worker takes its next step, that an offer returns (it waits at most
`timeoutSec`, `CsvLogger.java:103`) and that a join returns (ten seconds,
`CsvLogMamager.java:61`). In `logpipeline` the monitor's thread takes its next step:
it waits for nothing but its sleep. In `batchjob` a thread in a method of
`BatchContext` goes on, and the execution's own thread calls what comes after its
steps: `AbstractJob` calls `afterJob` whatever happened. All of it is weak fairness.
What the application calls, what fails and what is logged is never forced.

Deadlock is checked in the runs of `CsvLog`, where the application can always
ask the manager for something. It is not in the others, which end by their
bounds: logs that are used up with a monitor that was never started or is dead,
executions that have all ended, an application that needs a number when none is left to take, clients
that have sent what they may send, a sort that has been called often enough.

## What disagrees with the repository's own words

Each of these is a run that ends in the counterexample:

- `StopEnds`: `stopAndjoin` is documented to end the thread once the queue is
  used up; the flag is looked at only before `queue.take()`, so a worker that
  waits on the empty queue is not ended by it. `InterruptEnds` shows that an
  interrupt does end it.
- `NamedForStart`: a file is documented to carry the time its writing began;
  `reloadWriter` gives `close` the time the next one begins. The property looks at
  files closed while no worker has come to its end, so the counterexample is a roll
  by `reloadWriter`: a log at 0, the clock to 1, a second log.
- `OneReconnects`: the "write" lock of the messenger is the read lock.
- `SortedOutput`: the rows left when the input ends are written unsorted.

More, noticed and not run:

- The comment at `IncrementIdGenerator.java:26` says 109 gives 1090001 to 2000000,
  the code ends at 1100000.
- `MergeSortor` never empties its step directories, so a new object on the
  directory of an earlier run merges what that left. The premise `fresh` of
  `Complete` and `MergesKeepOrder` stands for directories that were empty.
- `BatchContext.java:137` says of `addSynchronized` that it is for the job's
  context; its monitor is the step's object, so parallel steps lose additions.
  `SumsHold` has the condition under which they do not.
- `CsvLogInfo.close` looks for a free name among the files that are there. When the
  monitor has moved a file away, a second file of the same interval (a roll and then
  a stop) gets the name of one already processed.
- `SpringRetryConfig.java:32` keeps its exceptions in a `Collections.singletonMap`, to
  which `addRetryableExceptions` (line 48) adds: `of()` and the initializer of
  `RetryItemWriter` (line 25) always throw. The back-off policy of lines 71-74 is
  never set on the template, and a first error is counted as two (lines 90-91).
- `CsvLogThread.java:21` claims thread safety because one thread only is at work, but
  `add` calls `reloadWriter` in another, while the worker may already take logs of
  the name. A log offered between `CsvLogMamager.java:71` and the end of `init` can
  kill the worker, or its writer be replaced with its buffer.
- `CsvLogger.java:19` knows that a kill leaves half a row; `reloadWriter` appends to
  it, so with a header the header, and without one the first log of the next
  process, is lost in that row.
- `QueueWriter.java:52` says the rest of the queue is processed before the thread
  dies; what is in the queue is only counted for a log message.

## Proofs

`tlapm` checks every theorem below to the last leaf, for all values of the
constants that meet the named assumptions: `IntervalAssumption`, `HeaderAssumption` and
`CsvLogAssumption` (positive interval, flush period and capacity; bounds are
naturals; every log has a flush mode; finitely many threads and at least one), `IncrementIdAssumption` (positive limits),
`MergeSortAssumption` (inputs are sequences of integers, files and commits hold
at least one row), `FileMonitorAssumption` and `LogPipelineAssumption` (a commit
interval of at least one row, bounds are naturals), `BatchContextAssumption`
(finitely many executions, positive values, every thread has one execution),
and `XmppBotAssumption` (bounds are naturals). The bounds (`MaxKills`, `MaxFaults`, ...) are constants like
the others: the theorems hold for every number of events. `Names` and `Apps` may be
infinite sets; `Producers` is finite, because `AutoFlushWindow` counts threads.

| module | theorem | argument |
|---|---|---|
| `CsvLogProofs` | `TypeCorrect` | `TypeInv` = `TypeOK` with: `thread` is at most one more than the restarts, which keeps `startup` within `Workers`; a worker between `Take` and the end of its write holds one log. One lemma per actor (`ProducerType`, `ManagerType`, `WorkerType`) |
| | `NamesAlwaysDistinct` | `CsvNamed`: distinct names, no gap below an index. `close` keeps it because *n* closed files cannot take *n* + 1 indexes (`FreeIndexExists`, by `ImageSize`) and the least free one has its predecessor taken (`LeastElement`) |
| | `FinishedStaysFinished` | an action property: with a closed writer and no `<name>.log`, neither a write nor a reload nor a close changes the files |
| | `StopIsClean` | `AddInv`: one name at a time is being added, by whoever holds the manager's monitor; until a log is accepted early, no worker meets a name under way, and `add` finds no writer. `StopInv`: in a process with no fault, duplicate or restart there is one worker, every log whose `add` has returned is in use until it leaves its loop; if it left because it was asked and nothing came later, the queue is empty and every log it has not closed is still on its list (`Drained`) |
| `CsvLogOrderProofs` | `ProducersKeepOrder` | `OrderInv`: what a thread has collected or is handing over ascends, lies above everything of its own that was accepted under the same name, and below `nextId`; a transaction's logs leave `list` as a whole |
| | `WorkerOnlyDiesOfFailure` | `KnownInv`: what is in the queue or a hand was accepted and its logger linked. With `StopInv`, and as long as no log came early, every log added then has an open writer, so no write fails (`SurviveInv`) |
| | `LinesInTime` | `InTimeInv`: an open file ends in a segment whose mark plus `Interval` is `next`, unless `add` met a worker's writer or interval, and the worker's `stamp` is tested against `next` in the step that writes (`StampInv`: it is not past the clock) |
| | `LossIsBounded` | `WindowInv`: from the accepted logs since the process began, any stretch without a flushing log is as short as `WindowBound` says, and the last one leaves room for the counter, for the threads that hold a flushing log back and for those that counted theirs earlier (`Windows`); the lines not flushed come from one such stretch (`Filling`). `TailInv` (the queue is the end of `accepted`), `AloneInv` (outside a transaction a thread hands over one log) and `TidyInv` (only an open writer holds lines) tie the queue, the threads and the writer to it |
| `CsvLogFlowProofs` | `NothingIsLost`, `NothingIsOvertaken` | `FlowInv`: the *flow* of a name (stored lines, log in hand, queue) is a subsequence of its accepted logs, and equal to them while nothing was harmed. Each step appends the same to both, or leaves a subsequence of the flow and does harm, which is never undone. `HandInv`: without overlaps only the manager's thread holds a log, and a writer that is null buffers nothing. `QuietInv`: as long as nothing disturbed, a file ends in a stump under no writer, and a writer is closed by the worker's end only |
| | `ServiceStores` | each step of the service is a step of `LogStore` or a stutter, one lemma per kind of step (`OfferStores`, `TakeStores`, `WriteStores`, `AddGoesStores`, ...). `FreshInv` and `HeldInv`: no identity is in two places, so a log taken away from one hand is in no other |
| `IncrementIdProofs` | `UniqueIds` | `Apart`: what an application may still return (`Reserve`) was returned by nobody, is in nobody else's reserve, and is not past the block the sequence stands at |
| | `IdsAscend` | `Behind`: the last identifier is not past the block of the sequence measured with the application's own limit, and below the next it can return |
| | `NoneWasted` | `CoverInv`: without a crash and with one limit, the identifiers of the numbers taken are those returned and those in reserve, no more and no fewer |
| | `IdTypes` | `TypeOK` is inductive |
| `MergeSortProofs` | `TypeCorrect`, `ReadersAreAlone` | proved together, because a position in a file is typed only as long as nobody shortens the file. `Places`: a merge into `STEP_n` reads `STEP_n-1`, and no unfinished merge writes a directory another unfinished or present one reads, since the split of the next `sort()` lies between a left merge and the new ones |
| | `PassesAreLogarithmic` | an action property from `PassInv`: no two merges of a pass share a file and no file waits twice (`Paired`), nothing lies beyond the present directory (`Beyond`), and the files of a pass are the pairs begun and those waiting (`Counted`) |
| | `OrderIsKept` | `Ordered`: what a merge has written or holds back is in order and not after anything it has yet to read (`Merged`), which the smaller of two heads keeps; the rows the split leaves are `LastRows`, because it has read a multiple of `MaxLineCount` |
| | `NoRowIsLost` | `Tracked`: every row taken from the input is in one place of the files, of a merge's uncommitted rows or of what a merge has yet to read, unless a merge of the pass has failed, which makes the call fail; the others are nowhere. A row is told apart by the call it belongs to (`Dated`), and files still to be written hold none of this call (`Clean`), so that what earlier calls left can only add rows; with empty directories there are none to add (`Foreign`) |
| `XmppBotProofs` | `TypeCorrect`, `EachSentOnce`, `LockComesBack` | `SentInv`: how often a message was handed over is determined by where its thread is in the call, and a thread holds the lock exactly between taking it and the retry |
| | `NothingForgotten` | `ReplaceInv`: as long as no two threads ever changed the connection at once, at most one does, and after its `disconnect` the field holds nothing live (`Alone`); until the first `startup` has made a connection there is none to forget (`FirstStart`) |
| `LogPipelineProofs` | `TypeCorrect` | typing of each side (`StoreType`, `MonitorType`); the other side's step only appends closed files |
| | `NothingIsLost` | `Kept`: while `ok`, every accepted log waits, is taken, or is in an open or closed file. `WrittenInv`: the sink ends with the first `pos` rows of the file in hand (`Tailed`), so a completed file is in it |
| | `RowsAreWrittenOnce` | `CountInv`: every accepted log is in one place of the logging side (`OnePlace`), hence in one file; a file that may be opened again was opened once for each fault and kill at most (`Opened`); the rows of the file in hand that are still to be written were written once less than it was opened (`Counted`) |
| | `WholeFilesMove` | an action property from `Tailed` and `Whole`: `COMPLETED` is reached only with `pos` at the end of the file |
| `BatchJobProofs` | `TypeCorrect` | `TypeOK` is inductive |
| | `SumsAreRight` | `SumInv`: between get and put a thread holds at most what was added in all, and exactly the present sum if all who add use the monitor it holds (`OneStep`), or if it alone adds (`OneAdder`) |
| | `DataIsFound` | `TempInv`: if at most one thread of an execution found no map (`Lone`), whoever refers to a map refers to the one the execution knows |
| | `RegisteredWhileRunning`, `OneOfAName` | `ListenerInv`: a live execution without an unbegun one of its name is registered, and alone. `Counted`: the live executions of a name are at most one, if it is registered, and one for each unbegun execution whose `removeJob` is over; cardinalities of finite sets, hence finitely many executions |

Arithmetic of blocks rests on `TimesMonotonic` and `NextBlock`, since the solver
does not multiply variables.

`Picked` (the identities at some places of a sequence) and `FlattenSeq` of the
community modules are recursive functions over an interval. The library's induction
theorems cannot be used for them, but a function on `0 .. n` that satisfies its
recursive equation can be reasoned about directly: two of them agree, because the
least place where they differ would contradict the equation (`PicksAgree`,
`FlattensAgree`, by `LeastElement`), and one exists for every `n` by the same
argument (`PicksExist`, `FlattensExist`). From this come the facts about
concatenation (`PickedConcat`, `FlattenAppend`) that the flow needs.

Because `LogPipeline` is built on `LogStore` and `ServiceStores` shows that the
service implements `LogStore`, what `LogPipelineProofs` says of accepted logs and
closed files holds of the service itself.

Every invariant and every action property of the passing runs is stated by one of these
theorems, and so is the refinement of `LogStore`. Only model-checked is what the
prover cannot reach, liveness under fairness: `QueueDrains` and `InterruptEnds`
of `CsvLog`, `EveryFileMoved` of `LogPipeline`, `NameComesFree` of
`BatchJob`.

## Not modelled

- In Spring Batch's surroundings: `SpringBatchMock.run(int)` (chunks on a thread
  pool), `QueueWriter` (its comment says nothing uses it), the hash writer, restart
  positions, configuration and adapters.
- HBase access, the shared counters and the talk server: state and hazards of their
  own, listed at their lines in `PROJECT.json`, left to the plan below.
- The rest of `javaUtil` 2.0: collections, text, date and number helpers,
  validation, reflection, XML, database access, web, vendor clients. Static
  functions, builders and adapters without state that several steps could spoil.
- The rest of Spring integration, except `TransactionSynchCommit`, which is in
  `CsvLog`.
- `javaUtil` 1.0, superseded by 2.0; `my_pojo`, whose controllers pass a request
  to one call of the data store; the desktop program, the Flex code, the Lua
  add-ons: user interfaces and pure I/O.
- JavaScript. Nearly all of it is vendored: ExtJS, jQuery and jQuery UI, jqGrid and
  the like, most of the repository's lines. The repository's own scripts
  (`erwinsJs`, `my_pojo/1.0/war/js`) set up grids and forms: widget calls, string
  formatting and one request at a time, with no state beyond the page's. No module
  is about them; the logic worth a model is in the Java code.
- Inside the modelled components: encodings and CSV format, log messages, roster
  and token parser of the messenger, serialization of rows, the counts `BatchContext`
  copies from a `StepExecution`.

`PROJECT.json` lists each of them under "components" and, under "hazards", what is
hard to test in them, at its line.

## Plan

What would come next, in this order:

1. The parallel loop of `SpringBatchMock.run(int)` with the temporary data and sums
   of `BatchContext`, and `QueueWriter` under an interrupt.
2. `HbaseCommit`: puts and deletes after the commit, the second table failing, rows
   and their index entries.
3. `Counters`: `clear` and moving counts beside increments.
4. Proofs: that the modules of this plan keep their types and their counts, with the
   facts about injective sequences and disjoint places that `LogPipelineProofs` and
   `MergeSortProofs` state for their own.
