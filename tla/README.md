# A TLA+ model of the QualityControl framework

QualityControl runs the data quality control of ALICE: *QC tasks* look at a
sample of the data and fill histograms, *checkers* judge these histograms, a
*repository* keeps them, and services tell users what exists. The modules in
this directory model the control of these parts, taken from the C++ source;
TLC checks small instances, and TLAPS proves some results for every instance.
Paths below are relative to the root of the repository; `F/` stands for
`Framework/src/` and `H/` for `Framework/include/QualityControl/`.

Conventions. Variables, actions and operators have the names the code gives to
what they stand for. An operator whose name starts with `Mutant` is a deliberate
bug in the definition that follows it; with it in the place of that definition,
TLC finds the property that `PROJECT.json` lists with it violated. Nothing else
uses these operators.

## 1. The system

```
 data sampling -> TaskRunner(s) --+--------------------> Checker -> repository -> GUI
   (DPL)          one per task    |                      ^  |    (MySQL or CCDB)
                  and machine     +--> HistoMerger ------+  +-> DPL output
                                       (several machines)
 task devices -> InformationService -> InformationServiceDump, GUI
                 (list of objects per task, updates, requests)
```

`InfrastructureGenerator` lays out these devices from the configuration:
`generateLocal` the task runners of one machine, `generateRemote` the mergers
(for tasks that run on several machines) and the checkers.

| component | state | operations | hard behaviour | what makes it correct |
|---|---|---|---|---|
| `TaskRunner` (`F/TaskRunner.cxx`) | cycle open or not, number of cycles, of blocks, of published objects, timer, the user's task | DPL callbacks: init, start, stop, reset, process | start and stop in any order; two causes that end a cycle (a timer and the global `FileFinish`); late timer; counters some of which survive a restart | each cycle is opened and ended once; the limit of cycles holds; what the messages carry adds up to what was monitored; an open cycle ends |
| `ObjectsManager`, `MonitorObject`, `Quality` | the monitor objects of a task with their checks, results and metadata | startPublishing, addCheck, getMonitorObject, getQuality, setQualityForCheck, ... | two objects of one name; lookups that compare with a string that is gone; `getQuality` with its test inverted (`F/ObjectsManager.cxx:46`) | a check goes to an object of the name meant, and stays; the worst result wins, `Null` never does |
| `InfrastructureGenerator` | configuration | generateLocal, generateRemote | machines and the server compute their halves apart; two bases of numbers; two defaults of `active` | every input has one producer, every output a reader |
| `HistoMerger` (`F/HistoMerger.cxx`) | the merged array, a timer | run | inputs without a message, as any message makes it run; empty arrays first; arrays of other sizes or objects; a device that is late | every block merged once, or refused or misplaced with its array; publications at the period, never two at once |
| `Checker` (`F/Checker.cxx`) | libraries, classes and instances it has loaded | run over an array; loadLibrary, getCheck, check, store, send | an exception in the middle of an array, of the checks' own code too, after some of its objects have been stored; caches filled in the order in which objects happen to come | what the caches name is loaded; arrays are sent whole; a well specified check always runs; the quality stored is the one of the checks |
| `DatabaseInterface` | - | store, retrieve, truncate, listings | - | an object found under a key was stored under that key and not deleted |
| `MySqlDatabase` (`F/MySqlDatabase.cxx`) | a queue of objects per task and its size, time of the last flush | as above, and the flush | a flush that fails half-way and is repeated; rows that fail silently; a crash, a restart; a truncate by another process in the middle of a flush, or while versions wait | implements the repository but for what waits when it is truncated; queue bounded and counted; newest version kept |
| `CcdbDatabase` (`F/CcdbDatabase.cxx`) | connection | as above, over REST | uploads and deletions that fail without an error | implements the repository |
| `RepositoryBenchmark` (`F/RepositoryBenchmark.cxx`) | objects, counters, a timer per initialisation | InitTask, ConditionalRun, checkTimedOut | timer threads that read a counter of the device thread; a second initialisation on top of the first; no objects at all | stores every object once in an iteration; its counts go on and never back |
| `InformationService` (`F/InformationService.cxx`) | hash and list of objects of each task, fake data, timer | data, requests, timer | two threads in two caches without a lock; a timer set again while a wait is pending; a second initialisation; updates whose sending fails | hash, cache, updates and replies agree; every timer has one wait |
| `InformationServiceDump` | - | asks for one task on every update | request and update race | it is told what it has been told about |
| `DataDumpGui` (`F/DataDumpGui.cxx`) | next and current payload | handleParts, Next, drawing | payloads that are owned by pointers copied between two places | nothing is used after it was deleted; the window never goes back |
| `SimpleDS`, `QCGeneral` tasks | count of files, errors per file, plots, what is kept of the last message and digit | monitorData, reset | differences of totals that wrap; counts, resets and fills in an order of their own; uninitialised members; bins that are full, counters and files that are off their plot | what the plots and counters show accounts for what came |

DPL, FairMQ, ROOT, InfoLogger, Configuration, Monitoring, MySQL and boost::asio
are libraries outside of the repository. They appear in the models only by what
the code relies on, and `PROJECT.json` marks those definitions external.

## 2. The modules

### TaskRunner

One device. `device` is the state of the DPL device; `InitCallback`, `Start`,
`Stop`, `Reset` are the callbacks of `F/TaskRunner.cxx:67-90, 146-174`.
`processCallback` (92-130) is atomic, as DPL calls it in the thread of the
device: `Accept` is the part every input goes through, `ProcessMonitor` ends
there, `ProcessPublish` goes on with `timerCallback` and `finishCycle` (231-284)
when the timer has expired or `monitorData` left 1 in `FileFinish`.

Data are numbers of blocks. One call of `monitorData` adds one block to the
objects of the user's task; `histos` is what these objects hold, `downstream`
what the receiver has: the sum of the messages of a task that resets after
publication (a merger adds them up), or else the last message (a repository
replaces). `Tick` is the clock; `timeLeft` counts down to the deadline of
`mStatsTimer` and below zero when the device is late.

Assumed: `outputs.adopt` makes its message before it returns, so that
`mTask->reset()` (125) does not empty what was sent. Not modelled: a task whose
construction or initialisation throws (the device ends), the metrics other than
the rate of publications, and the text of logs.

### Repository and MySqlDatabase

`Repository` says what `H/DatabaseInterface.h` promises to whoever stores and
retrieves: `log` is the history of accepted objects; `Submit` accepts one, `Show`
makes a version visible under the key it was stored with, `Hide` is `truncate`, and
`deleted` are the versions it has deleted, which never show again. It allows an older
version to become visible again, and an object to be lost: the MySQL back-end does
both, and separate properties say when. The interface says "Delete all versions of a
given object" (`H/DatabaseInterface.h:77`); a back-end that writes later what it
accepts deletes only what it has written. `waiting`, which each back-end gives when it
instantiates `Repository`, are the versions a `Hide` spares: `{}` for the CCDB, and
`Queued`, the versions in the queue, for MySQL.

`MySqlDatabase` has the queue, `queueSize` and `overdue`
(`lastStorage.getTime() > 10`) of the class, and the loop of `storeQueue` and
`storeForTask` statement by statement, as other processes read the tables at any
time and the process may die at any time: `PrepareTask` (107-136, which creates
the table if it has to), `WriteRow` per REPLACE, `FlushDone`. `PrepareFails` is
the exception of a refused statement, which leaves the queue whole;
`PrepareFailsClosing` is the same in the destructor, where an exception ends the
process; `WriteFails` is a REPLACE whose result nobody looks at; `Crash` and
`Restart` are those of the process that owns the queue. `Truncate` may come at any
time, between two rows of a flush too, as any process may call it
(`F/RepositoryBenchmark.cxx:201` does); it deletes `DeletedBy`, the versions that are
not in the queue, and those in the queue come back with the next row written for
them. The code visits the tasks in the order of their names; the model in any order.
The listings are not modelled, as they change nothing.

### InformationService

Every statement of `handleTaskInputData` that touches a cache or the socket is a
step of the thread that runs it, `Device` (FairMQ) or a worker (`io.run()` of a
timer). A request walks the cache entry by entry (`BuildTaskNode`), so that data
may come in the middle of it. `pending`, `replaced`, `expired` and `cancelled`
count the waits on the `deadline_timer`s: `expires_at` cancels the waits on the
timer it is called for, and a cancelled wait runs its handler as well, at once.
`DataRace` (two threads in one map or socket, one of them writing) and
`FallOffTheEnd` (a function that ends without the return its type promises) are
undefined behaviour; the model lets the process die there, or go on.

`SendJson` sends the update (`Deliver`), or `Send()` returns an error, which is only
logged (`Lose`, `F/InformationService.cxx:212-215`). Hash and cache keep the list of a
lost update, so that it is not sent again before the task has another list: `lost`
is what the clients lack, and `LastUpdate` the list last given to `Send()`, be it
delivered or lost. The properties are about the latter, as the service never learns
the difference: a client may lack a list for as long as the task does not change
it, or see one list twice in a row around a lost one.

Abstractions: a hash is identified with the list it is the hash of (no
collisions); `mFakeDataIndex` is taken modulo a multiple of all lengths of files;
a second `Init()` clears the lines of the file in one step, so that a race of it
with a handler is not modelled; nor is the destructor.

### Checker

`Receive` takes an array, `BeginObject` goes to its next object,
`RunCheck` runs one of its checks with what `loadLibrary` and `getCheck` do to the
caches (`LoadLibraryOK`, `HasClass`, `HasInstance`), `CheckThrows` is an exception
of one of these two, and `OwnCodeThrows` one of the user's `check()` or `beautify()`
(`F/Checker.cxx:162, 167`): both leave `run()` in the middle of the array.
`StoreObject` stores an object (a failing database changes nothing here: `store`
catches its exception), and `Send` sends the array. `GetQuality` is
`MonitorObject::getQuality` as a fold over the results, in an order that is
arbitrary, as names are. Assumed: DPL catches the exception and calls the
checker again with the next array. Metrics are left out.

### HistoMerger

`TakeInputs` is a call of `run()`. The workflow has the mergers consume any message
that comes (`F/runAdvanced.cxx:43-56`), so that an input may have no array, `NoArray`,
as long as one of them has; `SkipInput` is the test of the loop for a missing header
or spec (36). `FirstInput`, `NextInput` and
`SizesDiffer` are the three ways the loop treats an input that is there, and `Publish` is the
rest of the call. `Capacity` is ROOT's `TObjArray::GetSize`, which is the
capacity of the array and not the number of its objects. Objects are added up by
their position, as in the code, whatever their names: the model counts, for each
histogram, the blocks `received`, those `refused` with their array, and those
`misplaced`, which were added to an object of another name (`foreign`) or left out
because the merged array has nothing at their place. A histogram at the place of an
object that is none calls `Add` on a null pointer, and the process is gone (`Dead`).
Histograms are `TH1`; the code merges nothing else.

### ObjectsManager

The list of objects in the order in which they were published, and what each
has: its checks with their results, and metadata. A history, `asked`, says what
was asked for last under each name. The operations are those of
`F/ObjectsManager.cxx` and the ones of `MonitorObject` a task reaches through
`getMonitorObject`. `FindObject` looks an object up by its name;
`MonitorObject::GetName` (`H/MonitorObject.h:58`) hands out a pointer into a
temporary string, so that with `DanglingReads` any comparison of an object of
that name may fail, and another one of the same name may be found, or none. (That
the read could also make a different name compare equal is not modelled.)
Ownership of the encapsulated ROOT object is left out. `startPublishing` takes the name
from the object and ignores its second parameter (`H/ObjectsManager.h:39`), which
the model therefore does not have.

### Pipeline

The first half of the module is `InfrastructureGenerator.cxx` as functions of the
configuration: `GenerateLocal` of each machine, `RemoteRunners`, `Mergers`,
`MergerInputs` and `Checkers` of the server, with the numbers of the runners from 1
where there is a merger and from 0 where there is none, and with `active`, which
the machines read without a default and the server with one. The second half is
these devices at work: `Start`, `Monitor`, `EndCycle` and `Stop` of a runner,
`Merge` and `TimerExpires` of a merger, `Check` and `CheckUnstored` of a checker
whose database stores or refuses, with bounded channels between them. Data are
blocks; the objects of a task stand for the set of blocks filled into them, so
that adding histograms is a union, which is right as long as `CountedOnce` holds.

How much a step abstracts: `Monitor` and `EndCycle` are two ways `processCallback` may
go, in the middle of a cycle and when the timer has expired or the file has ended;
both need an input and a runner below its `maxNumberCycles` (`Input`,
`LimitReached`), and cycles that `stop()` ends count too, as in TaskRunner. The
merger takes one message at a time, so that the several messages of a call of
HistoMerger are several steps; a checker stores an array as one version. What `reset()` and
`startOfActivity()` do is the task's: `Resetting` are the tasks whose `reset()`
empties their objects, and `Start` keeps or empties them. Tasks whose `reset()` does
nothing (QCGeneral, ExampleTask, DaqTask) send their blocks again in every cycle,
and a merger adds them again: the properties of merged tasks are about the others.
A local task on one machine is told to reset and has no merger, so that its
version in the repository is the last cycle only. Not modelled: data
descriptions that are cut to the length DPL allows (`F/TaskRunner.cxx:139-144`),
which could make two tasks of long names collide.

### CcdbDatabase and RepositoryBenchmark

`CcdbDatabase` is the second back-end of `Repository`: `Store` throws for an empty
name or one with a white space, or uploads (`Uploaded`), which may fail without
anybody being told; `Truncate`, which may fail in the same way
(`F/CcdbDatabase.cxx:202`). Assumed: the clocks of those who store and those
who retrieve agree, and each key has one client, so that the version valid now is
the newest. `RepositoryBenchmark` extends it with the device that fills it: the
loops over its objects that store (`StoreObject`, `Stored`, `EndIteration`) or
delete (`EmptyDatabase`), and the threads of its timers (`Expire`, `ReadCount`,
`SendCount`, `AsyncWait`), which read `mTotalNumberObjects` while the device thread
counts. `expires_at` and `async_wait` (157-158) are two steps, between which another
thread may set the same timer; the `deadline_timer` itself is taken as safe for
several threads. With `number-objects` 0 the first iteration ends in a division by
zero (180, `DivideByZero`). A connection that failed is swallowed (100-107) and not
modelled: every call of the database then fails. The
device has no handler for a reset: `InitTask` runs again on the objects, counters,
timers and threads of the last life.

### DataDumpGui

`HandleParts` is a message, `PressNext`, `PressNextTooEarly`, `NotPressed` and
`Collapsed` are what the user may do in one drawing of the window, and
`UpdatePayloadGui` reads what is shown. The copies of payloads are named by the
number of their message, pointer and size moved as one; `allocated` are those not
deleted. Copies of headers come and move with the payloads and are never deleted,
so that nothing can go wrong with them but a leak: they are left out. Payloads that were
allocated with `new[]` are deleted with `delete` (76, 285), which the model takes as well
defined. The use of a deleted
one is undefined behaviour: the device dies, or goes on. Layout is left out.

### SimpleDS

The bookkeeping of `SimpleDS.cxx` in `monitorData` and `reset`, message by message:
the count of files, the errors of each file as the difference of unsigned totals
(`% Word`), and what a digit does to the occupancy and eta-phi plots (`Fill`). The plots have the
limits of the code: `LayEtaPhi` is a `TH2S`, whose bins keep their content at `BinMax`
(32767 in the code, `More`); a counter outside of the `NEventMax` (150) bins of
`OccupancyPlot` goes into a bin for the rest (`Bin`); `ErrorFile` has `NColumns` (7)
columns of type `int` and the files beyond share one more (`Column`), and a number too
large for an `int` shows as the least `int`, as x86 converts it (`Shown`).
`QCGeneralTask.cxx` has the same count of files, starts from uninitialised
members, and nothing else; the model is told which of the two it is. Assumed of
the decoder, which is not in this repository: runs are numbered from 1, a file is
sent until it is finished before the next one begins, and the totals of errors go
on for as long as the task lives. Pixels, chip positions other than "that of the
chip", texts and colours are left out.

## 3. What TLC checks

Twelve runs; each run's properties, and the mutants that violate them, are in
`PROJECT.json`. The comment above a property says what it means.

| run | module, cfg | what it shows |
|---|---|---|
| `task_runner` | MCTaskRunner, `MCTaskRunner.cfg` | `TypeOK`, `LimitRespected`, `DeltasAddUp`, `LastMessageIsComplete`, `DeadlineBound`, and `OpenCycleEnds` under fairness |
| `objects_manager` | ObjectsManager, `MCObjectsManager.cfg` | `LatestCheckIsKept`, `NothingAstray`, with lookups that may miss |
| `pipeline` | MCPipeline, `MCPipeline.cfg` | `Wired`, `CountedOnce`, `NothingVanishes`, `StoredGrows`, and `MonitoredIsStored` under fairness |
| `histo_merger` | MCHistoMerger, `MCHistoMerger.cfg` | `MergedAddsUp`, `NoBurst`, with missing inputs and arrays that do not match |
| `checker` | MCChecker, `MCChecker.cfg` | `CachedIsLoaded`, `QualityIsWorst`, `SentWhole`, `WellSpecifiedChecksRun` |
| `mysql` | MCMySqlDatabase, `MCMySqlDatabase.cfg` | `RepositorySpec` (the tables implement `Repository`), `QueueBounded`, `NewestIsKept`, `RegressionIsRepaired`, with every kind of fault and a truncate at any time |
| `repository_benchmark` | RepositoryBenchmark, `MCRepositoryBenchmark.cfg` | `RepositorySpec` for the CCDB, `EveryObjectStored`, `OneHandlerPerTimer`, `SentGrows` |
| `information_service` | MCInformationService, `MCInformationService.cfg` | with one source of data and updates that are lost: `CachesInStep`, `ReplyCoversAnnounced`, `OneWaitPerTimer`, `NoRepeatedUpdate`, and `LinesUsedInTurn` under fairness |
| `data_dump_gui` | DataDumpGui, `MCDataDumpGui.cfg` | `PatientIsSafe`, `ShowsForward` |
| `simple_ds` | MCSimpleDS, `MCSimpleDS.cfg` | `ErrorsOfFile`, `FilesCounted`, `EtaPhiLagsByOne`, `OccupancyAddsUp` |

`RepositorySpec` implies `VisibleWasStored` of `Repository`: the abstract module has
no step that could violate it.

Two runs show where the code does not do what the repository says of it:

| run | property | the code |
|---|---|---|
| `checker_quality` | `StoredWithItsQuality` | `check()` never gives a result to the object, so every object is stored with `Quality::Null` |
| `objects_manager_quality` | `QualityIsGiven` | the test for a missing object lacks a negation: `getQuality` throws for every object that is there |

Other disagreements, which no run is spent on:

- After "The task will not do anything from now on" (`F/TaskRunner.cxx:268`) a
  device that is stopped and started again still opens a cycle in `start()` and
  counts it in `stop()`.
- `H/DatabaseInterface.h:77` says of `truncate` "Delete all versions of a given object".
  `MySqlDatabase` deletes the row (`F/MySqlDatabase.cxx:305`) and leaves the versions
  that `store` has queued (87), which the next flush writes. With `waiting <- {}`, as for
  the CCDB, `RepositorySpec` is violated: store an object, let a flush write its row and
  fail at the next task, truncate it, flush again. The run checks the weaker
  `waiting <- Queued`.
- `F/MySqlDatabase.cxx:149` ignores the result of a REPLACE, and the queue is then
  cleared: the object is gone without an error (`WriteFails` in the model).
- An update whose `Send()` fails is never sent again as long as the list of the task stays
  the same: it is skipped as already known (`F/InformationService.cxx:105`), although the
  clients lack it.
- With tasks and a fake data file at once, two threads of the information service
  can leave the hash of one list beside another list for ever.
- The fake data file is read once, not every 10 s as
  `F/runInformationService.cxx:27` says.
- Arrays of different sizes make the merger return before its publication
  (`F/HistoMerger.cxx:44`), and what is compared is the capacity of the arrays.
- Full bins of a `TH2S` and counters off the occupancy plot lose hits without a word, so
  that the plots of `SimpleDS` show less than what came (never more).
- With `number-objects` 0 the benchmark divides by zero (`F/RepositoryBenchmark.cxx:180`).
- An empty fake data file makes `checkTimedOut` compute a modulo by zero, and
  in MySqlDatabase's destructor an exception of the last flush ends the process:
  both are steps of the models, after which the process is dead or down.

### Bounds, and why they are enough

- TaskRunner: three runs and four cycles, so that a run follows one that ended
  with, without and at the limit of cycles; limits -1 (none), 0 and 2; two blocks
  in a cycle; a period of two ticks and a device up to two ticks late, one whole
  period, so that one publication may be due again at once.
- ObjectsManager: three objects of two names, so that one name is that of two
  objects and the other of one; one check name with two classes and two
  qualities, so that a check can be replaced with and without a result.
- Pipeline: two machines, a merged task beside a task that is switched off or has no
  `active`, the machines in both orders, a task on one machine, and a remote
  task; no limit of cycles, a limit of 1 for one of several runners' tasks and of 2 for the
  remote one; two blocks; two runs of each runner; channels of one message, so that
  runners and mergers have to wait. Two tasks are enough, as
  the numbers of the runners of one do not depend on other tasks.
- HistoMerger: two inputs, each with an array or without; an array that is empty, two
  of other objects within the initial capacity, one beyond it, and one with a
  histogram where another has none; four calls; a device up to two periods late.
- Checker: a check that is well specified in each of two libraries, one without a
  library, one whose library is missing, one in the wrong library and one of a
  class that cannot be instantiated; arrays that combine them, with an element that is no
  monitor object; three arrays, as the caches of one array decide what happens
  to the next.
- MySqlDatabase: two tasks, so that a flush can fail between them, one name each,
  as rows of different names do not meet, a queue limit of 1 for the code's 4,
  and four objects: two for a flush, one that comes after it has failed, and one
  more for the next flush. All three kinds of faults, and truncates, any number of times.
- RepositoryBenchmark: none to three objects, the third of a bad name; five stores, so
  that a second iteration ends; a limit of two iterations; two initialisations, the least
  that makes two timers.
- InformationService: two tasks, two lists, files that are missing, empty, of one
  line, and of three lines with a list that changes; one initialisation. Two and
  more are the subject of the theorem about `OneWaitPerTimer`.
- DataDumpGui: four messages: one shown, one next, one that replaces it, and one
  more.
- SimpleDS: two chips on two layers and in two bins; words of three values, of which an
  `int` shows two, and three errors, so that a total wraps; two runs, two files, of
  which the second has no column of its own; three digits, up to two in a message; bins
  of at most two entries and a plot for counters up to 1, so that three digits of one
  chip fill a bin, and take the counter off the plot.

`CHECK_DEADLOCK FALSE` stands where a system may come to rest because a bound of
the model is used up (calls, messages, blocks, stores), or because a process is gone.

### Fairness

- TaskRunner: data keep coming while the device runs (`WF(Process)`), and time
  passes (`WF(Tick)`). `processCallback` is the only place where the timer is
  looked at, so without data an open cycle stays open; the property does not
  hold without the first, and the code offers nothing better.
- Pipeline: data keep coming to a runner that runs, and one of its inputs finds the
  timer expired: a runner that runs, is below its limit and can send ends its cycles
  (`WF(EndCycle)`, which is `OpenCycleEnds` of TaskRunner under the same assumption).
  At the limit `EndCycle` is not enabled and nothing is promised. The timer of a merger
  expires (weak); DPL hands over every message that can
  be taken again and again (strong, as a full channel interrupts it), and a
  database that refuses now and then does not refuse for ever (strong). Runners may be
  stopped for good or come to their limit, which is why `MonitoredIsStored` excepts
  tasks all of whose runners have (`Quiet`).
- InformationService: FairMQ initialises the device, the scheduler runs both
  threads, and a timer that was set expires. Data and requests need not come.

## 4. What is proved

With TLAPS, for all values of the constants that satisfy the named assumptions
(which TLC evaluates on every run): any number of tasks, machines, blocks,
objects, messages, threads, any limit and any queue. In a module of proofs each
part begins with its inductive invariant, has a lemma that the initial states
satisfy it, one or several that each action keeps it, and then the theorems.
Every invariant and every action property that a passing run checks, and both
refinements, are theorems; the three properties under fairness are not.

- `FoldTheorems`: what the library's folds compute, for the modules below. A fold over
  a finite set is a recursive function on its subsets; `FoldDefined` shows that
  there is one, with its values in the type the steps keep to, and `RecursOnce` that
  there is only one. For sums follow: any element can be taken out first (`SumTake`,
  although the fold picks one), sums of sums, of zeros and of natural numbers, what
  a sum becomes when one value changes (`SumChange`) or one element comes in
  (`SumGrows`, `SumSnoc`, `SumShift`). The induction is on a set and not on
  a predicate: `SubsetInduction` and `NatSetInduction` take the least element outside
  of the set, which the library's theorem on well-founded relations (`WFMin`)
  provides.

- `TaskRunnerProofs`. The properties of the task runner are inductive only
  together: `IInv` is the conjunction of `TypeOK`, `TaskAlive`, `CycleAccounting`,
  `OneAbandonedCyclePerRun`, `LimitRespected`, `ObjectsMatchCycle`, `DeltasAddUp` and
  `LastMessageIsComplete` with two facts the code relies on without stating them
  (`Counters`): `mLastNumberObjects` never exceeds the total, so that a rate is
  never negative, and the objects are empty when the device does not run, so
  that a run starts from nothing. `DeadlineIsBounded` needs the types only: a
  publication the timer caused starts from a deadline that has passed, and one
  for `FileFinish` allows one period more. `TaskAlive`, `CycleAccounting`,
  `OneAbandonedCyclePerRun` and `ObjectsMatchCycle` are proved and in no run.
- `TaskProofs`, what a task does with its objects and its plots.
  - ObjectsManager. `LatestCheckIsKept` alone is not inductive: the first object
    of a name is bare, so that nothing may have been asked for under a name that nobody
    has published (`NothingAsked`); and what `NothingAstray` says is kept as one
    `Held` fact per name and check, because a lookup may find any object of the name.
  - Files (`EveryFileIsCounted`). `FilesInv`: the count is what the last reset left and
    the files begun since; that of QCGeneral, which
    starts from uninitialised members, may be one less and never two.
  - Errors (`ErrorsSurviveWrap`), for every width of a word. `ErrorsInv`: what is kept of
    the totals is the total at the end of the last file, modulo the word, and a column
    that no other file shares is the errors of its file, modulo the word, as an `int` shows
    them. That the difference of two totals
    that wrapped is right needs four lemmas about `%`.
  - Plots (`EtaPhiIsOneBehind`, `OccupancyIsComplete`), for every detector and message.
    The model fills the plots of a message as a fold over its digits. `FillEquation`
    shows that this is a sequence of plots, one per digit, and `MessageFills` what
    it adds up to. A full bin and an entry off the plot
    stay so until the next reset, so that the two equations hold exactly up to there
    and as inequalities after it. `PlotsInv` adds to the two properties that the counter
    is not negative once it was not: it starts uninitialised, and a reset keeps it.
- `PipelineProofs`. `PInv`: each block of a merged task is in one place at most
  (the objects of a runner, or one message), is in no sum while it is there, and is
  monitored if and only if it is somewhere, in the sum or dropped (`Accounted`);
  the sums on their way to the checker are in order, each at least what is stored
  and at most the current sum (`Growing`). Uses that the set of machines is finite
  (`HostsAssumption`), that a machine is listed once and that a task has one
  (`ConfigsAssumption`). `AlwaysWired` (`Wired`) needs no invariant but the type of
  the configurations: it follows from `ConfigsAssumption`.
- `DeviceProofs`, the devices that receive what tasks publish.
  - Checker. `IInv` adds the types of the three caches to
    `CachedIsLoaded`; the lemma `LoadKeepsCaches` says what one `loadLibrary` and
    `getCheck` do to them. `GivenUpForItsOwnFault` (`WellSpecifiedChecksRun`) needs only
    that arrays sent are counted. `ArraysAreSentWhole` (`SentWhole`) has `LoopInv`:
    the objects that will be sent are those of the array up to the current element,
    each at its place among the objects (`Passed`), which an exception forgets as a
    whole. `CheckerTypes` is `TypeOK`; it needs that the results of an object are those
    of its own checks.
  - Quality. `QualityIsTheWorst` is about the fold that `getQuality()` is: `WorseIsWorst` is
    its step, `QualityEquation` its recursion, and the results are shown to be
    finitely many qualities (`ResultsOf`).
  - HistoMerger. `EveryBlockOnce` (`MergedAddsUp`), for any arrays and any missing
    inputs. `MergerInv` adds the types and that the device is out of its loop only when
    no input is left (`LoopIsOver`). `NoBlockMisplaced` is about copies that publish the
    same objects (`SameObjects`): no block of theirs is misplaced. `ShapeInv` is that the
    merged array has the shape of an array of the task (`MergedHasShape`), so that
    what is added to it has the same names at the same places.
    `NoTwoPublicationsAtOnce` (`NoBurst`) has
    `TimerIsAhead`: a timer that has expired means that time has passed.
    `MergerTypes` is `MergerTypeOK`, for any arrays: the
    new deadline is within a period, and the merged array within the capacity compared.
  - DataDumpGui. `GInv`: until Next is pressed twice for one message, what is
    shown and what comes next are not deleted (`Owned`); what was shown, is shown and comes
    next are in the order in which they came (`InOrder`).
- `MySqlDatabaseProofs`. `RInv`: each object in the queue, and each row that the
  statement of the current task has still to write, is logged under the task
  whose table it goes to, and under its own name. Types are not enough: without
  the second part a `WriteRow` could show an object under the key of another.
  `ImplementsRepository` says that the database implements `Repository`: a
  `Store` is a `Submit`, a `Truncate` a `Hide`, a `WriteRow` a `Show`, and every other
  step, faults included, a stutter. That a `WriteRow` shows nothing a truncate has
  deleted is `Apart`: no deleted version is in the queue or the rows still to write.
  `NewestIsAlwaysKept` (`NewestIsKept`) has `NInv`:
  what is true of the whole queue is not enough when a statement is half written, so
  it says of the queue and of the rows still to write that behind every version
  of a key comes the newest, and that the newest is there or in its row (`Kept`).
  `RegressionAlwaysRepaired` (`RegressionIsRepaired`) has `OInv`: queue and batch are
  ascending (`Ordered`), and behind a version older than the row comes that of the
  row (`Repairable`). `QueueIsBounded` (`QueueBounded`) has `BInv`: the size is the sum of the
  lengths, and a flush begins with one object more than the limit and the failures
  allow, the one that made it begin. It needs a finite set of tasks. `TypeCorrect` is
  `TypeOK`. `RetrievedWasStored` takes what `Repository` promises, `VisibleWasStored`,
  which its own steps keep, through the refinement to the tables.
- `RepositoryBenchmarkProofs`. The CCDB under the benchmark implements `Repository` too:
  an upload is always the one of the last object in the log (`Uploads`), which
  needs that the device's loops stay among its objects (`Loop`).
  `Limit` gives `RunsAreLimited`, which is in no run. `CountsGoOn` (`SentGrows`) has an
  invariant of its own, `SInv`: in the first life there is one thread at most, and
  what it has read lies between the count sent last and the total. `HandlersGoOn`
  (`OneHandlerPerTimer`) has `Handlers`: over all lives, the waits, those that are due and
  the threads that are busy are as many as the timers, and one timer alone is never
  cancelled. `ObjectsAreStored` (`EveryObjectStored`) has `FirstObjects`: in the first life,
  where the objects are the numbers up to `mNumberObjects`, each was stored once per
  finished iteration and once more if the current one has come past it.
  `RetrievedWasStored` is the promise of `Repository` again.
- `InformationServiceProofs`, for any number of initialisations and timer threads, for
  tasks and a fake data file at once, and with processes that may die of a race.
  `IInv`: an entry is stored before its update is produced and sent
  (`StoredFirst`, `UpdatesKnown`), and entries are never removed; with that the reply
  under construction covers what was announced. `OneWaitForEachTimer`: every
  step of a handler or a timer moves one wait, counted with the cardinality
  theorems of the library. `CachesStayInStep` (`CachesInStep`) and `NoUpdateRepeated`
  (`NoRepeatedUpdate`) are proved for one source of data (`OneSource`: one initialisation,
  and tasks or a fake data file, not both), as the run checks them; two sources
  break both. `SInv`: at most one thread handles messages, and the hash, the
  cache and the clients of a task differ only by the list it is handling, or by
  an update that was lost (`InStep`).

Only model-checked: `OpenCycleEnds`, `MonitoredIsStored` and
`LinesUsedInTurn`, which hold under fairness, and this prover does neither fairness
nor `ENABLED`. What limits the other proofs: theorems that take an operator as a
parameter cannot be used, so induction goes through sets; and
recursive operators (`SelectSeq` of the standard modules is one) have no meaning to
the prover, which is why `SentWhole` says with cardinalities at which place each
object is sent. The proofs of `CachesInStep` and `NoRepeatedUpdate` assume one
source of data, as their run does.

## 5. What is not modelled

Listed as components in `PROJECT.json`, with the reason. By size, most of the
repository's C++ is Dear ImGui and a GL header, third-party code copied into
`F/imgui/`. Of the rest:

- `DatabaseFactory` and the `run*.cxx` programs choose classes and define workflows,
  without state of their own. Two topologies they define are those of Pipeline.
- The tasks of Example, Daq, ITS, Dummy and Skeleton, and the checks of Common, fill
  and judge histograms of floating-point data, with no control of their own;
  what the framework needs to know of them, `reset()` and `startOfActivity()`, is
  an input of Pipeline, and the calls they make are those of ObjectsManager.
- Parts of modelled classes: listings of the databases, metrics, logs, drawing,
  window layout, hit maps and texts of SimpleDS. They change no state that
  anything else depends on.

Hazards without a property say why in `PROJECT.json`.

## 6. Plan

1. A proof that TaskRunner, without its timer and with its counts for sets of
   blocks, implements the runner of Pipeline, and the same for HistoMerger and the
   merger of Pipeline, so that what Pipeline assumes of its devices is a theorem.
   A `ProcessPublish` monitors a block and ends the cycle in one step, so that the
   abstract runner needs a step that does both.
2. Tasks that do not reset, in Pipeline, with a statement of how often their
   blocks are counted.
3. `InformationServiceDump` as a process of its own beside `InformationService`.
