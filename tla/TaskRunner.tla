----------------------------- MODULE TaskRunner -----------------------------
(***************************************************************************)
(* The device that drives one QC task inside DPL                           *)
(* (Framework/src/TaskRunner.cxx).  DPL calls it back: initCallback when   *)
(* the device is initialised, start/stop/reset on the RUN, STOP and RESET  *)
(* DEVICE transitions, processCallback for every input.  The runner opens  *)
(* and closes cycles, and at the end of a cycle publishes the objects of   *)
(* the user's task.                                                        *)
(*                                                                         *)
(* Data are abstracted to numbers of blocks: one call of monitorData adds  *)
(* one block to the objects of the user's task, reset() empties them, and  *)
(* a message carries as many blocks as the objects hold when it is sent.   *)
(***************************************************************************)
EXTENDS Integers

CONSTANTS
  CycleLimits,       \* values maxNumberCycles may have in the configuration
  FileFinishValues,  \* values monitorData may leave in the global FileFinish
  StatsPeriod,       \* the 60 s mStatsTimer is reset to, in clock ticks
  MaxRuns,           \* bound: RUN transitions
  MaxCycles,         \* bound: cycles
  MaxBlocks,         \* bound: blocks monitored before the timer expires
  MaxLate            \* bound: ticks the device may be late on its timer

ASSUME TaskRunnerAssumption ==
  /\ CycleLimits \subseteq Int
  /\ FileFinishValues \subseteq Nat
  /\ StatsPeriod \in Nat \ {0}
  /\ MaxRuns \in Nat /\ MaxCycles \in Nat /\ MaxBlocks \in Nat /\ MaxLate \in Nat

VARIABLES
  maxNumberCycles,    \* mTaskConfig.maxNumberCycles
  mResetAfterPublish, \* TRUE for tasks on local machines, whose output is merged
  device,             \* state of the DPL device
  mTask,              \* is there a user's task?
  mCycleOn,
  mCycleNumber,
  mNumberBlocks,
  mTotalNumberObjectsPublished,
  mLastNumberObjects,
  FileFinish,         \* the global of FileFinish.h
  timeLeft            \* ticks until mStatsTimer expires; isTimeout() iff <= 0

(***************************************************************************)
(* What the actions do to the user's task and to the receiver, recorded to *)
(* state the properties.                                                   *)
(***************************************************************************)
VARIABLES
  histos,             \* blocks held by the objects of the user's task
  unsent,             \* those among them that no message has carried
  downstream,         \* what the receiver holds: the sum of the messages of a
                      \* resetting task (a merger), else the last (a repository)
  received,           \* blocks monitored
  dropped,            \* blocks erased before any message carried them
  runs,               \* RUN transitions
  cycleStarts,        \* calls of startOfCycle
  publishedThisRun,   \* messages of the current (or last) run
  early,              \* those sent for FileFinish before the timer expired
  rateReported        \* last QC_task_Rate_objects_published_per_10_seconds

config   == <<maxNumberCycles, mResetAfterPublish>>
counters == <<mCycleOn, mCycleNumber, mNumberBlocks,
              mTotalNumberObjectsPublished, mLastNumberObjects>>
metrics  == <<publishedThisRun, early, rateReported>>
data     == <<histos, unsent, downstream, received, dropped>>
vars     == <<config, device, mTask, counters, FileFinish, timeLeft, data,
              runs, cycleStarts, metrics>>

-----------------------------------------------------------------------------

(***************************************************************************)
(* Pieces of the callbacks.  A definition whose name starts with Mutant is *)
(* a deliberate bug: put in the place of the definition that follows it,   *)
(* it makes TLC find one of the properties violated.                       *)
(***************************************************************************)

MutantLimitReached == maxNumberCycles >= 0 /\ mCycleNumber > maxNumberCycles

LimitReached == maxNumberCycles >= 0 /\ mCycleNumber >= maxNumberCycles

MutantIsTimeout == timeLeft > 0

IsTimeout == timeLeft <= 0

\* mNumberBlocks starts from zero when a cycle is opened.
BlocksInCycle == IF mCycleOn THEN mNumberBlocks ELSE 0

MutantStartTimer == timeLeft' = timeLeft + StatsPeriod

StartTimer == timeLeft' = StatsPeriod

MutantStartCounters ==
  /\ mTotalNumberObjectsPublished' = 0
  /\ UNCHANGED mLastNumberObjects

\* start() forgets the last report but keeps the total.
StartCounters ==
  /\ mLastNumberObjects' = 0
  /\ UNCHANGED mTotalNumberObjectsPublished

MutantAfterPublish(blocks) == blocks

\* What the objects hold after publication: the task's reset() empties them.
AfterPublish(blocks) == IF mResetAfterPublish THEN 0 ELSE blocks

\* publish() sends one array and counts it as one object.
Publish == 1

\* stop() ends the open cycle, if any, and publishes nothing.
EndOpenCycle ==
  /\ mCycleNumber' = IF mCycleOn THEN mCycleNumber + 1 ELSE mCycleNumber
  /\ mCycleOn' = FALSE

MutantTaskReset == UNCHANGED <<histos, unsent>>

\* mTask->reset() in stop(): what was not sent is lost.
TaskReset == histos' = 0 /\ unsent' = 0

\* The constructor, then setResetAfterPublish by TaskRunnerFactory::create.
Init ==
  /\ maxNumberCycles \in CycleLimits
  /\ mResetAfterPublish \in BOOLEAN
  /\ device = "Idle"
  /\ mTask = FALSE
  /\ mCycleOn = FALSE
  /\ mCycleNumber = 0
  /\ mNumberBlocks = 0
  /\ mTotalNumberObjectsPublished = 0
  /\ mLastNumberObjects = 0
  /\ FileFinish = 0
  /\ timeLeft = 0
  /\ histos = 0 /\ unsent = 0 /\ downstream = 0 /\ received = 0 /\ dropped = 0
  /\ runs = 0 /\ cycleStarts = 0
  /\ publishedThisRun = 0 /\ early = 0 /\ rateReported = 0

\* INIT DEVICE: a new user's task with new, empty objects.
InitCallback ==
  /\ device = "Idle"
  /\ device' = "Ready"
  /\ mTask' = TRUE
  /\ histos' = 0
  /\ unsent' = 0
  /\ UNCHANGED <<config, counters, FileFinish, timeLeft, downstream, received,
                 dropped, runs, cycleStarts, metrics>>

\* RUN: startOfActivity, then the first cycle is opened without startOfCycle.
Start ==
  /\ device = "Ready"
  /\ runs < MaxRuns
  /\ mCycleNumber < MaxCycles
  /\ device' = "Running"
  /\ StartTimer
  /\ StartCounters
  /\ mNumberBlocks' = 0
  /\ mCycleOn' = TRUE
  /\ runs' = runs + 1
  /\ publishedThisRun' = 0
  /\ early' = 0
  /\ UNCHANGED <<config, mTask, mCycleNumber, FileFinish, data, cycleStarts,
                 rateReported>>

\* The part of processCallback every accepted input goes through, up to the
\* test of the timer: startOfCycle if no cycle is open, then monitorData, which
\* leaves `finish' in FileFinish.
Accept(finish) ==
  /\ device = "Running"
  /\ ~LimitReached
  /\ mCycleOn \/ mCycleNumber < MaxCycles
  /\ BlocksInCycle < MaxBlocks \/ IsTimeout
  /\ FileFinish' = finish
  /\ cycleStarts' = IF mCycleOn THEN cycleStarts ELSE cycleStarts + 1
  /\ mNumberBlocks' = BlocksInCycle + 1
  /\ received' = received + 1
  /\ UNCHANGED <<config, device, mTask, dropped, runs>>

\* processCallback that leaves the cycle open.
ProcessMonitor(finish) ==
  /\ Accept(finish)
  /\ ~IsTimeout /\ finish # 1
  /\ mCycleOn' = TRUE
  /\ histos' = histos + 1
  /\ unsent' = unsent + 1
  /\ UNCHANGED <<mCycleNumber, mTotalNumberObjectsPublished, mLastNumberObjects,
                 timeLeft, downstream, metrics>>

\* processCallback that ends the cycle: finishCycle, which publishes the
\* objects with the block just monitored, and the task's reset if asked for.
ProcessPublish(finish) ==
  /\ Accept(finish)
  /\ IsTimeout \/ finish = 1
  /\ rateReported' = mTotalNumberObjectsPublished - mLastNumberObjects
  /\ mLastNumberObjects' = mTotalNumberObjectsPublished
  /\ timeLeft' = timeLeft + StatsPeriod
  /\ mTotalNumberObjectsPublished' = mTotalNumberObjectsPublished + Publish
  /\ mCycleNumber' = mCycleNumber + 1
  /\ mCycleOn' = FALSE
  /\ downstream' = IF mResetAfterPublish THEN downstream + histos + 1 ELSE histos + 1
  /\ histos' = AfterPublish(histos + 1)
  /\ unsent' = 0
  /\ publishedThisRun' = publishedThisRun + 1
  /\ early' = IF IsTimeout THEN early ELSE early + 1

\* STOP: the open cycle ends without a publication, and the task is reset.
Stop ==
  /\ device = "Running"
  /\ device' = "Ready"
  /\ EndOpenCycle
  /\ dropped' = dropped + unsent
  /\ TaskReset
  /\ UNCHANGED <<config, mTask, mNumberBlocks, mTotalNumberObjectsPublished,
                 mLastNumberObjects, FileFinish, timeLeft, downstream, received,
                 runs, cycleStarts, metrics>>

\* RESET DEVICE: the task and its objects are destroyed, the counters stay.
Reset ==
  /\ device = "Ready"
  /\ device' = "Idle"
  /\ mTask' = FALSE
  /\ histos' = 0
  /\ unsent' = 0
  /\ UNCHANGED <<config, counters, FileFinish, timeLeft, downstream, received,
                 dropped, runs, cycleStarts, metrics>>

\* Time passes.  Only the time of a run matters: start() resets the timer.
Tick ==
  /\ device = "Running"
  /\ timeLeft > -MaxLate
  /\ timeLeft' = timeLeft - 1
  /\ UNCHANGED <<config, device, mTask, counters, FileFinish, data, runs,
                 cycleStarts, metrics>>

Process == \E finish \in FileFinishValues : ProcessMonitor(finish) \/ ProcessPublish(finish)

Next == InitCallback \/ Start \/ Process \/ Stop \/ Reset \/ Tick

\* Data keep coming while the device runs, and time passes.
Fairness == WF_vars(Process) /\ WF_vars(Tick)

Spec == Init /\ [][Next]_vars

FairSpec == Spec /\ Fairness

-----------------------------------------------------------------------------
(* Invariants. *)

ControlTypes ==
  /\ maxNumberCycles \in CycleLimits
  /\ mResetAfterPublish \in BOOLEAN
  /\ device \in {"Idle", "Ready", "Running"}
  /\ mTask \in BOOLEAN
  /\ mCycleOn \in BOOLEAN
  /\ FileFinish \in FileFinishValues \cup {0}
  /\ timeLeft \in Int

CounterTypes ==
  /\ mCycleNumber \in Nat /\ mNumberBlocks \in Nat
  /\ mTotalNumberObjectsPublished \in Nat /\ mLastNumberObjects \in Nat
  /\ rateReported \in Nat

HistoryTypes ==
  /\ histos \in Nat /\ unsent \in Nat /\ downstream \in Nat
  /\ received \in Nat /\ dropped \in Nat
  /\ runs \in Nat /\ cycleStarts \in Nat
  /\ publishedThisRun \in Nat /\ early \in Nat

\* The variables are of their types; in particular the rate reported to the
\* monitoring, a difference of two counters, is never negative.
TypeOK == ControlTypes /\ CounterTypes /\ HistoryTypes

\* A user's task exists exactly while the device is initialised, so no callback
\* of processCallback, start or stop dereferences a null mTask, and a cycle is
\* open only while the device runs.
TaskAlive ==
  /\ mTask <=> device # "Idle"
  /\ mCycleOn => device = "Running"

\* Every cycle the runner counts, and the open one, was opened once: by
\* startOfCycle in processCallback or, without startOfCycle, by start().
CycleAccounting ==
  mCycleNumber + (IF mCycleOn THEN 1 ELSE 0) = runs + cycleStarts

\* A cycle ends with a publication except for at most one cycle per run, the one
\* stop() ends; that one is not to come while the run still goes on.
OneAbandonedCyclePerRun ==
  /\ mTotalNumberObjectsPublished <= mCycleNumber
  /\ mCycleNumber - mTotalNumberObjectsPublished <=
       IF device = "Running" THEN runs - 1 ELSE runs

\* The task publishes no more than maxNumberCycles times over all its runs.
LimitRespected ==
  maxNumberCycles >= 0 => mTotalNumberObjectsPublished <= maxNumberCycles

\* mNumberBlocks counts the blocks that no message has carried yet; a task that
\* resets after each publication holds those and nothing of an earlier cycle, so
\* that its messages are increments a merger may add up.
ObjectsMatchCycle ==
  /\ unsent = BlocksInCycle
  /\ mResetAfterPublish => histos = unsent
  /\ unsent <= histos

\* A task that resets after each publication delivers each block once: a
\* receiver that adds up the messages has all the blocks but those of the open
\* cycle and those of cycles ended by stop().
DeltasAddUp ==
  mResetAfterPublish => received = downstream + unsent + dropped

\* For a task that does not reset, the last message of the run carries all the
\* blocks of the run but those of the open cycle.
LastMessageIsComplete ==
  (~mResetAfterPublish /\ device = "Running") =>
     histos = unsent + (IF publishedThisRun > 0 THEN downstream ELSE 0)

\* The next timer publication is at most one period away, plus one period for
\* every message of the run sent for FileFinish before the timer expired: each
\* of those moves the deadline on by a whole period.
DeadlineBound ==
  device = "Running" => timeLeft <= StatsPeriod * (early + 1)

-----------------------------------------------------------------------------
(* Liveness. *)

\* As long as the cycle limit is not reached, an open cycle ends: by a
\* publication or by stop().  The timer publications of processCallback are not
\* starved by inputs that finish no file.
OpenCycleEnds == (mCycleOn /\ ~LimitReached) ~> ~mCycleOn
=============================================================================
