-------------------------- MODULE TaskRunnerProofs --------------------------
(***************************************************************************)
(* Proofs about TaskRunner, for every value of its constants.              *)
(***************************************************************************)
EXTENDS TaskRunner, TLAPS

(***************************************************************************)
(* The inductive invariant.  The properties of TaskRunner are inductive    *)
(* together, but for two facts the code relies on without stating them:    *)
(* the total has passed the value kept for the rate (so that the rate is   *)
(* not negative), and the objects are empty whenever the device does not   *)
(* run (so that a run starts from nothing).                                *)
(***************************************************************************)
Counters ==
  /\ mLastNumberObjects <= mTotalNumberObjectsPublished
  /\ device # "Running" => histos = 0

Accounting ==
  /\ CycleAccounting
  /\ OneAbandonedCyclePerRun
  /\ LimitRespected

Content ==
  /\ ObjectsMatchCycle
  /\ DeltasAddUp
  /\ LastMessageIsComplete

IInv == TypeOK /\ TaskAlive /\ Counters /\ Accounting /\ Content

-----------------------------------------------------------------------------

LEMMA InitEstablishes == Init => IInv
<1> SUFFICES ASSUME Init PROVE IInv
  OBVIOUS
<1>1. TypeOK
  <2>1. ControlTypes
    <3>1. mTask \in BOOLEAN /\ mCycleOn \in BOOLEAN
      BY Zenon DEF Init
    <3> QED BY <3>1 DEF Init, ControlTypes
  <2>2. CounterTypes /\ HistoryTypes
    BY DEF Init, CounterTypes, HistoryTypes
  <2> QED BY <2>1, <2>2 DEF TypeOK
<1>2. TaskAlive /\ Counters
  BY DEF Init, TaskAlive, Counters
<1>3. Accounting
  BY <1>1, TaskRunnerAssumption DEF Init, TypeOK, ControlTypes, TaskRunnerAssumption,
     Accounting, CycleAccounting, OneAbandonedCyclePerRun,
     LimitRespected
<1>4. Content
  BY DEF Init, Content, ObjectsMatchCycle, BlocksInCycle, DeltasAddUp,
     LastMessageIsComplete
<1> QED BY <1>1, <1>2, <1>3, <1>4 DEF IInv

LEMMA StepPreserves == IInv /\ [Next]_vars => IInv'
<1> SUFFICES ASSUME IInv, [Next]_vars PROVE IInv'
  OBVIOUS
<1> USE TaskRunnerAssumption
    DEF TaskRunnerAssumption, IInv, TypeOK, ControlTypes, CounterTypes,
        HistoryTypes, TaskAlive, Counters, vars, config,
        counters, data, metrics
<1>1. CASE InitCallback
  <2>1. TypeOK' /\ TaskAlive' /\ Counters'
    BY <1>1 DEF InitCallback
  <2>2. Accounting'
    BY <1>1 DEF InitCallback, Accounting, CycleAccounting,
       OneAbandonedCyclePerRun, LimitRespected
  <2>3. Content'
    BY <1>1 DEF InitCallback, Content, ObjectsMatchCycle, BlocksInCycle,
       DeltasAddUp, LastMessageIsComplete
  <2> QED BY <2>1, <2>2, <2>3
<1>2. CASE Start
  <2>1. TypeOK' /\ TaskAlive' /\ Counters'
    BY <1>2 DEF Start, StartTimer, StartCounters
  <2>2. Accounting'
    BY <1>2 DEF Start, StartCounters, Accounting, CycleAccounting,
       OneAbandonedCyclePerRun, LimitRespected
  <2>3. Content'
    BY <1>2 DEF Start, Content, ObjectsMatchCycle, BlocksInCycle, DeltasAddUp,
       LastMessageIsComplete
  <2> QED BY <2>1, <2>2, <2>3
<1>3. ASSUME NEW finish \in FileFinishValues, ProcessMonitor(finish)
      PROVE  IInv'
  <2>1. TypeOK' /\ TaskAlive' /\ Counters'
    BY <1>3 DEF ProcessMonitor, Accept, BlocksInCycle
  <2>2. Accounting'
    BY <1>3 DEF ProcessMonitor, Accept, Accounting, CycleAccounting,
       OneAbandonedCyclePerRun, LimitRespected
  <2>3. Content'
    BY <1>3 DEF ProcessMonitor, Accept, Content, ObjectsMatchCycle,
       BlocksInCycle, DeltasAddUp, LastMessageIsComplete
  <2> QED BY <2>1, <2>2, <2>3
<1>4. ASSUME NEW finish \in FileFinishValues, ProcessPublish(finish)
      PROVE  IInv'
  <2>1. TypeOK' /\ TaskAlive' /\ Counters'
    <3>1. ControlTypes'
      <4>1. mCycleOn' \in BOOLEAN
        BY <1>4, Zenon DEF ProcessPublish
      <4> QED BY <4>1, <1>4 DEF ProcessPublish, Accept
    <3>2. CounterTypes'
      BY <1>4 DEF ProcessPublish, Accept, BlocksInCycle, AfterPublish, Publish
    <3>3. HistoryTypes'
      BY <1>4 DEF ProcessPublish, Accept, BlocksInCycle, AfterPublish, Publish
    <3>4. TaskAlive' /\ Counters'
      BY <1>4 DEF ProcessPublish, Accept, BlocksInCycle, AfterPublish, Publish
    <3> QED BY <3>1, <3>2, <3>3, <3>4
  <2>2. Accounting'
    BY <1>4 DEF ProcessPublish, Accept, LimitReached, Publish, Accounting,
       CycleAccounting, OneAbandonedCyclePerRun, LimitRespected
  <2>3. Content'
    BY <1>4 DEF ProcessPublish, Accept, AfterPublish, Content,
       ObjectsMatchCycle, BlocksInCycle, DeltasAddUp, LastMessageIsComplete
  <2> QED BY <2>1, <2>2, <2>3
<1>5. CASE Stop
  <2>1. TypeOK' /\ TaskAlive' /\ Counters'
    <3>1. ControlTypes'
      BY <1>5 DEF Stop, EndOpenCycle, TaskReset
    <3>2. CounterTypes'
      BY <1>5 DEF Stop, EndOpenCycle, TaskReset
    <3>3. HistoryTypes'
      BY <1>5 DEF Stop, EndOpenCycle, TaskReset
    <3>4. TaskAlive' /\ Counters'
      BY <1>5 DEF Stop, EndOpenCycle, TaskReset
    <3> QED BY <3>1, <3>2, <3>3, <3>4
  <2>2. Accounting'
    BY <1>5 DEF Stop, EndOpenCycle, Accounting, CycleAccounting,
       OneAbandonedCyclePerRun, LimitRespected
  <2>3. Content'
    BY <1>5 DEF Stop, EndOpenCycle, TaskReset, Content, ObjectsMatchCycle,
       BlocksInCycle, DeltasAddUp, LastMessageIsComplete
  <2> QED BY <2>1, <2>2, <2>3
<1>6. CASE Reset
  <2>1. TypeOK' /\ TaskAlive' /\ Counters'
    <3>1. ControlTypes'
      BY <1>6 DEF Reset
    <3>2. CounterTypes'
      BY <1>6 DEF Reset
    <3>3. HistoryTypes'
      BY <1>6 DEF Reset
    <3>4. TaskAlive' /\ Counters'
      BY <1>6 DEF Reset
    <3> QED BY <3>1, <3>2, <3>3, <3>4
  <2>2. Accounting'
    BY <1>6 DEF Reset, Accounting, CycleAccounting, OneAbandonedCyclePerRun,
       LimitRespected
  <2>3. Content'
    BY <1>6 DEF Reset, Content, ObjectsMatchCycle, BlocksInCycle, DeltasAddUp,
       LastMessageIsComplete
  <2> QED BY <2>1, <2>2, <2>3
<1>7. CASE Tick \/ UNCHANGED vars
  <2>1. TypeOK' /\ TaskAlive' /\ Counters'
    BY <1>7 DEF Tick
  <2>2. Accounting'
    BY <1>7 DEF Tick, Accounting, CycleAccounting, OneAbandonedCyclePerRun,
       LimitRespected
  <2>3. Content'
    BY <1>7 DEF Tick, Content, ObjectsMatchCycle, BlocksInCycle, DeltasAddUp,
       LastMessageIsComplete
  <2> QED BY <2>1, <2>2, <2>3
<1> QED
  BY <1>1, <1>2, <1>3, <1>4, <1>5, <1>6, <1>7 DEF Next, Process

\* The inductive invariant holds in every reachable state.
THEOREM Invariance == Spec => []IInv
  BY InitEstablishes, StepPreserves, PTL DEF Spec

-----------------------------------------------------------------------------

\* Types, and among them that no reported rate is negative.
THEOREM TypeCorrect == Spec => []TypeOK
<1>1. IInv => TypeOK
  BY DEF IInv
<1> QED BY <1>1, Invariance, PTL

\* mTask is not null in any callback that uses it.
THEOREM TaskIsAlive == Spec => []TaskAlive
<1>1. IInv => TaskAlive
  BY DEF IInv
<1> QED BY <1>1, Invariance, PTL

\* Each counted cycle was opened once, at most one per run went unpublished, and
\* the publications never exceed maxNumberCycles.
THEOREM CyclesAccounted ==
  Spec => [](CycleAccounting /\ OneAbandonedCyclePerRun /\ LimitRespected)
<1>1. IInv => CycleAccounting /\ OneAbandonedCyclePerRun /\ LimitRespected
  BY DEF IInv, Accounting
<1> QED BY <1>1, Invariance, PTL

\* A merger that adds up the messages of a resetting task has every block once,
\* but those of the open cycle and of the cycles ended by stop().
THEOREM DeltasAlwaysAddUp == Spec => [](ObjectsMatchCycle /\ DeltasAddUp)
<1>1. IInv => ObjectsMatchCycle /\ DeltasAddUp
  BY DEF IInv, Content
<1> QED BY <1>1, Invariance, PTL

\* The last message of a task that does not reset carries all the blocks of the
\* run but those of the open cycle.
THEOREM LastMessageAlwaysComplete == Spec => []LastMessageIsComplete
<1>1. IInv => LastMessageIsComplete
  BY DEF IInv, Content
<1> QED BY <1>1, Invariance, PTL

-----------------------------------------------------------------------------
(* The deadline of the timer. *)

LEMMA Periods ==
  ASSUME NEW p \in Nat, NEW n \in Nat
  PROVE  p * (n + 1) \in Nat /\ p <= p * (n + 1) /\ p * (n + 1) + p = p * (n + 2)
<1>1. p * n \in Nat
  OBVIOUS
<1>2. p * (n + 1) = p * n + p /\ p * (n + 2) = p * n + p + p
  OBVIOUS
<1> QED BY <1>1, <1>2

\* Messages sent for FileFinish before the timer expires are the only thing that
\* postpones the timer publications, by one period each.
THEOREM DeadlineIsBounded == Spec => []DeadlineBound
<1>1. Init => DeadlineBound
  BY DEF Init, DeadlineBound
<1>2. TypeOK /\ DeadlineBound /\ [Next]_vars => DeadlineBound'
  <2> SUFFICES ASSUME TypeOK, DeadlineBound, [Next]_vars PROVE DeadlineBound'
    OBVIOUS
  <2> DEFINE Bound(n) == StatsPeriod * (n + 1)
  <2>0. /\ StatsPeriod \in Nat /\ timeLeft \in Int /\ early \in Nat
        /\ Bound(early) \in Nat /\ Bound(early + 1) = Bound(early) + StatsPeriod
        /\ StatsPeriod <= Bound(0) /\ StatsPeriod <= Bound(early)
    BY TaskRunnerAssumption, Periods
    DEF TaskRunnerAssumption, TypeOK, ControlTypes, HistoryTypes
  <2>1. CASE Start
    BY <2>0, <2>1 DEF Start, StartTimer, DeadlineBound
  <2>2. ASSUME NEW finish \in FileFinishValues, ProcessPublish(finish)
        PROVE  DeadlineBound'
    <3>1. device = "Running" /\ device' = "Running"
      BY <2>2 DEF ProcessPublish, Accept
    <3>2. CASE IsTimeout
      <4>1. timeLeft <= 0 /\ timeLeft' = timeLeft + StatsPeriod /\ early' = early
        BY <2>2, <3>2 DEF ProcessPublish, IsTimeout
      <4>2. timeLeft' <= Bound(early)
        BY <2>0, <4>1
      <4> QED BY <3>1, <4>1, <4>2 DEF DeadlineBound
    <3>3. CASE ~IsTimeout
      <4>1. timeLeft' = timeLeft + StatsPeriod /\ early' = early + 1
        BY <2>2, <3>3 DEF ProcessPublish
      <4>2. timeLeft <= Bound(early)
        BY <3>1 DEF DeadlineBound
      <4>3. timeLeft' <= Bound(early + 1)
        BY <2>0, <4>1, <4>2
      <4> QED BY <3>1, <4>1, <4>3 DEF DeadlineBound
    <3> QED BY <3>2, <3>3
  <2>3. CASE Tick
    <3>1. timeLeft' = timeLeft - 1 /\ early' = early /\ device' = device
      BY <2>3 DEF Tick, metrics
    <3>2. device = "Running" => timeLeft <= Bound(early)
      BY DEF DeadlineBound
    <3>3. device = "Running" => timeLeft' <= Bound(early)
      BY <2>0, <3>1, <3>2
    <3> QED BY <3>1, <3>3 DEF DeadlineBound
  <2>4. ASSUME NEW finish \in FileFinishValues, ProcessMonitor(finish)
        PROVE  DeadlineBound'
    BY <2>4 DEF ProcessMonitor, Accept, metrics, DeadlineBound
  <2>5. CASE InitCallback \/ Stop \/ Reset
    BY <2>5 DEF InitCallback, Stop, Reset, DeadlineBound
  <2>6. CASE UNCHANGED vars
    BY <2>6 DEF vars, metrics, DeadlineBound
  <2> QED
    BY <2>1, <2>2, <2>3, <2>4, <2>5, <2>6 DEF Next, Process
<1> QED BY <1>1, <1>2, TypeCorrect, PTL DEF Spec
=============================================================================
