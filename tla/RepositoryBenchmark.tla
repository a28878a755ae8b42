------------------------ MODULE RepositoryBenchmark -------------------------
(***************************************************************************)
(* The device that fills a repository to see how fast it is                *)
(* (RepositoryBenchmark.cxx), with the CCDB behind it. The device thread   *)
(* prepares the objects, stores each of them in every iteration and counts *)
(* them. Every initialisation with monitoring makes a timer and a thread   *)
(* more that runs handlers: they send the count and set the timer again,   *)
(* which is taken as safe for several threads at once.                     *)
(*                                                                         *)
(* A device that is reset is initialised again, with what it had before:   *)
(* objects, counts, timers and threads. Tasks are left out: a key is the   *)
(* number of an object, and 0 the object name without a number.            *)
(***************************************************************************)
EXTENDS CcdbDatabase, FiniteSets, Functions

CONSTANTS
  MaxObjects,      \* number-objects is at most this
  mMaxIterations,  \* max-iterations; 0 is no limit
  MaxInits         \* bound: initialisations

ASSUME BenchmarkAssumption ==
  /\ MaxObjects \in Nat \ {0} /\ MaxInits \in Nat \ {0} /\ mMaxIterations \in Nat
  /\ Keys = 0 .. MaxObjects

VARIABLES
  pc,           \* idle, empty (deletes), ready, store, error or dead
  mDeletionMode, mThreadedMonitoring, mNumberObjects,
  mMyObjects,   \* their keys
  i,            \* where the loop over the objects is
  mNumIterations, mTotalNumberObjects,
  sent,         \* the last objectsSent
  inits,        \* initialisations so far
  timers,       \* the waits pending on each timer; mTimer is the last
  due,          \* handlers that may run
  workers,      \* each thread: NoCount, the count it read, or Rearming
  cancelled,    \* history: a wait was cancelled
  run, done     \* history: iterations of this run, and of all runs

config  == <<mDeletionMode, mThreadedMonitoring, mNumberObjects>>
counts  == <<mNumIterations, mTotalNumberObjects>>
threads == <<timers, due, workers, cancelled>>
vars    == <<database, pc, config, mMyObjects, i, counts, sent, inits, threads, run, done>>

NoCount == MaxStores + 1   \* runs no handler
Rearming == MaxStores + 2  \* between expires_at() and async_wait()

Init ==
  /\ DatabaseInit
  /\ pc = "idle"
  /\ mDeletionMode = FALSE /\ mThreadedMonitoring = TRUE /\ mNumberObjects = 1
  /\ mMyObjects = << >> /\ i = 0
  /\ mNumIterations = 0 /\ mTotalNumberObjects = 0
  /\ sent = 0 /\ inits = 0
  /\ timers = << >> /\ due = 0 /\ workers = << >> /\ cancelled = FALSE
  /\ run = 0 /\ done = 0

-----------------------------------------------------------------------------
(* The device thread.                                                      *)

\* The end of InitTask(): the objects come after those there are, and so do
\* the timer with its wait and the thread.
Prepare(n, threaded) ==
  /\ mMyObjects' = mMyObjects \o [k \in 1 .. n |-> k]
  /\ timers' = IF threaded THEN Append(timers, 1) ELSE timers
  /\ workers' = IF threaded THEN Append(workers, NoCount) ELSE workers
  /\ pc' = "ready"

\* The configuration may be another one each time.
InitTask(delete, threaded, n) ==
  /\ pc = "idle"
  /\ inits < MaxInits
  /\ inits' = inits + 1
  /\ mDeletionMode' = delete /\ mThreadedMonitoring' = threaded /\ mNumberObjects' = n
  /\ i' = 0
  /\ IF delete THEN pc' = "empty" /\ UNCHANGED <<mMyObjects, timers, workers>>
               ELSE Prepare(n, threaded)
  /\ UNCHANGED <<database, counts, sent, due, cancelled, run, done>>

LastOne == mNumberObjects

\* emptyDatabase(): the object name without a number, and every object.
EmptyDatabase ==
  /\ pc = "empty"
  /\ Truncate(i)
  /\ i' = i + 1
  /\ IF i < LastOne THEN UNCHANGED <<pc, mMyObjects, timers, workers>>
                     ELSE Prepare(mNumberObjects, mThreadedMonitoring)
  /\ UNCHANGED <<config, counts, sent, inits, due, cancelled, run, done>>

\* The device runs; in deletion mode the run is over at once.
Run ==
  /\ pc = "ready"
  /\ run' = 0
  /\ IF mDeletionMode THEN UNCHANGED <<pc, i>> ELSE pc' = "store" /\ i' = 1
  /\ UNCHANGED <<database, config, mMyObjects, counts, sent, inits, threads, done>>

\* The next object is handed to the database, or the database throws.
StoreObject ==
  /\ pc = "store"
  /\ i <= mNumberObjects
  /\ uploading = NoKey
  /\ IF mMyObjects[i] \in BadKeys
     THEN pc' = "error" /\ UNCHANGED database
     ELSE Store(mMyObjects[i]) /\ UNCHANGED pc
  /\ UNCHANGED <<config, mMyObjects, i, counts, sent, inits, threads, run, done>>

MutantCounted == IF i = 1 THEN 1 ELSE mTotalNumberObjects + 1

Counted == mTotalNumberObjects + 1

\* store() returns.
Stored ==
  /\ Uploaded
  /\ mTotalNumberObjects' = Counted
  /\ i' = i + 1
  /\ UNCHANGED <<pc, config, mMyObjects, mNumIterations, sent, inits, threads, run, done>>

LimitReached == mMaxIterations > 0 /\ mNumIterations + 1 >= mMaxIterations

\* The last object is stored, and the count sent if no thread does it.
IterationStored ==
  /\ pc = "store"
  /\ i > mNumberObjects
  /\ uploading = NoKey
  /\ sent' = IF mThreadedMonitoring THEN sent ELSE mTotalNumberObjects

\* The end of an iteration and, if the limit is not reached and the device is
\* not stopped, the begin of the next one.
EndIteration ==
  /\ IterationStored
  /\ mNumberObjects > 0
  /\ mNumIterations' = IF mMaxIterations > 0 THEN mNumIterations + 1 ELSE mNumIterations
  /\ run' = run + 1 /\ done' = done + 1
  /\ \/ ~LimitReached /\ i' = 1 /\ UNCHANGED pc
     \/ pc' = "ready" /\ UNCHANGED i
  /\ UNCHANGED <<database, config, mMyObjects, mTotalNumberObjects, inits, threads>>

\* Without objects, the time for one of them is a division by zero: the
\* process dies in the first iteration, and every thread with it.
DivideByZero ==
  /\ IterationStored
  /\ mNumberObjects = 0
  /\ pc' = "dead"
  /\ UNCHANGED <<database, config, mMyObjects, i, counts, inits, threads, run, done>>

\* The device is reset: it has no handler for that.
ResetTask ==
  /\ pc = "ready"
  /\ pc' = "idle"
  /\ UNCHANGED <<database, config, mMyObjects, i, counts, sent, inits, threads, run, done>>

-----------------------------------------------------------------------------
(* The threads of the timers.                                              *)

Alive == pc # "dead"

\* All waits on a timer that expires are over.
Expire(t) ==
  /\ Alive
  /\ timers[t] > 0
  /\ timers' = [timers EXCEPT ![t] = 0]
  /\ due' = due + timers[t]
  /\ UNCHANGED <<database, pc, config, mMyObjects, i, counts, sent, inits, workers, cancelled, run, done>>

\* checkTimedOut(): the argument of send() is read from the device thread.
ReadCount(w) ==
  /\ Alive
  /\ due > 0
  /\ workers[w] = NoCount
  /\ due' = due - 1
  /\ workers' = [workers EXCEPT ![w] = mTotalNumberObjects]
  /\ UNCHANGED <<database, pc, config, mMyObjects, i, counts, sent, inits, timers, cancelled, run, done>>

\* The count is sent, and expires_at() of mTimer called: handlers whose wait is
\* cancelled run at once, whether the time is over or not.
SendCount(w) ==
  LET t == Len(timers) IN
  /\ Alive
  /\ workers[w] \notin {NoCount, Rearming}
  /\ sent' = workers[w]
  /\ workers' = [workers EXCEPT ![w] = Rearming]
  /\ due' = due + timers[t]
  /\ timers' = [timers EXCEPT ![t] = 0]
  /\ cancelled' = (cancelled \/ timers[t] > 0)
  /\ UNCHANGED <<database, pc, config, mMyObjects, i, counts, inits, run, done>>

MutantWaits(n) == 1

\* One wait more; another thread may have set one since expires_at().
Waits(n) == n + 1

\* async_wait(), on what is mTimer by now.
AsyncWait(w) ==
  /\ Alive
  /\ workers[w] = Rearming
  /\ workers' = [workers EXCEPT ![w] = NoCount]
  /\ timers' = [timers EXCEPT ![Len(timers)] = Waits(@)]
  /\ UNCHANGED <<database, pc, config, mMyObjects, i, counts, sent, inits, due, cancelled, run, done>>

Next ==
  \/ \E delete, threaded \in BOOLEAN, n \in 0 .. MaxObjects : InitTask(delete, threaded, n)
  \/ EmptyDatabase \/ Run \/ StoreObject \/ Stored \/ EndIteration \/ DivideByZero \/ ResetTask
  \/ \E t \in DOMAIN timers : Expire(t) \/ ReadCount(t) \/ SendCount(t) \/ AsyncWait(t)

Spec == Init /\ [][Next]_vars

-----------------------------------------------------------------------------
If(condition) == IF condition THEN 1 ELSE 0

StoresOf(k) == Cardinality({v \in DOMAIN log : log[v] = k})

\* However the device and the timers interleave, every initialisation with
\* monitoring has one handler that waits, is due or runs, however many waits
\* there are on one timer: the count goes on to be sent. While there is one timer, no handler runs before its time.
OneHandlerPerTimer ==
  /\ SumFunction(timers) + due
       + Cardinality({w \in DOMAIN workers : workers[w] # NoCount}) = Len(timers)
  /\ Len(timers) = 1 => ~cancelled

\* While the device is initialised once, the counts that are sent never go
\* back, though the thread that sends them reads a number the other writes: a
\* rate derived from them is never negative.
SentGrows == [][inits = 1 => sent' >= sent]_vars

\* While the device is initialised once, an object is stored once in every
\* iteration, those before it in the one that goes on included, and nothing
\* else is stored: the total is what all runs have stored.
EveryObjectStored ==
  /\ inits = 1 /\ uploading = NoKey =>
       \A k \in 1 .. mNumberObjects : StoresOf(k) = done + If(pc \in {"store", "error"} /\ k < i)
  /\ uploading = NoKey => mTotalNumberObjects = Len(log)

\* No run is longer than the limit, and one that begins when earlier runs have
\* reached it is over after one iteration.
RunsAreLimited ==
  mMaxIterations > 0 => run <= mMaxIterations /\ (mNumIterations > mMaxIterations => run <= 1)
=============================================================================
