--------------------- MODULE RepositoryBenchmarkProofs ----------------------
(***************************************************************************)
(* The device that fills the CCDB, for every number of objects, every      *)
(* limit of iterations and any number of initialisations: what it does to  *)
(* the database implements Repository, no run is longer than the limit, no *)
(* handler of a timer is lost or made twice, and the first life stores     *)
(* every object as often as it counts.                                     *)
(***************************************************************************)
EXTENDS RepositoryBenchmark, FoldTheorems, TLAPS

(***************************************************************************)
(* The inductive invariant. The loop stays among the objects there are, an *)
(* upload is that of the last object in the log, which is not deleted.     *)
(***************************************************************************)
Uploads ==
  /\ log \in Seq(Keys)
  /\ visible \in [Keys -> Nat]
  /\ uploading \in Keys \cup {NoKey}
  /\ deleted \subseteq DOMAIN log
  /\ uploading # NoKey => Len(log) > 0 /\ log[Len(log)] = uploading /\ Len(log) \notin deleted

Loop ==
  /\ pc \in {"idle", "empty", "ready", "store", "error", "dead"}
  /\ mDeletionMode \in BOOLEAN
  /\ mNumberObjects \in 0 .. MaxObjects
  /\ mMyObjects \in Seq(1 .. MaxObjects)
  /\ i \in Nat
  /\ pc \in {"ready", "store"} => mNumberObjects <= Len(mMyObjects)
  /\ pc = "empty" => i <= mNumberObjects /\ mDeletionMode
  /\ pc = "store" => i >= 1 /\ ~mDeletionMode
  /\ uploading # NoKey => pc = "store"

Limit ==
  /\ run \in Nat /\ mNumIterations \in Nat
  /\ mMaxIterations > 0 =>
       /\ run <= mNumIterations
       /\ run <= mMaxIterations
       /\ mNumIterations > mMaxIterations => run <= 1
       /\ pc \in {"store", "error"} => run = 0 \/ mNumIterations < mMaxIterations

BInv == Uploads /\ Loop

-----------------------------------------------------------------------------
\* The names of the objects are the numbers up to the greatest.
LEMMA ObjectsAreKeys == \A n \in 0 .. MaxObjects : 0 .. n \subseteq Keys /\ 1 .. n \subseteq Keys
  BY BenchmarkAssumption

LEMMA ElementOf ==
  ASSUME NEW S, NEW s \in Seq(S), NEW n \in 1 .. Len(s)
  PROVE  s[n] \in S
  OBVIOUS

LEMMA AppendedTo ==
  ASSUME NEW S, NEW s \in Seq(S), NEW e \in S
  PROVE  LET t == Append(s, e) IN t \in Seq(S) /\ Len(t) = Len(s) + 1 /\ t[Len(t)] = e
  OBVIOUS

\* Objects that are prepared come after those there are.
LEMMA PreparedObjects ==
  ASSUME NEW s \in Seq(1 .. MaxObjects), NEW n \in 0 .. MaxObjects
  PROVE  /\ s \o [k \in 1 .. n |-> k] \in Seq(1 .. MaxObjects)
         /\ n <= Len(s \o [k \in 1 .. n |-> k])
<1> DEFINE p == [k \in 1 .. n |-> k]
<1>1. p \in Seq(1 .. MaxObjects) /\ Len(p) = n
  BY BenchmarkAssumption
<1>2. s \o p \in Seq(1 .. MaxObjects) /\ Len(s \o p) = Len(s) + n
  BY <1>1
<1> QED BY <1>2, BenchmarkAssumption

LEMMA InitEstablishes == Init => BInv /\ Limit
<1> SUFFICES ASSUME Init PROVE BInv /\ Limit
  OBVIOUS
<1>1. Uploads
  BY DEF Init, DatabaseInit, Uploads
<1>2. Loop
  BY BenchmarkAssumption DEF Init, DatabaseInit, Loop
<1>3. Limit
  BY BenchmarkAssumption DEF Init, Limit
<1> QED BY <1>1, <1>2, <1>3 DEF BInv

LEMMA StepPreserves == BInv /\ [Next]_vars => BInv'
<1> SUFFICES ASSUME BInv, [Next]_vars PROVE BInv'
  OBVIOUS
<1>0. Uploads /\ Loop
  BY DEF BInv
<1>1. ASSUME NEW delete \in BOOLEAN, NEW threaded \in BOOLEAN, NEW n \in 0 .. MaxObjects,
             InitTask(delete, threaded, n)
      PROVE  BInv'
  <2>1. Uploads'
    BY <1>0, <1>1 DEF InitTask, Uploads, database
  <2>2. uploading = NoKey /\ uploading' = uploading
    BY <1>0, <1>1 DEF InitTask, Loop, database
  <2>3. CASE delete
    <3>1. /\ pc' = "empty" /\ mMyObjects' = mMyObjects
          /\ i' = 0 /\ mDeletionMode' /\ mNumberObjects' = n
      BY <1>1, <2>3 DEF InitTask
    <3>2. Loop'
      BY <1>0, <2>2, <3>1, BenchmarkAssumption DEF Loop
    <3> QED BY <2>1, <3>2 DEF BInv
  <2>4. CASE ~delete
    <3>1. /\ pc' = "ready" /\ mMyObjects' = mMyObjects \o [k \in 1 .. n |-> k]
          /\ i' = 0 /\ mDeletionMode' = FALSE /\ mNumberObjects' = n
      BY <1>1, <2>4 DEF InitTask, Prepare
    <3>2. mMyObjects' \in Seq(1 .. MaxObjects) /\ n <= Len(mMyObjects')
      BY <1>0, <3>1, PreparedObjects DEF Loop
    <3>3. Loop'
      BY <1>0, <2>2, <3>1, <3>2, BenchmarkAssumption DEF Loop
    <3> QED BY <2>1, <3>3 DEF BInv
  <2> QED BY <2>3, <2>4
<1>2. CASE EmptyDatabase
  <2>1. /\ pc = "empty" /\ uploading = NoKey /\ UNCHANGED <<log, uploading>> /\ i' = i + 1
        /\ UNCHANGED <<mDeletionMode, mNumberObjects>>
    BY <1>2 DEF EmptyDatabase, Truncate, config
  <2>2. i \in 0 .. mNumberObjects /\ mNumberObjects \in 0 .. MaxObjects /\ mDeletionMode
    BY <1>0, <2>1 DEF Loop
  <2>3. Uploads'
    <3>1. visible' \in [Keys -> Nat] /\ deleted' \subseteq DOMAIN log
      BY <1>0, <1>2 DEF EmptyDatabase, Truncate, VersionsOf, Uploads
    <3> QED BY <1>0, <2>1, <3>1 DEF Uploads
  <2>4. CASE i < mNumberObjects
    <3>1. UNCHANGED <<pc, mMyObjects>>
      BY <1>2, <2>4 DEF EmptyDatabase, LastOne
    <3>2. Loop'
      BY <1>0, <2>1, <2>2, <2>4, <3>1, BenchmarkAssumption DEF Loop
    <3> QED BY <2>3, <3>2 DEF BInv
  <2>5. CASE i = mNumberObjects
    <3>1. pc' = "ready" /\ mMyObjects' = mMyObjects \o [k \in 1 .. mNumberObjects |-> k]
      BY <1>2, <2>2, <2>5, BenchmarkAssumption DEF EmptyDatabase, LastOne, Prepare
    <3>2. mMyObjects' \in Seq(1 .. MaxObjects) /\ mNumberObjects <= Len(mMyObjects')
      BY <1>0, <2>2, <3>1, PreparedObjects DEF Loop
    <3>3. Loop'
      BY <1>0, <2>1, <2>2, <3>1, <3>2, BenchmarkAssumption DEF Loop
    <3> QED BY <2>3, <3>3 DEF BInv
  <2> QED BY <2>2, <2>4, <2>5, BenchmarkAssumption
<1>3. CASE Run
  <2>1. /\ pc = "ready" /\ UNCHANGED <<log, visible, deleted, uploading>>
        /\ UNCHANGED <<mDeletionMode, mNumberObjects, mMyObjects>>
        /\ IF mDeletionMode THEN UNCHANGED <<pc, i>> ELSE pc' = "store" /\ i' = 1
    BY <1>3 DEF Run, database, config
  <2>2. Uploads'
    BY <1>0, <2>1 DEF Uploads
  <2>3. Loop'
    BY <1>0, <2>1 DEF Loop
  <2> QED BY <2>2, <2>3 DEF BInv
<1>4. CASE StoreObject
  <2>1. /\ pc = "store" /\ i <= mNumberObjects /\ UNCHANGED <<visible, deleted>>
        /\ UNCHANGED <<mDeletionMode, mNumberObjects, mMyObjects, i>>
        /\ uploading = NoKey /\ pc' \in {"store", "error"}
    BY <1>4 DEF StoreObject, config, database, Store
  <2>2. mMyObjects[i] \in Keys
    <3>1. i \in 1 .. Len(mMyObjects) /\ mMyObjects \in Seq(1 .. MaxObjects)
      BY <1>0, <2>1, BenchmarkAssumption DEF Loop
    <3>2. mMyObjects[i] \in 1 .. MaxObjects
      BY <3>1, ElementOf
    <3> QED BY <3>2, BenchmarkAssumption
  <2>3. \/ pc' = "error" /\ UNCHANGED <<log, uploading>>
        \/ pc' = "store" /\ log' = Append(log, mMyObjects[i]) /\ uploading' = mMyObjects[i]
    BY <1>4, <2>1 DEF StoreObject, Store, database
  <2>4. Uploads'
    <3>1. CASE UNCHANGED <<log, uploading>>
      BY <1>0, <2>1, <3>1 DEF Uploads
    <3>2. CASE log' = Append(log, mMyObjects[i]) /\ uploading' = mMyObjects[i]
      <4>1. log' \in Seq(Keys) /\ Len(log') = Len(log) + 1 /\ log'[Len(log')] = mMyObjects[i]
        BY <1>0, <2>2, <3>2, AppendedTo DEF Uploads
      <4>2. Len(log) \in Nat
        BY <1>0 DEF Uploads
      <4> QED BY <1>0, <2>1, <2>2, <3>2, <4>1, <4>2 DEF Uploads
    <3> QED BY <2>3, <3>1, <3>2
  <2>5. Loop'
    BY <1>0, <2>1, <2>3 DEF Loop
  <2> QED BY <2>4, <2>5 DEF BInv
<1>5. CASE Stored
  <2>1. /\ uploading # NoKey /\ uploading' = NoKey /\ log' = log
        /\ visible' = [visible EXCEPT ![uploading] = Len(log)] \/ visible' = visible
        /\ deleted' = deleted
        /\ UNCHANGED <<pc, mDeletionMode, mNumberObjects, mMyObjects>> /\ i' = i + 1
    BY <1>5 DEF Stored, Uploaded, Path, config
  <2>2. pc = "store"
    BY <1>0, <2>1 DEF Loop
  <2>3. Uploads'
    BY <1>0, <2>1 DEF Uploads
  <2>4. Loop'
    BY <1>0, <2>1, <2>2 DEF Loop
  <2> QED BY <2>3, <2>4 DEF BInv
<1>6. CASE EndIteration \/ DivideByZero
  <2>1. /\ pc = "store" /\ pc' \in {"store", "ready", "dead"} /\ i' \in {1, i}
        /\ UNCHANGED <<log, visible, deleted, uploading>> /\ uploading = NoKey
        /\ UNCHANGED <<mDeletionMode, mNumberObjects, mMyObjects>>
    BY <1>6 DEF EndIteration, DivideByZero, IterationStored, database, config
  <2>2. Uploads'
    BY <1>0, <2>1 DEF Uploads
  <2>3. Loop'
    BY <1>0, <2>1 DEF Loop
  <2> QED BY <2>2, <2>3 DEF BInv
<1>7. CASE ResetTask
  <2>1. /\ pc = "ready" /\ pc' = "idle" /\ UNCHANGED <<log, visible, deleted, uploading, i>>
        /\ UNCHANGED <<mDeletionMode, mNumberObjects, mMyObjects>>
    BY <1>7 DEF ResetTask, database, config
  <2>2. Uploads'
    BY <1>0, <2>1 DEF Uploads
  <2>3. Loop'
    BY <1>0, <2>1 DEF Loop
  <2> QED BY <2>2, <2>3 DEF BInv
<1>8. CASE (\E t \in DOMAIN timers : Expire(t) \/ ReadCount(t) \/ SendCount(t) \/ AsyncWait(t)) \/ UNCHANGED vars
  <2>1. UNCHANGED <<log, visible, deleted, uploading, pc, mDeletionMode, mNumberObjects, mMyObjects, i>>
    BY <1>8 DEF Expire, ReadCount, SendCount, AsyncWait, vars, database, config
  <2> QED BY <1>0, <2>1 DEF BInv, Uploads, Loop
<1> QED BY <1>1, <1>2, <1>3, <1>4, <1>5, <1>6, <1>7, <1>8 DEF Next

THEOREM Invariance == Spec => []BInv
  BY InitEstablishes, StepPreserves, PTL DEF Spec

-----------------------------------------------------------------------------
LEMMA StepImplements == BInv /\ [Next]_vars => [R!Next]_<<log, visible, deleted>>
<1> SUFFICES ASSUME BInv, [Next]_vars, UNCHANGED <<log, visible, deleted>> => FALSE
             PROVE  R!Next
  OBVIOUS
<1>0. Uploads /\ Loop
  BY DEF BInv
<1>1. CASE EmptyDatabase
  <2>1. i \in Keys
    <3>1. pc = "empty"
      BY <1>1 DEF EmptyDatabase
    <3>2. i \in 0 .. mNumberObjects /\ mNumberObjects \in 0 .. MaxObjects
      BY <1>0, <3>1 DEF Loop
    <3> QED BY <3>2, ObjectsAreKeys
  <2>2. R!Hide(i)
    <3>1. /\ visible' = [visible EXCEPT ![i] = 0] /\ log' = log
          /\ deleted' = deleted \cup VersionsOf(i)
      BY <1>1 DEF EmptyDatabase, Truncate
    <3> QED BY <3>1 DEF R!Hide, R!Nothing, R!Versions, VersionsOf
  <2> QED BY <2>1, <2>2 DEF R!Next
<1>2. CASE StoreObject
  <2>1. pc = "store" /\ i <= mNumberObjects
    BY <1>2 DEF StoreObject
  <2>2. i \in 1 .. Len(mMyObjects) /\ mMyObjects \in Seq(1 .. MaxObjects)
    BY <1>0, <2>1, BenchmarkAssumption DEF Loop
  <2>3. mMyObjects[i] \in Keys
    <3>1. mMyObjects[i] \in 1 .. MaxObjects
      BY <2>2, ElementOf
    <3> QED BY <3>1, BenchmarkAssumption
  <2>4. mMyObjects[i] \notin BadKeys
    BY <1>2 DEF StoreObject, database
  <2>5. log' = Append(log, mMyObjects[i]) /\ UNCHANGED <<visible, deleted>>
    BY <1>2, <2>4 DEF StoreObject, Store
  <2>6. R!Submit(mMyObjects[i])
    BY <2>5 DEF R!Submit
  <2> QED BY <2>3, <2>6 DEF R!Next
<1>3. CASE Stored
  <2>1. /\ uploading # NoKey /\ UNCHANGED <<log, deleted>>
        /\ visible' = [visible EXCEPT ![uploading] = Len(log)]
    BY <1>3 DEF Stored, Uploaded, Path
  <2>2. uploading \in Keys /\ Len(log) \in DOMAIN log /\ log[Len(log)] = uploading
        /\ Len(log) \notin deleted
    BY <1>0, <2>1 DEF Uploads
  <2>3. R!Show(uploading)
    BY <2>1, <2>2 DEF R!Show, R!Versions
  <2> QED BY <2>2, <2>3 DEF R!Next
<1>4. CASE \/ \E delete, threaded \in BOOLEAN, n \in 0 .. MaxObjects : InitTask(delete, threaded, n)
           \/ Run \/ EndIteration \/ DivideByZero \/ ResetTask
           \/ \E t \in DOMAIN timers : Expire(t) \/ ReadCount(t) \/ SendCount(t) \/ AsyncWait(t)
           \/ UNCHANGED vars
  <2>1. UNCHANGED <<log, visible, deleted>>
    BY <1>4 DEF InitTask, Run, EndIteration, DivideByZero, IterationStored, ResetTask, Expire, ReadCount, SendCount, AsyncWait,
       vars, database
  <2> QED BY <2>1
<1> QED BY <1>1, <1>2, <1>3, <1>4 DEF Next

\* Whichever uploads and deletions fail and however often the device deletes,
\* what can be retrieved under a key was stored under that key and not deleted.
THEOREM ImplementsRepository == Spec => RepositorySpec
<1>1. Init => R!Init
  BY DEF Init, DatabaseInit, R!Init, R!Nothing
<1> QED BY <1>1, StepImplements, Invariance, PTL DEF Spec, RepositorySpec, R!Spec

\* The steps of Repository keep to its promise.
Promise ==
  /\ log \in Seq(Keys)
  /\ deleted \subseteq DOMAIN log
  /\ visible \in [Keys -> Nat]
  /\ R!VisibleWasStored

LEMMA PromiseStep == Promise /\ [R!Next]_<<log, visible, deleted>> => Promise'
<1> SUFFICES ASSUME Promise, [R!Next]_<<log, visible, deleted>> PROVE Promise'
  OBVIOUS
<1> USE DEF R!Versions, R!Nothing, R!VisibleWasStored
<1>0. \A k \in Keys : visible[k] = 0 \/ (visible[k] \in DOMAIN log /\ log[visible[k]] = k
                                           /\ visible[k] \notin deleted)
  BY DEF Promise
<1>1. ASSUME NEW k \in Keys, R!Submit(k) PROVE Promise'
  <2>1. log' = Append(log, k) /\ UNCHANGED <<visible, deleted>>
    BY <1>1 DEF R!Submit
  <2>2. log' \in Seq(Keys) /\ \A v \in DOMAIN log : v \in DOMAIN log' /\ log'[v] = log[v]
    BY <2>1 DEF Promise
  <2> QED BY <1>0, <2>1, <2>2 DEF Promise
<1>2. ASSUME NEW k \in Keys, R!Show(k) PROVE Promise'
  <2>1. PICK v \in DOMAIN log : /\ log[v] = k /\ v \notin deleted
                                /\ visible' = [visible EXCEPT ![k] = v]
                                /\ UNCHANGED <<log, deleted>>
    BY <1>2 DEF R!Show
  <2>2. v \in Nat
    BY DEF Promise
  <2> QED BY <1>0, <2>1, <2>2 DEF Promise
<1>3. ASSUME NEW k \in Keys, R!Hide(k) PROVE Promise'
  <2>1. /\ visible' = [visible EXCEPT ![k] = 0] /\ log' = log
        /\ deleted' = deleted \cup {v \in DOMAIN log : log[v] = k}
    BY <1>3 DEF R!Hide
  <2> QED BY <1>0, <2>1 DEF Promise
<1>4. CASE UNCHANGED <<log, visible, deleted>>
  BY <1>4 DEF Promise
<1> QED BY <1>1, <1>2, <1>3, <1>4 DEF R!Next

\* Whichever uploads and deletions fail: the object that retrieve() finds under
\* a key was stored under it, and no deletion took it away before.
THEOREM RetrievedWasStored == Spec => []R!VisibleWasStored
<1>1. R!Init => Promise
  BY DEF R!Init, R!Nothing, R!VisibleWasStored, Promise
<1>2. Promise => R!VisibleWasStored
  BY DEF Promise
<1> QED BY <1>1, <1>2, PromiseStep, ImplementsRepository, PTL DEF RepositorySpec, R!Spec

-----------------------------------------------------------------------------
LEMMA LimitPreserved == Loop /\ Limit /\ [Next]_vars => Limit'
<1> SUFFICES ASSUME Loop, Limit, [Next]_vars PROVE Limit'
  OBVIOUS
<1>1. CASE Run
  <2>1. run' = 0 /\ mNumIterations' = mNumIterations
    BY <1>1 DEF Run, counts
  <2> QED BY <2>1, BenchmarkAssumption DEF Limit
<1>2. CASE EndIteration
  <2>1. /\ pc = "store" /\ run' = run + 1
        /\ mNumIterations' = IF mMaxIterations > 0 THEN mNumIterations + 1 ELSE mNumIterations
        /\ (~LimitReached /\ pc' = pc) \/ pc' = "ready"
    BY <1>2 DEF EndIteration, IterationStored
  <2>2. CASE mMaxIterations > 0
    <3>1. mNumIterations' = mNumIterations + 1 /\ run <= mNumIterations
          /\ run \in Nat /\ mNumIterations \in Nat /\ mMaxIterations \in Nat
          /\ (run = 0 \/ mNumIterations < mMaxIterations)
      BY <2>1, <2>2, BenchmarkAssumption DEF Limit
    <3> QED BY <2>1, <2>2, <3>1 DEF Limit, LimitReached
  <2>3. CASE ~(mMaxIterations > 0)
    BY <2>1, <2>3 DEF Limit
  <2> QED BY <2>2, <2>3
<1>3. CASE \/ \E delete, threaded \in BOOLEAN, n \in 0 .. MaxObjects : InitTask(delete, threaded, n)
           \/ EmptyDatabase \/ ResetTask
  <2>1. UNCHANGED <<run, mNumIterations>> /\ pc' \in {"empty", "ready", "idle"}
    BY <1>3 DEF InitTask, EmptyDatabase, ResetTask, Prepare, counts
  <2> QED BY <2>1 DEF Limit
<1>4. CASE StoreObject
  <2>1. UNCHANGED <<run, mNumIterations>> /\ pc = "store"
    BY <1>4 DEF StoreObject, counts
  <2> QED BY <2>1 DEF Limit
<1>5. CASE Stored
  <2>1. UNCHANGED <<run, mNumIterations, pc>>
    BY <1>5 DEF Stored
  <2> QED BY <2>1 DEF Limit
<1>6. CASE DivideByZero
  <2>1. UNCHANGED <<run, mNumIterations>> /\ pc' = "dead"
    BY <1>6 DEF DivideByZero, counts
  <2> QED BY <2>1 DEF Limit
<1>7. CASE (\E t \in DOMAIN timers : Expire(t) \/ ReadCount(t) \/ SendCount(t) \/ AsyncWait(t)) \/ UNCHANGED vars
  <2>1. UNCHANGED <<run, mNumIterations, pc>>
    BY <1>7 DEF Expire, ReadCount, SendCount, AsyncWait, vars, counts
  <2> QED BY <2>1 DEF Limit
<1> QED BY <1>1, <1>2, <1>3, <1>4, <1>5, <1>6, <1>7 DEF Next

\* Over any number of runs, no run is longer than the limit, and one that
\* begins with the limit reached is over after one iteration.
THEOREM RunsStayLimited == Spec => []RunsAreLimited
<1>1. BInv => Loop
  BY DEF BInv
<1>2. Limit => RunsAreLimited
  BY BenchmarkAssumption DEF Limit, RunsAreLimited
<1> QED BY <1>1, <1>2, InitEstablishes, LimitPreserved, Invariance, PTL DEF Spec

-----------------------------------------------------------------------------
(***************************************************************************)
(* The counts of the first initialisation: there is one thread at most,    *)
(* and none without threaded monitoring. The count it has read lies        *)
(* between the one sent last and the total.                                *)
(***************************************************************************)
Threads ==
  /\ timers \in Seq(Nat) /\ workers \in Seq(Nat) /\ Len(timers) = Len(workers)
  /\ mThreadedMonitoring \in BOOLEAN
  /\ inits \in Nat /\ sent \in Nat /\ mTotalNumberObjects \in Nat

FirstLife ==
  /\ inits = 0 => pc = "idle" /\ workers = << >> /\ sent = 0
  /\ inits = 1 =>
       /\ sent <= mTotalNumberObjects
       /\ pc = "empty" \/ ~mThreadedMonitoring => workers = << >>
       /\ Len(workers) <= 1
       /\ \A w \in DOMAIN workers :
            workers[w] \notin {NoCount, Rearming} => sent <= workers[w] /\ workers[w] <= mTotalNumberObjects

SInv == Threads /\ FirstLife

LEMMA ThreadsAppended ==
  ASSUME NEW s \in Seq(Nat), NEW e \in Nat
  PROVE  /\ Append(s, e) \in Seq(Nat) /\ Len(Append(s, e)) = Len(s) + 1
         /\ s = << >> => Append(s, e)[1] = e
  OBVIOUS

LEMMA ThreadSet ==
  ASSUME NEW s \in Seq(Nat), NEW n \in DOMAIN s, NEW e \in Nat
  PROVE  LET r == [s EXCEPT ![n] = e] IN
         /\ r \in Seq(Nat) /\ Len(r) = Len(s) /\ DOMAIN r = DOMAIN s
         /\ r[n] = e /\ \A o \in DOMAIN s : o # n => r[o] = s[o]
<1> DEFINE r == [s EXCEPT ![n] = e]
<1>1. DOMAIN s = 1 .. Len(s) /\ Len(s) \in Nat /\ s \in [1 .. Len(s) -> Nat]
  OBVIOUS
<1>2. r \in [1 .. Len(s) -> Nat] /\ r[n] = e /\ \A o \in DOMAIN s : o # n => r[o] = s[o]
  BY <1>1
<1>3. r \in Seq(Nat)
  BY <1>1, <1>2
<1>4. Len(r) = Len(s) /\ DOMAIN r = DOMAIN s
  BY <1>1, <1>2, <1>3
<1> QED BY <1>2, <1>3, <1>4

\* With one thread, what holds of the one that was changed holds of all.
LEMMA OnlyThread ==
  ASSUME NEW s \in Seq(Nat), Len(s) <= 1, NEW n \in DOMAIN s
  PROVE  n = 1 /\ DOMAIN s = {1}
<1>1. DOMAIN s = 1 .. Len(s) /\ Len(s) \in Nat
  OBVIOUS
<1>2. n >= 1 /\ n <= Len(s) /\ n \in Nat
  BY <1>1
<1>3. n = 1 /\ Len(s) = 1
  BY <1>1, <1>2
<1> QED BY <1>1, <1>3

\* A thread reads the total.
LEMMA ThreadChanged ==
  ASSUME Threads, FirstLife, NEW w \in DOMAIN timers,
         workers' = [workers EXCEPT ![w] = mTotalNumberObjects],
         UNCHANGED <<pc, timers, inits, sent, mTotalNumberObjects, mThreadedMonitoring>>
  PROVE  Threads' /\ FirstLife'
<1>1. workers \in Seq(Nat) /\ w \in DOMAIN workers /\ mTotalNumberObjects \in Nat
  BY DEF Threads
<1>2. /\ workers' \in Seq(Nat) /\ Len(workers') = Len(workers)
      /\ DOMAIN workers' = DOMAIN workers /\ workers'[w] = mTotalNumberObjects
  BY <1>1, ThreadSet
<1>3. Threads'
  BY <1>2 DEF Threads
<1>4. workers # << >>
  BY <1>1
<1>5. ASSUME inits = 1 PROVE \A v \in DOMAIN workers' : v = w
  BY <1>1, <1>2, <1>5, OnlyThread DEF FirstLife
<1>6. FirstLife'
  BY <1>1, <1>2, <1>4, <1>5 DEF FirstLife, NoCount, Rearming, Threads
<1> QED BY <1>3, <1>6 DEF SInv

\* What the end of an initialisation does to the thread of the first life.
LEMMA PreparePreserves ==
  ASSUME SInv, NEW n, NEW threaded \in BOOLEAN, Prepare(n, threaded),
         mThreadedMonitoring' = threaded, inits' \in Nat, inits' > 0,
         inits' = 1 => workers = << >> /\ sent <= mTotalNumberObjects,
         UNCHANGED <<sent, mTotalNumberObjects>>
  PROVE  SInv'
<1>0. NoCount \in Nat /\ Threads
  BY CcdbAssumption DEF NoCount, SInv
<1>1. CASE threaded
  <2>1. timers' = Append(timers, 1) /\ workers' = Append(workers, NoCount) /\ pc' = "ready"
    BY <1>1 DEF Prepare
  <2>2. Threads'
    BY <1>0, <2>1, ThreadsAppended DEF Threads
  <2>3. inits' = 1 => Len(workers') = 1 /\ workers'[1] = NoCount
    BY <1>0, <2>1, ThreadsAppended DEF Threads
  <2>4. DOMAIN workers' = 1 .. Len(workers')
    BY <2>2 DEF Threads
  <2> QED BY <1>1, <2>1, <2>2, <2>3, <2>4 DEF SInv, FirstLife
<1>2. CASE ~threaded
  <2>1. UNCHANGED <<timers, workers>> /\ pc' = "ready"
    BY <1>2 DEF Prepare
  <2>2. Threads'
    BY <1>0, <2>1 DEF Threads
  <2> QED BY <2>1, <2>2 DEF SInv, FirstLife
<1> QED BY <1>1, <1>2

LEMMA ThreadsPreserved == Loop /\ SInv /\ [Next]_vars => SInv'
<1> SUFFICES ASSUME Loop, SInv, [Next]_vars PROVE SInv'
  OBVIOUS
<1>0. Threads /\ FirstLife
  BY DEF SInv
<1>1. ASSUME NEW delete \in BOOLEAN, NEW threaded \in BOOLEAN, NEW n \in 0 .. MaxObjects,
             InitTask(delete, threaded, n)
      PROVE  SInv'
  <2>1. /\ inits' = inits + 1 /\ mThreadedMonitoring' = threaded
        /\ UNCHANGED <<sent, mTotalNumberObjects>>
    BY <1>1 DEF InitTask, counts
  <2>2. inits' \in Nat /\ inits' > 0
        /\ (inits' = 1 => workers = << >> /\ sent <= mTotalNumberObjects)
    BY <1>0, <2>1 DEF Threads, FirstLife
  <2>3. CASE delete
    <3>1. pc' = "empty" /\ UNCHANGED <<timers, workers>>
      BY <1>1, <2>3 DEF InitTask
    <3>2. Threads'
      BY <1>0, <2>1, <2>2, <3>1 DEF Threads
    <3>3. Len(<< >>) <= 1 /\ DOMAIN << >> = {}
      OBVIOUS
    <3>4. FirstLife'
      BY <2>1, <2>2, <3>1, <3>3 DEF FirstLife
    <3> QED BY <3>2, <3>4 DEF SInv
  <2>4. CASE ~delete
    <3>1. Prepare(n, threaded)
      BY <1>1, <2>4 DEF InitTask
    <3> QED BY <2>1, <2>2, <3>1, PreparePreserves
  <2> QED BY <2>3, <2>4
<1>2. CASE EmptyDatabase
  <2>1. pc = "empty" /\ UNCHANGED <<inits, sent, mTotalNumberObjects, mThreadedMonitoring>>
    BY <1>2 DEF EmptyDatabase, counts, config
  <2>2. inits \in Nat /\ inits > 0 /\ (inits = 1 => workers = << >> /\ sent <= mTotalNumberObjects)
    BY <1>0, <2>1 DEF Threads, FirstLife
  <2>3. CASE i < LastOne
    <3>1. UNCHANGED <<pc, timers, workers>>
      BY <1>2, <2>3 DEF EmptyDatabase
    <3> QED BY <1>0, <2>1, <3>1 DEF SInv, Threads, FirstLife, NoCount, Rearming
  <2>4. CASE ~(i < LastOne)
    <3>1. Prepare(mNumberObjects, mThreadedMonitoring)
      BY <1>2, <2>4 DEF EmptyDatabase
    <3> QED BY <1>0, <2>1, <2>2, <3>1, PreparePreserves DEF Threads
  <2> QED BY <2>3, <2>4
<1>3. CASE Run
  <2>1. /\ pc # "idle" /\ pc # "empty" /\ pc' # "empty"
        /\ UNCHANGED <<timers, workers, inits, sent, mTotalNumberObjects, mThreadedMonitoring>>
    BY <1>3 DEF Run, threads, counts, config
  <2> QED BY <1>0, <2>1 DEF SInv, Threads, FirstLife, NoCount, Rearming
<1>4. CASE StoreObject
  <2>1. /\ pc = "store" /\ pc' # "empty"
        /\ UNCHANGED <<timers, workers, inits, sent, mTotalNumberObjects, mThreadedMonitoring>>
    BY <1>4 DEF StoreObject, threads, counts, config
  <2> QED BY <1>0, <2>1 DEF SInv, Threads, FirstLife, NoCount, Rearming
<1>5. CASE Stored
  <2>1. /\ pc = "store" /\ mTotalNumberObjects' = mTotalNumberObjects + 1
        /\ UNCHANGED <<pc, timers, workers, inits, sent, mThreadedMonitoring>>
    BY <1>5 DEF Stored, Uploaded, Counted, threads, config, Loop
  <2>2. Threads'
    BY <1>0, <2>1 DEF Threads
  <2>3. \A w \in DOMAIN workers : workers[w] \in Nat
    BY <1>0 DEF Threads
  <2>4. FirstLife'
    BY <1>0, <2>1, <2>3 DEF FirstLife, Threads, NoCount, Rearming
  <2> QED BY <2>2, <2>4 DEF SInv
<1>6. CASE EndIteration \/ DivideByZero
  <2>1. /\ pc = "store" /\ pc' # "empty"
        /\ sent' = IF mThreadedMonitoring THEN sent ELSE mTotalNumberObjects
        /\ UNCHANGED <<timers, workers, inits, mTotalNumberObjects, mThreadedMonitoring>>
    BY <1>6 DEF EndIteration, DivideByZero, IterationStored, threads, config, counts
  <2>2. Threads'
    BY <1>0, <2>1 DEF Threads
  <2>3. DOMAIN << >> = {}
    OBVIOUS
  <2>4. FirstLife'
    BY <1>0, <2>1, <2>3 DEF FirstLife, Threads, NoCount, Rearming
  <2> QED BY <2>2, <2>4 DEF SInv
<1>7. CASE ResetTask
  <2>1. /\ pc = "ready" /\ pc' = "idle"
        /\ UNCHANGED <<timers, workers, inits, sent, mTotalNumberObjects, mThreadedMonitoring>>
    BY <1>7 DEF ResetTask, threads, counts, config
  <2> QED BY <1>0, <2>1 DEF SInv, Threads, FirstLife, NoCount, Rearming
<1>8. ASSUME NEW t \in DOMAIN timers, Expire(t) PROVE SInv'
  <2>1. /\ timers' = [timers EXCEPT ![t] = 0]
        /\ UNCHANGED <<pc, workers, inits, sent, mTotalNumberObjects, mThreadedMonitoring>>
    BY <1>8 DEF Expire, counts, config
  <2>2. timers' \in Seq(Nat) /\ Len(timers') = Len(timers)
    BY <1>0, <1>8, <2>1, ThreadSet DEF Threads
  <2> QED BY <1>0, <2>1, <2>2 DEF SInv, Threads, FirstLife, NoCount, Rearming
<1>9. ASSUME NEW w \in DOMAIN timers, ReadCount(w) PROVE SInv'
  <2>1. /\ workers' = [workers EXCEPT ![w] = mTotalNumberObjects]
        /\ UNCHANGED <<pc, timers, inits, sent, mTotalNumberObjects, mThreadedMonitoring>>
    BY <1>9 DEF ReadCount, counts, config
  <2> QED BY <1>0, <1>9, <2>1, ThreadChanged DEF SInv, Threads
<1>10. ASSUME NEW w \in DOMAIN timers, SendCount(w) PROVE SInv'
  <2> DEFINE t == Len(timers)
  <2>1. /\ workers[w] \notin {NoCount, Rearming} /\ sent' = workers[w]
        /\ workers' = [workers EXCEPT ![w] = Rearming]
        /\ timers' = [timers EXCEPT ![t] = 0]
        /\ UNCHANGED <<pc, inits, mTotalNumberObjects, mThreadedMonitoring>>
    BY <1>10 DEF SendCount, counts, config
  <2>2. /\ timers \in Seq(Nat) /\ workers \in Seq(Nat) /\ w \in DOMAIN workers
        /\ t \in DOMAIN timers /\ Rearming \in Nat
    BY <1>0, <1>10, CcdbAssumption DEF Threads, Rearming
  <2>3. /\ timers' \in Seq(Nat) /\ Len(timers') = Len(timers)
        /\ workers' \in Seq(Nat) /\ Len(workers') = Len(workers)
        /\ DOMAIN workers' = DOMAIN workers /\ workers'[w] = Rearming
    BY <2>1, <2>2, ThreadSet
  <2>4. Threads'
    BY <1>0, <2>1, <2>2, <2>3, ElementOf DEF Threads
  <2>5. FirstLife'
    BY <1>0, <2>1, <2>2, <2>3, OnlyThread DEF FirstLife, NoCount, Rearming
  <2> QED BY <2>4, <2>5 DEF SInv
<1>11. ASSUME NEW w \in DOMAIN timers, AsyncWait(w) PROVE SInv'
  <2> DEFINE t == Len(timers)
  <2>1. /\ workers' = [workers EXCEPT ![w] = NoCount]
        /\ timers' = [timers EXCEPT ![t] = timers[t] + 1]
        /\ UNCHANGED <<pc, inits, sent, mTotalNumberObjects, mThreadedMonitoring>>
    BY <1>11 DEF AsyncWait, Waits, counts, config
  <2>2. /\ timers \in Seq(Nat) /\ workers \in Seq(Nat) /\ w \in DOMAIN workers
        /\ t \in DOMAIN timers /\ NoCount \in Nat
    BY <1>0, <1>11, CcdbAssumption DEF Threads, NoCount
  <2>3. timers[t] + 1 \in Nat
    BY <2>2, ElementOf
  <2>4. /\ timers' \in Seq(Nat) /\ Len(timers') = Len(timers)
        /\ workers' \in Seq(Nat) /\ Len(workers') = Len(workers)
        /\ DOMAIN workers' = DOMAIN workers /\ workers'[w] = NoCount
    BY <2>1, <2>2, <2>3, ThreadSet
  <2>5. Threads'
    BY <1>0, <2>1, <2>4 DEF Threads
  <2>6. FirstLife'
    BY <1>0, <2>1, <2>2, <2>4, OnlyThread DEF FirstLife, NoCount, Rearming
  <2> QED BY <2>5, <2>6 DEF SInv
<1>12. CASE UNCHANGED vars
  <2>1. UNCHANGED <<pc, timers, workers, inits, sent, mTotalNumberObjects, mThreadedMonitoring>>
    BY <1>12 DEF vars, threads, counts, config
  <2> QED BY <1>0, <2>1 DEF SInv, Threads, FirstLife, NoCount, Rearming
<1> QED BY <1>1, <1>2, <1>3, <1>4, <1>5, <1>6, <1>7, <1>8, <1>9, <1>10, <1>11, <1>12 DEF Next

LEMMA StepGrows == SInv /\ [Next]_vars => [inits = 1 => sent' >= sent]_vars
<1> SUFFICES ASSUME SInv, Next, inits = 1 PROVE sent' >= sent
  OBVIOUS
<1>0. Threads /\ FirstLife
  BY DEF SInv
<1>1. CASE EndIteration \/ DivideByZero
  BY <1>0, <1>1 DEF EndIteration, DivideByZero, IterationStored, Threads, FirstLife
<1>2. ASSUME NEW w \in DOMAIN timers, SendCount(w) PROVE sent' >= sent
  <2>1. w \in DOMAIN workers
    BY <1>0, <1>2 DEF Threads
  <2> QED BY <1>0, <1>2, <2>1 DEF SendCount, FirstLife
<1>3. CASE \/ \E delete, threaded \in BOOLEAN, n \in 0 .. MaxObjects : InitTask(delete, threaded, n)
           \/ EmptyDatabase \/ Run \/ StoreObject \/ Stored \/ ResetTask
           \/ \E t \in DOMAIN timers : Expire(t) \/ ReadCount(t) \/ AsyncWait(t)
  <2>1. sent' = sent
    BY <1>3 DEF InitTask, EmptyDatabase, Run, StoreObject, Stored, ResetTask, Expire, ReadCount, AsyncWait
  <2> QED BY <1>0, <2>1 DEF Threads
<1> QED BY <1>1, <1>2, <1>3 DEF Next

\* In its first life the device sends counts that never go back, whatever the
\* number of objects and however long the thread rests after it read the count.
THEOREM CountsGoOn == Spec => SentGrows
<1>1. Init => SInv
  <2> SUFFICES ASSUME Init PROVE SInv
    OBVIOUS
  <2>1. Threads
    BY DEF Init, Threads
  <2>2. FirstLife
    BY DEF Init, FirstLife
  <2> QED BY <2>1, <2>2 DEF SInv
<1>2. BInv => Loop
  BY DEF BInv
<1> QED BY <1>1, <1>2, ThreadsPreserved, StepGrows, Invariance, PTL DEF Spec, SentGrows
-----------------------------------------------------------------------------
(***************************************************************************)
(* The handlers: what is added up over the timers and the threads, in any  *)
(* number of initialisations. The total is the length of the log but for   *)
(* the object that is being stored, so that no count is NoCount.           *)
(***************************************************************************)
Busy(counted) == {w \in DOMAIN counted : counted[w] # NoCount}

Total ==
  /\ mTotalNumberObjects + If(uploading # NoKey) = Len(log)
  /\ Len(log) <= MaxStores

Handlers ==
  /\ due \in Nat
  /\ cancelled \in BOOLEAN
  /\ SumFunction(timers) + due + Cardinality(Busy(workers)) = Len(timers)
  /\ Len(timers) <= 1 => ~cancelled

\* One wait more.
LEMMA SumAppended ==
  ASSUME NEW s \in Seq(Nat), NEW e \in Nat
  PROVE  SumFunction(Append(s, e)) = SumFunction(s) + e
<1> DEFINE r == Append(s, e)
           n == Len(s) + 1
           D == DOMAIN s
<1>1. /\ D = 1 .. Len(s) /\ Len(s) \in Nat /\ DOMAIN r = D \cup {n} /\ n \notin D /\ r[n] = e
      /\ \A m \in D : s[m] \in Int /\ r[m] = s[m]
  OBVIOUS
<1>2. IsFiniteSet(D)
  BY <1>1, FS_Interval
<1>3. SumFunction(r) = SumFunctionOnSet(r, D \cup {n}) /\ SumFunction(s) = SumFunctionOnSet(s, D)
  BY <1>1 DEF SumFunction
<1>4. r[n] \in Int /\ \A m \in D : s[m] \in Int /\ r[m] = s[m]
  BY <1>1
<1> HIDE DEF r, n, D
<1>5. SumFunctionOnSet(r, D \cup {n}) = SumFunctionOnSet(s, D) + r[n]
  BY <1>1, <1>2, <1>4, SumGrows
<1>6. SumFunction(r) = SumFunction(s) + e
  BY <1>1, <1>3, <1>5
<1> QED BY <1>6 DEF r

\* The waits on one timer change.
LEMMA SumSet ==
  ASSUME NEW s \in Seq(Nat), NEW n \in DOMAIN s, NEW e \in Nat
  PROVE  SumFunction([s EXCEPT ![n] = e]) = SumFunction(s) - s[n] + e
<1> DEFINE r == [s EXCEPT ![n] = e]
           D == DOMAIN s
<1>1. DOMAIN r = D /\ r[n] = e /\ r[n] \in Int /\ n \in D /\ \A m \in D \ {n} : r[m] = s[m]
  BY ThreadSet
<1>2. D = 1 .. Len(s) /\ Len(s) \in Nat /\ \A m \in D : s[m] \in Int
  OBVIOUS
<1>3. IsFiniteSet(D)
  BY <1>2, FS_Interval
<1>4. SumFunction(r) = SumFunctionOnSet(r, D) /\ SumFunction(s) = SumFunctionOnSet(s, D)
  BY <1>1 DEF SumFunction
<1> HIDE DEF r, D
<1>5. SumFunctionOnSet(r, D) = SumFunctionOnSet(s, D) - s[n] + r[n]
  BY <1>1, <1>2, <1>3, SumChange
<1>6. SumFunction(r) = SumFunction(s) - s[n] + e
  BY <1>1, <1>4, <1>5
<1> QED BY <1>6 DEF r

LEMMA SumOfThreads ==
  ASSUME NEW s \in Seq(Nat)
  PROVE  /\ SumFunction(s) \in Int
         /\ Len(s) = 1 => SumFunction(s) = s[1]
<1> DEFINE D == DOMAIN s
<1>1. D = 1 .. Len(s) /\ Len(s) \in Nat /\ \A m \in D : s[m] \in Int
  OBVIOUS
<1>2. IsFiniteSet(D) /\ SumFunction(s) = SumFunctionOnSet(s, D)
  BY <1>1, FS_Interval DEF SumFunction
<1> HIDE DEF D
<1>3. SumFunctionOnSet(s, D) \in Int
  BY <1>1, <1>2, SumType
<1>4. ASSUME Len(s) = 1 PROVE SumFunctionOnSet(s, D) = s[1]
  <2>1. 1 \in D /\ D \ {1} = {}
    BY <1>1, <1>4
  <2>2. SumFunctionOnSet(s, D) = s[1] + SumFunctionOnSet(s, D \ {1})
    BY <1>1, <1>2, <2>1, SumTake
  <2>3. SumFunctionOnSet(s, D) = s[1] + 0
    BY <2>1, <2>2, SumEmpty
  <2> QED BY <1>1, <2>1, <2>3
<1> QED BY <1>2, <1>3, <1>4

LEMMA BusyAppended ==
  ASSUME NEW s \in Seq(Nat)
  PROVE  Busy(Append(s, NoCount)) = Busy(s)
<1>1. NoCount \in Nat
  BY CcdbAssumption DEF NoCount
<1>2. /\ DOMAIN Append(s, NoCount) = (DOMAIN s) \cup {Len(s) + 1}
      /\ Append(s, NoCount)[Len(s) + 1] = NoCount
      /\ \A m \in DOMAIN s : Append(s, NoCount)[m] = s[m]
  BY <1>1
<1> QED BY <1>2 DEF Busy

LEMMA BusyFinite == \A s \in Seq(Nat) : IsFiniteSet(Busy(s)) /\ Cardinality(Busy(s)) \in Nat
<1> SUFFICES ASSUME NEW s \in Seq(Nat)
             PROVE  IsFiniteSet(Busy(s)) /\ Cardinality(Busy(s)) \in Nat
  OBVIOUS
<1>1. IsFiniteSet(DOMAIN s) /\ Busy(s) \subseteq DOMAIN s
  BY FS_Interval DEF Busy
<1> QED BY <1>1, FS_Subset, FS_CardinalityType

\* A thread begins a handler, or is done with it, or goes on.
LEMMA BusySet ==
  ASSUME NEW s \in Seq(Nat), NEW n \in DOMAIN s, NEW e \in Nat
  PROVE  LET b == Cardinality(Busy([s EXCEPT ![n] = e])) IN
         /\ s[n] = NoCount /\ e # NoCount => b = Cardinality(Busy(s)) + 1
         /\ s[n] # NoCount /\ e = NoCount => b = Cardinality(Busy(s)) - 1
         /\ s[n] # NoCount /\ e # NoCount => b = Cardinality(Busy(s))
<1> DEFINE r == [s EXCEPT ![n] = e]
<1>1. /\ r \in Seq(Nat) /\ DOMAIN r = DOMAIN s /\ r[n] = e
      /\ \A m \in DOMAIN s : m # n => r[m] = s[m]
  BY ThreadSet
<1> HIDE DEF r
<1>2. IsFiniteSet(Busy(s)) /\ Cardinality(Busy(s)) \in Nat
  BY BusyFinite
<1>3. ASSUME s[n] = NoCount, e # NoCount PROVE Cardinality(Busy(r)) = Cardinality(Busy(s)) + 1
  <2>1. Busy(r) = Busy(s) \cup {n} /\ n \notin Busy(s)
    BY <1>1, <1>3 DEF Busy
  <2> QED BY <1>2, <2>1, FS_AddElement
<1>4. ASSUME s[n] # NoCount, e = NoCount PROVE Cardinality(Busy(r)) = Cardinality(Busy(s)) - 1
  <2>1. Busy(r) = Busy(s) \ {n} /\ n \in Busy(s)
    BY <1>1, <1>4 DEF Busy
  <2> QED BY <1>2, <2>1, FS_RemoveElement
<1>5. ASSUME s[n] # NoCount, e # NoCount PROVE Cardinality(Busy(r)) = Cardinality(Busy(s))
  <2>1. Busy(r) = Busy(s)
    BY <1>1, <1>5 DEF Busy
  <2> QED BY <2>1
<1> QED BY <1>3, <1>4, <1>5 DEF r

-----------------------------------------------------------------------------
LEMMA TotalPreserved == Uploads /\ Loop /\ Threads /\ Total /\ [Next]_vars => Total'
<1> SUFFICES ASSUME Uploads, Loop, Threads, Total, [Next]_vars PROVE Total'
  OBVIOUS
<1>0. Len(log) \in Nat /\ mTotalNumberObjects \in Nat /\ MaxStores \in Nat
  BY CcdbAssumption DEF Uploads, Threads
<1>1. CASE StoreObject
  <2>1. UNCHANGED mTotalNumberObjects /\ uploading = NoKey
    BY <1>1 DEF StoreObject, counts
  <2>2. CASE UNCHANGED database
    BY <2>1, <2>2 DEF Total, database
  <2>3. CASE Store(mMyObjects[i]) /\ mMyObjects[i] \in Keys
    <3>1. Len(log') = Len(log) + 1 /\ Len(log) < MaxStores /\ uploading' # NoKey
      BY <1>0, <2>3, CcdbAssumption DEF Store, Uploads
    <3> QED BY <1>0, <2>1, <3>1 DEF Total, If
  <2>4. mMyObjects[i] \in Keys
    <3>1. i \in 1 .. Len(mMyObjects) /\ mMyObjects \in Seq(1 .. MaxObjects)
      BY <1>1, BenchmarkAssumption DEF Loop, StoreObject
    <3>2. mMyObjects[i] \in 1 .. MaxObjects
      BY <3>1, ElementOf
    <3> QED BY <3>2, BenchmarkAssumption
  <2> QED BY <1>1, <2>2, <2>3, <2>4 DEF StoreObject
<1>2. CASE Stored
  <2>1. mTotalNumberObjects' = mTotalNumberObjects + 1 /\ log' = log
        /\ uploading # NoKey /\ uploading' = NoKey
    BY <1>2 DEF Stored, Uploaded, Counted
  <2> QED BY <1>0, <2>1 DEF Total, If
<1>3. CASE EmptyDatabase
  BY <1>3 DEF EmptyDatabase, Truncate, counts, Total
<1>4. CASE \/ \E delete, threaded \in BOOLEAN, n \in 0 .. MaxObjects : InitTask(delete, threaded, n)
           \/ Run \/ EndIteration \/ DivideByZero \/ ResetTask
           \/ \E t \in DOMAIN timers : Expire(t) \/ ReadCount(t) \/ SendCount(t) \/ AsyncWait(t)
           \/ UNCHANGED vars
  <2>1. UNCHANGED <<log, uploading, mTotalNumberObjects>>
    BY <1>4 DEF InitTask, Run, EndIteration, DivideByZero, IterationStored, ResetTask, Expire, ReadCount, SendCount, AsyncWait,
       vars, counts, database
  <2> QED BY <2>1 DEF Total
<1> QED BY <1>1, <1>2, <1>3, <1>4 DEF Next

\* One timer with one wait more, and one thread that reads nothing yet.
LEMMA PrepareKeepsHandlers ==
  ASSUME Threads, Handlers, NEW n, NEW threaded \in BOOLEAN, Prepare(n, threaded),
         UNCHANGED <<due, cancelled>>
  PROVE  Handlers'
<1>1. CASE threaded
  <2>1. timers' = Append(timers, 1) /\ workers' = Append(workers, NoCount)
    BY <1>1 DEF Prepare
  <2>2. timers \in Seq(Nat) /\ workers \in Seq(Nat) /\ Len(timers) \in Nat
    BY DEF Threads
  <2>3. SumFunction(timers') = SumFunction(timers) + 1 /\ Len(timers') = Len(timers) + 1
    BY <2>1, <2>2, SumAppended
  <2>4. Busy(workers') = Busy(workers)
    BY <2>1, <2>2, BusyAppended
  <2>5. SumFunction(timers) \in Int /\ Cardinality(Busy(workers)) \in Nat
    BY <2>2, SumOfThreads, BusyFinite
  <2> QED BY <2>2, <2>3, <2>4, <2>5 DEF Handlers
<1>2. CASE ~threaded
  BY <1>2 DEF Prepare, Handlers
<1> QED BY <1>1, <1>2

\* Waits become due, and a handler that is due becomes one that runs.
LEMMA Balance ==
  \A sum \in Int, d, b, l, w \in Nat :
    sum + d + b = l =>
      /\ (sum - w) + (d + w) + b = l /\ d + w \in Nat
      /\ d > 0 => sum + (d - 1) + (b + 1) = l /\ d - 1 \in Nat
  OBVIOUS

\* What holds of the numbers before and after holds of the handlers.
LEMMA HandlersOf ==
  ASSUME NEW s, NEW d, NEW b, NEW l, s + d + b = l, d \in Nat, cancelled' \in BOOLEAN,
         SumFunction(timers)' = s, due' = d, Cardinality(Busy(workers))' = b, Len(timers)' = l,
         l <= 1 => ~cancelled'
  PROVE  Handlers'
  BY DEF Handlers

LEMMA HandlersPreserved == Threads /\ Total /\ Uploads /\ Handlers /\ [Next]_vars => Handlers'
<1> SUFFICES ASSUME Threads, Total, Uploads, Handlers, [Next]_vars PROVE Handlers'
  OBVIOUS
<1>0. /\ timers \in Seq(Nat) /\ workers \in Seq(Nat) /\ Len(timers) = Len(workers)
      /\ DOMAIN timers = 1 .. Len(timers) /\ DOMAIN workers = DOMAIN timers
      /\ SumFunction(timers) \in Int /\ Cardinality(Busy(workers)) \in Nat /\ due \in Nat
      /\ SumFunction(timers) + due + Cardinality(Busy(workers)) = Len(timers)
      /\ Len(timers) \in Nat
  BY SumOfThreads, BusyFinite DEF Threads, Handlers
<1>1. CASE \/ \E delete, threaded \in BOOLEAN, n \in 0 .. MaxObjects : InitTask(delete, threaded, n)
           \/ EmptyDatabase
  <2>1. UNCHANGED <<due, cancelled>>
    BY <1>1 DEF InitTask, EmptyDatabase
  <2>2. CASE UNCHANGED <<timers, workers>>
    BY <2>1, <2>2 DEF Handlers
  <2>3. ASSUME NEW n, NEW threaded \in BOOLEAN, Prepare(n, threaded) PROVE Handlers'
    BY <1>0, <2>1, <2>3, PrepareKeepsHandlers
  <2> QED BY <1>1, <2>2, <2>3 DEF InitTask, EmptyDatabase, Threads
<1>2. CASE Run \/ StoreObject \/ Stored \/ EndIteration \/ DivideByZero \/ ResetTask
           \/ UNCHANGED vars
  <2>1. UNCHANGED threads
    BY <1>2 DEF Run, StoreObject, Stored, EndIteration, DivideByZero, IterationStored, ResetTask, vars
  <2> QED BY <2>1 DEF threads, Handlers
<1>3. ASSUME NEW t \in DOMAIN timers, Expire(t) PROVE Handlers'
  <2>1. /\ timers' = [timers EXCEPT ![t] = 0] /\ due' = due + timers[t]
        /\ UNCHANGED <<workers, cancelled>>
    BY <1>3 DEF Expire
  <2>2. SumFunction(timers') = SumFunction(timers) - timers[t] + 0 /\ timers[t] \in Nat
        /\ Len(timers') = Len(timers)
    <3>1. SumFunction([timers EXCEPT ![t] = 0]) = SumFunction(timers) - timers[t] + 0
      BY <1>0, SumSet
    <3>2. timers[t] \in Nat /\ Len([timers EXCEPT ![t] = 0]) = Len(timers)
      BY <1>0, ThreadSet
    <3> QED BY <2>1, <3>1, <3>2
  <2> DEFINE sum == SumFunction(timers)
             busy == Cardinality(Busy(workers))
             waits == timers[t]
             all == Len(timers)
  <2>3. SumFunction(timers)' = sum - waits /\ Cardinality(Busy(workers))' = busy
        /\ Len(timers)' = all
    BY <1>0, <2>1, <2>2
  <2>4. sum \in Int /\ busy \in Nat /\ waits \in Nat /\ due' = due + waits
        /\ sum + due + busy = all /\ all \in Nat /\ due \in Nat
    BY <1>0, <2>1, <2>2
  <2>5. cancelled' \in BOOLEAN /\ (all <= 1 => ~cancelled')
    BY <2>1 DEF Handlers
  <2> HIDE DEF sum, busy, waits, all
  <2>6. (sum - waits) + (due + waits) + busy = all /\ due + waits \in Nat
    BY <2>4, Balance
  <2> QED BY <2>3, <2>4, <2>5, <2>6, HandlersOf
<1>4. ASSUME NEW w \in DOMAIN timers, ReadCount(w) PROVE Handlers'
  <2>1. /\ due > 0 /\ workers[w] = NoCount /\ due' = due - 1
        /\ workers' = [workers EXCEPT ![w] = mTotalNumberObjects]
        /\ UNCHANGED <<timers, cancelled>>
    BY <1>4 DEF ReadCount
  <2>2. mTotalNumberObjects \in Nat /\ mTotalNumberObjects # NoCount
    BY CcdbAssumption DEF Threads, Total, Uploads, If, NoCount
  <2>3. Cardinality(Busy(workers')) = Cardinality(Busy(workers)) + 1
    BY <1>0, <2>1, <2>2, BusySet
  <2> DEFINE sum == SumFunction(timers)
             busy == Cardinality(Busy(workers))
             all == Len(timers)
  <2>4. SumFunction(timers)' = sum /\ Cardinality(Busy(workers))' = busy + 1
        /\ Len(timers)' = all
    BY <2>1, <2>3
  <2>5. sum \in Int /\ busy \in Nat /\ all \in Nat /\ due \in Nat /\ sum + due + busy = all
    BY <1>0
  <2>6. cancelled' \in BOOLEAN /\ (all <= 1 => ~cancelled')
    BY <2>1 DEF Handlers
  <2> HIDE DEF sum, busy, all
  <2>7. sum + (due - 1) + (busy + 1) = all /\ due - 1 \in Nat
    BY <2>1, <2>5, Balance
  <2> QED BY <2>1, <2>4, <2>6, <2>7, HandlersOf
<1>5. ASSUME NEW w \in DOMAIN timers, SendCount(w) PROVE Handlers'
  <2> DEFINE t == Len(timers)
             sum == SumFunction(timers)
             busy == Cardinality(Busy(workers))
             waits == timers[t]
  <2>1. /\ workers[w] # NoCount /\ due' = due + waits
        /\ workers' = [workers EXCEPT ![w] = Rearming]
        /\ timers' = [timers EXCEPT ![t] = 0]
        /\ cancelled' = (cancelled \/ waits > 0)
    BY <1>5 DEF SendCount
  <2>2. t \in DOMAIN timers /\ t \in Nat /\ Rearming \in Nat /\ Rearming # NoCount
        /\ sum \in Int /\ busy \in Nat /\ sum + due + busy = t
    BY <1>0, CcdbAssumption DEF NoCount, Rearming
  <2>3. waits \in Nat
    BY <1>0, <2>2
  <2>4. Cardinality(Busy(workers))' = busy
    BY <1>0, <2>1, <2>2, BusySet
  <2> HIDE DEF t, waits
  <2>5. SumFunction([timers EXCEPT ![t] = 0]) = sum - timers[t] + 0
    <3> HIDE DEF sum
    <3>1. SumFunction([timers EXCEPT ![t] = 0]) = SumFunction(timers) - timers[t] + 0
      BY <1>0, <2>2, SumSet
    <3> QED BY <3>1 DEF sum
  <2>6. SumFunction(timers)' = sum - waits
    BY <2>1, <2>2, <2>3, <2>5 DEF waits
  <2>7. Len(timers)' = t
    BY <1>0, <2>1, <2>2, ThreadSet DEF t
  <2>8. busy > 0
    <3>1. w \in Busy(workers) /\ IsFiniteSet(Busy(workers))
      BY <1>0, <1>5, <2>1, BusyFinite DEF Busy
    <3> QED BY <2>2, <3>1, FS_EmptySet
  <2>9. t <= 1 => waits = 0
    <3> SUFFICES ASSUME t <= 1 PROVE waits = 0
      OBVIOUS
    <3>1. t = 1
      BY <1>0, <2>2
    <3>2. sum = waits
      BY <1>0, <3>1, SumOfThreads DEF t, waits
    <3> HIDE DEF sum, busy
    <3> QED BY <1>0, <2>2, <2>3, <2>8, <3>1, <3>2
  <2>10. cancelled' \in BOOLEAN /\ (t <= 1 => ~cancelled')
    BY <2>1, <2>2, <2>9 DEF Handlers, t
  <2> HIDE DEF sum, busy
  <2>11. (sum - waits) + (due + waits) + busy = t /\ due + waits \in Nat
    BY <1>0, <2>2, <2>3, Balance
  <2> QED BY <2>1, <2>4, <2>6, <2>7, <2>10, <2>11, HandlersOf
<1>6. ASSUME NEW w \in DOMAIN timers, AsyncWait(w) PROVE Handlers'
  <2> DEFINE t == Len(timers)
             sum == SumFunction(timers)
             busy == Cardinality(Busy(workers))
             waits == timers[t]
  <2>1. /\ workers[w] # NoCount
        /\ workers' = [workers EXCEPT ![w] = NoCount]
        /\ timers' = [timers EXCEPT ![t] = waits + 1]
        /\ UNCHANGED <<due, cancelled>>
    BY <1>6, CcdbAssumption DEF AsyncWait, Waits, NoCount, Rearming
  <2>2. t \in DOMAIN timers /\ t \in Nat /\ NoCount \in Nat
        /\ sum \in Int /\ busy \in Nat /\ sum + due + busy = t /\ due \in Nat
    BY <1>0, CcdbAssumption DEF NoCount
  <2>3. waits \in Nat /\ waits + 1 \in Nat
    BY <1>0, <2>2
  <2>4. Cardinality(Busy(workers))' = busy - 1
    BY <1>0, <2>1, <2>2, BusySet
  <2> HIDE DEF t, waits
  <2>5. SumFunction([timers EXCEPT ![t] = waits + 1]) = sum - timers[t] + (waits + 1)
    <3> HIDE DEF sum
    <3>1. SumFunction([timers EXCEPT ![t] = waits + 1]) = SumFunction(timers) - timers[t] + (waits + 1)
      BY <1>0, <2>2, <2>3, SumSet
    <3> QED BY <3>1 DEF sum
  <2>6. SumFunction(timers)' = sum - waits + (waits + 1)
    BY <2>1, <2>5 DEF waits
  <2>7. Len(timers)' = t
    BY <1>0, <2>1, <2>2, <2>3, ThreadSet DEF t
  <2>8. cancelled' \in BOOLEAN /\ (t <= 1 => ~cancelled')
    BY <2>1 DEF Handlers, t
  <2> HIDE DEF sum, busy
  <2>9. (sum - waits + (waits + 1)) + due + (busy - 1) = t
    BY <2>2, <2>3
  <2> QED BY <2>1, <2>2, <2>4, <2>6, <2>7, <2>8, <2>9, HandlersOf
<1> QED BY <1>1, <1>2, <1>3, <1>4, <1>5, <1>6 DEF Next

LEMMA HandlersInit == Init => SInv /\ Total /\ Handlers
<1> SUFFICES ASSUME Init PROVE SInv /\ Total /\ Handlers
  OBVIOUS
<1>1. Threads
  BY DEF Init, Threads
<1>2. FirstLife
  BY DEF Init, FirstLife
<1>3. Total
  BY CcdbAssumption DEF Init, DatabaseInit, Total, If
<1>4. Busy(<< >>) = {} /\ DOMAIN << >> = {}
  BY DEF Busy
<1>5. SumFunction(<< >>) = 0 /\ Cardinality(Busy(<< >>)) = 0
  BY <1>4, SumEmpty, FS_EmptySet DEF SumFunction
<1>6. Handlers
  <2> DEFINE sum == SumFunction(timers)
             busy == Cardinality(Busy(workers))
             all == Len(timers)
  <2>1. sum = 0 /\ busy = 0 /\ all = 0 /\ due = 0 /\ cancelled = FALSE
    BY <1>5 DEF Init
  <2> HIDE DEF sum, busy, all
  <2>2. sum + due + busy = all /\ due \in Nat
    BY <2>1
  <2> QED BY <2>1, <2>2 DEF sum, busy, all, Handlers
<1> QED BY <1>1, <1>2, <1>3, <1>6 DEF SInv

\* However often the device is initialised and however its thread and those of
\* the timers interleave, no handler is lost and none is made twice.
THEOREM HandlersGoOn == Spec => []OneHandlerPerTimer
<1>1. BInv => Loop /\ Uploads
  BY DEF BInv
<1>2. SInv => Threads
  BY DEF SInv
<1>3. Handlers /\ Threads => OneHandlerPerTimer
  <2>1. Len(timers) = 1 => Len(timers) <= 1
    OBVIOUS
  <2>2. Busy(workers) = {w \in DOMAIN workers : workers[w] # NoCount}
    BY DEF Busy
  <2> QED BY <2>1, <2>2, Zenon DEF Handlers, OneHandlerPerTimer
<1> QED BY <1>1, <1>2, <1>3, HandlersInit, HandlersPreserved, TotalPreserved, ThreadsPreserved,
           Invariance, PTL DEF Spec


-----------------------------------------------------------------------------
(***************************************************************************)
(* What the first initialisation stores: after every step, an object has   *)
(* been stored as often as there were iterations, and once more if the     *)
(* iteration that goes on has come past it, or uploads it.                 *)
(***************************************************************************)
InStore(k) == pc \in {"store", "error"} /\ (k < i \/ (k = i /\ uploading # NoKey))

FirstObjects ==
  /\ done \in Nat
  /\ inits = 0 => pc = "idle" /\ log = << >> /\ done = 0 /\ mMyObjects = << >>
  /\ inits = 1 =>
       /\ pc = "empty" => log = << >> /\ done = 0 /\ mMyObjects = << >>
       /\ pc # "empty" => \A k \in 1 .. mNumberObjects : mMyObjects[k] = k
       /\ \A k \in 1 .. mNumberObjects : StoresOf(k) = done + If(InStore(k))

\* What an entry of the log more does to the stores of a key.
LEMMA StoresAppended ==
  ASSUME log \in Seq(Keys), NEW e \in Keys, log' = Append(log, e), NEW k
  PROVE  StoresOf(k)' = StoresOf(k) + If(e = k) /\ StoresOf(k) \in Nat
<1> DEFINE was == {v \in DOMAIN log : log[v] = k}
           is  == {v \in DOMAIN log' : log'[v] = k}
           n == Len(log) + 1
<1>1. /\ DOMAIN log = 1 .. Len(log) /\ Len(log) \in Nat
      /\ DOMAIN log' = (DOMAIN log) \cup {n} /\ n \notin DOMAIN log /\ log'[n] = e
      /\ \A v \in DOMAIN log : log'[v] = log[v]
  OBVIOUS
<1>2. IsFiniteSet(DOMAIN log) /\ was \in SUBSET DOMAIN log
  BY <1>1, FS_Interval
<1>3. IsFiniteSet(was) /\ Cardinality(was) \in Nat
  BY <1>2, FS_Subset, FS_CardinalityType
<1>4. e = k => is = was \cup {n}
  BY <1>1
<1>5. e # k => is = was
  BY <1>1
<1>6. n \notin was
  BY <1>1
<1>7. StoresOf(k) = Cardinality(was) /\ StoresOf(k)' = Cardinality(is)
  BY DEF StoresOf
<1> HIDE DEF was, is, n
<1>8. CASE e = k
  BY <1>3, <1>4, <1>6, <1>7, <1>8, FS_AddElement DEF If
<1>9. CASE e # k
  BY <1>3, <1>5, <1>7, <1>9 DEF If
<1> QED BY <1>8, <1>9

LEMMA StoresKept ==
  ASSUME log' = log, NEW k
  PROVE  StoresOf(k)' = StoresOf(k)
  BY DEF StoresOf

LEMMA NothingStored == log = << >> => \A k : StoresOf(k) = 0
<1> SUFFICES ASSUME log = << >>, NEW k PROVE StoresOf(k) = 0
  OBVIOUS
<1>1. {v \in DOMAIN log : log[v] = k} = {}
  OBVIOUS
<1> QED BY <1>1, FS_EmptySet DEF StoresOf

\* Objects prepared for the first time are the numbers themselves.
LEMMA FirstPrepared ==
  \A n \in Nat : \A k \in 1 .. n : (<< >> \o [m \in 1 .. n |-> m])[k] = k
  OBVIOUS

LEMMA ObjectsPreserved ==
  Uploads /\ Loop /\ Threads /\ FirstObjects /\ [Next]_vars => FirstObjects'
<1> SUFFICES ASSUME Uploads, Loop, Threads, FirstObjects, [Next]_vars PROVE FirstObjects'
  OBVIOUS
<1>0. mNumberObjects \in Nat /\ i \in Nat /\ done \in Nat /\ log \in Seq(Keys) /\ inits \in Nat
  BY BenchmarkAssumption DEF Loop, FirstObjects, Uploads, Threads
<1>1. ASSUME NEW delete \in BOOLEAN, NEW threaded \in BOOLEAN, NEW n \in 0 .. MaxObjects,
             InitTask(delete, threaded, n)
      PROVE  FirstObjects'
  <2>1. pc = "idle" /\ inits' = inits + 1 /\ mNumberObjects' = n /\ log' = log /\ done' = done
    BY <1>1 DEF InitTask, database
  <2>2. CASE inits # 0
    <3>1. inits' # 0 /\ inits' # 1
      BY <1>0, <2>1, <2>2
    <3> QED BY <1>0, <2>1, <3>1 DEF FirstObjects
  <2>3. CASE inits = 0
    <3>1. log = << >> /\ done = 0 /\ mMyObjects = << >> /\ inits' = 1 /\ n \in Nat
      BY <1>0, <2>1, <2>3, BenchmarkAssumption DEF FirstObjects
    <3>2. pc' \in {"empty", "ready"} /\ (pc' = "empty" => mMyObjects' = mMyObjects)
          /\ (pc' # "empty" => mMyObjects' = mMyObjects \o [k \in 1 .. n |-> k])
      BY <1>1 DEF InitTask, Prepare
    <3>3. pc' # "empty" => \A k \in 1 .. n : mMyObjects'[k] = k
      BY <3>1, <3>2, FirstPrepared
    <3>4. \A k : StoresOf(k)' = 0 /\ ~InStore(k)'
      BY <2>1, <3>1, <3>2, NothingStored, StoresKept DEF InStore
    <3>5. \A k : StoresOf(k)' = done' + If(InStore(k)')
      BY <2>1, <3>1, <3>4 DEF If
    <3> QED BY <2>1, <3>1, <3>2, <3>3, <3>5 DEF FirstObjects, If
  <2> QED BY <2>2, <2>3
<1>2. CASE EmptyDatabase
  <2>1. pc = "empty" /\ log' = log /\ UNCHANGED <<uploading, inits, done, mNumberObjects>>
    BY <1>2 DEF EmptyDatabase, Truncate, config
  <2>2. CASE inits # 1
    BY <1>0, <2>1, <2>2 DEF FirstObjects
  <2>3. CASE inits = 1
    <3>1. log = << >> /\ done = 0 /\ mMyObjects = << >>
      BY <2>1, <2>3 DEF FirstObjects
    <3>2. pc' \in {"empty", "ready"} /\ (pc' = "empty" => mMyObjects' = mMyObjects)
          /\ (pc' # "empty" => mMyObjects' = mMyObjects \o [k \in 1 .. mNumberObjects |-> k])
      BY <1>2, <2>1 DEF EmptyDatabase, Prepare
    <3>3. pc' # "empty" => \A k \in 1 .. mNumberObjects : mMyObjects'[k] = k
      BY <1>0, <3>1, <3>2, FirstPrepared
    <3>4. \A k : StoresOf(k)' = 0 /\ ~InStore(k)'
      BY <2>1, <3>1, <3>2, NothingStored, StoresKept DEF InStore
    <3>5. \A k : StoresOf(k)' = done' + If(InStore(k)')
      BY <2>1, <3>1, <3>4 DEF If
    <3> QED BY <2>1, <2>3, <3>1, <3>2, <3>3, <3>5 DEF FirstObjects, If
  <2> QED BY <2>2, <2>3
<1>3. CASE Run
  <2>1. /\ pc = "ready" /\ log' = log /\ pc' \in {"ready", "store"} /\ (pc' = "store" => i' = 1)
        /\ UNCHANGED <<uploading, inits, done, mNumberObjects, mMyObjects>>
    BY <1>3 DEF Run, config, database
  <2>2. \A k \in 1 .. mNumberObjects : ~InStore(k) /\ ~InStore(k)' /\ StoresOf(k)' = StoresOf(k)
    BY <1>0, <2>1, StoresKept DEF InStore, Loop
  <2> QED BY <2>1, <2>2 DEF FirstObjects, If
<1>4. CASE StoreObject
  <2>1. /\ pc = "store" /\ i <= mNumberObjects /\ uploading = NoKey /\ pc' \in {"store", "error"}
        /\ UNCHANGED <<inits, done, mNumberObjects, mMyObjects, i>>
    BY <1>4 DEF StoreObject, config
  <2>2. CASE pc' = "error" /\ UNCHANGED database
    <3>1. \A k : (InStore(k)' <=> InStore(k)) /\ StoresOf(k)' = StoresOf(k)
      BY <2>1, <2>2, StoresKept DEF InStore, database
    <3> QED BY <2>1, <2>2, <3>1 DEF FirstObjects, If
  <2>3. CASE Store(mMyObjects[i]) /\ pc' = pc
    <3>1. i \in 1 .. mNumberObjects
      BY <1>0, <2>1 DEF Loop
    <3>2. mMyObjects[i] \in Keys
      <4>1. i \in 1 .. Len(mMyObjects) /\ mMyObjects \in Seq(1 .. MaxObjects)
        BY <2>1, BenchmarkAssumption DEF Loop
      <4>2. mMyObjects[i] \in 1 .. MaxObjects
        BY <4>1, ElementOf
      <4> QED BY <4>2, BenchmarkAssumption
    <3>3. log' = Append(log, mMyObjects[i]) /\ uploading' # NoKey
      BY <2>3, <3>2, CcdbAssumption DEF Store
    <3>4. ASSUME inits = 1, NEW k \in 1 .. mNumberObjects
          PROVE  StoresOf(k)' = done' + If(InStore(k)')
      <4>1. mMyObjects[i] = i /\ StoresOf(k) = done + If(InStore(k))
        BY <2>1, <3>1, <3>4 DEF FirstObjects
      <4>2. StoresOf(k)' = StoresOf(k) + If(i = k)
        BY <1>0, <3>2, <3>3, <4>1, StoresAppended
      <4>3. (InStore(k) <=> k < i) /\ (InStore(k)' <=> k < i \/ k = i)
        BY <2>1, <2>3, <3>3 DEF InStore
      <4>4. If(InStore(k)') = If(InStore(k)) + If(i = k) /\ If(i = k) \in Nat /\ If(InStore(k)) \in Nat
        BY <1>0, <4>3 DEF If
      <4> QED BY <1>0, <2>1, <4>1, <4>2, <4>4
    <3> QED BY <1>0, <2>1, <2>3, <3>4 DEF FirstObjects
  <2> QED BY <1>4, <2>1, <2>2, <2>3 DEF StoreObject
<1>5. CASE Stored
  <2>1. /\ uploading # NoKey /\ uploading' = NoKey /\ log' = log /\ i' = i + 1
        /\ UNCHANGED <<pc, inits, done, mNumberObjects, mMyObjects>>
    BY <1>5 DEF Stored, Uploaded, config
  <2>2. \A k \in 1 .. mNumberObjects : (InStore(k)' <=> InStore(k)) /\ StoresOf(k)' = StoresOf(k)
    BY <1>0, <2>1, StoresKept DEF InStore
  <2>3. pc = "store"
    BY <2>1 DEF Loop
  <2> QED BY <2>1, <2>2, <2>3 DEF FirstObjects, If
<1>6. CASE EndIteration
  <2>1. /\ pc = "store" /\ i > mNumberObjects /\ uploading = NoKey /\ log' = log
        /\ (pc' = "store" /\ i' = 1) \/ pc' = "ready"
        /\ done' = done + 1
        /\ UNCHANGED <<uploading, inits, mNumberObjects, mMyObjects>>
    BY <1>6 DEF EndIteration, IterationStored, config, database
  <2>2. \A k \in 1 .. mNumberObjects : InStore(k) /\ ~InStore(k)' /\ StoresOf(k)' = StoresOf(k)
    BY <1>0, <2>1, StoresKept DEF InStore
  <2>3. pc' # "empty" /\ pc' # "idle" /\ inits # 0
    BY <2>1 DEF FirstObjects
  <2> QED BY <1>0, <2>1, <2>2, <2>3 DEF FirstObjects, If
<1>7. CASE ResetTask
  <2>1. /\ pc = "ready" /\ pc' = "idle" /\ log' = log
        /\ UNCHANGED <<inits, done, mNumberObjects, mMyObjects>>
    BY <1>7 DEF ResetTask, config, database
  <2>2. \A k : ~InStore(k) /\ ~InStore(k)' /\ StoresOf(k)' = StoresOf(k)
    BY <2>1, StoresKept DEF InStore
  <2>3. inits # 0
    BY <2>1 DEF FirstObjects
  <2> QED BY <2>1, <2>2, <2>3 DEF FirstObjects, If
<1>8. CASE DivideByZero
  <2>1. /\ pc = "store" /\ pc' = "dead" /\ mNumberObjects = 0 /\ log' = log
        /\ UNCHANGED <<inits, done, mNumberObjects, mMyObjects>>
    BY <1>8 DEF DivideByZero, IterationStored, config, database
  <2>2. 1 .. mNumberObjects = {} /\ inits # 0
    BY <2>1 DEF FirstObjects
  <2> QED BY <1>0, <2>1, <2>2 DEF FirstObjects
<1>9. CASE (\E t \in DOMAIN timers : Expire(t) \/ ReadCount(t) \/ SendCount(t) \/ AsyncWait(t))
           \/ UNCHANGED vars
  <2>1. UNCHANGED <<log, uploading, pc, inits, done, mNumberObjects, mMyObjects, i>>
    BY <1>9 DEF Expire, ReadCount, SendCount, AsyncWait, vars, database, config
  <2>2. \A k : (InStore(k)' <=> InStore(k)) /\ StoresOf(k)' = StoresOf(k)
    BY <2>1, StoresKept DEF InStore
  <2> QED BY <2>1, <2>2 DEF FirstObjects, If
<1> QED BY <1>1, <1>2, <1>3, <1>4, <1>5, <1>6, <1>7, <1>8, <1>9 DEF Next

\* In its first life the device stores every object once in every iteration,
\* wherever the last iteration stops; in all of them, the total is the number
\* of objects stored.
THEOREM ObjectsAreStored == Spec => []EveryObjectStored
<1>1. Init => FirstObjects
  <2>1. ASSUME Init PROVE FirstObjects
    BY <2>1 DEF Init, DatabaseInit, FirstObjects
  <2> QED BY <2>1
<1>2. BInv => Loop /\ Uploads
  BY DEF BInv
<1>3. SInv => Threads
  BY DEF SInv
<1>4. Loop /\ Uploads /\ Threads /\ Total /\ FirstObjects => EveryObjectStored
  <2> SUFFICES ASSUME Loop, Uploads, Threads, Total, FirstObjects, uploading = NoKey
               PROVE  EveryObjectStored
    BY DEF EveryObjectStored
  <2>1. mTotalNumberObjects = Len(log)
    BY DEF Total, If, Threads
  <2>2. \A k : InStore(k) <=> pc \in {"store", "error"} /\ k < i
    BY DEF InStore
  <2> QED BY <2>1, <2>2 DEF FirstObjects, EveryObjectStored, If
<1> QED BY <1>1, <1>2, <1>3, <1>4, HandlersInit, ObjectsPreserved, TotalPreserved, ThreadsPreserved,
           Invariance, PTL DEF Spec
=============================================================================
