------------------------ MODULE MySqlDatabaseProofs -------------------------
(***************************************************************************)
(* MySqlDatabase implements Repository, whatever flushes, REPLACEs or      *)
(* processes fail: proof for every set of tasks, names and faults.  Unless *)
(* its own REPLACE fails or a crash takes the queue away, the newest       *)
(* version of an object is kept; and a table that shows an older one than  *)
(* before is about to be repaired.                                         *)
(***************************************************************************)
EXTENDS MySqlDatabase, FoldTheorems, TLAPS

(***************************************************************************)
(* The inductive invariant: each object in the queue, and each row the     *)
(* statement of the current task has still to write, is logged under the   *)
(* task whose table it goes to and under its own name.                     *)
(***************************************************************************)
LoggedUnder(t, s, l) ==
  \A i \in DOMAIN s :
    /\ s[i].version \in DOMAIN l
    /\ l[s[i].version] = <<t, s[i].name>>

Shapes ==
  /\ mObjectsQueue \in [Tasks -> Seq(QueuedObject)]
  /\ batch \in Seq(QueuedObject)
  /\ log \in Seq(Keys)
  /\ row \in [Keys -> Nat]

QueueLogged == \A t \in Tasks : LoggedUnder(t, mObjectsQueue[t], log)

BatchLogged ==
  batch # << >> => batchTask \in Tasks /\ LoggedUnder(batchTask, batch, log)

RInv == Shapes /\ QueueLogged /\ BatchLogged

-----------------------------------------------------------------------------

\* A log that grows keeps what is logged.
LEMMA LoggedStays ==
  ASSUME NEW t, NEW l \in Seq(Keys), NEW k \in Keys,
         NEW s \in Seq(QueuedObject), LoggedUnder(t, s, l)
  PROVE  LoggedUnder(t, s, Append(l, k))
<1>1. \A i \in DOMAIN l : i \in DOMAIN Append(l, k) /\ Append(l, k)[i] = l[i]
  OBVIOUS
<1> QED BY <1>1 DEF LoggedUnder

\* An object queued under the key just logged is logged.
LEMMA AppendLogged ==
  ASSUME NEW t \in Tasks, NEW n \in Names, NEW l \in Seq(Keys),
         NEW s \in Seq(QueuedObject), LoggedUnder(t, s, l),
         NEW o \in QueuedObject, o.name = n, o.version = Len(l) + 1
  PROVE  LoggedUnder(t, Append(s, o), Append(l, <<t, n>>))
<1> DEFINE l2 == Append(l, <<t, n>>)
           s2 == Append(s, o)
<1>0. <<t, n>> \in Keys
  BY DEF Keys
<1>1. LoggedUnder(t, s, l2)
  BY <1>0, LoggedStays
<1>2. Len(l) + 1 \in DOMAIN l2 /\ l2[Len(l) + 1] = <<t, n>>
  BY <1>0
<1>3. ASSUME NEW i \in DOMAIN s2
      PROVE  s2[i].version \in DOMAIN l2 /\ l2[s2[i].version] = <<t, s2[i].name>>
  <2>1. CASE i \in DOMAIN s
    <3>1. s2[i] = s[i]
      BY <2>1
    <3> QED BY <1>1, <2>1, <3>1 DEF LoggedUnder
  <2>2. CASE i \notin DOMAIN s
    <3>1. i = Len(s) + 1 /\ s2[i] = o
      BY <2>2
    <3> QED BY <1>2, <3>1
  <2> QED BY <2>1, <2>2
<1> QED BY <1>3 DEF LoggedUnder

LEMMA TailLogged ==
  ASSUME NEW t, NEW l, NEW s \in Seq(QueuedObject), s # << >>, LoggedUnder(t, s, l)
  PROVE  Tail(s) \in Seq(QueuedObject) /\ LoggedUnder(t, Tail(s), l)
<1>1. \A i \in DOMAIN Tail(s) : i + 1 \in DOMAIN s /\ Tail(s)[i] = s[i + 1]
  OBVIOUS
<1> QED BY <1>1 DEF LoggedUnder

LEMMA EmptyLogged ==
  /\ EmptyQueue \in [Tasks -> Seq(QueuedObject)]
  /\ \A t \in Tasks : \A l : LoggedUnder(t, EmptyQueue[t], l)
  BY DEF EmptyQueue, LoggedUnder

-----------------------------------------------------------------------------

LEMMA InitEstablishes == Init => RInv
<1> SUFFICES ASSUME Init PROVE RInv
  OBVIOUS
<1>1. Shapes
  BY EmptyLogged DEF Init, Shapes
<1>2. QueueLogged
  BY EmptyLogged DEF Init, QueueLogged
<1>3. BatchLogged
  BY DEF Init, BatchLogged
<1> QED BY <1>1, <1>2, <1>3 DEF RInv

LEMMA StorePreserves ==
  ASSUME RInv, NEW t \in Tasks, NEW n \in Names, Store(t, n)
  PROVE  RInv'
<1> DEFINE o == [name |-> n, version |-> Len(log) + 1]
           k == <<t, n>>
<1>0. Shapes /\ QueueLogged /\ BatchLogged
  BY DEF RInv
<1>1. k \in Keys /\ o \in QueuedObject /\ log' = Append(log, k)
  BY <1>0 DEF Store, Shapes, QueuedObject, Keys
<1>2. mObjectsQueue' = [mObjectsQueue EXCEPT ![t] = Append(mObjectsQueue[t], o)]
  BY DEF Store
<1>3. UNCHANGED <<batch, batchTask, row>>
  BY DEF Store, server
<1>4. Shapes'
  BY <1>0, <1>1, <1>2, <1>3 DEF Shapes
<1>5. QueueLogged'
  <2> SUFFICES ASSUME NEW u \in Tasks
               PROVE  LoggedUnder(u, mObjectsQueue'[u], log')
    BY DEF QueueLogged
  <2>1. log \in Seq(Keys) /\ mObjectsQueue[u] \in Seq(QueuedObject)
        /\ LoggedUnder(u, mObjectsQueue[u], log)
    BY <1>0 DEF Shapes, QueueLogged
  <2>2. CASE u = t
    <3>1. mObjectsQueue'[u] = Append(mObjectsQueue[t], o)
      BY <1>0, <1>2, <2>2 DEF Shapes
    <3>2. o.name = n /\ o.version = Len(log) + 1
      OBVIOUS
    <3>3. LoggedUnder(t, Append(mObjectsQueue[t], o), Append(log, k))
      BY <1>1, <2>1, <2>2, <3>2, AppendLogged
    <3> QED BY <1>1, <2>2, <3>1, <3>3
  <2>3. CASE u # t
    <3>1. mObjectsQueue'[u] = mObjectsQueue[u]
      BY <1>0, <1>2, <2>3 DEF Shapes
    <3> QED BY <1>1, <2>1, <3>1, LoggedStays
  <2> QED BY <2>2, <2>3
<1>6. BatchLogged'
  <2> SUFFICES ASSUME batch # << >>
               PROVE  batchTask \in Tasks /\ LoggedUnder(batchTask, batch, log')
    BY <1>3 DEF BatchLogged
  <2>1. batchTask \in Tasks /\ LoggedUnder(batchTask, batch, log)
    BY <1>0 DEF BatchLogged
  <2>2. batch \in Seq(QueuedObject) /\ log \in Seq(Keys)
    BY <1>0 DEF Shapes
  <2> QED BY <1>1, <2>1, <2>2, LoggedStays
<1> QED BY <1>4, <1>5, <1>6 DEF RInv

LEMMA StepPreserves == RInv /\ [Next]_vars => RInv'
<1> SUFFICES ASSUME RInv, [Next]_vars PROVE RInv'
  OBVIOUS
<1>0. Shapes /\ QueueLogged /\ BatchLogged
  BY DEF RInv
<1>1. ASSUME NEW t \in Tasks, NEW n \in Names, Store(t, n) PROVE RInv'
  BY <1>1, StorePreserves
<1>2. ASSUME NEW t \in Tasks, NEW n \in Names, Truncate(t, n) PROVE RInv'
  <2>1. UNCHANGED <<mObjectsQueue, batch, batchTask, log>> /\ row' \in [Keys -> Nat]
    BY <1>0, <1>2 DEF Truncate, queue, loop, Shapes
  <2> QED BY <1>0, <2>1 DEF RInv, Shapes, QueueLogged, BatchLogged
<1>3. ASSUME NEW t \in Tasks, PrepareTask(t) PROVE RInv'
  <2>1. /\ UNCHANGED <<mObjectsQueue, row, log>>
        /\ batch' = mObjectsQueue[t] /\ batchTask' = t
    BY <1>3 DEF PrepareTask, RowsOf, StatementTask, queue, stored
  <2>2. Shapes' /\ QueueLogged'
    BY <1>0, <2>1 DEF Shapes, QueueLogged
  <2>3. BatchLogged'
    BY <1>0, <2>1 DEF BatchLogged, QueueLogged
  <2> QED BY <2>2, <2>3 DEF RInv
<1>4. CASE WriteRow
  <2>1. UNCHANGED <<mObjectsQueue, batchTask, log>> /\ batch' = Tail(batch) /\ batch # << >>
    BY <1>4 DEF WriteRow, queue, stored
  <2>2. Head(batch).version \in Nat
    <3>1. Head(batch) \in QueuedObject
      BY <1>0, <2>1 DEF Shapes
    <3> QED BY <3>1 DEF QueuedObject
  <2>3. row' \in [Keys -> Nat]
    BY <1>0, <1>4, <2>2 DEF WriteRow, Shapes
  <2>4. batch' \in Seq(QueuedObject) /\ LoggedUnder(batchTask, batch', log)
    BY <1>0, <2>1, TailLogged DEF Shapes, BatchLogged
  <2>5. batchTask \in Tasks
    BY <1>0, <2>1 DEF BatchLogged
  <2> QED BY <1>0, <2>1, <2>3, <2>4, <2>5 DEF RInv, Shapes, QueueLogged, BatchLogged
<1>5. CASE WriteFails
  <2>1. /\ UNCHANGED <<mObjectsQueue, batchTask, row, log>>
        /\ batch' = Tail(batch) /\ batch # << >>
    BY <1>5 DEF WriteFails, queue, server
  <2>2. batch' \in Seq(QueuedObject) /\ LoggedUnder(batchTask, batch', log)
    BY <1>0, <2>1, TailLogged DEF Shapes, BatchLogged
  <2>3. batchTask \in Tasks
    BY <1>0, <2>1 DEF BatchLogged
  <2> QED BY <1>0, <2>1, <2>2, <2>3 DEF RInv, Shapes, QueueLogged, BatchLogged
<1>6. CASE FlushDone \/ PrepareFailsClosing \/ Crash
  <2>1. UNCHANGED <<row, log>> /\ batch' = << >> /\ mObjectsQueue' = EmptyQueue
    BY <1>6 DEF FlushDone, ClearQueue, PrepareFailsClosing, Crash, ProcessGone, server, stored
  <2>2. Shapes'
    BY <1>0, <2>1, EmptyLogged DEF Shapes
  <2>3. QueueLogged' /\ BatchLogged'
    BY <2>1, EmptyLogged DEF QueueLogged, BatchLogged
  <2> QED BY <2>2, <2>3 DEF RInv
<1>7. ASSUME NEW t \in Tasks, PrepareFails(t) PROVE RInv'
  <2>1. UNCHANGED <<mObjectsQueue, batch, batchTask, row, log>>
    BY <1>7 DEF PrepareFails, AfterFailure, stored
  <2> QED BY <1>0, <2>1 DEF RInv, Shapes, QueueLogged, BatchLogged
<1>8. CASE TimePasses \/ Disconnect \/ Restart \/ UNCHANGED vars
  <2>1. UNCHANGED <<mObjectsQueue, batch, batchTask, row, log>>
    BY <1>8 DEF TimePasses, Disconnect, Restart, vars, queue, loop, server, stored
  <2> QED BY <1>0, <2>1 DEF RInv, Shapes, QueueLogged, BatchLogged
<1> QED
  BY <1>1, <1>2, <1>3, <1>4, <1>5, <1>6, <1>7, <1>8 DEF Next

\* Each object goes to the table of the task, and under the name, it was stored
\* with.
THEOREM Invariance == Spec => []RInv
  BY InitEstablishes, StepPreserves, PTL DEF Spec

-----------------------------------------------------------------------------
(***************************************************************************)
(* The newest version is kept. Behind every queued version of a key, and   *)
(* every one that is still to be written, comes the newest one; a flush    *)
(* leaves it in the row of each task it has done.                          *)
(***************************************************************************)
Covered(s, n, v) ==
  \A i \in DOMAIN s : s[i].name = n =>
    /\ s[i].version <= v
    /\ \E j \in DOMAIN s : j >= i /\ s[j].name = n /\ s[j].version = v

Holds(s, n) == \E i \in DOMAIN s : s[i].name = n

Queue(k) == mObjectsQueue[k[1]]

Pending(k) == IF batchTask = k[1] THEN batch ELSE << >>

Flushing == pc \in {"flush", "closing"}

Kept(k) ==
  /\ Covered(Queue(k), k[2], newest[k])
  /\ Holds(Queue(k), k[2]) \/ row[k] = newest[k]
  /\ Flushing /\ k[1] \notin todo =>
       /\ Covered(Pending(k), k[2], newest[k])
       /\ Holds(Pending(k), k[2]) \/ row[k] = newest[k]

BatchQueued ==
  /\ batch # << >> => Flushing
  /\ \A i \in DOMAIN batch : \E j \in DOMAIN mObjectsQueue[batchTask] :
       mObjectsQueue[batchTask][j] = batch[i]

AllKept == \A k \in Keys \ unwritten : newest[k] # 0 => Kept(k)

NInv == newest \in [Keys -> Nat] /\ BatchQueued /\ AllKept

LEMMA CoveredTail ==
  ASSUME NEW s \in Seq(QueuedObject), s # << >>, NEW n, NEW v, Covered(s, n, v)
  PROVE  /\ Covered(Tail(s), n, v)
         /\ Holds(s, n) => Holds(Tail(s), n) \/ (Head(s).name = n /\ Head(s).version = v)
         /\ Head(s).name # n => (Holds(s, n) <=> Holds(Tail(s), n))
<1>1. /\ \A i \in DOMAIN Tail(s) : i \in Nat \ {0} /\ i + 1 \in DOMAIN s /\ Tail(s)[i] = s[i + 1]
      /\ \A i \in DOMAIN s : i \in Nat /\ (i # 1 => i - 1 \in DOMAIN Tail(s) /\ Tail(s)[i - 1] = s[i])
      /\ Head(s) = s[1] /\ 1 \in DOMAIN s
  OBVIOUS
<1>2. Covered(Tail(s), n, v)
  <2> SUFFICES ASSUME NEW i \in DOMAIN Tail(s), Tail(s)[i].name = n
               PROVE  /\ Tail(s)[i].version <= v
                      /\ \E j \in DOMAIN Tail(s) : j >= i /\ Tail(s)[j].name = n /\ Tail(s)[j].version = v
    BY DEF Covered
  <2>1. i + 1 \in DOMAIN s /\ s[i + 1] = Tail(s)[i] /\ i \in Nat \ {0}
    BY <1>1
  <2>2. PICK j \in DOMAIN s : j >= i + 1 /\ s[j].name = n /\ s[j].version = v
    BY <2>1 DEF Covered
  <2>3. j - 1 \in DOMAIN Tail(s) /\ Tail(s)[j - 1] = s[j] /\ j - 1 >= i
    BY <1>1, <2>1, <2>2
  <2> QED BY <2>1, <2>2, <2>3 DEF Covered
<1>3. Holds(Tail(s), n) => Holds(s, n)
  BY <1>1 DEF Holds
<1>4. ASSUME Holds(s, n) PROVE Holds(Tail(s), n) \/ (Head(s).name = n /\ Head(s).version = v)
  <2>1. PICK i \in DOMAIN s : s[i].name = n
    BY <1>4 DEF Holds
  <2>2. PICK j \in DOMAIN s : j >= i /\ s[j].name = n /\ s[j].version = v
    BY <2>1 DEF Covered
  <2> QED BY <1>1, <2>2 DEF Holds
<1>5. ASSUME Holds(s, n), Head(s).name # n PROVE Holds(Tail(s), n)
  BY <1>4, <1>5
<1> QED BY <1>2, <1>3, <1>4, <1>5

LEMMA CoveredAppend ==
  ASSUME NEW s \in Seq(QueuedObject), NEW o \in QueuedObject, NEW n, NEW v
  PROVE  /\ o.name # n => /\ Covered(s, n, v) => Covered(Append(s, o), n, v)
                          /\ Holds(s, n) => Holds(Append(s, o), n)
         /\ (/\ o.name = n /\ o.version = v /\ v \in Nat
             /\ \A i \in DOMAIN s : s[i].version <= v)
            => Covered(Append(s, o), n, v) /\ Holds(Append(s, o), n)
<1> DEFINE r == Append(s, o)
<1>1. /\ \A i \in DOMAIN s : i \in DOMAIN r /\ r[i] = s[i]
      /\ \A i \in DOMAIN r : i \in DOMAIN s \/ i = Len(s) + 1
      /\ r[Len(s) + 1] = o /\ Len(s) + 1 \in DOMAIN r
      /\ \A i \in DOMAIN r : i \in Nat /\ i <= Len(s) + 1
      /\ Len(s) + 1 \in Nat
  OBVIOUS
<1> HIDE DEF r
<1>2. ASSUME o.name # n, Covered(s, n, v) PROVE Covered(r, n, v)
  <2> SUFFICES ASSUME NEW i \in DOMAIN r, r[i].name = n
               PROVE  /\ r[i].version <= v
                      /\ \E j \in DOMAIN r : j >= i /\ r[j].name = n /\ r[j].version = v
    BY DEF Covered
  <2>1. i \in DOMAIN s /\ r[i] = s[i]
    BY <1>1, <1>2
  <2>2. PICK j \in DOMAIN s : j >= i /\ s[j].name = n /\ s[j].version = v
    BY <1>2, <2>1 DEF Covered
  <2> QED BY <1>1, <1>2, <2>1, <2>2 DEF Covered
<1>3. ASSUME Holds(s, n) PROVE Holds(r, n)
  BY <1>1, <1>3 DEF Holds
<1>4. ASSUME o.name = n, o.version = v, v \in Nat, \A i \in DOMAIN s : s[i].version <= v
      PROVE  Covered(r, n, v) /\ Holds(r, n)
  <2>1. \A i \in DOMAIN r : r[i].version <= v
    BY <1>1, <1>4
  <2>2. \A i \in DOMAIN r : Len(s) + 1 >= i
    BY <1>1
  <2> QED BY <1>1, <1>4, <2>1, <2>2 DEF Covered, Holds
<1> QED BY <1>2, <1>3, <1>4 DEF r

LEMMA NewestInit == Init => NInv
<1> SUFFICES ASSUME Init PROVE NInv
  OBVIOUS
<1>1. newest \in [Keys -> Nat] /\ BatchQueued
  BY DEF Init, BatchQueued
<1>2. AllKept
  BY DEF Init, AllKept
<1> QED BY <1>1, <1>2 DEF NInv

LEMMA StoreKeeps ==
  ASSUME RInv, NInv, NEW t \in Tasks, NEW n \in Names, Store(t, n)
  PROVE  NInv'
<1> DEFINE v == Len(log) + 1
           o == [name |-> n, version |-> v]
<1>0. Shapes /\ QueueLogged /\ newest \in [Keys -> Nat] /\ BatchQueued /\ AllKept
  BY DEF RInv, NInv
<1>1. /\ pc = "idle" /\ batch = << >> /\ batch' = << >> /\ row' = row
      /\ mObjectsQueue' = [mObjectsQueue EXCEPT ![t] = Append(mObjectsQueue[t], o)]
      /\ newest' = [newest EXCEPT ![<<t, n>>] = v]
      /\ unwritten' = unwritten \ {<<t, n>>}
      /\ \/ pc' = "flush" /\ todo' = {u \in Tasks : mObjectsQueue'[u] # << >>}
         \/ pc' = "idle"
  BY <1>0 DEF Store, BatchQueued, Flushing, BeginFlush, server
<1>2. v \in Nat /\ o \in QueuedObject
  BY <1>0 DEF Shapes, QueuedObject
<1>3. newest' \in [Keys -> Nat] /\ BatchQueued'
  <2>1. newest' \in [Keys -> Nat]
    <3> HIDE DEF v
    <3> QED BY <1>0, <1>1, <1>2
  <2>2. BatchQueued'
    BY <1>1 DEF BatchQueued
  <2> QED BY <2>1, <2>2
<1>4. ASSUME NEW k \in Keys, k \notin unwritten', newest'[k] # 0
      PROVE  Kept(k)'
  <2>1. k[1] \in Tasks /\ k[2] \in Names /\ k = <<k[1], k[2]>>
    BY DEF Keys
  <2>2. /\ Covered(mObjectsQueue'[k[1]], k[2], newest'[k])
        /\ Holds(mObjectsQueue'[k[1]], k[2]) \/ row[k] = newest'[k]
    <3>1. CASE k = <<t, n>>
      <4>1. newest'[k] = v
        BY <1>0, <1>1, <3>1
      <4>2. mObjectsQueue'[t] = Append(mObjectsQueue[t], o)
        BY <1>0, <1>1 DEF Shapes
      <4>3. mObjectsQueue[t] \in Seq(QueuedObject)
            /\ \A i \in DOMAIN mObjectsQueue[t] : mObjectsQueue[t][i].version <= v
        <5>1. mObjectsQueue[t] \in Seq(QueuedObject) /\ log \in Seq(Keys)
          BY <1>0 DEF Shapes
        <5>2. \A i \in DOMAIN mObjectsQueue[t] : mObjectsQueue[t][i].version \in 1 .. Len(log)
          BY <1>0, <5>1 DEF QueueLogged, LoggedUnder
        <5> QED BY <5>1, <5>2
      <4> HIDE DEF v
      <4>4. o.name = n /\ o.version = v
        OBVIOUS
      <4>5. /\ Covered(Append(mObjectsQueue[t], o), n, v)
            /\ Holds(Append(mObjectsQueue[t], o), n)
        BY <1>2, <4>3, <4>4, CoveredAppend
      <4>6. k[1] = t /\ k[2] = n
        BY <3>1
      <4> QED BY <4>1, <4>2, <4>5, <4>6
    <3>2. CASE k # <<t, n>>
      <4>1. newest'[k] = newest[k] /\ k \notin unwritten
        BY <1>0, <1>1, <1>4, <3>2
      <4>2. Kept(k)
        BY <1>0, <1>4, <4>1 DEF AllKept
      <4>3. CASE k[1] = t
        <5>1. mObjectsQueue'[k[1]] = Append(mObjectsQueue[t], o) /\ mObjectsQueue[t] \in Seq(QueuedObject)
          BY <1>0, <1>1, <4>3 DEF Shapes
        <5>2. o.name # k[2]
          BY <2>1, <3>2, <4>3
        <5> QED BY <1>2, <4>1, <4>2, <4>3, <5>1, <5>2, CoveredAppend DEF Kept, Queue
      <4>4. CASE k[1] # t
        <5>1. mObjectsQueue'[k[1]] = mObjectsQueue[k[1]]
          BY <1>0, <1>1, <2>1, <4>4 DEF Shapes
        <5> QED BY <4>1, <4>2, <5>1 DEF Kept, Queue
      <4> QED BY <4>3, <4>4
    <3> QED BY <3>1, <3>2
  <2>3. Pending(k)' = << >>
    BY <1>1 DEF Pending
  <2>4. Flushing' /\ k[1] \notin todo' => ~Holds(mObjectsQueue'[k[1]], k[2])
    BY <1>1, <2>1 DEF Flushing, Holds
  <2>5. Covered(<< >>, k[2], newest'[k])
    BY DEF Covered
  <2> QED BY <1>1, <2>2, <2>3, <2>4, <2>5 DEF Kept, Queue
<1> QED BY <1>3, <1>4 DEF NInv, AllKept

\* The queue and the newest versions stay: a key is kept if its row and what is
\* pending for it are in order.
LEMMA SameQueueKeeps ==
  ASSUME NInv, UNCHANGED <<mObjectsQueue, newest>>, unwritten \subseteq unwritten', BatchQueued',
         \A k \in Keys \ unwritten' : newest[k] # 0 /\ Kept(k) =>
           /\ Holds(Queue(k), k[2]) \/ row'[k] = newest[k]
           /\ Flushing' /\ k[1] \notin todo' =>
                /\ Covered(Pending(k)', k[2], newest[k])
                /\ Holds(Pending(k)', k[2]) \/ row'[k] = newest[k]
  PROVE  NInv'
  BY DEF NInv, AllKept, Kept, Queue

LEMMA WriteKeeps ==
  ASSUME RInv, NInv, WriteRow \/ WriteFails
  PROVE  NInv'
<1> DEFINE h == Head(batch)
<1>0. Shapes /\ BatchLogged /\ BatchQueued
  BY DEF RInv, NInv
<1>1. /\ UNCHANGED <<mObjectsQueue, newest, batchTask, pc, todo>> /\ batch' = Tail(batch)
      /\ batch # << >> /\ unwritten \subseteq unwritten'
      /\ \/ row' = [row EXCEPT ![<<batchTask, h.name>>] = h.version]
         \/ row' = row /\ <<batchTask, h.name>> \in unwritten'
  BY DEF WriteRow, WriteFails, queue, server, stored
<1>2. batch \in Seq(QueuedObject) /\ row \in [Keys -> Nat]
  BY <1>0 DEF Shapes
<1>3. /\ \A i \in DOMAIN batch' : i + 1 \in DOMAIN batch /\ batch'[i] = batch[i + 1]
      /\ h = batch[1] /\ 1 \in DOMAIN batch
  BY <1>1, <1>2
<1>4. BatchQueued'
  BY <1>0, <1>1, <1>3 DEF BatchQueued, Flushing
<1>5. ASSUME NEW k \in Keys \ unwritten', newest[k] # 0, Kept(k)
      PROVE  /\ Holds(Queue(k), k[2]) \/ row'[k] = newest[k]
             /\ Flushing' /\ k[1] \notin todo' =>
                  /\ Covered(Pending(k)', k[2], newest[k])
                  /\ Holds(Pending(k)', k[2]) \/ row'[k] = newest[k]
  <2>1. k = <<k[1], k[2]>>
    BY DEF Keys
  <2>2. CASE k[1] # batchTask
    <3>1. row'[k] = row[k]
      BY <1>1, <1>2, <2>1, <2>2
    <3> QED BY <1>1, <1>5, <2>2, <3>1 DEF Kept, Pending, Flushing
  <2>3. CASE k[1] = batchTask
    <3>1. h.name = k[2] => Holds(Queue(k), k[2])
      BY <1>0, <1>3, <2>3 DEF BatchQueued, Holds, Queue
    <3>2. h.name # k[2] => row'[k] = row[k]
      BY <1>1, <1>2, <2>1, <2>3
    <3>3. h.name = k[2] => row'[k] = h.version
      BY <1>1, <1>2, <1>5, <2>1, <2>3
    <3>4. Pending(k) = batch /\ Pending(k)' = Tail(batch)
      BY <1>1, <2>3 DEF Pending
    <3>5. Flushing' /\ k[1] \notin todo' =>
            /\ Covered(Tail(batch), k[2], newest[k])
            /\ Holds(batch, k[2]) =>
                 Holds(Tail(batch), k[2]) \/ (h.name = k[2] /\ h.version = newest[k])
            /\ h.name # k[2] => (Holds(batch, k[2]) <=> Holds(Tail(batch), k[2]))
      BY <1>1, <1>2, <1>5, <3>4, CoveredTail DEF Kept, Flushing
    <3>6. h.name = k[2] => Holds(batch, k[2])
      BY <1>3 DEF Holds
    <3>7. Holds(Queue(k), k[2]) \/ row'[k] = newest[k]
      BY <1>5, <3>1, <3>2 DEF Kept
    <3>8. Flushing' /\ k[1] \notin todo' => Holds(batch, k[2]) \/ row[k] = newest[k]
      BY <1>1, <1>5, <3>4 DEF Kept, Flushing
    <3> HIDE DEF h
    <3> QED BY <3>2, <3>3, <3>4, <3>5, <3>6, <3>7, <3>8
  <2> QED BY <2>2, <2>3
<1> QED BY <1>1, <1>4, <1>5, SameQueueKeeps

LEMMA PrepareKeeps ==
  ASSUME RInv, NInv, NEW t \in Tasks, PrepareTask(t)
  PROVE  NInv'
<1>0. Shapes /\ BatchQueued
  BY DEF RInv, NInv
<1>1. /\ UNCHANGED <<mObjectsQueue, newest, unwritten, row, pc>> /\ Flushing /\ batch = << >>
      /\ todo' = todo \ {t} /\ batch' = mObjectsQueue[t] /\ batchTask' = t
  BY DEF PrepareTask, RowsOf, StatementTask, queue, stored, Flushing
<1>2. BatchQueued'
  BY <1>1 DEF BatchQueued, Flushing
<1>3. ASSUME NEW k \in Keys \ unwritten', newest[k] # 0, Kept(k)
      PROVE  /\ Holds(Queue(k), k[2]) \/ row'[k] = newest[k]
             /\ Flushing' /\ k[1] \notin todo' =>
                  /\ Covered(Pending(k)', k[2], newest[k])
                  /\ Holds(Pending(k)', k[2]) \/ row'[k] = newest[k]
  <2>1. CASE k[1] = t
    <3>1. Pending(k)' = Queue(k)
      BY <1>1, <2>1 DEF Pending, Queue
    <3> QED BY <1>1, <1>3, <3>1 DEF Kept
  <2>2. CASE k[1] # t
    <3>1. Pending(k)' = << >> /\ Pending(k) = << >>
      BY <1>1, <2>2 DEF Pending
    <3> QED BY <1>1, <1>3, <2>2, <3>1 DEF Kept
  <2> QED BY <2>1, <2>2
<1> QED BY <1>1, <1>2, <1>3, SameQueueKeeps

\* The queue is cleared: by the end of a flush that has written everything, or by
\* the end of the process, which takes away what was queued.
LEMMA ClearKeeps ==
  ASSUME RInv, NInv, FlushDone \/ PrepareFailsClosing \/ Crash
  PROVE  NInv'
<1>0. Shapes /\ newest \in [Keys -> Nat] /\ AllKept
  BY DEF RInv, NInv
<1>1. /\ mObjectsQueue' = EmptyQueue /\ batch' = << >> /\ ~Flushing'
      /\ UNCHANGED <<row, unwritten>>
  BY DEF FlushDone, ClearQueue, PrepareFailsClosing, Crash, ProcessGone, server, stored, Flushing
<1>2. BatchQueued'
  BY <1>1 DEF BatchQueued
<1>3. /\ newest' \in [Keys -> Nat]
      /\ \A k \in Keys : newest'[k] # 0 => newest'[k] = newest[k]
      /\ \A k \in Keys \ unwritten : newest'[k] # 0 => row[k] = newest[k]
  <2>1. CASE FlushDone
    <3>1. newest' = newest /\ Flushing /\ todo = {} /\ batch = << >>
      BY <2>1 DEF FlushDone, stored, Flushing
    <3>2. \A k : Pending(k) = << >>
      BY <3>1 DEF Pending
    <3> QED BY <1>0, <3>1, <3>2 DEF AllKept, Kept, Holds
  <2>2. CASE PrepareFailsClosing \/ Crash
    <3>1. newest' = [k \in Keys |-> IF k \in ForgottenByCrash THEN 0 ELSE newest[k]]
      BY <2>2 DEF PrepareFailsClosing, Crash, ProcessGone
    <3>2. \A k \in Keys : Holds(Queue(k), k[2]) => k \in ForgottenByCrash
      BY DEF Holds, Queue, ForgottenByCrash, QueuedVersions
    <3> QED BY <1>0, <3>1, <3>2 DEF AllKept, Kept
  <2> QED BY <2>1, <2>2
<1>4. ASSUME NEW k \in Keys \ unwritten, newest'[k] # 0
      PROVE  Kept(k)'
  <2>1. k[1] \in Tasks
    BY DEF Keys
  <2>2. mObjectsQueue'[k[1]] = << >>
    BY <1>1, <2>1 DEF EmptyQueue
  <2>3. Covered(<< >>, k[2], newest'[k])
    BY DEF Covered
  <2> QED BY <1>1, <1>3, <1>4, <2>2, <2>3 DEF Kept, Queue
<1> QED BY <1>1, <1>2, <1>3, <1>4 DEF NInv, AllKept

LEMMA NewestStep == RInv /\ NInv /\ [Next]_vars => NInv'
<1> SUFFICES ASSUME RInv, NInv, [Next]_vars PROVE NInv'
  OBVIOUS
<1>0. newest \in [Keys -> Nat] /\ BatchQueued /\ AllKept /\ Shapes
  BY DEF NInv, RInv
<1>1. ASSUME NEW t \in Tasks, NEW n \in Names, Truncate(t, n) PROVE NInv'
  <2>1. /\ UNCHANGED <<mObjectsQueue, pc, todo, batch, batchTask, unwritten>>
        /\ row' = [row EXCEPT ![<<t, n>>] = 0] /\ newest' = [newest EXCEPT ![<<t, n>>] = 0]
    BY <1>1 DEF Truncate, queue, loop
  <2>2. newest' \in [Keys -> Nat] /\ BatchQueued'
    BY <1>0, <2>1 DEF BatchQueued, Flushing
  <2>3. ASSUME NEW k \in Keys \ unwritten, newest'[k] # 0 PROVE Kept(k)'
    <3>1. newest'[k] = newest[k] /\ row'[k] = row[k]
      BY <1>0, <2>1, <2>3 DEF Shapes
    <3>2. Kept(k)
      BY <1>0, <2>3, <3>1 DEF AllKept
    <3> QED BY <2>1, <3>1, <3>2 DEF Kept, Queue, Flushing, Pending
  <2> QED BY <2>1, <2>2, <2>3 DEF NInv, AllKept
<1>2. CASE Disconnect
  <2>1. /\ batch = << >> /\ batch' = << >> /\ UNCHANGED <<mObjectsQueue, newest, unwritten, row>>
        /\ todo' = {t \in Tasks : mObjectsQueue[t] # << >>}
    BY <1>0, <1>2 DEF Disconnect, BeginFlush, BatchQueued, Flushing, queue, server, stored
  <2>2. BatchQueued'
    BY <2>1 DEF BatchQueued
  <2>3. ASSUME NEW k \in Keys \ unwritten', newest[k] # 0, Kept(k)
        PROVE  /\ Holds(Queue(k), k[2]) \/ row'[k] = newest[k]
               /\ k[1] \notin todo' =>
                    /\ Covered(Pending(k)', k[2], newest[k])
                    /\ row'[k] = newest[k]
    <3>1. k[1] \in Tasks /\ Pending(k)' = << >>
      BY <2>1 DEF Keys, Pending
    <3>2. k[1] \notin todo' => ~Holds(Queue(k), k[2])
      BY <2>1, <3>1 DEF Holds, Queue
    <3>3. Covered(<< >>, k[2], newest[k])
      BY DEF Covered
    <3> QED BY <2>1, <2>3, <3>1, <3>2, <3>3 DEF Kept
  <2> QED BY <2>1, <2>2, <2>3, SameQueueKeeps
<1>3. CASE TimePasses \/ Restart \/ UNCHANGED vars \/ \E t \in Tasks : PrepareFails(t)
  <2>1. /\ UNCHANGED <<mObjectsQueue, newest, unwritten, row, batch, batchTask>>
        /\ \/ UNCHANGED <<pc, todo>>
           \/ batch = << >> /\ ~Flushing'
    BY <1>0, <1>3 DEF TimePasses, Restart, PrepareFails, AfterFailure, vars, queue, loop, server,
       stored, Flushing, BatchQueued
  <2>2. BatchQueued'
    BY <1>0, <2>1 DEF BatchQueued, Flushing
  <2>3. ASSUME NEW k \in Keys \ unwritten', newest[k] # 0, Kept(k)
        PROVE  /\ Holds(Queue(k), k[2]) \/ row'[k] = newest[k]
               /\ Flushing' /\ k[1] \notin todo' =>
                    /\ Covered(Pending(k)', k[2], newest[k])
                    /\ Holds(Pending(k)', k[2]) \/ row'[k] = newest[k]
    BY <2>1, <2>3 DEF Kept, Pending, Flushing
  <2> QED BY <2>1, <2>2, <2>3, SameQueueKeeps
<1> QED
  BY <1>1, <1>2, <1>3, StoreKeeps, WriteKeeps, PrepareKeeps, ClearKeeps DEF Next

\* However often a flush fails half-way and begins again, and whatever a crash
\* takes away, the newest version of a key is in its row, or in the queue behind
\* all older ones: for every limit of the queue.
THEOREM NewestIsAlwaysKept == Spec => []NewestIsKept
<1>1. NInv => NewestIsKept
  <2> SUFFICES ASSUME NInv, NEW k \in Keys \ unwritten, newest[k] # 0
               PROVE  \/ row[k] = newest[k]
                      \/ /\ newest[k] \in QueuedVersions(k)
                         /\ \A v \in QueuedVersions(k) : v <= newest[k]
    BY DEF NewestIsKept
  <2>1. Kept(k)
    BY DEF NInv, AllKept
  <2>2. \A v \in QueuedVersions(k) : v <= newest[k]
    BY <2>1 DEF Kept, Covered, Queue, QueuedVersions
  <2>3. Holds(Queue(k), k[2]) => newest[k] \in QueuedVersions(k)
    BY <2>1 DEF Kept, Covered, Holds, Queue, QueuedVersions
  <2> QED BY <2>1, <2>2, <2>3 DEF Kept
<1> QED BY <1>1, NewestInit, NewestStep, Invariance, PTL DEF Spec

-----------------------------------------------------------------------------
(***************************************************************************)
(* What a truncate deletes. No version that was deleted waits in the queue *)
(* or is about to be written: nothing brings it back.                      *)
(***************************************************************************)
Apart ==
  /\ deleted \subseteq DOMAIN log
  /\ \A t \in Tasks : \A i \in DOMAIN mObjectsQueue[t] : mObjectsQueue[t][i].version \notin deleted
  /\ \A i \in DOMAIN batch : batch[i].version \notin deleted

LEMMA ApartInit == Init => Apart
  BY DEF Init, Apart, EmptyQueue

\* Every version that waits is counted as queued.
LEMMA QueuedHolds ==
  ASSUME RInv, NEW t \in Tasks, NEW i \in DOMAIN mObjectsQueue[t]
  PROVE  mObjectsQueue[t][i].version \in Queued
<1> DEFINE o == mObjectsQueue[t][i]
<1>1. mObjectsQueue[t] \in Seq(QueuedObject)
  BY DEF RInv, Shapes
<1>2. o \in QueuedObject
  BY <1>1
<1>3. <<t, o.name>> \in Keys
  BY <1>2 DEF QueuedObject, Keys
<1>4. o.version \in QueuedVersions(<<t, o.name>>)
  BY DEF QueuedVersions
<1> QED BY <1>3, <1>4 DEF Queued

LEMMA ApartStep == RInv /\ NInv /\ Apart /\ [Next]_vars => Apart'
<1> SUFFICES ASSUME RInv, NInv, Apart, [Next]_vars PROVE Apart'
  OBVIOUS
<1>0. Shapes /\ BatchLogged /\ BatchQueued
  BY DEF RInv, NInv
<1>1. ASSUME NEW t \in Tasks, NEW n \in Names, Store(t, n) PROVE Apart'
  <2> DEFINE o == [name |-> n, version |-> Len(log) + 1]
  <2>1. /\ mObjectsQueue' = [mObjectsQueue EXCEPT ![t] = Append(mObjectsQueue[t], o)]
        /\ log' = Append(log, <<t, n>>) /\ UNCHANGED <<deleted, batch>>
    BY <1>1 DEF Store
  <2>2. log \in Seq(Keys) /\ mObjectsQueue \in [Tasks -> Seq(QueuedObject)]
    BY <1>0 DEF Shapes
  <2>3. deleted \subseteq DOMAIN log' /\ o.version \notin deleted
    BY <2>1, <2>2 DEF Apart
  <2>4. ASSUME NEW u \in Tasks, NEW i \in DOMAIN mObjectsQueue'[u]
        PROVE  mObjectsQueue'[u][i].version \notin deleted
    <3>1. CASE u = t
      <4>1. mObjectsQueue'[u] = Append(mObjectsQueue[t], o) /\ mObjectsQueue[t] \in Seq(QueuedObject)
        BY <2>1, <2>2, <3>1
      <4>2. mObjectsQueue'[u][i] = o \/ (i \in DOMAIN mObjectsQueue[t] /\ mObjectsQueue'[u][i] = mObjectsQueue[t][i])
        <5> HIDE DEF o
        <5> QED BY <2>4, <4>1
      <4> QED BY <2>3, <4>2 DEF Apart
    <3>2. CASE u # t
      <4>1. mObjectsQueue'[u] = mObjectsQueue[u]
        BY <2>1, <2>2, <3>2
      <4> QED BY <2>4, <4>1 DEF Apart
    <3> QED BY <3>1, <3>2
  <2> QED BY <2>1, <2>3, <2>4 DEF Apart
<1>2. ASSUME NEW t \in Tasks, NEW n \in Names, Truncate(t, n) PROVE Apart'
  <2>1. /\ UNCHANGED <<mObjectsQueue, log, batch, batchTask>>
        /\ deleted' \subseteq deleted \cup (DOMAIN log \ Queued)
    BY <1>2 DEF Truncate, DeletedBy, queue, loop
  <2>2. \A u \in Tasks : \A i \in DOMAIN mObjectsQueue[u] : mObjectsQueue[u][i].version \notin deleted'
    BY <2>1, QueuedHolds DEF Apart
  <2>3. ASSUME NEW i \in DOMAIN batch PROVE batch[i].version \notin deleted'
    <3>1. batchTask \in Tasks
      BY <1>0, <2>3 DEF BatchLogged
    <3>2. PICK j \in DOMAIN mObjectsQueue[batchTask] : mObjectsQueue[batchTask][j] = batch[i]
      BY <1>0 DEF BatchQueued
    <3> QED BY <2>2, <3>1, <3>2
  <2> QED BY <2>1, <2>2, <2>3 DEF Apart
<1>3. ASSUME NEW t \in Tasks, PrepareTask(t) PROVE Apart'
  <2>1. UNCHANGED <<mObjectsQueue, log, deleted>> /\ batch' = mObjectsQueue[t]
    BY <1>3 DEF PrepareTask, RowsOf, queue, stored
  <2> QED BY <2>1 DEF Apart
<1>4. CASE WriteRow \/ WriteFails
  <2>1. UNCHANGED <<mObjectsQueue, log, deleted>> /\ batch' = Tail(batch) /\ batch # << >>
    BY <1>4 DEF WriteRow, WriteFails, queue, stored
  <2>2. batch \in Seq(QueuedObject)
    BY <1>0 DEF Shapes
  <2>3. \A i \in DOMAIN batch' : i + 1 \in DOMAIN batch /\ batch'[i] = batch[i + 1]
    BY <2>1, <2>2
  <2> QED BY <2>1, <2>3 DEF Apart
<1>5. CASE FlushDone \/ PrepareFailsClosing \/ Crash
  <2>1. UNCHANGED <<log, deleted>> /\ batch' = << >> /\ mObjectsQueue' = EmptyQueue
    BY <1>0, <1>5 DEF FlushDone, ClearQueue, PrepareFailsClosing, Crash, ProcessGone, stored
  <2> QED BY <2>1 DEF Apart, EmptyQueue
<1>6. CASE \/ TimePasses \/ Disconnect \/ Restart \/ UNCHANGED vars
           \/ \E t \in Tasks : PrepareFails(t)
  <2>1. UNCHANGED <<mObjectsQueue, batch, log, deleted>>
    BY <1>6 DEF TimePasses, Disconnect, Restart, PrepareFails, AfterFailure, vars, queue, loop, stored
  <2> QED BY <2>1 DEF Apart
<1> QED BY <1>1, <1>2, <1>3, <1>4, <1>5, <1>6 DEF Next

LEMMA AlwaysApart == Spec => []Apart
  BY ApartInit, ApartStep, NewestInit, NewestStep, Invariance, PTL DEF Spec

LEMMA InitImplements == Init => Implements!Init
  BY DEF Init, Implements!Init, Implements!Nothing

LEMMA StepImplements ==
  RInv /\ Apart /\ [Next]_vars => [Implements!Next]_<<log, row, deleted>>
<1> SUFFICES ASSUME RInv, Apart, [Next]_vars,
                    UNCHANGED <<log, row, deleted>> => FALSE
             PROVE  Implements!Next
  OBVIOUS
<1>0. Shapes /\ BatchLogged /\ Apart
  BY DEF RInv
<1>1. ASSUME NEW t \in Tasks, NEW n \in Names, Store(t, n)
      PROVE  Implements!Next
  <2>1. <<t, n>> \in Keys /\ log' = Append(log, <<t, n>>) /\ UNCHANGED <<row, deleted>>
    BY <1>1 DEF Store, server, Keys
  <2>2. Implements!Submit(<<t, n>>)
    BY <2>1 DEF Implements!Submit
  <2> QED BY <2>1, <2>2 DEF Implements!Next
<1>2. ASSUME NEW t \in Tasks, NEW n \in Names, Truncate(t, n)
      PROVE  Implements!Next
  <2>1. /\ <<t, n>> \in Keys /\ log' = log /\ row' = [row EXCEPT ![<<t, n>>] = 0]
        /\ deleted' = deleted \cup (Implements!Versions(<<t, n>>) \ Queued)
    BY <1>2 DEF Truncate, DeletedBy, Keys, Implements!Versions
  <2>2. Implements!Hide(<<t, n>>)
    BY <2>1 DEF Implements!Hide, Implements!Nothing
  <2> QED BY <2>1, <2>2 DEF Implements!Next
<1>3. CASE WriteRow
  <2> DEFINE k == <<batchTask, Head(batch).name>>
             v == Head(batch).version
  <2>1. batch # << >> /\ UNCHANGED <<log, deleted>> /\ row' = [row EXCEPT ![k] = v]
    BY <1>3 DEF WriteRow, stored
  <2>2. Head(batch) \in QueuedObject /\ Head(batch) = batch[1] /\ 1 \in DOMAIN batch
    BY <1>0, <2>1 DEF Shapes
  <2>3. v \in DOMAIN log /\ log[v] = k /\ batchTask \in Tasks /\ v \notin deleted
    BY <1>0, <2>1, <2>2 DEF BatchLogged, LoggedUnder, Apart
  <2>4. k \in Keys
    BY <2>2, <2>3 DEF Keys, QueuedObject
  <2>5. Implements!Show(k)
    BY <2>1, <2>3 DEF Implements!Show, Implements!Versions
  <2> QED BY <2>4, <2>5 DEF Implements!Next
<1>4. ASSUME NEW t \in Tasks, PrepareTask(t) \/ PrepareFails(t)
      PROVE  UNCHANGED <<log, row, deleted>>
  BY <1>4 DEF PrepareTask, PrepareFails, stored
<1>5. CASE \/ TimePasses \/ Disconnect \/ PrepareFailsClosing \/ WriteFails
           \/ FlushDone \/ Crash \/ Restart \/ UNCHANGED vars
  <2>1. UNCHANGED <<log, row, deleted>>
    BY <1>5 DEF TimePasses, Disconnect, PrepareFailsClosing, WriteFails,
       FlushDone, Crash, Restart, ProcessGone, vars, server, stored
  <2> QED BY <2>1
<1> QED
  BY <1>1, <1>2, <1>3, <1>4, <1>5 DEF Next

\* Whatever fails, a reader of the tables finds under a key only objects that were
\* stored under that key, and none that a truncate deleted.
THEOREM ImplementsRepository == Spec => RepositorySpec
<1>1. RInv /\ Apart /\ [Next]_vars => [Implements!Next]_<<log, row, deleted>>
  BY StepImplements
<1> QED BY InitImplements, <1>1, Invariance, AlwaysApart, PTL DEF Spec, RepositorySpec, Implements!Spec

-----------------------------------------------------------------------------
(***************************************************************************)
(* Older versions. A queue and what is pending of it are in the order of   *)
(* the versions; when they hold an older version than the row, they hold   *)
(* the one of the row as well, which therefore comes after it.             *)
(***************************************************************************)
Ascending(s) == \A i, j \in DOMAIN s : i < j => s[i].version < s[j].version

Repairs(s, n, r) ==
  \A i \in DOMAIN s : s[i].name = n /\ s[i].version < r => \E j \in DOMAIN s : s[j].version = r

Ordered ==
  /\ \A t \in Tasks : Ascending(mObjectsQueue[t])
  /\ Ascending(batch)

Repairable ==
  \A k \in Keys :
    /\ row[k] <= Len(log)
    /\ Repairs(Queue(k), k[2], row[k])
    /\ Repairs(Pending(k), k[2], row[k])

OInv == Ordered /\ Repairable

LEMMA VersionsAreNumbers ==
  ASSUME NEW s \in Seq(QueuedObject)
  PROVE  \A i \in DOMAIN s : s[i].version \in Nat
<1>1. \A i \in DOMAIN s : s[i] \in QueuedObject
  OBVIOUS
<1> QED BY <1>1 DEF QueuedObject

LEMMA AscendingTail ==
  ASSUME NEW s \in Seq(QueuedObject), s # << >>, Ascending(s)
  PROVE  /\ Ascending(Tail(s))
         /\ \A i \in DOMAIN Tail(s) : Tail(s)[i].version > Head(s).version
         /\ \A n : \A r \in Nat : Repairs(s, n, r) => Repairs(Tail(s), n, r)
         /\ \A r \in Nat : Repairs(s, Head(s).name, r) /\ Head(s).version < r =>
              \E j \in DOMAIN Tail(s) : Tail(s)[j].version = r
<1>1. /\ \A i \in DOMAIN Tail(s) : i \in Nat \ {0} /\ i + 1 \in DOMAIN s /\ Tail(s)[i] = s[i + 1]
      /\ \A i \in DOMAIN s : i \in Nat \ {0} /\ (i # 1 => i - 1 \in DOMAIN Tail(s) /\ Tail(s)[i - 1] = s[i])
      /\ Head(s) = s[1] /\ 1 \in DOMAIN s
      /\ \A i \in DOMAIN s : s[i].version \in Nat
  BY VersionsAreNumbers
<1>2. Ascending(Tail(s))
  <2> SUFFICES ASSUME NEW i \in DOMAIN Tail(s), NEW j \in DOMAIN Tail(s), i < j
               PROVE  Tail(s)[i].version < Tail(s)[j].version
    BY DEF Ascending
  <2>1. i + 1 < j + 1 /\ i + 1 \in DOMAIN s /\ j + 1 \in DOMAIN s
    BY <1>1
  <2> QED BY <1>1, <2>1 DEF Ascending
<1>3. ASSUME NEW i \in DOMAIN Tail(s) PROVE Tail(s)[i].version > Head(s).version
  <2>1. 1 < i + 1 /\ i + 1 \in DOMAIN s
    BY <1>1
  <2>2. s[1].version < s[i + 1].version
    BY <1>1, <2>1 DEF Ascending
  <2> QED BY <1>1, <2>1, <2>2
<1>4. ASSUME NEW n, NEW r \in Nat, Repairs(s, n, r) PROVE Repairs(Tail(s), n, r)
  <2> SUFFICES ASSUME NEW i \in DOMAIN Tail(s), Tail(s)[i].name = n, Tail(s)[i].version < r
               PROVE  \E j \in DOMAIN Tail(s) : Tail(s)[j].version = r
    BY DEF Repairs
  <2>1. i + 1 \in DOMAIN s /\ s[i + 1] = Tail(s)[i]
    BY <1>1
  <2>2. PICK j \in DOMAIN s : s[j].version = r
    BY <1>4, <2>1 DEF Repairs
  <2>3. j # 1
    BY <1>1, <1>3, <2>1, <2>2
  <2> QED BY <1>1, <2>2, <2>3
<1>5. ASSUME NEW r \in Nat, Repairs(s, Head(s).name, r), Head(s).version < r
      PROVE  \E j \in DOMAIN Tail(s) : Tail(s)[j].version = r
  <2>1. PICK j \in DOMAIN s : s[j].version = r
    BY <1>1, <1>5 DEF Repairs
  <2>2. j # 1
    BY <1>1, <1>5, <2>1
  <2> QED BY <1>1, <2>1, <2>2
<1> QED BY <1>2, <1>3, <1>4, <1>5

LEMMA AscendingAppend ==
  ASSUME NEW s \in Seq(QueuedObject), NEW o \in QueuedObject,
         \A i \in DOMAIN s : s[i].version < o.version
  PROVE  /\ Ascending(s) => Ascending(Append(s, o))
         /\ \A n : \A r \in Nat : r <= o.version /\ Repairs(s, n, r) => Repairs(Append(s, o), n, r)
<1> DEFINE q == Append(s, o)
<1>1. /\ \A i \in DOMAIN s : i \in DOMAIN q /\ q[i] = s[i] /\ i <= Len(s) /\ i \in Nat
      /\ \A i \in DOMAIN q : i \in DOMAIN s \/ i = Len(s) + 1
      /\ q[Len(s) + 1] = o /\ Len(s) \in Nat /\ o.version \in Nat
  BY DEF QueuedObject
<1> HIDE DEF q
<1>2. ASSUME Ascending(s), NEW i \in DOMAIN q, NEW j \in DOMAIN q, i < j
      PROVE  q[i].version < q[j].version
  <2>1. i \in DOMAIN s
    BY <1>1, <1>2
  <2> QED BY <1>1, <1>2, <2>1 DEF Ascending
<1>3. ASSUME NEW n, NEW r \in Nat, r <= o.version, Repairs(s, n, r)
      PROVE  Repairs(q, n, r)
  <2> SUFFICES ASSUME NEW i \in DOMAIN q, q[i].name = n, q[i].version < r
               PROVE  \E j \in DOMAIN q : q[j].version = r
    BY DEF Repairs
  <2>1. i \in DOMAIN s
    BY <1>1, <1>3
  <2>2. PICK j \in DOMAIN s : s[j].version = r
    BY <1>1, <1>3, <2>1 DEF Repairs
  <2> QED BY <1>1, <2>2
<1> QED BY <1>2, <1>3 DEF Ascending, q

LEMMA OrderedInit == Init => OInv
<1> SUFFICES ASSUME Init PROVE OInv
  OBVIOUS
<1>1. Ordered
  BY DEF Init, Ordered, Ascending, EmptyQueue
<1>2. Repairable
  BY DEF Init, Repairable, Repairs, Queue, Pending, EmptyQueue, Keys
<1> QED BY <1>1, <1>2 DEF OInv

LEMMA StoreOrders ==
  ASSUME RInv, NInv, OInv, NEW t \in Tasks, NEW n \in Names, Store(t, n)
  PROVE  OInv'
<1> DEFINE v == Len(log) + 1
           o == [name |-> n, version |-> v]
<1>0. Shapes /\ QueueLogged /\ BatchQueued /\ Ordered /\ Repairable
  BY DEF RInv, NInv, OInv
<1>1. /\ batch = << >> /\ batch' = << >> /\ row' = row /\ log' = Append(log, <<t, n>>)
      /\ mObjectsQueue' = [mObjectsQueue EXCEPT ![t] = Append(mObjectsQueue[t], o)]
  BY <1>0 DEF Store, BatchQueued, Flushing, server
<1>2. v \in Nat /\ o \in QueuedObject /\ o.version = v /\ Len(log) <= v /\ Len(log') = v
  BY <1>0, <1>1 DEF Shapes, QueuedObject, Keys
<1>3. mObjectsQueue[t] \in Seq(QueuedObject) /\ log \in Seq(Keys)
  BY <1>0 DEF Shapes
<1>4. \A i \in DOMAIN mObjectsQueue[t] : mObjectsQueue[t][i].version < v
  <2>1. \A i \in DOMAIN mObjectsQueue[t] : mObjectsQueue[t][i].version \in 1 .. Len(log)
    BY <1>0, <1>3 DEF QueueLogged, LoggedUnder
  <2> QED BY <1>3, <2>1
<1>5. Len(log) \in Nat
  BY <1>3
<1> HIDE DEF v, o
<1>6. Ascending(Append(mObjectsQueue[t], o))
  BY <1>0, <1>2, <1>3, <1>4, AscendingAppend DEF Ordered
<1>7. Ordered'
  BY <1>0, <1>1, <1>6 DEF Ordered, Shapes, Ascending
<1>8. ASSUME NEW k \in Keys
      PROVE  /\ row'[k] <= Len(log')
             /\ Repairs(mObjectsQueue'[k[1]], k[2], row'[k])
             /\ Repairs(Pending(k)', k[2], row'[k])
  <2>1. row[k] \in Nat /\ row[k] <= Len(log) /\ Repairs(Queue(k), k[2], row[k]) /\ k[1] \in Tasks
    BY <1>0 DEF Repairable, Shapes, Keys
  <2>2. row[k] <= v
    BY <1>2, <1>5, <2>1
  <2>3. Repairs(mObjectsQueue'[k[1]], k[2], row[k])
    <3>1. CASE k[1] = t
      <4>1. mObjectsQueue'[k[1]] = Append(mObjectsQueue[t], o)
        BY <1>0, <1>1, <3>1 DEF Shapes
      <4>2. Repairs(mObjectsQueue[t], k[2], row[k])
        BY <2>1, <3>1 DEF Queue
      <4> QED BY <1>2, <1>3, <1>4, <2>1, <2>2, <4>1, <4>2, AscendingAppend
    <3>2. CASE k[1] # t
      <4>1. mObjectsQueue'[k[1]] = mObjectsQueue[k[1]]
        BY <1>0, <1>1, <2>1, <3>2 DEF Shapes
      <4> QED BY <2>1, <4>1 DEF Queue
    <3> QED BY <3>1, <3>2
  <2>4. Repairs(Pending(k)', k[2], row[k])
    BY <1>1 DEF Pending, Repairs
  <2> QED BY <1>1, <1>2, <2>2, <2>3, <2>4
<1> QED BY <1>7, <1>8 DEF OInv, Repairable, Queue

LEMMA WriteOrders ==
  ASSUME RInv, NInv, OInv, WriteRow \/ WriteFails
  PROVE  OInv'
<1> DEFINE h == Head(batch)
<1>0. Shapes /\ BatchLogged /\ BatchQueued /\ Ordered /\ Repairable
  BY DEF RInv, NInv, OInv
<1>1. /\ UNCHANGED <<mObjectsQueue, batchTask, log>> /\ batch' = Tail(batch) /\ batch # << >>
      /\ row' = [row EXCEPT ![<<batchTask, h.name>>] = h.version] \/ row' = row
  BY DEF WriteRow, WriteFails, queue, server, stored
<1>2. /\ batch \in Seq(QueuedObject) /\ row \in [Keys -> Nat] /\ log \in Seq(Keys)
      /\ Ascending(batch)
  BY <1>0 DEF Shapes, Ordered
<1>3. h = batch[1] /\ 1 \in DOMAIN batch /\ h \in QueuedObject
  BY <1>1, <1>2
<1>4. h.version \in Nat /\ h.version <= Len(log)
  <2>1. h.version \in DOMAIN log
    BY <1>0, <1>1, <1>3 DEF BatchLogged, LoggedUnder
  <2> QED BY <1>2, <2>1
<1>5. PICK p \in DOMAIN mObjectsQueue[batchTask] : mObjectsQueue[batchTask][p] = h
  BY <1>0, <1>3 DEF BatchQueued
<1>6. /\ Ascending(batch')
      /\ \A i \in DOMAIN batch' : batch'[i].version > h.version
      /\ \A n : \A r \in Nat : Repairs(batch, n, r) => Repairs(batch', n, r)
  BY <1>1, <1>2, AscendingTail
<1>7. Ordered'
  BY <1>0, <1>1, <1>6 DEF Ordered
<1>8. ASSUME NEW k \in Keys
      PROVE  /\ row'[k] <= Len(log')
             /\ Repairs(mObjectsQueue'[k[1]], k[2], row'[k])
             /\ Repairs(Pending(k)', k[2], row'[k])
  <2>0. k = <<k[1], k[2]>>
    BY DEF Keys
  <2>1. /\ row[k] \in Nat /\ row[k] <= Len(log) /\ Repairs(mObjectsQueue[k[1]], k[2], row[k])
        /\ Repairs(Pending(k), k[2], row[k])
    BY <1>0, <1>2 DEF Repairable, Queue
  <2>2. CASE row'[k] = row[k]
    <3>1. Repairs(Pending(k)', k[2], row[k])
      BY <1>1, <1>6, <2>1 DEF Pending
    <3> QED BY <1>1, <2>1, <2>2, <3>1
  <2>3. CASE row'[k] # row[k]
    <3>1. k[1] = batchTask /\ row'[k] = h.version
      BY <1>1, <1>2, <2>0, <2>3
    <3>2. Repairs(mObjectsQueue[batchTask], k[2], h.version)
      BY <1>5 DEF Repairs
    <3>3. \A i \in DOMAIN batch' : batch'[i] \in QueuedObject
      BY <1>1, <1>2
    <3>4. Repairs(batch', k[2], h.version)
      BY <1>4, <1>6, <3>3 DEF Repairs, QueuedObject
    <3>5. Pending(k)' = batch'
      BY <1>1, <3>1 DEF Pending
    <3> QED BY <1>1, <1>4, <3>1, <3>2, <3>4, <3>5
  <2> QED BY <2>2, <2>3
<1> QED BY <1>7, <1>8 DEF OInv, Repairable, Queue

LEMMA OrderedStep == RInv /\ NInv /\ OInv /\ [Next]_vars => OInv'
<1> SUFFICES ASSUME RInv, NInv, OInv, [Next]_vars PROVE OInv'
  OBVIOUS
<1>0. Shapes /\ BatchQueued /\ Ordered /\ Repairable
  BY DEF RInv, NInv, OInv
<1>1. ASSUME NEW t \in Tasks, NEW n \in Names, Truncate(t, n) PROVE OInv'
  <2>1. /\ UNCHANGED <<mObjectsQueue, batch, batchTask, log>>
        /\ row' = [row EXCEPT ![<<t, n>>] = 0]
    BY <1>1 DEF Truncate, queue, loop
  <2>2. Ordered'
    BY <1>0, <2>1 DEF Ordered
  <2>3. ASSUME NEW k \in Keys
        PROVE  row'[k] <= Len(log) /\ Repairs(Queue(k), k[2], row'[k]) /\ Repairs(Pending(k), k[2], row'[k])
    <3>1. CASE row'[k] = row[k]
      BY <1>0, <3>1 DEF Repairable
    <3>2. CASE row'[k] # row[k]
      <4>1. row'[k] = 0 /\ Len(log) \in Nat
        BY <1>0, <2>1, <3>2 DEF Shapes
      <4>2. /\ Queue(k) \in Seq(QueuedObject) /\ Pending(k) \in Seq(QueuedObject)
        BY <1>0 DEF Shapes, Queue, Pending, Keys
      <4>3. \A s \in Seq(QueuedObject) : Repairs(s, k[2], 0)
        BY VersionsAreNumbers DEF Repairs
      <4> QED BY <4>1, <4>2, <4>3
    <3> QED BY <3>1, <3>2
  <2>4. Repairable'
    BY <2>1, <2>3 DEF Repairable, Queue, Pending
  <2> QED BY <2>2, <2>4 DEF OInv
<1>2. ASSUME NEW t \in Tasks, PrepareTask(t) PROVE OInv'
  <2>1. /\ UNCHANGED <<mObjectsQueue, row, log>>
        /\ batch' = mObjectsQueue[t] /\ batchTask' = t
    BY <1>2 DEF PrepareTask, RowsOf, StatementTask, queue, stored
  <2>2. Ordered'
    BY <1>0, <2>1 DEF Ordered
  <2>3. Repairable'
    BY <1>0, <2>1 DEF Repairable, Queue, Pending, Repairs
  <2> QED BY <2>2, <2>3 DEF OInv
<1>3. CASE FlushDone \/ PrepareFailsClosing \/ Crash
  <2>1. UNCHANGED <<row, log>> /\ batch' = << >> /\ mObjectsQueue' = EmptyQueue
    BY <1>3 DEF FlushDone, ClearQueue, PrepareFailsClosing, Crash, ProcessGone, server, stored
  <2>2. Ordered'
    BY <2>1 DEF Ordered, Ascending, EmptyQueue
  <2>3. \A k \in Keys : Queue(k)' = << >> /\ Pending(k)' = << >>
    BY <2>1 DEF Queue, Pending, EmptyQueue, Keys
  <2>4. Repairable'
    BY <1>0, <2>1, <2>3 DEF Repairable, Repairs
  <2> QED BY <2>2, <2>4 DEF OInv
<1>4. CASE \/ TimePasses \/ Disconnect \/ Restart \/ UNCHANGED vars
           \/ \E t \in Tasks : PrepareFails(t)
  <2>1. UNCHANGED <<mObjectsQueue, batch, batchTask, row, log>>
    BY <1>4 DEF TimePasses, Disconnect, Restart, PrepareFails, AfterFailure, vars, queue, loop, server, stored
  <2> QED BY <1>0, <2>1 DEF OInv, Ordered, Repairable, Queue, Pending
<1> QED
  BY <1>1, <1>2, <1>3, <1>4, StoreOrders, WriteOrders DEF Next

\* A row goes back to an older version only in a flush that is done again, and
\* the version it had is about to be written once more.
THEOREM RegressionAlwaysRepaired == Spec => RegressionIsRepaired
<1> DEFINE Repaired == \A k \in Keys : row'[k] < row[k] =>
                         row'[k] = 0 \/ \E i \in DOMAIN batch' : batch'[i].version = row[k]
<1>1. ASSUME RInv, OInv, Next PROVE Repaired
  <2>0. Shapes /\ Ordered /\ Repairable
    BY <1>1 DEF RInv, OInv
  <2>1. CASE WriteRow
    <3> DEFINE h == Head(batch)
    <3>1. /\ batch # << >> /\ batch' = Tail(batch) /\ batch \in Seq(QueuedObject) /\ Ascending(batch)
          /\ row' = [row EXCEPT ![<<batchTask, h.name>>] = h.version] /\ row \in [Keys -> Nat]
      BY <2>0, <2>1 DEF WriteRow, Shapes, Ordered
    <3> SUFFICES ASSUME NEW k \in Keys, row'[k] < row[k]
                 PROVE  \E i \in DOMAIN batch' : batch'[i].version = row[k]
      OBVIOUS
    <3>2. k = <<k[1], k[2]>> /\ row[k] \in Nat
      BY <3>1 DEF Keys
    <3>3. k[1] = batchTask /\ k[2] = h.name /\ h.version < row[k]
      BY <3>1, <3>2
    <3>4. Repairs(batch, h.name, row[k])
      BY <2>0, <3>3 DEF Repairable, Pending
    <3> QED BY <3>1, <3>2, <3>3, <3>4, AscendingTail
  <2>2. ASSUME NEW t \in Tasks, NEW n \in Names, Truncate(t, n) PROVE Repaired
    <3>1. row' = [row EXCEPT ![<<t, n>>] = 0] /\ row \in [Keys -> Nat]
      BY <2>0, <2>2 DEF Truncate, Shapes
    <3>2. \A k \in Keys : row'[k] = 0 \/ row'[k] = row[k]
      BY <3>1
    <3> QED BY <3>1, <3>2
  <2>3. CASE row' = row
    <3>1. row \in [Keys -> Nat]
      BY <2>0 DEF Shapes
    <3> QED BY <2>3, <3>1
  <2>4. ASSUME NEW t \in Tasks, (\E n \in Names : Store(t, n)) \/ PrepareTask(t) \/ PrepareFails(t)
        PROVE  row' = row
    BY <2>4 DEF Store, PrepareTask, PrepareFails, server
  <2>5. CASE \/ TimePasses \/ Disconnect \/ PrepareFailsClosing \/ WriteFails
             \/ FlushDone \/ Crash \/ Restart
    BY <2>3, <2>5 DEF TimePasses, Disconnect, PrepareFailsClosing, WriteFails, FlushDone, Crash,
       Restart, ProcessGone, server
  <2> QED BY <1>1, <2>1, <2>2, <2>3, <2>4, <2>5 DEF Next
<1>2. RInv /\ OInv /\ [Next]_vars => [Repaired]_vars
  BY <1>1
<1> QED
  BY <1>2, NewestInit, NewestStep, OrderedInit, OrderedStep, Invariance, PTL DEF Spec, RegressionIsRepaired

-----------------------------------------------------------------------------
(***************************************************************************)
(* The limit of the queue. While a flush goes on, the queue may be longer  *)
(* by the object that made it begin.                                       *)
(***************************************************************************)
Lengths(q) == [t \in Tasks |-> Len(q[t])]

BInv ==
  /\ mObjectsQueue \in [Tasks -> Seq(QueuedObject)]
  /\ log \in Seq(Keys)
  /\ failures \in Nat
  /\ queueSize = SumFunction(Lengths(mObjectsQueue))
  /\ pc \in {"idle", "flush", "closing", "down"}
  /\ pc = "idle" => queueSize <= QueueLimit + failures
  /\ pc \in {"flush", "closing"} => queueSize <= QueueLimit + failures + 1
  /\ pc = "down" => queueSize = 0

LEMMA SizeOfQueue ==
  ASSUME NEW q \in [Tasks -> Seq(QueuedObject)]
  PROVE  /\ SumFunction(Lengths(q)) = SumFunctionOnSet(Lengths(q), Tasks)
         /\ SumFunction(Lengths(q)) \in Int
         /\ \A t \in Tasks : Lengths(q)[t] \in Int
<1>1. DOMAIN Lengths(q) = Tasks /\ \A t \in Tasks : Lengths(q)[t] \in Int
  BY DEF Lengths
<1>2. SumFunctionOnSet(Lengths(q), Tasks) \in Int
  BY <1>1, SumType, MySqlAssumption
<1> QED BY <1>1, <1>2 DEF SumFunction

\* An empty queue has the size 0.
LEMMA SizeOfEmptyQueue ==
  /\ EmptyQueue \in [Tasks -> Seq(QueuedObject)]
  /\ SumFunction(Lengths(EmptyQueue)) = 0
<1>1. EmptyQueue \in [Tasks -> Seq(QueuedObject)]
  BY DEF EmptyQueue
<1>2. \A t \in Tasks : Lengths(EmptyQueue)[t] = 0
  BY DEF EmptyQueue, Lengths
<1> QED BY <1>1, <1>2, SizeOfQueue, SumZero, MySqlAssumption

\* An object that is queued makes it longer by one.
LEMMA SizeOfLongerQueue ==
  ASSUME NEW q \in [Tasks -> Seq(QueuedObject)], NEW t \in Tasks, NEW o \in QueuedObject
  PROVE  LET r == [q EXCEPT ![t] = Append(q[t], o)]
         IN  SumFunction(Lengths(r)) = SumFunction(Lengths(q)) + 1
<1> DEFINE r == [q EXCEPT ![t] = Append(q[t], o)]
           f == Lengths(q)
           g == Lengths(r)
<1>1. r \in [Tasks -> Seq(QueuedObject)]
  OBVIOUS
<1>2. g[t] = f[t] + 1 /\ \A u \in Tasks \ {t} : g[u] = f[u]
  BY DEF Lengths
<1>3. /\ \A u \in Tasks : f[u] \in Int
      /\ \A u \in Tasks : g[u] \in Int
      /\ SumFunction(f) = SumFunctionOnSet(f, Tasks)
      /\ SumFunction(g) = SumFunctionOnSet(g, Tasks)
      /\ SumFunctionOnSet(f, Tasks) \in Int
  BY <1>1, SizeOfQueue
<1> HIDE DEF f, g
<1>4. SumFunctionOnSet(g, Tasks) = SumFunctionOnSet(f, Tasks) - f[t] + g[t]
  <2>1. IsFiniteSet(Tasks) /\ g[t] \in Int
    BY <1>3, MySqlAssumption
  <2>2. \A u \in Tasks : f[u] \in Int
    BY <1>3
  <2>3. \A u \in Tasks \ {t} : g[u] = f[u]
    BY <1>2
  <2> QED BY <2>1, <2>2, <2>3, SumChange
<1>5. SumFunctionOnSet(g, Tasks) = SumFunctionOnSet(f, Tasks) + 1
  BY <1>2, <1>3, <1>4
<1> QED BY <1>3, <1>5 DEF f, g

LEMMA BoundInit == Init => BInv
<1> SUFFICES ASSUME Init PROVE BInv
  OBVIOUS
<1> QED BY SizeOfEmptyQueue, MySqlAssumption DEF Init, BInv

LEMMA BoundStep == BInv /\ [Next]_vars => BInv'
<1> SUFFICES ASSUME BInv, [Next]_vars PROVE BInv'
  OBVIOUS
<1> USE MySqlAssumption
<1> DEFINE size == SumFunction(Lengths(mObjectsQueue))
<1>0. size \in Int
  BY SizeOfQueue DEF BInv
<1> HIDE DEF size
<1>1. ASSUME NEW t \in Tasks, NEW n \in Names, Store(t, n) PROVE BInv'
  <2> DEFINE o == [name |-> n, version |-> Len(log) + 1]
  <2>1. o \in QueuedObject /\ log' \in Seq(Keys)
    BY <1>1 DEF BInv, Store, QueuedObject, Keys
  <2>2. mObjectsQueue' = [mObjectsQueue EXCEPT ![t] = Append(mObjectsQueue[t], o)]
    BY <1>1 DEF Store
  <2>3. mObjectsQueue' \in [Tasks -> Seq(QueuedObject)]
    BY <2>1, <2>2 DEF BInv
  <2>4. queueSize' = queueSize + 1 /\ queueSize' = SumFunction(Lengths(mObjectsQueue'))
    <3>1. queueSize' = queueSize + 1
      BY <1>1 DEF Store
    <3>2. mObjectsQueue \in [Tasks -> Seq(QueuedObject)] /\ queueSize = SumFunction(Lengths(mObjectsQueue))
      BY DEF BInv
    <3>3. SumFunction(Lengths(mObjectsQueue')) = SumFunction(Lengths(mObjectsQueue)) + 1
      <4> HIDE DEF o
      <4> QED BY <2>1, <2>2, <3>2, SizeOfLongerQueue
    <3> QED BY <3>1, <3>2, <3>3
  <2>5. queueSize \in Int /\ failures' = failures /\ pc = "idle" /\ overdue' = overdue
    BY <1>0, <1>1 DEF BInv, Store, size
  <2>6. /\ pc' \in {"idle", "flush"}
        /\ pc' = "idle" => queueSize' <= QueueLimit
    BY <1>1, <2>4, <2>5 DEF Store, MustFlush, BeginFlush
  <2> QED BY <2>1, <2>3, <2>4, <2>5, <2>6 DEF BInv
<1>2. ASSUME NEW t \in Tasks, NEW n \in Names, Truncate(t, n) PROVE BInv'
  BY <1>2 DEF BInv, Truncate, queue, loop
<1>3. ASSUME NEW t \in Tasks, PrepareTask(t) PROVE BInv'
  BY <1>3 DEF BInv, PrepareTask, queue, stored
<1>4. ASSUME NEW t \in Tasks, PrepareFails(t) PROVE BInv'
  BY <1>0, <1>4 DEF BInv, PrepareFails, AfterFailure, stored, size
<1>5. CASE TimePasses
  BY <1>5 DEF BInv, TimePasses, loop, stored
<1>6. CASE Disconnect
  BY <1>0, <1>6 DEF BInv, Disconnect, BeginFlush, queue, stored, size
<1>7. CASE PrepareFailsClosing \/ Crash
  <2>1. ProcessGone
    BY <1>7 DEF PrepareFailsClosing, Crash
  <2> QED BY <2>1, SizeOfEmptyQueue DEF BInv, ProcessGone
<1>8. CASE WriteRow
  BY <1>8 DEF BInv, WriteRow, queue, stored
<1>9. CASE WriteFails
  BY <1>9 DEF BInv, WriteFails, queue
<1>10. CASE FlushDone
  BY <1>10, SizeOfEmptyQueue DEF BInv, FlushDone, ClearQueue, stored
<1>11. CASE Restart
  BY <1>11 DEF BInv, Restart, queue, stored
<1>12. CASE UNCHANGED vars
  BY <1>12 DEF BInv, vars, queue, loop, stored
<1> QED
  BY <1>1, <1>2, <1>3, <1>4, <1>5, <1>6, <1>7, <1>8, <1>9, <1>10, <1>11, <1>12 DEF Next

\* However many flushes fail half-way, queueSize is the number of objects in the
\* queue, and between two calls it is within the limit and one for each failure.
THEOREM QueueIsBounded == Spec => []QueueBounded
<1>1. BInv => QueueBounded
  BY DEF BInv, QueueBounded, Lengths
<1> QED BY <1>1, BoundInit, BoundStep, PTL DEF Spec

-----------------------------------------------------------------------------
(***************************************************************************)
(* The types of all variables, and what Repository promises to whoever     *)
(* retrieves: it follows from its own steps, and so for the database.      *)
(***************************************************************************)
LEMMA TypesStep == RInv /\ RInv' /\ Apart' /\ TypeOK /\ [Next]_vars => TypeOK'
<1> SUFFICES ASSUME RInv, RInv', Apart', TypeOK, [Next]_vars PROVE TypeOK'
  OBVIOUS
<1> DEFINE Rest == /\ queueSize \in Nat /\ overdue \in BOOLEAN
                   /\ pc \in {"idle", "flush", "closing", "down"}
                   /\ todo \subseteq Tasks /\ batchTask \in Tasks /\ tables \subseteq Tasks
                   /\ newest \in [Keys -> Nat] /\ unwritten \subseteq Keys
                   /\ failures \in Nat
<1>1. Rest /\ batch \in Seq(QueuedObject)
  BY DEF TypeOK
<1> SUFFICES Rest'
  BY DEF TypeOK, RInv, Shapes, Apart
<1>2. ASSUME NEW t \in Tasks, NEW n \in Names, Store(t, n) PROVE Rest'
  <2>1. <<t, n>> \in Keys /\ Len(log) + 1 \in Nat
    BY DEF Keys, RInv, Shapes
  <2> QED BY <1>1, <1>2, <2>1 DEF Store, BeginFlush, server
<1>3. ASSUME NEW t \in Tasks, NEW n \in Names, Truncate(t, n) PROVE Rest'
  <2>1. <<t, n>> \in Keys
    BY DEF Keys
  <2> QED BY <1>1, <1>3, <2>1 DEF Truncate, queue, loop
<1>4. ASSUME NEW t \in Tasks, PrepareTask(t) PROVE Rest'
  BY <1>1, <1>4 DEF PrepareTask, StatementTask, queue, stored
<1>5. ASSUME NEW t \in Tasks, PrepareFails(t) PROVE Rest'
  BY <1>1, <1>5 DEF PrepareFails, AfterFailure, stored
<1>6. CASE TimePasses \/ Disconnect \/ Restart
  BY <1>1, <1>6 DEF TimePasses, Disconnect, Restart, BeginFlush, queue, loop, server, stored
<1>7. CASE PrepareFailsClosing \/ Crash
  <2>1. ProcessGone
    BY <1>7 DEF PrepareFailsClosing, Crash
  <2> QED BY <1>1, <2>1 DEF ProcessGone, server
<1>8. CASE WriteRow \/ FlushDone
  <2>1. CASE WriteRow
    <3>1. UNCHANGED <<queueSize, overdue, pc, todo, batchTask, tables, newest, unwritten, failures>>
      BY <2>1 DEF WriteRow, queue, stored
    <3> QED BY <1>1, <3>1
  <2>2. CASE FlushDone
    BY <1>1, <2>2 DEF FlushDone, ClearQueue, server, stored
  <2> QED BY <1>8, <2>1, <2>2
<1>9. CASE WriteFails
  <2>1. batch # << >>
    BY <1>9 DEF WriteFails
  <2>2. Head(batch) \in QueuedObject
    BY <1>1, <2>1
  <2>3. <<batchTask, Head(batch).name>> \in Keys
    BY <1>1, <2>2 DEF QueuedObject, Keys
  <2> QED BY <1>1, <1>9, <2>3 DEF WriteFails, queue, server
<1>10. CASE UNCHANGED vars
  BY <1>1, <1>10 DEF vars, queue, loop, server, stored
<1> QED
  BY <1>2, <1>3, <1>4, <1>5, <1>6, <1>7, <1>8, <1>9, <1>10 DEF Next

\* The variables of the database keep their types, whatever fails.
THEOREM TypeCorrect == Spec => []TypeOK
<1>1. Init => TypeOK
  <2> SUFFICES ASSUME Init PROVE TypeOK
    OBVIOUS
  <2>1. mObjectsQueue \in [Tasks -> Seq(QueuedObject)]
    BY EmptyLogged DEF Init
  <2>2. row \in [Keys -> Nat] /\ newest \in [Keys -> Nat] /\ log \in Seq(Keys) /\ batch \in Seq(QueuedObject)
    BY DEF Init
  <2> QED BY <2>1, <2>2 DEF Init, TypeOK
<1> QED BY <1>1, TypesStep, Invariance, AlwaysApart, PTL DEF Spec

\* The steps of Repository keep to its promise.
Promise ==
  /\ log \in Seq(Keys)
  /\ row \in [Keys -> Nat]
  /\ deleted \subseteq DOMAIN log
  /\ Implements!VisibleWasStored

LEMMA PromiseStep == Promise /\ [Implements!Next]_<<log, row, deleted>> => Promise'
<1> SUFFICES ASSUME Promise, [Implements!Next]_<<log, row, deleted>> PROVE Promise'
  OBVIOUS
<1> USE DEF Implements!Versions, Implements!Nothing, Implements!VisibleWasStored
<1>0. \A k \in Keys : row[k] = 0 \/ (row[k] \in DOMAIN log /\ log[row[k]] = k /\ row[k] \notin deleted)
  BY DEF Promise
<1>1. ASSUME NEW k \in Keys, Implements!Submit(k) PROVE Promise'
  <2>1. log' = Append(log, k) /\ UNCHANGED <<row, deleted>>
    BY <1>1 DEF Implements!Submit
  <2>2. log' \in Seq(Keys) /\ \A v \in DOMAIN log : v \in DOMAIN log' /\ log'[v] = log[v]
    BY <2>1 DEF Promise
  <2> QED BY <1>0, <2>1, <2>2 DEF Promise
<1>2. ASSUME NEW k \in Keys, Implements!Show(k) PROVE Promise'
  <2>1. PICK v \in DOMAIN log : /\ log[v] = k /\ v \notin deleted
                                /\ row' = [row EXCEPT ![k] = v] /\ UNCHANGED <<log, deleted>>
    BY <1>2 DEF Implements!Show
  <2>2. v \in Nat
    BY DEF Promise
  <2> QED BY <1>0, <2>1, <2>2 DEF Promise
<1>3. ASSUME NEW k \in Keys, Implements!Hide(k) PROVE Promise'
  <2>1. /\ row' = [row EXCEPT ![k] = 0] /\ log' = log
        /\ deleted' = deleted \cup ({v \in DOMAIN log : log[v] = k} \ Queued)
    BY <1>3 DEF Implements!Hide
  <2> QED BY <1>0, <2>1 DEF Promise
<1>4. CASE UNCHANGED <<log, row, deleted>>
  BY <1>4 DEF Promise
<1> QED BY <1>1, <1>2, <1>3, <1>4 DEF Implements!Next

\* Whatever flushes fail, half-way or before, and whatever crashes: the object
\* that retrieve() finds under a task and a name was stored under them, and not deleted.
THEOREM RetrievedWasStored == Spec => []Implements!VisibleWasStored
<1>1. Implements!Init => Promise
  BY DEF Implements!Init, Implements!Nothing, Implements!VisibleWasStored, Promise
<1>2. Promise => Implements!VisibleWasStored
  BY DEF Promise
<1> QED BY <1>1, <1>2, PromiseStep, ImplementsRepository, PTL DEF RepositorySpec, Implements!Spec

=============================================================================
