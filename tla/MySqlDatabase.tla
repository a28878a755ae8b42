--------------------------- MODULE MySqlDatabase ----------------------------
(***************************************************************************)
(* The MySQL back-end of the repository (Framework/src/MySqlDatabase.cxx). *)
(* store() only queues the object; every fifth object, or an object that   *)
(* comes more than 10 s after the last flush, makes storeQueue() write the *)
(* whole queue, task by task, one REPLACE per object.  One process owns    *)
(* the queue (a Checker) and others read the tables at any time, so every  *)
(* REPLACE is a step of its own.  MyISAM has no transactions.              *)
(*                                                                         *)
(* Tasks are written in the order of their names; as names are arbitrary,  *)
(* the model lets the loop of storeQueue take them in any order.           *)
(***************************************************************************)
EXTENDS Integers, Sequences, FiniteSets, Functions

CONSTANTS
  Tasks, Names,  \* task names and object names
  QueueLimit,    \* objects the queue may hold without being flushed: 4
  Faults,        \* what may go wrong: a subset of FaultKinds
  MaxStores      \* bound: calls of store()

FaultKinds == {"statement",  \* the server refuses to prepare a statement
               "process",    \* a prepared REPLACE fails
               "crash"}      \* the process is killed

ASSUME MySqlAssumption ==
  /\ IsFiniteSet(Tasks)
  /\ QueueLimit \in Nat
  /\ MaxStores \in Nat
  /\ Faults \subseteq FaultKinds

VARIABLES
  mObjectsQueue,  \* task -> the objects to write, as [name, version]
  queueSize,
  overdue,        \* lastStorage.getTime() > 10
  pc,             \* idle, flush, closing (flush of the destructor) or down
  todo,           \* tasks the loop of storeQueue has still to visit
  batch,          \* rows the statement of the current task has still to write
  batchTask,      \* that task
  tables,         \* tasks with a table on the server
  row,            \* task and name -> version in the table, 0 if there is none
  log,            \* version -> task and name it was stored under
  deleted,        \* versions a truncate deleted
  newest,         \* task and name -> last version stored, 0 after a truncate
                  \* and when a crash may have taken the version away
  unwritten,      \* keys a REPLACE failed for since their last store()
  failures        \* flushes that failed since the last one that succeeded

queue  == <<mObjectsQueue, queueSize, overdue>>
loop   == <<pc, todo, batch, batchTask>>
server == <<tables, row>>
stored == <<log, deleted, newest, unwritten>>
vars   == <<queue, loop, server, stored, failures>>

Keys == Tasks \X Names

QueuedVersions(k) ==
  {mObjectsQueue[k[1]][i].version :
     i \in {j \in DOMAIN mObjectsQueue[k[1]] : mObjectsQueue[k[1]][j].name = k[2]}}

EmptyQueue == [t \in Tasks |-> << >>]

\* A fresh server, and a process that has connected to it.
Init ==
  /\ mObjectsQueue = EmptyQueue
  /\ queueSize = 0
  /\ overdue = FALSE
  /\ pc = "idle"
  /\ todo = {}
  /\ batch = << >>
  /\ batchTask \in Tasks
  /\ tables = {}
  /\ row = [k \in Keys |-> 0]
  /\ log = << >>
  /\ deleted = {}
  /\ newest = [k \in Keys |-> 0]
  /\ unwritten = {}
  /\ failures = 0

-----------------------------------------------------------------------------

(* A definition whose name starts with Mutant is a deliberate bug: put in the *)
(* place of the definition that follows it, TLC finds a property violated.    *)

MutantMustFlush(size) == size > QueueLimit + 1 \/ overdue

\* store() calls storeQueue() at once when the limits are passed.
MustFlush(size) == size > QueueLimit \/ overdue

\* storeQueue() visits every task of the queue.
BeginFlush(from, q) ==
  /\ pc' = from
  /\ todo' = {t \in Tasks : q[t] # << >>}

Store(t, n) ==
  LET v    == Len(log) + 1
      size == queueSize + 1
      q    == [mObjectsQueue EXCEPT ![t] = Append(@, [name |-> n, version |-> v])]
  IN
  /\ pc = "idle"
  /\ v <= MaxStores
  /\ mObjectsQueue' = q
  /\ queueSize' = size
  /\ log' = Append(log, <<t, n>>)
  /\ newest' = [newest EXCEPT ![<<t, n>>] = v]
  /\ unwritten' = unwritten \ {<<t, n>>}
  /\ IF MustFlush(size) THEN BeginFlush("flush", q) ELSE UNCHANGED <<pc, todo>>
  /\ UNCHANGED <<overdue, batch, batchTask, server, deleted, failures>>

\* More than 10 s since the last flush.
TimePasses ==
  /\ pc = "idle"
  /\ overdue' = TRUE
  /\ UNCHANGED <<mObjectsQueue, queueSize, loop, server, stored, failures>>

\* ~MySqlDatabase, through disconnect().
Disconnect ==
  /\ pc = "idle"
  /\ BeginFlush("closing", mObjectsQueue)
  /\ UNCHANGED <<queue, batch, batchTask, server, stored, failures>>

MutantRowsOf(t) == LET q == mObjectsQueue[t] IN [i \in DOMAIN q |-> q[Len(q) + 1 - i]]

\* storeForTask() writes the rows in the order they were stored.
RowsOf(t) == mObjectsQueue[t]

MutantStatementTask(t) == batchTask

\* The statement names the table of the task.
StatementTask(t) == t

\* storeForTask() up to the preparation of the statement, which creates the
\* table if there is none.
PrepareTask(t) ==
  /\ pc \in {"flush", "closing"}
  /\ batch = << >>
  /\ t \in todo
  /\ tables' = tables \cup {t}
  /\ todo' = todo \ {t}
  /\ batch' = RowsOf(t)
  /\ batchTask' = StatementTask(t)
  /\ UNCHANGED <<queue, pc, row, stored, failures>>

\* The exception leaves storeQueue() before the queue is cleared.
AfterFailure == UNCHANGED <<mObjectsQueue, queueSize>>

\* Versions a crash takes away: those that were only in the queue, and those the
\* flush was about to write again.
ForgottenByCrash == {k \in Keys : QueuedVersions(k) # {}}

ProcessGone ==
  /\ pc' = "down"
  /\ todo' = {} /\ batch' = << >>
  /\ mObjectsQueue' = EmptyQueue /\ queueSize' = 0 /\ overdue' = FALSE
  /\ newest' = [k \in Keys |-> IF k \in ForgottenByCrash THEN 0 ELSE newest[k]]
  /\ failures' = 0
  /\ UNCHANGED <<batchTask, server, log, deleted, unwritten>>

\* The server refuses the statement, or to create the table it misses:
\* storeForTask() throws.  Checker::store catches it.
PrepareFails(t) ==
  /\ "statement" \in Faults
  /\ pc = "flush"
  /\ batch = << >>
  /\ t \in todo
  /\ tables' \in {tables, tables \cup {t}}
  /\ pc' = "idle"
  /\ todo' = {}
  /\ AfterFailure
  /\ failures' = failures + 1
  /\ UNCHANGED <<overdue, batch, batchTask, row, stored>>

\* The same while the destructor flushes: the exception ends the process.
PrepareFailsClosing ==
  /\ "statement" \in Faults
  /\ pc = "closing"
  /\ batch = << >>
  /\ todo # {}
  /\ ProcessGone

\* One REPLACE.
WriteRow ==
  /\ batch # << >>
  /\ row' = [row EXCEPT ![<<batchTask, Head(batch).name>>] = Head(batch).version]
  /\ batch' = Tail(batch)
  /\ UNCHANGED <<queue, pc, todo, batchTask, tables, stored, failures>>

\* A REPLACE that fails: storeForTask() ignores the result of Process().
WriteFails ==
  /\ "process" \in Faults
  /\ batch # << >>
  /\ batch' = Tail(batch)
  /\ unwritten' = unwritten \cup {<<batchTask, Head(batch).name>>}
  /\ UNCHANGED <<queue, pc, todo, batchTask, server, log, deleted, newest, failures>>

\* The end of storeQueue().
ClearQueue ==
  /\ mObjectsQueue' = EmptyQueue
  /\ queueSize' = 0
  /\ overdue' = FALSE

FlushDone ==
  /\ pc \in {"flush", "closing"}
  /\ todo = {} /\ batch = << >>
  /\ ClearQueue
  /\ pc' = IF pc = "closing" THEN "down" ELSE "idle"
  /\ failures' = 0
  /\ UNCHANGED <<todo, batch, batchTask, server, stored>>

Crash ==
  /\ "crash" \in Faults
  /\ pc # "down"
  /\ ProcessGone

\* A new process with a new MySqlDatabase, connected.
Restart ==
  /\ pc = "down"
  /\ pc' = "idle"
  /\ UNCHANGED <<queue, todo, batch, batchTask, server, stored, failures>>

\* All versions in the queue, those a flush has written so far included.
Queued == UNION {QueuedVersions(k) : k \in Keys}

\* The versions that are gone with the row: those in the queue are still to be
\* written, or written again.
DeletedBy(k) == {v \in DOMAIN log : log[v] = k} \ Queued

\* truncate(), called by any process at any time, deletes the row. The queue of
\* the process that stores is left alone.  Without a table, or when the server
\* refuses, it throws and nothing changes.
Truncate(t, n) ==
  /\ t \in tables
  /\ row' = [row EXCEPT ![<<t, n>>] = 0]
  /\ newest' = [newest EXCEPT ![<<t, n>>] = 0]
  /\ deleted' = deleted \cup DeletedBy(<<t, n>>)
  /\ UNCHANGED <<queue, loop, tables, log, unwritten, failures>>

Next ==
  \/ \E t \in Tasks, n \in Names : Store(t, n) \/ Truncate(t, n)
  \/ \E t \in Tasks : PrepareTask(t) \/ PrepareFails(t)
  \/ TimePasses \/ Disconnect
  \/ PrepareFailsClosing
  \/ WriteRow \/ WriteFails \/ FlushDone
  \/ Crash \/ Restart

Spec == Init /\ [][Next]_vars

-----------------------------------------------------------------------------
(* Invariants. *)

QueuedObject == [name : Names, version : Nat]

TypeOK ==
  /\ mObjectsQueue \in [Tasks -> Seq(QueuedObject)]
  /\ queueSize \in Nat
  /\ overdue \in BOOLEAN
  /\ pc \in {"idle", "flush", "closing", "down"}
  /\ todo \subseteq Tasks
  /\ batch \in Seq(QueuedObject)
  /\ batchTask \in Tasks
  /\ tables \subseteq Tasks
  /\ row \in [Keys -> Nat]
  /\ log \in Seq(Keys)
  /\ deleted \subseteq DOMAIN log
  /\ newest \in [Keys -> Nat]
  /\ unwritten \subseteq Keys
  /\ failures \in Nat

\* queueSize is the number of queued objects whatever flushes failed half-way,
\* and between two calls it is at most QueueLimit, plus one for every flush that
\* failed since the last one that succeeded: with a server that is back, the next
\* store() empties the queue.
QueueBounded ==
  /\ queueSize = SumFunction([t \in Tasks |-> Len(mObjectsQueue[t])])
  /\ pc = "idle" => queueSize <= QueueLimit + failures

\* The last version stored for a key is in the table, or still in the queue with
\* no older version behind it: a flush that fails half-way and is done again from
\* the start loses nothing and reorders nothing.  (Unless a REPLACE of it fails,
\* or a crash takes the queue away.)
NewestIsKept ==
  \A k \in Keys \ unwritten : newest[k] # 0 =>
    \/ row[k] = newest[k]
    \/ /\ newest[k] \in QueuedVersions(k)
       /\ \A v \in QueuedVersions(k) : v <= newest[k]

\* An older version replaces a newer one only while a queue that was written in
\* part is written again, and the newer one is about to follow.
RegressionIsRepaired ==
  [][ \A k \in Keys : row'[k] < row[k] =>
        row'[k] = 0 \/ \E i \in DOMAIN batch' : batch'[i].version = row[k] ]_vars

\* The database implements the repository the checkers rely on, but for what a
\* truncate spares: what can be retrieved under a key was stored under it, and
\* what was deleted comes back only if it was in the queue then.
Implements ==
  INSTANCE Repository WITH visible <- row, waiting <- Queued

RepositorySpec == Implements!Spec
=============================================================================
