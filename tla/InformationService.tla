------------------------- MODULE InformationService -------------------------
(***************************************************************************)
(* The service that caches the list of objects of every task, publishes an *)
(* update when a list changes, and answers requests                        *)
(* (Framework/src/InformationService.cxx).  Its FairMQ thread handles the  *)
(* messages of the tasks and the requests; with a fake data file, a timer  *)
(* thread feeds the lines of the file to the same handler.  Nothing locks  *)
(* the two caches, so every access to a cache is a step of its own.        *)
(*                                                                         *)
(* A list of objects is one value, and its hash is identified with it.     *)
(***************************************************************************)
EXTENDS Integers, Sequences, FiniteSets

CONSTANTS
  Tasks, Lists,  \* task names, lists of object names
  NoList,        \* no entry for the task
  Deployments,   \* sets of sources of data: tasks that run, a fake data file
  Files,         \* contents the fake data file may have, or MissingFile
  MissingFile,
  Undefined,     \* what undefined behaviour may kill the process: a subset of
                 \* {"race", "return"}
  IndexPeriod,   \* bound: mFakeDataIndex modulo a multiple of all file lengths
  MaxInits       \* bound: INIT DEVICE transitions

Lines == [task : Tasks, list : Lists]

ASSUME InformationServiceAssumption ==
  /\ Lines # {}
  /\ NoList \notin Lists
  /\ Deployments \subseteq SUBSET {"tasks", "file"}
  /\ MissingFile \notin Files
  /\ IndexPeriod \in Nat \ {0}
  /\ \A f \in Files : f \in Seq(Lines) /\ (f = << >> \/ IndexPeriod % Len(f) = 0)
  /\ Undefined \subseteq {"race", "return"}
  /\ MaxInits \in Nat

Device  == 0
Workers == 1 .. MaxInits     \* the threads created by readFakeDataFile
Threads == {Device} \cup Workers

VARIABLES
  sources,                \* the deployment
  disk,                   \* the fake data file
  dead,                   \* the process is gone
  mCacheTasksObjectsHash,
  mCacheTasksData,
  mFakeData,
  mFakeDataIndex,
  inits,                  \* timer threads, each with its deadline_timer
  pending,                \* waits on mTimer
  replaced,               \* waits on timers mTimer no longer points to
  expired, cancelled,     \* handlers to run: of waits that elapsed, or that
                          \* a later expires_at() cancelled
  pc,                     \* thread -> the statement it will run next
  line,                   \* thread -> receivedData
  json,                   \* thread -> the list in the JSON it produced
  answer,                 \* the reply under construction: task -> list
  toRead,                 \* entries that reply must still read
  updates,                \* task -> list in the last update the clients got
  lost,                   \* task -> list in the update that was lost since, if any
  announced               \* tasks of the request announced before it came

caches  == <<mCacheTasksObjectsHash, mCacheTasksData>>
fake    == <<mFakeData, mFakeDataIndex>>
timer   == <<pending, replaced, expired, cancelled>>
locals  == <<pc, line, json>>
request == <<answer, toRead, announced>>
sent    == <<updates, lost>>
vars    == <<sources, disk, dead, caches, fake, inits, timer, locals, request, sent>>

(* A definition whose name starts with Mutant is a deliberate bug: put in the *)
(* place of the definition that follows it, TLC finds a property violated.    *)

\* Only tasks whose list is not about to be replaced.
MutantKnown ==
  {t \in Tasks : mCacheTasksData[t] # NoList /\ mCacheTasksData[t] = mCacheTasksObjectsHash[t]}

\* The tasks with an entry in mCacheTasksData.
Known == {t \in Tasks : mCacheTasksData[t] # NoList}

Init ==
  /\ sources \in Deployments
  /\ disk \in Files \cup {MissingFile}
  /\ dead = FALSE
  /\ mCacheTasksObjectsHash = [t \in Tasks |-> NoList]
  /\ mCacheTasksData = [t \in Tasks |-> NoList]
  /\ mFakeData = << >>
  /\ mFakeDataIndex = 0
  /\ inits = 0
  /\ pending = 0 /\ replaced = 0 /\ expired = 0 /\ cancelled = 0
  /\ pc = [p \in Threads |-> "idle"]
  /\ line \in [Threads -> {CHOOSE l \in Lines : TRUE}]
  /\ json = [p \in Threads |-> NoList]
  /\ answer = [t \in Tasks |-> NoList]
  /\ toRead = {}
  /\ updates = [t \in Tasks |-> NoList] /\ lost = [t \in Tasks |-> NoList]
  /\ announced = {}

-----------------------------------------------------------------------------

Goto(p, label) == pc' = [pc EXCEPT ![p] = label]

\* Init(): with a fake data file, readFakeDataFile() starts a timer and a
\* thread, whatever an earlier call left.  FairMQ runs Init() again when the
\* device is reset and initialised anew.
InitDevice ==
  /\ ~dead /\ pc[Device] = "idle"
  /\ "file" \in sources /\ disk # MissingFile
  /\ inits < MaxInits
  /\ inits' = inits + 1
  /\ mFakeData' = disk
  /\ pending' = 1
  /\ replaced' = replaced + pending
  /\ UNCHANGED <<sources, disk, dead, caches, mFakeDataIndex, expired, cancelled,
                 locals, request, sent>>

\* Somebody writes the fake data file.
EditFile ==
  /\ "file" \in sources
  /\ disk' \in Files \ {disk}
  /\ UNCHANGED <<sources, dead, caches, fake, inits, timer, locals, request, sent>>

\* The 5 s of a timer are over.
Expire ==
  /\ ~dead
  /\ \/ pending > 0 /\ pending' = 0 /\ expired' = expired + pending /\ UNCHANGED replaced
     \/ replaced > 0 /\ replaced' = replaced - 1 /\ expired' = expired + 1 /\ UNCHANGED pending
  /\ UNCHANGED <<sources, disk, dead, caches, fake, inits, cancelled, locals, request, sent>>

CurrentLine == mFakeData[1 + (mFakeDataIndex % Len(mFakeData))]

\* A handler of io.run() enters checkTimedOut(), which ignores the error code
\* of a cancelled wait; the modulo by the size of an empty file kills it.
CheckTimedOut(w) ==
  /\ ~dead /\ w <= inits /\ pc[w] = "idle"
  /\ \/ expired > 0 /\ expired' = expired - 1 /\ UNCHANGED cancelled
     \/ cancelled > 0 /\ cancelled' = cancelled - 1 /\ UNCHANGED expired
  /\ IF mFakeData = << >>
     THEN dead' = TRUE /\ UNCHANGED <<pc, line>>
     ELSE /\ line' = [line EXCEPT ![w] = CurrentLine]
          /\ Goto(w, "compare")
          /\ UNCHANGED dead
  /\ UNCHANGED <<sources, disk, caches, fake, inits, pending, replaced, json, request, sent>>

\* handleTaskInputData(FairMQMessagePtr&, int).
ReceiveData(l) ==
  /\ ~dead /\ pc[Device] = "idle"
  /\ "tasks" \in sources
  /\ line' = [line EXCEPT ![Device] = l]
  /\ Goto(Device, "compare")
  /\ UNCHANGED <<sources, disk, dead, caches, fake, inits, timer, json, request, sent>>

-----------------------------------------------------------------------------

(* handleTaskInputData(std::string), in the thread p. *)

MutantAlreadyKnown(l) == FALSE

AlreadyKnown(l) == mCacheTasksObjectsHash[l.task] = l.list

\* The statements that follow the comparison, in their order.
Steps == [claim |-> "store", store |-> "produce", produce |-> "send", send |-> "return"]

Compare(p) ==
  /\ ~dead /\ pc[p] = "compare"
  /\ Goto(p, IF AlreadyKnown(line[p]) THEN "done" ELSE "claim")
  /\ UNCHANGED <<sources, disk, dead, caches, fake, inits, timer, line, json, request, sent>>

MutantRemember(l) == UNCHANGED mCacheTasksObjectsHash

Remember(l) == mCacheTasksObjectsHash' = [mCacheTasksObjectsHash EXCEPT ![l.task] = l.list]

Claim(p) ==
  /\ ~dead /\ pc[p] = "claim"
  /\ Remember(line[p])
  /\ Goto(p, Steps.claim)
  /\ UNCHANGED <<sources, disk, dead, mCacheTasksData, fake, inits, timer, line, json,
                 request, sent>>

Store(p) ==
  /\ ~dead /\ pc[p] = "store"
  /\ mCacheTasksData' = [mCacheTasksData EXCEPT ![line[p].task] = line[p].list]
  /\ Goto(p, Steps.store)
  /\ UNCHANGED <<sources, disk, dead, mCacheTasksObjectsHash, fake, inits, timer, line,
                 json, request, sent>>

\* produceJson() reads the list back from the cache.
ProduceJson(p) ==
  /\ ~dead /\ pc[p] = "produce"
  /\ json' = [json EXCEPT ![p] = mCacheTasksData[line[p].task]]
  /\ Goto(p, Steps.produce)
  /\ UNCHANGED <<sources, disk, dead, caches, fake, inits, timer, line, request, sent>>

\* The update reaches the clients, or Send() fails: that is logged, and the list
\* stays in both caches.
Deliver(t, l) == updates' = [updates EXCEPT ![t] = l] /\ lost' = [lost EXCEPT ![t] = NoList]

Lose(t, l) == lost' = [lost EXCEPT ![t] = l] /\ UNCHANGED updates

SendJson(p) ==
  /\ ~dead /\ pc[p] = "send"
  /\ Deliver(line[p].task, json[p]) \/ Lose(line[p].task, json[p])
  /\ Goto(p, Steps.send)
  /\ UNCHANGED <<sources, disk, dead, caches, fake, inits, timer, line, json, request>>

\* The function ends without the return its type promises.
FallOffTheEnd(p) ==
  /\ ~dead /\ pc[p] = "return"
  /\ \/ UNCHANGED dead
     \/ "return" \in Undefined /\ dead' = TRUE
  /\ Goto(p, "done")
  /\ UNCHANGED <<sources, disk, caches, fake, inits, timer, line, json, request, sent>>

DeviceDone ==
  /\ ~dead /\ pc[Device] = "done"
  /\ Goto(Device, "idle")
  /\ UNCHANGED <<sources, disk, dead, caches, fake, inits, timer, line, json, request, sent>>

MutantRestartTimer ==
  pending' = 0 /\ cancelled' = cancelled + pending

\* expires_at() cancels the waits on mTimer, then async_wait() adds one.
RestartTimer ==
  pending' = 1 /\ cancelled' = cancelled + pending

\* The rest of checkTimedOut().
WorkerDone(w) ==
  /\ ~dead /\ pc[w] = "done"
  /\ mFakeDataIndex' = (mFakeDataIndex + 1) % IndexPeriod
  /\ RestartTimer
  /\ Goto(w, "idle")
  /\ UNCHANGED <<sources, disk, dead, caches, mFakeData, inits, replaced, expired, line,
                 json, request, sent>>

-----------------------------------------------------------------------------

(* handleRequestData(), in the FairMQ thread. *)

Request(ts) ==
  /\ pc[Device] = "idle"
  /\ announced' = {t \in ts : updates[t] # NoList}
  /\ answer' = [t \in Tasks |-> NoList]
  /\ ~dead
  /\ UNCHANGED <<sources, disk, dead, caches, fake, inits, timer, line, json, sent>>

\* The request of one task looks for its entry first.
RequestTask(t) ==
  /\ Request({t})
  /\ toRead' = {t} \cap Known
  /\ Goto(Device, "reading")

RequestAll ==
  /\ Request(Tasks)
  /\ toRead' = Known
  /\ Goto(Device, "readingAll")

\* buildTaskNode().  The loop over all tasks may also meet an entry that was
\* inserted after it started.
BuildTaskNode(t) ==
  /\ ~dead
  /\ \/ pc[Device] \in {"reading", "readingAll"} /\ t \in toRead
     \/ pc[Device] = "readingAll" /\ answer[t] = NoList /\ t \in Known
  /\ answer' = [answer EXCEPT ![t] = mCacheTasksData[t]]
  /\ toRead' = toRead \ {t}
  /\ UNCHANGED <<sources, disk, dead, caches, fake, inits, timer, locals, announced, sent>>

\* An empty answer is "no such task" or a list without tasks.
Reply ==
  /\ ~dead /\ pc[Device] \in {"reading", "readingAll"} /\ toRead = {}
  /\ Goto(Device, "idle")
  /\ UNCHANGED <<sources, disk, dead, caches, fake, inits, timer, line, json, request, sent>>

-----------------------------------------------------------------------------

\* The maps, or the socket, that the next statement of p reads or writes.
Accesses(p) ==
  CASE pc[p] \in {"compare", "claim"} -> {"hash"}
    [] pc[p] \in {"store", "produce", "reading", "readingAll"} -> {"data"}
    [] pc[p] = "send" -> {"updates_output"}
    [] OTHER -> {}

Writes(p) == pc[p] \in {"claim", "store", "send"}

\* Two threads in the same std::map, one of them writing, or in the same socket.
DataRace(p, q) ==
  /\ ~dead /\ "race" \in Undefined /\ p # q
  /\ Accesses(p) \cap Accesses(q) # {} /\ Writes(p)
  /\ dead' = TRUE
  /\ UNCHANGED <<sources, disk, caches, fake, inits, timer, locals, request, sent>>

Handler(p) ==
  \/ Compare(p) \/ Claim(p) \/ Store(p) \/ ProduceJson(p) \/ SendJson(p)
  \/ FallOffTheEnd(p)

Worker(w) == CheckTimedOut(w) \/ Handler(w) \/ WorkerDone(w)

Answer == (\E t \in Tasks : BuildTaskNode(t)) \/ Reply

Next ==
  \/ InitDevice \/ EditFile \/ Expire
  \/ \E w \in Workers : Worker(w)
  \/ \E l \in Lines : ReceiveData(l)
  \/ Handler(Device) \/ DeviceDone
  \/ \E t \in Tasks : RequestTask(t)
  \/ RequestAll
  \/ Answer
  \/ \E p, q \in Threads : DataRace(p, q)

Spec == Init /\ [][Next]_vars

\* FairMQ initialises the device once, the scheduler runs both threads, and
\* timers expire.
Fairness ==
  /\ WF_vars(InitDevice) /\ WF_vars(Expire)
  /\ \A w \in Workers : WF_vars(Worker(w))
  /\ WF_vars(Handler(Device) \/ DeviceDone) /\ WF_vars(Answer)

FairSpec == Spec /\ Fairness

-----------------------------------------------------------------------------

TypeOK ==
  /\ sources \in Deployments /\ disk \in Files \cup {MissingFile} /\ dead \in BOOLEAN
  /\ mCacheTasksObjectsHash \in [Tasks -> Lists \cup {NoList}]
  /\ mCacheTasksData \in [Tasks -> Lists \cup {NoList}]
  /\ mFakeData \in Files \cup {<< >>} /\ mFakeDataIndex \in 0 .. IndexPeriod - 1
  /\ inits \in 0 .. MaxInits
  /\ {pending, replaced, expired, cancelled} \subseteq Nat
  /\ pc \in [Threads -> {"idle", "compare", "claim", "store", "produce", "send",
                         "return", "done", "reading", "readingAll"}]
  /\ line \in [Threads -> Lines]
  /\ json \in [Threads -> Lists \cup {NoList}]
  /\ answer \in [Tasks -> Lists \cup {NoList}]
  /\ toRead \subseteq Tasks /\ announced \subseteq Tasks
  /\ updates \in [Tasks -> Lists \cup {NoList}] /\ lost \in [Tasks -> Lists \cup {NoList}]

\* The list in the last update about t that was given to Send().
LastUpdate(t) == IF lost[t] = NoList THEN updates[t] ELSE lost[t]

\* A list the service calls known is the one in its cache, or a handler is about
\* to store it: what it skips later is what it answers with.
HashAheadOfCache ==
  \A t \in Tasks :
    \/ mCacheTasksObjectsHash[t] = mCacheTasksData[t]
    \/ \E p \in Threads :
         pc[p] = "store" /\ line[p] = [task |-> t, list |-> mCacheTasksObjectsHash[t]]

\* The cached list of a task is the one the clients have, or the one whose
\* update was lost last, or the handler that stored it is about to send it.
CacheAheadOfUpdates ==
  \A t \in Tasks :
    \/ mCacheTasksData[t] = LastUpdate(t)
    \/ \E p \in Threads :
         /\ pc[p] \in {"produce", "send"}
         /\ line[p] = [task |-> t, list |-> mCacheTasksData[t]]
         /\ pc[p] = "send" => json[p] = mCacheTasksData[t]

\* With one source of data, the hashes, the cache and the clients go apart only
\* by a list on its way from the one to the next, or by an update that was lost.
CachesInStep == HashAheadOfCache /\ CacheAheadOfUpdates

\* A client that has seen an update about a task and then asks is told about
\* that task, also when the loop over the tasks runs beside the timer thread.
ReplyCoversAnnounced ==
  pc[Device] \in {"reading", "readingAll"} =>
    announced \subseteq toRead \cup {t \in Tasks : answer[t] # NoList}

\* With one source of data, an update differs from the last one about that task,
\* which the clients have unless it was lost: they see a list twice in a row only
\* around an update that was lost.
NoRepeatedUpdate ==
  [][\A p \in Threads :
       pc[p] = "send" /\ pc'[p] # "send" => json[p] # LastUpdate(line[p].task)]_vars

\* Each call of readFakeDataFile() leaves exactly one wait that is pending, has
\* fired, or is being handled: no timer thread runs dry and none runs twice.
OneWaitPerTimer ==
  ~dead => pending + replaced + expired + cancelled
             + Cardinality({w \in Workers : pc[w] # "idle"}) = inits

\* Every line of the fake data file is used in turn, again and again: its list
\* is infinitely often the last one that was given to Send(), delivered or lost,
\* unless the process dies.
LinesUsedInTurn ==
  \A l \in Lines :
    []((\E i \in DOMAIN mFakeData : mFakeData[i] = l)
         => <>(dead \/ LastUpdate(l.task) = l.list))
=============================================================================
