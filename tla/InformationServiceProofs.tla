---------------------- MODULE InformationServiceProofs -----------------------
(***************************************************************************)
(* The information service for any number of timer threads, with tasks and *)
(* a fake data file at once, and whatever data races do: no wait on a      *)
(* timer is lost, and replies cover what was announced.  For one source of *)
(* data and one initialisation: the caches stay in step, and no update is  *)
(* sent twice.                                                             *)
(***************************************************************************)
EXTENDS InformationService, FiniteSetTheorems, TLAPS

(***************************************************************************)
(* The inductive invariant. An entry is in the cache before the handler    *)
(* that stored it produces or sends the update, and it is never removed.   *)
(***************************************************************************)
StoredFirst == \A p \in Threads : pc[p] \in {"produce", "send"} => line[p].task \in Known

UpdatesKnown == \A t \in Tasks : updates[t] # NoList => t \in Known

IInv == TypeOK /\ StoredFirst /\ UpdatesKnown /\ toRead \subseteq Known /\ ReplyCoversAnnounced

Busy == {w \in Workers : pc[w] # "idle"}

-----------------------------------------------------------------------------
LEMMA Labels == \A p \in Workers : p \in Threads /\ p # Device
  BY InformationServiceAssumption DEF Workers, Threads, Device

LEMMA Remainder ==
  ASSUME NEW a \in Nat, NEW n \in Nat \ {0}
  PROVE  a % n \in 0 .. n - 1
  OBVIOUS

LEMMA LineOfFile == TypeOK /\ mFakeData # << >> => CurrentLine \in Lines
<1> SUFFICES ASSUME TypeOK, mFakeData # << >> PROVE CurrentLine \in Lines
  OBVIOUS
<1> DEFINE n == Len(mFakeData)
<1>1. mFakeData \in Seq(Lines) /\ mFakeDataIndex \in Nat
  BY InformationServiceAssumption DEF TypeOK
<1>2. n \in Nat \ {0}
  BY <1>1
<1>3. mFakeDataIndex % n \in 0 .. n - 1
  BY <1>1, <1>2, Remainder
<1> HIDE DEF n
<1>4. 1 + (mFakeDataIndex % n) \in 1 .. n
  BY <1>2, <1>3
<1> QED BY <1>1, <1>4 DEF CurrentLine, n

\* The statements a handler goes through, none of which touches timers or the
\* reply under construction.
LEMMA HandlerMoves ==
  ASSUME TypeOK, NEW p \in Threads, Handler(p)
  PROVE  /\ pc[p] \in {"compare", "claim", "store", "produce", "send", "return"}
         /\ \E label \in {"claim", "store", "produce", "send", "return", "done"} :
              pc' = [pc EXCEPT ![p] = label]
         /\ UNCHANGED <<sources, disk, fake, inits, timer, request, line>>
         /\ ~dead
  BY DEF Handler, Compare, Claim, Store, ProduceJson, SendJson, FallOffTheEnd, Goto, Steps

LEMMA InitEstablishes == Init => IInv /\ OneWaitPerTimer
<1> SUFFICES ASSUME Init PROVE IInv /\ OneWaitPerTimer
  OBVIOUS
<1>1. (CHOOSE l \in Lines : TRUE) \in Lines
  BY InformationServiceAssumption
<1>2. TypeOK
  <2>1. line \in [Threads -> Lines]
    BY <1>1 DEF Init
  <2>2. mFakeDataIndex \in 0 .. IndexPeriod - 1 /\ inits \in 0 .. MaxInits
    BY InformationServiceAssumption DEF Init
  <2>3. sources \in Deployments /\ disk \in Files \cup {MissingFile}
    BY DEF Init
  <2>4. pc \in [Threads -> {"idle", "compare", "claim", "store", "produce", "send",
                           "return", "done", "reading", "readingAll"}]
    BY DEF Init
  <2>5. {pending, replaced, expired, cancelled} \subseteq Nat
    BY DEF Init
  <2> QED BY <2>1, <2>2, <2>3, <2>4, <2>5 DEF Init, TypeOK
<1>3. StoredFirst /\ UpdatesKnown /\ toRead \subseteq Known /\ ReplyCoversAnnounced
  BY DEF Init, StoredFirst, UpdatesKnown, ReplyCoversAnnounced, Threads, Device
<1>4. Busy = {}
  BY Labels DEF Init, Busy
<1>5. Cardinality(Busy) = 0
  BY <1>4, FS_EmptySet
<1>6. OneWaitPerTimer
  BY <1>5 DEF Init, OneWaitPerTimer, Busy
<1> QED BY <1>2, <1>3, <1>6 DEF IInv

-----------------------------------------------------------------------------
(* The steps of the handlers.                                              *)

LEMMA HandlerPreserves ==
  ASSUME IInv, NEW p \in Threads, Handler(p)
  PROVE  IInv'
<1>0. TypeOK /\ StoredFirst /\ UpdatesKnown /\ toRead \subseteq Known /\ ReplyCoversAnnounced
  BY DEF IInv
<1>1. PICK label \in {"claim", "store", "produce", "send", "return", "done"} :
        pc' = [pc EXCEPT ![p] = label]
  BY <1>0, HandlerMoves
<1>2. /\ UNCHANGED <<sources, disk, fake, inits, timer, request, line>>
      /\ pc[p] \in {"compare", "claim", "store", "produce", "send", "return"} /\ ~dead
  BY <1>0, HandlerMoves
<1>3. line[p].task \in Tasks /\ line[p].list \in Lists /\ line[p].list # NoList
  <2>1. line[p] \in Lines
    BY <1>0 DEF TypeOK
  <2> QED BY <2>1, InformationServiceAssumption DEF Lines
<1>4. /\ mCacheTasksData' \in [Tasks -> Lists \cup {NoList}]
      /\ \A t \in Tasks : t \in Known => mCacheTasksData'[t] # NoList
      /\ label = "produce" => mCacheTasksData'[line[p].task] # NoList
  <2>1. CASE Store(p)
    <3>1. mCacheTasksData' = [mCacheTasksData EXCEPT ![line[p].task] = line[p].list]
      BY <2>1 DEF Store
    <3> QED BY <1>0, <1>3, <3>1 DEF TypeOK, Known
  <2>2. CASE ~Store(p)
    <3>1. mCacheTasksData' = mCacheTasksData
      BY <2>2 DEF Handler, Compare, Claim, ProduceJson, SendJson, FallOffTheEnd, caches
    <3>2. label # "produce"
      BY <1>0, <1>1, <2>2 DEF Handler, Compare, Claim, ProduceJson, SendJson, FallOffTheEnd,
         Goto, Steps, TypeOK
    <3> QED BY <1>0, <3>1, <3>2 DEF TypeOK, Known
  <2> QED BY <2>1, <2>2
<1>5. /\ updates' \in [Tasks -> Lists \cup {NoList}] /\ lost' \in [Tasks -> Lists \cup {NoList}]
      /\ \A t \in Tasks : updates'[t] # NoList => updates[t] # NoList \/ (pc[p] = "send" /\ t = line[p].task)
  <2>1. CASE SendJson(p)
    <3>1. pc[p] = "send" /\ (Deliver(line[p].task, json[p]) \/ Lose(line[p].task, json[p]))
      BY <2>1 DEF SendJson
    <3> QED BY <1>0, <1>3, <3>1 DEF TypeOK, Deliver, Lose
  <2>2. CASE ~SendJson(p)
    <3>1. updates' = updates /\ lost' = lost
      BY <2>2 DEF Handler, Compare, Claim, Store, ProduceJson, FallOffTheEnd, sent
    <3> QED BY <1>0, <3>1 DEF TypeOK
  <2> QED BY <2>1, <2>2
<1>6. json' \in [Threads -> Lists \cup {NoList}]
  <2>1. CASE ProduceJson(p)
    <3>1. json' = [json EXCEPT ![p] = mCacheTasksData[line[p].task]]
      BY <2>1 DEF ProduceJson
    <3> QED BY <1>0, <1>3, <3>1 DEF TypeOK
  <2>2. CASE ~ProduceJson(p)
    <3>1. json' = json
      BY <2>2 DEF Handler, Compare, Claim, Store, SendJson, FallOffTheEnd
    <3> QED BY <1>0, <3>1 DEF TypeOK
  <2> QED BY <2>1, <2>2
<1>7. mCacheTasksObjectsHash' \in [Tasks -> Lists \cup {NoList}]
  <2>1. CASE Claim(p)
    <3>1. mCacheTasksObjectsHash' = [mCacheTasksObjectsHash EXCEPT ![line[p].task] = line[p].list]
      BY <2>1 DEF Claim, Remember
    <3> QED BY <1>0, <1>3, <3>1 DEF TypeOK
  <2>2. CASE ~Claim(p)
    <3>1. mCacheTasksObjectsHash' = mCacheTasksObjectsHash
      BY <2>2 DEF Handler, Compare, Store, ProduceJson, SendJson, FallOffTheEnd, caches
    <3> QED BY <1>0, <3>1 DEF TypeOK
  <2> QED BY <2>1, <2>2
<1>8. dead' \in BOOLEAN
  BY <1>0 DEF Handler, Compare, Claim, Store, ProduceJson, SendJson, FallOffTheEnd, TypeOK
<1>9. TypeOK'
  BY <1>0, <1>1, <1>2, <1>4, <1>5, <1>6, <1>7, <1>8 DEF TypeOK, fake, timer, request
<1>10. Known \subseteq Known'
  BY <1>4 DEF Known
<1>11. StoredFirst'
  <2> SUFFICES ASSUME NEW q \in Threads, pc'[q] \in {"produce", "send"}
               PROVE  line[q].task \in Known'
    BY <1>2 DEF StoredFirst
  <2>1. CASE q # p
    <3>1. pc'[q] = pc[q]
      BY <1>0, <1>1, <2>1 DEF TypeOK
    <3> QED BY <1>0, <1>10, <2>1, <3>1 DEF StoredFirst
  <2>2. CASE q = p /\ label = "produce"
    BY <1>3, <1>4, <2>2 DEF Known
  <2>3. CASE q = p /\ label # "produce"
    <3>1. label = "send"
      BY <1>0, <1>1, <2>3 DEF TypeOK
    <3>2. pc[p] = "produce"
      BY <1>0, <1>1, <3>1 DEF Handler, Compare, Claim, Store, ProduceJson, SendJson,
         FallOffTheEnd, Goto, Steps, TypeOK
    <3> QED BY <1>0, <1>10, <2>3, <3>2 DEF StoredFirst
  <2> QED BY <2>1, <2>2, <2>3
<1>12. UpdatesKnown'
  BY <1>0, <1>5, <1>10 DEF UpdatesKnown, StoredFirst
<1>13. toRead' \subseteq Known'
  BY <1>0, <1>2, <1>10 DEF request
<1>14. ReplyCoversAnnounced'
  <2>1. pc'[Device] \in {"reading", "readingAll"} => pc'[Device] = pc[Device]
    BY <1>0, <1>1 DEF TypeOK, Threads
  <2> QED BY <1>0, <1>2, <2>1 DEF ReplyCoversAnnounced, request
<1> QED BY <1>9, <1>11, <1>12, <1>13, <1>14 DEF IInv

\* The steps that do not touch caches, updates and the reply under construction.
LEMMA MovePreserves ==
  ASSUME IInv, TypeOK', NEW p \in Threads, NEW label, NEW l,
         label \notin {"produce", "send", "reading", "readingAll"},
         pc' \in {pc, [pc EXCEPT ![p] = label]},
         line' \in {line, [line EXCEPT ![p] = l]},
         line' # line => label = "compare" /\ pc' = [pc EXCEPT ![p] = label],
         UNCHANGED <<mCacheTasksData, sent, request>>
  PROVE  IInv'
<1>0. TypeOK /\ StoredFirst /\ UpdatesKnown /\ toRead \subseteq Known /\ ReplyCoversAnnounced
  BY DEF IInv
<1>1. Known' = Known
  BY DEF Known
<1>2. StoredFirst'
  <2> SUFFICES ASSUME NEW q \in Threads, pc'[q] \in {"produce", "send"}
               PROVE  line'[q].task \in Known
    BY <1>1 DEF StoredFirst
  <2>1. pc'[q] = pc[q] /\ line'[q] = line[q]
    BY <1>0 DEF TypeOK
  <2> QED BY <1>0, <2>1 DEF StoredFirst
<1>3. UpdatesKnown' /\ toRead' \subseteq Known'
  BY <1>0, <1>1 DEF UpdatesKnown, request, sent
<1>4. ReplyCoversAnnounced'
  <2>1. pc'[Device] \in {"reading", "readingAll"} => pc'[Device] = pc[Device]
    BY <1>0 DEF TypeOK, Threads
  <2> QED BY <1>0, <2>1 DEF ReplyCoversAnnounced, request
<1> QED BY <1>2, <1>3, <1>4 DEF IInv

LEMMA StayPreserves ==
  ASSUME IInv, TypeOK', UNCHANGED <<mCacheTasksData, sent, request, pc, line>>
  PROVE  IInv'
<1>1. Known' = Known
  BY DEF Known
<1> QED BY <1>1 DEF IInv, StoredFirst, UpdatesKnown, ReplyCoversAnnounced, request, sent

-----------------------------------------------------------------------------
(* The device, its requests and the timers.                                *)

LEMMA RequestPreserves ==
  ASSUME IInv, NEW ts \in SUBSET Tasks, Request(ts), toRead' = ts \cap Known,
         NEW label \in {"reading", "readingAll"}, Goto(Device, label)
  PROVE  IInv'
<1>0. TypeOK /\ StoredFirst /\ UpdatesKnown /\ Device \in Threads
  BY DEF IInv, Threads
<1>1. /\ announced' = {t \in ts : updates[t] # NoList} /\ answer' = [t \in Tasks |-> NoList]
      /\ UNCHANGED <<sources, disk, dead, caches, fake, inits, timer, line, json, sent>>
  BY DEF Request
<1>2. TypeOK'
  BY <1>0, <1>1 DEF TypeOK, caches, fake, timer, Goto, Known, sent
<1>3. Known' = Known
  BY <1>1 DEF Known, caches
<1>4. StoredFirst'
  BY <1>0, <1>1, <1>3 DEF StoredFirst, Goto, TypeOK
<1>5. UpdatesKnown' /\ toRead' \subseteq Known'
  BY <1>0, <1>1, <1>3 DEF UpdatesKnown, sent
<1>6. ReplyCoversAnnounced'
  BY <1>0, <1>1 DEF ReplyCoversAnnounced, UpdatesKnown
<1> QED BY <1>2, <1>4, <1>5, <1>6 DEF IInv

LEMMA BuildTaskNodePreserves ==
  ASSUME IInv, NEW t \in Tasks, BuildTaskNode(t)
  PROVE  IInv'
<1>0. TypeOK /\ StoredFirst /\ UpdatesKnown /\ toRead \subseteq Known /\ ReplyCoversAnnounced
  BY DEF IInv
<1>1. /\ answer' = [answer EXCEPT ![t] = mCacheTasksData[t]] /\ toRead' = toRead \ {t}
      /\ UNCHANGED <<sources, disk, dead, caches, fake, inits, timer, locals, announced, sent>>
      /\ pc[Device] \in {"reading", "readingAll"}
      /\ t \in Known
  BY <1>0 DEF BuildTaskNode
<1>2. TypeOK'
  BY <1>0, <1>1 DEF TypeOK, caches, fake, timer, locals, sent
<1>3. Known' = Known
  BY <1>1 DEF Known, caches
<1>4. StoredFirst' /\ UpdatesKnown' /\ toRead' \subseteq Known'
  BY <1>0, <1>1, <1>3 DEF StoredFirst, UpdatesKnown, locals, sent
<1>5. ReplyCoversAnnounced'
  BY <1>0, <1>1 DEF ReplyCoversAnnounced, TypeOK, Known, locals
<1> QED BY <1>2, <1>4, <1>5 DEF IInv

LEMMA CheckTimedOutPreserves ==
  ASSUME IInv, NEW w \in Workers, CheckTimedOut(w)
  PROVE  IInv'
<1>0. TypeOK /\ w \in Threads
  BY Labels DEF IInv
<1>1. /\ {expired', cancelled'} \subseteq Nat
      /\ UNCHANGED <<sources, disk, caches, fake, inits, pending, replaced, json, request, sent>>
  <2>1. \/ expired > 0 /\ expired' = expired - 1 /\ cancelled' = cancelled
        \/ cancelled > 0 /\ cancelled' = cancelled - 1 /\ expired' = expired
    BY DEF CheckTimedOut
  <2>2. expired \in Nat /\ cancelled \in Nat
    BY <1>0 DEF TypeOK
  <2>3. UNCHANGED <<sources, disk, caches, fake, inits, pending, replaced, json, request, sent>>
    BY DEF CheckTimedOut
  <2> QED BY <2>1, <2>2, <2>3
<1>2. CASE mFakeData = << >>
  <2>1. dead' = TRUE /\ UNCHANGED <<pc, line>>
    BY <1>2 DEF CheckTimedOut
  <2>2. TypeOK'
    BY <1>0, <1>1, <2>1 DEF TypeOK, caches, fake, request, sent
  <2> QED BY <1>1, <2>1, <2>2, StayPreserves DEF caches
<1>3. CASE mFakeData # << >>
  <2>1. /\ dead' = dead /\ line' = [line EXCEPT ![w] = CurrentLine]
        /\ pc' = [pc EXCEPT ![w] = "compare"]
    BY <1>3 DEF CheckTimedOut, Goto
  <2>2. CurrentLine \in Lines
    BY <1>0, <1>3, LineOfFile
  <2>3. TypeOK'
    BY <1>0, <1>1, <2>1, <2>2 DEF TypeOK, caches, fake, request, sent
  <2> QED BY <1>0, <1>1, <2>1, <2>3, MovePreserves DEF caches
<1> QED BY <1>2, <1>3

LEMMA WorkerDonePreserves ==
  ASSUME IInv, NEW w \in Workers, WorkerDone(w)
  PROVE  IInv'
<1>0. TypeOK /\ w \in Threads
  BY Labels DEF IInv
<1>1. /\ mFakeDataIndex' = (mFakeDataIndex + 1) % IndexPeriod
      /\ pending' = 1 /\ cancelled' = cancelled + pending /\ pc' = [pc EXCEPT ![w] = "idle"]
      /\ UNCHANGED <<sources, disk, dead, caches, mFakeData, inits, replaced, expired, line,
                     json, request, sent>>
  BY DEF WorkerDone, RestartTimer, Goto
<1>2. mFakeDataIndex' \in 0 .. IndexPeriod - 1
  <2>1. mFakeDataIndex + 1 \in Nat /\ IndexPeriod \in Nat \ {0}
    BY <1>0, InformationServiceAssumption DEF TypeOK
  <2> QED BY <1>1, <2>1, Remainder
<1>3. TypeOK'
  BY <1>0, <1>1, <1>2 DEF TypeOK, caches, request, sent
<1> QED BY <1>0, <1>1, <1>3, MovePreserves DEF caches

LEMMA StepPreserves == IInv /\ [Next]_vars => IInv'
<1> SUFFICES ASSUME IInv, [Next]_vars PROVE IInv'
  OBVIOUS
<1>0. TypeOK /\ Device \in Threads
  BY DEF IInv, Threads
<1>1. CASE InitDevice
  <2>1. /\ inits < MaxInits /\ inits' = inits + 1 /\ mFakeData' = disk /\ disk # MissingFile
        /\ pending' = 1 /\ replaced' = replaced + pending
        /\ UNCHANGED <<sources, disk, dead, caches, mFakeDataIndex, expired, cancelled,
                       locals, request, sent>>
    BY <1>1 DEF InitDevice
  <2>2. inits' \in 0 .. MaxInits /\ replaced' \in Nat
    BY <1>0, <2>1, InformationServiceAssumption DEF TypeOK
  <2>3. TypeOK'
    BY <1>0, <2>1, <2>2 DEF TypeOK, caches, locals, request, sent
  <2> QED BY <2>1, <2>3, StayPreserves DEF caches, locals
<1>2. CASE EditFile \/ Expire
  <2>1. /\ UNCHANGED <<sources, dead, caches, fake, inits, cancelled, locals, request, sent>>
        /\ disk' \in Files \cup {MissingFile}
        /\ {pending', replaced', expired'} \subseteq Nat
    <3>1. CASE EditFile
      BY <1>0, <3>1 DEF EditFile, TypeOK, timer
    <3>2. CASE Expire
      BY <1>0, <3>2 DEF Expire, TypeOK
    <3> QED BY <1>2, <3>1, <3>2
  <2>2. TypeOK'
    BY <1>0, <2>1 DEF TypeOK, caches, fake, locals, request, sent
  <2> QED BY <2>1, <2>2, StayPreserves DEF caches, locals
<1>3. ASSUME NEW w \in Workers, Worker(w) PROVE IInv'
  BY <1>3, Labels, CheckTimedOutPreserves, HandlerPreserves, WorkerDonePreserves DEF Worker
<1>4. ASSUME NEW l \in Lines, ReceiveData(l) PROVE IInv'
  <2>1. /\ line' = [line EXCEPT ![Device] = l] /\ pc' = [pc EXCEPT ![Device] = "compare"]
        /\ UNCHANGED <<sources, disk, dead, caches, fake, inits, timer, json, request, sent>>
    BY <1>4 DEF ReceiveData, Goto
  <2>2. TypeOK'
    BY <1>0, <1>4, <2>1 DEF TypeOK, caches, fake, timer, request, sent
  <2> QED BY <1>0, <2>1, <2>2, MovePreserves DEF caches
<1>5. CASE Handler(Device)
  BY <1>0, <1>5, HandlerPreserves
<1>6. CASE DeviceDone \/ Reply
  <2>1. /\ pc' = [pc EXCEPT ![Device] = "idle"]
        /\ UNCHANGED <<sources, disk, dead, caches, fake, inits, timer, line, json, request, sent>>
    BY <1>6 DEF DeviceDone, Reply, Goto
  <2>2. TypeOK'
    BY <1>0, <2>1 DEF TypeOK, caches, fake, timer, request, sent
  <2> QED BY <1>0, <2>1, <2>2, MovePreserves DEF caches
<1>7. ASSUME NEW t \in Tasks, RequestTask(t) PROVE IInv'
  BY <1>7, RequestPreserves DEF RequestTask
<1>8. CASE RequestAll
  <2>1. Known = Tasks \cap Known
    BY DEF Known
  <2> QED BY <1>8, <2>1, RequestPreserves DEF RequestAll
<1>9. ASSUME NEW t \in Tasks, BuildTaskNode(t) PROVE IInv'
  BY <1>9, BuildTaskNodePreserves
<1>10. CASE (\E p, q \in Threads : DataRace(p, q)) \/ UNCHANGED vars
  <2>1. /\ UNCHANGED <<sources, disk, caches, fake, inits, timer, locals, request, sent>>
        /\ dead' \in BOOLEAN
    BY <1>0, <1>10 DEF DataRace, vars, TypeOK
  <2>2. TypeOK'
    BY <1>0, <2>1 DEF TypeOK, caches, fake, timer, locals, request, sent
  <2> QED BY <2>1, <2>2, StayPreserves DEF caches, locals
<1> QED
  BY <1>1, <1>2, <1>3, <1>4, <1>5, <1>6, <1>7, <1>8, <1>9, <1>10 DEF Next, Answer

LEMMA Invariance == Spec => []IInv
  BY InitEstablishes, StepPreserves, PTL DEF Spec

\* The variables keep their types, for any number of timer threads.
THEOREM TypeCorrect == Spec => []TypeOK
<1>1. IInv => TypeOK
  BY DEF IInv
<1> QED BY <1>1, Invariance, PTL

\* With any number of timer threads, tasks and a fake data file at once, a
\* client that has seen an update about a task is told about it when it asks.
THEOREM RepliesCover == Spec => []ReplyCoversAnnounced
<1>1. IInv => ReplyCoversAnnounced
  BY DEF IInv
<1> QED BY <1>1, Invariance, PTL

-----------------------------------------------------------------------------
(* The waits on the timers.                                                *)

\* The threads that handle a wait are counted.
LEMMA BusyCounts ==
  /\ IsFiniteSet(Busy) /\ Cardinality(Busy) \in Nat
  /\ \A w : Cardinality(Busy \cup {w}) = IF w \in Busy THEN Cardinality(Busy) ELSE Cardinality(Busy) + 1
  /\ \A w : Cardinality(Busy \ {w}) = IF w \in Busy THEN Cardinality(Busy) - 1 ELSE Cardinality(Busy)
<1>1. IsFiniteSet(Workers)
  BY InformationServiceAssumption, FS_Interval DEF Workers
<1>2. Busy \in SUBSET Workers
  BY DEF Busy
<1>3. IsFiniteSet(Busy)
  BY <1>1, <1>2, FS_Subset
<1> QED BY <1>3, FS_CardinalityType, FS_AddElement, FS_RemoveElement

LEMMA SameWaits ==
  ASSUME OneWaitPerTimer, Busy' = Busy, inits' = inits, UNCHANGED timer, dead' = FALSE => dead = FALSE,
         dead \in BOOLEAN, dead' \in BOOLEAN
  PROVE  OneWaitPerTimer'
  BY DEF OneWaitPerTimer, Busy, timer

LEMMA WaitsPreserved == TypeOK /\ TypeOK' /\ OneWaitPerTimer /\ [Next]_vars => OneWaitPerTimer'
<1> SUFFICES ASSUME TypeOK, TypeOK', OneWaitPerTimer, [Next]_vars PROVE OneWaitPerTimer'
  OBVIOUS
<1>0. /\ pending \in Nat /\ replaced \in Nat /\ expired \in Nat /\ cancelled \in Nat
      /\ inits \in Nat /\ Device \in Threads /\ Cardinality(Busy) \in Nat
      /\ dead \in BOOLEAN /\ dead' \in BOOLEAN
  BY BusyCounts, InformationServiceAssumption DEF TypeOK, Threads
<1>w. OneWaitPerTimer <=> (~dead => pending + replaced + expired + cancelled + Cardinality(Busy) = inits)
  BY DEF OneWaitPerTimer, Busy
<1>v. OneWaitPerTimer' <=> (~dead' => pending' + replaced' + expired' + cancelled' + Cardinality(Busy') = inits')
  BY DEF OneWaitPerTimer, Busy
<1>d. ASSUME NEW label, pc' = [pc EXCEPT ![Device] = label] PROVE Busy' = Busy
  BY <1>d, Labels DEF Busy, TypeOK
<1>1. CASE InitDevice
  <2>1. Busy' = Busy
    BY <1>1 DEF InitDevice, locals, Busy
  <2>2. /\ inits' = inits + 1 /\ pending' = 1 /\ replaced' = replaced + pending
        /\ UNCHANGED <<dead, expired, cancelled>>
    BY <1>1 DEF InitDevice
  <2> QED BY <1>0, <1>w, <1>v, <2>1, <2>2
<1>2. CASE Expire
  <2>1. Busy' = Busy
    BY <1>2 DEF Expire, locals, Busy
  <2>2. /\ UNCHANGED <<dead, inits, cancelled>>
        /\ \/ pending' = 0 /\ expired' = expired + pending /\ UNCHANGED replaced
           \/ replaced > 0 /\ replaced' = replaced - 1 /\ expired' = expired + 1 /\ UNCHANGED pending
    BY <1>2 DEF Expire
  <2> QED BY <1>0, <1>w, <1>v, <2>1, <2>2
<1>3. ASSUME NEW w \in Workers, CheckTimedOut(w) PROVE OneWaitPerTimer'
  <2>1. CASE mFakeData = << >>
    BY <1>3, <1>v, <2>1 DEF CheckTimedOut
  <2>2. CASE mFakeData # << >>
    <3>1. /\ \/ expired > 0 /\ expired' = expired - 1 /\ UNCHANGED cancelled
             \/ cancelled > 0 /\ cancelled' = cancelled - 1 /\ UNCHANGED expired
          /\ UNCHANGED <<dead, inits, pending, replaced>>
          /\ pc[w] = "idle" /\ pc' = [pc EXCEPT ![w] = "compare"]
      BY <1>3, <2>2 DEF CheckTimedOut, Goto
    <3>2. Busy' = Busy \cup {w} /\ w \notin Busy
      BY <3>1, Labels DEF Busy, TypeOK
    <3>3. Cardinality(Busy') = Cardinality(Busy) + 1
      BY <3>2, BusyCounts
    <3> QED BY <1>0, <1>w, <1>v, <3>1, <3>3
  <2> QED BY <2>1, <2>2
<1>4. ASSUME NEW p \in Threads, Handler(p) PROVE OneWaitPerTimer'
  <2>1. PICK label \in {"claim", "store", "produce", "send", "return", "done"} :
          pc' = [pc EXCEPT ![p] = label]
    BY <1>4, HandlerMoves
  <2>2. pc[p] # "idle" /\ UNCHANGED <<inits, timer>> /\ ~dead
    BY <1>4, HandlerMoves
  <2>3. Busy' = Busy
    BY <2>1, <2>2, Labels DEF Busy, TypeOK
  <2> QED BY <1>0, <2>2, <2>3, SameWaits
<1>5. ASSUME NEW w \in Workers, WorkerDone(w) PROVE OneWaitPerTimer'
  <2>1. /\ pending' = 1 /\ cancelled' = cancelled + pending
        /\ pc[w] = "done" /\ pc' = [pc EXCEPT ![w] = "idle"]
        /\ UNCHANGED <<dead, inits, replaced, expired>>
    BY <1>5 DEF WorkerDone, RestartTimer, Goto
  <2>2. Busy' = Busy \ {w} /\ w \in Busy
    BY <2>1, Labels DEF Busy, TypeOK
  <2>3. Cardinality(Busy') = Cardinality(Busy) - 1
    BY <2>2, BusyCounts
  <2> QED BY <1>0, <1>w, <1>v, <2>1, <2>3
<1>6. CASE \/ EditFile \/ DeviceDone \/ RequestAll \/ Answer
           \/ \E l \in Lines : ReceiveData(l)
           \/ \E t \in Tasks : RequestTask(t)
  <2>1. /\ UNCHANGED <<dead, inits, timer>>
        /\ pc' = pc \/ \E label : pc' = [pc EXCEPT ![Device] = label]
    BY <1>6 DEF EditFile, DeviceDone, RequestAll, Answer, BuildTaskNode, Reply, ReceiveData,
       RequestTask, Request, Goto, locals
  <2>2. Busy' = Busy
    BY <1>d, <2>1 DEF Busy
  <2> QED BY <1>0, <2>1, <2>2, SameWaits
<1>7. CASE \E p, q \in Threads : DataRace(p, q)
  BY <1>7, <1>v DEF DataRace
<1>8. CASE UNCHANGED vars
  <2>1. Busy' = Busy /\ UNCHANGED <<dead, inits, timer>>
    BY <1>8 DEF vars, locals, Busy
  <2> QED BY <1>0, <2>1, SameWaits
<1>9. \A w \in Workers : w \in Threads
  BY Labels
<1> QED BY <1>0, <1>1, <1>2, <1>3, <1>4, <1>5, <1>6, <1>7, <1>8, <1>9 DEF Next, Worker

\* However often the device is initialised, every call of readFakeDataFile()
\* leaves one wait that is pending, has fired, or is being handled.
THEOREM OneWaitForEachTimer == Spec => []OneWaitPerTimer
<1>1. IInv => TypeOK
  BY DEF IInv
<1>2. Init => OneWaitPerTimer
  BY InitEstablishes
<1> QED BY <1>1, <1>2, WaitsPreserved, Invariance, PTL DEF Spec

-----------------------------------------------------------------------------
(***************************************************************************)
(* One source of data: tasks, or a fake data file with one timer. One      *)
(* thread handles lists, and the other answers requests at most.           *)
(***************************************************************************)
OneSource == MaxInits = 1 /\ \A d \in Deployments : ~ {"tasks", "file"} \subseteq d

Source == IF "file" \in sources THEN 1 ELSE Device

Others ==
  /\ \A p \in Threads \ {Source} : pc[p] \in {"idle", "reading", "readingAll"}
  /\ "file" \notin sources => inits = 0

\* What the three copies of each list hold while the thread is at a statement.
InStep ==
  LET at == pc[Source]  l == line[Source] IN
  /\ \A t \in Tasks :
       /\ mCacheTasksObjectsHash[t] # mCacheTasksData[t] => at = "store" /\ t = l.task
       /\ mCacheTasksData[t] # LastUpdate(t) => at \in {"produce", "send"} /\ t = l.task
  /\ at = "store" => mCacheTasksObjectsHash[l.task] = l.list
  /\ at \in {"produce", "send"} => mCacheTasksData[l.task] = l.list
  /\ at = "send" => json[Source] = l.list
  /\ at \in {"claim", "store", "produce", "send"} => LastUpdate(l.task) # l.list

SInv == TypeOK /\ Others /\ InStep

LEMMA SourceIsThread ==
  ASSUME OneSource
  PROVE  Source \in Threads /\ Workers = {1}
  BY DEF OneSource, Source, Threads, Workers, Device

\* The statements outside the handler, wherever the thread goes.
LEMMA OutsideKeeps ==
  ASSUME SInv, TypeOK', Others', sources' = sources,
         UNCHANGED <<mCacheTasksObjectsHash, mCacheTasksData, sent>>,
         pc[Source] \notin {"claim", "store", "produce", "send"},
         pc'[Source] \notin {"claim", "store", "produce", "send"}
  PROVE  SInv'
<1>1. Source' = Source
  BY DEF Source
<1> QED BY <1>1 DEF SInv, InStep, sent, LastUpdate

\* The statements of another thread.
LEMMA BesideKeeps ==
  ASSUME SInv, TypeOK', Others', sources' = sources,
         UNCHANGED <<mCacheTasksObjectsHash, mCacheTasksData, sent, json, line>>,
         pc'[Source] = pc[Source]
  PROVE  SInv'
<1>1. Source' = Source
  BY DEF Source
<1> QED BY <1>1 DEF SInv, InStep, sent, LastUpdate

LEMMA HandlerInStep ==
  ASSUME OneSource, SInv, TypeOK', NEW p \in Threads, Handler(p)
  PROVE  SInv'
<1>0. TypeOK /\ Others /\ InStep /\ Source \in Threads
  BY SourceIsThread DEF SInv
<1>1. /\ pc[p] \in {"compare", "claim", "store", "produce", "send", "return"}
      /\ UNCHANGED <<sources, disk, fake, inits, timer, request, line>>
  BY <1>0, HandlerMoves
<1>2. p = Source /\ Source' = Source
  BY <1>0, <1>1 DEF Others, Source
<1>3. PICK label : pc' = [pc EXCEPT ![p] = label]
  BY <1>0, HandlerMoves
<1>4. Others'
  BY <1>0, <1>1, <1>2, <1>3 DEF Others, TypeOK
<1>5. pc'[p] = label /\ line' = line
  BY <1>0, <1>1, <1>3 DEF TypeOK
<1>6. line[p].task \in Tasks /\ line[p].list \in Lists /\ line[p].list # NoList
  <2>1. line[p] \in Lines
    BY <1>0 DEF TypeOK
  <2> QED BY <2>1, InformationServiceAssumption DEF Lines
<1>7. CASE Compare(p)
  <2>1. /\ label = IF mCacheTasksObjectsHash[line[p].task] = line[p].list THEN "done" ELSE "claim"
        /\ UNCHANGED <<caches, json, sent>> /\ pc[p] = "compare"
    BY <1>0, <1>3, <1>7 DEF Compare, AlreadyKnown, Goto, TypeOK
  <2>2. InStep'
    BY <1>0, <1>2, <1>5, <1>6, <2>1 DEF InStep, caches, LastUpdate, sent
  <2> QED BY <1>4, <2>2 DEF SInv
<1>8. CASE Claim(p)
  <2>1. /\ label = "store" /\ pc[p] = "claim"
        /\ mCacheTasksObjectsHash' = [mCacheTasksObjectsHash EXCEPT ![line[p].task] = line[p].list]
        /\ UNCHANGED <<mCacheTasksData, json, sent>>
    BY <1>0, <1>3, <1>8 DEF Claim, Remember, Goto, Steps, TypeOK
  <2>2. InStep'
    BY <1>0, <1>2, <1>5, <1>6, <2>1 DEF InStep, TypeOK, LastUpdate, sent
  <2> QED BY <1>4, <2>2 DEF SInv
<1>9. CASE Store(p)
  <2>1. /\ label = "produce" /\ pc[p] = "store"
        /\ mCacheTasksData' = [mCacheTasksData EXCEPT ![line[p].task] = line[p].list]
        /\ UNCHANGED <<mCacheTasksObjectsHash, json, sent>>
    BY <1>0, <1>3, <1>9 DEF Store, Goto, Steps, TypeOK
  <2>2. InStep'
    BY <1>0, <1>2, <1>5, <1>6, <2>1 DEF InStep, TypeOK, LastUpdate, sent
  <2> QED BY <1>4, <2>2 DEF SInv
<1>10. CASE ProduceJson(p)
  <2>1. /\ label = "send" /\ pc[p] = "produce"
        /\ json' = [json EXCEPT ![p] = mCacheTasksData[line[p].task]]
        /\ UNCHANGED <<caches, sent>>
    BY <1>0, <1>3, <1>10 DEF ProduceJson, Goto, Steps, TypeOK
  <2>2. InStep'
    BY <1>0, <1>2, <1>5, <1>6, <2>1 DEF InStep, TypeOK, caches, LastUpdate, sent
  <2> QED BY <1>4, <2>2 DEF SInv
<1>11. CASE SendJson(p)
  <2>1. /\ label = "return" /\ pc[p] = "send"
        /\ Deliver(line[p].task, json[p]) \/ Lose(line[p].task, json[p])
        /\ UNCHANGED <<caches, json>>
    BY <1>0, <1>3, <1>11 DEF SendJson, Goto, Steps, TypeOK
  <2>2. json[p] = line[p].list /\ line[p].list # NoList
    BY <1>0, <1>2, <1>6, <2>1, InformationServiceAssumption DEF InStep
  <2>3. /\ LastUpdate(line[p].task)' = line[p].list
        /\ \A t \in Tasks : t # line[p].task => LastUpdate(t)' = LastUpdate(t)
    BY <1>0, <1>5, <1>6, <2>1, <2>2 DEF LastUpdate, Deliver, Lose, TypeOK
  <2>4. InStep'
    BY <1>0, <1>2, <1>5, <1>6, <2>1, <2>2, <2>3 DEF InStep, caches, LastUpdate, sent
  <2> QED BY <1>4, <2>4 DEF SInv
<1>12. CASE FallOffTheEnd(p)
  <2>1. /\ label = "done" /\ pc[p] = "return" /\ UNCHANGED <<caches, json, sent>>
    BY <1>0, <1>3, <1>12 DEF FallOffTheEnd, Goto, TypeOK
  <2>2. InStep'
    BY <1>0, <1>2, <1>5, <2>1 DEF InStep, caches, LastUpdate, sent
  <2> QED BY <1>4, <2>2 DEF SInv
<1> QED BY <1>7, <1>8, <1>9, <1>10, <1>11, <1>12 DEF Handler

LEMMA StepInStep ==
  ASSUME OneSource, SInv, TypeOK', [Next]_vars
  PROVE  SInv'
<1>0. TypeOK /\ Others /\ InStep /\ Source \in Threads /\ Workers = {1} /\ Device \in Threads
  BY SourceIsThread DEF SInv, Threads
<1>1. ASSUME UNCHANGED <<locals, caches, sources, sent>>, "file" \notin sources => inits' = inits
      PROVE  SInv'
  <2>1. Source' = Source
    BY <1>1 DEF Source
  <2>2. Others'
    BY <1>0, <1>1, <2>1 DEF Others, locals
  <2> QED BY <1>1, <2>2, BesideKeeps DEF locals, caches
<1>2. CASE InitDevice \/ EditFile \/ Expire \/ (\E p, q \in Threads : DataRace(p, q))
           \/ (\E t \in Tasks : BuildTaskNode(t)) \/ UNCHANGED vars
  BY <1>1, <1>2 DEF InitDevice, EditFile, Expire, DataRace, BuildTaskNode, vars
<1>3. ASSUME NEW w \in Workers, CheckTimedOut(w) PROVE SInv'
  <2>1. Source = w /\ w \in Threads
    BY <1>0, <1>3, Labels DEF CheckTimedOut, Others, Source, TypeOK
  <2>2. /\ pc[w] = "idle" /\ pc' \in {pc, [pc EXCEPT ![w] = "compare"]}
        /\ UNCHANGED <<sources, caches, inits, sent>>
    BY <1>3 DEF CheckTimedOut, Goto
  <2>3. Others' /\ pc'[Source] \in {"idle", "compare"}
    BY <1>0, <2>1, <2>2 DEF Others, Source, TypeOK
  <2> QED BY <2>1, <2>2, <2>3, OutsideKeeps DEF caches
<1>4. ASSUME NEW w \in Workers, WorkerDone(w) PROVE SInv'
  <2>1. /\ pc[w] = "done" /\ pc' = [pc EXCEPT ![w] = "idle"] /\ w \in Threads
        /\ UNCHANGED <<sources, caches, inits, sent>>
    BY <1>4, Labels DEF WorkerDone, Goto
  <2>2. Source = w
    BY <1>0, <2>1 DEF Others
  <2>3. Others' /\ pc'[Source] = "idle"
    BY <1>0, <2>1, <2>2 DEF Others, Source, TypeOK
  <2> QED BY <2>1, <2>2, <2>3, OutsideKeeps DEF caches
<1>5. ASSUME NEW l \in Lines, ReceiveData(l) PROVE SInv'
  <2>1. Source = Device
    BY <1>0, <1>5 DEF ReceiveData, OneSource, Source, TypeOK
  <2>2. /\ pc[Device] = "idle" /\ pc' = [pc EXCEPT ![Device] = "compare"]
        /\ UNCHANGED <<sources, caches, inits, sent>>
    BY <1>5 DEF ReceiveData, Goto
  <2>3. Others' /\ pc'[Source] = "compare"
    BY <1>0, <2>1, <2>2 DEF Others, Source, TypeOK
  <2> QED BY <2>1, <2>2, <2>3, OutsideKeeps DEF caches
<1>6. ASSUME NEW label \in {"idle", "reading", "readingAll"}, pc' = [pc EXCEPT ![Device] = label],
             pc[Device] \in {"idle", "done", "reading", "readingAll"},
             UNCHANGED <<sources, caches, inits, line, json, sent>>
      PROVE  SInv'
  <2>1. Source' = Source
    BY <1>6 DEF Source
  <2>2. Others'
    BY <1>0, <1>6, <2>1 DEF Others, TypeOK
  <2>3. CASE Source = Device
    <3>1. pc'[Source] = label
      BY <1>0, <1>6, <2>3 DEF TypeOK
    <3> QED BY <1>6, <2>2, <2>3, <3>1, OutsideKeeps DEF caches
  <2>4. CASE Source # Device
    <3>1. pc'[Source] = pc[Source]
      BY <1>0, <1>6, <2>4 DEF TypeOK
    <3> QED BY <1>6, <2>2, <3>1, BesideKeeps DEF caches
  <2> QED BY <2>3, <2>4
<1>7. CASE DeviceDone \/ Reply
  BY <1>6, <1>7 DEF DeviceDone, Reply, Goto
<1>8. CASE RequestAll \/ \E t \in Tasks : RequestTask(t)
  BY <1>6, <1>8 DEF RequestAll, RequestTask, Request, Goto
<1>9. \A w \in Workers : w \in Threads
  BY Labels
<1> QED
  BY <1>0, <1>2, <1>3, <1>4, <1>5, <1>7, <1>8, <1>9, HandlerInStep DEF Next, Worker, Answer

LEMMA OneSourceInvariance ==
  ASSUME OneSource
  PROVE  Spec => []SInv
<1>1. Init => SInv
  BY InitEstablishes, SourceIsThread DEF Init, SInv, IInv, Others, InStep, LastUpdate
<1>2. SInv /\ TypeOK' /\ [Next]_vars => SInv'
  BY StepInStep
<1>3. IInv => TypeOK
  BY DEF IInv
<1> QED BY <1>1, <1>2, <1>3, Invariance, PTL DEF Spec

\* With one source of data, the hash, the list and the update of a task are the
\* same but for the one that the source is about to handle.
THEOREM CachesStayInStep ==
  ASSUME OneSource
  PROVE  Spec => []CachesInStep
<1>1. SInv => CachesInStep
  <2> SUFFICES ASSUME SInv, NEW t \in Tasks
               PROVE  /\ \/ mCacheTasksObjectsHash[t] = mCacheTasksData[t]
                         \/ \E p \in Threads :
                              /\ pc[p] = "store"
                              /\ line[p] = [task |-> t, list |-> mCacheTasksObjectsHash[t]]
                      /\ \/ mCacheTasksData[t] = LastUpdate(t)
                         \/ \E p \in Threads :
                              /\ pc[p] \in {"produce", "send"}
                              /\ line[p] = [task |-> t, list |-> mCacheTasksData[t]]
                              /\ pc[p] = "send" => json[p] = mCacheTasksData[t]
    BY DEF CachesInStep, HashAheadOfCache, CacheAheadOfUpdates
  <2>1. Source \in Threads /\ line[Source] \in Lines
    BY SourceIsThread DEF SInv, TypeOK
  <2>2. line[Source] = [task |-> line[Source].task, list |-> line[Source].list]
    BY <2>1 DEF Lines
  <2> QED BY <2>1, <2>2 DEF SInv, InStep
<1> QED BY <1>1, OneSourceInvariance, PTL

\* With one source of data, a list is never published twice in a row.
THEOREM NoUpdateRepeated ==
  ASSUME OneSource
  PROVE  Spec => NoRepeatedUpdate
<1>1. SInv => \A p \in Threads : pc[p] = "send" => json[p] # LastUpdate(line[p].task)
  BY DEF SInv, Others, InStep
<1>2. SInv /\ [Next]_vars =>
        [\A p \in Threads : pc[p] = "send" /\ pc'[p] # "send" => json[p] # LastUpdate(line[p].task)]_vars
  BY <1>1
<1> QED BY <1>2, OneSourceInvariance, PTL DEF Spec, NoRepeatedUpdate
=============================================================================
