---------------------------- MODULE DeviceProofs ----------------------------
(***************************************************************************)
(* The devices that receive what tasks publish. What the caches of the     *)
(* Checker promise, which checks it gives an array up for and the quality  *)
(* of an object; that the merger adds every block once; and who owns the   *)
(* copies the window of DataDumpGui shows: for every set of libraries,     *)
(* classes, definitions, arrays and inputs, and any number of messages.    *)
(***************************************************************************)
EXTENDS Checker, HistoMerger, DataDumpGui, FoldTheorems, TLAPS

(***************************************************************************)
(* The Checker: the types of the caches, and what they promise.            *)
(***************************************************************************)
CacheTypes ==
  /\ mLibrariesLoaded \subseteq Libraries
  /\ inProcess \subseteq Libraries
  /\ mClassesLoaded \subseteq Classes
  /\ mChecksLoaded \in [CheckNames -> Classes \cup {None}]

IInv == CacheTypes /\ CachedIsLoaded

\* Loading for a check, whether it succeeds or throws half-way, keeps the
\* caches true.
LEMMA LoadKeepsCaches ==
  ASSUME NEW d \in CheckDefs, IInv, Load(d)
  PROVE  IInv'
<1> USE CheckerAssumption
<1>1. /\ d.name \in CheckNames /\ d.className \in Classes
      /\ d.libraryName \in Libraries \cup {NoLibrary}
      /\ LibraryOf[d.className] \in Libraries
  BY DEF CheckNames
<1> DEFINE libs == IF LoadLibraryOK(d.libraryName)
                   THEN inProcess \cup ({d.libraryName} \ {NoLibrary})
                   ELSE inProcess
           class == LoadLibraryOK(d.libraryName) /\ HasClass(d.className, libs)
<1>2. /\ mLibrariesLoaded' = LibrariesAfter(d.libraryName)
      /\ inProcess' = IF class THEN libs \cup {LibraryOf[d.className]} ELSE libs
      /\ mClassesLoaded' = IF class THEN mClassesLoaded \cup {d.className} ELSE mClassesLoaded
      /\ mChecksLoaded' = IF class /\ HasInstance(d)
                          THEN [mChecksLoaded EXCEPT ![d.name] = InstanceOf(d)]
                          ELSE mChecksLoaded
  BY DEF Load
<1>3. libs \subseteq Libraries /\ inProcess \subseteq libs
  BY <1>1 DEF IInv, CacheTypes
<1>4. mLibrariesLoaded' \subseteq libs
  <2>1. CASE d.libraryName # NoLibrary /\ Loads(d.libraryName)
    <3>1. LoadLibraryOK(d.libraryName)
      BY <2>1 DEF LoadLibraryOK
    <3>2. d.libraryName \in libs
      BY <2>1, <3>1
    <3> QED BY <2>1, <3>2, <1>2, <1>3 DEF LibrariesAfter, IInv, CachedIsLoaded
  <2>2. CASE ~(d.libraryName # NoLibrary /\ Loads(d.libraryName))
    BY <2>2, <1>2, <1>3 DEF LibrariesAfter, IInv, CachedIsLoaded
  <2> QED BY <2>1, <2>2
<1> HIDE DEF libs, class
<1>5. inProcess \subseteq inProcess' /\ libs \subseteq inProcess'
  BY <1>2, <1>3
<1>6. mLibrariesLoaded' \subseteq Libraries /\ inProcess' \subseteq Libraries
  BY <1>1, <1>2, <1>3, <1>4
<1>7. /\ mClassesLoaded \subseteq mClassesLoaded'
      /\ mClassesLoaded' \subseteq Classes
      /\ \A c \in mClassesLoaded' : LibraryOf[c] \in inProcess'
  BY <1>1, <1>2, <1>5 DEF IInv, CacheTypes, CachedIsLoaded
<1>8. /\ mChecksLoaded' \in [CheckNames -> Classes \cup {None}]
      /\ \A n \in CheckNames :
           mChecksLoaded'[n] # None => mChecksLoaded'[n] \in mClassesLoaded' \ Abstract
  <2>1. CASE class /\ HasInstance(d)
    <3>1. mChecksLoaded' = [mChecksLoaded EXCEPT ![d.name] = InstanceOf(d)]
      BY <2>1, <1>2
    <3>2. InstanceOf(d) \in mClassesLoaded' \ Abstract
      BY <2>1, <1>1, <1>2, <1>7
         DEF InstanceOf, HasInstance, IInv, CacheTypes, CachedIsLoaded
    <3> QED BY <3>1, <3>2, <1>1, <1>7 DEF IInv, CacheTypes, CachedIsLoaded
  <2>2. CASE ~(class /\ HasInstance(d))
    BY <2>2, <1>2, <1>7 DEF IInv, CacheTypes, CachedIsLoaded
  <2> QED BY <2>1, <2>2
<1> QED
  BY <1>4, <1>5, <1>6, <1>7, <1>8 DEF IInv, CacheTypes, CachedIsLoaded

\* No step of the device makes a cache lie.
THEOREM Invariance == Spec => []IInv
<1>1. Init => IInv
  BY DEF Init, IInv, CacheTypes, CachedIsLoaded
<1>2. IInv /\ [Next]_vars => IInv'
  <2> SUFFICES ASSUME IInv, [Next]_vars PROVE IInv'
    OBVIOUS
  <2>1. CASE UNCHANGED loaded
    BY <2>1 DEF loaded, IInv, CacheTypes, CachedIsLoaded
  <2>2. ASSUME NEW a \in Arrays, Receive(a) PROVE IInv'
    BY <2>1, <2>2 DEF Receive
  <2>3. CASE SkipElement
    BY <2>1, <2>3 DEF SkipElement
  <2>4. ASSUME NEW d \in CheckDefs, NEW q \in Qualities, RunCheck(d, q) PROVE IInv'
    BY <2>4, LoadKeepsCaches DEF RunCheck
  <2>5. ASSUME NEW d \in CheckDefs, CheckThrows(d) \/ OwnCodeThrows(d) PROVE IInv'
    BY <2>5, LoadKeepsCaches DEF CheckThrows, OwnCodeThrows
  <2>6. CASE StoreObject
    BY <2>1, <2>6 DEF StoreObject
  <2>7. CASE Send
    BY <2>1, <2>7 DEF Send
  <2>8. CASE UNCHANGED vars
    BY <2>1, <2>8 DEF vars, loaded
  <2> QED
    BY <2>2, <2>3, <2>4, <2>5, <2>6, <2>7, <2>8 DEF Next, Run
<1> QED
  BY <1>1, <1>2, PTL DEF Spec

\* A library, class or instance the Checker skips loading is there.
THEOREM CachesTellTheTruth == Spec => []CachedIsLoaded
<1>1. IInv => CachedIsLoaded
  BY DEF IInv
<1> QED
  BY <1>1, Invariance, PTL

Counted == sent.count \in Nat

\* Each array that is sent is counted, so a step that sends one is told from a
\* step that gives one up.
LEMMA SentIsCounted == Spec => []Counted
<1>1. Init => Counted
  BY DEF Init, Counted
<1>2. Counted /\ [Next]_vars => Counted'
  <2> SUFFICES ASSUME Counted, [Next]_vars PROVE Counted'
    OBVIOUS
  <2>1. CASE Send
    <3>1. sent' = [count |-> sent.count + 1, last |-> checkedMoArray]
      BY <2>1 DEF Send
    <3> QED
      BY <3>1 DEF Counted
  <2>2. CASE sent' = sent
    BY <2>2 DEF Counted
  <2>3. [Next]_vars => Send \/ sent' = sent
    BY DEF Next, Run, Receive, SkipElement, RunCheck, CheckThrows, OwnCodeThrows, StoreObject,
           history, vars
  <2> QED
    BY <2>1, <2>2, <2>3
<1> QED
  BY <1>1, <1>2, PTL DEF Spec

\* Whatever was loaded or failed to load before, and whatever checks threw, an
\* array is given up only for a check that is not well specified or whose own
\* code throws.
THEOREM GivenUpForItsOwnFault == Spec => WellSpecifiedChecksRun
<1>1. ASSUME Counted, [Next]_vars, array # None, array' = None, sent' = sent, ~ownCode'
      PROVE  ~WellSpecified(failed')
  <2>1. ~UNCHANGED vars
    BY <1>1 DEF vars, loop
  <2>2. ASSUME NEW d \in CheckDefs, CheckThrows(d) PROVE ~WellSpecified(failed')
    <3>1. failed' = d /\ ~CanRun(d)
      BY <2>2 DEF CheckThrows
    <3>2. WellSpecified(d) => CanRun(d)
      BY DEF WellSpecified, CanRun, LoadLibraryOK, Loads, HasClass, HasInstance
    <3> QED
      BY <3>1, <3>2
  <2>3. ~Send
    BY <1>1 DEF Send, Counted
  <2>4. ~\E a \in Arrays : Receive(a)
    BY <1>1 DEF Receive
  <2>5. /\ ~SkipElement /\ ~StoreObject
        /\ ~\E d \in CheckDefs, q \in Qualities : RunCheck(d, q)
        /\ ~\E d \in CheckDefs : OwnCodeThrows(d)
    BY <1>1 DEF SkipElement, StoreObject, RunCheck, OwnCodeThrows
  <2> QED
    BY <1>1, <2>1, <2>2, <2>3, <2>4, <2>5 DEF Next, Run
<1>2. Counted /\ [Next]_vars
        => [array # None /\ array' = None /\ sent' = sent /\ ~ownCode' => ~WellSpecified(failed')]_vars
  BY <1>1
<1> QED
  BY <1>2, SentIsCounted, PTL DEF Spec, WellSpecifiedChecksRun

\* Going on by one element counts it if it is an object; the places of the
\* objects passed lie within the objects passed.
LEMMA UpToNext ==
  ASSUME NEW a \in Arrays, NEW p \in 1 .. Len(a)
  PROVE  /\ ObjectsUpTo(p - 1, a) \in Nat
         /\ a[p] = NotAnObject => ObjectsUpTo(p, a) = ObjectsUpTo(p - 1, a)
         /\ a[p] # NotAnObject => ObjectsUpTo(p, a) = ObjectsUpTo(p - 1, a) + 1
         /\ \A i \in MonitorObjects(a) : i < p => ObjectsUpTo(i, a) \in 1 .. ObjectsUpTo(p - 1, a)
<1> DEFINE U(i) == {j \in MonitorObjects(a) : j <= i}
<1>1. Len(a) \in Nat /\ DOMAIN a = 1 .. Len(a)
  BY CheckerAssumption
<1>2. MonitorObjects(a) \subseteq 1 .. Len(a)
  BY <1>1 DEF MonitorObjects
<1>3. IsFiniteSet(MonitorObjects(a))
  <2>1. IsFiniteSet(1 .. Len(a))
    BY <1>1, FS_Interval
  <2> QED BY <1>2, <2>1, FS_Subset
<1>4. \A i : IsFiniteSet(U(i)) /\ Cardinality(U(i)) \in Nat /\ ObjectsUpTo(i, a) = Cardinality(U(i))
  BY <1>3, FS_Subset, FS_CardinalityType DEF ObjectsUpTo
<1>5. ASSUME a[p] = NotAnObject PROVE U(p) = U(p - 1)
  BY <1>1, <1>2, <1>5 DEF MonitorObjects
<1>6. ASSUME a[p] # NotAnObject PROVE U(p) = U(p - 1) \cup {p} /\ p \notin U(p - 1)
  <2>1. p \in MonitorObjects(a)
    BY <1>1, <1>6 DEF MonitorObjects
  <2> QED BY <1>1, <1>2, <2>1
<1>7. ASSUME NEW i \in MonitorObjects(a), i < p
      PROVE  Cardinality(U(i)) \in 1 .. Cardinality(U(p - 1))
  <2>1. U(i) \subseteq U(p - 1) /\ i \in U(i)
    BY <1>1, <1>2, <1>7
  <2>2. Cardinality(U(i)) <= Cardinality(U(p - 1))
    BY <1>4, <2>1, FS_Subset
  <2>3. Cardinality(U(i)) # 0
    BY <1>4, <2>1, FS_EmptySet
  <2> HIDE DEF U
  <2> QED BY <1>4, <2>2, <2>3
<1>8. a[p] # NotAnObject => Cardinality(U(p)) = Cardinality(U(p - 1)) + 1
  <2> HIDE DEF U
  <2> QED BY <1>4, <1>6, FS_AddElement
<1>9. a[p] = NotAnObject => Cardinality(U(p)) = Cardinality(U(p - 1))
  BY <1>5
<1> HIDE DEF U
<1> QED BY <1>4, <1>7, <1>8, <1>9

\* No object comes before the first element, and all come up to the last.
LEMMA UpToEnds ==
  ASSUME NEW a \in Arrays
  PROVE  /\ ObjectsUpTo(0, a) = 0
         /\ ObjectsUpTo(Len(a), a) = Cardinality(MonitorObjects(a))
         /\ \A i \in MonitorObjects(a) : i \in 1 .. Len(a)
<1>1. Len(a) \in Nat /\ DOMAIN a = 1 .. Len(a)
  BY CheckerAssumption
<1>2. MonitorObjects(a) \subseteq 1 .. Len(a)
  BY <1>1 DEF MonitorObjects
<1>3. {j \in MonitorObjects(a) : j <= 0} = {} /\ {j \in MonitorObjects(a) : j <= Len(a)} = MonitorObjects(a)
  BY <1>1, <1>2
<1> QED BY <1>2, <1>3, FS_EmptySet DEF ObjectsUpTo

\* What the loop of run() has passed: the objects that will be sent are those of
\* the array before the current element, each at its place.
Passed(a, p, objects) ==
  /\ objects \in Seq(SUBSET CheckDefs)
  /\ Len(objects) = ObjectsUpTo(p - 1, a)
  /\ \A i \in MonitorObjects(a) : i < p => objects[ObjectsUpTo(i, a)] = a[i]

LoopInv ==
  array # None =>
    /\ array \in Arrays
    /\ position \in 1 .. Len(array) + 1
    /\ Passed(array, position, checkedMoArray)

\* An element that is no object is passed, and one that is is appended.
LEMMA ElementIsPassed ==
  ASSUME NEW a \in Arrays, NEW p \in 1 .. Len(a), NEW objects, Passed(a, p, objects)
  PROVE  /\ a[p] = NotAnObject => Passed(a, p + 1, objects)
         /\ a[p] # NotAnObject => Passed(a, p + 1, Append(objects, a[p]))
<1>1. Len(a) \in Nat /\ DOMAIN a = 1 .. Len(a) /\ a[p] \in (SUBSET CheckDefs) \cup {NotAnObject}
  BY CheckerAssumption
<1>2. /\ objects \in Seq(SUBSET CheckDefs) /\ Len(objects) = ObjectsUpTo(p - 1, a)
      /\ \A i \in MonitorObjects(a) : i < p => objects[ObjectsUpTo(i, a)] = a[i]
  BY DEF Passed
<1>3. p \in Nat /\ (p + 1) - 1 = p /\ \A i \in MonitorObjects(a) : i \in Nat /\ (i < p + 1 <=> i < p \/ i = p)
  BY <1>1 DEF MonitorObjects
<1>4. ASSUME a[p] = NotAnObject PROVE Passed(a, p + 1, objects)
  <2>1. \A i \in MonitorObjects(a) : i # p
    BY <1>4 DEF MonitorObjects
  <2>2. Len(objects) = ObjectsUpTo((p + 1) - 1, a)
    BY <1>2, <1>3, <1>4, UpToNext
  <2>3. \A i \in MonitorObjects(a) : i < p + 1 => objects[ObjectsUpTo(i, a)] = a[i]
    BY <1>2, <1>3, <2>1
  <2> QED BY <1>2, <2>2, <2>3 DEF Passed
<1>5. ASSUME a[p] # NotAnObject PROVE Passed(a, p + 1, Append(objects, a[p]))
  <2> DEFINE n == ObjectsUpTo(p - 1, a)
             more == Append(objects, a[p])
  <2>1. a[p] \in SUBSET CheckDefs
    BY <1>1, <1>5
  <2>2. /\ more \in Seq(SUBSET CheckDefs) /\ Len(more) = Len(objects) + 1
        /\ \A k \in 1 .. Len(objects) : more[k] = objects[k]
        /\ more[Len(objects) + 1] = a[p]
    BY <1>2, <2>1
  <2>3. /\ ObjectsUpTo(p, a) = n + 1
        /\ \A i \in MonitorObjects(a) : i < p => ObjectsUpTo(i, a) \in 1 .. n
    BY <1>5, UpToNext
  <2> HIDE DEF more, n
  <2>4. Len(objects) = n
    BY <1>2 DEF n
  <2>5. \A i \in MonitorObjects(a) : i < p + 1 => more[ObjectsUpTo(i, a)] = a[i]
    <3> SUFFICES ASSUME NEW i \in MonitorObjects(a), i < p + 1
                 PROVE  more[ObjectsUpTo(i, a)] = a[i]
      OBVIOUS
    <3>1. CASE i < p
      BY <3>1, <1>2, <2>2, <2>3, <2>4
    <3>2. CASE i = p
      BY <3>2, <2>2, <2>3, <2>4
    <3> QED BY <1>3, <3>1, <3>2
  <2>6. Len(more) = ObjectsUpTo((p + 1) - 1, a)
    BY <1>3, <2>2, <2>3, <2>4
  <2> QED BY <2>2, <2>5, <2>6 DEF Passed, more
<1> QED BY <1>4, <1>5

LEMMA LoopStep == LoopInv /\ [Next]_vars => LoopInv'
<1> SUFFICES ASSUME LoopInv, [Next]_vars PROVE LoopInv'
  OBVIOUS
<1>1. CASE UNCHANGED <<array, position, checkedMoArray>>
  BY <1>1 DEF LoopInv
<1>2. ASSUME NEW a \in Arrays, Receive(a) PROVE LoopInv'
  <2>1. array' = a /\ position' = 1 /\ checkedMoArray' = << >>
    BY <1>2 DEF Receive, BeginObject
  <2>2. Len(a) \in Nat
    BY CheckerAssumption
  <2>3. ObjectsUpTo(1 - 1, a) = 0 /\ \A i \in MonitorObjects(a) : ~(i < 1)
    BY UpToEnds
  <2>4. Passed(a, 1, << >>)
    BY <2>3 DEF Passed
  <2> QED BY <2>1, <2>2, <2>4 DEF LoopInv
<1>3. ASSUME Handling,
             \/ SkipElement
             \/ StoreObject
      PROVE  LoopInv'
  <2>1. /\ array \in Arrays /\ position \in 1 .. Len(array)
        /\ Passed(array, position, checkedMoArray)
    <3>1. Len(array) \in Nat
      BY <1>3, CheckerAssumption DEF Handling, LoopInv
    <3> QED BY <1>3, <3>1 DEF Handling, LoopInv
  <2>2. array' = array /\ position' = position + 1
    BY <1>3 DEF SkipElement, StoreObject, BeginObject
  <2>3. position + 1 \in 1 .. Len(array) + 1
    BY <2>1
  <2>4. Passed(array, position + 1, checkedMoArray')
    BY <1>3, <2>1, ElementIsPassed DEF SkipElement, StoreObject, Object
  <2> QED BY <2>1, <2>2, <2>3, <2>4 DEF LoopInv
<1>4. CASE \E d \in CheckDefs : CheckThrows(d) \/ OwnCodeThrows(d)
  BY <1>4 DEF CheckThrows, OwnCodeThrows, AfterThrow, LoopInv
<1>5. CASE Send
  BY <1>5 DEF Send, LoopInv
<1>6. CASE \E d \in CheckDefs, q \in Qualities : RunCheck(d, q)
  BY <1>6, <1>1 DEF RunCheck
<1>7. (SkipElement \/ StoreObject) => Handling
  BY DEF SkipElement, StoreObject
<1>8. CASE UNCHANGED vars
  BY <1>8, <1>1 DEF vars, loop
<1> QED BY <1>2, <1>3, <1>4, <1>5, <1>6, <1>7, <1>8 DEF Next, Run

\* Whatever throws, and in whichever array: what is sent on are all the objects
\* of the array that was received, in their order.
THEOREM ArraysAreSentWhole == Spec => SentWhole
<1>1. Init => LoopInv
  BY DEF Init, LoopInv
<1>2. LoopInv /\ [Next]_vars
        => [sent'.count # sent.count =>
              /\ Len(sent'.last) = Cardinality(MonitorObjects(array))
              /\ \A i \in MonitorObjects(array) : sent'.last[ObjectsUpTo(i, array)] = array[i]]_vars
  <2> SUFFICES ASSUME LoopInv, [Next]_vars, sent'.count # sent.count
               PROVE  /\ Len(sent'.last) = Cardinality(MonitorObjects(array))
                      /\ \A i \in MonitorObjects(array) : sent'.last[ObjectsUpTo(i, array)] = array[i]
    OBVIOUS
  <2>1. Send
    BY DEF Next, Run, Receive, SkipElement, RunCheck, CheckThrows, OwnCodeThrows, StoreObject, history, vars
  <2>2. sent'.last = checkedMoArray
    BY <2>1 DEF Send
  <2>3. /\ array \in Arrays /\ position \in 1 .. Len(array) + 1
        /\ Passed(array, position, checkedMoArray)
    BY <2>1 DEF Send, LoopInv
  <2>4. Len(array) \in Nat
    BY <2>3, CheckerAssumption
  <2>5. position = Len(array) + 1 /\ position - 1 = Len(array)
    BY <2>1, <2>3, <2>4 DEF Send
  <2>6. \A i \in MonitorObjects(array) : i < position
    BY <2>3, <2>4, <2>5, UpToEnds
  <2>7. ObjectsUpTo(position - 1, array) = Cardinality(MonitorObjects(array))
    BY <2>3, <2>5, UpToEnds
  <2> QED BY <2>2, <2>3, <2>6, <2>7 DEF Passed
<1> QED
  BY <1>1, <1>2, LoopStep, PTL DEF Spec, SentWhole

-----------------------------------------------------------------------------
(***************************************************************************)
(* The types of the other variables of the Checker. The results of the     *)
(* current object are those of checks it has.                              *)
(***************************************************************************)
LoopTypes ==
  /\ array \in Arrays \cup {None} /\ position \in Nat
  /\ DOMAIN results \subseteq DOMAIN moResults
  /\ \A n \in DOMAIN results : results[n] \in Qualities
  /\ \A n \in DOMAIN moResults : n \in CheckNames /\ moResults[n] \in Qualities
  /\ \A i \in DOMAIN checkedMoArray : checkedMoArray[i] \subseteq CheckDefs
  /\ mTotalNumberHistosReceived \in Nat
  /\ arrays \in 0 .. MaxArrays /\ sent.count \in 0 .. arrays
  /\ ownCode \in BOOLEAN
  /\ array # None => sent.count < arrays
  /\ Handling /\ Object # NotAnObject => DOMAIN moResults = {d.name : d \in Object}

\* A new object begins with the results of its task: none yet.
LEMMA ObjectBegins ==
  ASSUME NEW a, a \in Arrays \/ a = << >>, NEW n \in Nat, BeginObject(a, n)
  PROVE  /\ position' = n /\ results' = NoResults /\ DOMAIN NoResults = {}
         /\ \A m \in DOMAIN moResults' : m \in CheckNames /\ moResults'[m] \in Qualities
         /\ n \in DOMAIN a /\ a[n] # NotAnObject => DOMAIN moResults' = {d.name : d \in a[n]}
<1>1. position' = n /\ results' = NoResults /\ DOMAIN NoResults = {}
  BY DEF BeginObject, NoResults
<1>2. CASE n \in DOMAIN a /\ a[n] # NotAnObject
  <2>1. a \in Arrays
    BY <1>2
  <2>2. a[n] \subseteq CheckDefs
    <3>1. a[n] \in (SUBSET CheckDefs) \cup {NotAnObject}
      BY <1>2, <2>1, CheckerAssumption
    <3> QED BY <1>2, <3>1
  <2>3. moResults' = [m \in {d.name : d \in a[n]} |-> NullLevel]
    BY <1>2 DEF BeginObject
  <2> QED BY <1>1, <2>2, <2>3 DEF CheckNames, Qualities
<1>3. CASE ~(n \in DOMAIN a /\ a[n] # NotAnObject)
  BY <1>1, <1>3 DEF BeginObject
<1> QED BY <1>2, <1>3

LEMMA LoopTypesStep == LoopInv /\ LoopTypes /\ [Next]_vars => LoopTypes'
<1> SUFFICES ASSUME LoopInv, LoopTypes, [Next]_vars PROVE LoopTypes'
  OBVIOUS
<1>0. MaxArrays \in Nat
  BY CheckerAssumption
<1>1. ASSUME NEW a \in Arrays, Receive(a) PROVE LoopTypes'
  <2>1. /\ array' = a /\ checkedMoArray' = << >> /\ BeginObject(a, 1)
        /\ arrays' = arrays + 1 /\ arrays < MaxArrays
        /\ UNCHANGED <<mTotalNumberHistosReceived, sent, ownCode>>
    BY <1>1 DEF Receive
  <2>2. /\ position' = 1 /\ results' = NoResults /\ DOMAIN NoResults = {}
        /\ \A m \in DOMAIN moResults' : m \in CheckNames /\ moResults'[m] \in Qualities
        /\ 1 \in DOMAIN a /\ a[1] # NotAnObject => DOMAIN moResults' = {d.name : d \in a[1]}
    BY <2>1, ObjectBegins
  <2>3. Len(a) \in Nat /\ DOMAIN a = 1 .. Len(a)
    BY CheckerAssumption
  <2>4. arrays' \in 0 .. MaxArrays /\ sent'.count \in 0 .. arrays' /\ sent'.count < arrays'
    BY <1>0, <2>1 DEF LoopTypes
  <2> QED BY <2>1, <2>2, <2>3, <2>4 DEF LoopTypes, Handling, Object
<1>2. CASE SkipElement \/ StoreObject
  <2>1. /\ Handling /\ array' = array /\ BeginObject(array, position + 1)
        /\ UNCHANGED <<arrays, sent, ownCode>>
    BY <1>2 DEF SkipElement, StoreObject, history
  <2>2. array \in Arrays /\ position \in Nat /\ position + 1 \in Nat
    BY <2>1 DEF LoopTypes, Handling
  <2>3. /\ position' = position + 1 /\ results' = NoResults /\ DOMAIN NoResults = {}
        /\ \A m \in DOMAIN moResults' : m \in CheckNames /\ moResults'[m] \in Qualities
        /\ position + 1 \in DOMAIN array /\ array[position + 1] # NotAnObject
             => DOMAIN moResults' = {d.name : d \in array[position + 1]}
    BY <2>1, <2>2, ObjectBegins
  <2>4. Len(array) \in Nat /\ DOMAIN array = 1 .. Len(array)
    BY <2>2, CheckerAssumption
  <2>5. mTotalNumberHistosReceived' \in Nat
    BY <1>2 DEF SkipElement, StoreObject, LoopTypes
  <2>6. \A i \in DOMAIN checkedMoArray' : checkedMoArray'[i] \subseteq CheckDefs
    <3>1. CASE SkipElement
      BY <3>1 DEF SkipElement, LoopTypes
    <3>2. CASE StoreObject
      <4>1. Handling /\ Object # NotAnObject /\ checkedMoArray' = Append(checkedMoArray, Object)
        BY <3>2 DEF StoreObject
      <4>2. checkedMoArray \in Seq(SUBSET CheckDefs)
        BY <4>1 DEF LoopInv, Passed, Handling
      <4>3. position \in 1 .. Len(array)
        BY <4>1, <2>4 DEF Handling, LoopInv
      <4>4. Object \in (SUBSET CheckDefs) \cup {NotAnObject}
        BY <2>2, <4>3, CheckerAssumption DEF Object
      <4>5. checkedMoArray' \in Seq(SUBSET CheckDefs)
        BY <4>1, <4>2, <4>4
      <4> QED BY <4>5
    <3> QED BY <1>2, <3>1, <3>2
  <2> QED BY <2>1, <2>2, <2>3, <2>4, <2>5, <2>6 DEF LoopTypes, Handling, Object
<1>3. ASSUME NEW d \in CheckDefs, NEW q \in Qualities, RunCheck(d, q) PROVE LoopTypes'
  <2>1. /\ Handling /\ Object # NotAnObject /\ d \in Object
        /\ results' = [n \in DOMAIN results \cup {d.name} |-> IF n = d.name THEN q ELSE results[n]]
        /\ UNCHANGED <<array, position, moResults, checkedMoArray, mTotalNumberHistosReceived,
                       arrays, sent, ownCode>>
    BY <1>3 DEF RunCheck, ToRun
  <2>2. d.name \in DOMAIN moResults
    BY <2>1 DEF LoopTypes
  <2> QED BY <2>1, <2>2 DEF LoopTypes, Handling, Object
<1>4. CASE Send \/ \E d \in CheckDefs : CheckThrows(d) \/ OwnCodeThrows(d)
  <2>1. /\ array # None /\ array' = None /\ checkedMoArray' = << >> /\ BeginObject(<< >>, 0)
        /\ UNCHANGED <<mTotalNumberHistosReceived, arrays>>
        /\ sent' = sent \/ sent'.count = sent.count + 1
    BY <1>4 DEF Send, CheckThrows, OwnCodeThrows, AfterThrow, Handling
  <2>2. /\ position' = 0 /\ results' = NoResults /\ DOMAIN NoResults = {}
        /\ \A m \in DOMAIN moResults' : m \in CheckNames /\ moResults'[m] \in Qualities
    BY <2>1, ObjectBegins
  <2>3. sent'.count \in 0 .. arrays'
    BY <2>1 DEF LoopTypes
  <2>4. ownCode' \in BOOLEAN
    <3>1. CASE Send
      BY <3>1 DEF Send, LoopTypes
    <3>2. CASE \E d \in CheckDefs : CheckThrows(d) \/ OwnCodeThrows(d)
      BY <3>2 DEF CheckThrows, OwnCodeThrows
    <3> QED BY <1>4, <3>1, <3>2
  <2> QED BY <2>1, <2>2, <2>3, <2>4 DEF LoopTypes, Handling
<1>5. CASE UNCHANGED vars
  BY <1>5 DEF vars, loop, history, LoopTypes, Handling, Object
<1> QED BY <1>1, <1>2, <1>3, <1>4, <1>5 DEF Next, Run

\* The variables of the Checker keep their types, whatever cannot be loaded; no
\* object has a result of a check that is not its own.
THEOREM CheckerTypes == Spec => []TypeOK
<1>1. Init => LoopInv /\ LoopTypes
  <2> SUFFICES ASSUME Init PROVE LoopInv /\ LoopTypes
    OBVIOUS
  <2>1. DOMAIN NoResults = {}
    BY DEF NoResults
  <2>2. array = None /\ position = 0 /\ ownCode = FALSE
    BY DEF Init
  <2>3. results = NoResults /\ moResults = NoResults /\ checkedMoArray = << >>
    BY DEF Init
  <2>4. /\ mTotalNumberHistosReceived = 0 /\ arrays = 0 /\ sent.count = 0
        /\ arrays \in 0 .. MaxArrays /\ sent.count \in 0 .. arrays
    BY CheckerAssumption DEF Init
  <2>5. ownCode \in BOOLEAN
    BY <2>2
  <2> QED BY <2>1, <2>2, <2>3, <2>4, <2>5 DEF LoopInv, LoopTypes, Handling
<1>2. IInv /\ LoopTypes => TypeOK
  BY DEF IInv, CacheTypes, LoopTypes, TypeOK, Loadable
<1> QED BY <1>1, <1>2, LoopStep, LoopTypesStep, Invariance, PTL DEF Spec

-----------------------------------------------------------------------------
(***************************************************************************)
(* The quality of an object. GetQuality() folds Worse over the results in  *)
(* an order nobody chooses; QualityOver is the value of the fold over a    *)
(* part of the checks.                                                     *)
(***************************************************************************)
QualityOver(f, S) == FoldFunctionOnSet(Worse, NullLevel, f, S)

Given(f, S) == {f[n] : n \in S} \ {NullLevel}

\* The worst quality that is given, if any is.
IsQualityOf(q, f, S) ==
  IF Given(f, S) = {} THEN q = NullLevel
  ELSE q \in Given(f, S) /\ \A r \in Given(f, S) : r <= q

\* One check more: Worse keeps the worst, and Null is not a quality given.
LEMMA WorseIsWorst ==
  ASSUME NEW S, NEW n \in S, NEW f, \A m \in S : f[m] \in Qualities,
         NEW q \in Qualities, IsQualityOf(q, f, S \ {n})
  PROVE  /\ IsQualityOf(Worse(f[n], q), f, S)
         /\ Worse(f[n], q) \in Qualities
<1> DEFINE G == Given(f, S \ {n})
<1>1. /\ Qualities \subseteq Nat /\ NullLevel \in Qualities
      /\ \A r \in Qualities : r # NullLevel => r < NullLevel
  BY DEF Qualities, Good, Medium, Bad, NullLevel
<1>2. G \subseteq Qualities \ {NullLevel} /\ f[n] \in Qualities
  BY DEF Given
<1>3. Given(f, S) = G \cup ({f[n]} \ {NullLevel})
  BY DEF Given
<1>4. IF G = {} THEN q = NullLevel ELSE q \in G /\ \A r \in G : r <= q
  BY DEF IsQualityOf
<1> HIDE DEF G
<1>5. CASE f[n] = NullLevel
  <2>1. Worse(f[n], q) = q /\ Given(f, S) = G
    BY <1>3, <1>5 DEF Worse
  <2> QED BY <1>4, <2>1 DEF IsQualityOf
<1>6. CASE f[n] # NullLevel /\ G = {}
  <2>1. Worse(f[n], q) = f[n] /\ Given(f, S) = {f[n]}
    BY <1>3, <1>4, <1>6 DEF Worse
  <2>2. f[n] \in Nat
    BY <1>1, <1>2
  <2>3. \A r \in {f[n]} : r <= f[n]
    BY <2>2
  <2> QED BY <1>2, <2>1, <2>3 DEF IsQualityOf
<1>7. CASE f[n] # NullLevel /\ G # {}
  <2>1. q # NullLevel /\ q \in G /\ \A r \in G : r <= q
    BY <1>2, <1>4, <1>7
  <2>2. Given(f, S) = G \cup {f[n]}
    BY <1>3, <1>7
  <2>3. CASE f[n] > q
    <3>1. Worse(f[n], q) = f[n]
      BY <1>7, <2>3 DEF Worse, IsWorstThan
    <3>2. f[n] \in Nat /\ q \in Nat /\ \A r \in G : r \in Nat /\ r <= q
      BY <1>1, <1>2, <2>1
    <3>3. \A r \in G : r <= f[n]
      BY <2>3, <3>2
    <3>4. f[n] <= f[n]
      BY <3>2
    <3>5. \A r \in G \cup {f[n]} : r <= f[n]
      BY <3>3, <3>4
    <3> QED BY <1>2, <2>2, <3>1, <3>5 DEF IsQualityOf
  <2>4. CASE ~(f[n] > q)
    <3>1. Worse(f[n], q) = q
      BY <2>1, <2>4 DEF Worse, IsWorstThan
    <3>2. f[n] \in Nat /\ q \in Nat
      BY <1>1, <1>2, <2>1
    <3>3. \A r \in G \cup {f[n]} : r <= q
      BY <2>1, <2>4, <3>2
    <3> QED BY <2>1, <2>2, <3>1, <3>3 DEF IsQualityOf
  <2> QED BY <2>3, <2>4
<1> QED BY <1>5, <1>6, <1>7

\* The recursion of the fold.
LEMMA QualityEquation ==
  ASSUME NEW D, IsFiniteSet(D), NEW f, \A x \in D : f[x] \in Qualities
  PROVE  \A s \in SUBSET D :
           /\ QualityOver(f, s) \in Qualities
           /\ QualityOver(f, s) = IF s = {} THEN NullLevel
                                  ELSE Worse(f[Pick(s)], QualityOver(f, s \ {Pick(s)}))
<1> DEFINE ch == [s \in SUBSET D |-> Pick(s)]
           step == [s \in SUBSET D |-> [v \in Qualities |-> Worse(f[Pick(s)], v)]]
           Is(g, u) == g = [s \in SUBSET u |-> IF s = {} THEN NullLevel
                                               ELSE Worse(f[Pick(s)], g[s \ {Pick(s)}])]
<1>1. \A s : s # {} => Pick(s) \in s
  BY DEF Pick
<1>2. PICK g \in [SUBSET D -> Qualities] : Recurs(g, D, NullLevel, ch, step)
  <2>1. \A s \in SUBSET D : s # {} => ch[s] \in s
    BY <1>1
  <2>2. \A s \in SUBSET D, v \in Qualities : s # {} => step[s][v] \in Qualities
    BY <1>1 DEF Worse
  <2>3. NullLevel \in Qualities
    BY DEF Qualities
  <2> HIDE DEF ch, step
  <2> QED BY ONLY IsFiniteSet(D), <2>1, <2>2, <2>3, FoldDefined
<1>3. \A s \in SUBSET D : g[s] = IF s = {} THEN NullLevel ELSE Worse(f[Pick(s)], g[s \ {Pick(s)}])
  BY <1>2, <1>1 DEF Recurs
<1>4. ASSUME NEW u \in SUBSET D PROVE QualityOver(f, u) = g[u]
  <2> DEFINE h == CHOOSE h : Is(h, u)
             G == {s \in SUBSET u : h[s] = g[s]}
  <2>1. QualityOver(f, u) = h[u]
    BY DEF QualityOver, FoldFunctionOnSet, MapThenFoldSet, Pick
  <2>2. Is([s \in SUBSET u |-> g[s]], u)
    BY <1>1, <1>3
  <2>3. Is(h, u)
    BY <2>2
  <2>4. \A s \in SUBSET u : h[s] = IF s = {} THEN NullLevel ELSE Worse(f[Pick(s)], h[s \ {Pick(s)}])
    BY <2>3
  <2> HIDE DEF h
  <2>5. ASSUME NEW s \in SUBSET u, \A t \in SUBSET s : t # s => t \in G PROVE s \in G
    <3>1. CASE s = {}
      BY <3>1, <1>3, <2>4
    <3>2. CASE s # {}
      <4>1. s \ {Pick(s)} \in G
        BY <1>1, <2>5, <3>2
      <4> QED BY <4>1, <3>2, <1>3, <2>4
    <3> QED BY <3>1, <3>2
  <2>6. IsFiniteSet(u)
    BY FS_Subset
  <2> HIDE DEF G
  <2>7. SUBSET u \subseteq G
    BY <2>5, <2>6, SubsetInduction
  <2>8. u \in G
    BY <2>7
  <2> QED BY <2>1, <2>8 DEF G
<1> QED BY <1>1, <1>2, <1>3, <1>4

LEMMA QualityOfAll ==
  ASSUME NEW D, IsFiniteSet(D), NEW f, \A x \in D : f[x] \in Qualities
  PROVE  IsQualityOf(QualityOver(f, D), f, D)
<1> DEFINE G == {s \in SUBSET D : IsQualityOf(QualityOver(f, s), f, s)}
<1>1. ASSUME NEW s \in SUBSET D, \A t \in SUBSET s : t # s => t \in G PROVE s \in G
  <2>1. QualityOver(f, s) = IF s = {} THEN NullLevel
                            ELSE Worse(f[Pick(s)], QualityOver(f, s \ {Pick(s)}))
    BY QualityEquation
  <2>2. CASE s = {}
    BY <2>1, <2>2 DEF IsQualityOf, Given
  <2>3. CASE s # {}
    <3>1. Pick(s) \in s
      BY <2>3 DEF Pick
    <3>2. s \ {Pick(s)} \in G /\ s \ {Pick(s)} \in SUBSET D
      BY <1>1, <3>1
    <3>3. QualityOver(f, s \ {Pick(s)}) \in Qualities
      BY <3>2, QualityEquation
    <3>4. \A m \in s : f[m] \in Qualities
      OBVIOUS
    <3>5. IsQualityOf(QualityOver(f, s \ {Pick(s)}), f, s \ {Pick(s)})
      BY <3>2
    <3>6. IsQualityOf(Worse(f[Pick(s)], QualityOver(f, s \ {Pick(s)})), f, s)
      BY ONLY <3>1, <3>3, <3>4, <3>5, WorseIsWorst
    <3> QED BY <2>1, <2>3, <3>6
  <2> QED BY <2>2, <2>3
<1> HIDE DEF G
<1>2. SUBSET D \subseteq G
  BY <1>1, SubsetInduction
<1>3. D \in G
  BY <1>2
<1> QED BY <1>3 DEF G

\* The checks that ran gave a quality each, and there are finitely many.
ResultsOf == IsFiniteSet(DOMAIN results) /\ \A n \in DOMAIN results : results[n] \in Qualities

LEMMA ResultsPreserved == ResultsOf /\ [Next]_vars => ResultsOf'
<1> SUFFICES ASSUME ResultsOf, [Next]_vars PROVE ResultsOf'
  OBVIOUS
<1>1. DOMAIN NoResults = {} /\ IsFiniteSet({})
  BY FS_EmptySet DEF NoResults
<1>2. CASE results' = NoResults
  BY <1>1, <1>2 DEF ResultsOf
<1>3. CASE results' = results
  BY <1>3 DEF ResultsOf
<1>4. ASSUME NEW d \in CheckDefs, NEW q \in Qualities, RunCheck(d, q) PROVE ResultsOf'
  <2>1. results' = [n \in DOMAIN results \cup {d.name} |-> IF n = d.name THEN q ELSE results[n]]
    BY <1>4 DEF RunCheck
  <2>2. IsFiniteSet(DOMAIN results \cup {d.name})
    BY FS_AddElement DEF ResultsOf
  <2> QED BY <2>1, <2>2 DEF ResultsOf
<1>5. CASE \/ \E a \in Arrays : Receive(a)
           \/ SkipElement \/ StoreObject \/ Send
           \/ \E d \in CheckDefs : CheckThrows(d) \/ OwnCodeThrows(d)
           \/ UNCHANGED vars
  BY <1>2, <1>3, <1>5 DEF Receive, SkipElement, StoreObject, Send, CheckThrows,
     OwnCodeThrows, AfterThrow,
     BeginObject, vars, loop
<1> QED BY <1>4, <1>5 DEF Next, Run

\* However many checks run, in whatever order, the quality of the object is the
\* worst that any of them gave, and Null if none gave any.
THEOREM QualityIsTheWorst == Spec => []QualityIsWorst
<1>1. Init => ResultsOf
  BY FS_EmptySet DEF Init, ResultsOf, NoResults
<1>2. ResultsOf => QualityIsWorst
  <2> SUFFICES ASSUME ResultsOf PROVE QualityIsWorst
    OBVIOUS
  <2>1. GetQuality(results) = QualityOver(results, DOMAIN results)
    BY DEF GetQuality, FoldFunction, QualityOver
  <2>2. IsQualityOf(QualityOver(results, DOMAIN results), results, DOMAIN results)
    BY QualityOfAll DEF ResultsOf
  <2> QED BY <2>1, <2>2 DEF QualityIsWorst, IsQualityOf, Given
<1> QED BY <1>1, <1>2, ResultsPreserved, PTL DEF Spec

-----------------------------------------------------------------------------

(***************************************************************************)
(* The merger. Blocks are counted with sums; these are their equations.    *)
(***************************************************************************)
Objects == [name : Names, blocks : Nat, foreign : Nat]

LEMMA SequenceOf ==
  \A n \in Nat : \A S : \A f \in [1 .. n -> S] : f \in Seq(S) /\ Len(f) = n
  OBVIOUS

\* An array, or what an input without a message has.
LEMMA BlocksAreCounted ==
  ASSUME NEW h, NEW a \in Seq(Names) \cup {NoArray}
  PROVE  BlocksIn(h, a) \in Nat /\ (a = NoArray => BlocksIn(h, a) = 0)
<1>1. CASE a = NoArray
  BY <1>1 DEF BlocksIn
<1>2. CASE a # NoArray
  <2> DEFINE f == [i \in DOMAIN a |-> IF a[i] = h THEN 1 ELSE 0]
  <2>1. DOMAIN a = 1 .. Len(a) /\ Len(a) \in Int /\ 1 \in Int
    BY <1>2
  <2>2. IsFiniteSet(DOMAIN a)
    BY <2>1, FS_Interval
  <2>3. BlocksIn(h, a) = SumFunctionOnSet(f, DOMAIN a)
    BY <1>2 DEF BlocksIn, SumFunction
  <2>4. \A i \in DOMAIN a : f[i] \in Nat
    OBVIOUS
  <2> HIDE DEF f
  <2> QED BY <1>2, <2>2, <2>3, <2>4, SumNat
<1> QED BY <1>1, <1>2

\* The blocks of the inputs are those of the first and those of the rest.
LEMMA InputsAreCounted ==
  ASSUME NEW h, NEW handed \in Seq(TaskArrays \cup {NoArray})
  PROVE  /\ BlocksInAll(h, << >>) = 0
         /\ BlocksInAll(h, handed) \in Nat
         /\ handed # << >> => BlocksInAll(h, handed) = BlocksIn(h, Head(handed)) + BlocksInAll(h, Tail(handed))
<1>1. BlocksInAll(h, << >>) = 0
  <2>1. DOMAIN << >> = {}
    OBVIOUS
  <2> QED BY <2>1, SumEmpty DEF BlocksInAll, SumFunction
<1> DEFINE S == TaskArrays \cup {NoArray}
           B == [a \in S |-> BlocksIn(h, a)]
           D == 1 .. Len(handed)
           f == [i \in D |-> BlocksIn(h, handed[i])]
<1>0. handed \in Seq(S)
  OBVIOUS
<1>2. \A a \in S : B[a] = BlocksIn(h, a) /\ B[a] \in Nat
  BY BlocksAreCounted, HistoMergerAssumption
<1> HIDE DEF S
<1>3. DOMAIN handed = D /\ BlocksInAll(h, handed) = SumFunctionOnSet(f, D)
  BY ONLY <1>0 DEF BlocksInAll, SumFunction
<1>4. \A i \in D : handed[i] \in S /\ f[i] = B[handed[i]] /\ f[i] \in Nat
  <2>1. \A i \in D : handed[i] \in S /\ f[i] = BlocksIn(h, handed[i])
    BY ONLY <1>0
  <2> HIDE DEF B, f
  <2> QED BY <1>2, <2>1
<1>5. IsFiniteSet(D)
  <2>1. 1 \in Int /\ Len(handed) \in Int
    BY ONLY <1>0
  <2> QED BY <2>1, FS_Interval
<1>6. BlocksInAll(h, handed) \in Nat
  <2> HIDE DEF D, f
  <2>1. SumFunctionOnSet(f, D) \in Nat
    BY <1>4, <1>5, SumNat
  <2> QED BY <1>3, <2>1
<1>7. ASSUME handed # << >>
      PROVE  BlocksInAll(h, handed) = BlocksIn(h, Head(handed)) + BlocksInAll(h, Tail(handed))
  <2> DEFINE rest == Tail(handed)
             n == Len(handed) - 1
             g == [i \in 1 .. n |-> BlocksIn(h, rest[i])]
  <2>1. n \in Nat /\ D = 1 .. n + 1 /\ Head(handed) = handed[1]
    BY ONLY <1>0, <1>7
  <2>2. DOMAIN rest = 1 .. n /\ \A i \in 1 .. n : rest[i] = handed[i + 1] /\ i + 1 \in D
    BY ONLY <1>0, <1>7
  <2>3. f[1] = BlocksIn(h, Head(handed))
    BY <2>1
  <2>4. \A i \in 1 .. n : g[i] = f[i + 1]
    BY <2>2
  <2>5. BlocksInAll(h, rest) = SumFunctionOnSet(g, 1 .. n)
    BY <2>2 DEF BlocksInAll, SumFunction
  <2> HIDE DEF D, f, n, g, rest
  <2>6. \A i \in 1 .. n + 1 : f[i] \in Int
    <3>1. \A i \in D : f[i] \in Nat
      BY <1>4
    <3> QED BY <2>1, <3>1
  <2>7. SumFunctionOnSet(f, 1 .. n + 1) = f[1] + SumFunctionOnSet(g, 1 .. n)
    BY <2>1, <2>4, <2>6, SumShift
  <2> QED BY <1>3, <2>1, <2>3, <2>5, <2>7 DEF rest
<1> QED BY <1>1, <1>6, <1>7

LEMMA TotalIsCounted ==
  ASSUME NEW h, NEW objects, objects \in Seq(Objects)
  PROVE  Total(h, objects) \in Nat /\ (objects = << >> => Total(h, objects) = 0)
<1> DEFINE D == 1 .. Len(objects)
           f == [i \in D |-> IF objects[i].name = h THEN objects[i].blocks ELSE 0]
<1>1. DOMAIN objects = D
  OBVIOUS
<1>2. Total(h, objects) = SumFunctionOnSet(f, D)
  BY <1>1 DEF Total, SumFunction
<1>3. IsFiniteSet(D)
  <2>1. 1 \in Int /\ Len(objects) \in Int
    OBVIOUS
  <2> QED BY <2>1, FS_Interval
<1>4. \A i \in D : f[i] \in Nat
  <2>1. \A r \in Objects : r.blocks \in Nat
    BY DEF Objects
  <2>2. \A i \in D : objects[i] \in Objects
    OBVIOUS
  <2> QED BY <2>1, <2>2
<1>5. objects = << >> => D = {}
  OBVIOUS
<1> HIDE DEF D, f
<1>6. SumFunctionOnSet(f, D) \in Nat
  BY <1>3, <1>4, SumNat
<1>7. D = {} => SumFunctionOnSet(f, D) = 0
  BY SumEmpty
<1> QED BY <1>2, <1>5, <1>6, <1>7

LEMMA NothingIsCounted == \A h : Total(h, << >>) = 0
<1>1. << >> \in Seq(Objects)
  OBVIOUS
<1> QED BY <1>1, TotalIsCounted

\* The first array brings its blocks, all under their own names.
LEMMA FirstArrayIsTaken ==
  ASSUME NEW a, a \in Seq(Names)
  PROVE  /\ TakeFirst(a) \in Seq(Objects) /\ Len(TakeFirst(a)) = Len(a)
         /\ DOMAIN TakeFirst(a) = DOMAIN a
         /\ \A i \in DOMAIN a : TakeFirst(a)[i].name = a[i] /\ TakeFirst(a)[i].foreign = 0
         /\ \A h : Total(h, TakeFirst(a)) = BlocksIn(h, a)
<1>1. DOMAIN a = 1 .. Len(a) /\ Len(a) \in Nat /\ \A i \in DOMAIN a : a[i] \in Names
  OBVIOUS
<1>2. /\ DOMAIN TakeFirst(a) = DOMAIN a
      /\ \A i \in DOMAIN a : TakeFirst(a)[i] = [name |-> a[i], blocks |-> 1, foreign |-> 0]
  BY DEF TakeFirst
<1>3. TakeFirst(a) \in Seq(Objects) /\ Len(TakeFirst(a)) = Len(a)
  <2>1. \A i \in 1 .. Len(a) : [name |-> a[i], blocks |-> 1, foreign |-> 0] \in Objects
    BY <1>1 DEF Objects
  <2>2. TakeFirst(a) \in [1 .. Len(a) -> Objects]
    BY <1>1, <2>1 DEF TakeFirst
  <2> QED BY ONLY <1>1, <2>2, SequenceOf
<1>4. ASSUME NEW h PROVE Total(h, TakeFirst(a)) = BlocksIn(h, a)
  <2> DEFINE f == [i \in DOMAIN a |-> IF a[i] = h THEN 1 ELSE 0]
             g == [i \in DOMAIN TakeFirst(a) |->
                     IF TakeFirst(a)[i].name = h THEN TakeFirst(a)[i].blocks ELSE 0]
  <2>1. f = g
    BY <1>2
  <2>2. a # NoArray
    BY HistoMergerAssumption
  <2> QED BY <2>1, <2>2, <1>2 DEF Total, BlocksIn, SumFunction
<1> QED BY <1>2, <1>3, <1>4

\* What the merged array is after an array was added, object by object.
LEMMA ObjectsAdded ==
  ASSUME NEW b, b \in Seq(Names), mMergedArray \in Seq(Objects)
  PROVE  /\ DOMAIN mMergedArray = 1 .. Len(mMergedArray) /\ Len(mMergedArray) \in Nat
         /\ DOMAIN b = 1 .. Len(b) /\ Len(b) \in Nat
         /\ \A i \in DOMAIN b : b[i] \in Names
         /\ Add(b) \in Seq(Objects) /\ Len(Add(b)) = Len(mMergedArray)
         /\ DOMAIN Add(b) = DOMAIN mMergedArray
         /\ \A i \in DOMAIN mMergedArray :
              /\ mMergedArray[i] \in Objects
              /\ Add(b)[i].name = mMergedArray[i].name
              /\ Add(b)[i].blocks = mMergedArray[i].blocks
                   + IF i <= Len(b) /\ b[i] \in Histograms /\ b[i] = mMergedArray[i].name THEN 1 ELSE 0
              /\ Add(b)[i].foreign = mMergedArray[i].foreign
                   + IF i <= Len(b) /\ b[i] \in Histograms /\ b[i] # mMergedArray[i].name THEN 1 ELSE 0
<1> DEFINE D == 1 .. Len(mMergedArray)
<1>1. /\ DOMAIN mMergedArray = D /\ Len(mMergedArray) \in Nat
      /\ \A i \in D : mMergedArray[i] \in Objects
  BY ONLY mMergedArray \in Seq(Objects)
<1>2. DOMAIN b = 1 .. Len(b) /\ Len(b) \in Nat /\ \A i \in DOMAIN b : b[i] \in Names
  BY ONLY b \in Seq(Names)
<1>3. \A o \in Objects :
        /\ o.blocks \in Nat /\ o.foreign \in Nat
        /\ LET p == [o EXCEPT !.blocks = @ + 1]
           IN p \in Objects /\ p.name = o.name /\ p.blocks = o.blocks + 1 /\ p.foreign = o.foreign
        /\ LET p == [o EXCEPT !.foreign = @ + 1]
           IN p \in Objects /\ p.name = o.name /\ p.blocks = o.blocks /\ p.foreign = o.foreign + 1
  BY DEF Objects
<1>4. DOMAIN Add(b) = D
  BY <1>1 DEF Add
<1>5. ASSUME NEW i \in D
      PROVE  /\ Add(b)[i] \in Objects
             /\ Add(b)[i].name = mMergedArray[i].name
             /\ Add(b)[i].blocks = mMergedArray[i].blocks
                  + IF i <= Len(b) /\ b[i] \in Histograms /\ b[i] = mMergedArray[i].name THEN 1 ELSE 0
             /\ Add(b)[i].foreign = mMergedArray[i].foreign
                  + IF i <= Len(b) /\ b[i] \in Histograms /\ b[i] # mMergedArray[i].name THEN 1 ELSE 0
  <2> DEFINE o == mMergedArray[i]
             p == Add(b)[i]
  <2>1. o \in Objects
    BY <1>1
  <2>2. o.blocks \in Nat /\ o.foreign \in Nat
    BY <1>3, <2>1
  <2>3. CASE i <= Len(b) /\ b[i] \in Histograms /\ b[i] = o.name
    <3>1. p = [o EXCEPT !.blocks = @ + 1]
      BY <1>1, <2>3 DEF Add
    <3>2. p \in Objects /\ p.name = o.name /\ p.blocks = o.blocks + 1 /\ p.foreign = o.foreign
      BY <1>3, <2>1, <3>1
    <3> HIDE DEF o, p
    <3>3. p.foreign = o.foreign + 0
      BY <2>2, <3>2
    <3> QED BY <2>3, <3>2, <3>3 DEF o, p
  <2>4. CASE i <= Len(b) /\ b[i] \in Histograms /\ b[i] # o.name
    <3>1. p = [o EXCEPT !.foreign = @ + 1]
      BY <1>1, <2>4 DEF Add
    <3>2. p \in Objects /\ p.name = o.name /\ p.blocks = o.blocks /\ p.foreign = o.foreign + 1
      BY <1>3, <2>1, <3>1
    <3> HIDE DEF o, p
    <3>3. p.blocks = o.blocks + 0
      BY <2>2, <3>2
    <3> QED BY <2>4, <3>2, <3>3 DEF o, p
  <2>5. CASE ~(i <= Len(b) /\ b[i] \in Histograms)
    <3>1. p = o
      BY <1>1, <2>5 DEF Add
    <3> HIDE DEF o, p
    <3>2. p \in Objects /\ p.name = o.name /\ p.blocks = o.blocks + 0 /\ p.foreign = o.foreign + 0
      BY <2>1, <2>2, <3>1
    <3> QED BY <2>5, <3>2 DEF o, p
  <2> QED BY <2>3, <2>4, <2>5
<1>6. Add(b) \in Seq(Objects) /\ Len(Add(b)) = Len(mMergedArray)
  <2>1. Add(b) = [i \in D |-> Add(b)[i]]
    BY <1>1 DEF Add
  <2>2. Add(b) \in [D -> Objects]
    BY <1>5, <2>1
  <2> QED BY ONLY <1>1, <2>2, SequenceOf
<1> QED BY <1>1, <1>2, <1>4, <1>5, <1>6

\* Blocks that go astray are counted; if none of any name does, no object takes
\* one of another.
LEMMA StraysAreCounted ==
  ASSUME NEW b, b \in Seq(Names), mMergedArray \in Seq(Objects)
  PROVE  /\ \A h : StraysIn(h, b) \in Nat
         /\ (\A h \in Histograms : StraysIn(h, b) = 0) =>
              \A i \in DOMAIN mMergedArray : Add(b)[i].foreign = mMergedArray[i].foreign
<1> DEFINE B == 1 .. Len(b)
           s(h) == [i \in B |->
                      IF b[i] = h /\ ~(i <= Len(mMergedArray) /\ mMergedArray[i].name = h)
                      THEN 1 ELSE 0]
<1>1. DOMAIN b = B /\ Len(b) \in Nat
  BY ObjectsAdded
<1>2. IsFiniteSet(B)
  <2>1. 1 \in Int /\ Len(b) \in Int
    BY <1>1
  <2> QED BY <2>1, FS_Interval
<1>3. ASSUME NEW h
      PROVE  /\ StraysIn(h, b) = SumFunctionOnSet(s(h), B)
             /\ \A i \in B : s(h)[i] \in Nat
             /\ StraysIn(h, b) \in Nat
  <2>1. StraysIn(h, b) = SumFunctionOnSet(s(h), B)
    BY <1>1 DEF StraysIn, SumFunction
  <2>2. \A i \in B : s(h)[i] \in Nat
    OBVIOUS
  <2> DEFINE f == s(h)
  <2>3. \A i \in B : f[i] \in Nat
    BY <2>2
  <2> HIDE DEF f, B
  <2>4. SumFunctionOnSet(f, B) \in Nat
    BY ONLY <1>2, <2>3, SumNat
  <2> QED BY <2>1, <2>2, <2>4 DEF f, B
<1>4. ASSUME \A h \in Histograms : StraysIn(h, b) = 0, NEW i \in DOMAIN mMergedArray
      PROVE  Add(b)[i].foreign = mMergedArray[i].foreign
  <2>1. ASSUME i <= Len(b), b[i] \in Histograms, b[i] # mMergedArray[i].name PROVE FALSE
    <3> DEFINE h == b[i]
               f == s(h)
    <3>1. i \in B
      BY <2>1, ObjectsAdded
    <3>2. f[i] = 1
      BY <2>1, <3>1
    <3>3. \A j \in B : f[j] \in Nat
      BY <1>3
    <3>4. SumFunctionOnSet(f, B) = 0
      BY <1>3, <1>4, <2>1
    <3> HIDE DEF f, h, B
    <3>5. \A j \in B : f[j] = 0
      BY ONLY <1>2, <3>3, <3>4, SumNothing
    <3> QED BY <3>1, <3>2, <3>5
  <2>2. /\ mMergedArray[i] \in Objects
        /\ Add(b)[i].foreign = mMergedArray[i].foreign
             + IF i <= Len(b) /\ b[i] \in Histograms /\ b[i] # mMergedArray[i].name THEN 1 ELSE 0
    BY ObjectsAdded
  <2>3. mMergedArray[i].foreign \in Nat
    BY <2>2 DEF Objects
  <2>4. Add(b)[i].foreign = mMergedArray[i].foreign + 0
    BY <2>1, <2>2
  <2> QED BY <2>3, <2>4
<1> QED BY <1>3, <1>4

\* An array adds its blocks to the objects of their names, but for those that
\* go astray. The sums are taken over the positions of both arrays.
LEMMA ArrayIsAdded ==
  ASSUME NEW b, b \in Seq(Names), mMergedArray \in Seq(Objects), NEW h \in Histograms
  PROVE  Total(h, Add(b)) + StraysIn(h, b) = Total(h, mMergedArray) + BlocksIn(h, b)
<1> DEFINE m == Len(mMergedArray)
           D == 1 .. m
           B == 1 .. Len(b)
           E == 1 .. (m + Len(b))
<1>0. /\ m \in Nat /\ Len(b) \in Nat /\ DOMAIN mMergedArray = D /\ DOMAIN b = B
      /\ DOMAIN Add(b) = D /\ b # NoArray
      /\ \A i \in D : mMergedArray[i] \in Objects
      /\ \A i \in D : mMergedArray[i].blocks \in Nat
  <2>1. \A o \in Objects : o.blocks \in Nat
    BY DEF Objects
  <2> QED BY <2>1, ObjectsAdded, HistoMergerAssumption
<1> DEFINE f == [i \in D |-> IF mMergedArray[i].name = h THEN mMergedArray[i].blocks ELSE 0]
           k == [i \in D |-> IF Add(b)[i].name = h THEN Add(b)[i].blocks ELSE 0]
           o == [i \in B |-> IF b[i] = h THEN 1 ELSE 0]
           s == [i \in B |-> IF b[i] = h /\ ~(i <= Len(mMergedArray) /\ mMergedArray[i].name = h)
                             THEN 1 ELSE 0]
           ff == [i \in E |-> IF i \in D THEN f[i] ELSE 0]
           kk == [i \in E |-> IF i \in D THEN k[i] ELSE 0]
           oo == [i \in E |-> IF i \in B THEN o[i] ELSE 0]
           ss == [i \in E |-> IF i \in B THEN s[i] ELSE 0]
           t == [i \in E |-> ff[i] + oo[i]]
<1>1. /\ Total(h, mMergedArray) = SumFunctionOnSet(f, D)
      /\ Total(h, Add(b)) = SumFunctionOnSet(k, D)
      /\ BlocksIn(h, b) = SumFunctionOnSet(o, B)
      /\ StraysIn(h, b) = SumFunctionOnSet(s, B)
  <2>1. Total(h, mMergedArray) = SumFunctionOnSet(f, D)
    BY <1>0 DEF Total, SumFunction
  <2>2. Total(h, Add(b)) = SumFunctionOnSet(k, D)
    BY <1>0 DEF Total, SumFunction
  <2>3. BlocksIn(h, b) = SumFunctionOnSet(o, B)
    BY <1>0 DEF BlocksIn, SumFunction
  <2>4. StraysIn(h, b) = SumFunctionOnSet(s, B)
    BY <1>0 DEF StraysIn, SumFunction
  <2> QED BY <2>1, <2>2, <2>3, <2>4
<1>2. ASSUME NEW i \in D
      PROVE  /\ f[i] \in Int
             /\ k[i] = f[i] + (IF i <= Len(b) /\ b[i] = h /\ mMergedArray[i].name = h THEN 1 ELSE 0)
             /\ k[i] \in Int
  <2>1. /\ Add(b)[i].name = mMergedArray[i].name
        /\ Add(b)[i].blocks = mMergedArray[i].blocks
             + IF i <= Len(b) /\ b[i] \in Histograms /\ b[i] = mMergedArray[i].name THEN 1 ELSE 0
    BY <1>0, ObjectsAdded
  <2>2. mMergedArray[i].blocks \in Nat
    BY <1>0
  <2>3. CASE mMergedArray[i].name # h
    BY <2>1, <2>3
  <2>4. CASE mMergedArray[i].name = h
    <3>1. f[i] = mMergedArray[i].blocks /\ k[i] = Add(b)[i].blocks
      BY <2>1, <2>4
    <3> HIDE DEF f, k
    <3>2. Add(b)[i].blocks = mMergedArray[i].blocks + (IF i <= Len(b) /\ b[i] = h THEN 1 ELSE 0)
      BY <2>1, <2>4
    <3> QED BY <2>2, <2>4, <3>1, <3>2
  <2> QED BY <2>3, <2>4
<1>3. D \in SUBSET E /\ B \in SUBSET E
  BY <1>0
<1>4. IsFiniteSet(E)
  <2>1. 1 \in Int /\ m + Len(b) \in Int
    BY <1>0
  <2> QED BY <2>1, FS_Interval
<1>5. ASSUME NEW i \in E
      PROVE  /\ ff[i] \in Int /\ kk[i] \in Int /\ oo[i] \in Int /\ ss[i] \in Int
             /\ t[i] = ff[i] + oo[i] /\ t[i] = kk[i] + ss[i]
  <2>1. i \in Nat /\ (i \in D <=> i <= m) /\ (i \in B <=> i <= Len(b))
    BY <1>0
  <2>2. CASE i \in D
    <3>1. ff[i] = f[i] /\ kk[i] = k[i]
      BY <2>2
    <3>2. oo[i] = IF i <= Len(b) /\ b[i] = h THEN 1 ELSE 0
      BY <2>1
    <3>3. ss[i] = IF i <= Len(b) /\ b[i] = h /\ mMergedArray[i].name # h THEN 1 ELSE 0
      BY <2>1, <2>2
    <3>4. t[i] = ff[i] + oo[i]
      OBVIOUS
    <3>5. /\ f[i] \in Int
          /\ k[i] = f[i] + (IF i <= Len(b) /\ b[i] = h /\ mMergedArray[i].name = h THEN 1 ELSE 0)
      BY <1>2, <2>2
    <3> HIDE DEF ff, kk, oo, ss, t, f, k
    <3> QED BY <3>1, <3>2, <3>3, <3>4, <3>5
  <2>3. CASE i \notin D
    <3>1. ff[i] = 0 /\ kk[i] = 0 /\ t[i] = ff[i] + oo[i]
      BY <2>3
    <3>2. oo[i] = IF i \in B /\ b[i] = h THEN 1 ELSE 0
      OBVIOUS
    <3>3. ss[i] = IF i \in B /\ b[i] = h THEN 1 ELSE 0
      BY <2>1, <2>3
    <3> HIDE DEF ff, kk, oo, ss, t
    <3> QED BY <3>1, <3>2, <3>3
  <2> QED BY <2>2, <2>3
<1>6. /\ \A i \in D : f[i] \in Int /\ ff[i] = f[i]
      /\ \A i \in E \ D : ff[i] = 0
  BY <1>2, <1>3
<1>7. /\ \A i \in D : k[i] \in Int /\ kk[i] = k[i]
      /\ \A i \in E \ D : kk[i] = 0
  BY <1>2, <1>3
<1>8. /\ \A i \in B : o[i] \in Int /\ oo[i] = o[i]
      /\ \A i \in E \ B : oo[i] = 0
  BY <1>3
<1>9. /\ \A i \in B : s[i] \in Int /\ ss[i] = s[i]
      /\ \A i \in E \ B : ss[i] = 0
  BY <1>3
<1>10. /\ \A i \in E : ff[i] \in Int /\ oo[i] \in Int /\ t[i] = ff[i] + oo[i]
       /\ \A i \in E : kk[i] \in Int /\ ss[i] \in Int /\ t[i] = kk[i] + ss[i]
  BY <1>5
<1> HIDE DEF ff, kk, oo, ss, t, f, k, o, s, D, B, E, m
<1>11. SumFunctionOnSet(ff, E) = SumFunctionOnSet(f, D)
  BY ONLY <1>3, <1>4, <1>6, SumExtended
<1>12. SumFunctionOnSet(kk, E) = SumFunctionOnSet(k, D)
  BY ONLY <1>3, <1>4, <1>7, SumExtended
<1>13. SumFunctionOnSet(oo, E) = SumFunctionOnSet(o, B)
  BY ONLY <1>3, <1>4, <1>8, SumExtended
<1>14. SumFunctionOnSet(ss, E) = SumFunctionOnSet(s, B)
  BY ONLY <1>3, <1>4, <1>9, SumExtended
<1>15. SumFunctionOnSet(t, E) = SumFunctionOnSet(ff, E) + SumFunctionOnSet(oo, E)
  BY ONLY <1>4, <1>10, SumOfSums
<1>16. SumFunctionOnSet(t, E) = SumFunctionOnSet(kk, E) + SumFunctionOnSet(ss, E)
  BY ONLY <1>4, <1>10, SumOfSums
<1> QED BY <1>1, <1>11, <1>12, <1>13, <1>14, <1>15, <1>16

-----------------------------------------------------------------------------
(* The types of the merger's variables. *)

\* What an array becomes, and what it adds to, is as long as the capacity allows.
LEMMA MergedTypes ==
  ASSUME NEW a, a \in Seq(Names), mMergedArray \in Seq(Objects)
  PROVE  /\ TakeFirst(a) \in Seq(Objects) /\ Add(a) \in Seq(Objects)
         /\ Len(TakeFirst(a)) <= Capacity(a) /\ Capacity(a) \in Nat
         /\ Len(Add(a)) = Len(mMergedArray)
<1>1. Len(a) \in Nat /\ InitCapacity \in Nat
  BY HistoMergerAssumption
<1>2. TakeFirst(a) \in Seq(Objects) /\ Len(TakeFirst(a)) = Len(a)
  BY FirstArrayIsTaken
<1>3. Add(a) \in Seq(Objects) /\ Len(Add(a)) = Len(mMergedArray)
  BY ObjectsAdded
<1> QED BY <1>1, <1>2, <1>3 DEF Capacity

\* The inputs of the loop: the first is an array or nothing, the rest are inputs.
LEMMA InputsAreArrays ==
  ASSUME MergerTypeOK, inputs # << >>
  PROVE  /\ Head(inputs) \in TaskArrays \cup {NoArray}
         /\ Tail(inputs) \in Seq(TaskArrays \cup {NoArray})
         /\ Head(inputs) # NoArray => Head(inputs) \in Seq(Names)
<1> DEFINE S == TaskArrays \cup {NoArray}
<1>1. inputs \in Seq(S)
  BY DEF MergerTypeOK
<1> HIDE DEF S
<1>2. Head(inputs) \in S /\ Tail(inputs) \in Seq(S)
  BY ONLY <1>1, inputs # << >>
<1> QED BY <1>2, HistoMergerAssumption DEF S

LEMMA MergerTypesStep == MergerTypeOK /\ [MergerNext]_mergerVars => MergerTypeOK'
<1> SUFFICES ASSUME MergerTypeOK, [MergerNext]_mergerVars PROVE MergerTypeOK'
  OBVIOUS
<1> USE HistoMergerAssumption
<1>0. MergerTypeOK
  OBVIOUS
<1>m. mMergedArray \in Seq(Objects) /\ published \in Seq(Objects)
  BY DEF MergerTypeOK, Objects
<1>1. ASSUME NEW handed \in [1 .. Inputs -> TaskArrays \cup {NoArray}], TakeInputs(handed)
      PROVE  MergerTypeOK'
  <2>1. handed \in Seq(TaskArrays \cup {NoArray})
    OBVIOUS
  <2>2. \A h \in Histograms : BlocksInAll(h, handed) \in Nat
    BY <2>1, InputsAreCounted
  <2>3. received' \in [Histograms -> Nat]
    BY <1>1, <2>2 DEF TakeInputs, MergerTypeOK
  <2> QED BY <1>0, <1>1, <2>1, <2>3 DEF TakeInputs, MergerTypeOK, merged
<1>2. CASE SkipInput
  <2>1. inputs # << >> /\ inputs' = Tail(inputs)
    BY <1>2 DEF SkipInput, Others
  <2>2. inputs' \in Seq(TaskArrays \cup {NoArray})
    BY <2>1, InputsAreArrays
  <2> QED BY <1>0, <1>2, <2>2 DEF SkipInput, MergerTypeOK, merged, blockCounts
<1>3. CASE FirstInput
  <2>1. inputs # << >> /\ Head(inputs) # NoArray
    BY <1>3 DEF FirstInput
  <2>2. /\ mMergedArray' \in Seq(Objects)
        /\ mergedSize' \in Nat /\ Len(mMergedArray') <= mergedSize'
    BY <1>3, <1>m, <2>1, InputsAreArrays, MergedTypes DEF FirstInput
  <2>3. inputs' \in Seq(TaskArrays \cup {NoArray})
    BY <1>3, <2>1, InputsAreArrays DEF FirstInput
  <2> QED BY <1>0, <1>3, <2>2, <2>3 DEF FirstInput, MergerTypeOK, blockCounts, Objects
<1>4. CASE NextInput
  <2>1. inputs # << >> /\ Head(inputs) # NoArray
    BY <1>4 DEF NextInput, SizesMatch
  <2>2. mMergedArray' \in Seq(Objects) /\ Len(mMergedArray') = Len(mMergedArray)
    BY <1>4, <1>m, <2>1, InputsAreArrays, MergedTypes DEF NextInput
  <2>3. inputs' \in Seq(TaskArrays \cup {NoArray})
    BY <1>4, <2>1, InputsAreArrays DEF NextInput
  <2>4. misplaced' \in [Histograms -> Nat]
    <3>1. \A h \in Histograms : StraysIn(h, Head(inputs)) \in Nat
      BY <1>m, <2>1, InputsAreArrays, StraysAreCounted
    <3>2. misplaced' = [h \in Histograms |-> misplaced[h] + StraysIn(h, Head(inputs))]
      BY <1>4 DEF NextInput
    <3>3. misplaced \in [Histograms -> Nat]
      BY DEF MergerTypeOK
    <3> QED BY ONLY <3>1, <3>2, <3>3
  <2> QED BY <1>0, <1>4, <2>2, <2>3, <2>4 DEF NextInput, MergerTypeOK, Objects
<1>5. CASE SizesDiffer
  <2>1. \A h \in Histograms : BlocksInAll(h, inputs) \in Nat
    BY InputsAreCounted DEF MergerTypeOK
  <2>2. refused' = [h \in Histograms |-> refused[h] + BlocksInAll(h, inputs)]
    BY <1>5 DEF SizesDiffer
  <2>3. refused \in [Histograms -> Nat]
    BY DEF MergerTypeOK
  <2>4. refused' \in [Histograms -> Nat]
    BY ONLY <2>1, <2>2, <2>3
  <2>5. /\ UNCHANGED <<mMergedArray, mergedSize, timeLeft, published, received, misplaced, ticked, calls>>
        /\ inputs' = << >> /\ running' = FALSE
    BY <1>5 DEF SizesDiffer, merged
  <2>6. << >> \in Seq(TaskArrays \cup {NoArray})
    OBVIOUS
  <2> QED BY <1>0, <2>4, <2>5, <2>6 DEF MergerTypeOK
<1>6. CASE Publish
  <2>1. /\ UNCHANGED <<merged, inputs, blockCounts, calls>> /\ running' = FALSE
        /\ published' \in {published, mMergedArray} /\ ticked' \in {ticked, FALSE}
        /\ timeLeft' = timeLeft \/ (IsTimeout /\ timeLeft' = Increment)
    BY <1>6 DEF Publish
  <2>2. timeLeft' \in (-MaxLate) .. Period
    <3>1. CASE timeLeft' = timeLeft
      BY <1>0, <3>1 DEF MergerTypeOK
    <3>2. CASE IsTimeout /\ timeLeft' = Increment
      <4>1. timeLeft \in Int /\ timeLeft <= 0 /\ Period \in Nat \ {0} /\ MaxLate \in Nat
        BY <3>2 DEF MergerTypeOK, IsTimeout
      <4> DEFINE q == (-timeLeft) \div Period
      <4>2. q \in Int /\ Period * q <= -timeLeft /\ -timeLeft < Period * q + Period
        BY <4>1
      <4>3. Increment = timeLeft + Period * q + Period
        <5>1. q \in Int
          BY <4>2
        <5> HIDE DEF q
        <5>2. Period * (q + 1) = Period * q + Period
          BY <4>1, <5>1
        <5>3. Period * q \in Int
          BY <4>1, <5>1
        <5> QED BY <4>1, <5>2, <5>3 DEF Increment, q
      <4>4. Period * q \in Int
        BY <4>1, <4>2
      <4> DEFINE j == Period * q
      <4>5. j \in Int /\ j <= -timeLeft /\ -timeLeft < j + Period /\ Increment = timeLeft + j + Period
        BY <4>2, <4>3, <4>4
      <4> HIDE DEF j, q
      <4>6. Increment \in 1 .. Period
        BY <4>1, <4>5
      <4> QED BY <3>2, <4>1, <4>6
    <3> QED BY <2>1, <3>1, <3>2
  <2> QED BY <1>0, <2>1, <2>2 DEF MergerTypeOK, merged, blockCounts
<1>7. CASE Tick
  BY <1>0, <1>7 DEF Tick, MergerTypeOK, merged, blockCounts
<1>8. CASE UNCHANGED mergerVars
  BY <1>0, <1>8 DEF mergerVars, MergerTypeOK, merged, blockCounts
<1> QED BY <1>1, <1>2, <1>3, <1>4, <1>5, <1>6, <1>7, <1>8 DEF MergerNext

LEMMA MergerTypesStart == MergerInit => MergerTypeOK
<1> SUFFICES ASSUME MergerInit PROVE MergerTypeOK
  OBVIOUS
<1>1. \A S : << >> \in Seq(S) /\ Len(<< >>) = 0
  OBVIOUS
<1>2. timeLeft \in (-MaxLate) .. Period /\ calls \in 0 .. MaxCalls /\ mergedSize \in Nat
  BY HistoMergerAssumption DEF MergerInit
<1>3. /\ received \in [Histograms -> Nat] /\ refused \in [Histograms -> Nat]
      /\ misplaced \in [Histograms -> Nat]
  BY DEF MergerInit
<1>4. mMergedArray = << >> /\ published = << >> /\ inputs = << >>
  BY DEF MergerInit
<1>5. Len(mMergedArray) <= mergedSize
  BY <1>1, <1>2, <1>4
<1>6. running \in BOOLEAN /\ ticked \in BOOLEAN
  BY DEF MergerInit
<1> QED BY <1>1, <1>2, <1>3, <1>4, <1>5, <1>6 DEF MergerTypeOK

\* The variables of the merger keep their types, for any inputs: however late it
\* is, a publication sets its timer to one period at most, and the merged array
\* stays within the capacity that is compared.
THEOREM MergerTypes == MergerSpec => []MergerTypeOK
BY MergerTypesStart, MergerTypesStep, PTL DEF MergerSpec

(***************************************************************************)
(* The inductive invariant: outside the loop of run() no input is left     *)
(* over, and the counts of blocks agree.                                   *)
(***************************************************************************)
LoopIsOver == ~running => inputs = << >>

MergerInv == MergerTypeOK /\ LoopIsOver /\ MergedAddsUp

LEMMA MergerStarts == MergerInit => MergerInv
<1> SUFFICES ASSUME MergerInit PROVE MergerInv
  OBVIOUS
<1>1. mMergedArray = << >> /\ inputs = << >>
  BY DEF MergerInit
<1>2. ASSUME NEW h \in Histograms
      PROVE  received[h] = Total(h, mMergedArray) + refused[h] + misplaced[h] + BlocksInAll(h, inputs)
  <2>1. received[h] = 0 /\ refused[h] = 0 /\ misplaced[h] = 0
    BY DEF MergerInit
  <2>2. Total(h, mMergedArray) = 0
    BY <1>1, NothingIsCounted
  <2>3. BlocksInAll(h, inputs) = 0
    <3>1. << >> \in Seq(TaskArrays \cup {NoArray})
      OBVIOUS
    <3> QED BY <1>1, <3>1, InputsAreCounted
  <2> QED BY <2>1, <2>2, <2>3
<1>3. DOMAIN mMergedArray = {}
  BY <1>1
<1> QED BY <1>1, <1>2, <1>3, MergerTypesStart DEF MergerInv, LoopIsOver, MergedAddsUp

\* The terms of the invariant are numbers, and the first input leaves the others.
LEMMA LoopIsCounted ==
  ASSUME MergerInv, NEW h \in Histograms
  PROVE  /\ BlocksInAll(h, inputs) \in Nat /\ BlocksInAll(h, << >>) = 0
         /\ Total(h, mMergedArray) \in Nat
         /\ received[h] \in Nat /\ refused[h] \in Nat /\ misplaced[h] \in Nat
         /\ received[h] = Total(h, mMergedArray) + refused[h] + misplaced[h] + BlocksInAll(h, inputs)
         /\ inputs # << >> =>
              /\ BlocksIn(h, Head(inputs)) \in Nat /\ BlocksInAll(h, Tail(inputs)) \in Nat
              /\ BlocksInAll(h, inputs)
                   = BlocksIn(h, Head(inputs)) + BlocksInAll(h, Tail(inputs))
<1>1. inputs \in Seq(TaskArrays \cup {NoArray}) /\ mMergedArray \in Seq(Objects)
  BY DEF MergerInv, MergerTypeOK, Objects
<1>2. /\ BlocksInAll(h, inputs) \in Nat /\ BlocksInAll(h, << >>) = 0
      /\ inputs # << >> => BlocksInAll(h, inputs)
                             = BlocksIn(h, Head(inputs)) + BlocksInAll(h, Tail(inputs))
  BY <1>1, InputsAreCounted
<1>3. ASSUME inputs # << >>
      PROVE  BlocksInAll(h, Tail(inputs)) \in Nat /\ BlocksIn(h, Head(inputs)) \in Nat
  <2>1. /\ Head(inputs) \in Seq(Names) \cup {NoArray}
        /\ Tail(inputs) \in Seq(TaskArrays \cup {NoArray})
    BY <1>3, InputsAreArrays DEF MergerInv
  <2> QED BY <2>1, InputsAreCounted, BlocksAreCounted
<1>4. Total(h, mMergedArray) \in Nat
  BY <1>1, TotalIsCounted
<1>5. received[h] \in Nat /\ refused[h] \in Nat /\ misplaced[h] \in Nat
  BY DEF MergerInv, MergerTypeOK
<1>6. received[h] = Total(h, mMergedArray) + refused[h] + misplaced[h] + BlocksInAll(h, inputs)
  BY DEF MergerInv, MergedAddsUp
<1> QED BY <1>2, <1>3, <1>4, <1>5, <1>6

LEMMA TakeInputsAddsUp ==
  ASSUME MergerInv, NEW handed \in [1 .. Inputs -> TaskArrays \cup {NoArray}], TakeInputs(handed)
  PROVE  LoopIsOver' /\ MergedAddsUp'
<1>1. handed \in Seq(TaskArrays \cup {NoArray}) /\ inputs' = handed /\ inputs = << >>
  <2>1. Inputs \in Nat
    BY HistoMergerAssumption
  <2>2. handed \in Seq(TaskArrays \cup {NoArray})
    BY ONLY <2>1, SequenceOf
  <2> QED BY <2>2 DEF TakeInputs, MergerInv, LoopIsOver
<1>2. /\ running' = TRUE /\ refused' = refused /\ misplaced' = misplaced
      /\ mMergedArray' = mMergedArray
      /\ received' = [h \in Histograms |-> received[h] + BlocksInAll(h, handed)]
  BY DEF TakeInputs, merged
<1>3. ASSUME NEW h \in Histograms
      PROVE  received'[h] = Total(h, mMergedArray') + refused'[h] + misplaced'[h] + BlocksInAll(h, inputs')
  <2> DEFINE t == Total(h, mMergedArray)
             b == BlocksInAll(h, handed)
  <2>1. /\ received[h] = t + refused[h] + misplaced[h] + 0
        /\ received[h] \in Nat /\ refused[h] \in Nat /\ misplaced[h] \in Nat /\ t \in Nat
    BY <1>1, LoopIsCounted
  <2>2. b \in Nat
    BY <1>1, InputsAreCounted
  <2>3. received[h] + b = t + refused[h] + misplaced[h] + b
    <3> HIDE DEF t, b
    <3> QED BY <2>1, <2>2
  <2> QED BY <1>1, <1>2, <2>3
<1>4. (\A h \in Histograms : misplaced'[h] = 0) =>
        \A i \in DOMAIN mMergedArray' : mMergedArray'[i].foreign = 0
  BY <1>2 DEF MergerInv, MergedAddsUp
<1> QED BY <1>2, <1>3, <1>4 DEF LoopIsOver, MergedAddsUp, Total

LEMMA SkipInputAddsUp ==
  ASSUME MergerInv, SkipInput PROVE LoopIsOver' /\ MergedAddsUp'
<1>1. /\ inputs # << >> /\ Head(inputs) = NoArray /\ inputs' = Tail(inputs)
      /\ running' = running /\ running /\ mMergedArray' = mMergedArray
      /\ received' = received /\ refused' = refused /\ misplaced' = misplaced
  BY DEF SkipInput, Others, merged, blockCounts
<1>2. ASSUME NEW h \in Histograms
      PROVE  received'[h] = Total(h, mMergedArray') + refused'[h] + misplaced'[h] + BlocksInAll(h, inputs')
  <2> DEFINE t == Total(h, mMergedArray)
             c == BlocksInAll(h, Tail(inputs))
             d == BlocksInAll(h, inputs)
  <2>1. BlocksIn(h, Head(inputs)) = 0
    BY <1>1 DEF BlocksIn
  <2>2. c \in Nat /\ d \in Nat /\ d = 0 + c /\ received[h] = t + refused[h] + misplaced[h] + d
    BY <1>1, <2>1, LoopIsCounted
  <2>3. received[h] = t + refused[h] + misplaced[h] + c
    <3> HIDE DEF t, c, d
    <3> QED BY <2>2
  <2> QED BY <1>1, <2>3
<1>3. (\A h \in Histograms : misplaced'[h] = 0) =>
        \A i \in DOMAIN mMergedArray' : mMergedArray'[i].foreign = 0
  BY <1>1 DEF MergerInv, MergedAddsUp
<1> QED BY <1>1, <1>2, <1>3 DEF LoopIsOver, MergedAddsUp, Total

LEMMA FirstInputAddsUp ==
  ASSUME MergerInv, FirstInput PROVE LoopIsOver' /\ MergedAddsUp'
<1> DEFINE a == Head(inputs)
<1>1. /\ inputs # << >> /\ a # NoArray /\ mMergedArray = << >> /\ mMergedArray' = TakeFirst(a)
      /\ inputs' = Tail(inputs) /\ running' = running /\ running
      /\ received' = received /\ refused' = refused /\ misplaced' = misplaced
  BY DEF FirstInput, blockCounts
<1>2. a \in Seq(Names)
  BY <1>1, InputsAreArrays DEF MergerInv
<1>3. ASSUME NEW h \in Histograms
      PROVE  received'[h] = Total(h, mMergedArray') + refused'[h] + misplaced'[h] + BlocksInAll(h, inputs')
  <2> DEFINE c == BlocksInAll(h, Tail(inputs))
             d == BlocksInAll(h, inputs)
             n == BlocksIn(h, a)
  <2>1. Total(h, mMergedArray) = 0 /\ Total(h, mMergedArray') = n
    BY <1>1, <1>2, NothingIsCounted, FirstArrayIsTaken
  <2>2. /\ n \in Nat /\ c \in Nat /\ d \in Nat /\ d = n + c
        /\ refused[h] \in Nat /\ misplaced[h] \in Nat
        /\ received[h] = 0 + refused[h] + misplaced[h] + d
    BY <1>1, <2>1, LoopIsCounted
  <2>3. received[h] = n + refused[h] + misplaced[h] + c
    <3> HIDE DEF n, c, d
    <3> QED BY <2>2
  <2> QED BY <1>1, <2>1, <2>3
<1>4. \A i \in DOMAIN mMergedArray' : mMergedArray'[i].foreign = 0
  BY <1>1, <1>2, FirstArrayIsTaken
<1> QED BY <1>1, <1>3, <1>4 DEF LoopIsOver, MergedAddsUp, Total

LEMMA NextInputAddsUp ==
  ASSUME MergerInv, NextInput PROVE LoopIsOver' /\ MergedAddsUp'
<1> DEFINE b == Head(inputs)
<1>1. /\ inputs # << >> /\ b # NoArray /\ mMergedArray' = Add(b)
      /\ inputs' = Tail(inputs) /\ running' = running /\ running
      /\ received' = received /\ refused' = refused
      /\ misplaced' = [h \in Histograms |-> misplaced[h] + StraysIn(h, b)]
  BY DEF NextInput, SizesMatch
<1>2. b \in Seq(Names) /\ mMergedArray \in Seq(Objects)
  BY <1>1, InputsAreArrays DEF MergerInv, MergerTypeOK, Objects
<1>3. ASSUME NEW h \in Histograms
      PROVE  /\ received'[h]
                  = Total(h, mMergedArray') + refused'[h] + misplaced'[h] + BlocksInAll(h, inputs')
             /\ misplaced'[h] = 0 => misplaced[h] = 0 /\ StraysIn(h, b) = 0
  <2> DEFINE c == BlocksInAll(h, Tail(inputs))
             d == BlocksInAll(h, inputs)
             n == BlocksIn(h, b)
             t == Total(h, mMergedArray)
             u == Total(h, Add(b))
             s == StraysIn(h, b)
  <2>1. u + s = t + n /\ s \in Nat
    BY <1>2, ArrayIsAdded, StraysAreCounted
  <2>2. u \in Nat
    <3>1. Add(b) \in Seq(Objects)
      BY <1>2, ObjectsAdded
    <3> QED BY <3>1, TotalIsCounted
  <2>3. /\ n \in Nat /\ c \in Nat /\ d \in Nat /\ d = n + c /\ t \in Nat
        /\ refused[h] \in Nat /\ misplaced[h] \in Nat
        /\ received[h] = t + refused[h] + misplaced[h] + d
    BY <1>1, LoopIsCounted
  <2>4. /\ received[h] = u + refused[h] + (misplaced[h] + s) + c
        /\ misplaced[h] + s = 0 => misplaced[h] = 0 /\ s = 0
    <3> HIDE DEF n, c, d, t, u, s
    <3> QED BY <2>1, <2>2, <2>3
  <2>5. misplaced'[h] = misplaced[h] + s
    BY <1>1
  <2> QED BY <1>1, <2>4, <2>5
<1>4. ASSUME \A h \in Histograms : misplaced'[h] = 0, NEW i \in DOMAIN mMergedArray'
      PROVE  mMergedArray'[i].foreign = 0
  <2>1. \A h \in Histograms : misplaced[h] = 0 /\ StraysIn(h, b) = 0
    BY <1>3, <1>4
  <2>2. i \in DOMAIN mMergedArray
    BY <1>1, <1>2, <1>4, ObjectsAdded
  <2>3. mMergedArray[i].foreign = 0
    BY <2>1, <2>2 DEF MergerInv, MergedAddsUp
  <2>4. Add(b)[i].foreign = mMergedArray[i].foreign
    BY <1>2, <2>1, <2>2, StraysAreCounted
  <2> QED BY <1>1, <2>3, <2>4
<1> QED BY <1>1, <1>3, <1>4 DEF LoopIsOver, MergedAddsUp, Total

LEMMA SizesDifferAddsUp ==
  ASSUME MergerInv, SizesDiffer PROVE LoopIsOver' /\ MergedAddsUp'
<1>1. /\ inputs' = << >> /\ running' = FALSE /\ mMergedArray' = mMergedArray
      /\ received' = received /\ misplaced' = misplaced
      /\ refused' = [h \in Histograms |-> refused[h] + BlocksInAll(h, inputs)]
  BY DEF SizesDiffer, merged
<1>2. ASSUME NEW h \in Histograms
      PROVE  received'[h] = Total(h, mMergedArray') + refused'[h] + misplaced'[h] + BlocksInAll(h, inputs')
  <2> DEFINE t == Total(h, mMergedArray)
             d == BlocksInAll(h, inputs)
  <2>1. /\ t \in Nat /\ d \in Nat /\ BlocksInAll(h, << >>) = 0
        /\ received[h] \in Nat /\ refused[h] \in Nat /\ misplaced[h] \in Nat
        /\ received[h] = t + refused[h] + misplaced[h] + d
    BY LoopIsCounted
  <2>2. refused'[h] = refused[h] + d
    BY <1>1
  <2>3. received[h] = t + (refused[h] + d) + misplaced[h] + 0
    <3> HIDE DEF t, d
    <3> QED BY <2>1
  <2> QED BY <1>1, <2>1, <2>2, <2>3
<1>3. (\A h \in Histograms : misplaced'[h] = 0) =>
        \A i \in DOMAIN mMergedArray' : mMergedArray'[i].foreign = 0
  BY <1>1 DEF MergerInv, MergedAddsUp
<1> QED BY <1>1, <1>2, <1>3 DEF LoopIsOver, MergedAddsUp, Total

LEMMA MergerStep == MergerInv /\ [MergerNext]_mergerVars => MergerInv'
<1> SUFFICES ASSUME MergerInv, [MergerNext]_mergerVars PROVE LoopIsOver' /\ MergedAddsUp'
  BY MergerTypesStep DEF MergerInv
<1>1. ASSUME UNCHANGED <<merged, inputs, blockCounts>>,
             running' = running \/ (running' = FALSE /\ inputs = << >>)
      PROVE  LoopIsOver' /\ MergedAddsUp'
  <2>1. /\ mMergedArray' = mMergedArray /\ inputs' = inputs
        /\ received' = received /\ refused' = refused /\ misplaced' = misplaced
    BY <1>1 DEF merged, blockCounts
  <2>2. LoopIsOver'
    BY <1>1, <2>1 DEF MergerInv, LoopIsOver
  <2>3. MergedAddsUp'
    BY <2>1 DEF MergerInv, MergedAddsUp, Total
  <2> QED BY <2>2, <2>3
<1>2. ASSUME NEW as \in [1 .. Inputs -> TaskArrays \cup {NoArray}], TakeInputs(as)
      PROVE  LoopIsOver' /\ MergedAddsUp'
  BY <1>2, TakeInputsAddsUp
<1>3. CASE SkipInput
  BY <1>3, SkipInputAddsUp
<1>4. CASE FirstInput
  BY <1>4, FirstInputAddsUp
<1>5. CASE NextInput
  BY <1>5, NextInputAddsUp
<1>6. CASE SizesDiffer
  BY <1>6, SizesDifferAddsUp
<1>7. CASE Publish
  BY <1>1, <1>7 DEF Publish
<1>8. CASE Tick
  BY <1>1, <1>8 DEF Tick
<1>9. CASE UNCHANGED mergerVars
  BY <1>1, <1>9 DEF mergerVars
<1> QED BY <1>2, <1>3, <1>4, <1>5, <1>6, <1>7, <1>8, <1>9 DEF MergerNext

\* Every block of a histogram is in the merged histogram of its name once, or it
\* was refused, misplaced or is still to be visited; and none is in an object of
\* another name unless one was misplaced: for any arrays, in any order, from any
\* of the inputs, and however often the result is published.
THEOREM EveryBlockOnce == MergerSpec => []MergedAddsUp
<1>1. MergerInv => MergedAddsUp
  BY DEF MergerInv
<1> QED BY <1>1, MergerStarts, MergerStep, PTL DEF MergerSpec

(***************************************************************************)
(* Where the copies publish the same objects, what is merged is an array   *)
(* of a task with the capacity it was received with, so an array of that   *)
(* capacity is the same one or empty.                                      *)
(***************************************************************************)
MergedHasShape ==
  mMergedArray # << >> =>
    \E a \in TaskArrays :
      /\ a # << >> /\ mergedSize = Capacity(a)
      /\ DOMAIN mMergedArray = DOMAIN a
      /\ \A i \in DOMAIN a : mMergedArray[i].name = a[i]

\* Of an array with the names of the merged one, and of an empty one, nothing
\* goes astray.
LEMMA NothingStrays ==
  ASSUME NEW b, b \in Seq(Names), mMergedArray \in Seq(Objects), NEW h,
         \A i \in DOMAIN b : i \in DOMAIN mMergedArray /\ mMergedArray[i].name = b[i]
  PROVE  StraysIn(h, b) = 0
<1> DEFINE B == DOMAIN b
           s == [i \in B |-> IF b[i] = h /\ ~(i <= Len(mMergedArray) /\ mMergedArray[i].name = h)
                             THEN 1 ELSE 0]
<1>1. B = 1 .. Len(b) /\ 1 \in Int /\ Len(b) \in Int /\ DOMAIN mMergedArray = 1 .. Len(mMergedArray)
  BY ObjectsAdded
<1>2. IsFiniteSet(B)
  BY <1>1, FS_Interval
<1>3. \A i \in B : s[i] = 0
  BY <1>1
<1>4. StraysIn(h, b) = SumFunctionOnSet(s, B)
  BY DEF StraysIn, SumFunction
<1> HIDE DEF B, s
<1> QED BY <1>2, <1>3, <1>4, SumZero

ShapeInv == MergerTypeOK /\ MergedHasShape /\ NothingMisplaced

LEMMA ShapeStep ==
  ASSUME SameObjects, ShapeInv, [MergerNext]_mergerVars PROVE ShapeInv'
<1>1. MergerTypeOK'
  BY MergerTypesStep DEF ShapeInv
<1> SUFFICES MergedHasShape' /\ NothingMisplaced'
  BY <1>1 DEF ShapeInv
<1>2. ASSUME mMergedArray' = mMergedArray, mergedSize' = mergedSize, misplaced' = misplaced
      PROVE  MergedHasShape' /\ NothingMisplaced'
  BY <1>2 DEF ShapeInv, MergedHasShape, NothingMisplaced, Capacity
<1>3. ASSUME NEW as \in [1 .. Inputs -> TaskArrays \cup {NoArray}], TakeInputs(as)
      PROVE  MergedHasShape' /\ NothingMisplaced'
  BY <1>2, <1>3 DEF TakeInputs, merged
<1>4. CASE SkipInput
  BY <1>2, <1>4 DEF SkipInput, merged, blockCounts
<1>5. CASE FirstInput
  <2> DEFINE a == Head(inputs)
  <2>1. /\ inputs # << >> /\ a # NoArray /\ mMergedArray' = TakeFirst(a)
        /\ mergedSize' = Capacity(a) /\ misplaced' = misplaced
    BY <1>5 DEF FirstInput, blockCounts
  <2>2. a \in TaskArrays /\ a \in Seq(Names)
    BY <2>1, InputsAreArrays DEF ShapeInv
  <2> HIDE DEF a
  <2>3. /\ DOMAIN TakeFirst(a) = DOMAIN a
        /\ \A i \in DOMAIN a : TakeFirst(a)[i].name = a[i]
    BY <2>2, FirstArrayIsTaken
  <2>4. mMergedArray' # << >> => a # << >>
    BY <2>1, <2>2 DEF TakeFirst
  <2>5. MergedHasShape'
    BY <2>1, <2>2, <2>3, <2>4 DEF MergedHasShape, Capacity
  <2>6. NothingMisplaced'
    BY <2>1 DEF ShapeInv, NothingMisplaced
  <2> QED BY <2>5, <2>6
<1>6. CASE NextInput
  <2> DEFINE b == Head(inputs)
  <2>1. /\ inputs # << >> /\ b # NoArray /\ mMergedArray # << >> /\ mMergedArray' = Add(b)
        /\ mergedSize = Capacity(b) /\ mergedSize' = mergedSize
        /\ misplaced' = [h \in Histograms |-> misplaced[h] + StraysIn(h, b)]
    BY <1>6 DEF NextInput, SizesMatch
  <2>2. b \in TaskArrays /\ b \in Seq(Names) /\ mMergedArray \in Seq(Objects)
    BY <2>1, InputsAreArrays DEF ShapeInv, MergerTypeOK, Objects
  <2> HIDE DEF b
  <2>3. PICK a \in TaskArrays : /\ a # << >> /\ mergedSize = Capacity(a)
                                /\ DOMAIN mMergedArray = DOMAIN a
                                /\ \A i \in DOMAIN a : mMergedArray[i].name = a[i]
    BY <2>1 DEF ShapeInv, MergedHasShape
  <2>4. b = a \/ b = << >>
    BY <2>1, <2>2, <2>3 DEF SameObjects
  <2>5. \A i \in DOMAIN b : i \in DOMAIN mMergedArray /\ mMergedArray[i].name = b[i]
    BY <2>3, <2>4
  <2>6. \A h \in Histograms : StraysIn(h, b) = 0
    BY <2>2, <2>5, NothingStrays
  <2>7. NothingMisplaced'
    BY <2>1, <2>6 DEF ShapeInv, NothingMisplaced
  <2>8. /\ DOMAIN Add(b) = DOMAIN mMergedArray
        /\ \A i \in DOMAIN mMergedArray : Add(b)[i].name = mMergedArray[i].name
    BY <2>2, ObjectsAdded
  <2>9. MergedHasShape'
    BY <2>1, <2>3, <2>8 DEF MergedHasShape, Capacity
  <2> QED BY <2>7, <2>9
<1>7. CASE SizesDiffer
  BY <1>2, <1>7 DEF SizesDiffer, merged
<1>8. CASE Publish
  BY <1>2, <1>8 DEF Publish, merged, blockCounts
<1>9. CASE Tick
  BY <1>2, <1>9 DEF Tick, merged, blockCounts
<1>10. CASE UNCHANGED mergerVars
  BY <1>2, <1>10 DEF mergerVars, merged, blockCounts
<1> QED BY <1>3, <1>4, <1>5, <1>6, <1>7, <1>8, <1>9, <1>10 DEF MergerNext

\* When the copies of a task publish the same objects in the same order, no block
\* is ever misplaced: with EveryBlockOnce, each is then merged, refused or still
\* to be visited.
THEOREM NoBlockMisplaced == ASSUME SameObjects PROVE MergerSpec => []NothingMisplaced
<1>1. MergerInit => ShapeInv
  <2> SUFFICES ASSUME MergerInit PROVE ShapeInv
    OBVIOUS
  <2>1. mMergedArray = << >> /\ \A h \in Histograms : misplaced[h] = 0
    BY DEF MergerInit
  <2> QED BY <2>1, MergerTypesStart DEF ShapeInv, MergedHasShape, NothingMisplaced
<1>2. ShapeInv /\ [MergerNext]_mergerVars => ShapeInv'
  BY ShapeStep
<1>3. ShapeInv => NothingMisplaced
  BY DEF ShapeInv
<1> QED BY <1>1, <1>2, <1>3, PTL DEF MergerSpec

(***************************************************************************)
(* The merger's timer: after a publication it is set in the future, so it  *)
(* only expires once time has passed.                                      *)
(***************************************************************************)
TimerIsAhead == timeLeft \in Int /\ (ticked \/ timeLeft > 0)

LEMMA IncrementIsAhead ==
  ASSUME timeLeft \in Int, IsTimeout PROVE Increment \in Int /\ Increment > 0
BY HistoMergerAssumption DEF IsTimeout, Increment

LEMMA TimerStep == TimerIsAhead /\ [MergerNext]_mergerVars => TimerIsAhead'
<1> SUFFICES ASSUME TimerIsAhead, [MergerNext]_mergerVars PROVE TimerIsAhead'
  OBVIOUS
<1>1. ASSUME UNCHANGED <<timeLeft, ticked>> PROVE TimerIsAhead'
  BY <1>1 DEF TimerIsAhead
<1>2. ASSUME NEW as \in [1 .. Inputs -> TaskArrays \cup {NoArray}], TakeInputs(as)
      PROVE  TimerIsAhead'
  BY <1>1, <1>2 DEF TakeInputs
<1>3. CASE SkipInput
  BY <1>1, <1>3 DEF SkipInput
<1>4. CASE FirstInput
  BY <1>1, <1>4 DEF FirstInput
<1>5. CASE NextInput
  BY <1>1, <1>5 DEF NextInput
<1>6. CASE SizesDiffer
  BY <1>1, <1>6 DEF SizesDiffer
<1>7. CASE Publish
  <2>1. CASE IsTimeout
    <3>1. timeLeft' = Increment
      BY <1>7, <2>1 DEF Publish
    <3> QED BY <2>1, <3>1, IncrementIsAhead DEF TimerIsAhead
  <2>2. CASE ~IsTimeout
    BY <1>1, <1>7, <2>2 DEF Publish
  <2> QED BY <2>1, <2>2
<1>8. CASE Tick
  BY <1>8 DEF Tick, TimerIsAhead
<1>9. CASE UNCHANGED mergerVars
  BY <1>1, <1>9 DEF mergerVars
<1> QED BY <1>2, <1>3, <1>4, <1>5, <1>6, <1>7, <1>8, <1>9 DEF MergerNext

\* However late the merger is, and whatever its period, the timer that has
\* expired is set on only if time has passed since the last publication.
THEOREM NoTwoPublicationsAtOnce == MergerSpec => NoBurst
<1>1. MergerInit => TimerIsAhead
  BY HistoMergerAssumption DEF MergerInit, TimerIsAhead
<1>2. TimerIsAhead /\ [MergerNext]_mergerVars
        => [running /\ ~running' /\ timeLeft' # timeLeft => ticked]_mergerVars
  <2> SUFFICES ASSUME TimerIsAhead, MergerNext, running, ~running', timeLeft' # timeLeft
               PROVE  ticked
    OBVIOUS
  <2>1. CASE Publish
    BY <2>1 DEF Publish, IsTimeout, TimerIsAhead
  <2>2. CASE ~Publish
    BY <2>2 DEF MergerNext, TakeInputs, SkipInput, FirstInput, NextInput, SizesDiffer, Tick
  <2> QED BY <2>1, <2>2
<1> QED BY <1>1, <1>2, TimerStep, PTL DEF MergerSpec, NoBurst

-----------------------------------------------------------------------------
(***************************************************************************)
(* The inductive invariant. Until Next is pressed twice for one message,   *)
(* what is shown and what comes next are copies that were not deleted;     *)
(* they come in the order in which they were received.                     *)
(***************************************************************************)
Owned ==
  ~impatient =>
    /\ ~dangling
    /\ current \in allocated \cup {Null}
    /\ next \in allocated \cup {Null}

InOrder ==
  /\ shown <= current
  /\ current <= next
  /\ next <= lastMessage

GInv == GuiTypeOK /\ Owned /\ InOrder

-----------------------------------------------------------------------------
LEMMA ChunksAreNumbers == Chunks \subseteq Nat /\ Null \in Chunks /\ Null \notin Messages
  BY MessagesAssumption DEF Chunks, Messages, Null

\* What the use of a copy leaves alone and what it may do.
LEMMA UseIsSafe ==
  ASSUME GuiTypeOK, NEW m, NEW to \in {"poll", "payload"}, Use(m, to)
  PROVE  /\ pc' \in {"poll", "payload", "dead"} /\ dangling' \in BOOLEAN
         /\ m \in allocated => dangling' = dangling
  BY DEF Use, GuiTypeOK

LEMMA WindowInit == GuiInit => GInv
<1> SUFFICES ASSUME GuiInit PROVE GInv
  OBVIOUS
<1>1. GuiTypeOK
  BY ChunksAreNumbers DEF GuiInit, GuiTypeOK, Null
<1>2. Owned /\ InOrder
  BY DEF GuiInit, Owned, InOrder, Null
<1> QED BY <1>1, <1>2 DEF GInv

LEMMA HandlePartsPreserves == GInv /\ HandleParts => GInv'
<1> SUFFICES ASSUME GInv, HandleParts PROVE GInv'
  OBVIOUS
<1>0. GuiTypeOK /\ Owned /\ InOrder
  BY DEF GInv
<1> DEFINE m == lastMessage + 1
<1>1. /\ lastMessage < MaxMessages /\ lastMessage' = m
      /\ newDataAvailable' = TRUE /\ next' = m
      /\ allocated' = allocated \cup {m} /\ pc' = "actions"
      /\ UNCHANGED <<noDataMessage, current, shown, dangling, impatient>>
  BY DEF HandleParts
<1>2. m \in Messages /\ lastMessage \in Nat
  BY <1>0, <1>1, MessagesAssumption DEF GuiTypeOK, Chunks, Messages, Null
<1>3. GuiTypeOK'
  BY <1>0, <1>1, <1>2 DEF GuiTypeOK, Chunks
<1>4. Owned'
  BY <1>0, <1>1 DEF Owned
<1>6. current \in Nat /\ next \in Nat
  BY <1>0, ChunksAreNumbers DEF GuiTypeOK
<1>7. InOrder'
  BY <1>0, <1>1, <1>2, <1>6 DEF InOrder
<1> QED BY <1>3, <1>4, <1>7 DEF GInv

LEMMA PressNextPreserves == GInv /\ PressNext => GInv'
<1> SUFFICES ASSUME GInv, PressNext PROVE GInv'
  OBVIOUS
<1>0. GuiTypeOK /\ Owned /\ InOrder
  BY DEF GInv
<1>1. /\ allocated' = allocated \ {current} /\ current' = next
      /\ impatient' = (impatient \/ current = next)
      /\ UNCHANGED <<lastMessage, newDataAvailable, noDataMessage, next, shown>>
  BY DEF PressNext, Deleted, Moved
<1>2. /\ pc' \in {"poll", "payload", "dead"} /\ dangling' \in BOOLEAN
      /\ current \in allocated \cup {Null} => dangling' = dangling
  <2>1. CASE current = Null
    BY <1>0, <2>1 DEF PressNext, GuiTypeOK
  <2>2. CASE current # Null
    <3>1. Use(current, "payload")
      BY <2>2 DEF PressNext
    <3> QED BY <1>0, <2>2, <3>1, UseIsSafe
  <2> QED BY <2>1, <2>2
<1>3. impatient' \in BOOLEAN
  BY <1>1
<1>4. GuiTypeOK'
  BY <1>0, <1>1, <1>2, <1>3 DEF GuiTypeOK
<1>5. Owned'
  <2> SUFFICES ASSUME ~impatient'
               PROVE  /\ ~dangling'
                      /\ next \in (allocated \ {current}) \cup {Null}
    BY <1>1 DEF Owned
  <2>1. ~impatient /\ current # next
    BY <1>1
  <2> QED BY <1>0, <1>2, <2>1 DEF Owned
<1>6. InOrder'
  <2>1. /\ shown \in Nat /\ current \in Nat /\ next \in Nat
    BY <1>0, ChunksAreNumbers DEF GuiTypeOK
  <2> QED BY <1>0, <1>1, <2>1 DEF InOrder
<1> QED BY <1>4, <1>5, <1>6 DEF GInv

LEMMA UpdatePayloadPreserves == GInv /\ UpdatePayloadGui => GInv'
<1> SUFFICES ASSUME GInv, UpdatePayloadGui PROVE GInv'
  OBVIOUS
<1>0. GuiTypeOK /\ Owned /\ InOrder
  BY DEF GInv
<1>1. UNCHANGED <<lastMessage, newDataAvailable, noDataMessage, next, current,
                  allocated, impatient>>
  BY DEF UpdatePayloadGui
<1>2. CASE current = Null
  <2>1. pc' = "poll" /\ UNCHANGED <<shown, dangling>>
    BY <1>2 DEF UpdatePayloadGui
  <2> QED BY <1>0, <1>1, <2>1 DEF GInv, GuiTypeOK, Owned, InOrder
<1>3. CASE current # Null
  <2>1. Use(current, "poll") /\ shown' = current
    BY <1>3 DEF UpdatePayloadGui
  <2>2. /\ pc' \in {"poll", "payload", "dead"} /\ dangling' \in BOOLEAN
        /\ current \in allocated => dangling' = dangling
    BY <1>0, <2>1, UseIsSafe
  <2>3. current \in Chunks /\ current \in Nat
    BY <1>0, ChunksAreNumbers DEF GuiTypeOK
  <2>4. GuiTypeOK'
    BY <1>0, <1>1, <2>1, <2>2, <2>3 DEF GuiTypeOK
  <2>5. Owned'
    BY <1>0, <1>1, <1>3, <2>2 DEF Owned
  <2>6. InOrder'
    BY <1>0, <1>1, <2>1, <2>3 DEF InOrder
  <2> QED BY <2>4, <2>5, <2>6 DEF GInv
<1> QED BY <1>2, <1>3

LEMMA WindowStep == GInv /\ [GuiNext]_guiVars => GInv'
<1> SUFFICES ASSUME GInv, [GuiNext]_guiVars PROVE GInv'
  OBVIOUS
<1>1. CASE NoParts \/ PressNextTooEarly \/ NotPressed \/ Collapsed \/ UNCHANGED guiVars
  <2>1. /\ UNCHANGED <<lastMessage, newDataAvailable, next, current, allocated,
                       shown, dangling, impatient>>
        /\ pc' \in {"actions", "payload", "poll", pc}
        /\ noDataMessage' \in {noDataMessage, ~newDataAvailable}
    BY <1>1 DEF NoParts, PressNextTooEarly, NotPressed, Collapsed, guiVars
  <2>2. GuiTypeOK'
    BY <2>1 DEF GInv, GuiTypeOK
  <2>3. Owned' /\ InOrder'
    BY <2>1 DEF GInv, Owned, InOrder
  <2> QED BY <2>2, <2>3 DEF GInv
<1> QED
  BY <1>1, HandlePartsPreserves, PressNextPreserves, UpdatePayloadPreserves DEF GuiNext

LEMMA WindowInvariance == GuiSpec => []GInv
  BY WindowInit, WindowStep, PTL DEF GuiSpec

-----------------------------------------------------------------------------
\* Until Next is pressed twice for one message, no copy is used after it was
\* deleted, however many messages come and whichever of them are skipped.
THEOREM PatientStaysSafe == GuiSpec => []PatientIsSafe
<1>1. GInv => PatientIsSafe
  BY DEF GInv, Owned, PatientIsSafe
<1> QED BY <1>1, WindowInvariance, PTL

\* The window never goes back to an older message, and a copy that is off the
\* window is deleted.
THEOREM ShowsOnlyForward == GuiSpec => ShowsForward
<1> DEFINE Forward == /\ shown' >= shown
                      /\ current' # current => current \notin allocated'
<1>1. ASSUME GInv, [GuiNext]_guiVars, guiVars' # guiVars PROVE Forward
  <2>0. GuiTypeOK /\ InOrder
    BY <1>1 DEF GInv
  <2>1. shown \in Nat /\ current \in Nat
    BY <2>0, ChunksAreNumbers DEF GuiTypeOK
  <2>2. CASE PressNext
    BY <2>1, <2>2 DEF PressNext, Deleted
  <2>3. CASE UpdatePayloadGui
    <3>1. current' = current /\ shown' \in {shown, current}
      BY <2>3 DEF UpdatePayloadGui
    <3> QED BY <2>0, <2>1, <3>1 DEF InOrder
  <2>4. CASE HandleParts \/ NoParts \/ PressNextTooEarly \/ NotPressed \/ Collapsed
    <3>1. UNCHANGED <<shown, current>>
      BY <2>4 DEF HandleParts, NoParts, PressNextTooEarly, NotPressed, Collapsed
    <3> QED BY <2>1, <3>1
  <2> QED BY <1>1, <2>2, <2>3, <2>4 DEF GuiNext
<1>2. GInv /\ [GuiNext]_guiVars => [Forward]_guiVars
  BY <1>1
<1> QED BY <1>2, WindowInvariance, PTL DEF GuiSpec, ShowsForward
=============================================================================
