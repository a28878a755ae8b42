------------------------------ MODULE Checker -------------------------------
(***************************************************************************)
(* The device that runs the checks of the objects it receives, stores the  *)
(* objects and sends them on (Framework/src/Checker.cxx), with the part of *)
(* MonitorObject and Quality it relies on.  An input is an array; its      *)
(* objects are checked and stored one by one, and the array of the checked *)
(* objects is sent at the end.  A check that cannot be loaded throws a     *)
(* FatalException, which leaves run() in the middle of the array; so does  *)
(* an exception of the check's own code.                                   *)
(*                                                                         *)
(* Libraries and classes are cached for the life of the device, instances  *)
(* of checks too, under the name of the check.  The checks of an object    *)
(* run in the order of their names; as names are arbitrary, the model lets *)
(* them run in any order.                                                  *)
(***************************************************************************)
EXTENDS Integers, Sequences, FiniteSets, Functions

CONSTANTS
  Classes, Libraries,  \* classes of checks, libraries
  NoLibrary,           \* the name of the library is empty
  LibraryOf,           \* class -> the library that has its dictionary
  Installed,           \* libraries gSystem->Load() can load
  Autoloaded,          \* classes whose library ROOT loads by itself
  Abstract,            \* classes that cannot be instantiated
  CheckDefs,           \* definitions: records [name, className, libraryName]
  Arrays,              \* arrays the device may receive: sequences of objects,
                       \* an object is the set of its check definitions
  NotAnObject,         \* an element that is not a MonitorObject
  None,
  MaxArrays            \* bound: arrays received

CheckNames == {d.name : d \in CheckDefs}

\* Two definitions in one object have two names: mChecks is a map.
WellNamed(object) == \A d, e \in object : d.name = e.name => d = e

ASSUME CheckerAssumption ==
  /\ LibraryOf \in [Classes -> Libraries]
  /\ Installed \subseteq Libraries /\ NoLibrary \notin Libraries
  /\ Autoloaded \subseteq Classes /\ \A c \in Autoloaded : LibraryOf[c] \in Installed
  /\ Abstract \subseteq Classes /\ None \notin Classes
  /\ CheckDefs \subseteq [name : STRING, className : Classes,
                          libraryName : Libraries \cup {NoLibrary}]
  /\ Arrays \subseteq Seq((SUBSET CheckDefs) \cup {NotAnObject})
  /\ \A a \in Arrays : \A i \in DOMAIN a : a[i] = NotAnObject \/ WellNamed(a[i])
  /\ MaxArrays \in Nat

-----------------------------------------------------------------------------

(* Qualities (Quality.h, Quality.cxx), by their levels, and the quality of an *)
(* object, from the results of its checks (MonitorObject.cxx).  A definition  *)
(* whose name starts with Mutant is a deliberate bug: put in the place of the *)
(* definition that follows it, TLC finds a property violated.                 *)

Good      == 1
Medium    == 2
Bad       == 3
NullLevel == 10
Qualities == {Good, Medium, Bad, NullLevel}

MutantIsWorstThan(q, r) == q < r

IsWorstThan(q, r) == q > r

Worse(result, global) ==
  IF result # NullLevel /\ (IsWorstThan(result, global) \/ global = NullLevel)
  THEN result ELSE global

\* getQuality(): one pass over the results.
GetQuality(results) == FoldFunction(Worse, NullLevel, results)

-----------------------------------------------------------------------------

VARIABLES
  array,             \* the array being handled, or None
  position,          \* index of its current element
  results,           \* check -> the quality it gave to the current object
  moResults,         \* check -> CheckDefinition::result of the current object
  checkedMoArray,    \* objects that will be sent
  mLibrariesLoaded,
  mClassesLoaded,
  mChecksLoaded,     \* check name -> class of the instance, or None
  inProcess,         \* libraries that are loaded in the process
  mTotalNumberHistosReceived,
  arrays,            \* arrays received
  sent,              \* arrays sent, without their contents but the last
  lastStored,        \* last object given to the database: its quality, and the
                     \* qualities its checks gave
  failed,            \* definition of the check that threw last
  ownCode            \* its own code threw, not its loading

loop    == <<array, position, results, moResults, checkedMoArray>>
loaded  == <<mLibrariesLoaded, mClassesLoaded, mChecksLoaded, inProcess>>
history == <<arrays, sent, lastStored, failed, ownCode>>
vars    == <<loop, loaded, mTotalNumberHistosReceived, history>>

NoResults == [n \in {} |-> NullLevel]

Init ==
  /\ array = None /\ position = 0
  /\ results = NoResults /\ moResults = NoResults
  /\ checkedMoArray = << >>
  /\ mLibrariesLoaded = {} /\ mClassesLoaded = {}
  /\ mChecksLoaded = [n \in CheckNames |-> None]
  /\ inProcess = {}
  /\ mTotalNumberHistosReceived = 0
  /\ arrays = 0 /\ sent = [count |-> 0, last |-> << >>]
  /\ lastStored = [quality |-> NullLevel, results |-> NoResults]
  /\ failed = None /\ ownCode = FALSE

Handling == array # None /\ position <= Len(array)
Object   == array[position]
ToRun    == {d \in Object : d.name \notin DOMAIN results}

\* The results of a new object are those its task gave it: none.
BeginObject(a, i) ==
  /\ position' = i
  /\ results' = NoResults
  /\ moResults' = IF i \in DOMAIN a /\ a[i] # NotAnObject
                  THEN [n \in {d.name : d \in a[i]} |-> NullLevel]
                  ELSE NoResults

\* run() is called with an input; it reads the first one only.
Receive(a) ==
  /\ array = None
  /\ arrays < MaxArrays
  /\ arrays' = arrays + 1
  /\ array' = a
  /\ checkedMoArray' = << >>
  /\ BeginObject(a, 1)
  /\ UNCHANGED <<loaded, mTotalNumberHistosReceived, sent, lastStored, failed, ownCode>>

SkipElement ==
  /\ Handling /\ Object = NotAnObject
  /\ BeginObject(array, position + 1)
  /\ UNCHANGED <<array, checkedMoArray, loaded, mTotalNumberHistosReceived, history>>

-----------------------------------------------------------------------------

\* gSystem->Load() says 0 when it loaded the library and 1 when it had been.
MutantLoads(lib) == lib \in Installed /\ lib \notin inProcess

Loads(lib) == lib \in Installed

\* Libraries after loadLibrary().
MutantLibrariesAfter(lib) == mLibrariesLoaded \cup {lib}

LibrariesAfter(lib) ==
  IF lib # NoLibrary /\ Loads(lib) THEN mLibrariesLoaded \cup {lib} ELSE mLibrariesLoaded

LoadLibraryOK(lib) == lib = NoLibrary \/ lib \in mLibrariesLoaded \/ Loads(lib)

\* TClass::GetClass() knows the classes of the libraries that are loaded.
HasClass(c, libs) == c \in mClassesLoaded \/ LibraryOf[c] \in libs \/ c \in Autoloaded

\* getCheck(): the cached instance, or a new one, of the class it is given.
InstanceOf(d) ==
  IF mChecksLoaded[d.name] # None THEN mChecksLoaded[d.name] ELSE d.className

HasInstance(d) == mChecksLoaded[d.name] # None \/ d.className \notin Abstract

\* What loadLibrary() and getCheck() load before they return or throw.
Load(d) ==
  LET libs == IF LoadLibraryOK(d.libraryName)
              THEN inProcess \cup ({d.libraryName} \ {NoLibrary})
              ELSE inProcess
      class == LoadLibraryOK(d.libraryName) /\ HasClass(d.className, libs)
  IN
  /\ mLibrariesLoaded' = LibrariesAfter(d.libraryName)
  /\ inProcess' = IF class THEN libs \cup {LibraryOf[d.className]} ELSE libs
  /\ mClassesLoaded' = IF class THEN mClassesLoaded \cup {d.className} ELSE mClassesLoaded
  /\ mChecksLoaded' = IF class /\ HasInstance(d)
                      THEN [mChecksLoaded EXCEPT ![d.name] = InstanceOf(d)]
                      ELSE mChecksLoaded

CanRun(d) ==
  /\ LoadLibraryOK(d.libraryName)
  /\ HasClass(d.className, inProcess \cup {d.libraryName})
  /\ HasInstance(d)

\* One turn of the loop of check().  The quality goes to beautify() and is
\* not given to the object.
RunCheck(d, q) ==
  /\ Handling /\ Object # NotAnObject /\ d \in ToRun
  /\ CanRun(d)
  /\ Load(d)
  /\ results' = [n \in DOMAIN results \cup {d.name} |->
                   IF n = d.name THEN q ELSE results[n]]
  /\ UNCHANGED <<array, position, moResults, checkedMoArray, mTotalNumberHistosReceived,
                 arrays, sent, lastStored, failed, ownCode>>

MutantAfterThrow ==
  /\ BeginObject(array, position + 1)
  /\ UNCHANGED <<array, checkedMoArray>>

\* The exception leaves run(), and the array of the checked objects is lost.
AfterThrow ==
  /\ array' = None
  /\ checkedMoArray' = << >>
  /\ BeginObject(<< >>, 0)

CheckThrows(d) ==
  /\ Handling /\ Object # NotAnObject /\ d \in ToRun
  /\ ~CanRun(d)
  /\ Load(d)
  /\ AfterThrow
  /\ failed' = d /\ ownCode' = FALSE
  /\ UNCHANGED <<mTotalNumberHistosReceived, arrays, sent, lastStored>>

\* check() or beautify() of the instance throws.
OwnCodeThrows(d) ==
  /\ Handling /\ Object # NotAnObject /\ d \in ToRun
  /\ CanRun(d)
  /\ Load(d)
  /\ AfterThrow
  /\ failed' = d /\ ownCode' = TRUE
  /\ UNCHANGED <<mTotalNumberHistosReceived, arrays, sent, lastStored>>

\* store(), whose exceptions are only logged, and the end of the loop of run().
StoreObject ==
  /\ Handling /\ Object # NotAnObject /\ ToRun = {}
  /\ lastStored' = [quality |-> GetQuality(moResults), results |-> results]
  /\ mTotalNumberHistosReceived' = mTotalNumberHistosReceived + 1
  /\ checkedMoArray' = Append(checkedMoArray, Object)
  /\ BeginObject(array, position + 1)
  /\ UNCHANGED <<array, loaded, arrays, sent, failed, ownCode>>

Send ==
  /\ array # None /\ position > Len(array)
  /\ sent' = [count |-> sent.count + 1, last |-> checkedMoArray]
  /\ array' = None
  /\ checkedMoArray' = << >>
  /\ BeginObject(<< >>, 0)
  /\ UNCHANGED <<loaded, mTotalNumberHistosReceived, arrays, lastStored, failed, ownCode>>

Run ==
  \/ SkipElement
  \/ \E d \in CheckDefs : \/ \E q \in Qualities : RunCheck(d, q)
                         \/ CheckThrows(d) \/ OwnCodeThrows(d)
  \/ StoreObject
  \/ Send

Next == (\E a \in Arrays : Receive(a)) \/ Run

Spec == Init /\ [][Next]_vars

-----------------------------------------------------------------------------

Loadable == Classes \cup {None}

TypeOK ==
  /\ array \in Arrays \cup {None} /\ position \in Nat
  /\ DOMAIN results \subseteq DOMAIN moResults
  /\ \A n \in DOMAIN results : results[n] \in Qualities
  /\ \A n \in DOMAIN moResults : n \in CheckNames /\ moResults[n] \in Qualities
  /\ \A i \in DOMAIN checkedMoArray : checkedMoArray[i] \subseteq CheckDefs
  /\ mLibrariesLoaded \subseteq Libraries /\ inProcess \subseteq Libraries
  /\ mClassesLoaded \subseteq Classes /\ mChecksLoaded \in [CheckNames -> Loadable]
  /\ mTotalNumberHistosReceived \in Nat
  /\ arrays \in 0 .. MaxArrays /\ sent.count \in 0 .. arrays
  /\ ownCode \in BOOLEAN

\* What the caches promise is there: a library they name is loaded in the
\* process, so is the library of a class they hold, and an instance was made
\* of a class they hold that can be instantiated.
CachedIsLoaded ==
  /\ mLibrariesLoaded \subseteq inProcess
  /\ \A c \in mClassesLoaded : LibraryOf[c] \in inProcess
  /\ \A n \in CheckNames :
       mChecksLoaded[n] # None => mChecksLoaded[n] \in mClassesLoaded \ Abstract

\* The quality getQuality() finds in one pass over the results, in whatever
\* order, is Null if no check gave a quality and else the worst one given.
QualityIsWorst ==
  LET given == {results[n] : n \in DOMAIN results} \ {NullLevel}
  IN  IF given = {}
      THEN GetQuality(results) = NullLevel
      ELSE /\ GetQuality(results) \in given
           /\ \A q \in given : q <= GetQuality(results)

\* The places of the monitor objects in an array, and how many come up to one.
MonitorObjects(a) == {i \in DOMAIN a : a[i] # NotAnObject}
ObjectsUpTo(i, a) == Cardinality({j \in MonitorObjects(a) : j <= i})

\* An array is sent whole or not at all: what is sent is every object that was
\* received in it, in their order and nothing else, although any of its checks
\* may have thrown.
SentWhole ==
  [][sent'.count # sent.count =>
       /\ Len(sent'.last) = Cardinality(MonitorObjects(array))
       /\ \A i \in MonitorObjects(array) : sent'.last[ObjectsUpTo(i, array)] = array[i]]_vars

\* The library has the class, or is left out and already loaded.
WellSpecified(d) ==
  /\ d.className \notin Abstract
  /\ \/ d.libraryName = LibraryOf[d.className] /\ d.libraryName \in Installed
     \/ d.libraryName = NoLibrary /\ LibraryOf[d.className] \in inProcess

\* Unless the code of a check throws, an array is given up only for a check that
\* is not well specified, whatever libraries, classes and checks came before and
\* whatever was given up for them.
WellSpecifiedChecksRun ==
  [][array # None /\ array' = None /\ sent' = sent /\ ~ownCode' => ~WellSpecified(failed')]_vars

-----------------------------------------------------------------------------

(* What comments of the repository say and the code does not do. *)

\* Checker.h:65-71: the object is modified by setting its quality, to the worst
\* one encountered.  check() never gives a result to the object.
StoredWithItsQuality == lastStored.quality = GetQuality(lastStored.results)

=============================================================================
