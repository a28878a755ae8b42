--------------------------- MODULE ObjectsManager ---------------------------
(***************************************************************************)
(* The list of the objects a task publishes (ObjectsManager.cxx), and what *)
(* a task does with the checks of an object (MonitorObject.cxx). The calls *)
(* come from initialize() and endOfCycle() of the tasks: ExampleTask       *)
(* publishes one more object in its third cycle.                           *)
(*                                                                         *)
(* Nothing keeps a task from publishing two objects of one name. Objects   *)
(* are looked up by name, and the name an object is compared with is read  *)
(* from a string that is gone (MonitorObject::GetName): the comparison may *)
(* fail for an object of that very name.                                   *)
(***************************************************************************)
EXTENDS Naturals, Sequences, FiniteSets

CONSTANTS
  Names, CheckNames,
  Classes,        \* classes of checks
  Qualities,      \* that a check gives
  Null,           \* Quality::Null
  Values,         \* of metadata; all keys are alike, and one is modelled
  None,           \* no check of that name, or no value of the key
  DanglingReads,  \* a comparison of names may fail
  MaxObjects      \* bound: objects published

ASSUME QualitiesAssumption == Null \notin Qualities
ASSUME ObjectsAssumption ==
  DanglingReads \in BOOLEAN /\ MaxObjects \in Nat /\ None \notin [class : Classes, result : Qualities \cup {Null}]

Definitions == [class : Classes, result : Qualities \cup {Null}]
NotFound == 0

VARIABLES
  mMonitorObjects,  \* the objects in the order they were published
  asked,            \* history: name and check -> the definition asked for last
  answer            \* history: whether the object of the last getQuality() was
                    \* published, and what it gave: None if it threw

vars == <<mMonitorObjects, asked, answer>>

NoChecks == [c \in CheckNames |-> None]
Bare == [checks |-> NoChecks, metadata |-> None]
NoAnswer == [there |-> FALSE, quality |-> None]

Init ==
  /\ mMonitorObjects = << >>
  /\ asked = [n \in Names |-> Bare]
  /\ answer = NoAnswer

Called(name) == {i \in DOMAIN mMonitorObjects : mMonitorObjects[i].name = name}

-----------------------------------------------------------------------------
MutantFindObject(name) == DOMAIN mMonitorObjects \cup {NotFound}

\* The first object whose name compares equal.
FindObject(name) ==
  IF DanglingReads THEN Called(name) \cup {NotFound}
  ELSE IF Called(name) = {} THEN {NotFound}
  ELSE {i \in Called(name) : \A j \in Called(name) : i <= j}

\* startPublishing(); the name it is given as a parameter is ignored.
StartPublishing(name) ==
  /\ Len(mMonitorObjects) < MaxObjects
  /\ mMonitorObjects' = Append(mMonitorObjects, [name |-> name, has |-> Bare])
  /\ UNCHANGED <<asked, answer>>

SetCheck(i, name, c, def) ==
  /\ mMonitorObjects' = [mMonitorObjects EXCEPT ![i].has.checks[c] = def]
  /\ asked' = [asked EXCEPT ![name].checks[c] = def]
  /\ UNCHANGED answer

MutantReplaced(old, class) == IF old = None THEN [class |-> class, result |-> Null] ELSE old

\* A check of the same name is replaced, together with its result.
Replaced(old, class) == [class |-> class, result |-> Null]

\* addCheck() by name or by object; if no object is found it throws, and
\* nothing changes.
AddCheck(name, c, class) ==
  \E i \in FindObject(name) \ {NotFound} :
    LET def == Replaced(mMonitorObjects[i].has.checks[c], class)
    IN /\ mMonitorObjects' = [mMonitorObjects EXCEPT ![i].has.checks[c] = def]
       /\ asked' = [asked EXCEPT ![name].checks[c] = [class |-> class, result |-> Null]]
       /\ UNCHANGED answer

\* addOrReplaceCheck() of the object that getMonitorObject() returns.
AddOrReplaceCheck(name, c, def) ==
  \E i \in FindObject(name) \ {NotFound} : SetCheck(i, name, c, def)

\* setQualityForCheck(): throws if the object has no check of that name.
SetQualityForCheck(name, c, quality) ==
  \E i \in FindObject(name) \ {NotFound} :
    /\ mMonitorObjects[i].has.checks[c] # None
    /\ SetCheck(i, name, c, [mMonitorObjects[i].has.checks[c] EXCEPT !.result = quality])

\* addMetadata(): a value of the key that is there already is replaced.
AddMetadata(name, value) ==
  \E i \in FindObject(name) \ {NotFound} :
    /\ mMonitorObjects' = [mMonitorObjects EXCEPT ![i].has.metadata = value]
    /\ asked' = [asked EXCEPT ![name].metadata = value]
    /\ UNCHANGED answer

Results(i) ==
  {mMonitorObjects[i].has.checks[c].result : c \in {d \in CheckNames : mMonitorObjects[i].has.checks[d] # None}} \ {Null}

\* getQuality(): throws if it finds the object, and looks it up if not. Which
\* of the results is the worst is a matter of module Checker.
GetQuality(name) ==
  /\ \E first, second \in FindObject(name) :
       \E worst \in IF second = NotFound \/ Results(second) = {} THEN {Null} ELSE Results(second) :
         answer' = [there |-> Called(name) # {},
                    quality |-> IF first # NotFound \/ second = NotFound THEN None ELSE worst]
  /\ UNCHANGED <<mMonitorObjects, asked>>

Next ==
  \E name \in Names :
    \/ StartPublishing(name)
    \/ \E c \in CheckNames :
         \/ \E class \in Classes : AddCheck(name, c, class)
         \/ \E def \in Definitions : AddOrReplaceCheck(name, c, def)
         \/ \E quality \in Qualities : SetQualityForCheck(name, c, quality)
    \/ \E value \in Values : AddMetadata(name, value)
    \/ GetQuality(name)

Spec == Init /\ [][Next]_vars

-----------------------------------------------------------------------------
Contents == [checks : [CheckNames -> Definitions \cup {None}], metadata : Values \cup {None}]

TypeOK ==
  /\ mMonitorObjects \in Seq([name : Names, has : Contents])
  /\ asked \in [Names -> Contents]

\* While a name is that of one object, the object has the checks and metadata
\* that were asked for under its name, each as it was set last, whatever objects
\* are published in between and whichever lookups fail.
LatestCheckIsKept ==
  \A i \in DOMAIN mMonitorObjects :
    Called(mMonitorObjects[i].name) = {i} => mMonitorObjects[i].has = asked[mMonitorObjects[i].name]

\* Of several objects of one name, none has a check that was not asked for
\* under that name, and every check that was asked for is on one of them as it
\* was set last: it may be on any of them, but it is neither lost nor undone.
NothingAstray ==
  \A name \in Names, c \in CheckNames :
    LET held == {mMonitorObjects[i].has.checks[c] : i \in Called(name)} \ {None}
    IN IF asked[name].checks[c] = None THEN held = {} ELSE asked[name].checks[c] \in held

\* ObjectsManager.h: getQuality() returns "the quality of the object if was
\* found".
QualityIsGiven == answer.there => answer.quality # None
=============================================================================
