----------------------------- MODULE TaskProofs ------------------------------
(***************************************************************************)
(* What tasks publish and count. The checks of an object stay where they   *)
(* were put (ObjectsManager.cxx), for any names, classes of checks and     *)
(* number of objects, and whichever lookups miss; the files, errors and    *)
(* digits that the tasks count are all accounted for (SimpleDS.cxx,        *)
(* QCGeneralTask.cxx), for any detector, width of a word, files, errors    *)
(* and digits, and whenever a reset comes.                                 *)
(***************************************************************************)
EXTENDS ObjectsManager, SimpleDS, FoldTheorems, TLAPS

(***************************************************************************)
(* The inductive invariant. A name nobody published has nothing asked for, *)
(* which is why the first object of a name starts in step with what is     *)
(* asked for; a second one keeps what the first one holds.                 *)
(***************************************************************************)
NothingAsked == \A n \in Names : Called(n) = {} => asked[n] = Bare

Held(n, c) ==
  IF asked[n].checks[c] = None
  THEN \A i \in Called(n) : mMonitorObjects[i].has.checks[c] = None
  ELSE \E i \in Called(n) : mMonitorObjects[i].has.checks[c] = asked[n].checks[c]

AllHeld == \A n \in Names, c \in CheckNames : Held(n, c)

OInv == TypeOK /\ NothingAsked /\ LatestCheckIsKept /\ AllHeld

-----------------------------------------------------------------------------
LEMMA NoneIsNoDefinition == None \notin Definitions
  BY ObjectsAssumption DEF Definitions

LEMMA BareIsContents == Bare \in Contents /\ \A c \in CheckNames : Bare.checks[c] = None
  BY DEF Bare, Contents, NoChecks

\* Every lookup that finds something finds an object of that name.
LEMMA FoundIsCalled ==
  ASSUME TypeOK, NEW n \in Names, NEW i \in FindObject(n) \ {NotFound}
  PROVE  i \in Called(n) /\ i \in DOMAIN mMonitorObjects /\ mMonitorObjects[i].name = n
  BY DEF FindObject, Called

LEMMA ElementOf ==
  ASSUME NEW S, NEW s \in Seq(S), NEW n \in DOMAIN s
  PROVE  s[n] \in S
  OBVIOUS

LEMMA Typing ==
  ASSUME TypeOK, NEW i \in DOMAIN mMonitorObjects
  PROVE  /\ mMonitorObjects[i] \in [name : Names, has : Contents]
         /\ mMonitorObjects[i].has.checks \in [CheckNames -> Definitions \cup {None}]
         /\ mMonitorObjects[i].has.metadata \in Values \cup {None}
<1>1. mMonitorObjects[i] \in [name : Names, has : Contents]
  BY ElementOf DEF TypeOK
<1> QED BY <1>1 DEF Contents

LEMMA ElementReplaced ==
  ASSUME NEW S, NEW s \in Seq(S), NEW n \in DOMAIN s, NEW e \in S
  PROVE  [s EXCEPT ![n] = e] \in Seq(S)
<1>1. Len(s) \in Nat /\ DOMAIN s = 1 .. Len(s) /\ s \in [1 .. Len(s) -> S]
  OBVIOUS
<1>2. [s EXCEPT ![n] = e] \in [1 .. Len(s) -> S]
  BY <1>1
<1> QED BY <1>1, <1>2

LEMMA InitEstablishes == Init => OInv
<1> SUFFICES ASSUME Init PROVE OInv
  OBVIOUS
<1>1. TypeOK /\ NothingAsked
  BY BareIsContents DEF Init, TypeOK, NothingAsked
<1>2. \A n : Called(n) = {}
  BY DEF Init, Called
<1>3. AllHeld
  BY <1>2, BareIsContents DEF Init, AllHeld, Held
<1>4. LatestCheckIsKept
  BY DEF Init, LatestCheckIsKept
<1> QED BY <1>1, <1>3, <1>4 DEF OInv

-----------------------------------------------------------------------------
\* An object that is published holds nothing, and disturbs no other one.
LEMMA PublishingPreserves ==
  ASSUME OInv, NEW n \in Names, StartPublishing(n)
  PROVE  OInv'
<1> DEFINE o == [name |-> n, has |-> Bare]
           last == Len(mMonitorObjects) + 1
<1>0. TypeOK /\ NothingAsked /\ LatestCheckIsKept /\ AllHeld
  BY DEF OInv
<1>1. mMonitorObjects' = Append(mMonitorObjects, o) /\ asked' = asked
  BY DEF StartPublishing
<1>2. mMonitorObjects \in Seq([name : Names, has : Contents]) /\ o \in [name : Names, has : Contents]
  BY <1>0, BareIsContents DEF TypeOK
<1>3. /\ DOMAIN mMonitorObjects' = DOMAIN mMonitorObjects \cup {last}
      /\ last \notin DOMAIN mMonitorObjects /\ mMonitorObjects'[last] = o
      /\ \A i \in DOMAIN mMonitorObjects : mMonitorObjects'[i] = mMonitorObjects[i]
  BY <1>1, <1>2
<1>4. \A m \in Names : Called(m)' = IF m = n THEN Called(m) \cup {last} ELSE Called(m)
  BY <1>3 DEF Called
<1>5. TypeOK'
  BY <1>0, <1>1, <1>2 DEF TypeOK
<1>6. NothingAsked'
  BY <1>0, <1>1, <1>4 DEF NothingAsked
<1>7. LatestCheckIsKept'
  <2> SUFFICES ASSUME NEW i \in DOMAIN mMonitorObjects',
                      {j \in DOMAIN mMonitorObjects' :
                         mMonitorObjects'[j].name = mMonitorObjects'[i].name} = {i}
               PROVE  mMonitorObjects'[i].has = asked[mMonitorObjects'[i].name]
    BY <1>1 DEF LatestCheckIsKept, Called
  <2>1. CASE i = last
    <3>1. Called(n) = {}
      BY <1>3, <2>1 DEF Called
    <3>2. asked[n] = Bare
      BY <1>0, <3>1 DEF NothingAsked
    <3> QED BY <1>3, <2>1, <3>2
  <2>2. CASE i \in DOMAIN mMonitorObjects
    <3>1. mMonitorObjects'[i] = mMonitorObjects[i] /\ mMonitorObjects[i].name \in Names
      BY <1>0, <1>3, <2>2, Typing
    <3>2. Called(mMonitorObjects[i].name) = {i}
      BY <1>3, <2>2, <3>1 DEF Called
    <3> QED BY <1>0, <2>2, <3>1, <3>2 DEF LatestCheckIsKept
  <2> QED BY <1>3, <2>1, <2>2
<1>8. AllHeld'
  <2> SUFFICES ASSUME NEW m \in Names, NEW c \in CheckNames PROVE Held(m, c)'
    BY DEF AllHeld
  <2>1. Held(m, c)
    BY <1>0 DEF AllHeld
  <2>2. \A i \in Called(m) : mMonitorObjects'[i] = mMonitorObjects[i]
    BY <1>3 DEF Called
  <2>3. mMonitorObjects'[last].has.checks[c] = None
    BY <1>3, BareIsContents
  <2> QED BY <1>1, <1>4, <2>1, <2>2, <2>3 DEF Held
<1> QED BY <1>5, <1>6, <1>7, <1>8 DEF OInv

\* Object i of name n now has held, while wanted is what was asked for: they
\* stay equal if they were, and each check is left alone or set in both.
Puts(n, i, held, wanted) ==
  /\ mMonitorObjects' = [mMonitorObjects EXCEPT ![i] = [name |-> n, has |-> held]]
  /\ asked' = [asked EXCEPT ![n] = wanted]
  /\ mMonitorObjects[i].has = asked[n] => held = wanted
  /\ \A c \in CheckNames :
       \/ held.checks[c] = mMonitorObjects[i].has.checks[c] /\ wanted.checks[c] = asked[n].checks[c]
       \/ held.checks[c] = wanted.checks[c] /\ wanted.checks[c] # None

\* What is put on an object of a name is what was asked for under that name.
LEMMA PutPreserves ==
  ASSUME OInv, NEW n \in Names, NEW i \in Called(n),
         NEW held \in Contents, NEW wanted \in Contents, Puts(n, i, held, wanted)
  PROVE  OInv'
<1> USE DEF Puts
<1>0. TypeOK /\ NothingAsked /\ LatestCheckIsKept /\ AllHeld
  BY DEF OInv
<1>1. i \in DOMAIN mMonitorObjects /\ mMonitorObjects[i].name = n
  BY DEF Called
<1>2. /\ DOMAIN mMonitorObjects' = DOMAIN mMonitorObjects
      /\ mMonitorObjects'[i] = [name |-> n, has |-> held]
      /\ \A j \in DOMAIN mMonitorObjects : j # i => mMonitorObjects'[j] = mMonitorObjects[j]
  BY <1>1
<1>3. \A m : Called(m)' = Called(m)
  BY <1>1, <1>2 DEF Called
<1>4. asked'[n] = wanted /\ \A m \in Names : m # n => asked'[m] = asked[m]
  BY <1>0 DEF TypeOK
<1>5. TypeOK'
  <2>1. mMonitorObjects' \in Seq([name : Names, has : Contents])
    <3>1. [name |-> n, has |-> held] \in [name : Names, has : Contents]
      OBVIOUS
    <3> QED BY <1>0, <1>1, <3>1, ElementReplaced DEF TypeOK
  <2> QED BY <1>0, <2>1 DEF TypeOK
<1>6. NothingAsked'
  BY <1>0, <1>3, <1>4 DEF NothingAsked
<1>7. LatestCheckIsKept'
  <2> SUFFICES ASSUME NEW j \in DOMAIN mMonitorObjects, Called(mMonitorObjects'[j].name) = {j}
               PROVE  mMonitorObjects'[j].has = asked'[mMonitorObjects'[j].name]
    BY <1>2, <1>3 DEF LatestCheckIsKept
  <2>1. CASE j = i
    BY <1>0, <1>1, <1>2, <1>4, <2>1 DEF LatestCheckIsKept
  <2>2. CASE j # i
    <3>1. mMonitorObjects'[j] = mMonitorObjects[j] /\ mMonitorObjects[j].name \in Names
      BY <1>0, <1>2, <2>2, Typing
    <3>2. mMonitorObjects[j].name # n
      BY <2>2, <3>1
    <3> QED BY <1>0, <1>4, <3>1, <3>2 DEF LatestCheckIsKept
  <2> QED BY <2>1, <2>2
<1>8. AllHeld'
  <2> SUFFICES ASSUME NEW m \in Names, NEW c \in CheckNames PROVE Held(m, c)'
    BY DEF AllHeld
  <2>1. Held(m, c)
    BY <1>0 DEF AllHeld
  <2>2. CASE m # n
    <3>1. \A j \in Called(m) : mMonitorObjects'[j] = mMonitorObjects[j]
      BY <1>1, <1>2, <2>2 DEF Called
    <3> QED BY <1>3, <1>4, <2>1, <2>2, <3>1 DEF Held
  <2>3. CASE m = n
    <3>1. mMonitorObjects'[i].has.checks[c] = held.checks[c] /\ asked'[n].checks[c] = wanted.checks[c]
      BY <1>2, <1>4
    <3>2. \A j \in Called(n) : j # i => mMonitorObjects'[j] = mMonitorObjects[j]
      BY <1>2 DEF Called
    <3>3. CASE held.checks[c] = mMonitorObjects[i].has.checks[c] /\ wanted.checks[c] = asked[n].checks[c]
      BY <1>3, <2>1, <2>3, <3>1, <3>2, <3>3 DEF Held
    <3>4. CASE held.checks[c] = wanted.checks[c] /\ wanted.checks[c] # None
      BY <1>3, <2>3, <3>1, <3>4 DEF Held
    <3> QED BY <3>3, <3>4
  <2> QED BY <2>2, <2>3
<1> QED BY <1>5, <1>6, <1>7, <1>8 DEF OInv

\* A check that is set, whether it was there or not.
LEMMA SetCheckPreserves ==
  ASSUME OInv, NEW n \in Names, NEW i \in Called(n), NEW c \in CheckNames,
         NEW def \in Definitions, SetCheck(i, n, c, def)
  PROVE  OInv'
<1> DEFINE old == mMonitorObjects[i].has
           held == [old EXCEPT !.checks[c] = def]
           wanted == [asked[n] EXCEPT !.checks[c] = def]
<1>0. TypeOK /\ i \in DOMAIN mMonitorObjects /\ mMonitorObjects[i].name = n
  BY DEF OInv, Called
<1>1. mMonitorObjects[i] \in [name : Names, has : Contents] /\ asked \in [Names -> Contents]
  BY <1>0, Typing DEF TypeOK
<1>2. old \in Contents /\ asked[n] \in Contents
  BY <1>1
<1>3. held \in Contents /\ wanted \in Contents
  BY <1>2 DEF Contents
<1>4. /\ held.checks[c] = def /\ wanted.checks[c] = def
      /\ \A d \in CheckNames : d # c => held.checks[d] = old.checks[d] /\ wanted.checks[d] = asked[n].checks[d]
  BY <1>2 DEF Contents
<1>5. mMonitorObjects' = [mMonitorObjects EXCEPT ![i] = [name |-> n, has |-> held]]
  <2>1. mMonitorObjects' = [mMonitorObjects EXCEPT ![i] = [mMonitorObjects[i] EXCEPT !.has = held]]
    BY DEF SetCheck
  <2>2. [mMonitorObjects[i] EXCEPT !.has = held] = [name |-> n, has |-> held]
    BY <1>0, <1>1
  <2> QED BY <2>1, <2>2
<1>6. asked' = [asked EXCEPT ![n] = wanted]
  BY DEF SetCheck
<1>7. def # None
  BY NoneIsNoDefinition
<1>8. \A d \in CheckNames :
        \/ held.checks[d] = old.checks[d] /\ wanted.checks[d] = asked[n].checks[d]
        \/ held.checks[d] = wanted.checks[d] /\ wanted.checks[d] # None
  BY <1>4, <1>7
<1>9. old = asked[n] => held = wanted
  OBVIOUS
<1> HIDE DEF held, wanted
<1>10. Puts(n, i, held, wanted)
  BY <1>3, <1>5, <1>6, <1>8, <1>9 DEF Puts
<1> QED BY <1>3, <1>10, PutPreserves

LEMMA MetadataPreserves ==
  ASSUME OInv, NEW n \in Names, NEW value \in Values, AddMetadata(n, value)
  PROVE  OInv'
<1> PICK i \in FindObject(n) \ {NotFound} :
      /\ mMonitorObjects' = [mMonitorObjects EXCEPT ![i].has.metadata = value]
      /\ asked' = [asked EXCEPT ![n].metadata = value]
  BY DEF AddMetadata
<1> DEFINE old == mMonitorObjects[i].has
           held == [old EXCEPT !.metadata = value]
           wanted == [asked[n] EXCEPT !.metadata = value]
<1>0. TypeOK /\ i \in Called(n) /\ i \in DOMAIN mMonitorObjects /\ mMonitorObjects[i].name = n
  BY FoundIsCalled DEF OInv
<1>1. mMonitorObjects[i] \in [name : Names, has : Contents] /\ asked \in [Names -> Contents]
  BY <1>0, Typing DEF TypeOK
<1>2. old \in Contents /\ asked[n] \in Contents
  BY <1>1
<1>3. held \in Contents /\ wanted \in Contents
  BY <1>2 DEF Contents
<1>4. held.checks = old.checks /\ wanted.checks = asked[n].checks
  BY <1>2 DEF Contents
<1>5. mMonitorObjects' = [mMonitorObjects EXCEPT ![i] = [name |-> n, has |-> held]]
  <2>1. mMonitorObjects' = [mMonitorObjects EXCEPT ![i] = [mMonitorObjects[i] EXCEPT !.has = held]]
    OBVIOUS
  <2>2. [mMonitorObjects[i] EXCEPT !.has = held] = [name |-> n, has |-> held]
    BY <1>0, <1>1
  <2> QED BY <2>1, <2>2
<1>6. asked' = [asked EXCEPT ![n] = wanted]
  OBVIOUS
<1>7. old = asked[n] => held = wanted
  OBVIOUS
<1>8. i \in Called(n)
  BY <1>0
<1> HIDE DEF held, wanted
<1>9. Puts(n, i, held, wanted)
  BY <1>3, <1>4, <1>5, <1>6, <1>7 DEF Puts
<1> QED BY <1>3, <1>9, <1>8, PutPreserves

LEMMA StepPreserves == OInv /\ [Next]_vars => OInv'
<1> SUFFICES ASSUME OInv, [Next]_vars PROVE OInv'
  OBVIOUS
<1>0. TypeOK
  BY DEF OInv
<1>1. ASSUME NEW n \in Names, NEW c \in CheckNames, NEW class \in Classes, AddCheck(n, c, class)
      PROVE  OInv'
  <2> DEFINE def == [class |-> class, result |-> Null]
  <2>1. def \in Definitions
    BY DEF Definitions
  <2>2. \E i \in FindObject(n) \ {NotFound} : SetCheck(i, n, c, def)
    BY <1>1 DEF AddCheck, SetCheck, Replaced
  <2> QED BY <1>0, <2>1, <2>2, FoundIsCalled, SetCheckPreserves
<1>2. ASSUME NEW n \in Names, NEW c \in CheckNames, NEW def \in Definitions,
             AddOrReplaceCheck(n, c, def)
      PROVE  OInv'
  BY <1>0, <1>2, FoundIsCalled, SetCheckPreserves DEF AddOrReplaceCheck
<1>3. ASSUME NEW n \in Names, NEW c \in CheckNames, NEW quality \in Qualities,
             SetQualityForCheck(n, c, quality)
      PROVE  OInv'
  <2> PICK i \in FindObject(n) \ {NotFound} :
        /\ mMonitorObjects[i].has.checks[c] # None
        /\ SetCheck(i, n, c, [mMonitorObjects[i].has.checks[c] EXCEPT !.result = quality])
    BY <1>3 DEF SetQualityForCheck
  <2>1. i \in Called(n) /\ i \in DOMAIN mMonitorObjects
    BY <1>0, FoundIsCalled
  <2>2. mMonitorObjects[i].has.checks[c] \in Definitions
    BY <1>0, <2>1, Typing
  <2>3. [mMonitorObjects[i].has.checks[c] EXCEPT !.result = quality] \in Definitions
    BY <2>2 DEF Definitions
  <2> QED BY <2>1, <2>3, SetCheckPreserves
<1>4. ASSUME NEW n \in Names, GetQuality(n) PROVE OInv'
  <2>1. UNCHANGED <<mMonitorObjects, asked>>
    BY <1>4 DEF GetQuality
  <2> QED BY <2>1 DEF OInv, TypeOK, NothingAsked, LatestCheckIsKept, AllHeld, Held, Called
<1>5. CASE UNCHANGED vars
  <2>1. UNCHANGED <<mMonitorObjects, asked>>
    BY <1>5 DEF vars
  <2> QED BY <2>1 DEF OInv, TypeOK, NothingAsked, LatestCheckIsKept, AllHeld, Held, Called
<1> QED
  BY <1>1, <1>2, <1>3, <1>4, <1>5, PublishingPreserves, MetadataPreserves DEF Next

LEMMA Invariance == Spec => []OInv
  BY InitEstablishes, StepPreserves, PTL DEF Spec

-----------------------------------------------------------------------------
\* While a name is that of one object, the object has what was asked for last
\* under its name, whatever objects are published and whichever lookups miss.
THEOREM LatestIsKept == Spec => []LatestCheckIsKept
<1>1. OInv => LatestCheckIsKept
  BY DEF OInv
<1> QED BY <1>1, Invariance, PTL

\* Of several objects of one name, none has a check nobody asked for, and the
\* check that was asked for last is on one of them.
THEOREM NothingGoesAstray == Spec => []NothingAstray
<1>1. OInv => NothingAstray
  <2> SUFFICES ASSUME OInv, NEW n \in Names, NEW c \in CheckNames
               PROVE  LET held == {mMonitorObjects[i].has.checks[c] : i \in Called(n)} \ {None}
                      IN IF asked[n].checks[c] = None THEN held = {} ELSE asked[n].checks[c] \in held
    BY DEF NothingAstray
  <2>1. Held(n, c)
    BY DEF OInv, AllHeld
  <2> QED BY <2>1 DEF Held
<1> QED BY <1>1, Invariance, PTL

-----------------------------------------------------------------------------
(***************************************************************************)
(* The tasks that count files and errors (SimpleDS.cxx). A file that is    *)
(* begun is told from the one before it, except the first of QCGeneral,    *)
(* whose numbers may be those that were in memory.                         *)
(***************************************************************************)
FilesInv ==
  /\ task \in {"SimpleDS", "QCGeneral"} /\ finished \in BOOLEAN
  /\ files \in Nat /\ begun \in Int /\ base \in Int /\ TotalFileDone \in Int
  /\ RunIDPre \in Int
  /\ files = 0 => finished /\ (task = "SimpleDS" => RunIDPre = 0)
  /\ \/ TotalFileDone = base + begun
     \/ task = "QCGeneral" /\ files > 0 /\ TotalFileDone = base + begun - 1

LEMMA FilesStart == ItsInit => FilesInv
<1> SUFFICES ASSUME ItsInit PROVE FilesInv
  OBVIOUS
<1>1. /\ task \in {"SimpleDS", "QCGeneral"} /\ finished = TRUE /\ files = 0 /\ begun = 0
      /\ base = TotalFileDone
  BY DEF ItsInit
<1>2. /\ RunIDPre \in Int /\ TotalFileDone \in Int
      /\ task = "SimpleDS" => RunIDPre = 0
  <2>1. \A x \in Memory : x \in Int
    BY PlotsAssumption
  <2>2. CASE task = "SimpleDS"
    BY <2>2 DEF ItsInit
  <2>3. CASE task # "SimpleDS"
    BY <2>1, <2>3 DEF ItsInit
  <2> QED BY <2>2, <2>3
<1> QED BY <1>1, <1>2 DEF FilesInv

\* A message, whether the task clears what it kept or not, counts the file it
\* begins; the first file of QCGeneral may look like the one before it.
LEMMA MessageKeepsFiles ==
  ASSUME FilesInv, NEW r \in 1 .. MaxRuns, NEW f \in Files, NEW finish \in BOOLEAN,
         NEW reset \in BOOLEAN, NEW n \in 0 .. 2, NEW pixels, Message(r, f, finish, reset, n, pixels)
  PROVE  FilesInv'
<1>0. f \in Int /\ r \in Int /\ r > 0
  BY BoundsAssumption
<1>1. /\ files' = files + (IF finished THEN 1 ELSE 0) /\ finished' = finish
      /\ begun' = (IF Clears(reset) THEN 0 ELSE begun) + (IF finished THEN 1 ELSE 0)
      /\ base' = IF Clears(reset) THEN (IF finished THEN -1 ELSE 0) ELSE base
  BY DEF Message
<1>2. /\ task' = task /\ RunIDPre' = r
      /\ TotalFileDone' = IF Clears(reset) THEN 0 ELSE Count(r, f)
  BY DEF Message, MonitorData, MonitorDataGeneral, Clears
<1>3. /\ ~finished => r = RunIDPre /\ f = FileIDPre
      /\ finished /\ files > 0 => FileChanged(r, f)
      /\ finished /\ files = 0 /\ task = "SimpleDS" => FileChanged(r, f)
  <2>1. CASE finished /\ files = 0
    BY <1>0, <2>1 DEF FilesInv, FileChanged
  <2>2. CASE finished /\ files > 0
    <3>1. \/ r = RunIDPre /\ f # FileIDPre
          \/ r = RunIDPre + 1
      BY <2>2 DEF Message, FilesInv
    <3>2. RunIDPre \in Int
      BY DEF FilesInv
    <3> QED BY <1>0, <2>2, <3>1, <3>2 DEF FileChanged
  <2>3. CASE ~finished
    BY <2>3 DEF Message
  <2> QED BY <2>1, <2>2, <2>3 DEF FilesInv
<1> DEFINE add == IF FileChanged(r, f) THEN 1 ELSE 0
           one == IF finished THEN 1 ELSE 0
<1>4. /\ add = one \/ (task = "QCGeneral" /\ files = 0 /\ finished /\ add = 0 /\ one = 1)
      /\ add \in {0, 1} /\ one \in {0, 1}
  BY <1>3 DEF FilesInv, FileChanged
<1>5. Count(r, f) = TotalFileDone + add
  BY DEF Count
<1>6. /\ files \in Nat /\ begun \in Int /\ base \in Int /\ TotalFileDone \in Int
      /\ task \in {"SimpleDS", "QCGeneral"}
      /\ \/ TotalFileDone = base + begun
         \/ task = "QCGeneral" /\ files > 0 /\ TotalFileDone = base + begun - 1
  BY DEF FilesInv
<1>7. files' = files + one /\ (one = 0 => files > 0)
  BY <1>1 DEF FilesInv
<1>8. /\ begun' \in Int /\ base' \in Int /\ TotalFileDone' \in Int
      /\ \/ TotalFileDone' = base' + begun'
         \/ task = "QCGeneral" /\ TotalFileDone' = base' + begun' - 1
  <2>1. CASE Clears(reset)
    BY <1>1, <1>2, <2>1
  <2>2. CASE ~Clears(reset)
    <3>1. begun' = begun + one /\ base' = base /\ TotalFileDone' = TotalFileDone + add
      BY <1>1, <1>2, <1>5, <2>2
    <3> HIDE DEF add, one
    <3> QED BY <3>1, <1>4, <1>6
  <2> QED BY <2>1, <2>2
<1>9. files' \in Nat /\ files' > 0
  <2> HIDE DEF one
  <2> QED BY <1>4, <1>6, <1>7
<1> QED BY <1>0, <1>1, <1>2, <1>6, <1>8, <1>9 DEF FilesInv

LEMMA FilesStep == FilesInv /\ [ItsNext]_itsVars => FilesInv'
<1> SUFFICES ASSUME FilesInv, [ItsNext]_itsVars PROVE FilesInv'
  OBVIOUS
<1>1. ASSUME NEW r \in 1 .. MaxRuns, NEW f \in Files, NEW finish \in BOOLEAN,
             NEW reset \in BOOLEAN, NEW n \in 0 .. 2, NEW pixels \in Pixels,
             Message(r, f, finish, reset, n, pixels)
      PROVE  FilesInv'
  BY <1>1, MessageKeepsFiles
<1>2. CASE Reset
  BY <1>2 DEF Reset, FilesInv
<1>3. CASE UNCHANGED itsVars
  BY <1>3 DEF itsVars, account, history, FilesInv
<1> QED BY <1>1, <1>2, <1>3 DEF ItsNext

\* Over any runs, files and resets the count of files is that of the files
\* begun since the last reset, less the one whose first message asked for it;
\* what is uninitialised costs QCGeneral at most one file.
THEOREM EveryFileIsCounted == ItsSpec => []FilesCounted
<1>1. FilesInv => FilesCounted
  BY DEF FilesInv, FilesCounted
<1> QED BY <1>1, FilesStart, FilesStep, PTL DEF ItsSpec

-----------------------------------------------------------------------------
(***************************************************************************)
(* Numbers of a word. The difference of two totals that wrapped is that of *)
(* the totals.                                                             *)
(***************************************************************************)
LEMMA OneRemainder ==
  ASSUME NEW w \in Nat \ {0}, NEW p \in Int, NEW q \in Int,
         NEW r \in 0 .. w - 1, NEW s \in 0 .. w - 1, w * p + r = w * q + s
  PROVE  r = s
<1> DEFINE d == p - q
<1>1. d \in Int /\ w * d = s - r
  OBVIOUS
<1> HIDE DEF d
<1>2. CASE d >= 1
  <2>1. w * d >= w
    BY <1>1, <1>2
  <2> QED BY <1>1, <2>1
<1>3. CASE d <= -1
  <2>1. w * d <= -w
    BY <1>1, <1>3
  <2> QED BY <1>1, <2>1
<1>4. CASE d = 0
  BY <1>1, <1>4
<1> QED BY <1>1, <1>2, <1>3, <1>4

LEMMA Division ==
  ASSUME NEW w \in Nat \ {0}, NEW a \in Int
  PROVE  a \div w \in Int /\ a % w \in 0 .. w - 1 /\ a = w * (a \div w) + (a % w)
<1>1. a \div w \in Int
  OBVIOUS
<1>2. a % w \in 0 .. w - 1
  OBVIOUS
<1>3. a = w * (a \div w) + (a % w)
  OBVIOUS
<1> QED BY <1>1, <1>2, <1>3

LEMMA SameRemainder ==
  ASSUME NEW w \in Nat \ {0}, NEW a \in Int, NEW b \in Int, NEW k \in Int, a = b + w * k
  PROVE  a % w = b % w
<1> DEFINE p == a \div w
           q == b \div w
           r == a % w
           s == b % w
<1>1. p \in Int /\ q \in Int /\ r \in 0 .. w - 1 /\ s \in 0 .. w - 1
  BY Division
<1>2. a = w * p + r /\ b = w * q + s
  BY Division
<1> HIDE DEF p, q, r, s
<1>3. w * p + r = w * (q + k) + s
  BY <1>1, <1>2
<1>4. q + k \in Int
  BY <1>1
<1>5. r = s
  BY <1>1, <1>3, <1>4, OneRemainder
<1> QED BY <1>5 DEF r, s

LEMMA DifferenceOfWords ==
  ASSUME NEW w \in Nat \ {0}, NEW a \in Int, NEW b \in Int
  PROVE  ((a % w) - (b % w)) % w = (a - b) % w
<1> DEFINE p == a \div w
           q == b \div w
           r == a % w
           s == b % w
<1>1. p \in Int /\ q \in Int /\ r \in Int /\ s \in Int /\ a = w * p + r /\ b = w * q + s
  BY Division
<1> HIDE DEF p, q, r, s
<1>2. r - s = (a - b) + w * (q - p)
  BY <1>1
<1>3. r - s \in Int /\ a - b \in Int /\ q - p \in Int
  BY <1>1
<1>4. (r - s) % w = (a - b) % w
  BY <1>2, <1>3, SameRemainder
<1> QED BY <1>4 DEF r, s

\* What the errors of the next message are compared with is the total of when
\* the current file began.
ErrorsInv ==
  /\ finished \in BOOLEAN /\ total \in Nat /\ inFile \in Nat
  /\ task = "SimpleDS" =>
       /\ ErrorPre = (total - (IF finished THEN 0 ELSE inFile)) % Word
       /\ ErrorFile \in [Columns -> Int] /\ ofFile \in [Files -> Int]
       /\ \A f \in Files : f < NColumns => ErrorFile[f] = Shown(ofFile[f] % Word)

LEMMA ZeroIsAWord == 0 % Word = 0
<1>1. Word \in Nat \ {0}
  BY BoundsAssumption
<1> QED BY <1>1

\* A file below NColumns has a column of its own.
LEMMA ColumnOf ==
  ASSUME NEW f \in Files
  PROVE  /\ Column(f) \in Columns
         /\ \A g \in Files : g < NColumns => g \in Columns /\ (Column(f) = g <=> f = g)
  BY PlotsAssumption, BoundsAssumption DEF Column, Columns

LEMMA ShownIsInt == ASSUME NEW n \in Int PROVE Shown(n) \in Int
  BY PlotsAssumption DEF Shown

LEMMA NothingMet ==
  /\ NoErrors \in [Files -> Int] /\ NoColumns \in [Columns -> Int]
  /\ \A f \in Files : f < NColumns => NoColumns[f] = Shown(NoErrors[f] % Word)
<1>1. \A f \in Files : NoErrors[f] % Word = 0
  BY ZeroIsAWord DEF NoErrors
<1>2. Shown(0) = 0
  BY PlotsAssumption DEF Shown
<1>3. \A f \in Files : f < NColumns => NoColumns[f] = 0
  BY ColumnOf DEF NoColumns
<1> QED BY <1>1, <1>2, <1>3 DEF NoErrors, NoColumns

LEMMA ErrorsStart == ItsInit => ErrorsInv
<1> SUFFICES ASSUME ItsInit PROVE ErrorsInv
  OBVIOUS
<1>1. /\ finished = TRUE /\ total = 0 /\ inFile = 0 /\ ErrorPre = 0
      /\ ErrorFile = NoColumns /\ ofFile = NoErrors
  BY DEF ItsInit
<1>2. total - 0 = 0
  BY <1>1
<1> QED BY <1>1, <1>2, NothingMet, ZeroIsAWord DEF ErrorsInv

\* The column of the file takes the errors since the file began; the columns of
\* the others stay, or are emptied with what is counted for them.
LEMMA MessageKeepsErrors ==
  ASSUME ErrorsInv, NEW r, NEW f \in Files, NEW finish \in BOOLEAN,
         NEW reset \in BOOLEAN, NEW n \in 0 .. 2, NEW pixels, Message(r, f, finish, reset, n, pixels)
  PROVE  ErrorsInv'
<1> DEFINE x == IF finished THEN 0 ELSE inFile
<1>1. /\ finished' = finish /\ total' = total + n /\ inFile' = x + n
      /\ total \in Nat /\ inFile \in Nat /\ n \in Nat /\ x \in Nat
  BY DEF Message, ErrorsInv
<1>2. finished' \in BOOLEAN /\ total' \in Nat /\ inFile' \in Nat
  BY <1>1
<1>3. task' = task
  BY DEF Message, MonitorData, MonitorDataGeneral
<1>4. ASSUME task = "SimpleDS"
      PROVE  /\ ErrorPre' = (total' - (IF finished' THEN 0 ELSE inFile')) % Word
             /\ ErrorFile' \in [Columns -> Int] /\ ofFile' \in [Files -> Int]
             /\ \A g \in Files : g < NColumns => ErrorFile'[g] = Shown(ofFile'[g] % Word)
  <2> DEFINE errs == (total + n) % Word
             column == IF reset THEN NoColumns ELSE ErrorFile
             now == Shown(Minus(errs, ErrorPre))
             met == IF reset THEN NoErrors ELSE ofFile
  <2>1. /\ ErrorFile' = [column EXCEPT ![Column(f)] = now]
        /\ ErrorPre' = IF finish THEN errs ELSE ErrorPre
        /\ ofFile' = [met EXCEPT ![f] = inFile']
    BY <1>4 DEF Message, MonitorData, MonitorDataGeneral, ErrorPreAfterReset, Clears
  <2>2. /\ ErrorPre = (total - x) % Word
        /\ ErrorFile \in [Columns -> Int] /\ ofFile \in [Files -> Int]
        /\ \A g \in Files : g < NColumns => ErrorFile[g] = Shown(ofFile[g] % Word)
    BY <1>4 DEF ErrorsInv
  <2>3. /\ column \in [Columns -> Int] /\ met \in [Files -> Int]
        /\ \A g \in Files : g < NColumns => column[g] = Shown(met[g] % Word)
    BY <2>2, NothingMet
  <2>4. Word \in Nat \ {0}
    BY BoundsAssumption
  <2> HIDE DEF x
  <2>5. Minus(errs, ErrorPre) = inFile' % Word /\ Minus(errs, ErrorPre) \in Int
    <3>1. total + n \in Int /\ total - x \in Int /\ (total + n) - (total - x) = x + n
      BY <1>1
    <3>2. (((total + n) % Word) - ((total - x) % Word)) % Word = (x + n) % Word
      BY <2>4, <3>1, DifferenceOfWords
    <3>3. Minus(errs, ErrorPre) = (x + n) % Word
      BY <2>2, <3>2 DEF Minus
    <3>4. x + n \in Int
      BY <1>1
    <3>5. (x + n) % Word \in Int
      BY <2>4, <3>4, Division
    <3> QED BY <1>1, <3>3, <3>5
  <2>6. ErrorPre' = (total' - (IF finished' THEN 0 ELSE inFile')) % Word
    <3>1. CASE finish
      <4>1. total' - 0 = total + n
        BY <1>1
      <4> QED BY <1>1, <2>1, <3>1, <4>1
    <3>2. CASE ~finish
      <4>1. total' - inFile' = total - x
        BY <1>1
      <4> QED BY <1>1, <2>1, <2>2, <3>2, <4>1
    <3> QED BY <3>1, <3>2
  <2>7. now = Shown(inFile' % Word) /\ now \in Int
    BY <2>5, ShownIsInt
  <2> HIDE DEF errs, column, met, now
  <2>8. ErrorFile' \in [Columns -> Int] /\ ofFile' \in [Files -> Int]
    <3>1. ErrorFile' \in [Columns -> Int]
      BY ONLY <2>1, <2>3, <2>7
    <3>2. ofFile' \in [Files -> Int]
      <4>1. inFile' \in Int
        BY ONLY <1>1
      <4> QED BY ONLY <2>1, <2>3, <4>1
    <3> QED BY <3>1, <3>2
  <2>9. ASSUME NEW g \in Files, g < NColumns PROVE ErrorFile'[g] = Shown(ofFile'[g] % Word)
    <3>1. g \in Columns /\ (Column(f) = g <=> f = g)
      BY <2>9, ColumnOf
    <3>2. CASE g = f
      <4>1. ErrorFile'[g] = now /\ ofFile'[g] = inFile'
        BY <2>1, <2>3, <3>1, <3>2
      <4> QED BY <2>7, <4>1
    <3>3. CASE g # f
      <4>1. ErrorFile'[g] = column[g] /\ ofFile'[g] = met[g]
        BY <2>1, <2>3, <3>1, <3>3
      <4> QED BY <2>3, <2>9, <4>1
    <3> QED BY <3>2, <3>3
  <2> QED BY <2>6, <2>8, <2>9
<1> QED BY <1>2, <1>3, <1>4 DEF ErrorsInv

LEMMA ErrorsStep == ErrorsInv /\ [ItsNext]_itsVars => ErrorsInv'
<1> SUFFICES ASSUME ErrorsInv, [ItsNext]_itsVars PROVE ErrorsInv'
  OBVIOUS
<1>1. ASSUME NEW r \in 1 .. MaxRuns, NEW f \in Files, NEW finish \in BOOLEAN,
             NEW reset \in BOOLEAN, NEW n \in 0 .. 2, NEW pixels \in Pixels,
             Message(r, f, finish, reset, n, pixels)
      PROVE  ErrorsInv'
  BY <1>1, MessageKeepsErrors
<1>2. CASE Reset
  BY <1>2, NothingMet DEF Reset, ErrorsInv
<1>3. CASE UNCHANGED itsVars
  BY <1>3 DEF itsVars, account, history, ErrorsInv
<1> QED BY <1>1, <1>2, <1>3 DEF ItsNext

\* Whatever the width of a word and however often the totals of the decoder wrap
\* or a reset comes in the middle of a file, the column of each file that has one
\* of its own holds the errors met in it since it began, as far as an int can.
THEOREM ErrorsSurviveWrap == ItsSpec => []ErrorsOfFile
<1>1. ErrorsInv => ErrorsOfFile
  BY DEF ErrorsInv, ErrorsOfFile
<1> QED BY <1>1, ErrorsStart, ErrorsStep, PTL DEF ItsSpec

-----------------------------------------------------------------------------
(***************************************************************************)
(* The plots. A message fills its digits one after the other; the fold     *)
(* that does so is a sequence of plots, each with one digit more.          *)
(***************************************************************************)
PlotTypes ==
  [counter : Int, ChipIDPre : Chips \cup {Nowhere}, etaPhi : Positions,
   LayEtaPhi : [Layers -> [Positions -> Nat]],
   OccupancyPlot : [Layers -> [Bins -> Nat]],
   LayChipStave : [Chips -> Nat]]

LEMMA MoreIs == \A n \in Nat : More(n) \in Nat /\ n <= More(n) /\ More(n) <= n + 1
                               /\ (More(n) < BinMax => More(n) = n + 1)
  BY PlotsAssumption DEF More

LEMMA BinIs ==
  ASSUME NEW n \in Int
  PROVE  /\ Bin(n) \in Bins /\ (n >= 0 => Bin(n) <= n)
         /\ (Bin(n) # NEventMax => Bin(n) = n)
  BY PlotsAssumption DEF Bin, Bins

LEMMA FillIs ==
  ASSUME NEW h \in PlotTypes, NEW c \in Chips
  PROVE  /\ Fill(h, c) \in PlotTypes
         /\ Fill(h, c).etaPhi = PositionOf[c]
         /\ Fill(h, c).counter = (IF c # h.ChipIDPre THEN 0 ELSE h.counter) + 1
         /\ \A l \in Layers, q \in Positions :
              Fill(h, c).LayEtaPhi[l][q]
                = IF l = LayerOf[c] /\ q = h.etaPhi THEN More(h.LayEtaPhi[l][q])
                                                    ELSE h.LayEtaPhi[l][q]
         /\ \A l \in Layers, n \in Bins :
              Fill(h, c).OccupancyPlot[l][n]
                = h.OccupancyPlot[l][n]
                    + (IF l = LayerOf[c] /\ n = Bin(h.counter) THEN Changed(h, c) ELSE 0)
<1> DEFINE k == LayerOf[c]
           d == Changed(h, c)
           z == Bin(h.counter)
           occ == [h.OccupancyPlot EXCEPT ![k][z] = @ + d]
           eta == [h.LayEtaPhi EXCEPT ![k][h.etaPhi] = More(@)]
           chips == [h.LayChipStave EXCEPT ![c] = More(@)]
           counter == (IF c # h.ChipIDPre THEN 0 ELSE h.counter) + 1
<1>1. /\ h.counter \in Int /\ h.etaPhi \in Positions
      /\ h.LayEtaPhi \in [Layers -> [Positions -> Nat]]
      /\ h.OccupancyPlot \in [Layers -> [Bins -> Nat]]
      /\ h.LayChipStave \in [Chips -> Nat]
  BY DEF PlotTypes
<1>2. /\ k \in Layers /\ d \in Nat /\ z \in Bins /\ PositionOf[c] \in Positions
  BY <1>1, ChipsAssumption, BinIs DEF Changed
<1>3. Fill(h, c) = [counter |-> counter, ChipIDPre |-> c, etaPhi |-> PositionOf[c],
                    LayEtaPhi |-> eta, OccupancyPlot |-> occ, LayChipStave |-> chips]
  <2>1. h = [counter |-> h.counter, ChipIDPre |-> h.ChipIDPre, etaPhi |-> h.etaPhi,
             LayEtaPhi |-> h.LayEtaPhi, OccupancyPlot |-> h.OccupancyPlot,
             LayChipStave |-> h.LayChipStave]
    BY DEF PlotTypes
  <2>2. Fill(h, c) = [h EXCEPT !.OccupancyPlot = occ, !.counter = counter, !.LayEtaPhi = eta,
                               !.LayChipStave = chips, !.etaPhi = PositionOf[c], !.ChipIDPre = c]
    BY DEF Fill
  <2> HIDE DEF occ, eta, chips, counter
  <2> QED BY <2>1, <2>2
<1>4. /\ eta \in [Layers -> [Positions -> Nat]]
      /\ \A l \in Layers, q \in Positions :
           eta[l][q] = IF l = k /\ q = h.etaPhi THEN More(h.LayEtaPhi[l][q]) ELSE h.LayEtaPhi[l][q]
  <2> DEFINE e == h.LayEtaPhi
             row == [e[k] EXCEPT ![h.etaPhi] = More(@)]
  <2>1. e \in [Layers -> [Positions -> Nat]] /\ eta = [e EXCEPT ![k] = row]
    BY <1>1
  <2>2. /\ row \in [Positions -> Nat]
        /\ \A q \in Positions : row[q] = IF q = h.etaPhi THEN More(e[k][q]) ELSE e[k][q]
    BY <1>1, <1>2, MoreIs
  <2> HIDE DEF e, row, eta, k
  <2> QED BY <1>2, <2>1, <2>2 DEF e
<1>5. /\ occ \in [Layers -> [Bins -> Nat]]
      /\ \A l \in Layers, n \in Bins :
           occ[l][n] = h.OccupancyPlot[l][n] + (IF l = k /\ n = z THEN d ELSE 0)
  <2> DEFINE e == h.OccupancyPlot
             row == [e[k] EXCEPT ![z] = @ + d]
  <2>1. e \in [Layers -> [Bins -> Nat]] /\ occ = [e EXCEPT ![k] = row]
    BY <1>1
  <2> HIDE DEF d, z
  <2>2. /\ row \in [Bins -> Nat]
        /\ \A n \in Bins : row[n] = e[k][n] + (IF n = z THEN d ELSE 0)
    <3> DEFINE a == e[k]
    <3>1. a \in [Bins -> Nat] /\ d \in Nat
      BY <1>2, <2>1
    <3>2. row = [a EXCEPT ![z] = @ + d]
      OBVIOUS
    <3> HIDE DEF a, row
    <3>3. \A n \in Bins : a[n] \in Nat /\ row[n] = IF n = z THEN a[n] + d ELSE a[n]
      BY <3>1, <3>2
    <3>4. \A n \in Bins : row[n] \in Nat /\ row[n] = a[n] + (IF n = z THEN d ELSE 0)
      BY <3>1, <3>3
    <3>5. row = [n \in Bins |-> row[n]]
      BY <3>1, <3>2
    <3> QED BY <3>4, <3>5 DEF a
  <2> HIDE DEF e, row, occ, k
  <2>3. \A l \in Layers : occ[l] = IF l = k THEN row ELSE e[l]
    BY <2>1
  <2>4. \A l \in Layers : e[l] \in [Bins -> Nat]
    BY <2>1
  <2>5. occ \in [Layers -> [Bins -> Nat]]
    BY <2>1, <2>2
  <2>6. ASSUME NEW l \in Layers, NEW n \in Bins
        PROVE  occ[l][n] = e[l][n] + (IF l = k /\ n = z THEN d ELSE 0)
    <3>1. e[l][n] \in Nat
      BY <2>4
    <3> QED BY <2>2, <2>3, <3>1
  <2> QED BY <2>5, <2>6 DEF e
<1>6. chips \in [Chips -> Nat]
  BY <1>1, MoreIs
<1>7. counter \in Int
  BY <1>1
<1> HIDE DEF eta, occ, chips, counter, d, z
<1>8. Fill(h, c) \in PlotTypes
  BY <1>2, <1>3, <1>4, <1>5, <1>6, <1>7 DEF PlotTypes
<1>9. /\ Fill(h, c).etaPhi = PositionOf[c] /\ Fill(h, c).counter = counter
      /\ Fill(h, c).LayEtaPhi = eta /\ Fill(h, c).OccupancyPlot = occ
  BY <1>3
<1> QED BY <1>4, <1>5, <1>8, <1>9 DEF counter, d, z

\* A set of positions that has one has a last one.
LEMMA LastIsThere ==
  ASSUME NEW n \in Nat
  PROVE  \A s \in SUBSET (1 .. n) : s # {} => Max(s) \in s /\ \A x \in s : x <= Max(s)
<1> DEFINE D == 1 .. n
           Has(s) == \E x \in s : \A y \in s : x >= y
           G == {s \in SUBSET D : s # {} => Has(s)}
<1>1. ASSUME NEW s \in SUBSET D, \A t \in SUBSET s : t # s => t \in G PROVE s \in G
  <2> SUFFICES ASSUME s # {} PROVE Has(s)
    OBVIOUS
  <2>1. PICK x \in s : TRUE
    OBVIOUS
  <2>2. CASE s = {x}
    <3>1. x \in Int
      OBVIOUS
    <3>2. x \in s /\ \A y \in s : x >= y
      BY <2>2, <3>1
    <3> QED BY <3>2
  <2>3. CASE s # {x}
    <3>1. s \ {x} \in SUBSET s /\ s \ {x} # s /\ s \ {x} # {}
      BY <2>1, <2>3
    <3>2. PICK z \in s \ {x} : \A y \in s \ {x} : z >= y
      BY <1>1, <3>1
    <3>3. x \in Int /\ z \in Int /\ \A y \in s : y \in Int
      OBVIOUS
    <3>4. CASE x >= z
      <4>1. \A y \in s : x >= y
        BY <3>2, <3>3, <3>4
      <4> QED BY <2>1, <4>1
    <3>5. CASE ~(x >= z)
      <4>1. \A y \in s : z >= y
        BY <3>2, <3>3, <3>5
      <4> QED BY <3>2, <4>1
    <3> QED BY <3>4, <3>5
  <2> QED BY <2>2, <2>3
<1> HIDE DEF G
<1>2. IsFiniteSet(D)
  BY FS_Interval
<1>3. SUBSET D \subseteq G
  <2> HIDE DEF D
  <2> QED BY <1>1, <1>2, SubsetInduction
<1>4. ASSUME NEW s \in SUBSET (1 .. n), s # {}
      PROVE  Max(s) \in s /\ \A x \in s : x <= Max(s)
  <2>1. \E x \in s : \A y \in s : x >= y
    BY <1>3, <1>4 DEF G
  <2>2. Max(s) \in s /\ \A y \in s : Max(s) >= y
    BY <2>1 DEF Max
  <2>3. \A y \in s : y \in Int
    OBVIOUS
  <2> QED BY <2>2, <2>3
<1> QED BY <1>4

\* Filling digits is filling them one after the other.
LEMMA FillEquation ==
  ASSUME NEW h \in PlotTypes, NEW p \in Seq(Chips)
  PROVE  \E g \in [0 .. Len(p) -> PlotTypes] :
           /\ g[0] = h /\ g[Len(p)] = FoldLeft(Fill, h, p)
           /\ \A m \in 1 .. Len(p) : g[m] = Fill(g[m - 1], p[m])
<1> DEFINE n == Len(p)
           D == 1 .. n
           ch == [s \in SUBSET D |-> Max(s)]
           step == [s \in SUBSET D |-> [v \in PlotTypes |-> Fill(v, p[Max(s)])]]
           Is(g, u) == g = [s \in SUBSET u |-> IF s = {} THEN h
                                               ELSE Fill(g[s \ {Max(s)}], p[Max(s)])]
<1>0. n \in Nat /\ DOMAIN p = D /\ \A m \in D : p[m] \in Chips
  OBVIOUS
<1>1. \A s \in SUBSET D : s # {} => Max(s) \in s /\ \A x \in s : x <= Max(s)
  BY <1>0, LastIsThere
<1>2. IsFiniteSet(D)
  BY <1>0, FS_Interval
<1> HIDE DEF n, D
<1>3. PICK g \in [SUBSET D -> PlotTypes] : Recurs(g, D, h, ch, step)
  <2>1. \A s \in SUBSET D : s # {} => ch[s] \in s
    BY <1>1
  <2>2. \A s \in SUBSET D, v \in PlotTypes : s # {} => step[s][v] \in PlotTypes
    <3> SUFFICES ASSUME NEW s \in SUBSET D, NEW v \in PlotTypes, s # {}
                 PROVE  Fill(v, p[Max(s)]) \in PlotTypes
      OBVIOUS
    <3>1. p[Max(s)] \in Chips
      BY <1>0, <1>1
    <3> QED BY <3>1, FillIs
  <2> HIDE DEF ch, step
  <2> QED BY ONLY h \in PlotTypes, <1>2, <2>1, <2>2, FoldDefined
<1>4. \A s \in SUBSET D : g[s] = IF s = {} THEN h ELSE Fill(g[s \ {Max(s)}], p[Max(s)])
  BY <1>1, <1>3 DEF Recurs
<1>5. FoldLeft(Fill, h, p) = g[D]
  <2> DEFINE k == CHOOSE k : Is(k, D)
             G == {s \in SUBSET D : k[s] = g[s]}
  <2>1. FoldLeft(Fill, h, p) = k[D]
    BY <1>0 DEF FoldLeft, MapThenFoldSet
  <2>2. Is(g, D)
    BY <1>3, <1>4
  <2>3. Is(k, D)
    BY <2>2
  <2>4. \A s \in SUBSET D : k[s] = IF s = {} THEN h ELSE Fill(k[s \ {Max(s)}], p[Max(s)])
    BY <2>3
  <2> HIDE DEF k
  <2>5. ASSUME NEW s \in SUBSET D, \A t \in SUBSET s : t # s => t \in G PROVE s \in G
    <3>1. CASE s = {}
      BY <3>1, <1>4, <2>4
    <3>2. CASE s # {}
      <4>1. s \ {Max(s)} \in G
        BY <1>1, <2>5, <3>2
      <4> QED BY <4>1, <3>2, <1>4, <2>4
    <3> QED BY <3>1, <3>2
  <2> HIDE DEF G
  <2>6. SUBSET D \subseteq G
    BY <1>2, <2>5, SubsetInduction
  <2>7. D \in G
    BY <2>6
  <2> QED BY <2>1, <2>7 DEF G
<1> DEFINE f == [m \in 0 .. n |-> g[1 .. m]]
<1>6. \A m \in 0 .. n : 1 .. m \in SUBSET D
  BY <1>0 DEF D
<1>7. f \in [0 .. n -> PlotTypes] /\ f[n] = g[D]
  BY <1>0, <1>3, <1>6 DEF D
<1>8. f[0] = h
  <2>1. 1 .. 0 = {} /\ {} \in SUBSET D
    OBVIOUS
  <2>2. f[0] = g[1 .. 0]
    BY <1>0
  <2> QED BY <1>4, <2>1, <2>2
<1>9. ASSUME NEW m \in 1 .. n PROVE f[m] = Fill(f[m - 1], p[m])
  <2>0. m \in Nat /\ m > 0
    BY <1>0
  <2>1. /\ m \in Nat /\ m \in 0 .. n /\ m - 1 \in 0 .. n
        /\ 1 .. m # {} /\ (1 .. m) \ {m} = 1 .. m - 1 /\ m \in 1 .. m
    <3>1. m \in 0 .. n /\ m - 1 \in 0 .. n
      BY <1>0
    <3>2. (1 .. m) \ {m} = 1 .. m - 1 /\ m \in 1 .. m
      BY ONLY <2>0
    <3> QED BY <2>0, <3>1, <3>2
  <2> DEFINE s == 1 .. m
  <2>2. s \in SUBSET D /\ s # {} /\ m \in s
    BY <1>6, <2>1
  <2>3. \A x \in s : x \in Int /\ x <= m
    OBVIOUS
  <2>4. Max(s) = m
    <3>1. Max(s) \in s /\ m <= Max(s)
      BY ONLY <1>1, <2>2
    <3>2. Max(s) \in Int /\ Max(s) <= m
      BY ONLY <2>3, <3>1
    <3> HIDE DEF s
    <3> QED BY <2>1, <3>1, <3>2
  <2>5. g[s] = Fill(g[s \ {m}], p[m])
    BY <1>4, <2>2, <2>4
  <2> QED BY <2>1, <2>5
<1>10. f \in [0 .. n -> PlotTypes] /\ f[0] = h /\ f[n] = FoldLeft(Fill, h, p)
       /\ \A m \in 1 .. n : f[m] = Fill(f[m - 1], p[m])
  BY <1>5, <1>7, <1>8, <1>9
<1> HIDE DEF f
<1> QED BY <1>10 DEF n

\* A digit brings the position of the digit before it into the eta-phi plots,
\* unless its bin is full, and a bin that is full stays so.
LEMMA EtaPhiGrows ==
  ASSUME NEW h \in PlotTypes, NEW k \in Chips, NEW q \in Positions
  PROVE  LET there == InEtaPhi(h, q)
             new == InEtaPhi(Fill(h, k), q)
         IN /\ there \in Int /\ new \in Int /\ new <= there + If(h.etaPhi = q)
            /\ ~Full(Fill(h, k), q) => ~Full(h, q) /\ new = there + If(h.etaPhi = q)
<1> DEFINE D == Layers
           f == [l \in D |-> h.LayEtaPhi[l][q]]
           g == [l \in D |-> Fill(h, k).LayEtaPhi[l][q]]
           x == LayerOf[k]
           d == If(h.etaPhi = q)
<1>1. IsFiniteSet(D) /\ D \in SUBSET D /\ x \in D
  BY ChipsAssumption
<1>2. \A l \in D : f[l] \in Nat
  <2>1. h.LayEtaPhi \in [Layers -> [Positions -> Nat]]
    BY DEF PlotTypes
  <2> QED BY <1>1, <2>1
<1>3. \A l \in D : g[l] = IF l = x /\ q = h.etaPhi THEN More(f[l]) ELSE f[l]
  BY FillIs
<1>4. InEtaPhi(h, q) = SumFunctionOnSet(f, D) /\ InEtaPhi(Fill(h, k), q) = SumFunctionOnSet(g, D)
  BY DEF InEtaPhi
<1>5. d \in Nat /\ (q = h.etaPhi <=> d = 1) /\ (q # h.etaPhi <=> d = 0)
  BY DEF If
<1>6. /\ Full(h, q) <=> \E l \in D : f[l] >= BinMax
      /\ Full(Fill(h, k), q) <=> \E l \in D : g[l] >= BinMax
  BY DEF Full
<1> HIDE DEF D, f, g, x, d
<1>7. \A l \in D : g[l] \in Nat /\ f[l] <= g[l]
  BY <1>2, <1>3, MoreIs
<1>8. f[x] \in Nat /\ g[x] \in Nat /\ g[x] <= f[x] + d
  <2>1. f[x] \in Nat /\ g[x] \in Nat
    BY <1>1, <1>2, <1>7
  <2>2. CASE q = h.etaPhi
    BY <1>1, <1>3, <1>5, <2>1, <2>2, MoreIs
  <2>3. CASE q # h.etaPhi
    BY <1>1, <1>3, <1>5, <2>1, <2>3
  <2> QED BY <2>1, <2>2, <2>3
<1>9. ASSUME ~Full(Fill(h, k), q) PROVE g[x] = f[x] + d /\ ~Full(h, q)
  <2>1. \A l \in D : g[l] < BinMax
    BY <1>6, <1>7, <1>9, PlotsAssumption
  <2>2. \A l \in D : f[l] < BinMax
    BY <1>2, <1>7, <2>1, PlotsAssumption
  <2>3. ~Full(h, q)
    BY <1>2, <1>6, <2>2, PlotsAssumption
  <2>4. CASE q = h.etaPhi
    <3>1. g[x] = More(f[x]) /\ g[x] < BinMax
      BY <1>1, <1>3, <2>1, <2>4
    <3> QED BY <1>5, <1>8, <2>3, <2>4, <3>1, MoreIs
  <2>5. CASE q # h.etaPhi
    BY <1>1, <1>3, <1>5, <1>8, <2>3, <2>5
  <2> QED BY <2>4, <2>5
<1>10. \A l \in D : f[l] \in Int
  BY <1>2
<1>11. SumFunctionOnSet(f, D) \in Int
  BY <1>1, <1>10, SumType
<1>12. g[x] \in Int
  BY <1>8
<1>13. \A l \in D \ {x} : g[l] = f[l]
  BY <1>3
<1>14. SumFunctionOnSet(g, D) = SumFunctionOnSet(f, D) - f[x] + g[x]
  BY ONLY <1>1, <1>10, <1>12, <1>13, SumChange
<1> DEFINE t == SumFunctionOnSet(f, D)
           v == SumFunctionOnSet(g, D)
           a == f[x]
           b == g[x]
<1>15. t \in Int /\ a \in Nat /\ b \in Nat /\ b <= a + d /\ v = t - a + b
  BY <1>8, <1>11, <1>14
<1>16. ~Full(Fill(h, k), q) => b = a + d /\ ~Full(h, q)
  BY <1>9
<1>17. InEtaPhi(h, q) = t /\ InEtaPhi(Fill(h, k), q) = v
  BY <1>4
<1> HIDE DEF t, v, a, b
<1>18. v \in Int /\ v <= t + d /\ (b = a + d => v = t + d)
  BY <1>5, <1>15
<1> QED BY <1>15, <1>16, <1>17, <1>18 DEF d

\* A digit of another chip brings what was counted for the chip before into the
\* plot of a layer, as far as it is one of its bins, and the counting begins
\* again.
LEMMA LayerGrows ==
  ASSUME NEW h \in PlotTypes, NEW k \in Chips, NEW l \in Layers
  PROVE  /\ OfLayer(h, l) \in Int
         /\ OfLayer(Fill(h, k), l)
              = OfLayer(h, l) + (IF l = LayerOf[k] THEN Bin(h.counter) * Changed(h, k) ELSE 0)
<1> DEFINE D == Bins
           f == [n \in D |-> n * h.OccupancyPlot[l][n]]
           g == [n \in D |-> n * Fill(h, k).OccupancyPlot[l][n]]
           x == Bin(h.counter)
           e == IF l = LayerOf[k] THEN Changed(h, k) ELSE 0
<1>1. IsFiniteSet(D) /\ D \in SUBSET D /\ x \in D /\ D \subseteq Int
  <2>1. IsFiniteSet(D)
    BY PlotsAssumption, FS_Interval DEF Bins
  <2>2. h.counter \in Int
    BY DEF PlotTypes
  <2> QED BY <2>1, <2>2, BinIs DEF Bins
<1>2. \A n \in D : h.OccupancyPlot[l][n] \in Int
  <2>1. h.OccupancyPlot \in [Layers -> [Bins -> Nat]]
    BY DEF PlotTypes
  <2> QED BY <2>1
<1>3. e \in {0, 1} /\ e \in Int
  BY DEF Changed
<1>4. \A n \in D : Fill(h, k).OccupancyPlot[l][n]
                     = h.OccupancyPlot[l][n] + (IF n = x THEN e ELSE 0)
  <2>1. \A n \in D : h.OccupancyPlot[l][n] + 0 = h.OccupancyPlot[l][n]
    BY <1>2
  <2> QED BY <2>1, FillIs
<1>5. OfLayer(h, l) = SumFunctionOnSet(f, D) /\ OfLayer(Fill(h, k), l) = SumFunctionOnSet(g, D)
  BY DEF OfLayer
<1> DEFINE o == h.OccupancyPlot[l]
           p == Fill(h, k).OccupancyPlot[l]
<1>6. /\ \A n \in D : o[n] \in Int /\ p[n] = o[n] + (IF n = x THEN e ELSE 0)
      /\ \A n \in D : f[n] = n * o[n] /\ g[n] = n * p[n]
  BY <1>2, <1>4
<1>7. (IF l = LayerOf[k] THEN x * Changed(h, k) ELSE 0) = x * e
  <2>1. x \in Int
    BY <1>1
  <2>2. \A y \in Int : y * 0 = 0
    OBVIOUS
  <2>3. x * 0 = 0
    BY ONLY <2>1, <2>2
  <2> QED BY <2>3
<1> HIDE DEF D, f, g, x, e, o, p
<1>8. \A n \in D : f[n] \in Int
  BY <1>1, <1>6
<1>9. f[x] \in Int /\ x * e \in Int /\ g[x] = f[x] + x * e
  <2>1. x \in Int /\ o[x] \in Int /\ p[x] = o[x] + e /\ f[x] = x * o[x] /\ g[x] = x * p[x]
    BY <1>1, <1>6
  <2>2. CASE e = 0
    <3>1. p[x] = o[x] /\ x * e = 0
      BY <2>1, <2>2
    <3> QED BY <1>1, <1>8, <2>1, <3>1
  <2>3. CASE e = 1
    <3>1. p[x] = o[x] + 1 /\ x * e = x
      BY <2>1, <2>3
    <3>2. x * (o[x] + 1) = x * o[x] + x
      BY <2>1
    <3> QED BY <1>1, <1>8, <2>1, <3>1, <3>2
  <2> QED BY <1>3, <2>2, <2>3
<1>10. g[x] \in Int
  BY <1>9
<1>11. \A n \in D \ {x} : g[n] = f[n]
  <2>1. \A n \in D \ {x} : p[n] = o[n]
    BY <1>6
  <2> QED BY <1>6, <2>1
<1>12. SumFunctionOnSet(f, D) \in Int
  BY <1>1, <1>8, SumType
<1>13. SumFunctionOnSet(g, D) = SumFunctionOnSet(f, D) - f[x] + g[x]
  <2>1. IsFiniteSet(D) /\ x \in D
    BY <1>1
  <2> QED BY ONLY <2>1, <1>8, <1>10, <1>11, SumChange
<1>14. SumFunctionOnSet(g, D) = SumFunctionOnSet(f, D) + x * e
  <2> DEFINE t == SumFunctionOnSet(f, D)
             u == f[x]
             w == x * e
  <2>1. t \in Int /\ u \in Int /\ w \in Int /\ SumFunctionOnSet(g, D) = t - u + (u + w)
    BY <1>9, <1>12, <1>13
  <2> HIDE DEF t, u, w
  <2>2. t - u + (u + w) = t + w
    BY <2>1
  <2> QED BY <2>1, <2>2 DEF t, w
<1> QED BY <1>5, <1>7, <1>12, <1>14 DEF x

LEMMA OccupancyGrows ==
  ASSUME NEW h \in PlotTypes, NEW k \in Chips
  PROVE  LET there == InOccupancy(h) + h.counter
             new == InOccupancy(Fill(h, k)) + Fill(h, k).counter
         IN /\ there \in Int /\ new \in Int
            /\ h.counter >= 0 => Fill(h, k).counter >= 0 /\ new <= there + 1
            /\ ~Outside(Fill(h, k)) => ~Outside(h) /\ new = there + 1
<1> DEFINE D == Layers
           f == [l \in D |-> OfLayer(h, l)]
           g == [l \in D |-> OfLayer(Fill(h, k), l)]
           x == LayerOf[k]
           c == h.counter
           d == Bin(c) * Changed(h, k)
<1>1. IsFiniteSet(D) /\ D \in SUBSET D /\ x \in D
  BY ChipsAssumption
<1>2. \A l \in D : f[l] \in Int
  BY LayerGrows
<1>3. \A l \in D : g[l] = f[l] + (IF l = x THEN d ELSE 0)
  <2> SUFFICES ASSUME NEW l \in Layers PROVE g[l] = f[l] + (IF l = x THEN d ELSE 0)
    OBVIOUS
  <2>1. OfLayer(Fill(h, k), l) = OfLayer(h, l) + (IF l = x THEN d ELSE 0)
    BY LayerGrows
  <2> QED BY <2>1
<1>4. InOccupancy(h) = SumFunctionOnSet(f, D) /\ InOccupancy(Fill(h, k)) = SumFunctionOnSet(g, D)
  BY DEF InOccupancy
<1>5. /\ c \in Int /\ Bin(c) \in Int /\ d \in Int /\ Fill(h, k).counter \in Int
      /\ c >= 0 => Fill(h, k).counter >= 0 /\ Fill(h, k).counter + d <= c + 1
      /\ Bin(c) = c => Fill(h, k).counter + d = c + 1
      /\ Changed(h, k) = 0 => Fill(h, k).counter + d = c + 1
  <2>1. c \in Int /\ Bin(c) \in Int /\ (c >= 0 => Bin(c) <= c)
    <3>1. c \in Int
      BY DEF PlotTypes
    <3> QED BY <3>1, BinIs, PlotsAssumption DEF Bins
  <2> DEFINE b == Bin(c)
             v == Fill(h, k).counter
  <2>2. v = (IF k # h.ChipIDPre THEN 0 ELSE c) + 1
    BY FillIs
  <2>3. d = b * Changed(h, k)
    OBVIOUS
  <2> HIDE DEF b, c, d, v
  <2>4. CASE k # h.ChipIDPre
    <3>1. Changed(h, k) = 1 /\ v = 1 /\ d = b
      BY <2>1, <2>2, <2>3, <2>4 DEF Changed, b
    <3> QED BY <2>1, <3>1 DEF b, v
  <2>5. CASE k = h.ChipIDPre
    <3>1. Changed(h, k) = 0 /\ v = c + 1 /\ d = 0
      BY <2>1, <2>2, <2>3, <2>5 DEF Changed, b
    <3> QED BY <2>1, <3>1 DEF b, v
  <2> QED BY <2>4, <2>5
<1>6. ASSUME ~Outside(Fill(h, k))
      PROVE  ~Outside(h) /\ (Changed(h, k) = 0 \/ Bin(c) = c)
  <2>1. h.OccupancyPlot \in [Layers -> [Bins -> Nat]] /\ NEventMax \in Bins
    BY PlotsAssumption DEF PlotTypes, Bins
  <2>2. Changed(h, k) \in {0, 1}
    BY DEF Changed
  <2>3. \A l \in Layers : /\ h.OccupancyPlot[l][NEventMax] \in Nat
                          /\ Fill(h, k).OccupancyPlot[l][NEventMax]
                               = h.OccupancyPlot[l][NEventMax]
                                   + (IF l = x /\ NEventMax = Bin(c) THEN Changed(h, k) ELSE 0)
    BY <2>1, FillIs
  <2>4. \A l \in Layers : ~(Fill(h, k).OccupancyPlot[l][NEventMax] > 0)
    BY <1>6 DEF Outside
  <2> DEFINE o == [l \in Layers |-> h.OccupancyPlot[l][NEventMax]]
             p == [l \in Layers |-> Fill(h, k).OccupancyPlot[l][NEventMax]]
  <2>5. \A l \in Layers :
          /\ o[l] \in Nat /\ ~(p[l] > 0)
          /\ p[l] = o[l] + (IF l = x /\ NEventMax = Bin(c) THEN Changed(h, k) ELSE 0)
    BY <2>3, <2>4
  <2> HIDE DEF o, p, c, x
  <2>6. \A l \in Layers : o[l] = 0
    BY <2>2, <2>5
  <2>7. NEventMax = Bin(c) => Changed(h, k) = 0
    BY <1>1, <2>2, <2>5, <2>6
  <2>8. ~Outside(h)
    BY <2>6 DEF Outside, o
  <2>9. Bin(c) # NEventMax => Bin(c) = c
    BY <1>5, BinIs
  <2> QED BY <2>7, <2>8, <2>9
<1> HIDE DEF D, f, g, x, d
<1>7. SumFunctionOnSet(f, D) \in Int
  BY <1>1, <1>2, SumType
<1>8. g[x] = f[x] + d /\ f[x] \in Int
  BY <1>1, <1>2, <1>3, <1>5
<1>9. g[x] \in Int
  BY <1>5, <1>8
<1>10. \A l \in D \ {x} : g[l] = f[l]
  BY <1>2, <1>3
<1>11. SumFunctionOnSet(g, D) = SumFunctionOnSet(f, D) - f[x] + g[x]
  BY ONLY <1>1, <1>2, <1>9, <1>10, SumChange
<1> DEFINE t == SumFunctionOnSet(f, D)
           u == f[x]
           v == Fill(h, k).counter
           w == SumFunctionOnSet(g, D)
<1>12. t \in Int /\ u \in Int /\ w = t - u + (u + d) /\ v \in Int /\ c \in Int /\ d \in Int
  BY <1>5, <1>7, <1>8, <1>11
<1>13. /\ c >= 0 => v >= 0 /\ v + d <= c + 1
       /\ ~Outside(Fill(h, k)) => ~Outside(h) /\ v + d = c + 1
  BY <1>5, <1>6
<1>14. InOccupancy(h) = t /\ InOccupancy(Fill(h, k)) = w
  BY <1>4
<1> HIDE DEF t, u, v, w, c
<1>15. /\ t + c \in Int /\ w + v \in Int
       /\ v + d <= c + 1 => w + v <= t + c + 1
       /\ v + d = c + 1 => w + v = t + c + 1
  BY <1>12
<1> QED BY <1>13, <1>14, <1>15 DEF v, c

\* The digits of a chip, and those of all chips.
HitsUntil(p, m, c) == Cardinality({n \in 1 .. m : p[n] = c})

LEMMA HitsGrow ==
  ASSUME NEW p, NEW m \in Nat, NEW c
  PROVE  /\ HitsUntil(p, m, c) \in Nat /\ HitsUntil(p, 0, c) = 0
         /\ HitsUntil(p, m + 1, c) = HitsUntil(p, m, c) + If(p[m + 1] = c)
<1> DEFINE S == {n \in 1 .. m : p[n] = c}
           T == {n \in 1 .. m + 1 : p[n] = c}
           x == m + 1
<1>1. IsFiniteSet(S)
  <2> DEFINE D == 1 .. m
  <2>1. IsFiniteSet(D)
    BY FS_Interval
  <2>2. S \subseteq D
    OBVIOUS
  <2> HIDE DEF D, S
  <2> QED BY <2>1, <2>2, FS_Subset
<1>2. x \notin S /\ T = IF p[x] = c THEN S \cup {x} ELSE S
  OBVIOUS
<1>3. {n \in 1 .. 0 : p[n] = c} = {}
  OBVIOUS
<1>4. HitsUntil(p, 0, c) = 0
  BY <1>3, FS_EmptySet DEF HitsUntil
<1>5. HitsUntil(p, m, c) = Cardinality(S) /\ HitsUntil(p, m + 1, c) = Cardinality(T)
  BY DEF HitsUntil
<1> HIDE DEF S, T
<1>6. Cardinality(S) \in Nat
  BY <1>1, FS_CardinalityType
<1>7. Cardinality(S \cup {x}) = Cardinality(S) + 1
  BY <1>1, <1>2, FS_AddElement
<1>8. Cardinality(T) = Cardinality(S) + If(p[x] = c)
  BY <1>2, <1>6, <1>7 DEF If
<1> QED BY <1>4, <1>5, <1>6, <1>8 DEF x

LEMMA OneHitMore ==
  ASSUME NEW D, IsFiniteSet(D), NEW x \in D, NEW f, NEW g,
         \A c \in D : f[c] \in Int /\ g[c] = f[c] + If(x = c)
  PROVE  SumFunctionOnSet(g, D) = SumFunctionOnSet(f, D) + 1
<1>1. \A c \in D : f[c] \in Int
  OBVIOUS
<1>2. \A c \in D \ {x} : g[c] = f[c]
  BY DEF If
<1>3. g[x] = f[x] + 1 /\ f[x] \in Int
  BY DEF If
<1>4. g[x] \in Int
  BY <1>3
<1>5. SumFunctionOnSet(g, D) = SumFunctionOnSet(f, D) - f[x] + g[x]
  BY ONLY IsFiniteSet(D), <1>1, <1>2, <1>4, SumChange
<1>6. SumFunctionOnSet(f, D) \in Int
  <2>1. D \in SUBSET D
    OBVIOUS
  <2> QED BY ONLY IsFiniteSet(D), <1>1, <2>1, SumType
<1> DEFINE t == SumFunctionOnSet(f, D)
           u == f[x]
<1>7. t \in Int /\ u \in Int /\ SumFunctionOnSet(g, D) = t - u + (u + 1)
  BY <1>3, <1>5, <1>6
<1> HIDE DEF t, u
<1>8. t - u + (u + 1) = t + 1
  BY <1>7
<1> QED BY <1>7, <1>8 DEF t

LEMMA HitsOfAll ==
  ASSUME NEW p \in Seq(Chips)
  PROVE  SumFunctionOnSet([c \in Chips |-> HitBy(p, c)], Chips) = Len(p)
<1> DEFINE S(m) == SumFunctionOnSet([c \in Chips |-> HitsUntil(p, m, c)], Chips)
           G == {m \in Nat : m <= Len(p) => S(m) = m}
<1>1. 0 \in G
  <2> DEFINE D == Chips
             f == [c \in D |-> HitsUntil(p, 0, c)]
  <2>1. \A c \in D : f[c] = 0
    BY HitsGrow
  <2>2. IsFiniteSet(D)
    BY ChipsAssumption
  <2> HIDE DEF D, f
  <2>3. SumFunctionOnSet(f, D) = 0
    BY <2>1, <2>2, SumZero
  <2> QED BY <2>3 DEF f, D
<1>2. ASSUME NEW m \in Nat, m \in G PROVE m + 1 \in G
  <2> SUFFICES ASSUME m + 1 <= Len(p) PROVE S(m + 1) = m + 1
    OBVIOUS
  <2> DEFINE D == Chips
             f == [c \in D |-> HitsUntil(p, m, c)]
             g == [c \in D |-> HitsUntil(p, m + 1, c)]
             x == p[m + 1]
  <2>1. x \in D
    OBVIOUS
  <2>2. IsFiniteSet(D) /\ x \in D
    BY <2>1, ChipsAssumption
  <2>3. \A c \in D : f[c] \in Int /\ g[c] = f[c] + If(x = c)
    BY HitsGrow
  <2>4. SumFunctionOnSet(f, D) = m
    BY <1>2
  <2> HIDE DEF D, f, g, x
  <2>5. SumFunctionOnSet(g, D) = SumFunctionOnSet(f, D) + 1
    BY <2>2, <2>3, OneHitMore
  <2>6. SumFunctionOnSet(g, D) = m + 1
    BY <2>4, <2>5
  <2> QED BY <2>6 DEF g, D
<1>3. Len(p) \in Nat /\ DOMAIN p = 1 .. Len(p)
  OBVIOUS
<1> HIDE DEF G
<1>4. Nat \subseteq G
  BY <1>1, <1>2, NatSetInduction
<1>5. S(Len(p)) = Len(p)
  BY <1>3, <1>4 DEF G
<1>6. \A c : HitBy(p, c) = HitsUntil(p, Len(p), c)
  BY <1>3 DEF HitBy, HitsUntil
<1> QED BY <1>5, <1>6

LEMMA InEtaPhiIsNumber ==
  ASSUME NEW h \in PlotTypes, NEW q \in Positions PROVE InEtaPhi(h, q) \in Int
<1> DEFINE D == Layers
           f == [l \in D |-> h.LayEtaPhi[l][q]]
<1>1. IsFiniteSet(D) /\ D \in SUBSET D
  BY ChipsAssumption
<1>2. \A l \in D : f[l] \in Int
  <2>1. h.LayEtaPhi \in [Layers -> [Positions -> Nat]]
    BY DEF PlotTypes
  <2> QED BY <2>1
<1>3. InEtaPhi(h, q) = SumFunctionOnSet(f, D)
  BY DEF InEtaPhi
<1> HIDE DEF D, f
<1>4. SumFunctionOnSet(f, D) \in Int
  BY <1>1, <1>2, SumType
<1> QED BY <1>3, <1>4

LEMMA InOccupancyIsNumber ==
  ASSUME NEW h \in PlotTypes PROVE InOccupancy(h) \in Int
<1>1. ASSUME NEW l \in Layers PROVE OfLayer(h, l) \in Int
  <2> DEFINE D == Bins
             f == [n \in D |-> n * h.OccupancyPlot[l][n]]
  <2>1. IsFiniteSet(D) /\ D \in SUBSET D /\ D \subseteq Int
    <3>1. IsFiniteSet(D)
      BY PlotsAssumption, FS_Interval DEF Bins
    <3> QED BY <3>1 DEF Bins
  <2>2. \A n \in D : h.OccupancyPlot[l][n] \in Int
    <3>1. h.OccupancyPlot \in [Layers -> [Bins -> Nat]]
      BY DEF PlotTypes
    <3> QED BY <3>1
  <2>3. \A n \in D : f[n] \in Int
    BY <2>1, <2>2
  <2>4. OfLayer(h, l) = SumFunctionOnSet(f, D)
    BY DEF OfLayer
  <2> HIDE DEF D, f
  <2>5. SumFunctionOnSet(f, D) \in Int
    BY <2>1, <2>3, SumType
  <2> QED BY <2>4, <2>5
<1> DEFINE D == Layers
           f == [l \in D |-> OfLayer(h, l)]
<1>2. IsFiniteSet(D) /\ D \in SUBSET D
  BY ChipsAssumption
<1>3. \A l \in D : f[l] \in Int
  BY <1>1
<1>4. InOccupancy(h) = SumFunctionOnSet(f, D)
  BY DEF InOccupancy
<1> HIDE DEF D, f
<1>5. SumFunctionOnSet(f, D) \in Int
  BY <1>2, <1>3, SumType
<1> QED BY <1>4, <1>5

\* What falls with each step is lower at the end, and what stays, as long as
\* it is followed, is the same.
LEMMA Falls ==
  ASSUME NEW n \in Nat, NEW v, \A m \in 0 .. n : v[m] \in Int,
         \A m \in Nat : m < n => v[m + 1] <= v[m]
  PROVE  v[n] <= v[0]
<1> DEFINE G == {m \in Nat : m <= n => v[m] <= v[0]}
<1>1. 0 \in G
  OBVIOUS
<1>2. ASSUME NEW m \in Nat, m \in G PROVE m + 1 \in G
  <2> SUFFICES ASSUME m + 1 <= n PROVE v[m + 1] <= v[0]
    OBVIOUS
  <2>1. m < n /\ m <= n /\ m \in 0 .. n /\ m + 1 \in 0 .. n /\ 0 \in 0 .. n
    OBVIOUS
  <2>2. v[m] \in Int /\ v[m + 1] \in Int /\ v[0] \in Int
    BY <2>1
  <2> QED BY <1>2, <2>1, <2>2
<1> HIDE DEF G
<1>3. Nat \subseteq G
  BY <1>1, <1>2, NatSetInduction
<1> QED BY <1>3 DEF G

StaysWhile(n, v, followed) ==
  \A m \in Nat : m < n /\ m + 1 \in followed => m \in followed /\ v[m + 1] = v[m]

LEMMA Stays ==
  ASSUME NEW n, NEW v, NEW followed, n \in Nat, n \in followed, StaysWhile(n, v, followed)
  PROVE  0 \in followed /\ v[n] = v[0]
<1> DEFINE G == {m \in Nat : m <= n /\ m \in followed => 0 \in followed /\ v[m] = v[0]}
<1>1. 0 \in G
  OBVIOUS
<1>2. ASSUME NEW m \in Nat, m \in G PROVE m + 1 \in G
  <2> SUFFICES ASSUME m + 1 <= n, m + 1 \in followed
               PROVE  0 \in followed /\ v[m + 1] = v[0]
    OBVIOUS
  <2>1. m < n /\ m <= n
    OBVIOUS
  <2> QED BY <1>2, <2>1 DEF StaysWhile
<1> HIDE DEF G
<1>3. Nat \subseteq G
  BY <1>1, <1>2, NatSetInduction
<1> QED BY <1>3 DEF G

\* What the digits of a message add to the plots.
LEMMA MessageFills ==
  ASSUME NEW h \in PlotTypes, NEW p \in Seq(Chips)
  PROVE  LET H == FoldLeft(Fill, h, p) IN
         /\ H \in PlotTypes
         /\ \A q \in Positions :
              LET new == InEtaPhi(H, q) + If(H.etaPhi = q)
                  old == InEtaPhi(h, q) + If(h.etaPhi = q)
              IN /\ new \in Int /\ old \in Int /\ new - HitBy(Places(p), q) <= old
                 /\ ~Full(H, q) => ~Full(h, q) /\ new - HitBy(Places(p), q) = old
         /\ LET new == InOccupancy(H) + H.counter
                old == InOccupancy(h) + h.counter
            IN /\ new \in Int /\ old \in Int
               /\ h.counter >= 0 => H.counter >= 0 /\ new - Len(p) <= old
               /\ ~Outside(H) => ~Outside(h) /\ new - Len(p) = old
<1> DEFINE n == Len(p)
           w == Places(p)
<1>1. /\ n \in Nat /\ DOMAIN p = 1 .. n /\ \A m \in 1 .. n : p[m] \in Chips
      /\ DOMAIN w = 1 .. n /\ \A m \in 1 .. n : w[m] = PositionOf[p[m]]
  BY DEF Places
<1>2. PICK g \in [0 .. n -> PlotTypes] :
        /\ g[0] = h /\ g[n] = FoldLeft(Fill, h, p)
        /\ \A m \in 1 .. n : g[m] = Fill(g[m - 1], p[m])
  BY FillEquation
<1> HIDE DEF n, w
<1>3. ASSUME NEW m \in Nat, m < n
      PROVE  /\ g[m] \in PlotTypes /\ p[m + 1] \in Chips
             /\ g[m + 1] = Fill(g[m], p[m + 1]) /\ w[m + 1] = PositionOf[p[m + 1]]
  <2>1. m \in 0 .. n /\ m + 1 \in 1 .. n /\ (m + 1) - 1 = m
    BY <1>1, <1>3
  <2> QED BY <1>1, <1>2, <2>1
<1>4. \A m \in 0 .. n : g[m] \in PlotTypes
  BY <1>2
<1>5. 0 \in 0 .. n /\ n \in 0 .. n
  BY <1>1
<1>6. ASSUME NEW q \in Positions
      PROVE  LET new == InEtaPhi(g[n], q) + If(g[n].etaPhi = q)
                 old == InEtaPhi(g[0], q) + If(g[0].etaPhi = q)
             IN /\ new \in Int /\ old \in Int /\ new - HitBy(w, q) <= old
                /\ ~Full(g[n], q) => ~Full(g[0], q) /\ new - HitBy(w, q) = old
  <2> DEFINE E == [m \in 0 .. n |-> InEtaPhi(g[m], q)]
             L == [m \in 0 .. n |-> If(g[m].etaPhi = q)]
             C == [m \in 0 .. n |-> HitsUntil(w, m, q)]
             v == [m \in 0 .. n |-> E[m] + L[m] - C[m]]
             followed == {m \in 0 .. n : ~Full(g[m], q)}
  <2>1. \A m \in 0 .. n : E[m] \in Int /\ L[m] \in Int /\ C[m] \in Int
    <3>1. \A m \in 0 .. n : L[m] \in Int
      BY DEF If
    <3>2. \A m \in 0 .. n : HitsUntil(w, m, q) \in Int
      BY <1>1, HitsGrow
    <3>3. \A m \in 0 .. n : InEtaPhi(g[m], q) \in Int
      BY <1>4, InEtaPhiIsNumber
    <3> QED BY <3>1, <3>2, <3>3
  <2>2. ASSUME NEW m \in Nat, m < n
        PROVE  /\ m \in 0 .. n /\ m + 1 \in 0 .. n
               /\ E[m + 1] <= E[m] + L[m] /\ C[m + 1] = C[m] + L[m + 1]
               /\ m + 1 \in followed => m \in followed /\ E[m + 1] = E[m] + L[m]
    <3>1. /\ g[m] \in PlotTypes /\ p[m + 1] \in Chips
          /\ g[m + 1] = Fill(g[m], p[m + 1]) /\ w[m + 1] = PositionOf[p[m + 1]]
      BY <1>3, <2>2
    <3>2. m \in 0 .. n /\ m + 1 \in 0 .. n
      BY <1>1, <2>2
    <3>3. /\ InEtaPhi(g[m + 1], q) <= InEtaPhi(g[m], q) + If(g[m].etaPhi = q)
          /\ ~Full(g[m + 1], q) => /\ ~Full(g[m], q)
                                   /\ InEtaPhi(g[m + 1], q) = InEtaPhi(g[m], q) + If(g[m].etaPhi = q)
      <4>1. LET there == InEtaPhi(g[m], q)
                new == InEtaPhi(Fill(g[m], p[m + 1]), q)
            IN /\ there \in Int /\ new \in Int /\ new <= there + If(g[m].etaPhi = q)
               /\ ~Full(Fill(g[m], p[m + 1]), q) =>
                    ~Full(g[m], q) /\ new = there + If(g[m].etaPhi = q)
        BY ONLY <3>1, q \in Positions, EtaPhiGrows
      <4> QED BY <3>1, <4>1
    <3>4. g[m + 1].etaPhi = w[m + 1]
      <4>1. Fill(g[m], p[m + 1]).etaPhi = PositionOf[p[m + 1]]
        BY ONLY <3>1, FillIs
      <4> QED BY <3>1, <4>1
    <3>5. HitsUntil(w, m + 1, q) = HitsUntil(w, m, q) + If(w[m + 1] = q)
      BY HitsGrow
    <3> QED BY <3>2, <3>3, <3>4, <3>5
  <2>3. C[0] = 0 /\ C[n] = HitBy(w, q)
    <3>1. HitsUntil(w, 0, q) = 0
      BY <1>1, HitsGrow
    <3>2. HitsUntil(w, n, q) = HitBy(w, q)
      BY <1>1 DEF HitBy, HitsUntil
    <3> QED BY <1>5, <3>1, <3>2
  <2>4. /\ E[n] = InEtaPhi(g[n], q) /\ L[n] = If(g[n].etaPhi = q)
        /\ E[0] = InEtaPhi(g[0], q) /\ L[0] = If(g[0].etaPhi = q)
        /\ (n \in followed <=> ~Full(g[n], q)) /\ (0 \in followed <=> ~Full(g[0], q))
    BY <1>5
  <2>5. \A m \in 0 .. n : v[m] = E[m] + L[m] - C[m]
    OBVIOUS
  <2> HIDE DEF E, L, C, v, followed
  <2>6. \A m \in 0 .. n : v[m] \in Int
    BY <2>1, <2>5
  <2>7. ASSUME NEW m \in Nat, m < n
        PROVE  /\ v[m + 1] <= v[m]
               /\ m + 1 \in followed => m \in followed /\ v[m + 1] = v[m]
    <3>1. /\ m \in 0 .. n /\ m + 1 \in 0 .. n
          /\ E[m + 1] <= E[m] + L[m] /\ C[m + 1] = C[m] + L[m + 1]
          /\ m + 1 \in followed => m \in followed /\ E[m + 1] = E[m] + L[m]
      BY <2>2, <2>7
    <3>2. /\ E[m] \in Int /\ L[m] \in Int /\ C[m] \in Int
          /\ E[m + 1] \in Int /\ L[m + 1] \in Int /\ C[m + 1] \in Int
      BY <2>1, <3>1
    <3>3. v[m + 1] = E[m + 1] + L[m + 1] - C[m + 1] /\ v[m] = E[m] + L[m] - C[m]
      BY <2>5, <3>1
    <3>4. v[m + 1] = E[m + 1] - C[m] /\ v[m] = E[m] + L[m] - C[m]
      BY ONLY <3>1, <3>2, <3>3
    <3>5. v[m + 1] <= v[m]
      BY ONLY <3>1, <3>2, <3>4
    <3>6. E[m + 1] = E[m] + L[m] => v[m + 1] = v[m]
      BY ONLY <3>2, <3>4
    <3> QED BY <3>1, <3>5, <3>6
  <2>8. v[n] <= v[0]
    BY ONLY <1>1, <2>6, <2>7, Falls
  <2>9. n \in followed => 0 \in followed /\ v[n] = v[0]
    <3>1. StaysWhile(n, v, followed) /\ n \in Nat
      BY <1>1, <2>7 DEF StaysWhile
    <3>2. SUFFICES ASSUME n \in followed PROVE 0 \in followed /\ v[n] = v[0]
      OBVIOUS
    <3> QED BY ONLY <3>1, <3>2, Stays
  <2>10. /\ v[n] = E[n] + L[n] - C[n] /\ v[0] = E[0] + L[0] - C[0]
         /\ E[n] \in Int /\ L[n] \in Int /\ E[0] \in Int /\ L[0] \in Int /\ C[n] \in Int
    BY <1>5, <2>1, <2>5
  <2>11. v[0] = E[0] + L[0]
    BY <2>3, <2>10
  <2> QED BY <2>3, <2>4, <2>8, <2>9, <2>10, <2>11
<1>7. /\ g[0].counter >= 0 => /\ g[n].counter >= 0
                              /\ (InOccupancy(g[n]) + g[n].counter) - n
                                   <= InOccupancy(g[0]) + g[0].counter
      /\ ~Outside(g[n]) => /\ ~Outside(g[0])
                           /\ (InOccupancy(g[n]) + g[n].counter) - n
                                = InOccupancy(g[0]) + g[0].counter
  <2> DEFINE O == [m \in 0 .. n |-> InOccupancy(g[m]) + g[m].counter]
             v == [m \in 0 .. n |-> O[m] - m]
             followed == {m \in 0 .. n : ~Outside(g[m])}
             G == {m \in Nat : m <= n => g[m].counter >= 0}
  <2>1. \A m \in 0 .. n : O[m] \in Int /\ v[m] \in Int /\ v[m] = O[m] - m
    <3>1. \A m \in 0 .. n : InOccupancy(g[m]) \in Int /\ g[m].counter \in Int
      BY <1>4, InOccupancyIsNumber DEF PlotTypes
    <3> QED BY <3>1
  <2>2. ASSUME NEW m \in Nat, m < n
        PROVE  /\ m \in 0 .. n /\ m + 1 \in 0 .. n
               /\ g[m].counter >= 0 => g[m + 1].counter >= 0 /\ O[m + 1] <= O[m] + 1
               /\ m + 1 \in followed => m \in followed /\ O[m + 1] = O[m] + 1
    <3>1. g[m] \in PlotTypes /\ p[m + 1] \in Chips /\ g[m + 1] = Fill(g[m], p[m + 1])
      BY <1>3, <2>2
    <3>2. m \in 0 .. n /\ m + 1 \in 0 .. n
      BY <1>1, <2>2
    <3>3. LET there == InOccupancy(g[m]) + g[m].counter
              new == InOccupancy(Fill(g[m], p[m + 1])) + Fill(g[m], p[m + 1]).counter
          IN /\ there \in Int /\ new \in Int
             /\ g[m].counter >= 0 => Fill(g[m], p[m + 1]).counter >= 0 /\ new <= there + 1
             /\ ~Outside(Fill(g[m], p[m + 1])) => ~Outside(g[m]) /\ new = there + 1
      BY ONLY <3>1, OccupancyGrows
    <3> QED BY <3>1, <3>2, <3>3
  <2>3. /\ O[n] = InOccupancy(g[n]) + g[n].counter /\ O[0] = InOccupancy(g[0]) + g[0].counter
        /\ (n \in followed <=> ~Outside(g[n])) /\ (0 \in followed <=> ~Outside(g[0]))
    BY <1>5
  <2> HIDE DEF O, v, followed
  <2>4. v[n] = O[n] - n /\ v[0] = O[0] /\ O[n] \in Int /\ O[0] \in Int
    <3>1. v[n] = O[n] - n /\ v[0] = O[0] - 0 /\ O[n] \in Int /\ O[0] \in Int
      BY <1>5, <2>1
    <3> QED BY <3>1
  <2>5. ASSUME NEW m \in Nat, m < n, m + 1 \in followed PROVE m \in followed /\ v[m + 1] = v[m]
    <3>1. m \in 0 .. n /\ m + 1 \in 0 .. n /\ m \in followed /\ O[m + 1] = O[m] + 1
      BY <2>2, <2>5
    <3>2. O[m] \in Int /\ v[m + 1] = O[m + 1] - (m + 1) /\ v[m] = O[m] - m
      BY <2>1, <3>1
    <3> QED BY <3>1, <3>2
  <2>6. n \in followed => 0 \in followed /\ v[n] = v[0]
    <3>1. StaysWhile(n, v, followed) /\ n \in Nat
      BY <1>1, <2>5 DEF StaysWhile
    <3>2. SUFFICES ASSUME n \in followed PROVE 0 \in followed /\ v[n] = v[0]
      OBVIOUS
    <3> QED BY ONLY <3>1, <3>2, Stays
  <2>7. ASSUME g[0].counter >= 0 PROVE g[n].counter >= 0 /\ v[n] <= v[0]
    <3>1. 0 \in G
      BY <2>7
    <3>2. ASSUME NEW m \in Nat, m \in G PROVE m + 1 \in G
      <4> SUFFICES ASSUME m + 1 <= n PROVE g[m + 1].counter >= 0
        OBVIOUS
      <4>1. m < n /\ m <= n
        BY <1>1
      <4> QED BY <2>2, <3>2, <4>1
    <3> HIDE DEF G
    <3>3. Nat \subseteq G
      BY <3>1, <3>2, NatSetInduction
    <3>4. ASSUME NEW m \in Nat, m < n PROVE v[m + 1] <= v[m]
      <4>1. m \in G /\ m <= n
        BY <1>1, <3>3, <3>4
      <4>2. m \in 0 .. n /\ m + 1 \in 0 .. n /\ O[m + 1] <= O[m] + 1
        BY <2>2, <3>4, <4>1 DEF G
      <4>3. O[m] \in Int /\ O[m + 1] \in Int /\ v[m + 1] = O[m + 1] - (m + 1) /\ v[m] = O[m] - m
        BY <2>1, <4>2
      <4> QED BY <4>2, <4>3
    <3>5. \A m \in 0 .. n : v[m] \in Int
      BY <2>1
    <3>6. v[n] <= v[0]
      BY ONLY <1>1, <3>4, <3>5, Falls
    <3>7. n \in G /\ n <= n
      BY <1>1, <3>3
    <3> QED BY <3>6, <3>7 DEF G
  <2>8. g[0].counter >= 0 => g[n].counter >= 0 /\ O[n] - n <= O[0]
    BY ONLY <2>4, <2>7
  <2>9. ~Outside(g[n]) => ~Outside(g[0]) /\ O[n] - n = O[0]
    BY ONLY <2>3, <2>4, <2>6
  <2>10. /\ (InOccupancy(g[n]) + g[n].counter) - n = O[n] - n
         /\ InOccupancy(g[0]) + g[0].counter = O[0]
    BY ONLY <2>3
  <2> QED BY ONLY <2>8, <2>9, <2>10
<1>8. g[n] \in PlotTypes
  BY <1>4, <1>5
<1>9. /\ InOccupancy(g[n]) + g[n].counter \in Int /\ InOccupancy(h) + h.counter \in Int
  <2>1. \A k \in PlotTypes : InOccupancy(k) + k.counter \in Int
    <3> TAKE k \in PlotTypes
    <3>1. k.counter \in Int
      BY DEF PlotTypes
    <3>2. InOccupancy(k) \in Int
      BY InOccupancyIsNumber
    <3> QED BY <3>1, <3>2
  <2> QED BY <1>8, <2>1
<1>10. g[n] = FoldLeft(Fill, h, p) /\ g[0] = h
  BY <1>2
<1> QED BY <1>6, <1>7, <1>8, <1>9, <1>10 DEF n, w

\* Plots without an entry.
LEMMA NoPlotsAreEmpty ==
  ASSUME NEW n, NEW last, NEW q, n \in Int, last \in Chips \cup {Nowhere}, q \in Positions,
         NEW h, h = NoPlots(n, last, q)
  PROVE  /\ h \in PlotTypes /\ h.counter = n /\ h.etaPhi = q
         /\ \A r \in Positions : InEtaPhi(h, r) = 0 /\ ~Full(h, r)
         /\ InOccupancy(h) = 0 /\ ~Outside(h)
<1>1. /\ h \in PlotTypes /\ h.counter = n /\ h.etaPhi = q
      /\ h.LayEtaPhi = [l \in Layers |-> [r \in Positions |-> 0]]
      /\ h.OccupancyPlot = [l \in Layers |-> [b \in Bins |-> 0]]
  BY DEF NoPlots, PlotTypes, NoHits
<1>2. ASSUME NEW r \in Positions PROVE InEtaPhi(h, r) = 0
  <2> DEFINE D == Layers
             f == [l \in D |-> h.LayEtaPhi[l][r]]
  <2>1. IsFiniteSet(D) /\ \A l \in D : f[l] = 0
    BY <1>1, ChipsAssumption
  <2>2. InEtaPhi(h, r) = SumFunctionOnSet(f, D)
    BY DEF InEtaPhi
  <2> HIDE DEF D, f
  <2>3. SumFunctionOnSet(f, D) = 0
    BY <2>1, SumZero
  <2> QED BY <2>2, <2>3
<1>3. ASSUME NEW l \in Layers PROVE OfLayer(h, l) = 0
  <2> DEFINE D == Bins
             f == [b \in D |-> b * h.OccupancyPlot[l][b]]
  <2>1. IsFiniteSet(D)
    BY PlotsAssumption, FS_Interval DEF Bins
  <2>2. \A b \in D : f[b] = 0
    <3>1. \A b \in D : h.OccupancyPlot[l][b] = 0 /\ b \in Int
      BY <1>1, PlotsAssumption DEF Bins
    <3>2. \A b \in Int : b * 0 = 0
      OBVIOUS
    <3> QED BY <3>1, <3>2
  <2>3. OfLayer(h, l) = SumFunctionOnSet(f, D)
    BY DEF OfLayer
  <2> HIDE DEF D, f
  <2>4. SumFunctionOnSet(f, D) = 0
    BY <2>1, <2>2, SumZero
  <2> QED BY <2>3, <2>4
<1>4. InOccupancy(h) = 0
  <2> DEFINE D == Layers
             f == [l \in D |-> OfLayer(h, l)]
  <2>1. IsFiniteSet(D) /\ \A l \in D : f[l] = 0
    BY <1>3, ChipsAssumption
  <2>2. InOccupancy(h) = SumFunctionOnSet(f, D)
    BY DEF InOccupancy
  <2> HIDE DEF D, f
  <2>3. SumFunctionOnSet(f, D) = 0
    BY <2>1, SumZero
  <2> QED BY <2>2, <2>3
<1>5. ~Outside(h) /\ \A r \in Positions : ~Full(h, r)
  <2>1. NEventMax \in Bins /\ ~(0 > 0) /\ ~(0 >= BinMax)
    BY PlotsAssumption DEF Bins
  <2> QED BY <1>1, <2>1 DEF Outside, Full
<1> QED BY <1>1, <1>2, <1>4, <1>5

\* The hits of all chips: none after a reset, and those of a message are added.
LEMMA HitsAdded ==
  ASSUME NEW p \in Seq(Chips), NEW old \in [Chips -> Int]
  PROVE  LET new == [c \in Chips |-> old[c] + HitBy(p, c)] IN
         /\ new \in [Chips -> Int] /\ SumFunctionOnSet(old, Chips) \in Int
         /\ SumFunctionOnSet(new, Chips) = SumFunctionOnSet(old, Chips) + Len(p)
<1> DEFINE D == Chips
           f == old
           g == [c \in D |-> HitBy(p, c)]
           h == [c \in D |-> old[c] + HitBy(p, c)]
<1>1. \A c : HitBy(p, c) \in Int
  <2>1. Len(p) \in Nat /\ DOMAIN p = 1 .. Len(p)
    OBVIOUS
  <2>2. \A c : HitBy(p, c) = HitsUntil(p, Len(p), c)
    BY <2>1 DEF HitBy, HitsUntil
  <2>3. \A c : HitsUntil(p, Len(p), c) \in Int
    BY <2>1, HitsGrow
  <2> QED BY <2>2, <2>3
<1>2. \A c \in D : f[c] \in Int /\ g[c] \in Int /\ h[c] = f[c] + g[c]
  BY <1>1
<1>3. IsFiniteSet(D) /\ D \in SUBSET D
  BY ChipsAssumption
<1>4. SumFunctionOnSet(g, D) = Len(p)
  BY HitsOfAll
<1>5. h \in [D -> Int]
  BY <1>1
<1> HIDE DEF D, f, g, h
<1>6. SumFunctionOnSet(h, D) = SumFunctionOnSet(f, D) + SumFunctionOnSet(g, D)
  BY <1>2, <1>3, SumOfSums
<1>7. SumFunctionOnSet(f, D) \in Int
  <2>1. \A c \in D : f[c] \in Int
    BY <1>2
  <2> QED BY <1>3, <2>1, SumType
<1> QED BY <1>4, <1>5, <1>6, <1>7 DEF D, f, h

LEMMA NoHitsAddUp == NoHits \in [Chips -> Int] /\ SumFunctionOnSet(NoHits, Chips) = 0
<1> DEFINE D == Chips
<1>1. IsFiniteSet(D) /\ \A c \in D : NoHits[c] = 0
  BY ChipsAssumption DEF NoHits
<1> HIDE DEF D
<1>2. SumFunctionOnSet(NoHits, D) = 0
  BY <1>1, SumZero
<1> QED BY <1>2 DEF D, NoHits

\* Those of the positions, of which only the number of each matters.
LEMMA PlacesAdded ==
  ASSUME NEW p \in Seq(Chips), NEW q
  PROVE  HitBy(Places(p), q) \in Nat
<1>1. Len(p) \in Nat /\ DOMAIN Places(p) = 1 .. Len(p)
  BY DEF Places
<1>2. HitBy(Places(p), q) = HitsUntil(Places(p), Len(p), q)
  BY <1>1 DEF HitBy, HitsUntil
<1> QED BY <1>1, <1>2, HitsGrow

(***************************************************************************)
(* The inductive invariant of the plots. The counter, which no reset       *)
(* clears, is a count as soon as it was one at a reset.                    *)
(***************************************************************************)
EtaPhiOf(h, b, n, q) ==
  LET there == InEtaPhi(h, q) + If(h.etaPhi = q)
      ought == n + If(b.etaPhi = q)
  IN there <= ought /\ (there = ought \/ Full(h, q))

OccupancyOf(h, b, n) ==
  LET there == InOccupancy(h) + h.counter
      ought == n + b.counter
  IN /\ b.counter >= 0 => h.counter >= 0 /\ there <= ought
     /\ there = ought \/ Outside(h)

PlotsInv ==
  /\ plots \in PlotTypes /\ before \in PlotTypes
  /\ hits \in [Chips -> Int] /\ placed \in [Positions -> Int]
  /\ task = "SimpleDS" =>
       /\ \A q \in Positions : EtaPhiOf(plots, before, placed[q], q)
       /\ OccupancyOf(plots, before, SumFunctionOnSet(hits, Chips))

LEMMA PlotsSuffice == PlotsInv => EtaPhiLagsByOne /\ OccupancyAddsUp
  BY DEF PlotsInv, EtaPhiOf, OccupancyOf, EtaPhiLagsByOne, OccupancyAddsUp

\* Plots that were emptied are in step with counts that start again.
LEMMA EmptyIsInStep ==
  ASSUME NEW h \in PlotTypes, NEW b \in PlotTypes,
         h = NoPlots(b.counter, b.ChipIDPre, b.etaPhi)
  PROVE  /\ \A q \in Positions : EtaPhiOf(h, b, 0, q)
         /\ OccupancyOf(h, b, 0)
<1>1. b.counter \in Int /\ b.ChipIDPre \in Chips \cup {Nowhere} /\ b.etaPhi \in Positions
  BY DEF PlotTypes
<1>2. /\ h.counter = b.counter /\ h.etaPhi = b.etaPhi
      /\ \A q \in Positions : InEtaPhi(h, q) = 0
      /\ InOccupancy(h) = 0
  BY <1>1, NoPlotsAreEmpty
<1>3. \A q \in Positions : If(b.etaPhi = q) \in Int
  BY DEF If
<1> QED BY <1>1, <1>2, <1>3 DEF EtaPhiOf, OccupancyOf

\* Digits that are filled and counted keep them in step.
LEMMA FillingKeepsStep ==
  ASSUME NEW h \in PlotTypes, NEW b \in PlotTypes, NEW p \in Seq(Chips)
  PROVE  LET H == FoldLeft(Fill, h, p) IN
         /\ H \in PlotTypes
         /\ \A q \in Positions, n \in Int :
              EtaPhiOf(h, b, n, q) => EtaPhiOf(H, b, n + HitBy(Places(p), q), q)
         /\ \A n \in Int : OccupancyOf(h, b, n) => OccupancyOf(H, b, n + Len(p))
<1> DEFINE H == FoldLeft(Fill, h, p)
<1>1. H \in PlotTypes
  BY MessageFills
<1>2. ASSUME NEW q \in Positions, NEW n \in Int, EtaPhiOf(h, b, n, q)
      PROVE  EtaPhiOf(H, b, n + HitBy(Places(p), q), q)
  <2> DEFINE new == InEtaPhi(H, q) + If(H.etaPhi = q)
             old == InEtaPhi(h, q) + If(h.etaPhi = q)
             k == HitBy(Places(p), q)
             s == If(b.etaPhi = q)
  <2>1. /\ new \in Int /\ old \in Int /\ new - k <= old
        /\ ~Full(H, q) => ~Full(h, q) /\ new - k = old
    BY MessageFills
  <2>2. k \in Nat /\ s \in Int
    BY PlacesAdded DEF If
  <2>3. old <= n + s /\ (old = n + s \/ Full(h, q))
    BY <1>2 DEF EtaPhiOf
  <2>4. new <= (n + k) + s /\ (new = (n + k) + s \/ Full(H, q))
    <3> HIDE DEF new, old, k, s, H
    <3>1. new <= (n + k) + s
      BY <2>1, <2>2, <2>3
    <3>2. ~Full(H, q) => new = (n + k) + s
      BY <2>1, <2>2, <2>3
    <3> QED BY <3>1, <3>2
  <2> QED BY <2>4 DEF EtaPhiOf
<1>3. ASSUME NEW n \in Int, OccupancyOf(h, b, n) PROVE OccupancyOf(H, b, n + Len(p))
  <2> DEFINE new == InOccupancy(H) + H.counter
             old == InOccupancy(h) + h.counter
             k == Len(p)
             s == b.counter
  <2>1. /\ new \in Int /\ old \in Int
        /\ h.counter >= 0 => H.counter >= 0 /\ new - k <= old
        /\ ~Outside(H) => ~Outside(h) /\ new - k = old
    BY MessageFills
  <2>2. k \in Nat /\ s \in Int
    BY DEF PlotTypes
  <2>3. /\ s >= 0 => h.counter >= 0 /\ old <= n + s
        /\ old = n + s \/ Outside(h)
    BY <1>3 DEF OccupancyOf
  <2>4. /\ s >= 0 => H.counter >= 0 /\ new <= (n + k) + s
        /\ new = (n + k) + s \/ Outside(H)
    <3> HIDE DEF new, old, k, s, H
    <3>1. s >= 0 => H.counter >= 0 /\ new <= (n + k) + s
      BY <2>1, <2>2, <2>3
    <3>2. ~Outside(H) => new = (n + k) + s
      BY <2>1, <2>2, <2>3
    <3> QED BY <3>1, <3>2
  <2> QED BY <2>4 DEF OccupancyOf
<1> QED BY <1>1, <1>2, <1>3

LEMMA PlotsStart == ItsInit => PlotsInv
<1> SUFFICES ASSUME ItsInit PROVE PlotsInv
  OBVIOUS
<1>1. PICK last \in Chips \cup {Nowhere}, n \in Memory, q \in Positions : plots = NoPlots(n, last, q)
  BY DEF ItsInit
<1>2. before = plots /\ hits = NoHits /\ placed = NonePlaced
  BY DEF ItsInit
<1>3. n \in Int
  BY PlotsAssumption
<1>4. plots \in PlotTypes
  BY <1>1, <1>3, NoPlotsAreEmpty
<1>5. plots = NoPlots(plots.counter, plots.ChipIDPre, plots.etaPhi)
  BY <1>1 DEF NoPlots
<1>6. /\ \A r \in Positions : EtaPhiOf(plots, plots, 0, r)
      /\ OccupancyOf(plots, plots, 0)
  BY <1>4, <1>5, EmptyIsInStep
<1>7. /\ placed \in [Positions -> Int] /\ \A r \in Positions : placed[r] = 0
  BY <1>2 DEF NonePlaced
<1> QED BY <1>2, <1>4, <1>6, <1>7, NoHitsAddUp DEF PlotsInv

LEMMA ResetKeepsPlots == ASSUME PlotsInv, Reset PROVE PlotsInv'
<1>1. /\ plots' = Emptied(plots) /\ hits' = NoHits /\ placed' = NonePlaced /\ before' = plots
      /\ task' = task
  BY DEF Reset
<1>2. /\ plots \in PlotTypes /\ plots.counter \in Int
      /\ plots.ChipIDPre \in Chips \cup {Nowhere} /\ plots.etaPhi \in Positions
  BY DEF PlotsInv, PlotTypes
<1>3. plots' = NoPlots(plots.counter, plots.ChipIDPre, plots.etaPhi)
  BY <1>1 DEF Emptied
<1>4. plots' \in PlotTypes
  BY <1>2, <1>3, NoPlotsAreEmpty
<1>5. /\ \A q \in Positions : EtaPhiOf(plots', before', 0, q)
      /\ OccupancyOf(plots', before', 0)
  BY <1>1, <1>2, <1>3, <1>4, EmptyIsInStep
<1>6. placed' \in [Positions -> Int] /\ \A q \in Positions : placed'[q] = 0
  BY <1>1 DEF NonePlaced
<1> QED BY <1>1, <1>2, <1>4, <1>5, <1>6, NoHitsAddUp
           DEF PlotsInv, EtaPhiOf, OccupancyOf, InEtaPhi, InOccupancy, OfLayer, Full, Outside

\* A message with or without a reset. What is in the plots and what was hit
\* grow from the same start by the same digits.
LEMMA MessageKeepsPlots ==
  ASSUME PlotsInv, NEW r, NEW f, NEW finish, NEW reset \in BOOLEAN, NEW n,
         NEW p \in Seq(Chips), Message(r, f, finish, reset, n, p)
  PROVE  PlotsInv'
<1> DEFINE old == [c \in Chips |-> IF Clears(reset) THEN 0 ELSE hits[c]]
           put == [q \in Positions |-> IF Clears(reset) THEN 0 ELSE placed[q]]
           start == IF Clears(reset) THEN Emptied(plots) ELSE plots
           since == IF Clears(reset) THEN plots ELSE before
<1>1. /\ hits' = [c \in Chips |-> old[c] + HitBy(p, c)]
      /\ placed' = [q \in Positions |-> put[q] + HitBy(Places(p), q)]
      /\ before' = since
  BY DEF Message
<1>2. /\ task' = task
      /\ task = "SimpleDS" => plots' = FoldLeft(Fill, start, p)
      /\ task # "SimpleDS" => plots' = plots
  BY DEF Message, MonitorData, MonitorDataGeneral, Clears
<1>3. /\ plots \in PlotTypes /\ before \in PlotTypes /\ hits \in [Chips -> Int]
      /\ placed \in [Positions -> Int] /\ plots.counter \in Int
      /\ plots.ChipIDPre \in Chips \cup {Nowhere} /\ plots.etaPhi \in Positions
  BY DEF PlotsInv, PlotTypes
<1>4. old \in [Chips -> Int] /\ put \in [Positions -> Int] /\ since \in PlotTypes
  BY <1>3
<1>5. /\ hits' \in [Chips -> Int] /\ SumFunctionOnSet(old, Chips) \in Int
      /\ SumFunctionOnSet(hits', Chips) = SumFunctionOnSet(old, Chips) + Len(p)
  <2> HIDE DEF old
  <2> QED BY <1>1, <1>4, HitsAdded
<1>6. /\ start \in PlotTypes
      /\ task = "SimpleDS" =>
           /\ \A q \in Positions : EtaPhiOf(start, since, put[q], q)
           /\ OccupancyOf(start, since, SumFunctionOnSet(old, Chips))
  <2>1. CASE Clears(reset)
    <3>1. start = NoPlots(plots.counter, plots.ChipIDPre, plots.etaPhi) /\ since = plots
      BY <2>1 DEF Emptied
    <3>2. start \in PlotTypes
      BY <1>3, <3>1, NoPlotsAreEmpty
    <3>3. old = NoHits /\ \A q \in Positions : put[q] = 0
      BY <2>1 DEF NoHits
    <3> HIDE DEF start, since, old, put
    <3>4. /\ \A q \in Positions : EtaPhiOf(start, since, 0, q)
          /\ OccupancyOf(start, since, 0)
      BY <1>3, <3>1, <3>2, EmptyIsInStep
    <3> QED BY <3>2, <3>3, <3>4, NoHitsAddUp
  <2>2. CASE ~Clears(reset)
    <3>1. old = hits /\ put = placed /\ start = plots /\ since = before
      BY <1>3, <2>2
    <3> HIDE DEF start, since, old, put
    <3> QED BY <1>3, <3>1 DEF PlotsInv
  <2> QED BY <2>1, <2>2
<1> HIDE DEF old, put, start, since
<1>7. placed' \in [Positions -> Int]
  <2>1. \A q \in Positions : HitBy(Places(p), q) \in Nat
    BY PlacesAdded
  <2> QED BY <1>1, <1>4, <2>1
<1>8. CASE task = "SimpleDS"
  <2>1. plots' = FoldLeft(Fill, start, p)
    BY <1>2, <1>8
  <2>2. /\ plots' \in PlotTypes
        /\ \A q \in Positions, k \in Int :
             EtaPhiOf(start, since, k, q) => EtaPhiOf(plots', since, k + HitBy(Places(p), q), q)
        /\ \A k \in Int : OccupancyOf(start, since, k) => OccupancyOf(plots', since, k + Len(p))
    BY <1>4, <1>6, <2>1, FillingKeepsStep
  <2>3. \A q \in Positions : EtaPhiOf(plots', before', placed'[q], q)
    BY <1>1, <1>4, <1>6, <1>8, <2>2
  <2>4. OccupancyOf(plots', before', SumFunctionOnSet(hits', Chips))
    BY <1>1, <1>5, <1>6, <1>8, <2>2
  <2> QED BY <1>1, <1>4, <1>5, <1>7, <2>2, <2>3, <2>4
             DEF PlotsInv, EtaPhiOf, OccupancyOf, InEtaPhi, InOccupancy, OfLayer, Full, Outside
<1>9. CASE task # "SimpleDS"
  <2>1. plots' = plots /\ task' # "SimpleDS"
    BY <1>2, <1>9
  <2> QED BY <1>1, <1>3, <1>4, <1>5, <1>7, <2>1 DEF PlotsInv
<1> QED BY <1>8, <1>9

LEMMA PlotsStep == PlotsInv /\ [ItsNext]_itsVars => PlotsInv'
<1> SUFFICES ASSUME PlotsInv, [ItsNext]_itsVars PROVE PlotsInv'
  OBVIOUS
<1>1. ASSUME NEW r \in 1 .. MaxRuns, NEW f \in Files, NEW finish \in BOOLEAN,
             NEW reset \in BOOLEAN, NEW n \in 0 .. 2, NEW pixels \in Pixels,
             Message(r, f, finish, reset, n, pixels)
      PROVE  PlotsInv'
  <2>1. PICK m \in 0 .. 2 : pixels \in [1 .. m -> Chips]
    BY DEF Pixels
  <2>2. pixels \in Seq(Chips)
    BY <2>1
  <2> QED BY <1>1, <2>2, MessageKeepsPlots
<1>2. CASE Reset
  BY <1>2, ResetKeepsPlots
<1>3. CASE UNCHANGED itsVars
  <2>1. /\ plots' = plots /\ before' = before /\ hits' = hits /\ placed' = placed
        /\ task' = task
    BY <1>3 DEF itsVars, history
  <2> QED BY <2>1
             DEF PlotsInv, EtaPhiOf, OccupancyOf, InEtaPhi, InOccupancy, OfLayer, Full, Outside
<1> QED BY <1>1, <1>2, <1>3 DEF ItsNext

\* Whatever digits come, wherever the chips are and whenever the plots are
\* reset, the eta-phi plots lag one digit behind, the last is missing and one
\* from before the reset is in; they fall behind further only in full bins.
THEOREM EtaPhiIsOneBehind == ItsSpec => []EtaPhiLagsByOne
<1> QED BY PlotsSuffice, PlotsStart, PlotsStep, PTL DEF ItsSpec

\* No digit is lost between the counter and the occupancy plots or counted in
\* two of them, though the counter is filled a digit late and not reset, as
\* long as every counter is one of the plot's bins.
THEOREM OccupancyIsComplete == ItsSpec => []OccupancyAddsUp
<1> QED BY PlotsSuffice, PlotsStart, PlotsStep, PTL DEF ItsSpec

=============================================================================
