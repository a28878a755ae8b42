---------------------------- MODULE HistoMerger -----------------------------
(***************************************************************************)
(* The device that adds up the histograms of the copies of one task        *)
(* (Framework/src/HistoMerger.cxx).  The workflow calls run() as soon as   *)
(* one input has an array; run() takes the array of each input that has    *)
(* one and adds it to the merged array, position by position; when its     *)
(* timer has expired it publishes the merged array.                        *)
(*                                                                         *)
(* An array is the sequence of the names of its objects.  Each object of   *)
(* an array that is received holds one block; an object of the merged      *)
(* array holds the blocks of its own name that were added up, and those of *)
(* other names. The module keeps its names apart from those of the other   *)
(* devices, so that one module can extend them all.                        *)
(***************************************************************************)
EXTENDS Integers, Sequences, Functions

CONSTANTS
  Names,          \* names of objects
  Histograms,     \* those whose class is a TH1; the others are no histograms
  TaskArrays,     \* arrays a task may send
  NoArray,        \* what an input without a message has
  Inputs,         \* number of inputs of the device
  InitCapacity,   \* TCollection::kInitCapacity: the capacity of a small array
  Period,         \* publicationPeriodSeconds, in ticks
  MaxCalls,       \* bound: calls of run()
  MaxLate         \* bound: ticks the device may be late on its timer

ASSUME HistoMergerAssumption ==
  /\ Histograms \subseteq Names
  /\ TaskArrays \subseteq Seq(Names) /\ NoArray \notin Seq(Names)
  /\ Inputs \in Nat \ {0} /\ InitCapacity \in Nat
  /\ Period \in Nat \ {0}
  /\ MaxCalls \in Nat /\ MaxLate \in Nat

VARIABLES
  mMergedArray,  \* sequence of [name, blocks, foreign]
  mergedSize,    \* mMergedArray.GetSize()
  timeLeft,      \* ticks until mPublicationTimer expires
  running,       \* in the loop of run()
  inputs,        \* what the loop has still to visit
  published,     \* the last snapshot sent
  received,      \* histogram -> blocks received
  refused,       \* histogram -> blocks of arrays that were not added up
  misplaced,     \* histogram -> blocks left out, or added to an object of another name
  ticked,        \* time has passed since the last publication
  calls          \* calls of run()

merged      == <<mMergedArray, mergedSize>>
blockCounts == <<received, refused, misplaced>>
mergerVars  == <<merged, timeLeft, running, inputs, published, blockCounts, ticked, calls>>

IsTimeout == timeLeft <= 0

MergerInit ==
  /\ mMergedArray = << >> /\ mergedSize = InitCapacity
  /\ timeLeft = Period
  /\ running = FALSE /\ inputs = << >>
  /\ published = << >>
  /\ received = [h \in Histograms |-> 0]
  /\ refused = [h \in Histograms |-> 0] /\ misplaced = [h \in Histograms |-> 0]
  /\ ticked = TRUE
  /\ calls = 0

-----------------------------------------------------------------------------

(* A definition whose name starts with Mutant is a deliberate bug: put in the *)
(* place of the definition that follows it, TLC finds a property violated.    *)

\* Blocks for h in an array, and in a sequence of arrays.
BlocksIn(h, a) ==
  IF a = NoArray THEN 0 ELSE SumFunction([i \in DOMAIN a |-> IF a[i] = h THEN 1 ELSE 0])

BlocksInAll(h, as) == SumFunction([i \in DOMAIN as |-> BlocksIn(h, as[i])])

\* GetSize() of an array that was received is its capacity.
Capacity(a) == IF Len(a) > InitCapacity THEN Len(a) ELSE InitCapacity

\* The first array that is not empty becomes the merged array.
TakeFirst(a) == [i \in DOMAIN a |-> [name |-> a[i], blocks |-> 1, foreign |-> 0]]

MutantAdd(a) ==
  [i \in DOMAIN mMergedArray |->
     IF i < Len(a) /\ a[i] \in Histograms
     THEN [mMergedArray[i] EXCEPT !.blocks = @ + 1]
     ELSE mMergedArray[i]]

\* Object by object, whatever the names; what one of the arrays does not have
\* is left out.
Add(a) ==
  [i \in DOMAIN mMergedArray |->
     LET o == mMergedArray[i] IN
     IF i <= Len(a) /\ a[i] \in Histograms
     THEN IF a[i] = o.name THEN [o EXCEPT !.blocks = @ + 1] ELSE [o EXCEPT !.foreign = @ + 1]
     ELSE o]

\* Blocks of h in an array that are not added to an object of that name.
StraysIn(h, a) ==
  SumFunction([i \in DOMAIN a |->
     IF a[i] = h /\ ~(i <= Len(mMergedArray) /\ mMergedArray[i].name = h) THEN 1 ELSE 0])

\* A histogram at the place of an object that is none: Add is called on a null
\* pointer.
NullHistogram(a) ==
  \E i \in DOMAIN a : /\ i <= Len(mMergedArray) /\ a[i] \in Histograms
                      /\ mMergedArray[i].name \notin Histograms

\* Arrays of equal capacity are added up.
SizesMatch == inputs # << >> /\ Head(inputs) # NoArray /\ mergedSize = Capacity(Head(inputs))

\* The process has died in the loop: nothing happens any more.
Dead == running /\ mMergedArray # << >> /\ SizesMatch /\ NullHistogram(Head(inputs))

\* The arrays that have come; no call is made without any.
TakeInputs(as) ==
  /\ ~running
  /\ calls < MaxCalls
  /\ \E n \in DOMAIN as : as[n] # NoArray
  /\ calls' = calls + 1
  /\ running' = TRUE
  /\ inputs' = as
  /\ received' = [h \in Histograms |-> received[h] + BlocksInAll(h, as)]
  /\ UNCHANGED <<merged, timeLeft, published, refused, misplaced, ticked>>

MutantOthers == << >>

\* The loop goes on to the next input.
Others == Tail(inputs)

\* An input without header or spec.
SkipInput ==
  /\ running /\ inputs # << >>
  /\ Head(inputs) = NoArray
  /\ inputs' = Others
  /\ UNCHANGED <<merged, timeLeft, running, published, blockCounts, ticked, calls>>

FirstInput ==
  /\ running /\ inputs # << >> /\ Head(inputs) # NoArray /\ mMergedArray = << >>
  /\ mMergedArray' = TakeFirst(Head(inputs))
  /\ mergedSize' = Capacity(Head(inputs))
  /\ inputs' = Tail(inputs)
  /\ UNCHANGED <<timeLeft, running, published, blockCounts, ticked, calls>>

NextInput ==
  /\ running /\ mMergedArray # << >> /\ SizesMatch
  /\ ~NullHistogram(Head(inputs))
  /\ mMergedArray' = Add(Head(inputs))
  /\ misplaced' = [h \in Histograms |-> misplaced[h] + StraysIn(h, Head(inputs))]
  /\ inputs' = Tail(inputs)
  /\ UNCHANGED <<mergedSize, timeLeft, running, published, received, refused, ticked, calls>>

\* run() returns: the other inputs are skipped, and so is the publication.
SizesDiffer ==
  /\ running /\ inputs # << >> /\ Head(inputs) # NoArray /\ mMergedArray # << >>
  /\ mergedSize # Capacity(Head(inputs))
  /\ refused' = [h \in Histograms |-> refused[h] + BlocksInAll(h, inputs)]
  /\ inputs' = << >>
  /\ running' = FALSE
  /\ UNCHANGED <<merged, timeLeft, published, received, misplaced, ticked, calls>>

MutantIncrement == timeLeft + Period

\* The timer is set on by whole periods until it is in the future.
Increment == timeLeft + Period * (((-timeLeft) \div Period) + 1)

\* The end of run(). The merged array is kept: the next publication adds to it.
Publish ==
  /\ running /\ inputs = << >>
  /\ running' = FALSE
  /\ IF IsTimeout
     THEN /\ timeLeft' = Increment
          /\ IF mMergedArray = << >>
             THEN UNCHANGED <<published, ticked>>
             ELSE published' = mMergedArray /\ ticked' = FALSE
     ELSE UNCHANGED <<timeLeft, published, ticked>>
  /\ UNCHANGED <<merged, inputs, blockCounts, calls>>

Tick ==
  /\ ~Dead
  /\ timeLeft > -MaxLate
  /\ timeLeft' = timeLeft - 1
  /\ ticked' = TRUE
  /\ UNCHANGED <<merged, running, inputs, published, blockCounts, calls>>

MergerNext ==
  \/ \E as \in [1 .. Inputs -> TaskArrays \cup {NoArray}] : TakeInputs(as)
  \/ SkipInput \/ FirstInput \/ NextInput \/ SizesDiffer \/ Publish
  \/ Tick

MergerSpec == MergerInit /\ [][MergerNext]_mergerVars

-----------------------------------------------------------------------------

\* Blocks of h in the objects of that name, added there as theirs.
Total(h, objects) ==
  SumFunction([i \in DOMAIN objects |-> IF objects[i].name = h THEN objects[i].blocks ELSE 0])

MergerTypeOK ==
  /\ mMergedArray \in Seq([name : Names, blocks : Nat, foreign : Nat])
  /\ published \in Seq([name : Names, blocks : Nat, foreign : Nat])
  /\ mergedSize \in Nat /\ Len(mMergedArray) <= mergedSize
  /\ timeLeft \in (-MaxLate) .. Period
  /\ running \in BOOLEAN /\ ticked \in BOOLEAN
  /\ inputs \in Seq(TaskArrays \cup {NoArray})
  /\ received \in [Histograms -> Nat] /\ refused \in [Histograms -> Nat]
  /\ misplaced \in [Histograms -> Nat]
  /\ calls \in 0 .. MaxCalls

\* Every block of a histogram is in the merged histogram of that name once, but
\* for those of arrays that were refused and those whose array has something
\* else at their place: nothing is added twice, and nothing is lost with an
\* empty array, a missing input or an input that comes first. Only blocks that
\* were misplaced can be in an object of another name.
MergedAddsUp ==
  /\ \A h \in Histograms :
       received[h] = Total(h, mMergedArray) + refused[h] + misplaced[h] + BlocksInAll(h, inputs)
  /\ (\A h \in Histograms : misplaced[h] = 0) =>
       \A i \in DOMAIN mMergedArray : mMergedArray[i].foreign = 0

\* Copies of a task that publish the same objects in the same order, once they
\* publish any: of two arrays that are added up, neither is longer.
SameObjects ==
  \A a, b \in TaskArrays :
    a # << >> /\ b # << >> /\ Capacity(a) = Capacity(b) => a = b

\* A block is misplaced only where the copies do not publish the same objects.
NothingMisplaced == \A h \in Histograms : misplaced[h] = 0

\* However late the device is, it does not publish twice in a row without time
\* having passed.
NoBurst == [][running /\ ~running' /\ timeLeft' # timeLeft => ticked]_mergerVars
=============================================================================
