--------------------------- MODULE PipelineProofs ---------------------------
(***************************************************************************)
(* From the machines to the repository, for any number of machines, tasks, *)
(* blocks, runs and messages on their way: a merger counts no block twice, *)
(* loses none, and the stored versions of what it merges only grow; and    *)
(* the topology gives every output of a task one reader.                   *)
(***************************************************************************)
EXTENDS Pipeline, FiniteSetTheorems, TLAPS

(***************************************************************************)
(* The inductive invariant. A block of a merged task is at one place at    *)
(* most: place <<s, 0>> is the objects of runner s, and place <<s, i>> the *)
(* i-th message on its way from there. The messages of a merger are sums,  *)
(* each of which holds the one before and what is stored.                  *)
(***************************************************************************)
Ids(t) == 1 .. Width(t)

At(t, b, s, i) ==
  IF i = 0 THEN b \in histos[<<t, s>>]
  ELSE i \in DOMAIN channel[<<t, s>>] /\ b \in channel[<<t, s>>][i]

OnePlace(t) ==
  \A b \in Blocks, s, u \in Ids(t), i, j \in Nat :
    At(t, b, s, i) /\ At(t, b, u, j) => s = u /\ i = j

NotMergedYet(t) ==
  \A b \in Blocks, s \in Ids(t), i \in Nat : At(t, b, s, i) => b \notin merged[t]

Somewhere(t) ==
  \A b \in Blocks :
    b \in monitored[t] <=> \/ b \in merged[t] \/ b \in discarded[t]
                           \/ \E s \in Ids(t), i \in Nat : At(t, b, s, i)

Accounted(t) == OnePlace(t) /\ NotMergedYet(t) /\ Somewhere(t)

Growing(t) ==
  LET sums == channel[<<t, 0>>] IN
  /\ repository[t] \subseteq merged[t]
  /\ \A i \in DOMAIN sums : repository[t] \subseteq sums[i] /\ sums[i] \subseteq merged[t]
  /\ \A i, j \in DOMAIN sums : i <= j => sums[i] \subseteq sums[j]

PInv ==
  /\ TypeOK
  /\ running \subseteq Runners
  /\ \A t \in Mergers \cap Resetting : Accounted(t)
  /\ \A t \in Mergers : Growing(t)

-----------------------------------------------------------------------------
(* Sequences.                                                              *)

LEMMA TailOf ==
  ASSUME NEW S, NEW q \in Seq(S), q # << >>
  PROVE  /\ Tail(q) \in Seq(S) /\ Head(q) = q[1] /\ 1 \in DOMAIN q /\ q[1] \in S
         /\ \A i \in DOMAIN Tail(q) : i \in Nat \ {0} /\ i + 1 \in DOMAIN q /\ Tail(q)[i] = q[i + 1]
         /\ \A i \in DOMAIN q : i # 1 => i - 1 \in DOMAIN Tail(q) /\ Tail(q)[i - 1] = q[i]
  OBVIOUS

LEMMA AppendTo ==
  ASSUME NEW S, NEW q \in Seq(S), NEW e \in S
  PROVE  /\ Append(q, e) \in Seq(S) /\ Len(q) \in Nat
         /\ DOMAIN Append(q, e) = DOMAIN q \cup {Len(q) + 1}
         /\ Append(q, e)[Len(q) + 1] = e
         /\ \A i \in DOMAIN q : i \in Nat \ {0} /\ i <= Len(q) /\ Append(q, e)[i] = q[i]
  OBVIOUS

-----------------------------------------------------------------------------
(* The topology, which stays as it is.                                     *)

LEMMA TopologyStays ==
  ASSUME config' = config
  PROVE  /\ Mergers' = Mergers /\ Runners' = Runners
         /\ \A t : Ids(t)' = Ids(t) /\ MergerInputs(t)' = MergerInputs(t)
<1>1. \A t : Width(t)' = Width(t) /\ FirstId(t)' = FirstId(t) /\ Active(t)' = Active(t)
  BY DEF Width, FirstId, Active
<1>2. \A t, h : IdOn(t, h)' = IdOn(t, h)
  BY <1>1 DEF IdOn
<1>3. LocalThrows' = LocalThrows
  BY DEF LocalThrows
<1>4. \A h : GenerateLocal(h)' = GenerateLocal(h)
  BY <1>2, <1>3 DEF GenerateLocal
<1>5. LocalRunners' = LocalRunners /\ RemoteRunners' = RemoteRunners
  BY <1>1, <1>4 DEF LocalRunners, RemoteRunners
<1> QED BY <1>1, <1>5 DEF Mergers, Runners, Ids, MergerInputs

\* A task has as many machines at most as there are.
LEMMA WidthBound ==
  ASSUME config \in Configs, NEW t \in Tasks
  PROVE  Width(t) \in Nat /\ MaxWidth \in Nat /\ Width(t) <= MaxWidth
<1> DEFINE f == config[t].machines
           n == Len(f)
<1>1. f \in Seq(Hosts) /\ Distinct(f)
  BY ConfigsAssumption DEF Entries
<1>2. n \in Nat /\ f \in [1 .. n -> Hosts] /\ DOMAIN f = 1 .. n
  BY <1>1
<1>3. IsFiniteSet(1 .. n) /\ Cardinality(1 .. n) = n
  BY <1>2, FS_Interval
<1>4. MaxWidth \in Nat
  BY HostsAssumption, FS_CardinalityType DEF MaxWidth
<1>5. n <= MaxWidth
  <2> SUFFICES ASSUME MaxWidth < n PROVE FALSE
    BY <1>2, <1>4
  <2>1. \E i, j \in 1 .. n : i # j /\ f[i] = f[j]
    BY <1>2, <1>3, HostsAssumption, FS_PigeonHole DEF MaxWidth
  <2> QED BY <1>1, <1>2, <2>1 DEF Distinct
<1> QED BY <1>2, <1>4, <1>5 DEF Width

\* The runners of a merged task are those of the machines, which reset after
\* they publish; none of them writes to the output of the merger.
LEMMA RunnerOfMerged ==
  ASSUME config \in Configs, NEW r \in Runners, NEW t \in Mergers, r[1] = t
  PROVE  ResetAfterPublish(r) /\ \E s \in Ids(t) : r = <<t, s>>
<1>1. config[t].location = "local" /\ Width(t) > 1 /\ t \in Tasks
  BY DEF Mergers
<1>2. r \notin RemoteRunners
  BY <1>1 DEF RemoteRunners
<1>3. r \in LocalRunners
  BY <1>2 DEF Runners
<1>4. PICK h \in Hosts : r \in GenerateLocal(h)
  BY <1>3 DEF LocalRunners
<1>5. /\ r = <<t, IdOn(t, h)>>
      /\ \E i \in DOMAIN config[t].machines : config[t].machines[i] = h
  BY <1>4 DEF GenerateLocal
<1> DEFINE k == CHOOSE i \in DOMAIN config[t].machines : config[t].machines[i] = h
<1>6. k \in DOMAIN config[t].machines
  BY <1>5
<1>7. config[t].machines \in Seq(Hosts)
  BY <1>1, ConfigsAssumption DEF Entries
<1>8. k \in 1 .. Width(t)
  BY <1>6, <1>7 DEF Width
<1> HIDE DEF k
<1>9. IdOn(t, h) = k
  <2>1. IdOn(t, h) = 1 + k - 1
    BY <1>1 DEF IdOn, FirstId, k
  <2> QED BY <1>8, <2>1
<1> QED BY <1>3, <1>5, <1>8, <1>9 DEF ResetAfterPublish, Ids

LEMMA OutputsOf ==
  ASSUME config \in Configs, NEW t \in Tasks
  PROVE  <<t, 0>> \in Outputs /\ \A s \in Ids(t) : <<t, s>> \in Outputs /\ s # 0 /\ <<t, s>> # <<t, 0>>
  BY WidthBound DEF Outputs, Ids

-----------------------------------------------------------------------------
(* Types.                                                                  *)

LEMMA RunnerTask == \A r \in Outputs : r[1] \in Tasks
  BY DEF Outputs

LEMMA InitEstablishes == Init => PInv
<1> SUFFICES ASSUME Init PROVE PInv
  OBVIOUS
<1>1. TypeOK
  BY BoundsAssumption DEF Init, TypeOK
<1>2. running \subseteq Runners
  BY DEF Init
<1>3. ASSUME NEW t \in Mergers, NEW b, NEW s \in Ids(t), NEW i \in Nat PROVE ~At(t, b, s, i)
  <2>1. t \in Tasks /\ config \in Configs
    BY DEF Mergers, Init
  <2>2. histos[<<t, s>>] = {} /\ channel[<<t, s>>] = << >>
    BY <2>1, OutputsOf DEF Init
  <2> QED BY <2>2 DEF At
<1>4. ASSUME NEW t \in Mergers PROVE Accounted(t)
  <2>1. t \in Tasks
    BY DEF Mergers
  <2>2. OnePlace(t) /\ NotMergedYet(t)
    BY <1>3 DEF OnePlace, NotMergedYet
  <2>3. Somewhere(t)
    BY <1>3, <2>1 DEF Somewhere, Init
  <2> QED BY <2>2, <2>3 DEF Accounted
<1>5. ASSUME NEW t \in Mergers PROVE Growing(t)
  <2>1. t \in Tasks /\ config \in Configs
    BY DEF Mergers, Init
  <2>2. channel[<<t, 0>>] = << >> /\ repository[t] = {}
    BY <2>1, OutputsOf DEF Init
  <2> QED BY <2>2 DEF Growing
<1> QED BY <1>1, <1>2, <1>4, <1>5 DEF PInv

LEMMA NewAreBlocks == \A new \in NewBlocks : new \in SUBSET Blocks
  BY DEF NewBlocks

\* An output has a limit, and ended cycles are counted in naturals.
LEMMA CountTypes ==
  ASSUME TypeOK, NEW r \in Outputs
  PROVE  OneMore(r) \in [Outputs -> Nat]
  BY DEF TypeOK, OneMore

LEMMA RunnerTypes == TypeOK /\ (\E r \in Outputs : RunnerStep(r)) => TypeOK'
<1> SUFFICES ASSUME TypeOK, NEW r \in Outputs, RunnerStep(r) PROVE TypeOK'
  OBVIOUS
<1>1. r[1] \in Tasks
  BY RunnerTask
<1>2. /\ histos[r] \subseteq Blocks
      /\ \A filled : AfterReset(r, filled) \subseteq filled
  BY DEF TypeOK, AfterReset
<1>3. CASE Start(r)
  <2>1. PICK kept \in {{}, histos[r]} :
          /\ histos' = [histos EXCEPT ![r] = kept]
          /\ discarded' = [discarded EXCEPT ![r[1]] = @ \cup (histos[r] \ kept)]
    BY <1>3 DEF Start
  <2>2. histos' \in [Outputs -> SUBSET Blocks] /\ discarded' \in [Tasks -> SUBSET Blocks]
    BY <1>1, <1>2, <2>1 DEF TypeOK
  <2>3. runs' \in [Outputs -> 0 .. MaxRuns]
    BY <1>3, BoundsAssumption DEF Start, TypeOK
  <2>4. running' \subseteq Outputs /\ mCycleOn' \subseteq running'
    BY <1>3 DEF Start, TypeOK
  <2> QED BY <1>3, <2>2, <2>3, <2>4 DEF Start, TypeOK
<1>4. ASSUME NEW new \in NewBlocks, Monitor(r, new) PROVE TypeOK'
  <2>1. histos' \in [Outputs -> SUBSET Blocks] /\ monitored' \in [Tasks -> SUBSET Blocks]
    BY <1>1, <1>4, NewAreBlocks DEF Input, Monitor, TypeOK
  <2>2. mCycleOn' \subseteq running'
    BY <1>4 DEF Input, Monitor, TypeOK
  <2> QED BY <1>4, <2>1, <2>2 DEF Monitor, TypeOK
<1>5. ASSUME NEW new \in NewBlocks, EndCycle(r, new) PROVE TypeOK'
  <2> DEFINE filled == histos[r] \cup new
  <2>0. filled \in SUBSET Blocks /\ AfterReset(r, filled) \in SUBSET Blocks
    BY <1>2, NewAreBlocks
  <2>1. /\ channel' = [channel EXCEPT ![r] = Append(@, filled)]
        /\ histos' = [histos EXCEPT ![r] = IF ResetAfterPublish(r) THEN AfterReset(r, filled)
                                                                   ELSE filled]
    BY <1>5 DEF EndCycle, Published
  <2> HIDE DEF filled
  <2>2. channel' \in [Outputs -> Seq(SUBSET Blocks)]
    BY <2>0, <2>1, AppendTo DEF TypeOK
  <2>3. histos' \in [Outputs -> SUBSET Blocks]
    BY <2>0, <2>1 DEF TypeOK
  <2>4. monitored' \in [Tasks -> SUBSET Blocks]
    BY <1>1, <1>5, NewAreBlocks DEF Input, EndCycle, TypeOK
  <2>5. mCycleOn' \subseteq running' /\ mCycleNumber' \in [Outputs -> Nat]
    BY <1>5, CountTypes DEF EndCycle, TypeOK
  <2> QED BY <1>5, <2>2, <2>3, <2>4, <2>5 DEF EndCycle, TypeOK
<1>6. CASE Stop(r)
  <2>1. histos' \in [Outputs -> SUBSET Blocks] /\ discarded' \in [Tasks -> SUBSET Blocks]
    BY <1>1, <1>2, <1>6 DEF Stop, TypeOK
  <2>2. running' \subseteq Outputs /\ mCycleOn' \subseteq running'
    BY <1>6 DEF Stop, TypeOK
  <2>3. mCycleNumber' \in [Outputs -> Nat]
    BY <1>6, CountTypes DEF Stop, TypeOK
  <2> QED BY <1>6, <2>1, <2>2, <2>3 DEF Stop, TypeOK
<1> QED BY <1>3, <1>4, <1>5, <1>6 DEF RunnerStep

\* What Merge does to the messages: one of a runner is taken, and the sum may
\* be put on the output of the merger.
LEMMA MergeEffect ==
  ASSUME TypeOK, NEW t \in Tasks, NEW o \in Outputs, Merge(t, o)
  PROVE  /\ \E s \in Ids(t) : o = <<t, s>>
         /\ o # <<t, 0>> /\ <<t, 0>> \in Outputs /\ channel[o] # << >>
         /\ channel' \in [Outputs -> Seq(SUBSET Blocks)] /\ merged' \in [Tasks -> SUBSET Blocks]
         /\ channel'[o] = Tail(channel[o])
         /\ \A p \in Outputs : p # o /\ p # <<t, 0>> => channel'[p] = channel[p]
         /\ channel'[<<t, 0>>] \in {channel[<<t, 0>>], Append(channel[<<t, 0>>], merged'[t])}
         /\ merged'[t] = merged[t] \cup Head(channel[o])
         /\ \A u \in Tasks : u # t => merged'[u] = merged[u]
<1>1. \E s \in Ids(t) : o = <<t, s>>
  BY DEF Merge, MergerInputs, Ids
<1>2. o # <<t, 0>> /\ <<t, 0>> \in Outputs
  BY <1>1, OutputsOf DEF TypeOK
<1>3. channel[o] # << >> /\ channel[o] \in Seq(SUBSET Blocks) /\ channel[<<t, 0>>] \in Seq(SUBSET Blocks)
  BY <1>2 DEF Merge, TypeOK
<1>4. Tail(channel[o]) \in Seq(SUBSET Blocks) /\ Head(channel[o]) \in SUBSET Blocks
  BY <1>3, TailOf
<1>5. merged' = [merged EXCEPT ![t] = merged[t] \cup Head(channel[o])]
  BY DEF Merge, Sum
<1>6. merged' \in [Tasks -> SUBSET Blocks] /\ merged'[t] \in SUBSET Blocks
  BY <1>4, <1>5 DEF TypeOK
<1>7. Append(channel[<<t, 0>>], merged'[t]) \in Seq(SUBSET Blocks)
  BY <1>3, <1>6, AppendTo
<1>8. \/ channel' = [channel EXCEPT ![o] = Tail(channel[o]),
                                    ![<<t, 0>>] = Append(channel[<<t, 0>>], merged'[t])]
      \/ channel' = [channel EXCEPT ![o] = Tail(channel[o])]
  BY <1>2 DEF Merge, TypeOK
<1>9. /\ channel' \in [Outputs -> Seq(SUBSET Blocks)]
      /\ channel'[o] = Tail(channel[o])
      /\ \A p \in Outputs : p # o /\ p # <<t, 0>> => channel'[p] = channel[p]
      /\ channel'[<<t, 0>>] \in {channel[<<t, 0>>], Append(channel[<<t, 0>>], merged'[t])}
  BY <1>2, <1>4, <1>7, <1>8 DEF TypeOK
<1> QED BY <1>1, <1>2, <1>3, <1>5, <1>6, <1>9 DEF TypeOK

\* A checker takes the first message.
LEMMA CheckEffect ==
  ASSUME TypeOK, NEW t \in Tasks, Check(t) \/ CheckUnstored(t)
  PROVE  /\ <<t, 0>> \in Outputs /\ channel[<<t, 0>>] # << >>
         /\ channel' \in [Outputs -> Seq(SUBSET Blocks)]
         /\ channel'[<<t, 0>>] = Tail(channel[<<t, 0>>])
         /\ \A p \in Outputs : p # <<t, 0>> => channel'[p] = channel[p]
         /\ repository' \in [Tasks -> SUBSET Blocks]
         /\ repository'[t] \in {repository[t], Head(channel[<<t, 0>>])}
         /\ \A u \in Tasks : u # t => repository'[u] = repository[u]
<1>1. <<t, 0>> \in Outputs
  BY OutputsOf DEF TypeOK
<1>2. channel[<<t, 0>>] # << >> /\ channel[<<t, 0>>] \in Seq(SUBSET Blocks)
  BY <1>1 DEF Check, CheckUnstored, TypeOK
<1>3. Tail(channel[<<t, 0>>]) \in Seq(SUBSET Blocks) /\ Head(channel[<<t, 0>>]) \in SUBSET Blocks
  <2> DEFINE q == channel[<<t, 0>>]
  <2>1. q # << >> /\ q \in Seq(SUBSET Blocks)
    BY <1>2
  <2> HIDE DEF q
  <2>2. Tail(q) \in Seq(SUBSET Blocks) /\ Head(q) \in SUBSET Blocks
    BY <2>1, TailOf
  <2> QED BY <2>2 DEF q
<1>4. channel' = [channel EXCEPT ![<<t, 0>>] = Tail(channel[<<t, 0>>])]
  BY DEF Check, CheckUnstored
<1>5. \/ repository' = [repository EXCEPT ![t] = Head(channel[<<t, 0>>])]
      \/ repository' = repository
  BY DEF Check, CheckUnstored
<1>6. /\ channel' \in [Outputs -> Seq(SUBSET Blocks)]
      /\ channel'[<<t, 0>>] = Tail(channel[<<t, 0>>])
      /\ \A p \in Outputs : p # <<t, 0>> => channel'[p] = channel[p]
  BY <1>1, <1>3, <1>4 DEF TypeOK
<1>7. /\ repository' \in [Tasks -> SUBSET Blocks]
      /\ repository'[t] \in {repository[t], Head(channel[<<t, 0>>])}
      /\ \A u \in Tasks : u # t => repository'[u] = repository[u]
  BY <1>3, <1>5 DEF TypeOK
<1> QED BY <1>1, <1>2, <1>6, <1>7

LEMMA ServerTypes == TypeOK /\ (\E t \in Tasks : ServerStep(t)) => TypeOK'
<1> SUFFICES ASSUME TypeOK, NEW t \in Tasks, ServerStep(t) PROVE TypeOK'
  OBVIOUS
<1>1. CASE TimerExpires(t)
  BY <1>1 DEF TimerExpires, TypeOK, cycles
<1>2. ASSUME NEW o \in Outputs, Merge(t, o) PROVE TypeOK'
  <2>1. channel' \in [Outputs -> Seq(SUBSET Blocks)] /\ merged' \in [Tasks -> SUBSET Blocks]
    BY <1>2, MergeEffect
  <2>2. due' \subseteq Tasks
    BY <1>2 DEF Merge, TypeOK
  <2> QED BY <1>2, <2>1, <2>2 DEF Merge, TypeOK, cycles
<1>3. CASE Check(t) \/ CheckUnstored(t)
  <2>1. channel' \in [Outputs -> Seq(SUBSET Blocks)] /\ repository' \in [Tasks -> SUBSET Blocks]
    BY <1>3, CheckEffect
  <2> QED BY <1>3, <2>1 DEF Check, CheckUnstored, TypeOK, cycles
<1> QED BY <1>1, <1>2, <1>3 DEF ServerStep

-----------------------------------------------------------------------------
(* The places of the blocks.                                               *)

\* The places of task t as Monitor, EndCycle and so on leave or change them.
SameIn(t, s) == histos'[<<t, s>>] = histos[<<t, s>>] /\ channel'[<<t, s>>] = channel[<<t, s>>]

SameTopology(t) == config' = config /\ Ids(t)' = Ids(t)

SameBooks(t) ==
  merged'[t] = merged[t] /\ monitored'[t] = monitored[t] /\ discarded'[t] = discarded[t]

LEMMA SamePlaces ==
  ASSUME NEW t, NEW s, SameIn(t, s), NEW b, NEW i
  PROVE  At(t, b, s, i)' <=> At(t, b, s, i)
  BY DEF At, SameIn

LEMMA UntouchedIsAccounted ==
  ASSUME NEW t, Accounted(t), SameTopology(t), SameBooks(t), \A s \in Ids(t) : SameIn(t, s)
  PROVE  Accounted(t)'
<1>1. \A b \in Blocks, s \in Ids(t), i \in Nat : At(t, b, s, i)' <=> At(t, b, s, i)
  BY SamePlaces
<1> QED BY <1>1 DEF Accounted, OnePlace, NotMergedYet, Somewhere, SameTopology, SameBooks

\* The objects of a runner are emptied, wholly or not at all, and what they
\* held is written off.
LEMMA DroppedIsAccounted ==
  ASSUME NEW t, NEW z \in Ids(t), Accounted(t), SameTopology(t),
         \A s \in Ids(t) \ {z} : SameIn(t, s),
         channel'[<<t, z>>] = channel[<<t, z>>],
         NEW kept, kept \subseteq histos[<<t, z>>], histos'[<<t, z>>] = kept,
         discarded'[t] = discarded[t] \cup (histos[<<t, z>>] \ kept),
         merged'[t] = merged[t], monitored'[t] = monitored[t]
  PROVE  Accounted(t)'
<1>1. \A b \in Blocks, s \in Ids(t), i \in Nat : At(t, b, s, i)' => At(t, b, s, i)
  BY SamePlaces DEF At
<1>2. \A b \in Blocks, s \in Ids(t), i \in Nat : At(t, b, s, i) => At(t, b, s, i)' \/ b \in histos[<<t, z>>] \ kept
  BY SamePlaces DEF At
<1>3. \A b \in Blocks : b \in histos[<<t, z>>] => At(t, b, z, 0)
  BY DEF At
<1>4. OnePlace(t)' /\ NotMergedYet(t)'
  BY <1>1 DEF Accounted, OnePlace, NotMergedYet, SameTopology
<1>5. Somewhere(t)'
  BY <1>1, <1>2, <1>3 DEF Accounted, Somewhere, SameTopology
<1> QED BY <1>4, <1>5 DEF Accounted

LEMMA MonitoredIsAccounted ==
  ASSUME NEW t, NEW z \in Ids(t), NEW new \in SUBSET Blocks, Accounted(t), SameTopology(t),
         \A s \in Ids(t) \ {z} : SameIn(t, s),
         channel'[<<t, z>>] = channel[<<t, z>>],
         histos'[<<t, z>>] = histos[<<t, z>>] \cup new,
         new \cap monitored[t] = {}, monitored'[t] = monitored[t] \cup new,
         merged'[t] = merged[t], discarded'[t] = discarded[t]
  PROVE  Accounted(t)'
<1>1. \A b \in Blocks, s \in Ids(t), i \in Nat :
        At(t, b, s, i)' <=> At(t, b, s, i) \/ (b \in new /\ s = z /\ i = 0)
  BY SamePlaces DEF At
<1>2. \A b \in new, s \in Ids(t), i \in Nat : ~At(t, b, s, i)
  BY DEF Accounted, Somewhere
<1>3. \A b \in new : b \notin merged[t] /\ b \notin discarded[t]
  BY DEF Accounted, Somewhere
<1>4. OnePlace(t)'
  BY <1>1, <1>2 DEF Accounted, OnePlace, SameTopology
<1>5. NotMergedYet(t)'
  BY <1>1, <1>3 DEF Accounted, NotMergedYet, SameTopology
<1>6. Somewhere(t)'
  BY <1>1 DEF Accounted, Somewhere, SameTopology
<1> QED BY <1>4, <1>5, <1>6 DEF Accounted

\* The objects become the last message, with what the last input of the cycle
\* brought, and are emptied.
LEMMA PublishedIsAccounted ==
  ASSUME NEW t, NEW z \in Ids(t), NEW new \in SUBSET Blocks, Accounted(t), SameTopology(t),
         \A s \in Ids(t) \ {z} : SameIn(t, s),
         channel[<<t, z>>] \in Seq(SUBSET Blocks), histos[<<t, z>>] \subseteq Blocks,
         channel'[<<t, z>>] = Append(channel[<<t, z>>], histos[<<t, z>>] \cup new),
         histos'[<<t, z>>] = {},
         new \cap monitored[t] = {}, monitored'[t] = monitored[t] \cup new,
         merged'[t] = merged[t], discarded'[t] = discarded[t]
  PROVE  Accounted(t)'
<1> DEFINE q == channel[<<t, z>>]
           last == Len(q) + 1
<1>1. /\ last \in Nat \ {0} /\ DOMAIN channel'[<<t, z>>] = DOMAIN q \cup {last}
      /\ channel'[<<t, z>>][last] = histos[<<t, z>>] \cup new /\ last \notin DOMAIN q
      /\ \A i \in DOMAIN q : i \in Nat \ {0} /\ channel'[<<t, z>>][i] = q[i]
  <2> HIDE DEF q
  <2>1. q \in Seq(SUBSET Blocks) /\ histos[<<t, z>>] \cup new \in SUBSET Blocks
        /\ channel'[<<t, z>>] = Append(q, histos[<<t, z>>] \cup new)
    BY DEF q
  <2>2. last = Len(q) + 1
    OBVIOUS
  <2> HIDE DEF last
  <2> QED BY ONLY <2>1, <2>2, AppendTo
<1> HIDE DEF q, last
<1>2. \A b \in Blocks, i \in Nat : At(t, b, z, i)' <=>
         (i # 0 /\ i # last /\ At(t, b, z, i)) \/ (i = last /\ (At(t, b, z, 0) \/ b \in new))
  <2> TAKE b \in Blocks, i \in Nat
  <2>1. CASE i = 0
    BY <1>1, <2>1 DEF At
  <2>2. CASE i = last
    <3>1. At(t, b, z, i)' <=> b \in histos[<<t, z>>] \cup new
      BY <1>1, <2>2 DEF At
    <3>2. At(t, b, z, 0) <=> b \in histos[<<t, z>>]
      BY DEF At
    <3> QED BY <3>1, <3>2, <2>2
  <2>3. CASE i # 0 /\ i # last
    <3>1. At(t, b, z, i)' <=> i \in DOMAIN q /\ b \in q[i]
      BY <1>1, <2>3 DEF At
    <3>2. At(t, b, z, i) <=> i \in DOMAIN q /\ b \in q[i]
      BY <2>3 DEF At, q
    <3> QED BY <3>1, <3>2, <2>3
  <2> QED BY <2>1, <2>2, <2>3
<1>3. \A b \in Blocks : ~At(t, b, z, last)
  BY <1>1 DEF At, q
<1>4. \A b \in Blocks, s \in Ids(t) \ {z}, i \in Nat : At(t, b, s, i)' <=> At(t, b, s, i)
  BY SamePlaces
<1>5. /\ \A b \in new, s \in Ids(t), i \in Nat : ~At(t, b, s, i)
      /\ \A b \in new : b \notin merged[t]
  BY DEF Accounted, Somewhere
<1>6. OnePlace(t)'
  <2> SUFFICES ASSUME NEW b \in Blocks, NEW s \in Ids(t), NEW u \in Ids(t),
                      NEW i \in Nat, NEW j \in Nat, At(t, b, s, i)', At(t, b, u, j)'
               PROVE  s = u /\ i = j
    BY DEF OnePlace, SameTopology
  <2>1. CASE b \in new
    <3>1. s = z /\ i = last
      BY <1>2, <1>4, <1>5, <2>1
    <3>2. u = z /\ j = last
      BY <1>2, <1>4, <1>5, <2>1
    <3> QED BY <3>1, <3>2
  <2>2. CASE b \notin new
    <3> DEFINE Before(v, k) == IF v = z /\ k = last THEN 0 ELSE k
    <3>1. At(t, b, s, Before(s, i)) /\ (s = z => i # 0)
      BY <1>1, <1>2, <1>4, <2>2
    <3>2. At(t, b, u, Before(u, j)) /\ (u = z => j # 0)
      BY <1>1, <1>2, <1>4, <2>2
    <3>3. Before(s, i) \in Nat /\ Before(u, j) \in Nat
      OBVIOUS
    <3>4. s = u /\ Before(s, i) = Before(u, j)
      BY <3>1, <3>2, <3>3 DEF Accounted, OnePlace
    <3> QED BY <3>1, <3>2, <3>4
  <2> QED BY <2>1, <2>2
<1>7. \A b \in Blocks, s \in Ids(t), i \in Nat :
        At(t, b, s, i)' => b \in new \/ \E j \in Nat : At(t, b, s, j)
  BY <1>2, <1>4
<1>8. \A b \in Blocks, s \in Ids(t), i \in Nat : At(t, b, s, i) => \E j \in Nat : At(t, b, s, j)'
  BY <1>1, <1>2, <1>3, <1>4
<1>9. \A b \in new : \E i \in Nat : At(t, b, z, i)'
  <2> TAKE b \in new
  <2>1. PICK i \in Nat : i = last
    BY <1>1
  <2>2. At(t, b, z, i)'
    BY <1>2, <2>1
  <2> QED BY <2>2
<1>10. NotMergedYet(t)'
  BY <1>5, <1>7 DEF Accounted, NotMergedYet, SameTopology
<1>11. Somewhere(t)'
  <2>1. \A b \in new : \E s \in Ids(t), i \in Nat : At(t, b, s, i)'
    BY <1>9
  <2>2. Ids(t)' = Ids(t)
    BY DEF SameTopology
  <2> QED BY <1>7, <1>8, <2>1, <2>2 DEF Accounted, Somewhere
<1> QED BY <1>6, <1>10, <1>11 DEF Accounted

\* The first message of a runner goes into the sum.
LEMMA MergedIsAccounted ==
  ASSUME NEW t, NEW z \in Ids(t), Accounted(t), SameTopology(t),
         \A s \in Ids(t) \ {z} : SameIn(t, s),
         channel[<<t, z>>] \in Seq(SUBSET Blocks), channel[<<t, z>>] # << >>,
         channel'[<<t, z>>] = Tail(channel[<<t, z>>]),
         histos'[<<t, z>>] = histos[<<t, z>>],
         merged'[t] = merged[t] \cup Head(channel[<<t, z>>]),
         monitored'[t] = monitored[t], discarded'[t] = discarded[t]
  PROVE  Accounted(t)'
<1> DEFINE q == channel[<<t, z>>]
<1>1. /\ Head(q) = q[1] /\ 1 \in DOMAIN q
      /\ \A i \in DOMAIN Tail(q) : i \in Nat \ {0} /\ i + 1 \in DOMAIN q /\ Tail(q)[i] = q[i + 1]
      /\ \A i \in DOMAIN q : i # 1 => i - 1 \in DOMAIN Tail(q) /\ Tail(q)[i - 1] = q[i]
  <2> HIDE DEF q
  <2>1. q \in Seq(SUBSET Blocks) /\ q # << >>
    BY DEF q
  <2> QED BY <2>1, TailOf
<1>2. merged'[t] = merged[t] \cup q[1]
  BY <1>1
<1> HIDE DEF q
<1>3. \A b \in Blocks : b \in q[1] <=> At(t, b, z, 1)
  BY <1>1 DEF At, q
<1>4. \A b \in Blocks, i \in Nat : At(t, b, z, i)' =>
         IF i = 0 THEN At(t, b, z, 0) ELSE At(t, b, z, i + 1)
  BY <1>1 DEF At, q
<1>5. \A b \in Blocks, i \in Nat : i # 1 /\ At(t, b, z, i) =>
         IF i = 0 THEN At(t, b, z, 0)' ELSE At(t, b, z, i - 1)' /\ i - 1 \in Nat
  BY <1>1 DEF At, q
<1>6. \A b \in Blocks, s \in Ids(t) \ {z}, i \in Nat : At(t, b, s, i)' <=> At(t, b, s, i)
  BY SamePlaces
<1> DEFINE Before(v, k) == IF v = z /\ k # 0 THEN k + 1 ELSE k
<1>7. \A b \in Blocks, s \in Ids(t), i \in Nat : At(t, b, s, i)' => At(t, b, s, Before(s, i)) /\ Before(s, i) \in Nat
  BY <1>4, <1>6
<1>8. OnePlace(t)'
  <2> SUFFICES ASSUME NEW b \in Blocks, NEW s \in Ids(t), NEW u \in Ids(t),
                      NEW i \in Nat, NEW j \in Nat, At(t, b, s, i)', At(t, b, u, j)'
               PROVE  s = u /\ i = j
    BY DEF OnePlace, SameTopology
  <2>1. s = u /\ Before(s, i) = Before(u, j)
    BY <1>7 DEF Accounted, OnePlace
  <2> QED BY <2>1
<1>9. NotMergedYet(t)'
  <2> SUFFICES ASSUME NEW b \in Blocks, NEW s \in Ids(t), NEW i \in Nat, At(t, b, s, i)'
               PROVE  b \notin merged'[t]
    BY DEF NotMergedYet, SameTopology
  <2>1. At(t, b, s, Before(s, i)) /\ Before(s, i) \in Nat
    BY <1>7
  <2>2. b \notin merged[t]
    BY <2>1 DEF Accounted, NotMergedYet
  <2>3. ~(s = z /\ Before(s, i) = 1)
    OBVIOUS
  <2>4. ~At(t, b, z, 1)
    BY <2>1, <2>3 DEF Accounted, OnePlace
  <2> QED BY <1>2, <1>3, <2>2, <2>4
<1>10. Somewhere(t)'
  <2>1. \A b \in Blocks, s \in Ids(t), i \in Nat :
          At(t, b, s, i) => b \in q[1] \/ \E j \in Nat : At(t, b, s, j)'
    BY <1>3, <1>5, <1>6
  <2>2. \A b \in Blocks, s \in Ids(t), i \in Nat : At(t, b, s, i)' => \E j \in Nat : At(t, b, s, j)
    BY <1>7
  <2> QED BY <1>2, <1>3, <2>1, <2>2 DEF Accounted, Somewhere, SameTopology
<1> QED BY <1>8, <1>9, <1>10 DEF Accounted

\* The steps of the runners, for a merged task whose reset() empties.
LEMMA RunnerAccounts ==
  ASSUME PInv, NEW r \in Outputs, RunnerStep(r), NEW t \in Mergers \cap Resetting
  PROVE  Accounted(t)'
<1>0. TypeOK /\ Accounted(t) /\ t \in Tasks /\ r[1] \in Tasks /\ config \in Configs
  BY RunnerTask DEF PInv, Mergers, TypeOK
<1>1. config' = config /\ merged' = merged
  BY DEF RunnerStep, Start, Input, Monitor, EndCycle, Stop
<1>2. SameTopology(t) /\ merged'[t] = merged[t]
  BY <1>1, TopologyStays DEF SameTopology
<1>3. r \in Runners
  BY DEF PInv, RunnerStep, Start, Input, Monitor, EndCycle, Stop
<1>4. \A s \in Ids(t) : <<t, s>> \in Outputs
  BY <1>0, OutputsOf
<1>5. CASE r[1] # t
  <2>1. \A s \in Ids(t) : <<t, s>> # r
    BY <1>5
  <2>2. \A s \in Ids(t) : SameIn(t, s)
    BY <1>0, <1>4, <2>1 DEF RunnerStep, Start, Input, Monitor, EndCycle, Stop, SameIn, TypeOK
  <2>3. monitored'[t] = monitored[t] /\ discarded'[t] = discarded[t]
    BY <1>0, <1>5 DEF RunnerStep, Start, Input, Monitor, EndCycle, Stop, TypeOK
  <2> QED BY <1>0, <1>2, <2>2, <2>3, UntouchedIsAccounted DEF SameBooks
<1>6. CASE r[1] = t
  <2>1. PICK z \in Ids(t) : r = <<t, z>>
    BY <1>0, <1>3, <1>6, RunnerOfMerged
  <2>2. ResetAfterPublish(r) /\ \A filled : AfterReset(r, filled) = {}
    BY <1>0, <1>3, <1>6, RunnerOfMerged DEF AfterReset
  <2>3. \A s \in Ids(t) \ {z} : SameIn(t, s)
    <3>1. \A s \in Ids(t) \ {z} : <<t, s>> # r
      BY <2>1
    <3> QED BY <1>0, <1>4, <3>1 DEF RunnerStep, Start, Input, Monitor, EndCycle, Stop, SameIn, TypeOK
  <2>4. CASE Start(r)
    <3>1. PICK kept \in {{}, histos[r]} :
            /\ histos' = [histos EXCEPT ![r] = kept]
            /\ discarded' = [discarded EXCEPT ![r[1]] = @ \cup (histos[r] \ kept)]
      BY <2>4 DEF Start
    <3>2. histos'[<<t, z>>] = kept /\ discarded'[t] = discarded[t] \cup (histos[<<t, z>>] \ kept)
      BY <1>0, <1>6, <2>1, <3>1 DEF TypeOK
    <3>3. channel'[<<t, z>>] = channel[<<t, z>>] /\ monitored'[t] = monitored[t]
      BY <2>4 DEF Start
    <3>4. kept \subseteq histos[<<t, z>>]
      BY <2>1
    <3> QED BY <1>0, <1>2, <2>3, <3>2, <3>3, <3>4, DroppedIsAccounted
  <2>5. ASSUME NEW new \in NewBlocks, Input(r, new)
        PROVE  /\ new \in SUBSET Blocks /\ new \cap monitored[t] = {}
               /\ monitored'[t] = monitored[t] \cup new
    BY <1>0, <1>6, <2>5, NewAreBlocks DEF Input, TypeOK
  <2>6. ASSUME NEW new \in NewBlocks, Monitor(r, new) PROVE Accounted(t)'
    <3>1. Input(r, new)
      BY <2>6 DEF Monitor
    <3>2. histos'[<<t, z>>] = histos[<<t, z>>] \cup new
      BY <1>0, <2>1, <2>6 DEF Monitor, TypeOK
    <3>3. channel'[<<t, z>>] = channel[<<t, z>>] /\ discarded'[t] = discarded[t]
      BY <2>6 DEF Monitor
    <3> QED BY <1>0, <1>2, <2>3, <2>5, <3>1, <3>2, <3>3, MonitoredIsAccounted
  <2>7. ASSUME NEW new \in NewBlocks, EndCycle(r, new) PROVE Accounted(t)'
    <3>1. Input(r, new)
      BY <2>7 DEF EndCycle
    <3>2. /\ channel'[<<t, z>>] = Append(channel[<<t, z>>], histos[<<t, z>>] \cup new)
          /\ histos'[<<t, z>>] = {}
      BY <1>0, <2>1, <2>2, <2>7 DEF EndCycle, Published, TypeOK
    <3>3. channel[<<t, z>>] \in Seq(SUBSET Blocks) /\ histos[<<t, z>>] \subseteq Blocks
      BY <1>0, <1>4 DEF TypeOK
    <3>4. discarded'[t] = discarded[t]
      BY <2>7 DEF EndCycle
    <3> QED BY <1>0, <1>2, <2>3, <2>5, <3>1, <3>2, <3>3, <3>4, PublishedIsAccounted
  <2>8. CASE Stop(r)
    <3>1. /\ histos'[<<t, z>>] = {}
          /\ discarded'[t] = discarded[t] \cup (histos[<<t, z>>] \ {})
      BY <1>0, <1>6, <2>1, <2>2, <2>8 DEF Stop, TypeOK
    <3>2. channel'[<<t, z>>] = channel[<<t, z>>] /\ monitored'[t] = monitored[t]
      BY <2>8 DEF Stop
    <3>3. {} \subseteq histos[<<t, z>>]
      OBVIOUS
    <3> QED BY <1>0, <1>2, <2>3, <3>1, <3>2, <3>3, DroppedIsAccounted
  <2> QED BY <2>4, <2>6, <2>7, <2>8 DEF RunnerStep
<1> QED BY <1>5, <1>6

\* The steps of the QC server.
LEMMA ServerAccounts ==
  ASSUME PInv, NEW u \in Tasks, ServerStep(u), NEW t \in Mergers \cap Resetting
  PROVE  Accounted(t)'
<1>0. TypeOK /\ Accounted(t) /\ t \in Tasks /\ config \in Configs
  BY DEF PInv, Mergers, TypeOK
<1>1. UNCHANGED <<config, histos, monitored, discarded>>
  BY DEF ServerStep, TimerExpires, Merge, Check, CheckUnstored
<1>2. SameTopology(t)
  BY <1>1, TopologyStays DEF SameTopology
<1>3. \A s \in Ids(t) : <<t, s>> \in Outputs /\ \A w : <<t, s>> # <<w, 0>>
  BY <1>0, OutputsOf DEF Ids
<1>4. CASE TimerExpires(u)
  <2>1. \A s \in Ids(t) : SameIn(t, s)
    BY <1>1, <1>4 DEF TimerExpires, SameIn
  <2>2. SameBooks(t)
    BY <1>1, <1>4 DEF TimerExpires, SameBooks
  <2> QED BY <1>0, <1>2, <2>1, <2>2, UntouchedIsAccounted
<1>5. CASE Check(u) \/ CheckUnstored(u)
  <2>1. \A p \in Outputs : p # <<u, 0>> => channel'[p] = channel[p]
    BY <1>0, <1>5, CheckEffect
  <2>2. \A s \in Ids(t) : SameIn(t, s)
    BY <1>1, <1>3, <2>1 DEF SameIn
  <2>3. SameBooks(t)
    BY <1>1, <1>5 DEF Check, CheckUnstored, SameBooks
  <2> QED BY <1>0, <1>2, <2>2, <2>3, UntouchedIsAccounted
<1>6. ASSUME NEW o \in Outputs, Merge(u, o) PROVE Accounted(t)'
  <2>1. /\ \E s \in Ids(u) : o = <<u, s>>
        /\ channel[o] # << >>
        /\ channel'[o] = Tail(channel[o])
        /\ \A p \in Outputs : p # o /\ p # <<u, 0>> => channel'[p] = channel[p]
        /\ merged'[u] = merged[u] \cup Head(channel[o])
        /\ \A w \in Tasks : w # u => merged'[w] = merged[w]
    BY <1>0, <1>6, MergeEffect
  <2>2. PICK z \in Ids(u) : o = <<u, z>>
    BY <2>1
  <2>3. CASE u # t
    <3>1. \A s \in Ids(t) : SameIn(t, s)
      BY <1>1, <1>3, <2>1, <2>2, <2>3 DEF SameIn
    <3>2. SameBooks(t)
      BY <1>0, <1>1, <2>1, <2>3 DEF SameBooks
    <3> QED BY <1>0, <1>2, <3>1, <3>2, UntouchedIsAccounted
  <2>4. CASE u = t
    <3>1. \A s \in Ids(t) \ {z} : SameIn(t, s)
      BY <1>1, <1>3, <2>1, <2>2, <2>4 DEF SameIn
    <3>2. /\ z \in Ids(t) /\ channel[<<t, z>>] # << >>
          /\ channel'[<<t, z>>] = Tail(channel[<<t, z>>])
          /\ merged'[t] = merged[t] \cup Head(channel[<<t, z>>])
      BY <2>1, <2>2, <2>4
    <3>3. channel[<<t, z>>] \in Seq(SUBSET Blocks)
      BY <1>0, <1>3, <3>2 DEF TypeOK
    <3>4. /\ histos'[<<t, z>>] = histos[<<t, z>>]
          /\ monitored'[t] = monitored[t] /\ discarded'[t] = discarded[t]
      BY <1>1
    <3> QED BY <1>0, <1>2, <3>1, <3>2, <3>3, <3>4, MergedIsAccounted
  <2> QED BY <2>3, <2>4
<1> QED BY <1>4, <1>5, <1>6 DEF ServerStep

-----------------------------------------------------------------------------
(* The sums of a merger.                                                   *)

LEMMA SameSumsGrow ==
  ASSUME NEW t, Growing(t), channel'[<<t, 0>>] = channel[<<t, 0>>],
         repository'[t] = repository[t], merged'[t] = merged[t]
  PROVE  Growing(t)'
  BY DEF Growing

LEMMA RunnersLeaveSums ==
  ASSUME PInv, NEW r \in Outputs, RunnerStep(r), NEW t \in Mergers
  PROVE  Growing(t)' /\ repository' = repository
<1>0. TypeOK /\ Growing(t) /\ t \in Tasks /\ config \in Configs
  BY DEF PInv, Mergers, TypeOK
<1>1. UNCHANGED <<merged, repository>>
  BY DEF RunnerStep, Start, Input, Monitor, EndCycle, Stop
<1>2. r \in Runners
  BY DEF PInv, RunnerStep, Start, Input, Monitor, EndCycle, Stop
<1>3. r # <<t, 0>>
  <2> SUFFICES ASSUME r = <<t, 0>> PROVE FALSE
    OBVIOUS
  <2>1. r[1] = t
    OBVIOUS
  <2>2. \E s \in Ids(t) : r = <<t, s>>
    BY <1>0, <1>2, <2>1, RunnerOfMerged
  <2> QED BY <1>0, <2>2, OutputsOf
<1>4. channel'[<<t, 0>>] = channel[<<t, 0>>]
  <2>1. <<t, 0>> \in Outputs
    BY <1>0, OutputsOf
  <2> QED BY <1>0, <1>3, <2>1 DEF RunnerStep, Start, Input, Monitor, EndCycle, Stop, TypeOK
<1> QED BY <1>0, <1>1, <1>4, SameSumsGrow

LEMMA ServerGrows ==
  ASSUME PInv, NEW u \in Tasks, ServerStep(u), NEW t \in Mergers
  PROVE  Growing(t)' /\ repository[t] \subseteq repository'[t]
<1> DEFINE q == channel[<<t, 0>>]
<1>0. TypeOK /\ Growing(t) /\ t \in Tasks /\ config \in Configs
  BY DEF PInv, Mergers, TypeOK
<1>1. <<t, 0>> \in Outputs /\ q \in Seq(SUBSET Blocks)
  BY <1>0, OutputsOf DEF TypeOK
<1>2. CASE TimerExpires(u)
  <2>1. UNCHANGED <<channel, repository, merged>>
    BY <1>2 DEF TimerExpires
  <2> QED BY <1>0, <2>1, SameSumsGrow
<1>3. CASE Check(u) \/ CheckUnstored(u)
  <2>1. /\ channel[<<u, 0>>] # << >>
        /\ channel'[<<u, 0>>] = Tail(channel[<<u, 0>>])
        /\ \A p \in Outputs : p # <<u, 0>> => channel'[p] = channel[p]
        /\ repository'[u] \in {repository[u], Head(channel[<<u, 0>>])}
        /\ \A w \in Tasks : w # u => repository'[w] = repository[w]
    BY <1>0, <1>3, CheckEffect
  <2>2. merged' = merged
    BY <1>3 DEF Check, CheckUnstored
  <2>3. CASE u # t
    <3>1. channel'[<<t, 0>>] = channel[<<t, 0>>] /\ repository'[t] = repository[t]
      BY <1>0, <1>1, <2>1, <2>3
    <3> QED BY <1>0, <2>2, <3>1, SameSumsGrow
  <2>4. CASE u = t
    <3>1. q # << >> /\ channel'[<<t, 0>>] = Tail(q) /\ repository'[t] \in {repository[t], Head(q)}
      BY <2>1, <2>4
    <3>2. /\ repository[t] \subseteq merged[t]
          /\ \A i \in DOMAIN q : repository[t] \subseteq q[i] /\ q[i] \subseteq merged[t]
          /\ \A i, j \in DOMAIN q : i <= j => q[i] \subseteq q[j]
      BY <1>0 DEF Growing
    <3> HIDE DEF q
    <3>3. /\ Head(q) = q[1] /\ 1 \in DOMAIN q
          /\ \A i \in DOMAIN Tail(q) : i \in Nat \ {0} /\ i + 1 \in DOMAIN q /\ Tail(q)[i] = q[i + 1]
      BY <1>1, <3>1, TailOf
    <3>4. /\ repository[t] \subseteq repository'[t] /\ repository'[t] \subseteq merged[t]
          /\ \A i \in DOMAIN Tail(q) : repository'[t] \subseteq Tail(q)[i] /\ Tail(q)[i] \subseteq merged[t]
      BY <3>1, <3>2, <3>3
    <3>5. \A i, j \in DOMAIN Tail(q) : i <= j => Tail(q)[i] \subseteq Tail(q)[j]
      BY <3>2, <3>3
    <3> QED BY <2>2, <3>1, <3>4, <3>5 DEF Growing
  <2> QED BY <2>3, <2>4
<1>4. ASSUME NEW o \in Outputs, Merge(u, o)
      PROVE  Growing(t)' /\ repository[t] \subseteq repository'[t]
  <2>1. /\ \E s \in Ids(u) : o = <<u, s>>
        /\ o # <<u, 0>>
        /\ \A p \in Outputs : p # o /\ p # <<u, 0>> => channel'[p] = channel[p]
        /\ channel'[<<u, 0>>] \in {channel[<<u, 0>>], Append(channel[<<u, 0>>], merged'[u])}
        /\ merged' \in [Tasks -> SUBSET Blocks]
        /\ merged'[u] = merged[u] \cup Head(channel[o])
        /\ \A w \in Tasks : w # u => merged'[w] = merged[w]
    BY <1>0, <1>4, MergeEffect
  <2>2. repository' = repository
    BY <1>4 DEF Merge
  <2>3. CASE u # t
    <3>1. <<t, 0>> # o
      BY <2>1, <2>3
    <3>2. channel'[<<t, 0>>] = channel[<<t, 0>>] /\ merged'[t] = merged[t]
      BY <1>0, <1>1, <2>1, <2>3, <3>1
    <3> QED BY <1>0, <2>2, <3>2, SameSumsGrow
  <2>4. CASE u = t
    <3>1. /\ merged[t] \subseteq merged'[t] /\ merged'[t] \in SUBSET Blocks
          /\ channel'[<<t, 0>>] \in {q, Append(q, merged'[t])}
      BY <1>0, <2>1, <2>4
    <3>2. /\ repository[t] \subseteq merged[t]
          /\ \A i \in DOMAIN q : repository[t] \subseteq q[i] /\ q[i] \subseteq merged[t]
          /\ \A i, j \in DOMAIN q : i <= j => q[i] \subseteq q[j]
      BY <1>0 DEF Growing
    <3> HIDE DEF q
    <3> DEFINE n == Len(q) + 1
               p == Append(q, merged'[t])
    <3>3. /\ DOMAIN p = DOMAIN q \cup {n} /\ p[n] = merged'[t] /\ n \in Nat
          /\ \A i \in DOMAIN q : i \in Nat \ {0} /\ i < n /\ p[i] = q[i]
      <4>1. /\ Len(q) \in Nat /\ DOMAIN p = DOMAIN q \cup {n} /\ p[n] = merged'[t]
            /\ \A i \in DOMAIN q : i \in Nat \ {0} /\ i <= Len(q) /\ p[i] = q[i]
        BY <1>1, <3>1, AppendTo
      <4> QED BY <4>1
    <3> HIDE DEF n, p
    <3>4. /\ \A i \in DOMAIN p : repository[t] \subseteq p[i] /\ p[i] \subseteq merged'[t]
          /\ \A i, j \in DOMAIN p : i <= j => p[i] \subseteq p[j]
      BY <3>1, <3>2, <3>3
    <3>5. CASE channel'[<<t, 0>>] = q
      BY <2>2, <3>1, <3>2, <3>5 DEF Growing
    <3>6. CASE channel'[<<t, 0>>] = p
      BY <2>2, <3>1, <3>2, <3>4, <3>6 DEF Growing
    <3> QED BY <3>1, <3>5, <3>6, <2>2 DEF p
  <2> QED BY <2>3, <2>4
<1> QED BY <1>2, <1>3, <1>4 DEF ServerStep

-----------------------------------------------------------------------------
LEMMA StepPreserves == PInv /\ [Next]_vars => PInv'
<1> SUFFICES ASSUME PInv, [Next]_vars PROVE PInv'
  OBVIOUS
<1>1. ASSUME NEW r \in Outputs, RunnerStep(r) PROVE PInv'
  <2>1. TypeOK'
    BY <1>1, RunnerTypes DEF PInv
  <2>2. Mergers' = Mergers /\ Runners' = Runners
    <3>1. config' = config
      BY <1>1 DEF RunnerStep, Start, Input, Monitor, EndCycle, Stop
    <3> QED BY <3>1, TopologyStays
  <2>3. running' \subseteq Runners
    BY <1>1 DEF PInv, RunnerStep, Start, Input, Monitor, EndCycle, Stop
  <2> QED BY <1>1, <2>1, <2>2, <2>3, RunnerAccounts, RunnersLeaveSums DEF PInv
<1>2. ASSUME NEW u \in Tasks, ServerStep(u) PROVE PInv'
  <2>1. TypeOK'
    BY <1>2, ServerTypes DEF PInv
  <2>2. config' = config /\ running' = running
    BY <1>2 DEF ServerStep, TimerExpires, Merge, Check, CheckUnstored
  <2>3. Mergers' = Mergers /\ Runners' = Runners
    BY <2>2, TopologyStays
  <2> QED BY <1>2, <2>1, <2>2, <2>3, ServerAccounts, ServerGrows DEF PInv
<1>3. CASE UNCHANGED vars
  <2>1. /\ config' = config /\ running' = running /\ histos' = histos /\ channel' = channel
        /\ merged' = merged /\ repository' = repository
        /\ monitored' = monitored /\ discarded' = discarded
    BY <1>3 DEF vars
  <2>2. TypeOK'
    BY <1>3 DEF PInv, TypeOK, vars, cycles
  <2>3. Mergers' = Mergers /\ Runners' = Runners
    BY <2>1, TopologyStays
  <2>4. ASSUME NEW t \in Mergers \cap Resetting PROVE Accounted(t)'
    <3>1. SameTopology(t)
      BY <2>1, TopologyStays DEF SameTopology
    <3> QED BY <2>1, <3>1, UntouchedIsAccounted DEF PInv, SameBooks, SameIn
  <2>5. ASSUME NEW t \in Mergers PROVE Growing(t)'
    BY <2>1, SameSumsGrow DEF PInv
  <2> QED BY <2>1, <2>2, <2>3, <2>4, <2>5 DEF PInv
<1> QED BY <1>1, <1>2, <1>3 DEF Next

\* Whatever the configuration, the devices keep account of every block.
THEOREM Invariance == Spec => []PInv
  BY InitEstablishes, StepPreserves, PTL DEF Spec

\* Whatever runners start, stop and publish, and in whatever order messages are
\* taken, a merger adds no block to a sum that holds it.
THEOREM EachBlockCountedOnce == Spec => []CountedOnce
<1>1. ASSUME PInv, NEW t \in Mergers \cap Resetting PROVE Apart(t)
  <2>1. TypeOK /\ Accounted(t) /\ t \in Tasks
    BY <1>1 DEF PInv, Mergers
  <2>2. \A s \in Ids(t) : histos[<<t, s>>] \subseteq Blocks /\ channel[<<t, s>>] \in Seq(SUBSET Blocks)
    BY <2>1, OutputsOf DEF TypeOK
  <2>3. \A s \in Ids(t) : \A i \in DOMAIN channel[<<t, s>>] :
          i \in Nat /\ i # 0 /\ channel[<<t, s>>][i] \subseteq Blocks
    BY <2>2
  <2>4. \A s, u \in Ids(t), i, j \in Nat, b \in Blocks :
          At(t, b, s, i) /\ At(t, b, u, j) => s = u /\ i = j
    BY <2>1 DEF Accounted, OnePlace
  <2>5. \A s \in Ids(t), i \in Nat, b \in Blocks : At(t, b, s, i) => b \notin merged[t]
    BY <2>1 DEF Accounted, NotMergedYet
  <2>6. \A s \in Ids(t), b \in Blocks : b \in histos[<<t, s>>] => At(t, b, s, 0)
    BY DEF At
  <2>7. \A s \in Ids(t), b \in Blocks : \A i \in DOMAIN channel[<<t, s>>] :
          b \in channel[<<t, s>>][i] => At(t, b, s, i)
    BY <2>3 DEF At
  <2>8. ASSUME NEW s \in Ids(t)
        PROVE  /\ histos[<<t, s>>] \cap merged[t] = {}
               /\ \A i \in DOMAIN channel[<<t, s>>] : channel[<<t, s>>][i] \cap merged[t] = {}
    BY <2>2, <2>3, <2>5, <2>6, <2>7
  <2>9. ASSUME NEW s \in Ids(t), NEW u \in Ids(t), NEW i \in DOMAIN channel[<<t, s>>]
        PROVE  /\ channel[<<t, s>>][i] \cap histos[<<t, u>>] = {}
               /\ \A j \in DOMAIN channel[<<t, u>>] :
                    s # u \/ i # j => channel[<<t, s>>][i] \cap channel[<<t, u>>][j] = {}
    <3>1. \A b \in channel[<<t, s>>][i] : b \in Blocks /\ At(t, b, s, i) /\ i \in Nat /\ i # 0
      BY <2>3, <2>7
    <3>2. \A b \in Blocks : b \in histos[<<t, u>>] => At(t, b, u, 0)
      BY <2>6
    <3>3. channel[<<t, s>>][i] \cap histos[<<t, u>>] = {}
      BY <2>4, <3>1, <3>2
    <3>4. ASSUME NEW j \in DOMAIN channel[<<t, u>>], s # u \/ i # j
          PROVE  channel[<<t, s>>][i] \cap channel[<<t, u>>][j] = {}
      <4>1. \A b \in channel[<<t, u>>][j] : b \in Blocks /\ At(t, b, u, j) /\ j \in Nat
        BY <2>3, <2>7
      <4> QED BY <2>4, <3>1, <3>4, <4>1
    <3> QED BY <3>3, <3>4
  <2>10. ASSUME NEW s \in Ids(t), NEW u \in Ids(t), s # u
         PROVE  histos[<<t, s>>] \cap histos[<<t, u>>] = {}
    <3>1. \A b \in histos[<<t, s>>] : b \in Blocks /\ At(t, b, s, 0)
      BY <2>2, <2>6
    <3>2. \A b \in histos[<<t, u>>] : b \in Blocks /\ At(t, b, u, 0)
      BY <2>2, <2>6
    <3>3. 0 \in Nat
      OBVIOUS
    <3> QED BY <2>4, <2>10, <3>1, <3>2, <3>3
  <2> QED BY <2>8, <2>9, <2>10 DEF Apart, Ids
<1>2. PInv => CountedOnce
  BY <1>1 DEF CountedOnce
<1> QED BY <1>2, Invariance, PTL

\* Every block that a merged task was given is in the objects of a runner, on
\* its way, in the sum, or dropped by a stop.
THEOREM NoBlockVanishes == Spec => []NothingVanishes
<1>1. ASSUME PInv, NEW t \in Mergers \cap Resetting
      PROVE  monitored[t] = merged[t] \cup discarded[t]
                            \cup (UNION {histos[o] : o \in MergerInputs(t)})
                            \cup (UNION {UNION Messages(o) : o \in MergerInputs(t)})
  <2> DEFINE inside == UNION {histos[o] : o \in MergerInputs(t)}
             outside == UNION {UNION Messages(o) : o \in MergerInputs(t)}
  <2>1. TypeOK /\ Somewhere(t) /\ t \in Tasks
    BY <1>1 DEF PInv, Mergers, Accounted
  <2>2. \A s \in Ids(t) : histos[<<t, s>>] \subseteq Blocks /\ channel[<<t, s>>] \in Seq(SUBSET Blocks)
    BY <2>1, OutputsOf DEF TypeOK
  <2>3. \A s \in Ids(t) : \A i \in DOMAIN channel[<<t, s>>] :
          i \in Nat /\ i # 0 /\ channel[<<t, s>>][i] \subseteq Blocks
    BY <2>2
  <2>4. \A b : b \in inside <=> \E s \in Ids(t) : b \in histos[<<t, s>>]
    BY DEF MergerInputs, Ids
  <2>5. \A b : b \in outside <=> \E s \in Ids(t) : \E i \in DOMAIN channel[<<t, s>>] : b \in channel[<<t, s>>][i]
    <3>1. \A b, o : b \in UNION Messages(o) <=> \E i \in DOMAIN channel[o] : b \in channel[o][i]
      BY DEF Messages
    <3>2. \A b : b \in outside <=> \E s \in Ids(t) : b \in UNION Messages(<<t, s>>)
      BY DEF MergerInputs, Ids
    <3> QED BY <3>1, <3>2
  <2>6. monitored[t] \subseteq Blocks /\ merged[t] \subseteq Blocks /\ discarded[t] \subseteq Blocks
    BY <2>1 DEF TypeOK
  <2> HIDE DEF inside, outside
  <2>7. inside \subseteq Blocks /\ outside \subseteq Blocks
    BY <2>2, <2>3, <2>4, <2>5
  <2>8. ASSUME NEW b \in Blocks
        PROVE  b \in inside \/ b \in outside <=> \E s \in Ids(t), i \in Nat : At(t, b, s, i)
    BY <2>3, <2>4, <2>5 DEF At
  <2>9. monitored[t] = merged[t] \cup discarded[t] \cup inside \cup outside
    BY <2>1, <2>6, <2>7, <2>8 DEF Somewhere
  <2> QED BY <2>9 DEF inside, outside
<1>2. PInv => NothingVanishes
  BY <1>1 DEF NothingVanishes
<1> QED BY <1>2, Invariance, PTL

\* Stored versions of what mergers add up never lose a block, although
\* versions are refused and runners stop and start.
THEOREM StoredOnlyGrows == Spec => StoredGrows
<1> DEFINE Grows == \A t \in Mergers : repository[t] \subseteq repository'[t]
<1>1. ASSUME PInv, Next PROVE Grows
  BY <1>1, RunnersLeaveSums, ServerGrows DEF Next
<1>2. PInv /\ [Next]_vars => [Grows]_vars
  BY <1>1
<1> QED BY <1>2, Invariance, PTL DEF Spec, StoredGrows

-----------------------------------------------------------------------------
(***************************************************************************)
(* The two halves of the topology.                                         *)
(***************************************************************************)

\* The runner on the i-th machine of a task has the i-th of the numbers.
LEMMA IdOfMachine ==
  ASSUME TypeOK, NEW t \in Tasks, NEW i \in 1 .. Width(t)
  PROVE  /\ config[t].machines[i] \in Hosts
         /\ IdOn(t, config[t].machines[i]) = FirstId(t) + i - 1
<1>1. config[t] \in Entries /\ Distinct(config[t].machines)
  BY ConfigsAssumption DEF TypeOK
<1>2. config[t].machines \in Seq(Hosts)
  BY <1>1 DEF Entries
<1> DEFINE s == config[t].machines
<1>3. DOMAIN s = 1 .. Width(t) /\ s[i] \in Hosts
  BY <1>2 DEF Width
<1>4. (CHOOSE j \in DOMAIN s : s[j] = s[i]) = i
  BY <1>1, <1>3 DEF Distinct
<1> QED BY <1>3, <1>4 DEF IdOn

LEMMA WidthPositive ==
  ASSUME TypeOK, NEW t \in Tasks
  PROVE  Width(t) \in Nat \ {0} /\ DOMAIN config[t].machines = 1 .. Width(t)
<1>1. config[t].machines # << >> /\ config[t].machines \in Seq(Hosts)
  BY ConfigsAssumption DEF TypeOK, Entries
<1> QED BY <1>1 DEF Width

\* Where the machines run a task, it has one runner for each of them.
LEMMA LocalOutputs ==
  ASSUME TypeOK, ~LocalThrows, NEW t \in Tasks, NEW n
  PROVE  <<t, n>> \in LocalRunners <=>
           /\ config[t].active = "true" /\ config[t].location = "local"
           /\ n \in FirstId(t) .. FirstId(t) + Width(t) - 1
<1>0. FirstId(t) \in Nat /\ Width(t) \in Nat /\ DOMAIN config[t].machines = 1 .. Width(t)
  BY WidthPositive DEF FirstId
<1>1. ASSUME <<t, n>> \in LocalRunners
      PROVE  /\ config[t].active = "true" /\ config[t].location = "local"
             /\ n \in FirstId(t) .. FirstId(t) + Width(t) - 1
  <2>1. PICK h \in Hosts : <<t, n>> \in GenerateLocal(h)
    BY <1>1 DEF LocalRunners
  <2>2. /\ config[t].active = "true" /\ config[t].location = "local" /\ n = IdOn(t, h)
        /\ \E i \in DOMAIN config[t].machines : config[t].machines[i] = h
    BY <2>1 DEF GenerateLocal
  <2>3. PICK i \in 1 .. Width(t) : config[t].machines[i] = h
    BY <1>0, <2>2
  <2>4. n = FirstId(t) + i - 1
    BY <2>2, <2>3, IdOfMachine
  <2> QED BY <1>0, <2>2, <2>4
<1>2. ASSUME config[t].active = "true", config[t].location = "local",
             n \in FirstId(t) .. FirstId(t) + Width(t) - 1
      PROVE  <<t, n>> \in LocalRunners
  <2> DEFINE i == n - FirstId(t) + 1
             h == config[t].machines[i]
  <2>1. i \in 1 .. Width(t) /\ n = FirstId(t) + i - 1
    BY <1>0, <1>2
  <2>2. h \in Hosts /\ IdOn(t, h) = n
    BY <2>1, IdOfMachine
  <2>3. \E j \in DOMAIN config[t].machines : config[t].machines[j] = h
    BY <1>0, <2>1
  <2> HIDE DEF h
  <2>4. <<t, IdOn(t, h)>> \in GenerateLocal(h)
    BY <1>2, <2>3 DEF GenerateLocal
  <2> QED BY <2>2, <2>4 DEF LocalRunners
<1> QED BY <1>1, <1>2

LEMMA RunnerIsPair ==
  ASSUME NEW o \in Runners
  PROVE  o[1] \in Tasks /\ o = <<o[1], o[2]>>
<1>1. CASE o \in RemoteRunners
  BY <1>1 DEF RemoteRunners
<1>2. CASE o \in LocalRunners
  <2>1. PICK h \in Hosts : o \in GenerateLocal(h)
    BY <1>2 DEF LocalRunners
  <2> QED BY <2>1 DEF GenerateLocal
<1> QED BY <1>1, <1>2 DEF Runners

\* Whatever the configuration, the devices that the machines and the server lay
\* out apart fit together.
THEOREM AlwaysWired == Spec => []Wired
<1>1. ASSUME TypeOK, ~LocalThrows
      PROVE  /\ \A t \in Mergers : \A o \in MergerInputs(t) : o \in Runners
             /\ \A t \in Checkers : (<<t, 0>> \in Runners) # (t \in Mergers)
             /\ \A o \in Runners : Cardinality(Readers(o)) = 1
             /\ \A t \in Tasks : \A h, g \in Hosts :
                  /\ t \in Mergers
                  /\ h # g
                  /\ \E i, j \in 1 .. Width(t) : config[t].machines[i] = h /\ config[t].machines[j] = g
                  => IdOn(t, h) # IdOn(t, g)
  <2>0. ASSUME NEW t \in Tasks
        PROVE  /\ Width(t) \in Nat \ {0} /\ config[t].location \in {"local", "remote"}
               /\ FirstId(t) = IF Width(t) > 1 THEN 1 ELSE 0
               /\ Active(t) <=> config[t].active = "true"
    <3>1. config[t] \in Entries
      BY <1>1, ConfigsAssumption DEF TypeOK
    <3> QED BY <1>1, <3>1, WidthPositive DEF FirstId, Active, LocalThrows, Entries
  <2>1. ASSUME NEW t \in Mergers, NEW o \in MergerInputs(t) PROVE o \in Runners
    <3>1. t \in Tasks /\ Active(t) /\ config[t].location = "local" /\ Width(t) > 1
      BY DEF Mergers
    <3>2. PICK n \in 1 .. Width(t) : o = <<t, n>>
      BY DEF MergerInputs
    <3>3. n \in FirstId(t) .. FirstId(t) + Width(t) - 1
      BY <2>0, <3>1, <3>2
    <3>4. o \in LocalRunners
      BY <1>1, <2>0, <3>1, <3>2, <3>3, LocalOutputs
    <3> QED BY <3>4 DEF Runners
  <2>2. ASSUME NEW t \in Checkers
        PROVE  (<<t, 0>> \in Runners) # (t \in Mergers)
    <3>1. t \in Tasks /\ Active(t) /\ config[t].active = "true"
      BY <2>0 DEF Checkers
    <3>2. <<t, 0>> \in RemoteRunners <=> config[t].location = "remote"
      BY <3>1 DEF RemoteRunners
    <3>3. <<t, 0>> \in LocalRunners <=> config[t].location = "local" /\ Width(t) = 1
      <4>1. 0 \in FirstId(t) .. FirstId(t) + Width(t) - 1 <=> Width(t) = 1
        BY <2>0, <3>1
      <4> QED BY <1>1, <3>1, <4>1, LocalOutputs
    <3>4. t \in Mergers <=> config[t].location = "local" /\ Width(t) > 1
      BY <3>1 DEF Mergers
    <3> QED BY <2>0, <3>1, <3>2, <3>3, <3>4 DEF Runners
  <2>3. ASSUME NEW o \in Runners PROVE Cardinality(Readers(o)) = 1
    <3> DEFINE t == o[1]
               n == o[2]
    <3>1. t \in Tasks /\ o = <<t, n>>
      BY RunnerIsPair
    <3> HIDE DEF t, n
    <3>2. \A u \in Mergers : o \in MergerInputs(u) <=> u = t /\ n \in 1 .. Width(t)
      BY <3>1 DEF MergerInputs
    <3>3. Readers(o) = {u \in Mergers : u = t /\ n \in 1 .. Width(t)} \cup {u \in Checkers : u = t /\ n = 0}
      BY <3>1, <3>2 DEF Readers
    <3>4. Readers(o) = {t}
      <4>1. CASE o \in RemoteRunners
        <5>1. n = 0 /\ t \in Checkers
          BY <3>1, <4>1 DEF RemoteRunners, Checkers
        <5> QED BY <3>3, <5>1
      <4>2. CASE o \in LocalRunners
        <5>1. /\ Active(t) /\ config[t].location = "local"
              /\ n \in FirstId(t) .. FirstId(t) + Width(t) - 1
          BY <1>1, <2>0, <3>1, <4>2, LocalOutputs
        <5>2. CASE Width(t) > 1
          <6>1. n \in 1 .. Width(t) /\ n # 0
            BY <2>0, <3>1, <5>1, <5>2
          <6>2. t \in Mergers
            BY <3>1, <5>1, <5>2 DEF Mergers
          <6> QED BY <3>3, <6>1, <6>2
        <5>3. CASE Width(t) = 1
          <6>1. n = 0
            BY <2>0, <3>1, <5>1, <5>3
          <6>2. t \in Checkers
            BY <3>1, <5>1 DEF Checkers
          <6> QED BY <3>3, <6>1, <6>2
        <5> QED BY <2>0, <3>1, <5>2, <5>3
      <4> QED BY <4>1, <4>2 DEF Runners
    <3> QED BY <3>4, FS_Singleton
  <2>4. ASSUME NEW t \in Tasks, NEW i \in 1 .. Width(t), NEW j \in 1 .. Width(t),
               config[t].machines[i] # config[t].machines[j]
        PROVE  IdOn(t, config[t].machines[i]) # IdOn(t, config[t].machines[j])
    <3>1. i # j
      BY <2>4
    <3>2. FirstId(t) \in Nat
      BY DEF FirstId
    <3> QED BY <1>1, <3>1, <3>2, IdOfMachine
  <2> QED BY <2>1, <2>2, <2>3, <2>4
<1>2. PInv => Wired
  BY <1>1 DEF PInv, Wired
<1> QED BY <1>2, Invariance, PTL
=============================================================================
