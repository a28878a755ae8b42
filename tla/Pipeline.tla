------------------------------ MODULE Pipeline ------------------------------
(***************************************************************************)
(* The devices InfrastructureGenerator.cxx lays out, and what flows        *)
(* through them: the runners of a task on the machines, a merger where     *)
(* there are several, a checker, and the repository it stores into.        *)
(*                                                                         *)
(* Data are blocks that somebody monitored. The objects of a task stand    *)
(* for the set of blocks that were filled into them; adding up histograms  *)
(* is the union of sets as long as no block is in both (CountedOnce).      *)
(* Inside, the devices are those of TaskRunner, HistoMerger and Checker;   *)
(* here one step is one message taken or sent. A runner acts on an input   *)
(* and on nothing else, and no more once its limit of cycles is reached.   *)
(***************************************************************************)
EXTENDS Integers, Sequences, FiniteSets

CONSTANTS
  Tasks,
  Hosts,        \* the machines generateLocalInfrastructure may be called for
  Blocks,       \* blocks of data
  Resetting,    \* the tasks whose reset() empties their objects
  Configs,      \* configurations: a function from Tasks to entries of qc.tasks
  MaxRuns,      \* bound: starts of a runner
  MaxQueue      \* bound: messages DPL keeps for one input

Entries == [active    : {"true", "false", "unset"},
            location  : {"local", "remote"},
            machines  : Seq(Hosts),
            maxNumberCycles : Int]     \* no limit if it is negative

\* A machine is listed once; a task that is local has a machine.
Distinct(s) == \A i, j \in DOMAIN s : s[i] = s[j] => i = j

ASSUME HostsAssumption == IsFiniteSet(Hosts)
ASSUME ResettingAssumption == Resetting \subseteq Tasks
ASSUME BoundsAssumption == MaxRuns \in Nat /\ MaxQueue \in Nat \ {0}
ASSUME ConfigsAssumption ==
  \A c \in Configs : /\ c \in [Tasks -> Entries]
                     /\ \A t \in Tasks : /\ Distinct(c[t].machines)
                                         /\ c[t].machines # << >>

VARIABLES
  config,       \* the configuration all hosts and the QC server read
  running,      \* the runners whose device is between start() and stop()
  runs,         \* how often each runner was started
  mCycleOn,     \* the runners with an open cycle
  mCycleNumber, \* ended cycles of each runner, where there is a limit
  histos,       \* the blocks in the objects of each runner
  channel,      \* messages on their way, by output
  merged,       \* what each merger added up
  due,          \* the publication timers of the mergers that have expired
  repository,   \* the blocks in the stored version of each task's objects
  monitored,    \* history: the blocks each task was given
  discarded     \* history: the blocks dropped between two runs

cycles == <<mCycleOn, mCycleNumber>>
vars   == <<config, running, runs, cycles, histos, channel, merged, due, repository,
            monitored, discarded>>

-----------------------------------------------------------------------------
(* The topology. An output is a task (its data description) and a          *)
(* subspecification; it is read by the device that has the same input.     *)

Width(t) == Len(config[t].machines)

Active(t) == config[t].active \in {"true", "unset"}   \* get<bool>("active", true)

\* get<bool>("active") without a default throws for the whole host.
LocalThrows == \E t \in Tasks : config[t].active = "unset"

MutantFirstId(t) == 0

FirstId(t) == IF Width(t) > 1 THEN 1 ELSE 0

IdOn(t, h) == FirstId(t) + (CHOOSE i \in DOMAIN config[t].machines :
                              config[t].machines[i] = h) - 1

GenerateLocal(h) ==
  IF LocalThrows THEN {}
  ELSE {<<t, IdOn(t, h)>> : t \in {u \in Tasks :
          /\ config[u].active = "true"
          /\ config[u].location = "local"
          /\ \E i \in DOMAIN config[u].machines : config[u].machines[i] = h}}

LocalRunners == UNION {GenerateLocal(h) : h \in Hosts}

RemoteRunners == {<<t, 0>> : t \in {u \in Tasks : Active(u) /\ config[u].location = "remote"}}

Runners == LocalRunners \cup RemoteRunners

Mergers == {t \in Tasks : Active(t) /\ config[t].location = "local" /\ Width(t) > 1}

MutantMergerInputs(t) == {<<t, s>> : s \in 1 .. Width(t) - 1}

MergerInputs(t) == {<<t, s>> : s \in 1 .. Width(t)}

Checkers == {t \in Tasks : Active(t)}

\* Only the runners of generateLocal are told to reset after they publish.
ResetAfterPublish(r) == r \in LocalRunners

MaxWidth == Cardinality(Hosts)

Outputs == Tasks \X (0 .. MaxWidth)

-----------------------------------------------------------------------------
Init ==
  /\ config \in Configs
  /\ running = {}
  /\ runs = [r \in Outputs |-> 0]
  /\ mCycleOn = {} /\ mCycleNumber = [r \in Outputs |-> 0]
  /\ histos = [r \in Outputs |-> {}]
  /\ channel = [o \in Outputs |-> << >>]
  /\ merged = [t \in Tasks |-> {}]
  /\ due = {}
  /\ repository = [t \in Tasks |-> {}]
  /\ monitored = [t \in Tasks |-> {}]
  /\ discarded = [t \in Tasks |-> {}]

Limit(r) == config[r[1]].maxNumberCycles

LimitReached(r) == Limit(r) >= 0 /\ mCycleNumber[r] >= Limit(r)

\* One more cycle has ended.
OneMore(r) == [mCycleNumber EXCEPT ![r] = IF Limit(r) >= 0 THEN @ + 1 ELSE @]

\* reset() of the task of runner r, as far as it does anything.
MutantAfterReset(r, filled) == filled

AfterReset(r, filled) == IF r[1] \in Resetting THEN {} ELSE filled

\* start(): the startOfActivity() of some tasks empties the objects of the last
\* run, that of others (SimpleDS, QCGeneral, Benchmark) does not.
Start(r) ==
  /\ r \in Runners \ running
  /\ runs[r] < MaxRuns
  /\ running' = running \cup {r}
  /\ runs' = [runs EXCEPT ![r] = @ + 1]
  /\ mCycleOn' = mCycleOn \cup {r}
  /\ \E kept \in {{}, histos[r]} :
       /\ histos' = [histos EXCEPT ![r] = kept]
       /\ discarded' = [discarded EXCEPT ![r[1]] = @ \cup (histos[r] \ kept)]
  /\ UNCHANGED <<config, mCycleNumber, channel, merged, due, repository, monitored>>

\* An input of a runner that is not at its limit, with the blocks that nobody
\* was given yet.
Input(r, new) ==
  /\ r \in running
  /\ ~LimitReached(r)
  /\ new \cap monitored[r[1]] = {}
  /\ monitored' = [monitored EXCEPT ![r[1]] = @ \cup new]

\* processCallback() in the middle of a cycle, which it opens if none is.
Monitor(r, new) ==
  /\ Input(r, new)
  /\ mCycleOn' = mCycleOn \cup {r}
  /\ histos' = [histos EXCEPT ![r] = @ \cup new]
  /\ UNCHANGED <<config, running, runs, mCycleNumber, channel, merged, due, repository, discarded>>

MutantPublished(r, filled) == AfterReset(r, filled)

Published(r, filled) == filled

\* processCallback() when the timer has expired or the file has ended: the
\* objects are published after this input, then reset.
EndCycle(r, new) ==
  /\ Input(r, new)
  /\ Len(channel[r]) < MaxQueue
  /\ LET filled == histos[r] \cup new
     IN  /\ channel' = [channel EXCEPT ![r] = Append(@, Published(r, filled))]
         /\ histos' = [histos EXCEPT ![r] = IF ResetAfterPublish(r) THEN AfterReset(r, filled)
                                                                    ELSE filled]
  /\ mCycleOn' = mCycleOn \ {r}
  /\ mCycleNumber' = OneMore(r)
  /\ UNCHANGED <<config, running, runs, merged, due, repository, discarded>>

\* stop(): an open cycle ends without being published.
Stop(r) ==
  /\ r \in running
  /\ running' = running \ {r}
  /\ mCycleOn' = mCycleOn \ {r}
  /\ mCycleNumber' = IF r \in mCycleOn THEN OneMore(r) ELSE mCycleNumber
  /\ LET left == AfterReset(r, histos[r])
     IN  /\ discarded' = [discarded EXCEPT ![r[1]] = @ \cup (histos[r] \ left)]
         /\ histos' = [histos EXCEPT ![r] = left]
  /\ UNCHANGED <<config, runs, channel, merged, due, repository, monitored>>

\* The publication timer of a merger expires.
TimerExpires(t) ==
  /\ t \in Mergers \ due
  /\ due' = due \cup {t}
  /\ UNCHANGED <<config, running, runs, cycles, histos, channel, merged, repository,
                 monitored, discarded>>

\* run() of a merger that consumes whatever message has come: the inputs that
\* have none are skipped, and several messages are several steps.
MutantSum(t, content) == content

Sum(t, content) == merged[t] \cup content

Merge(t, o) ==
  /\ t \in Mergers
  /\ o \in MergerInputs(t)
  /\ channel[o] # << >>
  /\ merged' = [merged EXCEPT ![t] = Sum(t, Head(channel[o]))]
  /\ IF t \in due
     THEN /\ Len(channel[<<t, 0>>]) < MaxQueue
          /\ channel' = [channel EXCEPT ![o] = Tail(@),
                                        ![<<t, 0>>] = Append(@, merged'[t])]
          /\ due' = due \ {t}
     ELSE /\ channel' = [channel EXCEPT ![o] = Tail(@)]
          /\ UNCHANGED due
  /\ UNCHANGED <<config, running, runs, cycles, histos, repository, monitored, discarded>>

\* run() of a checker stores the objects; they replace the former version.
Check(t) ==
  /\ t \in Checkers
  /\ channel[<<t, 0>>] # << >>
  /\ repository' = [repository EXCEPT ![t] = Head(channel[<<t, 0>>])]
  /\ channel' = [channel EXCEPT ![<<t, 0>>] = Tail(@)]
  /\ UNCHANGED <<config, running, runs, cycles, histos, merged, due, monitored, discarded>>

\* store() catches the exception of the database: this version is lost.
CheckUnstored(t) ==
  /\ t \in Checkers
  /\ channel[<<t, 0>>] # << >>
  /\ channel' = [channel EXCEPT ![<<t, 0>>] = Tail(@)]
  /\ UNCHANGED <<config, running, runs, cycles, histos, merged, due, repository,
                 monitored, discarded>>

NewBlocks == {{}} \cup {{b} : b \in Blocks}

RunnerStep(r) ==
  \/ Start(r)
  \/ \E new \in NewBlocks : Monitor(r, new) \/ EndCycle(r, new)
  \/ Stop(r)

ServerStep(t) ==
  \/ TimerExpires(t)
  \/ \E o \in Outputs : Merge(t, o)
  \/ Check(t)
  \/ CheckUnstored(t)

Next == \/ \E r \in Outputs : RunnerStep(r)
        \/ \E t \in Tasks : ServerStep(t)

\* Data keep coming to a runner that runs, so one of its inputs finds the timer
\* expired (TaskRunner's OpenCycleEnds); the timers of the mergers expire,
\* messages are taken, and a database that refuses now and then does not refuse
\* for ever.
Fairness ==
  /\ \A o \in Outputs : /\ WF_vars(\E new \in NewBlocks : EndCycle(o, new))
                        /\ SF_vars(Merge(o[1], o))
  /\ \A t \in Tasks : WF_vars(TimerExpires(t)) /\ SF_vars(Check(t))

Spec == Init /\ [][Next]_vars

FairSpec == Spec /\ Fairness

-----------------------------------------------------------------------------
Messages(o) == {channel[o][i] : i \in DOMAIN channel[o]}

TypeOK ==
  /\ config \in Configs
  /\ running \subseteq Outputs
  /\ runs \in [Outputs -> 0 .. MaxRuns]
  /\ mCycleOn \subseteq running /\ mCycleNumber \in [Outputs -> Nat]
  /\ histos \in [Outputs -> SUBSET Blocks]
  /\ channel \in [Outputs -> Seq(SUBSET Blocks)]
  /\ merged \in [Tasks -> SUBSET Blocks]
  /\ due \subseteq Tasks
  /\ repository \in [Tasks -> SUBSET Blocks]
  /\ monitored \in [Tasks -> SUBSET Blocks]
  /\ discarded \in [Tasks -> SUBSET Blocks]

Readers(o) == {t \in Mergers : o \in MergerInputs(t)} \cup {t \in Checkers : o = <<t, 0>>}

(* The local and the remote part of the topology are generated on different*)
(* machines: every input of a merger or a checker has exactly one producer,*)
(* and every output of a runner has a reader (InfrastructureGenerator.cxx  *)
(* 33-46, 64-97), unless the local part was not generated (33).            *)
Wired ==
  ~LocalThrows =>
    /\ \A t \in Mergers : \A o \in MergerInputs(t) : o \in Runners
    /\ \A t \in Checkers : (<<t, 0>> \in Runners) # (t \in Mergers)
    /\ \A o \in Runners : Cardinality(Readers(o)) = 1
    /\ \A t \in Tasks : \A h, g \in Hosts :
         /\ t \in Mergers
         /\ h # g
         /\ \E i, j \in 1 .. Width(t) : config[t].machines[i] = h /\ config[t].machines[j] = g
         => IdOn(t, h) # IdOn(t, g)

\* Nothing is in two of: the objects of a runner, the messages of the
\* runners, and what the merger added up.
Apart(t) ==
  LET ids == 1 .. Width(t)
  IN \A s \in ids :
       /\ histos[<<t, s>>] \cap merged[t] = {}
       /\ \A i \in DOMAIN channel[<<t, s>>] :
            /\ channel[<<t, s>>][i] \cap merged[t] = {}
            /\ channel[<<t, s>>][i] \cap histos[<<t, s>>] = {}
            /\ \A j \in DOMAIN channel[<<t, s>>] :
                 i # j => channel[<<t, s>>][i] \cap channel[<<t, s>>][j] = {}
       /\ \A u \in ids \ {s} :
            /\ histos[<<t, s>>] \cap histos[<<t, u>>] = {}
            /\ \A i \in DOMAIN channel[<<t, s>>] :
                 /\ channel[<<t, s>>][i] \cap histos[<<t, u>>] = {}
                 /\ \A j \in DOMAIN channel[<<t, u>>] :
                      channel[<<t, s>>][i] \cap channel[<<t, u>>][j] = {}

(* A merger never adds a block to a sum that holds it already, if the      *)
(* task's reset() empties its objects (TaskRunner.cxx 124-126).            *)
CountedOnce == \A t \in Mergers \cap Resetting : Apart(t)

(* Between the machines and the merger every block a merged task was given *)
(* is in the objects of a runner, in a message, in the sum, or dropped by  *)
(* a stop() - none vanishes, and none comes from nowhere.                  *)
NothingVanishes ==
  \A t \in Mergers \cap Resetting :
    monitored[t] = merged[t] \cup discarded[t]
                   \cup (UNION {histos[o] : o \in MergerInputs(t)})
                   \cup (UNION {UNION Messages(o) : o \in MergerInputs(t)})

(* Stored versions of merged objects only grow, whatever starts, stops and *)
(* is refused meanwhile: the sum survives the runs of its runners.         *)
StoredGrows ==
  [][\A t \in Mergers : repository[t] \subseteq repository'[t]]_vars

(* A block that a task was given gets into the repository although versions *)
(* are refused, as the next one holds it too, as long as a runner of the    *)
(* task goes on: it runs, and its limit of cycles is not reached. Without   *)
(* new input a merger does not look at its timer. Not so for a local task   *)
(* on one machine, which resets and is not merged: a version that is        *)
(* refused takes its blocks with it.                                        *)
Quiet(t) == \A s \in 0 .. MaxWidth : <<t, s>> \in running => LimitReached(<<t, s>>)

MonitoredIsStored ==
  \A t \in Tasks : \A b \in Blocks :
    (b \in monitored[t] /\ (t \in Mergers \cap Resetting \/ <<t, 0>> \in RemoteRunners))
      ~> (b \in repository[t] \cup discarded[t] \/ Quiet(t))
=============================================================================
