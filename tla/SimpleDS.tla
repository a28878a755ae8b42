------------------------------ MODULE SimpleDS ------------------------------
(***************************************************************************)
(* The task that monitors the ITS during commissioning (SimpleDS.cxx), and *)
(* QCGeneralTask.cxx, which keeps the same count of files, fills nothing   *)
(* and does nothing in reset().                                            *)
(*                                                                         *)
(* A message tells the run and the file it was read from, whether the file *)
(* is finished, whether the histograms are to be reset, the errors the     *)
(* decoder has met so far, and digits. A digit is the chip that was hit:   *)
(* pixels are left out, and a chip is in one (eta, phi) bin, with others.  *)
(* A bin of the plots that are TH2S holds BinMax entries at most, a counter*)
(* beyond the occupancy plot goes into its bin for the rest, and so does a *)
(* file beyond the columns of ErrorFile, whose content is int. All error   *)
(* types are treated alike and are one unsigned number of Word values. The *)
(* texts and colours that are shown beside the count of files are left out.*)
(* What the decoder sends is external: it counts its errors without end,   *)
(* and it sends a file from its first message to the one that is finished. *)
(***************************************************************************)
EXTENDS Integers, FiniteSets, SequencesExt

CONSTANTS
  Chips, Layers,
  LayerOf,      \* getChipId(): the layer of each chip
  Positions,    \* the bins of an eta-phi plot
  PositionOf,   \* getMatrixL2G(): the bin of each chip
  Nowhere,      \* a number that is not that of a chip
  BinMax,       \* the largest content of a TH2S
  NEventMax,    \* bins of an occupancy plot
  Files,        \* files of a run
  NColumns,     \* columns of ErrorFile
  Word,         \* number of values of an unsigned
  IntMax,       \* the largest int
  Memory,       \* what an int that nobody set may hold
  MaxRuns,      \* bound: runs; they are numbered from 1
  MaxFiles,     \* bound: files of all runs
  MaxDigits,    \* bound: digits of all messages
  MaxErrors     \* bound: errors of all messages

ASSUME ChipsAssumption ==
  /\ IsFiniteSet(Chips) /\ IsFiniteSet(Layers)
  /\ LayerOf \in [Chips -> Layers] /\ PositionOf \in [Chips -> Positions]
  /\ Nowhere \notin Chips
ASSUME PlotsAssumption ==
  /\ BinMax \in Nat \ {0} /\ NEventMax \in Nat \ {0}
  /\ NColumns \in Nat \ {0} /\ IntMax \in Nat /\ Memory \subseteq Int
ASSUME BoundsAssumption ==
  /\ Files \subseteq Nat /\ Word \in Nat \ {0, 1}
  /\ MaxRuns \in Nat /\ MaxFiles \in Nat /\ MaxDigits \in Nat /\ MaxErrors \in Nat

VARIABLES
  task,               \* "SimpleDS" or "QCGeneral"
  RunIDPre, FileIDPre, TotalFileDone,
  ErrorPre,
  ErrorFile,          \* its columns, the last one for the files beyond
  plots,              \* what digits fill, and what is kept from the last one
  (* history *)
  finished,           \* the last message finished its file
  total, inFile,      \* errors so far, and those of the current file
  ofFile,             \* errors of each file since the last reset
  begun, base,        \* files begun since the last reset; where the count started
  files, digits,      \* files and digits so far
  hits, placed,       \* digits per chip and per position since the last reset
  before              \* plots at that time

account == <<RunIDPre, FileIDPre, TotalFileDone>>
history == <<finished, total, inFile, ofFile, begun, base, files, digits, hits,
             placed, before>>
itsVars == <<task, account, ErrorPre, ErrorFile, plots, history>>

Columns == 0 .. NColumns
Bins    == 0 .. NEventMax     \* the last one is for what is outside

NoErrors == [f \in Files |-> 0]
NoColumns == [n \in Columns |-> 0]
NoHits   == [c \in Chips |-> 0]
NonePlaced == [q \in Positions |-> 0]
NoPlots(counter, last, p) ==
  [counter |-> counter, ChipIDPre |-> last, etaPhi |-> p,
   LayEtaPhi |-> [l \in Layers |-> [q \in Positions |-> 0]],
   OccupancyPlot |-> [l \in Layers |-> [n \in Bins |-> 0]],
   LayChipStave |-> NoHits]

\* What QCGeneral counts with is uninitialised, and what SimpleDS keeps from
\* the last digit.
ItsInit ==
  /\ task \in {"SimpleDS", "QCGeneral"}
  /\ IF task = "SimpleDS"
     THEN RunIDPre = 0 /\ FileIDPre = 0 /\ TotalFileDone = 0
     ELSE RunIDPre \in Memory /\ FileIDPre \in Memory /\ TotalFileDone \in Memory
  /\ ErrorPre = 0 /\ ErrorFile = NoColumns
  /\ \E last \in Chips \cup {Nowhere}, n \in Memory, q \in Positions :
       plots = NoPlots(n, last, q)
  /\ finished = TRUE /\ total = 0 /\ inFile = 0 /\ ofFile = NoErrors
  /\ begun = 0 /\ base = TotalFileDone /\ files = 0 /\ digits = 0
  /\ hits = NoHits /\ placed = NonePlaced /\ before = plots

-----------------------------------------------------------------------------
MutantFileChanged(run, file) == FileIDPre # file

FileChanged(run, file) == RunIDPre # run \/ FileIDPre # file

Count(run, file) == TotalFileDone + (IF FileChanged(run, file) THEN 1 ELSE 0)

MutantMinus(a, b) == IF a >= b THEN a - b ELSE 0

Minus(a, b) == (a - b) % Word   \* of unsigned numbers

\* reset() leaves alone what the errors of the next message are compared with.
ErrorPreAfterReset == ErrorPre

\* reset() empties the histograms and keeps the rest.
Emptied(h) == NoPlots(h.counter, h.ChipIDPre, h.etaPhi)

\* Int_t() of a number that is none is the least one on the machines it is
\* built for.
Shown(n) == IF n <= IntMax THEN n ELSE -IntMax - 1

Column(file) == IF file < NColumns THEN file ELSE NColumns

Bin(n) == IF n \in 0 .. NEventMax - 1 THEN n ELSE NEventMax

More(n) == IF n < BinMax THEN n + 1 ELSE n

Changed(h, c) == IF c # h.ChipIDPre THEN 1 ELSE 0

MutantFill(h, c) ==
  [h EXCEPT !.OccupancyPlot[LayerOf[c]][Bin(h.counter)] = @ + Changed(h, c),
            !.counter = (IF c # h.ChipIDPre THEN 0 ELSE @) + 1,
            !.LayEtaPhi[LayerOf[c]][PositionOf[c]] = More(@),
            !.LayChipStave[c] = More(@),
            !.etaPhi = PositionOf[c], !.ChipIDPre = c]

MutantStartAtZero(h, c) ==
  [h EXCEPT !.OccupancyPlot[LayerOf[c]][Bin(h.counter)] = @ + Changed(h, c),
            !.counter = IF c # h.ChipIDPre THEN 0 ELSE @ + 1,
            !.LayEtaPhi[LayerOf[c]][h.etaPhi] = More(@),
            !.LayChipStave[c] = More(@),
            !.etaPhi = PositionOf[c], !.ChipIDPre = c]

(* A digit. The hits of the chip before, counted until now, are filled into*)
(* the plot of the layer this digit is in; eta and phi are filled before   *)
(* they are set to the position of this digit.                             *)
Fill(h, c) ==
  [h EXCEPT !.OccupancyPlot[LayerOf[c]][Bin(h.counter)] = @ + Changed(h, c),
            !.counter = (IF c # h.ChipIDPre THEN 0 ELSE @) + 1,
            !.LayEtaPhi[LayerOf[c]][h.etaPhi] = More(@),
            !.LayChipStave[c] = More(@),
            !.etaPhi = PositionOf[c], !.ChipIDPre = c]

Clears(reset) == reset /\ task = "SimpleDS"

HitBy(pixels, c) == Cardinality({i \in DOMAIN pixels : pixels[i] = c})

Places(pixels) == [i \in DOMAIN pixels |-> PositionOf[pixels[i]]]

(* monitorData(): the files, then the reset that the message asks for, then*)
(* the errors and the digits.                                              *)
MonitorData(run, file, finish, reset, errs, pixels) ==
  LET pre == IF reset THEN ErrorPreAfterReset ELSE ErrorPre IN
  /\ task = "SimpleDS"
  /\ RunIDPre' = run /\ FileIDPre' = file
  /\ TotalFileDone' = IF reset THEN 0 ELSE Count(run, file)
  /\ ErrorFile' = [(IF reset THEN NoColumns ELSE ErrorFile)
                      EXCEPT ![Column(file)] = Shown(Minus(errs, pre))]
  /\ ErrorPre' = IF finish THEN errs ELSE pre
  /\ plots' = FoldLeft(Fill, IF reset THEN Emptied(plots) ELSE plots, pixels)
  /\ UNCHANGED task

\* That of QCGeneral counts the files only, whatever is asked for.
MonitorDataGeneral(run, file) ==
  /\ task = "QCGeneral"
  /\ RunIDPre' = run /\ FileIDPre' = file
  /\ TotalFileDone' = Count(run, file)
  /\ UNCHANGED <<task, ErrorPre, ErrorFile, plots>>

(* A message of the decoder: of the file that is not finished, or the first*)
(* of another file of the run or of the next run.                          *)
Message(run, file, finish, reset, new, pixels) ==
  /\ IF finished
     THEN /\ files < MaxFiles
          /\ \/ files = 0 /\ run = 1
             \/ files > 0 /\ run = RunIDPre /\ file # FileIDPre
             \/ files > 0 /\ run = RunIDPre + 1
     ELSE run = RunIDPre /\ file = FileIDPre
  /\ task = "QCGeneral" => new = 0 /\ pixels = << >>    \* it looks at neither
  /\ total + new <= MaxErrors /\ digits + Len(pixels) <= MaxDigits
  /\ \/ MonitorData(run, file, finish, reset, (total + new) % Word, pixels)
     \/ MonitorDataGeneral(run, file)
  /\ finished' = finish
  /\ total' = total + new
  /\ inFile' = (IF finished THEN 0 ELSE inFile) + new
  /\ ofFile' = [(IF Clears(reset) THEN NoErrors ELSE ofFile) EXCEPT ![file] = inFile']
  /\ files' = files + (IF finished THEN 1 ELSE 0)
  /\ begun' = (IF Clears(reset) THEN 0 ELSE begun) + (IF finished THEN 1 ELSE 0)
  /\ base' = IF Clears(reset) THEN (IF finished THEN -1 ELSE 0) ELSE base
  /\ digits' = digits + Len(pixels)
  /\ hits' = [c \in Chips |-> (IF Clears(reset) THEN 0 ELSE hits[c]) + HitBy(pixels, c)]
  /\ placed' = [q \in Positions |-> (IF Clears(reset) THEN 0 ELSE placed[q])
                                      + HitBy(Places(pixels), q)]
  /\ before' = IF Clears(reset) THEN plots ELSE before

(* The task runner resets the task after a cycle and when it is stopped.   *)
Reset ==
  /\ task = "SimpleDS"
  /\ TotalFileDone' = 0
  /\ ErrorFile' = NoColumns
  /\ plots' = Emptied(plots)
  /\ ofFile' = NoErrors /\ begun' = 0 /\ base' = 0
  /\ hits' = NoHits /\ placed' = NonePlaced /\ before' = plots
  /\ UNCHANGED <<task, RunIDPre, FileIDPre, ErrorPre, finished, total, inFile, files, digits>>

Pixels == UNION {[1 .. n -> Chips] : n \in 0 .. 2}

ItsNext ==
  \/ \E run \in 1 .. MaxRuns, file \in Files, finish, reset \in BOOLEAN,
        new \in 0 .. 2, pixels \in Pixels :
       Message(run, file, finish, reset, new, pixels)
  \/ Reset

ItsSpec == ItsInit /\ [][ItsNext]_itsVars

-----------------------------------------------------------------------------
If(condition) == IF condition THEN 1 ELSE 0

\* The entries of the eta-phi plots at one position, over all layers; there
\* may be more where a bin is full.
InEtaPhi(h, q) == SumFunctionOnSet([l \in Layers |-> h.LayEtaPhi[l][q]], Layers)

Full(h, q) == \E l \in Layers : h.LayEtaPhi[l][q] >= BinMax

\* The hits that the occupancy plots stand for: an entry of bin n stands for n,
\* and one that is outside for NEventMax or more, if the counter is one.
OfLayer(h, l) == SumFunctionOnSet([n \in Bins |-> n * h.OccupancyPlot[l][n]], Bins)

InOccupancy(h) == SumFunctionOnSet([l \in Layers |-> OfLayer(h, l)], Layers)

Outside(h) == \E l \in Layers : h.OccupancyPlot[l][NEventMax] > 0

\* The column of every file holds the errors met in it since it began, though
\* the totals of the decoder wrap, and resets come in the middle of a file.
\* Words are modular, so the difference of two totals survives the wrap. Not
\* so for the files that share the last column.
ErrorsOfFile ==
  task = "SimpleDS" =>
    \A f \in Files : f < NColumns => ErrorFile[f] = Shown(ofFile[f] % Word)

\* The count of files is that of the files begun since the last reset, less
\* the one whose first message asked for the reset: it is counted before it.
\* What is uninitialised in QCGeneral can cost it one file, the first, and sets
\* the number its count starts with.
FilesCounted ==
  \/ TotalFileDone = base + begun
  \/ task = "QCGeneral" /\ TotalFileDone = base + begun - 1

\* Across resets and messages, the eta-phi plots together lag behind the
\* digits by exactly one: the position of the last digit is not in them, and
\* that of the last digit before the reset is. Where a bin of a TH2S is full
\* they stay behind further, and never run ahead (SimpleDS.cxx 501, 511).
EtaPhiLagsByOne ==
  task = "SimpleDS" =>
    \A q \in Positions :
      LET there == InEtaPhi(plots, q) + If(plots.etaPhi = q)
          ought == placed[q] + If(before.etaPhi = q)
      IN there <= ought /\ (there = ought \/ Full(plots, q))

\* Every digit is in one bin of one occupancy plot, or still in the counter:
\* over all layers, the hits that the plots stand for and the counter add up to
\* the digits since the reset and those that were in the counter then; they are
\* too few once a counter was beyond the plot, and are never too many, but for
\* a counter that began with what was in memory (SimpleDS.cxx 484-488).
OccupancyAddsUp ==
  task = "SimpleDS" =>
    LET there == InOccupancy(plots) + plots.counter
        ought == SumFunctionOnSet(hits, Chips) + before.counter
    IN /\ before.counter >= 0 => there <= ought
       /\ there = ought \/ Outside(plots)
=============================================================================
