------------------------------ MODULE AvgGain ------------------------------
(***************************************************************************)
(* The program decoder/src/getAvgGain.cpp.  It reads the files with the    *)
(* LMS and pedestal histograms of a range of runs, fits the histograms of  *)
(* each list it finds in a file, and writes the database of gains: one     *)
(* file per run, or one with the averages of all.                          *)
(*                                                                         *)
(* A fit is its mean; 0 is a histogram with too few entries, which is not  *)
(* fitted.  Widths go where the means go.                                  *)
(***************************************************************************)
EXTENDS InputFiles, Sequences

CONSTANTS
  LMSRuns,           \* directories: sets of files [run, keys]
  startRun, endRun,
  BLOCKS,            \* the number of channels there is room for
  ChannelNames

References == 1..3

(* The lists of a file in their order: those of a channel are told by      *)
(* their first letter, those of a reference by "LMS" and its number.       *)
LMSKeys == [kind : {"hycal"}, name : ChannelNames, ped : Nat, LMS : Nat]
             \cup [kind : {"reference"}, ref : References, ped : Nat, alpha : Nat, LMS : Nat]
LMSFiles == [run : Int, keys : Seq(LMSKeys)]

HyCalKeys(keys, k) == {j \in 1..k : keys[j].kind = "hycal"}

ASSUME AvgAssumption ==
  /\ \A dir \in LMSRuns : /\ IsFiniteSet(dir) /\ dir \subseteq LMSFiles
                          /\ \A f \in dir : Cardinality(HyCalKeys(f.keys, Len(f.keys))) <= BLOCKS
  /\ BLOCKS \in Nat /\ startRun \in Nat \ {0} /\ endRun \in Int /\ startRun <= endRun

VARIABLES
  doAverage, lmsFiles,
  lmsOpened, thisKey, ich,  \* the file, its next key, the channels it had
  channelName, hycal, ref,  \* by channel and by reference
  baseinfo, gain_lines      \* the database files, and the lines of prad_gain.dat

fit_vars == <<channelName, hycal, ref>>
avg_vars == <<doAverage, lmsFiles, lmsOpened, thisKey, ich, fit_vars, baseinfo, gain_lines>>

-----------------------------------------------------------------------------
keys == lmsFiles[lmsOpened].keys
Key  == keys[thisKey]

(* The gain of a reference is the sum of its terms up / down.              *)
InitArray ==
  /\ channelName = [i \in 1..BLOCKS |-> ""]
  /\ hycal = [i \in 1..BLOCKS |-> [ped |-> 0, LMS |-> 0]]
  /\ ref = [r \in References |-> [ped |-> 0, alpha |-> 0, LMS |-> 0, gain |-> <<>>]]

AvgInit ==
  /\ doAverage \in BOOLEAN
  /\ \E dir \in LMSRuns : lmsFiles \in FindInputFiles(dir, startRun, endRun)
  /\ lmsOpened = 1 /\ thisKey = 1 /\ ich = 0 /\ InitArray
  /\ baseinfo = <<>> /\ gain_lines = <<>>

NextKey(kind) ==
  /\ lmsOpened <= Len(lmsFiles) /\ thisKey <= Len(keys) /\ Key.kind = kind
  /\ thisKey' = thisKey + 1
  /\ UNCHANGED <<doAverage, lmsFiles, lmsOpened, baseinfo, gain_lines>>

\* Mutant of Summed: what was not fitted keeps the mean of the run before.
SummedWithoutReset(old, mean) == IF doAverage THEN old + mean ELSE IF mean > 0 THEN mean ELSE old

Summed(old, mean) == IF doAverage THEN old + mean ELSE mean

(* The channels are counted; only the first file gives them names.         *)
FitHyCalHist ==
  /\ NextKey("hycal") /\ ich' = ich + 1
  /\ channelName' = IF lmsOpened = 1 THEN [channelName EXCEPT ![ich'] = Key.name] ELSE channelName
  /\ hycal' = [hycal EXCEPT ![ich'] = [ped |-> Summed(hycal[ich'].ped, Key.ped),
                                       LMS |-> Summed(hycal[ich'].LMS, Key.LMS)]]
  /\ UNCHANGED ref

GainTerm(k) == IF k.alpha > k.ped THEN <<[up |-> k.LMS - k.ped, down |-> k.alpha - k.ped]>> ELSE <<>>

FitReferenceHist ==
  /\ NextKey("reference")
  /\ ref' = [ref EXCEPT ![Key.ref] =
       [ped   |-> Summed(ref[Key.ref].ped, Key.ped),
        alpha |-> Summed(ref[Key.ref].alpha, Key.alpha),
        LMS   |-> Summed(ref[Key.ref].LMS, Key.LMS),
        gain  |-> IF doAverage THEN ref[Key.ref].gain \o GainTerm(Key) ELSE GainTerm(Key)]]
  /\ UNCHANGED <<ich, channelName, hycal>>

(* A file of the name is replaced, the line of gains is added.  The sums   *)
(* are divided by the number of files, also those without a fit.           *)
WriteOutput(period, nTotal) ==
  /\ baseinfo' = [p \in DOMAIN baseinfo \cup {period} |->
       IF p = period THEN [name |-> channelName, hycal |-> hycal, ref |-> ref, nTotal |-> nTotal]
       ELSE baseinfo[p]]
  /\ gain_lines' = Append(gain_lines, [period |-> period, nTotal |-> nTotal,
                                       gain |-> [r \in References |-> ref[r].gain]])

CloseLMSFile ==
  /\ lmsOpened <= Len(lmsFiles) /\ thisKey > Len(keys)
  /\ lmsOpened' = lmsOpened + 1 /\ thisKey' = 1 /\ ich' = 0
  /\ IF doAverage THEN UNCHANGED <<baseinfo, gain_lines>>
     ELSE WriteOutput(<<lmsFiles[lmsOpened].run>>, 1)
  /\ UNCHANGED <<doAverage, lmsFiles, fit_vars>>

WriteAverage ==
  /\ doAverage /\ lmsOpened > Len(lmsFiles) /\ baseinfo = <<>>
  /\ WriteOutput(<<startRun, endRun>>, Len(lmsFiles))
  /\ UNCHANGED <<doAverage, lmsFiles, lmsOpened, thisKey, ich, fit_vars>>

GainsWritten ==
  /\ lmsOpened > Len(lmsFiles) /\ (doAverage => baseinfo # <<>>)
  /\ UNCHANGED avg_vars

AvgNext == FitHyCalHist \/ FitReferenceHist \/ CloseLMSFile \/ WriteAverage \/ GainsWritten

AvgSpec == AvgInit /\ [][AvgNext]_avg_vars

-----------------------------------------------------------------------------
(* The lines show the first n lists of file f, the i-th list of a channel   *)
(* in the i-th line, and the last list of a reference in its own.          *)
ShowsLists(channels, refs, f, n) ==
  \A k \in 1..n : LET key == f.keys[k] IN
    /\ key.kind = "hycal" =>
         channels[Cardinality(HyCalKeys(f.keys, k))] = [ped |-> key.ped, LMS |-> key.LMS]
    /\ key.kind = "reference"
         /\ (\A j \in k + 1..n : f.keys[j].kind = "reference" => f.keys[j].ref # key.ref) =>
         refs[key.ref] = [ped |-> key.ped, alpha |-> key.alpha, LMS |-> key.LMS,
                          gain |-> GainTerm(key)]

ShowsFile(info, f) == ShowsLists(info.hycal, info.ref, f, Len(f.keys))

(* The lines have the names of the lists of f and show nothing else: no    *)
(* name and no fit beyond its channels, nothing of a reference it lacks.   *)
OnlyLists(names, channels, refs, f) ==
  LET n == Len(f.keys) IN
  /\ \A k \in HyCalKeys(f.keys, n) : names[Cardinality(HyCalKeys(f.keys, k))] = f.keys[k].name
  /\ \A i \in 1..BLOCKS : i > Cardinality(HyCalKeys(f.keys, n)) =>
       names[i] = "" /\ channels[i] = [ped |-> 0, LMS |-> 0]
  /\ \A r \in References :
       (\A k \in 1..n : f.keys[k].kind = "reference" => f.keys[k].ref # r) =>
       refs[r] = [ped |-> 0, alpha |-> 0, LMS |-> 0, gain |-> <<>>]

(* Two files have the lists of the same channels and references.           *)
SameList(k, l) ==
  /\ k.kind = l.kind
  /\ k.kind = "hycal" => k.name = l.name
  /\ k.kind = "reference" => k.ref = l.ref
SameLists(f, g) ==
  Len(f.keys) = Len(g.keys) /\ \A k \in 1..Len(f.keys) : SameList(f.keys[k], g.keys[k])

(* In a database written run by run, what was fitted in the last file of a *)
(* run, 0 where nothing was fitted, is in the lines of that run, whatever  *)
(* the files before it held.  And where these had the same lists, as those *)
(* of one setup have, it is all there is: each line has the name of its    *)
(* list, and the rest is empty (FitHyCalHist, FitReferenceHist,            *)
(* WriteOutput).  A file that lacks a list of an earlier one gets what was *)
(* fitted there; nothing is said of that line.                             *)
GainsOfOwnRun ==
  ~doAverage => \A i \in 1..Len(lmsFiles) :
    /\ i < lmsOpened /\ (\A j \in i + 1..lmsOpened - 1 : lmsFiles[j].run # lmsFiles[i].run)
    => /\ <<lmsFiles[i].run>> \in DOMAIN baseinfo
       /\ LET info == baseinfo[<<lmsFiles[i].run>>] IN
          /\ ShowsFile(info, lmsFiles[i])
          /\ (\A j \in 1..i : SameLists(lmsFiles[j], lmsFiles[1])) =>
               OnlyLists(info.name, info.hycal, info.ref, lmsFiles[i])
=============================================================================
