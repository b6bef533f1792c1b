----------------------------- MODULE PhysCalib -----------------------------
(***************************************************************************)
(* The program decoder/src/physCalib.cpp.  It reads the DST files of a     *)
(* range of runs, takes each cluster of a physics event for an electron    *)
(* scattered off a proton (ep) or one of a Moller pair (ee), fills the     *)
(* histograms of the modules with it, and crosses the lines of consecutive *)
(* Moller pairs to find the center of the detectors.                       *)
(*                                                                         *)
(* Reconstruction, coordinates and matching are modules of their own; here *)
(* a cluster is what they make of it: energy in MeV, angles in degrees     *)
(* (theta, which is small, in tenths), and the module under its GEM hit.   *)
(* The beam energy comes with the EPICS events and stays until the next,   *)
(* from one file to the next.                                              *)
(***************************************************************************)
EXTENDS InputFiles, Sequences

CONSTANTS
  PhysRuns,      \* directories: sets of files [run, records]
  FirstRun, LastRun,
  InnerModules   \* ids of the modules around the hole

MAXCLUSTER == 6

Flags == {"PbWO4", "PbGlass", "Transition", "GEM1Match", "GEM2Match"}

(* cid is 0 for a cluster without center; inner says it is within the GEM  *)
(* range around the hole, at is the module its GEM hit is on (0: none) and *)
(* near that the hit is close to its center.                               *)
PhysHits == [E : Int, phi : Int, theta : Int, flag : SUBSET Flags, nblocks : Nat,
             cid : Nat, inner : BOOLEAN, at : Nat, near : BOOLEAN]

PhysRecords == [type : {"event"}, trigger : STRING, hits : Seq(PhysHits)]
                 \cup [type : {"epics"}, beam : Int]
PhysFiles == [run : Int, records : Seq(PhysRecords)]

ASSUME PhysAssumption ==
  /\ \A dir \in PhysRuns : IsFiniteSet(dir) /\ dir \subseteq PhysFiles
  /\ FirstRun \in Int /\ LastRun \in Int

VARIABLES
  inputFiles, opened,  \* the files, the one that is read
  row, reads,          \* the next record of it, and how many were read in all
  Ebeam,
  filled,              \* what the histograms of ep and ee are filled with
  sym_ee,              \* the events taken for symmetric Moller scattering
  profile,             \* the events in the energy profile of an inner module
  pairHyCal, pairGEM,  \* the Moller pairs that wait to be crossed
  crossed              \* the pairs that LinesIntersect crossed

phys_out  == <<filled, sym_ee, profile>>
phys_pair == <<pairHyCal, pairGEM, crossed>>
phys_vars == <<inputFiles, opened, row, reads, Ebeam, phys_out, phys_pair>>

-----------------------------------------------------------------------------
records  == inputFiles[opened].records
h        == records[row].hits
clusterN == Len(h)
Size(x)  == IF x < 0 THEN -x ELSE x

MatchedGEM(hit) == hit.flag \cap {"GEM1Match", "GEM2Match"} # {}
OnModule(hit)   == MatchedGEM(hit) /\ "PbWO4" \in hit.flag

(* The module whose histogram is filled: in the GEM range that of the GEM  *)
(* hit, else that of the cluster.                                          *)
FilledModule(hit) ==
  IF hit.cid > 0 /\ hit.inner THEN (IF OnModule(hit) THEN hit.at ELSE 0) ELSE hit.cid

Filling(kind, i) == [kind |-> kind, event |-> reads + 1, hit |-> i, module |-> FilledModule(h[i])]

(* A cluster of three blocks or less may have a channel over its range.    *)
EPAnalyzer(i) == IF h[i].nblocks <= 3 THEN {} ELSE {Filling("ep", i)}

\* fabs(E - Ebeam)/Ebeam > 0.1 in floating point: false for a negative beam energy
NearBeamEnergy(hit) == IF Ebeam > 0 THEN 10 * Size(hit.E - Ebeam) <= Ebeam ELSE Ebeam < 0

InnerModuleAnalyzer(fills) ==
  profile' = [id \in InnerModules |-> profile[id] \cup
    {f.event : f \in {g \in fills : LET hit == h[g.hit] IN
       /\ g.kind = "ep" /\ hit.cid > 0 /\ hit.inner /\ OnModule(hit)
       /\ hit.at = id /\ hit.near /\ NearBeamEnergy(hit)}}]

(* A cluster with more energy than a Moller electron can leave there.      *)
TooHigh(hit, crystal) ==
  \/ hit.flag \cap {"PbGlass", "Transition"} # {} /\ 10000 * hit.E > 7273 * Ebeam
  \/ "PbWO4" \in hit.flag /\ crystal /\ 10000 * hit.E > 9091 * Ebeam

CoPlane(i, j) == Size(Size(h[i].phi - h[j].phi) - 180) <= 20
IsEP(i)       == TooHigh(h[i], h[i].theta > 15)

\* Mutant of MollerFills: the loop goes on after an ep, and takes it for a Moller too.
MollerWithoutBreak(i, j) ==
  IF CoPlane(i, j)
  THEN UNION {(IF IsEP(k) THEN EPAnalyzer(k) ELSE {}) \cup {Filling("ee", k)} : k \in {i, j}}
  ELSE UNION {IF TooHigh(h[k], TRUE) THEN EPAnalyzer(k) ELSE {} : k \in {i, j}}

(* What MollerAnalyzer fills: two clusters that are not on a line through  *)
(* the beam may be ep; of two that are, an ep ends the loop.               *)
MollerFills(i, j) ==
  IF ~CoPlane(i, j) THEN UNION {IF TooHigh(h[k], TRUE) THEN EPAnalyzer(k) ELSE {} : k \in {i, j}}
  ELSE IF IsEP(i) THEN EPAnalyzer(i)
  ELSE {Filling("ee", i)} \cup (IF IsEP(j) THEN EPAnalyzer(j) ELSE {Filling("ee", j)})

Symmetric(i, j) ==
  /\ CoPlane(i, j) /\ clusterN = 2
  /\ \A k \in {i, j} : 100 * Size(2 * h[k].E - Ebeam) < 6 * Ebeam /\ h[k].theta >= 7

Fill(fills) == filled' = filled \cup fills /\ InnerModuleAnalyzer(fills)

MollerAnalyzer(i, j) ==
  /\ Fill(MollerFills(i, j))
  /\ sym_ee' = IF Symmetric(i, j) THEN sym_ee \cup {reads + 1} ELSE sym_ee

(* The weight of a partner for the cluster of the highest energy, times    *)
(* 300: 0.7 |Ebeam - E0 - Ei| / 30 + 0.3 ||phi0 - phii| - 180| / 10.       *)
PairWeight(i, j) == 7 * Size(Ebeam - h[i].E - h[j].E) + 9 * Size(Size(h[i].phi - h[j].phi) - 180)

(* The clusters are sorted by energy, equal ones in any order, and the     *)
(* first of the smallest weight is the partner.                            *)
Partners(i, j) ==
  /\ i # j /\ \A k \in 1..clusterN : h[k].E <= h[i].E
  /\ \A k \in 1..clusterN \ {i} :
       \/ PairWeight(i, j) < PairWeight(i, k)
       \/ PairWeight(i, j) = PairWeight(i, k) /\ h[j].E >= h[k].E

(* Rather tight cuts for the pairs that are crossed.                       *)
GoodOffset ==
  /\ OnModule(h[1]) /\ OnModule(h[2])
  /\ 85 * Ebeam <= 100 * (h[1].E + h[2].E) /\ 100 * (h[1].E + h[2].E) <= 115 * Ebeam
  /\ LET d == (h[2].phi - h[1].phi - 180) % 360 IN d <= 10 \/ d >= 350
  /\ h[1].theta >= 7 /\ h[2].theta >= 7

LinesIntersect == crossed' = Append(crossed, [hycal |-> pairHyCal, gem |-> pairGEM])

\* Mutant of OffsetAnalyzer: only the pairs of HyCal are cleared after the crossing.
OffsetKeepingGEM ==
  IF ~GoodOffset THEN UNCHANGED phys_pair
  ELSE IF Len(pairHyCal) < 2
  THEN /\ pairHyCal' = Append(pairHyCal, reads + 1) /\ pairGEM' = Append(pairGEM, reads + 1)
       /\ UNCHANGED crossed
  ELSE LinesIntersect /\ pairHyCal' = <<>> /\ UNCHANGED pairGEM

(* The third pair makes the two that wait be crossed and is dropped.       *)
OffsetAnalyzer ==
  IF ~GoodOffset THEN UNCHANGED phys_pair
  ELSE IF Len(pairHyCal) < 2
  THEN /\ pairHyCal' = Append(pairHyCal, reads + 1) /\ pairGEM' = Append(pairGEM, reads + 1)
       /\ UNCHANGED crossed
  ELSE LinesIntersect /\ pairHyCal' = <<>> /\ pairGEM' = <<>>

-----------------------------------------------------------------------------
InitHistogram   == filled = {} /\ sym_ee = {}
InitInnerModule == profile = [id \in InnerModules |-> {}]

PhysInit ==
  /\ \E dir \in PhysRuns : inputFiles \in FindInputFiles(dir, FirstRun, LastRun)
  /\ opened = 1 /\ row = 1 /\ reads = 0 /\ Ebeam = 0
  /\ InitHistogram /\ InitInnerModule
  /\ pairHyCal = <<>> /\ pairGEM = <<>> /\ crossed = <<>>

ReadRecord(type) ==
  /\ opened <= Len(inputFiles) /\ row <= Len(records) /\ records[row].type = type
  /\ row' = row + 1 /\ reads' = reads + 1 /\ UNCHANGED <<inputFiles, opened>>

ReadPhysics(sizes) ==
  /\ ReadRecord("event") /\ UNCHANGED Ebeam
  /\ records[row].trigger \in {"LeadGlassSum", "TotalSum"} /\ clusterN \in sizes

OtherTrigger ==
  /\ ReadRecord("event") /\ records[row].trigger \notin {"LeadGlassSum", "TotalSum"}
  /\ UNCHANGED <<Ebeam, phys_out, phys_pair>>

NoOrTooManyClusters ==
  ReadPhysics(Nat \ 1..MAXCLUSTER - 1) /\ UNCHANGED <<phys_out, phys_pair>>

OneCluster == ReadPhysics({1}) /\ Fill(EPAnalyzer(1)) /\ UNCHANGED <<sym_ee, phys_pair>>

TwoClusters == ReadPhysics({2}) /\ MollerAnalyzer(1, 2) /\ OffsetAnalyzer

MultiHitAnalyzer ==
  /\ ReadPhysics(3..MAXCLUSTER - 1)
  /\ \E i, j \in 1..clusterN : Partners(i, j) /\ MollerAnalyzer(i, j)
  /\ UNCHANGED phys_pair

EpicsRecord ==
  ReadRecord("epics") /\ Ebeam' = records[row].beam /\ UNCHANGED <<phys_out, phys_pair>>

CloseFile ==
  /\ opened <= Len(inputFiles) /\ row > Len(records)
  /\ opened' = opened + 1 /\ row' = 1
  /\ UNCHANGED <<inputFiles, reads, Ebeam, phys_out, phys_pair>>

\* The histograms are written as they are.
AllFilesRead == opened > Len(inputFiles) /\ UNCHANGED phys_vars

PhysNext == OtherTrigger \/ NoOrTooManyClusters \/ OneCluster \/ TwoClusters \/ MultiHitAnalyzer
              \/ EpicsRecord \/ CloseFile \/ AllFilesRead

PhysSpec == PhysInit /\ [][PhysNext]_phys_vars

-----------------------------------------------------------------------------
(* A cluster is ep or ee and never both, and an event taken for symmetric  *)
(* Moller scattering has both its clusters in the Moller histograms: its   *)
(* cuts, made after the loop, exclude what ended the loop before the       *)
(* second cluster was looked at (EPAnalyzer, MollerAnalyzer).              *)
CountedOnce ==
  /\ \A f, g \in filled : f.event = g.event /\ f.hit = g.hit => f = g
  /\ \A n \in sym_ee : \A i \in {1, 2} : \E f \in filled : f.event = n /\ f.hit = i /\ f.kind = "ee"

(* The lines crossed in HyCal and in the GEMs are those of the same two    *)
(* events, also after pairs were left over from one file to the next, and  *)
(* no event is crossed twice (OffsetAnalyzer, and its assertion that less  *)
(* than three pairs wait).                                                 *)
PairsInStep ==
  /\ pairHyCal = pairGEM /\ Len(pairHyCal) < 3
  /\ \A c \in 1..Len(crossed) :
       crossed[c].hycal = crossed[c].gem /\ Len(crossed[c].hycal) = 2
  /\ \A c, d \in 1..Len(crossed) : \A i, j \in 1..2 :
       crossed[c].hycal[i] = crossed[d].hycal[j] => c = d /\ i = j
  /\ \A c \in 1..Len(crossed), i \in 1..2, k \in 1..Len(pairHyCal) :
       crossed[c].hycal[i] < pairHyCal[k]
=============================================================================
