-------------------------- MODULE MCReconstruction --------------------------
(* What is done with an event once its words are there, one part at a time: *)
(* they share no state, so a behaviour of the whole is one of each.         *)
(*                                                                          *)
(* Readout: two APVs on planes, one without; raw events in two large banks, *)
(* damaged packets, zero-suppressed packs, a monitor event.                 *)
(*                                                                          *)
(* Calibration: two modules and three PMTs; a file to measure gains with,   *)
(* LED events of another height, physics events; two calibration files and  *)
(* run information for each of two PMTs.                                    *)
(*                                                                          *)
(* Sector: islands around others, on four columns of seven cells; all       *)
(* energies on two columns of four; and islands that use up the photons,    *)
(* of which there are room for four.                                        *)
(*                                                                          *)
(* Primex: three sectors of three, two and one modules, and dead modules.   *)
(*                                                                          *)
(* HyCal: two rows of five modules.  Signals: all energies in the first     *)
(* three columns, and three hits of the first row that some hits of the     *)
(* second row connect.                                                      *)
(*                                                                          *)
(* GEM: all channels of four APVs; and up to seven strips around the first  *)
(* strip of APV 10, of APVs 9 and 10 and of APV 11, which reads them again. *)
(*                                                                          *)
(* Match: up to two hits of HyCal and of either GEM, near and far.          *)
EXTENDS GEMReadout, HyCalCalibration, HyCalClusters, DetMatch, TLC

CONSTANTS v1, v2, free, other

VARIABLES part,
          gpc, strip_hits, gclusters, gi,
          ppc, status, signal, isect, sect_clusters, pclusters, pieces,
          spc, ech, islands, icl, adcgam, cells

Raw(x, p, s) == [kind |-> "raw", apv |-> x, packet |-> p, signal |-> s]
Pack(S)      == [kind |-> "pack", samples |-> S]
Part(x, w)   == [apv |-> x, whole |-> w]
Large(f)     == [large |-> TRUE, feeds |-> f]
Small(f)     == [large |-> FALSE, feeds |-> f]
Event(t, q)  == [trigger |-> t, banks |-> q]

MCShapes == {
  Event("physics", <<Large(<<Raw(v1, "good", TRUE)>>),
                     Large(<<Raw(v2, "good", TRUE), Raw(free, "good", TRUE)>>)>>),
  Event("physics", <<Large(<<Raw(v1, "long", TRUE), Raw(other, "good", TRUE)>>),
                     Small(<<Raw(v2, "good", FALSE)>>)>>),
  Event("physics", <<Small(<<Raw(v1, "headless", TRUE)>>), Large(<<Raw(v2, "short", TRUE)>>)>>),
  Event("physics", <<Small(<<Pack({Part(v1, TRUE), Part(free, TRUE)})>>),
                     Small(<<Pack({Part(v2, FALSE)})>>)>>),
  Event("monitor", <<Large(<<Raw(v1, "good", TRUE)>>), Small(<<Raw(v2, "long", TRUE)>>)>>)}

MCModules == [m \in 1 .. 10 |-> IF m <= 5 THEN <<m, 1>> ELSE <<m - 5, 2>>]
MCSignals ==
  LET Only(f) == [m \in 1 .. 10 |-> IF m \in DOMAIN f THEN f[m] ELSE 0]
  IN  {Only(f @@ g @@ h) : f \in [{1, 3} -> {0, 200, 1000}], g \in [{2, 7} -> {0, 40, 200}],
                           h \in [{6, 8} -> {0, 200}]}
      \cup {Only([m \in {1, 3, 5} \cup S |-> 200 + 10 * m]) : S \in SUBSET (6 .. 10)}
MCProfile == [d \in 0 .. 4 |-> <<70, 15, 5, 0, 1>>[d + 1]]
MCVirtualLists == ("dead" :> <<11, 12>>) @@ ("inner" :> <<>>) @@ ("outer" :> <<13>>)
MCBorders == ("dead" :> {2, 8}) @@ ("inner" :> {1}) @@ ("outer" :> {3, 8})

MCLaterSignals == {[m \in 1 .. 10 |-> IF m \in {2, 4, 9} THEN 200 ELSE 0]}

ASSUME MCModulesOnGrid == GridConstants

(* The channels that read strips 1278 to 1282, with APV 9 turned around. *)
MCStrips == {<<9, 93, 1278>>, <<9, 125, 1279>>, <<10, 125, 1280>>, <<10, 93, 1281>>,
             <<10, 61, 1282>>, <<11, 18, 1279>>, <<11, 125, 1280>>}
MCReadouts ==
  {{[apv |-> s[1], ch |-> s[2], charge |-> IF s[1] = 11 THEN 2 * q[s] ELSE q[s],
     cross_talk |-> s[3] \in ct] : s \in {t \in MCStrips : q[t] > 0}} :
         q \in {f \in [MCStrips -> {0, 8, 40}] : f[<<11, 125, 1280>>] # 8},
         ct \in {{1278, 1280}, 1278 .. 1282}}
  \cup {{[apv |-> a, ch |-> ch, charge |-> 8, cross_talk |-> FALSE] : ch \in {c \in 0 .. 127 : c % 16 < 4}} :
           a \in {0, 9, 10, 11}}

G == INSTANCE GEMClusters WITH
       pc <- gpc, clusters <- gclusters, i <- gi,
       Readouts <- MCReadouts, LaterReadouts <- {{}}, Reversed <- {9}, SplitDiff <- 14, MinHits <- 1, MaxHits <- 5,
       CrossTalkWidth <- 4, CharacDistances <- {20, 30}

MCGEM == UNION {[1 .. k -> [x : {0, 1, 3, 6}]] : k \in 0 .. 2}
MCHyCal == UNION {[1 .. k -> [x : {0, 3, 4}, part : {"PbWO4", "PbGlass"}, flag : {{}}]] : k \in 0 .. 2}
MCRange == ("PbWO4" :> 2) @@ ("PbGlass" :> 4)

ASSUME MCHitsFit == MatchConstants

MCRaw(t, w, l2) == [trigger |-> t, adc |-> ("W1" :> w) @@ ("G2" :> w + 50) @@ ("LMS2" :> l2) @@ ("LMS3" :> l2)]
MCMonitor == <<MCRaw("LMS_Led", 130, 2600), MCRaw("LMS_Alpha", 30, 600), MCRaw("LMS_Alpha", 30, 1600)>>
MCPhysics == <<MCRaw("PHYS_TotalSum", 60, 600), MCRaw("NotFromTI", 60, 600)>>
MCLine(p, l)  == [ped_mean |-> p, ped_sig |-> 2, lms_mean |-> l]
MCConst(f, g) == [factor |-> f, gains |-> g]

MCRefs     == <<"LMS1", "LMS2", "LMS3">>
MCCalFiles == {("W1" :> MCConst(6, <<0, 100, 400>>)) @@ ("G2" :> MCConst(8, <<0, 200, 800>>)),
               "W1" :> MCConst(12, <<0, 200>>)}
MCRunFiles == {[ref_gain |-> <<0, 2, 1>>, ref |-> 3,
                lines |-> ("W1" :> MCLine(30, 230)) @@ ("G2" :> MCLine(80, 20))],
               [ref_gain |-> <<0, 2, 1>>, ref |-> 2, lines |-> "W1" :> MCLine(20, 420)]}
MCFiles    == {MCMonitor, <<MCRaw("LMS_Led", 230, 2600)>>, MCPhysics}

MCCell(x, y, s, t) == [x |-> x, y |-> y, size |-> IF t = "PbWO4" THEN 2 ELSE 4, sector |-> s, type |-> t]
MCCells == <<MCCell(0, 0, 0, "PbWO4"), MCCell(2, 0, 0, "PbWO4"), MCCell(4, 0, 0, "PbWO4"),
             MCCell(1, 3, 1, "PbGlass"), MCCell(5, 3, 1, "PbGlass"), MCCell(7, 0 - 1, 2, "PbGlass")>>

P == INSTANCE PrimexClusters WITH
       pc <- ppc, module_status <- status, energy <- signal, clusters <- pclusters,
       Modules <- MCCells, DeadLists <- {{}, {2, 5}},
       Signals <- {[m \in 1 .. 6 |-> IF m \in S THEN q[m] ELSE 0] :
                     S \in {1 .. 6, {1, 3, 4, 5}, {2, 4, 5, 6}, {2, 3, 5, 6}, {1, 2, 3, 6}},
                     q \in {<<9, 3, 5, 4, 6, 5>>, <<2, 8, 3, 9, 1, 9>>}},
       MinModuleEnergy <- ("PbWO4" :> 2) @@ ("PbGlass" :> 3), AdjPercent <- 130, MaxCells <- 3

MCRing  == {100 + r : r \in 1 .. 7} \cup {201, 207, 301, 307, 401}
MCInner == {203, 303, 304, 305, 402, 403, 404, 405, 406}
MCBlock == {101, 102, 103, 104, 201, 202, 203, 204}
MCMinPeak(size, e) == IF size < 3 \/ e < 800 THEN 100 ELSE 200

S == INSTANCE IslandSector WITH
       pc <- spc, NCol <- 7, NRow <- 7,
       Signals <- {[a \in MCRing \cup inner |-> 100] : inner \in SUBSET MCInner}
                  \cup [MCBlock -> {0, 100, 300}]
                  \cup {(101 :> 500) @@ (301 :> 400) @@ (501 :> 300) @@ (701 :> 200) @@ (303 :> 110)},
       LaterSignals <- {(101 :> 200) @@ (103 :> 150) @@ (301 :> 300) @@ (302 :> 20) @@ (303 :> 250)},
       GoodCells <- {100 * x + y : x \in 1 .. 4, y \in 1 .. 7} \ {204},
       MinPeak <- MCMinPeak, Profile <- [d \in 0 .. 3 |-> <<70, 3, 1, 0>>[d + 1]],
       Iterations <- 3, MaxIslands <- 5, MaxPeaks <- 3, MaxGammas <- 5, MaxCells <- 8

MCInit == /\ part \in {"Readout", "HyCal", "GEM", "Match", "Calibration", "Primex", "Sector"}
          /\ Init /\ ClusterInit /\ G!Init /\ MatchInit /\ CalibInit /\ P!Init /\ S!Init
          /\ part # "Primex" => status = [m \in 1 .. 6 |-> "good"]

gem_vars   == <<gpc, strip_hits, gclusters, gi>>
primex_vars == <<ppc, status, signal, isect, sect_clusters, pclusters, pieces>>
sector_vars == <<spc, ech, islands, icl, adcgam, cells>>
all_vars   == <<part, vars, cluster_vars, gem_vars, match_vars, calib_vars, primex_vars, sector_vars>>

Readout(A) ==
  part = "Readout" /\ A
  /\ UNCHANGED <<part, cluster_vars, gem_vars, match_vars, calib_vars, primex_vars, sector_vars>>
HyCalNext ==
  part = "HyCal" /\ ClusterNext
  /\ UNCHANGED <<part, vars, gem_vars, match_vars, calib_vars, primex_vars, sector_vars>>
GEMNext ==
  part = "GEM" /\ G!Next
  /\ UNCHANGED <<part, vars, cluster_vars, match_vars, calib_vars, primex_vars, sector_vars>>
MatchStep ==
  part = "Match" /\ MatchNext
  /\ UNCHANGED <<part, vars, cluster_vars, gem_vars, calib_vars, primex_vars, sector_vars>>
CalibrationNext ==
  part = "Calibration" /\ CalibNext
  /\ UNCHANGED <<part, vars, cluster_vars, gem_vars, match_vars, primex_vars, sector_vars>>
PrimexNext ==
  part = "Primex" /\ P!Next
  /\ UNCHANGED <<part, vars, cluster_vars, gem_vars, match_vars, calib_vars, sector_vars>>
SectorNext ==
  part = "Sector" /\ S!Next
  /\ UNCHANGED <<part, vars, cluster_vars, gem_vars, match_vars, calib_vars, primex_vars>>

MCNext == \/ Readout(Next) \/ HyCalNext \/ GEMNext \/ MatchStep \/ CalibrationNext \/ PrimexNext \/ SectorNext

MCSpec == MCInit /\ [][MCNext]_all_vars /\ WF_all_vars(Readout(Parse))

(* GEM: no side reads a strip twice, groups and splits give out the charge  *)
(* of the plane, a cluster that is done with is a run of strips without a   *)
(* valley, and no cross talk is left in the end.                            *)
StripsGrouped ==
  part = "GEM" => G!SidesApart /\ G!ChargeKept /\ G!NoValleyLeft /\ G!CrossTalkGone

(* Sector: photons have their cells, and share out the energy of a cell;    *)
(* peaks do not touch, and no island with one goes without.                 *)
CellsAccounted == part = "Sector" => S!CellsAccounted /\ S!PeaksStandApart

(* Sector: islands are the connected parts of the cells.                    *)
IslandsAreWhole == part = "Sector" => S!IslandsAreWhole

(* Primex: clusters cut by a border are glued, once.                        *)
GluedOnce == part = "Primex" => P!GluedOnce
=============================================================================
