--------------------------- MODULE HyCalClusters ---------------------------
(* Reconstruction of one HyCal event: the hits of the modules are grouped   *)
(* by the island or by the square method, a group with several maxima is    *)
(* shared out between them, and each cluster that is good enough gets       *)
(* virtual hits for energy that leaked into dead modules or out of the      *)
(* detector.                                                                *)
(*                                                                          *)
(* Modules stand on a grid of squares of one size, so distances are those   *)
(* of the grid.  Energies are integers.  Positions found by logarithmic     *)
(* weights, and the profile read there, are a choice: any position of the   *)
(* 3x3 around a maximum, any of LeakFracs for a virtual module.             *)
EXTENDS Integers, Sequences, FiniteSets, SequencesExt

CONSTANTS Layout,           \* sequence of <<column, row>>: module_list
          Signals,          \* energies by module that an event may have
          LaterSignals,     \* those of an event that finds clusters of another
          MinModuleEnergy, MinCenterEnergy, MinClusterEnergy, MinClusterSize,
          CornerConnection, \* whether corners connect modules of an island
          SquareSize,       \* side of a square, in modules
          Profile,          \* fraction in percent, by squared distance
          LeastShare, LeastLeak,   \* percent
          SplitMaxClusters, \* limit on the maxima of a group to be split
          VirtualLists,     \* by name: the virtual modules of a list
          Borders,          \* by name: the modules whose flag calls for a list
          LeakFracs         \* percents of leakage a virtual module may get

(* What the grouping of hits needs: the modules stand on a grid. *)
GridConstants ==
  /\ Layout \in Seq(Int \X Int) /\ MinModuleEnergy \in Int
  /\ Signals \cup LaterSignals \subseteq [DOMAIN Layout -> Int]

VARIABLES pc, method, energy,   \* the step; the method; energies by module
          module_hits,          \* ids still to be grouped, in their order
          groups, it,           \* sequences of ids; the loop's position
          clusters, hycal_hits

cluster_vars == <<pc, method, energy, module_hits, groups, it, clusters, hycal_hits>>

Ids == DOMAIN Layout
Dist2(a, b) == LET dx == Layout[a][1] - Layout[b][1]
                   dy == Layout[a][2] - Layout[b][2]  IN dx * dx + dy * dy
SumOf(s) == FoldLeft(+, 0, s)

(* hit_distance < adj_dist, and < CORNER_ADJACENT. *)
Adjacent(a, b) == Dist2(a, b) <= IF CornerConnection THEN 2 ELSE 1
Cornered(a, b) == Dist2(a, b) <= 2

GetProfile(a, b) == IF Dist2(a, b) \in DOMAIN Profile THEN Profile[Dist2(a, b)] ELSE 0

(* ModuleCluster: AddHit keeps the energy the sum of the hits. *)
NewCluster(m, e) == [center |-> m, cenergy |-> e, hits |-> <<>>, energy |-> 0, leakage |-> 0]
AddHit(c, m, e, real) ==
  [c EXCEPT !.hits = Append(@, [id |-> m, energy |-> e, real |-> real]), !.energy = @ + e]

-----------------------------------------------------------------------------
(* The island method. *)

TouchesGroup(group, m) == \E k \in DOMAIN group : Adjacent(m, group[k])

(* fillClusters: into the first group with an adjacent hit, or a new one;   *)
(* a hit below the threshold is passed over.                                *)
AddToGroups(gs, m) ==
  LET near == {k \in DOMAIN gs : TouchesGroup(gs[k], m)}
  IN  IF energy[m] < MinModuleEnergy THEN gs
      ELSE IF near = {} THEN Append(gs, <<m>>)
      ELSE LET k == CHOOSE j \in near : \A l \in near : j <= l
           IN  [gs EXCEPT ![k] = Append(@, m)]

FillGroups(hits) ==
  LET Groups[k \in 0 .. Len(hits)] == IF k = 0 THEN <<>> ELSE AddToGroups(Groups[k - 1], hits[k])
  IN  Groups[Len(hits)]

\* Mutant of MergeOne: the iterator is not stepped back after the erase.
MergeOneAndSkip(gs, i) ==
  LET later == {j \in i + 1 .. Len(gs) : \E k \in DOMAIN gs[i] : TouchesGroup(gs[j], gs[i][k])}
  IN  IF later = {} THEN <<gs, i + 1>>
      ELSE LET j == CHOOSE x \in later : \A y \in later : x <= y
           IN  <<RemoveAt([gs EXCEPT ![j] = @ \o gs[i]], i), i + 1>>

(* One turn of the merge loop: group i goes to the end of the first later   *)
(* group it touches, and the loop goes on at the same place; otherwise the  *)
(* loop moves on.                                                           *)
MergeOne(gs, i) ==
  LET later == {j \in i + 1 .. Len(gs) : \E k \in DOMAIN gs[i] : TouchesGroup(gs[j], gs[i][k])}
  IN  IF later = {} THEN <<gs, i + 1>>
      ELSE LET j == CHOOSE x \in later : \A y \in later : x <= y
           IN  <<RemoveAt([gs EXCEPT ![j] = @ \o gs[i]], i), i>>

(* findMaximums: no corner neighbour has more energy. *)
Maximums(group) ==
  SelectSeq(group, LAMBDA m :
    /\ energy[m] >= MinCenterEnergy
    /\ \A k \in DOMAIN group : Cornered(m, group[k]) => energy[group[k]] <= energy[m])

(* evalFraction: the weight of each maximum at each hit, from the profile   *)
(* around the position found for the maximum.                               *)
Weights(maxima, at) ==
  [m \in Ids |-> [k \in DOMAIN maxima |-> GetProfile(at[k], m) * energy[maxima[k]]]]

(* The positions that may be found: hits of the 3x3 around each maximum.    *)
Positions(group, maxima) ==
  {at \in [DOMAIN maxima -> ToSet(group)] : \A k \in DOMAIN maxima : Cornered(maxima[k], at[k])}

\* Mutant of Share: a dropped share is taken off the total once too often.
ShareLess(state, w, k, center, m) ==
  LET c == state[1]  total == state[2]
  IN  IF w[m][k] = 0 THEN state
      ELSE <<AddHit(c, m, (energy[m] * w[m][k]) \div total[m], TRUE),
             [total EXCEPT ![m] = @ - w[m][k]]>>

(* The last loop of splitHits.  Maxima take their shares one after the      *)
(* other; a share that is too small is dropped and taken off the total, so  *)
(* that later maxima get more, and those before are not changed.            *)
Share(state, w, k, center, m) ==
  LET c == state[1]  total == state[2]
  IN  IF w[m][k] = 0 THEN state
      ELSE IF 100 * w[m][k] < LeastShare * total[m]
           THEN <<c, [total EXCEPT ![m] = @ - w[m][k]]>>
           ELSE LET e == (energy[m] * w[m][k]) \div total[m]
                    d == AddHit(c, m, e, TRUE)
                IN  <<IF m = center THEN [d EXCEPT !.cenergy = e] ELSE d, total>>

SplitHits(group, maxima, at) ==
  LET w == Weights(maxima, at)
      One(state, k) ==
        LET r == FoldLeft(LAMBDA s, m : Share(s, w, k, maxima[k], m),
                          <<NewCluster(maxima[k], energy[maxima[k]]), state[2]>>, group)
        IN  <<Append(state[1], r[1]), r[2]>>
  IN  FoldLeftDomain(One, <<<<>>, [m \in Ids |-> SumOf(w[m])]>>, maxima)[1]

(* splitCluster: what a group becomes. *)
SplitCluster(group) ==
  LET maxima == Maximums(group)
      whole  == FoldLeft(LAMBDA c, m : AddHit(c, m, energy[m], TRUE),
                         NewCluster(maxima[1], energy[maxima[1]]), group)
  IN  IF maxima = <<>> THEN {<<>>}
      ELSE IF Len(maxima) = 1 \/ Len(maxima) >= SplitMaxClusters THEN {<<whole>>}
      ELSE {SplitHits(group, maxima, at) : at \in Positions(group, maxima)}

-----------------------------------------------------------------------------
(* The square method: hits in the order of their energies; one that lies in *)
(* no square starts a cluster, one that lies in several is shared.          *)

InSquare(c, m) ==
  \A x \in {1, 2} : LET d == Layout[c.center][x] - Layout[m][x]
                    IN  2 * d <= SquareSize /\ -2 * d <= SquareSize

SplitHit(cs, m, in) ==
  LET w     == [k \in DOMAIN cs |-> IF k \in in THEN GetProfile(cs[k].center, m) * cs[k].cenergy ELSE 0]
      total == SumOf(w)
  IN  [k \in DOMAIN cs |->
         IF w[k] = 0 THEN cs[k] ELSE AddHit(cs[k], m, (energy[m] * w[k]) \div total, TRUE)]

AddToSquares(cs, m) ==
  LET in    == {k \in DOMAIN cs : InSquare(cs[k], m)}
      taken == Cardinality(in) = 1 \/ \E k \in in : GetProfile(cs[k].center, m) > 0
  IN  IF taken
      THEN IF Cardinality(in) = 1
           THEN [k \in DOMAIN cs |-> IF k \in in THEN AddHit(cs[k], m, energy[m], TRUE) ELSE cs[k]]
           ELSE SplitHit(cs, m, in)
      ELSE IF energy[m] > MinCenterEnergy
           THEN Append(cs, AddHit(NewCluster(m, energy[m]), m, energy[m], TRUE))
           ELSE cs

(* std::sort by energy: hits of one energy come in any order. *)
Sorted(hits) ==
  LET Orders[S \in SUBSET Ids] ==
        IF S = {} THEN {<<>>}
        ELSE UNION {{<<m>> \o s : s \in Orders[S \ {m}]} :
                      m \in {n \in S : \A o \in S : energy[o] <= energy[n]}}
  IN  Orders[ToSet(hits)]

-----------------------------------------------------------------------------
(* Leakage. *)

CheckCluster(c) == c.energy >= MinClusterEnergy /\ Len(c.hits) >= MinClusterSize

(* AddVirtHits: frac is the last estimate that improved the profile, all    *)
(* zero when none did.  The threshold is against the energy with the        *)
(* virtual hits added so far.                                               *)
AddVirtHits(c, list, frac) ==
  LET Add(d, v) == LET e == (c.energy * frac[v]) \div 100
                   IN  IF 100 * e >= LeastLeak * d.energy /\ e > 0
                       THEN [AddHit(d, v, e, FALSE) EXCEPT !.leakage = @ + e]
                       ELSE d
  IN  FoldLeft(Add, c, list)

(* LeakCorr: the lists the flags of the center call for, in this order. *)
LeakCorr(c) ==
  LET After(S, name) ==
        IF c.center \notin Borders[name] \/ VirtualLists[name] = <<>> THEN S
        ELSE {AddVirtHits(d, VirtualLists[name], frac) :
                d \in S, frac \in [ToSet(VirtualLists[name]) -> LeakFracs]}
  IN  FoldLeft(After, {c}, <<"dead", "inner", "outer">>)

(* CorrectVirtHits: the position is known from another detector; virtual    *)
(* hits get the full energy the profile says, or are removed.               *)
CorrectVirtHits(c, frac) ==
  LET real == c.energy - c.leakage
      Full(h) == IF h.real THEN h
                 ELSE [h EXCEPT !.energy = (real * frac[h.id]) \div (100 - frac[h.id])]
      kept == SelectSeq(c.hits, LAMBDA h : h.real \/ frac[h.id] \in 1 .. 99)
      hs   == [k \in DOMAIN kept |-> Full(kept[k])]
      leak == SumOf([k \in DOMAIN hs |-> IF hs[k].real THEN 0 ELSE hs[k].energy])
  IN  IF c.leakage = 0 THEN c
      ELSE [c EXCEPT !.hits = hs, !.leakage = leak, !.energy = real + leak]

HyCalHitOf(c) == [center |-> c.center, E |-> c.energy, leak |-> c.leakage, nblocks |-> Len(c.hits)]

-----------------------------------------------------------------------------
ClusterInit == /\ pc = "Idle" /\ method \in {"Island", "Square"}
        /\ energy = [m \in Ids |-> 0] /\ module_hits = <<>> /\ groups = <<>>
        /\ it = 0 /\ clusters = <<>> /\ hycal_hits = <<>>

(* The modules with energy, in the order of the list. *)
HitsOf(e) ==
  LET Hits[k \in 0 .. Len(Layout)] ==
        IF k = 0 THEN <<>> ELSE IF e[k] > 0 THEN Append(Hits[k - 1], k) ELSE Hits[k - 1]
  IN  Hits[Len(Layout)]

(* The hits are collected anew, and FormCluster clears the clusters first.  *)
CollectModuleHits ==
  /\ pc = "Idle"
  /\ energy' \in IF clusters = <<>> THEN Signals ELSE LaterSignals
  /\ module_hits' = HitsOf(energy')
  /\ pc' = method /\ clusters' = <<>>
  /\ UNCHANGED <<method, groups, it, hycal_hits>>

FormSquares ==
  /\ pc = "Square"
  /\ module_hits' \in Sorted(module_hits)
  /\ clusters' = FoldLeft(AddToSquares, <<>>, module_hits')
  /\ pc' = "Clusters" /\ it' = 1 /\ hycal_hits' = <<>>
  /\ UNCHANGED <<method, energy, groups>>

FormGroups ==
  /\ pc = "Island"
  /\ groups' = FillGroups(module_hits)
  /\ pc' = "Merge" /\ it' = 1
  /\ UNCHANGED <<method, energy, module_hits, clusters, hycal_hits>>

MergeGroups ==
  /\ pc = "Merge"
  /\ IF it <= Len(groups)
     THEN /\ groups' = MergeOne(groups, it)[1] /\ it' = MergeOne(groups, it)[2] /\ UNCHANGED pc
     ELSE /\ pc' = "Split" /\ it' = 1 /\ UNCHANGED groups
  /\ UNCHANGED <<method, energy, module_hits, clusters, hycal_hits>>

SplitGroups ==
  /\ pc = "Split"
  /\ IF it <= Len(groups)
     THEN /\ \E cs \in SplitCluster(groups[it]) : clusters' = clusters \o cs
          /\ it' = it + 1 /\ UNCHANGED <<pc, hycal_hits>>
     ELSE /\ pc' = "Clusters" /\ it' = 1 /\ hycal_hits' = <<>> /\ UNCHANGED clusters
  /\ UNCHANGED <<method, energy, module_hits, groups>>

(* Reconstruct, the loop over clusters. *)
ReconstructCluster ==
  /\ pc = "Clusters"
  /\ IF it <= Len(clusters)
     THEN /\ IF CheckCluster(clusters[it])
             THEN \E c \in LeakCorr(clusters[it]) :
                    /\ clusters' = [clusters EXCEPT ![it] = c]
                    /\ hycal_hits' = Append(hycal_hits, HyCalHitOf(c))
             ELSE UNCHANGED <<clusters, hycal_hits>>
          /\ it' = it + 1 /\ UNCHANGED pc
     ELSE pc' = "Done" /\ UNCHANGED <<clusters, hycal_hits, it>>
  /\ UNCHANGED <<method, energy, module_hits, groups>>

CorrectCluster ==
  /\ pc = "Done"
  /\ \E k \in DOMAIN clusters :
       LET vs == {h.id : h \in {g \in ToSet(clusters[k].hits) : ~g.real}}
       IN  \E frac \in [vs -> LeakFracs \cup {100}] :
             clusters' = [clusters EXCEPT ![k] = CorrectVirtHits(@, frac)]
  /\ pc' = "Corrected"
  /\ UNCHANGED <<method, energy, module_hits, groups, it, hycal_hits>>

(* Reset clears the hits found, and keeps the clusters and module hits.     *)
ResetDetector ==
  /\ pc \in {"Done", "Corrected"}
  /\ pc' = "Idle" /\ hycal_hits' = <<>> /\ groups' = <<>> /\ it' = 0
  /\ UNCHANGED <<method, energy, module_hits, clusters>>

ClusterNext == CollectModuleHits \/ FormSquares \/ FormGroups \/ MergeGroups \/ SplitGroups
        \/ ReconstructCluster \/ CorrectCluster \/ ResetDetector

ClusterSpec == ClusterInit /\ [][ClusterNext]_cluster_vars

-----------------------------------------------------------------------------
(* The connected parts of the hits above the threshold: the sets of hits    *)
(* with all their neighbours among the hits, no smaller of which is inside. *)
AboveThreshold == {m \in ToSet(module_hits) : energy[m] >= MinModuleEnergy}
Whole(S, C)    == C # {} /\ \A m \in C, o \in S : Adjacent(m, o) => o \in C
Islands ==
  {C \in SUBSET AboveThreshold :
     Whole(AboveThreshold, C) /\ \A D \in SUBSET C : Whole(AboveThreshold, D) => D = C}

(* When the groups are merged they are the connected parts of the hits      *)
(* above the threshold, each hit in one group, once.  groupHits puts a hit  *)
(* into the first group it touches, merges only with later groups, and      *)
(* erases the vector it iterates over.                                      *)
IslandsAreComponents ==
  pc = "Split" =>
    /\ {ToSet(groups[k]) : k \in DOMAIN groups} = Islands
    /\ \A k \in DOMAIN groups : IsInjective(groups[k])
    /\ \A j, k \in DOMAIN groups : ToSet(groups[j]) = ToSet(groups[k]) => j = k

(* The energy of a cluster is that of its hits, its leakage that of its     *)
(* virtual hits, through all corrections; and what the clusters hold of a   *)
(* module is never more than the module measured.                           *)
SharesOf(m) == [k \in DOMAIN clusters |->
                  SumOf([j \in DOMAIN clusters[k].hits |->
                           IF clusters[k].hits[j].id = m THEN clusters[k].hits[j].energy ELSE 0])]

EnergyAccounted ==
  /\ \A k \in DOMAIN clusters :
       LET hs == clusters[k].hits
       IN  /\ clusters[k].energy = SumOf([j \in DOMAIN hs |-> hs[j].energy])
           /\ clusters[k].leakage = SumOf([j \in DOMAIN hs |-> IF hs[j].real THEN 0 ELSE hs[j].energy])
  /\ \A m \in Ids : SumOf(SharesOf(m)) <= energy[m]
=============================================================================
