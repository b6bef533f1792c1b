--------------------------- MODULE PrimexClusters ---------------------------
(* PRadPrimexCluster: the hits of an event are handed to the Fortran code   *)
(* sector by sector, what it finds is read back from its common blocks, and *)
(* clusters that a border between sectors cut in two are glued together.    *)
(*                                                                          *)
(* What island.F finds is a choice here (IslandSector has it in detail): it *)
(* gives each cell to one or two clusters, and may see more energy than the *)
(* cells it lists have, or list a dead cell.                                *)
(* Energies are integers and in one unit.  Only the thresholds the Fortran  *)
(* code is given are left out.                                              *)
EXTENDS Integers, Sequences, FiniteSets, SequencesExt

CONSTANTS Modules,          \* records: x, y, size, sector, type
          Signals,          \* energies by module that an event may have
          DeadLists,        \* sets of modules a run information file marks
          MinModuleEnergy,  \* by type
          AdjPercent,       \* adj_dist, in percent of a module's side
          MaxCells          \* cells of a cluster that are read back (MAX_CC)

Ids     == DOMAIN Modules
Sectors == {Modules[m].sector : m \in Ids}
LastSector == CHOOSE s \in Sectors : \A t \in Sectors : t <= s

VARIABLES pc,               \* "idle", "island" or "glue"
          module_status,    \* by module: what callIsland loads
          energy,           \* of the hits of the event
          isect,            \* the sector at work
          sect_clusters,    \* what was found in each sector
          clusters,         \* the result
          pieces            \* history: all that island.F found, in order

vars == <<pc, module_status, energy, isect, sect_clusters, clusters, pieces>>

-----------------------------------------------------------------------------
SumOf(S, f(_)) == FoldSet(LAMBDA x, sum : sum + f(x), 0, S)

(* hit_distance: in units of the mean size of the two modules. *)
Near(a, b) ==
  LET dx == Modules[a].x - Modules[b].x
      dy == Modules[a].y - Modules[b].y
      s  == Modules[a].size + Modules[b].size
  IN  40000 * (dx * dx + dy * dy) < AdjPercent * AdjPercent * s * s

(* No clusters whose centers are in one sector, whatever else they hold.    *)
checkTransAdj(c, d) ==
  /\ Modules[c.center.id].sector # Modules[d.center.id].sector
  /\ \E i \in DOMAIN c.hits, j \in DOMAIN d.hits : Near(c.hits[i].id, d.hits[j].id)

(* ModuleCluster::Merge: the larger center stays the center. *)
Merge(c, d) ==
  [center  |-> IF c.center.energy < d.center.energy THEN d.center ELSE c.center,
   hits    |-> c.hits \o d.hits,
   energy  |-> c.energy + d.energy,
   leakage |-> c.leakage + d.leakage,
   of      |-> c.of \cup d.of]

(* FindCenter: the first of the hits with the most energy. *)
FindCenter(hits) ==
  FoldLeft(LAMBDA best, h : IF h.energy > best.energy THEN h ELSE best, hits[1], hits)

(* The hits callIsland writes to the common block. *)
Loaded(s) == {m \in Ids : /\ Modules[m].sector = s /\ energy[m] > 0
                          /\ energy[m] >= MinModuleEnergy[Modules[m].type]}

(* getIslandResult for one cluster: cells beyond the table are not read,    *)
(* and a cell without a hit of its own takes its energy off the leakage.    *)
ReadBack(found, number) ==
  LET cells == SubSeq(found.cells, 1, IF Len(found.cells) < MaxCells THEN Len(found.cells) ELSE MaxCells)
      hits  == SelectSeq(cells, LAMBDA h : h.id \in Loaded(Modules[h.id].sector))
  IN  [center |-> FindCenter(hits), hits |-> hits, energy |-> found.energy,
       leakage |-> found.energy - FoldLeft(LAMBDA sum, h : sum + h.energy, 0, cells),
       of |-> {number}]

-----------------------------------------------------------------------------
(* main_island: the hits in one cluster or in two, with a dead neighbour    *)
(* listed or not, and with some energy beside that of the cells.            *)
Found(S, dead, extra) ==
  LET cells == SetToSortSeq(S, LAMBDA a, b : a < b)
      real  == [i \in DOMAIN cells |-> [id |-> cells[i], energy |-> energy[cells[i]]]]
      given == real \o [i \in 1 .. Cardinality(dead) |-> [id |-> SetToSeq(dead)[i], energy |-> 1]]
  IN  [cells |-> given, energy |-> SumOf(S, LAMBDA m : energy[m]) + Cardinality(dead) + extra]

DeadIn(s) == {m \in Ids : Modules[m].sector = s /\ module_status[m] = "dead" /\ m \notin Loaded(s)}

main_island(s) ==
  LET S == Loaded(s)
  IN  IF S = {} THEN {<<>>}
      ELSE {<<Found(S, d, x)>> : d \in {{}, DeadIn(s)}, x \in {0, 2}}
           \cup {<<Found(T, {}, 0), Found(S \ T, {}, 2)>> : T \in SUBSET S \ {{}, S}}

\* Mutant of glueClusters: no break after a cluster was merged
GlueToAll(base, sector) ==
  FoldLeft(LAMBDA state, c :
             LET near == {k \in DOMAIN state[1] : checkTransAdj(c, state[1][k])}
             IN  IF near = {} THEN <<state[1], Append(state[2], c)>>
                 ELSE <<[k \in DOMAIN state[1] |->
                           IF k \in near THEN Merge(state[1][k], c) ELSE state[1][k]], state[2]>>,
           <<base, <<>>>>, sector)

(* Each cluster of the sector goes into the first of the base it is next    *)
(* to; the base grows while the others are looked at.                       *)
glueClusters(base, sector) ==
  FoldLeft(LAMBDA state, c :
             LET near == {k \in DOMAIN state[1] : checkTransAdj(c, state[1][k])}
             IN  IF near = {} THEN <<state[1], Append(state[2], c)>>
                 ELSE LET k == CHOOSE j \in near : \A l \in near : j <= l
                      IN  <<[state[1] EXCEPT ![k] = Merge(@, c)], state[2]>>,
           <<base, <<>>>>, sector)

-----------------------------------------------------------------------------
(* The table of the modules' status is not set before a run information     *)
(* file is read.                                                            *)
Init ==
  /\ pc = "idle" /\ isect = 0
  /\ module_status \in [Ids -> {"good", "dead"}]
  /\ energy = [m \in Ids |-> 0]
  /\ sect_clusters = [s \in Sectors |-> <<>>] /\ clusters = <<>> /\ pieces = <<>>

UpdateModuleStatus(dead) ==
  /\ pc = "idle"
  /\ module_status' = [m \in Ids |-> IF m \in dead THEN "dead" ELSE "good"]
  /\ UNCHANGED <<pc, energy, isect, sect_clusters, clusters, pieces>>

FormCluster(signal) ==
  /\ pc = "idle" /\ pc' = "island"
  /\ energy' = signal /\ isect' = 0 /\ clusters' = <<>> /\ pieces' = <<>>
  /\ sect_clusters' = [s \in Sectors |-> <<>>]
  /\ UNCHANGED module_status

callIsland ==
  /\ pc = "island"
  /\ \E found \in main_island(isect) :
       LET got == [i \in DOMAIN found |-> ReadBack(found[i], Len(pieces) + i)]
       IN  /\ sect_clusters' = [sect_clusters EXCEPT ![isect] = got]
           /\ pieces' = pieces \o got
  /\ IF isect = LastSector THEN pc' = "glue" /\ isect' = 0
     ELSE isect' = isect + 1 /\ UNCHANGED pc
  /\ UNCHANGED <<module_status, energy, clusters>>

(* Sector isect is the base for all those after it. *)
GlueSector ==
  /\ pc = "glue" /\ isect < LastSector
  /\ sect_clusters' =
       FoldLeft(LAMBDA sc, j : LET r == glueClusters(sc[isect], sc[j])
                               IN  [sc EXCEPT ![isect] = r[1], ![j] = r[2]],
                sect_clusters, [k \in 1 .. LastSector - isect |-> isect + k])
  /\ isect' = isect + 1
  /\ UNCHANGED <<pc, module_status, energy, clusters, pieces>>

AddClusters ==
  /\ pc = "glue" /\ isect = LastSector
  /\ clusters' = FoldLeft(LAMBDA all, s : all \o sect_clusters[s], <<>>,
                          [k \in 1 .. LastSector + 1 |-> k - 1])
  /\ pc' = "idle" /\ isect' = 0
  /\ UNCHANGED <<module_status, energy, sect_clusters, pieces>>

Next == \/ \E D \in DeadLists : UpdateModuleStatus(D)
        \/ \E s \in Signals : FormCluster(s)
        \/ callIsland \/ GlueSector \/ AddClusters

Spec == Init /\ [][Next]_vars

-----------------------------------------------------------------------------
(* Whatever the order of the sectors, each cluster of the Fortran code is   *)
(* in one cluster of the result, with its hits, its energy and its leakage; *)
(* the parts of a cluster hang together over the borders, and its center is *)
(* its strongest hit (glueClusters erases from the list it goes through).   *)
GluedOnce ==
  pc = "idle" =>
    /\ \A p \in DOMAIN pieces : \E k \in DOMAIN clusters :
         p \in clusters[k].of /\ \A l \in DOMAIN clusters \ {k} : p \notin clusters[l].of
    /\ \A k \in DOMAIN clusters :
         LET c == clusters[k]
         IN  /\ Len(c.hits) = SumOf(c.of, LAMBDA p : Len(pieces[p].hits))
             /\ c.energy = SumOf(c.of, LAMBDA p : pieces[p].energy)
             /\ c.leakage = SumOf(c.of, LAMBDA p : pieces[p].leakage)
             /\ c.center \in ToSet(c.hits)
             /\ \A i \in DOMAIN c.hits : c.hits[i].energy <= c.center.energy
             /\ \A P \in SUBSET c.of \ {{}, c.of} : \E p \in P, q \in c.of \ P :
                  \E i \in DOMAIN pieces[p].hits, j \in DOMAIN pieces[q].hits :
                    Near(pieces[p].hits[i].id, pieces[q].hits[j].id)
=============================================================================
