---------------------------- MODULE IslandSector ----------------------------
(* island.F: what main_island finds in one sector of HyCal.  The cells with *)
(* energy are cut into islands, each island is given one photon per peak,   *)
(* and each photon its share of the cells.  PrimexClusters has the sectors  *)
(* and what becomes of the photons.                                         *)
(*                                                                          *)
(* Real numbers are integers: energies in 0.1 MeV, profiles in percent of   *)
(* a photon by its distance in cells; a position is the cell at the center  *)
(* of gravity, which the fit of gamma_hyc does not leave.  ia and id, which *)
(* are always moved together, are one sequence of cells.                    *)
EXTENDS Integers, Sequences, FiniteSets, SequencesExt

CONSTANTS NCol, NRow,     \* size of the sector
          Signals,        \* energies by address that an event may have
          LaterSignals,   \* those that may follow another event
          GoodCells,      \* addresses whose module works (stat_ch)
          MinPeak(_, _),  \* least energy of a peak by size and energy of an island
          Profile,        \* share of a photon by distance, from 0
          Iterations,     \* niter
          MaxIslands,     \* maxcl
          MaxPeaks,       \* peaks of one island
          MaxGammas,      \* madcgam
          MaxCells        \* cells of a photon that are listed (MAX_CC)

VARIABLES pc,       \* "idle", "gams" or "out"
          ech,      \* the energies of the event
          islands,  \* what clus_hyc found
          icl,      \* islands that are done
          adcgam,   \* photons: energy, address, number of cells
          cells     \* the list of each photon's cells, kept over events

vars == <<pc, ech, islands, icl, adcgam, cells>>

-----------------------------------------------------------------------------
Col(a) == a \div 100
Row(a) == a % 100
Distance(a, b) == LET dx == Col(a) - Col(b)
                      dy == Row(a) - Row(b)
                      Size(d) == IF d < 0 THEN 0 - d ELSE d
                  IN  IF Size(dx) > Size(dy) THEN Size(dx) ELSE Size(dy)

SumOver(S, f(_)) == FoldSet(LAMBDA x, sum : sum + f(x), 0, S)
Energy(c)        == SumOver(DOMAIN c, LAMBDA i : c[i].id)
Rounded(a, b)    == (2 * a + b) \div (2 * b)
cell_hyc(d)      == IF d \in DOMAIN Profile THEN Profile[d] ELSE 0

order_hyc(c) == SortSeq(c, LAMBDA a, b : a.ia < b.ia)

(* The cells with energy, column by column. *)
data_hyc(signal) ==
  LET all  == [n \in 1 .. NCol * NRow |-> 100 * ((n - 1) \div NRow + 1) + ((n - 1) % NRow) + 1]
      some == SelectSeq(all, LAMBDA a : a \in DOMAIN signal /\ signal[a] > 0)
  IN  [n \in DOMAIN some |-> [ia |-> some[n], id |-> signal[some[n]]]]

-----------------------------------------------------------------------------
(* Subclusters: cells one above the other. *)
Runs(hits) ==
  FoldLeft(LAMBDA runs, h : IF runs # <<>> /\ h.ia - Last(Last(runs)).ia <= 1
                            THEN Front(runs) \o <<Append(Last(runs), h)>>
                            ELSE Append(runs, <<h>>), <<>>, hits)

(* Going back from its last cell, a cell next to the run is met before one  *)
(* that is more than a column away.                                         *)
Touches(c, run) ==
  \E i \in DOMAIN c : /\ Last(run).ia - c[i].ia >= 100
                      /\ \A j \in i .. Len(c) : run[1].ia - c[j].ia <= 100

(* Going back from the last island until one ends more than a column away.  *)
Glued(found, run) ==
  {k \in DOMAIN found : /\ Touches(found[k], run)
                        /\ \A l \in k .. Len(found) : run[1].ia - Last(found[l]).ia <= 100}

(* The islands a run touches and the run become one, which is the last.     *)
Glue(found, run) ==
  LET glued  == Glued(found, run)
      Of(K)  == LET ks == SelectSeq([k \in DOMAIN found |-> k], LAMBDA k : k \in K)
                IN  [n \in DOMAIN ks |-> found[ks[n]]]
  IN  Append(Of(DOMAIN found \ glued), FlattenSeq(Append(Of(glued), run)))

clus_hyc(hits) ==
  FoldLeft(LAMBDA found, run : IF Len(found) >= MaxIslands THEN found ELSE Glue(found, run),
           <<>>, Runs(hits))

-----------------------------------------------------------------------------
Near(c, i) == {j \in DOMAIN c : Distance(c[i].ia, c[j].ia) <= 1}

(* Of equal cells that touch, the one that comes last. *)
IsPeak(c, i) ==
  /\ c[i].id >= MinPeak(Len(c), Energy(c))
  /\ \A j \in Near(c, i) \ {i} : IF j > i THEN c[j].id < c[i].id ELSE c[j].id <= c[i].id

Peaks(c) ==
  LET all == SelectSeq([i \in DOMAIN c |-> i], LAMBDA i : IsPeak(c, i))
  IN  SubSeq(all, 1, IF Len(all) < MaxPeaks THEN Len(all) ELSE MaxPeaks)

(* Neighbours of the cells that saw nothing though they work. *)
fill_zeros(c) ==
  LET used == {c[i].ia : i \in DOMAIN c}
  IN  {a \in {100 * x + y : x \in 1 .. NCol, y \in 1 .. NRow} \cap GoodCells :
         a \notin used /\ \E b \in used : Distance(a, b) = 1}

(* The cell at the center of gravity of the cells that have a share. *)
Center(c, share) ==
  LET Mean(f(_)) == Rounded(SumOver(DOMAIN share, LAMBDA i : share[i] * f(c[i].ia)),
                            SumOver(DOMAIN share, LAMBDA i : share[i]))
  IN  100 * Mean(Col) + Mean(Row)

(* The energy is raised by what the profile has outside of the cells and    *)
(* their neighbours, to five fourths at most.                               *)
mom1_pht(c) ==
  LET a    == Center(c, [i \in DOMAIN c |-> c[i].id])
      corr == SumOver({c[i].ia : i \in DOMAIN c} \cup fill_zeros(c),
                      LAMBDA b : cell_hyc(Distance(a, b)))
      part == IF corr < 80 THEN 80 ELSE IF corr > 100 THEN 100 ELSE corr
  IN  [energy |-> (100 * Energy(c)) \div part, at |-> a, dime |-> Len(c)]

(* One photon for a peak: gamma_hyc returns before it would try a second.   *)
gamma_hyc(c) == mom1_pht(c)

-----------------------------------------------------------------------------
(* Shares are weights by cell and peak. *)
Total(w, i) == SumOver(DOMAIN w[i], LAMBDA p : w[i][p])

(* What each peak has of the cells around it; the empty sequences make TLC  *)
(* evaluate a table once.                                                   *)
Estimate(c, peaks, shares) ==
  [p \in DOMAIN peaks |->
     LET share == [i \in Near(c, peaks[p]) |-> shares[i][p]]
         e     == SumOver(DOMAIN share, LAMBDA i : share[i])
     IN  [energy |-> e, at |-> IF e = 0 THEN c[peaks[p]].ia ELSE Center(c, share)]] \o <<>>

(* Weights of photons of these energies and places. *)
Weights(c, found) ==
  [i \in DOMAIN c |->
     [p \in DOMAIN found |-> found[p].energy * cell_hyc(Distance(c[i].ia, found[p].at))] \o <<>>] \o <<>>

(* The first estimate has all of each cell, the next ones their shares.     *)
Separated(c, peaks) ==
  LET All == [i \in DOMAIN c |-> [p \in DOMAIN peaks |-> c[i].id]]
      Shares(w) ==
        [i \in DOMAIN c |->
           LET total == IF Total(w, i) = 0 THEN 1 ELSE Total(w, i)
           IN  [p \in DOMAIN peaks |-> (c[i].id * w[i][p]) \div total]] \o <<>>
  IN  FoldLeft(LAMBDA w, n : Weights(c, Estimate(c, peaks, Shares(w))),
               Weights(c, Estimate(c, peaks, All)), [n \in 2 .. Iterations |-> n])

(* The part of the island that is a peak's: a cell out of reach of all of   *)
(* them is dropped, the others are given out.                               *)
Part(c, w, p) ==
  LET given == SelectSeq([i \in DOMAIN c |-> i], LAMBDA i : w[i][p] > 0)
  IN  [k \in DOMAIN given |->
         [ia |-> c[given[k]].ia,
          id |-> Rounded(c[given[k]].id * w[given[k]][p], Total(w, given[k]))]]

(* Photons are added as long as there is room; the place they take in the   *)
(* table of cells is theirs only when the list is written.                  *)
Room(now) == Len(now.adcgam) < MaxGammas - 1
Listed(c) == SubSeq(c, 1, IF Len(c) < MaxCells THEN Len(c) ELSE MaxCells)

AddGamma(now, c, listed) ==
  [adcgam |-> Append(now.adcgam, gamma_hyc(c)),
   cells  |-> IF listed THEN [now.cells EXCEPT ![Len(now.adcgam) + 1] = Listed(c)] ELSE now.cells,
   full   |-> now.full]

(* One photon for each peak with a part of its own. *)
AddGammas(now, c, w, listed) ==
  FoldLeft(LAMBDA s, p : IF s.full \/ ~Room(s) THEN [s EXCEPT !.full = TRUE]
                         ELSE IF Part(c, w, p) = <<>> THEN s
                         ELSE AddGamma(s, Part(c, w, p), listed),
           now, [p \in DOMAIN w[1] |-> p])

(* Twice: the photons of the first separation give the weights of the       *)
(* second, which replaces them, unless the first ran out of room.           *)
Several(now, c, peaks) ==
  LET first  == AddGammas(now, c, Separated(c, peaks), FALSE)
      n      == Len(now.adcgam)
      found  == SubSeq(first.adcgam, n + 1, Len(first.adcgam))
      second == Weights(c, found)
  IN  IF first.full THEN first ELSE AddGammas(now, c, second, TRUE)

gams_hyc(now, c) ==
  LET peaks == Peaks(c)
  IN  IF peaks = <<>> \/ ~Room(now) THEN now
      ELSE IF Len(peaks) = 1 THEN AddGamma(now, c, TRUE)
      ELSE Several(now, c, peaks)

-----------------------------------------------------------------------------
Init == /\ pc = "idle" /\ ech = <<>> /\ islands = <<>> /\ icl = 0 /\ adcgam = <<>>
        /\ cells = [k \in 1 .. MaxGammas |-> <<>>]

main_island(signal) ==
  /\ pc = "idle" /\ pc' = "gams"
  /\ ech' = signal
  /\ islands' = clus_hyc(data_hyc(signal))
  /\ icl' = 0 /\ adcgam' = <<>>
  /\ UNCHANGED cells

NextIsland ==
  /\ pc = "gams" /\ icl < Len(islands)
  /\ LET now == gams_hyc([adcgam |-> adcgam, cells |-> cells, full |-> FALSE],
                         order_hyc(islands[icl + 1]))
     IN  adcgam' = now.adcgam /\ cells' = now.cells
  /\ icl' = icl + 1
  /\ UNCHANGED <<pc, ech, islands>>

Swap(s, i, j) == [s EXCEPT ![i] = s[j], ![j] = s[i]]

\* Mutant of Exchange: the lists of cells stay
ExchangeGammas(now, i, j) ==
  IF now[1][i].energy < now[1][j].energy THEN <<Swap(now[1], i, j), now[2]>> ELSE now

Exchange(now, i, j) ==
  IF now[1][i].energy < now[1][j].energy THEN <<Swap(now[1], i, j), Swap(now[2], i, j)>> ELSE now

(* The photon with the most energy first. *)
out_hyc ==
  /\ pc = "gams" /\ icl = Len(islands)
  /\ LET n      == Len(adcgam)
         From(i) == [k \in 1 .. n - i |-> i + k]
         sorted == FoldLeft(LAMBDA s, i : FoldLeft(LAMBDA t, j : Exchange(t, i, j), s, From(i)),
                            <<adcgam, cells>>, [i \in 1 .. n |-> i])
     IN  adcgam' = sorted[1] /\ cells' = sorted[2]
  /\ pc' = "idle"
  /\ UNCHANGED <<ech, islands, icl>>

Next == (\E s \in IF ech = <<>> THEN Signals ELSE LaterSignals : main_island(s)) \/ NextIsland \/ out_hyc

Spec == Init /\ [][Next]_vars

-----------------------------------------------------------------------------
Lists(k, a) == \E i \in DOMAIN cells[k] : cells[k][i].ia = a
Share(k, a) == SumOver({i \in DOMAIN cells[k] : cells[k][i].ia = a}, LAMBDA i : cells[k][i].id)
Listing(a)  == {k \in DOMAIN adcgam : Lists(k, a)}

(* The islands are the connected parts of the cells with energy: what       *)
(* clus_hyc means by "a job to glue the subclusters" and "no subclusters to *)
(* be glued".                                                               *)
IslandsAreWhole ==
  pc = "gams" =>
    \A k, l \in DOMAIN islands : k < l =>
      \A i \in DOMAIN islands[k], j \in DOMAIN islands[l] :
        LET a == islands[k][i].ia
            b == islands[l][j].ia
        IN  Distance(a, b) = 1 => Col(a) # Col(b) /\ Row(a) # Row(b)

(* As long as there is room and no list is cut, each photon has the list of *)
(* its own cells, whose energy it has with up to a fourth more, and the     *)
(* photons share each cell's energy out but for rounding (gams_hyc, out_hyc *)
(* and the lists that are kept from one event to the next).                 *)
CellsAccounted ==
  (pc = "idle" /\ Len(adcgam) < MaxGammas - 1 /\ \A k \in DOMAIN adcgam : adcgam[k].dime <= MaxCells)
  => /\ \A k \in DOMAIN adcgam :
          /\ Len(cells[k]) = adcgam[k].dime
          /\ Energy(cells[k]) <= adcgam[k].energy
          /\ 4 * adcgam[k].energy <= 5 * Energy(cells[k])
     /\ \A a \in DOMAIN ech : Listing(a) # {} =>
          LET given == SumOver(Listing(a), LAMBDA k : Share(k, a))
          IN  2 * (given - ech[a]) <= Cardinality(Listing(a))
              /\ 2 * (ech[a] - given) <= Cardinality(Listing(a))

(* Peaks of an island do not touch, and an island with a cell of the least  *)
(* energy has one (gams_hyc).                                               *)
PeaksStandApart ==
  pc = "gams" /\ icl < Len(islands) =>
    LET c     == order_hyc(islands[icl + 1])
        peaks == Peaks(c)
    IN  /\ \A p, q \in DOMAIN peaks : p # q => Distance(c[peaks[p]].ia, c[peaks[q]].ia) > 1
        /\ peaks = <<>> => \A i \in DOMAIN c : c[i].id < MinPeak(Len(c), Energy(c))
=============================================================================
