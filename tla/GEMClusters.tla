---------------------------- MODULE GEMClusters ----------------------------
(* Clusters of strips on an X plane of a GEM, from the channels of its APVs *)
(* that have a signal: channel to strip, groups of consecutive strips, a    *)
(* split at each valley, position, and the filters.                         *)
(*                                                                          *)
(* The last APV reads the same strips as its two neighbours from the other  *)
(* side.  Positions count strips; the charge is the largest time sample.    *)
EXTENDS Integers, Sequences, FiniteSets, SequencesExt

CONSTANTS Readouts,        \* sets of [apv, ch, charge, cross_talk]
          LaterReadouts,   \* those of an event that finds clusters of another
          Reversed,        \* plane indices of APVs that are turned around
          SplitDiff,       \* split_cluster_diff
          MinHits, MaxHits,
          CrossTalkWidth, CharacDistances   \* in tenths of a strip

VARIABLES pc, strip_hits, clusters, i

vars == <<pc, strip_hits, clusters, i>>

TIME_SAMPLE_SIZE == 128
Special == 11             \* plane_index of the overlapping APV, OVERLAP_APV

SumOf(s) == FoldLeft(+, 0, s)

-----------------------------------------------------------------------------

(* MapStrip: the strip that a channel of an APV reads. *)
MapStrip(apv, ch) ==
  LET half  == IF apv = Special THEN 48 ELSE 32
      inner == 32 * (ch % 4) + 8 * (ch \div 4) - 31 * (ch \div 16)
      local == (IF inner % 2 = 1 THEN half - (inner + 1) \div 2 ELSE half + inner \div 2) % 128
      strip == IF apv \in Reversed THEN 127 - local ELSE local
  IN  IF apv = Special THEN strip - 16 + TIME_SAMPLE_SIZE * (apv - 1)
                       ELSE strip + TIME_SAMPLE_SIZE * apv

(* AddStripHit: the outermost strips of an X plane are not connected. *)
StripHits(readout) ==
  {h \in {[strip |-> MapStrip(r.apv, r.ch), charge |-> r.charge, ct |-> r.cross_talk,
           side |-> r.apv = Special, ch |-> r.ch] : r \in readout} : h.strip \in 16 .. 1391}

Before(g, h) == \/ g.strip < h.strip
                \/ g.strip = h.strip /\ g.side /\ ~h.side
                \/ g.strip = h.strip /\ g.side = h.side /\ g.ch < h.ch
Ordered(hits) == [k \in 1 .. Cardinality(hits) |->
                    CHOOSE h \in hits : Cardinality({g \in hits : Before(g, h)}) = k - 1]

(* groupHits, on hits in the order of their strips: runs of consecutive     *)
(* strips up to the first strip that both sides read.  The run open there   *)
(* goes to both sides with half of its charge, every later hit to its own   *)
(* side, and each side is grouped again.                                    *)
Extend(runs, h) ==
  IF runs # <<>> /\ h.strip - Last(Last(runs)).strip <= 1
  THEN Append(Front(runs), Append(Last(runs), h)) ELSE Append(runs, <<h>>)

Runs(hits) == FoldLeft(Extend, <<>>, hits)

Halved(hits) == [k \in DOMAIN hits |-> [hits[k] EXCEPT !.charge = @ \div 2]]

RECURSIVE GroupHits(_)
GroupHits(hits) ==
  LET dups == {k \in 1 .. Len(hits) - 1 : hits[k].strip = hits[k + 1].strip}
      stop == CHOOSE k \in dups : \A l \in dups : k <= l
      runs == Runs(SubSeq(hits, 1, stop))
      Side(s) == Halved(Front(Last(runs)))
                 \o SelectSeq(SubSeq(hits, stop, Len(hits)), LAMBDA h : h.side = s)
  IN  IF dups = {} THEN Runs(hits)
      ELSE Front(runs) \o GroupHits(Side(TRUE)) \o GroupHits(Side(FALSE))

-----------------------------------------------------------------------------
\* Mutant of Valley: only a strip below both of its neighbours is a valley.
ValleyNarrow(c) ==
  LET low == {k \in 2 .. Len(c) - 1 : c[k + 1].charge - c[k].charge > SplitDiff
                                       /\ c[k - 1].charge - c[k].charge > SplitDiff}
  IN  IF low = {} THEN 0 ELSE CHOOSE k \in low : \A l \in low : k <= l

(* splitCluster_sub: the smallest strip between the first fall and the      *)
(* first rise after it, both by more than SplitDiff; where to split, or 0.  *)
Valley(c) ==
  LET falls == {k \in 1 .. Len(c) - 1 : c[k].charge - c[k + 1].charge > SplitDiff}
      fall  == CHOOSE k \in falls : \A l \in falls : k <= l
      rises == {k \in 2 .. Len(c) - 1 : /\ \E l \in falls : l < k
                                        /\ c[k + 1].charge - c[k].charge > SplitDiff}
      rise  == CHOOSE k \in rises : \A l \in rises : k <= l
  IN  IF rises = {} THEN 0
      ELSE CHOOSE k \in fall + 1 .. rise :
             /\ \A l \in fall + 1 .. rise : c[k].charge <= c[l].charge
             /\ \A l \in fall + 1 .. k - 1 : c[k].charge < c[l].charge

(* The valley's strip belongs to both parts, with half of its charge. *)
SplitAt(cs, k, v) ==
  LET c == [cs[k] EXCEPT ![v].charge = @ \div 2]
  IN  SubSeq(cs, 1, k - 1) \o <<SubSeq(c, 1, v), SubSeq(c, v, Len(c))>>
      \o SubSeq(cs, k + 1, Len(cs))

-----------------------------------------------------------------------------
(* reconstructCluster and filterCluster. *)

TotalCharge(c) == SumOf([k \in DOMAIN c |-> c[k].charge])
Position(c) == (10 * SumOf([k \in DOMAIN c |-> c[k].strip * c[k].charge])) \div TotalCharge(c)

IsCrossTalk(c) == \A k \in DOMAIN c : c[k].ct

Distant(c, d) ==
  LET x == Position(c)  y == Position(d)
      delta == IF x < y THEN y - x ELSE x - y
  IN  \E dist \in CharacDistances : delta > dist - CrossTalkWidth /\ delta < dist + CrossTalkWidth

FilterCrossTalk(c, cs) == IsCrossTalk(c) /\ \E k \in DOMAIN cs : Distant(c, cs[k])

GoodSize(c) == Len(c) >= MinHits /\ Len(c) <= MaxHits

-----------------------------------------------------------------------------
Init == pc = "Idle" /\ strip_hits = <<>> /\ clusters = <<>> /\ i = 0

CollectHits ==
  /\ pc = "Idle"
  /\ \E r \in IF clusters = <<>> THEN Readouts ELSE LaterReadouts : strip_hits' = Ordered(StripHits(r))
  /\ pc' = "Group"
  /\ UNCHANGED <<clusters, i>>

FormGroups ==
  /\ pc = "Group"
  /\ clusters' = GroupHits(strip_hits)
  /\ pc' = "Split" /\ i' = 1
  /\ UNCHANGED strip_hits

(* splitCluster: a part cut off is looked at next. *)
SplitClusters ==
  /\ pc = "Split"
  /\ IF i <= Len(clusters)
     THEN LET v == Valley(clusters[i])
          IN  /\ clusters' = IF Len(clusters[i]) >= 3 /\ v > 0 THEN SplitAt(clusters, i, v) ELSE clusters
              /\ i' = i + 1 /\ UNCHANGED pc
     ELSE /\ pc' = "Filter" /\ i' = 1
          /\ clusters' = SelectSeq(clusters, GoodSize)
  /\ UNCHANGED strip_hits

(* One turn of the loop that erases cross talk: those left are compared     *)
(* with those left.                                                         *)
FilterOne(cs, k) ==
  IF FilterCrossTalk(cs[k], cs) THEN <<RemoveAt(cs, k), k>> ELSE <<cs, k + 1>>

FilterClusters ==
  /\ pc = "Filter"
  /\ IF i <= Len(clusters)
     THEN clusters' = FilterOne(clusters, i)[1] /\ i' = FilterOne(clusters, i)[2] /\ UNCHANGED pc
     ELSE pc' = "Done" /\ i' = 0 /\ UNCHANGED clusters
  /\ UNCHANGED strip_hits

(* Reset: the hits go, the clusters stay until others are formed. *)
Reset ==
  /\ pc = "Done"
  /\ pc' = "Idle" /\ strip_hits' = <<>>
  /\ UNCHANGED <<clusters, i>>

Next == CollectHits \/ FormGroups \/ SplitClusters \/ FilterClusters \/ Reset

Spec == Init /\ [][Next]_vars

-----------------------------------------------------------------------------
(* No side of the plane reads a strip twice.  GroupHits sends the hits of a *)
(* strip to different sides, and with two on one side it would call itself  *)
(* with the same hits for ever.                                             *)
SidesApart ==
  \A j, k \in DOMAIN strip_hits :
    j # k => <<strip_hits[j].strip, strip_hits[j].side>> # <<strip_hits[k].strip, strip_hits[k].side>>

(* Groups and splits give out all of the charge of the plane, and no more:  *)
(* a strip in several clusters was halved as often as it was repeated.      *)
ChargeKept ==
  pc = "Split" => SumOf([k \in DOMAIN clusters |-> TotalCharge(clusters[k])]) = TotalCharge(strip_hits)

(* A cluster that is done with is a run of consecutive strips, and its      *)
(* charge never rises by more than SplitDiff after it has fallen by more    *)
(* than that: the parts of a split are themselves looked at, once each.     *)
NoValleyLeft ==
  pc = "Split" =>
    \A n \in 1 .. i - 1 :
      LET c == clusters[n]
      IN  /\ \A k \in 1 .. Len(c) - 1 : c[k + 1].strip = c[k].strip + 1
          /\ ~\E j, k \in 1 .. Len(c) - 1 : /\ j < k
                                          /\ c[j].charge - c[j + 1].charge > SplitDiff
                                          /\ c[k + 1].charge - c[k].charge > SplitDiff

(* The clusters kept have a good size, and none of only cross-talk strips   *)
(* has another one of them at a characteristic distance; the list shrinks   *)
(* while it is scanned and compared with itself.                            *)
CrossTalkGone ==
  pc = "Done" => \A k \in DOMAIN clusters : GoodSize(clusters[k]) /\ ~FilterCrossTalk(clusters[k], clusters)
=============================================================================
