------------------------------ MODULE DetMatch ------------------------------
(* PRadDetMatch: for each HyCal hit the closest hit of either GEM, and of   *)
(* the two the closer one unless they are the same particle, seen where the *)
(* GEMs overlap.  Hits have been projected to one plane and lie on a line.  *)
EXTENDS Integers, Sequences, SequencesExt

CONSTANTS HyCalHits, GEMHits,  \* sequences of hits that an event may have
          MatchRange,   \* by part of HyCal: Match_Factor times resolution
          Overlap,      \* GEM_Overlap_Factor times GEM_Resolution
          Far           \* initial distance of the search, 1e3

VARIABLES hycal, gem1, gem2,   \* the hits; those of HyCal with their flags
          n, matches           \* the loop's position; MatchedIndex records

match_vars == <<hycal, gem1, gem2, n, matches>>

(* Hits of HyCal have no match yet.  The range is below the initial distance *)
(* of the search, so that whatever is in range can be the closest.          *)
MatchConstants ==
  /\ HyCalHits \subseteq Seq([x : Int, part : DOMAIN MatchRange, flag : {{}}])
  /\ GEMHits \subseteq Seq([x : Int])
  /\ \A p \in DOMAIN MatchRange : MatchRange[p] \in Int /\ MatchRange[p] < Far
  /\ Far \in Int /\ Overlap \in Nat

None == 0     \* no index; those of the code start at 0 and none is -1

ProjectionDistance(a, b) == IF a.x < b.x THEN b.x - a.x ELSE a.x - b.x

(* PreMatch *)
Candidates(h, gem) == {j \in DOMAIN gem : ProjectionDistance(h, gem[j]) <= MatchRange[h.part]}

(* The first of the candidates that no other is closer than. *)
Closest(h, gem) ==
  LET near == {j \in Candidates(h, gem) : ProjectionDistance(h, gem[j]) < Far}
      best == {j \in near : \A k \in near : ProjectionDistance(h, gem[j]) <= ProjectionDistance(h, gem[k])}
  IN  IF near = {} THEN None ELSE CHOOSE j \in best : \A k \in best : j <= k

\* Mutant of PostMatch: whether the two overlap is not asked.
PostMatchBoth(h, g1, g2) ==
  [gem1 |-> Closest(h, g1), gem2 |-> Closest(h, g2)]

(* PostMatch *)
PostMatch(h, g1, g2) ==
  LET j == Closest(h, g1)  k == Closest(h, g2)
      apart == j # None /\ k # None /\ ProjectionDistance(g1[j], g2[k]) > Overlap
      closer2 == apart /\ ProjectionDistance(g2[k], h) < ProjectionDistance(g1[j], h)
  IN  [gem1 |-> IF closer2 THEN None ELSE j,
       gem2 |-> IF apart /\ ~closer2 THEN None ELSE k]

-----------------------------------------------------------------------------
MatchInit == hycal = <<>> /\ gem1 = <<>> /\ gem2 = <<>> /\ n = 0 /\ matches = <<>>

Call ==
  /\ n = 0
  /\ hycal' \in HyCalHits /\ gem1' \in GEMHits /\ gem2' \in GEMHits
  /\ n' = 1 /\ matches' = <<>>

(* One turn of the loop over HyCal hits. *)
Match ==
  /\ n \in 1 .. Len(hycal)
  /\ LET h == hycal[n]  m == PostMatch(h, gem1, gem2)
     IN  IF Candidates(h, gem1) = {} /\ Candidates(h, gem2) = {}
         THEN UNCHANGED <<hycal, matches>>
         ELSE /\ matches' = Append(matches, [hycal |-> n, gem1 |-> m.gem1, gem2 |-> m.gem2])
              /\ hycal' = [hycal EXCEPT ![n].flag = {g \in {1, 2} : IF g = 1 THEN m.gem1 # None
                                                                            ELSE m.gem2 # None}]
  /\ n' = n + 1
  /\ UNCHANGED <<gem1, gem2>>

Return ==
  /\ n = Len(hycal) + 1 /\ n > 0
  /\ n' = 0 /\ hycal' = <<>> /\ gem1' = <<>> /\ gem2' = <<>> /\ matches' = <<>>

MatchNext == Call \/ Match \/ Return

MatchSpec == MatchInit /\ [][MatchNext]_match_vars

-----------------------------------------------------------------------------
(* A HyCal hit is matched, once, exactly when a GEM hit is in its range; no *)
(* GEM hit at all is closer to it than the closest kept, both are kept only *)
(* when they overlap, and the flags tell which are kept.                    *)
MatchIsClosest ==
  LET Kept(m) == {<<gem1[j], 1>> : j \in {m.gem1} \ {None}} \cup {<<gem2[k], 2>> : k \in {m.gem2} \ {None}}
      All     == {<<g, 1>> : g \in ToSet(gem1)} \cup {<<g, 2>> : g \in ToSet(gem2)}
      InReach(h) == \E p \in All : ProjectionDistance(h, p[1]) <= MatchRange[h.part]
  IN  /\ {matches[r].hycal : r \in DOMAIN matches} = {k \in 1 .. n - 1 : InReach(hycal[k])}
      /\ IsInjective([r \in DOMAIN matches |-> matches[r].hycal])
      /\ \A r \in DOMAIN matches :
           LET m == matches[r]  h == hycal[m.hycal]  K == Kept(m)
           IN  /\ \E p \in K : \A q \in All : ProjectionDistance(h, p[1]) <= ProjectionDistance(h, q[1])
               /\ \A p, q \in K : ProjectionDistance(p[1], q[1]) <= Overlap
               /\ h.flag = {p[2] : p \in K}
=============================================================================
