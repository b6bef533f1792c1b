-------------------------- MODULE GEMWiringProofs --------------------------
(* The two sides of every association of the GEM detectors agree and none  *)
(* of them leads to a deleted object, for any objects, capacities and      *)
(* orders of calls.                                                        *)
EXTENDS GEMWiring, TLAPS

Roots == {"daq", "det"}

MemberOf(h) == CASE h = "daq" -> FECs
                 [] h = "det" -> Dets
                 [] h \in FECs \cup Planes -> APVs
                 [] h \in Dets -> Planes

IsWiring(w) ==
  /\ w = [slot |-> w.slot, home |-> w.home, alive |-> w.alive, list |-> w.list]
  /\ w.slot = [h \in Holders |-> w.slot[h]]
  /\ w.home = [k \in Kinds |-> w.home[k]]
  /\ \A k \in Kinds : w.home[k] = [o \in Objects |-> w.home[k][o]]
  /\ w.list = [h \in Roots |-> w.list[h]]
  /\ w.alive \subseteq Objects

(* The functions that take an object down are called with some places X    *)
(* still pointing to what has already forgotten them.                      *)
RightMembers(w) ==
  \A h \in Holders : \A i \in DOMAIN w.slot[h] : w.slot[h][i] \in MemberOf(h) \cup {null}

MembersKnow(w, X) ==
  \A h \in Holders : \A i \in DOMAIN w.slot[h] : w.slot[h][i] # null /\ <<h, i>> \notin X =>
    w.slot[h][i] \in w.alive /\ w.home[KindOf(h)][w.slot[h][i]] = <<h, i>>

Holds(w, k, o, p) ==
  /\ p = <<p[1], p[2]>> /\ p[1] \in Holders /\ KindOf(p[1]) = k
  /\ p[2] \in DOMAIN w.slot[p[1]] /\ w.slot[p[1]][p[2]] = o

HoldersKnow(w, X) ==
  \A k \in Kinds, o \in Objects : w.home[k][o] # NoHome =>
    /\ w.home[k][o] \notin X /\ Holds(w, k, o, w.home[k][o])

(* What does not exist holds nothing; R is the system, or nothing. *)
DeadHoldNothing(w, R) == \A h \in Holders \ (w.alive \cup R) : DOMAIN w.slot[h] = {}

Listed(w) == \A h \in Roots : w.list[h] \subseteq Members(w, h)

Wired(w, X, R) == /\ IsWiring(w) /\ RightMembers(w) /\ MembersKnow(w, X)
                  /\ HoldersKnow(w, X) /\ DeadHoldNothing(w, R) /\ Listed(w)

-----------------------------------------------------------------------------
(* What the functions on the links change.                                 *)

LEMMA EmptiedIs ==
  ASSUME NEW w, IsWiring(w), NEW L
  PROVE  /\ IsWiring(Emptied(w, L))
         /\ Emptied(w, L).home = w.home /\ Emptied(w, L).alive = w.alive
         /\ \A h \in Holders :
              /\ DOMAIN Emptied(w, L).slot[h] = DOMAIN w.slot[h]
              /\ \A i \in DOMAIN w.slot[h] : Emptied(w, L).slot[h][i] =
                    IF <<h, i>> \in L THEN null ELSE w.slot[h][i]
         /\ \A h \in Roots : Emptied(w, L).list[h] =
              IF \E i \in DOMAIN w.slot[h] : <<h, i>> \in L
              THEN Members(Emptied(w, L), h) ELSE w.list[h]
<1> DEFINE s == [h \in Holders |-> [i \in DOMAIN w.slot[h] |->
                   IF <<h, i>> \in L THEN null ELSE w.slot[h][i]]]
           u == [w EXCEPT !.slot = s]
           l == [h \in {"daq", "det"} |->
                  IF \E i \in DOMAIN w.slot[h] : <<h, i>> \in L THEN Members(u, h) ELSE w.list[h]]
           v == [u EXCEPT !.list = l]
<1>1. Emptied(w, L) = v
  BY DEF Emptied
<1>2. /\ s = [h \in Holders |-> s[h]]
      /\ \A h \in Holders : /\ DOMAIN s[h] = DOMAIN w.slot[h]
                            /\ \A i \in DOMAIN w.slot[h] : s[h][i] = IF <<h, i>> \in L THEN null ELSE w.slot[h][i]
  OBVIOUS
<1> HIDE DEF s
<1>3. u = [slot |-> s, home |-> w.home, alive |-> w.alive, list |-> w.list]
  BY DEF IsWiring
<1>4. \A h : Members(u, h) = {s[h][i] : i \in DOMAIN s[h]} \ {null}
  BY <1>3 DEF Members
<1> HIDE DEF u
<1>5. l = [h \in Roots |-> l[h]]
      /\ \A h \in Roots : l[h] = IF \E i \in DOMAIN w.slot[h] : <<h, i>> \in L
                                 THEN Members(u, h) ELSE w.list[h]
  BY DEF Roots
<1> HIDE DEF l
<1>6. v = [slot |-> s, home |-> w.home, alive |-> w.alive, list |-> l]
  BY <1>3
<1>7. \A h : Members(v, h) = Members(u, h)
  BY <1>4, <1>6 DEF Members
<1> HIDE DEF v
<1>8. IsWiring(v)
  BY <1>2, <1>5, <1>6 DEF IsWiring
<1>9. v.home = w.home /\ v.alive = w.alive
  BY <1>6
<1>10. \A h \in Holders :
         /\ DOMAIN v.slot[h] = DOMAIN w.slot[h]
         /\ \A i \in DOMAIN w.slot[h] : v.slot[h][i] = IF <<h, i>> \in L THEN null ELSE w.slot[h][i]
  BY <1>2, <1>6
<1>11. \A h \in Roots : v.list[h] =
         IF \E i \in DOMAIN w.slot[h] : <<h, i>> \in L THEN Members(v, h) ELSE w.list[h]
  BY <1>5, <1>6, <1>7
<1> QED
  BY <1>1, <1>8, <1>9, <1>10, <1>11

LEMMA ForgottenIs ==
  ASSUME NEW w, IsWiring(w), NEW k \in Kinds, NEW S
  PROVE  /\ IsWiring(Forgotten(w, k, S))
         /\ Forgotten(w, k, S).slot = w.slot /\ Forgotten(w, k, S).alive = w.alive
         /\ Forgotten(w, k, S).list = w.list
         /\ \A j \in Kinds, o \in Objects : Forgotten(w, k, S).home[j][o] =
              IF j = k /\ o \in S THEN NoHome ELSE w.home[j][o]
<1> DEFINE f == [o \in Objects |-> IF o \in S THEN NoHome ELSE w.home[k][o]]
           g == [w.home EXCEPT ![k] = f]
           u == Forgotten(w, k, S)
<1>1. u = [slot |-> w.slot, home |-> g, alive |-> w.alive, list |-> w.list]
  BY DEF Forgotten, IsWiring
<1>2. f = [o \in Objects |-> f[o]] /\ \A o \in Objects : f[o] = IF o \in S THEN NoHome ELSE w.home[k][o]
  OBVIOUS
<1> HIDE DEF f
<1>3. g = [j \in Kinds |-> g[j]] /\ \A j \in Kinds : g[j] = IF j = k THEN f ELSE w.home[j]
  BY DEF IsWiring
<1> HIDE DEF g, u
<1>4. \A j \in Kinds : g[j] = [o \in Objects |-> g[j][o]]
  BY <1>2, <1>3 DEF IsWiring
<1>5. IsWiring(u)
  BY <1>1, <1>3, <1>4 DEF IsWiring
<1>6. \A j \in Kinds, o \in Objects : g[j][o] = IF j = k /\ o \in S THEN NoHome ELSE w.home[j][o]
  BY <1>2, <1>3
<1> QED
  BY <1>1, <1>5, <1>6 DEF u

LEMMA WithoutIs ==
  ASSUME NEW w, IsWiring(w), NEW S
  PROVE  /\ IsWiring(Without(w, S))
         /\ Without(w, S).home = w.home /\ Without(w, S).list = w.list
         /\ Without(w, S).alive = w.alive \ S
         /\ \A h \in Holders : IF h \in S THEN DOMAIN Without(w, S).slot[h] = {}
                                          ELSE Without(w, S).slot[h] = w.slot[h]
<1> DEFINE s == [h \in Holders |-> IF h \in S THEN Vacant({}) ELSE w.slot[h]]
           u == Without(w, S)
           v == [w EXCEPT !.alive = w.alive \ S]
<1>0. u = [v EXCEPT !.slot = s]
  BY DEF Without
<1> HIDE DEF s, u
<1>1. u = [slot |-> s, home |-> w.home, alive |-> w.alive \ S, list |-> w.list]
  BY <1>0 DEF IsWiring
<1>2. s = [h \in Holders |-> s[h]]
      /\ \A h \in Holders : IF h \in S THEN DOMAIN s[h] = {} ELSE s[h] = w.slot[h]
  BY DEF Vacant, s
<1>3. IsWiring(u)
  BY <1>1, <1>2 DEF IsWiring
<1> QED
  BY <1>1, <1>2, <1>3 DEF u

LEMMA MemberIsObject ==
  ASSUME DistinctObjects, NEW h \in Holders
  PROVE  MemberOf(h) \subseteq Objects /\ null \notin MemberOf(h) /\ KindOf(h) \in Kinds
BY SMTT(30) DEF DistinctObjects, MemberOf, Holders, Objects, KindOf, Kinds

LEMMA PlaceIsNotNoHome == \A h, i : <<h, i>> # NoHome
BY DEF NoHome

-----------------------------------------------------------------------------
(* Members that forget their holder leave places Y that still point to     *)
(* them.                                                                   *)
LEMMA ForgetWired ==
  ASSUME DistinctObjects, NEW w, NEW X, NEW R, Wired(w, X, R),
         NEW k \in Kinds, NEW S, NEW Y,
         \A o \in S \cap Objects : w.home[k][o] \in Y \cup {NoHome},
         \A h \in Holders : \A i \in DOMAIN w.slot[h] : <<h, i>> \in Y /\ w.slot[h][i] # null =>
            KindOf(h) = k /\ w.slot[h][i] \in S
  PROVE  Wired(Forgotten(w, k, S), X \cup Y, R)
<1> DEFINE u == Forgotten(w, k, S)
<1>1. /\ IsWiring(u) /\ u.slot = w.slot /\ u.alive = w.alive /\ u.list = w.list
      /\ \A j \in Kinds, o \in Objects : u.home[j][o] =
           IF j = k /\ o \in S THEN NoHome ELSE w.home[j][o]
  BY ForgottenIs DEF Wired
<1> HIDE DEF u
<1>2. RightMembers(u) /\ DeadHoldNothing(u, R) /\ Listed(u)
  BY <1>1 DEF Wired, RightMembers, DeadHoldNothing, Listed, Members
<1>3. MembersKnow(u, X \cup Y)
  <2> SUFFICES ASSUME NEW h \in Holders, NEW i \in DOMAIN w.slot[h], w.slot[h][i] # null,
                      <<h, i>> \notin X, <<h, i>> \notin Y
               PROVE  w.slot[h][i] \in w.alive /\ u.home[KindOf(h)][w.slot[h][i]] = <<h, i>>
    BY <1>1 DEF MembersKnow
  <2>1. w.slot[h][i] \in w.alive /\ w.home[KindOf(h)][w.slot[h][i]] = <<h, i>>
    BY DEF Wired, MembersKnow
  <2>2. w.slot[h][i] \in Objects /\ KindOf(h) \in Kinds
    BY MemberIsObject DEF Wired, RightMembers
  <2> QED
    BY <1>1, <2>1, <2>2, PlaceIsNotNoHome
<1>4. HoldersKnow(u, X \cup Y)
  <2> SUFFICES ASSUME NEW j \in Kinds, NEW o \in Objects, u.home[j][o] # NoHome
               PROVE  u.home[j][o] \notin X \cup Y /\ Holds(u, j, o, u.home[j][o])
    BY DEF HoldersKnow
  <2>1. u.home[j][o] = w.home[j][o] /\ ~(j = k /\ o \in S)
    BY <1>1
  <2> DEFINE p == w.home[j][o]
  <2>2. p \notin X /\ Holds(w, j, o, p)
    BY <2>1 DEF Wired, HoldersKnow
  <2> HIDE DEF p
  <2>3. p \notin Y
    BY <2>1, <2>2 DEF Holds, DistinctObjects
  <2>4. Holds(u, j, o, p)
    BY <1>1, <2>2 DEF Holds
  <2> QED
    BY <2>1, <2>2, <2>3, <2>4 DEF p
<1> QED
  BY <1>1, <1>2, <1>3, <1>4 DEF Wired, u

(* The places Y are freed after their members have forgotten them.         *)
LEMMA EmptyWired ==
  ASSUME NEW w, NEW X, NEW R, Wired(w, X, R), NEW Y, Y \subseteq X
  PROVE  Wired(Emptied(w, Y), X \ Y, R)
<1> DEFINE u == Emptied(w, Y)
<1>1. /\ IsWiring(u) /\ u.home = w.home /\ u.alive = w.alive
      /\ \A h \in Holders :
           /\ DOMAIN u.slot[h] = DOMAIN w.slot[h]
           /\ \A i \in DOMAIN w.slot[h] : u.slot[h][i] = IF <<h, i>> \in Y THEN null ELSE w.slot[h][i]
      /\ \A h \in Roots : u.list[h] = IF \E i \in DOMAIN w.slot[h] : <<h, i>> \in Y
                                      THEN Members(u, h) ELSE w.list[h]
  BY EmptiedIs DEF Wired
<1> HIDE DEF u
<1>2. RightMembers(u) /\ DeadHoldNothing(u, R)
  BY <1>1 DEF Wired, RightMembers, DeadHoldNothing
<1>3. MembersKnow(u, X \ Y)
  BY <1>1 DEF Wired, MembersKnow
<1>4. HoldersKnow(u, X \ Y)
  <2> SUFFICES ASSUME NEW j \in Kinds, NEW o \in Objects, w.home[j][o] # NoHome
               PROVE  w.home[j][o] \notin X \ Y /\ Holds(u, j, o, w.home[j][o])
    BY <1>1 DEF HoldersKnow
  <2> DEFINE p == w.home[j][o]
  <2>1. p \notin X /\ Holds(w, j, o, p)
    BY DEF Wired, HoldersKnow
  <2> HIDE DEF p
  <2>2. Holds(u, j, o, p)
    BY <1>1, <2>1 DEF Holds
  <2> QED
    BY <2>1, <2>2 DEF p
<1>5. Listed(u)
  <2> SUFFICES ASSUME NEW h \in Roots, ~\E i \in DOMAIN w.slot[h] : <<h, i>> \in Y
               PROVE  u.list[h] \subseteq Members(u, h)
    BY <1>1 DEF Listed
  <2>1. h \in Holders
    BY DEF Roots, Holders
  <2>2. Members(u, h) = Members(w, h)
    BY <1>1, <2>1 DEF Members
  <2> QED
    BY <1>1, <2>2 DEF Wired, Listed
<1> QED
  BY <1>1, <1>2, <1>3, <1>4, <1>5 DEF Wired, u

(* A disconnection from both sides.                                        *)
LEMMA DisconnectWired ==
  ASSUME DistinctObjects, NEW w, NEW X, NEW R, Wired(w, X, R),
         NEW k \in Kinds, NEW S, NEW Y,
         \A o \in S \cap Objects : w.home[k][o] \in Y \cup {NoHome},
         \A h \in Holders : \A i \in DOMAIN w.slot[h] : <<h, i>> \in Y /\ w.slot[h][i] # null =>
            KindOf(h) = k /\ w.slot[h][i] \in S
  PROVE  Wired(Forgotten(Emptied(w, Y), k, S), X, R)
<1> DEFINE e == Emptied(w, Y)
           u == Forgotten(e, k, S)
<1>1. /\ IsWiring(e) /\ e.home = w.home /\ e.alive = w.alive
      /\ \A h \in Holders :
           /\ DOMAIN e.slot[h] = DOMAIN w.slot[h]
           /\ \A i \in DOMAIN w.slot[h] : e.slot[h][i] = IF <<h, i>> \in Y THEN null ELSE w.slot[h][i]
      /\ \A h \in Roots : e.list[h] = IF \E i \in DOMAIN w.slot[h] : <<h, i>> \in Y
                                      THEN Members(e, h) ELSE w.list[h]
  BY EmptiedIs DEF Wired
<1> HIDE DEF e
<1>2. /\ IsWiring(u) /\ u.slot = e.slot /\ u.alive = w.alive /\ u.list = e.list
      /\ \A j \in Kinds, o \in Objects : u.home[j][o] =
           IF j = k /\ o \in S THEN NoHome ELSE w.home[j][o]
  BY <1>1, ForgottenIs
<1> HIDE DEF u
<1>3. RightMembers(u) /\ DeadHoldNothing(u, R)
  <2>1. RightMembers(u)
    <3> SUFFICES ASSUME NEW h \in Holders, NEW i \in DOMAIN w.slot[h]
                 PROVE  e.slot[h][i] \in MemberOf(h) \cup {null}
      BY <1>1, <1>2 DEF RightMembers
    <3>1. w.slot[h][i] \in MemberOf(h) \cup {null}
      BY DEF Wired, RightMembers
    <3> QED
      BY <1>1, <3>1
  <2>2. DeadHoldNothing(u, R)
    BY <1>1, <1>2 DEF Wired, DeadHoldNothing
  <2> QED
    BY <2>1, <2>2
<1>4. MembersKnow(u, X)
  <2> SUFFICES ASSUME NEW h \in Holders, NEW i \in DOMAIN w.slot[h], e.slot[h][i] # null,
                      <<h, i>> \notin X
               PROVE  e.slot[h][i] \in w.alive /\ u.home[KindOf(h)][e.slot[h][i]] = <<h, i>>
    BY <1>1, <1>2 DEF MembersKnow
  <2>0. e.slot[h][i] = w.slot[h][i] /\ <<h, i>> \notin Y
    BY <1>1
  <2>1. w.slot[h][i] \in w.alive /\ w.home[KindOf(h)][w.slot[h][i]] = <<h, i>>
    BY <2>0 DEF Wired, MembersKnow
  <2>2. w.slot[h][i] \in Objects /\ KindOf(h) \in Kinds
    BY <2>0, MemberIsObject DEF Wired, RightMembers
  <2> QED
    BY <1>2, <2>0, <2>1, <2>2, PlaceIsNotNoHome
<1>5. HoldersKnow(u, X)
  <2> SUFFICES ASSUME NEW j \in Kinds, NEW o \in Objects, u.home[j][o] # NoHome
               PROVE  u.home[j][o] \notin X /\ Holds(u, j, o, u.home[j][o])
    BY DEF HoldersKnow
  <2>1. u.home[j][o] = w.home[j][o] /\ ~(j = k /\ o \in S)
    BY <1>2
  <2> DEFINE p == w.home[j][o]
  <2>2. p \notin X /\ Holds(w, j, o, p)
    BY <2>1 DEF Wired, HoldersKnow
  <2> HIDE DEF p
  <2>3. p \notin Y
    BY <2>1, <2>2 DEF Holds, DistinctObjects
  <2>4. Holds(u, j, o, p)
    BY <1>1, <1>2, <2>2, <2>3 DEF Holds
  <2> QED
    BY <2>1, <2>2, <2>4 DEF p
<1>6. Listed(u)
  <2> SUFFICES ASSUME NEW h \in Roots PROVE e.list[h] \subseteq Members(e, h)
    BY <1>2 DEF Listed, Members
  <2>1. h \in Holders
    BY DEF Roots, Holders
  <2>2. CASE \E i \in DOMAIN w.slot[h] : <<h, i>> \in Y
    BY <1>1, <2>2
  <2>3. CASE ~\E i \in DOMAIN w.slot[h] : <<h, i>> \in Y
    <3>1. Members(e, h) = Members(w, h)
      BY <1>1, <2>1, <2>3 DEF Members
    <3> QED
      BY <1>1, <2>3, <3>1 DEF Wired, Listed
  <2> QED
    BY <2>2, <2>3
<1> QED
  BY <1>2, <1>3, <1>4, <1>5, <1>6 DEF Wired, u, e

(* Unset...: what it leaves alone.                                         *)
LEMMA UnsetWired ==
  ASSUME DistinctObjects, NEW w, NEW X, NEW R, Wired(w, X, R),
         NEW k \in Kinds, NEW S, S \subseteq Objects
  PROVE  /\ Wired(Unset(w, k, S), X, R)
         /\ Unset(w, k, S).alive = w.alive
         /\ \A j \in Kinds, o \in Objects : Unset(w, k, S).home[j][o] =
              IF j = k /\ o \in S THEN NoHome ELSE w.home[j][o]
         /\ \A h \in Holders :
              /\ DOMAIN Unset(w, k, S).slot[h] = DOMAIN w.slot[h]
              /\ \A i \in DOMAIN w.slot[h] : Unset(w, k, S).slot[h][i] \in {null, w.slot[h][i]}
<1> DEFINE Y == {w.home[k][o] : o \in S}
<1>1. \A o \in S : w.home[k][o] \in Y
  OBVIOUS
<1>2. \A h, i : <<h, i>> \in Y => \E o \in S : w.home[k][o] = <<h, i>>
  OBVIOUS
<1> DEFINE e == Emptied(w, Y)
           u == Forgotten(e, k, S)
<1>3. Unset(w, k, S) = u
  BY DEF Unset
<1> HIDE DEF Y
<1>4. /\ IsWiring(e) /\ e.home = w.home /\ e.alive = w.alive
      /\ \A h \in Holders :
           /\ DOMAIN e.slot[h] = DOMAIN w.slot[h]
           /\ \A i \in DOMAIN w.slot[h] : e.slot[h][i] = IF <<h, i>> \in Y THEN null ELSE w.slot[h][i]
  BY EmptiedIs DEF Wired
<1>5. \A h \in Holders : \A i \in DOMAIN w.slot[h] : <<h, i>> \in Y /\ w.slot[h][i] # null =>
            KindOf(h) = k /\ w.slot[h][i] \in S
  <2> SUFFICES ASSUME NEW h \in Holders, NEW i \in DOMAIN w.slot[h], NEW o \in S,
                      w.home[k][o] = <<h, i>>
               PROVE  KindOf(h) = k /\ w.slot[h][i] = o
    BY <1>2
  <2>1. Holds(w, k, o, <<h, i>>)
    BY PlaceIsNotNoHome DEF Wired, HoldersKnow
  <2> QED
    BY <2>1 DEF Holds
<1>6. Wired(u, X, R)
  BY <1>1, <1>5, DisconnectWired
<1> HIDE DEF e
<1>7. /\ u.slot = e.slot /\ u.alive = w.alive
      /\ \A j \in Kinds, o \in Objects : u.home[j][o] =
           IF j = k /\ o \in S THEN NoHome ELSE w.home[j][o]
  BY <1>4, ForgottenIs
<1> HIDE DEF u
<1>8. \A h \in Holders :
        /\ DOMAIN u.slot[h] = DOMAIN w.slot[h]
        /\ \A i \in DOMAIN w.slot[h] : u.slot[h][i] \in {null, w.slot[h][i]}
  BY <1>4, <1>7
<1> QED
  BY <1>3, <1>6, <1>7, <1>8

-----------------------------------------------------------------------------
(* The destructors.                                                        *)

PlacesOf(w, S) == UNION {{<<h, i>> : i \in DOMAIN w.slot[h]} : h \in S}

LEMMA PlaceOf ==
  ASSUME NEW w, NEW S, NEW h, NEW i
  PROVE  <<h, i>> \in PlacesOf(w, S) <=> h \in S /\ i \in DOMAIN w.slot[h]
<1>1. ASSUME <<h, i>> \in PlacesOf(w, S)
      PROVE  h \in S /\ i \in DOMAIN w.slot[h]
  <2>1. PICK g \in S : <<h, i>> \in {<<g, j>> : j \in DOMAIN w.slot[g]}
    BY <1>1 DEF PlacesOf
  <2>2. PICK j \in DOMAIN w.slot[g] : <<h, i>> = <<g, j>>
    BY <2>1
  <2> QED
    BY <2>2
<1>2. ASSUME h \in S, i \in DOMAIN w.slot[h]
      PROVE  <<h, i>> \in PlacesOf(w, S)
  <2>1. <<h, i>> \in {<<h, j>> : j \in DOMAIN w.slot[h]}
    BY <1>2
  <2> QED
    BY <1>2, <2>1 DEF PlacesOf
<1> QED
  BY <1>1, <1>2

(* Only an APV is in a plane.                                              *)
LEMMA NotInPlane ==
  ASSUME DistinctObjects, NEW w, NEW X, NEW R, Wired(w, X, R), NEW o \in Objects \ APVs
  PROVE  w.home["plane"][o] = NoHome
<1> SUFFICES ASSUME w.home["plane"][o] # NoHome PROVE FALSE
  OBVIOUS
<1> DEFINE p == w.home["plane"][o]
<1>1. Holds(w, "plane", o, p)
  BY DEF Wired, HoldersKnow, Kinds
<1> HIDE DEF p
<1>2. p[1] \in Holders /\ p[2] \in DOMAIN w.slot[p[1]] /\ KindOf(p[1]) = "plane" /\ w.slot[p[1]][p[2]] = o
  BY <1>1 DEF Holds
<1>3. p[1] \in Planes
  BY <1>2 DEF KindOf
<1>4. w.slot[p[1]][p[2]] \in MemberOf(p[1]) \cup {null}
  BY <1>2 DEF Wired, RightMembers
<1>5. MemberOf(p[1]) = APVs
  BY <1>3 DEF MemberOf, DistinctObjects, Objects
<1> QED
  BY <1>2, <1>4, <1>5 DEF DistinctObjects

(* What has no holder and is forgotten by its members goes.                *)
LEMMA WithoutWired ==
  ASSUME DistinctObjects, NEW w, NEW X, NEW R, Wired(w, X, R), NEW S, S \subseteq Objects,
         \A k \in Kinds, o \in S : w.home[k][o] = NoHome,
         \A h \in Holders : \A i \in DOMAIN w.slot[h] : h \in S /\ w.slot[h][i] # null => <<h, i>> \in X,
         NEW Z, Z \subseteq X, \A h, i : h \notin S /\ <<h, i>> \in X => <<h, i>> \in Z
  PROVE  Wired(Without(w, S), Z, R)
<1> DEFINE u == Without(w, S)
<1>1. /\ IsWiring(u) /\ u.home = w.home /\ u.list = w.list /\ u.alive = w.alive \ S
      /\ \A h \in Holders : IF h \in S THEN DOMAIN u.slot[h] = {} ELSE u.slot[h] = w.slot[h]
  BY WithoutIs DEF Wired
<1> HIDE DEF u
<1>2. RightMembers(u) /\ DeadHoldNothing(u, R)
  <2>1. RightMembers(u)
    BY <1>1 DEF Wired, RightMembers
  <2>2. DeadHoldNothing(u, R)
    BY <1>1 DEF Wired, DeadHoldNothing
  <2> QED
    BY <2>1, <2>2
<1>3. MembersKnow(u, Z)
  <2> SUFFICES ASSUME NEW h \in Holders, NEW i \in DOMAIN u.slot[h], u.slot[h][i] # null,
                      <<h, i>> \notin Z
               PROVE  u.slot[h][i] \in u.alive /\ w.home[KindOf(h)][u.slot[h][i]] = <<h, i>>
    BY <1>1 DEF MembersKnow
  <2>1. h \notin S /\ u.slot[h] = w.slot[h] /\ <<h, i>> \notin X
    BY <1>1
  <2>2. w.slot[h][i] \in w.alive /\ w.home[KindOf(h)][w.slot[h][i]] = <<h, i>>
    BY <2>1 DEF Wired, MembersKnow
  <2>3. w.slot[h][i] \notin S
    BY <2>2, MemberIsObject, PlaceIsNotNoHome
  <2> QED
    BY <1>1, <2>1, <2>2, <2>3
<1>4. HoldersKnow(u, Z)
  <2> SUFFICES ASSUME NEW k \in Kinds, NEW o \in Objects, w.home[k][o] # NoHome
               PROVE  w.home[k][o] \notin Z /\ Holds(u, k, o, w.home[k][o])
    BY <1>1 DEF HoldersKnow
  <2> DEFINE p == w.home[k][o]
  <2>1. p \notin X /\ Holds(w, k, o, p)
    BY DEF Wired, HoldersKnow
  <2> HIDE DEF p
  <2>2. p[1] \notin S
    BY <2>1 DEF Holds, DistinctObjects
  <2>3. Holds(u, k, o, p)
    BY <1>1, <2>1, <2>2 DEF Holds
  <2> QED
    BY <2>1, <2>3 DEF p
<1>5. Listed(u)
  <2>1. \A h \in Roots : h \in Holders /\ h \notin S
    BY DEF Roots, Holders, DistinctObjects
  <2>2. \A h \in Roots : u.slot[h] = w.slot[h]
    BY <1>1, <2>1
  <2> QED
    BY <1>1, <2>2 DEF Wired, Listed, Members
<1> QED
  BY <1>1, <1>2, <1>3, <1>4, <1>5 DEF Wired, u

(* What a destructor of the objects S, which end with others D, does to    *)
(* the rest.                                                               *)
TakenDown(w, u, X, R, D) ==
  /\ Wired(u, X, R) /\ u.alive = w.alive \ D
  /\ \A o \in u.alive : u.home["owner"][o] = w.home["owner"][o]
  /\ \A h \in Holders : DOMAIN u.slot[h] \subseteq DOMAIN w.slot[h]

LEMMA DestroyAPVsWired ==
  ASSUME DistinctObjects, NEW w, NEW X, NEW R, Wired(w, X, R), NEW S, S \subseteq APVs
  PROVE  TakenDown(w, DestroyAPVs(w, S), X, R, S)
<1> DEFINE u == Unset(w, "owner", S)
           v == Unset(u, "plane", S)
           z == Without(v, S)
<1>1. S \subseteq Objects /\ "owner" \in Kinds /\ "plane" \in Kinds
  BY DEF Objects, Kinds
<1>2. /\ Wired(u, X, R) /\ u.alive = w.alive
      /\ \A j \in Kinds, o \in Objects : u.home[j][o] =
           IF j = "owner" /\ o \in S THEN NoHome ELSE w.home[j][o]
      /\ \A h \in Holders : DOMAIN u.slot[h] = DOMAIN w.slot[h]
  BY <1>1, UnsetWired
<1> HIDE DEF u
<1>3. /\ Wired(v, X, R) /\ v.alive = u.alive
      /\ \A j \in Kinds, o \in Objects : v.home[j][o] =
           IF j = "plane" /\ o \in S THEN NoHome ELSE u.home[j][o]
      /\ \A h \in Holders : DOMAIN v.slot[h] = DOMAIN u.slot[h]
  BY <1>1, <1>2, UnsetWired
<1> HIDE DEF v
<1>4. \A k \in Kinds, o \in S : v.home[k][o] = NoHome
  BY <1>1, <1>2, <1>3 DEF Kinds
<1>5. \A h \in Holders : h \notin S
  BY DEF Holders, DistinctObjects, Objects
<1>6. Wired(z, X, R)
  BY <1>1, <1>3, <1>4, <1>5, WithoutWired
<1>7. /\ z.home = v.home /\ z.alive = v.alive \ S
      /\ \A h \in Holders : z.slot[h] = v.slot[h]
  BY <1>3, <1>5, WithoutIs DEF Wired
<1> HIDE DEF z
<1>8. z.alive \subseteq Objects
  BY <1>6 DEF Wired, IsWiring
<1>9. \A o \in z.alive : z.home["owner"][o] = w.home["owner"][o]
  BY <1>1, <1>2, <1>3, <1>7, <1>8
<1>10. TakenDown(w, z, X, R, S)
  BY <1>2, <1>3, <1>6, <1>7, <1>9 DEF TakenDown
<1> QED
  BY <1>10 DEF DestroyAPVs, u, v, z

(* None of the places of S is among X. *)
Apart(w, S, X) == \A h \in S : \A i \in DOMAIN w.slot[h] : <<h, i>> \notin X

LetGo(w, u, X, R, k, S, A) ==
  /\ Wired(u, X \cup PlacesOf(w, S), R) /\ u.alive = w.alive
  /\ \A j \in Kinds, o \in Objects : u.home[j][o] =
       IF (j = "owner" /\ o \in S) \/ (j = k /\ o \in A) THEN NoHome ELSE w.home[j][o]
  /\ \A h \in Holders : DOMAIN u.slot[h] = DOMAIN w.slot[h]
  /\ A \subseteq w.alive

(* Holders S leave their own holder and are forgotten by what they hold.   *)
LEMMA LetGoWired ==
  ASSUME DistinctObjects, NEW w, NEW X, NEW R, Wired(w, X, R), NEW k \in Kinds,
         NEW S, S \subseteq Objects, S \subseteq Holders, \A h \in S : KindOf(h) = k,
         Apart(w, S, X),
         NEW A, \A a : a \in A <=> \E h \in S : a \in Members(w, h),
         NEW u, u = Forgotten(Unset(w, "owner", S), k, A)
  PROVE  LetGo(w, u, X, R, k, S, A)
<1> DEFINE v == Unset(w, "owner", S)
<1>1. "owner" \in Kinds
  BY DEF Kinds
<1>2. /\ Wired(v, X, R) /\ v.alive = w.alive
      /\ \A j \in Kinds, o \in Objects : v.home[j][o] =
           IF j = "owner" /\ o \in S THEN NoHome ELSE w.home[j][o]
      /\ \A h \in Holders : DOMAIN v.slot[h] = DOMAIN w.slot[h]
      /\ \A h \in Holders : \A i \in DOMAIN w.slot[h] : v.slot[h][i] \in {null, w.slot[h][i]}
  BY <1>1, UnsetWired
<1>3. u = Forgotten(v, k, A)
  OBVIOUS
<1> HIDE DEF v
<1>4. \A a : a \in A <=> \E h \in S : \E i \in DOMAIN w.slot[h] : a = w.slot[h][i] /\ a # null
  BY DEF Members
<1>5. \A a \in A : a \in w.alive /\ w.home[k][a] \in PlacesOf(w, S)
  <2> SUFFICES ASSUME NEW h \in S, NEW i \in DOMAIN w.slot[h], w.slot[h][i] # null
               PROVE  w.slot[h][i] \in w.alive /\ w.home[k][w.slot[h][i]] \in PlacesOf(w, S)
    BY <1>4
  <2>1. <<h, i>> \in PlacesOf(w, S)
    BY PlaceOf
  <2>2. KindOf(h) = k /\ h \in Holders /\ <<h, i>> \notin X
    BY DEF Apart
  <2>3. MembersKnow(w, X)
    BY DEF Wired
  <2>4. w.slot[h][i] \in w.alive /\ w.home[k][w.slot[h][i]] = <<h, i>>
    BY <2>2, <2>3 DEF MembersKnow
  <2> QED
    BY <2>1, <2>4
<1>6. \A o \in A \cap Objects : v.home[k][o] \in PlacesOf(w, S) \cup {NoHome}
  BY <1>2, <1>5
<1>7. \A h \in Holders : \A i \in DOMAIN v.slot[h] :
        <<h, i>> \in PlacesOf(w, S) /\ v.slot[h][i] # null => KindOf(h) = k /\ v.slot[h][i] \in A
  <2> SUFFICES ASSUME NEW h \in Holders, NEW i \in DOMAIN v.slot[h],
                      <<h, i>> \in PlacesOf(w, S), v.slot[h][i] # null
               PROVE  KindOf(h) = k /\ v.slot[h][i] \in A
    OBVIOUS
  <2>1. h \in S /\ i \in DOMAIN w.slot[h]
    BY PlaceOf
  <2>2. v.slot[h][i] = w.slot[h][i]
    BY <1>2, <2>1
  <2> QED
    BY <1>4, <2>1, <2>2
<1> DEFINE z == Forgotten(v, k, A)
<1>8. Wired(z, X \cup PlacesOf(w, S), R)
  BY <1>2, <1>6, <1>7, ForgetWired
<1>10. IsWiring(v)
  BY <1>2 DEF Wired
<1>11. /\ z.slot = v.slot /\ z.alive = v.alive
       /\ \A j \in Kinds, o \in Objects : z.home[j][o] = IF j = k /\ o \in A THEN NoHome ELSE v.home[j][o]
  BY <1>10, ForgottenIs
<1> HIDE DEF z
<1>9. /\ u.slot = v.slot /\ u.alive = v.alive
      /\ \A j \in Kinds, o \in Objects : u.home[j][o] = IF j = k /\ o \in A THEN NoHome ELSE v.home[j][o]
  BY <1>3, <1>11 DEF z
<1>12. \A j \in Kinds, o \in Objects : u.home[j][o] =
         IF (j = "owner" /\ o \in S) \/ (j = k /\ o \in A) THEN NoHome ELSE w.home[j][o]
  BY <1>2, <1>9
<1>13. \A h \in Holders : DOMAIN u.slot[h] = DOMAIN w.slot[h]
  BY <1>2, <1>9
<1>14. u.alive = w.alive /\ A \subseteq w.alive
  BY <1>2, <1>5, <1>9
<1> QED
  BY <1>3, <1>8, <1>12, <1>13, <1>14 DEF z, LetGo

LEMMA DestroyFECsWired ==
  ASSUME DistinctObjects, NEW w, NEW X, NEW R, Wired(w, X, R), NEW S, S \subseteq FECs \cap w.alive,
         Apart(w, S, X)
  PROVE  \E D : S \subseteq D /\ TakenDown(w, DestroyFECs(w, S), X, R, D)
<1> DEFINE A == UNION {Members(w, f) : f \in S}
           u == Forgotten(Unset(w, "owner", S), "owner", A)
           v == DestroyAPVs(u, A)
           z == Without(v, S)
           Y == PlacesOf(w, S)
<1>1. /\ S \subseteq Objects /\ S \subseteq Holders /\ "owner" \in Kinds /\ S \cap APVs = {}
      /\ \A h \in S : KindOf(h) = "owner" /\ MemberOf(h) = APVs
  BY DEF Objects, Holders, Kinds, KindOf, MemberOf, DistinctObjects
<1>2. A \subseteq APVs
  <2> SUFFICES ASSUME NEW f \in S, NEW i \in DOMAIN w.slot[f], w.slot[f][i] # null
               PROVE  w.slot[f][i] \in APVs
    BY DEF Members
  <2> QED
    BY <1>1 DEF Wired, RightMembers
<1>3. DestroyFECs(w, S) = z
  BY DEF DestroyFECs
<1>0. (\A a : a \in A <=> \E h \in S : a \in Members(w, h)) /\ u = Forgotten(Unset(w, "owner", S), "owner", A)
  OBVIOUS
<1> HIDE DEF A, u, Y
<1>20. LetGo(w, u, X, R, "owner", S, A)
  BY <1>0, <1>1, LetGoWired
<1>4. /\ Wired(u, X \cup Y, R) /\ u.alive = w.alive
      /\ \A j \in Kinds, o \in Objects : u.home[j][o] =
           IF (j = "owner" /\ o \in S) \/ (j = "owner" /\ o \in A) THEN NoHome ELSE w.home[j][o]
      /\ \A h \in Holders : DOMAIN u.slot[h] = DOMAIN w.slot[h]
  BY <1>20 DEF Y, LetGo
<1>5. TakenDown(u, v, X \cup Y, R, A)
  BY <1>2, <1>4, DestroyAPVsWired
<1> HIDE DEF v
<1>6. \A k \in Kinds, o \in S : v.home[k][o] = NoHome
  <2> SUFFICES ASSUME NEW o \in S PROVE v.home["owner"][o] = NoHome /\ v.home["plane"][o] = NoHome
    BY DEF Kinds
  <2>1. o \in v.alive /\ o \in Objects \ APVs
    BY <1>1, <1>2, <1>4, <1>5 DEF TakenDown
  <2>2. v.home["plane"][o] = NoHome
    BY <1>5, <2>1, NotInPlane DEF TakenDown
  <2>3. v.home["owner"][o] = NoHome
    BY <1>1, <1>4, <1>5, <2>1 DEF TakenDown
  <2> QED
    BY <2>2, <2>3
<1>7. \A h \in Holders : \A i \in DOMAIN v.slot[h] : h \in S /\ v.slot[h][i] # null => <<h, i>> \in X \cup Y
  BY <1>4, <1>5, PlaceOf DEF TakenDown, Y
<1>8. \A h, i : h \notin S /\ <<h, i>> \in X \cup Y => <<h, i>> \in X
  BY PlaceOf DEF Y
<1>9. Wired(v, X \cup Y, R)
  BY <1>5 DEF TakenDown
<1>10. Wired(z, X, R)
  BY <1>1, <1>6, <1>7, <1>8, <1>9, WithoutWired
<1>11. /\ z.home = v.home /\ z.alive = v.alive \ S
       /\ \A h \in Holders : DOMAIN z.slot[h] \subseteq DOMAIN v.slot[h]
  BY <1>9, WithoutIs DEF Wired
<1> HIDE DEF z
<1>12. z.alive = w.alive \ (A \cup S)
  BY <1>4, <1>5, <1>11 DEF TakenDown
<1>13. ASSUME NEW o \in z.alive PROVE z.home["owner"][o] = w.home["owner"][o]
  <2>1. o \in v.alive /\ o \notin A \cup S /\ o \in Objects
    BY <1>9, <1>11, <1>12 DEF Wired, IsWiring
  <2>2. z.home["owner"][o] = u.home["owner"][o]
    BY <1>5, <1>11, <2>1 DEF TakenDown
  <2> QED
    BY <1>1, <1>4, <2>1, <2>2
<1>14. \A h \in Holders : DOMAIN z.slot[h] \subseteq DOMAIN w.slot[h]
  BY <1>4, <1>5, <1>11 DEF TakenDown
<1>15. TakenDown(w, z, X, R, A \cup S)
  BY <1>10, <1>12, <1>13, <1>14 DEF TakenDown
<1> QED
  BY <1>3, <1>15

LEMMA DestroyPlanesWired ==
  ASSUME DistinctObjects, NEW w, NEW X, NEW R, Wired(w, X, R), NEW S, S \subseteq Planes,
         Apart(w, S, X)
  PROVE  TakenDown(w, DestroyPlanes(w, S), X, R, S)
<1> DEFINE A == UNION {Members(w, p) : p \in S}
           u == Forgotten(Unset(w, "owner", S), "plane", A)
           z == Without(u, S)
           Y == PlacesOf(w, S)
<1>1. /\ S \subseteq Objects /\ S \subseteq Holders /\ "plane" \in Kinds /\ S \cap APVs = {}
      /\ \A h \in S : KindOf(h) = "plane"
  BY DEF Objects, Holders, Kinds, KindOf, DistinctObjects
<1>2. DestroyPlanes(w, S) = z
  BY DEF DestroyPlanes
<1>0. (\A a : a \in A <=> \E h \in S : a \in Members(w, h)) /\ u = Forgotten(Unset(w, "owner", S), "plane", A)
  OBVIOUS
<1> HIDE DEF A, u, Y
<1>20. LetGo(w, u, X, R, "plane", S, A)
  BY <1>0, <1>1, LetGoWired
<1>3. /\ Wired(u, X \cup Y, R) /\ u.alive = w.alive
      /\ \A j \in Kinds, o \in Objects : u.home[j][o] =
           IF (j = "owner" /\ o \in S) \/ (j = "plane" /\ o \in A) THEN NoHome ELSE w.home[j][o]
      /\ \A h \in Holders : DOMAIN u.slot[h] = DOMAIN w.slot[h]
  BY <1>20 DEF Y, LetGo
<1>4. \A k \in Kinds, o \in S : u.home[k][o] = NoHome
  <2> SUFFICES ASSUME NEW o \in S PROVE u.home["owner"][o] = NoHome /\ u.home["plane"][o] = NoHome
    BY DEF Kinds
  <2>1. u.home["plane"][o] = NoHome
    BY <1>1, <1>3, NotInPlane
  <2>2. u.home["owner"][o] = NoHome
    BY <1>1, <1>3 DEF Kinds
  <2> QED
    BY <2>1, <2>2
<1>5. \A h \in Holders : \A i \in DOMAIN u.slot[h] : h \in S /\ u.slot[h][i] # null => <<h, i>> \in X \cup Y
  BY <1>3, PlaceOf DEF Y
<1>6. \A h, i : h \notin S /\ <<h, i>> \in X \cup Y => <<h, i>> \in X
  BY PlaceOf DEF Y
<1>7. Wired(z, X, R)
  BY <1>1, <1>3, <1>4, <1>5, <1>6, WithoutWired
<1>8. /\ z.home = u.home /\ z.alive = u.alive \ S
      /\ \A h \in Holders : DOMAIN z.slot[h] \subseteq DOMAIN u.slot[h]
  BY <1>3, WithoutIs DEF Wired
<1> HIDE DEF z
<1>9. z.alive \subseteq Objects /\ "owner" \in Kinds /\ "owner" # "plane"
  BY <1>7 DEF Wired, IsWiring, Kinds
<1>10. \A o \in z.alive : z.home["owner"][o] = w.home["owner"][o]
  BY <1>3, <1>8, <1>9
<1>11. TakenDown(w, z, X, R, S)
  BY <1>3, <1>7, <1>8, <1>10 DEF TakenDown
<1> QED
  BY <1>2, <1>11

LEMMA DestroyDetsWired ==
  ASSUME DistinctObjects, NEW w, NEW X, NEW R, Wired(w, X, R), NEW S, S \subseteq Dets \cap w.alive,
         Apart(w, S \cup Planes, X)
  PROVE  \E D : S \subseteq D /\ TakenDown(w, DestroyDets(w, S), X, R, D)
<1> DEFINE P == UNION {Members(w, d) : d \in S}
           u == Forgotten(Unset(w, "owner", S), "owner", P)
           v == DestroyPlanes(u, P)
           z == Without(v, S)
           Y == PlacesOf(w, S)
<1>1. /\ S \subseteq Objects /\ S \subseteq Holders /\ "owner" \in Kinds /\ S \cap APVs = {}
      /\ S \cap Planes = {} /\ Planes \subseteq Holders
      /\ \A h \in S : KindOf(h) = "owner" /\ MemberOf(h) = Planes
  <2>1. /\ S \subseteq Objects /\ S \subseteq Holders /\ "owner" \in Kinds /\ S \cap APVs = {}
        /\ S \cap Planes = {} /\ Planes \subseteq Holders /\ S \subseteq Dets
    BY DEF Objects, Holders, Kinds, DistinctObjects
  <2>2. \A h \in Dets : h # "daq" /\ h # "det" /\ h \notin FECs /\ h \notin Planes
    BY DEF Objects, DistinctObjects
  <2>3. \A h \in Dets : KindOf(h) = "owner" /\ MemberOf(h) = Planes
    BY <2>2 DEF KindOf, MemberOf
  <2> QED
    BY <2>1, <2>3
<1>2. P \subseteq Planes
  <2> SUFFICES ASSUME NEW f \in S, NEW i \in DOMAIN w.slot[f], w.slot[f][i] # null
               PROVE  w.slot[f][i] \in Planes
    BY DEF Members
  <2> QED
    BY <1>1 DEF Wired, RightMembers
<1>3. DestroyDets(w, S) = z
  BY DEF DestroyDets
<1>0. (\A a : a \in P <=> \E h \in S : a \in Members(w, h)) /\ u = Forgotten(Unset(w, "owner", S), "owner", P)
  OBVIOUS
<1> HIDE DEF P, u, Y
<1>20. LetGo(w, u, X, R, "owner", S, P)
  <2>1. Apart(w, S, X)
    BY DEF Apart
  <2> QED
    BY <2>1, <1>0, <1>1, LetGoWired
<1>4. /\ Wired(u, X \cup Y, R) /\ u.alive = w.alive
      /\ \A j \in Kinds, o \in Objects : u.home[j][o] =
           IF (j = "owner" /\ o \in S) \/ (j = "owner" /\ o \in P) THEN NoHome ELSE w.home[j][o]
      /\ \A h \in Holders : DOMAIN u.slot[h] = DOMAIN w.slot[h]
  BY <1>20 DEF Y, LetGo
<1>16. Apart(u, P, X \cup Y)
  BY <1>1, <1>2, <1>4, PlaceOf DEF Y, Apart
<1>5. TakenDown(u, v, X \cup Y, R, P)
  BY <1>2, <1>4, <1>16, DestroyPlanesWired
<1> HIDE DEF v
<1>6. \A k \in Kinds, o \in S : v.home[k][o] = NoHome
  <2> SUFFICES ASSUME NEW o \in S PROVE v.home["owner"][o] = NoHome /\ v.home["plane"][o] = NoHome
    BY DEF Kinds
  <2>1. o \in v.alive /\ o \in Objects \ APVs
    BY <1>1, <1>2, <1>4, <1>5 DEF TakenDown
  <2>2. v.home["plane"][o] = NoHome
    BY <1>5, <2>1, NotInPlane DEF TakenDown
  <2>3. v.home["owner"][o] = NoHome
    BY <1>1, <1>4, <1>5, <2>1 DEF TakenDown
  <2> QED
    BY <2>2, <2>3
<1>7. \A h \in Holders : \A i \in DOMAIN v.slot[h] : h \in S /\ v.slot[h][i] # null => <<h, i>> \in X \cup Y
  BY <1>4, <1>5, PlaceOf DEF TakenDown, Y
<1>8. \A h, i : h \notin S /\ <<h, i>> \in X \cup Y => <<h, i>> \in X
  BY PlaceOf DEF Y
<1>9. Wired(v, X \cup Y, R)
  BY <1>5 DEF TakenDown
<1>10. Wired(z, X, R)
  BY <1>1, <1>6, <1>7, <1>8, <1>9, WithoutWired
<1>11. /\ z.home = v.home /\ z.alive = v.alive \ S
       /\ \A h \in Holders : DOMAIN z.slot[h] \subseteq DOMAIN v.slot[h]
  BY <1>9, WithoutIs DEF Wired
<1> HIDE DEF z
<1>12. z.alive = w.alive \ (P \cup S)
  BY <1>4, <1>5, <1>11 DEF TakenDown
<1>13. ASSUME NEW o \in z.alive PROVE z.home["owner"][o] = w.home["owner"][o]
  <2>1. o \in v.alive /\ o \notin P \cup S /\ o \in Objects
    BY <1>9, <1>11, <1>12 DEF Wired, IsWiring
  <2>2. z.home["owner"][o] = u.home["owner"][o]
    BY <1>5, <1>11, <2>1 DEF TakenDown
  <2> QED
    BY <1>1, <1>4, <2>1, <2>2
<1>14. \A h \in Holders : DOMAIN z.slot[h] \subseteq DOMAIN w.slot[h]
  BY <1>4, <1>5, <1>11 DEF TakenDown
<1>15. TakenDown(w, z, X, R, P \cup S)
  BY <1>10, <1>12, <1>13, <1>14 DEF TakenDown
<1> QED
  BY <1>3, <1>15

LEMMA DestroyedWired ==
  ASSUME DistinctObjects, NEW w, NEW X, NEW R, Wired(w, X, R), NEW o \in w.alive,
         Apart(w, ({o} \cup Planes) \cap Holders, X)
  PROVE  \E D : o \in D /\ TakenDown(w, Destroyed(w, o), X, R, D)
<1>1. o \in Objects
  BY DEF Wired, IsWiring
<1>2. CASE o \in APVs
  <2>1. Destroyed(w, o) = DestroyAPVs(w, {o})
    BY <1>2 DEF Destroyed, DistinctObjects
  <2> QED
    BY <1>2, <2>1, DestroyAPVsWired
<1>3. \A S : S \subseteq (FECs \cup Dets \cup Planes) \cap ({o} \cup Planes) => Apart(w, S, X)
  BY DEF Apart, Holders
<1>4. CASE o \in Planes
  <2>1. Destroyed(w, o) = DestroyPlanes(w, {o})
    BY <1>4 DEF Destroyed, DistinctObjects
  <2>2. Apart(w, {o}, X)
    BY <1>3, <1>4
  <2> QED
    BY <1>4, <2>1, <2>2, DestroyPlanesWired
<1>5. CASE o \in FECs
  <2>1. Destroyed(w, o) = DestroyFECs(w, {o})
    BY <1>5 DEF Destroyed, DistinctObjects
  <2>2. Apart(w, {o}, X) /\ {o} \subseteq FECs \cap w.alive
    BY <1>3, <1>5
  <2>3. \E D : {o} \subseteq D /\ TakenDown(w, DestroyFECs(w, {o}), X, R, D)
    BY <2>2, DestroyFECsWired
  <2> QED
    BY <2>1, <2>3
<1>6. CASE o \in Dets
  <2>1. Destroyed(w, o) = DestroyDets(w, {o})
    BY <1>6 DEF Destroyed, DistinctObjects
  <2>2. Apart(w, {o} \cup Planes, X) /\ {o} \subseteq Dets \cap w.alive
    BY <1>3, <1>6
  <2>3. \E D : {o} \subseteq D /\ TakenDown(w, DestroyDets(w, {o}), X, R, D)
    BY <2>2, DestroyDetsWired
  <2> QED
    BY <2>1, <2>3
<1> QED
  BY <1>1, <1>2, <1>4, <1>5, <1>6 DEF Objects

-----------------------------------------------------------------------------
(* Additions.                                                              *)

PutIn(w, z, h, i, k, o) ==
  /\ IsWiring(z) /\ z.alive = w.alive /\ z.list = w.list
  /\ \A g \in Holders :
       /\ DOMAIN z.slot[g] = DOMAIN w.slot[g]
       /\ \A j \in DOMAIN w.slot[g] : z.slot[g][j] = IF g = h /\ j = i THEN o ELSE w.slot[g][j]
  /\ \A j \in Kinds, m \in Objects : z.home[j][m] =
       IF j = k /\ m = o THEN <<h, i>> ELSE w.home[j][m]

LEMMA PlacedIs ==
  ASSUME NEW w, IsWiring(w), NEW h \in Holders, NEW i \in DOMAIN w.slot[h],
         NEW k \in Kinds, NEW o \in Objects
  PROVE  PutIn(w, [[w EXCEPT !.slot[h][i] = o] EXCEPT !.home[k][o] = <<h, i>>], h, i, k, o)
<1> DEFINE a == [w.slot[h] EXCEPT ![i] = o]
           s == [w.slot EXCEPT ![h] = a]
           b == [w.home[k] EXCEPT ![o] = <<h, i>>]
           t == [w.home EXCEPT ![k] = b]
           u == [w EXCEPT !.slot = s]
           z == [[w EXCEPT !.slot[h][i] = o] EXCEPT !.home[k][o] = <<h, i>>]
<1>1. z = [u EXCEPT !.home = t]
  <2>1. [w EXCEPT !.slot[h][i] = o] = u
    OBVIOUS
  <2>2. u.home = w.home
    BY DEF IsWiring
  <2> QED
    BY <2>1, <2>2
<1>2. /\ DOMAIN a = DOMAIN w.slot[h]
      /\ \A j \in DOMAIN w.slot[h] : a[j] = IF j = i THEN o ELSE w.slot[h][j]
  OBVIOUS
<1> HIDE DEF a
<1>3. s = [g \in Holders |-> s[g]] /\ \A g \in Holders : s[g] = IF g = h THEN a ELSE w.slot[g]
  BY DEF IsWiring
<1> HIDE DEF s
<1>4. b = [m \in Objects |-> b[m]] /\ \A m \in Objects : b[m] = IF m = o THEN <<h, i>> ELSE w.home[k][m]
  BY DEF IsWiring
<1> HIDE DEF b
<1>5. t = [j \in Kinds |-> t[j]] /\ \A j \in Kinds : t[j] = IF j = k THEN b ELSE w.home[j]
  BY DEF IsWiring
<1> HIDE DEF t
<1>6. u = [slot |-> s, home |-> w.home, alive |-> w.alive, list |-> w.list]
  BY DEF IsWiring
<1> HIDE DEF u
<1>7. z = [slot |-> s, home |-> t, alive |-> w.alive, list |-> w.list]
  BY <1>1, <1>6
<1> HIDE DEF z
<1>8. \A j \in Kinds : t[j] = [m \in Objects |-> t[j][m]]
  <2> SUFFICES ASSUME NEW j \in Kinds PROVE t[j] = [m \in Objects |-> t[j][m]]
    OBVIOUS
  <2>1. w.home[j] = [m \in Objects |-> w.home[j][m]]
    BY DEF IsWiring
  <2>2. CASE j = k
    <3>1. t[j] = b
      BY <1>5, <2>2
    <3> QED
      BY <1>4, <3>1
  <2>3. CASE j # k
    <3>1. t[j] = w.home[j]
      BY <1>5, <2>3
    <3> QED
      BY <2>1, <3>1
  <2> QED
    BY <2>2, <2>3
<1>10. z.alive = w.alive /\ z.list = w.list /\ z.slot = s /\ z.home = t
  BY <1>7
<1>14. w.alive \subseteq Objects /\ w.list = [g \in Roots |-> w.list[g]]
  BY DEF IsWiring
<1>9. IsWiring(z)
  BY <1>3, <1>5, <1>7, <1>8, <1>10, <1>14 DEF IsWiring
<1>11. \A g \in Holders :
         /\ DOMAIN s[g] = DOMAIN w.slot[g]
         /\ \A j \in DOMAIN w.slot[g] : s[g][j] = IF g = h /\ j = i THEN o ELSE w.slot[g][j]
  BY <1>2, <1>3
<1>12. \A j \in Kinds, m \in Objects : t[j][m] = IF j = k /\ m = o THEN <<h, i>> ELSE w.home[j][m]
  BY <1>4, <1>5
<1> HIDE DEF z
<1>13. PutIn(w, z, h, i, k, o)
  BY <1>9, <1>10, <1>11, <1>12 DEF PutIn
<1> QED
  BY <1>13 DEF z

(* A place that is free takes a member, which leaves its previous one.     *)
LEMMA PlacedWired ==
  ASSUME DistinctObjects, NEW w, NEW R, Wired(w, {}, R),
         NEW h \in Holders, NEW i \in DOMAIN w.slot[h], w.slot[h][i] = null,
         NEW o \in MemberOf(h), o \in w.alive
  PROVE  /\ Wired(Placed(w, h, i, o), {}, R) /\ Placed(w, h, i, o).alive = w.alive
         /\ \A j \in Kinds, m \in Objects : Placed(w, h, i, o).home[j][m] =
              IF j = KindOf(h) /\ m = o THEN <<h, i>> ELSE w.home[j][m]
         /\ \A g \in Holders : DOMAIN Placed(w, h, i, o).slot[g] = DOMAIN w.slot[g]
<1> DEFINE k == KindOf(h)
           v == Unset(w, k, {o})
           z == Placed(w, h, i, o)
<1>1. k \in Kinds /\ o \in Objects /\ o # null
  BY MemberIsObject DEF DistinctObjects
<1>2. z = [[v EXCEPT !.slot[h][i] = o] EXCEPT !.home[k][o] = <<h, i>>]
  BY DEF Placed
<1> HIDE DEF k, z
<1>3. /\ Wired(v, {}, R) /\ v.alive = w.alive
      /\ \A j \in Kinds, m \in Objects : v.home[j][m] = IF j = k /\ m \in {o} THEN NoHome ELSE w.home[j][m]
      /\ \A g \in Holders :
           /\ DOMAIN v.slot[g] = DOMAIN w.slot[g]
           /\ \A j \in DOMAIN w.slot[g] : v.slot[g][j] \in {null, w.slot[g][j]}
  BY <1>1, UnsetWired
<1> HIDE DEF v
<1>4. v.slot[h][i] = null /\ i \in DOMAIN v.slot[h] /\ IsWiring(v)
  BY <1>3 DEF Wired
<1>5. /\ IsWiring(z) /\ z.alive = v.alive /\ z.list = v.list
      /\ \A g \in Holders :
           /\ DOMAIN z.slot[g] = DOMAIN v.slot[g]
           /\ \A j \in DOMAIN v.slot[g] : z.slot[g][j] = IF g = h /\ j = i THEN o ELSE v.slot[g][j]
      /\ \A j \in Kinds, m \in Objects : z.home[j][m] =
           IF j = k /\ m = o THEN <<h, i>> ELSE v.home[j][m]
  <2>1. PutIn(v, z, h, i, k, o)
    BY <1>1, <1>2, <1>4, PlacedIs
  <2> QED
    BY <2>1 DEF PutIn
<1>6. RightMembers(z)
  <2> SUFFICES ASSUME NEW g \in Holders, NEW j \in DOMAIN v.slot[g]
               PROVE  z.slot[g][j] \in MemberOf(g) \cup {null}
    BY <1>5 DEF RightMembers
  <2>1. v.slot[g][j] \in MemberOf(g) \cup {null}
    BY <1>3 DEF Wired, RightMembers
  <2> QED
    BY <1>5, <2>1
<1>7. MembersKnow(z, {})
  <2> SUFFICES ASSUME NEW g \in Holders, NEW j \in DOMAIN v.slot[g], z.slot[g][j] # null
               PROVE  z.slot[g][j] \in w.alive /\ z.home[KindOf(g)][z.slot[g][j]] = <<g, j>>
    BY <1>3, <1>5 DEF MembersKnow
  <2>1. CASE g = h /\ j = i
    BY <1>1, <1>5, <2>1 DEF k
  <2>2. CASE ~(g = h /\ j = i)
    <3>1. z.slot[g][j] = v.slot[g][j]
      BY <1>5, <2>2
    <3>2. v.slot[g][j] \in w.alive /\ v.home[KindOf(g)][v.slot[g][j]] = <<g, j>>
      BY <1>3, <3>1 DEF Wired, MembersKnow
    <3>3. v.slot[g][j] \in Objects /\ KindOf(g) \in Kinds
      BY <1>3, <3>1, MemberIsObject DEF Wired, RightMembers
    <3>4. v.home[k][o] = NoHome
      BY <1>1, <1>3
    <3>5. ~(KindOf(g) = k /\ v.slot[g][j] = o)
      BY <3>2, <3>4, PlaceIsNotNoHome
    <3> QED
      BY <1>5, <3>1, <3>2, <3>3, <3>5
  <2> QED
    BY <2>1, <2>2
<1>8. HoldersKnow(z, {})
  <2> SUFFICES ASSUME NEW j \in Kinds, NEW m \in Objects, z.home[j][m] # NoHome
               PROVE  Holds(z, j, m, z.home[j][m])
    BY DEF HoldersKnow
  <2>1. CASE j = k /\ m = o
    <3>1. z.home[j][m] = <<h, i>> /\ i \in DOMAIN z.slot[h] /\ z.slot[h][i] = o
      BY <1>4, <1>5, <2>1
    <3> QED
      BY <2>1, <3>1 DEF Holds, k
  <2>2. CASE ~(j = k /\ m = o)
    <3>1. z.home[j][m] = v.home[j][m]
      BY <1>5, <2>2
    <3> DEFINE p == v.home[j][m]
    <3>2. Holds(v, j, m, p)
      BY <1>3, <3>1 DEF Wired, HoldersKnow
    <3> HIDE DEF p
    <3>3. ~(p[1] = h /\ p[2] = i)
      BY <1>4, <3>2 DEF Holds, DistinctObjects
    <3>4. Holds(z, j, m, p)
      BY <1>5, <3>2, <3>3 DEF Holds
    <3> QED
      BY <3>1, <3>4 DEF p
  <2> QED
    BY <2>1, <2>2
<1>9. DeadHoldNothing(z, R)
  BY <1>3, <1>5 DEF Wired, DeadHoldNothing
<1>10. Listed(z)
  <2> SUFFICES ASSUME NEW g \in Roots PROVE v.list[g] \subseteq Members(z, g)
    BY <1>5 DEF Listed
  <2>1. g \in Holders
    BY DEF Roots, Holders
  <2>2. v.list[g] \subseteq Members(v, g)
    BY <1>3 DEF Wired, Listed
  <2>3. \A j \in DOMAIN v.slot[g] : v.slot[g][j] # null => j \in DOMAIN z.slot[g] /\ z.slot[g][j] = v.slot[g][j]
    BY <1>4, <1>5, <2>1
  <2> QED
    BY <2>2, <2>3 DEF Members
<1>11. Wired(z, {}, R)
  BY <1>5, <1>6, <1>7, <1>8, <1>9, <1>10 DEF Wired
<1>12. \A j \in Kinds, m \in Objects : z.home[j][m] = IF j = k /\ m = o THEN <<h, i>> ELSE w.home[j][m]
  BY <1>3, <1>5
<1>13. \A g \in Holders : DOMAIN z.slot[g] = DOMAIN w.slot[g]
  BY <1>3, <1>5
<1> QED
  BY <1>3, <1>5, <1>11, <1>12, <1>13 DEF z, k

-----------------------------------------------------------------------------
LEMMA DeadHomeless ==
  ASSUME DistinctObjects, NEW w, NEW R, Wired(w, {}, R), NEW o \in Objects, o \notin w.alive, NEW k \in Kinds
  PROVE  w.home[k][o] = NoHome
<1> SUFFICES ASSUME w.home[k][o] # NoHome PROVE FALSE
  OBVIOUS
<1> DEFINE p == w.home[k][o]
<1>1. Holds(w, k, o, p)
  BY DEF Wired, HoldersKnow
<1> HIDE DEF p
<1>2. p[1] \in Holders /\ p[2] \in DOMAIN w.slot[p[1]] /\ w.slot[p[1]][p[2]] = o /\ o # null
  BY <1>1 DEF Holds, DistinctObjects
<1> QED
  BY <1>2 DEF Wired, MembersKnow

(* The lists are rebuilt, or extended by what was registered.              *)
LEMMA ListWired ==
  ASSUME NEW w, NEW X, NEW R, Wired(w, X, R), NEW h \in Roots, NEW T, T \subseteq Members(w, h)
  PROVE  /\ Wired([w EXCEPT !.list[h] = T], X, R)
         /\ [w EXCEPT !.list[h] = T].slot = w.slot
         /\ [w EXCEPT !.list[h] = T].home = w.home
         /\ [w EXCEPT !.list[h] = T].alive = w.alive
<1> DEFINE l == [w.list EXCEPT ![h] = T]
           z == [w EXCEPT !.list = l]
<1>1. [w EXCEPT !.list[h] = T] = z
  OBVIOUS
<1>2. l = [g \in Roots |-> l[g]] /\ \A g \in Roots : l[g] = IF g = h THEN T ELSE w.list[g]
  BY DEF Wired, IsWiring
<1> HIDE DEF l
<1>3. z = [slot |-> w.slot, home |-> w.home, alive |-> w.alive, list |-> l]
  BY DEF Wired, IsWiring
<1>4. z.slot = w.slot /\ z.home = w.home /\ z.alive = w.alive /\ z.list = l
  BY <1>3
<1> HIDE DEF z
<1>5. IsWiring(z)
  BY <1>2, <1>3, <1>4 DEF Wired, IsWiring
<1>6. RightMembers(z) /\ MembersKnow(z, X)
  BY <1>4 DEF Wired, RightMembers, MembersKnow
<1>7. HoldersKnow(z, X) /\ DeadHoldNothing(z, R)
  BY <1>4 DEF Wired, HoldersKnow, Holds, DeadHoldNothing
<1>8. Listed(z)
  BY <1>2, <1>4 DEF Wired, Listed, Members
<1>9. Wired(z, X, R)
  BY <1>5, <1>6, <1>7, <1>8 DEF Wired
<1> QED
  BY <1>1, <1>4, <1>9

(* A place is taken, or the member deleted.                                *)
LEMMA PlacedOrDeletedWired ==
  ASSUME DistinctObjects, NEW w, NEW R, Wired(w, {}, R), NEW h \in Holders, KindOf(h) = "owner",
         NEW i, NEW o \in MemberOf(h), o \in w.alive
  PROVE  /\ Wired(PlacedOrDeleted(w, h, i, o), {}, R)
         /\ PlacedOrDeleted(w, h, i, o).alive \subseteq w.alive
         /\ \A m \in PlacedOrDeleted(w, h, i, o).alive :
              PlacedOrDeleted(w, h, i, o).home["owner"][m] =
                IF m = o THEN <<h, i>> ELSE w.home["owner"][m]
<1> DEFINE z == PlacedOrDeleted(w, h, i, o)
<1>1. CASE i \in DOMAIN w.slot[h] /\ w.slot[h][i] = null
  <2>1. z = Placed(w, h, i, o)
    BY <1>1 DEF PlacedOrDeleted
  <2>2. /\ Wired(z, {}, R) /\ z.alive = w.alive
        /\ \A j \in Kinds, m \in Objects : z.home[j][m] =
             IF j = KindOf(h) /\ m = o THEN <<h, i>> ELSE w.home[j][m]
    BY <1>1, <2>1, PlacedWired
  <2> HIDE DEF z
  <2>3. z.alive \subseteq Objects /\ "owner" \in Kinds
    BY <2>2 DEF Wired, IsWiring, Kinds
  <2> QED
    BY <2>2, <2>3 DEF z
<1>2. CASE ~(i \in DOMAIN w.slot[h] /\ w.slot[h][i] = null)
  <2>1. z = Destroyed(w, o)
    BY <1>2 DEF PlacedOrDeleted
  <2>2. Apart(w, ({o} \cup Planes) \cap Holders, {})
    BY DEF Apart
  <2>3. PICK D : o \in D /\ TakenDown(w, z, {}, R, D)
    BY <2>1, <2>2, DestroyedWired
  <2> HIDE DEF z
  <2>4. Wired(z, {}, R) /\ z.alive = w.alive \ D /\ \A m \in z.alive : z.home["owner"][m] = w.home["owner"][m]
    BY <2>3 DEF TakenDown
  <2> QED
    BY <2>3, <2>4 DEF z
<1> QED
  BY <1>1, <1>2

LEMMA ConnectedWired ==
  ASSUME DistinctObjects, NEW w, NEW R, Wired(w, {}, R), NEW p \in Planes, NEW i,
         NEW a \in APVs, a \in w.alive
  PROVE  /\ Wired(Connected(w, p, i, a), {}, R)
         /\ Connected(w, p, i, a).alive = w.alive
         /\ \A m \in w.alive : Connected(w, p, i, a).home["owner"][m] = w.home["owner"][m]
<1>1. p \in Holders /\ MemberOf(p) = APVs /\ KindOf(p) = "plane" /\ "owner" \in Kinds
  BY DEF Holders, MemberOf, KindOf, Kinds, DistinctObjects, Objects
<1>2. w.alive \subseteq Objects
  BY DEF Wired, IsWiring
<1>3. CASE p \in w.alive /\ i \in DOMAIN w.slot[p] /\ w.slot[p][i] = null
  <2>1. Connected(w, p, i, a) = Placed(w, p, i, a)
    BY <1>3 DEF Connected
  <2> DEFINE z == Placed(w, p, i, a)
  <2>2. /\ Wired(z, {}, R) /\ z.alive = w.alive
        /\ \A j \in Kinds, m \in Objects : z.home[j][m] =
             IF j = KindOf(p) /\ m = a THEN <<p, i>> ELSE w.home[j][m]
    BY <1>1, <1>3, PlacedWired
  <2> HIDE DEF z
  <2>3. \A m \in w.alive : z.home["owner"][m] = w.home["owner"][m]
    BY <1>1, <1>2, <2>2
  <2> QED
    BY <2>1, <2>2, <2>3 DEF z
<1>4. CASE ~(p \in w.alive /\ i \in DOMAIN w.slot[p] /\ w.slot[p][i] = null)
  <2>1. Connected(w, p, i, a) = w
    BY <1>4 DEF Connected
  <2> QED
    BY <2>1
<1> QED
  BY <1>3, <1>4

-----------------------------------------------------------------------------
Loading == {"DET", "PLN", "FEC", "APV"}

Present(p) == IF p = "gone" THEN {} ELSE Roots

(* Everything has an owner or is the caller's. *)
Owned(w, L) == \A o \in w.alive : o \in L <=> w.home["owner"][o] = NoHome

WiringInv == /\ Wired(W, {}, Present(phase)) /\ Owned(W, loose)
             /\ phase \in Loading => loose = {}

LEMMA Reaches ==
  ASSUME NEW z, Becomes(z), Wired(z, {}, Present(phase')), Owned(z, loose'),
         phase' \in Loading => loose' = {}
  PROVE  WiringInv'
<1>1. W' = z
  BY DEF W, Becomes, Wired, IsWiring
<1>2. Wired(W', {}, Present(phase')) /\ Owned(W', loose')
  BY <1>1
<1>3. Wired(W, {}, Present(phase))'
  BY <1>2
<1>4. Owned(W, loose)'
  BY <1>2
<1> QED
  BY <1>3, <1>4 DEF WiringInv

LEMMA WiringIs ==
  W.slot = slot /\ W.home = home /\ W.alive = alive /\ W.list = list
BY DEF W

LEMMA InitWiring == Init => WiringInv
<1> SUFFICES ASSUME Init PROVE WiringInv
  OBVIOUS
<1>1. \A h \in Holders : \A i : i \in DOMAIN slot[h] => slot[h][i] = null
  BY DEF Init, Vacant
<1>2. \A h \in Holders \ Roots : DOMAIN slot[h] = {}
  BY DEF Init, Vacant, Roots
<1>3. \A k \in Kinds, o \in Objects : home[k][o] = NoHome
  BY DEF Init
<1>4. IsWiring(W)
  BY DEF Init, W, IsWiring, Roots
<1>5. alive = {} /\ loose = {} /\ phase = "DET" /\ list = [h \in Roots |-> {}]
  BY DEF Init, Roots
<1>6. RightMembers(W) /\ MembersKnow(W, {})
  BY <1>1, WiringIs DEF RightMembers, MembersKnow
<1>7. HoldersKnow(W, {})
  BY <1>3, WiringIs DEF HoldersKnow
<1>8. DeadHoldNothing(W, Roots)
  BY <1>2, WiringIs DEF DeadHoldNothing
<1>9. Listed(W)
  BY <1>5, WiringIs DEF Listed
<1>10. Owned(W, loose) /\ Present(phase) = Roots
  BY <1>5, WiringIs DEF Owned, Present
<1> QED
  BY <1>4, <1>5, <1>6, <1>7, <1>8, <1>9, <1>10 DEF WiringInv, Wired

-----------------------------------------------------------------------------
(* Reading the map file.                                                   *)

LEMMA NewWired ==
  ASSUME DistinctObjects, NEW R, R \subseteq Roots, Wired(W, {}, R),
         NEW o \in Objects, o \notin alive, NEW I
  PROVE  /\ Wired(New(o, I), {}, R) /\ New(o, I).alive = alive \cup {o} /\ New(o, I).home = home
<1> DEFINE s == [h \in Holders |-> IF h = o THEN Vacant(I) ELSE slot[h]]
           z == New(o, I)
<1>1. z = [slot |-> s, home |-> home, alive |-> alive \cup {o}, list |-> list]
  <2> DEFINE v == [W EXCEPT !.alive = alive \cup {o}]
  <2>1. v = [slot |-> slot, home |-> home, alive |-> alive \cup {o}, list |-> list]
    BY DEF W
  <2>2. z = [v EXCEPT !.slot = s]
    BY DEF New, W
  <2> HIDE DEF z, s
  <2> QED
    BY <2>1, <2>2
<1>2. s = [h \in Holders |-> s[h]] /\ \A h \in Holders : h # o => s[h] = slot[h]
  OBVIOUS
<1>3. o \in Holders => \A i \in DOMAIN s[o] : s[o][i] = null
  BY DEF Vacant
<1> HIDE DEF s
<1>4. z.slot = s /\ z.home = home /\ z.alive = alive \cup {o} /\ z.list = list
  BY <1>1
<1> HIDE DEF z
<1>5. IsWiring(W) /\ RightMembers(W) /\ MembersKnow(W, {}) /\ HoldersKnow(W, {})
      /\ DeadHoldNothing(W, R) /\ Listed(W)
  BY DEF Wired
<1>6. IsWiring(z)
  BY <1>1, <1>2, <1>4, <1>5, WiringIs DEF IsWiring
<1>7. \A h \in Holders : \A i \in DOMAIN s[h] : s[h][i] # null =>
        h # o /\ i \in DOMAIN slot[h] /\ s[h][i] = slot[h][i]
  BY <1>2, <1>3
<1>8. RightMembers(z)
  BY <1>4, <1>5, <1>7, WiringIs DEF RightMembers
<1>9. MembersKnow(z, {})
  BY <1>4, <1>5, <1>7, WiringIs DEF MembersKnow
<1>10. HoldersKnow(z, {})
  <2> SUFFICES ASSUME NEW k \in Kinds, NEW m \in Objects, home[k][m] # NoHome
               PROVE  Holds(z, k, m, home[k][m])
    BY <1>4 DEF HoldersKnow
  <2> DEFINE p == home[k][m]
  <2>1. Holds(W, k, m, p)
    BY <1>5, WiringIs DEF HoldersKnow
  <2> HIDE DEF p
  <2>2. p[1] \in Holders /\ p[2] \in DOMAIN slot[p[1]] /\ slot[p[1]][p[2]] # null
    BY <2>1, WiringIs DEF Holds, DistinctObjects
  <2>3. o \notin Roots
    BY DEF Roots, DistinctObjects
  <2>4. p[1] # o
    <3> SUFFICES ASSUME p[1] = o PROVE FALSE
      OBVIOUS
    <3>1. slot[o][p[2]] \in alive /\ home[KindOf(o)][slot[o][p[2]]] = <<o, p[2]>>
      BY <1>5, <2>2, WiringIs DEF MembersKnow
    <3>2. o \in R
      BY <1>5, <2>2, WiringIs DEF DeadHoldNothing
    <3> QED
      BY <2>3, <3>2
  <2> QED
    BY <1>2, <1>4, <2>1, <2>4, WiringIs DEF Holds, p
<1>11. DeadHoldNothing(z, R)
  BY <1>2, <1>4, <1>5, WiringIs DEF DeadHoldNothing
<1>12. Listed(z)
  <2>1. \A h \in Roots : h \in Holders /\ h # o
    BY DEF Roots, Holders, DistinctObjects
  <2>2. \A h \in Roots : s[h] = slot[h]
    BY <1>2, <2>1
  <2> QED
    BY <1>4, <1>5, <2>2, WiringIs DEF Listed, Members
<1> QED
  BY <1>4, <1>6, <1>8, <1>9, <1>10, <1>11, <1>12 DEF Wired, z

LEMMA Still == ASSUME DistinctObjects, WiringInv, Becomes(W), UNCHANGED <<loose, phase>> PROVE WiringInv'
BY Reaches DEF WiringInv

LEMMA BuildMemberKeeps ==
  ASSUME DistinctObjects, WiringInv, phase \in Loading,
         NEW h \in Roots, NEW o \in MemberOf(h), NEW I, BuildMember(h, o, I)
  PROVE  WiringInv'
<1>1. /\ Present(phase) = Roots /\ Wired(W, {}, Roots) /\ Owned(W, {}) /\ loose = {} /\ loose' = {}
      /\ Present(phase') = Roots
  BY DEF WiringInv, Present, Loading, BuildMember
<1>2. h \in Holders /\ KindOf(h) = "owner" /\ o \in Objects
  <2>1. h \in Holders /\ h \notin Planes
    BY DEF Roots, Holders, DistinctObjects, Objects
  <2> QED
    BY <2>1, MemberIsObject DEF KindOf
<1>3. CASE o \in alive
  BY <1>3, Still DEF BuildMember
<1>4. CASE o \notin alive
  <2> DEFINE w0 == New(o, I)
             z0 == PlacedOrDeleted(w0, h, o, o)
             y0 == [z0 EXCEPT !.list[h] = z0.list[h] \cup ({o} \cap z0.alive)]
  <2>1. Wired(w0, {}, Roots) /\ w0.alive = alive \cup {o} /\ w0.home = home
    BY <1>1, <1>2, <1>4, NewWired
  <2>2. Becomes(y0)
    BY <1>4 DEF BuildMember
  <2> HIDE DEF w0
  <2>3. /\ Wired(z0, {}, Roots) /\ z0.alive \subseteq w0.alive
        /\ \A m \in z0.alive : z0.home["owner"][m] = IF m = o THEN <<h, o>> ELSE w0.home["owner"][m]
    BY <1>2, <2>1, PlacedOrDeletedWired
  <2> HIDE DEF z0
  <2>4. z0.list[h] \cup ({o} \cap z0.alive) \subseteq Members(z0, h)
    <3>1. z0.list[h] \subseteq Members(z0, h)
      BY <2>3 DEF Wired, Listed
    <3>2. ASSUME o \in z0.alive PROVE o \in Members(z0, h)
      <4>1. z0.home["owner"][o] = <<h, o>>
        BY <2>3, <3>2
      <4>2. Holds(z0, "owner", o, <<h, o>>)
        BY <1>2, <2>3, <4>1, PlaceIsNotNoHome DEF Wired, HoldersKnow, Kinds
      <4> QED
        BY <1>2, <4>2 DEF Holds, Members, DistinctObjects
    <3> QED
      BY <3>1, <3>2
  <2>5. Wired(y0, {}, Roots) /\ y0.home = z0.home /\ y0.alive = z0.alive
    BY <2>3, <2>4, ListWired
  <2> HIDE DEF y0
  <2>6. Owned(y0, {})
    <3> SUFFICES ASSUME NEW m \in z0.alive PROVE z0.home["owner"][m] # NoHome
      BY <2>5 DEF Owned
    <3> QED
      BY <1>1, <2>1, <2>3, PlaceIsNotNoHome, WiringIs DEF Owned
  <2>7. PICK z : z = y0
    OBVIOUS
  <2> QED
    BY <1>1, <2>2, <2>5, <2>6, <2>7, Reaches
<1> QED
  BY <1>3, <1>4

LEMMA BuildPlaneKeeps ==
  ASSUME DistinctObjects, WiringInv, NEW d \in Dets, NEW p \in Planes, NEW n, buildPlane(d, p, n)
  PROVE  WiringInv'
<1>1. /\ Present(phase) = Roots /\ Wired(W, {}, Roots) /\ Owned(W, {}) /\ loose = {} /\ loose' = {}
      /\ Present(phase') = Roots /\ p \notin alive
  BY DEF WiringInv, Present, Loading, buildPlane
<1>2. d \in Holders /\ KindOf(d) = "owner" /\ p \in Objects /\ MemberOf(d) = Planes
  <2>1. d \in Holders /\ d \notin Planes /\ d \notin FECs /\ d # "daq" /\ d # "det" /\ p \in Objects
    BY DEF Holders, DistinctObjects, Objects
  <2> QED
    BY <2>1 DEF KindOf, MemberOf
<1>3. CASE d \notin list["det"]
  BY <1>3, Still DEF buildPlane
<1>4. CASE d \in list["det"]
  <2> DEFINE w0 == New(p, Places(n))
             z0 == PlacedOrDeleted(w0, d, TypeOf[p], p)
  <2>1. Wired(w0, {}, Roots) /\ w0.alive = alive \cup {p} /\ w0.home = home
    BY <1>1, <1>2, NewWired
  <2>2. Becomes(z0)
    BY <1>4 DEF buildPlane
  <2> HIDE DEF w0
  <2>3. /\ Wired(z0, {}, Roots) /\ z0.alive \subseteq w0.alive
        /\ \A m \in z0.alive : z0.home["owner"][m] = IF m = p THEN <<d, TypeOf[p]>> ELSE w0.home["owner"][m]
    BY <1>2, <2>1, PlacedOrDeletedWired
  <2> HIDE DEF z0
  <2>4. Owned(z0, {})
    <3> SUFFICES ASSUME NEW m \in z0.alive PROVE z0.home["owner"][m] # NoHome
      BY DEF Owned
    <3> QED
      BY <1>1, <2>1, <2>3, PlaceIsNotNoHome, WiringIs DEF Owned
  <2>5. PICK z : z = z0
    OBVIOUS
  <2> QED
    BY <1>1, <2>2, <2>3, <2>4, <2>5, Reaches
<1> QED
  BY <1>3, <1>4

LEMMA BuildAPVKeeps ==
  ASSUME DistinctObjects, WiringInv, NEW f \in FECs, NEW ch, NEW p \in Planes, NEW i, NEW a \in APVs,
         buildAPV(f, ch, p, i, a)
  PROVE  WiringInv'
<1>1. /\ Present(phase) = Roots /\ Wired(W, {}, Roots) /\ Owned(W, {}) /\ loose = {} /\ loose' = {}
      /\ Present(phase') = Roots /\ a \notin alive
  BY DEF WiringInv, Present, Loading, buildAPV
<1>2. f \in Holders /\ KindOf(f) = "owner" /\ a \in Objects /\ MemberOf(f) = APVs
  <2>1. f \in Holders /\ f \notin Planes /\ f # "daq" /\ f # "det" /\ a \in Objects
    BY DEF Holders, DistinctObjects, Objects
  <2>2. f \in FECs \cup Planes
    OBVIOUS
  <2> QED
    BY <2>1, <2>2 DEF KindOf, MemberOf, DistinctObjects
<1>3. CASE f \notin alive
  BY <1>3, Still DEF buildAPV
<1>4. CASE f \in alive
  <2> DEFINE w0 == New(a, {})
             z0 == PlacedOrDeleted(w0, f, ch, a)
             y0 == Connected(z0, p, i, a)
  <2>1. Wired(w0, {}, Roots) /\ w0.alive = alive \cup {a} /\ w0.home = home
    BY <1>1, <1>2, NewWired
  <2>2. Becomes(IF a \in z0.alive THEN y0 ELSE z0)
    BY <1>4 DEF buildAPV
  <2> HIDE DEF w0
  <2>3. /\ Wired(z0, {}, Roots) /\ z0.alive \subseteq w0.alive
        /\ \A m \in z0.alive : z0.home["owner"][m] = IF m = a THEN <<f, ch>> ELSE w0.home["owner"][m]
    BY <1>2, <2>1, PlacedOrDeletedWired
  <2> HIDE DEF z0
  <2>4. Owned(z0, {})
    <3> SUFFICES ASSUME NEW m \in z0.alive PROVE z0.home["owner"][m] # NoHome
      BY DEF Owned
    <3> QED
      BY <1>1, <2>1, <2>3, PlaceIsNotNoHome, WiringIs DEF Owned
  <2>5. CASE a \notin z0.alive
    <3>1. PICK z : z = z0
      OBVIOUS
    <3>2. Becomes(z)
      BY <2>2, <2>5, <3>1
    <3> QED
      BY <1>1, <2>3, <2>4, <3>1, <3>2, Reaches
  <2>6. CASE a \in z0.alive
    <3>1. /\ Wired(y0, {}, Roots) /\ y0.alive = z0.alive
          /\ \A m \in z0.alive : y0.home["owner"][m] = z0.home["owner"][m]
      BY <2>3, <2>6, ConnectedWired
    <3>2. Becomes(y0)
      BY <2>2, <2>6
    <3> HIDE DEF y0
    <3>3. Owned(y0, {})
      BY <2>4, <3>1 DEF Owned
    <3>4. PICK z : z = y0
      OBVIOUS
    <3> QED
      BY <1>1, <3>1, <3>2, <3>3, <3>4, Reaches
  <2> QED
    BY <2>5, <2>6
<1> QED
  BY <1>3, <1>4

LEMMA RebuiltWired ==
  ASSUME NEW w, NEW R, Wired(w, {}, R)
  PROVE  /\ Wired(RebuildDAQMap(w), {}, R) /\ Wired(RebuildDetectorMap(w), {}, R)
         /\ RebuildDAQMap(w).alive = w.alive /\ RebuildDetectorMap(w).alive = w.alive
         /\ RebuildDAQMap(w).home = w.home /\ RebuildDetectorMap(w).home = w.home
<1>1. "daq" \in Roots /\ "det" \in Roots
  BY DEF Roots
<1> DEFINE a == [w EXCEPT !.list["daq"] = Members(w, "daq")]
           b == [w EXCEPT !.list["det"] = Members(w, "det")]
<1>2. Wired(a, {}, R) /\ a.alive = w.alive /\ a.home = w.home
  BY <1>1, ListWired
<1>3. Wired(b, {}, R) /\ b.alive = w.alive /\ b.home = w.home
  BY <1>1, ListWired
<1> QED
  BY <1>2, <1>3 DEF RebuildDAQMap, RebuildDetectorMap

LEMMA ReadMapKeeps ==
  ASSUME DistinctObjects, WiringInv, ReadMapFile PROVE WiringInv'
<1>1. /\ Wired(W, {}, Roots) /\ Owned(W, {}) /\ loose = {} /\ loose' = {}
      /\ Present(phase') = Roots
  BY DEF WiringInv, Present, Loading, ReadMapFile
<1>2. CASE phase = "APV"
  <2> DEFINE u == RebuildDAQMap(W)
             v == RebuildDetectorMap(u)
  <2>1. Wired(u, {}, Roots) /\ u.alive = alive /\ u.home = home
    BY <1>1, RebuiltWired, WiringIs
  <2> HIDE DEF u
  <2>2. Wired(v, {}, Roots) /\ v.alive = alive /\ v.home = home
    BY <2>1, RebuiltWired
  <2>3. Becomes(v)
    BY <1>2 DEF ReadMapFile, u
  <2> HIDE DEF v
  <2>4. Owned(v, {})
    BY <1>1, <2>2, WiringIs DEF Owned
  <2>5. PICK z : z = v
    OBVIOUS
  <2> QED
    BY <1>1, <2>2, <2>3, <2>4, <2>5, Reaches
<1>3. CASE phase # "APV"
  <2>1. Becomes(W)
    BY <1>3 DEF ReadMapFile
  <2>2. PICK z : z = W
    OBVIOUS
  <2> QED
    BY <1>1, <2>1, <2>2, Reaches
<1> QED
  BY <1>2, <1>3

LEMMA LoadKeeps ==
  ASSUME DistinctObjects, WiringInv, Load PROVE WiringInv'
<1>1. ASSUME NEW d \in Dets, buildDetector(d) PROVE WiringInv'
  <2>1. "det" \in Roots /\ d \in MemberOf("det") /\ phase \in Loading
    BY <1>1 DEF Roots, MemberOf, Loading, buildDetector, DistinctObjects, Objects
  <2> QED
    BY <1>1, <2>1, BuildMemberKeeps DEF buildDetector
<1>2. ASSUME NEW f \in FECs, NEW n \in Caps, buildFEC(f, n) PROVE WiringInv'
  <2>1. "daq" \in Roots /\ f \in MemberOf("daq") /\ phase \in Loading
    BY <1>2 DEF Roots, MemberOf, Loading, buildFEC, DistinctObjects, Objects
  <2> QED
    BY <1>2, <2>1, BuildMemberKeeps DEF buildFEC
<1> QED
  BY <1>1, <1>2, BuildPlaneKeeps, BuildAPVKeeps, ReadMapKeeps DEF Load

-----------------------------------------------------------------------------
(* The public functions.  An action of Use leaves the phase alone.         *)

(* What is left once members S of h have gone from places Y.               *)
LEMMA DisconnectedKeeps ==
  ASSUME DistinctObjects, WiringInv, NEW h \in Holders, NEW S, NEW Y,
         \A o \in S \cap Objects : home[KindOf(h)][o] \in Y \cup {NoHome},
         \A g \in Holders : \A i \in DOMAIN slot[g] : <<g, i>> \in Y /\ slot[g][i] # null =>
            KindOf(g) = KindOf(h) /\ slot[g][i] \in S,
         Becomes(Forgotten(Emptied(W, Y), KindOf(h), S)),
         loose' = IF KindOf(h) = "owner" THEN loose \cup S ELSE loose,
         phase \in {"ready", "gone"}, phase' = phase
  PROVE  WiringInv'
<1> DEFINE k == KindOf(h)
           e == Emptied(W, Y)
           u == Forgotten(e, k, S)
<1>1. k \in Kinds
  BY MemberIsObject
<1>2. Wired(W, {}, Present(phase)) /\ Owned(W, loose)
  BY DEF WiringInv
<1>3. Wired(u, {}, Present(phase))
  BY <1>1, <1>2, DisconnectWired, WiringIs
<1>4. IsWiring(e) /\ e.home = home /\ e.alive = alive
  BY <1>2, EmptiedIs, WiringIs DEF Wired
<1> HIDE DEF e
<1>5. /\ u.alive = alive
      /\ \A j \in Kinds, o \in Objects : u.home[j][o] = IF j = k /\ o \in S THEN NoHome ELSE home[j][o]
  BY <1>1, <1>4, ForgottenIs
<1>6. Becomes(u)
  BY DEF e
<1> HIDE DEF u
<1>7. Owned(u, loose')
  <2> SUFFICES ASSUME NEW o \in alive PROVE o \in loose' <=> u.home["owner"][o] = NoHome
    BY <1>5 DEF Owned
  <2>1. o \in Objects /\ "owner" \in Kinds
    BY <1>2, WiringIs DEF Wired, IsWiring, Kinds
  <2>2. o \in loose <=> home["owner"][o] = NoHome
    BY <1>2, WiringIs DEF Owned
  <2> QED
    BY <1>5, <2>1, <2>2
<1>8. phase' \notin Loading
  BY DEF Loading
<1>9. PICK z : z = u
  OBVIOUS
<1> QED
  BY <1>3, <1>6, <1>7, <1>8, <1>9, Reaches

LEMMA DisconnectKeeps ==
  ASSUME DistinctObjects, WiringInv, NEW h \in Holders, NEW i, Disconnect(h, i),
         phase \in {"ready", "gone"}, phase' = phase
  PROVE  WiringInv'
<1> DEFINE o == slot[h][i]
           Y == {<<h, i>>}
<1>1. i \in DOMAIN slot[h] /\ o # null
  BY DEF Disconnect
<1>2. home[KindOf(h)][o] = <<h, i>>
  BY <1>1, WiringIs DEF WiringInv, Wired, MembersKnow
<1>3. \A g \in Holders : \A j \in DOMAIN slot[g] : <<g, j>> \in Y /\ slot[g][j] # null =>
        KindOf(g) = KindOf(h) /\ slot[g][j] \in {o}
  OBVIOUS
<1>4. \A m \in {o} \cap Objects : home[KindOf(h)][m] \in Y \cup {NoHome}
  BY <1>2
<1>5. loose' = IF KindOf(h) = "owner" THEN loose \cup {o} ELSE loose
  BY DEF Disconnect, TakenOut, KindOf
<1>6. Becomes(Forgotten(Emptied(W, Y), KindOf(h), {o}))
  BY DEF Disconnect
<1> HIDE DEF o, Y
<1> QED
  BY <1>3, <1>4, <1>5, <1>6, DisconnectedKeeps

LEMMA UnsetKeeps ==
  ASSUME DistinctObjects, WiringInv, NEW k \in Kinds, NEW o \in Objects,
         Becomes(Unset(W, k, {o})), loose' = IF k = "owner" THEN loose \cup {o} ELSE loose,
         phase \in {"ready", "gone"}, phase' = phase
  PROVE  WiringInv'
<1> DEFINE u == Unset(W, k, {o})
<1>1. Wired(W, {}, Present(phase)) /\ Owned(W, loose)
  BY DEF WiringInv
<1>2. /\ Wired(u, {}, Present(phase)) /\ u.alive = alive
      /\ \A j \in Kinds, m \in Objects : u.home[j][m] = IF j = k /\ m \in {o} THEN NoHome ELSE home[j][m]
  BY <1>1, UnsetWired, WiringIs
<1>3. Becomes(u)
  OBVIOUS
<1> HIDE DEF u
<1>4. Owned(u, loose')
  <2> SUFFICES ASSUME NEW m \in alive PROVE m \in loose' <=> u.home["owner"][m] = NoHome
    BY <1>2 DEF Owned
  <2>1. m \in Objects /\ "owner" \in Kinds
    BY <1>1, WiringIs DEF Wired, IsWiring, Kinds
  <2>2. m \in loose <=> home["owner"][m] = NoHome
    BY <1>1, WiringIs DEF Owned
  <2> QED
    BY <1>2, <2>1, <2>2
<1>5. phase' \notin Loading
  BY DEF Loading
<1>6. PICK z : z = u
  OBVIOUS
<1> QED
  BY <1>2, <1>3, <1>4, <1>5, <1>6, Reaches

(* A member forgets its holder, is deleted, and then its place is freed.   *)
LEMMA RemoveKeeps ==
  ASSUME DistinctObjects, WiringInv, NEW h \in Holders \ Planes, NEW i, Remove(h, i),
         phase \in {"ready", "gone"}, phase' = phase
  PROVE  WiringInv'
<1> DEFINE o == slot[h][i]
           Y == {<<h, i>>}
           u == Forgotten(W, "owner", {o})
           v == Destroyed(u, o)
           e == Emptied(v, Y)
           R == Present(phase)
<1>1. Wired(W, {}, R) /\ Owned(W, loose)
  BY DEF WiringInv
<1>2. i \in DOMAIN slot[h] /\ o # null /\ KindOf(h) = "owner" /\ "owner" \in Kinds
  BY DEF Remove, KindOf, Kinds
<1>3. o \in alive /\ home["owner"][o] = <<h, i>> /\ o \in MemberOf(h)
  BY <1>1, <1>2, WiringIs DEF Wired, MembersKnow, RightMembers
<1>4. o \in Objects /\ o # h
  <2>1. o \in Objects
    BY <1>3, MemberIsObject
  <2>2. h \in APVs => FALSE
    BY DEF Holders, DistinctObjects, Objects
  <2>3. o # h
    BY <1>3, <2>1, <2>2 DEF MemberOf, Holders, DistinctObjects, Objects
  <2> QED
    BY <2>1, <2>3
<1>5. \A g, j : <<g, j>> \in Y <=> g = h /\ j = i
  OBVIOUS
<1>6. Becomes(e)
  BY DEF Remove
<1> HIDE DEF o, Y, R
<1>7. Wired(u, {} \cup Y, R)
  <2>1. \A m \in {o} \cap Objects : home["owner"][m] \in Y \cup {NoHome}
    BY <1>3, <1>5
  <2>2. \A g \in Holders : \A j \in DOMAIN slot[g] : <<g, j>> \in Y /\ slot[g][j] # null =>
          KindOf(g) = "owner" /\ slot[g][j] \in {o}
    BY <1>2, <1>5 DEF o
  <2> QED
    BY <1>1, <1>2, <2>1, <2>2, ForgetWired, WiringIs
<1>8. /\ u.alive = alive
      /\ \A j \in Kinds, m \in Objects : u.home[j][m] = IF j = "owner" /\ m \in {o} THEN NoHome ELSE home[j][m]
  BY <1>1, <1>2, ForgottenIs, WiringIs DEF Wired
<1> HIDE DEF u
<1>9. Wired(u, Y, R)
  BY <1>7
<1>10. Apart(u, ({o} \cup Planes) \cap Holders, Y)
  BY <1>4, <1>5 DEF Apart
<1>11. PICK D : o \in D /\ TakenDown(u, v, Y, R, D)
  BY <1>3, <1>8, <1>9, <1>10, DestroyedWired
<1> HIDE DEF v
<1>12. Wired(v, Y, R) /\ v.alive = alive \ D /\ \A m \in v.alive : v.home["owner"][m] = u.home["owner"][m]
  BY <1>8, <1>11 DEF TakenDown
<1>13. Wired(e, Y \ Y, R)
  BY <1>12, EmptyWired
<1>14. e.alive = v.alive /\ e.home = v.home
  BY <1>12, EmptiedIs DEF Wired
<1> HIDE DEF e
<1>15. Wired(e, {}, R)
  <2>1. Y \ Y = {}
    OBVIOUS
  <2> QED
    BY <1>13, <2>1
<1>16. Owned(e, loose)
  <2> SUFFICES ASSUME NEW m \in v.alive PROVE m \in loose <=> v.home["owner"][m] = NoHome
    BY <1>14 DEF Owned
  <2>1. m \in alive /\ m # o /\ m \in Objects
    BY <1>1, <1>11, <1>12, WiringIs DEF Wired, IsWiring
  <2>2. v.home["owner"][m] = home["owner"][m]
    BY <1>2, <1>8, <1>12, <2>1
  <2> QED
    BY <1>1, <2>1, <2>2, WiringIs DEF Owned
<1>17. phase' \notin Loading /\ loose' = loose
  BY DEF Loading, Remove
<1>18. PICK z : z = e
  OBVIOUS
<1> QED
  BY <1>6, <1>15, <1>16, <1>17, <1>18, Reaches DEF R

LEMMA AddKeeps ==
  ASSUME DistinctObjects, WiringInv, NEW h \in Holders, NEW i, NEW o \in MemberOf(h), Add(h, i, o),
         phase \in {"ready", "gone"}, phase' = phase
  PROVE  WiringInv'
<1> DEFINE k == KindOf(h)
           u == Placed(W, h, i, o)
<1>1. Wired(W, {}, Present(phase)) /\ Owned(W, loose) /\ k \in Kinds /\ o \in Objects
  BY MemberIsObject DEF WiringInv
<1>2. o \in alive /\ i \in DOMAIN slot[h] /\ slot[h][i] = null
  BY <1>1 DEF Add, IsFree, DistinctObjects
<1>3. /\ Wired(u, {}, Present(phase)) /\ u.alive = alive
      /\ \A j \in Kinds, m \in Objects : u.home[j][m] = IF j = k /\ m = o THEN <<h, i>> ELSE home[j][m]
  BY <1>1, <1>2, PlacedWired, WiringIs
<1>4. Becomes(u) /\ loose' = IF k = "owner" THEN loose \ {o} ELSE loose
  BY DEF Add, Kept, KindOf
<1> HIDE DEF u, k
<1>5. Owned(u, loose')
  <2> SUFFICES ASSUME NEW m \in alive PROVE m \in loose' <=> u.home["owner"][m] = NoHome
    BY <1>3 DEF Owned
  <2>1. m \in Objects /\ "owner" \in Kinds
    BY <1>1, WiringIs DEF Wired, IsWiring, Kinds
  <2>2. m \in loose <=> home["owner"][m] = NoHome
    BY <1>1, WiringIs DEF Owned
  <2> QED
    BY <1>3, <1>4, <2>1, <2>2, PlaceIsNotNoHome
<1>6. phase' \notin Loading
  BY DEF Loading
<1>7. PICK z : z = u
  OBVIOUS
<1> QED
  BY <1>3, <1>4, <1>5, <1>6, <1>7, Reaches

LEMMA DisconnectAPVsKeeps ==
  ASSUME DistinctObjects, WiringInv, NEW p \in Planes, DisconnectAPVs(p),
         phase \in {"ready", "gone"}, phase' = phase
  PROVE  WiringInv'
<1> DEFINE Y == {p} \X DOMAIN slot[p]
           S == Members(W, p)
<1>1. p \in Holders /\ KindOf(p) = "plane"
  BY DEF Holders, KindOf
<1>2. \A g, j : <<g, j>> \in Y <=> g = p /\ j \in DOMAIN slot[p]
  OBVIOUS
<1>3. \A m : m \in S <=> m # null /\ \E j \in DOMAIN slot[p] : m = slot[p][j]
  BY WiringIs DEF Members
<1>4. Becomes(Forgotten(Emptied(W, Y), "plane", S)) /\ loose' = loose
  BY DEF DisconnectAPVs
<1> HIDE DEF Y, S
<1>5. \A m \in S \cap Objects : home["plane"][m] \in Y \cup {NoHome}
  <2> SUFFICES ASSUME NEW j \in DOMAIN slot[p], slot[p][j] # null
               PROVE  home["plane"][slot[p][j]] \in Y
    BY <1>3
  <2>1. MembersKnow(W, {})
    BY DEF WiringInv, Wired
  <2>2. home["plane"][slot[p][j]] = <<p, j>>
    BY <1>1, <2>1, WiringIs DEF MembersKnow
  <2> QED
    BY <1>2, <2>2
<1>6. \A g \in Holders : \A j \in DOMAIN slot[g] : <<g, j>> \in Y /\ slot[g][j] # null =>
        KindOf(g) = "plane" /\ slot[g][j] \in S
  BY <1>1, <1>2, <1>3
<1> QED
  BY <1>1, <1>4, <1>5, <1>6, DisconnectedKeeps

(* A FEC or a plane gets another capacity.                                 *)
LEMMA ResizedKeeps ==
  ASSUME DistinctObjects, WiringInv, NEW h \in (FECs \cup Planes) \cap alive, NEW n,
         Becomes(Resized(h, n)),
         loose' = IF KindOf(h) = "owner" THEN loose \cup Beyond(h, n) ELSE loose,
         phase \in {"ready", "gone"}, phase' = phase
  PROVE  WiringInv'
<1> DEFINE k == KindOf(h)
           S == Beyond(h, n)
           Y == {<<h, i>> : i \in DOMAIN slot[h] \ Places(n)}
           u == Forgotten(W, k, S)
           v == [i \in Places(n) |-> IF i \in DOMAIN slot[h] THEN slot[h][i] ELSE null]
           s == [u.slot EXCEPT ![h] = v]
           z == [u EXCEPT !.slot = s]
           R == Present(phase)
<1>1. Wired(W, {}, R) /\ Owned(W, loose)
  BY DEF WiringInv
<1>2. h \in Holders /\ h \notin Roots /\ k \in Kinds
  BY DEF Holders, Roots, KindOf, Kinds, DistinctObjects, Objects
<1>3. \A g, j : <<g, j>> \in Y <=> g = h /\ j \in DOMAIN slot[h] \ Places(n)
  OBVIOUS
<1>4. \A m : m \in S <=> m # null /\ \E j \in DOMAIN slot[h] \ Places(n) : m = slot[h][j]
  BY DEF Beyond
<1>5. Resized(h, n) = z
  BY DEF Resized
<1>6. DOMAIN v = Places(n) /\ \A i \in Places(n) : v[i] = IF i \in DOMAIN slot[h] THEN slot[h][i] ELSE null
  OBVIOUS
<1> HIDE DEF k, S, Y, v, R
<1>7. Wired(u, Y, R)
  <2>1. \A m \in S \cap Objects : home[k][m] \in Y \cup {NoHome}
    <3> SUFFICES ASSUME NEW j \in DOMAIN slot[h] \ Places(n), slot[h][j] # null
                 PROVE  home[k][slot[h][j]] \in Y
      BY <1>4
    <3>1. MembersKnow(W, {})
      BY <1>1 DEF Wired
    <3>2. home[k][slot[h][j]] = <<h, j>>
      BY <1>2, <3>1, WiringIs DEF MembersKnow, k
    <3> QED
      BY <1>3, <3>2
  <2>2. \A g \in Holders : \A j \in DOMAIN slot[g] : <<g, j>> \in Y /\ slot[g][j] # null =>
          KindOf(g) = k /\ slot[g][j] \in S
    BY <1>3, <1>4 DEF k
  <2>3. Wired(u, {} \cup Y, R)
    BY <1>1, <1>2, <2>1, <2>2, ForgetWired, WiringIs
  <2> QED
    BY <2>3
<1>8. /\ IsWiring(u) /\ u.slot = slot /\ u.alive = alive /\ u.list = list
      /\ \A j \in Kinds, o \in Objects : u.home[j][o] = IF j = k /\ o \in S THEN NoHome ELSE home[j][o]
  BY <1>1, <1>2, ForgottenIs, WiringIs DEF Wired
<1> HIDE DEF u
<1>9. s = [g \in Holders |-> s[g]] /\ \A g \in Holders : s[g] = IF g = h THEN v ELSE slot[g]
  BY <1>8 DEF IsWiring
<1> HIDE DEF s
<1>10. z = [slot |-> s, home |-> u.home, alive |-> alive, list |-> list]
  BY <1>8 DEF IsWiring
<1>11. z.slot = s /\ z.home = u.home /\ z.alive = alive /\ z.list = list
  BY <1>10
<1> HIDE DEF z
<1>12. IsWiring(z)
  BY <1>8, <1>9, <1>10, <1>11 DEF IsWiring
<1>13. \A g \in Holders : \A j \in DOMAIN s[g] : s[g][j] # null =>
         j \in DOMAIN slot[g] /\ s[g][j] = slot[g][j] /\ <<g, j>> \notin Y
  BY <1>3, <1>6, <1>9
<1>14. RightMembers(z)
  <2> SUFFICES ASSUME NEW g \in Holders, NEW j \in DOMAIN s[g], s[g][j] # null
               PROVE  s[g][j] \in MemberOf(g)
    BY <1>11 DEF RightMembers
  <2> QED
    BY <1>1, <1>13, WiringIs DEF Wired, RightMembers
<1>15. MembersKnow(z, {})
  <2> SUFFICES ASSUME NEW g \in Holders, NEW j \in DOMAIN s[g], s[g][j] # null
               PROVE  s[g][j] \in alive /\ u.home[KindOf(g)][s[g][j]] = <<g, j>>
    BY <1>11 DEF MembersKnow
  <2>1. j \in DOMAIN u.slot[g] /\ u.slot[g][j] = s[g][j] /\ <<g, j>> \notin Y
    BY <1>8, <1>13
  <2>2. MembersKnow(u, Y)
    BY <1>7 DEF Wired
  <2>3. u.slot[g][j] \in u.alive /\ u.home[KindOf(g)][u.slot[g][j]] = <<g, j>>
    BY <2>1, <2>2 DEF MembersKnow
  <2> QED
    BY <1>8, <2>1, <2>3
<1>16. HoldersKnow(z, {})
  <2> SUFFICES ASSUME NEW j \in Kinds, NEW o \in Objects, u.home[j][o] # NoHome
               PROVE  Holds(z, j, o, u.home[j][o])
    BY <1>11 DEF HoldersKnow
  <2> DEFINE p == u.home[j][o]
  <2>1. p \notin Y /\ Holds(u, j, o, p)
    BY <1>7 DEF Wired, HoldersKnow
  <2> HIDE DEF p
  <2>2. p = <<p[1], p[2]>> /\ p[1] \in Holders /\ p[2] \in DOMAIN slot[p[1]] /\ slot[p[1]][p[2]] = o
    BY <1>8, <2>1 DEF Holds
  <2>3. p[2] \in DOMAIN s[p[1]] /\ s[p[1]][p[2]] = o
    <3>1. CASE p[1] = h
      <4>1. p[2] \in Places(n)
        BY <1>3, <2>1, <2>2, <3>1
      <4> QED
        BY <1>6, <1>9, <2>2, <3>1, <4>1
    <3>2. CASE p[1] # h
      BY <1>9, <2>2, <3>2
    <3> QED
      BY <3>1, <3>2
  <2> QED
    BY <1>11, <2>1, <2>2, <2>3 DEF Holds, p
<1>17. DeadHoldNothing(z, R)
  <2>1. DeadHoldNothing(W, R)
    BY <1>1 DEF Wired
  <2> QED
    BY <1>9, <1>11, <2>1, WiringIs DEF DeadHoldNothing
<1>18. Listed(z)
  <2>1. \A g \in Roots : g \in Holders /\ g # h
    BY <1>2 DEF Roots, Holders
  <2>2. \A g \in Roots : s[g] = slot[g]
    BY <1>9, <2>1
  <2>3. Listed(W)
    BY <1>1 DEF Wired
  <2> QED
    BY <1>11, <2>2, <2>3, WiringIs DEF Listed, Members
<1>19. Wired(z, {}, R)
  BY <1>12, <1>14, <1>15, <1>16, <1>17, <1>18 DEF Wired
<1>20. Owned(z, loose')
  <2> SUFFICES ASSUME NEW o \in alive PROVE o \in loose' <=> u.home["owner"][o] = NoHome
    BY <1>11 DEF Owned
  <2>1. o \in Objects /\ "owner" \in Kinds
    BY <1>1, WiringIs DEF Wired, IsWiring, Kinds
  <2>2. o \in loose <=> home["owner"][o] = NoHome
    BY <1>1, WiringIs DEF Owned
  <2>3. loose' = IF k = "owner" THEN loose \cup S ELSE loose
    BY DEF k, S
  <2>4. u.home["owner"][o] = IF "owner" = k /\ o \in S THEN NoHome ELSE home["owner"][o]
    BY <1>8, <2>1
  <2> QED
    BY <2>2, <2>3, <2>4
<1>21. phase' \notin Loading
  BY DEF Loading
<1>22. PICK y : y = z
  OBVIOUS
<1> QED
  BY <1>5, <1>19, <1>20, <1>21, <1>22, Reaches DEF R

LEMMA DeleteKeeps ==
  ASSUME DistinctObjects, WiringInv, NEW o \in Objects, Delete(o),
         phase \in {"ready", "gone"}, phase' = phase
  PROVE  WiringInv'
<1> DEFINE u == Destroyed(W, o)
           R == Present(phase)
<1>1. Wired(W, {}, R) /\ Owned(W, loose) /\ o \in alive
  BY DEF WiringInv, Delete
<1>2. Apart(W, ({o} \cup Planes) \cap Holders, {})
  BY DEF Apart
<1>3. PICK D : o \in D /\ TakenDown(W, u, {}, R, D)
  BY <1>1, <1>2, DestroyedWired, WiringIs
<1>4. Becomes(u) /\ loose' = loose \cap u.alive
  BY DEF Delete
<1> HIDE DEF u
<1>5. Wired(u, {}, R) /\ u.alive = alive \ D /\ \A m \in u.alive : u.home["owner"][m] = home["owner"][m]
  BY <1>3, WiringIs DEF TakenDown
<1>6. Owned(u, loose')
  BY <1>1, <1>4, <1>5, WiringIs DEF Owned
<1>7. phase' \notin Loading
  BY DEF Loading
<1>8. PICK z : z = u
  OBVIOUS
<1> QED
  BY <1>4, <1>5, <1>6, <1>7, <1>8, Reaches

LEMMA RebuildKeeps ==
  ASSUME DistinctObjects, WiringInv, RebuildMap, phase \in {"ready", "gone"}, phase' = phase
  PROVE  WiringInv'
<1> DEFINE a == RebuildDAQMap(W)
           b == RebuildDetectorMap(W)
           R == Present(phase)
<1>1. Wired(W, {}, R) /\ Owned(W, loose)
  BY DEF WiringInv
<1>2. /\ Wired(a, {}, R) /\ a.alive = alive /\ a.home = home
      /\ Wired(b, {}, R) /\ b.alive = alive /\ b.home = home
  BY <1>1, RebuiltWired, WiringIs
<1>3. (Becomes(a) \/ Becomes(b)) /\ loose' = loose /\ phase' \notin Loading
  BY DEF RebuildMap, Loading
<1> HIDE DEF a, b
<1>4. Owned(a, loose) /\ Owned(b, loose)
  BY <1>1, <1>2, WiringIs DEF Owned
<1>5. PICK z : (z = a \/ z = b) /\ Becomes(z)
  BY <1>3
<1> QED
  BY <1>2, <1>3, <1>4, <1>5, Reaches

(* The destructor of the system: FECs, then detectors, then what they were *)
(* held by.                                                                *)
FromRoot(w, u, X, R, r) ==
  /\ Wired(u, X \cup PlacesOf(w, {r}), R)
  /\ Members(w, r) \subseteq MemberOf(r) \cap w.alive
  /\ u.alive = w.alive /\ u.slot = w.slot
  /\ \A o \in Objects \ Members(w, r) : u.home["owner"][o] = w.home["owner"][o]

LEMMA TakenFromRoot ==
  ASSUME DistinctObjects, NEW w, NEW X, NEW R, Wired(w, X, R), NEW r \in Roots,
         Apart(w, {r}, X)
  PROVE  FromRoot(w, Forgotten(w, "owner", Members(w, r)), X, R, r)
<1> DEFINE F == Members(w, r)
           Y == PlacesOf(w, {r})
           u == Forgotten(w, "owner", F)
<1>1. r \in Holders /\ KindOf(r) = "owner" /\ "owner" \in Kinds
  BY DEF Roots, Holders, KindOf, Kinds, DistinctObjects, Objects
<1>2. \A m : m \in F <=> m # null /\ \E i \in DOMAIN w.slot[r] : m = w.slot[r][i]
  BY DEF Members
<1> HIDE DEF F
<1>3. \A m \in F : m \in MemberOf(r) /\ m \in w.alive /\ w.home["owner"][m] \in Y
  <2> SUFFICES ASSUME NEW i \in DOMAIN w.slot[r], w.slot[r][i] # null
               PROVE  LET m == w.slot[r][i]
                      IN  m \in MemberOf(r) /\ m \in w.alive /\ w.home["owner"][m] \in Y
    BY <1>2
  <2>1. <<r, i>> \in Y /\ <<r, i>> \notin X
    BY PlaceOf DEF Apart
  <2>2. w.slot[r][i] \in MemberOf(r)
    BY <1>1 DEF Wired, RightMembers
  <2>3. MembersKnow(w, X)
    BY DEF Wired
  <2>4. w.slot[r][i] \in w.alive /\ w.home["owner"][w.slot[r][i]] = <<r, i>>
    BY <1>1, <2>1, <2>3 DEF MembersKnow
  <2> QED
    BY <2>1, <2>2, <2>4
<1>4. \A g \in Holders : \A i \in DOMAIN w.slot[g] : <<g, i>> \in Y /\ w.slot[g][i] # null =>
        KindOf(g) = "owner" /\ w.slot[g][i] \in F
  BY <1>1, <1>2, PlaceOf
<1>5. Wired(u, X \cup Y, R)
  BY <1>1, <1>3, <1>4, ForgetWired
<1>6. /\ u.slot = w.slot /\ u.alive = w.alive
      /\ \A j \in Kinds, o \in Objects : u.home[j][o] = IF j = "owner" /\ o \in F THEN NoHome ELSE w.home[j][o]
  BY <1>1, ForgottenIs DEF Wired
<1> HIDE DEF u
<1>7. \A o \in Objects \ F : u.home["owner"][o] = w.home["owner"][o]
  BY <1>1, <1>6
<1> QED
  BY <1>3, <1>5, <1>6, <1>7 DEF u, F, FromRoot

LEMMA DestroySystemKeeps ==
  ASSUME DistinctObjects, WiringInv, phase = "ready", DestroySystem
  PROVE  WiringInv'
<1> DEFINE F == Members(W, "daq")
           a == Forgotten(W, "owner", F)
           u == DestroyFECs(a, F)
           D == Members(u, "det")
           b == Forgotten(u, "owner", D)
           v == DestroyDets(b, D)
           z == Without(v, Roots)
           y == [z EXCEPT !.list = [h \in Roots |-> {}]]
           X == PlacesOf(W, {"daq"})
           Y == PlacesOf(u, {"det"})
<1>1. Wired(W, {}, Roots) /\ Owned(W, loose) /\ phase' = "gone" /\ loose' = loose
  BY DEF WiringInv, Present, DestroySystem
<1>2. Becomes(y)
  <2>1. Clear(W) = v
    BY DEF Clear
  <2>2. Becomes([Without(Clear(W), {"daq", "det"}) EXCEPT !.list = [h \in {"daq", "det"} |-> {}]])
    BY DEF DestroySystem
  <2> HIDE DEF v
  <2>3. Roots = {"daq", "det"}
    BY DEF Roots
  <2> QED
    BY <2>1, <2>2, <2>3, Zenon
<1>3. /\ "daq" \in Roots /\ "det" \in Roots /\ "daq" # "det" /\ Roots \subseteq Holders
      /\ Roots \cap Objects = {} /\ MemberOf("daq") = FECs /\ MemberOf("det") = Dets
  BY DEF Roots, Holders, MemberOf, DistinctObjects, Objects
<1> HIDE DEF F
<1>5. /\ Wired(a, X, Roots) /\ F \subseteq FECs \cap alive /\ a.alive = alive /\ a.slot = slot
      /\ \A o \in Objects \ F : a.home["owner"][o] = home["owner"][o]
  <2>1. Apart(W, {"daq"}, {})
    BY DEF Apart
  <2>2. FromRoot(W, a, {}, Roots, "daq")
    BY <1>1, <1>3, <2>1, TakenFromRoot DEF F
  <2>3. /\ Wired(a, {} \cup X, Roots)
        /\ F \subseteq MemberOf("daq") \cap alive /\ a.alive = alive /\ a.slot = slot
        /\ \A o \in Objects \ F : a.home["owner"][o] = home["owner"][o]
    BY <2>2, WiringIs DEF FromRoot, F
  <2>4. {} \cup X = X
    OBVIOUS
  <2> QED
    BY <1>3, <2>3, <2>4
<1>6. \A h, i : <<h, i>> \in X <=> h = "daq" /\ i \in DOMAIN slot["daq"]
  <2>1. \A h, i : <<h, i>> \in X <=> h \in {"daq"} /\ i \in DOMAIN W.slot[h]
    BY PlaceOf
  <2> QED
    BY <2>1, WiringIs
<1> HIDE DEF X, a
<1>7. Apart(a, F, X)
  <2>1. \A h \in F : h # "daq"
    BY <1>3, <1>5 DEF Objects
  <2> QED
    BY <1>6, <2>1 DEF Apart
<1>8. PICK D1 : F \subseteq D1 /\ TakenDown(a, u, X, Roots, D1)
  BY <1>5, <1>7, DestroyFECsWired
<1> HIDE DEF u
<1>9. /\ Wired(u, X, Roots) /\ u.alive = alive \ D1
      /\ \A o \in u.alive : u.home["owner"][o] = a.home["owner"][o]
      /\ \A h \in Holders : DOMAIN u.slot[h] \subseteq DOMAIN slot[h]
  BY <1>5, <1>8 DEF TakenDown
<1> HIDE DEF D
<1>10. /\ Wired(b, X \cup Y, Roots) /\ D \subseteq Dets \cap u.alive /\ b.alive = u.alive /\ b.slot = u.slot
       /\ \A o \in Objects \ D : b.home["owner"][o] = u.home["owner"][o]
  <2>1. Apart(u, {"det"}, X)
    BY <1>6 DEF Apart
  <2>2. FromRoot(u, b, X, Roots, "det")
    BY <1>3, <1>9, <2>1, TakenFromRoot DEF D
  <2> QED
    BY <1>3, <2>2 DEF FromRoot, D
<1>11. \A h, i : <<h, i>> \in Y <=> h = "det" /\ i \in DOMAIN u.slot["det"]
  <2>1. \A h, i : <<h, i>> \in Y <=> h \in {"det"} /\ i \in DOMAIN u.slot[h]
    BY PlaceOf
  <2> QED
    BY <2>1
<1> HIDE DEF Y, b
<1>12. Apart(b, D \cup Planes, X \cup Y)
  BY <1>3, <1>6, <1>10, <1>11 DEF Apart, Objects
<1>13. PICK D2 : D \subseteq D2 /\ TakenDown(b, v, X \cup Y, Roots, D2)
  BY <1>10, <1>12, DestroyDetsWired
<1> HIDE DEF v
<1>14. /\ Wired(v, X \cup Y, Roots) /\ v.alive = u.alive \ D2
       /\ \A o \in v.alive : v.home["owner"][o] = b.home["owner"][o]
       /\ \A h \in Holders : DOMAIN v.slot[h] \subseteq DOMAIN u.slot[h]
  BY <1>10, <1>13 DEF TakenDown
<1>15. /\ IsWiring(z) /\ z.home = v.home /\ z.list = v.list /\ z.alive = v.alive \ Roots
       /\ \A h \in Holders : IF h \in Roots THEN DOMAIN z.slot[h] = {} ELSE z.slot[h] = v.slot[h]
  BY <1>14, WithoutIs DEF Wired
<1>16. z.alive = v.alive /\ v.alive \subseteq Objects
  BY <1>3, <1>14, <1>15 DEF Wired, IsWiring
<1> HIDE DEF z
<1> DEFINE l == [h \in Roots |-> {}]
<1>17. l = [h \in Roots |-> l[h]] /\ \A h \in Roots : l[h] = {}
  OBVIOUS
<1>18. y = [z EXCEPT !.list = l]
  OBVIOUS
<1> HIDE DEF l, y
<1>19. y = [slot |-> z.slot, home |-> z.home, alive |-> z.alive, list |-> l]
  BY <1>15, <1>18 DEF IsWiring
<1>20. y.slot = z.slot /\ y.home = v.home /\ y.alive = v.alive /\ y.list = l
  BY <1>15, <1>16, <1>19
<1>21. IsWiring(y)
  BY <1>15, <1>17, <1>19, <1>20 DEF IsWiring
<1>22. \A h \in Holders : \A i \in DOMAIN y.slot[h] :
         h \notin Roots /\ y.slot[h] = v.slot[h] /\ <<h, i>> \notin X \cup Y
  BY <1>3, <1>6, <1>11, <1>15, <1>20
<1>23. RightMembers(y)
  <2>1. RightMembers(v)
    BY <1>14 DEF Wired
  <2> QED
    BY <1>22, <2>1 DEF RightMembers
<1>24. MembersKnow(y, {})
  <2>1. MembersKnow(v, X \cup Y)
    BY <1>14 DEF Wired
  <2> QED
    BY <1>20, <1>22, <2>1 DEF MembersKnow
<1>25. HoldersKnow(y, {})
  <2> SUFFICES ASSUME NEW k \in Kinds, NEW o \in Objects, v.home[k][o] # NoHome
               PROVE  Holds(y, k, o, v.home[k][o])
    BY <1>20 DEF HoldersKnow
  <2> DEFINE p == v.home[k][o]
  <2>1. p \notin X \cup Y /\ Holds(v, k, o, p)
    BY <1>14 DEF Wired, HoldersKnow
  <2> HIDE DEF p
  <2>2. p = <<p[1], p[2]>> /\ p[1] \in Holders /\ p[2] \in DOMAIN v.slot[p[1]]
    BY <2>1 DEF Holds
  <2>3. p[1] \notin Roots
    BY <1>3, <1>6, <1>9, <1>11, <1>14, <2>1, <2>2 DEF Roots
  <2>4. y.slot[p[1]] = v.slot[p[1]]
    BY <1>15, <1>20, <2>2, <2>3
  <2> QED
    BY <2>1, <2>4 DEF Holds, p
<1>26. DeadHoldNothing(y, {})
  <2>1. DeadHoldNothing(v, Roots)
    BY <1>14 DEF Wired
  <2> QED
    BY <1>15, <1>20, <2>1 DEF DeadHoldNothing
<1>27. Listed(y)
  BY <1>17, <1>20 DEF Listed
<1>28. Wired(y, {}, {})
  BY <1>21, <1>23, <1>24, <1>25, <1>26, <1>27 DEF Wired
<1>29. Owned(y, loose)
  <2> SUFFICES ASSUME NEW o \in v.alive PROVE o \in loose <=> v.home["owner"][o] = NoHome
    BY <1>20 DEF Owned
  <2>1. o \in alive /\ o \in u.alive /\ o \notin F /\ o \notin D /\ o \in Objects
    BY <1>8, <1>9, <1>13, <1>14, <1>16
  <2>2. v.home["owner"][o] = home["owner"][o]
    BY <1>5, <1>9, <1>10, <1>14, <2>1
  <2> QED
    BY <1>1, <2>1, <2>2, WiringIs DEF Owned
<1>30. phase' \notin Loading /\ Present(phase') = {}
  BY <1>1 DEF Loading, Present
<1>31. PICK x : x = y
  OBVIOUS
<1> QED
  BY <1>1, <1>2, <1>28, <1>29, <1>30, <1>31, Reaches DEF y, l

LEMMA HoldersAre ==
  ASSUME DistinctObjects
  PROVE  /\ FECs \subseteq Holders \ Planes /\ Dets \subseteq Holders \ Planes
         /\ Planes \subseteq Holders /\ Roots \subseteq Holders \ Planes
         /\ MemberOf("daq") = FECs /\ MemberOf("det") = Dets
         /\ \A f \in FECs : MemberOf(f) = APVs
         /\ \A p \in Planes : MemberOf(p) = APVs
         /\ \A d \in Dets : MemberOf(d) = Planes
<1>1. \A f \in FECs : f # "daq" /\ f # "det"
  BY DEF DistinctObjects, Objects
<1>2. \A p \in Planes : p # "daq" /\ p # "det"
  BY DEF DistinctObjects, Objects
<1>3. \A d \in Dets : d # "daq" /\ d # "det" /\ d \notin FECs \cup Planes
  BY DEF DistinctObjects, Objects
<1>4. "daq" # "det" /\ "daq" \notin Objects /\ "det" \notin Objects
  BY DEF DistinctObjects
<1>5. MemberOf("daq") = FECs /\ MemberOf("det") = Dets
  BY <1>4 DEF MemberOf, Objects
<1>6. \A f \in FECs : MemberOf(f) = APVs
  BY <1>1, <1>3 DEF MemberOf
<1>7. \A p \in Planes : MemberOf(p) = APVs
  BY <1>2, <1>3 DEF MemberOf
<1>8. \A d \in Dets : MemberOf(d) = Planes
  BY <1>3 DEF MemberOf
<1> QED
  BY <1>1, <1>2, <1>3, <1>4, <1>5, <1>6, <1>7, <1>8 DEF Holders, Roots, Objects, DistinctObjects

LEMMA UnsetHolderKeeps ==
  ASSUME DistinctObjects, WiringInv, NEW o \in Objects, UnsetHolder(o),
         phase \in {"ready", "gone"}, phase' = phase
  PROVE  WiringInv'
BY UnsetKeeps DEF UnsetHolder, TakenOut, Kinds

LEMMA UseKeeps ==
  ASSUME DistinctObjects, WiringInv, Use PROVE WiringInv'
<1>0. phase \in {"ready", "gone"} /\ phase' = phase
  BY DEF Use
<1>1. ASSUME NEW f \in FECs,
             \/ DisconnectFEC(f) \/ UnsetFECSystem(f) \/ RemoveFEC(f) \/ RegisterFEC(f)
             \/ \E n \in Caps : SetCapacity(f, n)
             \/ \E i \in DOMAIN slot[f] : \/ DisconnectAPV(f, i) \/ RemoveAPV(f, i)
                                          \/ \E a \in APVs : AddAPV(f, a, i)
      PROVE  WiringInv'
  <2>0. f \in Objects /\ "daq" \in Holders \ Planes /\ f \in Holders \ Planes
        /\ f \in MemberOf("daq") /\ KindOf(f) = "owner"
    BY HoldersAre DEF Objects, Roots, KindOf
  <2>1. CASE DisconnectFEC(f)
    BY <1>0, <2>0, <2>1, DisconnectKeeps DEF DisconnectFEC
  <2>2. CASE UnsetFECSystem(f)
    BY <1>0, <2>0, <2>2, UnsetHolderKeeps DEF UnsetFECSystem
  <2>3. CASE RemoveFEC(f)
    BY <1>0, <2>0, <2>3, RemoveKeeps DEF RemoveFEC
  <2>4. CASE RegisterFEC(f)
    BY <1>0, <2>0, <2>4, AddKeeps DEF RegisterFEC
  <2>5. ASSUME NEW n \in Caps, SetCapacity(f, n) PROVE WiringInv'
    BY <1>0, <2>0, <2>5, ResizedKeeps DEF SetCapacity, TakenOut
  <2>6. ASSUME NEW i \in DOMAIN slot[f], DisconnectAPV(f, i) PROVE WiringInv'
    BY <1>0, <2>0, <2>6, DisconnectKeeps DEF DisconnectAPV
  <2>7. ASSUME NEW i \in DOMAIN slot[f], RemoveAPV(f, i) PROVE WiringInv'
    BY <1>0, <2>0, <2>7, RemoveKeeps DEF RemoveAPV
  <2>8. ASSUME NEW i \in DOMAIN slot[f], NEW a \in APVs, AddAPV(f, a, i) PROVE WiringInv'
    BY <1>0, <2>0, <2>8, AddKeeps, HoldersAre DEF AddAPV
  <2> QED
    BY <1>1, <2>1, <2>2, <2>3, <2>4, <2>5, <2>6, <2>7, <2>8
<1>2. ASSUME NEW d \in Dets,
             \/ DisconnectDetector(d) \/ UnsetDetectorSystem(d)
             \/ RemoveDetector(d) \/ RegisterDetector(d)
             \/ \E t \in PlaneTypes : DisconnectPlane(d, t) \/ RemovePlane(d, t)
             \/ \E p \in Planes : AddPlane(d, p)
      PROVE  WiringInv'
  <2>0. d \in Objects /\ "det" \in Holders \ Planes /\ d \in Holders \ Planes /\ d \in MemberOf("det")
    BY HoldersAre DEF Objects, Roots
  <2>1. CASE DisconnectDetector(d)
    BY <1>0, <2>0, <2>1, DisconnectKeeps DEF DisconnectDetector
  <2>2. CASE UnsetDetectorSystem(d)
    BY <1>0, <2>0, <2>2, UnsetHolderKeeps DEF UnsetDetectorSystem
  <2>3. CASE RemoveDetector(d)
    BY <1>0, <2>0, <2>3, RemoveKeeps DEF RemoveDetector
  <2>4. CASE RegisterDetector(d)
    BY <1>0, <2>0, <2>4, AddKeeps DEF RegisterDetector
  <2>5. ASSUME NEW t \in PlaneTypes, DisconnectPlane(d, t) PROVE WiringInv'
    BY <1>0, <2>0, <2>5, DisconnectKeeps DEF DisconnectPlane
  <2>6. ASSUME NEW t \in PlaneTypes, RemovePlane(d, t) PROVE WiringInv'
    BY <1>0, <2>0, <2>6, RemoveKeeps DEF RemovePlane
  <2>7. ASSUME NEW p \in Planes, AddPlane(d, p) PROVE WiringInv'
    BY <1>0, <2>0, <2>7, AddKeeps, HoldersAre DEF AddPlane
  <2> QED
    BY <1>2, <2>1, <2>2, <2>3, <2>4, <2>5, <2>6, <2>7
<1>3. ASSUME NEW p \in Planes,
             \/ UnsetDetector(p) \/ DisconnectAPVs(p)
             \/ \E n \in Caps : SetPlaneCapacity(p, n)
             \/ \E i \in DOMAIN slot[p] : \/ DisconnectPlaneAPV(p, i)
                                          \/ \E a \in APVs : ConnectAPV(p, a, i)
      PROVE  WiringInv'
  <2>0. p \in Objects /\ p \in Holders /\ KindOf(p) = "plane"
    BY HoldersAre DEF Objects, KindOf
  <2>1. CASE UnsetDetector(p)
    BY <1>0, <2>0, <2>1, UnsetHolderKeeps DEF UnsetDetector
  <2>2. CASE DisconnectAPVs(p)
    BY <1>0, <2>2, DisconnectAPVsKeeps
  <2>3. ASSUME NEW n \in Caps, SetPlaneCapacity(p, n) PROVE WiringInv'
    BY <1>0, <2>0, <2>3, ResizedKeeps DEF SetPlaneCapacity
  <2>4. ASSUME NEW i \in DOMAIN slot[p], DisconnectPlaneAPV(p, i) PROVE WiringInv'
    BY <1>0, <2>0, <2>4, DisconnectKeeps DEF DisconnectPlaneAPV
  <2>5. ASSUME NEW i \in DOMAIN slot[p], NEW a \in APVs, ConnectAPV(p, a, i) PROVE WiringInv'
    BY <1>0, <2>0, <2>5, AddKeeps, HoldersAre DEF ConnectAPV
  <2> QED
    BY <1>3, <2>1, <2>2, <2>3, <2>4, <2>5
<1>4. ASSUME NEW a \in APVs, UnsetFEC(a) \/ UnsetDetectorPlane(a)
      PROVE  WiringInv'
  <2>0. a \in Objects /\ "plane" \in Kinds
    BY DEF Objects, Kinds
  <2>1. CASE UnsetFEC(a)
    BY <1>0, <2>0, <2>1, UnsetHolderKeeps DEF UnsetFEC
  <2>2. CASE UnsetDetectorPlane(a)
    BY <1>0, <2>0, <2>2, UnsetKeeps DEF UnsetDetectorPlane
  <2> QED
    BY <1>4, <2>1, <2>2
<1>5. ASSUME NEW o \in Objects, Delete(o) PROVE WiringInv'
  BY <1>0, <1>5, DeleteKeeps
<1> QED
  BY <1>1, <1>2, <1>3, <1>4, <1>5 DEF Use, UseFECs, UseDetectors, UsePlanes, UseAPVs

-----------------------------------------------------------------------------
LEMMA WiringStep == DistinctObjects /\ WiringInv /\ [Next]_vars => WiringInv'
<1> SUFFICES ASSUME DistinctObjects, WiringInv, [Next]_vars PROVE WiringInv'
  OBVIOUS
<1>1. CASE UNCHANGED vars
  <2>1. Becomes(W) /\ UNCHANGED <<loose, phase>>
    BY <1>1 DEF vars, Becomes, W
  <2> QED
    BY <2>1, Still
<1>2. CASE phase = "ready" /\ RebuildMap /\ UNCHANGED phase
  BY <1>2, RebuildKeeps
<1>3. CASE phase = "ready" /\ DestroySystem
  BY <1>3, DestroySystemKeeps
<1> QED
  BY <1>1, <1>2, <1>3, LoadKeeps, UseKeeps DEF Next

LEMMA InvStep ==
  /\ DistinctObjects /\ Init => DistinctObjects /\ WiringInv
  /\ DistinctObjects /\ WiringInv /\ [Next]_vars => DistinctObjects' /\ WiringInv'
<1>1. DistinctObjects' <=> DistinctObjects
  BY DEF DistinctObjects, Objects
<1> QED
  BY <1>1, InitWiring, WiringStep

LEMMA WiringInvariant == DistinctObjects /\ Spec => [](DistinctObjects /\ WiringInv)
<1>1. DistinctObjects /\ Init => DistinctObjects /\ WiringInv
  BY InvStep
<1>2. DistinctObjects /\ WiringInv /\ [Next]_vars => (DistinctObjects /\ WiringInv)'
  BY InvStep
<1> QED
  BY <1>1, <1>2, PTL DEF Spec

(* Every slot of a detector, a plane, a FEC and the system and the member   *)
(* in it agree about their link, whatever is added, taken out, resized or   *)
(* deleted, in any order of calls (AddDetector, ConnectPlane, ConnectAPV,   *)
(* AddFEC, AddAPV, their Disconnect and Remove, UnsetX and the destructors).*)
THEOREM GEMLinksAlwaysAgree == DistinctObjects /\ Spec => []LinksAgree
<1>1. ASSUME DistinctObjects, WiringInv PROVE LinksAgree
  <2>0. MembersKnow(W, {}) /\ HoldersKnow(W, {}) /\ slot = W.slot /\ home = W.home
    BY <1>1 DEF WiringInv, Wired, W
  <2>1. ASSUME NEW h \in Holders, NEW i \in DOMAIN slot[h], slot[h][i] # null
        PROVE  home[KindOf(h)][slot[h][i]] = <<h, i>>
    BY <2>0, <2>1 DEF MembersKnow
  <2>2. ASSUME NEW k \in Kinds, NEW o \in Objects, home[k][o] # NoHome
        PROVE  home[k][o][2] \in DOMAIN slot[home[k][o][1]]
               /\ slot[home[k][o][1]][home[k][o][2]] = o
    BY <2>0, <2>2 DEF HoldersKnow, Holds
  <2> QED
    BY <2>1, <2>2 DEF LinksAgree
<1> QED
  BY <1>1, WiringInvariant, PTL

(* Nothing points to an object that was deleted: not a slot, not a member   *)
(* whose holder went first, not the lists the loops over FECs and detectors *)
(* use (~PRadGEMDetector, ~PRadGEMPlane, ~PRadGEMFEC, ~PRadGEMAPV, Clear,   *)
(* RemoveDetector, RemoveFEC, RebuildDAQMap, RebuildDetectorMap).           *)
THEOREM GEMNothingDangles == DistinctObjects /\ Spec => []NothingDangling
<1>1. ASSUME DistinctObjects, WiringInv PROVE NothingDangling
  <2>0. /\ MembersKnow(W, {}) /\ HoldersKnow(W, {}) /\ Listed(W)
        /\ DeadHoldNothing(W, Present(phase))
        /\ slot = W.slot /\ home = W.home /\ alive = W.alive /\ list = W.list
    BY <1>1 DEF WiringInv, Wired, W
  <2>1. ASSUME NEW h \in Holders PROVE Members(W, h) \subseteq alive
    BY <2>0 DEF MembersKnow, Members
  <2>2. ASSUME NEW k \in Kinds, NEW o \in alive, home[k][o] # NoHome
        PROVE  home[k][o][1] \in alive \cup (IF phase = "gone" THEN {} ELSE {"daq", "det"})
    <3>0. o \in Objects
      BY <1>1, <2>2 DEF WiringInv, Wired, IsWiring, W
    <3>1. Holds(W, k, o, home[k][o])
      BY <2>0, <2>2, <3>0 DEF HoldersKnow
    <3>2. home[k][o][1] \in Holders /\ DOMAIN slot[home[k][o][1]] # {}
      BY <2>0, <3>1 DEF Holds
    <3>3. home[k][o][1] \in alive \cup Present(phase)
      BY <2>0, <3>2 DEF DeadHoldNothing
    <3> QED
      BY <3>3 DEF Present, Roots
  <2>3. list["daq"] \cup list["det"] \subseteq alive
    <3>1. "daq" \in Holders /\ "det" \in Holders /\ "daq" \in Roots /\ "det" \in Roots
      BY DEF Holders, Roots
    <3>2. list["daq"] \subseteq Members(W, "daq") /\ list["det"] \subseteq Members(W, "det")
      BY <2>0, <3>1 DEF Listed
    <3> QED
      BY <2>1, <3>1, <3>2
  <2> QED
    BY <2>1, <2>2, <2>3 DEF NothingDangling
<1> QED
  BY <1>1, WiringInvariant, PTL

(* An object has no owner exactly when the caller took it out: no path of   *)
(* the map reader and no Disconnect loses one, and when the system is gone  *)
(* all that it held is gone (buildX of the map reader, Clear, ~PRadGEMSystem).*)
THEOREM GEMNothingLeaks == DistinctObjects /\ Spec => []NothingLeaks
<1>1. ASSUME WiringInv PROVE NothingLeaks
  <2>1. Owned(W, loose) /\ W.alive = alive /\ W.home = home
    BY <1>1 DEF WiringInv, W
  <2> QED
    BY <2>1 DEF Owned, NothingLeaks
<1> QED
  BY <1>1, WiringInvariant, PTL

=============================================================================
