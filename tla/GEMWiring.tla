----------------------------- MODULE GEMWiring -----------------------------
(* How PRadGEMSystem, its FECs and detectors, their APVs and planes hold   *)
(* each other.  Every association is stored twice: the holder has a slot   *)
(* with a pointer to the member, and the member knows its holder and its   *)
(* place there.  The functions of both sides call each other, with a       *)
(* "force" flag that stops the recursion.                                  *)
(*                                                                         *)
(*   "daq": system -> FEC      FEC:   FEC -> APV                           *)
(*   "det": system -> detector Dets:  detector -> plane  Planes: -> APV    *)
(*                                                                         *)
(* A system reads its map file once; copies and moves are left out.        *)
EXTENDS Naturals, FiniteSets

CONSTANTS FECs,      \* FEC objects, named by their id
          Dets,      \* detector objects, named by their det_id
          DaqSlots,  \* the ids within the capacity of daq_slots
          DetSlots,  \* the ids within the capacity of det_slots
          Planes, TypeOf,    \* plane objects and their type
          APVs,
          Caps,      \* capacities of FECs and planes
          null

VARIABLES slot,   \* slot[h][i]: the member that holder h keeps in place i
          home,   \* home[k][o]: the holder and place object o knows
          alive,  \* the objects that exist
          list,   \* fec_list; det_list with det_name_map
          loose,  \* objects the caller has taken out and is to free
          phase   \* what is read of the map; "ready"; "gone"

vars == <<slot, home, alive, list, loose, phase>>

Objects == FECs \cup Dets \cup Planes \cup APVs

(* Objects of different classes, the system and null are different things. *)
DistinctObjects ==
  /\ FECs \cap Dets = {} /\ FECs \cap Planes = {} /\ FECs \cap APVs = {}
  /\ Dets \cap Planes = {} /\ Dets \cap APVs = {} /\ Planes \cap APVs = {}
  /\ {"daq", "det", null} \cap Objects = {}

Holders == {"daq", "det"} \cup FECs \cup Dets \cup Planes
Kinds   == {"owner", "plane"}
NoHome  == <<>>

PlaneTypes == {TypeOf[p] : p \in Planes}
Vacant(I)  == [i \in I |-> null]
Places(n)  == {i \in 0..n : i < n}

(* The state as one value, for the functions that call one another. *)
W == [slot |-> slot, home |-> home, alive |-> alive, list |-> list]

Becomes(w) == /\ slot' = w.slot /\ home' = w.home
              /\ alive' = w.alive /\ list' = w.list

Members(w, h) == {w.slot[h][i] : i \in DOMAIN w.slot[h]} \ {null}
KindOf(h)     == IF h \in Planes THEN "plane" ELSE "owner"
IsFree(h, i)  == i \in DOMAIN slot[h] /\ slot[h][i] = null

RebuildDAQMap(w)      == [w EXCEPT !.list["daq"] = Members(w, "daq")]
RebuildDetectorMap(w) == [w EXCEPT !.list["det"] = Members(w, "det")]

(* The holder's side of a disconnection: the places L become free, and the *)
(* system rebuilds the list of what it holds.                              *)
Emptied(w, L) ==
  LET u == [w EXCEPT !.slot = [h \in Holders |-> [i \in DOMAIN w.slot[h] |->
              IF <<h, i>> \in L THEN null ELSE w.slot[h][i]]]]
  IN  [u EXCEPT !.list = [h \in {"daq", "det"} |->
         IF \E i \in DOMAIN w.slot[h] : <<h, i>> \in L THEN Members(u, h) ELSE w.list[h]]]

(* UnsetX(true): the members forget their holder. *)
Forgotten(w, k, S) ==
  [w EXCEPT !.home[k] = [o \in Objects |-> IF o \in S THEN NoHome ELSE w.home[k][o]]]

(* UnsetX(): the members also have their holders free their places. *)
Unset(w, k, S) == Forgotten(Emptied(w, {w.home[k][o] : o \in S}), k, S)

\* Mutant of Placed: SetFEC and SetDetectorPlane with force_set
PlacedForced(w, h, i, o) ==
  LET u == [w EXCEPT !.slot[h][i] = o] IN  [u EXCEPT !.home[KindOf(h)][o] = <<h, i>>]

(* AddX: the place takes the member, which leaves its previous one. *)
Placed(w, h, i, o) ==
  LET k == KindOf(h)
      u == [Unset(w, k, {o}) EXCEPT !.slot[h][i] = o]
  IN  [u EXCEPT !.home[k][o] = <<h, i>>]

-----------------------------------------------------------------------------
(* Destructors: leave the holder, then take down what is held. *)
Without(w, S) == [w EXCEPT !.alive = @ \ S,
                    !.slot = [h \in Holders |-> IF h \in S THEN Vacant({}) ELSE w.slot[h]]]

DestroyAPVs(w, S) == Without(Unset(Unset(w, "owner", S), "plane", S), S)

\* a FEC and a detector own what they hold, a plane does not
DestroyFECs(w, S) ==
  LET A == UNION {Members(w, f) : f \in S}
  IN  Without(DestroyAPVs(Forgotten(Unset(w, "owner", S), "owner", A), A), S)

\* Mutant of DestroyPlanes: DisconnectAPVs is left out
DestroyPlanesOnly(w, S) == Without(Unset(w, "owner", S), S)

DestroyPlanes(w, S) ==
  LET A == UNION {Members(w, p) : p \in S}
  IN  Without(Forgotten(Unset(w, "owner", S), "plane", A), S)

DestroyDets(w, S) ==
  LET P == UNION {Members(w, d) : d \in S}
  IN  Without(DestroyPlanes(Forgotten(Unset(w, "owner", S), "owner", P), P), S)

Destroyed(w, o) == CASE o \in APVs   -> DestroyAPVs(w, {o})
                     [] o \in Planes -> DestroyPlanes(w, {o})
                     [] o \in FECs   -> DestroyFECs(w, {o})
                     [] o \in Dets   -> DestroyDets(w, {o})

-----------------------------------------------------------------------------
Init == /\ slot = [h \in Holders |-> CASE h = "daq" -> Vacant(DaqSlots)
                                       [] h = "det" -> Vacant(DetSlots)
                                       [] OTHER     -> Vacant({})]
        /\ home = [k \in Kinds |-> [o \in Objects |-> NoHome]]
        /\ alive = {}
        /\ list = [h \in {"daq", "det"} |-> {}]
        /\ loose = {}
        /\ phase = "DET"

(* An object the map file names, made with places I. *)
New(o, I) == [W EXCEPT !.alive = @ \cup {o},
                !.slot = [h \in Holders |-> IF h = o THEN Vacant(I) ELSE slot[h]]]

(* A member the holder refuses is deleted. *)
PlacedOrDeleted(w, h, i, o) ==
  IF i \in DOMAIN w.slot[h] /\ w.slot[h][i] = null THEN Placed(w, h, i, o)
                                                  ELSE Destroyed(w, o)

(* buildDetector, buildFEC: after Register the new one goes on the list; an *)
(* id beyond the capacity, or one that is taken, is refused.                *)
BuildMember(h, o, I) ==
  /\ Becomes(IF o \in alive THEN W
             ELSE LET w == PlacedOrDeleted(New(o, I), h, o, o)
                  IN  [w EXCEPT !.list[h] = @ \cup ({o} \cap w.alive)])
  /\ UNCHANGED <<loose, phase>>

buildDetector(d) == phase = "DET" /\ BuildMember("det", d, PlaneTypes)
buildFEC(f, n)   == phase = "FEC" /\ BuildMember("daq", f, Places(n))

buildPlane(d, p, n) ==
  /\ phase = "PLN" /\ p \notin alive
  /\ Becomes(IF d \in list["det"]
             THEN PlacedOrDeleted(New(p, Places(n)), d, TypeOf[p], p) ELSE W)
  /\ UNCHANGED <<loose, phase>>

(* An APV that its FEC takes is connected to the plane named, unless there *)
(* is no such plane or the connector is taken.                             *)
Connected(w, p, i, a) == IF p \in w.alive /\ i \in DOMAIN w.slot[p] /\ w.slot[p][i] = null
                         THEN Placed(w, p, i, a) ELSE w

buildAPV(f, ch, p, i, a) ==
  /\ phase = "APV" /\ a \notin alive
  /\ Becomes(IF f \notin alive THEN W
             ELSE LET w == PlacedOrDeleted(New(a, {}), f, ch, a)
                  IN  IF a \in w.alive THEN Connected(w, p, i, a) ELSE w)
  /\ UNCHANGED <<loose, phase>>

(* ReadMapFile builds the elements by kind, then rebuilds the lists. *)
ReadMapFile ==
  /\ phase \in {"DET", "PLN", "FEC", "APV"}
  /\ phase' = CASE phase = "DET" -> "PLN" [] phase = "PLN" -> "FEC"
                [] phase = "FEC" -> "APV" [] phase = "APV" -> "ready"
  /\ Becomes(IF phase = "APV" THEN RebuildDetectorMap(RebuildDAQMap(W)) ELSE W)
  /\ UNCHANGED loose

-----------------------------------------------------------------------------
(* The public functions, in any order.  What an owner gives up is the      *)
(* caller's; a plane does not own its APVs.                                *)
TakenOut(S) == loose' = loose \cup S
Kept(o)     == loose' = loose \ {o}

Disconnect(h, i) ==
  /\ i \in DOMAIN slot[h] /\ slot[h][i] # null
  /\ Becomes(Forgotten(Emptied(W, {<<h, i>>}), KindOf(h), {slot[h][i]}))
  /\ IF h \in Planes THEN UNCHANGED loose ELSE TakenOut({slot[h][i]})

DisconnectFEC(f)         == Disconnect("daq", f)
DisconnectDetector(d)    == Disconnect("det", d)
DisconnectPlane(d, t)    == d \in Dets /\ Disconnect(d, t)
DisconnectAPV(f, i)      == f \in FECs /\ Disconnect(f, i)
DisconnectPlaneAPV(p, i) == p \in Planes /\ Disconnect(p, i)

UnsetHolder(o) ==
  /\ home["owner"][o] # NoHome
  /\ Becomes(Unset(W, "owner", {o}))
  /\ TakenOut({o})

UnsetFECSystem(f)      == f \in FECs /\ UnsetHolder(f)
UnsetDetectorSystem(d) == d \in Dets /\ UnsetHolder(d)
UnsetDetector(p)       == p \in Planes /\ UnsetHolder(p)
UnsetFEC(a)            == a \in APVs /\ UnsetHolder(a)

UnsetDetectorPlane(a) == /\ home["plane"][a] # NoHome
                         /\ Becomes(Unset(W, "plane", {a}))
                         /\ UNCHANGED loose

(* The member forgets its holder before it is deleted. *)
Remove(h, i) ==
  /\ i \in DOMAIN slot[h] /\ slot[h][i] # null
  /\ Becomes(LET o == slot[h][i]
             IN  Emptied(Destroyed(Forgotten(W, "owner", {o}), o), {<<h, i>>}))
  /\ UNCHANGED loose

RemoveFEC(f)      == Remove("daq", f)
RemoveDetector(d) == Remove("det", d)
RemovePlane(d, t) == d \in Dets /\ Remove(d, t)
RemoveAPV(f, i)   == f \in FECs /\ Remove(f, i)

Add(h, i, o) == /\ {h, o} \subseteq alive \cup {"daq", "det"}
                /\ IsFree(h, i)
                /\ Becomes(Placed(W, h, i, o))
                /\ IF h \in Planes THEN UNCHANGED loose ELSE Kept(o)

RegisterFEC(f)      == f \in FECs /\ Add("daq", f, f)
RegisterDetector(d) == d \in Dets /\ Add("det", d, d)
AddPlane(d, p)      == home["owner"][p] = NoHome /\ Add(d, TypeOf[p], p)
AddAPV(f, a, i)     == f \in FECs /\ Add(f, i, a)
ConnectAPV(p, a, i) == p \in Planes /\ Add(p, i, a)

DisconnectAPVs(p) ==
  /\ p \in alive
  /\ Becomes(Forgotten(Emptied(W, {p} \X DOMAIN slot[p]), "plane", Members(W, p)))
  /\ UNCHANGED loose

(* The members beyond the new capacity forget their holder.  A FEC does    *)
(* not delete them, although it says that they are removed.                *)
Beyond(h, n) == {slot[h][i] : i \in DOMAIN slot[h] \ Places(n)} \ {null}

Resized(h, n) == [Forgotten(W, KindOf(h), Beyond(h, n)) EXCEPT
                    !.slot[h] = [i \in Places(n) |->
                       IF i \in DOMAIN slot[h] THEN slot[h][i] ELSE null]]

SetCapacity(f, n) == /\ f \in FECs \cap alive
                     /\ Becomes(Resized(f, n))
                     /\ TakenOut(Beyond(f, n))

SetPlaneCapacity(p, n) == /\ p \in Planes \cap alive
                          /\ Becomes(Resized(p, n))
                          /\ UNCHANGED loose

RebuildMap == /\ \/ Becomes(RebuildDAQMap(W))
                 \/ Becomes(RebuildDetectorMap(W))
              /\ UNCHANGED loose

(* The caller deletes an object, in the system or not. *)
Delete(o) == /\ o \in alive
             /\ Becomes(Destroyed(W, o))
             /\ loose' = loose \cap Destroyed(W, o).alive

(* The destructor of the system deletes the FECs, then the detectors. *)
Clear(w) ==
  LET F == Members(w, "daq")
      u == DestroyFECs(Forgotten(w, "owner", F), F)
      D == Members(u, "det")
  IN  DestroyDets(Forgotten(u, "owner", D), D)

DestroySystem ==
  /\ phase' = "gone"
  /\ Becomes([Without(Clear(W), {"daq", "det"}) EXCEPT
                 !.list = [h \in {"daq", "det"} |-> {}]])
  /\ UNCHANGED loose

Load == \/ \E d \in Dets : buildDetector(d)
        \/ \E d \in Dets, p \in Planes, n \in Caps : buildPlane(d, p, n)
        \/ \E f \in FECs, n \in Caps : buildFEC(f, n)
        \/ \E f \in FECs, p \in Planes, a \in APVs :
             \E ch, i \in UNION {Places(n) : n \in Caps} : buildAPV(f, ch, p, i, a)
        \/ ReadMapFile

UseFECs == \E f \in FECs :
  \/ DisconnectFEC(f) \/ UnsetFECSystem(f) \/ RemoveFEC(f) \/ RegisterFEC(f)
  \/ \E n \in Caps : SetCapacity(f, n)
  \/ \E i \in DOMAIN slot[f] : \/ DisconnectAPV(f, i) \/ RemoveAPV(f, i)
                               \/ \E a \in APVs : AddAPV(f, a, i)

UseDetectors == \E d \in Dets :
  \/ DisconnectDetector(d) \/ UnsetDetectorSystem(d)
  \/ RemoveDetector(d) \/ RegisterDetector(d)
  \/ \E t \in PlaneTypes : DisconnectPlane(d, t) \/ RemovePlane(d, t)
  \/ \E p \in Planes : AddPlane(d, p)

UsePlanes == \E p \in Planes :
  \/ UnsetDetector(p) \/ DisconnectAPVs(p)
  \/ \E n \in Caps : SetPlaneCapacity(p, n)
  \/ \E i \in DOMAIN slot[p] : \/ DisconnectPlaneAPV(p, i)
                               \/ \E a \in APVs : ConnectAPV(p, a, i)

UseAPVs == \E a \in APVs : UnsetFEC(a) \/ UnsetDetectorPlane(a)

(* Objects that were taken out can still be used when the system is gone. *)
Use == /\ phase \in {"ready", "gone"}
       /\ UNCHANGED phase
       /\ UseFECs \/ UseDetectors \/ UsePlanes \/ UseAPVs \/ \E o \in Objects : Delete(o)

Next == \/ Load
        \/ Use
        \/ phase = "ready" /\ RebuildMap /\ UNCHANGED phase
        \/ phase = "ready" /\ DestroySystem

Spec == Init /\ [][Next]_vars

-----------------------------------------------------------------------------
(* The two sides of every association agree: a member is in the place it   *)
(* knows, whatever sequence of additions, moves, disconnections, changes   *)
(* of capacity and deletions came before (Set..., Unset..., Disconnect...).*)
LinksAgree ==
  /\ \A h \in Holders : \A i \in DOMAIN slot[h] :
       slot[h][i] # null => home[KindOf(h)][slot[h][i]] = <<h, i>>
  /\ \A k \in Kinds, o \in Objects : home[k][o] # NoHome =>
       LET h == home[k][o][1]  i == home[k][o][2]
       IN  i \in DOMAIN slot[h] /\ slot[h][i] = o

(* Nothing points to an object that was deleted: not a slot, not a member  *)
(* (whose holder may go first), not the lists that the loops over all FECs *)
(* and detectors use.                                                      *)
NothingDangling ==
  /\ \A h \in Holders : Members(W, h) \subseteq alive
  /\ \A k \in Kinds, o \in alive : home[k][o] # NoHome =>
       home[k][o][1] \in alive \cup (IF phase = "gone" THEN {} ELSE {"daq", "det"})
  /\ list["daq"] \cup list["det"] \subseteq alive

(* Every object has an owner that will delete it, or was taken out by the  *)
(* caller: no path of the map reader loses one, and when the system is     *)
(* gone all that it held is gone (buildX, Clear, the destructors).         *)
NothingLeaks ==
  \A o \in alive : o \in loose <=> home["owner"][o] = NoHome

=============================================================================
