---------------------------- MODULE HyCalProofs ----------------------------
(* The links between the HyCal detector, its modules, channels and groups   *)
(* agree and lead to no deleted object, for any objects and orders of       *)
(* calls; and the groups of an event's hits, when the loops over them end,  *)
(* are the connected parts of its hits, for any detector and energies.      *)
EXTENDS HyCalWiring, HyCalClusters, FiniteSetTheorems, WellFoundedInduction, TLAPS

(* A set with 0 and the next of each member is all numbers; a set with a    *)
(* member has a least one.                                                  *)
LEMMA SetInduction ==
  ASSUME NEW S \in SUBSET Nat, 0 \in S, \A k \in S : k + 1 \in S
  PROVE  S = Nat
<1> DEFINE R == OpToRel(<, Nat)
           T == Nat \ S
<1>1. IsWellFoundedOn(R, Nat)
  BY NatLessThanWellFounded
<1>2. \A x, y \in Nat : <<x, y>> \in R <=> x < y
  BY DEF OpToRel
<1> HIDE DEF R
<1>3. SUFFICES ASSUME T # {} PROVE FALSE
  OBVIOUS
<1>4. PICK x \in T : \A y \in T : ~(<<y, x>> \in R)
  BY <1>1, <1>3, WFMin
<1>5. x \in Nat /\ x # 0 /\ x - 1 \in Nat /\ (x - 1) + 1 = x
  BY <1>4
<1>6. <<x - 1, x>> \in R
  BY <1>2, <1>5
<1>7. x - 1 \in S
  BY <1>4, <1>5, <1>6
<1>8. x \in S
  BY <1>5, <1>7
<1> QED
  BY <1>4, <1>8

LEMMA LeastExists ==
  ASSUME NEW S \in SUBSET Nat, S # {}
  PROVE  \E x \in S : \A y \in S : x <= y
<1> DEFINE R == OpToRel(<, Nat)
<1>1. IsWellFoundedOn(R, Nat)
  BY NatLessThanWellFounded
<1>2. \A x, y \in Nat : <<x, y>> \in R <=> x < y
  BY DEF OpToRel
<1> HIDE DEF R
<1>3. PICK x \in S : \A y \in S : ~(<<y, x>> \in R)
  BY <1>1, WFMin
<1>4. ASSUME NEW y \in S PROVE x <= y
  <2>1. x \in Nat /\ y \in Nat /\ ~(<<y, x>> \in R)
    BY <1>3
  <2>2. ~(y < x)
    BY <1>2, <2>1
  <2> QED
    BY <2>1, <2>2
<1> QED
  BY <1>4

(* A loop of k turns, each from a state of A to one of A, has a run.        *)
IsRun(f, A, first, k, turn) ==
  f \in [0 .. k -> A] /\ f[0] = first /\ \A i \in 1 .. k : f[i] = turn[i][f[i - 1]]

LEMMA LoopRuns ==
  ASSUME NEW A, NEW first \in A, NEW k \in Nat, NEW turn \in [1 .. k -> [A -> A]]
  PROVE  \E f : IsRun(f, A, first, k, turn)
<1> DEFINE Runs(f, j) == f \in [0 .. j -> A] /\ f[0] = first
                         /\ \A i \in 1 .. j : f[i] = turn[i][f[i - 1]]
           S == {j \in Nat : j <= k => \E f : Runs(f, j)}
<1>1. 0 \in S
  <2>1. Runs([i \in 0 .. 0 |-> first], 0)
    OBVIOUS
  <2> QED
    BY <2>1
<1>2. ASSUME NEW j \in S PROVE j + 1 \in S
  <2> HIDE DEF Runs
  <2>1. SUFFICES ASSUME j + 1 <= k PROVE \E f : Runs(f, j + 1)
    BY <1>2
  <2> USE DEF Runs
  <2>2. j \in Nat /\ j <= k /\ j \in 0 .. j /\ j + 1 \in 1 .. k
    BY <2>1
  <2>3. PICK f : Runs(f, j)
    BY <1>2, <2>2
  <2> DEFINE g == [i \in 0 .. j + 1 |-> IF i = j + 1 THEN turn[j + 1][f[j]] ELSE f[i]]
  <2>4. turn[j + 1][f[j]] \in A
    BY <2>2, <2>3
  <2>5. g \in [0 .. j + 1 -> A]
    <3>1. \A i \in 0 .. j + 1 : i = j + 1 \/ i \in 0 .. j
      BY <2>2
    <3>2. \A i \in 0 .. j : f[i] \in A
      BY <2>3
    <3> QED
      BY <2>4, <3>1, <3>2
  <2>6. g[0] = first /\ \A i \in 1 .. j + 1 : g[i] = turn[i][g[i - 1]]
    <3>1. \A i \in 0 .. j : g[i] = f[i]
      BY <2>2
    <3>2. g[j + 1] = turn[j + 1][g[j]]
      BY <2>2, <3>1
    <3>3. \A i \in 1 .. j : g[i] = turn[i][g[i - 1]]
      <4>1. \A i \in 1 .. j : i \in 0 .. j /\ i - 1 \in 0 .. j
        BY <2>2
      <4> HIDE DEF g
      <4> QED
        BY <2>3, <3>1, <4>1
    <3>4. \A i \in 1 .. j + 1 : i = j + 1 \/ i \in 1 .. j
      BY <2>2
    <3>5. (j + 1) - 1 = j /\ 0 \in 0 .. j
      BY <2>2
    <3> HIDE DEF g
    <3> QED
      BY <2>3, <3>1, <3>2, <3>3, <3>4, <3>5
  <2> HIDE DEF g
  <2> QED
    BY <2>5, <2>6
<1> HIDE DEF S, Runs
<1>3. S \in SUBSET Nat
  BY DEF S
<1>4. S = Nat
  BY <1>1, <1>2, <1>3, SetInduction
<1>5. k \in S
  BY <1>4
<1>6. PICK f : Runs(f, k)
  BY <1>5 DEF S
<1> QED
  BY <1>6 DEF Runs, IsRun

-----------------------------------------------------------------------------
(* The links of the detector, its modules, channels and groups.             *)

(* The record of all links, by its fields.                                  *)
IsW(w) ==
  w = [hycal |-> w.hycal, system |-> w.system, modules |-> w.modules,
       detector |-> w.detector, daq_ch |-> w.daq_ch, module |-> w.module,
       adc_list |-> w.adc_list, tdc_list |-> w.tdc_list, group_map |-> w.group_map,
       tdc_group |-> w.tdc_group, alive |-> w.alive]

(* What f leads to from the members of S.                                   *)
Values(f, S) == {f[x] : x \in S}

(* u and w differ at most in other fields.                                  *)
SameOwners(u, w) == /\ u.hycal = w.hycal /\ u.system = w.system
                    /\ u.modules = w.modules /\ u.detector = w.detector
SameWires(u, w)  == u.daq_ch = w.daq_ch /\ u.module = w.module
SameLists(u, w)  == u.adc_list = w.adc_list /\ u.tdc_list = w.tdc_list
SameGroups(u, w) == u.group_map = w.group_map /\ u.tdc_group = w.tdc_group

LEMMA UnsetModuleIs ==
  ASSUME NEW w, IsW(w), NEW A
  PROVE  /\ IsW(UnsetModule(w, A)) /\ UnsetModule(w, A).alive = w.alive
         /\ SameOwners(UnsetModule(w, A), w) /\ SameLists(UnsetModule(w, A), w)
         /\ SameGroups(UnsetModule(w, A), w)
         /\ UnsetModule(w, A).daq_ch = Cut(w.daq_ch, Values(w.module, A))
         /\ UnsetModule(w, A).module = Cut(w.module, A)
<1> DEFINE x == Cut(w.daq_ch, Values(w.module, A))
           y == Cut(w.module, A)
           v == [w EXCEPT !.daq_ch = x]
           u == UnsetModule(w, A)
<1>1. u = [v EXCEPT !.module = y]
  BY DEF UnsetModule, Values
<1> HIDE DEF x, y, u
<1>2. u = [hycal |-> w.hycal, system |-> w.system, modules |-> w.modules,
       detector |-> w.detector, daq_ch |-> x, module |-> y,
       adc_list |-> w.adc_list, tdc_list |-> w.tdc_list, group_map |-> w.group_map,
       tdc_group |-> w.tdc_group, alive |-> w.alive]
  BY <1>1 DEF IsW
<1>3. IsW(u)
  BY <1>2 DEF IsW
<1>4. /\ u.alive = w.alive /\ SameOwners(u, w) /\ SameLists(u, w) /\ SameGroups(u, w)
      /\ u.daq_ch = x /\ u.module = y
  BY <1>2 DEF SameOwners, SameLists, SameGroups
<1> QED
  BY <1>3, <1>4 DEF x, y, u

LEMMA UnsetChannelIs ==
  ASSUME NEW w, IsW(w), NEW M
  PROVE  /\ IsW(UnsetChannel(w, M)) /\ UnsetChannel(w, M).alive = w.alive
         /\ SameOwners(UnsetChannel(w, M), w) /\ SameLists(UnsetChannel(w, M), w)
         /\ SameGroups(UnsetChannel(w, M), w)
         /\ UnsetChannel(w, M).module = Cut(w.module, Values(w.daq_ch, M))
         /\ UnsetChannel(w, M).daq_ch = Cut(w.daq_ch, M)
<1> DEFINE x == Cut(w.module, Values(w.daq_ch, M))
           y == Cut(w.daq_ch, M)
           v == [w EXCEPT !.module = x]
           u == UnsetChannel(w, M)
<1>1. u = [v EXCEPT !.daq_ch = y]
  BY DEF UnsetChannel, Values
<1> HIDE DEF x, y, u
<1>2. u = [hycal |-> w.hycal, system |-> w.system, modules |-> w.modules,
       detector |-> w.detector, daq_ch |-> y, module |-> x,
       adc_list |-> w.adc_list, tdc_list |-> w.tdc_list, group_map |-> w.group_map,
       tdc_group |-> w.tdc_group, alive |-> w.alive]
  BY <1>1 DEF IsW
<1>3. IsW(u)
  BY <1>2 DEF IsW
<1>4. /\ u.alive = w.alive /\ SameOwners(u, w) /\ SameLists(u, w) /\ SameGroups(u, w)
      /\ u.daq_ch = y /\ u.module = x
  BY <1>2 DEF SameOwners, SameLists, SameGroups
<1> QED
  BY <1>3, <1>4 DEF x, y, u

LEMMA UnsetDetectorIs ==
  ASSUME NEW w, IsW(w), NEW M
  PROVE  /\ IsW(UnsetDetector(w, M)) /\ UnsetDetector(w, M).alive = w.alive
         /\ UnsetDetector(w, M).hycal = w.hycal /\ UnsetDetector(w, M).system = w.system
         /\ SameWires(UnsetDetector(w, M), w) /\ SameLists(UnsetDetector(w, M), w)
         /\ SameGroups(UnsetDetector(w, M), w)
         /\ UnsetDetector(w, M).modules =
              [d \in Dets |-> w.modules[d] \ {m \in M : w.detector[m] = d}]
         /\ UnsetDetector(w, M).detector = Cut(w.detector, M)
<1> DEFINE x == [d \in Dets |-> w.modules[d] \ {m \in M : w.detector[m] = d}]
           y == Cut(w.detector, M)
           v == [w EXCEPT !.modules = x]
           u == UnsetDetector(w, M)
<1>1. u = [v EXCEPT !.detector = y]
  BY DEF UnsetDetector
<1> HIDE DEF x, y, u
<1>2. u = [hycal |-> w.hycal, system |-> w.system, modules |-> x,
       detector |-> y, daq_ch |-> w.daq_ch, module |-> w.module,
       adc_list |-> w.adc_list, tdc_list |-> w.tdc_list, group_map |-> w.group_map,
       tdc_group |-> w.tdc_group, alive |-> w.alive]
  BY <1>1 DEF IsW
<1>3. IsW(u)
  BY <1>2 DEF IsW
<1>4. /\ u.alive = w.alive /\ u.hycal = w.hycal /\ u.system = w.system
      /\ SameWires(u, w) /\ SameLists(u, w) /\ SameGroups(u, w)
      /\ u.modules = x /\ u.detector = y
  BY <1>2 DEF SameWires, SameLists, SameGroups
<1> QED
  BY <1>3, <1>4 DEF x, y, u

(* The groups without the channels of A.                                    *)
Regrouped(w, A) ==
  [t \in TDCs |->
     [i \in DOMAIN w.group_map[t] \ UNION {IdsOf(w, a) : a \in {b \in A : w.tdc_group[b] = t}}
        |-> w.group_map[t][i]]]

LEMMA UnsetTDCIs ==
  ASSUME NEW w, IsW(w), NEW A
  PROVE  /\ IsW(UnsetTDC(w, A)) /\ UnsetTDC(w, A).alive = w.alive
         /\ SameOwners(UnsetTDC(w, A), w) /\ SameWires(UnsetTDC(w, A), w)
         /\ SameLists(UnsetTDC(w, A), w)
         /\ UnsetTDC(w, A).group_map = Regrouped(w, A)
         /\ UnsetTDC(w, A).tdc_group = Cut(w.tdc_group, A)
<1> DEFINE x == Regrouped(w, A)
           y == Cut(w.tdc_group, A)
           v == [w EXCEPT !.group_map = x]
           u == UnsetTDC(w, A)
<1>1. u = [v EXCEPT !.tdc_group = y]
  BY DEF UnsetTDC, Regrouped
<1> HIDE DEF x, y, u
<1>2. u = [hycal |-> w.hycal, system |-> w.system, modules |-> w.modules,
       detector |-> w.detector, daq_ch |-> w.daq_ch, module |-> w.module,
       adc_list |-> w.adc_list, tdc_list |-> w.tdc_list, group_map |-> x,
       tdc_group |-> y, alive |-> w.alive]
  BY <1>1 DEF IsW
<1>3. IsW(u)
  BY <1>2 DEF IsW
<1>4. /\ u.alive = w.alive /\ SameOwners(u, w) /\ SameLists(u, w) /\ SameWires(u, w)
      /\ u.group_map = x /\ u.tdc_group = y
  BY <1>2 DEF SameOwners, SameLists, SameWires
<1> QED
  BY <1>3, <1>4 DEF x, y, u

(* A set of modules or of channels.                                         *)
Part(A, S) == A \subseteq S

(* f leads from each member of X to one of Y or nowhere; g is f without     *)
(* what leads from S.                                                       *)
Table(f, X, Y) == f \in [X -> Y \cup {null}]
IsCut(g, f, X, S) == \A x \in X : g[x] = IF x \in S THEN null ELSE f[x]

LEMMA CutIs ==
  ASSUME NEW X, NEW Y, NEW f, Table(f, X, Y), NEW S
  PROVE  Table(Cut(f, S), X, Y) /\ IsCut(Cut(f, S), f, X, S)
  BY DEF Cut, Table, IsCut

-----------------------------------------------------------------------------
(* The invariant.  Every link has two sides, each kept by the object at its *)
(* end.                                                                     *)

(* A group lists channels by their place in the system's list.              *)
Partial == UNION {[D -> ADCs] : D \in SUBSET Nat}

LinkTypes(w) ==
  /\ w.hycal \in Dets \cup {null} /\ w.system \in SUBSET Dets
  /\ w.modules \in [Dets -> SUBSET Mods] /\ w.detector \in [Mods -> Dets \cup {null}]
  /\ w.daq_ch \in [Mods -> ADCs \cup {null}] /\ w.module \in [ADCs -> Mods \cup {null}]
  /\ w.adc_list \in Seq(ADCs) /\ w.tdc_list \in SUBSET TDCs
  /\ w.group_map \in [TDCs -> Partial] /\ w.tdc_group \in [ADCs -> TDCs \cup {null}]
  /\ w.alive \in SUBSET (Dets \cup Mods \cup ADCs \cup TDCs)

(* The one detector of the system is the one that exists, all modules that  *)
(* exist are in its list, and each knows it.                                *)
Owned(w) ==
  /\ w.system = {w.hycal} \ {null} /\ w.alive \cap Dets = {w.hycal} \ {null}
  /\ w.hycal = null => w.alive \cap Mods = {}
  /\ \A d \in Dets : w.modules[d] = IF d = w.hycal THEN w.alive \cap Mods ELSE {}
  /\ \A m \in Mods : w.detector[m] = IF m \in w.alive THEN w.hycal ELSE null

(* A module and its channel name each other, and both exist.                *)
Wired(w) ==
  /\ \A m \in Mods, a \in ADCs : w.daq_ch[m] = a <=> w.module[a] = m
  /\ \A m \in Mods : w.daq_ch[m] # null => m \in w.alive
  /\ \A a \in ADCs : w.module[a] # null => a \in w.alive

(* The system's lists are the channels that exist, once each; a group holds *)
(* a channel at its place in the list just if the channel names the group.  *)
GroupsAgree(w) ==
  /\ w.alive \cap TDCs = w.tdc_list /\ w.alive \cap ADCs = ToSet(w.adc_list)
  /\ \A i, j \in DOMAIN w.adc_list : w.adc_list[i] = w.adc_list[j] => i = j
  /\ \A t \in TDCs : \A i \in DOMAIN w.group_map[t] :
       /\ i \in DOMAIN w.adc_list /\ w.group_map[t][i] = w.adc_list[i]
       /\ w.tdc_group[w.adc_list[i]] = t
  /\ \A a \in ADCs, t \in TDCs : w.tdc_group[a] = t =>
       t \in w.tdc_list /\ \E i \in DOMAIN w.group_map[t] : w.group_map[t][i] = a

Sound(w) == IsW(w) /\ LinkTypes(w) /\ Owned(w) /\ Wired(w) /\ GroupsAgree(w)

LEMMA CutWired ==
  ASSUME ObjectKinds, NEW w, LinkTypes(w), Wired(w), NEW M, Part(M, Mods)
  PROVE  LET x == Cut(w.daq_ch, M)
             y == Cut(w.module, Values(w.daq_ch, M))
         IN  /\ x \in [Mods -> ADCs \cup {null}] /\ y \in [ADCs -> Mods \cup {null}]
             /\ \A m \in Mods, a \in ADCs : x[m] = a <=> y[a] = m
             /\ \A m \in Mods : x[m] # null => m \in w.alive \ M
             /\ \A a \in ADCs : y[a] # null => a \in w.alive
<1> DEFINE x == Cut(w.daq_ch, M)
           y == Cut(w.module, Values(w.daq_ch, M))
<1>0. Table(w.daq_ch, Mods, ADCs) /\ Table(w.module, ADCs, Mods)
  BY DEF LinkTypes, Table
<1>1. Table(x, Mods, ADCs) /\ IsCut(x, w.daq_ch, Mods, M)
  BY <1>0, CutIs
<1>2. Table(y, ADCs, Mods) /\ IsCut(y, w.module, ADCs, Values(w.daq_ch, M))
  BY <1>0, CutIs
<1> HIDE DEF x, y
<1>3. null \notin ADCs /\ null \notin Mods
  BY DEF ObjectKinds
<1> QED
  BY SMTT(30), <1>1, <1>2, <1>3 DEF Wired, LinkTypes, Part, Values, Table, IsCut, x, y

LEMMA CutWiredADC ==
  ASSUME ObjectKinds, NEW w, LinkTypes(w), Wired(w), NEW A, Part(A, ADCs)
  PROVE  LET x == Cut(w.daq_ch, Values(w.module, A))
             y == Cut(w.module, A)
         IN  /\ x \in [Mods -> ADCs \cup {null}] /\ y \in [ADCs -> Mods \cup {null}]
             /\ \A m \in Mods, a \in ADCs : x[m] = a <=> y[a] = m
             /\ \A m \in Mods : x[m] # null => m \in w.alive
             /\ \A a \in ADCs : y[a] # null => a \in w.alive \ A
<1> DEFINE x == Cut(w.daq_ch, Values(w.module, A))
           y == Cut(w.module, A)
<1>0. Table(w.daq_ch, Mods, ADCs) /\ Table(w.module, ADCs, Mods)
  BY DEF LinkTypes, Table
<1>1. Table(x, Mods, ADCs) /\ IsCut(x, w.daq_ch, Mods, Values(w.module, A))
  BY <1>0, CutIs
<1>2. Table(y, ADCs, Mods) /\ IsCut(y, w.module, ADCs, A)
  BY <1>0, CutIs
<1> HIDE DEF x, y
<1>3. null \notin ADCs /\ null \notin Mods
  BY DEF ObjectKinds
<1> QED
  BY <1>1, <1>2, <1>3 DEF Wired, LinkTypes, Part, Values, Table, IsCut, x, y

-----------------------------------------------------------------------------
(* Modules and detectors go.                                                *)

LEMMA DeleteModulesIs ==
  ASSUME ObjectKinds, NEW w, IsW(w), NEW M, Part(M, Mods),
         w.modules \in [Dets -> SUBSET Mods], w.detector \in [Mods -> Dets \cup {null}],
         \A m \in M : w.detector[m] = null
  PROVE  LET u == DeleteModules(w, M)
         IN  /\ IsW(u) /\ SameOwners(u, w) /\ SameLists(u, w) /\ SameGroups(u, w)
             /\ u.module = Cut(w.module, Values(w.daq_ch, M))
             /\ u.daq_ch = Cut(w.daq_ch, M) /\ u.alive = w.alive \ M
<1> DEFINE v == UnsetDetector(w, M)
           z == UnsetChannel(v, M)
           u == DeleteModules(w, M)
<1>1. /\ IsW(v) /\ v.alive = w.alive /\ v.hycal = w.hycal /\ v.system = w.system
      /\ SameWires(v, w) /\ SameLists(v, w) /\ SameGroups(v, w)
      /\ v.modules = [d \in Dets |-> w.modules[d] \ {m \in M : w.detector[m] = d}]
      /\ v.detector = Cut(w.detector, M)
  BY UnsetDetectorIs
<1>2. v.modules = w.modules
  <2>1. \A d \in Dets : {m \in M : w.detector[m] = d} = {}
    BY DEF ObjectKinds, Part
  <2>2. \A d \in Dets : w.modules[d] \ {} = w.modules[d]
    OBVIOUS
  <2>3. w.modules = [d \in Dets |-> w.modules[d]]
    OBVIOUS
  <2> QED
    BY <1>1, <2>1, <2>2, <2>3
<1>3. v.detector = w.detector
  BY <1>1 DEF Cut
<1> HIDE DEF v
<1>4. /\ IsW(z) /\ z.alive = v.alive /\ SameOwners(z, v) /\ SameLists(z, v) /\ SameGroups(z, v)
      /\ z.module = Cut(v.module, Values(v.daq_ch, M)) /\ z.daq_ch = Cut(v.daq_ch, M)
  <2> HIDE DEF z
  <2>1. IsW(v)
    BY <1>1
  <2> QED
    BY <2>1, UnsetChannelIs DEF z
<1>5. u = [z EXCEPT !.alive = z.alive \ M]
  BY DEF DeleteModules, v
<1> HIDE DEF z, u
<1>6. IsW(u) /\ SameOwners(u, z) /\ SameLists(u, z) /\ SameGroups(u, z) /\ SameWires(u, z)
      /\ u.alive = z.alive \ M
  BY <1>4, <1>5 DEF IsW, SameOwners, SameLists, SameGroups, SameWires
<1>7. SameOwners(u, w) /\ SameLists(u, w) /\ SameGroups(u, w) /\ u.alive = w.alive \ M
  BY <1>1, <1>2, <1>3, <1>4, <1>6 DEF SameOwners, SameLists, SameGroups
<1>8. u.module = Cut(w.module, Values(w.daq_ch, M)) /\ u.daq_ch = Cut(w.daq_ch, M)
  BY <1>1, <1>4, <1>6 DEF SameWires
<1> QED
  BY <1>6, <1>7, <1>8 DEF u

LEMMA DeleteDetectorIs ==
  ASSUME ObjectKinds, NEW w, IsW(w), LinkTypes(w), NEW d \in Dets
  PROVE  LET u == DeleteDetector(w, d)
             M == w.modules[d]
         IN  /\ IsW(u) /\ SameLists(u, w) /\ SameGroups(u, w)
             /\ u.system = IF d \in w.system THEN w.system \ {w.hycal, d} ELSE w.system
             /\ u.hycal = IF d \in w.system THEN null ELSE w.hycal
             /\ u.modules = [w.modules EXCEPT ![d] = {}]
             /\ u.detector = Cut(w.detector, M)
             /\ u.module = Cut(w.module, Values(w.daq_ch, M))
             /\ u.daq_ch = Cut(w.daq_ch, M) /\ u.alive = w.alive \ (M \cup {d})
<1> DEFINE M == w.modules[d]
           v == UnsetSystem(w, d)
           c == Cut(v.detector, M)
           y == [v EXCEPT !.detector = c]
           z == DeleteModules(y, M)
           u == DeleteDetector(w, d)
<1>0. Part(M, Mods)
  BY DEF LinkTypes, Part
<1> HIDE DEF M
<1>1. /\ IsW(v) /\ v.alive = w.alive /\ v.modules = w.modules /\ v.detector = w.detector
      /\ SameWires(v, w) /\ SameLists(v, w) /\ SameGroups(v, w)
      /\ v.system = IF d \in w.system THEN w.system \ {w.hycal, d} ELSE w.system
      /\ v.hycal = IF d \in w.system THEN null ELSE w.hycal
  <2>1. CASE d \notin w.system
    BY <2>1 DEF UnsetSystem, SameWires, SameLists, SameGroups
  <2>2. CASE d \in w.system
    <3> DEFINE s == w.system \ {w.hycal, d}
               x == [w EXCEPT !.system = s]
    <3>1. v = [x EXCEPT !.hycal = null]
      BY <2>2 DEF UnsetSystem
    <3> HIDE DEF s, v
    <3>2. v = [hycal |-> null, system |-> s, modules |-> w.modules,
               detector |-> w.detector, daq_ch |-> w.daq_ch, module |-> w.module,
               adc_list |-> w.adc_list, tdc_list |-> w.tdc_list, group_map |-> w.group_map,
               tdc_group |-> w.tdc_group, alive |-> w.alive]
      BY <3>1 DEF IsW
    <3>3. IsW(v)
      BY <3>2 DEF IsW
    <3> QED
      BY <2>2, <3>2, <3>3 DEF SameWires, SameLists, SameGroups, s
  <2> QED
    BY <2>1, <2>2
<1> HIDE DEF v
<1>2. Table(c, Mods, Dets) /\ IsCut(c, w.detector, Mods, M)
  <2>1. Table(w.detector, Mods, Dets)
    BY DEF LinkTypes, Table
  <2> QED
    BY <1>1, <2>1, CutIs
<1> HIDE DEF v, c
<1>3. /\ IsW(y) /\ y.alive = w.alive /\ y.modules = w.modules /\ y.detector = c
      /\ SameWires(y, w) /\ SameLists(y, w) /\ SameGroups(y, w)
      /\ y.system = v.system /\ y.hycal = v.hycal
  BY <1>1 DEF IsW, SameWires, SameLists, SameGroups
<1> HIDE DEF y
<1>4. /\ IsW(z) /\ SameOwners(z, y) /\ SameLists(z, y) /\ SameGroups(z, y)
      /\ z.module = Cut(y.module, Values(y.daq_ch, M))
      /\ z.daq_ch = Cut(y.daq_ch, M) /\ z.alive = y.alive \ M
  <2>1. y.modules \in [Dets -> SUBSET Mods] /\ y.detector \in [Mods -> Dets \cup {null}]
    BY <1>2, <1>3 DEF LinkTypes, Table
  <2>2. \A m \in M : y.detector[m] = null
    BY <1>0, <1>2, <1>3 DEF Part, IsCut
  <2> QED
    BY <1>0, <1>3, <2>1, <2>2, DeleteModulesIs
<1> DEFINE b == z.alive \ {d}
           x == [z EXCEPT !.alive = b]
           n == [z.modules EXCEPT ![d] = {}]
<1>5. u = [x EXCEPT !.modules = n]
  <2>1. u = [z EXCEPT !.alive = @ \ {d}, !.modules[d] = {}]
    BY Zenon DEF DeleteDetector, M, v, c, y
  <2> HIDE DEF u, z
  <2> QED
    BY <1>4, <2>1 DEF IsW
<1> HIDE DEF b, n, u, z
<1>6. u = [hycal |-> z.hycal, system |-> z.system, modules |-> n,
               detector |-> z.detector, daq_ch |-> z.daq_ch, module |-> z.module,
               adc_list |-> z.adc_list, tdc_list |-> z.tdc_list, group_map |-> z.group_map,
               tdc_group |-> z.tdc_group, alive |-> b]
  BY <1>4, <1>5 DEF IsW
<1>7. IsW(u)
  BY <1>6 DEF IsW
<1>8. /\ SameLists(u, w) /\ SameGroups(u, w) /\ u.detector = c
      /\ u.system = v.system /\ u.hycal = v.hycal
  BY <1>3, <1>4, <1>6 DEF SameOwners, SameLists, SameGroups
<1>9. n = [w.modules EXCEPT ![d] = {}]
  BY <1>3, <1>4 DEF n, SameOwners
<1>10. b = w.alive \ (M \cup {d})
  BY <1>3, <1>4 DEF b
<1>11. u.module = Cut(w.module, Values(w.daq_ch, M)) /\ u.daq_ch = Cut(w.daq_ch, M)
  BY <1>3, <1>4, <1>6 DEF SameWires
<1> QED
  BY <1>1, <1>6, <1>7, <1>8, <1>9, <1>10, <1>11 DEF u, M, c, v

-----------------------------------------------------------------------------
(* GroupsAgree is about the lists, the groups and what is alive of them.    *)
LEMMA GroupsAgreeSame ==
  ASSUME ObjectKinds, NEW w, LinkTypes(w), GroupsAgree(w), NEW u, SameLists(u, w), SameGroups(u, w),
         u.alive \cap (ADCs \cup TDCs) = w.alive \cap (ADCs \cup TDCs)
  PROVE  GroupsAgree(u)
<1>1. u.alive \cap ADCs = w.alive \cap ADCs /\ u.alive \cap TDCs = w.alive \cap TDCs
  OBVIOUS
<1>2. /\ u.adc_list = w.adc_list /\ u.tdc_list = w.tdc_list
      /\ u.group_map = w.group_map /\ u.tdc_group = w.tdc_group
  BY DEF SameLists, SameGroups
<1> QED
  BY <1>1, <1>2 DEF GroupsAgree

LEMMA OwnedSame ==
  ASSUME NEW w, Owned(w), NEW u, SameOwners(u, w), u.alive = w.alive
  PROVE  Owned(u)
  BY DEF Owned, SameOwners

(* u is w after its detector has gone with its modules.                     *)
Undetected(u, w) ==
  LET M == w.modules[w.hycal]
  IN  /\ IsW(u) /\ SameLists(u, w) /\ SameGroups(u, w)
      /\ u.system = {} /\ u.hycal = null
      /\ u.modules = [w.modules EXCEPT ![w.hycal] = {}]
      /\ u.detector = Cut(w.detector, M)
      /\ u.module = Cut(w.module, Values(w.daq_ch, M))
      /\ u.daq_ch = Cut(w.daq_ch, M) /\ u.alive = w.alive \ (M \cup {w.hycal})

LEMMA UndetectedSound ==
  ASSUME ObjectKinds, NEW w, Sound(w), w.hycal # null, NEW u, Undetected(u, w)
  PROVE  Sound(u)
<1> DEFINE M == w.modules[w.hycal]
<1>1. /\ IsW(u) /\ SameLists(u, w) /\ SameGroups(u, w)
      /\ u.system = {} /\ u.hycal = null
      /\ u.modules = [w.modules EXCEPT ![w.hycal] = {}]
      /\ u.detector = Cut(w.detector, M)
      /\ u.module = Cut(w.module, Values(w.daq_ch, M))
      /\ u.daq_ch = Cut(w.daq_ch, M) /\ u.alive = w.alive \ (M \cup {w.hycal})
  BY DEF Undetected
<1>2. w.hycal \in Dets /\ M = w.alive \cap Mods /\ Part(M, Mods)
  BY DEF Sound, Owned, LinkTypes, Part
<1> HIDE DEF M
<1>3. Table(u.detector, Mods, Dets) /\ IsCut(u.detector, w.detector, Mods, M)
  <2>1. Table(w.detector, Mods, Dets)
    BY DEF Sound, LinkTypes, Table
  <2> QED
    BY <1>1, <2>1, CutIs
<1>4. /\ u.daq_ch \in [Mods -> ADCs \cup {null}] /\ u.module \in [ADCs -> Mods \cup {null}]
      /\ \A m \in Mods, a \in ADCs : u.daq_ch[m] = a <=> u.module[a] = m
      /\ \A m \in Mods : u.daq_ch[m] # null => m \in w.alive \ M
      /\ \A a \in ADCs : u.module[a] # null => a \in w.alive
  <2>1. LinkTypes(w) /\ Wired(w)
    BY DEF Sound
  <2> DEFINE x == Cut(w.daq_ch, M)
             y == Cut(w.module, Values(w.daq_ch, M))
  <2>2. /\ x \in [Mods -> ADCs \cup {null}] /\ y \in [ADCs -> Mods \cup {null}]
        /\ \A m \in Mods, a \in ADCs : x[m] = a <=> y[a] = m
        /\ \A m \in Mods : x[m] # null => m \in w.alive \ M
        /\ \A a \in ADCs : y[a] # null => a \in w.alive
    BY <1>2, <2>1, CutWired
  <2>3. u.daq_ch = x /\ u.module = y
    BY <1>1
  <2> HIDE DEF x, y
  <2> QED
    BY <2>2, <2>3
<1>5. /\ u.alive \cap (ADCs \cup TDCs) = w.alive \cap (ADCs \cup TDCs)
      /\ u.alive \cap Mods = {} /\ u.alive \cap Dets = {}
  <2>1. w.alive \cap Dets = {w.hycal}
    BY <1>2 DEF Sound, Owned
  <2> QED
    BY <1>1, <1>2, <2>1 DEF ObjectKinds
<1>6. u.modules \in [Dets -> SUBSET Mods] /\ \A d \in Dets : u.modules[d] = {}
  <2>1. w.modules \in [Dets -> SUBSET Mods] /\ \A d \in Dets : d # w.hycal => w.modules[d] = {}
    BY DEF Sound, LinkTypes, Owned
  <2> QED
    BY <1>1, <1>2, <2>1
<1>7. \A m \in Mods : u.detector[m] = null
  BY <1>2, <1>3 DEF Sound, Owned, IsCut
<1>8. LinkTypes(u)
  BY <1>1, <1>3, <1>4, <1>6 DEF Sound, LinkTypes, SameLists, SameGroups, Table
<1>9. Owned(u)
  BY <1>1, <1>5, <1>6, <1>7 DEF Owned
<1>10. Wired(u)
  <2>1. \A m \in Mods : m # w.hycal /\ (m \in w.alive \ M => m \in u.alive)
    BY <1>1, <1>2 DEF ObjectKinds
  <2>2. \A a \in ADCs : a \in w.alive => a \in u.alive
    BY <1>5
  <2> QED
    BY <1>4, <2>1, <2>2 DEF Wired
<1>11. GroupsAgree(u)
  BY <1>1, <1>5, GroupsAgreeSame DEF Sound
<1> QED
  BY <1>1, <1>8, <1>9, <1>10, <1>11 DEF Sound

LEMMA DeleteDetectorSound ==
  ASSUME ObjectKinds, NEW w, Sound(w), w.hycal # null
  PROVE  Undetected(DeleteDetector(w, w.hycal), w)
<1> DEFINE u == DeleteDetector(w, w.hycal)
           M == w.modules[w.hycal]
<1>1. w.hycal \in Dets /\ w.system = {w.hycal} /\ IsW(w) /\ LinkTypes(w)
  BY DEF Sound, Owned, LinkTypes
<1>2. /\ IsW(u) /\ SameLists(u, w) /\ SameGroups(u, w)
      /\ u.system = IF w.hycal \in w.system THEN w.system \ {w.hycal, w.hycal} ELSE w.system
      /\ u.hycal = IF w.hycal \in w.system THEN null ELSE w.hycal
      /\ u.modules = [w.modules EXCEPT ![w.hycal] = {}]
      /\ u.detector = Cut(w.detector, M)
      /\ u.module = Cut(w.module, Values(w.daq_ch, M))
      /\ u.daq_ch = Cut(w.daq_ch, M) /\ u.alive = w.alive \ (M \cup {w.hycal})
  BY <1>1, DeleteDetectorIs
<1> HIDE DEF u
<1>3. u.system = {} /\ u.hycal = null
  BY <1>1, <1>2
<1> QED
  BY <1>2, <1>3 DEF Undetected, u

LEMMA RemoveDetectorSound ==
  ASSUME ObjectKinds, NEW w, Sound(w)
  PROVE  Sound(RemoveDetectorOf(w)) /\ RemoveDetectorOf(w).hycal = null
         /\ RemoveDetectorOf(w).alive \subseteq w.alive
<1>1. CASE w.hycal = null
  BY <1>1 DEF RemoveDetectorOf
<1>2. CASE w.hycal # null
  <2> DEFINE h == w.hycal
             s == w.system \ {h}
             v == [w EXCEPT !.system = s]
             M == w.modules[h]
             z == DeleteDetector(v, h)
             u == RemoveDetectorOf(w)
  <2>1. h \in Dets /\ w.system = {h} /\ IsW(w) /\ LinkTypes(w)
    BY <1>2 DEF Sound, Owned, LinkTypes
  <2>2. u = [z EXCEPT !.hycal = null]
    BY <1>2 DEF RemoveDetectorOf
  <2>3. s = {}
    BY <2>1
  <2> HIDE DEF s
  <2>4. v = [hycal |-> w.hycal, system |-> s, modules |-> w.modules,
               detector |-> w.detector, daq_ch |-> w.daq_ch, module |-> w.module,
               adc_list |-> w.adc_list, tdc_list |-> w.tdc_list, group_map |-> w.group_map,
               tdc_group |-> w.tdc_group, alive |-> w.alive]
    BY <2>1 DEF IsW
  <2> HIDE DEF v
  <2>5. IsW(v)
    BY <2>4 DEF IsW
  <2>6. LinkTypes(v)
    BY <2>1, <2>3, <2>4 DEF LinkTypes
  <2>7. /\ IsW(z) /\ SameLists(z, v) /\ SameGroups(z, v)
        /\ z.system = IF h \in v.system THEN v.system \ {v.hycal, h} ELSE v.system
        /\ z.modules = [v.modules EXCEPT ![h] = {}]
        /\ z.detector = Cut(v.detector, v.modules[h])
        /\ z.module = Cut(v.module, Values(v.daq_ch, v.modules[h]))
        /\ z.daq_ch = Cut(v.daq_ch, v.modules[h]) /\ z.alive = v.alive \ (v.modules[h] \cup {h})
    BY SMTT(30), <2>1, <2>5, <2>6, DeleteDetectorIs
  <2> HIDE DEF z, u
  <2>8. u = [hycal |-> null, system |-> z.system, modules |-> z.modules,
               detector |-> z.detector, daq_ch |-> z.daq_ch, module |-> z.module,
               adc_list |-> z.adc_list, tdc_list |-> z.tdc_list, group_map |-> z.group_map,
               tdc_group |-> z.tdc_group, alive |-> z.alive]
    BY <2>2, <2>7 DEF IsW
  <2>9. IsW(u)
    BY <2>8 DEF IsW
  <2>10. z.system = {}
    BY <2>3, <2>4, <2>7
  <2>11. v.modules = w.modules /\ v.detector = w.detector /\ v.daq_ch = w.daq_ch
         /\ v.module = w.module /\ v.alive = w.alive /\ SameLists(v, w) /\ SameGroups(v, w)
    BY <2>4 DEF SameLists, SameGroups
  <2>12. SameLists(u, w) /\ SameGroups(u, w)
    BY <2>7, <2>8, <2>11 DEF SameLists, SameGroups
  <2>13. u.hycal = null /\ u.system = {} /\ u.modules = z.modules /\ u.detector = z.detector
         /\ u.module = z.module /\ u.daq_ch = z.daq_ch /\ u.alive = z.alive
    BY <2>8, <2>10
  <2>14. Undetected(u, w)
    BY <2>7, <2>9, <2>11, <2>12, <2>13 DEF Undetected
  <2>15. Sound(u)
    BY <1>2, <2>14, UndetectedSound
  <2>16. u.alive \subseteq w.alive
    BY <2>7, <2>11, <2>13
  <2> QED
    BY <2>13, <2>15, <2>16 DEF u
<1> QED
  BY <1>1, <1>2

LEMMA SetDetectorSound ==
  ASSUME ObjectKinds, NEW w, Sound(w), w.hycal = null, NEW d \in Dets, d \notin w.alive
  PROVE  Sound([w EXCEPT !.hycal = d, !.system = @ \cup {d}, !.alive = @ \cup {d}])
<1> DEFINE s == w.system \cup {d}
           l == w.alive \cup {d}
           x == [w EXCEPT !.hycal = d]
           y == [x EXCEPT !.system = s]
           u == [w EXCEPT !.hycal = d, !.system = @ \cup {d}, !.alive = @ \cup {d}]
<1>0. IsW(w)
  BY DEF Sound
<1>1. u = [y EXCEPT !.alive = l]
  BY <1>0 DEF IsW
<1>2. s = {d} /\ l = w.alive \cup {d}
  BY DEF Sound, Owned
<1> HIDE DEF s, l, u
<1>3. u = [hycal |-> d, system |-> s, modules |-> w.modules,
               detector |-> w.detector, daq_ch |-> w.daq_ch, module |-> w.module,
               adc_list |-> w.adc_list, tdc_list |-> w.tdc_list, group_map |-> w.group_map,
               tdc_group |-> w.tdc_group, alive |-> l]
  BY <1>0, <1>1 DEF IsW
<1>4. IsW(u)
  BY <1>3 DEF IsW
<1>5. /\ u.hycal = d /\ u.system = {d} /\ u.modules = w.modules /\ u.detector = w.detector
      /\ u.alive = w.alive \cup {d} /\ SameWires(u, w) /\ SameLists(u, w) /\ SameGroups(u, w)
  BY <1>2, <1>3 DEF SameWires, SameLists, SameGroups
<1>6. u.alive \cap (ADCs \cup TDCs) = w.alive \cap (ADCs \cup TDCs) /\ d # null
      /\ u.alive \cap Mods = w.alive \cap Mods /\ u.alive \cap Dets = (w.alive \cap Dets) \cup {d}
  BY <1>5 DEF ObjectKinds
<1>7. LinkTypes(u)
  <2>1. u.alive \in SUBSET (Dets \cup Mods \cup ADCs \cup TDCs)
    BY <1>5 DEF Sound, LinkTypes
  <2> QED
    BY <1>5, <2>1 DEF Sound, LinkTypes, SameWires, SameLists, SameGroups
<1>8. Owned(u)
  <2>1. w.alive \cap Mods = {} /\ w.alive \cap Dets = {}
    BY DEF Sound, Owned
  <2>2. \A e \in Dets : w.modules[e] = {}
    BY <2>1 DEF Sound, Owned
  <2>3. \A m \in Mods : w.detector[m] = null /\ m \notin u.alive
    BY <1>6, <2>1 DEF Sound, Owned
  <2> QED
    BY SMTT(30), <1>5, <1>6, <2>1, <2>2, <2>3 DEF Owned
<1>9. Wired(u)
  BY <1>5 DEF Sound, Wired, SameWires
<1>10. GroupsAgree(u)
  BY <1>5, <1>6, GroupsAgreeSame DEF Sound
<1> QED
  BY <1>4, <1>7, <1>8, <1>9, <1>10 DEF Sound, u

-----------------------------------------------------------------------------
(* Modules are read, and removed.                                           *)
(* Deleting the modules of old: n is the detector's list meanwhile.         *)
NewList(n, w, old) == n = w.modules[w.hycal] \/ n = w.modules[w.hycal] \ old

Dropped(w, h, old, n) == DeleteModules([w EXCEPT !.detector = Cut(@, old), !.modules[h] = n], old)

LEMMA PutDetectors ==
  ASSUME NEW w, IsW(w), NEW c, NEW g
  PROVE  [[w EXCEPT !.detector = c] EXCEPT !.modules = g] =
           [hycal |-> w.hycal, system |-> w.system, modules |-> g,
               detector |-> c, daq_ch |-> w.daq_ch, module |-> w.module,
               adc_list |-> w.adc_list, tdc_list |-> w.tdc_list, group_map |-> w.group_map,
               tdc_group |-> w.tdc_group, alive |-> w.alive]
<1> DEFINE x == [w EXCEPT !.detector = c]
<1>1. x = [hycal |-> w.hycal, system |-> w.system, modules |-> w.modules,
           detector |-> c, daq_ch |-> w.daq_ch, module |-> w.module,
           adc_list |-> w.adc_list, tdc_list |-> w.tdc_list, group_map |-> w.group_map,
           tdc_group |-> w.tdc_group, alive |-> w.alive]
  BY DEF IsW
<1> HIDE DEF x
<1>2. [x EXCEPT !.modules = g] =
        [hycal |-> w.hycal, system |-> w.system, modules |-> g,
         detector |-> c, daq_ch |-> w.daq_ch, module |-> w.module,
         adc_list |-> w.adc_list, tdc_list |-> w.tdc_list, group_map |-> w.group_map,
         tdc_group |-> w.tdc_group, alive |-> w.alive]
  BY <1>1
<1> QED
  BY <1>2 DEF x

(* z is w without the modules of old.                                       *)
IsUnwired(z, w, old) ==
  z.module = Cut(w.module, Values(w.daq_ch, old)) /\ z.daq_ch = Cut(w.daq_ch, old)

IsDropped(z, w, old, n) ==
  /\ IsW(z) /\ SameLists(z, w) /\ SameGroups(z, w)
  /\ z.hycal = w.hycal /\ z.system = w.system /\ z.alive = w.alive \ old
  /\ z.modules = [w.modules EXCEPT ![w.hycal] = n]
  /\ Table(z.detector, Mods, Dets) /\ IsCut(z.detector, w.detector, Mods, old)
  /\ IsUnwired(z, w, old)

LEMMA DroppedIs ==
  ASSUME ObjectKinds, NEW w, Sound(w), w.hycal # null, NEW old, Part(old, w.modules[w.hycal]),
         NEW n, NewList(n, w, old),
         NEW z, z = Dropped(w, w.hycal, old, n)
  PROVE  IsDropped(z, w, old, n)
<1> DEFINE h == w.hycal
           c == Cut(w.detector, old)
           g == [w.modules EXCEPT ![h] = n]
           x == [w EXCEPT !.detector = c]
           v == [x EXCEPT !.modules = g]
<1>0. IsW(w) /\ h \in Dets /\ Part(old, Mods) /\ Part(n, Mods)
  BY DEF Sound, LinkTypes, Part, NewList
<1>1. z = DeleteModules(v, old)
  <2>1. [w EXCEPT !.detector = Cut(@, old), !.modules[h] = n] = v
    BY <1>0 DEF IsW
  <2> HIDE DEF v
  <2> QED
    BY <2>1 DEF Dropped
<1>2. Table(c, Mods, Dets) /\ IsCut(c, w.detector, Mods, old)
  <2>1. Table(w.detector, Mods, Dets)
    BY DEF Sound, LinkTypes, Table
  <2> QED
    BY <2>1, CutIs
<1>3. g \in [Dets -> SUBSET Mods]
  BY <1>0 DEF Sound, LinkTypes, Part
<1> HIDE DEF c, g
<1>4. v = [hycal |-> w.hycal, system |-> w.system, modules |-> g,
               detector |-> c, daq_ch |-> w.daq_ch, module |-> w.module,
               adc_list |-> w.adc_list, tdc_list |-> w.tdc_list, group_map |-> w.group_map,
               tdc_group |-> w.tdc_group, alive |-> w.alive]
  <2>1. IsW(w)
    BY <1>0
  <2> QED
    BY <2>1, PutDetectors
<1> HIDE DEF v
<1>5. IsW(v)
  BY <1>4 DEF IsW
<1>6. /\ v.hycal = w.hycal /\ v.system = w.system /\ v.modules = g /\ v.detector = c
      /\ v.daq_ch = w.daq_ch /\ v.module = w.module /\ SameLists(v, w) /\ SameGroups(v, w)
      /\ v.alive = w.alive
  BY <1>4 DEF SameLists, SameGroups
<1>7. /\ IsW(z) /\ SameOwners(z, v) /\ SameLists(z, v) /\ SameGroups(z, v)
      /\ z.module = Cut(v.module, Values(v.daq_ch, old))
      /\ z.daq_ch = Cut(v.daq_ch, old) /\ z.alive = v.alive \ old
  <2>1. v.modules \in [Dets -> SUBSET Mods] /\ v.detector \in [Mods -> Dets \cup {null}]
    BY <1>2, <1>3, <1>6 DEF Table
  <2>2. \A m \in old : v.detector[m] = null
    BY <1>0, <1>2, <1>6 DEF Part, IsCut
  <2> QED
    BY <1>0, <1>1, <1>5, <2>1, <2>2, DeleteModulesIs
<1>8. SameLists(z, w) /\ SameGroups(z, w) /\ z.hycal = w.hycal /\ z.system = w.system
      /\ z.modules = g /\ z.detector = c
  BY <1>6, <1>7 DEF SameOwners, SameLists, SameGroups
<1>9. z.module = Cut(w.module, Values(w.daq_ch, old)) /\ z.daq_ch = Cut(w.daq_ch, old)
      /\ z.alive = w.alive \ old
  BY <1>6, <1>7
<1> QED
  BY <1>2, <1>7, <1>8, <1>9 DEF g, IsDropped, IsUnwired

(* Wired, after modules have gone.                                          *)
Rewired(z, w, old) ==
  /\ z.daq_ch \in [Mods -> ADCs \cup {null}] /\ z.module \in [ADCs -> Mods \cup {null}]
  /\ \A m \in Mods, a \in ADCs : z.daq_ch[m] = a <=> z.module[a] = m
  /\ \A m \in Mods : z.daq_ch[m] # null => m \in w.alive \ old
  /\ \A a \in ADCs : z.module[a] # null => a \in w.alive

LEMMA DroppedWired ==
  ASSUME ObjectKinds, NEW w, Sound(w), NEW old, Part(old, Mods), NEW z,
         IsUnwired(z, w, old)
  PROVE  Rewired(z, w, old)
<1>1. LinkTypes(w) /\ Wired(w)
  BY DEF Sound
<1> DEFINE x == Cut(w.daq_ch, old)
           y == Cut(w.module, Values(w.daq_ch, old))
<1>2. /\ x \in [Mods -> ADCs \cup {null}] /\ y \in [ADCs -> Mods \cup {null}]
      /\ \A m \in Mods, a \in ADCs : x[m] = a <=> y[a] = m
      /\ \A m \in Mods : x[m] # null => m \in w.alive \ old
      /\ \A a \in ADCs : y[a] # null => a \in w.alive
  BY <1>1, CutWired
<1>3. z.daq_ch = x /\ z.module = y
  BY DEF IsUnwired
<1> HIDE DEF x, y
<1> QED
  BY <1>2, <1>3 DEF Rewired

LEMMA RemoveModuleSound ==
  ASSUME ObjectKinds, NEW w, Sound(w), w.hycal # null, NEW m \in w.modules[w.hycal],
         NEW u, u = Dropped(w, w.hycal, {m}, w.modules[w.hycal] \ {m})
  PROVE  Sound(u)
<1> DEFINE h == w.hycal
           old == {m}
           n == w.modules[h] \ {m}
<1>0. h \in Dets /\ Part(old, w.modules[h]) /\ Part(old, Mods) /\ m \in Mods
  BY DEF Sound, LinkTypes, Part
<1> HIDE DEF old
<1>1. IsDropped(u, w, old, n)
  <2>1. u = Dropped(w, w.hycal, old, n) /\ NewList(n, w, old)
    BY DEF old, NewList
  <2> HIDE DEF n
  <2> QED
    BY <1>0, <2>1, DroppedIs
<1>9. /\ IsW(u) /\ SameLists(u, w) /\ SameGroups(u, w)
      /\ u.hycal = w.hycal /\ u.system = w.system /\ u.alive = w.alive \ old
      /\ u.modules = [w.modules EXCEPT ![w.hycal] = n]
      /\ Table(u.detector, Mods, Dets) /\ IsCut(u.detector, w.detector, Mods, old)
  BY <1>1 DEF IsDropped
<1>2. Rewired(u, w, old)
  <2>1. IsUnwired(u, w, old)
    BY <1>1 DEF IsDropped
  <2>2. Part(old, Mods)
    BY <1>0
  <2> QED
    BY <2>1, <2>2, DroppedWired
<1>3. /\ u.alive \cap (ADCs \cup TDCs) = w.alive \cap (ADCs \cup TDCs)
      /\ u.alive \cap Mods = (w.alive \cap Mods) \ {m} /\ u.alive \cap Dets = w.alive \cap Dets
  BY ZenonT(30), <1>0, <1>9 DEF ObjectKinds, old
<1>4. u.modules \in [Dets -> SUBSET Mods]
      /\ \A d \in Dets : u.modules[d] = IF d = h THEN w.modules[h] \ {m} ELSE w.modules[d]
  <2>1. w.modules \in [Dets -> SUBSET Mods] /\ n \in SUBSET Mods
    BY <1>0 DEF Sound, LinkTypes
  <2>2. u.modules = [w.modules EXCEPT ![h] = n]
    BY <1>9
  <2> HIDE DEF h, n
  <2>3. u.modules \in [Dets -> SUBSET Mods]
    BY <1>0, <2>1, <2>2
  <2>4. \A d \in Dets : u.modules[d] = IF d = h THEN n ELSE w.modules[d]
    BY <1>0, <2>1, <2>2
  <2> QED
    BY <2>3, <2>4 DEF n
<1>5. LinkTypes(u)
  <2>1. u.alive \in SUBSET (Dets \cup Mods \cup ADCs \cup TDCs)
    BY <1>9 DEF Sound, LinkTypes
  <2> QED
    BY <1>9, <1>2, <1>4, <2>1 DEF Sound, LinkTypes, SameLists, SameGroups, Rewired, Table
<1>6. Owned(u)
  <2>1. \A k \in Mods : u.detector[k] = IF k \in u.alive THEN u.hycal ELSE null
    <3>1. \A k \in Mods : w.detector[k] = IF k \in w.alive THEN w.hycal ELSE null
      BY DEF Sound, Owned
    <3>2. \A k \in Mods : u.detector[k] = IF k \in old THEN null ELSE w.detector[k]
      BY <1>9 DEF IsCut
    <3>3. \A k : k \in u.alive <=> k \in w.alive /\ k \notin old
      BY <1>9
    <3> QED
      BY <1>9, <3>1, <3>2, <3>3
  <2>2. \A d \in Dets : u.modules[d] = IF d = u.hycal THEN u.alive \cap Mods ELSE {}
    <3>1. \A d \in Dets : w.modules[d] = IF d = w.hycal THEN w.alive \cap Mods ELSE {}
      BY DEF Sound, Owned
    <3>2. \A d \in Dets : u.modules[d] = IF d = w.hycal THEN w.modules[w.hycal] \ {m}
                                                      ELSE w.modules[d]
      BY <1>4
    <3>3. u.hycal = w.hycal /\ u.alive \cap Mods = (w.alive \cap Mods) \ {m} /\ w.hycal \in Dets
      BY <1>0, <1>3, <1>9
    <3> HIDE DEF h, n
    <3> QED
      BY <3>1, <3>2, <3>3
  <2> QED
    BY ZenonT(30), <1>9, <1>3, <2>1, <2>2 DEF Sound, Owned
<1>7. Wired(u)
  <2>1. \A a \in ADCs : a \in w.alive => a \in u.alive
    BY <1>3
  <2> QED
    BY <1>9, <1>2, <2>1 DEF Wired, Rewired
<1>8. GroupsAgree(u)
  BY <1>9, <1>3, GroupsAgreeSame DEF Sound
<1> QED
  BY <1>9, <1>5, <1>6, <1>7, <1>8 DEF Sound

(* The list is read again: the modules of M for those there were.           *)
Reloaded(w, M) ==
  LET old == w.modules[w.hycal]
      u == DeleteModules([w EXCEPT !.detector = Cut(@, old)], old)
  IN  [u EXCEPT !.modules[w.hycal] = M, !.alive = @ \cup M,
                !.detector = [m \in Mods |-> IF m \in M THEN w.hycal ELSE @[m]]]

LEMMA ReloadedSound ==
  ASSUME ObjectKinds, NEW w, Sound(w), w.hycal # null, NEW M, Part(M, Mods), M \cap w.alive = {},
         NEW r, r = Reloaded(w, M)
  PROVE  Sound(r)
<1> DEFINE h == w.hycal
           old == w.modules[h]
           z == Dropped(w, h, old, old)
           g == [z.modules EXCEPT ![h] = M]
           l == z.alive \cup M
           f == [m \in Mods |-> IF m \in M THEN h ELSE z.detector[m]]
           x == [z EXCEPT !.modules = g]
           y == [x EXCEPT !.alive = l]
<1>0. IsW(w) /\ h \in Dets /\ Part(old, old) /\ Part(old, Mods) /\ old = w.alive \cap Mods
  BY DEF Sound, LinkTypes, Part, Owned
<1> HIDE DEF old
<1>14. IsDropped(z, w, old, old)
  <2>1. NewList(old, w, old) /\ Part(old, w.modules[w.hycal])
    BY DEF old, NewList, Part
  <2> HIDE DEF z
  <2>2. z = Dropped(w, w.hycal, old, old)
    BY DEF z
  <2> QED
    BY <2>1, <2>2, DroppedIs
<1>1. /\ IsW(z) /\ SameLists(z, w) /\ SameGroups(z, w)
      /\ z.hycal = w.hycal /\ z.system = w.system /\ z.alive = w.alive \ old
      /\ z.modules = [w.modules EXCEPT ![w.hycal] = old]
      /\ Table(z.detector, Mods, Dets) /\ IsCut(z.detector, w.detector, Mods, old)
  BY <1>14 DEF IsDropped
<1>2. r = [[[z EXCEPT !.modules[h] = M] EXCEPT !.alive = l] EXCEPT !.detector = f]
  <2>1. [w EXCEPT !.detector = Cut(@, old)] = [w EXCEPT !.detector = Cut(@, old), !.modules[h] = old]
    <3> DEFINE c == Cut(w.detector, old)
               b == [w EXCEPT !.detector = c]
    <3>1. [w EXCEPT !.detector = Cut(@, old), !.modules[h] = old] = [b EXCEPT !.modules[h] = old]
      BY <1>0 DEF IsW
    <3> HIDE DEF c
    <3>2. b = [hycal |-> w.hycal, system |-> w.system, modules |-> w.modules,
               detector |-> c, daq_ch |-> w.daq_ch, module |-> w.module,
               adc_list |-> w.adc_list, tdc_list |-> w.tdc_list, group_map |-> w.group_map,
               tdc_group |-> w.tdc_group, alive |-> w.alive]
      BY <1>0 DEF IsW
    <3> HIDE DEF b
    <3>3. b.modules = w.modules /\ [w.modules EXCEPT ![h] = old] = w.modules
      BY <1>0, <3>2 DEF old, Sound, LinkTypes
    <3>4. [b EXCEPT !.modules[h] = old] = b
      BY <3>2, <3>3
    <3> QED
      BY <3>1, <3>4 DEF b, c
  <2>2. DeleteModules([w EXCEPT !.detector = Cut(@, old)], old) = z
    BY <2>1 DEF Dropped
  <2> HIDE DEF z
  <2>3. r = [z EXCEPT !.modules[h] = M, !.alive = @ \cup M,
                      !.detector = [m \in Mods |-> IF m \in M THEN h ELSE @[m]]]
    BY <2>2 DEF Reloaded, old
  <2> QED
    BY <1>1, <2>3 DEF IsW
<1> HIDE DEF z, g, l, f
<1>3. r = [hycal |-> z.hycal, system |-> z.system, modules |-> g,
               detector |-> f, daq_ch |-> z.daq_ch, module |-> z.module,
               adc_list |-> z.adc_list, tdc_list |-> z.tdc_list, group_map |-> z.group_map,
               tdc_group |-> z.tdc_group, alive |-> l]
  BY <1>1, <1>2 DEF IsW, g
<1>4. IsW(r)
  BY <1>3 DEF IsW
<1>5. /\ r.hycal = h /\ r.system = w.system /\ r.modules = g /\ r.detector = f /\ r.alive = l
      /\ r.daq_ch = z.daq_ch /\ r.module = z.module /\ SameLists(r, w) /\ SameGroups(r, w)
  BY <1>1, <1>3 DEF SameLists, SameGroups
<1>6. Rewired(r, w, old)
  <2>1. IsUnwired(r, w, old)
    BY <1>5, <1>14 DEF IsDropped, IsUnwired
  <2> QED
    BY <1>0, <2>1, DroppedWired
<1>7. /\ r.alive \cap (ADCs \cup TDCs) = w.alive \cap (ADCs \cup TDCs)
      /\ r.alive \cap Mods = M /\ r.alive \cap Dets = w.alive \cap Dets
  BY <1>0, <1>1, <1>5 DEF ObjectKinds, l, Part
<1>8. r.modules \in [Dets -> SUBSET Mods] /\ \A d \in Dets : r.modules[d] = IF d = h THEN M ELSE {}
  <2>1. w.modules \in [Dets -> SUBSET Mods] /\ \A d \in Dets : d # h => w.modules[d] = {}
    BY DEF Sound, LinkTypes, Owned
  <2>2. z.modules \in [Dets -> SUBSET Mods] /\ \A d \in Dets : d # h => z.modules[d] = {}
    BY <1>0, <1>1, <2>1 DEF Part
  <2>3. M \in SUBSET Mods
    BY DEF Part
  <2> QED
    BY <1>0, <1>5, <2>2, <2>3 DEF g
<1>9. r.detector \in [Mods -> Dets \cup {null}]
      /\ \A m \in Mods : r.detector[m] = IF m \in M THEN h ELSE null
  <2>1. \A m \in Mods : z.detector[m] = null
    BY <1>0, <1>1 DEF Sound, Owned, IsCut
  <2> QED
    BY <1>0, <1>5, <2>1 DEF f
<1>10. LinkTypes(r)
  <2>1. r.alive \in SUBSET (Dets \cup Mods \cup ADCs \cup TDCs)
    BY <1>1, <1>5 DEF Sound, LinkTypes, l, Part
  <2> QED
    BY <1>5, <1>6, <1>8, <1>9, <2>1 DEF Sound, LinkTypes, SameLists, SameGroups, Rewired
<1>11. Owned(r)
  <2>1. M \in SUBSET Mods /\ r.hycal # null
    BY <1>5 DEF Part
  <2>2. \A m \in Mods : m \in M <=> m \in r.alive
    BY <1>7
  <2> QED
    BY <1>5, <1>7, <1>8, <1>9, <2>1, <2>2 DEF Sound, Owned
<1>12. Wired(r)
  <2>1. \A a \in ADCs : a \in w.alive => a \in r.alive
    BY <1>7
  <2>2. \A k \in Mods : k \in w.alive \ old => k \in r.alive
    BY <1>1, <1>5 DEF l
  <2> QED
    BY <1>6, <2>1, <2>2 DEF Wired, Rewired
<1>13. GroupsAgree(r)
  BY <1>5, <1>7, GroupsAgreeSame DEF Sound
<1> QED
  BY <1>4, <1>10, <1>11, <1>12, <1>13 DEF Sound

-----------------------------------------------------------------------------
(* A module and a channel are connected.                                    *)
SetModuleOf(u, m, a) == IF u.module[a] = m THEN u
                        ELSE [UnsetModule(u, {a}) EXCEPT !.module[a] = m]
SetChannelOf(u, m, a) == IF u.daq_ch[m] = a THEN u
                         ELSE [UnsetChannel(u, {m}) EXCEPT !.daq_ch[m] = a]

(* u is w with m and a connected, and what they were connected to free.     *)
Joined(u, w, m, a) ==
  /\ w.module[a] # m
  /\ IsW(u) /\ SameOwners(u, w) /\ SameLists(u, w) /\ SameGroups(u, w) /\ u.alive = w.alive
  /\ Table(u.daq_ch, Mods, ADCs) /\ Table(u.module, ADCs, Mods)
  /\ \A k \in Mods : u.daq_ch[k] =
       IF k = m THEN a ELSE IF k = w.module[a] THEN null ELSE w.daq_ch[k]
  /\ \A c \in ADCs : u.module[c] =
       IF c = w.daq_ch[m] THEN null ELSE IF c = a THEN m ELSE w.module[c]

LEMMA SetModuleIs ==
  ASSUME NEW w, IsW(w), NEW a \in ADCs, NEW m \in Mods,
         Table(w.daq_ch, Mods, ADCs), Table(w.module, ADCs, Mods), w.module[a] # m,
         NEW u, u = SetModuleOf(w, m, a)
  PROVE  /\ IsW(u) /\ SameOwners(u, w) /\ SameLists(u, w) /\ SameGroups(u, w)
         /\ u.alive = w.alive
         /\ Table(u.daq_ch, Mods, ADCs) /\ Table(u.module, ADCs, Mods)
         /\ \A k \in Mods : u.daq_ch[k] = IF k = w.module[a] THEN null ELSE w.daq_ch[k]
         /\ \A c \in ADCs : u.module[c] = IF c = a THEN m ELSE w.module[c]
<1> DEFINE S == {a}
           T == Values(w.module, S)
           v == UnsetModule(w, S)
           f == [v.module EXCEPT ![a] = m]
<1>1. u = [v EXCEPT !.module[a] = m]
  BY DEF SetModuleOf
<1>2. T = {w.module[a]}
  BY DEF Values
<1> HIDE DEF S
<1>3. /\ IsW(v) /\ v.alive = w.alive /\ SameOwners(v, w) /\ SameLists(v, w) /\ SameGroups(v, w)
      /\ v.daq_ch = Cut(w.daq_ch, T) /\ v.module = Cut(w.module, S)
  BY UnsetModuleIs
<1> HIDE DEF v, T
<1>4. /\ Table(v.daq_ch, Mods, ADCs) /\ IsCut(v.daq_ch, w.daq_ch, Mods, T)
      /\ Table(v.module, ADCs, Mods) /\ IsCut(v.module, w.module, ADCs, S)
  BY <1>3, CutIs
<1>5. Table(f, ADCs, Mods) /\ \A c \in ADCs : f[c] = IF c = a THEN m ELSE w.module[c]
  <2>1. v.module \in [ADCs -> Mods \cup {null}]
        /\ \A c \in ADCs : v.module[c] = IF c = a THEN null ELSE w.module[c]
    BY <1>4 DEF Table, IsCut, S
  <2> QED
    BY <2>1 DEF Table
<1>6. u = [v EXCEPT !.module = f]
  BY <1>1, <1>3 DEF IsW
<1> HIDE DEF f
<1>7. u = [hycal |-> v.hycal, system |-> v.system, modules |-> v.modules,
           detector |-> v.detector, daq_ch |-> v.daq_ch, module |-> f,
           adc_list |-> v.adc_list, tdc_list |-> v.tdc_list, group_map |-> v.group_map,
           tdc_group |-> v.tdc_group, alive |-> v.alive]
  <2>1. IsW(v)
    BY <1>3
  <2> QED
    BY <1>6, <2>1 DEF IsW
<1>8. IsW(u)
  BY <1>7 DEF IsW
<1>9. SameOwners(u, w) /\ SameLists(u, w) /\ SameGroups(u, w) /\ u.alive = w.alive
  BY <1>3, <1>7 DEF SameOwners, SameLists, SameGroups
<1>10. u.daq_ch = v.daq_ch /\ u.module = f
  BY <1>7
<1>11. \A k \in Mods : u.daq_ch[k] = IF k = w.module[a] THEN null ELSE w.daq_ch[k]
  BY <1>2, <1>4, <1>10 DEF IsCut
<1> QED
  BY <1>4, <1>5, <1>8, <1>9, <1>10, <1>11

LEMMA SetChannelIs ==
  ASSUME NEW w, IsW(w), NEW a \in ADCs, NEW m \in Mods,
         Table(w.daq_ch, Mods, ADCs), Table(w.module, ADCs, Mods), w.daq_ch[m] # a,
         NEW u, u = SetChannelOf(w, m, a)
  PROVE  /\ IsW(u) /\ SameOwners(u, w) /\ SameLists(u, w) /\ SameGroups(u, w)
         /\ u.alive = w.alive
         /\ Table(u.daq_ch, Mods, ADCs) /\ Table(u.module, ADCs, Mods)
         /\ \A k \in Mods : u.daq_ch[k] = IF k = m THEN a ELSE w.daq_ch[k]
         /\ \A c \in ADCs : u.module[c] = IF c = w.daq_ch[m] THEN null ELSE w.module[c]
<1> DEFINE S == {m}
           T == Values(w.daq_ch, S)
           v == UnsetChannel(w, S)
           f == [v.daq_ch EXCEPT ![m] = a]
<1>1. u = [v EXCEPT !.daq_ch[m] = a]
  BY DEF SetChannelOf
<1>2. T = {w.daq_ch[m]}
  BY DEF Values
<1> HIDE DEF S
<1>3. /\ IsW(v) /\ v.alive = w.alive /\ SameOwners(v, w) /\ SameLists(v, w) /\ SameGroups(v, w)
      /\ v.module = Cut(w.module, T) /\ v.daq_ch = Cut(w.daq_ch, S)
  BY UnsetChannelIs
<1> HIDE DEF v, T
<1>4. /\ Table(v.daq_ch, Mods, ADCs) /\ IsCut(v.daq_ch, w.daq_ch, Mods, S)
      /\ Table(v.module, ADCs, Mods) /\ IsCut(v.module, w.module, ADCs, T)
  BY <1>3, CutIs
<1>5. Table(f, Mods, ADCs) /\ \A k \in Mods : f[k] = IF k = m THEN a ELSE w.daq_ch[k]
  <2>1. v.daq_ch \in [Mods -> ADCs \cup {null}]
        /\ \A k \in Mods : v.daq_ch[k] = IF k = m THEN null ELSE w.daq_ch[k]
    BY <1>4 DEF Table, IsCut, S
  <2> QED
    BY <2>1 DEF Table
<1>6. u = [v EXCEPT !.daq_ch = f]
  BY <1>1, <1>3 DEF IsW
<1> HIDE DEF f
<1>7. u = [hycal |-> v.hycal, system |-> v.system, modules |-> v.modules,
           detector |-> v.detector, daq_ch |-> f, module |-> v.module,
           adc_list |-> v.adc_list, tdc_list |-> v.tdc_list, group_map |-> v.group_map,
           tdc_group |-> v.tdc_group, alive |-> v.alive]
  <2>1. IsW(v)
    BY <1>3
  <2> QED
    BY <1>6, <2>1 DEF IsW
<1>8. IsW(u)
  BY <1>7 DEF IsW
<1>9. SameOwners(u, w) /\ SameLists(u, w) /\ SameGroups(u, w) /\ u.alive = w.alive
  BY <1>3, <1>7 DEF SameOwners, SameLists, SameGroups
<1>10. u.module = v.module /\ u.daq_ch = f
  BY <1>7
<1>11. \A c \in ADCs : u.module[c] = IF c = w.daq_ch[m] THEN null ELSE w.module[c]
  BY <1>2, <1>4, <1>10 DEF IsCut
<1> QED
  BY <1>4, <1>5, <1>8, <1>9, <1>10, <1>11

LEMMA ConnectIs ==
  ASSUME ObjectKinds, NEW w, Sound(w), NEW m \in Mods
  PROVE  \/ Connect(w, m) = w
         \/ \E a \in ToSet(w.adc_list) : Joined(Connect(w, m), w, m, a)
<1>0. /\ IsW(w) /\ Table(w.daq_ch, Mods, ADCs) /\ Table(w.module, ADCs, Mods)
      /\ ToSet(w.adc_list) \subseteq ADCs
      /\ \A k \in Mods, c \in ADCs : w.daq_ch[k] = c <=> w.module[c] = k
  <2>1. w.adc_list \in Seq(ADCs)
    BY DEF Sound, LinkTypes
  <2>2. ToSet(w.adc_list) \subseteq ADCs
    BY <2>1 DEF ToSet
  <2> QED
    BY <2>2 DEF Sound, LinkTypes, Table, Wired
<1> DEFINE A == Named(ToSet(w.adc_list), NameOf[m])
           a == CHOOSE b \in A : TRUE
           u == SetModuleOf(w, m, a)
           y == SetChannelOf(u, m, a)
<1>1. CASE A = {}
  BY <1>1 DEF Connect
<1>2. CASE A # {}
  <2>1. Connect(w, m) = y
    BY <1>2, Zenon DEF Connect, SetModuleOf, SetChannelOf
  <2>2. a \in A
    BY <1>2
  <2>3. a \in ToSet(w.adc_list) /\ a \in ADCs
    BY <1>0, <2>2 DEF Named
  <2> HIDE DEF A, a
  <2>4. CASE w.module[a] = m
    <3>1. u = w
      BY <2>4 DEF SetModuleOf
    <3>2. y = u
      BY <1>0, <2>3, <2>4, <3>1 DEF SetChannelOf
    <3> QED
      BY <2>1, <3>1, <3>2
  <2>5. CASE w.module[a] # m
    <3> HIDE DEF u
    <3>1. /\ IsW(u) /\ SameOwners(u, w) /\ SameLists(u, w) /\ SameGroups(u, w)
          /\ u.alive = w.alive
          /\ Table(u.daq_ch, Mods, ADCs) /\ Table(u.module, ADCs, Mods)
          /\ \A k \in Mods : u.daq_ch[k] = IF k = w.module[a] THEN null ELSE w.daq_ch[k]
          /\ \A c \in ADCs : u.module[c] = IF c = a THEN m ELSE w.module[c]
      <4>1. u = SetModuleOf(w, m, a)
        BY DEF u
      <4> QED
        BY <1>0, <2>3, <2>5, <4>1, SetModuleIs
    <3>2. u.daq_ch[m] = w.daq_ch[m] /\ u.daq_ch[m] # a
      BY <1>0, <2>3, <2>5, <3>1
    <3> HIDE DEF y
    <3>3. /\ IsW(y) /\ SameOwners(y, u) /\ SameLists(y, u) /\ SameGroups(y, u)
          /\ y.alive = u.alive
          /\ Table(y.daq_ch, Mods, ADCs) /\ Table(y.module, ADCs, Mods)
          /\ \A k \in Mods : y.daq_ch[k] = IF k = m THEN a ELSE u.daq_ch[k]
          /\ \A c \in ADCs : y.module[c] = IF c = u.daq_ch[m] THEN null ELSE u.module[c]
      <4>1. y = SetChannelOf(u, m, a)
        BY DEF y
      <4> QED
        BY <2>3, <3>1, <3>2, <4>1, SetChannelIs
    <3>4. /\ \A k \in Mods : y.daq_ch[k] =
               IF k = m THEN a ELSE IF k = w.module[a] THEN null ELSE w.daq_ch[k]
          /\ \A c \in ADCs : y.module[c] =
               IF c = w.daq_ch[m] THEN null ELSE IF c = a THEN m ELSE w.module[c]
      BY <3>1, <3>2, <3>3
    <3>5. SameOwners(y, w) /\ SameLists(y, w) /\ SameGroups(y, w) /\ y.alive = w.alive
      BY <3>1, <3>3 DEF SameOwners, SameLists, SameGroups
    <3>6. Joined(y, w, m, a)
      BY <2>5, <3>3, <3>4, <3>5 DEF Joined
    <3> QED
      BY <2>1, <2>3, <3>6
  <2> QED
    BY <2>4, <2>5
<1> QED
  BY <1>1, <1>2

LEMMA LoopStays ==
  ASSUME NEW A, NEW N \in Nat, NEW run, run[0] \in A,
         \A k \in 1 .. N : run[k - 1] \in A => run[k] \in A
  PROVE  run[N] \in A
<1> DEFINE Good == {k \in Nat : k <= N => run[k] \in A}
<1>1. 0 \in Good
  OBVIOUS
<1>2. ASSUME NEW k \in Good PROVE k + 1 \in Good
  <2>1. SUFFICES ASSUME k + 1 <= N PROVE run[k + 1] \in A
    BY <1>2
  <2>2. k \in Nat /\ k + 1 \in 1 .. N /\ (k + 1) - 1 = k /\ k <= N
    BY <1>2, <2>1
  <2>3. run[k] \in A
    BY <1>2, <2>2
  <2> QED
    BY <2>2, <2>3
<1>3. Good \in SUBSET Nat
  OBVIOUS
<1> HIDE DEF Good
<1>4. Good = Nat
  BY <1>1, <1>2, <1>3, SetInduction
<1> QED
  BY <1>4 DEF Good

LEMMA JoinedSound ==
  ASSUME ObjectKinds, NEW w, Sound(w), NEW m \in Mods, m \in w.alive,
         NEW a \in ToSet(w.adc_list), NEW u, Joined(u, w, m, a)
  PROVE  Sound(u)
<1>1. a \in ADCs /\ a \in w.alive /\ null \notin ADCs /\ null \notin Mods
  BY DEF Sound, GroupsAgree, ObjectKinds
<1>2. LinkTypes(u)
  BY DEF Joined, Sound, LinkTypes, SameOwners, SameLists, SameGroups, Table
<1>3. Owned(u)
  <2>1. /\ u.hycal = w.hycal /\ u.system = w.system /\ u.modules = w.modules
        /\ u.detector = w.detector /\ u.alive = w.alive
    BY DEF Joined, SameOwners
  <2> QED
    BY <2>1 DEF Owned, Sound
<1>4. Wired(u)
  <2>1. /\ \A k \in Mods, c \in ADCs : w.daq_ch[k] = c <=> w.module[c] = k
        /\ \A k \in Mods : w.daq_ch[k] # null => k \in w.alive
        /\ \A c \in ADCs : w.module[c] # null => c \in w.alive
    BY DEF Sound, Wired
  <2>2. /\ \A k \in Mods : u.daq_ch[k] =
             IF k = m THEN a ELSE IF k = w.module[a] THEN null ELSE w.daq_ch[k]
        /\ \A c \in ADCs : u.module[c] =
             IF c = w.daq_ch[m] THEN null ELSE IF c = a THEN m ELSE w.module[c]
        /\ u.alive = w.alive
    BY DEF Joined
  <2>3. w.daq_ch[m] # a /\ w.module[a] # m
    BY <1>1, <2>1 DEF Joined
  <2>4. /\ w.daq_ch \in [Mods -> ADCs \cup {null}] /\ w.module \in [ADCs -> Mods \cup {null}]
    BY DEF Sound, LinkTypes
  <2>5. ASSUME NEW k \in Mods, NEW c \in ADCs PROVE u.daq_ch[k] = c <=> u.module[c] = k
    <3>1. CASE k = m
      BY <1>1, <2>1, <2>2, <2>3, <2>4, <3>1
    <3>2. CASE k # m
      BY <1>1, <2>1, <2>2, <2>3, <2>4, <3>2
    <3> QED
      BY <3>1, <3>2
  <2>6. \A k \in Mods : u.daq_ch[k] # null => k \in u.alive
    BY <1>1, <2>1, <2>2
  <2>7. \A c \in ADCs : u.module[c] # null => c \in u.alive
    BY <1>1, <2>1, <2>2
  <2> QED
    BY <2>5, <2>6, <2>7 DEF Wired
<1>5. GroupsAgree(u)
  BY GroupsAgreeSame DEF Sound, Joined
<1> QED
  BY <1>2, <1>3, <1>4, <1>5 DEF Sound, Joined

(* What the loops over modules and channels go through.                     *)
AllLinks ==
  [hycal : Dets \cup {null}, system : SUBSET Dets, modules : [Dets -> SUBSET Mods],
   detector : [Mods -> Dets \cup {null}], daq_ch : [Mods -> ADCs \cup {null}],
   module : [ADCs -> Mods \cup {null}], adc_list : Seq(ADCs), tdc_list : SUBSET TDCs,
   group_map : [TDCs -> Partial], tdc_group : [ADCs -> TDCs \cup {null}],
   alive : SUBSET (Dets \cup Mods \cup ADCs \cup TDCs)]

SoundLinks(h, mo) == {u \in AllLinks : Sound(u) /\ u.hycal = h /\ u.modules = mo}

LEMMA SoundLinksIs ==
  ASSUME NEW u, NEW h, NEW mo
  PROVE  u \in SoundLinks(h, mo) <=> Sound(u) /\ u.hycal = h /\ u.modules = mo
<1>1. Sound(u) => u \in AllLinks
  <2>1. SUFFICES ASSUME Sound(u) PROVE u \in AllLinks
    OBVIOUS
  <2>2. IsW(u) /\ LinkTypes(u)
    BY <2>1 DEF Sound
  <2> QED
    BY <2>2 DEF IsW, LinkTypes, AllLinks
<1> QED
  BY <1>1 DEF SoundLinks

LEMMA ConnectSound ==
  ASSUME ObjectKinds, NEW h, NEW mo, NEW w \in SoundLinks(h, mo), h \in Dets, NEW m \in mo[h]
  PROVE  Connect(w, m) \in SoundLinks(h, mo)
<1>1. Sound(w) /\ w.hycal = h /\ w.modules = mo
  BY SoundLinksIs
<1>2. m \in Mods /\ m \in w.alive
  BY <1>1 DEF Sound, LinkTypes, Owned
<1>3. CASE Connect(w, m) = w
  BY <1>3
<1>4. CASE Connect(w, m) # w
  <2>1. PICK a \in ToSet(w.adc_list) : Joined(Connect(w, m), w, m, a)
    BY <1>1, <1>2, <1>4, ConnectIs
  <2>2. Sound(Connect(w, m))
    BY <1>1, <1>2, <2>1, JoinedSound
  <2>3. Connect(w, m).hycal = h /\ Connect(w, m).modules = mo
    BY <1>1, <2>1 DEF Joined, SameOwners
  <2> QED
    BY <2>2, <2>3, SoundLinksIs
<1> QED
  BY <1>3, <1>4

LEMMA SetToSeqIs ==
  ASSUME NEW S, IsFiniteSet(S)
  PROVE  Cardinality(S) \in Nat /\ SetToSeq(S) \in [1 .. Cardinality(S) -> S]
<1> DEFINE n == Cardinality(S)
<1>1. n \in Nat /\ ExistsBijection(1 .. n, S)
  BY FS_CardinalityType
<1> HIDE DEF n
<1>2. PICK f : f \in Bijection(1 .. n, S)
  BY <1>1 DEF ExistsBijection
<1>3. f \in [1 .. n -> S] /\ \A a, b \in 1 .. n : f[a] = f[b] => a = b
  BY <1>2 DEF Bijection, Injection, IsInjective
<1>4. \E g \in [1 .. n -> S] : IsInjective(g)
  BY <1>3 DEF IsInjective
<1> QED
  BY <1>1, <1>4 DEF SetToSeq, n

LEMMA BuildConnectionsSound ==
  ASSUME ObjectKinds, NEW w, Sound(w)
  PROVE  Sound(BuildConnections(w))
<1>1. CASE w.hycal = null
  BY <1>1 DEF BuildConnections
<1>2. CASE w.hycal # null
  <2> DEFINE h == w.hycal
             mo == w.modules
             list == SetToSeq(mo[h])
             N == Len(list)
             A == SoundLinks(h, mo)
             is(f) == f = [k \in 0 .. N |-> IF k = 0 THEN w ELSE Connect(f[k - 1], list[k])]
             run == CHOOSE f : is(f)
             turn == [k \in 1 .. N |-> [u \in A |-> Connect(u, list[k])]]
  <2>1. BuildConnections(w) = run[N]
    BY <1>2, Zenon DEF BuildConnections
  <2>2. h \in Dets /\ mo[h] \subseteq Mods
    BY <1>2 DEF Sound, LinkTypes
  <2>3. N \in Nat /\ \A k \in 1 .. N : list[k] \in mo[h]
    <3>1. IsFiniteSet(mo[h])
      BY <2>2, FS_Subset DEF ObjectKinds
    <3> HIDE DEF mo, h, list
    <3>2. Cardinality(mo[h]) \in Nat /\ list \in [1 .. Cardinality(mo[h]) -> mo[h]]
      BY <3>1, SetToSeqIs DEF list
    <3>3. list \in Seq(mo[h])
      BY <3>2
    <3> QED
      BY <3>3
  <2>4. w \in A
    BY SoundLinksIs
  <2>5. \A k \in 1 .. N, u \in A : Connect(u, list[k]) \in A
    <3> SUFFICES ASSUME NEW k \in 1 .. N, NEW u \in A PROVE Connect(u, list[k]) \in A
      OBVIOUS
    <3>1. list[k] \in mo[h]
      BY <2>3
    <3> HIDE DEF list, h, mo
    <3> QED
      BY <2>2, <3>1, ConnectSound
  <2>6. turn \in [1 .. N -> [A -> A]]
    BY <2>5
  <2>7. \A k \in 1 .. N, u \in A : turn[k][u] = Connect(u, list[k])
    OBVIOUS
  <2> HIDE DEF turn, N, A, list
  <2>8. \E f : is(f)
    <3>0. PICK f : IsRun(f, A, w, N, turn)
      BY <2>3, <2>4, <2>6, LoopRuns
    <3>1. f \in [0 .. N -> A] /\ f[0] = w /\ \A i \in 1 .. N : f[i] = turn[i][f[i - 1]]
      BY <3>0 DEF IsRun
    <3>2. \A k \in 0 .. N : f[k] = IF k = 0 THEN w ELSE Connect(f[k - 1], list[k])
      <4> SUFFICES ASSUME NEW k \in 0 .. N, k # 0 PROVE f[k] = Connect(f[k - 1], list[k])
        BY <3>1
      <4>1. k \in 1 .. N /\ k - 1 \in 0 .. N
        BY <2>3
      <4>2. f[k - 1] \in A
        BY <3>1, <4>1
      <4> QED
        BY <2>7, <3>1, <4>1, <4>2
    <3>3. f = [k \in 0 .. N |-> f[k]]
      BY <3>1
    <3> QED
      BY <3>2, <3>3
  <2>9. is(run)
    BY <2>8, Zenon
  <2>10. run[0] = w /\ \A k \in 1 .. N : run[k] = Connect(run[k - 1], list[k])
    <3> HIDE DEF run
    <3>1. \A k \in 0 .. N : run[k] = IF k = 0 THEN w ELSE Connect(run[k - 1], list[k])
      BY <2>9
    <3>2. 0 \in 0 .. N /\ \A k \in 1 .. N : k \in 0 .. N /\ k # 0
      BY <2>3
    <3> QED
      BY <3>1, <3>2
  <2> HIDE DEF run, is
  <2>11. run[N] \in A
    BY <2>3, <2>4, <2>5, <2>10, LoopStays
  <2> QED
    BY <2>1, <2>11, SoundLinksIs DEF A
<1> QED
  BY <1>1, <1>2

-----------------------------------------------------------------------------
(* Channels are added.                                                      *)
LEMMA AddTDCSound ==
  ASSUME ObjectKinds, NEW w, Sound(w), NEW t \in TDCs
  PROVE  Sound(AddTDCChannel(w, t))
<1>1. CASE Taken(w.tdc_list, t)
  BY <1>1 DEF AddTDCChannel
<1>2. CASE ~Taken(w.tdc_list, t)
  <2> DEFINE s == w.tdc_list \cup {t}
             l == w.alive \cup {t}
             x == [w EXCEPT !.tdc_list = s]
             u == AddTDCChannel(w, t)
  <2>0. IsW(w)
    BY DEF Sound
  <2>1. u = [x EXCEPT !.alive = l]
    BY <1>2, <2>0 DEF AddTDCChannel, IsW
  <2> HIDE DEF s, l, u
  <2>2. u = [hycal |-> w.hycal, system |-> w.system, modules |-> w.modules,
             detector |-> w.detector, daq_ch |-> w.daq_ch, module |-> w.module,
             adc_list |-> w.adc_list, tdc_list |-> s, group_map |-> w.group_map,
             tdc_group |-> w.tdc_group, alive |-> l]
    BY <2>0, <2>1 DEF IsW
  <2>3. IsW(u)
    BY <2>2 DEF IsW
  <2>4. /\ SameOwners(u, w) /\ SameWires(u, w) /\ SameGroups(u, w) /\ u.adc_list = w.adc_list
        /\ u.tdc_list = w.tdc_list \cup {t} /\ u.alive = w.alive \cup {t}
    BY <2>2 DEF SameOwners, SameWires, SameGroups, s, l
  <2>5. /\ u.alive \cap Dets = w.alive \cap Dets /\ u.alive \cap Mods = w.alive \cap Mods
        /\ u.alive \cap ADCs = w.alive \cap ADCs
        /\ u.alive \cap TDCs = (w.alive \cap TDCs) \cup {t}
    BY <2>4 DEF ObjectKinds
  <2>6. LinkTypes(u)
    <3>1. u.alive \in SUBSET (Dets \cup Mods \cup ADCs \cup TDCs) /\ u.tdc_list \in SUBSET TDCs
      BY <2>4 DEF Sound, LinkTypes
    <3> QED
      BY <2>4, <3>1 DEF Sound, LinkTypes, SameOwners, SameWires, SameGroups
  <2>7. Owned(u)
    <3>1. /\ u.hycal = w.hycal /\ u.system = w.system /\ u.modules = w.modules
          /\ u.detector = w.detector
      BY <2>4 DEF SameOwners
    <3>2. \A m \in Mods : m \in u.alive <=> m \in w.alive
      BY <2>5
    <3> QED
      BY SMTT(30), <2>5, <3>1, <3>2 DEF Owned, Sound
  <2>8. Wired(u)
    BY <2>4 DEF Wired, Sound, SameWires
  <2>9. GroupsAgree(u)
    BY <2>4, <2>5 DEF GroupsAgree, Sound, SameGroups
  <2> QED
    BY <2>3, <2>6, <2>7, <2>8, <2>9 DEF Sound, u
<1> QED
  BY <1>1, <1>2

(* Channel a at the end of the list, in no group yet.                       *)
Listed(w, a) == [w EXCEPT !.adc_list = Append(@, a), !.alive = @ \cup {a}]

LEMMA ListedSound ==
  ASSUME ObjectKinds, NEW w, Sound(w), NEW a \in ADCs, a \notin ToSet(w.adc_list),
         NEW u, u = Listed(w, a)
  PROVE  /\ Sound(u) /\ u.tdc_list = w.tdc_list
         /\ Len(u.adc_list) \in DOMAIN u.adc_list /\ u.adc_list[Len(u.adc_list)] = a
         /\ u.tdc_group[a] = null
         /\ \A t \in TDCs : Len(u.adc_list) \notin DOMAIN u.group_map[t]
<1> DEFINE s == Append(w.adc_list, a)
           l == w.alive \cup {a}
           x == [w EXCEPT !.adc_list = s]
           N == Len(w.adc_list)
<1>0. IsW(w) /\ w.adc_list \in Seq(ADCs)
  BY DEF Sound, LinkTypes
<1>1. u = [x EXCEPT !.alive = l]
  BY <1>0 DEF Listed, IsW
<1>2. /\ s \in Seq(ADCs) /\ DOMAIN s = 1 .. N + 1 /\ DOMAIN w.adc_list = 1 .. N /\ N \in Nat
      /\ Len(s) = N + 1 /\ s[N + 1] = a /\ \A i \in 1 .. N : s[i] = w.adc_list[i]
  BY <1>0
<1> HIDE DEF s, l, N
<1>3. u = [hycal |-> w.hycal, system |-> w.system, modules |-> w.modules,
           detector |-> w.detector, daq_ch |-> w.daq_ch, module |-> w.module,
           adc_list |-> s, tdc_list |-> w.tdc_list, group_map |-> w.group_map,
           tdc_group |-> w.tdc_group, alive |-> l]
  <2>1. IsW(w)
    BY <1>0
  <2> QED
    BY <1>1, <2>1 DEF IsW
<1>4. IsW(u)
  BY <1>3 DEF IsW
<1>5. /\ SameOwners(u, w) /\ SameWires(u, w) /\ SameGroups(u, w) /\ u.tdc_list = w.tdc_list
      /\ u.adc_list = s /\ u.alive = w.alive \cup {a}
  BY <1>3 DEF SameOwners, SameWires, SameGroups, l
<1>6. /\ u.alive \cap Dets = w.alive \cap Dets /\ u.alive \cap Mods = w.alive \cap Mods
      /\ u.alive \cap ADCs = (w.alive \cap ADCs) \cup {a}
      /\ u.alive \cap TDCs = w.alive \cap TDCs
  BY <1>5 DEF ObjectKinds
<1>7. ToSet(s) = ToSet(w.adc_list) \cup {a}
  <2>1. \A i \in 1 .. N + 1 : i = N + 1 \/ i \in 1 .. N
    BY <1>2
  <2>2. N + 1 \in 1 .. N + 1 /\ \A i \in 1 .. N : i \in 1 .. N + 1
    BY <1>2
  <2>3. \A y : y \in ToSet(s) <=> \E i \in 1 .. N + 1 : y = s[i]
    BY <1>2 DEF ToSet
  <2>4. \A y : y \in ToSet(w.adc_list) <=> \E i \in 1 .. N : y = w.adc_list[i]
    BY <1>2 DEF ToSet
  <2>5. s[N + 1] = a /\ \A i \in 1 .. N : s[i] = w.adc_list[i]
    BY <1>2
  <2> QED
    BY <2>1, <2>2, <2>3, <2>4, <2>5
<1>8. /\ \A i \in DOMAIN s : i = N + 1 \/ (i \in DOMAIN w.adc_list /\ s[i] = w.adc_list[i])
      /\ \A i \in DOMAIN w.adc_list : i \in DOMAIN s /\ s[i] = w.adc_list[i] /\ s[i] # a
      /\ N + 1 \in DOMAIN s /\ N + 1 \notin DOMAIN w.adc_list
  <2>1. \A i \in DOMAIN w.adc_list : w.adc_list[i] \in ToSet(w.adc_list)
    BY DEF ToSet
  <2> QED
    BY <1>2, <2>1
<1>9. LinkTypes(u)
  <2>1. u.alive \in SUBSET (Dets \cup Mods \cup ADCs \cup TDCs) /\ u.adc_list \in Seq(ADCs)
    BY <1>2, <1>5 DEF Sound, LinkTypes
  <2> QED
    BY <1>5, <2>1 DEF Sound, LinkTypes, SameOwners, SameWires, SameGroups
<1>10. Owned(u)
  <2>1. /\ u.hycal = w.hycal /\ u.system = w.system /\ u.modules = w.modules
        /\ u.detector = w.detector
    BY <1>5 DEF SameOwners
  <2>2. \A m \in Mods : m \in u.alive <=> m \in w.alive
    BY <1>6
  <2> QED
    BY <1>6, <2>1, <2>2 DEF Owned, Sound
<1>11. Wired(u)
  BY <1>5 DEF Wired, Sound, SameWires
<1>12. /\ u.group_map = w.group_map /\ u.tdc_group = w.tdc_group
       /\ \A t \in TDCs : \A i \in DOMAIN w.group_map[t] :
            /\ i \in DOMAIN w.adc_list /\ w.group_map[t][i] = w.adc_list[i]
            /\ w.tdc_group[w.adc_list[i]] = t
       /\ \A c \in ADCs, t \in TDCs : w.tdc_group[c] = t =>
            t \in w.tdc_list /\ \E i \in DOMAIN w.group_map[t] : w.group_map[t][i] = c
       /\ \A i, j \in DOMAIN w.adc_list : w.adc_list[i] = w.adc_list[j] => i = j
       /\ w.alive \cap TDCs = w.tdc_list /\ w.alive \cap ADCs = ToSet(w.adc_list)
  BY <1>5 DEF Sound, GroupsAgree, SameGroups
<1>13. GroupsAgree(u)
  <2>1. \A i, j \in DOMAIN s : s[i] = s[j] => i = j
    BY <1>2, <1>8, <1>12
  <2>2. \A t \in TDCs : \A i \in DOMAIN u.group_map[t] :
          /\ i \in DOMAIN s /\ u.group_map[t][i] = s[i] /\ u.tdc_group[s[i]] = t
    BY <1>8, <1>12
  <2>3. u.alive \cap ADCs = ToSet(s) /\ u.alive \cap TDCs = u.tdc_list
    BY <1>5, <1>6, <1>7, <1>12
  <2>4. \A c \in ADCs, t \in TDCs : u.tdc_group[c] = t =>
            t \in u.tdc_list /\ \E i \in DOMAIN u.group_map[t] : u.group_map[t][i] = c
    BY <1>5, <1>12
  <2> QED
    BY <1>5, <2>1, <2>2, <2>3, <2>4 DEF GroupsAgree
<1>14. u.tdc_group[a] = null
  <2>1. \A t \in TDCs : w.tdc_group[a] # t
    BY <1>8, <1>12
  <2>2. w.tdc_group[a] \in TDCs \cup {null}
    BY DEF Sound, LinkTypes
  <2> QED
    BY <1>12, <2>1, <2>2
<1>15. \A t \in TDCs : Len(u.adc_list) \notin DOMAIN u.group_map[t]
  BY <1>2, <1>5, <1>8, <1>12
<1> QED
  BY <1>2, <1>4, <1>5, <1>8, <1>9, <1>10, <1>11, <1>13, <1>14, <1>15 DEF Sound

LEMMA PartialIs ==
  ASSUME NEW g
  PROVE  g \in Partial <=> \E D \in SUBSET Nat : g \in [D -> ADCs]
  BY DEF Partial

LEMMA ConnectChannelSound ==
  ASSUME ObjectKinds, NEW w, Sound(w), NEW t \in w.tdc_list, NEW a \in ADCs,
         Len(w.adc_list) \in DOMAIN w.adc_list, w.adc_list[Len(w.adc_list)] = a,
         w.tdc_group[a] = null,
         \A q \in TDCs : Len(w.adc_list) \notin DOMAIN w.group_map[q]
  PROVE  Sound(ConnectChannel(w, t, a)) /\ ConnectChannel(w, t, a).tdc_list = w.tdc_list
<1> DEFINE id == Len(w.adc_list)
           S == {a}
           v == UnsetTDC(w, S)
           g == [i \in DOMAIN v.group_map[t] \cup {id} |-> IF i = id THEN a ELSE v.group_map[t][i]]
           m == [v.group_map EXCEPT ![t] = g]
           f == [v.tdc_group EXCEPT ![a] = t]
           x == [v EXCEPT !.group_map = m]
           u == ConnectChannel(w, t, a)
<1>0. IsW(w) /\ t \in TDCs /\ id \in Nat /\ null \notin TDCs
  BY DEF Sound, LinkTypes, ObjectKinds
<1>1. /\ IsW(v) /\ v.alive = w.alive /\ SameOwners(v, w) /\ SameWires(v, w) /\ SameLists(v, w)
      /\ v.group_map = Regrouped(w, S) /\ v.tdc_group = Cut(w.tdc_group, S)
  <2> HIDE DEF S
  <2> QED
    BY <1>0, UnsetTDCIs
<1>2. u = [v EXCEPT !.group_map[t] = [i \in DOMAIN @ \cup {id} |-> IF i = id THEN a ELSE @[i]],
                    !.tdc_group[a] = t]
  <2>1. ~(id \in DOMAIN w.group_map[t])
    BY <1>0
  <2> QED
    BY <2>1, Zenon DEF ConnectChannel
<1>3. v.group_map = w.group_map
  <2>1. \A q \in TDCs : {c \in S : w.tdc_group[c] = q} = {}
    BY <1>0
  <2>2. \A q \in TDCs : UNION {IdsOf(w, b) : b \in {c \in S : w.tdc_group[c] = q}} = {}
    <3> SUFFICES ASSUME NEW q \in TDCs
                 PROVE  UNION {IdsOf(w, b) : b \in {c \in S : w.tdc_group[c] = q}} = {}
      OBVIOUS
    <3> DEFINE E == {c \in S : w.tdc_group[c] = q}
    <3>1. E = {}
      BY <2>1
    <3> HIDE DEF E
    <3>2. UNION {IdsOf(w, b) : b \in E} = {}
      BY <3>1
    <3> QED
      BY <3>2 DEF E
  <2>3. \A q \in TDCs : w.group_map[q] = [i \in DOMAIN w.group_map[q] |-> w.group_map[q][i]]
    <3>1. \A q \in TDCs : w.group_map[q] \in Partial
      BY DEF Sound, LinkTypes
    <3> SUFFICES ASSUME NEW q \in TDCs
                 PROVE  w.group_map[q] = [i \in DOMAIN w.group_map[q] |-> w.group_map[q][i]]
      OBVIOUS
    <3>2. PICK D \in SUBSET Nat : w.group_map[q] \in [D -> ADCs]
      BY <3>1, PartialIs
    <3> QED
      BY <3>2
  <2>4. w.group_map = [q \in TDCs |-> w.group_map[q]]
    BY DEF Sound, LinkTypes
  <2> DEFINE R(q) == UNION {IdsOf(w, b) : b \in {c \in S : w.tdc_group[c] = q}}
  <2>5. v.group_map = [q \in TDCs |-> [i \in DOMAIN w.group_map[q] \ R(q) |-> w.group_map[q][i]]]
    BY <1>1, Zenon DEF Regrouped
  <2>6. \A q \in TDCs : R(q) = {}
    BY <2>2
  <2> HIDE DEF R
  <2>7. \A q \in TDCs : DOMAIN w.group_map[q] \ R(q) = DOMAIN w.group_map[q]
    BY <2>6
  <2>8. \A q \in TDCs : [i \in DOMAIN w.group_map[q] \ R(q) |-> w.group_map[q][i]] = w.group_map[q]
    BY <2>3, <2>7
  <2> DEFINE X(q) == [i \in DOMAIN w.group_map[q] \ R(q) |-> w.group_map[q][i]]
  <2>9. v.group_map = [q \in TDCs |-> X(q)] /\ \A q \in TDCs : X(q) = w.group_map[q]
    BY <2>5, <2>8
  <2> HIDE DEF X
  <2> QED
    BY <2>4, <2>9
<1>4. Table(v.tdc_group, ADCs, TDCs) /\ IsCut(v.tdc_group, w.tdc_group, ADCs, S)
  <2>1. Table(w.tdc_group, ADCs, TDCs)
    BY DEF Sound, LinkTypes, Table
  <2> HIDE DEF S
  <2> QED
    BY <1>1, <2>1, CutIs
<1> HIDE DEF v
<1>5. u = [x EXCEPT !.tdc_group = f]
  <2> HIDE DEF u
  <2> QED
    BY <1>1, <1>2 DEF IsW
<1>6. /\ DOMAIN g = DOMAIN w.group_map[t] \cup {id}
      /\ \A i \in DOMAIN g : g[i] = IF i = id THEN a ELSE w.group_map[t][i]
  BY <1>3
<1>7. g \in Partial
  <2>1. PICK D \in SUBSET Nat : w.group_map[t] \in [D -> ADCs]
    BY <1>0, PartialIs DEF Sound, LinkTypes
  <2>2. g \in [D \cup {id} -> ADCs]
    BY <1>3, <2>1
  <2>3. D \cup {id} \in SUBSET Nat
    BY <1>0
  <2> HIDE DEF g
  <2> QED
    BY <2>2, <2>3, PartialIs
<1> HIDE DEF g
<1>8. /\ m \in [TDCs -> Partial] /\ m[t] = g
      /\ \A q \in TDCs : q # t => m[q] = w.group_map[q]
  BY <1>0, <1>3, <1>7 DEF Sound, LinkTypes
<1>9. /\ f \in [ADCs -> TDCs \cup {null}] /\ f[a] = t
      /\ \A c \in ADCs : c # a => f[c] = w.tdc_group[c]
  BY <1>0, <1>4 DEF Table, IsCut
<1> HIDE DEF m, f, u
<1>10. u = [hycal |-> v.hycal, system |-> v.system, modules |-> v.modules,
           detector |-> v.detector, daq_ch |-> v.daq_ch, module |-> v.module,
           adc_list |-> v.adc_list, tdc_list |-> v.tdc_list, group_map |-> m,
           tdc_group |-> f, alive |-> v.alive]
  <2>1. IsW(v)
    BY <1>1
  <2> QED
    BY <1>5, <2>1 DEF IsW
<1>11. IsW(u)
  BY <1>10 DEF IsW
<1>12. /\ SameOwners(u, w) /\ SameWires(u, w) /\ SameLists(u, w) /\ u.alive = w.alive
       /\ u.group_map = m /\ u.tdc_group = f
  BY <1>1, <1>10 DEF SameOwners, SameWires, SameLists
<1>13. LinkTypes(u)
  BY <1>8, <1>9, <1>12 DEF Sound, LinkTypes, SameOwners, SameWires, SameLists
<1>14. Owned(u)
  BY <1>12, OwnedSame DEF Sound
<1>15. Wired(u)
  BY <1>12 DEF Wired, Sound, SameWires
<1>16. GroupsAgree(u)
  <2>1. /\ \A q \in TDCs : \A i \in DOMAIN w.group_map[q] :
             /\ i \in DOMAIN w.adc_list /\ w.group_map[q][i] = w.adc_list[i]
             /\ w.tdc_group[w.adc_list[i]] = q
        /\ \A c \in ADCs, q \in TDCs : w.tdc_group[c] = q =>
             q \in w.tdc_list /\ \E i \in DOMAIN w.group_map[q] : w.group_map[q][i] = c
        /\ \A i, j \in DOMAIN w.adc_list : w.adc_list[i] = w.adc_list[j] => i = j
        /\ w.alive \cap TDCs = w.tdc_list /\ w.alive \cap ADCs = ToSet(w.adc_list)
    BY DEF Sound, GroupsAgree
  <2>2. \A i \in DOMAIN w.adc_list : w.adc_list[i] \in ADCs
    BY DEF Sound, LinkTypes
  <2>3. ASSUME NEW q \in TDCs, NEW i \in DOMAIN m[q]
        PROVE  i \in DOMAIN w.adc_list /\ m[q][i] = w.adc_list[i] /\ f[w.adc_list[i]] = q
    <3>1. CASE q # t
      <4>1. i \in DOMAIN w.group_map[q] /\ m[q][i] = w.group_map[q][i]
        BY <1>8, <2>3, <3>1
      <4>2. i \in DOMAIN w.adc_list /\ m[q][i] = w.adc_list[i] /\ w.tdc_group[w.adc_list[i]] = q
        BY <2>1, <4>1
      <4>3. w.adc_list[i] # a
        BY <1>0, <4>2
      <4> QED
        BY <1>9, <2>2, <4>2, <4>3
    <3>2. CASE q = t /\ i # id
      <4>1. i \in DOMAIN w.group_map[q] /\ m[q][i] = w.group_map[q][i]
        BY <1>6, <1>8, <2>3, <3>2
      <4>2. i \in DOMAIN w.adc_list /\ m[q][i] = w.adc_list[i] /\ w.tdc_group[w.adc_list[i]] = q
        BY <2>1, <4>1
      <4>3. w.adc_list[i] # a
        BY <1>0, <4>2
      <4> QED
        BY <1>9, <2>2, <4>2, <4>3
    <3>3. CASE q = t /\ i = id
      BY <1>6, <1>8, <1>9, <2>3, <3>3
    <3> QED
      BY <3>1, <3>2, <3>3
  <2>4. ASSUME NEW c \in ADCs, NEW q \in TDCs, f[c] = q
        PROVE  q \in w.tdc_list /\ \E i \in DOMAIN m[q] : m[q][i] = c
    <3>1. CASE c = a
      <4>1. q = t /\ id \in DOMAIN m[q] /\ m[q][id] = a
        BY <1>6, <1>8, <1>9, <2>4, <3>1
      <4> QED
        BY <3>1, <4>1
    <3>2. CASE c # a
      <4>1. w.tdc_group[c] = q
        BY <1>9, <2>4, <3>2
      <4>2. q \in w.tdc_list /\ \E i \in DOMAIN w.group_map[q] : w.group_map[q][i] = c
        BY <2>1, <4>1
      <4>3. PICK i \in DOMAIN w.group_map[q] : w.group_map[q][i] = c
        BY <4>2
      <4>4. i # id
        BY <4>3
      <4>5. i \in DOMAIN m[q] /\ m[q][i] = c
        BY <1>6, <1>8, <4>3, <4>4
      <4> QED
        BY <4>2, <4>5
    <3> QED
      BY <3>1, <3>2
  <2>5. u.adc_list = w.adc_list /\ u.tdc_list = w.tdc_list
    BY <1>12 DEF SameLists
  <2> QED
    BY <1>12, <2>1, <2>3, <2>4, <2>5 DEF GroupsAgree
<1>17. u.tdc_list = w.tdc_list
  BY <1>12 DEF SameLists
<1> QED
  BY <1>11, <1>13, <1>14, <1>15, <1>16, <1>17 DEF Sound, u

LEMMA AddADCSound ==
  ASSUME ObjectKinds, NEW w, Sound(w), NEW a \in ADCs
  PROVE  Sound(AddADCChannel(w, a))
<1>1. CASE Taken(ToSet(w.adc_list), a)
  BY <1>1 DEF AddADCChannel
<1>2. CASE ~Taken(ToSet(w.adc_list), a)
  <2> DEFINE u == Listed(w, a)
             T == Named(u.tdc_list, GroupOf[a])
             t == CHOOSE q \in T : TRUE
  <2>1. AddADCChannel(w, a) = IF T = {} THEN u ELSE ConnectChannel(u, t, a)
    BY <1>2, Zenon DEF AddADCChannel, Listed
  <2>2. a \notin ToSet(w.adc_list)
    BY <1>2 DEF Taken
  <2> HIDE DEF u
  <2>3. /\ Sound(u) /\ u.tdc_list = w.tdc_list
        /\ Len(u.adc_list) \in DOMAIN u.adc_list /\ u.adc_list[Len(u.adc_list)] = a
        /\ u.tdc_group[a] = null
        /\ \A q \in TDCs : Len(u.adc_list) \notin DOMAIN u.group_map[q]
    <3>1. u = Listed(w, a)
      BY DEF u
    <3> QED
      BY <2>2, <3>1, ListedSound
  <2>4. CASE T = {}
    BY <2>1, <2>3, <2>4
  <2>5. CASE T # {}
    <3>1. t \in T
      BY <2>5
    <3>2. t \in u.tdc_list
      BY <3>1 DEF Named
    <3> HIDE DEF T, t
    <3>3. Sound(ConnectChannel(u, t, a))
      BY <2>3, <3>2, ConnectChannelSound
    <3> QED
      BY <2>1, <2>5, <3>3
  <2> QED
    BY <2>4, <2>5
<1> QED
  BY <1>1, <1>2

AllSound == {u \in AllLinks : Sound(u)}

LEMMA AllSoundIs == ASSUME NEW u PROVE u \in AllSound <=> Sound(u)
  BY SoundLinksIs DEF AllSound, SoundLinks

LEMMA AddTDCsSound ==
  ASSUME ObjectKinds, NEW w, Sound(w), NEW list \in Seq(TDCs)
  PROVE  Sound(AddTDCChannels(w, list))
<1> DEFINE N == Len(list)
           is(f) == f = [k \in 0 .. N |-> IF k = 0 THEN w ELSE AddTDCChannel(f[k - 1], list[k])]
           run == CHOOSE f : is(f)
           turn == [k \in 1 .. N |-> [u \in AllSound |-> AddTDCChannel(u, list[k])]]
<1>1. AddTDCChannels(w, list) = run[N]
  BY Zenon DEF AddTDCChannels
<1>2. N \in Nat /\ \A k \in 1 .. N : list[k] \in TDCs
  OBVIOUS
<1>3. w \in AllSound
  BY AllSoundIs
<1>4. \A k \in 1 .. N, u \in AllSound : AddTDCChannel(u, list[k]) \in AllSound
  BY <1>2, AllSoundIs, AddTDCSound
<1>5. turn \in [1 .. N -> [AllSound -> AllSound]]
  BY <1>4
<1>6. \A k \in 1 .. N, u \in AllSound : turn[k][u] = AddTDCChannel(u, list[k])
  OBVIOUS
<1> HIDE DEF turn, N
<1>7. \E f : is(f)
  <2>1. PICK f : IsRun(f, AllSound, w, N, turn)
    BY <1>2, <1>3, <1>5, LoopRuns
  <2>2. f \in [0 .. N -> AllSound] /\ f[0] = w /\ \A i \in 1 .. N : f[i] = turn[i][f[i - 1]]
    BY <2>1 DEF IsRun
  <2>3. \A k \in 0 .. N : f[k] = IF k = 0 THEN w ELSE AddTDCChannel(f[k - 1], list[k])
    <3> SUFFICES ASSUME NEW k \in 0 .. N, k # 0 PROVE f[k] = AddTDCChannel(f[k - 1], list[k])
      BY <2>2
    <3>1. k \in 1 .. N /\ k - 1 \in 0 .. N
      BY <1>2
    <3>2. f[k - 1] \in AllSound
      BY <2>2, <3>1
    <3> QED
      BY <1>6, <2>2, <3>1, <3>2
  <2>4. f = [k \in 0 .. N |-> f[k]]
    BY <2>2
  <2> QED
    BY <2>3, <2>4
<1>8. is(run)
  BY <1>7, Zenon
<1>9. run[0] = w /\ \A k \in 1 .. N : run[k] = AddTDCChannel(run[k - 1], list[k])
  <2> HIDE DEF run
  <2>1. \A k \in 0 .. N : run[k] = IF k = 0 THEN w ELSE AddTDCChannel(run[k - 1], list[k])
    BY <1>8
  <2>2. 0 \in 0 .. N /\ \A k \in 1 .. N : k \in 0 .. N /\ k # 0
    BY <1>2
  <2> QED
    BY <2>1, <2>2
<1> HIDE DEF run, is
<1>10. run[N] \in AllSound
  <2>1. run[0] \in AllSound
    BY <1>3, <1>9
  <2>2. \A k \in 1 .. N : run[k - 1] \in AllSound => run[k] \in AllSound
    BY <1>4, <1>9
  <2>3. N \in Nat
    BY <1>2
  <2> QED
    BY <2>1, <2>2, <2>3, LoopStays
<1> QED
  BY <1>1, <1>10, AllSoundIs

LEMMA AddADCsSound ==
  ASSUME ObjectKinds, NEW w, Sound(w), NEW list \in Seq(ADCs)
  PROVE  Sound(AddADCChannels(w, list))
<1> DEFINE N == Len(list)
           is(f) == f = [k \in 0 .. N |-> IF k = 0 THEN w ELSE AddADCChannel(f[k - 1], list[k])]
           run == CHOOSE f : is(f)
           turn == [k \in 1 .. N |-> [u \in AllSound |-> AddADCChannel(u, list[k])]]
<1>1. AddADCChannels(w, list) = run[N]
  BY Zenon DEF AddADCChannels
<1>2. N \in Nat /\ \A k \in 1 .. N : list[k] \in ADCs
  OBVIOUS
<1>3. w \in AllSound
  BY AllSoundIs
<1>4. \A k \in 1 .. N, u \in AllSound : AddADCChannel(u, list[k]) \in AllSound
  BY <1>2, AllSoundIs, AddADCSound
<1>5. turn \in [1 .. N -> [AllSound -> AllSound]]
  BY <1>4
<1>6. \A k \in 1 .. N, u \in AllSound : turn[k][u] = AddADCChannel(u, list[k])
  OBVIOUS
<1> HIDE DEF turn, N
<1>7. \E f : is(f)
  <2>1. PICK f : IsRun(f, AllSound, w, N, turn)
    BY <1>2, <1>3, <1>5, LoopRuns
  <2>2. f \in [0 .. N -> AllSound] /\ f[0] = w /\ \A i \in 1 .. N : f[i] = turn[i][f[i - 1]]
    BY <2>1 DEF IsRun
  <2>3. \A k \in 0 .. N : f[k] = IF k = 0 THEN w ELSE AddADCChannel(f[k - 1], list[k])
    <3> SUFFICES ASSUME NEW k \in 0 .. N, k # 0 PROVE f[k] = AddADCChannel(f[k - 1], list[k])
      BY <2>2
    <3>1. k \in 1 .. N /\ k - 1 \in 0 .. N
      BY <1>2
    <3>2. f[k - 1] \in AllSound
      BY <2>2, <3>1
    <3> QED
      BY <1>6, <2>2, <3>1, <3>2
  <2>4. f = [k \in 0 .. N |-> f[k]]
    BY <2>2
  <2> QED
    BY <2>3, <2>4
<1>8. is(run)
  BY <1>7, Zenon
<1>9. run[0] = w /\ \A k \in 1 .. N : run[k] = AddADCChannel(run[k - 1], list[k])
  <2> HIDE DEF run
  <2>1. \A k \in 0 .. N : run[k] = IF k = 0 THEN w ELSE AddADCChannel(run[k - 1], list[k])
    BY <1>8
  <2>2. 0 \in 0 .. N /\ \A k \in 1 .. N : k \in 0 .. N /\ k # 0
    BY <1>2
  <2> QED
    BY <2>1, <2>2
<1> HIDE DEF run, is
<1>10. run[N] \in AllSound
  <2>1. run[0] \in AllSound
    BY <1>3, <1>9
  <2>2. \A k \in 1 .. N : run[k - 1] \in AllSound => run[k] \in AllSound
    BY <1>4, <1>9
  <2>3. N \in Nat
    BY <1>2
  <2> QED
    BY <2>1, <2>2, <2>3, LoopStays
<1> QED
  BY <1>1, <1>10, AllSoundIs

-----------------------------------------------------------------------------
(* The system goes.                                                         *)
LEMMA ClearADCSound ==
  ASSUME ObjectKinds, NEW w, Sound(w)
  PROVE  Sound(ClearADCChannel(w))
<1> DEFINE L == ToSet(w.adc_list)
           v == UnsetTDC(w, L)
           z == UnsetModule(v, L)
           l == z.alive \ L
           x == [z EXCEPT !.alive = l]
           u == ClearADCChannel(w)
<1>0. IsW(w) /\ Part(L, ADCs) /\ L = w.alive \cap ADCs
  BY DEF Sound, GroupsAgree, Part
<1>1. u = [x EXCEPT !.adc_list = <<>>]
  BY Zenon DEF ClearADCChannel, DeleteADCs
<1>2. /\ IsW(v) /\ v.alive = w.alive /\ SameOwners(v, w) /\ SameWires(v, w) /\ SameLists(v, w)
      /\ v.group_map = Regrouped(w, L) /\ v.tdc_group = Cut(w.tdc_group, L)
  <2> HIDE DEF L
  <2> QED
    BY <1>0, UnsetTDCIs
<1> HIDE DEF v
<1>3. /\ IsW(z) /\ z.alive = v.alive /\ SameOwners(z, v) /\ SameLists(z, v) /\ SameGroups(z, v)
      /\ z.daq_ch = Cut(v.daq_ch, Values(v.module, L)) /\ z.module = Cut(v.module, L)
  <2> HIDE DEF L
  <2> QED
    BY <1>2, UnsetModuleIs
<1> HIDE DEF z, l, u
<1>4. u = [hycal |-> z.hycal, system |-> z.system, modules |-> z.modules,
           detector |-> z.detector, daq_ch |-> z.daq_ch, module |-> z.module,
           adc_list |-> <<>>, tdc_list |-> z.tdc_list, group_map |-> z.group_map,
           tdc_group |-> z.tdc_group, alive |-> l]
  <2>1. IsW(z)
    BY <1>3
  <2> HIDE DEF L
  <2> QED
    BY <1>1, <2>1 DEF IsW
<1>5. IsW(u)
  BY <1>4 DEF IsW
<1>6. /\ u.alive = w.alive \ L /\ SameOwners(u, w) /\ u.adc_list = <<>> /\ u.tdc_list = w.tdc_list
      /\ u.group_map = Regrouped(w, L) /\ u.tdc_group = Cut(w.tdc_group, L)
      /\ u.daq_ch = Cut(w.daq_ch, Values(w.module, L)) /\ u.module = Cut(w.module, L)
  <2> HIDE DEF L
  <2> QED
    BY <1>2, <1>3, <1>4 DEF SameOwners, SameWires, SameLists, SameGroups, l
<1>7. /\ Table(u.tdc_group, ADCs, TDCs) /\ IsCut(u.tdc_group, w.tdc_group, ADCs, L)
      /\ Table(u.daq_ch, Mods, ADCs) /\ IsCut(u.daq_ch, w.daq_ch, Mods, Values(w.module, L))
      /\ Table(u.module, ADCs, Mods) /\ IsCut(u.module, w.module, ADCs, L)
  <2>1. Table(w.tdc_group, ADCs, TDCs) /\ Table(w.daq_ch, Mods, ADCs) /\ Table(w.module, ADCs, Mods)
    BY DEF Sound, LinkTypes, Table
  <2> HIDE DEF L
  <2> QED
    BY <1>6, <2>1, CutIs
<1>8. \A a \in ADCs : u.module[a] = null
  <2>1. \A a \in ADCs : w.module[a] # null => a \in L
    BY <1>0 DEF Sound, Wired
  <2> QED
    BY <1>7, <2>1 DEF IsCut
<1>9. \A m \in Mods : u.daq_ch[m] = null
  <2>1. ASSUME NEW m \in Mods, w.daq_ch[m] # null PROVE m \in Values(w.module, L)
    <3> DEFINE a == w.daq_ch[m]
    <3>1. a \in ADCs
      BY <2>1 DEF Sound, LinkTypes
    <3>2. w.module[a] = m
      BY <3>1 DEF Sound, Wired
    <3>3. m # null
      BY DEF ObjectKinds
    <3>4. a \in L
      BY <1>0, <3>1, <3>2, <3>3 DEF Sound, Wired
    <3> QED
      BY <3>2, <3>4 DEF Values
  <2> QED
    BY <1>7, <2>1 DEF IsCut
<1>10. \A t \in TDCs : \A i \in DOMAIN w.group_map[t] :
         /\ i \in DOMAIN w.adc_list /\ w.adc_list[i] \in L /\ w.tdc_group[w.adc_list[i]] = t
         /\ i \in IdsOf(w, w.adc_list[i])
  BY DEF Sound, GroupsAgree, ToSet, IdsOf
<1>11. \A t \in TDCs : DOMAIN u.group_map[t] = {} /\ u.group_map[t] = [i \in {} |-> null]
  <2> SUFFICES ASSUME NEW t \in TDCs
               PROVE  DOMAIN u.group_map[t] = {} /\ u.group_map[t] = [i \in {} |-> null]
    OBVIOUS
  <2> DEFINE E == {b \in L : w.tdc_group[b] = t}
             R == UNION {IdsOf(w, a) : a \in E}
  <2>1. ASSUME NEW i \in DOMAIN w.group_map[t] PROVE i \in R
    <3>1. w.adc_list[i] \in E
      BY <1>10
    <3>2. i \in IdsOf(w, w.adc_list[i])
      BY <1>10
    <3> HIDE DEF E
    <3> QED
      BY <3>1, <3>2
  <2>2. u.group_map[t] = [i \in DOMAIN w.group_map[t] \ R |-> w.group_map[t][i]]
    <3>1. Regrouped(w, L)[t] = [i \in DOMAIN w.group_map[t] \ R |-> w.group_map[t][i]]
      <4> DEFINE Q(q) == [i \in DOMAIN w.group_map[q] \
                              UNION {IdsOf(w, a) : a \in {b \in L : w.tdc_group[b] = q}}
                            |-> w.group_map[q][i]]
      <4>1. Regrouped(w, L) = [q \in TDCs |-> Q(q)]
        BY Zenon DEF Regrouped
      <4> HIDE DEF Q
      <4>2. Regrouped(w, L)[t] = Q(t)
        BY <4>1
      <4> QED
        BY <4>2, Zenon DEF Q
    <3> QED
      BY <1>6, <3>1, Zenon
  <2> HIDE DEF R
  <2>3. DOMAIN w.group_map[t] \ R = {}
    BY <2>1
  <2> QED
    BY <2>2, <2>3
<1>12. u.group_map \in [TDCs -> Partial]
  <2>1. [i \in {} |-> null] \in Partial
    <3>1. [i \in {} |-> null] \in [{} -> ADCs]
      OBVIOUS
    <3> QED
      BY <3>1, PartialIs
  <2>2. u.group_map = [t \in TDCs |-> u.group_map[t]]
    <3> DEFINE Q(q) == [i \in DOMAIN w.group_map[q] \
                              UNION {IdsOf(w, a) : a \in {b \in L : w.tdc_group[b] = q}}
                            |-> w.group_map[q][i]]
    <3>1. u.group_map = [q \in TDCs |-> Q(q)]
      BY <1>6, Zenon DEF Regrouped
    <3> HIDE DEF Q
    <3> QED
      BY <3>1
  <2> QED
    BY <1>11, <2>1, <2>2
<1>13. /\ u.alive \cap Dets = w.alive \cap Dets /\ u.alive \cap Mods = w.alive \cap Mods
       /\ u.alive \cap TDCs = w.alive \cap TDCs /\ u.alive \cap ADCs = {}
  BY <1>0, <1>6 DEF ObjectKinds
<1>14. <<>> \in Seq(ADCs) /\ DOMAIN <<>> = {} /\ ToSet(<<>>) = {}
  BY DEF ToSet
<1>15. LinkTypes(u)
  <2>1. u.alive \in SUBSET (Dets \cup Mods \cup ADCs \cup TDCs)
    BY <1>6 DEF Sound, LinkTypes
  <2> QED
    BY <1>6, <1>7, <1>12, <1>14, <2>1 DEF Sound, LinkTypes, SameOwners, Table
<1>16. Owned(u)
  <2>1. /\ u.hycal = w.hycal /\ u.system = w.system /\ u.modules = w.modules
        /\ u.detector = w.detector
    BY <1>6 DEF SameOwners
  <2>2. \A m \in Mods : m \in u.alive <=> m \in w.alive
    BY <1>13
  <2> QED
    BY <1>13, <2>1, <2>2 DEF Owned, Sound
<1>17. Wired(u)
  <2>1. null \notin ADCs /\ null \notin Mods
    BY DEF ObjectKinds
  <2> QED
    BY <1>8, <1>9, <2>1 DEF Wired
<1>18. GroupsAgree(u)
  <2>1. \A a \in ADCs, t \in TDCs : u.tdc_group[a] # t
    <3>1. \A a \in ADCs, t \in TDCs : w.tdc_group[a] = t => a \in L
      <4> SUFFICES ASSUME NEW a \in ADCs, NEW t \in TDCs, w.tdc_group[a] = t PROVE a \in L
        OBVIOUS
      <4>1. PICK i \in DOMAIN w.group_map[t] : w.group_map[t][i] = a
        BY DEF Sound, GroupsAgree
      <4>2. w.group_map[t][i] = w.adc_list[i]
        BY DEF Sound, GroupsAgree
      <4> QED
        BY <1>10, <4>1, <4>2
    <3>2. \A t \in TDCs : t # null
      BY DEF ObjectKinds
    <3> QED
      BY <1>7, <3>1, <3>2 DEF IsCut
  <2>2. w.alive \cap TDCs = w.tdc_list
    BY DEF Sound, GroupsAgree
  <2> QED
    BY <1>6, <1>11, <1>13, <1>14, <2>1, <2>2 DEF GroupsAgree
<1> QED
  BY <1>5, <1>15, <1>16, <1>17, <1>18 DEF Sound, u

LEMMA ClearTDCSound ==
  ASSUME ObjectKinds, NEW w, Sound(w)
  PROVE  Sound(ClearTDCChannel(w))
<1> DEFINE T == w.tdc_list
           f == [a \in ADCs |-> IF w.tdc_group[a] \in T THEN null ELSE w.tdc_group[a]]
           g == [t \in TDCs |-> IF t \in T THEN <<>> ELSE w.group_map[t]]
           l == w.alive \ T
           x == [w EXCEPT !.tdc_group = f]
           y == [x EXCEPT !.group_map = g]
           z == [y EXCEPT !.alive = l]
           u == ClearTDCChannel(w)
<1>0. IsW(w)
  BY DEF Sound
<1>1. u = [z EXCEPT !.tdc_list = {}]
  <2>1. DeleteTDCs(w, T) = z
    BY <1>0 DEF DeleteTDCs, IsW
  <2> HIDE DEF z
  <2> QED
    BY <2>1 DEF ClearTDCChannel
<1>2. \A a \in ADCs : f[a] = null
  <2>1. \A a \in ADCs : w.tdc_group[a] \in TDCs \cup {null}
    BY DEF Sound, LinkTypes
  <2>2. \A a \in ADCs, t \in TDCs : w.tdc_group[a] = t => t \in T
    BY DEF Sound, GroupsAgree
  <2> QED
    BY <2>1, <2>2
<1>3. f \in [ADCs -> TDCs \cup {null}]
  <2>1. f = [a \in ADCs |-> f[a]]
    OBVIOUS
  <2> HIDE DEF f
  <2> QED
    BY <1>2, <2>1
<1>4. <<>> \in Partial /\ DOMAIN <<>> = {}
  <2>1. <<>> \in [{} -> ADCs]
    OBVIOUS
  <2> QED
    BY <2>1, PartialIs
<1>5. g \in [TDCs -> Partial]
  <2>1. w.group_map \in [TDCs -> Partial]
    BY DEF Sound, LinkTypes
  <2> HIDE DEF T
  <2> QED
    BY <1>4, <2>1
<1>6. \A t \in TDCs : DOMAIN g[t] = {}
  <2>1. \A t \in TDCs : t \notin T => DOMAIN w.group_map[t] = {}
    <3> SUFFICES ASSUME NEW t \in TDCs, NEW i \in DOMAIN w.group_map[t] PROVE t \in T
      OBVIOUS
    <3>1. i \in DOMAIN w.adc_list /\ w.tdc_group[w.adc_list[i]] = t
      BY DEF Sound, GroupsAgree
    <3>2. w.adc_list[i] \in ADCs
      BY <3>1 DEF Sound, LinkTypes
    <3> QED
      BY <3>1, <3>2 DEF Sound, GroupsAgree
  <2> QED
    BY <1>4, <2>1
<1> HIDE DEF f, g, l, u
<1>7. u = [hycal |-> w.hycal, system |-> w.system, modules |-> w.modules,
           detector |-> w.detector, daq_ch |-> w.daq_ch, module |-> w.module,
           adc_list |-> w.adc_list, tdc_list |-> {}, group_map |-> g,
           tdc_group |-> f, alive |-> l]
  <2> HIDE DEF T
  <2> QED
    BY <1>0, <1>1 DEF IsW
<1>8. IsW(u)
  BY <1>7 DEF IsW
<1>9. /\ SameOwners(u, w) /\ SameWires(u, w) /\ u.adc_list = w.adc_list /\ u.tdc_list = {}
      /\ u.group_map = g /\ u.tdc_group = f /\ u.alive = w.alive \ T
  BY <1>7 DEF SameOwners, SameWires, l
<1>10. /\ u.alive \cap Dets = w.alive \cap Dets /\ u.alive \cap Mods = w.alive \cap Mods
       /\ u.alive \cap ADCs = w.alive \cap ADCs /\ u.alive \cap TDCs = {}
  <2>1. T = w.alive \cap TDCs
    BY DEF Sound, GroupsAgree
  <2> QED
    BY <1>9, <2>1 DEF ObjectKinds
<1>11. LinkTypes(u)
  <2>1. u.alive \in SUBSET (Dets \cup Mods \cup ADCs \cup TDCs)
    BY <1>9 DEF Sound, LinkTypes
  <2> QED
    BY <1>3, <1>5, <1>9, <2>1 DEF Sound, LinkTypes, SameOwners, SameWires
<1>12. Owned(u)
  <2>1. /\ u.hycal = w.hycal /\ u.system = w.system /\ u.modules = w.modules
        /\ u.detector = w.detector
    BY <1>9 DEF SameOwners
  <2>2. \A m \in Mods : m \in u.alive <=> m \in w.alive
    BY <1>10
  <2> QED
    BY <1>10, <2>1, <2>2 DEF Owned, Sound
<1>13. Wired(u)
  <2>1. \A m \in Mods : m \in u.alive <=> m \in w.alive
    BY <1>10
  <2>2. \A a \in ADCs : a \in u.alive <=> a \in w.alive
    BY <1>10
  <2> QED
    BY <1>9, <2>1, <2>2 DEF Wired, Sound, SameWires
<1>14. GroupsAgree(u)
  <2>1. \A a \in ADCs, t \in TDCs : f[a] # t
    BY <1>2 DEF ObjectKinds
  <2>2. w.alive \cap ADCs = ToSet(w.adc_list)
        /\ \A i, j \in DOMAIN w.adc_list : w.adc_list[i] = w.adc_list[j] => i = j
    BY DEF Sound, GroupsAgree
  <2> QED
    BY <1>6, <1>9, <1>10, <2>1, <2>2 DEF GroupsAgree
<1> QED
  BY <1>8, <1>11, <1>12, <1>13, <1>14 DEF Sound, u

-----------------------------------------------------------------------------
(* Every step keeps the links sound.                                        *)

LEMMA WIs ==
  /\ IsW(W) /\ W.hycal = hycal /\ W.system = system /\ W.modules = modules
  /\ W.detector = detector /\ W.daq_ch = daq_ch /\ W.module = module
  /\ W.adc_list = adc_list /\ W.tdc_list = tdc_list /\ W.group_map = group_map
  /\ W.tdc_group = tdc_group /\ W.alive = alive
  BY DEF W, IsW

LEMMA SoundAfter ==
  ASSUME NEW z, Sound(z), Becomes(z)
  PROVE  Sound(W)'
<1>1. IsW(z)
  BY DEF Sound
<1>2. W' = z
  BY <1>1 DEF W, Becomes, IsW
<1>3. Sound(W')
  BY <1>2
<1>4. (W.hycal)' = W'.hycal
  OBVIOUS
<1> QED
  BY <1>3

LEMMA LinksStay == ASSUME Sound(W), UNCHANGED links PROVE Sound(W)'
<1>1. Becomes(W)
  BY WIs DEF Becomes, links
<1> QED
  BY <1>1, SoundAfter

LEMMA InitSound == ASSUME ObjectKinds, WiringInit PROVE Sound(W)
<1>1. /\ hycal \in Dets /\ system = {hycal} /\ alive = {hycal}
      /\ modules = [d \in Dets |-> {}] /\ detector = [m \in Mods |-> null]
      /\ daq_ch = [m \in Mods |-> null] /\ module = [a \in ADCs |-> null]
      /\ adc_list = <<>> /\ tdc_list = {}
      /\ group_map = [t \in TDCs |-> <<>>] /\ tdc_group = [a \in ADCs |-> null]
  BY DEF WiringInit, Nowhere
<1>2. hycal # null /\ hycal \notin Mods /\ hycal \notin ADCs /\ hycal \notin TDCs
      /\ \A t \in TDCs : t # null
      /\ \A m \in Mods : m # null
      /\ \A a \in ADCs : a # null
  BY <1>1 DEF ObjectKinds
<1>3. <<>> \in Partial /\ DOMAIN <<>> = {} /\ <<>> \in Seq(ADCs) /\ ToSet(<<>>) = {}
  <2>1. <<>> \in [{} -> ADCs] /\ DOMAIN <<>> = {} /\ <<>> \in Seq(ADCs)
    OBVIOUS
  <2>2. <<>> \in Partial
    BY <2>1, PartialIs
  <2> QED
    BY <2>1, <2>2 DEF ToSet
<1>4. LinkTypes(W)
  BY <1>1, <1>3, WIs DEF LinkTypes
<1>5. Owned(W)
  BY <1>1, <1>2, WIs DEF Owned
<1>6. Wired(W)
  <2>1. /\ \A m \in Mods : W.daq_ch[m] = null
        /\ \A a \in ADCs : W.module[a] = null
    BY <1>1, WIs
  <2>2. ASSUME NEW m \in Mods, NEW a \in ADCs PROVE W.daq_ch[m] # a /\ W.module[a] # m
    <3>1. null # m /\ null # a
      BY Zenon DEF ObjectKinds
    <3>2. W.daq_ch[m] = null /\ W.module[a] = null
      BY <2>1
    <3> QED
      BY <3>1, <3>2, Zenon
  <2> QED
    BY <2>1, <2>2 DEF Wired
<1>7. GroupsAgree(W)
  BY <1>1, <1>2, <1>3, WIs DEF GroupsAgree
<1> QED
  BY <1>4, <1>5, <1>6, <1>7, WIs DEF Sound

LEMMA ConfigureStep == ASSUME ObjectKinds, Sound(W), Configure PROVE Sound(W)'
<1>1. ASSUME NEW M \in SUBSET Mods, ReadModuleList(M) PROVE Sound(W)'
  <2> DEFINE z == Reloaded(W, M)
  <2>1. hycal # null /\ M \cap alive = {} /\ Becomes(z)
    <3>1. Becomes(LET old == modules[hycal]
                      u == DeleteModules([W EXCEPT !.detector = Cut(@, old)], old)
                  IN  [u EXCEPT !.modules[hycal] = M, !.alive = @ \cup M,
                           !.detector = [m \in Mods |-> IF m \in M THEN hycal ELSE @[m]]])
      BY <1>1, Zenon DEF ReadModuleList
    <3>2. z = LET old == modules[hycal]
                  u == DeleteModules([W EXCEPT !.detector = Cut(@, old)], old)
              IN  [u EXCEPT !.modules[hycal] = M, !.alive = @ \cup M,
                       !.detector = [m \in Mods |-> IF m \in M THEN hycal ELSE @[m]]]
      BY WIs, Zenon DEF Reloaded
    <3> HIDE DEF z
    <3> QED
      BY <1>1, <3>1, <3>2, Zenon DEF ReadModuleList
  <2>2. Part(M, Mods)
    BY DEF Part
  <2> HIDE DEF z
  <2>3. Sound(z)
    <3>1. z = Reloaded(W, M) /\ W.hycal # null /\ M \cap W.alive = {}
      BY <2>1, WIs DEF z
    <3> QED
      BY <2>2, <3>1, ReloadedSound
  <2> QED
    BY <2>1, <2>3, SoundAfter
<1>2. ASSUME NEW f \in ChannelLists, ReadChannelList(f[1], f[2]) PROVE Sound(W)'
  <2> DEFINE x == AddTDCChannels(W, f[1])
             y == AddADCChannels(x, f[2])
             z == BuildConnections(y)
  <2>1. Becomes(z)
    BY <1>2 DEF ReadChannelList
  <2>2. f[1] \in Seq(TDCs) /\ f[2] \in Seq(ADCs)
    BY DEF ObjectKinds
  <2>3. Sound(x)
    BY <2>2, AddTDCsSound
  <2> HIDE DEF x
  <2>4. Sound(y)
    BY <2>2, <2>3, AddADCsSound
  <2> HIDE DEF y
  <2>5. Sound(z)
    BY <2>4, BuildConnectionsSound
  <2> HIDE DEF z
  <2> QED
    BY <2>1, <2>5, SoundAfter
<1>3. ASSUME NEW f \in RunInfos, ReadRunInfoFile(f[1], f[2]) PROVE Sound(W)'
  BY <1>3, LinksStay DEF ReadRunInfoFile
<1> QED
  BY <1>1, <1>2, <1>3 DEF Configure

LEMMA ChangeStep == ASSUME ObjectKinds, Sound(W), Change PROVE Sound(W)'
<1>1. ASSUME NEW m \in Mods, RemoveModule(m) PROVE Sound(W)'
  <2> DEFINE n == modules[hycal] \ {m}
             z == Dropped(W, hycal, {m}, n)
  <2>1. hycal # null /\ m \in modules[hycal]
        /\ Becomes(DeleteModules([W EXCEPT !.detector[m] = null, !.modules[hycal] = @ \ {m}], {m}))
    BY <1>1, Zenon DEF RemoveModule
  <2>2. [W EXCEPT !.detector[m] = null, !.modules[hycal] = @ \ {m}]
          = [W EXCEPT !.detector = Cut(@, {m}), !.modules[hycal] = n]
    <3> DEFINE c == [detector EXCEPT ![m] = null]
               g == [modules EXCEPT ![hycal] = n]
               x == [W EXCEPT !.detector = c]
    <3>0. IsW(W)
      BY WIs
    <3>1. [W EXCEPT !.detector[m] = null, !.modules[hycal] = @ \ {m}] = [x EXCEPT !.modules = g]
      <4>1. [W EXCEPT !.detector[m] = null, !.modules[hycal] = @ \ {m}]
              = [[W EXCEPT !.detector = [W.detector EXCEPT ![m] = null]]
                   EXCEPT !.modules = [W.modules EXCEPT ![hycal] = W.modules[hycal] \ {m}]]
        BY <3>0 DEF IsW
      <4> QED
        BY <4>1, WIs, Zenon
    <3>2. [W EXCEPT !.detector = Cut(@, {m}), !.modules[hycal] = n]
            = [[W EXCEPT !.detector = Cut(detector, {m})] EXCEPT !.modules = g]
      <4>1. [W EXCEPT !.detector = Cut(@, {m}), !.modules[hycal] = n]
              = [[W EXCEPT !.detector = Cut(W.detector, {m})]
                   EXCEPT !.modules = [W.modules EXCEPT ![hycal] = n]]
        BY <3>0 DEF IsW
      <4> QED
        BY <4>1, WIs, Zenon
    <3>3. Cut(detector, {m}) = c
      <4>1. W.detector \in [Mods -> Dets \cup {null}]
        BY DEF Sound, LinkTypes
      <4>2. detector \in [Mods -> Dets \cup {null}]
        BY <4>1, WIs
      <4> QED
        BY <4>2 DEF Cut
    <3> QED
      BY <3>1, <3>2, <3>3, Zenon
  <2>3. Becomes(z)
    BY <2>1, <2>2, Zenon DEF Dropped
  <2>4. Sound(z)
    <3>1. z = Dropped(W, W.hycal, {m}, W.modules[W.hycal] \ {m})
      BY WIs, Zenon
    <3>2. W.hycal # null /\ m \in W.modules[W.hycal]
      BY <2>1, WIs
    <3> HIDE DEF z
    <3> QED
      BY <3>1, <3>2, RemoveModuleSound
  <2> HIDE DEF z
  <2> QED
    BY <2>3, <2>4, SoundAfter
<1>2. ASSUME NEW d \in Dets, SetDetector(d) PROVE Sound(W)'
  <2> DEFINE w == RemoveDetectorOf(W)
             z == [w EXCEPT !.hycal = d, !.system = @ \cup {d}, !.alive = @ \cup {d}]
  <2>1. d \notin alive /\ Becomes(z)
    BY <1>2, Zenon DEF SetDetector
  <2>2. Sound(w) /\ w.hycal = null /\ w.alive \subseteq W.alive
    BY RemoveDetectorSound
  <2>3. d \notin w.alive
    BY <2>1, <2>2, WIs
  <2> HIDE DEF w
  <2>4. Sound(z)
    BY <2>2, <2>3, SetDetectorSound
  <2> HIDE DEF z
  <2> QED
    BY <2>1, <2>4, SoundAfter
<1>3. ASSUME RemoveDetector PROVE Sound(W)'
  <2>1. Becomes(RemoveDetectorOf(W))
    BY <1>3 DEF RemoveDetector
  <2>2. Sound(RemoveDetectorOf(W))
    BY RemoveDetectorSound
  <2> QED
    BY <2>1, <2>2, SoundAfter
<1>4. ASSUME DetectorDeleted PROVE Sound(W)'
  <2> DEFINE z == DeleteDetector(W, W.hycal)
  <2>1. Becomes(z) /\ W.hycal # null
    BY <1>4, WIs, Zenon DEF DetectorDeleted
  <2>2. Sound(z)
    BY <2>1, DeleteDetectorSound, UndetectedSound
  <2> HIDE DEF z
  <2> QED
    BY <2>1, <2>2, SoundAfter
<1>5. ASSUME NEW c \in ClusterMethods, AddClusterMethod(c) \/ RemoveClusterMethod(c) \/ SetClusterMethod(c)
      PROVE  Sound(W)'
  BY <1>5, LinksStay DEF AddClusterMethod, RemoveClusterMethod, SetClusterMethod
<1> QED
  BY <1>1, <1>2, <1>3, <1>4, <1>5 DEF Change

LEMMA DestroyStep == ASSUME ObjectKinds, Sound(W), DestroySystem PROVE Sound(W)'
<1> DEFINE u == IF hycal = null THEN W ELSE DeleteDetector(W, hycal)
           v == ClearADCChannel(u)
           z == ClearTDCChannel(v)
<1>1. Becomes(z)
  BY Zenon DEF DestroySystem
<1>2. Sound(u)
  <2>1. CASE hycal = null
    BY <2>1
  <2>2. CASE hycal # null
    <3>1. W.hycal # null /\ u = DeleteDetector(W, W.hycal)
      BY <2>2, WIs, Zenon
    <3> HIDE DEF u
    <3> QED
      BY <3>1, DeleteDetectorSound, UndetectedSound
  <2> QED
    BY <2>1, <2>2
<1> HIDE DEF u
<1>3. Sound(v)
  BY <1>2, ClearADCSound
<1> HIDE DEF v
<1>4. Sound(z)
  BY <1>3, ClearTDCSound
<1> HIDE DEF z
<1> QED
  BY <1>1, <1>4, SoundAfter

LEMMA LinksStep ==
  ASSUME ObjectKinds, Sound(W), [WiringNext]_wiring_vars
  PROVE  Sound(W)'
<1>1. CASE UNCHANGED wiring_vars
  BY <1>1, LinksStay DEF wiring_vars
<1>2. CASE Configure
  BY <1>2, ConfigureStep
<1>3. CASE Analyse
  <2>1. UNCHANGED links
    BY <1>3 DEF Analyse, ChooseHits, ReconstructEvent, Reconstruct
  <2> QED
    BY <2>1, LinksStay
<1>4. CASE Change
  BY <1>4, ChangeStep
<1>5. CASE DestroySystem
  BY <1>5, DestroyStep
<1> QED
  BY <1>1, <1>2, <1>3, <1>4, <1>5 DEF WiringNext

(* The method in use is a registered one, or none.                          *)
MethodKnown == recon \in recon_map \cup {null}

LEMMA MethodStep == ASSUME MethodKnown, [WiringNext]_wiring_vars PROVE MethodKnown'
<1>1. CASE UNCHANGED <<recon_map, recon>>
  BY <1>1 DEF MethodKnown
<1>2. ASSUME NEW c \in ClusterMethods, AddClusterMethod(c) PROVE MethodKnown'
  BY <1>2 DEF MethodKnown, AddClusterMethod
<1>3. ASSUME NEW c \in ClusterMethods, RemoveClusterMethod(c) PROVE MethodKnown'
  BY <1>3 DEF MethodKnown, RemoveClusterMethod
<1>4. ASSUME NEW c \in ClusterMethods, SetClusterMethod(c) PROVE MethodKnown'
  BY <1>4 DEF MethodKnown, SetClusterMethod
<1>5. CASE DestroySystem
  BY <1>5 DEF MethodKnown, DestroySystem
<1>6. Configure \/ Analyse => UNCHANGED <<recon_map, recon>>
  BY DEF Configure, Analyse, ReadModuleList, ReadChannelList, ReadRunInfoFile, ChooseHits,
         ReconstructEvent, Reconstruct
<1>7. UNCHANGED wiring_vars => UNCHANGED <<recon_map, recon>>
  BY DEF wiring_vars
<1>8. Change => MethodKnown'
  <2>1. ASSUME Change PROVE UNCHANGED <<recon_map, recon>> \/ \E c \in ClusterMethods :
          AddClusterMethod(c) \/ RemoveClusterMethod(c) \/ SetClusterMethod(c)
    BY <2>1 DEF Change, RemoveModule, SetDetector, RemoveDetector, DetectorDeleted
  <2> QED
    BY <1>1, <1>2, <1>3, <1>4, <2>1
<1> QED
  BY <1>1, <1>5, <1>6, <1>7, <1>8 DEF WiringNext

LEMMA LinksSound ==
  ObjectKinds /\ WiringSpec => [](ObjectKinds /\ Sound(W) /\ MethodKnown)
<1>1. ObjectKinds /\ WiringInit => ObjectKinds /\ Sound(W) /\ MethodKnown
  BY InitSound DEF WiringInit, MethodKnown
<1>2. ObjectKinds' <=> ObjectKinds
  BY DEF ObjectKinds
<1>3. ObjectKinds /\ Sound(W) /\ MethodKnown /\ [WiringNext]_wiring_vars
        => (ObjectKinds /\ Sound(W) /\ MethodKnown)'
  BY <1>2, LinksStep, MethodStep
<1> QED
  BY <1>1, <1>3, PTL DEF WiringSpec

(* The two sides of every link between the system, its detector, modules,   *)
(* channels and groups agree, and every module a listed channel leads to is *)
(* one of the detector's, whatever lists are read again and whatever is     *)
(* added, removed, replaced or deleted (SetModule, SetChannel, SetDetector, *)
(* ConnectChannel, BuildConnections, their Unset... and the destructors).   *)
THEOREM HyCalLinksAgree == ObjectKinds /\ WiringSpec => []LinksAgree
<1>1. ASSUME ObjectKinds, Sound(W) PROVE LinksAgree
  <2>1. Owned(W) /\ Wired(W) /\ GroupsAgree(W) /\ LinkTypes(W)
    BY <1>1 DEF Sound
  <2>2. null \notin Dets /\ null \notin Mods /\ null \notin ADCs /\ null \notin TDCs
    BY <1>1 DEF ObjectKinds
  <2>3. \A d \in Dets, m \in Mods : m \in modules[d] <=> detector[m] = d
    BY <2>1, <2>2, WIs DEF Owned
  <2>4. \A m \in Mods, a \in ADCs : daq_ch[m] = a <=> module[a] = m
    BY <2>1, WIs DEF Wired
  <2>5. \A t \in TDCs, a \in ADCs : tdc_group[a] = t <=>
          \E i \in DOMAIN group_map[t] : group_map[t][i] = a /\ adc_list[i] = a
    BY <2>1, WIs DEF GroupsAgree
  <2>6. system = {hycal} \ {null}
    BY <2>1, WIs DEF Owned
  <2>7. ASSUME NEW a \in ToSet(adc_list), module[a] # null
        PROVE  hycal # null /\ module[a] \in modules[hycal]
    <3>1. a \in ADCs
      BY <2>1, WIs DEF GroupsAgree
    <3>2. module[a] \in Mods
      BY <2>1, <2>7, <3>1, WIs DEF LinkTypes
    <3>3. daq_ch[module[a]] = a
      BY <2>4, <3>1, <3>2
    <3>4. module[a] \in alive
      BY <2>1, <2>2, <3>1, <3>2, <3>3, WIs DEF Wired
    <3>5. hycal # null /\ hycal \in Dets
      BY <2>1, <3>2, <3>4, WIs DEF Owned, LinkTypes
    <3> QED
      BY <2>1, <3>2, <3>4, <3>5, WIs DEF Owned
  <2> QED
    BY <2>3, <2>4, <2>5, <2>6, <2>7 DEF LinksAgree, CentersExist
<1> QED
  BY <1>1, LinksSound, PTL

(* No object that exists points to one that was deleted, and the method in  *)
(* use is a registered one, before and after the system is destroyed        *)
(* (~PRadHyCalSystem, ~PRadHyCalDetector, ~PRadHyCalModule, ~PRadADCChannel,*)
(* ~PRadTDCChannel, RemoveClusterMethod).                                   *)
THEOREM HyCalNothingDangles == ObjectKinds /\ WiringSpec => []NothingDangling
<1>1. ASSUME ObjectKinds, Sound(W), MethodKnown PROVE NothingDangling
  <2>1. Owned(W) /\ Wired(W) /\ GroupsAgree(W) /\ LinkTypes(W)
    BY <1>1 DEF Sound
  <2>2. null \notin Dets /\ null \notin Mods /\ null \notin ADCs /\ null \notin TDCs
    BY <1>1 DEF ObjectKinds
  <2>3. hycal = null \/ hycal \in alive
    BY <2>1, WIs DEF Owned, LinkTypes
  <2>4. \A d \in Dets : modules[d] \subseteq alive
    BY <2>1, WIs DEF Owned
  <2>5. \A m \in Mods : detector[m] = null \/ detector[m] \in alive
    <3>1. \A m \in Mods : detector[m] = null \/ detector[m] = hycal
      BY <2>1, WIs DEF Owned
    <3> QED
      BY <2>3, <3>1
  <2>6. \A m \in Mods : daq_ch[m] = null \/ daq_ch[m] \in alive
    <3> SUFFICES ASSUME NEW m \in Mods, daq_ch[m] # null PROVE daq_ch[m] \in alive
      OBVIOUS
    <3>1. daq_ch[m] \in ADCs
      BY <2>1, WIs DEF LinkTypes
    <3>2. module[daq_ch[m]] = m
      BY <2>1, <3>1, WIs DEF Wired
    <3> QED
      BY <2>1, <2>2, <3>1, <3>2, WIs DEF Wired
  <2>7. \A a \in ADCs : module[a] = null \/ module[a] \in alive
    <3> SUFFICES ASSUME NEW a \in ADCs, module[a] # null PROVE module[a] \in alive
      OBVIOUS
    <3>1. module[a] \in Mods
      BY <2>1, WIs DEF LinkTypes
    <3>2. daq_ch[module[a]] = a
      BY <2>1, <3>1, WIs DEF Wired
    <3> QED
      BY <2>1, <2>2, <3>1, <3>2, WIs DEF Wired
  <2>8. ToSet(adc_list) \cup tdc_list \subseteq alive
    BY <2>1, WIs DEF GroupsAgree
  <2>9. \A a \in ADCs : tdc_group[a] = null \/ tdc_group[a] \in alive
    <3> SUFFICES ASSUME NEW a \in ADCs, tdc_group[a] # null PROVE tdc_group[a] \in alive
      OBVIOUS
    <3>1. tdc_group[a] \in TDCs
      BY <2>1, WIs DEF LinkTypes
    <3>2. tdc_group[a] \in tdc_list
      BY <2>1, <3>1, WIs DEF GroupsAgree
    <3> QED
      BY <2>8, <3>2
  <2>10. \A t \in TDCs : \A i \in DOMAIN group_map[t] : group_map[t][i] \in alive
    <3> SUFFICES ASSUME NEW t \in TDCs, NEW i \in DOMAIN group_map[t]
                 PROVE  group_map[t][i] \in alive
      OBVIOUS
    <3>1. i \in DOMAIN adc_list /\ group_map[t][i] = adc_list[i]
      BY <2>1, WIs DEF GroupsAgree
    <3>2. adc_list[i] \in ToSet(adc_list)
      BY <3>1 DEF ToSet
    <3> QED
      BY <2>8, <3>1, <3>2
  <2>11. recon = null \/ recon \in recon_map
    BY <1>1 DEF MethodKnown
  <2> QED
    BY <2>3, <2>4, <2>5, <2>6, <2>7, <2>8, <2>9, <2>10, <2>11 DEF NothingDangling
<1> QED
  BY <1>1, LinksSound, PTL

-----------------------------------------------------------------------------
(* The groups of hits.                                                      *)

LEMMA AdjacentBothWays ==
  ASSUME GridConstants, NEW a \in Ids, NEW b \in Ids
  PROVE  Adjacent(a, b) <=> Adjacent(b, a)
<1>1. /\ Layout[a][1] \in Int /\ Layout[a][2] \in Int
      /\ Layout[b][1] \in Int /\ Layout[b][2] \in Int
  BY DEF GridConstants, Ids
<1>2. ASSUME NEW x \in Int, NEW y \in Int PROVE (x - y) * (x - y) = (y - x) * (y - x)
  <2>1. ASSUME NEW z \in Int PROVE z * z = (0 - z) * (0 - z)
    OBVIOUS
  <2>2. x - y \in Int /\ y - x = 0 - (x - y)
    OBVIOUS
  <2> QED
    BY <2>1, <2>2
<1>3. Dist2(a, b) = Dist2(b, a)
  BY <1>1, <1>2 DEF Dist2
<1> QED
  BY <1>3 DEF Adjacent

(* No part of G but G itself is closed under adjacency; a member of G is    *)
(* adjacent to one of H.                                                    *)
Connected(G) == \A D \in SUBSET G : Whole(G, D) => D = G
Touching(G, H) == \E a \in G, b \in H : Adjacent(a, b)

LEMMA ConnectedUnion ==
  ASSUME GridConstants, NEW G \in SUBSET Ids, NEW H \in SUBSET Ids,
         Connected(G), Connected(H), Touching(G, H)
  PROVE  Connected(G \cup H)
<1>1. PICK a \in G, b \in H : Adjacent(a, b)
  BY DEF Touching
<1>2. Adjacent(b, a)
  BY <1>1, AdjacentBothWays
<1> SUFFICES ASSUME NEW D \in SUBSET (G \cup H), Whole(G \cup H, D) PROVE D = G \cup H
  BY DEF Connected
<1>3. D \cap G # {} => D \cap G = G
  <2>1. D \cap G # {} => Whole(G, D \cap G)
    BY DEF Whole
  <2>2. D \cap G \in SUBSET G
    OBVIOUS
  <2> QED
    BY <2>1, <2>2 DEF Connected
<1>4. D \cap H # {} => D \cap H = H
  <2>1. D \cap H # {} => Whole(H, D \cap H)
    BY DEF Whole
  <2>2. D \cap H \in SUBSET H
    OBVIOUS
  <2> QED
    BY <2>1, <2>2 DEF Connected
<1>5. D # {}
  BY DEF Whole
<1>6. a \in D => b \in D
  BY <1>1 DEF Whole
<1>7. b \in D => a \in D
  BY <1>1, <1>2 DEF Whole
<1> QED
  BY <1>1, <1>3, <1>4, <1>5, <1>6, <1>7

LEMMA ConnectedOne == ASSUME NEW m PROVE Connected({m})
  BY DEF Connected, Whole

(* The groups share out the hits in S, each is connected.                   *)
Members(s) == {s[i] : i \in DOMAIN s}
Grouped(gs, S) ==
  /\ gs \in Seq(Seq(Ids))
  /\ \A k \in DOMAIN gs : Members(gs[k]) \subseteq S /\ Members(gs[k]) # {}
  /\ \A m \in S : \E k \in DOMAIN gs : m \in Members(gs[k])
  /\ \A k \in DOMAIN gs : \A a, b \in DOMAIN gs[k] : gs[k][a] = gs[k][b] => a = b
  /\ \A j, k \in DOMAIN gs : j # k => Members(gs[j]) \cap Members(gs[k]) = {}
  /\ \A k \in DOMAIN gs : Connected(Members(gs[k]))

(* No group before i touches another.                                       *)
Apart(gs, i) == \A j, k \in DOMAIN gs : j < i /\ j # k => ~Touching(Members(gs[j]), Members(gs[k]))

LEMMA MembersAppend ==
  ASSUME NEW s \in Seq(Ids), NEW m \in Ids
  PROVE  /\ Append(s, m) \in Seq(Ids) /\ Members(Append(s, m)) = Members(s) \cup {m}
         /\ DOMAIN Append(s, m) = 1 .. Len(s) + 1 /\ DOMAIN s = 1 .. Len(s) /\ Len(s) \in Nat
         /\ \A i \in DOMAIN s : Append(s, m)[i] = s[i]
         /\ Append(s, m)[Len(s) + 1] = m
<1>1. /\ Append(s, m) \in Seq(Ids)
      /\ DOMAIN Append(s, m) = 1 .. Len(s) + 1 /\ DOMAIN s = 1 .. Len(s) /\ Len(s) \in Nat
      /\ \A i \in DOMAIN s : Append(s, m)[i] = s[i]
      /\ Append(s, m)[Len(s) + 1] = m
  OBVIOUS
<1> DEFINE t == Append(s, m)
<1> HIDE DEF t
<1>2. Members(t) = Members(s) \cup {m}
  <2>1. \A x : x \in Members(t) <=> \E i \in 1 .. Len(s) + 1 : x = t[i]
    BY <1>1 DEF Members, t
  <2>2. \A i \in 1 .. Len(s) : t[i] = s[i]
    BY <1>1 DEF t
  <2>3. t[Len(s) + 1] = m
    BY <1>1 DEF t
  <2>4. \A x : x \in Members(s) <=> \E i \in 1 .. Len(s) : x = s[i]
    BY <1>1 DEF Members
  <2>5. \A i \in 1 .. Len(s) + 1 : i = Len(s) + 1 \/ i \in 1 .. Len(s)
    BY <1>1
  <2>6. Len(s) + 1 \in 1 .. Len(s) + 1 /\ 1 .. Len(s) \subseteq 1 .. Len(s) + 1
    BY <1>1
  <2> QED
    BY <2>1, <2>2, <2>3, <2>4, <2>5, <2>6
<1> QED
  BY <1>1, <1>2 DEF t

LEMMA MembersConcat ==
  ASSUME NEW s \in Seq(Ids), NEW t \in Seq(Ids)
  PROVE  /\ s \o t \in Seq(Ids) /\ Members(s \o t) = Members(s) \cup Members(t)
         /\ (/\ \A a, b \in DOMAIN s : s[a] = s[b] => a = b
             /\ \A a, b \in DOMAIN t : t[a] = t[b] => a = b
             /\ Members(s) \cap Members(t) = {}
             => \A a, b \in DOMAIN (s \o t) : (s \o t)[a] = (s \o t)[b] => a = b)
<1> DEFINE u == s \o t
<1>1. /\ u \in Seq(Ids) /\ DOMAIN u = 1 .. Len(s) + Len(t) /\ DOMAIN s = 1 .. Len(s)
      /\ DOMAIN t = 1 .. Len(t) /\ Len(s) \in Nat /\ Len(t) \in Nat
      /\ \A i \in 1 .. Len(s) + Len(t) : u[i] = IF i <= Len(s) THEN s[i] ELSE t[i - Len(s)]
  OBVIOUS
<1> HIDE DEF u
<1>2. \A i \in DOMAIN u : \/ i \in DOMAIN s /\ u[i] = s[i]
                          \/ i - Len(s) \in DOMAIN t /\ u[i] = t[i - Len(s)] /\ i \notin DOMAIN s
  BY <1>1
<1>3. \A i \in DOMAIN s : i \in DOMAIN u /\ u[i] = s[i]
  BY <1>1
<1>4. \A i \in DOMAIN t : i + Len(s) \in DOMAIN u /\ u[i + Len(s)] = t[i]
  <2> SUFFICES ASSUME NEW i \in DOMAIN t PROVE i + Len(s) \in DOMAIN u /\ u[i + Len(s)] = t[i]
    OBVIOUS
  <2>1. i \in 1 .. Len(t) /\ i + Len(s) \in 1 .. Len(s) + Len(t) /\ ~(i + Len(s) <= Len(s))
        /\ (i + Len(s)) - Len(s) = i
    BY <1>1
  <2> QED
    BY <1>1, <2>1
<1>5. Members(u) = Members(s) \cup Members(t)
  BY <1>2, <1>3, <1>4 DEF Members
<1>6. ASSUME \A a, b \in DOMAIN s : s[a] = s[b] => a = b,
             \A a, b \in DOMAIN t : t[a] = t[b] => a = b,
             Members(s) \cap Members(t) = {}, NEW a \in DOMAIN u, NEW b \in DOMAIN u, u[a] = u[b]
      PROVE  a = b
  <2>1. a \in Int /\ b \in Int
    BY <1>1
  <2>2. (a \in DOMAIN s) <=> (b \in DOMAIN s)
    BY <1>2, <1>6 DEF Members
  <2>3. CASE a \in DOMAIN s /\ b \in DOMAIN s
    BY <1>3, <1>6, <2>3
  <2>4. CASE a \notin DOMAIN s /\ b \notin DOMAIN s
    <3>1. a - Len(s) = b - Len(s)
      BY <1>2, <1>6, <2>4
    <3> QED
      BY <1>1, <2>1, <3>1
  <2> QED
    BY <2>2, <2>3, <2>4
<1> QED
  BY <1>1, <1>5, <1>6 DEF u

LEMMA TouchesIs ==
  ASSUME NEW q, NEW m
  PROVE  TouchesGroup(q, m) <=> \E a \in Members(q) : Adjacent(m, a)
  BY DEF TouchesGroup, Members

LEMMA NewGroup ==
  ASSUME NEW S \in SUBSET Ids, NEW gs, Grouped(gs, S), NEW m \in Ids, m \notin S
  PROVE  Grouped(Append(gs, <<m>>), S \cup {m})
<1> DEFINE g2 == Append(gs, <<m>>)
<1>1. <<m>> \in Seq(Ids) /\ Members(<<m>>) = {m}
  BY DEF Members
<1>2. gs \in Seq(Seq(Ids))
  BY DEF Grouped
<1>3. /\ g2 \in Seq(Seq(Ids)) /\ DOMAIN g2 = 1 .. Len(gs) + 1 /\ DOMAIN gs = 1 .. Len(gs)
      /\ Len(gs) \in Nat /\ g2[Len(gs) + 1] = <<m>>
      /\ \A k \in DOMAIN gs : g2[k] = gs[k]
  BY <1>1, <1>2
<1>4. \A k \in DOMAIN g2 : (k \in DOMAIN gs /\ g2[k] = gs[k]) \/ (k = Len(gs) + 1 /\ k \notin DOMAIN gs /\ g2[k] = <<m>>)
  BY <1>3
<1>5. \A k \in DOMAIN gs : k \in DOMAIN g2
  BY <1>3
<1>6. Len(gs) + 1 \in DOMAIN g2
  BY <1>3
<1>7. Connected({m}) /\ \A a, b \in DOMAIN <<m>> : a = b
  <2>1. DOMAIN <<m>> = {1}
    OBVIOUS
  <2> QED
    BY <2>1, ConnectedOne
<1> HIDE DEF g2
<1>8. \A k \in DOMAIN g2 : Members(g2[k]) \subseteq S \cup {m} /\ Members(g2[k]) # {}
  BY <1>1, <1>4 DEF Grouped
<1>9. \A x \in S \cup {m} : \E k \in DOMAIN g2 : x \in Members(g2[k])
  BY <1>1, <1>3, <1>5, <1>6 DEF Grouped
<1>10. \A k \in DOMAIN g2 : \A a, b \in DOMAIN g2[k] : g2[k][a] = g2[k][b] => a = b
  BY <1>4, <1>7 DEF Grouped
<1>11. \A j, k \in DOMAIN g2 : j # k => Members(g2[j]) \cap Members(g2[k]) = {}
  <2>1. \A k \in DOMAIN gs : m \notin Members(gs[k])
    BY DEF Grouped
  <2>2. \A j, k \in DOMAIN gs : j # k => Members(gs[j]) \cap Members(gs[k]) = {}
    BY DEF Grouped
  <2> SUFFICES ASSUME NEW j \in DOMAIN g2, NEW k \in DOMAIN g2, j # k
               PROVE  Members(g2[j]) \cap Members(g2[k]) = {}
    OBVIOUS
  <2>3. CASE j \in DOMAIN gs /\ k \in DOMAIN gs
    BY <1>4, <2>2, <2>3
  <2>4. CASE j \in DOMAIN gs /\ k \notin DOMAIN gs
    BY <1>1, <1>4, <2>1, <2>4
  <2>5. CASE j \notin DOMAIN gs /\ k \in DOMAIN gs
    BY <1>1, <1>4, <2>1, <2>5
  <2> QED
    BY <1>4, <2>3, <2>4, <2>5
<1>12. \A k \in DOMAIN g2 : Connected(Members(g2[k]))
  BY <1>1, <1>4, <1>7 DEF Grouped
<1> QED
  BY <1>3, <1>8, <1>9, <1>10, <1>11, <1>12 DEF Grouped, g2

LEMMA LargerGroup ==
  ASSUME GridConstants, NEW S \in SUBSET Ids, NEW gs, Grouped(gs, S), NEW m \in Ids, m \notin S,
         NEW k \in DOMAIN gs, TouchesGroup(gs[k], m)
  PROVE  Grouped([gs EXCEPT ![k] = Append(@, m)], S \cup {m})
<1> DEFINE g2 == [gs EXCEPT ![k] = Append(@, m)]
<1>1. gs \in Seq(Seq(Ids)) /\ DOMAIN gs = 1 .. Len(gs) /\ gs[k] \in Seq(Ids)
  BY DEF Grouped
<1>2. /\ Append(gs[k], m) \in Seq(Ids) /\ Members(Append(gs[k], m)) = Members(gs[k]) \cup {m}
      /\ DOMAIN Append(gs[k], m) = 1 .. Len(gs[k]) + 1 /\ DOMAIN gs[k] = 1 .. Len(gs[k]) /\ Len(gs[k]) \in Nat
      /\ \A i \in DOMAIN gs[k] : Append(gs[k], m)[i] = gs[k][i]
      /\ Append(gs[k], m)[Len(gs[k]) + 1] = m
  BY <1>1, MembersAppend
<1>3. /\ g2 \in Seq(Seq(Ids)) /\ DOMAIN g2 = DOMAIN gs
      /\ g2[k] = Append(gs[k], m)
      /\ \A j \in DOMAIN gs : j # k => g2[j] = gs[j]
  BY <1>1, <1>2
<1>4. m \notin Members(gs[k]) /\ \A j \in DOMAIN gs : m \notin Members(gs[j])
  BY DEF Grouped
<1>5. Members(g2[k]) = Members(gs[k]) \cup {m}
  BY <1>2, <1>3
<1>6. Connected(Members(g2[k]))
  <2>1. Members(gs[k]) \in SUBSET Ids /\ {m} \in SUBSET Ids
    BY DEF Grouped
  <2>2. Connected(Members(gs[k])) /\ Connected({m})
    BY ConnectedOne DEF Grouped
  <2>3. PICK a \in Members(gs[k]) : Adjacent(m, a)
    BY TouchesIs
  <2>4. Touching({m}, Members(gs[k]))
    BY <2>3 DEF Touching
  <2>5. Connected({m} \cup Members(gs[k]))
    BY <2>1, <2>2, <2>4, ConnectedUnion
  <2>6. {m} \cup Members(gs[k]) = Members(g2[k])
    BY <1>5
  <2> QED
    BY <2>5, <2>6
<1>7. \A a, b \in DOMAIN g2[k] : g2[k][a] = g2[k][b] => a = b
  <2> SUFFICES ASSUME NEW a \in DOMAIN g2[k], NEW b \in DOMAIN g2[k], g2[k][a] = g2[k][b]
               PROVE  a = b
    OBVIOUS
  <2>1. /\ a = Len(gs[k]) + 1 \/ a \in DOMAIN gs[k]
        /\ b = Len(gs[k]) + 1 \/ b \in DOMAIN gs[k]
    BY <1>2, <1>3
  <2>2. \A i \in DOMAIN gs[k] : g2[k][i] = gs[k][i] /\ gs[k][i] # m
    BY <1>2, <1>3, <1>4 DEF Members
  <2>3. g2[k][Len(gs[k]) + 1] = m
    BY <1>2, <1>3
  <2>4. \A i, j \in DOMAIN gs[k] : gs[k][i] = gs[k][j] => i = j
    BY DEF Grouped
  <2> HIDE DEF g2
  <2> QED
    BY <2>1, <2>2, <2>3, <2>4
<1> HIDE DEF g2
<1>8. \A j \in DOMAIN g2 : Members(g2[j]) \subseteq S \cup {m} /\ Members(g2[j]) # {}
  BY <1>3, <1>5 DEF Grouped
<1>9. \A x \in S \cup {m} : \E j \in DOMAIN g2 : x \in Members(g2[j])
  BY <1>3, <1>5 DEF Grouped
<1>10. \A i, j \in DOMAIN g2 : i # j => Members(g2[i]) \cap Members(g2[j]) = {}
  <2> SUFFICES ASSUME NEW i \in DOMAIN g2, NEW j \in DOMAIN g2, i # j
               PROVE  Members(g2[i]) \cap Members(g2[j]) = {}
    OBVIOUS
  <2>1. Members(gs[i]) \cap Members(gs[j]) = {}
    BY <1>3 DEF Grouped
  <2> QED
    BY <1>3, <1>4, <1>5, <2>1
<1>11. \A j \in DOMAIN g2 : Connected(Members(g2[j]))
  BY <1>3, <1>6 DEF Grouped
<1>12. \A j \in DOMAIN g2 : \A a, b \in DOMAIN g2[j] : g2[j][a] = g2[j][b] => a = b
  BY <1>3, <1>7 DEF Grouped
<1> QED
  BY <1>3, <1>8, <1>9, <1>10, <1>11, <1>12 DEF Grouped, g2

LEMMA AddKeepsGrouped ==
  ASSUME GridConstants, energy \in [Ids -> Int], NEW S \in SUBSET Ids, NEW gs, Grouped(gs, S),
         NEW m \in Ids, m \notin S
  PROVE  Grouped(AddToGroups(gs, m), IF energy[m] < MinModuleEnergy THEN S ELSE S \cup {m})
<1> DEFINE near == {k \in DOMAIN gs : TouchesGroup(gs[k], m)}
           least(j) == j \in near /\ \A l \in near : j <= l
<1>1. near # {} => \E j : least(j)
  <2>1. near \in SUBSET Nat
    BY DEF Grouped
  <2> HIDE DEF near
  <2> QED
    BY <2>1, LeastExists
<1>2. CASE energy[m] < MinModuleEnergy
  BY <1>2 DEF AddToGroups
<1>3. CASE ~(energy[m] < MinModuleEnergy) /\ near = {}
  BY <1>3, NewGroup DEF AddToGroups
<1>4. CASE ~(energy[m] < MinModuleEnergy) /\ near # {}
  <2> DEFINE k == CHOOSE j : least(j)
             k1 == CHOOSE j \in near : \A l \in near : j <= l
  <2>1. k1 = k
    BY Zenon
  <2> HIDE DEF near
  <2>2. least(k)
    BY <1>1, <1>4, Zenon
  <2> HIDE DEF least
  <2>3. k1 \in near
    BY <2>1, <2>2 DEF least
  <2>4. AddToGroups(gs, m) = [gs EXCEPT ![k1] = Append(@, m)]
    BY <1>4, Zenon DEF AddToGroups, near
  <2> HIDE DEF k1
  <2>5. k1 \in DOMAIN gs /\ TouchesGroup(gs[k1], m)
    BY <2>3 DEF near
  <2>6. Grouped([gs EXCEPT ![k1] = Append(@, m)], S \cup {m})
    BY <2>5, LargerGroup
  <2> QED
    BY <1>4, <2>4, <2>6
<1> QED
  BY <1>2, <1>3, <1>4

LEMMA ConcatIs ==
  ASSUME NEW T, NEW a \in Seq(T), NEW b \in Seq(T)
  PROVE  /\ a \o b \in Seq(T) /\ Len(a \o b) = Len(a) + Len(b)
         /\ \A x \in 1 .. Len(a) + Len(b) : (a \o b)[x] = IF x <= Len(a) THEN a[x] ELSE b[x - Len(a)]
  OBVIOUS

LEMMA RemoveAtIs ==
  ASSUME NEW T, NEW s \in Seq(T), NEW i \in 1 .. Len(s)
  PROVE  /\ RemoveAt(s, i) \in Seq(T) /\ Len(s) \in Nat /\ Len(RemoveAt(s, i)) = Len(s) - 1
         /\ \A x \in 1 .. Len(s) - 1 : RemoveAt(s, i)[x] = s[IF x < i THEN x ELSE x + 1]
<1> DEFINE a == SubSeq(s, 1, i - 1)
           b == SubSeq(s, i + 1, Len(s))
<1>1. /\ a \in Seq(T) /\ Len(a) = i - 1 /\ \A x \in 1 .. i - 1 : a[x] = s[x]
  OBVIOUS
<1>2. /\ b \in Seq(T) /\ Len(b) = Len(s) - i /\ \A x \in 1 .. Len(s) - i : b[x] = s[i + x]
  <2>1. \A x \in 1 .. Len(s) - i : (i + 1) + x - 1 = i + x
    OBVIOUS
  <2> QED
    BY <2>1
<1> HIDE DEF a, b
<1>3. RemoveAt(s, i) = a \o b
  BY DEF RemoveAt, a, b
<1>4. /\ a \o b \in Seq(T) /\ Len(a \o b) = Len(s) - 1
      /\ \A x \in 1 .. Len(s) - 1 : (a \o b)[x] = IF x <= i - 1 THEN a[x] ELSE b[x - (i - 1)]
  <2>1. /\ a \o b \in Seq(T) /\ Len(a \o b) = Len(a) + Len(b)
        /\ \A x \in 1 .. Len(a) + Len(b) : (a \o b)[x] = IF x <= Len(a) THEN a[x] ELSE b[x - Len(a)]
    BY <1>1, <1>2, ConcatIs
  <2>2. Len(a) + Len(b) = Len(s) - 1
    BY <1>1, <1>2
  <2> QED
    BY <1>1, <2>1, <2>2
<1> DEFINE c == a \o b
<1> HIDE DEF c
<1>5. ASSUME NEW x \in 1 .. Len(s) - 1 PROVE c[x] = s[IF x < i THEN x ELSE x + 1]
  <2>1. CASE x < i
    <3>1. x \in 1 .. i - 1 /\ x <= i - 1
      BY <2>1
    <3> QED
      BY <1>1, <1>4, <2>1, <3>1 DEF c
  <2>2. CASE ~(x < i)
    <3>1. x - (i - 1) \in 1 .. Len(s) - i /\ ~(x <= i - 1) /\ i + (x - (i - 1)) = x + 1
      BY <2>2
    <3> QED
      BY <1>2, <1>4, <2>2, <3>1 DEF c
  <2> QED
    BY <2>1, <2>2
<1> QED
  BY <1>3, <1>4, <1>5 DEF c

(* Group i goes to the end of group j, behind it; the groups behind i move  *)
(* up by one.                                                               *)
LEMMA MergedGroups ==
  ASSUME GridConstants, NEW S \in SUBSET Ids, NEW gs, Grouped(gs, S), NEW i \in 1 .. Len(gs), Apart(gs, i),
         NEW j \in i + 1 .. Len(gs), Touching(Members(gs[i]), Members(gs[j])),
         NEW v, v = RemoveAt([gs EXCEPT ![j] = @ \o gs[i]], i)
  PROVE  Grouped(v, S) /\ i \in 1 .. Len(v) + 1 /\ Apart(v, i)
<1> DEFINE u == [gs EXCEPT ![j] = @ \o gs[i]]
           from(x) == IF x < i THEN x ELSE x + 1
<1>1. /\ gs \in Seq(Seq(Ids)) /\ DOMAIN gs = 1 .. Len(gs) /\ Len(gs) \in Nat
      /\ j \in DOMAIN gs /\ i \in DOMAIN gs /\ i # j /\ gs[i] \in Seq(Ids) /\ gs[j] \in Seq(Ids)
  BY DEF Grouped
<1>2. /\ gs[j] \o gs[i] \in Seq(Ids) /\ Members(gs[j] \o gs[i]) = Members(gs[j]) \cup Members(gs[i])
      /\ \A a, b \in DOMAIN (gs[j] \o gs[i]) : (gs[j] \o gs[i])[a] = (gs[j] \o gs[i])[b] => a = b
  <2>1. /\ \A a, b \in DOMAIN gs[j] : gs[j][a] = gs[j][b] => a = b
        /\ \A a, b \in DOMAIN gs[i] : gs[i][a] = gs[i][b] => a = b
        /\ Members(gs[j]) \cap Members(gs[i]) = {}
    BY <1>1 DEF Grouped
  <2> QED
    BY <1>1, <2>1, MembersConcat
<1>3. /\ u \in Seq(Seq(Ids)) /\ Len(u) = Len(gs) /\ u[j] = gs[j] \o gs[i]
      /\ \A x \in DOMAIN gs : x # j => u[x] = gs[x]
  BY <1>1, <1>2
<1> HIDE DEF u
<1>4. /\ v \in Seq(Seq(Ids)) /\ Len(v) = Len(gs) - 1
      /\ \A x \in 1 .. Len(gs) - 1 : v[x] = u[from(x)]
  <2>1. v = RemoveAt(u, i)
    BY DEF u
  <2>2. i \in 1 .. Len(u)
    BY <1>3
  <2> QED
    BY ZenonT(30), <1>3, <2>1, <2>2, RemoveAtIs
<1>5. DOMAIN v = 1 .. Len(gs) - 1 /\ i \in 1 .. Len(v) + 1
  <2>1. DOMAIN v = 1 .. Len(v)
    BY <1>4
  <2>2. i \in Int /\ 1 <= i /\ i <= Len(gs) /\ Len(gs) \in Nat
    BY <1>1
  <2>3. Len(v) = Len(gs) - 1
    BY <1>4
  <2> QED
    BY <2>1, <2>2, <2>3
<1>6. \A x \in DOMAIN v : /\ from(x) \in DOMAIN gs /\ from(x) # i /\ (x < i => from(x) < i)
                          /\ \A y \in DOMAIN v : from(x) = from(y) => x = y
  <2> SUFFICES ASSUME NEW x \in DOMAIN v
               PROVE  /\ from(x) \in DOMAIN gs /\ from(x) # i /\ (x < i => from(x) < i)
                      /\ \A y \in DOMAIN v : from(x) = from(y) => x = y
    OBVIOUS
  <2>1. /\ x \in Int /\ 1 <= x /\ x <= Len(gs) - 1 /\ i \in Int /\ 1 <= i /\ i <= Len(gs)
        /\ Len(gs) \in Nat /\ \A y \in DOMAIN v : y \in Int
    BY <1>1, <1>5
  <2>2. from(x) \in Int /\ 1 <= from(x) /\ from(x) <= Len(gs) /\ from(x) # i /\ (x < i => from(x) < i)
    BY SMTT(30), <2>1
  <2>3. ASSUME NEW y \in DOMAIN v, from(x) = from(y) PROVE x = y
    <3>1. y \in Int
      BY <2>1
    <3>2. CASE x < i
      BY <2>1, <2>3, <3>1, <3>2
    <3>3. CASE ~(x < i)
      BY <2>1, <2>3, <3>1, <3>3
    <3> QED
      BY <3>2, <3>3
  <2>4. \A y \in DOMAIN v : from(x) = from(y) => x = y
    BY <2>3
  <2>5. from(x) \in DOMAIN gs
    BY <1>1, <2>2
  <2> QED
    BY <2>2, <2>4, <2>5
<1>7. \A y \in DOMAIN gs : y # i => \E x \in DOMAIN v : from(x) = y
  <2> SUFFICES ASSUME NEW y \in DOMAIN gs, y # i PROVE \E x \in DOMAIN v : from(x) = y
    OBVIOUS
  <2>1. CASE y < i
    <3>1. y \in DOMAIN v /\ from(y) = y
      BY <1>1, <1>5, <2>1
    <3> QED
      BY <3>1
  <2>2. CASE ~(y < i)
    <3>0. y \in Int /\ y <= Len(gs) /\ Len(gs) \in Nat /\ i \in Int /\ 1 <= i /\ i < y
      BY <1>1, <2>2
    <3>1. y - 1 \in DOMAIN v /\ from(y - 1) = y
      BY <1>5, <3>0
    <3> QED
      BY <3>1
  <2> QED
    BY <2>1, <2>2
<1> HIDE DEF from
<1>8. \A x \in DOMAIN v : v[x] = IF from(x) = j THEN gs[j] \o gs[i] ELSE gs[from(x)]
  BY <1>3, <1>4, <1>5, <1>6
<1>9. \A x \in DOMAIN v : Members(v[x]) = IF from(x) = j THEN Members(gs[j]) \cup Members(gs[i])
                                          ELSE Members(gs[from(x)])
  <2> SUFFICES ASSUME NEW x \in DOMAIN v
               PROVE  Members(v[x]) = IF from(x) = j THEN Members(gs[j]) \cup Members(gs[i])
                                      ELSE Members(gs[from(x)])
    OBVIOUS
  <2>1. CASE from(x) = j
    BY <1>2, <1>8, <2>1
  <2>2. CASE from(x) # j
    BY <1>8, <2>2
  <2> QED
    BY <2>1, <2>2
<1>10. \A x \in DOMAIN v : Members(v[x]) \subseteq S /\ Members(v[x]) # {}
  <2>1. \A y \in DOMAIN gs : Members(gs[y]) \subseteq S /\ Members(gs[y]) # {}
    BY DEF Grouped
  <2> SUFFICES ASSUME NEW x \in DOMAIN v PROVE Members(v[x]) \subseteq S /\ Members(v[x]) # {}
    OBVIOUS
  <2>2. CASE from(x) = j
    <3>1. Members(v[x]) = Members(gs[j]) \cup Members(gs[i])
      BY <1>9, <2>2
    <3>2. Members(gs[j]) \subseteq S /\ Members(gs[j]) # {} /\ Members(gs[i]) \subseteq S
      BY <1>1, <2>1
    <3> QED
      BY <3>1, <3>2
  <2>3. CASE from(x) # j
    BY <1>6, <1>9, <2>1, <2>3
  <2> QED
    BY <2>2, <2>3
<1>11. ASSUME NEW m \in S PROVE \E x \in DOMAIN v : m \in Members(v[x])
  <2>1. PICK y \in DOMAIN gs : m \in Members(gs[y])
    BY DEF Grouped
  <2>2. CASE y = i
    <3>1. PICK x \in DOMAIN v : from(x) = j
      BY <1>1, <1>7
    <3>2. Members(v[x]) = Members(gs[j]) \cup Members(gs[i])
      BY <1>9, <3>1
    <3> QED
      BY <2>1, <2>2, <3>2
  <2>3. CASE y # i
    <3>1. PICK x \in DOMAIN v : from(x) = y
      BY <1>7, <2>3
    <3>2. m \in Members(v[x])
      BY <1>9, <2>1, <3>1
    <3> QED
      BY <3>2
  <2> QED
    BY <2>2, <2>3
<1>12. \A x \in DOMAIN v : \A a, b \in DOMAIN v[x] : v[x][a] = v[x][b] => a = b
  <2> SUFFICES ASSUME NEW x \in DOMAIN v
               PROVE  \A a, b \in DOMAIN v[x] : v[x][a] = v[x][b] => a = b
    OBVIOUS
  <2>1. \A y \in DOMAIN gs : \A a, b \in DOMAIN gs[y] : gs[y][a] = gs[y][b] => a = b
    BY DEF Grouped
  <2>2. CASE from(x) = j
    <3>1. v[x] = gs[j] \o gs[i]
      BY <1>8, <2>2
    <3> QED
      BY <1>2, <3>1
  <2>3. CASE from(x) # j
    <3>1. v[x] = gs[from(x)] /\ from(x) \in DOMAIN gs
      BY <1>6, <1>8, <2>3
    <3> QED
      BY <2>1, <3>1
  <2> QED
    BY <2>2, <2>3
<1>13. ASSUME NEW x \in DOMAIN v, NEW y \in DOMAIN v, x # y
       PROVE  Members(v[x]) \cap Members(v[y]) = {}
  <2>1. /\ from(x) \in DOMAIN gs /\ from(y) \in DOMAIN gs /\ from(x) # i /\ from(y) # i
        /\ from(x) # from(y)
    BY <1>6, <1>13
  <2>2. \A k, l \in DOMAIN gs : k # l => Members(gs[k]) \cap Members(gs[l]) = {}
    BY DEF Grouped
  <2>3. CASE from(x) = j
    BY <1>1, <1>9, <2>1, <2>2, <2>3
  <2>4. CASE from(y) = j
    BY <1>1, <1>9, <2>1, <2>2, <2>4
  <2>5. CASE from(x) # j /\ from(y) # j
    BY <1>9, <2>1, <2>2, <2>5
  <2> QED
    BY <2>3, <2>4, <2>5
<1>14. Connected(Members(gs[j]) \cup Members(gs[i]))
  <2>1. Members(gs[i]) \in SUBSET Ids /\ Members(gs[j]) \in SUBSET Ids
    BY <1>1 DEF Grouped
  <2>2. Connected(Members(gs[i])) /\ Connected(Members(gs[j]))
    BY <1>1 DEF Grouped
  <2>3. Connected(Members(gs[i]) \cup Members(gs[j]))
    BY <2>1, <2>2, ConnectedUnion
  <2>4. Members(gs[i]) \cup Members(gs[j]) = Members(gs[j]) \cup Members(gs[i])
    OBVIOUS
  <2> QED
    BY <2>3, <2>4
<1>15. \A x \in DOMAIN v : Connected(Members(v[x]))
  <2>1. \A y \in DOMAIN gs : Connected(Members(gs[y]))
    BY DEF Grouped
  <2> SUFFICES ASSUME NEW x \in DOMAIN v PROVE Connected(Members(v[x]))
    OBVIOUS
  <2>2. CASE from(x) = j
    BY <1>9, <1>14, <2>2
  <2>3. CASE from(x) # j
    BY <1>6, <1>9, <2>1, <2>3
  <2> QED
    BY <2>2, <2>3
<1>16. Apart(v, i)
  <2> SUFFICES ASSUME NEW x \in DOMAIN v, NEW y \in DOMAIN v, x < i, x # y
               PROVE  ~Touching(Members(v[x]), Members(v[y]))
    BY DEF Apart
  <2>1. /\ from(x) \in DOMAIN gs /\ from(y) \in DOMAIN gs /\ from(x) < i
        /\ from(x) # from(y)
    BY <1>6
  <2>2. \A k, l \in DOMAIN gs : k < i /\ k # l => ~Touching(Members(gs[k]), Members(gs[l]))
    BY DEF Apart
  <2>3. from(x) # j /\ from(x) # i
    BY SMTT(30), <1>1, <1>6, <2>1
  <2>4. CASE from(y) = j
    <3>1. /\ ~Touching(Members(gs[from(x)]), Members(gs[i]))
          /\ ~Touching(Members(gs[from(x)]), Members(gs[j]))
      BY <1>1, <2>1, <2>2, <2>3
    <3>2. Members(v[x]) = Members(gs[from(x)]) /\ Members(v[y]) = Members(gs[j]) \cup Members(gs[i])
      BY <1>9, <2>3, <2>4
    <3> QED
      BY <3>1, <3>2 DEF Touching
  <2>5. CASE from(y) # j
    BY <1>9, <2>1, <2>2, <2>3, <2>5
  <2> QED
    BY <2>4, <2>5
<1> QED
  BY <1>4, <1>5, <1>10, <1>11, <1>12, <1>13, <1>15, <1>16 DEF Grouped

LEMMA MergeKeepsGrouped ==
  ASSUME GridConstants, NEW S \in SUBSET Ids, NEW gs, Grouped(gs, S), NEW i \in 1 .. Len(gs), Apart(gs, i)
  PROVE  /\ Grouped(MergeOne(gs, i)[1], S) /\ Apart(MergeOne(gs, i)[1], MergeOne(gs, i)[2])
         /\ MergeOne(gs, i)[2] \in 1 .. Len(MergeOne(gs, i)[1]) + 1
<1> DEFINE later == {j \in i + 1 .. Len(gs) : \E k \in DOMAIN gs[i] : TouchesGroup(gs[j], gs[i][k])}
           least(j) == j \in later /\ \A l \in later : j <= l
<1>1. gs \in Seq(Seq(Ids)) /\ DOMAIN gs = 1 .. Len(gs) /\ Len(gs) \in Nat
  BY DEF Grouped
<1>2. \A j \in i + 1 .. Len(gs) : j \in later <=> Touching(Members(gs[i]), Members(gs[j]))
  BY TouchesIs DEF Touching, Members
<1>3. CASE later = {}
  <2>1. MergeOne(gs, i) = <<gs, i + 1>>
    BY <1>3 DEF MergeOne
  <2>2. Apart(gs, i + 1)
    <3> SUFFICES ASSUME NEW j \in DOMAIN gs, NEW k \in DOMAIN gs, j < i + 1, j # k
                 PROVE  ~Touching(Members(gs[j]), Members(gs[k]))
      BY DEF Apart
    <3>1. CASE j < i
      BY <3>1 DEF Apart
    <3>2. CASE j = i /\ k > i
      <4>1. k \in i + 1 .. Len(gs)
        BY <1>1, <3>2
      <4>2. k \notin later
        BY <1>3
      <4> HIDE DEF later
      <4> QED
        BY <1>2, <3>2, <4>1, <4>2
    <3>3. CASE j = i /\ k < i
      <4>1. ~Touching(Members(gs[k]), Members(gs[j]))
        BY <3>3 DEF Apart
      <4>2. Members(gs[k]) \subseteq Ids /\ Members(gs[j]) \subseteq Ids
        BY DEF Grouped
      <4> QED
        BY <4>1, <4>2, AdjacentBothWays DEF Touching
    <3> QED
      BY <1>1, <3>1, <3>2, <3>3
  <2>3. i + 1 \in 1 .. Len(gs) + 1
    BY <1>1
  <2> QED
    BY <2>1, <2>2, <2>3
<1>4. CASE later # {}
  <2> DEFINE j == CHOOSE x \in later : \A y \in later : x <= y
             v == RemoveAt([gs EXCEPT ![j] = @ \o gs[i]], i)
  <2>1. later \in SUBSET Nat
    BY <1>1
  <2>2. MergeOne(gs, i) = <<v, i>>
    BY <1>4, Zenon DEF MergeOne
  <2> HIDE DEF later
  <2>3. \E x \in later : \A y \in later : x <= y
    BY <1>4, <2>1, LeastExists
  <2>4. j \in later
    BY <2>3, Zenon
  <2> HIDE DEF j
  <2>5. j \in i + 1 .. Len(gs) /\ Touching(Members(gs[i]), Members(gs[j]))
    BY <1>2, <2>4 DEF later
  <2>6. Grouped(v, S) /\ i \in 1 .. Len(v) + 1 /\ Apart(v, i)
    BY <2>5, MergedGroups
  <2> HIDE DEF v
  <2> QED
    BY <2>2, <2>6
<1> QED
  BY <1>3, <1>4

LEMMA AddTyped ==
  ASSUME NEW gs \in Seq(Seq(Ids)), NEW m \in Ids
  PROVE  AddToGroups(gs, m) \in Seq(Seq(Ids))
<1> DEFINE near == {k \in DOMAIN gs : TouchesGroup(gs[k], m)}
           k1 == CHOOSE j \in near : \A l \in near : j <= l
<1>1. <<m>> \in Seq(Ids) /\ Append(gs, <<m>>) \in Seq(Seq(Ids))
  OBVIOUS
<1>2. ASSUME NEW k \in DOMAIN gs PROVE [gs EXCEPT ![k] = Append(@, m)] \in Seq(Seq(Ids))
  <2>1. Append(gs[k], m) \in Seq(Ids)
    OBVIOUS
  <2> QED
    BY <2>1
<1>3. near # {} => k1 \in DOMAIN gs
  <2>1. near \in SUBSET Nat /\ near \subseteq DOMAIN gs
    OBVIOUS
  <2> HIDE DEF near
  <2>2. near # {} => \E x \in near : \A y \in near : x <= y
    BY <2>1, LeastExists
  <2>3. near # {} => k1 \in near
    BY <2>2, Zenon
  <2> QED
    BY <2>1, <2>3
<1>4. AddToGroups(gs, m) = IF energy[m] < MinModuleEnergy THEN gs
                           ELSE IF near = {} THEN Append(gs, <<m>>)
                           ELSE [gs EXCEPT ![k1] = Append(@, m)]
  BY Zenon DEF AddToGroups
<1> HIDE DEF near, k1
<1> QED
  BY <1>1, <1>2, <1>3, <1>4

(* A sequence without repetitions.                                          *)
IsOnce(s) == \A i, j \in DOMAIN s : s[i] = s[j] => i = j

(* fillClusters over all hits.                                              *)
LEMMA FillGrouped ==
  ASSUME GridConstants, energy \in [Ids -> Int], NEW hits \in Seq(Ids), IsOnce(hits)
  PROVE  Grouped(FillGroups(hits), {m \in Members(hits) : energy[m] >= MinModuleEnergy})
<1> DEFINE N == Len(hits)
           A == Seq(Seq(Ids))
           is(f) == f = [k \in 0 .. N |-> IF k = 0 THEN <<>> ELSE AddToGroups(f[k - 1], hits[k])]
           run == CHOOSE f : is(f)
           turn == [k \in 1 .. N |-> [gs \in A |-> AddToGroups(gs, hits[k])]]
           above(k) == {hits[i] : i \in {j \in 1 .. k : energy[hits[j]] >= MinModuleEnergy}}
<1>1. FillGroups(hits) = run[N]
  BY Zenon DEF FillGroups
<1>2. N \in Nat /\ DOMAIN hits = 1 .. N /\ \A k \in 1 .. N : hits[k] \in Ids
  OBVIOUS
<1>3. <<>> \in A
  OBVIOUS
<1>4. turn \in [1 .. N -> [A -> A]]
  BY <1>2, AddTyped
<1>5. \A k \in 1 .. N, gs \in A : turn[k][gs] = AddToGroups(gs, hits[k])
  OBVIOUS
<1> HIDE DEF turn, N, A
<1>6. \E f : is(f)
  <2>0. PICK f : IsRun(f, A, <<>>, N, turn)
    BY <1>2, <1>3, <1>4, LoopRuns
  <2>1. f \in [0 .. N -> A] /\ f[0] = <<>> /\ \A i \in 1 .. N : f[i] = turn[i][f[i - 1]]
    BY <2>0 DEF IsRun
  <2>2. \A k \in 0 .. N : f[k] = IF k = 0 THEN <<>> ELSE AddToGroups(f[k - 1], hits[k])
    <3> SUFFICES ASSUME NEW k \in 0 .. N, k # 0 PROVE f[k] = AddToGroups(f[k - 1], hits[k])
      BY <2>1
    <3>1. k \in 1 .. N /\ k - 1 \in 0 .. N
      BY <1>2
    <3>2. f[k - 1] \in A
      BY <2>1, <3>1
    <3> QED
      BY <1>5, <2>1, <3>1, <3>2
  <2>3. f = [k \in 0 .. N |-> f[k]]
    BY <2>1
  <2> QED
    BY <2>2, <2>3
<1>7. is(run)
  BY <1>6, Zenon
<1>8. run[0] = <<>> /\ \A k \in 1 .. N : run[k] = AddToGroups(run[k - 1], hits[k])
  <2> HIDE DEF run
  <2>1. \A k \in 0 .. N : run[k] = IF k = 0 THEN <<>> ELSE AddToGroups(run[k - 1], hits[k])
    BY <1>7
  <2>2. 0 \in 0 .. N /\ \A k \in 1 .. N : k \in 0 .. N /\ k # 0
    BY <1>2
  <2> QED
    BY <2>1, <2>2
<1> HIDE DEF run, is
<1> DEFINE Good == {k \in Nat : k <= N => Grouped(run[k], above(k))}
<1>9. 0 \in Good
  <2>1. above(0) = {}
    OBVIOUS
  <2>2. <<>> \in Seq(Seq(Ids)) /\ DOMAIN <<>> = {}
    OBVIOUS
  <2>3. Grouped(<<>>, {})
    BY <2>2 DEF Grouped
  <2> HIDE DEF above
  <2> QED
    BY <1>8, <2>1, <2>3
<1>10. ASSUME NEW k \in Good PROVE k + 1 \in Good
  <2>1. SUFFICES ASSUME k + 1 <= N PROVE Grouped(run[k + 1], above(k + 1))
    BY <1>10
  <2>2. k \in Nat /\ k + 1 \in 1 .. N /\ (k + 1) - 1 = k /\ k <= N
    BY <1>2, <2>1
  <2>3. Grouped(run[k], above(k))
    BY <1>10, <2>2
  <2> DEFINE m == hits[k + 1]
  <2>4. m \in Ids /\ m \notin above(k) /\ above(k) \in SUBSET Ids
    <3>1. \A j \in 1 .. k : j \in 1 .. N /\ j # k + 1
      BY <1>2, <2>2
    <3>2. m \in Ids /\ above(k) \in SUBSET Ids
      BY <1>2, <2>2, <3>1
    <3>3. \A j \in 1 .. k : hits[j] # m
      BY <1>2, <2>2, <3>1 DEF IsOnce
    <3> QED
      BY <3>2, <3>3
  <2>5. above(k + 1) = IF energy[m] < MinModuleEnergy THEN above(k) ELSE above(k) \cup {m}
    <3>1. 1 .. k + 1 = (1 .. k) \cup {k + 1}
      BY <2>2
    <3>2. energy[m] \in Int /\ MinModuleEnergy \in Int
      BY <2>4 DEF GridConstants
    <3> QED
      BY <3>1, <3>2
  <2>6. run[k + 1] = AddToGroups(run[k], m)
    BY <1>8, <2>2
  <2> HIDE DEF above, m
  <2>7. Grouped(AddToGroups(run[k], m), IF energy[m] < MinModuleEnergy THEN above(k) ELSE above(k) \cup {m})
    BY <2>3, <2>4, AddKeepsGrouped
  <2> QED
    BY <2>5, <2>6, <2>7
<1>11. Good \in SUBSET Nat
  OBVIOUS
<1>12. N \in Good
  <2> HIDE DEF Good
  <2>1. Good = Nat
    BY <1>9, <1>10, <1>11, SetInduction
  <2> QED
    BY <1>2, <2>1
<1>13. Grouped(run[N], above(N))
  <2> HIDE DEF above
  <2> QED
    BY <1>2, <1>12
<1>14. above(N) = {m \in Members(hits) : energy[m] >= MinModuleEnergy}
  BY <1>2 DEF Members
<1> HIDE DEF above
<1> QED
  BY <1>1, <1>13, <1>14

(* CollectModuleHits lists each module once.                                *)
LEMMA HitsOnce ==
  ASSUME GridConstants, NEW e
  PROVE  HitsOf(e) \in Seq(Ids) /\ IsOnce(HitsOf(e))
<1> DEFINE N == Len(Layout)
           A == Seq(Nat)
           add(s, k) == IF e[k] > 0 THEN Append(s, k) ELSE s
           is(f) == f = [k \in 0 .. N |-> IF k = 0 THEN <<>> ELSE IF e[k] > 0 THEN Append(f[k - 1], k) ELSE f[k - 1]]
           run == CHOOSE f : is(f)
           turn == [k \in 1 .. N |-> [s \in A |-> add(s, k)]]
<1>1. HitsOf(e) = run[N]
  BY Zenon DEF HitsOf
<1>2. N \in Nat /\ Ids = 1 .. N
  BY DEF GridConstants, Ids
<1>3. <<>> \in A
  OBVIOUS
<1>4. turn \in [1 .. N -> [A -> A]]
  <2>1. \A k \in 1 .. N, s \in A : add(s, k) \in A
    BY <1>2
  <2> HIDE DEF add, A
  <2> QED
    BY <2>1
<1>5. \A k \in 1 .. N, s \in A : turn[k][s] = add(s, k)
  OBVIOUS
<1> HIDE DEF turn, A
<1>6. \E f : is(f)
  <2>0. PICK f : IsRun(f, A, <<>>, N, turn)
    BY <1>2, <1>3, <1>4, LoopRuns
  <2>1. f \in [0 .. N -> A] /\ f[0] = <<>> /\ \A i \in 1 .. N : f[i] = turn[i][f[i - 1]]
    BY <2>0 DEF IsRun
  <2>2. \A k \in 0 .. N : f[k] = IF k = 0 THEN <<>> ELSE IF e[k] > 0 THEN Append(f[k - 1], k) ELSE f[k - 1]
    <3> SUFFICES ASSUME NEW k \in 0 .. N, k # 0 PROVE f[k] = add(f[k - 1], k)
      BY <2>1
    <3>1. k \in 1 .. N /\ k - 1 \in 0 .. N
      BY <1>2
    <3>2. f[k - 1] \in A
      BY <2>1, <3>1
    <3> HIDE DEF add
    <3> QED
      BY <1>5, <2>1, <3>1, <3>2
  <2>3. f = [k \in 0 .. N |-> f[k]]
    BY <2>1
  <2> QED
    BY <2>2, <2>3
<1>7. is(run)
  BY <1>6, Zenon
<1>8. run[0] = <<>> /\ \A k \in 1 .. N : run[k] = add(run[k - 1], k)
  <2> HIDE DEF run
  <2>1. \A k \in 0 .. N : run[k] = IF k = 0 THEN <<>> ELSE IF e[k] > 0 THEN Append(run[k - 1], k) ELSE run[k - 1]
    BY <1>7
  <2>2. 0 \in 0 .. N /\ \A k \in 1 .. N : k \in 0 .. N /\ k # 0
    BY <1>2
  <2> QED
    BY <2>1, <2>2
<1> HIDE DEF run, is, N
<1> DEFINE Once(s, k) == s \in Seq(1 .. k) /\ IsOnce(s)
           Good == {k \in Nat : k <= N => Once(run[k], k)}
<1>9. 0 \in Good
  <2>1. Once(<<>>, 0)
    BY DEF IsOnce
  <2> HIDE DEF Once
  <2> QED
    BY <1>8, <2>1
<1>10. ASSUME NEW k \in Good PROVE k + 1 \in Good
  <2> HIDE DEF Once
  <2>1. SUFFICES ASSUME k + 1 <= N PROVE Once(run[k + 1], k + 1)
    BY <1>10
  <2>2. k \in Nat /\ k + 1 \in 1 .. N /\ (k + 1) - 1 = k /\ k <= N
    BY <1>2, <2>1
  <2>3. Once(run[k], k)
    BY <1>10, <2>2
  <2> DEFINE s == run[k]
  <2>4. run[k + 1] = add(s, k + 1)
    BY <1>8, <2>2
  <2> USE DEF Once
  <2>5. s \in Seq(1 .. k) /\ IsOnce(s)
    BY <2>3
  <2> HIDE DEF s
  <2>6. s \in Seq(1 .. k + 1)
    <3>1. \A S, T : S \subseteq T => Seq(S) \subseteq Seq(T)
      OBVIOUS
    <3>2. 1 .. k \subseteq 1 .. k + 1
      BY <2>2
    <3> QED
      BY <2>5, <3>1, <3>2
  <2>7. Append(s, k + 1) \in Seq(1 .. k + 1)
    <3>1. k + 1 \in 1 .. k + 1
      BY <2>2
    <3> QED
      BY <2>6, <3>1
  <2>8. IsOnce(Append(s, k + 1))
    <3>1. /\ DOMAIN Append(s, k + 1) = 1 .. Len(s) + 1 /\ DOMAIN s = 1 .. Len(s) /\ Len(s) \in Nat
          /\ \A i \in 1 .. Len(s) : Append(s, k + 1)[i] = s[i] /\ s[i] \in 1 .. k
          /\ Append(s, k + 1)[Len(s) + 1] = k + 1
      BY <2>5
    <3>2. \A i \in 1 .. Len(s) : s[i] # k + 1
      BY <2>2, <3>1
    <3>3. \A i \in DOMAIN Append(s, k + 1) : i \in 1 .. Len(s) \/ i = Len(s) + 1
      BY <3>1
    <3> DEFINE t == Append(s, k + 1)
    <3> HIDE DEF t
    <3> QED
      BY <2>5, <3>1, <3>2, <3>3 DEF IsOnce, t
  <2> QED
    BY <2>4, <2>5, <2>6, <2>7, <2>8
<1>11. Good \in SUBSET Nat
  OBVIOUS
<1>12. N \in Good
  <2> HIDE DEF Good
  <2>1. Good = Nat
    BY <1>9, <1>10, <1>11, SetInduction
  <2> QED
    BY <1>2, <2>1
<1>13. Once(run[N], N)
  <2> HIDE DEF Once
  <2> QED
    BY <1>2, <1>12
<1> QED
  BY <1>1, <1>2, <1>13

-----------------------------------------------------------------------------
(* What holds while the hits are grouped: every hit above the threshold is  *)
(* in one group, groups are connected, those the loop is done with touch no *)
(* other.                                                                   *)
ClusterInv ==
  /\ energy \in [Ids -> Int] /\ method \in {"Island", "Square"}
  /\ pc = "Island" => module_hits \in Seq(Ids) /\ IsOnce(module_hits)
  /\ pc \in {"Merge", "Split"} =>
       /\ Grouped(groups, AboveThreshold) /\ AboveThreshold \subseteq Ids
       /\ Apart(groups, IF pc = "Merge" THEN it ELSE Len(groups) + 1)
  /\ pc = "Merge" => it \in 1 .. Len(groups) + 1

LEMMA InvAfter ==
  ASSUME energy' \in [Ids -> Int], method' \in {"Island", "Square"},
         pc' = "Island" => module_hits' \in Seq(Ids) /\ IsOnce(module_hits'),
         pc' \in {"Merge", "Split"} =>
           /\ Grouped(groups', AboveThreshold') /\ AboveThreshold' \subseteq Ids
           /\ Apart(groups', IF pc' = "Merge" THEN it' ELSE Len(groups') + 1),
         pc' = "Merge" => it' \in 1 .. Len(groups') + 1
  PROVE  ClusterInv'
<1>1. /\ Ids' = Ids /\ (IsOnce(module_hits') => IsOnce(module_hits)')
      /\ Apart(groups', IF pc' = "Merge" THEN it' ELSE Len(groups') + 1)
           => Apart(groups, IF pc = "Merge" THEN it ELSE Len(groups) + 1)'
  BY DEF Ids, IsOnce, Apart, Touching, Members, Adjacent, Dist2
<1>2. Grouped(groups', AboveThreshold') => Grouped(groups, AboveThreshold)'
  BY <1>1 DEF Grouped, Members, Connected, Whole, Adjacent, Dist2, Ids
<1> QED
  BY <1>1, <1>2 DEF ClusterInv

LEMMA ClusterStep ==
  ASSUME GridConstants, ClusterInv, [ClusterNext]_cluster_vars
  PROVE  ClusterInv'
<1>1. CASE CollectModuleHits
  <2>1. energy' \in [Ids -> Int]
    BY <1>1 DEF CollectModuleHits, GridConstants, Ids
  <2>2. module_hits' \in Seq(Ids) /\ IsOnce(module_hits')
    <3>1. PICK e : e = energy' /\ module_hits' = HitsOf(e)
      BY <1>1 DEF CollectModuleHits
    <3> QED
      BY <3>1, HitsOnce
  <2>3. pc' = method /\ method' = method /\ method \in {"Island", "Square"}
    BY <1>1 DEF CollectModuleHits, ClusterInv
  <2> QED
    BY <2>1, <2>2, <2>3, InvAfter
<1>2. CASE FormGroups
  <2>1. /\ module_hits \in Seq(Ids) /\ IsOnce(module_hits) /\ energy \in [Ids -> Int]
        /\ method \in {"Island", "Square"}
    BY <1>2 DEF FormGroups, ClusterInv
  <2>2. groups' = FillGroups(module_hits) /\ pc' = "Merge" /\ it' = 1
        /\ UNCHANGED <<method, energy, module_hits>>
    BY <1>2 DEF FormGroups
  <2>3. AboveThreshold = {m \in Members(module_hits) : energy[m] >= MinModuleEnergy}
    BY DEF AboveThreshold, Members, ToSet
  <2>4. Grouped(groups', AboveThreshold)
    BY <2>1, <2>2, <2>3, FillGrouped
  <2>5. AboveThreshold' = AboveThreshold /\ AboveThreshold \subseteq Ids
    BY <2>1, <2>2, <2>3 DEF AboveThreshold, Members
  <2>6. Apart(groups', 1) /\ it' \in 1 .. Len(groups') + 1
    <3>1. groups' \in Seq(Seq(Ids))
      BY <2>4 DEF Grouped
    <3> QED
      BY <2>2, <3>1 DEF Apart
  <2> QED
    BY <2>1, <2>2, <2>4, <2>5, <2>6, InvAfter
<1>3. CASE MergeGroups
  <2>1. /\ energy \in [Ids -> Int] /\ method \in {"Island", "Square"} /\ pc = "Merge"
        /\ Grouped(groups, AboveThreshold) /\ AboveThreshold \in SUBSET Ids /\ Apart(groups, it)
        /\ it \in 1 .. Len(groups) + 1
    BY <1>3 DEF MergeGroups, ClusterInv
  <2>2. AboveThreshold' = AboveThreshold /\ energy' = energy /\ method' = method
    BY <1>3 DEF MergeGroups, AboveThreshold
  <2>3. CASE it <= Len(groups)
    <3>1. /\ groups' = MergeOne(groups, it)[1] /\ it' = MergeOne(groups, it)[2] /\ pc' = pc
      BY <1>3, <2>3 DEF MergeGroups
    <3>2. it \in 1 .. Len(groups)
      BY <2>1, <2>3
    <3>3. /\ Grouped(MergeOne(groups, it)[1], AboveThreshold)
          /\ Apart(MergeOne(groups, it)[1], MergeOne(groups, it)[2])
          /\ MergeOne(groups, it)[2] \in 1 .. Len(MergeOne(groups, it)[1]) + 1
      BY <2>1, <3>2, MergeKeepsGrouped
    <3> QED
      BY <2>1, <2>2, <3>1, <3>3, InvAfter
  <2>4. CASE ~(it <= Len(groups))
    <3>1. groups' = groups /\ pc' = "Split"
      BY <1>3, <2>4 DEF MergeGroups
    <3>2. it = Len(groups) + 1
      <4>1. Len(groups) \in Nat
        BY <2>1 DEF Grouped
      <4> QED
        BY <2>1, <2>4, <4>1
    <3> QED
      BY <2>1, <2>2, <3>1, <3>2, InvAfter
  <2> QED
    BY <2>3, <2>4
<1>4. CASE SplitGroups
  <2>1. /\ energy \in [Ids -> Int] /\ method \in {"Island", "Square"} /\ pc = "Split"
        /\ Grouped(groups, AboveThreshold) /\ AboveThreshold \subseteq Ids
        /\ Apart(groups, Len(groups) + 1)
    BY <1>4 DEF SplitGroups, ClusterInv
  <2>2. /\ AboveThreshold' = AboveThreshold /\ energy' = energy /\ method' = method
        /\ groups' = groups /\ (pc' = pc \/ pc' = "Clusters")
    BY <1>4 DEF SplitGroups, AboveThreshold
  <2> QED
    BY <2>1, <2>2, InvAfter
<1>5. CASE FormSquares \/ ReconstructCluster \/ CorrectCluster \/ ResetDetector
  <2>1. energy \in [Ids -> Int] /\ method \in {"Island", "Square"}
    BY DEF ClusterInv
  <2>2. /\ energy' = energy /\ method' = method
        /\ pc' = pc \/ pc' \in {"Clusters", "Done", "Corrected", "Idle"}
        /\ pc \notin {"Island", "Merge", "Split"}
    BY <1>5 DEF FormSquares, ReconstructCluster, CorrectCluster, ResetDetector
  <2> QED
    BY <2>1, <2>2, InvAfter
<1>6. CASE UNCHANGED cluster_vars
  <2>1. /\ AboveThreshold' = AboveThreshold /\ energy' = energy /\ method' = method /\ pc' = pc
        /\ groups' = groups /\ module_hits' = module_hits /\ it' = it
    BY <1>6 DEF cluster_vars, AboveThreshold
  <2> QED
    BY <2>1, InvAfter DEF ClusterInv
<1> QED
  BY <1>1, <1>2, <1>3, <1>4, <1>5, <1>6 DEF ClusterNext

(* Groups that share out the hits, are connected and do not touch are the   *)
(* islands.                                                                 *)
LEMMA ApartAreIslands ==
  ASSUME GridConstants, NEW gs, NEW S \in SUBSET Ids, Grouped(gs, S), Apart(gs, Len(gs) + 1)
  PROVE  {Members(gs[k]) : k \in DOMAIN gs} =
           {C \in SUBSET S : Whole(S, C) /\ \A D \in SUBSET C : Whole(S, D) => D = C}
<1>1. /\ \A k \in DOMAIN gs : Members(gs[k]) \subseteq S /\ Members(gs[k]) # {}
      /\ \A m \in S : \E k \in DOMAIN gs : m \in Members(gs[k])
      /\ \A k \in DOMAIN gs : Connected(Members(gs[k]))
  BY DEF Grouped
<1>2. ASSUME NEW k \in DOMAIN gs, NEW m \in Members(gs[k]), NEW o \in S, Adjacent(m, o)
      PROVE  o \in Members(gs[k])
  <2>1. PICK j \in DOMAIN gs : o \in Members(gs[j])
    BY <1>1
  <2>2. DOMAIN gs = 1 .. Len(gs) /\ Len(gs) \in Nat
    BY DEF Grouped
  <2>3. k < Len(gs) + 1
    BY <2>2
  <2>4. Touching(Members(gs[k]), Members(gs[j]))
    BY <1>2, <2>1 DEF Touching
  <2>5. k = j
    BY <2>3, <2>4 DEF Apart
  <2> QED
    BY <2>1, <2>5
<1>3. ASSUME NEW k \in DOMAIN gs PROVE Whole(S, Members(gs[k]))
  BY <1>1, <1>2 DEF Whole
<1>4. ASSUME NEW k \in DOMAIN gs, NEW D \in SUBSET Members(gs[k]), Whole(S, D)
      PROVE  D = Members(gs[k])
  <2>1. Whole(Members(gs[k]), D)
    BY <1>1, <1>4 DEF Whole
  <2> QED
    BY <1>1, <2>1 DEF Connected
<1>5. ASSUME NEW C \in SUBSET S, Whole(S, C), \A D \in SUBSET C : Whole(S, D) => D = C
      PROVE  \E k \in DOMAIN gs : C = Members(gs[k])
  <2>1. PICK m : m \in C
    BY <1>5 DEF Whole
  <2>2. PICK k \in DOMAIN gs : m \in Members(gs[k])
    BY <1>1, <2>1
  <2> DEFINE G == Members(gs[k])
  <2>3. Whole(S, C \cap G)
    BY <1>2, <1>5, <2>1, <2>2 DEF Whole
  <2>4. C \cap G = C
    BY <1>5, <2>3
  <2>5. C \in SUBSET G
    BY <2>4
  <2>6. C = G
    BY <1>4, <1>5, <2>5
  <2> QED
    BY <2>6
<1> QED
  BY <1>1, <1>3, <1>4, <1>5

(* When the merge loop ends the groups are the connected parts of the hits  *)
(* above the threshold, each once, with each hit once (groupHits).          *)
THEOREM GroupsAreIslands == GridConstants /\ ClusterSpec => []IslandsAreComponents
<1>1. GridConstants /\ ClusterInit => GridConstants /\ ClusterInv
  BY DEF ClusterInit, ClusterInv
<1>2. GridConstants /\ ClusterInv /\ [ClusterNext]_cluster_vars => (GridConstants /\ ClusterInv)'
  BY ClusterStep DEF GridConstants
<1>3. ASSUME GridConstants, ClusterInv PROVE IslandsAreComponents
  <2> SUFFICES ASSUME pc = "Split"
               PROVE  /\ {ToSet(groups[k]) : k \in DOMAIN groups} = Islands
                      /\ \A k \in DOMAIN groups : IsInjective(groups[k])
                      /\ \A j, k \in DOMAIN groups : ToSet(groups[j]) = ToSet(groups[k]) => j = k
    BY DEF IslandsAreComponents
  <2>1. /\ Grouped(groups, AboveThreshold) /\ AboveThreshold \in SUBSET Ids
        /\ Apart(groups, Len(groups) + 1)
    BY <1>3 DEF ClusterInv
  <2>2. {Members(groups[k]) : k \in DOMAIN groups} = Islands
    BY <1>3, <2>1, ApartAreIslands DEF Islands
  <2>3. \A s : ToSet(s) = Members(s)
    BY DEF ToSet, Members
  <2>4. \A k \in DOMAIN groups : IsInjective(groups[k])
    BY <2>1 DEF IsInjective, Grouped
  <2>5. \A j, k \in DOMAIN groups : Members(groups[j]) = Members(groups[k]) => j = k
    <3>1. /\ \A j, k \in DOMAIN groups : j # k => Members(groups[j]) \cap Members(groups[k]) = {}
          /\ \A k \in DOMAIN groups : Members(groups[k]) # {}
      BY <2>1 DEF Grouped
    <3> QED
      BY <3>1
  <2> QED
    BY <2>2, <2>3, <2>4, <2>5
<1> QED
  BY <1>1, <1>2, <1>3, PTL DEF ClusterSpec
=============================================================================
