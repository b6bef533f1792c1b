---------------------------- MODULE HyCalWiring ----------------------------
(* How PRadHyCalSystem, its detector, modules, ADC channels and TDC groups  *)
(* hold each other, and what is read of an event through those links.       *)
(*                                                                          *)
(*   system <-> detector <-> modules <-> ADC channels <-> TDC groups        *)
(*                                                                          *)
(* Each arrow is two pointers, one on either side.  Copies and moves, gain  *)
(* factors and histograms are left out; so are DisconnectDetector and       *)
(* DisconnectModule called from outside a destructor, which nothing does.   *)
EXTENDS Naturals, Sequences, FiniteSets, SequencesExt

CONSTANTS Dets, Mods, ADCs, TDCs,  \* objects
          NameOf,    \* the name of a module, a channel or a group
          AddrOf,    \* the crate, slot and channel of an ADC or a TDC
          GroupOf,   \* the name of the group an ADC is listed with, or null
          ChannelLists,  \* pairs of groups and channels, as a file lists them
          RunInfos,      \* pairs: the channels listed, those marked dead
          HitSets,   \* sets of channel ids: the hits of an event
          ClusterMethods,
          null       \* none of these objects and methods

(* The objects are of one kind each, and a detector has finitely many       *)
(* modules.                                                                 *)
ObjectKinds ==
  /\ Dets \cap (Mods \cup ADCs \cup TDCs) = {} /\ Mods \cap (ADCs \cup TDCs) = {}
  /\ ADCs \cap TDCs = {} /\ null \notin Dets \cup Mods \cup ADCs \cup TDCs \cup ClusterMethods
  /\ IsFiniteSet(Mods)
  /\ ChannelLists \subseteq Seq(TDCs) \X Seq(ADCs)

VARIABLES hycal, system,         \* the system's detector; those that know it
          modules, detector,     \* module_list with id_map, name_map; detector
          daq_ch, module,        \* a module's channel; a channel's module
          adc_list, tdc_list,    \* with the maps of names and addresses
          group_map, tdc_group,  \* a group's channels by id; a channel's group
          alive,                 \* the objects that exist
          ch_dead, dead_hits,    \* channels marked dead; modules to correct for
          adc_value,             \* the channels with a signal
          recon_hits,            \* what the last reconstruction worked on
          recon_map, recon,      \* the registered methods and the one in use
          gone                   \* the system has been destroyed

links == <<hycal, system, modules, detector, daq_ch, module, adc_list,
           tdc_list, group_map, tdc_group, alive>>
event == <<adc_value, recon_hits>>
wiring_vars == <<links, ch_dead, dead_hits, event, recon_map, recon, gone>>

(* The links as one value, for the functions that call one another. *)
W == [hycal |-> hycal, system |-> system, modules |-> modules, detector |-> detector,
      daq_ch |-> daq_ch, module |-> module, adc_list |-> adc_list,
      tdc_list |-> tdc_list, group_map |-> group_map, tdc_group |-> tdc_group,
      alive |-> alive]

Becomes(w) ==
  /\ hycal' = w.hycal /\ system' = w.system
  /\ modules' = w.modules /\ detector' = w.detector
  /\ daq_ch' = w.daq_ch /\ module' = w.module
  /\ adc_list' = w.adc_list /\ tdc_list' = w.tdc_list
  /\ group_map' = w.group_map /\ tdc_group' = w.tdc_group /\ alive' = w.alive

Cut(f, S)  == [x \in DOMAIN f |-> IF x \in S THEN null ELSE f[x]]
IdsOf(w, a) == {i \in DOMAIN w.adc_list : w.adc_list[i] = a}
Named(S, n) == {o \in S : NameOf[o] = n}

-----------------------------------------------------------------------------
(* UnsetModule, UnsetChannel, UnsetTDC, UnsetDetector: each side has the    *)
(* other forget it before it forgets the other.                             *)
UnsetModule(w, A) ==
  [w EXCEPT !.daq_ch = Cut(@, {w.module[a] : a \in A}), !.module = Cut(@, A)]

\* Mutant of UnsetChannel: as with force_unset
UnsetChannelForced(w, M) == [w EXCEPT !.daq_ch = Cut(@, M)]

UnsetChannel(w, M) ==
  [w EXCEPT !.module = Cut(@, {w.daq_ch[m] : m \in M}), !.daq_ch = Cut(@, M)]

UnsetTDC(w, A) ==
  [w EXCEPT !.group_map = [t \in TDCs |->
                LET gone_ids == UNION {IdsOf(w, a) : a \in {b \in A : w.tdc_group[b] = t}}
                IN  [i \in DOMAIN w.group_map[t] \ gone_ids |-> w.group_map[t][i]]],
            !.tdc_group = Cut(@, A)]

UnsetDetector(w, M) ==
  [w EXCEPT !.modules = [d \in Dets |-> @[d] \ {m \in M : w.detector[m] = d}],
            !.detector = Cut(@, M)]

(* DisconnectDetector drops whatever detector the system has. *)
UnsetSystem(w, d) ==
  IF d \notin w.system THEN w
  ELSE [w EXCEPT !.system = @ \ {w.hycal, d}, !.hycal = null]

-----------------------------------------------------------------------------
(* The destructors. *)

\* Mutant of DeleteModules: the channels are not told.
DeleteModulesOnly(w, M) == [UnsetDetector(w, M) EXCEPT !.alive = @ \ M]

DeleteModules(w, M) ==
  [UnsetChannel(UnsetDetector(w, M), M) EXCEPT !.alive = @ \ M]

DeleteDetector(w, d) ==
  LET M == w.modules[d]
      u == [UnsetSystem(w, d) EXCEPT !.detector = Cut(@, M)]
  IN  [DeleteModules(u, M) EXCEPT !.alive = @ \ {d}, !.modules[d] = {}]

DeleteADCs(w, A) == [UnsetModule(UnsetTDC(w, A), A) EXCEPT !.alive = @ \ A]

DeleteTDCs(w, T) ==
  [w EXCEPT !.tdc_group = [a \in ADCs |-> IF @[a] \in T THEN null ELSE @[a]],
            !.group_map = [t \in TDCs |-> IF t \in T THEN <<>> ELSE @[t]],
            !.alive = @ \ T]

ClearADCChannel(w) == [DeleteADCs(w, ToSet(w.adc_list)) EXCEPT !.adc_list = <<>>]
ClearTDCChannel(w) == [DeleteTDCs(w, w.tdc_list) EXCEPT !.tdc_list = {}]

RemoveDetectorOf(w) == IF w.hycal = null THEN w
  ELSE [DeleteDetector([w EXCEPT !.system = @ \ {w.hycal}], w.hycal) EXCEPT !.hycal = null]

-----------------------------------------------------------------------------
Nowhere(S) == [x \in S |-> null]

(* The constructor makes a detector and registers two methods. *)
WiringInit == /\ hycal \in Dets /\ system = {hycal} /\ alive = {hycal}
        /\ modules = [d \in Dets |-> {}] /\ detector = Nowhere(Mods)
        /\ daq_ch = Nowhere(Mods) /\ module = Nowhere(ADCs)
        /\ adc_list = <<>> /\ tdc_list = {}
        /\ group_map = [t \in TDCs |-> <<>>] /\ tdc_group = Nowhere(ADCs)
        /\ ch_dead = {} /\ dead_hits = [d \in Dets |-> {}]
        /\ adc_value = {} /\ recon_hits = {}
        /\ recon_map = ClusterMethods /\ recon \in ClusterMethods
        /\ gone = FALSE

(* The channel of a module's name, if there is one, becomes its channel. *)
Connect(w, m) ==
  LET A == Named(ToSet(w.adc_list), NameOf[m])
      SetModule(u, a)  == IF u.module[a] = m THEN u
                          ELSE [UnsetModule(u, {a}) EXCEPT !.module[a] = m]
      SetChannel(u, a) == IF u.daq_ch[m] = a THEN u
                          ELSE [UnsetChannel(u, {m}) EXCEPT !.daq_ch[m] = a]
  IN  IF A = {} THEN w
      ELSE LET a == CHOOSE b \in A : TRUE IN SetChannel(SetModule(w, a), a)

BuildConnections(w) ==
  LET list == SetToSeq(w.modules[w.hycal])
      After[k \in 0 .. Len(list)] == IF k = 0 THEN w ELSE Connect(After[k - 1], list[k])
  IN  IF w.hycal = null THEN w ELSE After[Len(list)]

(* M: the modules the file lists, less those AddModule refuses for a name   *)
(* that is taken.  The old modules are deleted first.                       *)
ReadModuleList(M) ==
  /\ hycal # null /\ M \cap alive = {}
  /\ \A m, n \in M : NameOf[m] = NameOf[n] => m = n
  /\ Becomes(LET old == modules[hycal]
                 u == DeleteModules([W EXCEPT !.detector = Cut(@, old)], old)
             IN  [u EXCEPT !.modules[hycal] = M, !.alive = @ \cup M,
                           !.detector = [m \in Mods |-> IF m \in M THEN hycal ELSE @[m]]])
  /\ UNCHANGED <<ch_dead, dead_hits, event, recon_map, recon, gone>>

RemoveModule(m) ==
  /\ hycal # null /\ m \in modules[hycal]
  /\ Becomes(DeleteModules([W EXCEPT !.detector[m] = null, !.modules[hycal] = @ \ {m}], {m}))
  /\ UNCHANGED <<ch_dead, dead_hits, event, recon_map, recon, gone>>

(* A channel with the name or the address of another is refused. *)
Taken(S, o) == \E p \in S : NameOf[p] = NameOf[o] \/ AddrOf[p] = AddrOf[o]

AddTDCChannel(w, t) == IF Taken(w.tdc_list, t) THEN w
  ELSE [w EXCEPT !.tdc_list = @ \cup {t}, !.alive = @ \cup {t}]

ConnectChannel(w, t, a) ==
  LET id == Len(w.adc_list)
  IN  IF id \in DOMAIN w.group_map[t] THEN w
      ELSE [UnsetTDC(w, {a}) EXCEPT
              !.group_map[t] = [i \in DOMAIN @ \cup {id} |-> IF i = id THEN a ELSE @[i]],
              !.tdc_group[a] = t]

AddADCChannel(w, a) ==
  IF Taken(ToSet(w.adc_list), a) THEN w
  ELSE LET u == [w EXCEPT !.adc_list = Append(@, a), !.alive = @ \cup {a}]
           T == Named(u.tdc_list, GroupOf[a])
       IN  IF T = {} THEN u ELSE ConnectChannel(u, CHOOSE t \in T : TRUE, a)

AddTDCChannels(w, T) ==
  LET After[k \in 0 .. Len(T)] == IF k = 0 THEN w ELSE AddTDCChannel(After[k - 1], T[k])
  IN  After[Len(T)]

AddADCChannels(w, A) ==
  LET After[k \in 0 .. Len(A)] == IF k = 0 THEN w ELSE AddADCChannel(After[k - 1], A[k])
  IN  After[Len(A)]

(* T and A: the groups and channels of the file, in the order listed.  One  *)
(* that is there already is listed again, and refused.                      *)
ReadChannelList(T, A) ==
  /\ Becomes(BuildConnections(AddADCChannels(AddTDCChannels(W, T), A)))
  /\ UNCHANGED <<ch_dead, dead_hits, event, recon_map, recon, gone>>

(* The modules without a channel, or whose channel is marked dead, are what *)
(* leakage is corrected for.                                                *)
CreateDeadHits(D) ==
  IF hycal = null THEN dead_hits
  ELSE [dead_hits EXCEPT ![hycal] =
          {m \in modules[hycal] : daq_ch[m] = null \/ daq_ch[m] \in D}]

(* A channel that the file does not list keeps its mark. *)
ReadRunInfoFile(listed, bad) ==
  /\ ch_dead' = (ch_dead \ listed) \cup (bad \cap ToSet(adc_list))
  /\ dead_hits' = CreateDeadHits(ch_dead')
  /\ UNCHANGED <<links, event, recon_map, recon, gone>>

(* A detector the caller has made takes the place of the present one. *)
SetDetector(d) ==
  /\ d \notin alive
  /\ Becomes([RemoveDetectorOf(W) EXCEPT !.hycal = d, !.system = @ \cup {d},
                                         !.alive = @ \cup {d}])
  /\ dead_hits' = [dead_hits EXCEPT ![d] = {}]
  /\ UNCHANGED <<ch_dead, event, recon_map, recon, gone>>

RemoveDetector ==
  /\ hycal # null
  /\ Becomes(RemoveDetectorOf(W))
  /\ UNCHANGED <<ch_dead, dead_hits, event, recon_map, recon, gone>>

(* The owner of a scene deletes it under the system. *)
DetectorDeleted ==
  /\ hycal # null
  /\ Becomes(DeleteDetector(W, hycal))
  /\ UNCHANGED <<ch_dead, dead_hits, event, recon_map, recon, gone>>

-----------------------------------------------------------------------------
(* Events hold channel ids; an id beyond the list is ignored. *)
Channels(E) == {adc_list[i] : i \in E \cap DOMAIN adc_list}

ChooseHits(E) == /\ adc_value' = Channels(E)
                 /\ UNCHANGED <<links, ch_dead, dead_hits, recon_hits, recon_map, recon, gone>>

(* FormCluster and the rest of the reconstruction work on these hits. *)
ReconstructEvent(E) ==
  /\ hycal # null /\ recon # null
  /\ recon_hits' = {module[a] : a \in Channels(E)} \ {null}
  /\ UNCHANGED <<links, ch_dead, dead_hits, adc_value, recon_map, recon, gone>>

Reconstruct ==
  /\ hycal # null /\ recon # null
  /\ recon_hits' = {m \in modules[hycal] : daq_ch[m] \in adc_value}
  /\ UNCHANGED <<links, ch_dead, dead_hits, adc_value, recon_map, recon, gone>>

-----------------------------------------------------------------------------
(* The first method registered is the one in use until another is set; when *)
(* it is removed none is.                                                   *)
AddClusterMethod(c) ==
  /\ recon' = IF recon_map = {} THEN c ELSE recon
  /\ recon_map' = recon_map \cup {c}
  /\ UNCHANGED <<links, ch_dead, dead_hits, event, gone>>

RemoveClusterMethod(c) ==
  /\ c \in recon_map
  /\ recon' = IF recon = c THEN null ELSE recon
  /\ recon_map' = recon_map \ {c}
  /\ UNCHANGED <<links, ch_dead, dead_hits, event, gone>>

SetClusterMethod(c) ==
  /\ c \in recon_map /\ recon' = c
  /\ UNCHANGED <<links, ch_dead, dead_hits, event, recon_map, gone>>

(* The detector goes first, then the channels, the groups, the methods. *)
DestroySystem ==
  /\ gone' = TRUE
  /\ Becomes(LET u == IF hycal = null THEN W ELSE DeleteDetector(W, hycal)
             IN  ClearTDCChannel(ClearADCChannel(u)))
  /\ recon_map' = {} /\ recon' = null /\ adc_value' = {}
  /\ UNCHANGED <<ch_dead, dead_hits, recon_hits>>

Configure ==
  \/ \E M \in SUBSET Mods : ReadModuleList(M)
  \/ \E f \in ChannelLists : ReadChannelList(f[1], f[2])
  \/ \E f \in RunInfos : ReadRunInfoFile(f[1], f[2])

Analyse == \/ \E E \in HitSets : ChooseHits(E) \/ ReconstructEvent(E)
           \/ Reconstruct

Change == \/ \E m \in Mods : RemoveModule(m)
          \/ \E d \in Dets : SetDetector(d)
          \/ RemoveDetector
          \/ DetectorDeleted
          \/ \E c \in ClusterMethods : \/ AddClusterMethod(c) \/ RemoveClusterMethod(c)
                                \/ SetClusterMethod(c)

WiringNext == ~gone /\ (Configure \/ Analyse \/ Change \/ DestroySystem)

WiringSpec == WiringInit /\ [][WiringNext]_wiring_vars

-----------------------------------------------------------------------------
(* PRadHyCalDetector::Reconstruct looks the center of each cluster up in    *)
(* the detector and uses it without a check.                                *)
CentersExist ==
  \A a \in ToSet(adc_list) : module[a] # null =>
     hycal # null /\ module[a] \in modules[hycal]

(* The two sides of every link agree, whatever was reloaded, replaced or    *)
(* deleted before (SetModule with SetChannel, ConnectChannel, Unset...),    *)
(* and every module that a channel of the system leads to is one of the     *)
(* detector's, so that reconstruction finds it there.                       *)
LinksAgree ==
  /\ system = {hycal} \ {null}
  /\ \A d \in Dets, m \in Mods : m \in modules[d] <=> detector[m] = d
  /\ \A m \in Mods, a \in ADCs : daq_ch[m] = a <=> module[a] = m
  /\ \A t \in TDCs, a \in ADCs :
       tdc_group[a] = t <=> \E i \in DOMAIN group_map[t] :
                              group_map[t][i] = a /\ adc_list[i] = a
  /\ CentersExist

(* Nothing that exists points to something deleted, and the method in use   *)
(* is one that is registered, at every moment and when the system is gone.  *)
NothingDangling ==
  LET live(o) == o = null \/ o \in alive
  IN  /\ live(hycal)
      /\ \A d \in Dets \cap alive : modules[d] \subseteq alive
      /\ \A m \in Mods \cap alive : live(detector[m]) /\ live(daq_ch[m])
      /\ \A a \in ADCs \cap alive : live(module[a]) /\ live(tdc_group[a])
      /\ \A t \in TDCs \cap alive : \A i \in DOMAIN group_map[t] : live(group_map[t][i])
      /\ ToSet(adc_list) \cup tdc_list \subseteq alive
      /\ recon = null \/ recon \in recon_map
=============================================================================
