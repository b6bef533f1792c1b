----------------------------- MODULE EventView -----------------------------
(* What the viewer shows: the event spin box over the data bank, the event  *)
(* whose values are in the channels, reconstruction and its marks, the      *)
(* cluster spin box, and the scene painted by the last refresh.             *)
(*                                                                          *)
(* Slots run one after the other on the GUI thread and call one another     *)
(* through signals, so a handler is an operator from a state of the viewer  *)
(* to the next one.  While a dialog is open only timers and watchers run.   *)
(* Constants that a file changes and the high voltage are not shown here.   *)
EXTENDS Integers, Sequences, Functions

CONSTANTS Files,        \* what opening files appends: sequences of events
          OnlineEvents, \* events that ET delivers
          Clusters,     \* by physics event: how many clusters it has
          Modes,        \* view modes; "Energy" is EnergyView
          NoEvent       \* no event

Events == OnlineEvents \cup UNION {Range(f) : f \in Files}

ASSUME ViewAssumption == /\ Clusters \in [DOMAIN Clusters -> Nat]
                         /\ Files \subseteq Seq(Events)

VARIABLES view,    \* the record below
          online,  \* "off", "connecting" or "on"
          dialog   \* the reconstruction settings are open

view_vars == <<view, online, dialog>>

IsPhysics(e) == e \in DOMAIN Clusters
CountOf(e)   == IF IsPhysics(e) THEN Clusters[e] ELSE 0

(* bank: event_data.  spin, cluster: values of the spin boxes, their ranges *)
(* ending at last and clusters.  event: what ChooseEvent put into the       *)
(* channels.  module_clusters: the event they are of.  marks: the events of *)
(* the hit marks.  enabled: the check box of the marks.  scene: what was    *)
(* painted.  failed: a cluster was asked for that does not exist.           *)
EmptyView == [bank |-> <<>>, spin |-> 0, last |-> 0, cluster |-> 0, clusters |-> 0,
             event |-> NoEvent, module_clusters |-> NoEvent, marks |-> {}, enabled |-> FALSE,
             mode |-> "Energy", scene |-> [mode |-> "Energy", of |-> NoEvent, cluster |-> 0],
             failed |-> FALSE]

-----------------------------------------------------------------------------
(* Refresh: modules get the color of the event's values, or of one cluster. *)
(* ShowCluster(index) goes on with at(index) when there is no such cluster. *)
Scene(v) ==
  IF v.mode = "Energy" /\ v.cluster > 0
  THEN [mode |-> v.mode, of |-> v.module_clusters, cluster |-> v.cluster]
  ELSE [mode |-> v.mode, of |-> v.event, cluster |-> 0]

Refresh(v) ==
  IF v.mode = "Energy" /\ v.cluster > CountOf(v.module_clusters)
  THEN [v EXCEPT !.failed = TRUE]
  ELSE [v EXCEPT !.scene = Scene(v)]

(* setRange of the cluster spin box: a value that changes refreshes. *)
SetClusterRange(v, n) ==
  IF v.cluster > n THEN Refresh([v EXCEPT !.clusters = n, !.cluster = n])
                   ELSE [v EXCEPT !.clusters = n]

ChooseEvent(v, e) == [v EXCEPT !.event = e]

(* showReconEvent: reconstruction, marks, and the new range of clusters. *)
ShowReconEvent(v) ==
  IF v.bank = <<>> THEN v
  ELSE SetClusterRange([v EXCEPT !.module_clusters = v.event, !.marks = @ \cup {v.event}],
                       CountOf(v.event))

(* handleEventChange *)
HandleEventChange(v, evt) ==
  LET e      == v.bank[IF evt <= Len(v.bank) THEN evt ELSE Len(v.bank)]
      chosen == SetClusterRange(ChooseEvent(v, e), 0)
      recon  == IF ~v.enabled THEN chosen
                ELSE IF IsPhysics(e) THEN ShowReconEvent([chosen EXCEPT !.marks = {}])
                ELSE [chosen EXCEPT !.marks = {}]
  IN  IF evt < 1 THEN Refresh(v) ELSE IF v.bank = <<>> THEN v ELSE Refresh(recon)

(* setValue and setRange of the event spin box. *)
SetSpin(v, k) ==
  LET least == IF v.last = 0 THEN 0 ELSE 1
      value == IF k > v.last THEN v.last ELSE IF k < least THEN least ELSE k
  IN  IF value = v.spin THEN v ELSE HandleEventChange([v EXCEPT !.spin = value], value)

UpdateEventRange(v) ==
  LET w == SetSpin([v EXCEPT !.last = Len(v.bank)], v.spin)
  IN  HandleEventChange(w, w.spin)

(* handler->Clear: the bank and the values of the channels. *)
Clear(v) == [v EXCEPT !.bank = <<>>, !.event = NoEvent]

EraseData(v) == UpdateEventRange(Clear(v))

(* openDataFile, after its dialog. *)
Opened(v, events) == UpdateEventRange([EraseData(v) EXCEPT !.bank = events])

\* Mutant of Started: the buffer is not erased.
StartedKept(v) == Refresh(v)

(* startOnlineMode when the client is attached. *)
Started(v) == Refresh(EraseData(v))

\* Mutant of Updated: the event is chosen, nothing is painted.
UpdatedUnseen(v, e) == ChooseEvent([v EXCEPT !.bank = Append(IF @ = <<>> THEN @ ELSE Tail(@), e)], e)

(* onlineUpdate with one or more events, of which the bank keeps the last. *)
Updated(v, e) ==
  LET w == [v EXCEPT !.bank = Append(IF @ = <<>> THEN @ ELSE Tail(@), e)]
  IN  Refresh(ChooseEvent(w, w.bank[1]))

-----------------------------------------------------------------------------
ViewInit == view = EmptyView /\ online = "off" /\ dialog = FALSE

Slot == ~dialog /\ UNCHANGED <<online, dialog>>

OpenDataFile ==
  /\ Slot /\ online = "off"
  /\ \E f \in Files : view' = Opened(view, f)

(* The event spin box is off while online mode is on or starting. *)
ChangeCurrentEvent ==
  /\ Slot /\ online = "off"
  /\ \E k \in 1 .. view.last : view' = SetSpin(view, k)

(* findEvent, when the event is found. *)
FindEvent ==
  /\ Slot
  /\ \E k \in DOMAIN view.bank : view' = SetSpin(view, k)

ChangeCluster ==
  /\ Slot
  /\ \E k \in 0 .. view.clusters :
       k # view.cluster /\ view' = Refresh([view EXCEPT !.cluster = k])

ChangeViewMode ==
  /\ Slot
  /\ \E m \in Modes : view' = Refresh([view EXCEPT !.mode = m])

(* eraseBufferAction; initializeFromFile clears and updates alike. *)
Erase == Slot /\ view' = EraseData(view)

(* fitPedestal and correctGainFactor show the current event again. *)
Recalibrate == Slot /\ view' = HandleEventChange(view, view.spin)

InitOnlineMode ==
  /\ ~dialog /\ online = "off" /\ online' = "connecting"
  /\ UNCHANGED <<view, dialog>>

(* The watcher's signal; it comes even while a dialog is open. *)
StartOnlineMode ==
  /\ online = "connecting"
  /\ \/ online' = "on" /\ view' = Started(view)
     \/ online' = "off" /\ UNCHANGED view
  /\ UNCHANGED dialog

(* The timer's signal; it comes even while a dialog is open. *)
OnlineUpdate ==
  /\ online = "on"
  /\ \E e \in OnlineEvents : view' = Updated(view, e)
  /\ UNCHANGED <<online, dialog>>

StopOnlineMode ==
  /\ ~dialog /\ online = "on"
  /\ online' = "off" /\ view' = Refresh(view)
  /\ UNCHANGED dialog

SetupReconMethods ==
  /\ ~dialog /\ dialog' = TRUE
  /\ UNCHANGED <<view, online>>

(* The check box is used by itself, whatever the dialog's answer will be. *)
ToggleMarks ==
  /\ dialog
  /\ view' = [view EXCEPT !.enabled = ~@]
  /\ UNCHANGED <<online, dialog>>

Accept ==
  /\ dialog /\ dialog' = FALSE
  /\ view' = HandleEventChange(view, view.spin)
  /\ UNCHANGED online

Cancel ==
  /\ dialog /\ dialog' = FALSE
  /\ UNCHANGED <<view, online>>

ViewNext == \/ OpenDataFile \/ ChangeCurrentEvent \/ FindEvent \/ ChangeCluster
        \/ ChangeViewMode \/ Erase \/ Recalibrate \/ InitOnlineMode
        \/ StartOnlineMode \/ OnlineUpdate \/ StopOnlineMode
        \/ SetupReconMethods \/ ToggleMarks \/ Accept \/ Cancel

ViewSpec == ViewInit /\ [][ViewNext]_view_vars

-----------------------------------------------------------------------------
(* A cluster that the spin box names exists when the scene is painted:      *)
(* ShowCluster would otherwise throw out of a slot and end the program.     *)
(* Erasing data, online mode and switching the marks off leave the box and  *)
(* the clusters as they are.                                                *)
ClusterExists == ~view.failed

(* Whatever happened, refreshing would paint what is painted, and a cluster *)
(* that exists: no slot changes the mode, the event, the clusters or the    *)
(* box and leaves the old picture.                                          *)
SceneFresh == ClusterExists /\ Refresh(view).scene = view.scene

(* The event in the channels is the one the spin box names, across files,   *)
(* erasing, online mode and its end.                                        *)
EventOfSpin == view.spin > 0 => view.spin <= Len(view.bank) /\ view.event = view.bank[view.spin]

=============================================================================
