---------------------------- MODULE ViewerProofs ----------------------------
(* The searches of EventSearch, for banks of any length, and EventView:     *)
(* what is painted is what is chosen, for any files, events, numbers of     *)
(* clusters and modes; and Dialogs: what they show is what is used.         *)
EXTENDS EventSearch, EventView, Dialogs, FiniteSetTheorems, WellFoundedInduction, TLAPS

(* The middle lies in the interval, and at its end only when it is empty.  *)
LEMMA MidBetween ==
  ASSUME NEW b \in Nat, NEW e \in Nat, b <= e
  PROVE  LET m == b + (e - b) \div 2
         IN  /\ m \in Nat /\ b <= m /\ m <= e
             /\ m = e <=> b = e
BY SMTT(30)

(* The types, with event numbers as numbers.                               *)
LEMMA SearchTypes ==
  ASSUME TypeOK
  PROVE  /\ list \in Seq(Numbers) /\ val \in Nat /\ Len(list) \in Nat
         /\ \A i \in 1..Len(list) : list[i] \in Nat
         /\ beg \in 1..PastEnd /\ end \in 1..PastEnd /\ beg <= end /\ PastEnd = Len(list) + 1
<1>1. list \in Seq(Numbers) /\ val \in Numbers
  BY DEF TypeOK
<1>2. Len(list) \in Nat /\ \A i \in 1..Len(list) : list[i] \in Numbers
  BY <1>1
<1>3. \A n \in Numbers : n \in Nat
  BY SearchAssumption DEF SearchAssumption
<1> QED
  BY <1>1, <1>2, <1>3 DEF TypeOK, PastEnd

(* What is left out of the interval has been compared: below it everything *)
(* is less than val, above it everything is greater (EPICS order).         *)
Narrowed ==
  bank = "epics_data" /\ pc = "loop" =>
    /\ list # <<>> /\ list[PastEnd - 1] > val
    /\ \A i \in 1..Len(list) : (i < beg => list[i] < val) /\ (i >= end => list[i] > val)

SearchInv == /\ TypeOK /\ Ascending(list) /\ Narrowed
             /\ CloseLessCorrect /\ FindEventSound
             /\ pc = "call" => beg = 1 /\ end = PastEnd

LEMMA SearchInit == Init => SearchInv
<1> SUFFICES ASSUME Init PROVE SearchInv
  OBVIOUS
<1>1. PICK n \in 0..MaxLen : list \in [1..n -> Numbers]
  BY DEF Init
<1>2. list \in Seq(Numbers) /\ Len(list) \in Nat
  BY <1>1, SearchAssumption DEF SearchAssumption
<1> QED
  BY <1>2 DEF Init, SearchInv, TypeOK, Narrowed, CloseLessCorrect, FindEventSound, PastEnd

(* The step of the loop: with an ascending bank the comparison with the    *)
(* middle decides a whole half.                                            *)
LEMMA HalveInv == SearchInv /\ Halve => SearchInv'
<1> SUFFICES ASSUME SearchInv, Halve PROVE SearchInv'
  OBVIOUS
<1>0. /\ UNCHANGED <<bank, list, val, pc, ret>> /\ pc = "loop" /\ Mid # end
      /\ list[Mid] # val
  BY DEF Halve
<1>1. /\ list \in Seq(Numbers) /\ val \in Nat /\ Len(list) \in Nat
      /\ \A i \in 1..Len(list) : list[i] \in Nat
      /\ beg \in 1..PastEnd /\ end \in 1..PastEnd /\ beg <= end /\ PastEnd = Len(list) + 1
  BY SearchTypes DEF SearchInv
<1>2. Mid \in Nat /\ beg <= Mid /\ Mid < end
  BY <1>0, <1>1, MidBetween DEF Mid
<1>3. Mid \in 1..Len(list)
  BY <1>1, <1>2
<1>4. TypeOK'
  <2>1. (beg' = beg /\ end' = Mid) \/ (beg' = Mid + 1 /\ end' = end)
    BY DEF Halve
  <2>2. beg' \in 1..PastEnd /\ end' \in 1..PastEnd /\ beg' <= end'
    BY <1>1, <1>2, <2>1
  <2> QED
    BY <1>0, <2>2 DEF SearchInv, TypeOK, PastEnd
<1>5. Narrowed'
  <2> SUFFICES ASSUME bank = "epics_data"
               PROVE  Narrowed'
    BY <1>0 DEF Narrowed
  <2>1. /\ list # <<>> /\ list[PastEnd - 1] > val
        /\ \A i \in 1..Len(list) : (i < beg => list[i] < val) /\ (i >= end => list[i] > val)
    BY <1>0 DEF SearchInv, Narrowed
  <2>2. \A i, j \in 1..Len(list) : i < j => list[i] <= list[j]
    BY DEF SearchInv, Ascending
  <2>3. CASE list[Mid] > val
    <3>1. end' = Mid /\ beg' = beg
      BY <2>3 DEF Halve, Exceeds
    <3>2. \A i \in 1..Len(list) : i >= Mid => list[i] > val
      BY <1>1, <1>3, <2>2, <2>3
    <3> QED
      BY <1>0, <2>1, <3>1, <3>2 DEF Narrowed, PastEnd
  <2>4. CASE ~(list[Mid] > val)
    <3>1. beg' = Mid + 1 /\ end' = end
      BY <2>4 DEF Halve, Exceeds
    <3>2. \A i \in 1..Len(list) : i < Mid + 1 => list[i] < val
      BY <1>0, <1>1, <1>3, <2>2, <2>4
    <3> QED
      BY <1>0, <2>1, <3>1, <3>2 DEF Narrowed, PastEnd
  <2> QED
    BY <2>3, <2>4
<1> QED
  BY <1>0, <1>4, <1>5 DEF SearchInv, CloseLessCorrect, FindEventSound, PastEnd

(* After the loop the middle is the first element greater than val.        *)
LEMMA CloseLessInv == SearchInv /\ CloseLess => SearchInv'
<1> SUFFICES ASSUME SearchInv, CloseLess PROVE SearchInv'
  OBVIOUS
<1>0. /\ UNCHANGED <<bank, list, val, beg, end>> /\ pc = "loop" /\ Mid = end
      /\ bank = "epics_data" /\ pc' = "done"
  BY DEF CloseLess, return
<1>1. /\ list \in Seq(Numbers) /\ val \in Nat /\ Len(list) \in Nat
      /\ \A i \in 1..Len(list) : list[i] \in Nat
      /\ beg \in 1..PastEnd /\ end \in 1..PastEnd /\ beg <= end /\ PastEnd = Len(list) + 1
  BY SearchTypes DEF SearchInv
<1>2. /\ list # <<>> /\ list[PastEnd - 1] > val
      /\ \A i \in 1..Len(list) : (i < beg => list[i] < val) /\ (i >= end => list[i] > val)
  BY <1>0 DEF SearchInv, Narrowed
<1>3. beg = end /\ Mid = beg
  BY <1>0, <1>1, MidBetween DEF Mid
<1>4. Mid \in 1..Len(list) /\ list[Mid] > val
  <2>1. Mid # PastEnd
    <3> SUFFICES ASSUME Mid = PastEnd PROVE FALSE
      OBVIOUS
    <3>1. Len(list) \in 1..Len(list)
      BY <1>1, <1>2
    <3> QED
      BY <1>1, <1>2, <1>3, <3>1
  <2> QED
    BY <1>1, <1>2, <1>3, <2>1
<1>5. ret' = IF Mid = 1 THEN PastEnd ELSE Mid - 1
  BY <1>1, <1>4 DEF CloseLess, return
<1>6. TypeOK'
  BY <1>0, <1>1, <1>4, <1>5 DEF SearchInv, TypeOK, PastEnd
<1>7. CloseLessCorrect'
  <2>1. CASE Mid = 1
    BY <1>0, <1>1, <1>2, <1>3, <1>5, <2>1 DEF CloseLessCorrect, PastEnd
  <2>2. CASE Mid # 1
    <3>1. Mid - 1 \in 1..Len(list) /\ list[Mid - 1] < val
      BY <1>1, <1>2, <1>3, <1>4, <2>2
    <3>2. \A i \in 1..Len(list) : list[i] <= val => i <= Mid - 1
      BY <1>1, <1>2, <1>3, <1>4
    <3>3. \A i \in 1..Len(list) : i <= Mid - 1 => list[i] <= list[Mid - 1]
      BY <1>1, <3>1 DEF SearchInv, Ascending
    <3> QED
      BY <1>0, <1>1, <1>5, <2>2, <3>1, <3>2, <3>3 DEF CloseLessCorrect, PastEnd
  <2> QED
    BY <2>1, <2>2
<1> QED
  BY <1>0, <1>6, <1>7 DEF SearchInv, Narrowed, FindEventSound

(* The other steps return an element they have just looked at.             *)
LEMMA ReturnInv ==
  SearchInv /\ (ReturnAtOnce \/ Search \/ Found \/ NotFound) => SearchInv'
<1> SUFFICES ASSUME SearchInv, ReturnAtOnce \/ Search \/ Found \/ NotFound
             PROVE  SearchInv'
  OBVIOUS
<1>1. /\ list \in Seq(Numbers) /\ val \in Nat /\ Len(list) \in Nat
      /\ \A i \in 1..Len(list) : list[i] \in Nat
      /\ beg \in 1..PastEnd /\ end \in 1..PastEnd /\ beg <= end /\ PastEnd = Len(list) + 1
  BY SearchTypes DEF SearchInv
<1>2. \A i, j \in 1..Len(list) : i < j => list[i] <= list[j]
  BY DEF SearchInv, Ascending
<1>3. CASE ReturnAtOnce
  <2>0. bank = "epics_data" /\ pc' = "done" /\ UNCHANGED <<bank, list, val, beg, end>>
    BY <1>3 DEF ReturnAtOnce, return
  <2>1. CASE list = <<>> /\ ret' = PastEnd
    BY <1>1, <2>0, <2>1 DEF SearchInv, TypeOK, CloseLessCorrect, FindEventSound, Narrowed, PastEnd
  <2>2. CASE list # <<>> /\ list[PastEnd - 1] <= val /\ ret' = PastEnd - 1
    <3>1. PastEnd - 1 \in 1..Len(list)
      BY <1>1, <2>2
    <3>2. \A i \in 1..Len(list) : list[i] <= list[PastEnd - 1]
      BY <1>1, <1>2, <3>1
    <3> QED
      BY <1>1, <2>0, <2>2, <3>1, <3>2
         DEF SearchInv, TypeOK, CloseLessCorrect, FindEventSound, Narrowed, PastEnd
  <2> QED
    BY <1>3, <2>1, <2>2 DEF ReturnAtOnce, return
<1>4. CASE Search
  BY <1>1, <1>4 DEF Search, SearchInv, TypeOK, CloseLessCorrect, FindEventSound, Narrowed, PastEnd
<1>5. CASE Found
  <2>0. /\ pc = "loop" /\ pc' = "done" /\ UNCHANGED <<bank, list, val, beg, end>>
        /\ Mid # end /\ list[Mid] = val /\ ret' = Mid
    BY <1>5 DEF Found, return
  <2>1. Mid \in 1..Len(list)
    <3>1. Mid \in Nat /\ beg <= Mid /\ Mid < end
      BY <1>1, <2>0, MidBetween DEF Mid
    <3> QED
      BY <1>1, <3>1
  <2>2. list[Mid] <= val
    BY <1>1, <2>0
  <2> QED
    BY <1>1, <2>0, <2>1, <2>2
       DEF SearchInv, TypeOK, CloseLessCorrect, FindEventSound, Narrowed, PastEnd
<1>6. CASE NotFound
  BY <1>1, <1>6
     DEF NotFound, return, SearchInv, TypeOK, CloseLessCorrect, FindEventSound, Narrowed, PastEnd
<1> QED
  BY <1>3, <1>4, <1>5, <1>6

LEMMA SearchInvariant == Spec => []SearchInv
<1>1. SearchInv /\ UNCHANGED vars => SearchInv'
  BY DEF SearchInv, TypeOK, Narrowed, CloseLessCorrect, FindEventSound, vars, PastEnd
<1>2. SearchInv /\ [Next]_vars => SearchInv'
  BY <1>1, HalveInv, CloseLessInv, ReturnInv DEF Next, Done
<1> QED
  BY <1>2, SearchInit, PTL DEF Spec

(* binary_search_close_less on an ascending EPICS bank returns the latest  *)
(* record not after the event asked for (FindEvent, FindValue).            *)
THEOREM CloseLessIsCorrect == Spec => []CloseLessCorrect
<1>1. SearchInv => CloseLessCorrect
  BY DEF SearchInv
<1> QED
  BY <1>1, SearchInvariant, PTL

(* Neither search dereferences an iterator outside the bank.               *)
THEOREM NeverReadsPastEnd == Spec => []NoReadPastEnd
<1>1. SearchInv => NoReadPastEnd
  <2> SUFFICES ASSUME SearchInv, pc = "loop", Mid # end \/ bank = "epics_data"
               PROVE  Mid \in 1..Len(list)
    BY DEF NoReadPastEnd
  <2>1. /\ Len(list) \in Nat /\ beg \in 1..PastEnd /\ end \in 1..PastEnd /\ beg <= end
        /\ PastEnd = Len(list) + 1 /\ val \in Nat /\ list \in Seq(Numbers)
        /\ \A i \in 1..Len(list) : list[i] \in Nat
    BY SearchTypes DEF SearchInv
  <2>2. Mid \in Nat /\ beg <= Mid /\ Mid <= end /\ (Mid = end <=> beg = end)
    BY <2>1, MidBetween DEF Mid
  <2>3. CASE Mid # end
    BY <2>1, <2>2, <2>3
  <2>4. CASE Mid = end /\ bank = "epics_data"
    <3>1. /\ list # <<>>
          /\ list[PastEnd - 1] > val
          /\ \A i \in 1..Len(list) : i < beg => list[i] < val
      BY <2>4 DEF SearchInv, Narrowed
    <3>2. Len(list) \in 1..Len(list)
      BY <2>1, <3>1
    <3>3. ~(list[Len(list)] < val)
      BY <2>1, <3>1, <3>2
    <3> QED
      BY <2>1, <2>2, <2>4, <3>1, <3>2, <3>3
  <2> QED
    BY <2>3, <2>4
<1> QED
  BY <1>1, SearchInvariant, PTL

(* PRadDataHandler::FindEvent never returns the index of another event.    *)
THEOREM FindEventIsSound == Spec => []FindEventSound
<1>1. SearchInv => FindEventSound
  BY DEF SearchInv
<1> QED
  BY <1>1, SearchInvariant, PTL

-----------------------------------------------------------------------------
Chosen == Events \cup {NoEvent}
Scenes == [mode : Modes \cup {"Energy"}, of : Chosen, cluster : Nat]

Views == [bank : Seq(Events), spin : Nat, last : Nat, cluster : Nat, clusters : Nat,
          event : Chosen, module_clusters : Chosen, marks : SUBSET Chosen,
          enabled : BOOLEAN, mode : Modes \cup {"Energy"}, scene : Scenes, failed : BOOLEAN]

(* The box of clusters ends at the number of clusters, or is empty.         *)
Ranged(v) == /\ ~v.failed
             /\ v.cluster <= v.clusters
             /\ v.clusters \in {0, CountOf(v.module_clusters)}

Painted(v) == v.scene = Scene(v)

(* The box of events ends at the bank, or is empty: online it stays so,     *)
(* whatever the bank holds.                                                 *)
Spun(v) == /\ v.last \in {0, Len(v.bank)}
           /\ v.spin <= v.last
           /\ v.spin > 0 => v.event = v.bank[v.spin]
           /\ v.spin = 0 => v.last = 0

Good(v) == v \in Views /\ Ranged(v) /\ Painted(v) /\ Spun(v)

ViewInv == /\ Good(view)
           /\ online \in {"off", "connecting", "on"}
           /\ online = "on" => view.last = 0

LEMMA CountType == ASSUME NEW e PROVE CountOf(e) \in Nat
  BY ViewAssumption DEF CountOf, IsPhysics

(* Handlers leave the bank, the box of events and the mode as they are.     *)
Rest(v) == <<v.bank, v.spin, v.last, v.mode, v.enabled>>

LEMMA RefreshOK ==
  ASSUME NEW v \in Views, Ranged(v)
  PROVE  /\ Refresh(v) = [v EXCEPT !.scene = Scene(v)]
         /\ Refresh(v) \in Views /\ Ranged(Refresh(v)) /\ Painted(Refresh(v))
         /\ Rest(Refresh(v)) = Rest(v) /\ Refresh(v).event = v.event
         /\ Refresh(v).cluster = v.cluster /\ Refresh(v).clusters = v.clusters
<1>1. CountOf(v.module_clusters) \in Nat
  BY CountType
<1>2. ~(v.mode = "Energy" /\ v.cluster > CountOf(v.module_clusters))
  BY <1>1 DEF Ranged, Views
<1>3. Refresh(v) = [v EXCEPT !.scene = Scene(v)]
  BY <1>2 DEF Refresh
<1>4. Scene(v) \in Scenes
  BY DEF Scene, Scenes, Views
<1>5. Refresh(v) \in Views
  BY <1>3, <1>4 DEF Views
<1>6. Rest(Refresh(v)) = Rest(v) /\ Refresh(v).event = v.event
      /\ Refresh(v).cluster = v.cluster /\ Refresh(v).clusters = v.clusters
      /\ Refresh(v).module_clusters = v.module_clusters /\ Refresh(v).failed = v.failed
      /\ Refresh(v).scene = Scene(v)
  BY <1>3 DEF Views, Rest
<1>7. Ranged(Refresh(v)) /\ Painted(Refresh(v))
  BY <1>6 DEF Ranged, Painted, Scene, Rest
<1> QED BY <1>3, <1>5, <1>6, <1>7

(* An empty range of clusters sets the box of clusters to 0.                *)
LEMMA EmptyRangeOK ==
  ASSUME NEW v \in Views, Ranged(v)
  PROVE  LET r == SetClusterRange(v, 0)
         IN  r \in Views /\ Ranged(r) /\ r.cluster = 0 /\ r.event = v.event /\ Rest(r) = Rest(v)
<1> DEFINE u == [v EXCEPT !.clusters = 0, !.cluster = 0]
<1>1. u \in Views
  BY DEF Views
<1>2. u.cluster = 0 /\ u.clusters = 0 /\ u.failed = v.failed /\ u.event = v.event
      /\ Rest(u) = Rest(v)
  BY DEF Views, Rest
<1>3. Ranged(u)
  BY <1>2 DEF Ranged
<1>4. CASE v.cluster > 0
  BY <1>1, <1>2, <1>3, <1>4, RefreshOK DEF SetClusterRange
<1>5. CASE ~(v.cluster > 0)
  <2>1. SetClusterRange(v, 0) = [v EXCEPT !.clusters = 0] /\ v.cluster = 0
    BY <1>5 DEF SetClusterRange, Views
  <2> QED BY <2>1 DEF Views, Ranged, Rest
<1> QED BY <1>4, <1>5

LEMMA ShowReconOK ==
  ASSUME NEW v \in Views, Ranged(v), v.cluster = 0
  PROVE  LET r == ShowReconEvent(v)
         IN  r \in Views /\ Ranged(r) /\ r.event = v.event /\ Rest(r) = Rest(v)
<1> DEFINE n == CountOf(v.event)
           u == [v EXCEPT !.module_clusters = v.event, !.marks = @ \cup {v.event}]
           w == [u EXCEPT !.clusters = n]
<1>1. n \in Nat
  BY CountType
<1>2. u \in Views /\ u.cluster = 0
  BY DEF Views
<1>3. ~(u.cluster > n)
  BY <1>1, <1>2
<1>4. SetClusterRange(u, n) = w
  BY <1>3 DEF SetClusterRange
<1>5. w \in Views
  BY <1>1 DEF Views
<1>6. w.cluster = 0 /\ w.clusters = n /\ w.module_clusters = v.event /\ ~w.failed
      /\ w.event = v.event /\ Rest(w) = Rest(v)
  BY DEF Views, Ranged, Rest
<1>7. Ranged(w)
  BY <1>1, <1>6 DEF Ranged
<1>8. ShowReconEvent(v) \in {v, w}
  BY <1>4 DEF ShowReconEvent
<1> QED BY <1>5, <1>6, <1>7, <1>8

(* The event in the bank the box stands for, when it was changed.           *)
At(v, evt) == v.bank[IF evt <= Len(v.bank) THEN evt ELSE Len(v.bank)]

LEMMA HandleOK ==
  ASSUME NEW v \in Views, Ranged(v), NEW evt \in Nat
  PROVE  LET r == HandleEventChange(v, evt)
         IN  /\ r \in Views /\ Ranged(r) /\ Rest(r) = Rest(v)
             /\ evt = 0 => r.event = v.event
             /\ evt > 0 /\ v.bank # <<>> => r.event = At(v, evt)
             /\ evt = 0 \/ v.bank # <<>> \/ Painted(v) => Painted(r)
<1>1. CASE evt = 0
  BY <1>1, RefreshOK DEF HandleEventChange
<1>2. CASE evt > 0 /\ v.bank = <<>>
  BY <1>2 DEF HandleEventChange
<1>3. CASE evt > 0 /\ v.bank # <<>>
  <2> DEFINE e == At(v, evt)
             u == ChooseEvent(v, e)
             chosen == SetClusterRange(u, 0)
             bare == [chosen EXCEPT !.marks = {}]
  <2>1. e \in Chosen
    BY <1>3 DEF At, Views, Chosen
  <2>2. u \in Views /\ Ranged(u) /\ u.event = e /\ Rest(u) = Rest(v)
    BY <2>1 DEF ChooseEvent, Views, Ranged, Rest
  <2>3. chosen \in Views /\ Ranged(chosen) /\ chosen.cluster = 0 /\ chosen.event = e
        /\ Rest(chosen) = Rest(v)
    BY <2>2, EmptyRangeOK
  <2>4. bare \in Views /\ Ranged(bare) /\ bare.cluster = 0 /\ bare.event = e
        /\ Rest(bare) = Rest(v)
    BY <2>3 DEF Views, Ranged, Rest
  <2>5. LET s == ShowReconEvent(bare)
        IN  s \in Views /\ Ranged(s) /\ s.event = e /\ Rest(s) = Rest(v)
    BY <2>4, ShowReconOK
  <2> DEFINE recon == IF ~v.enabled THEN chosen
                      ELSE IF IsPhysics(e) THEN ShowReconEvent(bare) ELSE bare
  <2>6. HandleEventChange(v, evt) = Refresh(recon)
    BY <1>3 DEF HandleEventChange, At
  <2> HIDE DEF chosen, bare, u
  <2>7. recon \in Views /\ Ranged(recon) /\ recon.event = e /\ Rest(recon) = Rest(v)
    BY <2>3, <2>4, <2>5
  <2> HIDE DEF recon
  <2> QED BY <1>3, <2>6, <2>7, RefreshOK
<1> QED BY <1>1, <1>2, <1>3

(* The box goes where it is told to, or to the end of its range.            *)
Spot(v, k) == IF k > v.last THEN v.last ELSE IF k = 0 /\ v.last # 0 THEN 1 ELSE k

LEMMA SetSpinOK ==
  ASSUME NEW v \in Views, Ranged(v), NEW k \in Nat
  PROVE  LET r == SetSpin(v, k)
         IN  /\ r \in Views /\ Ranged(r) /\ r.bank = v.bank /\ r.last = v.last
             /\ r.spin = Spot(v, k)
             /\ r.spin = v.spin => r = v
             /\ r.spin # v.spin /\ r.spin > 0 /\ v.bank # <<>>
                  => r.event = At(v, r.spin) /\ Painted(r)
<1> DEFINE x == Spot(v, k)
           u == [v EXCEPT !.spin = x]
<1>1. x \in Nat
  BY DEF Spot, Views
<1>2. SetSpin(v, k) = IF x = v.spin THEN v ELSE HandleEventChange(u, x)
  BY DEF SetSpin, Spot, Views
<1>3. u \in Views /\ Ranged(u) /\ Rest(u) = <<v.bank, x, v.last, v.mode, v.enabled>>
      /\ At(u, x) = At(v, x)
  BY <1>1 DEF Views, Ranged, Rest, At
<1>4. CASE x = v.spin
  BY <1>2, <1>4
<1>5. CASE x # v.spin
  <2> DEFINE r == HandleEventChange(u, x)
  <2>1. /\ r \in Views /\ Ranged(r) /\ Rest(r) = Rest(u)
        /\ x > 0 /\ u.bank # <<>> => r.event = At(u, x) /\ Painted(r)
    BY <1>1, <1>3, HandleOK
  <2>2. r.bank = v.bank /\ r.spin = x /\ r.last = v.last /\ u.bank = v.bank
    BY <1>3, <2>1 DEF Rest
  <2>3. SetSpin(v, k) = r
    BY <1>2, <1>5
  <2> HIDE DEF r
  <2> QED BY <1>3, <1>5, <2>1, <2>2, <2>3
<1> QED BY <1>4, <1>5

(* The range is that of the bank, and the event in the channels is the      *)
(* spin box's.                                                              *)
LEMMA UpdateRangeOK ==
  ASSUME NEW v \in Views, Ranged(v)
  PROVE  LET r == UpdateEventRange(v)
         IN  Good(r) /\ r.bank = v.bank /\ r.last = Len(v.bank)
<1> DEFINE u == [v EXCEPT !.last = Len(v.bank)]
           w == SetSpin(u, v.spin)
           r == UpdateEventRange(v)
<1>1. u \in Views /\ Ranged(u) /\ u.bank = v.bank /\ u.last = Len(v.bank) /\ v.spin \in Nat
  BY DEF Views, Ranged
<1>2. w \in Views /\ Ranged(w) /\ w.bank = v.bank /\ w.last = Len(v.bank)
      /\ w.spin = Spot(u, v.spin)
  BY <1>1, SetSpinOK
<1>3. /\ w.spin \in Nat /\ w.spin <= Len(v.bank)
      /\ w.spin = 0 <=> v.bank = <<>>
  <2>1. w.spin = IF v.spin > Len(v.bank) THEN Len(v.bank)
                 ELSE IF v.spin = 0 /\ Len(v.bank) # 0 THEN 1 ELSE v.spin
    BY <1>1, <1>2 DEF Spot
  <2>2. v.spin \in Nat /\ Len(v.bank) \in Nat /\ (Len(v.bank) = 0 <=> v.bank = <<>>)
    BY DEF Views
  <2> HIDE DEF w
  <2> QED
    BY ONLY <2>1, <2>2
<1>4. r = HandleEventChange(w, w.spin)
  BY DEF UpdateEventRange
<1>5. r \in Views /\ Ranged(r) /\ Painted(r) /\ Rest(r) = Rest(w)
      /\ (w.spin > 0 => r.event = At(w, w.spin))
  BY <1>2, <1>3, <1>4, HandleOK
<1>6. r.bank = v.bank /\ r.last = Len(v.bank) /\ r.spin = w.spin
  BY <1>2, <1>5 DEF Rest
<1>7. w.spin > 0 => r.event = r.bank[r.spin]
  BY <1>2, <1>3, <1>5, <1>6 DEF At
<1>8. w.spin = 0 => Len(v.bank) = 0
  BY <1>3
<1> QED BY <1>3, <1>5, <1>6, <1>7, <1>8 DEF Spun, Good

LEMMA EraseOK ==
  ASSUME NEW v \in Views, Ranged(v)
  PROVE  LET r == EraseData(v)
         IN  Good(r) /\ r.last = 0
<1> NoEvent \in Chosen /\ <<>> \in Seq(Events)
  BY DEF Chosen
<1>1. Clear(v) \in Views /\ Clear(v).bank = <<>>
  BY DEF Clear, Views
<1>2. /\ Clear(v).failed = v.failed /\ Clear(v).cluster = v.cluster
      /\ Clear(v).clusters = v.clusters /\ Clear(v).module_clusters = v.module_clusters
  BY DEF Clear, Views
<1>3. Ranged(Clear(v))
  BY <1>2 DEF Ranged
<1> QED BY <1>1, <1>3, UpdateRangeOK DEF EraseData

LEMMA InitGood == ViewInit => ViewInv
<1> SUFFICES ASSUME ViewInit PROVE ViewInv
  OBVIOUS
<1>1. view = EmptyView /\ online = "off"
  BY DEF ViewInit
<1>2. CountOf(NoEvent) \in Nat
  BY CountType
<1>3. view \in Views
  BY <1>1 DEF EmptyView, Views, Scenes, Chosen
<1>4. Ranged(view) /\ Painted(view)
  BY <1>1, <1>2 DEF EmptyView, Ranged, Painted, Scene
<1>5. Spun(view)
  BY <1>1 DEF EmptyView, Spun
<1> QED BY <1>1, <1>3, <1>4, <1>5 DEF ViewInv, Good

(* A step to a view that is painted and has the event of its box.           *)
LEMMA SetSpinKeeps ==
  ASSUME ViewInv, NEW k \in Nat
  PROVE  LET r == SetSpin(view, k)
         IN  Good(r) /\ r.last = view.last
<1> DEFINE r == SetSpin(view, k)
<1>1. view \in Views /\ Ranged(view) /\ Painted(view) /\ Spun(view)
  BY DEF ViewInv, Good
<1>2. r \in Views /\ Ranged(r) /\ r.bank = view.bank /\ r.last = view.last
      /\ r.spin = Spot(view, k) /\ (r.spin = view.spin => r = view)
      /\ (r.spin # view.spin /\ r.spin > 0 /\ view.bank # <<>>
           => r.event = At(view, r.spin) /\ Painted(r))
  BY <1>1, SetSpinOK
<1>3. CASE r.spin = view.spin
  BY <1>1, <1>2, <1>3 DEF Good
<1>4. CASE r.spin # view.spin
  <2>1. view.last \in Nat /\ view.spin \in Nat /\ Len(view.bank) \in Nat
    BY <1>1 DEF Views
  <2>2. view.last # 0
    BY <1>1, <1>2, <1>4, <2>1 DEF Spot, Spun
  <2>3. view.last = Len(view.bank) /\ view.bank # <<>>
    BY <1>1, <2>2 DEF Spun
  <2>4. r.spin \in 1 .. view.last
    BY <1>2, <2>1, <2>2 DEF Spot
  <2>5. Painted(r) /\ r.event = r.bank[r.spin]
    BY <1>2, <1>4, <2>3, <2>4 DEF At
  <2> QED BY <1>2, <2>3, <2>4, <2>5 DEF Spun, Good
<1> QED BY <1>3, <1>4

LEMMA HandleKeeps ==
  ASSUME ViewInv
  PROVE  LET r == HandleEventChange(view, view.spin)
         IN  Good(r) /\ r.last = view.last
<1> DEFINE r == HandleEventChange(view, view.spin)
<1>1. view \in Views /\ Ranged(view) /\ Painted(view) /\ Spun(view)
      /\ view.spin \in Nat /\ view.last \in Nat /\ Len(view.bank) \in Nat
  BY DEF ViewInv, Good, Views
<1>2. /\ r \in Views /\ Ranged(r) /\ Rest(r) = Rest(view) /\ Painted(r)
      /\ view.spin > 0 /\ view.bank # <<>> => r.event = At(view, view.spin)
  BY <1>1, HandleOK
<1>3. r.bank = view.bank /\ r.spin = view.spin /\ r.last = view.last
  BY <1>2 DEF Rest
<1>4. view.spin > 0 => view.bank # <<>> /\ view.spin <= Len(view.bank)
  BY <1>1 DEF Spun
<1>5. view.spin > 0 => r.event = r.bank[r.spin]
  BY <1>2, <1>3, <1>4 DEF At
<1> QED BY <1>1, <1>2, <1>3, <1>5 DEF Spun, Good

LEMMA RefreshKeeps ==
  ASSUME NEW v \in Views, Ranged(v), Spun(v)
  PROVE  Good(Refresh(v)) /\ Refresh(v).last = v.last
<1>1. /\ Refresh(v) \in Views /\ Ranged(Refresh(v)) /\ Painted(Refresh(v))
      /\ Rest(Refresh(v)) = Rest(v) /\ Refresh(v).event = v.event
  BY RefreshOK
<1>2. Refresh(v).bank = v.bank /\ Refresh(v).spin = v.spin /\ Refresh(v).last = v.last
  BY <1>1 DEF Rest
<1> QED BY <1>1, <1>2 DEF Good, Spun

LEMMA StepGood == ViewInv /\ [ViewNext]_view_vars => ViewInv'
<1> SUFFICES ASSUME ViewInv, [ViewNext]_view_vars PROVE ViewInv'
  OBVIOUS
<1>0. /\ view \in Views /\ Ranged(view) /\ Painted(view) /\ Spun(view)
      /\ online \in {"off", "connecting", "on"} /\ (online = "on" => view.last = 0)
  BY DEF ViewInv, Good
<1>1. CASE OpenDataFile
  <2>1. PICK f \in Files : view' = Opened(view, f)
    BY <1>1 DEF OpenDataFile
  <2> DEFINE w == EraseData(view)
             u == [w EXCEPT !.bank = f]
  <2>2. f \in Seq(Events)
    BY ViewAssumption
  <2>3. w \in Views /\ Ranged(w)
    BY <1>0, EraseOK DEF Good
  <2> HIDE DEF w
  <2>4. u \in Views
    BY <2>2, <2>3 DEF Views
  <2>5. u.failed = w.failed /\ u.cluster = w.cluster /\ u.clusters = w.clusters
        /\ u.module_clusters = w.module_clusters
    BY <2>3 DEF Views
  <2>6. Ranged(u)
    BY <2>3, <2>5 DEF Ranged
  <2>7. Good(view')
    BY <2>1, <2>4, <2>6, UpdateRangeOK DEF Opened, w
  <2>8. online' = "off"
    BY <1>1 DEF OpenDataFile, Slot
  <2> QED BY <2>7, <2>8 DEF ViewInv
<1>2. CASE ChangeCurrentEvent \/ FindEvent
  <2>1. PICK k \in Nat : view' = SetSpin(view, k)
    BY <1>0, <1>2 DEF ChangeCurrentEvent, FindEvent, Views
  <2>2. online' = online
    BY <1>2 DEF ChangeCurrentEvent, FindEvent, Slot
  <2> QED BY <1>0, <2>1, <2>2, SetSpinKeeps DEF ViewInv
<1>3. CASE ChangeCluster
  <2>1. PICK k \in 0 .. view.clusters : view' = Refresh([view EXCEPT !.cluster = k])
    BY <1>3 DEF ChangeCluster
  <2> DEFINE u == [view EXCEPT !.cluster = k]
  <2>2. u \in Views
    BY <1>0 DEF Views
  <2>3. u.failed = view.failed /\ u.cluster = k /\ u.clusters = view.clusters
        /\ u.module_clusters = view.module_clusters /\ view.clusters \in Nat
        /\ u.bank = view.bank /\ u.spin = view.spin /\ u.last = view.last /\ u.event = view.event
    BY <1>0 DEF Views
  <2>4. Ranged(u) /\ Spun(u)
    BY <1>0, <2>3 DEF Ranged, Spun
  <2>5. online' = online
    BY <1>3 DEF ChangeCluster, Slot
  <2> QED BY <1>0, <2>1, <2>2, <2>3, <2>4, <2>5, RefreshKeeps DEF ViewInv
<1>4. CASE ChangeViewMode
  <2>1. PICK m \in Modes : view' = Refresh([view EXCEPT !.mode = m])
    BY <1>4 DEF ChangeViewMode
  <2> DEFINE u == [view EXCEPT !.mode = m]
  <2>2. u \in Views
    BY <1>0 DEF Views
  <2>3. u.failed = view.failed /\ u.cluster = view.cluster /\ u.clusters = view.clusters
        /\ u.module_clusters = view.module_clusters
        /\ u.bank = view.bank /\ u.spin = view.spin /\ u.last = view.last /\ u.event = view.event
    BY <1>0 DEF Views
  <2>4. Ranged(u) /\ Spun(u)
    BY <1>0, <2>3 DEF Ranged, Spun
  <2>5. online' = online
    BY <1>4 DEF ChangeViewMode, Slot
  <2> QED BY <1>0, <2>1, <2>2, <2>3, <2>4, <2>5, RefreshKeeps DEF ViewInv
<1>5. CASE Erase
  BY <1>0, <1>5, EraseOK DEF Erase, Slot, ViewInv
<1>6. CASE Recalibrate \/ Accept
  <2>1. view' = HandleEventChange(view, view.spin) /\ online' = online
    BY <1>6 DEF Recalibrate, Accept, Slot
  <2> QED BY <1>0, <2>1, HandleKeeps DEF ViewInv
<1>7. CASE InitOnlineMode
  BY <1>0, <1>7 DEF InitOnlineMode, ViewInv
<1>8. CASE StartOnlineMode
  <2>1. CASE view' = Started(view) /\ online' = "on"
    BY <1>0, <2>1, EraseOK, RefreshKeeps DEF Started, ViewInv, Good
  <2>2. CASE UNCHANGED view /\ online' = "off"
    BY <2>2 DEF ViewInv
  <2> QED BY <1>8, <2>1, <2>2 DEF StartOnlineMode
<1>9. CASE OnlineUpdate
  <2>1. PICK e \in OnlineEvents : view' = Updated(view, e)
    BY <1>9 DEF OnlineUpdate
  <2> DEFINE shifted == Append(IF view.bank = <<>> THEN view.bank ELSE Tail(view.bank), e)
             w == [view EXCEPT !.bank = shifted]
             u == ChooseEvent(w, w.bank[1])
  <2>2. view.last = 0 /\ online = "on" /\ online' = online
    BY <1>0, <1>9 DEF OnlineUpdate
  <2>3. shifted \in Seq(Events) /\ shifted[1] \in Chosen
    <3>1. e \in Events
      BY DEF Events
    <3>2. (IF view.bank = <<>> THEN view.bank ELSE Tail(view.bank)) \in Seq(Events)
      BY <1>0 DEF Views
    <3>3. shifted \in Seq(Events) /\ Len(shifted) >= 1
      BY <3>1, <3>2
    <3> HIDE DEF shifted
    <3>4. shifted[1] \in Events
      BY <3>3
    <3> QED BY <3>3, <3>4 DEF Chosen
  <2> HIDE DEF shifted
  <2>4. w.bank = shifted
    BY <1>0 DEF Views
  <2>5. u \in Views
    BY <1>0, <2>3, <2>4 DEF Views, ChooseEvent
  <2>6. u.failed = view.failed /\ u.cluster = view.cluster /\ u.clusters = view.clusters
        /\ u.module_clusters = view.module_clusters /\ u.spin = view.spin /\ u.last = view.last
    BY <1>0 DEF Views, ChooseEvent
  <2>7. Ranged(u)
    BY <1>0, <2>6 DEF Ranged
  <2>8. Spun(u)
    <3>1. view.spin = 0
      BY <1>0, <2>2 DEF Spun, Views
    <3> QED BY <2>2, <2>6, <3>1 DEF Spun
  <2>9. view' = Refresh(u)
    BY <2>1 DEF Updated, shifted
  <2> HIDE DEF u
  <2> QED BY <2>2, <2>5, <2>6, <2>7, <2>8, <2>9, RefreshKeeps DEF ViewInv
<1>10. CASE StopOnlineMode
  BY <1>0, <1>10, RefreshKeeps DEF StopOnlineMode, ViewInv
<1>11. CASE SetupReconMethods \/ Cancel
  BY <1>0, <1>11 DEF SetupReconMethods, Cancel, ViewInv, Good
<1>12. CASE ToggleMarks
  <2> DEFINE u == [view EXCEPT !.enabled = ~view.enabled]
  <2>1. view' = u /\ online' = online
    BY <1>12 DEF ToggleMarks
  <2>2. u \in Views
    BY <1>0 DEF Views
  <2>3. u.failed = view.failed /\ u.cluster = view.cluster /\ u.clusters = view.clusters
        /\ u.module_clusters = view.module_clusters /\ u.mode = view.mode /\ u.scene = view.scene
        /\ u.bank = view.bank /\ u.spin = view.spin /\ u.last = view.last /\ u.event = view.event
    BY <1>0 DEF Views
  <2> HIDE DEF u
  <2>4. Ranged(u) /\ Painted(u) /\ Spun(u)
    BY <1>0, <2>3 DEF Ranged, Painted, Scene, Spun
  <2> QED BY <1>0, <2>1, <2>2, <2>3, <2>4 DEF ViewInv, Good
<1>13. CASE UNCHANGED view_vars
  BY <1>0, <1>13 DEF view_vars, ViewInv, Good
<1> QED BY <1>1, <1>2, <1>3, <1>4, <1>5, <1>6, <1>7, <1>8, <1>9, <1>10, <1>11, <1>12, <1>13
        DEF ViewNext

LEMMA ViewAlways == ViewSpec => []ViewInv
BY InitGood, StepGood, PTL DEF ViewSpec

(* The event in the channels is the one the spin box names, across files,   *)
(* erasing, online mode and its end (handleEventChange, updateEventRange).  *)
THEOREM ChannelsFollowSpin == ViewSpec => []EventOfSpin
<1>1. ViewInv => EventOfSpin
  <2> SUFFICES ASSUME ViewInv PROVE EventOfSpin
    OBVIOUS
  <2>1. view.spin \in Nat /\ view.last \in Nat
    BY DEF ViewInv, Good, Views
  <2> QED BY <2>1 DEF ViewInv, Good, Spun, EventOfSpin
<1> QED BY <1>1, ViewAlways, PTL

(* Whatever happened, refreshing would paint what is painted, and a cluster *)
(* that exists (Refresh, ShowCluster).                                      *)
THEOREM NothingStaleIsShown == ViewSpec => []SceneFresh
<1>1. ViewInv => SceneFresh
  <2> SUFFICES ASSUME ViewInv PROVE SceneFresh
    OBVIOUS
  <2>1. view \in Views /\ Ranged(view) /\ Painted(view)
    BY DEF ViewInv, Good
  <2>2. Refresh(view) = [view EXCEPT !.scene = Scene(view)]
    BY <2>1, RefreshOK
  <2>3. Refresh(view).scene = Scene(view)
    BY <2>1, <2>2 DEF Views
  <2> QED BY <2>1, <2>3 DEF SceneFresh, ClusterExists, Ranged, Painted
<1> QED BY <1>1, ViewAlways, PTL

-----------------------------------------------------------------------------
(* The dialog of the spectrum.  A screen is a record of functions on these  *)
(* fields.                                                                  *)
Fields == {"type", "scale", "min", "max"}
PanelFields == Fields \cup {"view"}

IsScreen(s) ==
  /\ s = [spectrum |-> s.spectrum, panel |-> s.panel, viewMode |-> s.viewMode,
          custom |-> s.custom, painted |-> s.painted]
  /\ s.spectrum = [f \in Fields |-> s.spectrum[f]]
  /\ s.panel = [f \in PanelFields |-> s.panel[f]]

(* The dialog shows the spectrum; the preset it shows is in use; and the    *)
(* modules are painted with what is set.                                    *)
Agrees(s) == \A f \in Fields : s.panel[f] = s.spectrum[f]
PresetInUse(s) ==
  \A v \in DOMAIN S!Presets : s.panel.view = v =>
    \A f \in {"scale", "min", "max"} : s.spectrum[f] = S!Presets[v][f]
IsPainted(s) == s.painted = [by |-> s.spectrum, viewMode |-> s.viewMode, custom |-> s.custom]

LEMMA RefreshIs ==
  ASSUME NEW s, IsScreen(s), NEW u, u = S!Refresh(s)
  PROVE  /\ IsScreen(u) /\ IsPainted(u)
         /\ u.spectrum = s.spectrum /\ u.panel = s.panel
         /\ u.viewMode = s.viewMode /\ u.custom = s.custom
<1> DEFINE p == [by |-> s.spectrum, viewMode |-> s.viewMode, custom |-> s.custom]
<1>1. u = [s EXCEPT !.painted = p]
  BY DEF S!Refresh
<1> HIDE DEF p
<1>2. u = [spectrum |-> s.spectrum, panel |-> s.panel, viewMode |-> s.viewMode,
           custom |-> s.custom, painted |-> p]
  BY <1>1 DEF IsScreen
<1>3. /\ u.spectrum = s.spectrum /\ u.panel = s.panel
      /\ u.viewMode = s.viewMode /\ u.custom = s.custom /\ u.painted = p
  BY <1>2
<1>4. IsScreen(u)
  BY <1>2, <1>3 DEF IsScreen
<1> QED
  BY <1>3, <1>4 DEF IsPainted, p

LEMMA SetSpectrumIs ==
  ASSUME NEW s, IsScreen(s), NEW f \in Fields, NEW v, NEW u, u = S!SetSpectrum(s, f, v)
  PROVE  /\ IsScreen(u) /\ (IsPainted(s) => IsPainted(u))
         /\ u.panel = s.panel /\ u.viewMode = s.viewMode /\ u.custom = s.custom
         /\ \A g \in Fields : u.spectrum[g] = IF g = f THEN v ELSE s.spectrum[g]
<1>1. CASE s.spectrum[f] = v
  BY <1>1 DEF S!SetSpectrum
<1>2. CASE s.spectrum[f] # v
  <2> DEFINE z == [s.spectrum EXCEPT ![f] = v]
             t == [s EXCEPT !.spectrum[f] = v]
  <2>1. u = S!Refresh(t)
    BY <1>2 DEF S!SetSpectrum
  <2>2. z = [g \in Fields |-> IF g = f THEN v ELSE s.spectrum[g]]
    BY DEF IsScreen
  <2>3. t = [s EXCEPT !.spectrum = z]
    BY DEF IsScreen
  <2> HIDE DEF z
  <2>4. t = [spectrum |-> z, panel |-> s.panel, viewMode |-> s.viewMode,
             custom |-> s.custom, painted |-> s.painted]
    BY <2>3 DEF IsScreen
  <2> HIDE DEF t
  <2>5. /\ t.spectrum = z /\ t.panel = s.panel /\ t.viewMode = s.viewMode
        /\ t.custom = s.custom /\ t.painted = s.painted
    BY <2>4
  <2>6. IsScreen(t)
    BY <2>2, <2>4, <2>5 DEF IsScreen
  <2>7. /\ IsScreen(u) /\ IsPainted(u) /\ u.spectrum = z /\ u.panel = s.panel
        /\ u.viewMode = s.viewMode /\ u.custom = s.custom
    BY <2>1, <2>5, <2>6, RefreshIs
  <2> QED
    BY <2>2, <2>7
<1> QED
  BY <1>1, <1>2

LEMMA SetPanelIs ==
  ASSUME NEW s, IsScreen(s), NEW f \in PanelFields, NEW v, NEW u, u = [s EXCEPT !.panel[f] = v]
  PROVE  /\ IsScreen(u) /\ (IsPainted(s) => IsPainted(u))
         /\ u.spectrum = s.spectrum /\ u.viewMode = s.viewMode /\ u.custom = s.custom
         /\ \A g \in PanelFields : u.panel[g] = IF g = f THEN v ELSE s.panel[g]
<1> DEFINE z == [s.panel EXCEPT ![f] = v]
<1>1. z = [g \in PanelFields |-> IF g = f THEN v ELSE s.panel[g]]
  BY DEF IsScreen
<1>2. u = [s EXCEPT !.panel = z]
  BY DEF IsScreen
<1> HIDE DEF z
<1>3. u = [spectrum |-> s.spectrum, panel |-> z, viewMode |-> s.viewMode,
           custom |-> s.custom, painted |-> s.painted]
  BY <1>2 DEF IsScreen
<1>4. /\ u.spectrum = s.spectrum /\ u.panel = z /\ u.viewMode = s.viewMode
      /\ u.custom = s.custom /\ u.painted = s.painted
  BY <1>3
<1>5. IsScreen(u)
  BY <1>1, <1>3, <1>4 DEF IsScreen
<1> QED
  BY <1>1, <1>4, <1>5 DEF IsPainted

LEMMA ChangeIs ==
  ASSUME NEW s, IsScreen(s), NEW f \in Fields, NEW shown, NEW u, u = S!Change(s, f, shown)
  PROVE  /\ IsScreen(u) /\ (IsPainted(s) => IsPainted(u))
         /\ u.viewMode = s.viewMode /\ u.custom = s.custom
         /\ \A g \in Fields : u.spectrum[g] = IF g = f THEN s.panel[f] ELSE s.spectrum[g]
         /\ \A g \in Fields : u.panel[g] = s.panel[g]
         /\ u.panel["view"] = shown
<1> DEFINE t == [s EXCEPT !.panel["view"] = shown]
<1>1. u = S!SetSpectrum(t, f, s.panel[f]) /\ t = [s EXCEPT !.panel["view"] = shown]
      /\ "view" \in PanelFields
  BY DEF S!Change, PanelFields
<1> HIDE DEF t
<1>2. /\ IsScreen(t) /\ (IsPainted(s) => IsPainted(t))
      /\ t.spectrum = s.spectrum /\ t.viewMode = s.viewMode /\ t.custom = s.custom
      /\ \A g \in PanelFields : t.panel[g] = IF g = "view" THEN shown ELSE s.panel[g]
  BY <1>1, SetPanelIs
<1>3. /\ IsScreen(u) /\ (IsPainted(t) => IsPainted(u))
      /\ u.panel = t.panel /\ u.viewMode = t.viewMode /\ u.custom = t.custom
      /\ \A g \in Fields : u.spectrum[g] = IF g = f THEN s.panel[f] ELSE t.spectrum[g]
  <2>1. u = S!SetSpectrum(t, f, s.panel[f]) /\ IsScreen(t) /\ f \in Fields
    BY <1>1, <1>2
  <2> QED
    BY ONLY <2>1, SetSpectrumIs
<1> QED
  BY <1>2, <1>3 DEF PanelFields, Fields

-----------------------------------------------------------------------------
(* What a spin box makes of a value.                                        *)
Within(v) == S!Min({S!Max({v, -S!MAX_RANGE}), S!MAX_RANGE})

LEMMA WithinIs ==
  ASSUME NEW v \in Int
  PROVE  Within(v) = IF v < -100000 THEN -100000 ELSE IF v > 100000 THEN 100000 ELSE v
<1>1. S!Max({v, -100000}) = IF v < -100000 THEN -100000 ELSE v
  BY DEF S!Max
<1> DEFINE x == IF v < -100000 THEN -100000 ELSE v
<1>2. x \in Int
  OBVIOUS
<1> HIDE DEF x
<1>3. S!Min({x, 100000}) = IF x > 100000 THEN 100000 ELSE x
  BY <1>2 DEF S!Min
<1> QED
  BY <1>1, <1>3 DEF Within, S!MAX_RANGE, x

LEMMA SetSpinIs ==
  ASSUME NEW s, IsScreen(s), Agrees(s), NEW f \in {"min", "max"}, NEW v, NEW shown,
         NEW u, u = S!SetSpin(s, f, v, shown)
  PROVE  /\ IsScreen(u) /\ Agrees(u) /\ (IsPainted(s) => IsPainted(u))
         /\ u.viewMode = s.viewMode /\ u.custom = s.custom
         /\ \A g \in Fields : u.spectrum[g] = IF g = f THEN Within(v) ELSE s.spectrum[g]
         /\ u.panel["view"] = IF s.spectrum[f] = Within(v) THEN s.panel["view"] ELSE shown
<1> DEFINE x == Within(v)
           t == [s EXCEPT !.panel[f] = x]
<1>0. f \in Fields /\ f \in PanelFields /\ s.panel[f] = s.spectrum[f]
  BY DEF Fields, PanelFields, Agrees
<1>1. u = IF s.panel[f] = x THEN s ELSE S!Change(t, f, shown)
  BY DEF S!SetSpin, Within
<1> HIDE DEF x
<1>2. CASE s.panel[f] = x
  <2>1. u = s
    BY <1>1, <1>2
  <2> QED
    BY <1>0, <1>2, <2>1 DEF x
<1>3. CASE s.panel[f] # x
  <2>1. u = S!Change(t, f, shown)
    BY <1>1, <1>3
  <2> HIDE DEF t
  <2>2. /\ IsScreen(t) /\ (IsPainted(s) => IsPainted(t))
        /\ t.spectrum = s.spectrum /\ t.viewMode = s.viewMode /\ t.custom = s.custom
        /\ \A g \in PanelFields : t.panel[g] = IF g = f THEN x ELSE s.panel[g]
    BY <1>0, SetPanelIs DEF t
  <2>3. /\ IsScreen(u) /\ (IsPainted(t) => IsPainted(u))
        /\ u.viewMode = t.viewMode /\ u.custom = t.custom
        /\ \A g \in Fields : u.spectrum[g] = IF g = f THEN t.panel[f] ELSE t.spectrum[g]
        /\ \A g \in Fields : u.panel[g] = t.panel[g]
        /\ u.panel["view"] = shown
    BY <1>0, <2>1, <2>2, ChangeIs
  <2>4. t.panel[f] = x /\ t.panel["view"] = s.panel["view"]
    BY <1>0, <2>2 DEF PanelFields, Fields
  <2>5. Agrees(u)
    BY <2>2, <2>3, <2>4 DEF Agrees, PanelFields
  <2>6. s.spectrum[f] # Within(v)
    BY <1>0, <1>3 DEF x
  <2> QED
    BY <2>2, <2>3, <2>4, <2>5, <2>6 DEF x
<1> QED
  BY <1>2, <1>3

LEMMA ChangePreSettingIs ==
  ASSUME NEW s, IsScreen(s), Agrees(s), s.panel["view"] \in DOMAIN S!Presets,
         NEW u, u = S!ChangePreSetting(s)
  PROVE  /\ IsScreen(u) /\ Agrees(u) /\ PresetInUse(u) /\ (IsPainted(s) => IsPainted(u))
         /\ u.viewMode = s.viewMode /\ u.custom = s.custom
<1> DEFINE shown == s.panel["view"]
           set == S!Presets[shown]
           a == S!SetSpin(s, "max", set.max, shown)
           b == S!SetSpin(a, "min", set.min, shown)
           c == [b EXCEPT !.panel["scale"] = set.scale]
<1>0. Within(set.max) = set.max /\ Within(set.min) = set.min
  <2>1. set.max \in {1000, 100000, 1700, 30} /\ set.min \in {0, 1, 200, 900}
    BY DEF S!Presets
  <2> HIDE DEF set
  <2> QED
    BY <2>1, WithinIs
<1>1. /\ shown = s.panel["view"] /\ set = S!Presets[shown]
      /\ a = S!SetSpin(s, "max", set.max, shown) /\ b = S!SetSpin(a, "min", set.min, shown)
      /\ c = [b EXCEPT !.panel["scale"] = set.scale] /\ u = S!Change(c, "scale", shown)
  BY DEF S!ChangePreSetting
<1> HIDE DEF a, b, c, set, shown
<1>9. "max" \in {"min", "max"} /\ "min" \in {"min", "max"} /\ "scale" \in Fields
      /\ "scale" \in PanelFields
  BY DEF PanelFields, Fields
<1>2. /\ IsScreen(a) /\ Agrees(a) /\ (IsPainted(s) => IsPainted(a))
      /\ a.viewMode = s.viewMode /\ a.custom = s.custom
      /\ \A g \in Fields : a.spectrum[g] = IF g = "max" THEN set.max ELSE s.spectrum[g]
      /\ a.panel["view"] = shown
  <2>1. a = S!SetSpin(s, "max", set.max, shown) /\ IsScreen(s) /\ Agrees(s)
        /\ shown = s.panel["view"]
    BY <1>1
  <2> QED
    BY ONLY <1>0, <1>9, <2>1, SetSpinIs
<1>3. /\ IsScreen(b) /\ Agrees(b) /\ (IsPainted(a) => IsPainted(b))
      /\ b.viewMode = a.viewMode /\ b.custom = a.custom
      /\ \A g \in Fields : b.spectrum[g] = IF g = "min" THEN set.min ELSE a.spectrum[g]
      /\ b.panel["view"] = shown
  <2>1. b = S!SetSpin(a, "min", set.min, shown)
    BY <1>1
  <2> QED
    BY ONLY <1>0, <1>2, <1>9, <2>1, SetSpinIs
<1>4. /\ IsScreen(c) /\ (IsPainted(b) => IsPainted(c))
      /\ c.spectrum = b.spectrum /\ c.viewMode = b.viewMode /\ c.custom = b.custom
      /\ \A g \in PanelFields : c.panel[g] = IF g = "scale" THEN set.scale ELSE b.panel[g]
  <2>1. c = [b EXCEPT !.panel["scale"] = set.scale] /\ "scale" \in PanelFields /\ IsScreen(b)
    BY <1>1, <1>3, <1>9
  <2> QED
    BY ONLY <2>1, SetPanelIs
<1>5. /\ IsScreen(u) /\ (IsPainted(c) => IsPainted(u))
      /\ u.viewMode = c.viewMode /\ u.custom = c.custom
      /\ \A g \in Fields : u.spectrum[g] = IF g = "scale" THEN c.panel["scale"] ELSE c.spectrum[g]
      /\ \A g \in Fields : u.panel[g] = c.panel[g]
      /\ u.panel["view"] = shown
  <2>1. u = S!Change(c, "scale", shown)
    BY <1>1
  <2> QED
    BY ONLY <1>4, <1>9, <2>1, ChangeIs
<1>6. Agrees(u)
  BY <1>3, <1>4, <1>5 DEF Agrees, PanelFields, Fields
<1>7. /\ u.spectrum["max"] = set.max /\ u.spectrum["min"] = set.min
      /\ u.spectrum["scale"] = set.scale /\ u.panel["view"] = shown
  BY <1>2, <1>3, <1>4, <1>5 DEF PanelFields, Fields
<1>8. PresetInUse(u)
  <2>1. \A v : u.panel.view = v => S!Presets[v] = set
    BY <1>1, <1>7
  <2>2. \A f \in {"scale", "min", "max"} : u.spectrum[f] = set[f]
    BY <1>7
  <2> QED
    BY <2>1, <2>2 DEF PresetInUse
<1> QED
  BY <1>2, <1>3, <1>4, <1>5, <1>6, <1>8

-----------------------------------------------------------------------------
LEMMA CustomIsNoPreset == "custom" \notin DOMAIN S!Presets
BY DEF S!Presets

LEMMA SetViewIs ==
  ASSUME NEW s, IsScreen(s), Agrees(s), NEW v, NEW u, u = [s EXCEPT !.panel.view = v]
  PROVE  /\ IsScreen(u) /\ Agrees(u) /\ (IsPainted(s) => IsPainted(u))
         /\ u.spectrum = s.spectrum /\ u.viewMode = s.viewMode /\ u.custom = s.custom
         /\ u.panel["view"] = v
<1>1. "view" \in PanelFields
  BY DEF PanelFields
<1>2. /\ IsScreen(u) /\ (IsPainted(s) => IsPainted(u))
      /\ u.spectrum = s.spectrum /\ u.viewMode = s.viewMode /\ u.custom = s.custom
      /\ \A g \in PanelFields : u.panel[g] = IF g = "view" THEN v ELSE s.panel[g]
  <2>1. PICK f \in PanelFields : f = "view"
    BY <1>1
  <2>2. u = [s EXCEPT !.panel[f] = v] /\ IsScreen(s)
    BY <2>1
  <2>3. /\ IsScreen(u) /\ (IsPainted(s) => IsPainted(u))
        /\ u.spectrum = s.spectrum /\ u.viewMode = s.viewMode /\ u.custom = s.custom
        /\ \A g \in PanelFields : u.panel[g] = IF g = f THEN v ELSE s.panel[g]
    BY ONLY <2>2, SetPanelIs
  <2> QED
    BY <2>1, <2>3
<1>3. Agrees(u)
  BY <1>2 DEF Agrees, PanelFields, Fields
<1> QED
  BY <1>1, <1>2, <1>3

LEMMA ChoosePreSettingIs ==
  ASSUME NEW s, IsScreen(s), Agrees(s), PresetInUse(s), NEW index,
         NEW u, u = S!ChoosePreSetting(s, index)
  PROVE  /\ IsScreen(u) /\ Agrees(u) /\ PresetInUse(u) /\ (IsPainted(s) => IsPainted(u))
         /\ u.viewMode = s.viewMode /\ u.custom = s.custom
<1> DEFINE v == S!PresetOf[index + 1]
           t == [s EXCEPT !.panel.view = v]
<1>1. CASE index + 1 \in DOMAIN S!PresetOf
  <2>1. v \in DOMAIN S!Presets
    BY <1>1 DEF S!PresetOf, S!Presets
  <2>2. u = S!ChangePreSetting(t) /\ t = [s EXCEPT !.panel.view = v]
    BY <1>1 DEF S!ChoosePreSetting
  <2> HIDE DEF v, t
  <2>3. /\ IsScreen(t) /\ Agrees(t) /\ (IsPainted(s) => IsPainted(t))
        /\ t.spectrum = s.spectrum /\ t.viewMode = s.viewMode /\ t.custom = s.custom
        /\ t.panel["view"] = v
    BY <2>2, SetViewIs
  <2> QED
    BY <2>1, <2>2, <2>3, ChangePreSettingIs
<1>2. CASE index + 1 \notin DOMAIN S!PresetOf
  BY <1>2 DEF S!ChoosePreSetting
<1> QED
  BY <1>1, <1>2

(* The screen as it is to be.                                               *)
GoodScreen(s) == IsScreen(s) /\ Agrees(s) /\ PresetInUse(s) /\ IsPainted(s)

LEMMA SetViewModeGood ==
  ASSUME NEW s, IsScreen(s), Agrees(s), PresetInUse(s), NEW index,
         NEW u, u = S!SetViewMode(s, index)
  PROVE  /\ IsScreen(u) /\ Agrees(u) /\ PresetInUse(u) /\ u.custom = s.custom
         /\ IsPainted(s) => IsPainted(u)
<1>1. CASE s.viewMode = index
  BY <1>1 DEF S!SetViewMode
<1>2. CASE s.viewMode # index
  <2> DEFINE t == [s EXCEPT !.viewMode = index]
             z == S!ChoosePreSetting(t, index)
  <2>1. u = S!Refresh(z)
    BY <1>2 DEF S!SetViewMode, S!ChangeViewMode
  <2>2. t = [spectrum |-> s.spectrum, panel |-> s.panel, viewMode |-> index,
             custom |-> s.custom, painted |-> s.painted]
    BY DEF IsScreen
  <2>3. z = S!ChoosePreSetting(t, index)
    OBVIOUS
  <2> HIDE DEF t, z
  <2>4. t.spectrum = s.spectrum /\ t.panel = s.panel /\ t.custom = s.custom
    BY <2>2
  <2>5. IsScreen(t) /\ Agrees(t) /\ PresetInUse(t)
    BY <2>2, <2>4 DEF IsScreen, Agrees, PresetInUse
  <2>6. IsScreen(z) /\ Agrees(z) /\ PresetInUse(z) /\ z.custom = t.custom
    BY <2>3, <2>5, ChoosePreSettingIs
  <2>7. /\ IsScreen(u) /\ IsPainted(u) /\ u.spectrum = z.spectrum /\ u.panel = z.panel
        /\ u.custom = z.custom
    BY <2>1, <2>6, RefreshIs
  <2> QED
    BY <2>4, <2>6, <2>7 DEF Agrees, PresetInUse
<1> QED
  BY <1>1, <1>2

(* A change by the user leaves no preset.                                   *)
LEMMA EnterGood ==
  ASSUME NEW s, IsScreen(s), Agrees(s), PresetInUse(s), NEW f \in {"min", "max"}, NEW v,
         NEW u, u = S!SetSpin(s, f, v, "custom")
  PROVE  /\ IsScreen(u) /\ Agrees(u) /\ PresetInUse(u) /\ (IsPainted(s) => IsPainted(u))
         /\ u.viewMode = s.viewMode /\ u.custom = s.custom
         /\ u.spectrum[f] = Within(v)
         /\ u.panel["view"] \in {s.panel["view"], "custom"}
<1>0. f \in Fields
  BY DEF Fields
<1>1. /\ IsScreen(u) /\ Agrees(u) /\ (IsPainted(s) => IsPainted(u))
      /\ u.viewMode = s.viewMode /\ u.custom = s.custom
      /\ \A g \in Fields : u.spectrum[g] = IF g = f THEN Within(v) ELSE s.spectrum[g]
      /\ u.panel["view"] = IF s.spectrum[f] = Within(v) THEN s.panel["view"] ELSE "custom"
  BY SetSpinIs
<1>2. CASE s.spectrum[f] = Within(v)
  <2>1. \A g \in Fields : u.spectrum[g] = s.spectrum[g]
    BY <1>1, <1>2
  <2> QED
    BY <1>0, <1>1, <1>2, <2>1 DEF PresetInUse, Fields
<1>3. CASE s.spectrum[f] # Within(v)
  BY <1>0, <1>1, <1>3, CustomIsNoPreset DEF PresetInUse
<1> QED
  BY <1>2, <1>3

LEMMA ClickGood ==
  ASSUME NEW s, GoodScreen(s), NEW f \in Fields, NEW v,
         NEW t, t = [s EXCEPT !.panel[f] = v], NEW u, u = S!Change(t, f, "custom")
  PROVE  GoodScreen(u)
<1>0. f \in PanelFields /\ IsScreen(s) /\ Agrees(s) /\ IsPainted(s)
  BY DEF PanelFields, GoodScreen
<1>1. /\ IsScreen(t) /\ IsPainted(t)
      /\ t.spectrum = s.spectrum /\ t.viewMode = s.viewMode /\ t.custom = s.custom
      /\ \A g \in PanelFields : t.panel[g] = IF g = f THEN v ELSE s.panel[g]
  BY <1>0, SetPanelIs
<1>2. /\ IsScreen(u) /\ IsPainted(u)
      /\ \A g \in Fields : u.spectrum[g] = IF g = f THEN t.panel[f] ELSE t.spectrum[g]
      /\ \A g \in Fields : u.panel[g] = t.panel[g]
      /\ u.panel["view"] = "custom"
  <2>1. u = S!Change(t, f, "custom") /\ f \in Fields
    OBVIOUS
  <2> QED
    BY ONLY <1>1, <2>1, ChangeIs
<1>3. Agrees(u)
  BY <1>0, <1>1, <1>2 DEF Agrees, PanelFields
<1>4. PresetInUse(u)
  BY <1>2, CustomIsNoPreset DEF PresetInUse
<1> QED
  BY <1>2, <1>3, <1>4 DEF GoodScreen

-----------------------------------------------------------------------------
LEMMA LeastElement ==
  ASSUME NEW T, IsFiniteSet(T), T \subseteq Int, T # {}
  PROVE  \E x \in T : \A y \in T : x <= y
<1> DEFINE Without == {n \in Nat : \E U \in SUBSET T : /\ U # {} /\ Cardinality(U) = n
                                                    /\ ~\E x \in U : \A y \in U : x <= y}
<1> SUFFICES ASSUME Without # {} PROVE FALSE
  <2>1. Cardinality(T) \in Nat
    BY FS_CardinalityType
  <2> QED
    BY <2>1
<1>1. PICK n \in Without : \A k \in Without : n <= k
  <2> DEFINE Less == OpToRel(<, Nat)
  <2>1. IsWellFoundedOn(Less, Nat)
    BY NatLessThanWellFounded
  <2>2. \A x, y \in Nat : <<x, y>> \in Less <=> x < y
    BY DEF OpToRel
  <2>3. Without \subseteq Nat
    OBVIOUS
  <2> HIDE DEF Less, Without
  <2>4. PICK n \in Without : \A k \in Without : ~(<<k, n>> \in Less)
    BY <2>1, <2>3, WFMin
  <2>5. ASSUME NEW k \in Without PROVE n <= k
    <3>1. n \in Nat /\ k \in Nat /\ ~(k < n)
      BY <2>2, <2>3, <2>4
    <3> QED
      BY <3>1
  <2> QED
    BY <2>5
<1>2. \A k \in Without : n <= k
  BY <1>1
<1>3. PICK U \in SUBSET T : /\ U # {} /\ Cardinality(U) = n
                           /\ ~\E x \in U : \A y \in U : x <= y
  BY <1>1
<1>4. PICK z \in U : TRUE
  BY <1>3
<1>5. IsFiniteSet(U)
  BY <1>3, FS_Subset
<1>6. /\ IsFiniteSet(U \ {z}) /\ Cardinality(U \ {z}) = n - 1 /\ n \in Nat
  BY <1>1, <1>3, <1>4, <1>5, FS_RemoveElement
<1>7. CASE U \ {z} = {}
  BY <1>3, <1>4, <1>7
<1>8. CASE U \ {z} # {}
  <2>1. Cardinality(U \ {z}) \in Nat
    BY <1>6, FS_CardinalityType
  <2>2. n - 1 \notin Without
    BY <1>2, <1>6
  <2>3. PICK x \in U \ {z} : \A y \in U \ {z} : x <= y
    BY <1>3, <1>6, <1>8, <2>1, <2>2
  <2>4. x \in Int /\ z \in Int /\ \A y \in U : y \in Int
    BY <1>3, <1>4, <2>3
  <2>5. CASE x <= z
    BY <1>3, <2>3, <2>4, <2>5
  <2>6. CASE z < x
    BY <1>3, <1>4, <2>3, <2>4, <2>6
  <2> QED
    BY <2>4, <2>5, <2>6
<1> QED
  BY <1>7, <1>8

(* The range of a custom map begins at 0 or below.                          *)
ValuesOf(map) == {l[2] : l \in {k \in S!Range(map) : S!OfModule(k)}}

LEMMA CustomRange ==
  ASSUME NEW map \in CustomMaps
  PROVE  LET m == S!Scaled(S!Min(ValuesOf(map) \cup {0})) IN m \in Int /\ m <= 0
<1> DEFINE J == {i \in DOMAIN map : S!OfModule(map[i])}
           g == [i \in J |-> map[i][2]]
           V == ValuesOf(map)
           W == V \cup {0}
<1>1. IsFiniteSet(J)
  BY DialogsAssumption, FS_Subset DEF DialogsAssumption
<1>2. V = {map[i][2] : i \in J}
  BY DEF ValuesOf, S!Range
<1>3. g \in Surjection(J, V)
  BY <1>2 DEF Surjection
<1> HIDE DEF V
<1>4. IsFiniteSet(V)
  BY <1>1, <1>3, FS_Surjection
<1>5. V \subseteq Int
  BY <1>2, DialogsAssumption DEF DialogsAssumption
<1>6. IsFiniteSet(W) /\ W \subseteq Int /\ W # {} /\ 0 \in W
  BY <1>4, <1>5, FS_AddElement
<1> HIDE DEF W
<1>7. S!Min(W) \in W /\ \A y \in W : S!Min(W) <= y
  BY <1>6, LeastElement DEF S!Min
<1>8. S!Min(W) \in Int /\ S!Min(W) <= 0
  BY <1>6, <1>7
<1>9. \A k \in Int : k <= 0 => (13 * k) \div 10 \in Int /\ (13 * k) \div 10 <= 0
  BY SMTT(30)
<1> QED
  BY <1>8, <1>9 DEF S!Scaled, W, V

LEMMA ReadCustomGood ==
  ASSUME NEW s, GoodScreen(s), NEW map \in CustomMaps, NEW u, u = S!ReadCustomValue(s, map)
  PROVE  GoodScreen(u)
<1> DEFINE low == S!Scaled(S!Min(ValuesOf(map) \cup {0}))
           high == S!Scaled(S!Max(ValuesOf(map) \cup {1}))
           a == [s EXCEPT !.custom = S!CustomOf(map)]
           b == S!SetViewMode(a, S!CustomView)
           c == S!SetSpin(b, "min", low, "custom")
           d == S!SetSpin(c, "max", high, "custom")
           e == [d EXCEPT !.panel["scale"] = "Linear"]
           h == S!SetSpectrum(e, "scale", "Linear")
<1>0. IsScreen(s) /\ Agrees(s) /\ PresetInUse(s)
  BY DEF GoodScreen
<1>1. u = S!Refresh(h)
  BY DEF S!ReadCustomValue, S!SetSpectrumRange, S!SetLinearScale, ValuesOf
<1>2. low \in Int /\ low <= 0
  BY CustomRange
<1>3. /\ b = S!SetViewMode(a, S!CustomView) /\ c = S!SetSpin(b, "min", low, "custom")
      /\ d = S!SetSpin(c, "max", high, "custom") /\ e = [d EXCEPT !.panel["scale"] = "Linear"]
      /\ h = S!SetSpectrum(e, "scale", "Linear")
  OBVIOUS
<1>4. a = [spectrum |-> s.spectrum, panel |-> s.panel, viewMode |-> s.viewMode,
           custom |-> S!CustomOf(map), painted |-> s.painted]
  BY <1>0 DEF IsScreen
<1> HIDE DEF low, high, a, b, c, d, e, h
<1>5. IsScreen(a) /\ Agrees(a) /\ PresetInUse(a)
  <2>1. a.spectrum = s.spectrum /\ a.panel = s.panel
    BY <1>4
  <2> QED
    BY <1>0, <1>4, <2>1 DEF IsScreen, Agrees, PresetInUse
<1>6. IsScreen(b) /\ Agrees(b) /\ PresetInUse(b)
  BY ONLY <1>3, <1>5, SetViewModeGood
<1>7. /\ IsScreen(c) /\ Agrees(c) /\ PresetInUse(c) /\ c.spectrum["min"] = Within(low)
  BY ONLY <1>3, <1>6, EnterGood
<1>8. c.panel["view"] \notin {"energy", "occupancy"}
  <2>1. Within(low) \in Int /\ Within(low) <= 0
    BY <1>2, WithinIs
  <2>2. CASE c.panel["view"] \in {"energy", "occupancy"}
    <3>1. c.panel["view"] \in DOMAIN S!Presets /\ S!Presets[c.panel["view"]]["min"] = 1
      BY <2>2 DEF S!Presets
    <3>2. c.spectrum["min"] = 1
      BY <1>7, <3>1 DEF PresetInUse
    <3> QED
      BY <1>7, <2>1, <3>2
  <2> QED
    BY <2>2
<1>9. /\ IsScreen(d) /\ Agrees(d) /\ PresetInUse(d)
      /\ d.panel["view"] \in {c.panel["view"], "custom"}
  BY ONLY <1>3, <1>7, EnterGood
<1>10. /\ IsScreen(e) /\ e.spectrum = d.spectrum
       /\ \A g \in PanelFields : e.panel[g] = IF g = "scale" THEN "Linear" ELSE d.panel[g]
  <2>1. "scale" \in PanelFields
    BY DEF PanelFields, Fields
  <2> QED
    BY ONLY <1>3, <1>9, <2>1, SetPanelIs
<1>11. /\ IsScreen(h) /\ h.panel = e.panel
       /\ \A g \in Fields : h.spectrum[g] = IF g = "scale" THEN "Linear" ELSE d.spectrum[g]
  <2>1. "scale" \in Fields
    BY DEF Fields
  <2>2. h = S!SetSpectrum(e, "scale", "Linear") /\ IsScreen(e)
    BY <1>3, <1>10
  <2>3. /\ IsScreen(h) /\ h.panel = e.panel
        /\ \A g \in Fields : h.spectrum[g] = IF g = "scale" THEN "Linear" ELSE e.spectrum[g]
    BY ONLY <2>1, <2>2, SetSpectrumIs
  <2> QED
    BY <1>10, <2>3
<1>12. Agrees(h)
  BY <1>9, <1>10, <1>11 DEF Agrees, PanelFields, Fields
<1>13. PresetInUse(h)
  <2> SUFFICES ASSUME NEW v \in DOMAIN S!Presets, h.panel["view"] = v
               PROVE  \A f \in {"scale", "min", "max"} : h.spectrum[f] = S!Presets[v][f]
    BY DEF PresetInUse
  <2>1. d.panel["view"] = v
    BY <1>10, <1>11 DEF PanelFields, Fields
  <2>2. v \notin {"energy", "occupancy"}
    BY <1>8, <1>9, <2>1, CustomIsNoPreset
  <2>3. S!Presets[v]["scale"] = "Linear"
    BY <2>2 DEF S!Presets
  <2>4. \A f \in {"scale", "min", "max"} : d.spectrum[f] = S!Presets[v][f]
    BY <1>9, <2>1 DEF PresetInUse
  <2> QED
    BY <1>11, <2>3, <2>4 DEF Fields
<1>14. /\ IsScreen(u) /\ IsPainted(u) /\ u.spectrum = h.spectrum /\ u.panel = h.panel
  BY ONLY <1>1, <1>11, RefreshIs
<1> QED
  BY <1>12, <1>13, <1>14 DEF GoodScreen, Agrees, PresetInUse

LEMMA SpectrumInit ==
  ASSUME S!Init
  PROVE  GoodScreen(screen)
<1> DEFINE d == S!Default
           c == S!Connected
           p == S!ChoosePreSetting(c, 0)
<1>1. d = [type |-> "Rainbow1", scale |-> "Log", min |-> 1, max |-> 100]
  BY DEF S!Default
<1>2. c = [spectrum |-> d,
           panel |-> [type |-> d.type, scale |-> d.scale, min |-> d.min, max |-> d.max,
                      view |-> "custom"],
           viewMode |-> 0, custom |-> S!NoCustom,
           painted |-> [by |-> d, viewMode |-> 0, custom |-> S!NoCustom]]
  BY DEF S!Connected, S!PanelOf
<1>3. p = S!ChoosePreSetting(c, 0) /\ screen = S!Refresh(p)
  BY DEF S!Init
<1> HIDE DEF c, d, p
<1>4. IsScreen(c)
  BY <1>1, <1>2 DEF IsScreen, Fields, PanelFields
<1>5. Agrees(c) /\ PresetInUse(c)
  BY <1>1, <1>2, CustomIsNoPreset DEF Agrees, PresetInUse, Fields
<1>6. IsScreen(p) /\ Agrees(p) /\ PresetInUse(p)
  BY ONLY <1>3, <1>4, <1>5, ChoosePreSettingIs
<1>7. /\ IsScreen(screen) /\ IsPainted(screen)
      /\ screen.spectrum = p.spectrum /\ screen.panel = p.panel
  BY ONLY <1>3, <1>6, RefreshIs
<1> QED
  BY <1>6, <1>7 DEF GoodScreen, Agrees, PresetInUse

LEMMA ClickPreSettingGood ==
  ASSUME NEW s, GoodScreen(s), NEW v \in DOMAIN S!Presets,
         NEW u, u = S!ChangePreSetting([s EXCEPT !.panel.view = v])
  PROVE  GoodScreen(u)
<1> DEFINE t == [s EXCEPT !.panel.view = v]
<1>1. t = [s EXCEPT !.panel.view = v] /\ u = S!ChangePreSetting(t)
      /\ IsScreen(s) /\ Agrees(s) /\ IsPainted(s)
  BY DEF GoodScreen
<1> HIDE DEF t
<1>2. IsScreen(t) /\ Agrees(t) /\ IsPainted(t) /\ t.panel["view"] = v
  BY ONLY <1>1, SetViewIs
<1> QED
  <2>1. t.panel["view"] \in DOMAIN S!Presets /\ u = S!ChangePreSetting(t)
    BY <1>1, <1>2
  <2>2. IsScreen(u) /\ Agrees(u) /\ PresetInUse(u) /\ IsPainted(u)
    BY ONLY <1>2, <2>1, ChangePreSettingIs
  <2> QED
    BY <2>2 DEF GoodScreen

LEMMA ClickCustomGood ==
  ASSUME NEW s, GoodScreen(s), NEW u, u = [s EXCEPT !.panel.view = "custom"]
  PROVE  GoodScreen(u)
<1>1. IsScreen(s) /\ Agrees(s) /\ IsPainted(s)
  BY DEF GoodScreen
<1>2. IsScreen(u) /\ Agrees(u) /\ IsPainted(u) /\ u.panel["view"] = "custom"
  <2>1. u = [s EXCEPT !.panel.view = "custom"]
    OBVIOUS
  <2> QED
    BY ONLY <1>1, <2>1, SetViewIs
<1> QED
  BY <1>2, CustomIsNoPreset DEF GoodScreen, PresetInUse

LEMMA SpectrumStep ==
  ASSUME GoodScreen(screen), S!Next
  PROVE  GoodScreen(screen')
<1>0. IsScreen(screen) /\ Agrees(screen) /\ PresetInUse(screen) /\ IsPainted(screen)
  BY DEF GoodScreen
<1>1. CASE S!ClickType
  <2>1. PICK t \in ColorTypes :
          screen' = S!Change([screen EXCEPT !.panel.type = t], "type", "custom")
    BY <1>1 DEF S!ClickType
  <2>2. "type" \in Fields
    BY DEF Fields
  <2> QED
    BY ONLY GoodScreen(screen), <2>1, <2>2, ClickGood
<1>2. CASE S!ClickScale
  <2>1. PICK c \in {"Linear", "Log"} :
          screen' = S!Change([screen EXCEPT !.panel.scale = c], "scale", "custom")
    BY <1>2 DEF S!ClickScale
  <2>2. "scale" \in Fields
    BY DEF Fields
  <2> QED
    BY ONLY GoodScreen(screen), <2>1, <2>2, ClickGood
<1>3. CASE S!EnterRange
  <2>1. PICK f \in {"min", "max"}, v \in SpinValues : screen' = S!SetSpin(screen, f, v, "custom")
    BY <1>3 DEF S!EnterRange
  <2> QED
    BY ONLY <1>0, <2>1, EnterGood DEF GoodScreen
<1>4. CASE S!ClickPreSetting
  <2>1. PICK v \in DOMAIN S!Presets : screen' = S!ChangePreSetting([screen EXCEPT !.panel.view = v])
    BY <1>4 DEF S!ClickPreSetting
  <2> QED
    BY ONLY GoodScreen(screen), <2>1, ClickPreSettingGood
<1>5. CASE S!ClickCustomView
  <2>1. screen' = [screen EXCEPT !.panel.view = "custom"]
    BY <1>5 DEF S!ClickCustomView
  <2> QED
    BY ONLY GoodScreen(screen), <2>1, ClickCustomGood
<1>6. CASE S!ChooseViewMode
  <2>1. PICK index \in ViewModes : screen' = S!SetViewMode(screen, index)
    BY <1>6 DEF S!ChooseViewMode
  <2> QED
    BY ONLY <1>0, <2>1, SetViewModeGood DEF GoodScreen
<1>7. CASE S!OpenCustomMap
  <2>1. PICK map \in CustomMaps : screen' = S!ReadCustomValue(screen, map)
    BY <1>7 DEF S!OpenCustomMap
  <2> QED
    BY ONLY GoodScreen(screen), <2>1, ReadCustomGood
<1> QED
  BY <1>1, <1>2, <1>3, <1>4, <1>5, <1>6, <1>7 DEF S!Next

LEMMA SpectrumShown ==
  ASSUME GoodScreen(screen)
  PROVE  S!PanelShowsSpectrum /\ S!PaintedAsSet
<1>1. IsScreen(screen) /\ Agrees(screen) /\ PresetInUse(screen) /\ IsPainted(screen)
  BY DEF GoodScreen
<1>2. DOMAIN screen.spectrum = Fields
  BY <1>1 DEF IsScreen
<1>3. \A v \in DOMAIN S!Presets : DOMAIN S!Presets[v] = {"scale", "min", "max"}
  BY DEF S!Presets
<1> QED
  BY <1>1, <1>2, <1>3 DEF S!PanelShowsSpectrum, S!PaintedAsSet, Agrees, PresetInUse, IsPainted

-----------------------------------------------------------------------------
(* Coordinates of all detectors; the database; coordinates that are in use; *)
(* a copy of them; and what the box shows of it.                            *)
IsCoords(c) == c \in [Detectors -> [run : Nat, x : Int]]
MaybeCoords(c) == c = R!NoCoords \/ IsCoords(c)

IsData(data) ==
  /\ IsFiniteSet(DOMAIN data) /\ DOMAIN data \subseteq Nat
  /\ \A r \in DOMAIN data : IsCoords(data[r])

IsUsed(c, data) == c = R!NoCoords \/ (IsCoords(c) /\ \E r \in DOMAIN data : data[r] = c)

IsCopy(c, current, kept) ==
  /\ MaybeCoords(c) /\ (IsCoords(c) => IsCoords(current))
  /\ \A d \in DOMAIN c \ kept : c[d] = current[d]

IsShown(c, type, box, changed) ==
  /\ type \in Detectors \cup {R!None} /\ (type # R!None => IsCoords(c))
  /\ box \in Int /\ R!InBox(box) = box
  /\ type # R!None /\ ~changed => box = R!InBox(c[type].x)

Ready == /\ IsData(coords_data) /\ IsUsed(current_coord, coords_data)
         /\ IsCopy(det_coords, current_coord, pending)
         /\ IsShown(det_coords, type_index, coord_box, edited)

LEMMA CoordsDomain ==
  /\ 1 \in Detectors /\ R!None \notin Detectors /\ DOMAIN R!NoCoords = {}
  /\ \A c : IsCoords(c) => DOMAIN c = Detectors /\ c # R!NoCoords
<1>1. 1 \in Detectors /\ Detectors \subseteq Nat
  BY DialogsAssumption DEF DialogsAssumption
<1>2. DOMAIN R!NoCoords = {}
  BY DEF R!NoCoords
<1>3. \A c : IsCoords(c) => DOMAIN c = Detectors
  BY DEF IsCoords
<1> QED
  BY <1>1, <1>2, <1>3 DEF R!None

(* The box shows what it shows.                                             *)
LEMMA BoxIs ==
  ASSUME NEW x \in Int
  PROVE  R!InBox(x) \in Int /\ R!InBox(R!InBox(x)) = R!InBox(x)
<1> DEFINE v(y) == ((y + 50) \div 100) * 100
<1>1. PICK n \in Int : v(x) = n * 100
  <2>1. (x + 50) \div 100 \in Int
    OBVIOUS
  <2> QED
    BY <2>1
<1>2. \A m \in Int : v(m * 100) = m * 100
  OBVIOUS
<1> HIDE DEF v
<1>3. \A y : R!InBox(y) = IF v(y) > 20000000 THEN 20000000
                         ELSE IF v(y) < -20000000 THEN -20000000 ELSE v(y)
  BY DEF R!InBox, v
<1>4. PICK m \in Int : R!InBox(x) = m * 100 /\ m * 100 <= 20000000 /\ m * 100 >= -20000000
  <2>1. CASE n * 100 > 20000000
    BY <1>1, <1>3, <2>1
  <2>2. CASE n * 100 < -20000000
    BY <1>1, <1>3, <2>2
  <2>3. CASE n * 100 <= 20000000 /\ n * 100 >= -20000000
    BY <1>1, <1>3, <2>3
  <2> QED
    BY <2>1, <2>2, <2>3
<1>5. R!InBox(m * 100) = m * 100
  BY <1>2, <1>3, <1>4
<1> QED
  BY <1>4, <1>5

LEMMA LeastIs ==
  ASSUME NEW data, IsData(data), DOMAIN data # {}
  PROVE  R!Min(DOMAIN data) \in DOMAIN data
<1>1. IsFiniteSet(DOMAIN data) /\ DOMAIN data \subseteq Int
  BY DEF IsData
<1> QED
  BY <1>1, LeastElement DEF R!Min

(* Whatever is selected is in the database.                                 *)
LEMMA ChosenIs ==
  ASSUME NEW data, IsData(data), NEW c, IsUsed(c, data), NEW r
  PROVE  /\ IsUsed(R!ChooseCoord(data, c, r), data)
         /\ DOMAIN data # {} => IsCoords(R!ChooseCoord(data, c, r))
<1>1. CASE DOMAIN data = {}
  BY <1>1 DEF R!ChooseCoord
<1>2. CASE DOMAIN data # {}
  <2>1. PICK m \in DOMAIN data : R!ChooseCoord(data, c, r) = data[m]
    BY <1>2, LeastIs DEF R!ChooseCoord, R!Least
  <2> QED
    BY <2>1 DEF IsUsed, IsData
<1> QED
  BY <1>1, <1>2

LEMMA LoadedIs ==
  ASSUME NEW f \in CoordFiles
  PROVE  /\ IsData(R!Loaded(f)) /\ IsUsed(R!NoCoords, R!Loaded(f))
         /\ IsUsed(R!ChooseCoord(R!Loaded(f), R!NoCoords, 0), R!Loaded(f))
<1> DEFINE data == R!Loaded(f)
<1>1. DOMAIN data = DOMAIN f
  BY DEF R!Loaded
<1>2. /\ IsFiniteSet(DOMAIN f) /\ DOMAIN f \subseteq Nat
      /\ \A r \in DOMAIN f : \A d \in DOMAIN f[r] : f[r][d] \in Int
  BY DialogsAssumption DEF DialogsAssumption
<1>3. ASSUME NEW r \in DOMAIN f PROVE IsCoords(data[r])
  <2>1. data[r] = [d \in Detectors |-> IF d \in DOMAIN f[r] THEN [run |-> r, x |-> f[r][d]]
                                       ELSE [run |-> 0, x |-> 0]]
    BY DEF R!Loaded, R!Unset
  <2>2. r \in Nat
    BY <1>2
  <2>3. \A d \in Detectors : (IF d \in DOMAIN f[r] THEN [run |-> r, x |-> f[r][d]]
                              ELSE [run |-> 0, x |-> 0]) \in [run : Nat, x : Int]
    BY <1>2, <2>2
  <2> QED
    BY <2>1, <2>3 DEF IsCoords
<1> HIDE DEF data
<1>4. IsData(data) /\ IsUsed(R!NoCoords, data)
  BY <1>1, <1>2, <1>3 DEF IsData, IsUsed
<1> QED
  BY <1>4, ChosenIs DEF data

(* What is stored is in use then, and is the copy.                          *)
LEMMA StoredIs ==
  ASSUME NEW data, IsData(data), NEW c, MaybeCoords(c),
         NEW s, s = R!SetCurrentCoord(data, c)
  PROVE  /\ IsData(s[1]) /\ IsUsed(s[2], s[1]) /\ IsCoords(s[2])
         /\ IsCopy(c, s[2], {})
<1> DEFINE current == [d \in Detectors |-> IF d \in DOMAIN c THEN c[d] ELSE R!Unset]
           run == current[1].run
           new == [r \in DOMAIN data \cup {run} |-> IF r = run THEN current ELSE data[r]]
<1>1. s = <<new, current>>
  BY DEF R!SetCurrentCoord
<1>2. IsCoords(current) /\ (c # R!NoCoords => c = current)
  <2>1. CASE c = R!NoCoords
    BY <2>1, CoordsDomain DEF R!Unset, IsCoords
  <2>2. CASE IsCoords(c)
    BY <2>2, CoordsDomain DEF IsCoords
  <2> QED
    BY <2>1, <2>2 DEF MaybeCoords
<1>3. run \in Nat
  BY <1>2, CoordsDomain DEF IsCoords
<1>4. /\ DOMAIN new = DOMAIN data \cup {run} /\ new[run] = current
      /\ \A r \in DOMAIN data : r # run => new[r] = data[r]
  OBVIOUS
<1> HIDE DEF new, current, run
<1>5. IsData(new)
  <2>1. IsFiniteSet(DOMAIN new)
    BY <1>4, FS_AddElement DEF IsData
  <2> QED
    BY <1>2, <1>3, <1>4, <2>1 DEF IsData
<1>6. IsUsed(current, new)
  BY <1>2, <1>4 DEF IsUsed
<1>7. IsCopy(c, current, {})
  BY <1>2, CoordsDomain DEF IsCopy, MaybeCoords
<1> QED
  BY <1>1, <1>2, <1>5, <1>6, <1>7

(* A copy is shown again.                                                   *)
LEMMA ShownIs ==
  ASSUME NEW c, NEW type \in Detectors \cup {R!None}, MaybeCoords(c),
         type # R!None => IsCoords(c), NEW changed
  PROVE  IsShown(c, type, R!Shown(c, type), changed)
<1>1. CASE type \in DOMAIN c
  <2>1. IsCoords(c) /\ type \in Detectors
    BY <1>1, CoordsDomain DEF MaybeCoords
  <2>2. c[type].x \in Int
    BY <2>1 DEF IsCoords
  <2>3. R!Shown(c, type) = R!InBox(c[type].x)
    BY <1>1 DEF R!Shown
  <2> QED
    BY <2>2, <2>3, BoxIs DEF IsShown
<1>2. CASE type \notin DOMAIN c
  <2>1. type = R!None
    BY <1>2, CoordsDomain
  <2>2. R!Shown(c, type) = 0 /\ R!InBox(0) = 0
    BY <1>2 DEF R!Shown, R!InBox
  <2> QED
    BY <2>1, <2>2 DEF IsShown
<1> QED
  BY <1>1, <1>2

(* The shown value is saved in the copy.                                    *)
LEMMA SavedIs ==
  ASSUME Ready
  PROVE  /\ MaybeCoords(R!Saved) /\ IsCopy(R!Saved, current_coord, pending \cup {type_index})
         /\ IsShown(R!Saved, type_index, coord_box, FALSE)
<1> DEFINE t == type_index
           c == det_coords
<1>1. CASE t \in DOMAIN c
  <2>1. IsCoords(c) /\ t \in Detectors /\ DOMAIN c = Detectors
    BY <1>1, CoordsDomain DEF Ready, IsCopy, MaybeCoords
  <2>2. R!Saved = [c EXCEPT ![t].x = coord_box]
    BY <1>1 DEF R!Saved
  <2>3. coord_box \in Int /\ R!InBox(coord_box) = coord_box
    BY DEF Ready, IsShown
  <2>4. IsCoords(R!Saved)
    BY <2>1, <2>2, <2>3 DEF IsCoords
  <2>5. R!Saved[t].x = coord_box /\ \A d \in Detectors : d # t => R!Saved[d] = c[d]
    BY <2>1, <2>2 DEF IsCoords
  <2>6. DOMAIN R!Saved = Detectors
    BY <2>4, CoordsDomain
  <2>7. IsCopy(R!Saved, current_coord, pending \cup {t})
    BY <2>1, <2>4, <2>5, <2>6 DEF Ready, IsCopy, MaybeCoords
  <2> QED
    BY <2>1, <2>3, <2>4, <2>5, <2>7 DEF IsShown, MaybeCoords
<1>2. CASE t \notin DOMAIN c
  <2>1. R!Saved = c
    BY <1>2 DEF R!Saved
  <2>2. t = R!None
    BY <1>2, CoordsDomain DEF Ready, IsShown
  <2> QED
    BY <2>1, <2>2 DEF Ready, IsShown, IsCopy
<1> QED
  BY <1>1, <1>2

(* The boxes are filled from the database.                                  *)
LEMMA ConnectReady ==
  ASSUME NEW STATE data, NEW STATE c, IsData(data), IsUsed(c, data),
         R!ConnectCoordSystem(data, c)
  PROVE  Ready'
<1> DEFINE new == R!ChooseCoord(data, c, 0)
           type == IF new = R!NoCoords THEN R!None ELSE 1
<1>1. /\ coords_data' = data /\ current_coord' = new /\ det_coords' = new /\ pending' = {}
      /\ type_index' = type /\ coord_box' = R!Shown(new, 1) /\ edited' = FALSE
  BY DEF R!ConnectCoordSystem
<1>2. IsUsed(new, data)
  BY ChosenIs
<1>3. MaybeCoords(new) /\ IsCopy(new, new, {})
  BY <1>2 DEF IsUsed, MaybeCoords, IsCopy
<1> HIDE DEF new
<1>4. R!Shown(new, 1) = R!Shown(new, type)
  BY CoordsDomain DEF R!Shown
<1>5. type \in Detectors \cup {R!None} /\ (type # R!None => IsCoords(new))
  BY <1>3, CoordsDomain DEF MaybeCoords
<1> HIDE DEF type
<1>6. IsShown(new, type, R!Shown(new, 1), FALSE)
  BY <1>3, <1>4, <1>5, ShownIs
<1> QED
  BY <1>1, <1>2, <1>3, <1>6 DEF Ready

LEMMA ReadyInit ==
  ASSUME R!Init
  PROVE  Ready
<1>1. PICK f \in CoordFiles : /\ coords_data = R!Loaded(f)
                             /\ current_coord = R!ChooseCoord(R!Loaded(f), R!NoCoords, 0)
  BY DEF R!Init
<1>2. IsData(coords_data) /\ IsUsed(current_coord, coords_data)
  BY <1>1, LoadedIs
<1>3. /\ det_coords = current_coord /\ pending = {}
      /\ type_index = (IF current_coord = R!NoCoords THEN R!None ELSE 1)
      /\ coord_box = R!Shown(current_coord, 1) /\ edited = FALSE
  BY DEF R!Init
<1>4. MaybeCoords(current_coord) /\ IsCopy(current_coord, current_coord, {})
  BY <1>2 DEF IsUsed, MaybeCoords, IsCopy
<1>5. R!Shown(current_coord, 1) = R!Shown(current_coord, type_index)
  BY <1>3, CoordsDomain DEF R!Shown
<1>6. type_index \in Detectors \cup {R!None} /\ (type_index # R!None => IsCoords(current_coord))
  BY <1>3, <1>4, CoordsDomain DEF MaybeCoords
<1>7. IsShown(current_coord, type_index, R!Shown(current_coord, 1), FALSE)
  BY <1>4, <1>5, <1>6, ShownIs
<1> QED
  BY <1>2, <1>3, <1>4, <1>7 DEF Ready

(* saveCoordFile and ApplyChanges.                                          *)
LEMMA StoreReady ==
  ASSUME Ready, det_coords' = R!Saved, pending' = {}, edited' = FALSE,
         coords_data' = R!SetCurrentCoord(coords_data, R!Saved)[1],
         current_coord' = R!SetCurrentCoord(coords_data, R!Saved)[2],
         UNCHANGED <<type_index, coord_box>>
  PROVE  Ready'
<1> DEFINE s == R!SetCurrentCoord(coords_data, R!Saved)
<1>1. /\ IsData(s[1]) /\ IsUsed(s[2], s[1]) /\ IsCoords(s[2])
      /\ IsCopy(R!Saved, s[2], {})
  BY SavedIs, StoredIs DEF Ready
<1> HIDE DEF s
<1>2. IsShown(R!Saved, type_index, coord_box, FALSE)
  BY SavedIs
<1>3. coords_data' = s[1] /\ current_coord' = s[2]
  BY DEF s
<1> QED
  BY <1>1, <1>2, <1>3 DEF Ready

(* The copy is made again of the coordinates in use.                        *)
LEMMA CopyReady ==
  ASSUME Ready, coords_data' = coords_data, IsUsed(current_coord', coords_data),
         type_index # R!None => IsCoords(current_coord'),
         det_coords' = current_coord', pending' = {}, edited' = FALSE,
         coord_box' = R!Shown(det_coords', type_index), type_index' = type_index
  PROVE  Ready'
<1>1. MaybeCoords(det_coords') /\ IsCopy(det_coords', current_coord', {})
  BY DEF IsUsed, MaybeCoords, IsCopy
<1>2. type_index \in Detectors \cup {R!None}
  BY DEF Ready, IsShown
<1>3. IsShown(det_coords', type_index, coord_box', FALSE)
  BY <1>1, <1>2, ShownIs
<1> QED
  BY <1>1, <1>3 DEF Ready

LEMMA ReadyStep ==
  ASSUME Ready, R!Next
  PROVE  Ready'
<1>0. /\ IsData(coords_data) /\ IsUsed(current_coord, coords_data)
      /\ IsCopy(det_coords, current_coord, pending)
      /\ IsShown(det_coords, type_index, coord_box, edited)
  BY DEF Ready
<1>1. CASE R!SyncSettings
  <2>1. R!ConnectCoordSystem(coords_data, current_coord)
    BY <1>1 DEF R!SyncSettings
  <2> QED
    BY <1>0, <2>1, ConnectReady
<1>2. CASE R!EditCoord
  <2>1. PICK x \in CoordValues : coord_box' = R!InBox(x)
    BY <1>2 DEF R!EditCoord
  <2>2. x \in Int
    BY DialogsAssumption DEF DialogsAssumption
  <2>3. coord_box' \in Int /\ R!InBox(coord_box') = coord_box'
    BY <2>1, <2>2, BoxIs
  <2>4. edited' /\ UNCHANGED <<coords_data, current_coord, det_coords, pending, type_index>>
    BY <1>2 DEF R!EditCoord
  <2> QED
    BY <1>0, <2>3, <2>4 DEF Ready, IsShown
<1>3. CASE R!changeCoordType
  <2>1. PICK t \in DOMAIN det_coords : /\ type_index' = t /\ edited' = FALSE
                                      /\ coord_box' = R!Shown(det_coords, t)
    BY <1>3 DEF R!changeCoordType
  <2>2. UNCHANGED <<coords_data, current_coord, det_coords, pending>>
    BY <1>3 DEF R!changeCoordType
  <2>3. IsCoords(det_coords) /\ t \in Detectors
    BY <1>0, <2>1, CoordsDomain DEF IsCopy, MaybeCoords
  <2>4. IsShown(det_coords, t, R!Shown(det_coords, t), FALSE)
    BY <1>0, <2>3, ShownIs DEF IsCopy
  <2> QED
    BY <1>0, <2>1, <2>2, <2>4 DEF Ready
<1>4. CASE R!selectCoordData
  <2>1. PICK r \in 0 .. Cardinality(DOMAIN coords_data) - 1 :
          current_coord' = R!ChooseCoord(coords_data, current_coord, r)
    BY <1>4 DEF R!selectCoordData, R!Cardinality, Cardinality
  <2>2. /\ det_coords' = current_coord' /\ pending' = {} /\ edited' = FALSE
        /\ coord_box' = R!Shown(det_coords', type_index)
        /\ coords_data' = coords_data /\ type_index' = type_index
    BY <1>4 DEF R!selectCoordData
  <2>3. DOMAIN coords_data # {}
    <3>1. Cardinality(DOMAIN coords_data) # 0
      BY <2>1
    <3> QED
      BY <3>1, FS_EmptySet
  <2>4. IsUsed(current_coord', coords_data) /\ IsCoords(current_coord')
    BY <1>0, <2>1, <2>3, ChosenIs
  <2> QED
    BY <2>2, <2>4, CopyReady
<1>5. CASE R!saveCoordData
  <2>1. /\ det_coords' = R!Saved /\ pending' = pending \cup {type_index} /\ edited' = FALSE
        /\ UNCHANGED <<coords_data, current_coord, type_index, coord_box>>
    BY <1>5 DEF R!saveCoordData
  <2> QED
    BY <1>0, <2>1, SavedIs DEF Ready
<1>6. CASE R!restoreCoordData
  <2>1. /\ det_coords' = current_coord' /\ pending' = {} /\ edited' = FALSE
        /\ coord_box' = R!Shown(det_coords', type_index)
        /\ UNCHANGED <<coords_data, current_coord, type_index>>
    BY <1>6 DEF R!restoreCoordData
  <2> QED
    BY <1>0, <2>1, CopyReady DEF IsShown, IsCopy
<1>7. CASE R!openCoordFile
  <2>1. PICK f \in CoordFiles :
          R!ConnectCoordSystem(R!Loaded(f), R!ChooseCoord(R!Loaded(f), R!NoCoords, 0))
    BY <1>7 DEF R!openCoordFile
  <2> QED
    BY <2>1, LoadedIs, ConnectReady
<1>8. CASE R!saveCoordFile
  BY <1>8, StoreReady DEF R!saveCoordFile
<1>9. CASE R!EditMethods
  BY <1>0, <1>9 DEF R!EditMethods, R!coord_vars, Ready
<1>10. CASE R!ApplyChanges
  BY <1>10, StoreReady DEF R!ApplyChanges
<1>11. CASE R!RestoreSettings
  BY <1>0, <1>11 DEF R!RestoreSettings, R!coord_vars, Ready
<1> QED
  BY <1>1, <1>2, <1>3, <1>4, <1>5, <1>6, <1>7, <1>8, <1>9, <1>10, <1>11 DEF R!Next

(* What a dialog shows is what is used, for any number of detectors, any    *)
(* files of coordinates and of custom maps, and any values that are entered:*)
(* the coordinates in use are stored in the database, what was not edited   *)
(* or saved is shown as it is used, rounded, and the modules are painted    *)
(* with the spectrum and the preset that the dialog shows.                  *)
THEOREM DialogsShowWhatIsUsed == DialogsSpec => []DialogsAsShown
<1> DEFINE I == Ready /\ GoodScreen(screen)
<1>1. DialogsInit => I
  BY ReadyInit, SpectrumInit DEF DialogsInit
<1>2. I /\ [DialogsNext]_<<settings_vars, screen>> => I'
  <2> SUFFICES ASSUME I, [DialogsNext]_<<settings_vars, screen>> PROVE I'
    OBVIOUS
  <2>1. CASE R!Next /\ UNCHANGED screen
    <3>1. Ready'
      BY <2>1, ReadyStep
    <3>2. GoodScreen(screen')
      BY <2>1
    <3> QED
      BY <3>1, <3>2
  <2>2. CASE S!Next /\ UNCHANGED settings_vars
    <3>1. GoodScreen(screen')
      BY <2>2, SpectrumStep
    <3>2. Ready'
      BY <2>2 DEF settings_vars, Ready
    <3> QED
      BY <3>1, <3>2
  <2>3. CASE UNCHANGED <<settings_vars, screen>>
    BY <2>3 DEF settings_vars, Ready
  <2> QED
    BY <2>1, <2>2, <2>3 DEF DialogsNext
<1>3. I => DialogsAsShown
  <2> SUFFICES ASSUME I PROVE DialogsAsShown
    OBVIOUS
  <2>1. R!UsedAreStored /\ R!BoxShowsCoord
    BY DEF Ready, IsUsed, IsCopy, IsShown, R!UsedAreStored, R!BoxShowsCoord
  <2>2. S!PanelShowsSpectrum /\ S!PaintedAsSet
    BY SpectrumShown
  <2> QED
    BY <2>1, <2>2 DEF DialogsAsShown
<1> QED
  BY <1>1, <1>2, <1>3, PTL DEF DialogsSpec
=============================================================================
