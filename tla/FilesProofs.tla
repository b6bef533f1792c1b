---------------------------- MODULE FilesProofs ----------------------------
(***************************************************************************)
(* The programs that read files of many runs, and the tagger.  Selection:  *)
(* nothing bad is selected, for every file in order and every list.        *)
(* Calibration: every cluster is counted once and the crossed pairs stay   *)
(* in step, for every directory.  Gains: those of a run are its own.       *)
(* Tagger: no two counters share a row.  DST files: a closed file gives    *)
(* back its events and its information, and a file cut short brings in at  *)
(* most one bad record, for any banks, buffer size and sequence of saves,  *)
(* replays, loads and deaths of the program.                               *)
(***************************************************************************)
EXTENDS DSTFile, EventSelect, PhysCalib, AvgGain, TaggerSystem,
        FiniteSetTheorems, WellFoundedInduction, TLAPS

(* The events before pos are those of the pack or older: the pack is in    *)
(* order and nothing that is still to be read has a smaller number.        *)
PackInOrder ==
  /\ InOrder(file) /\ InOrder(event_pack)
  /\ \A i \in 1..Len(event_pack), j \in pos..Len(file) : event_pack[i].number <= file[j].number

SelectInv == TypeOK /\ PackInOrder /\ NoBadEventSelected

(* A period whose first and last event are not bad, and that contains no   *)
(* interval of the list, has no bad event.                                 *)
LEMMA PeriodWithoutBadEvent ==
  ASSUME bad_events_list \in Seq(Intervals), NEW pack \in Seq(Events), InOrder(pack),
         NEW i \in 1..Len(pack), IsBadEvent(pack[i])
  PROVE  IsBadPeriod(pack[1], pack[Len(pack)])
<1>1. PICK b \in 1..Len(bad_events_list) : Within(pack[i].number, bad_events_list[b])
  BY DEF IsBadEvent
<1>2. bad_events_list[b] \in Intervals
  BY <1>1
<1> DEFINE first == pack[1].number
           last == pack[Len(pack)].number
           begin == bad_events_list[b].begin
           end == bad_events_list[b].end
<1>3. 1 \in 1..Len(pack) /\ Len(pack) \in 1..Len(pack)
  OBVIOUS
<1>4. \A j \in 1..Len(pack) : pack[j] \in Events
  OBVIOUS
<1>5. first \in Int /\ last \in Int /\ pack[i].number \in Int /\ begin \in Int /\ end \in Int
  BY <1>2, <1>3, <1>4 DEF Events, Intervals
<1>6. first <= pack[i].number /\ pack[i].number <= last
  BY <1>3 DEF InOrder
<1>7. begin <= pack[i].number /\ pack[i].number <= end
  BY <1>1 DEF Within
<1>8. CASE begin <= first
  <2>1. Within(first, bad_events_list[b])
    BY <1>5, <1>6, <1>7, <1>8 DEF Within
  <2> QED
    BY <2>1, <1>1 DEF IsBadPeriod, IsBadEvent
<1>9. CASE last <= end
  <2>1. Within(last, bad_events_list[b])
    BY <1>5, <1>6, <1>7, <1>9 DEF Within
  <2> QED
    BY <2>1, <1>1 DEF IsBadPeriod, IsBadEvent
<1>10. CASE first < begin /\ last > end
  BY <1>1, <1>10 DEF IsBadPeriod
<1> QED
  BY <1>5, <1>8, <1>9, <1>10

LEMMA SelectInit == Init => SelectInv
<1> SUFFICES ASSUME Init PROVE SelectInv
  OBVIOUS
<1>1. /\ file \in Seq(Events) /\ InOrder(file) /\ bad_events_list \in Seq(Intervals)
      /\ pos = 1 /\ first_sync = TRUE /\ event_pack = <<>> /\ sel = <<>> /\ mon = <<>>
  BY SelectAssumption DEF Init, SelectAssumption
<1>2. TypeOK
  BY <1>1 DEF TypeOK
<1>3. PackInOrder /\ NoBadEventSelected
  BY <1>1 DEF PackInOrder, NoBadEventSelected, InOrder
<1> QED
  BY <1>2, <1>3 DEF SelectInv

(* Appending the event just read keeps the pack in order.                  *)
LEMMA AppendEvent ==
  ASSUME TypeOK, PackInOrder, pos <= Len(file)
  PROVE  LET pack == Append(event_pack, file[pos]) IN
         /\ pack \in Seq(Events) /\ Len(pack) = Len(event_pack) + 1 /\ InOrder(pack)
         /\ \A i \in 1..Len(pack), j \in pos + 1..Len(file) : pack[i].number <= file[j].number
<1> DEFINE pack == Append(event_pack, file[pos])
<1>1. /\ file \in Seq(Events) /\ event_pack \in Seq(Events) /\ pos \in 1..Len(file)
      /\ file[pos] \in Events
  BY DEF TypeOK
<1>2. /\ pack \in Seq(Events) /\ Len(pack) = Len(event_pack) + 1
      /\ \A i \in 1..Len(event_pack) : pack[i] = event_pack[i]
      /\ pack[Len(event_pack) + 1] = file[pos]
  BY <1>1
<1>3. /\ \A j \in pos..Len(file) : file[pos].number <= file[j].number
      /\ \A i, j \in 1..Len(event_pack) : i <= j => event_pack[i].number <= event_pack[j].number
      /\ \A i \in 1..Len(event_pack), j \in pos..Len(file) :
           event_pack[i].number <= file[j].number
  BY <1>1 DEF PackInOrder, InOrder
<1>4. InOrder(pack)
  <2> SUFFICES ASSUME NEW i \in 1..Len(pack), NEW j \in 1..Len(pack), i <= j
               PROVE  pack[i].number <= pack[j].number
    BY DEF InOrder
  <2>1. CASE j <= Len(event_pack)
    BY <1>1, <1>2, <1>3, <2>1
  <2>2. CASE j = Len(event_pack) + 1 /\ i <= Len(event_pack)
    BY <1>1, <1>2, <1>3, <2>2
  <2>3. CASE i = Len(event_pack) + 1 /\ j = Len(event_pack) + 1
    <3>1. pack[i].number = file[pos].number /\ pack[j].number = file[pos].number
      BY <1>2, <2>3
    <3> QED
      BY <3>1, <1>1, <1>3
  <2> QED
    BY <1>1, <1>2, <2>1, <2>2, <2>3
<1>5. \A i \in 1..Len(pack), j \in pos + 1..Len(file) : pack[i].number <= file[j].number
  <2> SUFFICES ASSUME NEW i \in 1..Len(pack), NEW j \in pos + 1..Len(file)
               PROVE  pack[i].number <= file[j].number
    OBVIOUS
  <2>1. j \in pos..Len(file)
    BY <1>1
  <2>2. CASE i <= Len(event_pack)
    BY <1>1, <1>2, <1>3, <2>1, <2>2
  <2>3. CASE i = Len(event_pack) + 1
    BY <1>2, <1>3, <2>1, <2>3
  <2> QED
    BY <1>1, <1>2, <2>2, <2>3
<1> QED
  BY <1>2, <1>4, <1>5

(* Nothing was selected or the whole pack, which has no bad event.         *)
LEMMA WriteEventsInv ==
  ASSUME TypeOK, NoBadEventSelected, NEW pack \in Seq(Events), InOrder(pack),
         UNCHANGED bad_events_list, WriteEvents(pack)
  PROVE  /\ sel' \in Seq(Events) /\ Len(sel') <= Len(sel) + Len(pack)
         /\ NoBadEventSelected'
<1>1. sel \in Seq(Events) /\ bad_events_list \in Seq(Intervals)
  BY DEF TypeOK
<1>2. CASE IsBadPeriod(pack[1], pack[Len(pack)])
  BY <1>1, <1>2 DEF WriteEvents, NoBadEventSelected, IsBadEvent
<1>3. CASE ~IsBadPeriod(pack[1], pack[Len(pack)])
  <2>1. sel' = sel \o pack
    BY <1>3 DEF WriteEvents
  <2>2. \A i \in 1..Len(pack) : ~IsBadEvent(pack[i])
    BY <1>1, <1>3, PeriodWithoutBadEvent
  <2>3. /\ sel' \in Seq(Events) /\ Len(sel') = Len(sel) + Len(pack)
        /\ \A i \in 1..Len(sel) : sel'[i] = sel[i]
        /\ \A i \in Len(sel) + 1..Len(sel) + Len(pack) : sel'[i] = pack[i - Len(sel)]
    BY <1>1, <2>1
  <2>4. NoBadEventSelected'
    <3> DEFINE Listed(e) == \E b \in 1..Len(bad_events_list) :
                              Within(e.number, bad_events_list[b])
    <3>0. /\ \A i \in 1..Len(sel) : ~Listed(sel[i])
          /\ \A i \in 1..Len(pack) : ~Listed(pack[i])
      BY <2>2 DEF NoBadEventSelected, IsBadEvent
    <3>1. SUFFICES ASSUME NEW i \in 1..Len(sel') PROVE ~Listed(sel'[i])
      BY DEF NoBadEventSelected, IsBadEvent, Within
    <3> HIDE DEF Listed
    <3>2. CASE i <= Len(sel)
      <4>1. i \in 1..Len(sel)
        BY <2>3, <3>2
      <4> QED
        BY <4>1, <2>3, <3>0
    <3>3. CASE i > Len(sel)
      <4>1. i - Len(sel) \in 1..Len(pack) /\ sel'[i] = pack[i - Len(sel)]
        BY <1>1, <2>3, <3>3
      <4> QED
        BY <4>1, <3>0
    <3> QED
      BY <1>1, <2>3, <3>2, <3>3
  <2> QED
    BY <1>1, <2>3, <2>4
<1> QED
  BY <1>2, <1>3

LEMMA SelectStep == SelectInv /\ [Next]_vars => SelectInv'
<1> SUFFICES ASSUME SelectInv, [Next]_vars PROVE SelectInv'
  OBVIOUS
<1> USE DEF SelectInv
<1>0. /\ file \in Seq(Events) /\ bad_events_list \in Seq(Intervals)
      /\ pos \in 1..Len(file) + 1 /\ Len(file) \in Nat
      /\ event_pack \in Seq(Events) /\ sel \in Seq(Events) /\ mon \in Seq(Events)
      /\ Len(event_pack) \in Nat /\ Len(sel) \in Nat /\ Len(mon) \in Nat
      /\ Len(event_pack) + Len(sel) + Len(mon) < pos
  BY DEF TypeOK
<1>1. ASSUME Read
      PROVE  /\ pos \in 1..Len(file) /\ pos' = pos + 1 /\ file[pos] \in Events
             /\ UNCHANGED <<file, bad_events_list>>
             /\ \A j \in pos + 1..Len(file) : j \in pos..Len(file)
  BY <1>0, <1>1 DEF Read
<1>2. CASE MonitorEvent
  <2>1. Read /\ mon' = Append(mon, file[pos]) /\ UNCHANGED <<first_sync, event_pack, sel>>
    BY <1>2 DEF MonitorEvent, event
  <2>2. TypeOK'
    BY <2>1, <1>0, <1>1 DEF TypeOK
  <2>3. PackInOrder'
    BY <2>1, <1>0, <1>1 DEF PackInOrder
  <2>4. NoBadEventSelected'
    BY <2>1, <1>1 DEF NoBadEventSelected, IsBadEvent
  <2> QED
    BY <2>2, <2>3, <2>4
<1>3. CASE FirstSync
  <2>1. Read /\ event_pack' = <<>> /\ first_sync' = FALSE /\ UNCHANGED <<sel, mon>>
    BY <1>3 DEF FirstSync
  <2>0. event_pack' \in Seq(Events) /\ Len(event_pack') = 0
    BY <2>1
  <2>2. TypeOK'
    <3>1. Len(event_pack') + Len(sel') + Len(mon') < pos'
      BY <2>0, <2>1, <1>0, <1>1
    <3>2. pos' \in 1..Len(file) + 1
      BY <2>1, <1>0, <1>1
    <3>3. first_sync' \in BOOLEAN
      BY <2>1
    <3> QED
      BY <2>0, <2>1, <3>1, <3>2, <3>3, <1>0, <1>1 DEF TypeOK
  <2>3. PackInOrder'
    BY <2>1, <1>0, <1>1 DEF PackInOrder, InOrder
  <2>4. NoBadEventSelected'
    BY <2>1, <1>1 DEF NoBadEventSelected, IsBadEvent
  <2> QED
    BY <2>2, <2>3, <2>4
<1>4. CASE PhysicsEvent
  <2>1. /\ Read /\ UNCHANGED <<first_sync, sel, mon>>
        /\ event_pack' = event_pack \/ event_pack' = Append(event_pack, file[pos])
    BY <1>4 DEF PhysicsEvent, event
  <2>2. NoBadEventSelected'
    BY <2>1, <1>1 DEF NoBadEventSelected, IsBadEvent
  <2>3. CASE event_pack' = event_pack
    <3>1. TypeOK'
      BY <2>1, <2>3, <1>0, <1>1 DEF TypeOK
    <3>2. PackInOrder'
      BY <2>1, <2>3, <1>0, <1>1 DEF PackInOrder
    <3> QED
      BY <2>2, <3>1, <3>2
  <2>4. CASE event_pack' = Append(event_pack, file[pos])
    <3>1. /\ event_pack' \in Seq(Events) /\ Len(event_pack') = Len(event_pack) + 1
          /\ InOrder(event_pack')
          /\ \A i \in 1..Len(event_pack'), j \in pos + 1..Len(file) :
               event_pack'[i].number <= file[j].number
      BY <2>1, <2>4, <1>0, <1>1, AppendEvent
    <3>2. TypeOK'
      BY <2>1, <3>1, <1>0, <1>1 DEF TypeOK
    <3>3. PackInOrder'
      BY <2>1, <3>1, <1>1 DEF PackInOrder, InOrder
    <3> QED
      BY <2>2, <3>2, <3>3
  <2> QED
    BY <2>1, <2>3, <2>4
<1>5. CASE SyncEvent
  <2> DEFINE pack == Append(event_pack, file[pos])
  <2>1. /\ Read /\ UNCHANGED <<first_sync, mon>> /\ event_pack' = <<>>
        /\ WriteEvents(pack)
    BY <1>5 DEF SyncEvent, event
  <2>2. pack \in Seq(Events) /\ Len(pack) = Len(event_pack) + 1 /\ InOrder(pack)
    BY <2>1, <1>0, <1>1, AppendEvent
  <2>3. sel' \in Seq(Events) /\ Len(sel') <= Len(sel) + Len(pack) /\ NoBadEventSelected'
    BY <2>1, <2>2, <1>1, WriteEventsInv
  <2>4. TypeOK'
    BY <2>1, <2>2, <2>3, <1>0, <1>1 DEF TypeOK
  <2>5. PackInOrder'
    BY <2>1, <1>0, <1>1 DEF PackInOrder, InOrder
  <2> QED
    BY <2>3, <2>4, <2>5
<1>6. CASE UNCHANGED vars
  BY <1>6 DEF vars, TypeOK, PackInOrder, InOrder, NoBadEventSelected, IsBadEvent
<1> QED
  BY <1>2, <1>3, <1>4, <1>5, <1>6 DEF Next, Finished

(* Nothing is written twice, and no more than was read.                    *)
THEOREM SelectTypes == Spec => []TypeOK
<1>1. SelectInv => TypeOK
  BY DEF SelectInv
<1> QED
  BY SelectInit, SelectStep, <1>1, PTL DEF Spec

(* Whatever the list and whatever the file, as long as its events are in   *)
(* order, no event of the list comes into the selected file.               *)
THEOREM NothingBadSelected == Spec => []NoBadEventSelected
<1>1. SelectInv => NoBadEventSelected
  BY DEF SelectInv
<1> QED
  BY SelectInit, SelectStep, <1>1, PTL DEF Spec

-----------------------------------------------------------------------------
(* The files found are a sequence of files of the directory.                *)
LEMMA FoundFiles ==
  ASSUME NEW dir, IsFiniteSet(dir), NEW start, NEW end, NEW F, dir \subseteq F
  PROVE  FindInputFiles(dir, start, end) \subseteq Seq(F)
<1> DEFINE found == {f \in dir : start <= f.run /\ f.run <= end}
           n == Cardinality(found)
<1>1. found \subseteq dir /\ found \subseteq F
  OBVIOUS
<1>2. n \in Nat
  BY <1>1, FS_Subset, FS_CardinalityType
<1>3. FindInputFiles(dir, start, end) \subseteq [1..n -> found]
  BY DEF FindInputFiles
<1> HIDE DEF n, found
<1>4. [1..n -> found] \subseteq Seq(F)
  <2> SUFFICES ASSUME NEW s \in [1..n -> found] PROVE s \in Seq(F)
    OBVIOUS
  <2>1. s \in [1..n -> F]
    BY <1>1
  <2> QED
    BY <1>2, <2>1
<1> QED
  BY <1>3, <1>4

PhysTypes ==
  /\ inputFiles \in Seq(PhysFiles) /\ Ebeam \in Int
  /\ opened \in Nat \ {0} /\ row \in Nat \ {0} /\ reads \in Nat

(* All that was filled comes from records read before.                      *)
FilledBefore ==
  /\ \A f \in filled : f.event \in 1..reads
  /\ sym_ee \subseteq 1..reads

Waiting == pairHyCal \in Seq(1..reads) /\ pairGEM = pairHyCal /\ Len(pairHyCal) < 3
             /\ \A i, j \in 1..Len(pairHyCal) : i < j => pairHyCal[i] < pairHyCal[j]

Crossing == [hycal : Seq(Nat), gem : Seq(Nat)]

(* The pairs are crossed in the order they were found.                      *)
CrossedInOrder ==
  /\ crossed \in Seq(Crossing)
  /\ \A c \in 1..Len(crossed) :
       /\ crossed[c].hycal = crossed[c].gem /\ Len(crossed[c].hycal) = 2
       /\ crossed[c].hycal[1] < crossed[c].hycal[2]
       /\ \A k \in 1..Len(pairHyCal), i \in 1..2 : crossed[c].hycal[i] < pairHyCal[k]
       /\ \A i \in 1..2 : crossed[c].hycal[i] <= reads
       /\ \A d \in 1..Len(crossed), i, j \in 1..2 : c < d => crossed[c].hycal[i] < crossed[d].hycal[j]

PhysInv == PhysTypes /\ FilledBefore /\ CountedOnce /\ Waiting /\ CrossedInOrder

LEMMA PhysInitially == PhysInit => PhysInv
<1> SUFFICES ASSUME PhysInit PROVE PhysInv
  OBVIOUS
<1>1. inputFiles \in Seq(PhysFiles)
  <2>1. PICK dir \in PhysRuns : inputFiles \in FindInputFiles(dir, FirstRun, LastRun)
    BY DEF PhysInit, InitHistogram, InitInnerModule
  <2>2. IsFiniteSet(dir) /\ dir \subseteq PhysFiles
    BY PhysAssumption DEF PhysAssumption
  <2> QED
    BY <2>1, <2>2, FoundFiles
<1>2. PhysTypes
  BY <1>1 DEF PhysInit, InitHistogram, InitInnerModule, PhysTypes
<1>3. FilledBefore /\ CountedOnce
  BY DEF PhysInit, InitHistogram, InitInnerModule, FilledBefore, CountedOnce
<1>4. Waiting /\ CrossedInOrder
  BY DEF PhysInit, InitHistogram, InitInnerModule, Waiting, CrossedInOrder, Crossing
<1> QED
  BY <1>2, <1>3, <1>4 DEF PhysInv

(* The clusters of an event that is read.                                   *)
LEMMA HitsOfEvent ==
  ASSUME PhysTypes, ReadRecord("event")
  PROVE  h \in Seq(PhysHits)
<1>1. inputFiles[opened] \in PhysFiles
  BY DEF PhysTypes, ReadRecord
<1>2. records \in Seq(PhysRecords)
  BY <1>1 DEF PhysFiles, records
<1>3. records[row] \in PhysRecords /\ records[row].type = "event"
  BY <1>2 DEF PhysTypes, ReadRecord
<1>4. records[row] \in [type : {"event"}, trigger : STRING, hits : Seq(PhysHits)]
  <2>1. \A r \in [type : {"epics"}, beam : Int] : r.type = "epics"
    OBVIOUS
  <2> QED
    BY <1>3, <2>1 DEF PhysRecords
<1> QED
  BY <1>4 DEF h

LEMMA BeamOfRecord ==
  ASSUME PhysTypes, ReadRecord("epics")
  PROVE  records[row].beam \in Int
<1>1. inputFiles[opened] \in PhysFiles
  BY DEF PhysTypes, ReadRecord
<1>2. records \in Seq(PhysRecords)
  BY <1>1 DEF PhysFiles, records
<1>3. records[row] \in PhysRecords /\ records[row].type = "epics"
  BY <1>2 DEF PhysTypes, ReadRecord
<1>4. records[row] \in [type : {"epics"}, beam : Int]
  <2>1. \A r \in [type : {"event"}, trigger : STRING, hits : Seq(PhysHits)] : r.type = "event"
    OBVIOUS
  <2> QED
    BY <1>3, <2>1 DEF PhysRecords
<1> QED
  BY <1>4

-----------------------------------------------------------------------------
(* What one event fills: of each cluster one filling at most.               *)
OneEach(fills) == /\ \A f \in fills : f.event = reads + 1
                  /\ \A f, g \in fills : f.hit = g.hit => f = g

LEMMA FillingFields ==
  ASSUME NEW kind, NEW i
  PROVE  LET f == Filling(kind, i) IN f.event = reads + 1 /\ f.hit = i /\ f.kind = kind
BY DEF Filling

LEMMA EPFillsOne ==
  ASSUME NEW i
  PROVE  \A f \in EPAnalyzer(i) : f = Filling("ep", i)
BY DEF EPAnalyzer

LEMMA MollerFillsOneEach ==
  ASSUME NEW i, NEW j, i # j
  PROVE  OneEach(MollerFills(i, j))
<1> DEFINE ofEach == UNION {IF TooHigh(h[k], TRUE) THEN EPAnalyzer(k) ELSE {} : k \in {i, j}}
<1>1. \A f \in ofEach : f = Filling("ep", i) \/ f = Filling("ep", j)
  BY EPFillsOne
<1>2. \A f \in MollerFills(i, j) : \/ f = Filling("ep", i) /\ (CoPlane(i, j) => IsEP(i))
                                   \/ f = Filling("ep", j) /\ (CoPlane(i, j) => IsEP(j))
                                   \/ f = Filling("ee", i) /\ CoPlane(i, j) /\ ~IsEP(i)
                                   \/ f = Filling("ee", j) /\ CoPlane(i, j) /\ ~IsEP(j)
  <2>1. CASE ~CoPlane(i, j)
    BY <2>1, <1>1 DEF MollerFills
  <2>2. CASE CoPlane(i, j) /\ IsEP(i)
    BY <2>2, EPFillsOne DEF MollerFills
  <2>3. CASE CoPlane(i, j) /\ ~IsEP(i)
    <3>1. MollerFills(i, j) = {Filling("ee", i)} \cup (IF IsEP(j) THEN EPAnalyzer(j) ELSE {Filling("ee", j)})
      BY <2>3 DEF MollerFills
    <3> QED
      BY <2>3, <3>1, EPFillsOne
  <2> QED
    BY <2>1, <2>2, <2>3
<1>3. \A k \in {i, j}, kind \in {"ep", "ee"} : Filling(kind, k).event = reads + 1 /\ Filling(kind, k).hit = k
  BY FillingFields
<1>4. \A f \in MollerFills(i, j) : f.event = reads + 1
  BY <1>2, <1>3
<1>5. ASSUME NEW f \in MollerFills(i, j), NEW g \in MollerFills(i, j), f.hit = g.hit
      PROVE  f = g
  <2>1. CASE ~CoPlane(i, j)
    <3>1. f \in {Filling("ep", i), Filling("ep", j)} /\ g \in {Filling("ep", i), Filling("ep", j)}
      BY <2>1, <1>2
    <3> QED
      BY <3>1, <1>3, <1>5
  <2>2. CASE CoPlane(i, j)
    <3>1. f.hit \in {i, j} /\ f = Filling(IF IsEP(f.hit) THEN "ep" ELSE "ee", f.hit)
      BY <2>2, <1>2, <1>3
    <3>2. g.hit \in {i, j} /\ g = Filling(IF IsEP(g.hit) THEN "ep" ELSE "ee", g.hit)
      BY <2>2, <1>2, <1>3
    <3> QED
      BY <3>1, <3>2, <1>5
  <2> QED
    BY <2>1, <2>2
<1> QED
  BY <1>4, <1>5 DEF OneEach

(* A symmetric pair is far below what makes a cluster an ep.                *)
LEMMA SymmetricIsMoller ==
  ASSUME Ebeam \in Int, h \in Seq(PhysHits), Symmetric(1, 2)
  PROVE  \A i \in {1, 2} : Filling("ee", i) \in MollerFills(1, 2)
<1>1. \A i \in {1, 2} : h[i] \in PhysHits
  <2>1. Len(h) = 2
    BY DEF Symmetric, clusterN
  <2>2. \A i \in 1..Len(h) : h[i] \in PhysHits
    OBVIOUS
  <2> QED
    BY <2>1, <2>2
<1>2. \A i \in {1, 2} : ~IsEP(i)
  <2> SUFFICES ASSUME NEW i \in {1, 2}, IsEP(i) PROVE FALSE
    OBVIOUS
  <2> DEFINE E == h[i].E
  <2>1. E \in Int
    BY <1>1 DEF PhysHits
  <2>2. 100 * Size(2 * E - Ebeam) < 6 * Ebeam
    BY DEF Symmetric
  <2>3. 10000 * E > 7273 * Ebeam \/ 10000 * E > 9091 * Ebeam
    BY DEF IsEP, TooHigh
  <2> HIDE DEF E
  <2> QED
    BY <2>1, <2>2, <2>3 DEF Size
<1> QED
  BY <1>2 DEF MollerFills, Symmetric

(* Filling an event keeps each cluster in one place.                        *)
LEMMA FillKeepsOnce ==
  ASSUME PhysTypes, FilledBefore, CountedOnce, NEW fills, OneEach(fills),
         reads' = reads + 1, filled' = filled \cup fills,
         \/ sym_ee' = sym_ee
         \/ /\ sym_ee' = sym_ee \cup {reads + 1}
            /\ \A i \in {1, 2} : Filling("ee", i) \in fills
  PROVE  FilledBefore' /\ CountedOnce'
<1>1. \A f \in filled' : f.event \in 1..reads'
  BY DEF PhysTypes, FilledBefore, OneEach
<1>2. sym_ee' \subseteq 1..reads'
  <2>1. reads \in Nat /\ sym_ee \subseteq 1..reads
    BY DEF PhysTypes, FilledBefore
  <2>2. sym_ee' \subseteq sym_ee \cup {reads + 1}
    OBVIOUS
  <2>3. 1..reads \subseteq 1..reads + 1 /\ reads + 1 \in 1..reads + 1
    BY <2>1
  <2> QED
    BY <2>1, <2>2, <2>3
<1>3. ASSUME NEW f \in filled', NEW g \in filled', f.event = g.event, f.hit = g.hit
      PROVE  f = g
  <2>1. \A x \in filled : x.event # reads + 1
    BY DEF PhysTypes, FilledBefore
  <2>2. CASE f \in filled /\ g \in filled
    BY <1>3, <2>2 DEF CountedOnce
  <2>3. CASE f \in fills /\ g \in fills
    BY <1>3, <2>3 DEF OneEach
  <2>4. CASE (f \in filled /\ g \in fills) \/ (f \in fills /\ g \in filled)
    BY <1>3, <2>1, <2>4 DEF OneEach
  <2>5. (f \in filled \/ f \in fills) /\ (g \in filled \/ g \in fills)
    OBVIOUS
  <2> QED
    BY <2>2, <2>3, <2>4, <2>5
<1>4. ASSUME NEW n \in sym_ee', NEW i \in {1, 2}
      PROVE  \E f \in filled' : f.event = n /\ f.hit = i /\ f.kind = "ee"
  <2>1. CASE n \in sym_ee
    BY <2>1 DEF CountedOnce
  <2>2. CASE n = reads + 1 /\ Filling("ee", i) \in fills
    BY <2>2, FillingFields
  <2> QED
    BY <1>4, <2>1, <2>2
<1> QED
  BY <1>1, <1>2, <1>3, <1>4 DEF FilledBefore, CountedOnce

-----------------------------------------------------------------------------
LEMMA PairAdded ==
  ASSUME PhysTypes, Waiting, CrossedInOrder, reads' = reads + 1, Len(pairHyCal) < 2,
         pairHyCal' = Append(pairHyCal, reads + 1), pairGEM' = Append(pairGEM, reads + 1),
         crossed' = crossed
  PROVE  Waiting' /\ CrossedInOrder'
<1>1. reads \in Nat /\ pairHyCal \in Seq(1..reads) /\ Len(pairHyCal) \in Nat
  BY DEF PhysTypes, Waiting
<1>2. \A k \in 1..Len(pairHyCal) : pairHyCal[k] \in 1..reads
  BY <1>1
<1>3. Len(pairHyCal') = Len(pairHyCal) + 1
  BY <1>1
<1>4. \A k \in 1..Len(pairHyCal) : pairHyCal'[k] = pairHyCal[k]
  BY <1>1
<1>5. pairHyCal'[Len(pairHyCal) + 1] = reads + 1
  BY <1>1
<1>6. \A k \in 1..Len(pairHyCal') : k \in 1..Len(pairHyCal) \/ k = Len(pairHyCal) + 1
  BY <1>1, <1>3
<1>7. pairHyCal' \in Seq(1..reads')
  <2>1. pairHyCal \in Seq(1..reads + 1)
    <3>1. 1..reads \subseteq 1..reads + 1
      BY <1>1
    <3> QED
      BY <1>1, <3>1
  <2> QED
    BY <1>1, <2>1
<1>8. Waiting'
  <2>1. pairGEM' = pairHyCal' /\ Len(pairHyCal') < 3
    BY <1>1, <1>3 DEF Waiting
  <2>2. ASSUME NEW i \in 1..Len(pairHyCal'), NEW j \in 1..Len(pairHyCal'), i < j
        PROVE  pairHyCal'[i] < pairHyCal'[j]
    <3>1. i \in 1..Len(pairHyCal)
      BY <1>1, <1>3, <2>2
    <3>2. CASE j \in 1..Len(pairHyCal)
      BY <3>1, <3>2, <1>4, <2>2 DEF Waiting
    <3>3. CASE j = Len(pairHyCal) + 1
      <4>1. pairHyCal[i] \in 1..reads
        BY <3>1, <1>2
      <4> QED
        BY <3>1, <3>3, <1>1, <1>4, <1>5, <4>1
    <3> QED
      BY <1>6, <3>2, <3>3
  <2> QED
    BY <1>7, <2>1, <2>2 DEF Waiting
<1>9. ASSUME NEW c \in 1..Len(crossed), NEW i \in 1..2
      PROVE  /\ crossed[c].hycal[i] <= reads'
             /\ \A k \in 1..Len(pairHyCal') : crossed[c].hycal[i] < pairHyCal'[k]
  <2> DEFINE x == crossed[c].hycal[i]
  <2>1. x \in Nat
    <3>1. crossed[c] \in Crossing /\ Len(crossed[c].hycal) = 2
      BY DEF CrossedInOrder
    <3>2. crossed[c].hycal \in Seq(Nat)
      BY <3>1 DEF Crossing
    <3> QED
      BY <3>1, <3>2
  <2>2. x <= reads /\ \A k \in 1..Len(pairHyCal) : x < pairHyCal[k]
    BY DEF CrossedInOrder
  <2> HIDE DEF x
  <2>3. x <= reads + 1 /\ x < reads + 1
    BY <2>1, <2>2, <1>1
  <2>4. \A k \in 1..Len(pairHyCal') : x < pairHyCal'[k]
    BY <2>2, <2>3, <1>4, <1>5, <1>6
  <2> QED
    BY <2>3, <2>4 DEF x
<1>10. CrossedInOrder'
  BY <1>9 DEF CrossedInOrder, Crossing
<1> QED
  BY <1>8, <1>10

LEMMA PairsCrossed ==
  ASSUME PhysTypes, Waiting, CrossedInOrder, reads' = reads + 1, ~(Len(pairHyCal) < 2),
         crossed' = Append(crossed, [hycal |-> pairHyCal, gem |-> pairGEM]),
         pairHyCal' = <<>>, pairGEM' = <<>>
  PROVE  Waiting' /\ CrossedInOrder'
<1> DEFINE new == [hycal |-> pairHyCal, gem |-> pairGEM]
<1>1. reads \in Nat /\ pairHyCal \in Seq(1..reads) /\ Len(pairHyCal) = 2 /\ pairGEM = pairHyCal
  <2>1. reads \in Nat /\ pairHyCal \in Seq(1..reads) /\ pairGEM = pairHyCal /\ Len(pairHyCal) < 3
    BY DEF PhysTypes, Waiting
  <2> DEFINE len == Len(pairHyCal)
  <2>2. len \in Nat /\ len < 3 /\ ~(len < 2)
    BY <2>1
  <2> HIDE DEF len
  <2>3. len = 2
    BY <2>2
  <2> QED
    BY <2>1, <2>3 DEF len
<1>2. pairHyCal[1] \in 1..reads /\ pairHyCal[2] \in 1..reads /\ pairHyCal[1] < pairHyCal[2]
  <2>1. 1 \in 1..Len(pairHyCal) /\ 2 \in 1..Len(pairHyCal)
    <3>1. 1 \in 1..2 /\ 2 \in 1..2
      OBVIOUS
    <3> QED
      BY <1>1, <3>1, Zenon
  <2>2. \A k \in 1..Len(pairHyCal) : pairHyCal[k] \in 1..reads
    <3> DEFINE earlier == 1..reads
    <3>1. pairHyCal \in Seq(earlier)
      BY <1>1
    <3> HIDE DEF earlier
    <3>2. \A k \in 1..Len(pairHyCal) : pairHyCal[k] \in earlier
      BY <3>1
    <3> QED
      BY <3>2 DEF earlier
  <2>3. pairHyCal[1] < pairHyCal[2]
    BY <2>1 DEF Waiting
  <2> QED
    BY <2>1, <2>2, <2>3
<1>3. Waiting'
  BY <1>1 DEF Waiting
<1>4. new \in Crossing /\ new.hycal = pairHyCal /\ new.gem = pairHyCal
  <2>1. 1..reads \subseteq Nat
    BY <1>1
  <2>2. pairHyCal \in Seq(Nat)
    BY <1>1, <2>1
  <2> QED
    BY <1>1, <2>2 DEF Crossing
<1> HIDE DEF new
<1>5. crossed \in Seq(Crossing) /\ crossed' = Append(crossed, new)
  BY DEF CrossedInOrder, new
<1>6. /\ crossed' \in Seq(Crossing) /\ Len(crossed) \in Nat /\ Len(crossed') = Len(crossed) + 1
      /\ crossed'[Len(crossed) + 1] = new
      /\ \A c \in 1..Len(crossed) : crossed'[c] = crossed[c]
  BY <1>4, <1>5
<1>7. \A c \in 1..Len(crossed') : c \in 1..Len(crossed) \/ c = Len(crossed) + 1
  BY <1>6
<1>8. \A c \in 1..Len(crossed), i \in 1..2 :
        crossed[c].hycal[i] <= reads /\ crossed[c].hycal[i] < pairHyCal[1]
          /\ crossed[c].hycal[i] < pairHyCal[2]
  BY <1>1 DEF CrossedInOrder
<1>9. \A c \in 1..Len(crossed), i \in 1..2 : crossed[c].hycal[i] \in Nat
  <2> SUFFICES ASSUME NEW c \in 1..Len(crossed), NEW i \in 1..2
               PROVE  crossed[c].hycal[i] \in Nat
    OBVIOUS
  <2>1. crossed[c] \in Crossing /\ Len(crossed[c].hycal) = 2
    BY DEF CrossedInOrder
  <2>2. crossed[c].hycal \in Seq(Nat)
    BY <2>1 DEF Crossing
  <2> QED
    BY <2>1, <2>2
<1>10. ASSUME NEW c \in 1..Len(crossed')
       PROVE  /\ crossed'[c].hycal = crossed'[c].gem /\ Len(crossed'[c].hycal) = 2
              /\ crossed'[c].hycal[1] < crossed'[c].hycal[2]
  <2>1. CASE c \in 1..Len(crossed)
    BY <2>1, <1>6 DEF CrossedInOrder
  <2>2. CASE c = Len(crossed) + 1
    BY <2>2, <1>1, <1>2, <1>4, <1>6
  <2> QED
    BY <1>7, <2>1, <2>2
<1>11. ASSUME NEW c \in 1..Len(crossed'), NEW i \in 1..2
       PROVE  crossed'[c].hycal[i] <= reads'
  <2>1. CASE c \in 1..Len(crossed)
    <3>1. crossed[c].hycal[i] \in Nat /\ crossed[c].hycal[i] <= reads
      BY <2>1, <1>8, <1>9
    <3> QED
      BY <2>1, <3>1, <1>1, <1>6
  <2>2. CASE c = Len(crossed) + 1
    <3>1. pairHyCal[i] \in 1..reads
      BY <1>2
    <3>2. crossed'[c].hycal[i] = pairHyCal[i]
      BY <2>2, <1>4, <1>6
    <3> QED
      BY <3>1, <3>2, <1>1
  <2> QED
    BY <1>7, <2>1, <2>2
<1>12. ASSUME NEW c \in 1..Len(crossed'), NEW d \in 1..Len(crossed'), NEW i \in 1..2, NEW j \in 1..2, c < d
       PROVE  crossed'[c].hycal[i] < crossed'[d].hycal[j]
  <2>1. c \in 1..Len(crossed)
    BY <1>6, <1>12
  <2>2. CASE d \in 1..Len(crossed)
    BY <2>1, <2>2, <1>6, <1>12 DEF CrossedInOrder
  <2>3. CASE d = Len(crossed) + 1
    <3>1. crossed'[d].hycal[j] = pairHyCal[j]
      BY <2>3, <1>4, <1>6
    <3>2. crossed[c].hycal[i] < pairHyCal[j]
      BY <2>1, <1>8
    <3> QED
      BY <2>1, <3>1, <3>2, <1>6
  <2> QED
    BY <1>7, <2>2, <2>3
<1>13. CrossedInOrder'
  <2>1. \A k \in 1..Len(pairHyCal') : FALSE
    OBVIOUS
  <2> QED
    BY <2>1, <1>6, <1>10, <1>11, <1>12 DEF CrossedInOrder, Crossing
<1> QED
  BY <1>3, <1>13

LEMMA PairsUnchanged ==
  ASSUME PhysTypes, Waiting, CrossedInOrder, reads' \in Nat, reads <= reads', UNCHANGED phys_pair
  PROVE  Waiting' /\ CrossedInOrder'
<1>1. 1..reads \subseteq 1..reads'
  BY DEF PhysTypes
<1>2. pairHyCal \in Seq(1..reads')
  <2> DEFINE earlier == 1..reads
             after == 1..reads'
  <2>1. pairHyCal \in Seq(earlier) /\ earlier \subseteq after
    BY <1>1 DEF Waiting
  <2> HIDE DEF earlier, after
  <2>2. pairHyCal \in Seq(after)
    BY <2>1
  <2> QED
    BY <2>2 DEF after
<1>3. Waiting'
  BY <1>2 DEF Waiting, phys_pair
<1>4. \A c \in 1..Len(crossed), i \in 1..2 : crossed[c].hycal[i] <= reads'
  <2> SUFFICES ASSUME NEW c \in 1..Len(crossed), NEW i \in 1..2
               PROVE  crossed[c].hycal[i] <= reads'
    OBVIOUS
  <2>1. crossed[c] \in Crossing /\ Len(crossed[c].hycal) = 2
    BY DEF CrossedInOrder
  <2>2. crossed[c].hycal \in Seq(Nat)
    BY <2>1 DEF Crossing
  <2>3. crossed[c].hycal[i] \in Nat /\ crossed[c].hycal[i] <= reads
    BY <2>1, <2>2 DEF CrossedInOrder
  <2> QED
    BY <2>3 DEF PhysTypes
<1>5. CrossedInOrder'
  BY <1>4 DEF CrossedInOrder, Crossing, phys_pair
<1> QED
  BY <1>3, <1>5

-----------------------------------------------------------------------------
LEMMA ReadKeepsTypes ==
  ASSUME PhysTypes, NEW type, ReadRecord(type), Ebeam' \in Int
  PROVE  PhysTypes' /\ reads' = reads + 1 /\ reads' \in Nat /\ reads <= reads'
BY DEF PhysTypes, ReadRecord

LEMMA FilledUnchanged ==
  ASSUME PhysTypes, FilledBefore, CountedOnce, reads' \in Nat, reads <= reads',
         UNCHANGED <<filled, sym_ee>>
  PROVE  FilledBefore' /\ CountedOnce'
<1>1. CountedOnce'
  BY DEF CountedOnce
<1>2. 1..reads \subseteq 1..reads'
  BY DEF PhysTypes
<1>3. FilledBefore'
  BY <1>2 DEF FilledBefore
<1> QED
  BY <1>1, <1>3

LEMMA PhysStep == PhysInv /\ [PhysNext]_phys_vars => PhysInv'
<1> SUFFICES ASSUME PhysInv, [PhysNext]_phys_vars PROVE PhysInv'
  OBVIOUS
<1>0. PhysTypes /\ FilledBefore /\ CountedOnce /\ Waiting /\ CrossedInOrder
  BY DEF PhysInv
<1>1. CASE OtherTrigger
  <2>1. ReadRecord("event") /\ UNCHANGED <<Ebeam, filled, sym_ee>> /\ UNCHANGED phys_pair
    BY <1>1 DEF OtherTrigger, phys_out
  <2>2. PhysTypes' /\ reads' \in Nat /\ reads <= reads'
    BY <1>0, <2>1, ReadKeepsTypes DEF PhysTypes
  <2> QED
    BY <1>0, <2>1, <2>2, FilledUnchanged, PairsUnchanged DEF PhysInv
<1>2. CASE NoOrTooManyClusters
  <2>1. ReadRecord("event") /\ UNCHANGED <<Ebeam, filled, sym_ee>> /\ UNCHANGED phys_pair
    BY <1>2 DEF NoOrTooManyClusters, ReadPhysics, phys_out
  <2>2. PhysTypes' /\ reads' \in Nat /\ reads <= reads'
    BY <1>0, <2>1, ReadKeepsTypes DEF PhysTypes
  <2> QED
    BY <1>0, <2>1, <2>2, FilledUnchanged, PairsUnchanged DEF PhysInv
<1>3. CASE OneCluster
  <2>1. ReadRecord("event") /\ UNCHANGED <<Ebeam, sym_ee>> /\ UNCHANGED phys_pair
          /\ filled' = filled \cup EPAnalyzer(1)
    BY <1>3 DEF OneCluster, ReadPhysics, Fill, phys_pair
  <2>2. PhysTypes' /\ reads' \in Nat /\ reads <= reads' /\ reads' = reads + 1
    BY <1>0, <2>1, ReadKeepsTypes DEF PhysTypes
  <2>3. OneEach(EPAnalyzer(1))
    BY EPFillsOne, FillingFields DEF OneEach
  <2>4. FilledBefore' /\ CountedOnce'
    BY <1>0, <2>1, <2>2, <2>3, FillKeepsOnce
  <2> QED
    BY <1>0, <2>1, <2>2, <2>4, PairsUnchanged DEF PhysInv
<1>4. CASE TwoClusters
  <2>1. ReadRecord("event") /\ UNCHANGED Ebeam /\ OffsetAnalyzer
          /\ filled' = filled \cup MollerFills(1, 2)
          /\ sym_ee' = IF Symmetric(1, 2) THEN sym_ee \cup {reads + 1} ELSE sym_ee
    BY <1>4 DEF TwoClusters, ReadPhysics, MollerAnalyzer, Fill
  <2>2. PhysTypes' /\ reads' \in Nat /\ reads <= reads' /\ reads' = reads + 1
    BY <1>0, <2>1, ReadKeepsTypes DEF PhysTypes
  <2>3. OneEach(MollerFills(1, 2))
    BY MollerFillsOneEach
  <2>4. Symmetric(1, 2) => \A i \in {1, 2} : Filling("ee", i) \in MollerFills(1, 2)
    BY <1>0, <2>1, HitsOfEvent, SymmetricIsMoller DEF PhysTypes
  <2>5. FilledBefore' /\ CountedOnce'
    BY <1>0, <2>1, <2>2, <2>3, <2>4, FillKeepsOnce
  <2>6. Waiting' /\ CrossedInOrder'
    <3>1. CASE ~GoodOffset
      BY <3>1, <1>0, <2>1, <2>2, PairsUnchanged DEF OffsetAnalyzer, LinesIntersect
    <3>2. CASE GoodOffset /\ Len(pairHyCal) < 2
      BY <3>2, <1>0, <2>1, <2>2, PairAdded DEF OffsetAnalyzer, LinesIntersect
    <3>3. CASE GoodOffset /\ ~(Len(pairHyCal) < 2)
      BY <3>3, <1>0, <2>1, <2>2, PairsCrossed DEF OffsetAnalyzer, LinesIntersect
    <3> QED
      BY <3>1, <3>2, <3>3
  <2> QED
    BY <2>2, <2>5, <2>6 DEF PhysInv
<1>5. CASE MultiHitAnalyzer
  <2>1. PICK i, j \in 1..clusterN : Partners(i, j) /\ MollerAnalyzer(i, j)
    BY <1>5 DEF MultiHitAnalyzer
  <2>2. ReadRecord("event") /\ UNCHANGED Ebeam /\ UNCHANGED phys_pair /\ clusterN # 2
    BY <1>5 DEF MultiHitAnalyzer, ReadPhysics, phys_pair
  <2>3. PhysTypes' /\ reads' \in Nat /\ reads <= reads' /\ reads' = reads + 1
    BY <1>0, <2>2, ReadKeepsTypes DEF PhysTypes
  <2>4. filled' = filled \cup MollerFills(i, j) /\ UNCHANGED sym_ee
    BY <2>1, <2>2 DEF MollerAnalyzer, Fill, Symmetric
  <2>5. OneEach(MollerFills(i, j))
    BY <2>1, MollerFillsOneEach DEF Partners
  <2>6. FilledBefore' /\ CountedOnce'
    BY <1>0, <2>3, <2>4, <2>5, FillKeepsOnce
  <2> QED
    BY <1>0, <2>2, <2>3, <2>6, PairsUnchanged DEF PhysInv
<1>6. CASE EpicsRecord
  <2>1. ReadRecord("epics") /\ UNCHANGED <<filled, sym_ee>> /\ UNCHANGED phys_pair
          /\ Ebeam' = records[row].beam
    BY <1>6 DEF EpicsRecord, phys_out
  <2>2. PhysTypes' /\ reads' \in Nat /\ reads <= reads'
    BY <1>0, <2>1, BeamOfRecord, ReadKeepsTypes
  <2> QED
    BY <1>0, <2>1, <2>2, FilledUnchanged, PairsUnchanged DEF PhysInv
<1>7. CASE CloseFile
  <2>1. UNCHANGED <<reads, filled, sym_ee>> /\ UNCHANGED phys_pair
    BY <1>7 DEF CloseFile, phys_out
  <2>2. PhysTypes' /\ reads' \in Nat /\ reads <= reads'
    BY <1>0, <1>7 DEF CloseFile, PhysTypes
  <2> QED
    BY <1>0, <2>1, <2>2, FilledUnchanged, PairsUnchanged DEF PhysInv
<1>8. CASE UNCHANGED phys_vars
  BY <1>0, <1>8 DEF phys_vars, phys_out, phys_pair, PhysInv, PhysTypes, FilledBefore, CountedOnce,
     Waiting, CrossedInOrder
<1> QED
  BY <1>1, <1>2, <1>3, <1>4, <1>5, <1>6, <1>7, <1>8 DEF PhysNext, AllFilesRead

(* What is filled, and which pairs wait, comes from the records read, in    *)
(* their order (EPAnalyzer, MollerAnalyzer, OffsetAnalyzer).                *)
THEOREM PhysInvariant == PhysSpec => []PhysInv
BY PhysInitially, PhysStep, PTL DEF PhysSpec

(* No cluster is counted as ep and as one of a Moller pair, and symmetric   *)
(* pairs are Moller pairs (EPAnalyzer, MollerAnalyzer).                     *)
THEOREM ClustersCountedOnce == PhysSpec => []CountedOnce
<1>1. PhysInv => CountedOnce
  BY DEF PhysInv
<1> QED
  BY <1>1, PhysInvariant, PTL

(* HyCal and the GEMs cross the lines of the same pairs, and none twice     *)
(* (OffsetAnalyzer, LinesIntersect).                                        *)
THEOREM PairsAreInStep == PhysSpec => []PairsInStep
<1>1. PhysInv => PairsInStep
  <2> SUFFICES ASSUME Waiting, CrossedInOrder PROVE PairsInStep
    BY DEF PhysInv
  <2>1. \A c \in 1..Len(crossed), i \in 1..2 : crossed[c].hycal[i] \in Nat
    <3> SUFFICES ASSUME NEW c \in 1..Len(crossed), NEW i \in 1..2
                 PROVE  crossed[c].hycal[i] \in Nat
      OBVIOUS
    <3>1. crossed[c] \in Crossing /\ Len(crossed[c].hycal) = 2
      BY DEF CrossedInOrder
    <3>2. crossed[c].hycal \in Seq(Nat)
      BY <3>1 DEF Crossing
    <3> QED
      BY <3>1, <3>2
  <2>2. ASSUME NEW c \in 1..Len(crossed), NEW d \in 1..Len(crossed), NEW i \in 1..2, NEW j \in 1..2,
               crossed[c].hycal[i] = crossed[d].hycal[j]
        PROVE  c = d /\ i = j
    <3>1. ~(c < d) /\ ~(d < c)
      BY <2>1, <2>2 DEF CrossedInOrder
    <3>2. c = d
      BY <3>1
    <3>3. crossed[c].hycal[1] < crossed[c].hycal[2]
      BY DEF CrossedInOrder
    <3> QED
      BY <2>1, <2>2, <3>2, <3>3
  <2> QED
    BY <2>2 DEF PairsInStep, Waiting, CrossedInOrder
<1> QED
  BY <1>1, PhysInvariant, PTL

-----------------------------------------------------------------------------
(* A file that fits into the arrays.                                        *)
FittingFiles == {f \in LMSFiles : Cardinality(HyCalKeys(f.keys, Len(f.keys))) <= BLOCKS}

Channel   == [ped : Nat, LMS : Nat]
Reference == [ped : Nat, alpha : Nat, LMS : Nat, gain : Seq([up : Int, down : Int])]

AvgTypes ==
  /\ lmsFiles \in Seq(FittingFiles) /\ doAverage \in BOOLEAN
  /\ lmsOpened \in Nat \ {0} /\ thisKey \in Nat \ {0} /\ ich \in Nat
  /\ DOMAIN channelName = 1..BLOCKS /\ DOMAIN hycal = 1..BLOCKS /\ DOMAIN ref = References

(* The channels are counted as they come.                                   *)
Counted ==
  lmsOpened <= Len(lmsFiles) =>
    thisKey <= Len(keys) + 1 /\ ich = Cardinality(HyCalKeys(keys, thisKey - 1))

(* The arrays show the part of the file that was read.                      *)
ShowsRead ==
  ~doAverage /\ lmsOpened <= Len(lmsFiles) =>
    ShowsLists(hycal, ref, lmsFiles[lmsOpened], thisKey - 1)

(* The names are those of what was read of the first file.                  *)
Named(f) ==
  /\ \A k \in HyCalKeys(f.keys, IF lmsOpened = 1 THEN thisKey - 1 ELSE Len(f.keys)) :
       channelName[Cardinality(HyCalKeys(f.keys, k))] = f.keys[k].name
  /\ \A i \in 1..BLOCKS : i > Cardinality(HyCalKeys(f.keys, Len(f.keys))) => channelName[i] = ""

(* What the first file does not list, no file with the same lists fills.    *)
Unlisted(f) ==
  /\ \A i \in 1..BLOCKS : i > Cardinality(HyCalKeys(f.keys, Len(f.keys))) =>
       hycal[i] = [ped |-> 0, LMS |-> 0]
  /\ \A r \in References :
       (\A k \in 1..Len(f.keys) : f.keys[k].kind = "reference" => f.keys[k].ref # r) =>
       ref[r] = [ped |-> 0, alpha |-> 0, LMS |-> 0, gain |-> <<>>]

NothingStays ==
  lmsFiles # <<>> =>
    /\ Named(lmsFiles[1])
    /\ (\A j \in 1..Len(lmsFiles) : j <= lmsOpened => SameLists(lmsFiles[j], lmsFiles[1])) =>
         Unlisted(lmsFiles[1])

AvgInv == AvgTypes /\ Counted /\ ShowsRead /\ NothingStays /\ GainsOfOwnRun

LEMMA CountKeys ==
  ASSUME NEW s, NEW k \in Nat
  PROVE  /\ IsFiniteSet(HyCalKeys(s, k)) /\ Cardinality(HyCalKeys(s, k)) \in Nat
         /\ HyCalKeys(s, 0) = {} /\ Cardinality(HyCalKeys(s, 0)) = 0
         /\ \A j \in 0..k : Cardinality(HyCalKeys(s, j)) <= Cardinality(HyCalKeys(s, k))
         /\ Cardinality(HyCalKeys(s, k + 1)) =
              Cardinality(HyCalKeys(s, k)) + (IF s[k + 1].kind = "hycal" THEN 1 ELSE 0)
<1>1. \A j \in Nat : IsFiniteSet(HyCalKeys(s, j)) /\ Cardinality(HyCalKeys(s, j)) \in Nat
  <2> SUFFICES ASSUME NEW j \in Nat
               PROVE  IsFiniteSet(HyCalKeys(s, j)) /\ Cardinality(HyCalKeys(s, j)) \in Nat
    OBVIOUS
  <2>1. IsFiniteSet(1..j)
    BY FS_Interval
  <2>2. HyCalKeys(s, j) \in SUBSET (1..j)
    BY DEF HyCalKeys
  <2>3. IsFiniteSet(HyCalKeys(s, j))
    BY <2>1, <2>2, FS_Subset
  <2> QED
    BY <2>3, FS_CardinalityType
<1>2. HyCalKeys(s, 0) = {} /\ Cardinality(HyCalKeys(s, 0)) = 0
  <2>1. HyCalKeys(s, 0) = {}
    BY DEF HyCalKeys
  <2> QED
    BY <2>1, FS_EmptySet
<1>3. ASSUME NEW j \in 0..k
      PROVE  Cardinality(HyCalKeys(s, j)) <= Cardinality(HyCalKeys(s, k))
  <2>1. HyCalKeys(s, j) \in SUBSET HyCalKeys(s, k)
    BY DEF HyCalKeys
  <2> QED
    BY <1>1, <2>1, FS_Subset
<1>4. CASE s[k + 1].kind = "hycal"
  <2>1. HyCalKeys(s, k + 1) = HyCalKeys(s, k) \cup {k + 1}
    BY <1>4 DEF HyCalKeys
  <2>2. k + 1 \notin HyCalKeys(s, k)
    BY DEF HyCalKeys
  <2>3. Cardinality(HyCalKeys(s, k) \cup {k + 1}) = Cardinality(HyCalKeys(s, k)) + 1
    BY <1>1, <2>2, FS_AddElement
  <2> QED
    BY <1>1, <1>2, <1>3, <1>4, <2>1, <2>3
<1>5. CASE s[k + 1].kind # "hycal"
  <2>1. HyCalKeys(s, k + 1) = HyCalKeys(s, k)
    BY <1>5 DEF HyCalKeys
  <2> QED
    BY <1>1, <1>2, <1>3, <1>5, <2>1
<1> QED
  BY <1>4, <1>5

LEMMA AvgInitially == AvgInit => AvgInv
<1> SUFFICES ASSUME AvgInit PROVE AvgInv
  OBVIOUS
<1>1. lmsFiles \in Seq(FittingFiles)
  <2>1. PICK dir \in LMSRuns : lmsFiles \in FindInputFiles(dir, startRun, endRun)
    BY DEF AvgInit
  <2>2. IsFiniteSet(dir) /\ dir \subseteq FittingFiles
    BY AvgAssumption DEF AvgAssumption, FittingFiles
  <2> QED
    BY <2>1, <2>2, FoundFiles
<1>2. AvgTypes
  <2>1. DOMAIN channelName = 1..BLOCKS /\ DOMAIN hycal = 1..BLOCKS /\ DOMAIN ref = References
    BY Zenon DEF AvgInit, InitArray
  <2>2. doAverage \in BOOLEAN
    BY Zenon DEF AvgInit
  <2>3. lmsOpened = 1 /\ thisKey = 1 /\ ich = 0
    BY DEF AvgInit
  <2> QED
    BY <1>1, <2>1, <2>2, <2>3 DEF AvgTypes
<1>3. Counted
  <2> SUFFICES ASSUME lmsOpened <= Len(lmsFiles)
               PROVE  thisKey <= Len(keys) + 1 /\ ich = Cardinality(HyCalKeys(keys, thisKey - 1))
    BY DEF Counted
  <2>1. thisKey = 1 /\ ich = 0 /\ lmsOpened = 1
    BY DEF AvgInit
  <2>2. Len(keys) \in Nat
    <3>1. lmsFiles[lmsOpened] \in LMSFiles
      BY <1>1, <2>1 DEF FittingFiles
    <3> QED
      BY <3>1 DEF LMSFiles, keys
  <2>3. Cardinality(HyCalKeys(keys, 0)) = 0
    BY CountKeys
  <2> QED
    BY <2>1, <2>2, <2>3
<1>4. ShowsRead
  <2>1. thisKey = 1
    BY DEF AvgInit
  <2>2. 1..thisKey - 1 = {}
    BY <2>1
  <2> QED
    BY <2>2 DEF ShowsRead, ShowsLists
<1>5. GainsOfOwnRun
  <2>1. lmsOpened = 1
    BY DEF AvgInit
  <2>2. \A i \in 1..Len(lmsFiles) : ~(i < lmsOpened)
    BY <2>1
  <2> QED
    BY <2>2 DEF GainsOfOwnRun
<1>6. NothingStays
  <2>1. lmsOpened = 1 /\ thisKey - 1 = 0
    BY DEF AvgInit
  <2>2. /\ \A i \in 1..BLOCKS : channelName[i] = "" /\ hycal[i] = [ped |-> 0, LMS |-> 0]
        /\ \A r \in References : ref[r] = [ped |-> 0, alpha |-> 0, LMS |-> 0, gain |-> <<>>]
    BY Zenon DEF AvgInit, InitArray
  <2>3. HyCalKeys(lmsFiles[1].keys, 0) = {}
    BY CountKeys
  <2>4. Named(lmsFiles[1])
    BY <2>1, <2>2, <2>3 DEF Named
  <2>5. Unlisted(lmsFiles[1])
    BY <2>2 DEF Unlisted
  <2> QED
    BY <2>4, <2>5 DEF NothingStays
<1> QED
  BY <1>2, <1>3, <1>4, <1>5, <1>6 DEF AvgInv

(* Files with the same lists count them alike, and the same lists are what  *)
(* their lines show.                                                        *)
LEMMA SameKeys ==
  ASSUME NEW f, NEW g, SameLists(f, g), NEW k \in Nat, k <= Len(f.keys), Len(f.keys) \in Nat
  PROVE  HyCalKeys(f.keys, k) = HyCalKeys(g.keys, k)
<1>1. \A j \in 1..k : f.keys[j].kind = g.keys[j].kind
  BY DEF SameLists, SameList
<1> QED
  BY <1>1 DEF HyCalKeys

LEMMA OnlySameLists ==
  ASSUME NEW f, NEW g, SameLists(g, f), Len(f.keys) \in Nat,
         NEW names, NEW channels, NEW refs, OnlyLists(names, channels, refs, f)
  PROVE  OnlyLists(names, channels, refs, g)
<1>1. Len(g.keys) = Len(f.keys)
  BY DEF SameLists
<1>2. \A k \in 1..Len(f.keys) : SameList(g.keys[k], f.keys[k])
  BY DEF SameLists
<1>3. \A k \in Nat : k <= Len(f.keys) => HyCalKeys(g.keys, k) = HyCalKeys(f.keys, k)
  BY <1>1, SameKeys
<1>4. HyCalKeys(g.keys, Len(g.keys)) = HyCalKeys(f.keys, Len(f.keys))
  BY <1>1, <1>3
<1>5. ASSUME NEW k \in HyCalKeys(g.keys, Len(g.keys))
      PROVE  names[Cardinality(HyCalKeys(g.keys, k))] = g.keys[k].name
  <2>1. k \in 1..Len(f.keys) /\ k \in Nat /\ k <= Len(f.keys) /\ g.keys[k].kind = "hycal"
    BY <1>1 DEF HyCalKeys
  <2>2. k \in HyCalKeys(f.keys, Len(f.keys))
    BY <1>4
  <2>3. g.keys[k].name = f.keys[k].name
    BY <1>2, <2>1 DEF SameList
  <2> QED
    BY <1>3, <2>1, <2>2, <2>3 DEF OnlyLists
<1>6. \A i \in 1..BLOCKS : i > Cardinality(HyCalKeys(g.keys, Len(g.keys))) =>
        names[i] = "" /\ channels[i] = [ped |-> 0, LMS |-> 0]
  BY <1>4 DEF OnlyLists
<1>7. ASSUME NEW r \in References,
             \A k \in 1..Len(g.keys) : g.keys[k].kind = "reference" => g.keys[k].ref # r
      PROVE  refs[r] = [ped |-> 0, alpha |-> 0, LMS |-> 0, gain |-> <<>>]
  <2>1. \A k \in 1..Len(f.keys) : f.keys[k].kind = "reference" => f.keys[k].ref # r
    BY <1>1, <1>2, <1>7 DEF SameList
  <2> QED
    BY <2>1 DEF OnlyLists
<1> QED
  BY <1>5, <1>6, <1>7 DEF OnlyLists

(* The file that is read, and the key.                                      *)
LEMMA FileRead ==
  ASSUME AvgTypes, lmsOpened <= Len(lmsFiles)
  PROVE  lmsFiles[lmsOpened] \in FittingFiles /\ keys \in Seq(LMSKeys) /\ Len(keys) \in Nat
<1>1. lmsFiles[lmsOpened] \in FittingFiles
  BY DEF AvgTypes
<1>2. keys \in Seq(LMSKeys)
  BY <1>1 DEF FittingFiles, LMSFiles, keys
<1> QED
  BY <1>1, <1>2

(* A key is read: the written files stay.                                   *)
LEMMA WrittenStays ==
  ASSUME GainsOfOwnRun, UNCHANGED <<doAverage, lmsFiles, lmsOpened, baseinfo>>
  PROVE  GainsOfOwnRun'
BY DEF GainsOfOwnRun

(* The line of a channel is one of those its file has.                      *)
LEMMA LineOfKey ==
  ASSUME NEW s, NEW n \in Nat, NEW k \in HyCalKeys(s, n)
  PROVE  /\ k \in 1..n /\ k \in Nat
         /\ Cardinality(HyCalKeys(s, k)) \in 1..Cardinality(HyCalKeys(s, n))
<1>1. k \in 1..n /\ k \in 0..n /\ k \in Nat /\ s[k].kind = "hycal"
  BY DEF HyCalKeys
<1>2. k - 1 \in Nat /\ (k - 1) + 1 = k
  BY <1>1
<1>3. /\ Cardinality(HyCalKeys(s, (k - 1) + 1)) = Cardinality(HyCalKeys(s, k - 1)) + 1
      /\ Cardinality(HyCalKeys(s, k - 1)) \in Nat
  BY <1>1, <1>2, CountKeys
<1>4. Cardinality(HyCalKeys(s, k)) <= Cardinality(HyCalKeys(s, n))
  BY <1>1, CountKeys
<1>5. Cardinality(HyCalKeys(s, n)) \in Nat
  BY CountKeys
<1> QED
  BY <1>1, <1>2, <1>3, <1>4, <1>5

(* The line of the channel that comes next.                                 *)
LEMMA NextLine ==
  ASSUME AvgTypes, Counted, lmsOpened <= Len(lmsFiles), thisKey <= Len(keys), Key.kind = "hycal"
  PROVE  /\ thisKey \in Nat /\ thisKey # 0 /\ thisKey - 1 \in Nat /\ (thisKey - 1) + 1 = thisKey
         /\ ich \in Nat /\ Len(keys) \in Nat
         /\ ich = Cardinality(HyCalKeys(keys, thisKey - 1))
         /\ ich + 1 = Cardinality(HyCalKeys(keys, thisKey)) /\ ich + 1 \in 1..BLOCKS
         /\ ich + 1 <= Cardinality(HyCalKeys(keys, Len(keys)))
<1>2. thisKey \in Nat /\ thisKey # 0 /\ thisKey - 1 \in Nat /\ (thisKey - 1) + 1 = thisKey /\ ich \in Nat
  BY DEF AvgTypes
<1>3. Len(keys) \in Nat /\ Cardinality(HyCalKeys(keys, Len(keys))) <= BLOCKS
  BY FileRead DEF FittingFiles, keys
<1>4. ich = Cardinality(HyCalKeys(keys, thisKey - 1))
  BY DEF Counted
<1>5. ich + 1 = Cardinality(HyCalKeys(keys, thisKey))
  <2>1. Cardinality(HyCalKeys(keys, (thisKey - 1) + 1)) =
          Cardinality(HyCalKeys(keys, thisKey - 1)) + (IF keys[(thisKey - 1) + 1].kind = "hycal" THEN 1 ELSE 0)
    BY <1>2, CountKeys
  <2>2. keys[(thisKey - 1) + 1].kind = "hycal"
    BY <1>2 DEF Key
  <2> QED
    BY <1>2, <1>4, <2>1, <2>2
<1>6. ich + 1 \in 1..BLOCKS /\ ich + 1 <= Cardinality(HyCalKeys(keys, Len(keys)))
  <2>1. thisKey \in 0..Len(keys)
    BY <1>2, <1>3
  <2>2. Cardinality(HyCalKeys(keys, thisKey)) <= Cardinality(HyCalKeys(keys, Len(keys)))
    BY <1>3, <2>1, CountKeys
  <2>3. Cardinality(HyCalKeys(keys, Len(keys))) \in Nat
    BY <1>3, CountKeys
  <2> QED
    BY <1>2, <1>3, <1>5, <2>2, <2>3, AvgAssumption DEF AvgAssumption
<1> QED
  BY <1>2, <1>3, <1>4, <1>5, <1>6

(* The lines of the channels keep their names, and no other line is filled. *)
LEMMA ChannelNamed ==
  ASSUME AvgTypes, Counted, NothingStays, FitHyCalHist
  PROVE  NothingStays'
<1> SUFFICES ASSUME lmsFiles # <<>>
             PROVE  /\ Named(lmsFiles[1])'
                    /\ (\A j \in 1..Len(lmsFiles) :
                          j <= lmsOpened => SameLists(lmsFiles[j], lmsFiles[1])) =>
                         Unlisted(lmsFiles[1])'
  BY DEF NothingStays, FitHyCalHist, NextKey
<1> DEFINE f == lmsFiles[1]
           n == Cardinality(HyCalKeys(f.keys, Len(f.keys)))
<1>1. /\ lmsOpened <= Len(lmsFiles) /\ thisKey <= Len(keys) /\ Key.kind = "hycal"
      /\ thisKey' = thisKey + 1 /\ ref' = ref /\ UNCHANGED <<lmsFiles, lmsOpened>>
      /\ channelName' = IF lmsOpened = 1 THEN [channelName EXCEPT ![ich + 1] = Key.name]
                        ELSE channelName
      /\ \A i \in DOMAIN hycal : i # ich + 1 => hycal'[i] = hycal[i]
  BY DEF FitHyCalHist, NextKey
<1>2. /\ thisKey \in Nat /\ thisKey # 0 /\ thisKey - 1 \in Nat /\ (thisKey - 1) + 1 = thisKey
      /\ ich \in Nat /\ Len(keys) \in Nat
      /\ ich = Cardinality(HyCalKeys(keys, thisKey - 1))
      /\ ich + 1 = Cardinality(HyCalKeys(keys, thisKey)) /\ ich + 1 \in 1..BLOCKS
      /\ ich + 1 <= Cardinality(HyCalKeys(keys, Len(keys)))
  BY <1>1, NextLine
<1>3. /\ DOMAIN channelName = 1..BLOCKS /\ DOMAIN hycal = 1..BLOCKS /\ BLOCKS \in Nat
      /\ Len(lmsFiles) \in Nat /\ lmsOpened \in 1..Len(lmsFiles)
  BY <1>1, AvgAssumption DEF AvgTypes, AvgAssumption
<1>4. Len(f.keys) \in Nat /\ n \in Nat
  <2>1. f \in LMSFiles
    BY <1>3 DEF AvgTypes, FittingFiles
  <2>2. Len(f.keys) \in Nat
    BY <2>1 DEF LMSFiles
  <2> QED
    BY <2>2, CountKeys
<1>5. Named(f) /\ f = lmsFiles[1]' /\ f = lmsFiles'[1]
  BY <1>1 DEF NothingStays
<1>6. lmsOpened = 1 => keys = f.keys
  BY DEF keys
<1>7. Named(f)'
  <2>1. CASE lmsOpened = 1
    <3>1. \A i \in 1..BLOCKS : i # ich + 1 => channelName'[i] = channelName[i]
      BY <1>1, <1>3
    <3>2. \A i \in 1..BLOCKS : i > n => i # ich + 1
      BY <1>2, <1>3, <1>4, <1>6, <2>1
    <3>3. \A i \in 1..BLOCKS : i > n => channelName'[i] = ""
      BY <1>5, <3>1, <3>2 DEF Named
    <3>4. ASSUME NEW k \in HyCalKeys(f.keys, thisKey)
          PROVE  channelName'[Cardinality(HyCalKeys(f.keys, k))] = f.keys[k].name
      <4>1. k \in 1..thisKey /\ f.keys[k].kind = "hycal"
        BY DEF HyCalKeys
      <4>2. CASE k = thisKey
        <5>1. channelName'[ich + 1] = Key.name
          BY <1>1, <1>2, <1>3, <2>1
        <5> QED
          BY <1>2, <1>6, <2>1, <4>2, <5>1 DEF Key
      <4>3. CASE k # thisKey
        <5>1. k \in 1..thisKey - 1
          BY <1>2, <4>1, <4>3
        <5>2. k \in HyCalKeys(f.keys, thisKey - 1)
          BY <4>1, <5>1 DEF HyCalKeys
        <5>3. channelName[Cardinality(HyCalKeys(f.keys, k))] = f.keys[k].name
          BY <1>5, <2>1, <5>2 DEF Named
        <5>4. Cardinality(HyCalKeys(f.keys, k)) \in 1..ich
          BY <1>2, <1>6, <2>1, <5>2, LineOfKey
        <5>5. Cardinality(HyCalKeys(f.keys, k)) \in 1..BLOCKS
              /\ Cardinality(HyCalKeys(f.keys, k)) # ich + 1
          BY <1>2, <1>3, <5>4
        <5> QED
          BY <3>1, <5>3, <5>5
      <4> QED
        BY <4>2, <4>3
    <3>5. lmsOpened' = 1 /\ thisKey' - 1 = thisKey
      BY <1>1, <1>2, <2>1
    <3> HIDE DEF f
    <3> QED
      BY <1>5, <3>3, <3>4, <3>5 DEF Named, f
  <2>2. CASE lmsOpened # 1
    <3>1. channelName' = channelName /\ lmsOpened' # 1
      BY <1>1, <2>2
    <3> HIDE DEF f
    <3> QED
      BY <1>1, <1>5, <2>2, <3>1 DEF Named, f
  <2> QED
    BY <2>1, <2>2
<1>8. ASSUME \A j \in 1..Len(lmsFiles) : j <= lmsOpened => SameLists(lmsFiles[j], lmsFiles[1])
      PROVE  Unlisted(f)'
  <2>1. SameLists(lmsFiles[lmsOpened], f)
    BY <1>3, <1>8
  <2>2. HyCalKeys(keys, Len(keys)) = HyCalKeys(f.keys, Len(f.keys))
    <3>1. Len(keys) = Len(f.keys)
      BY <2>1 DEF SameLists, keys
    <3> QED
      BY <1>2, <2>1, <3>1, SameKeys DEF keys
  <2>3. Unlisted(f)
    BY <1>8 DEF NothingStays
  <2>4. \A i \in 1..BLOCKS : i > n => hycal'[i] = hycal[i]
    BY <1>1, <1>2, <1>3, <1>4, <2>2
  <2>5. f' = f /\ ref' = ref
    BY <1>1
  <2> HIDE DEF f
  <2>6. \A i \in 1..BLOCKS : i > Cardinality(HyCalKeys(f.keys, Len(f.keys))) =>
          hycal'[i] = [ped |-> 0, LMS |-> 0]
    BY <2>3, <2>4 DEF Unlisted
  <2>7. \A r \in References :
          (\A k \in 1..Len(f.keys) : f.keys[k].kind = "reference" => f.keys[k].ref # r) =>
          ref'[r] = [ped |-> 0, alpha |-> 0, LMS |-> 0, gain |-> <<>>]
    BY <2>3, <2>5 DEF Unlisted
  <2> QED
    BY <2>5, <2>6, <2>7 DEF Unlisted
<1> QED
  BY <1>7, <1>8

LEMMA ChannelFitted ==
  ASSUME AvgInv, FitHyCalHist
  PROVE  AvgInv'
<1>0. AvgTypes /\ Counted /\ ShowsRead /\ NothingStays /\ GainsOfOwnRun
  BY DEF AvgInv
<1>1. /\ lmsOpened <= Len(lmsFiles) /\ thisKey <= Len(keys) /\ Key.kind = "hycal"
      /\ thisKey' = thisKey + 1 /\ ich' = ich + 1 /\ ref' = ref
      /\ UNCHANGED <<doAverage, lmsFiles, lmsOpened, baseinfo>>
      /\ hycal' = [hycal EXCEPT ![ich'] = [ped |-> Summed(hycal[ich'].ped, Key.ped),
                                           LMS |-> Summed(hycal[ich'].LMS, Key.LMS)]]
  BY DEF FitHyCalHist, NextKey
<1>2. thisKey \in Nat /\ thisKey # 0 /\ thisKey - 1 \in Nat /\ (thisKey - 1) + 1 = thisKey /\ ich \in Nat
  BY <1>0, <1>1, NextLine
<1>3. Len(keys) \in Nat
  BY <1>0, <1>1, NextLine
<1>4. ich = Cardinality(HyCalKeys(keys, thisKey - 1))
  BY <1>0, <1>1, NextLine
<1>5. ich + 1 = Cardinality(HyCalKeys(keys, thisKey))
  BY <1>0, <1>1, NextLine
<1>6. ich + 1 \in 1..BLOCKS
  BY <1>0, <1>1, NextLine
<1>7. AvgTypes'
  <2>1. channelName' = IF lmsOpened = 1 THEN [channelName EXCEPT ![ich + 1] = Key.name]
                       ELSE channelName
    BY Zenon DEF FitHyCalHist
  <2> QED
    BY <1>0, <1>1, <2>1 DEF AvgTypes
<1>8. keys' = keys
  BY <1>1 DEF keys
<1>9. Counted'
  <2>1. thisKey' - 1 = thisKey
    BY <1>1, <1>2
  <2>2. thisKey' <= Len(keys) + 1
    BY <1>1, <1>2, <1>3
  <2> QED
    BY <1>1, <1>5, <1>8, <2>1, <2>2 DEF Counted
<1>10. ShowsRead'
  <2> SUFFICES ASSUME ~doAverage PROVE ShowsLists(hycal', ref', lmsFiles[lmsOpened], thisKey)
    <3>1. thisKey' - 1 = thisKey
      BY <1>1, <1>2
    <3> QED
      BY <1>1, <3>1 DEF ShowsRead
  <2>1. ShowsLists(hycal, ref, lmsFiles[lmsOpened], thisKey - 1)
    BY <1>0, <1>1 DEF ShowsRead
  <2>2. hycal'[ich + 1] = [ped |-> Key.ped, LMS |-> Key.LMS]
    BY <1>0, <1>1, <1>6 DEF AvgTypes, Summed
  <2>3. \A i \in 1..BLOCKS : i # ich + 1 => hycal'[i] = hycal[i]
    BY <1>0, <1>1 DEF AvgTypes
  <2> SUFFICES ASSUME NEW k \in 1..thisKey
               PROVE  /\ keys[k].kind = "hycal" =>
                           hycal'[Cardinality(HyCalKeys(keys, k))] = [ped |-> keys[k].ped, LMS |-> keys[k].LMS]
                      /\ keys[k].kind = "reference"
                           /\ (\A j \in k + 1..thisKey : keys[j].kind = "reference" => keys[j].ref # keys[k].ref) =>
                           ref'[keys[k].ref] = [ped |-> keys[k].ped, alpha |-> keys[k].alpha,
                                                LMS |-> keys[k].LMS, gain |-> GainTerm(keys[k])]
    BY Zenon DEF ShowsLists, keys
  <2>4. CASE k = thisKey
    BY <2>4, <1>1, <1>5, <2>2 DEF Key
  <2>5. CASE k # thisKey
    <3>1. k \in 1..thisKey - 1 /\ k \in 0..thisKey - 1 /\ k \in Nat
      BY <2>5, <1>2
    <3>2. keys[k].kind = "hycal" =>
            hycal[Cardinality(HyCalKeys(keys, k))] = [ped |-> keys[k].ped, LMS |-> keys[k].LMS]
      BY <2>1, <3>1 DEF ShowsLists, keys
    <3>3. ASSUME keys[k].kind = "hycal"
          PROVE  hycal'[Cardinality(HyCalKeys(keys, k))] = [ped |-> keys[k].ped, LMS |-> keys[k].LMS]
      <4> DEFINE c == Cardinality(HyCalKeys(keys, k))
      <4>1. c \in Nat /\ c <= ich
        BY <1>2, <1>4, <3>1, CountKeys
      <4>2. c # 0
        <5>1. k - 1 \in Nat /\ (k - 1) + 1 = k
          BY <3>1
        <5>2. c = Cardinality(HyCalKeys(keys, k - 1)) + 1 /\ Cardinality(HyCalKeys(keys, k - 1)) \in Nat
          BY <3>3, <5>1, CountKeys
        <5> QED
          BY <5>2
      <4>3. c \in 1..BLOCKS /\ c # ich + 1
        BY <4>1, <4>2, <1>2, <1>6, AvgAssumption DEF AvgAssumption
      <4> QED
        BY <3>2, <3>3, <4>3, <2>3
    <3>4. ASSUME keys[k].kind = "reference",
                 \A j \in k + 1..thisKey : keys[j].kind = "reference" => keys[j].ref # keys[k].ref
          PROVE  ref'[keys[k].ref] = [ped |-> keys[k].ped, alpha |-> keys[k].alpha,
                                      LMS |-> keys[k].LMS, gain |-> GainTerm(keys[k])]
      <4>1. \A j \in k + 1..thisKey - 1 : keys[j].kind = "reference" => keys[j].ref # keys[k].ref
        BY <3>4, <3>1, <1>2
      <4>2. ref[keys[k].ref] = [ped |-> keys[k].ped, alpha |-> keys[k].alpha,
                                LMS |-> keys[k].LMS, gain |-> GainTerm(keys[k])]
        BY <2>1, <3>1, <3>4, <4>1 DEF ShowsLists, keys
      <4> QED
        BY <4>2, <1>1
    <3> QED
      BY <3>3, <3>4
  <2> QED
    BY <2>4, <2>5
<1> QED
  BY <1>0, <1>1, <1>7, <1>9, <1>10, ChannelNamed, WrittenStays DEF AvgInv

LEMMA ReferenceFitted ==
  ASSUME AvgInv, FitReferenceHist
  PROVE  AvgInv'
<1>0. AvgTypes /\ Counted /\ ShowsRead /\ NothingStays /\ GainsOfOwnRun
  BY DEF AvgInv
<1> DEFINE fitted == [ped   |-> Summed(ref[Key.ref].ped, Key.ped),
                      alpha |-> Summed(ref[Key.ref].alpha, Key.alpha),
                      LMS   |-> Summed(ref[Key.ref].LMS, Key.LMS),
                      gain  |-> IF doAverage THEN ref[Key.ref].gain \o GainTerm(Key) ELSE GainTerm(Key)]
<1>1. /\ lmsOpened <= Len(lmsFiles) /\ thisKey <= Len(keys) /\ Key.kind = "reference"
      /\ thisKey' = thisKey + 1 /\ ich' = ich /\ hycal' = hycal
      /\ UNCHANGED <<doAverage, lmsFiles, lmsOpened, baseinfo>>
      /\ ref' = [ref EXCEPT ![Key.ref] = fitted]
  BY DEF FitReferenceHist, NextKey
<1>2. thisKey \in Nat /\ thisKey # 0 /\ thisKey - 1 \in Nat /\ (thisKey - 1) + 1 = thisKey /\ ich \in Nat
  BY <1>0 DEF AvgTypes
<1>3. Len(keys) \in Nat /\ keys \in Seq(LMSKeys)
  BY <1>0, <1>1, FileRead
<1>4. Key.ref \in References
  <2>1. Key \in LMSKeys
    BY <1>1, <1>2, <1>3 DEF Key
  <2>2. \A x \in [kind : {"hycal"}, name : ChannelNames, ped : Nat, LMS : Nat] : x.kind = "hycal"
    OBVIOUS
  <2>3. Key \in [kind : {"reference"}, ref : References, ped : Nat, alpha : Nat, LMS : Nat]
    BY <1>1, <2>1, <2>2 DEF LMSKeys
  <2> QED
    BY <2>3
<1>5. ich = Cardinality(HyCalKeys(keys, thisKey))
  <2>1. ich = Cardinality(HyCalKeys(keys, thisKey - 1))
    BY <1>0, <1>1 DEF Counted
  <2>2. Cardinality(HyCalKeys(keys, (thisKey - 1) + 1)) =
          Cardinality(HyCalKeys(keys, thisKey - 1)) + (IF keys[(thisKey - 1) + 1].kind = "hycal" THEN 1 ELSE 0)
    BY <1>2, CountKeys
  <2>3. keys[(thisKey - 1) + 1].kind # "hycal"
    BY <1>1, <1>2 DEF Key
  <2> QED
    BY <1>2, <2>1, <2>2, <2>3
<1>6. AvgTypes'
  <2>1. channelName' = channelName
    BY DEF FitReferenceHist
  <2> QED
    BY <1>0, <1>1, <2>1 DEF AvgTypes
<1>7. keys' = keys
  BY <1>1 DEF keys
<1>8. Counted'
  <2>1. thisKey' - 1 = thisKey
    BY <1>1, <1>2
  <2>2. thisKey' <= Len(keys) + 1
    BY <1>1, <1>2, <1>3
  <2> QED
    BY <1>1, <1>5, <1>7, <2>1, <2>2 DEF Counted
<1>9. ShowsRead'
  <2> SUFFICES ASSUME ~doAverage PROVE ShowsLists(hycal', ref', lmsFiles[lmsOpened], thisKey)
    <3>1. thisKey' - 1 = thisKey
      BY <1>1, <1>2
    <3> QED
      BY <1>1, <3>1 DEF ShowsRead
  <2>1. ShowsLists(hycal, ref, lmsFiles[lmsOpened], thisKey - 1)
    BY <1>0, <1>1 DEF ShowsRead
  <2>2. fitted = [ped |-> Key.ped, alpha |-> Key.alpha, LMS |-> Key.LMS, gain |-> GainTerm(Key)]
    BY DEF Summed
  <2> HIDE DEF fitted
  <2>3. ref'[Key.ref] = fitted
    BY <1>0, <1>1, <1>4 DEF AvgTypes
  <2>4. \A r \in References : r # Key.ref => ref'[r] = ref[r]
    BY <1>0, <1>1 DEF AvgTypes
  <2> SUFFICES ASSUME NEW k \in 1..thisKey
               PROVE  /\ keys[k].kind = "hycal" =>
                           hycal'[Cardinality(HyCalKeys(keys, k))] = [ped |-> keys[k].ped, LMS |-> keys[k].LMS]
                      /\ keys[k].kind = "reference"
                           /\ (\A j \in k + 1..thisKey : keys[j].kind = "reference" => keys[j].ref # keys[k].ref) =>
                           ref'[keys[k].ref] = [ped |-> keys[k].ped, alpha |-> keys[k].alpha,
                                                LMS |-> keys[k].LMS, gain |-> GainTerm(keys[k])]
    BY Zenon DEF ShowsLists, keys
  <2>5. CASE k = thisKey
    BY <2>5, <1>1, <2>2, <2>3 DEF Key
  <2>6. CASE k # thisKey
    <3>1. k \in 1..thisKey - 1 /\ k \in Nat /\ thisKey \in k + 1..thisKey
      BY <2>6, <1>2
    <3>2. keys[k].kind = "hycal" =>
            hycal[Cardinality(HyCalKeys(keys, k))] = [ped |-> keys[k].ped, LMS |-> keys[k].LMS]
      BY <2>1, <3>1 DEF ShowsLists, keys
    <3>3. ASSUME keys[k].kind = "reference",
                 \A j \in k + 1..thisKey : keys[j].kind = "reference" => keys[j].ref # keys[k].ref
          PROVE  ref'[keys[k].ref] = [ped |-> keys[k].ped, alpha |-> keys[k].alpha,
                                      LMS |-> keys[k].LMS, gain |-> GainTerm(keys[k])]
      <4>1. \A j \in k + 1..thisKey - 1 : keys[j].kind = "reference" => keys[j].ref # keys[k].ref
        BY <3>3, <3>1, <1>2
      <4>2. ref[keys[k].ref] = [ped |-> keys[k].ped, alpha |-> keys[k].alpha,
                                LMS |-> keys[k].LMS, gain |-> GainTerm(keys[k])]
        BY <2>1, <3>1, <3>3, <4>1 DEF ShowsLists, keys
      <4>3. keys[k].ref # Key.ref
        BY <3>1, <3>3, <1>1 DEF Key
      <4>4. ref'[keys[k].ref] = ref[keys[k].ref]
        BY <1>1, <4>3
      <4> QED
        BY <4>2, <4>4
    <3> QED
      BY <1>1, <3>2, <3>3
  <2> QED
    BY <2>5, <2>6
<1>10. NothingStays'
  <2> SUFFICES ASSUME lmsFiles # <<>>
               PROVE  /\ Named(lmsFiles[1])'
                      /\ (\A j \in 1..Len(lmsFiles) :
                            j <= lmsOpened => SameLists(lmsFiles[j], lmsFiles[1])) =>
                           Unlisted(lmsFiles[1])'
    BY <1>1 DEF NothingStays
  <2> DEFINE f == lmsFiles[1]
  <2>1. f' = f /\ channelName' = channelName /\ hycal' = hycal /\ lmsOpened' = lmsOpened
    BY <1>1 DEF FitReferenceHist
  <2>2. Named(f)
    BY <1>0 DEF NothingStays
  <2>3. lmsOpened = 1 => HyCalKeys(f.keys, thisKey' - 1) = HyCalKeys(f.keys, thisKey - 1)
    <3>1. lmsOpened = 1 => keys = f.keys
      BY DEF keys
    <3>2. HyCalKeys(keys, thisKey) = HyCalKeys(keys, thisKey - 1)
      <4>1. \A k \in 1..thisKey : keys[k].kind = "hycal" => k \in 1..thisKey - 1
        BY <1>1, <1>2 DEF Key
      <4>2. 1..thisKey - 1 \subseteq 1..thisKey
        BY <1>2
      <4> QED
        BY <4>1, <4>2 DEF HyCalKeys
    <3>3. thisKey' - 1 = thisKey
      BY <1>1, <1>2
    <3> QED
      BY <3>1, <3>2, <3>3
  <2>4. ASSUME \A j \in 1..Len(lmsFiles) : j <= lmsOpened => SameLists(lmsFiles[j], lmsFiles[1])
        PROVE  Unlisted(f) /\ \E k \in 1..Len(f.keys) :
                 f.keys[k].kind = "reference" /\ f.keys[k].ref = Key.ref
    <3>1. Unlisted(f)
      BY <1>0, <2>4 DEF NothingStays
    <3>2. SameLists(lmsFiles[lmsOpened], f)
      BY <1>0, <1>1, <2>4 DEF AvgTypes
    <3>3. Len(f.keys) = Len(keys) /\ SameList(keys[thisKey], f.keys[thisKey])
      BY <1>1, <1>2, <1>3, <3>2 DEF SameLists, keys
    <3>4. thisKey \in 1..Len(f.keys)
      BY <1>1, <1>2, <1>3, <3>3
    <3>5. f.keys[thisKey].kind = "reference" /\ f.keys[thisKey].ref = Key.ref
      BY <1>1, <3>3 DEF SameList, Key
    <3> QED
      BY <3>1, <3>4, <3>5
  <2>5. \A r \in References : r # Key.ref => ref'[r] = ref[r]
    BY <1>0, <1>1 DEF AvgTypes
  <2> HIDE DEF f, fitted
  <2>6. Named(f)'
    BY <2>1, <2>2, <2>3 DEF Named
  <2>7. ASSUME Unlisted(f), NEW k \in 1..Len(f.keys), f.keys[k].kind = "reference",
               f.keys[k].ref = Key.ref
        PROVE  Unlisted(f)'
    <3>1. \A i \in 1..BLOCKS : i > Cardinality(HyCalKeys(f.keys, Len(f.keys))) =>
            hycal'[i] = [ped |-> 0, LMS |-> 0]
      BY <2>1, <2>7 DEF Unlisted
    <3>2. \A r \in References :
            (\A l \in 1..Len(f.keys) : f.keys[l].kind = "reference" => f.keys[l].ref # r) =>
            ref'[r] = [ped |-> 0, alpha |-> 0, LMS |-> 0, gain |-> <<>>]
      BY <2>5, <2>7 DEF Unlisted
    <3> QED
      BY <2>1, <3>1, <3>2 DEF Unlisted
  <2> QED
    BY <2>4, <2>6, <2>7 DEF f
<1> QED
  BY <1>0, <1>1, <1>6, <1>8, <1>9, <1>10, WrittenStays DEF AvgInv

(* A file is closed: what was read of it is written for its run.            *)
Shown(info, i) ==
  /\ ShowsFile(info, lmsFiles[i])
  /\ (\A j \in 1..i : SameLists(lmsFiles[j], lmsFiles[1])) =>
       OnlyLists(info.name, info.hycal, info.ref, lmsFiles[i])

LEMMA LMSFileClosed ==
  ASSUME AvgInv, CloseLMSFile
  PROVE  AvgInv'
<1>0. AvgTypes /\ Counted /\ ShowsRead /\ NothingStays /\ GainsOfOwnRun
  BY DEF AvgInv
<1>1. /\ lmsOpened <= Len(lmsFiles) /\ thisKey > Len(keys)
      /\ lmsOpened' = lmsOpened + 1 /\ thisKey' = 1 /\ ich' = 0
      /\ UNCHANGED <<doAverage, lmsFiles, channelName, hycal, ref>>
  BY DEF CloseLMSFile, fit_vars
<1>2. lmsFiles \in Seq(FittingFiles) /\ lmsOpened \in Nat \ {0} /\ thisKey \in Nat \ {0}
      /\ Len(lmsFiles) \in Nat
  BY <1>0 DEF AvgTypes
<1>3. AvgTypes'
  BY <1>0, <1>1 DEF AvgTypes
<1>4. Counted'
  <2> SUFFICES ASSUME lmsOpened' <= Len(lmsFiles')
               PROVE  thisKey' <= Len(keys') + 1 /\ ich' = Cardinality(HyCalKeys(keys', thisKey' - 1))
    BY DEF Counted
  <2>1. keys' = lmsFiles[lmsOpened + 1].keys
    BY <1>1 DEF keys
  <2>2. Len(keys') \in Nat
    <3>1. lmsFiles[lmsOpened + 1] \in LMSFiles
      BY <1>1, <1>2 DEF FittingFiles
    <3> QED
      BY <2>1, <3>1 DEF LMSFiles
  <2>3. Cardinality(HyCalKeys(keys', 0)) = 0
    BY CountKeys
  <2>4. thisKey' - 1 = 0
    BY <1>1
  <2> QED
    BY <1>1, <2>2, <2>3, <2>4
<1>5. ShowsRead'
  <2>1. 1..thisKey' - 1 = {}
    BY <1>1
  <2> QED
    BY <2>1 DEF ShowsRead, ShowsLists
<1>6. GainsOfOwnRun'
  <2> SUFFICES ASSUME ~doAverage, NEW i \in 1..Len(lmsFiles), i < lmsOpened + 1,
                      \A j \in i + 1..lmsOpened : lmsFiles[j].run # lmsFiles[i].run
               PROVE  /\ <<lmsFiles[i].run>> \in DOMAIN baseinfo'
                      /\ Shown(baseinfo'[<<lmsFiles[i].run>>], i)
    <3>1. (lmsOpened + 1) - 1 = lmsOpened
      BY <1>2
    <3> QED
      BY <1>1, <3>1 DEF GainsOfOwnRun, Shown
  <2> DEFINE period == <<lmsFiles[lmsOpened].run>>
             info   == [name |-> channelName, hycal |-> hycal, ref |-> ref, nTotal |-> 1]
  <2>1. baseinfo' = [p \in DOMAIN baseinfo \cup {period} |-> IF p = period THEN info ELSE baseinfo[p]]
    BY Zenon DEF CloseLMSFile, WriteOutput
  <2>2. thisKey - 1 = Len(keys)
    BY <1>0, <1>1, <1>2, FileRead DEF Counted
  <2>3. ShowsFile(info, lmsFiles[lmsOpened])
    <3>1. ShowsLists(hycal, ref, lmsFiles[lmsOpened], Len(lmsFiles[lmsOpened].keys))
      BY <1>0, <1>1, <2>2 DEF ShowsRead, keys
    <3>2. info.hycal = hycal /\ info.ref = ref
      OBVIOUS
    <3> QED
      BY <3>1, <3>2, Zenon DEF ShowsFile
  <2>6. ASSUME \A j \in 1..lmsOpened : SameLists(lmsFiles[j], lmsFiles[1])
        PROVE  OnlyLists(info.name, info.hycal, info.ref, lmsFiles[lmsOpened])
    <3> DEFINE f == lmsFiles[1]
    <3>1. /\ lmsFiles # <<>> /\ f \in LMSFiles /\ lmsOpened \in 1..Len(lmsFiles)
          /\ \A j \in 1..Len(lmsFiles) : j <= lmsOpened => SameLists(lmsFiles[j], lmsFiles[1])
      BY <1>1, <1>2, <2>6 DEF FittingFiles
    <3>2. Named(f) /\ Unlisted(f)
      BY <1>0, <3>1 DEF NothingStays
    <3>3. Len(f.keys) \in Nat /\ SameLists(lmsFiles[lmsOpened], f)
      BY <2>6, <3>1 DEF LMSFiles
    <3>4. lmsOpened = 1 => thisKey - 1 = Len(f.keys)
      BY <2>2 DEF keys
    <3> HIDE DEF f
    <3>5. OnlyLists(channelName, hycal, ref, f)
      BY <3>2, <3>4 DEF OnlyLists, Named, Unlisted
    <3>6. OnlyLists(channelName, hycal, ref, lmsFiles[lmsOpened])
      BY <3>3, <3>5, OnlySameLists
    <3> QED
      BY <3>6
  <2>7. Shown(info, lmsOpened)
    BY <2>3, <2>6 DEF Shown
  <2> HIDE DEF info
  <2>4. CASE i = lmsOpened
    <3>1. baseinfo'[period] = info /\ period \in DOMAIN baseinfo'
      BY <2>1
    <3> QED
      BY <2>4, <2>7, <3>1
  <2>5. CASE i # lmsOpened
    <3>1. i < lmsOpened /\ lmsOpened \in i + 1..lmsOpened
      BY <2>5, <1>2
    <3>2. \A j \in i + 1..lmsOpened - 1 : lmsFiles[j].run # lmsFiles[i].run
      BY <1>2
    <3>3. /\ <<lmsFiles[i].run>> \in DOMAIN baseinfo
          /\ Shown(baseinfo[<<lmsFiles[i].run>>], i)
      BY <1>0, <3>1, <3>2 DEF GainsOfOwnRun, Shown
    <3>4. <<lmsFiles[i].run>> # period
      BY <3>1
    <3>5. baseinfo'[<<lmsFiles[i].run>>] = baseinfo[<<lmsFiles[i].run>>]
          /\ <<lmsFiles[i].run>> \in DOMAIN baseinfo'
      BY <2>1, <3>3, <3>4
    <3> QED
      BY <3>3, <3>5
  <2> QED
    BY <2>4, <2>5
<1>7. NothingStays'
  <2> SUFFICES ASSUME lmsFiles # <<>>
               PROVE  /\ Named(lmsFiles[1])'
                      /\ (\A j \in 1..Len(lmsFiles) :
                            j <= lmsOpened => SameLists(lmsFiles[j], lmsFiles[1])) =>
                           Unlisted(lmsFiles[1])'
    <3>1. \A j \in 1..Len(lmsFiles) : j <= lmsOpened => j <= lmsOpened'
      BY <1>1, <1>2
    <3> QED
      BY <1>1, <3>1 DEF NothingStays
  <2> DEFINE f == lmsFiles[1]
  <2>1. f' = f /\ UNCHANGED <<channelName, hycal, ref>> /\ lmsOpened' # 1
    BY <1>1, <1>2
  <2>2. /\ Named(f)
        /\ (\A j \in 1..Len(lmsFiles) :
              j <= lmsOpened => SameLists(lmsFiles[j], lmsFiles[1])) => Unlisted(f)
    BY <1>0 DEF NothingStays
  <2>3. lmsOpened = 1 => thisKey - 1 = Len(f.keys)
    BY <1>0, <1>1, <1>2, FileRead DEF Counted, keys
  <2> HIDE DEF f
  <2>4. Named(f)'
    BY <2>1, <2>2, <2>3 DEF Named
  <2>5. Unlisted(f) => Unlisted(f)'
    BY <2>1 DEF Unlisted
  <2> QED
    BY <2>2, <2>4, <2>5 DEF f
<1> QED
  BY <1>3, <1>4, <1>5, <1>6, <1>7 DEF AvgInv

LEMMA AvgStep == AvgInv /\ [AvgNext]_avg_vars => AvgInv'
<1> SUFFICES ASSUME AvgInv, [AvgNext]_avg_vars PROVE AvgInv'
  OBVIOUS
<1>1. ASSUME UNCHANGED avg_vars PROVE AvgInv'
  <2>1. UNCHANGED <<doAverage, lmsFiles, lmsOpened, thisKey, ich, channelName, hycal, ref, baseinfo>>
    BY <1>1 DEF avg_vars, fit_vars
  <2> QED
    BY <2>1 DEF AvgInv, AvgTypes, Counted, ShowsRead, NothingStays, Named, Unlisted,
       GainsOfOwnRun, keys
<1>2. CASE WriteAverage
  <2>1. UNCHANGED <<doAverage, lmsFiles, lmsOpened, thisKey, ich, channelName, hycal, ref>>
        /\ doAverage
    BY <1>2 DEF WriteAverage, fit_vars
  <2> QED
    BY <2>1 DEF AvgInv, AvgTypes, Counted, ShowsRead, NothingStays, Named, Unlisted,
       GainsOfOwnRun, keys
<1>3. CASE GainsWritten
  BY <1>1, <1>3 DEF GainsWritten
<1> QED
  BY <1>1, <1>2, <1>3, ChannelFitted, ReferenceFitted, LMSFileClosed DEF AvgNext

(* The channels of a file are counted from the first, what is fitted of it  *)
(* is in the arrays, and they hold nothing else while the lists stay the    *)
(* same.                                                                    *)
THEOREM AvgInvariant == AvgSpec => []AvgInv
<1> QED
  BY AvgInitially, AvgStep, PTL DEF AvgSpec

(* A database file of a run shows the fits of the last file of that run,    *)
(* and nothing else when the files before it had the same lists.            *)
THEOREM GainsAreOfOwnRun == AvgSpec => []GainsOfOwnRun
<1>1. AvgInv => GainsOfOwnRun
  BY DEF AvgInv
<1> QED
  BY <1>1, AvgInvariant, PTL

-----------------------------------------------------------------------------
Counters  == {a \in Addresses : IsEnergy(a) \/ IsTiming(a)}
EnergyBins == {[bin |-> FindBin(rowsE, EnergyRow(a)), from |-> a] :
                 a \in {x \in Addresses : IsEnergy(x)}}
TimingBins == {[bin |-> FindBin(rowsT, TimingRow(a)), from |-> a] :
                 a \in {x \in Addresses : IsTiming(x)}}

TaggerInv ==
  /\ parsing \in BOOLEAN /\ (parsing => slot \in TaggerSlots \cup UnsetSlots)
  /\ tdc_data \in Seq({[id |-> ChannelId(a), from |-> a] : a \in Counters})
  /\ hist_E \subseteq EnergyBins /\ hist_T \subseteq TimingBins

LEMMA AddressType ==
  ASSUME NEW a \in Addresses
  PROVE  a.channel \in 0..127 /\ a = [slot |-> a.slot, channel |-> a.channel]
BY TaggerAssumption DEF TaggerAssumption, Addresses

LEMMA EnergyRowsApart ==
  ASSUME NEW a \in Addresses, IsEnergy(a)
  PROVE  /\ EnergyRow(a) \in 0..383
         /\ \A b \in Addresses : IsEnergy(b) /\ EnergyRow(a) = EnergyRow(b) => a = b
<1>1. EnergyRow(a) \in 0..383
  BY AddressType DEF IsEnergy, EnergyRow
<1>2. ASSUME NEW b \in Addresses, IsEnergy(b), EnergyRow(a) = EnergyRow(b) PROVE a = b
  <2>1. a.channel \in 0..127 /\ b.channel \in 0..127 /\ a.slot \in {3, 5, 7} /\ b.slot \in {3, 5, 7}
    BY <1>2, AddressType DEF IsEnergy
  <2> DEFINE c == a.channel
             d == b.channel
  <2>2. c + (a.slot - 3) * 64 = d + (b.slot - 3) * 64
    BY <1>2 DEF EnergyRow
  <2>3. a.slot = b.slot
    <3>1. c \in 0..127 /\ d \in 0..127
      BY <2>1
    <3> HIDE DEF c, d
    <3>2. CASE a.slot = 3
      BY <2>1, <2>2, <3>1, <3>2
    <3>3. CASE a.slot = 5
      BY <2>1, <2>2, <3>1, <3>3
    <3>4. CASE a.slot = 7
      BY <2>1, <2>2, <3>1, <3>4
    <3> QED
      BY <2>1, <3>2, <3>3, <3>4
  <2>4. c = d
    <3> DEFINE offset == (a.slot - 3) * 64
    <3>1. offset \in Int /\ c \in Int /\ d \in Int
      BY <2>1
    <3>2. c + offset = d + offset
      BY <2>2, <2>3
    <3> HIDE DEF c, d, offset
    <3> QED
      BY <3>1, <3>2
  <2> QED
    BY <2>3, <2>4, AddressType
<1> QED
  BY <1>1, <1>2

(* In each 32 channels, what TimingRow makes of the halves.                 *)
LEMMA TimingChannels ==
  ASSUME NEW a \in Addresses
  PROVE  TimingRow(a) =
           IF a.channel \in 0..15 \cup 32..47 \cup 64..79 \cup 96..111
           THEN a.channel + 16 ELSE a.channel - 16
<1> DEFINE c == a.channel
           l == c % 64
<1>1. c \in 0..127
  BY AddressType
<1>2. TimingRow(a) = (IF l > 31 THEN 32 ELSE 0) + ((l + 16) % 32) + (c \div 64) * 64
  BY DEF TimingRow
<1>3. l = (IF c < 64 THEN c ELSE c - 64) /\ (c \div 64) * 64 = (IF c < 64 THEN 0 ELSE 64)
  BY <1>1
<1>4. (l + 16) % 32 = IF l < 16 THEN l + 16 ELSE IF l < 48 THEN l - 16 ELSE l - 48
  <2>1. l \in 0..63
    BY <1>1, <1>3
  <2> HIDE DEF l
  <2> QED
    BY <2>1
<1> HIDE DEF c, l
<1>5. TimingRow(a) = IF c \in 0..15 \cup 32..47 \cup 64..79 \cup 96..111 THEN c + 16 ELSE c - 16
  BY <1>1, <1>2, <1>3, <1>4
<1> QED
  BY <1>5 DEF c

LEMMA TimingRowsApart ==
  ASSUME NEW a \in Addresses, IsTiming(a)
  PROVE  /\ TimingRow(a) \in 0..127
         /\ \A b \in Addresses : IsTiming(b) /\ TimingRow(a) = TimingRow(b) => a = b
<1>1. TimingRow(a) \in 0..127
  BY TimingChannels, AddressType
<1>2. ASSUME NEW b \in Addresses, IsTiming(b), TimingRow(a) = TimingRow(b) PROVE a = b
  <2>1. a.channel \in 0..127 /\ b.channel \in 0..127 /\ a.slot = b.slot
    BY <1>2, AddressType DEF IsTiming
  <2> DEFINE c == a.channel
             d == b.channel
             lower == 0..15 \cup 32..47 \cup 64..79 \cup 96..111
  <2>2. (IF c \in lower THEN c + 16 ELSE c - 16) = (IF d \in lower THEN d + 16 ELSE d - 16)
    BY <1>2, TimingChannels
  <2>3. c \in 0..127 /\ d \in 0..127
    BY <2>1
  <2> HIDE DEF c, d
  <2>4. c = d
    BY <2>2, <2>3
  <2> QED
    BY <2>1, <2>4, AddressType DEF c, d
<1> QED
  BY <1>1, <1>2

LEMMA ChannelIds ==
  ASSUME NEW a \in Counters
  PROVE  /\ ChannelId(a) - TAGGER_CHANID \in Nat
         /\ IsEnergy(a) => ChannelId(a) - TAGGER_CHANID = EnergyRow(a) /\ EnergyRow(a) < TAGGER_T_CHANID
         /\ ~IsEnergy(a) => /\ IsTiming(a)
                            /\ ChannelId(a) - TAGGER_CHANID = TimingRow(a) + TAGGER_T_CHANID
                            /\ TimingRow(a) \in Nat
<1>1. CASE IsEnergy(a)
  <2>1. EnergyRow(a) \in 0..383
    BY <1>1, EnergyRowsApart DEF Counters
  <2> QED
    BY <1>1, <2>1 DEF ChannelId, TAGGER_CHANID, TAGGER_T_CHANID
<1>2. CASE ~IsEnergy(a)
  <2>1. IsTiming(a)
    BY <1>2 DEF Counters
  <2>2. TimingRow(a) \in 0..127
    BY <2>1, TimingRowsApart DEF Counters
  <2> QED
    BY <1>2, <2>1, <2>2 DEF ChannelId, TAGGER_CHANID, TAGGER_T_CHANID
<1> QED
  BY <1>1, <1>2

(* The bins of the rows: in their order, the last one beyond the axis.      *)
LEMMA EnergyBin ==
  ASSUME NEW y \in 0..383
  PROVE  FindBin(rowsE, y) = IF y = 383 THEN 385 ELSE y + 1
<1>1. (384 * y) \div 383 = IF y = 383 THEN 384 ELSE y
  BY SMTT(30)
<1> QED
  BY <1>1 DEF FindBin, rowsE

LEMMA TimingBin ==
  ASSUME NEW y \in 0..127
  PROVE  FindBin(rowsT, y) = IF y = 127 THEN 129 ELSE y + 1
<1>1. (128 * y) \div 127 = IF y = 127 THEN 128 ELSE y
  BY SMTT(30)
<1> QED
  BY <1>1 DEF FindBin, rowsT

LEMMA TaggerFilled ==
  ASSUME TaggerInv, FillHists
  PROVE  TaggerInv'
<1> DEFINE hits == {tdc_data[i] : i \in 1..Len(tdc_data)}
           E == {w \in hits : w.id - TAGGER_CHANID \in 0..TAGGER_T_CHANID - 1}
           T == {w \in hits : w.id - TAGGER_CHANID >= TAGGER_T_CHANID}
           inCounters == {[id |-> ChannelId(a), from |-> a] : a \in Counters}
           eBin(w) == [bin |-> FindBin(rowsE, w.id - TAGGER_CHANID), from |-> w.from]
           tBin(w) == [bin |-> FindBin(rowsT, w.id - TAGGER_CHANID - TAGGER_T_CHANID),
                       from |-> w.from]
<1>1. /\ tdc_data' = <<>> /\ UNCHANGED <<parsing, slot>>
      /\ hist_E' = hist_E \cup {eBin(w) : w \in E} /\ hist_T' = hist_T \cup {tBin(w) : w \in T}
  BY DEF FillHists
<1>2. hits \subseteq inCounters
  <2>1. tdc_data \in Seq(inCounters)
    BY DEF TaggerInv
  <2> HIDE DEF inCounters
  <2> QED
    BY <2>1
<1>3. ASSUME NEW w \in E PROVE eBin(w) \in EnergyBins
  <2>1. PICK a \in Counters : w = [id |-> ChannelId(a), from |-> a]
    BY <1>2
  <2>2. ChannelId(a) - TAGGER_CHANID \in 0..TAGGER_T_CHANID - 1
    BY <2>1
  <2>3. IsEnergy(a)
    <3>1. CASE ~IsEnergy(a)
      <4>1. /\ ChannelId(a) - TAGGER_CHANID = TimingRow(a) + TAGGER_T_CHANID
            /\ TimingRow(a) \in Nat
        BY <3>1, ChannelIds
      <4>2. PICK n \in Nat : n = TimingRow(a)
        BY <4>1
      <4>3. n + TAGGER_T_CHANID \in 0..TAGGER_T_CHANID - 1
        BY <2>2, <4>1, <4>2
      <4> QED
        BY ONLY <4>3, n \in Nat DEF TAGGER_T_CHANID
    <3> QED
      BY <3>1
  <2>4. w.id - TAGGER_CHANID = EnergyRow(a) /\ w.from = a
    BY <2>1, <2>3, ChannelIds
  <2> QED
    BY <2>3, <2>4 DEF EnergyBins, Counters
<1>4. ASSUME NEW w \in T PROVE tBin(w) \in TimingBins
  <2>1. PICK a \in Counters : w = [id |-> ChannelId(a), from |-> a]
    BY <1>2
  <2>2. ~IsEnergy(a)
    <3>1. ChannelId(a) - TAGGER_CHANID >= TAGGER_T_CHANID
      BY <2>1
    <3>2. ChannelId(a) - TAGGER_CHANID \in Nat
      BY ChannelIds
    <3> QED
      BY <3>1, <3>2, ChannelIds, EnergyRowsApart DEF TAGGER_T_CHANID, Counters
  <2>3. IsTiming(a) /\ w.from = a /\ w.id - TAGGER_CHANID = TimingRow(a) + TAGGER_T_CHANID
    BY <2>1, <2>2, ChannelIds
  <2>4. (w.id - TAGGER_CHANID) - TAGGER_T_CHANID = TimingRow(a)
    BY <2>2, <2>3, ChannelIds DEF TAGGER_T_CHANID
  <2> QED
    BY <2>3, <2>4 DEF TimingBins, Counters
<1> HIDE DEF E, T, eBin, tBin
<1>5. hist_E' \subseteq EnergyBins /\ hist_T' \subseteq TimingBins
  BY <1>1, <1>3, <1>4 DEF TaggerInv
<1> QED
  BY <1>1, <1>5 DEF TaggerInv

LEMMA TaggerStep == TaggerInv /\ [TaggerNext]_tagger_vars => TaggerInv'
<1> SUFFICES ASSUME TaggerInv, [TaggerNext]_tagger_vars PROVE TaggerInv'
  OBVIOUS
<1> DEFINE inCounters == {[id |-> ChannelId(a), from |-> a] : a \in Counters}
<1>0. tdc_data \in Seq(inCounters)
  BY DEF TaggerInv
<1>1. CASE BeginBank
  BY <1>1 DEF TaggerInv, BeginBank
<1>2. CASE GlobalHeader
  BY <1>2 DEF TaggerInv, GlobalHeader
<1>3. CASE FeedTaggerHits
  <2>1. PICK ch \in TaggerChannels : LET a == [slot |-> slot, channel |-> ch] IN
           tdc_data' = IF IsEnergy(a) \/ IsTiming(a)
                       THEN Append(tdc_data, [id |-> ChannelId(a), from |-> a]) ELSE tdc_data
    BY <1>3 DEF FeedTaggerHits
  <2> DEFINE a == [slot |-> slot, channel |-> ch]
  <2>2. a \in Addresses
    BY <1>3 DEF FeedTaggerHits, TaggerInv, Addresses
  <2>3. IsEnergy(a) \/ IsTiming(a) => [id |-> ChannelId(a), from |-> a] \in inCounters
    BY <2>2 DEF Counters
  <2>4. tdc_data' = IF IsEnergy(a) \/ IsTiming(a)
                    THEN Append(tdc_data, [id |-> ChannelId(a), from |-> a]) ELSE tdc_data
    BY <2>1
  <2> HIDE DEF a, inCounters
  <2>5. tdc_data' \in Seq(inCounters)
    BY <1>0, <2>3, <2>4
  <2> USE DEF inCounters
  <2> QED
    BY <1>3, <2>5 DEF FeedTaggerHits, TaggerInv
<1>4. CASE EndBank
  BY <1>4 DEF TaggerInv, EndBank
<1>5. CASE FillHists
  BY <1>5, TaggerFilled
<1>6. CASE ResetTagger
  BY <1>6 DEF TaggerInv, ResetTagger
<1>7. CASE UNCHANGED tagger_vars
  BY <1>7 DEF TaggerInv, tagger_vars
<1> QED
  BY <1>1, <1>2, <1>3, <1>4, <1>5, <1>6, <1>7 DEF TaggerNext

(* No two counters of the tagger fill one bin of a histogram, none fills    *)
(* the histogram of the others, and no row but the last falls off the axis. *)
THEOREM CountersApart == TaggerSpec => []RowsApart
<1>1. TaggerInit => TaggerInv
  <2> SUFFICES ASSUME TaggerInit PROVE TaggerInv
    OBVIOUS
  <2> DEFINE inCounters == {[id |-> ChannelId(a), from |-> a] : a \in Counters}
  <2> HIDE DEF inCounters
  <2>1. <<>> \in Seq(inCounters)
    OBVIOUS
  <2> QED
    BY <2>1 DEF TaggerInit, TaggerInv, inCounters
<1>2. TaggerInv => RowsApart
  <2> SUFFICES ASSUME TaggerInv PROVE RowsApart
    OBVIOUS
  <2>1. ASSUME NEW q \in hist_E, NEW r \in hist_E
        PROVE  /\ IsEnergy(q.from) /\ (q.bin = r.bin => q = r)
               /\ q.bin = EnergyRow(q.from) + 1 \/ EnergyRow(q.from) = rowsE - 1
    <3>1. PICK a \in Addresses : /\ IsEnergy(a)
                                 /\ q = [bin |-> FindBin(rowsE, EnergyRow(a)), from |-> a]
      BY DEF TaggerInv, EnergyBins
    <3>2. PICK b \in Addresses : /\ IsEnergy(b)
                                 /\ r = [bin |-> FindBin(rowsE, EnergyRow(b)), from |-> b]
      BY DEF TaggerInv, EnergyBins
    <3>3. EnergyRow(a) \in 0..383 /\ EnergyRow(b) \in 0..383
      BY <3>1, <3>2, EnergyRowsApart
    <3>4. /\ q.bin = IF EnergyRow(a) = 383 THEN 385 ELSE EnergyRow(a) + 1
          /\ r.bin = IF EnergyRow(b) = 383 THEN 385 ELSE EnergyRow(b) + 1
      BY <3>1, <3>2, <3>3, EnergyBin
    <3>5. q.bin = r.bin => EnergyRow(a) = EnergyRow(b)
      <4>1. PICK m \in 0..383, n \in 0..383 : m = EnergyRow(a) /\ n = EnergyRow(b)
        BY <3>3
      <4>2. /\ q.bin = IF m = 383 THEN 385 ELSE m + 1
            /\ r.bin = IF n = 383 THEN 385 ELSE n + 1
        BY <3>4, <4>1
      <4>3. q.bin = r.bin => m = n
        BY ONLY <4>2
      <4> QED
        BY <4>1, <4>3
    <3>6. q.bin = r.bin => a = b
      BY <3>1, <3>2, <3>5, EnergyRowsApart
    <3>7. q.bin = EnergyRow(a) + 1 \/ EnergyRow(a) = rowsE - 1
      BY <3>3, <3>4 DEF rowsE
    <3> QED
      BY <3>1, <3>2, <3>6, <3>7
  <2>2. ASSUME NEW q \in hist_T, NEW r \in hist_T
        PROVE  /\ IsTiming(q.from) /\ (q.bin = r.bin => q = r)
               /\ q.bin = TimingRow(q.from) + 1 \/ TimingRow(q.from) = rowsT - 1
    <3>1. PICK a \in Addresses : /\ IsTiming(a)
                                 /\ q = [bin |-> FindBin(rowsT, TimingRow(a)), from |-> a]
      BY DEF TaggerInv, TimingBins
    <3>2. PICK b \in Addresses : /\ IsTiming(b)
                                 /\ r = [bin |-> FindBin(rowsT, TimingRow(b)), from |-> b]
      BY DEF TaggerInv, TimingBins
    <3>3. TimingRow(a) \in 0..127 /\ TimingRow(b) \in 0..127
      BY <3>1, <3>2, TimingRowsApart
    <3>4. /\ q.bin = IF TimingRow(a) = 127 THEN 129 ELSE TimingRow(a) + 1
          /\ r.bin = IF TimingRow(b) = 127 THEN 129 ELSE TimingRow(b) + 1
      BY <3>1, <3>2, <3>3, TimingBin
    <3>5. q.bin = r.bin => TimingRow(a) = TimingRow(b)
      BY <3>3, <3>4
    <3>6. q.bin = r.bin => a = b
      BY <3>1, <3>2, <3>5, TimingRowsApart
    <3>7. q.bin = TimingRow(a) + 1 \/ TimingRow(a) = rowsT - 1
      BY <3>3, <3>4 DEF rowsT
    <3> QED
      BY <3>1, <3>2, <3>6, <3>7
  <2> QED
    BY <2>1, <2>2 DEF RowsApart, InOwnBin
<1> QED
  BY <1>1, <1>2, TaggerStep, PTL DEF TaggerSpec

-----------------------------------------------------------------------------
DataTypes == {"event", "epics"}

LEMMA SetInduction ==
  ASSUME NEW S \in SUBSET Nat, 0 \in S, \A n \in S : n + 1 \in S
  PROVE  S = Nat
<1> DEFINE R == OpToRel(<, Nat)
           T == Nat \ S
<1>1. IsWellFoundedOn(R, Nat)
  BY NatLessThanWellFounded
<1>2. \A x, y \in Nat : <<x, y>> \in R <=> x < y
  BY DEF OpToRel
<1> HIDE DEF R
<1>3. SUFFICES ASSUME T # {} PROVE FALSE
  OBVIOUS
<1>4. PICK x \in T : \A y \in T : ~(<<y, x>> \in R)
  BY <1>1, <1>3, WFMin
<1>5. x \in Nat /\ x # 0 /\ x - 1 \in Nat /\ (x - 1) + 1 = x
  BY <1>4
<1>6. <<x - 1, x>> \in R
  BY <1>2, <1>5
<1>7. x - 1 \in S
  BY <1>4, <1>5, <1>6
<1>8. x \in S
  BY <1>5, <1>7
<1> QED
  BY <1>4, <1>8

(* The data records among the first of a file exist, and grow with it.      *)
LEMMA DataRecords ==
  ASSUME NEW rs, Len(rs) \in Nat
  PROVE  /\ dataOf(rs)[0] = <<>>
         /\ \A n \in 1..Len(rs) :
              dataOf(rs)[n] = IF rs[n].type \in DataTypes THEN Append(dataOf(rs)[n - 1], rs[n])
                              ELSE dataOf(rs)[n - 1]
<1> DEFINE step(s, x) == IF x.type \in DataTypes THEN Append(s, x) ELSE s
           is(f, n) == f = [i \in 0..n |-> IF i = 0 THEN <<>> ELSE step(f[i - 1], rs[i])]
           S == {k \in Nat : \E f : is(f, k)}
<1>1. 0 \in S
  <2>1. is([i \in 0..0 |-> <<>>], 0)
    OBVIOUS
  <2> QED
    BY <2>1
<1>2. ASSUME NEW k \in S PROVE k + 1 \in S
  <2>1. PICK f : is(f, k)
    BY <1>2
  <2> DEFINE g == [i \in 0..k + 1 |-> IF i = k + 1 THEN step(f[k], rs[k + 1]) ELSE f[i]]
  <2> HIDE DEF step
  <2>2. \A i \in 0..k : f[i] = IF i = 0 THEN <<>> ELSE step(f[i - 1], rs[i])
    BY <2>1
  <2>3. k \in Nat /\ \A i \in 0..k : g[i] = f[i]
    BY <1>2
  <2>4. ASSUME NEW i \in 0..k + 1 PROVE g[i] = IF i = 0 THEN <<>> ELSE step(g[i - 1], rs[i])
    <3>1. CASE i = k + 1
      BY <2>3, <3>1
    <3>2. CASE i # k + 1
      <4>1. i \in 0..k /\ (i # 0 => i - 1 \in 0..k)
        BY <2>3, <3>2
      <4> HIDE DEF g
      <4> QED
        BY <2>2, <2>3, <4>1
    <3> QED
      BY <3>1, <3>2
  <2>5. DOMAIN g = 0..k + 1 /\ g = [i \in 0..k + 1 |-> g[i]]
    OBVIOUS
  <2> HIDE DEF g
  <2>6. \E w : is(w, k + 1)
    BY <2>4, <2>5
  <2>7. k + 1 \in Nat
    BY <2>3
  <2> HIDE DEF is
  <2> QED
    BY <2>6, <2>7
<1> HIDE DEF S
<1>3. S = Nat
  <2>1. S \in SUBSET Nat
    BY DEF S
  <2> QED
    BY <1>1, <1>2, <2>1, SetInduction
<1>4. \E f : is(f, Len(rs))
  BY <1>3 DEF S
<1>5. dataOf(rs) = CHOOSE f : is(f, Len(rs))
  BY Zenon DEF dataOf, DataTypes
<1>6. is(dataOf(rs), Len(rs))
  <2> HIDE DEF is
  <2> QED
    BY <1>4, <1>5, Zenon
<1> HIDE DEF step
<1>7. \A n \in 0..Len(rs) :
        dataOf(rs)[n] = IF n = 0 THEN <<>> ELSE step(dataOf(rs)[n - 1], rs[n])
  BY <1>6
<1> QED
  BY <1>7 DEF step

(* Those of fewer records are a beginning of those of all.                  *)
LEMMA DataGrows ==
  ASSUME NEW rs \in Seq(Records), NEW n \in 0..Len(rs)
  PROVE  /\ dataOf(rs)[n] \in Seq(Records) /\ data(rs) \in Seq(Records)
         /\ IsPrefix(dataOf(rs)[n], data(rs))
<1> DEFINE d == dataOf(rs)
           Begins(s, t) == Len(s) <= Len(t) /\ \A j \in 1..Len(s) : t[j] = s[j]
           S == {k \in Nat : k <= Len(rs) =>
                   d[k] \in Seq(Records) /\ (n <= k => d[n] \in Seq(Records) /\ Begins(d[n], d[k]))}
<1>0. Len(rs) \in Nat /\ n \in Nat
  OBVIOUS
<1>1. /\ d[0] = <<>>
      /\ \A k \in 1..Len(rs) : d[k] = IF rs[k].type \in DataTypes THEN Append(d[k - 1], rs[k])
                                     ELSE d[k - 1]
  BY <1>0, DataRecords
<1> HIDE DEF d
<1>2. 0 \in S
  <2>1. d[0] \in Seq(Records) /\ Begins(d[0], d[0])
    BY <1>1
  <2>2. n <= 0 => n = 0
    BY <1>0
  <2> QED
    BY <2>1, <2>2
<1>3. ASSUME NEW k \in S PROVE k + 1 \in S
  <2>1. SUFFICES ASSUME k + 1 <= Len(rs)
                 PROVE  d[k + 1] \in Seq(Records)
                        /\ (n <= k + 1 => d[n] \in Seq(Records) /\ Begins(d[n], d[k + 1]))
    BY <1>3
  <2>2. k \in Nat /\ d[k] \in Seq(Records) /\ k + 1 \in 1..Len(rs) /\ rs[k + 1] \in Records
        /\ (n <= k => d[n] \in Seq(Records) /\ Begins(d[n], d[k]))
    BY <1>0, <1>3, <2>1
  <2>3. d[k + 1] \in Seq(Records) /\ Begins(d[k], d[k + 1])
    <3>1. d[k + 1] = IF rs[k + 1].type \in DataTypes THEN Append(d[k], rs[k + 1]) ELSE d[k]
      BY <1>1, <2>2
    <3> QED
      BY <2>2, <3>1
  <2>4. CASE n = k + 1
    BY <2>3, <2>4
  <2>5. CASE n <= k
    BY <2>2, <2>3, <2>5
  <2> QED
    BY <1>0, <2>2, <2>3, <2>4, <2>5
<1> HIDE DEF S
<1>4. S = Nat
  <2>1. S \in SUBSET Nat
    BY DEF S
  <2> QED
    BY <1>2, <1>3, <2>1, SetInduction
<1>5. d[n] \in Seq(Records) /\ d[Len(rs)] \in Seq(Records) /\ Begins(d[n], d[Len(rs)])
  BY <1>0, <1>4 DEF S
<1>6. IsPrefix(d[n], d[Len(rs)])
  <2> DEFINE s == d[n]
             t == d[Len(rs)]
  <2>1. s \in Seq(Records) /\ t \in Seq(Records) /\ Len(s) <= Len(t) /\ \A j \in 1..Len(s) : t[j] = s[j]
    BY <1>5
  <2> HIDE DEF s, t
  <2>2. SubSeq(s, 1, Len(s)) = SubSeq(t, 1, Len(s))
    BY <2>1
  <2>3. IsPrefix(s, t)
    BY <2>1, <2>2 DEF IsPrefix
  <2> QED
    BY <2>3 DEF s, t
<1> QED
  BY <1>5, <1>6 DEF data, d

-----------------------------------------------------------------------------
(* Records as they are written.                                            *)
ListTypes == {"hycal_info", "gem_info", "epics_map"}
Types     == DataTypes \cup {"run_info"} \cup ListTypes
Written   == [type : Types, length : 0..BufSize, body : Counts]
DSTFiles  == [version : {"none", "current"}, closed : BOOLEAN, records : Seq(Written)]

(* The first record holds HyCal's pedestals, after those of the saves that  *)
(* failed.  They are as many, since the channels of a system stay.          *)
HyCalBody(body, n) ==
  /\ BufSize - 1 <= Len(body) \/ n + 1 <= Len(body)
  /\ body # <<>> => body[1] = n

Whole(w, m) ==
  /\ w.length = Len(w.body) + 1
  /\ IF m.type = "hycal_info" THEN HyCalBody(w.body, Len(m.value))
     ELSE w.body = writeBuffer(<<>>, payload(m))

(* What a record is made of.                                                *)
LEMMA RecordFields ==
  ASSUME NEW m \in Records
  PROVE  /\ m.type \in Types /\ m = rec(m.type, m.value)
         /\ m.type \in DataTypes => m.value \in Occurrences
         /\ m.type = "run_info" => m.value \in Nat
         /\ m.type \in ListTypes => m.value \in Counts
  BY DEF Records, rec, Types, DataTypes, ListTypes

LEMMA Payload ==
  ASSUME NEW m \in Records
  PROVE  /\ payload(m) \in Counts
         /\ m.type \in DataTypes =>
              /\ Len(payload(m)) = 2 + Len(m.value.data)
              /\ payload(m)[1] = m.value.number /\ payload(m)[2] = Len(m.value.data)
              /\ \A j \in 1..Len(m.value.data) : payload(m)[2 + j] = m.value.data[j]
         /\ m.type = "run_info" => payload(m) = <<m.value>>
         /\ m.type \in ListTypes =>
              /\ Len(payload(m)) = 1 + Len(m.value) /\ payload(m)[1] = Len(m.value)
<1>1. ASSUME NEW s \in Counts
      PROVE  /\ counted(s) \in Counts /\ Len(counted(s)) = 1 + Len(s) /\ counted(s)[1] = Len(s)
             /\ \A j \in 1..Len(s) : counted(s)[1 + j] = s[j]
  BY DEF counted, Counts
<1>2. CASE m.type \in DataTypes
  <2> DEFINE data_ == m.value.data
  <2>1. data_ \in Counts /\ m.value.number \in Nat
    BY <1>2, RecordFields DEF Occurrences
  <2>2. payload(m) = <<m.value.number>> \o counted(data_)
    BY <1>2 DEF payload, WriteEvent, WriteEPICS, DataTypes
  <2>3. /\ counted(data_) \in Counts /\ Len(counted(data_)) = 1 + Len(data_)
        /\ counted(data_)[1] = Len(data_) /\ \A j \in 1..Len(data_) : counted(data_)[1 + j] = data_[j]
    BY <1>1, <2>1
  <2> DEFINE c == counted(data_)
             p == <<m.value.number>> \o c
  <2>4. c \in Seq(Nat) /\ Len(data_) \in Nat
    BY <2>1, <2>3 DEF Counts
  <2> HIDE DEF c
  <2>5. p \in Seq(Nat) /\ Len(p) = 1 + Len(c) /\ p[1] = m.value.number
        /\ \A i \in 1..Len(c) : p[1 + i] = c[i]
    BY <2>1, <2>4
  <2> HIDE DEF p
  <2>6. Len(c) = 1 + Len(data_) /\ c[1] = Len(data_) /\ \A j \in 1..Len(data_) : c[1 + j] = data_[j]
    BY <2>3 DEF c
  <2>7. p[2] = Len(data_)
    <3>1. 1 \in 1..Len(c)
      BY <2>4, <2>6
    <3> QED
      BY <2>5, <2>6, <3>1
  <2>8. ASSUME NEW j \in 1..Len(data_) PROVE p[2 + j] = data_[j]
    <3>1. 1 + j \in 1..Len(c) /\ 2 + j = 1 + (1 + j)
      BY <2>4, <2>6
    <3> QED
      BY <2>5, <2>6, <3>1
  <2>9. payload(m) = p /\ Len(p) = 2 + Len(data_)
    BY <2>2, <2>4, <2>5, <2>6 DEF p, c
  <2> QED
    BY <1>2, <2>5, <2>7, <2>8, <2>9 DEF Counts, DataTypes, ListTypes
<1>3. CASE m.type = "run_info"
  BY <1>3, RecordFields DEF payload, WriteRunInfo, Counts, DataTypes, ListTypes
<1>4. CASE m.type \in ListTypes
  <2>1. payload(m) = counted(m.value) /\ m.value \in Counts
    BY <1>4, RecordFields DEF payload, WriteEPICSMap, WriteHyCalInfo, WriteGEMInfo, ListTypes
  <2> QED
    BY <1>1, <1>4, <2>1 DEF DataTypes, ListTypes
<1> QED
  BY <1>2, <1>3, <1>4, RecordFields DEF Types

(* The buffer takes the fields that fit, in order.                          *)
LEMMA BufferWritten ==
  ASSUME NEW buf \in Counts, Len(buf) < BufSize, NEW words \in Counts
  PROVE  /\ writeBuffer(buf, words) \in Counts /\ Len(writeBuffer(buf, words)) < BufSize
         /\ Len(writeBuffer(buf, words)) = Len(buf) + Len(words)
            \/ (Len(writeBuffer(buf, words)) = BufSize - 1 /\ BufSize <= Len(buf) + Len(words))
         /\ \A j \in 1..Len(writeBuffer(buf, words)) : writeBuffer(buf, words)[j] = (buf \o words)[j]
<1> DEFINE all == buf \o words
<1>1. all \in Seq(Nat) /\ Len(all) = Len(buf) + Len(words) /\ BufSize \in Nat \ {0}
      /\ Len(buf) \in Nat /\ Len(words) \in Nat
  BY DSTAssumption DEF Counts
<1>2. writeBuffer(buf, words) = IF Len(buf) + Len(words) < BufSize THEN all
                                ELSE SubSeq(all, 1, BufSize - 1)
  BY DEF writeBuffer
<1> HIDE DEF all
<1>3. CASE Len(buf) + Len(words) < BufSize
  <2>1. Len(all) < BufSize /\ writeBuffer(buf, words) = all
    BY <1>1, <1>2, <1>3
  <2>2. writeBuffer(buf, words) \in Counts /\ \A j \in 1..Len(all) : all[j] = (buf \o words)[j]
    BY <1>1, <2>1 DEF Counts, all
  <2> QED
    BY <1>1, <2>1, <2>2
<1>4. CASE ~(Len(buf) + Len(words) < BufSize)
  <2>1. BufSize - 1 <= Len(all) /\ BufSize - 1 \in Nat
    BY <1>1, <1>4
  <2> DEFINE w == SubSeq(all, 1, BufSize - 1)
  <2>2. w \in Seq(Nat) /\ Len(w) = BufSize - 1 /\ \A j \in 1..Len(w) : w[j] = all[j]
    BY <1>1, <2>1
  <2> HIDE DEF w
  <2> QED
    BY <1>1, <1>2, <1>4, <2>1, <2>2 DEF Counts, w, all
<1> QED
  BY <1>3, <1>4

(* HyCal's record starts with the number of its channels, whatever is left  *)
(* of saves that failed.                                                    *)
LEMMA HyCalWritten ==
  ASSUME NEW buf \in Counts, Len(buf) < BufSize, NEW m \in Records, m.type = "hycal_info",
         buf # <<>> => HyCalBody(buf, Len(m.value))
  PROVE  HyCalBody(writeBuffer(buf, payload(m)), Len(m.value))
<1> DEFINE p == payload(m)
           w == writeBuffer(buf, p)
           n == Len(m.value)
<1>1. p \in Counts /\ Len(p) = 1 + n /\ p[1] = n /\ n \in Nat
  BY Payload, RecordFields DEF ListTypes, Counts
<1> HIDE DEF p, n
<1>2. /\ w \in Counts /\ Len(w) < BufSize
      /\ Len(w) = Len(buf) + Len(p) \/ Len(w) = BufSize - 1
      /\ \A j \in 1..Len(w) : w[j] = (buf \o p)[j]
  BY <1>1, BufferWritten
<1> HIDE DEF w
<1>3. Len(buf) \in Nat /\ BufSize \in Nat /\ Len(w) \in Nat
  BY <1>2, DSTAssumption DEF Counts
<1>4. BufSize - 1 <= Len(w) \/ n + 1 <= Len(w)
  BY <1>1, <1>2, <1>3
<1>5. (buf \o p)[1] = n
  <2>1. CASE buf = <<>>
    BY <1>1, <2>1 DEF Counts
  <2>2. CASE buf # <<>>
    <3>1. buf[1] = n /\ 1 \in 1..Len(buf)
      BY <2>2 DEF HyCalBody, n, Counts
    <3> QED
      BY <1>1, <3>1 DEF Counts
  <2> QED
    BY <2>1, <2>2
<1>6. w # <<>> => w[1] = n
  <2>1. w # <<>> => 1 \in 1..Len(w)
    BY <1>2 DEF Counts
  <2> QED
    BY <1>2, <1>5, <2>1
<1> QED
  BY <1>4, <1>6 DEF HyCalBody, w, p, n

-----------------------------------------------------------------------------
(* Records as they are read.                                               *)
(* A buffer into which a body was read.                                     *)
Holds(buf, body) ==
  /\ buf \in [1..BufSize -> Nat]
  /\ \A j \in 1..Len(body) : buf[j] = body[j]

LEMMA ListBack ==
  ASSUME NEW buf \in [1..BufSize -> Nat], NEW i \in Nat, NEW s \in Counts,
         i + Len(s) <= BufSize, buf[i] = Len(s), \A j \in 1..Len(s) : buf[i + j] = s[j]
  PROVE  listAt(buf, i) = s
<1>1. Len(s) \in Nat /\ BufSize \in Nat /\ s \in Seq(Nat) /\ buf \in Seq(Nat) /\ Len(buf) = BufSize
  BY DSTAssumption DEF Counts
<1> DEFINE t == SubSeq(buf, i + 1, i + Len(s))
<1>2. listAt(buf, i) = t
  BY DEF listAt, listEnd
<1>3. t \in Seq(Nat) /\ Len(t) = Len(s) /\ \A j \in 1..Len(s) : t[j] = buf[i + j]
  BY <1>1
<1> HIDE DEF t
<1>4. t = [j \in 1..Len(s) |-> t[j]] /\ s = [j \in 1..Len(s) |-> s[j]]
  BY <1>1, <1>3
<1>5. \A j \in 1..Len(s) : t[j] = s[j]
  BY <1>3
<1>6. t = s
  BY <1>4, <1>5, Zenon
<1> QED
  BY <1>2, <1>6

(* An empty buffer.                                                         *)
LEMMA FreshWritten ==
  ASSUME NEW words \in Counts
  PROVE  LET w == writeBuffer(<<>>, words) IN
         /\ Len(w) = Len(words) \/ (Len(w) = BufSize - 1 /\ BufSize <= Len(words))
         /\ \A j \in 1..Len(w) : w[j] = words[j]
<1> DEFINE e == <<>>
           w == writeBuffer(e, words)
<1>1. e \in Counts /\ Len(e) = 0 /\ e \o words = words /\ BufSize \in Nat \ {0} /\ Len(words) \in Nat
  BY DSTAssumption DEF Counts
<1> HIDE DEF e
<1>2. Len(e) < BufSize
  BY <1>1
<1>3. /\ Len(w) = Len(e) + Len(words) \/ (Len(w) = BufSize - 1 /\ BufSize <= Len(e) + Len(words))
      /\ \A j \in 1..Len(w) : w[j] = (e \o words)[j]
  BY <1>1, <1>2, BufferWritten
<1> HIDE DEF w
<1>4. /\ Len(w) = Len(words) \/ (Len(w) = BufSize - 1 /\ BufSize <= Len(words))
      /\ \A j \in 1..Len(w) : w[j] = words[j]
  BY <1>1, <1>3
<1> QED
  BY <1>4 DEF w, e

(* A data record that was written whole is read back as it was, or, when it *)
(* did not fit, not at all.                                                 *)
LEMMA DataReadBack ==
  ASSUME NEW m \in Records, NEW w, NEW buf, m.type \in DataTypes, w.body \in Counts,
         Len(w.body) < BufSize, Whole(w, m), Holds(buf, w.body)
  PROVE  /\ Fits(m) => readable(m.type, buf, w.length)
         /\ readable(m.type, buf, w.length) => parsed(m.type, buf) = m
<1> DEFINE p == payload(m)
           s == m.value.data
<1>1. /\ p \in Counts /\ Len(p) = 2 + Len(s) /\ p[1] = m.value.number /\ p[2] = Len(s)
      /\ \A j \in 1..Len(s) : p[2 + j] = s[j]
  BY Payload
<1>2. m.value \in Occurrences /\ m = rec(m.type, m.value) /\ s \in Counts
  BY RecordFields DEF Occurrences
<1>3. w.length = Len(w.body) + 1 /\ w.body = writeBuffer(<<>>, p)
  BY DEF Whole, DataTypes
<1>4. BufSize \in Nat \ {0} /\ Len(s) \in Nat
  BY <1>2, DSTAssumption DEF Counts
<1>5. /\ Len(w.body) = Len(p) \/ (Len(w.body) = BufSize - 1 /\ BufSize <= Len(p))
      /\ \A j \in 1..Len(w.body) : w.body[j] = p[j]
  BY <1>1, <1>3, FreshWritten
<1> HIDE DEF p
<1>6. \A j \in 1..Len(w.body) : buf[j] = p[j]
  BY <1>5 DEF Holds
<1>7. readable(m.type, buf, w.length) <=> 2 < w.length /\ 2 + buf[2] < w.length
  BY DEF readable, listWithin, listEnd, DataTypes
<1>8. Len(w.body) \in Nat /\ buf \in [1..BufSize -> Nat]
  BY DEF Counts, Holds
<1> HIDE DEF s
<1>9. 2 < w.length => buf[2] = Len(s) /\ buf[1] = m.value.number
  <2>1. 2 < w.length => 2 \in 1..Len(w.body) /\ 1 \in 1..Len(w.body)
    BY <1>3, <1>8
  <2> QED
    BY <1>1, <1>6, <2>1
<1>10. Fits(m) => readable(m.type, buf, w.length)
  <2>1. SUFFICES ASSUME Len(p) < BufSize PROVE readable(m.type, buf, w.length)
    BY DEF Fits, p
  <2>2. Len(w.body) = 2 + Len(s)
    BY <1>1, <1>4, <1>5, <2>1
  <2>3. 2 < w.length
    BY <1>3, <1>4, <2>2
  <2> QED
    BY <1>3, <1>4, <1>7, <1>9, <2>2, <2>3
<1>11. ASSUME readable(m.type, buf, w.length) PROVE parsed(m.type, buf) = m
  <2>1. 2 < w.length /\ 2 + Len(s) < w.length /\ buf[2] = Len(s) /\ buf[1] = m.value.number
    BY <1>7, <1>9, <1>11
  <2>2. Len(w.body) = 2 + Len(s)
    BY <1>1, <1>3, <1>4, <1>5, <1>8, <2>1
  <2>3. ASSUME NEW j \in 1..Len(s) PROVE buf[2 + j] = s[j]
    <3>1. 2 + j \in 1..Len(w.body)
      BY <1>4, <2>2
    <3> QED
      BY <1>1, <1>6, <3>1
  <2>4. listAt(buf, 2) = s
    <3>1. 2 + Len(s) <= BufSize
      BY <1>4, <2>2
    <3>2. 2 \in Nat
      OBVIOUS
    <3> QED
      BY <1>2, <1>8, <2>1, <2>3, <3>1, <3>2, ListBack, Zenon
  <2>5. parsed(m.type, buf) = rec(m.type, [number |-> m.value.number, data |-> s])
    BY <2>1, <2>4 DEF parsed, DataTypes
  <2> QED
    BY <1>2, <2>5 DEF Occurrences, s
<1> QED
  BY <1>10, <1>11

(* Any other record is read when it fits, and a record of HyCal then has    *)
(* the number of channels it was written with.                              *)
LEMMA InfoReadBack ==
  ASSUME NEW m \in Records, NEW w, NEW buf, m.type \notin DataTypes, w.body \in Counts,
         Len(w.body) < BufSize, Whole(w, m), Holds(buf, w.body), Fits(m)
  PROVE  /\ readable(m.type, buf, w.length)
         /\ channelMissing(parsed(m.type, buf)) => channelMissing(m)
<1> DEFINE p == payload(m)
<1>1. BufSize \in Nat \ {0} /\ Len(w.body) \in Nat /\ w.length = Len(w.body) + 1
      /\ buf \in [1..BufSize -> Nat] /\ p \in Counts /\ Len(p) \in Nat /\ Len(p) < BufSize
  BY Payload, DSTAssumption DEF Counts, Whole, Holds, Fits
<1>2. ASSUME m.type # "hycal_info"
      PROVE  Len(w.body) = Len(p) /\ \A j \in 1..Len(p) : buf[j] = p[j]
  <2>1. w.body = writeBuffer(<<>>, p)
    BY <1>1, <1>2 DEF Whole, Counts
  <2>2. /\ Len(w.body) = Len(p) \/ (Len(w.body) = BufSize - 1 /\ BufSize <= Len(p))
        /\ \A j \in 1..Len(w.body) : w.body[j] = p[j]
    BY <1>1, <2>1, FreshWritten
  <2> HIDE DEF p
  <2>3. Len(w.body) = Len(p)
    BY <1>1, <2>2
  <2> QED
    BY <2>1, <2>2, <2>3 DEF Holds
<1>3. CASE m.type = "run_info"
  <2>1. Len(p) = 1
    BY <1>3, Payload, RecordFields DEF Counts
  <2>2. readable(m.type, buf, w.length) <=> 1 < w.length
    BY <1>3 DEF readable
  <2>3. parsed(m.type, buf).type = "run_info"
    BY <1>3 DEF parsed, rec
  <2>4. Len(w.body) = Len(p)
    BY <1>2, <1>3
  <2>5. w.length = 2
    BY <1>1, <2>1, <2>4
  <2> QED
    BY <2>2, <2>3, <2>5 DEF channelMissing
<1>4. CASE m.type \in ListTypes
  <2> DEFINE n == Len(m.value)
  <2>1. n \in Nat /\ Len(p) = 1 + n /\ p[1] = n
    BY <1>4, Payload, RecordFields DEF Counts
  <2>2. /\ readable(m.type, buf, w.length) <=> 1 < w.length /\ 1 + buf[1] < w.length
        /\ parsed(m.type, buf) = rec(m.type, listAt(buf, 1))
    BY <1>4 DEF readable, parsed, listWithin, listEnd, ListTypes
  <2>3. n + 1 <= Len(w.body) /\ buf[1] = n
    <3>1. CASE m.type = "hycal_info"
      <4>1. HyCalBody(w.body, n)
        BY <3>1 DEF Whole
      <4> HIDE DEF n, p
      <4>2. n + 1 <= Len(w.body)
        BY <1>1, <2>1, <4>1 DEF HyCalBody
      <4>3. w.body # <<>> /\ 1 \in 1..Len(w.body)
        BY <1>1, <2>1, <4>2
      <4> QED
        BY <4>1, <4>2, <4>3 DEF HyCalBody, Holds
    <3>2. CASE m.type # "hycal_info"
      <4> HIDE DEF n, p
      <4>1. Len(w.body) = Len(p) /\ \A j \in 1..Len(p) : buf[j] = p[j]
        BY <1>2, <3>2
      <4>2. 1 \in 1..Len(p)
        BY <2>1
      <4> QED
        BY <1>1, <2>1, <4>1, <4>2
    <3> QED
      BY <3>1, <3>2
  <2> HIDE DEF n
  <2>4. Len(listAt(buf, 1)) = n
    <3>1. buf \in Seq(Nat) /\ Len(buf) = BufSize /\ 1 + n <= BufSize
      BY <1>1, <2>1
    <3>2. Len(SubSeq(buf, 1 + 1, 1 + n)) = n
      BY <2>1, <3>1
    <3> QED
      BY <2>3, <3>2 DEF listAt, listEnd
  <2>5. readable(m.type, buf, w.length)
    BY <1>1, <2>1, <2>2, <2>3
  <2>6. channelMissing(rec(m.type, listAt(buf, 1))) <=> channelMissing(m)
    BY <2>4 DEF channelMissing, rec, n
  <2> QED
    BY <2>2, <2>5, <2>6
<1> QED
  BY <1>3, <1>4, RecordFields DEF Types

(* Only a record of HyCal's channels can miss one.                          *)
LEMMA DataMissNoChannel ==
  ASSUME NEW t \in DataTypes, NEW buf
  PROVE  ~channelMissing(parsed(t, buf))
  BY DEF DataTypes, parsed, channelMissing, rec

-----------------------------------------------------------------------------
(* What is on the disk, being written and being read.                      *)
(* All of a file is as it was meant but the last record of one cut short.   *)
AsMeant(df, ms) ==
  /\ ms \in Seq(Records) /\ Len(df.records) <= Len(ms)
  /\ \A i \in 1..Len(df.records) :
       /\ df.records[i].type = ms[i].type /\ Len(df.records[i].body) < BufSize
       /\ i < Len(df.records) \/ df.closed => Whole(df.records[i], ms[i])
  /\ df.closed => Len(df.records) = Len(ms)

FilesAsMeant ==
  /\ disk \in [Files -> DSTFiles] /\ DOMAIN meant = Files
  /\ \A f \in Files : AsMeant(disk[f], meant[f])

IsHyCalInfo(m, n) == m.type = "hycal_info" /\ Len(m.value) = n

(* A file being written: what is left to save follows what was saved.       *)
Saving(df, ms, rest, n) ==
  /\ ~df.closed /\ rest \in Seq(Records) /\ Len(ms) = Len(df.records) + Len(rest)
  /\ \A k \in 1..Len(rest) : rest[k] = ms[Len(df.records) + k]
  /\ \A i \in 1..Len(df.records) : Whole(df.records[i], ms[i])
  /\ df.records = <<>> => rest # <<>> /\ IsHyCalInfo(rest[1], n)

(* out_buf has fields in it only before the first record.                   *)
Writing ==
  /\ "hycal" \in DOMAIN bank /\ bank.hycal \in Counts
  /\ out_buf # <<>> => HyCalBody(out_buf, Len(bank.hycal))
  /\ dst_out # NoFile =>
       /\ pc \in {"writing", "terminated"}
       /\ Saving(disk[dst_out], meant[dst_out], todo, Len(bank.hycal))
       /\ disk[dst_out].records # <<>> => out_buf = <<>>
  /\ pc = "writing" /\ dst_out = NoFile =>
       todo \in Seq(Records) /\ todo # <<>> /\ IsHyCalInfo(todo[1], Len(bank.hycal))

(* All data records before pos were read, or one bad record more.           *)
ReadSoFar(df, ms, at, read) ==
  /\ at \in 1..Len(df.records) + 1
  /\ \/ read = dataOf(ms)[at - 1]
     \/ /\ ~df.closed /\ at = Len(df.records) + 1 /\ at > 1
        /\ \E x : read = Append(dataOf(ms)[at - 2], x)

Reading ==
  pc = "reading" => dst_in \in Files /\ ReadSoFar(disk[dst_in], meant[dst_in], dst_pos, got)

DSTInv == DSTTypes /\ FilesAsMeant /\ Writing /\ Reading /\ AbortMeansDamage

-----------------------------------------------------------------------------
LEMMA BankFields ==
  ASSUME NEW b \in Banks
  PROVE  /\ "hycal" \in DOMAIN b /\ b.hycal \in Counts /\ b.gem \in Counts /\ b.epics_map \in Counts
         /\ b.run_info \in Nat /\ b.events \in Seq(Occurrences) /\ b.epics \in Seq(Occurrences)
  BY DSTAssumption

(* A save begins with the pedestals of HyCal.                               *)
LEMMA FirstIsHyCal ==
  ASSUME NEW b \in Banks
  PROVE  infos(b) \in Seq(Records) /\ Len(infos(b)) > 0 /\ IsHyCalInfo(infos(b)[1], Len(b.hycal))
<1> DEFINE hinfo == rec("hycal_info", b.hycal)
           g == IF "gem" \in Systems THEN <<rec("gem_info", b.gem)>> ELSE <<>>
           e == IF "epics" \in Systems THEN <<rec("epics_map", b.epics_map)>> ELSE <<>>
<1>1. hinfo \in Records /\ rec("gem_info", b.gem) \in Records /\ rec("epics_map", b.epics_map) \in Records
  BY BankFields DEF Records, rec
<1>2. hinfo.type = "hycal_info" /\ hinfo.value = b.hycal
  BY DEF rec
<1>3. infos(b) = <<hinfo>> \o g \o e
  BY DSTAssumption DEF infos
<1>4. g \in Seq(Records) /\ e \in Seq(Records)
  BY <1>1
<1> HIDE DEF hinfo, g, e
<1> DEFINE rs == <<hinfo>> \o g \o e
<1>5. rs \in Seq(Records) /\ rs[1] = hinfo /\ Len(rs) > 0
  BY <1>1, <1>4
<1> QED
  BY <1>2, <1>3, <1>5 DEF IsHyCalInfo

LEMMA RecsTyped ==
  ASSUME NEW s \in Seq(Occurrences), NEW t \in DataTypes
  PROVE  recs(t, s) \in Seq(Records)
<1>1. \A i \in 1..Len(s) : rec(t, s[i]) \in Records
  BY DEF rec, Records, DataTypes
<1> QED
  BY <1>1 DEF recs

LEMMA SavedRecords ==
  ASSUME NEW b \in Banks
  PROVE  LET rs == saveRecords(b) IN
         rs \in Seq(Records) /\ rs # <<>> /\ IsHyCalInfo(rs[1], Len(b.hycal))
<1> DEFINE e == IF "epics" \in Systems THEN recs("epics", b.epics) ELSE <<>>
           v == recs("event", b.events)
           r == <<rec("run_info", b.run_info)>>
           i == infos(b)
<1>1. e \in Seq(Records) /\ v \in Seq(Records)
  BY BankFields, RecsTyped DEF DataTypes
<1>2. r \in Seq(Records)
  BY BankFields DEF rec, Records
<1>3. i \in Seq(Records) /\ Len(i) > 0 /\ IsHyCalInfo(i[1], Len(b.hycal))
  BY FirstIsHyCal
<1>4. saveRecords(b) = i \o e \o v \o r
  BY DEF saveRecords
<1> HIDE DEF e, v, r, i
<1> DEFINE rs == i \o e \o v \o r
<1>5. rs \in Seq(Records) /\ rs[1] = i[1] /\ Len(rs) > 0
  BY <1>1, <1>2, <1>3
<1> QED
  BY <1>3, <1>4, <1>5

LEMMA ReplayedRecords ==
  ASSUME NEW b \in Banks, NEW source \in Sources
  PROVE  LET rs == replayRecords(b, source) IN
         rs \in Seq(Records) /\ rs # <<>> /\ IsHyCalInfo(rs[1], Len(b.hycal))
<1> DEFINE r == <<rec("run_info", b.run_info)>>
           i == infos(b)
<1>1. source \in Seq(Records)
  BY DSTAssumption
<1>2. r \in Seq(Records)
  BY BankFields DEF rec, Records
<1>3. i \in Seq(Records) /\ Len(i) > 0 /\ IsHyCalInfo(i[1], Len(b.hycal))
  BY FirstIsHyCal
<1>4. replayRecords(b, source) = i \o source \o r
  BY DEF replayRecords
<1> HIDE DEF r, i
<1> DEFINE rs == i \o source \o r
<1>5. rs \in Seq(Records) /\ rs[1] = i[1] /\ Len(rs) > 0
  BY <1>1, <1>2, <1>3
<1> QED
  BY <1>3, <1>4, <1>5

-----------------------------------------------------------------------------
LEMMA DSTStart == DSTInit => DSTInv
<1> SUFFICES ASSUME DSTInit PROVE DSTInv
  OBVIOUS
<1>1. DSTTypes
  <2>1. in_buf \in [1..BufSize -> Nat]
    BY DSTAssumption DEF DSTInit, Buffers
  <2>2. out_buf \in Seq(Nat) /\ Len(out_buf) < BufSize
    BY DSTAssumption DEF DSTInit
  <2>3. in_bufl \in 0..BufSize /\ dst_pos \in Nat \ {0}
    BY DSTAssumption DEF DSTInit
  <2> QED
    BY <2>1, <2>2, <2>3 DEF DSTInit, DSTTypes
<1>2. FilesAsMeant
  <2>1. Absent \in DSTFiles /\ Absent.records = <<>> /\ ~Absent.closed
    BY DEF Absent, DSTFiles
  <2>2. AsMeant(Absent, <<>>)
    BY <2>1 DEF AsMeant
  <2> QED
    BY <2>1, <2>2 DEF DSTInit, FilesAsMeant
<1>3. Writing
  BY BankFields DEF DSTInit, Writing
<1> QED
  BY <1>1, <1>2, <1>3 DEF DSTInit, DSTInv, Reading, AbortMeansDamage

(* Nothing is open while the program is idle.                               *)
LEMMA IdleClosed == Writing /\ pc \notin {"writing", "terminated"} => dst_out = NoFile
  BY DEF Writing

LEMMA NewDataKeeps == DSTInv /\ NewData => DSTInv'
<1> SUFFICES ASSUME DSTInv, NewData PROVE DSTInv'
  OBVIOUS
<1> USE DEF DSTInv, NewData, parser_vars
<1>1. DSTTypes' /\ FilesAsMeant'
  BY DEF DSTTypes, FilesAsMeant
<1>2. Writing'
  <2>1. dst_out = NoFile /\ pc = "idle" /\ Len(bank'.hycal) = Len(bank.hycal)
    BY IdleClosed
  <2> QED
    BY <2>1, BankFields DEF Writing
<1> QED
  BY <1>1, <1>2 DEF Reading, AbortMeansDamage

(* A save of records that begin with HyCal's, into a new file or none.      *)
LEMMA SaveStarts ==
  ASSUME DSTInv, pc = "idle", NEW f \in Files, NEW rs, OpenOutput(f, rs), todo' = rs,
         pc' \in {"writing", "terminated"}, caught' \in BOOLEAN,
         UNCHANGED <<bank, out_buf, dst_in, dst_pos, mode, in_buf, in_bufl, history>>,
         rs \in Seq(Records), rs # <<>>, IsHyCalInfo(rs[1], Len(bank.hycal))
  PROVE  DSTInv'
<1>0. dst_out = NoFile
  BY IdleClosed DEF DSTInv
<1>1. DSTTypes'
  BY DEF DSTInv, DSTTypes, OpenOutput
<1>2. FilesAsMeant'
  <2>1. Created \in DSTFiles /\ Created.records = <<>> /\ ~Created.closed
    BY DEF Created, DSTFiles
  <2>2. AsMeant(Created, rs)
    BY <2>1 DEF AsMeant
  <2> QED
    BY <2>1, <2>2 DEF DSTInv, FilesAsMeant, OpenOutput
<1>3. Writing'
  <2>1. CASE UNCHANGED <<dst_out, disk, meant>>
    BY <1>0, <2>1 DEF DSTInv, Writing
  <2>2. CASE /\ dst_out' = f /\ disk' = [disk EXCEPT ![f] = Created]
             /\ meant' = [meant EXCEPT ![f] = rs]
    <3>1. disk'[f] = Created /\ meant'[f] = rs /\ f # NoFile
      BY <2>2, DSTAssumption DEF DSTInv, FilesAsMeant
    <3>2. Created.records = <<>> /\ ~Created.closed
      BY DEF Created
    <3>3. Saving(Created, rs, rs, Len(bank.hycal))
      BY <3>2 DEF Saving
    <3> QED
      BY <2>2, <3>1, <3>2, <3>3 DEF DSTInv, Writing
  <2> QED
    BY <2>1, <2>2 DEF OpenOutput
<1> QED
  BY <1>1, <1>2, <1>3 DEF DSTInv, Reading, AbortMeansDamage

LEMMA SaveKeeps ==
  ASSUME DSTInv, NEW f \in Files,
         WriteToDST(f) \/ \E source \in Sources : Replay(f, source)
  PROVE  DSTInv'
<1>1. CASE WriteToDST(f)
  <2>1. /\ saveRecords(bank) \in Seq(Records) /\ saveRecords(bank) # <<>>
        /\ IsHyCalInfo(saveRecords(bank)[1], Len(bank.hycal))
    BY <1>1, SavedRecords DEF WriteToDST
  <2> QED
    BY <1>1, <2>1, SaveStarts DEF WriteToDST
<1>2. ASSUME NEW source \in Sources, Replay(f, source) PROVE DSTInv'
  <2>1. /\ replayRecords(bank, source) \in Seq(Records) /\ replayRecords(bank, source) # <<>>
        /\ IsHyCalInfo(replayRecords(bank, source)[1], Len(bank.hycal))
    BY <1>2, ReplayedRecords DEF Replay
  <2> QED
    BY <1>2, <2>1, SaveStarts DEF Replay
<1> QED
  BY <1>1, <1>2

LEMMA WriteFailsKeeps == DSTInv /\ WriteFails => DSTInv'
<1> SUFFICES ASSUME DSTInv, WriteFails PROVE DSTInv'
  OBVIOUS
<1> DEFINE m == Head(todo)
           n == Len(bank.hycal)
<1>1. out_buf \in Counts /\ Len(out_buf) < BufSize /\ (out_buf # <<>> => HyCalBody(out_buf, n))
  BY DEF DSTInv, DSTTypes, Writing, Counts
<1>2. m \in Records /\ IsHyCalInfo(m, n)
  <2>1. todo \in Seq(Records) /\ todo # <<>> /\ IsHyCalInfo(todo[1], n)
    BY DEF DSTInv, Writing, WriteFails
  <2>2. Head(todo) = todo[1] /\ Head(todo) \in Records
    BY <2>1
  <2> QED
    BY <2>1, <2>2
<1>3. /\ out_buf' = writeBuffer(out_buf, payload(m)) /\ bank' = bank /\ dst_out' = NoFile
      /\ dst_out = NoFile /\ pc' \in {"idle", "terminated"}
      /\ UNCHANGED <<caught, dst_in, dst_pos, in_buf, in_bufl, disk, meant>>
  BY DEF WriteFails
<1>4. out_buf' \in Counts /\ Len(out_buf') < BufSize
  BY <1>1, <1>2, <1>3, Payload, BufferWritten
<1>5. HyCalBody(out_buf', n)
  BY <1>1, <1>2, <1>3, HyCalWritten DEF IsHyCalInfo
<1>6. DSTTypes'
  BY <1>3, <1>4 DEF DSTInv, DSTTypes, Counts
<1>7. FilesAsMeant' /\ Writing'
  BY <1>3, <1>5 DEF DSTInv, FilesAsMeant, Writing
<1> QED
  BY <1>3, <1>6, <1>7 DEF DSTInv, Reading, AbortMeansDamage

(* One more record of a file is saved, whole.                               *)
LEMMA RecordSaved ==
  ASSUME NEW df \in DSTFiles, NEW ms, NEW rest, NEW n \in Nat, Saving(df, ms, rest, n),
         AsMeant(df, ms), rest # <<>>, NEW buf \in Counts, Len(buf) < BufSize,
         buf # <<>> => HyCalBody(buf, n), df.records # <<>> => buf = <<>>,
         NEW file2, file2 = [df EXCEPT !.records =
                               Append(@, saved(Head(rest), writeBuffer(buf, payload(Head(rest)))))]
  PROVE  /\ file2 \in DSTFiles /\ AsMeant(file2, ms) /\ Saving(file2, ms, Tail(rest), n)
         /\ file2.records # <<>>
<1> DEFINE rs == df.records
           m == Head(rest)
           body == writeBuffer(buf, payload(m))
           w == saved(m, body)
           rs2 == file2.records
<1>1. rest \in Seq(Records) /\ rs \in Seq(Written) /\ BufSize \in Nat \ {0} /\ Len(rs) \in Nat
  BY DSTAssumption DEF Saving, DSTFiles
<1>2. m \in Records /\ m = rest[1] /\ 1 \in 1..Len(rest)
      /\ Tail(rest) \in Seq(Records) /\ Len(rest) = Len(Tail(rest)) + 1
      /\ \A k \in 1..Len(Tail(rest)) : Tail(rest)[k] = rest[k + 1]
  BY <1>1
<1>3. ms[Len(rs) + 1] = m /\ Len(rs) + 1 <= Len(ms) /\ Len(ms) = Len(rs) + 1 + Len(Tail(rest))
  <2>1. /\ Len(ms) = Len(rs) + Len(rest)
        /\ \A k \in 1..Len(rest) : rest[k] = ms[Len(rs) + k]
    BY DEF Saving
  <2>2. Len(Tail(rest)) \in Nat
    BY <1>2
  <2>3. 1 \in 1..Len(rest) /\ m = rest[1] /\ Len(rest) = Len(Tail(rest)) + 1
    BY <1>2
  <2> HIDE DEF rs, m
  <2>4. ms[Len(rs) + 1] = m
    BY <2>1, <2>3
  <2>5. \A j \in Nat : Len(rest) = j + 1 => Len(rs) + 1 <= Len(ms) /\ Len(ms) = Len(rs) + 1 + j
    BY <1>1, <2>1
  <2> QED
    BY <2>2, <2>3, <2>4, <2>5
<1>4. body \in Counts /\ Len(body) < BufSize /\ Len(body) \in Nat
  <2>1. payload(m) \in Counts
    BY <1>2, Payload
  <2> QED
    BY <2>1, BufferWritten DEF Counts
<1>5. w = [type |-> m.type, length |-> Len(body) + 1, body |-> body]
  BY DEF saved, lengthWord
<1>6. w \in Written
  BY <1>1, <1>2, <1>4, <1>5, RecordFields DEF Written
<1>7. Whole(w, m)
  <2>1. CASE m.type = "hycal_info"
    <3>1. buf # <<>> => HyCalBody(buf, Len(m.value))
      BY <1>2 DEF Saving, IsHyCalInfo
    <3>2. HyCalBody(body, Len(m.value))
      BY <1>2, <2>1, <3>1, HyCalWritten
    <3> QED
      BY <1>5, <2>1, <3>2 DEF Whole
  <2>2. CASE m.type # "hycal_info"
    <3>1. buf = <<>>
      BY <1>2, <2>2 DEF Saving, IsHyCalInfo
    <3> QED
      BY <1>5, <2>2, <3>1 DEF Whole
  <2> QED
    BY <2>1, <2>2
<1> HIDE DEF m, body, w
<1>8. /\ rs2 = Append(rs, w) /\ file2.closed = df.closed /\ file2.version = df.version
      /\ file2 = [version |-> file2.version, closed |-> file2.closed, records |-> rs2]
  BY DEF DSTFiles, w, body, m
<1> HIDE DEF rs2
<1>9. rs2 \in Seq(Written) /\ Len(rs2) = Len(rs) + 1 /\ rs2[Len(rs) + 1] = w
      /\ \A i \in 1..Len(rs) : rs2[i] = rs[i]
  BY <1>1, <1>6, <1>8
<1>10. file2 \in DSTFiles /\ ~file2.closed
  BY <1>8, <1>9 DEF DSTFiles, Saving
<1>11. \A i \in 1..Len(rs2) : Whole(rs2[i], ms[i])
  <2> SUFFICES ASSUME NEW i \in 1..Len(rs2) PROVE Whole(rs2[i], ms[i])
    OBVIOUS
  <2>1. CASE i \in 1..Len(rs)
    BY <1>9, <2>1 DEF Saving
  <2>2. CASE i = Len(rs) + 1
    BY <1>3, <1>7, <1>9, <2>2
  <2> QED
    BY <1>1, <1>9, <2>1, <2>2
<1>12. AsMeant(file2, ms)
  <2>1. ASSUME NEW i \in 1..Len(rs2) PROVE rs2[i].type = ms[i].type /\ Len(rs2[i].body) < BufSize
    <3>1. CASE i \in 1..Len(rs)
      BY <1>9, <3>1 DEF AsMeant
    <3>2. CASE i = Len(rs) + 1
      BY <1>3, <1>4, <1>5, <1>9, <3>2
    <3> QED
      BY <1>1, <1>9, <3>1, <3>2
  <2>2. ms \in Seq(Records) /\ Len(rs2) <= Len(ms)
    BY <1>1, <1>3, <1>9 DEF AsMeant
  <2> QED
    BY <1>10, <1>11, <2>1, <2>2 DEF AsMeant, rs2
<1>13. Saving(file2, ms, Tail(rest), n)
  <2>1. ASSUME NEW k \in 1..Len(Tail(rest)) PROVE Tail(rest)[k] = ms[Len(rs2) + k]
    <3> DEFINE l == Len(Tail(rest))
    <3>1. l \in Nat /\ Len(rest) = l + 1 /\ k \in 1..l
      BY <1>2
    <3> HIDE DEF l
    <3>2. k + 1 \in 1..Len(rest)
      BY <3>1
    <3>3. Len(rs2) + k = Len(rs) + (k + 1)
      <4> DEFINE a == Len(rs)
                 b == Len(rs2)
      <4>1. k \in Nat /\ a \in Nat /\ b = a + 1
        BY <1>1, <1>9, <3>1
      <4> HIDE DEF a, b
      <4>2. b + k = a + (k + 1)
        BY <4>1
      <4> QED
        BY <4>2 DEF a, b
    <3> QED
      BY <1>2, <3>2, <3>3 DEF Saving
  <2>2. rs2 # <<>> /\ Len(ms) = Len(rs2) + Len(Tail(rest))
    BY <1>1, <1>3, <1>9
  <2> QED
    BY <1>2, <1>10, <1>11, <2>1, <2>2 DEF Saving, rs2
<1>14. rs2 # <<>>
  BY <1>1, <1>9
<1> QED
  BY <1>10, <1>12, <1>13, <1>14 DEF rs2

LEMMA WriteRecordKeeps == DSTInv /\ WriteRecord => DSTInv'
<1> SUFFICES ASSUME DSTInv, WriteRecord PROVE DSTInv'
  OBVIOUS
<1> DEFINE f == dst_out
           n == Len(bank.hycal)
           df == disk[f]
           file2 == [df EXCEPT !.records =
                       Append(@, saved(Head(todo), writeBuffer(out_buf, payload(Head(todo)))))]
<1>1. /\ f \in Files /\ f # NoFile /\ todo # <<>> /\ pc = "writing" /\ pc' = pc
      /\ out_buf' = <<>> /\ todo' = Tail(todo)
      /\ UNCHANGED <<bank, caught, dst_out, dst_in, dst_pos, in_buf, in_bufl, meant>>
  BY DEF WriteRecord, DSTInv, DSTTypes
<1>2. disk \in [Files -> DSTFiles] /\ df \in DSTFiles /\ AsMeant(df, meant[f])
  BY <1>1 DEF DSTInv, FilesAsMeant
<1>3. disk' = [disk EXCEPT ![f] = file2]
  BY <1>1, <1>2 DEF WriteRecord
<1>4. /\ Saving(df, meant[f], todo, n) /\ n \in Nat /\ (df.records # <<>> => out_buf = <<>>)
      /\ out_buf \in Counts /\ Len(out_buf) < BufSize /\ (out_buf # <<>> => HyCalBody(out_buf, n))
  BY <1>1 DEF DSTInv, DSTTypes, Writing, Counts
<1> HIDE DEF n
<1>5. /\ file2 \in DSTFiles /\ AsMeant(file2, meant[f])
      /\ Saving(file2, meant[f], Tail(todo), n) /\ file2.records # <<>>
  BY <1>1, <1>2, <1>4, RecordSaved
<1> HIDE DEF file2, df
<1>6. disk'[f] = file2 /\ (\A g \in Files : g # f => disk'[g] = disk[g]) /\ disk' \in [Files -> DSTFiles]
  BY <1>1, <1>2, <1>3, <1>5
<1>7. FilesAsMeant'
  BY <1>1, <1>5, <1>6 DEF DSTInv, FilesAsMeant
<1>8. Writing'
  BY <1>1, <1>5, <1>6 DEF DSTInv, Writing, n
<1>9. DSTTypes'
  BY <1>1, DSTAssumption DEF DSTInv, DSTTypes
<1> QED
  BY <1>1, <1>7, <1>8, <1>9 DEF DSTInv, Reading, AbortMeansDamage

LEMMA CloseOutputKeeps == DSTInv /\ CloseOutput => DSTInv'
<1> SUFFICES ASSUME DSTInv, CloseOutput PROVE DSTInv'
  OBVIOUS
<1> DEFINE f == dst_out
           df == disk[f]
           file2 == [df EXCEPT !.closed = TRUE]
<1>1. /\ f \in Files /\ f # NoFile /\ todo = <<>> /\ pc = "writing" /\ pc' = "idle" /\ dst_out' = NoFile
      /\ disk' = [disk EXCEPT ![f].closed = TRUE]
      /\ UNCHANGED <<bank, caught, out_buf, dst_in, dst_pos, in_buf, in_bufl, meant>>
  BY DEF CloseOutput, DSTInv, DSTTypes, Writing
<1>2. disk \in [Files -> DSTFiles] /\ df \in DSTFiles /\ AsMeant(df, meant[f])
      /\ Saving(df, meant[f], <<>>, Len(bank.hycal))
  BY <1>1 DEF DSTInv, FilesAsMeant, Writing
<1>3. file2 \in DSTFiles /\ file2.records = df.records /\ file2.closed
  BY <1>2 DEF DSTFiles
<1>4. AsMeant(file2, meant[f])
  <2>1. Len(df.records) \in Nat
    BY <1>2 DEF DSTFiles
  <2> QED
    BY <1>2, <1>3, <2>1 DEF AsMeant, Saving
<1>5. disk' = [disk EXCEPT ![f] = file2]
  BY <1>1, <1>2
<1> HIDE DEF file2, df
<1>6. FilesAsMeant'
  BY <1>1, <1>2, <1>3, <1>4, <1>5 DEF DSTInv, FilesAsMeant
<1>7. Writing' /\ DSTTypes'
  BY <1>1 DEF DSTInv, Writing, DSTTypes
<1> QED
  BY <1>1, <1>6, <1>7 DEF DSTInv, Reading, AbortMeansDamage

(* A new process holds no file and starts with an empty out_buf.            *)
LEMMA ProcessStarts ==
  ASSUME DSTTypes, NewProcess, FilesAsMeant'
  PROVE  DSTInv'
<1>1. /\ pc' = "idle" /\ bank' \in Banks /\ dst_out' = NoFile /\ out_buf' = <<>>
      /\ dst_in' = NoFile /\ dst_pos' = 1 /\ caught' = FALSE /\ in_buf' \in Buffers /\ in_bufl' = 0
  BY DEF NewProcess
<1>2. DSTTypes'
  <2>1. in_buf' \in [1..BufSize -> Nat]
    BY <1>1, DSTAssumption DEF Buffers
  <2>2. out_buf' \in Seq(Nat) /\ Len(out_buf') < BufSize
    BY <1>1, DSTAssumption
  <2>3. in_bufl' \in 0..BufSize /\ dst_pos' \in Nat \ {0}
    BY <1>1, DSTAssumption
  <2> QED
    BY <1>1, <2>1, <2>2, <2>3 DEF DSTTypes
<1>3. Writing'
  BY <1>1, BankFields DEF Writing
<1> QED
  BY <1>1, <1>2, <1>3 DEF DSTInv, Reading, AbortMeansDamage

(* A record cut short keeps its type.                                       *)
LEMMA CutRecord ==
  ASSUME NEW r \in Written, Len(r.body) < BufSize, NEW c \in cuts(r)
  PROVE  c \in Written /\ c.type = r.type /\ Len(c.body) < BufSize
<1>0. BufSize \in Nat \ {0} /\ r.body \in Seq(Nat) /\ r.length \in 0..BufSize /\ r.type \in Types
  BY DSTAssumption DEF Written, Counts
<1>1. CASE c = [r EXCEPT !.length = 0, !.body = <<>>]
  <2> DEFINE r1 == [r EXCEPT !.length = 0]
             r2 == [r1 EXCEPT !.body = <<>>]
  <2>1. r1 = [type |-> r.type, length |-> 0, body |-> r.body] /\ c = r2
    BY <1>1 DEF Written
  <2> HIDE DEF r1
  <2>2. c = [type |-> r.type, length |-> 0, body |-> <<>>]
    BY <2>1
  <2>3. 0 \in 0..BufSize /\ Len(<<>>) < BufSize /\ <<>> \in Seq(Nat)
    BY <1>0
  <2> QED
    BY <1>0, <2>2, <2>3 DEF Written, Counts
<1>2. ASSUME NEW k \in 0..Len(r.body), c = [r EXCEPT !.body = SubSeq(@, 1, k)]
      PROVE  c \in Written /\ c.type = r.type /\ Len(c.body) < BufSize
  <2>1. c.type = r.type /\ c.length = r.length /\ c.body = SubSeq(r.body, 1, k)
        /\ c = [type |-> c.type, length |-> c.length, body |-> c.body]
    BY <1>2 DEF Written
  <2> DEFINE b == r.body
             s == SubSeq(b, 1, k)
  <2>2. s \in Seq(Nat) /\ Len(s) = k
    BY <1>0
  <2> HIDE DEF s
  <2>3. Len(c.body) < BufSize
    BY <1>0, <2>1, <2>2 DEF s
  <2> QED
    BY <1>0, <2>1, <2>2, <2>3 DEF Written, Counts, s
<1> QED
  BY <1>1, <1>2 DEF cuts

LEMMA FileCut ==
  ASSUME NEW df \in DSTFiles, NEW ms, AsMeant(df, ms), ~df.closed,
         NEW t \in truncations(df.records), NEW file2, file2 = [df EXCEPT !.records = t]
  PROVE  file2 \in DSTFiles /\ AsMeant(file2, ms)
<1> DEFINE rs == df.records
<1>1. rs \in Seq(Written) /\ Len(rs) \in Nat /\ ms \in Seq(Records) /\ Len(ms) \in Nat /\ Len(rs) <= Len(ms)
  BY DEF DSTFiles, AsMeant
<1>2. file2.records = t /\ ~file2.closed
      /\ file2 = [version |-> file2.version, closed |-> file2.closed, records |-> file2.records]
      /\ file2.version \in {"none", "current"} /\ file2.closed \in BOOLEAN
  BY DEF DSTFiles
<1>3. \A i \in 1..Len(rs) : /\ rs[i].type = ms[i].type /\ Len(rs[i].body) < BufSize
                            /\ i < Len(rs) => Whole(rs[i], ms[i])
  BY DEF AsMeant
<1> HIDE DEF rs
<1>4. SUFFICES /\ t \in Seq(Written) /\ Len(t) <= Len(ms)
               /\ \A i \in 1..Len(t) : /\ t[i].type = ms[i].type /\ Len(t[i].body) < BufSize
                                       /\ i < Len(t) => Whole(t[i], ms[i])
  BY <1>1, <1>2, Zenon DEF DSTFiles, AsMeant
<1>5. ASSUME NEW n \in 0..Len(rs), t = SubSeq(rs, 1, n)
      PROVE  /\ t \in Seq(Written) /\ Len(t) <= Len(ms)
             /\ \A i \in 1..Len(t) : /\ t[i].type = ms[i].type /\ Len(t[i].body) < BufSize
                                     /\ i < Len(t) => Whole(t[i], ms[i])
  <2>1. t \in Seq(Written) /\ Len(t) = n /\ n \in Nat /\ n <= Len(rs) /\ \A i \in 1..n : t[i] = rs[i]
    BY <1>1, <1>5
  <2>2. \A i \in 1..n : i \in 1..Len(rs) /\ (i < n => i < Len(rs))
    BY <1>1
  <2> QED
    BY <1>1, <1>3, <2>1, <2>2
<1>6. ASSUME NEW n \in 1..Len(rs), NEW c \in cuts(rs[n]), t = Append(SubSeq(rs, 1, n - 1), c)
      PROVE  /\ t \in Seq(Written) /\ Len(t) <= Len(ms)
             /\ \A i \in 1..Len(t) : /\ t[i].type = ms[i].type /\ Len(t[i].body) < BufSize
                                     /\ i < Len(t) => Whole(t[i], ms[i])
  <2>1. c \in Written /\ c.type = rs[n].type /\ Len(c.body) < BufSize
    <3>1. rs[n] \in Written
      BY <1>1
    <3> QED
      BY <1>3, <3>1, CutRecord
  <2> DEFINE s == SubSeq(rs, 1, n - 1)
  <2>2. s \in Seq(Written) /\ Len(s) = n - 1 /\ \A i \in 1..n - 1 : s[i] = rs[i]
    BY <1>1
  <2> HIDE DEF s
  <2>3. t \in Seq(Written) /\ Len(t) = n /\ t[n] = c /\ \A i \in 1..n - 1 : t[i] = rs[i]
    BY <1>1, <1>6, <2>1, <2>2 DEF s
  <2>4. ASSUME NEW i \in 1..n
        PROVE  t[i].type = ms[i].type /\ Len(t[i].body) < BufSize /\ (i < n => Whole(t[i], ms[i]))
    <3>1. CASE i = n
      BY <1>1, <1>3, <2>1, <2>3, <3>1
    <3>2. CASE i # n
      <4>1. i \in 1..n - 1 /\ i \in 1..Len(rs) /\ i < Len(rs)
        BY <1>1, <3>2
      <4> QED
        BY <1>3, <2>3, <4>1
    <3> QED
      BY <3>1, <3>2
  <2> QED
    BY <1>1, <2>3, <2>4
<1> QED
  BY <1>5, <1>6 DEF truncations, rs

LEMMA KilledKeeps == DSTInv /\ Killed => DSTInv'
<1> SUFFICES ASSUME DSTInv, Killed PROVE DSTInv'
  OBVIOUS
<1> DEFINE f == dst_out
           df == disk[f]
<1>1. f \in Files /\ f # NoFile /\ meant' = meant /\ NewProcess
  BY DEF Killed, DSTInv, DSTTypes
<1>2. PICK t \in truncations(df.records) : disk' = [disk EXCEPT ![f].records = t]
  BY DEF Killed
<1> DEFINE file2 == [df EXCEPT !.records = t]
<1>3. disk \in [Files -> DSTFiles] /\ df \in DSTFiles /\ AsMeant(df, meant[f]) /\ ~df.closed
  BY <1>1 DEF DSTInv, FilesAsMeant, Writing, Saving
<1>4. disk' = [disk EXCEPT ![f] = file2]
  BY <1>1, <1>2, <1>3
<1>5. file2 \in DSTFiles /\ AsMeant(file2, meant[f])
  BY <1>3, FileCut
<1> HIDE DEF file2, df
<1>6. FilesAsMeant'
  BY <1>1, <1>3, <1>4, <1>5 DEF DSTInv, FilesAsMeant
<1> QED
  BY <1>1, <1>6, ProcessStarts DEF DSTInv

LEMMA RestartKeeps == DSTInv /\ Restart => DSTInv'
<1> SUFFICES ASSUME DSTInv, Restart PROVE DSTInv'
  OBVIOUS
<1>1. NewProcess /\ FilesAsMeant'
  BY DEF Restart, DSTInv, FilesAsMeant
<1> QED
  BY <1>1, ProcessStarts DEF DSTInv

-----------------------------------------------------------------------------
LEMMA ReadStarts ==
  ASSUME DSTInv, NEW f \in Files, NEW bits, ReadFromDST(f, bits)
  PROVE  DSTInv'
<1>1. /\ pc = "idle" /\ pc' = "reading" /\ dst_in' = f /\ dst_pos' = 1 /\ got' = <<>>
      /\ UNCHANGED <<bank, todo, caught, dst_out, out_buf, in_buf, in_bufl, disk, meant>>
  BY DEF ReadFromDST
<1>2. dst_out = NoFile
  BY <1>1, IdleClosed DEF DSTInv
<1>3. DSTTypes' /\ FilesAsMeant' /\ Writing'
  BY <1>1, <1>2 DEF DSTInv, DSTTypes, FilesAsMeant, Writing
<1>4. ReadSoFar(disk[f], meant[f], 1, <<>>)
  <2>1. Len(meant[f]) \in Nat /\ Len(disk[f].records) \in Nat
    BY DEF DSTInv, FilesAsMeant, AsMeant, DSTFiles
  <2>2. dataOf(meant[f])[0] = <<>>
    BY <2>1, DataRecords
  <2> QED
    BY <2>1, <2>2 DEF ReadSoFar
<1> QED
  BY <1>1, <1>3, <1>4 DEF DSTInv, Reading, AbortMeansDamage

(* What a record changes leaves HyCal's channels as they are.               *)
LEMMA UpdateKeepsHyCal ==
  ASSUME "hycal" \in DOMAIN bank, NEW r, r.type \in Types
  PROVE  "hycal" \in DOMAIN update(bank, r) /\ update(bank, r).hycal = bank.hycal
  BY DEF update, readRunInfo, readEPICSMap, readHyCalInfo, readGEMInfo, Types, DataTypes, ListTypes

(* getBuffer puts the words of the record in in_buf.                        *)
LEMMA BufferRead ==
  ASSUME in_buf \in [1..BufSize -> Nat], NEW body \in Counts, Len(body) < BufSize
  PROVE  Holds(overlay(DOMAIN in_buf, body, in_buf), body)
<1>1. DOMAIN in_buf = 1..BufSize /\ DOMAIN body = 1..Len(body) /\ Len(body) \in Nat /\ BufSize \in Nat
      /\ \A j \in 1..Len(body) : body[j] \in Nat
  BY DSTAssumption DEF Counts
<1>2. overlay(DOMAIN in_buf, body, in_buf)
        = [j \in 1..BufSize |-> IF j \in 1..Len(body) THEN body[j] ELSE in_buf[j]]
  BY <1>1, Zenon DEF overlay
<1> QED
  BY <1>1, <1>2 DEF Holds

(* A record is read.                                                        *)
LEMMA RecordRead ==
  ASSUME NEW df \in DSTFiles, NEW ms, AsMeant(df, ms), NEW at, NEW read,
         ReadSoFar(df, ms, at, read), at <= Len(df.records),
         NEW buf, Holds(buf, df.records[at].body), NEW len,
         df.records[at].length # 0 => len = df.records[at].length,
         readable(df.records[at].type, buf, len)
  PROVE  ReadSoFar(df, ms, at + 1,
                   IF df.records[at].type \in DataTypes
                   THEN Append(read, parsed(df.records[at].type, buf)) ELSE read)
<1> DEFINE rs == df.records
           d == dataOf(ms)
           r == rs[at]
           t == r.type
           m == ms[at]
           read2 == IF t \in DataTypes THEN Append(read, parsed(t, buf)) ELSE read
<1>1. rs \in Seq(Written) /\ Len(rs) \in Nat /\ at \in 1..Len(rs) /\ Len(ms) \in Nat
      /\ Len(rs) <= Len(ms) /\ ms \in Seq(Records)
  BY DEF DSTFiles, ReadSoFar, AsMeant
<1>2. read = d[at - 1]
  BY <1>1 DEF ReadSoFar
<1>3. r \in Written /\ m \in Records /\ t = m.type /\ Len(r.body) < BufSize
      /\ (at < Len(rs) \/ df.closed => Whole(r, m))
  BY <1>1 DEF AsMeant
<1>4. d[at] = IF t \in DataTypes THEN Append(d[at - 1], m) ELSE d[at - 1]
  BY <1>1, <1>3, DataRecords
<1>5. at + 1 \in 1..Len(rs) + 1 /\ (at + 1) - 1 = at /\ (at + 1) - 2 = at - 1 /\ at + 1 > 1
  BY <1>1
<1>6. CASE Whole(r, m)
  <2>1. len = r.length
    BY <1>3, <1>6 DEF Whole, Written, Counts
  <2>2. t \in DataTypes => parsed(t, buf) = m
    BY <1>3, <1>6, <2>1, DataReadBack DEF Written
  <2>3. read2 = d[at]
    BY <1>2, <1>4, <2>2
  <2> HIDE DEF read2, d
  <2>4. ReadSoFar(df, ms, at + 1, read2)
    BY <1>5, <2>3 DEF ReadSoFar, d
  <2> QED
    BY <2>4 DEF read2
<1>7. CASE ~Whole(r, m)
  <2>1. ~df.closed /\ at = Len(rs)
    BY <1>1, <1>3, <1>7
  <2>2. read2 = d[at] \/ \E x : read2 = Append(d[at - 1], x)
    BY <1>2, <1>4
  <2> HIDE DEF read2, d
  <2>3. ReadSoFar(df, ms, at + 1, read2)
    BY <1>5, <2>1, <2>2 DEF ReadSoFar, d
  <2> QED
    BY <2>3 DEF read2
<1> QED
  BY <1>6, <1>7

(* A record ends the program: it is not whole, too long or misses a channel. *)
LEMMA RecordAborts ==
  ASSUME NEW m \in Records, NEW r \in Written, r.type = m.type, Len(r.body) < BufSize, Whole(r, m),
         NEW buf, Holds(buf, r.body), NEW len, r.length # 0 => len = r.length,
         ~(readable(r.type, buf, len) /\ ~channelMissing(parsed(r.type, buf)))
  PROVE  ~Fits(m) \/ channelMissing(m)
<1>1. len = r.length /\ r.body \in Counts
  BY DEF Whole, Written, Counts
<1>2. CASE m.type \in DataTypes
  BY <1>1, <1>2, DataReadBack, DataMissNoChannel
<1>3. CASE m.type \notin DataTypes
  BY <1>1, <1>3, InfoReadBack
<1> QED
  BY <1>2, <1>3

LEMMA ReadNextKeeps == DSTInv /\ ReadNext => DSTInv'
<1> SUFFICES ASSUME DSTInv, ReadNext PROVE DSTInv'
  OBVIOUS
<1> DEFINE f == dst_in
           r == disk[f].records[dst_pos]
           t == r.type
           m == meant[f][dst_pos]
<1>1. /\ pc = "reading" /\ f \in Files /\ dst_pos <= Len(disk[f].records)
      /\ ReadSoFar(disk[f], meant[f], dst_pos, got)
      /\ UNCHANGED <<todo, caught, dst_out, out_buf, dst_in, disk, meant>>
  BY DEF ReadNext, dst_records, DSTInv, Reading
<1>2. disk[f] \in DSTFiles /\ AsMeant(disk[f], meant[f])
  BY <1>1 DEF DSTInv, FilesAsMeant
<1>3. dst_pos \in 1..Len(disk[f].records) /\ dst_pos \in 1..Len(meant[f])
      /\ r \in Written /\ m \in Records /\ r.type = m.type /\ Len(r.body) < BufSize
      /\ (disk[f].closed => Whole(r, m))
  <2>1. Len(disk[f].records) \in Nat /\ Len(meant[f]) \in Nat /\ disk[f].records \in Seq(Written)
        /\ meant[f] \in Seq(Records) /\ Len(disk[f].records) <= Len(meant[f])
    BY <1>2 DEF DSTFiles, AsMeant
  <2>2. dst_pos \in 1..Len(disk[f].records)
    BY <1>1, <2>1 DEF ReadSoFar
  <2>3. dst_pos \in 1..Len(meant[f])
    BY <2>1, <2>2
  <2> QED
    BY <1>2, <2>1, <2>2, <2>3 DEF AsMeant
<1>4. /\ in_bufl' = (IF r.length = 0 THEN in_bufl ELSE r.length)
      /\ in_buf' = overlay(DOMAIN in_buf, r.body, in_buf)
  BY DEF ReadNext, getBuffer, dst_records
<1>5. Holds(in_buf', r.body) /\ in_buf' \in [1..BufSize -> Nat] /\ in_bufl' \in 0..BufSize
  <2>1. r.body \in Counts /\ r.length \in 0..BufSize /\ in_buf \in [1..BufSize -> Nat]
        /\ in_bufl \in 0..BufSize
    BY <1>3 DEF Written, DSTInv, DSTTypes
  <2>2. Holds(in_buf', r.body)
    BY <1>3, <1>4, <2>1, BufferRead
  <2> QED
    BY <1>4, <2>1, <2>2 DEF Holds
<1>6. FilesAsMeant'
  BY <1>1 DEF DSTInv, FilesAsMeant
<1>7. dst_out = NoFile
  BY <1>1, IdleClosed DEF DSTInv
<1>8. CASE readable(t, in_buf', in_bufl') /\ ~channelMissing(parsed(t, in_buf'))
  <2> DEFINE read2 == IF t \in DataTypes THEN Append(got, parsed(t, in_buf')) ELSE got
  <2>1. /\ bank' = update(bank, parsed(t, in_buf')) /\ got' = read2
        /\ dst_pos' = dst_pos + 1 /\ pc' = pc
    BY <1>8 DEF ReadNext, dst_records, advance, DataTypes
  <2>2. ReadSoFar(disk[f], meant[f], dst_pos + 1, read2)
    BY <1>1, <1>2, <1>4, <1>5, <1>8, RecordRead
  <2> HIDE DEF read2
  <2>3. Reading'
    BY <1>1, <2>1, <2>2 DEF Reading
  <2>4. "hycal" \in DOMAIN bank' /\ bank'.hycal = bank.hycal
    <3>1. parsed(t, in_buf').type \in Types
      BY <1>3 DEF parsed, rec, Written, Types, DataTypes, ListTypes
    <3> QED
      BY <2>1, <3>1, UpdateKeepsHyCal DEF DSTInv, Writing
  <2>5. Writing'
    BY <1>1, <1>7, <2>1, <2>4 DEF DSTInv, Writing
  <2>6. DSTTypes'
    BY <1>1, <1>5, <2>1 DEF DSTInv, DSTTypes
  <2> QED
    BY <1>1, <1>6, <2>1, <2>3, <2>5, <2>6 DEF DSTInv, AbortMeansDamage
<1>9. CASE ~(readable(t, in_buf', in_bufl') /\ ~channelMissing(parsed(t, in_buf')))
  <2>1. pc' = "aborted" /\ UNCHANGED <<bank, got, dst_pos>>
    BY <1>9 DEF ReadNext, dst_records
  <2>2. disk[f].closed => ~Fits(m) \/ channelMissing(m)
    BY <1>3, <1>4, <1>5, <1>9, RecordAborts
  <2>3. AbortMeansDamage'
    <3>1. disk'[dst_in'].closed = disk[f].closed /\ meant'[dst_in'] = meant[f] /\ bank' = bank
      BY <1>1, <2>1
    <3>2. dst_pos \in DOMAIN meant[f]
      BY <1>2, <1>3 DEF AsMeant
    <3> QED
      BY <2>2, <3>1, <3>2 DEF AbortMeansDamage, channelMissing
  <2>4. Writing' /\ DSTTypes'
    BY <1>1, <1>5, <1>7, <2>1 DEF DSTInv, Writing, DSTTypes
  <2> QED
    BY <1>6, <2>1, <2>3, <2>4 DEF DSTInv, Reading
<1> QED
  BY <1>8, <1>9

LEMMA CloseInputKeeps == DSTInv /\ CloseInput => DSTInv'
<1> SUFFICES ASSUME DSTInv, CloseInput PROVE DSTInv'
  OBVIOUS
<1>1. /\ pc = "reading" /\ pc' = "idle" /\ dst_in' = NoFile /\ dst_pos' = 1
      /\ UNCHANGED <<bank, todo, caught, dst_out, out_buf, in_buf, in_bufl, disk, meant>>
  BY DEF CloseInput
<1>2. dst_out = NoFile
  BY <1>1, IdleClosed DEF DSTInv
<1> QED
  BY <1>1, <1>2 DEF DSTInv, DSTTypes, FilesAsMeant, Writing, Reading, AbortMeansDamage

LEMMA DSTStep == DSTInv /\ [DSTNext]_dst_vars => DSTInv'
<1> SUFFICES ASSUME DSTInv, [DSTNext]_dst_vars PROVE DSTInv'
  OBVIOUS
<1>1. CASE UNCHANGED dst_vars
  BY <1>1 DEF dst_vars, parser_vars, history, DSTInv, DSTTypes, FilesAsMeant, Writing, Reading,
              AbortMeansDamage, channelMissing
<1>2. CASE DSTNext
  BY <1>2, NewDataKeeps, WriteRecordKeeps, WriteFailsKeeps, CloseOutputKeeps, ReadNextKeeps,
     CloseInputKeeps, KilledKeeps, RestartKeeps, SaveKeeps, ReadStarts DEF DSTNext, Write, Load
<1> QED
  BY <1>1, <1>2

LEMMA DSTInvariant == DSTSpec => []DSTInv
  BY DSTStart, DSTStep, PTL DEF DSTSpec

(* What was read without its last event is a beginning of what was meant.   *)
LEMMA FrontIsPrefix ==
  ASSUME NEW ms \in Seq(Records), NEW n \in 0..Len(ms), NEW read, read # <<>>,
         read = dataOf(ms)[n] \/ \E x : read = Append(dataOf(ms)[n], x)
  PROVE  IsPrefix(Front(read), data(ms))
<1> DEFINE d == dataOf(ms)[n]
           e == data(ms)
<1>1. d \in Seq(Records) /\ e \in Seq(Records) /\ Len(d) <= Len(e)
      /\ SubSeq(d, 1, Len(d)) = SubSeq(e, 1, Len(d))
  BY DataGrows DEF IsPrefix
<1>2. read = d \/ \E x : read = Append(d, x)
  OBVIOUS
<1> HIDE DEF d, e
<1>3. Len(d) \in Nat /\ Len(e) \in Nat /\ d = SubSeq(e, 1, Len(d))
  BY <1>1
<1>4. PICK k \in 0..Len(d) : Front(read) = SubSeq(d, 1, k)
  <2>1. CASE read = d
    <3>1. Len(d) # 0
      BY <1>1, <2>1
    <3>2. Len(d) - 1 \in 0..Len(d)
      BY <1>3, <3>1
    <3> QED
      BY <2>1, <3>2 DEF Front
  <2>2. ASSUME NEW x, read = Append(d, x) PROVE Front(read) = SubSeq(d, 1, Len(d))
    <3> DEFINE S == Records \cup {x}
    <3>1. d \in Seq(S) /\ x \in S
      BY <1>1
    <3> HIDE DEF S
    <3>2. Len(read) - 1 = Len(d)
      BY <1>3, <2>2, <3>1
    <3>3. Front(read) = SubSeq(read, 1, Len(d))
      BY <3>2 DEF Front
    <3>4. \A j \in 1..Len(d) : read[j] = d[j]
      BY <2>2, <3>1
    <3>5. read \in Seq(S) /\ Len(d) <= Len(read)
      BY <1>3, <2>2, <3>1
    <3> QED
      BY <1>3, <3>1, <3>3, <3>4, <3>5
  <2> QED
    BY <1>2, <1>3, <2>1, <2>2
<1> DEFINE s == SubSeq(d, 1, k)
<1>5. s \in Seq(Records) /\ Len(s) = k /\ k <= Len(e) /\ \A j \in 1..k : s[j] = e[j]
  BY <1>1, <1>3
<1> HIDE DEF s
<1>6. SubSeq(s, 1, k) = SubSeq(e, 1, k)
  BY <1>1, <1>5
<1> QED
  BY <1>4, <1>5, <1>6 DEF IsPrefix, s, e

(* A program that dies while it writes costs those that read its file one   *)
(* bad record at most, and they end only at damage (getBuffer, Read).       *)
THEOREM DamageStaysContained == DSTSpec => []DamageIsContained
<1>1. DSTInv => OneBadRecordAtMost
  <2> SUFFICES ASSUME DSTInv, pc = "reading", got # <<>>
               PROVE  IsPrefix(Front(got), data(meant[dst_in]))
    BY DEF OneBadRecordAtMost
  <2> DEFINE ms == meant[dst_in]
             rs == disk[dst_in].records
  <2>1. /\ ms \in Seq(Records) /\ Len(rs) <= Len(ms) /\ Len(ms) \in Nat /\ Len(rs) \in Nat
        /\ dst_pos \in 1..Len(rs) + 1
        /\ got = dataOf(ms)[dst_pos - 1]
           \/ (dst_pos > 1 /\ \E x : got = Append(dataOf(ms)[dst_pos - 2], x))
    BY DEF DSTInv, Reading, ReadSoFar, FilesAsMeant, AsMeant, DSTFiles
  <2> HIDE DEF ms, rs
  <2>2. dst_pos - 1 \in 0..Len(ms) /\ (dst_pos > 1 => dst_pos - 2 \in 0..Len(ms))
    BY <2>1
  <2>3. IsPrefix(Front(got), data(ms))
    BY <2>1, <2>2, FrontIsPrefix
  <2> QED
    BY <2>3 DEF ms
<1>2. DSTInv => DamageIsContained
  BY <1>1 DEF DSTInv, DamageIsContained
<1> QED
  BY <1>2, DSTInvariant, PTL

-----------------------------------------------------------------------------
(* The information of the systems.                                         *)
InfoFields == {"hycal", "gem", "epics_map", "run_info"}

(* A file holds the information of each system once.                        *)
OneRecord(ms) ==
  /\ \A i, j \in 1..Len(ms) : ms[i].type = ms[j].type /\ ms[i].type \notin DataTypes => i = j
  /\ \A i \in 1..Len(ms) : /\ ms[i].type = "gem_info" => "gem" \in Systems
                           /\ ms[i].type = "epics_map" => "epics" \in Systems

(* What was read before pos was taken over, what was not is as before.      *)
InfoRead(ms, at) ==
  /\ bank.hycal = before.hycal
  /\ \A i \in 1..at - 1 : TakenOver(ms[i])
  /\ (\A i \in 1..at - 1 : ms[i].type # "gem_info") => bank.gem = before.gem
  /\ (\A i \in 1..at - 1 : ms[i].type # "epics_map") => bank.epics_map = before.epics_map
  /\ (\A i \in 1..at - 1 : ms[i].type # "run_info") => bank.run_info = before.run_info

InfoInv ==
  /\ InfoFields \subseteq DOMAIN bank
  /\ \A f \in Files : OneRecord(meant[f])
  /\ pc = "reading" /\ disk[dst_in].closed => InfoRead(meant[dst_in], dst_pos)

LEMMA BankDomain == ASSUME NEW b \in Banks PROVE InfoFields \subseteq DOMAIN b
  BY DSTAssumption DEF InfoFields

(* The records of a save: information, events, the run.                     *)
LEMMA SaveHasOneEach ==
  ASSUME NEW q \in Seq(Records), NEW mid \in Seq(Records), NEW last \in Records, OneRecord(q),
         \A i \in 1..Len(q) : q[i].type \in ListTypes,
         \A i \in 1..Len(mid) : mid[i].type \in DataTypes, last.type = "run_info"
  PROVE  OneRecord(q \o mid \o <<last>>)
<1> DEFINE ms == q \o mid \o <<last>>
           a == Len(q)
           b == Len(mid)
<1>1. a \in Nat /\ b \in Nat
  OBVIOUS
<1>2. /\ Len(ms) = a + b + 1 /\ ms[a + b + 1] = last
      /\ \A i \in 1..a : ms[i] = q[i]
      /\ \A i \in a + 1..a + b : ms[i] = mid[i - a]
  OBVIOUS
<1> HIDE DEF ms, a, b
<1>3. ASSUME NEW i \in 1..Len(ms)
      PROVE  \/ i \in 1..a /\ ms[i] = q[i] /\ ms[i].type \in ListTypes
             \/ ms[i].type \in DataTypes
             \/ i = a + b + 1 /\ ms[i].type = "run_info"
  <2>1. CASE i \in 1..a
    BY <1>2, <2>1 DEF a
  <2>2. CASE i \in a + 1..a + b
    <3>1. i - a \in 1..b /\ ms[i] = mid[i - a]
      BY <1>1, <1>2, <2>2
    <3> QED
      BY <3>1 DEF b
  <2>3. CASE i = a + b + 1
    BY <1>2, <2>3
  <2> QED
    BY <1>1, <1>2, <2>1, <2>2, <2>3
<1>4. \A i, j \in 1..Len(ms) : ms[i].type = ms[j].type /\ ms[i].type \notin DataTypes => i = j
  <2> SUFFICES ASSUME NEW i \in 1..Len(ms), NEW j \in 1..Len(ms), ms[i].type = ms[j].type,
                      ms[i].type \notin DataTypes
               PROVE  i = j
    OBVIOUS
  <2>1. \/ i \in 1..a /\ ms[i] = q[i] /\ ms[i].type \in ListTypes
        \/ i = a + b + 1 /\ ms[i].type = "run_info"
    BY <1>3
  <2>2. \/ j \in 1..a /\ ms[j] = q[j] /\ ms[j].type \in ListTypes
        \/ j = a + b + 1 /\ ms[j].type = "run_info"
    BY <1>3
  <2>3. "run_info" \notin ListTypes
    BY DEF ListTypes
  <2> QED
    BY <2>1, <2>2, <2>3 DEF OneRecord, a
<1>5. \A i \in 1..Len(ms) : /\ ms[i].type = "gem_info" => "gem" \in Systems
                            /\ ms[i].type = "epics_map" => "epics" \in Systems
  <2> SUFFICES ASSUME NEW i \in 1..Len(ms), ms[i].type \in {"gem_info", "epics_map"}
               PROVE  /\ ms[i].type = "gem_info" => "gem" \in Systems
                      /\ ms[i].type = "epics_map" => "epics" \in Systems
    OBVIOUS
  <2>1. i \in 1..a /\ ms[i] = q[i]
    BY <1>3 DEF DataTypes
  <2> QED
    BY <2>1 DEF OneRecord, a
<1> QED
  BY <1>4, <1>5 DEF OneRecord, ms

LEMMA Pair ==
  ASSUME NEW x, NEW y
  PROVE  <<x>> \o <<y>> = <<x, y>>
<1> DEFINE S == {x, y}
           s == <<x>> \o <<y>>
           t == <<x, y>>
<1>1. s \in Seq(S) /\ Len(s) = 2 /\ s[1] = x /\ s[2] = y
  OBVIOUS
<1>2. t \in Seq(S) /\ Len(t) = 2 /\ t[1] = x /\ t[2] = y
  OBVIOUS
<1> HIDE DEF s, t, S
<1>3. s = [i \in 1..2 |-> s[i]] /\ t = [i \in 1..2 |-> t[i]]
  BY <1>1, <1>2
<1>4. \A i \in 1..2 : s[i] = t[i]
  <2>1. \A i \in 1..2 : i = 1 \/ i = 2
    OBVIOUS
  <2> QED
    BY <1>1, <1>2, <2>1
<1>5. s = t
  BY <1>3, <1>4, Zenon
<1> QED
  BY <1>5 DEF s, t

LEMMA Triple ==
  ASSUME NEW x, NEW y, NEW z
  PROVE  <<x>> \o <<y>> \o <<z>> = <<x, y, z>>
<1> DEFINE S == {x, y, z}
           s == <<x, y>> \o <<z>>
           t == <<x, y, z>>
<1>1. s \in Seq(S) /\ Len(s) = 3 /\ s[1] = x /\ s[2] = y /\ s[3] = z
  OBVIOUS
<1>2. t \in Seq(S) /\ Len(t) = 3 /\ t[1] = x /\ t[2] = y /\ t[3] = z
  OBVIOUS
<1> HIDE DEF s, t, S
<1>3. s = [i \in 1..3 |-> s[i]] /\ t = [i \in 1..3 |-> t[i]]
  BY <1>1, <1>2
<1>4. \A i \in 1..3 : s[i] = t[i]
  <2>1. \A i \in 1..3 : i = 1 \/ i = 2 \/ i = 3
    OBVIOUS
  <2> QED
    BY <1>1, <1>2, <2>1
<1>5. s = t
  BY <1>3, <1>4, Zenon
<1> QED
  BY <1>5, Pair DEF s, t

LEMMA InfosHaveOneEach ==
  ASSUME NEW b \in Banks
  PROVE  OneRecord(infos(b)) /\ \A i \in 1..Len(infos(b)) : infos(b)[i].type \in ListTypes
<1> DEFINE hinfo == rec("hycal_info", b.hycal)
           g == rec("gem_info", b.gem)
           e == rec("epics_map", b.epics_map)
<1>1. hinfo.type = "hycal_info" /\ g.type = "gem_info" /\ e.type = "epics_map"
  BY DEF rec
<1>2. infos(b) = <<hinfo>> \o (IF "gem" \in Systems THEN <<g>> ELSE <<>>)
                       \o (IF "epics" \in Systems THEN <<e>> ELSE <<>>)
  BY DSTAssumption DEF infos
<1>0. <<hinfo>> \o <<>> = <<hinfo>> /\ <<hinfo>> \o <<g>> \o <<>> = <<hinfo>> \o <<g>>
  BY Pair
<1> HIDE DEF hinfo, g, e
<1>3. CASE "gem" \in Systems /\ "epics" \in Systems
  <2>1. infos(b) = <<hinfo, g, e>>
    BY <1>2, <1>3, Triple
  <2> QED
    BY <1>1, <1>3, <2>1 DEF OneRecord, ListTypes
<1>4. CASE "gem" \in Systems /\ "epics" \notin Systems
  <2>1. infos(b) = <<hinfo, g>>
    BY <1>2, <1>0, <1>4, Pair
  <2> QED
    BY <1>1, <1>4, <2>1 DEF OneRecord, ListTypes
<1>5. CASE "gem" \notin Systems /\ "epics" \in Systems
  <2>1. infos(b) = <<hinfo, e>>
    BY <1>2, <1>0, <1>5, Pair
  <2> QED
    BY <1>1, <1>5, <2>1 DEF OneRecord, ListTypes
<1>6. CASE "gem" \notin Systems /\ "epics" \notin Systems
  <2>1. infos(b) = <<hinfo>>
    BY <1>2, <1>6
  <2> QED
    BY <1>1, <1>6, <2>1 DEF OneRecord, ListTypes
<1> QED
  BY <1>3, <1>4, <1>5, <1>6

LEMMA SavesHaveOneEach ==
  ASSUME NEW b \in Banks
  PROVE  /\ OneRecord(saveRecords(b))
         /\ \A source \in Sources : OneRecord(replayRecords(b, source))
<1> DEFINE q == infos(b)
           r == rec("run_info", b.run_info)
<1>1. q \in Seq(Records) /\ OneRecord(q) /\ (\A i \in 1..Len(q) : q[i].type \in ListTypes)
      /\ r \in Records /\ r.type = "run_info"
  BY FirstIsHyCal, InfosHaveOneEach, BankFields DEF rec, Records
<1>2. OneRecord(saveRecords(b))
  <2> DEFINE e == IF "epics" \in Systems THEN recs("epics", b.epics) ELSE <<>>
             v == recs("event", b.events)
  <2>1. e \in Seq(Records) /\ v \in Seq(Records)
    BY BankFields, RecsTyped DEF DataTypes
  <2>2. (\A i \in 1..Len(e) : e[i].type = "epics") /\ (\A i \in 1..Len(v) : v[i].type = "event")
    <3>1. /\ Len(recs("epics", b.epics)) = Len(b.epics) /\ Len(v) = Len(b.events)
      BY BankFields DEF recs
    <3> QED
      BY <3>1 DEF recs, rec
  <2>3. saveRecords(b) = q \o e \o v \o <<r>>
    BY DEF saveRecords
  <2> HIDE DEF e, v, q, r
  <2> DEFINE mid == e \o v
  <2>4. mid \in Seq(Records) /\ q \o e \o v \o <<r>> = q \o mid \o <<r>>
    BY <1>1, <2>1
  <2>5. ASSUME NEW i \in 1..Len(mid) PROVE mid[i].type \in DataTypes
    <3>1. mid[i] = IF i <= Len(e) THEN e[i] ELSE v[i - Len(e)]
      BY <2>1
    <3>2. CASE i <= Len(e)
      BY <2>1, <2>2, <3>1, <3>2 DEF DataTypes
    <3>3. CASE ~(i <= Len(e))
      <4>1. i - Len(e) \in 1..Len(v)
        BY <2>1, <3>3
      <4> QED
        BY <2>2, <3>1, <3>3, <4>1 DEF DataTypes
    <3> QED
      BY <3>2, <3>3
  <2> HIDE DEF mid
  <2> QED
    BY <1>1, <2>3, <2>4, <2>5, SaveHasOneEach
<1>3. ASSUME NEW source \in Sources PROVE OneRecord(replayRecords(b, source))
  <2>1. source \in Seq(Records) /\ \A i \in 1..Len(source) : source[i].type \in DataTypes
    BY DSTAssumption DEF DataTypes
  <2>2. replayRecords(b, source) = q \o source \o <<r>>
    BY DEF replayRecords
  <2> HIDE DEF q, r
  <2> QED
    BY <1>1, <2>1, <2>2, SaveHasOneEach
<1> QED
  BY <1>2, <1>3

(* Information that was written whole and fits is read back as it was; that *)
(* of HyCal has other words behind it, and updates nothing.                 *)
LEMMA InfoBack ==
  ASSUME NEW m \in Records, NEW w, NEW buf, m.type \in {"run_info", "gem_info", "epics_map"},
         w.body \in Counts, Len(w.body) < BufSize, Whole(w, m), Holds(buf, w.body),
         readable(m.type, buf, w.length)
  PROVE  parsed(m.type, buf) = m
<1> DEFINE p == payload(m)
<1>1. BufSize \in Nat \ {0} /\ Len(w.body) \in Nat /\ w.length = Len(w.body) + 1
      /\ buf \in [1..BufSize -> Nat] /\ p \in Counts /\ Len(p) \in Nat
  BY Payload, DSTAssumption DEF Counts, Whole, Holds
<1>2. /\ Len(w.body) = Len(p) \/ (Len(w.body) = BufSize - 1 /\ BufSize <= Len(p))
      /\ \A j \in 1..Len(w.body) : buf[j] = p[j]
  <2>1. w.body = writeBuffer(<<>>, p)
    BY DEF Whole
  <2>2. /\ Len(w.body) = Len(p) \/ (Len(w.body) = BufSize - 1 /\ BufSize <= Len(p))
        /\ \A j \in 1..Len(w.body) : w.body[j] = p[j]
    BY <1>1, <2>1, FreshWritten
  <2> QED
    BY <2>2 DEF Holds
<1>3. m = rec(m.type, m.value)
  BY RecordFields
<1>4. CASE m.type = "run_info"
  <2>1. p = <<m.value>> /\ m.value \in Nat
    BY <1>4, Payload, RecordFields
  <2>2. 1 < w.length
    BY <1>4 DEF readable
  <2>3. 1 \in 1..Len(w.body) /\ p[1] = m.value
    BY <1>1, <2>1, <2>2
  <2>4. parsed(m.type, buf) = rec(m.type, buf[1])
    BY <1>4 DEF parsed
  <2> QED
    BY <1>2, <1>3, <2>3, <2>4
<1>5. CASE m.type \in {"gem_info", "epics_map"}
  <2> DEFINE s == m.value
  <2>1. s \in Counts /\ p = counted(s) /\ Len(p) = 1 + Len(s) /\ p[1] = Len(s) /\ Len(s) \in Nat
        /\ \A j \in 1..Len(s) : p[1 + j] = s[j]
    <3>1. s \in Counts /\ p = counted(s)
      BY <1>5, RecordFields DEF ListTypes, payload, WriteEPICSMap, WriteGEMInfo
    <3> HIDE DEF s, p
    <3> QED
      BY <3>1 DEF counted, Counts
  <2>2. /\ readable(m.type, buf, w.length) <=> 1 < w.length /\ 1 + buf[1] < w.length
        /\ parsed(m.type, buf) = rec(m.type, listAt(buf, 1))
    BY <1>5 DEF readable, parsed, listWithin, listEnd
  <2> HIDE DEF s, p
  <2>3. 1 \in 1..Len(w.body)
    BY <1>1, <2>2
  <2>4. buf[1] = Len(s)
    BY <1>2, <2>1, <2>3
  <2>5. Len(w.body) = 1 + Len(s)
    BY <1>1, <1>2, <2>1, <2>2, <2>4
  <2>6. ASSUME NEW j \in 1..Len(s) PROVE buf[1 + j] = s[j]
    <3>1. 1 + j \in 1..Len(w.body)
      BY <2>1, <2>5
    <3> QED
      BY <1>2, <2>1, <3>1
  <2>7. 1 + Len(s) <= BufSize /\ 1 \in Nat
    BY <1>1, <2>1, <2>5
  <2>8. listAt(buf, 1) = s
    BY <1>1, <2>1, <2>4, <2>6, <2>7, ListBack, Zenon
  <2> QED
    BY <1>3, <2>2, <2>8 DEF s
<1> QED
  BY <1>4, <1>5

(* What each record changes.                                                *)
LEMMA UpdateFields ==
  ASSUME InfoFields \subseteq DOMAIN bank, NEW r, r.type \in Types
  PROVE  LET b == update(bank, r) IN
         /\ InfoFields \subseteq DOMAIN b /\ b.hycal = bank.hycal
         /\ b.gem = IF r.type = "gem_info" /\ "gem" \in Systems
                    THEN taken("update_gem_info", overlay(DOMAIN bank.gem, r.value, bank.gem), bank.gem)
                    ELSE bank.gem
         /\ b.epics_map =
              IF r.type = "epics_map" /\ "epics" \in Systems
              THEN taken("update_epics_map",
                         overlay(DOMAIN bank.epics_map \cup DOMAIN r.value, r.value, bank.epics_map),
                         bank.epics_map)
              ELSE bank.epics_map
         /\ b.run_info = IF r.type = "run_info" THEN taken("update_run_info", r.value, bank.run_info)
                         ELSE bank.run_info
<1>1. /\ "hycal" \in DOMAIN bank /\ "gem" \in DOMAIN bank /\ "epics_map" \in DOMAIN bank
      /\ "run_info" \in DOMAIN bank
  BY DEF InfoFields
<1>2. CASE r.type = "event"
  BY <1>1, <1>2 DEF update, InfoFields
<1>3. CASE r.type = "epics"
  BY <1>1, <1>3 DEF update, InfoFields
<1>4. CASE r.type = "run_info"
  BY <1>1, <1>4 DEF update, readRunInfo, taken, InfoFields
<1>5. CASE r.type = "epics_map"
  BY <1>1, <1>5 DEF update, readEPICSMap, taken, InfoFields
<1>6. CASE r.type = "gem_info"
  BY <1>1, <1>6 DEF update, readGEMInfo, taken, InfoFields
<1>7. CASE r.type = "hycal_info"
  BY <1>1, <1>7 DEF update, readHyCalInfo, InfoFields
<1> QED
  BY <1>2, <1>3, <1>4, <1>5, <1>6, <1>7 DEF Types, DataTypes, ListTypes

LEMMA InfoStart == DSTInit => InfoInv
<1> SUFFICES ASSUME DSTInit PROVE InfoInv
  OBVIOUS
<1>1. InfoFields \subseteq DOMAIN bank /\ pc # "reading"
  BY BankDomain DEF DSTInit
<1>2. \A f \in Files : meant[f] = <<>>
  BY DEF DSTInit
<1>3. OneRecord(<<>>)
  BY DEF OneRecord
<1> QED
  BY <1>1, <1>2, <1>3 DEF InfoInv

(* Records of one kind that changes nothing are before pos, or the next is  *)
(* the only one of its kind.                                                *)
LEMMA NextInfoRead ==
  ASSUME InfoFields \subseteq DOMAIN bank, NEW ms \in Seq(Records), OneRecord(ms),
         NEW at \in 1..Len(ms), InfoRead(ms, at), NEW p, p.type = ms[at].type,
         p.type \in {"run_info", "gem_info", "epics_map"} => p = ms[at],
         bank' = update(bank, p), before' = before, mode' = mode
  PROVE  InfoRead(ms, at + 1)'
<1> DEFINE m == ms[at]
           t == m.type
<1>1. t \in Types /\ Len(ms) \in Nat /\ at \in Nat /\ m \in Records
  BY RecordFields
<1>2. \A i \in 1..(at + 1) - 1 : i \in 1..at - 1 \/ i = at
  BY <1>1
<1>3. at \in 1..(at + 1) - 1 /\ \A i \in 1..at - 1 : i \in 1..(at + 1) - 1 /\ i \in 1..Len(ms) /\ i # at
  BY <1>1
<1>4. t \notin DataTypes => \A i \in 1..at - 1 : ms[i].type # t
  BY <1>3 DEF OneRecord
<1>5. (t = "gem_info" => "gem" \in Systems) /\ (t = "epics_map" => "epics" \in Systems)
  BY DEF OneRecord
<1>6. /\ bank.hycal = before.hycal /\ \A i \in 1..at - 1 : TakenOver(ms[i])
      /\ (\A i \in 1..at - 1 : ms[i].type # "gem_info") => bank.gem = before.gem
      /\ (\A i \in 1..at - 1 : ms[i].type # "epics_map") => bank.epics_map = before.epics_map
      /\ (\A i \in 1..at - 1 : ms[i].type # "run_info") => bank.run_info = before.run_info
  BY DEF InfoRead
<1>7. /\ bank'.hycal = bank.hycal
      /\ t # "gem_info" => bank'.gem = bank.gem
      /\ t # "epics_map" => bank'.epics_map = bank.epics_map
      /\ t # "run_info" => bank'.run_info = bank.run_info
  BY <1>1, UpdateFields
<1> HIDE DEF m
<1>8. TakenOver(m)'
  <2>1. CASE t = "gem_info"
    <3>1. bank.gem = before.gem /\ p = m
      BY <1>4, <1>6, <2>1 DEF DataTypes, m
    <3>2. bank'.gem = taken("update_gem_info", overlay(DOMAIN bank.gem, m.value, bank.gem), bank.gem)
      BY <1>1, <1>5, <2>1, <3>1, UpdateFields
    <3> QED
      BY <2>1, <3>1, <3>2 DEF TakenOver, taken
  <2>2. CASE t = "epics_map"
    <3>1. bank.epics_map = before.epics_map /\ p = m
      BY <1>4, <1>6, <2>2 DEF DataTypes, m
    <3>2. bank'.epics_map =
            taken("update_epics_map",
                  overlay(DOMAIN bank.epics_map \cup DOMAIN m.value, m.value, bank.epics_map),
                  bank.epics_map)
      BY <1>1, <1>5, <2>2, <3>1, UpdateFields
    <3> QED
      BY <2>2, <3>1, <3>2 DEF TakenOver, taken
  <2>3. CASE t = "run_info"
    <3>1. bank.run_info = before.run_info /\ p = m
      BY <1>4, <1>6, <2>3 DEF DataTypes, m
    <3>2. bank'.run_info = taken("update_run_info", m.value, bank.run_info)
      BY <1>1, <2>3, <3>1, UpdateFields
    <3> QED
      BY <2>3, <3>1, <3>2 DEF TakenOver, taken
  <2>4. CASE t = "hycal_info"
    BY <1>6, <1>7, <2>4 DEF TakenOver, m
  <2>5. CASE t \notin {"gem_info", "epics_map", "run_info", "hycal_info"}
    BY <2>5 DEF TakenOver
  <2> QED
    BY <2>1, <2>2, <2>3, <2>4, <2>5
<1>9. ASSUME NEW i \in 1..at - 1 PROVE TakenOver(ms[i])'
  <2>1. TakenOver(ms[i]) /\ (t \notin DataTypes => ms[i].type # t)
    BY <1>4, <1>6
  <2>2. /\ ms[i].type = "gem_info" => t # "gem_info"
        /\ ms[i].type = "epics_map" => t # "epics_map"
        /\ ms[i].type = "run_info" => t # "run_info"
    BY <2>1 DEF DataTypes
  <2> QED
    BY <1>7, <2>1, <2>2 DEF TakenOver, taken
<1>10. \A i \in 1..(at + 1) - 1 : TakenOver(ms[i])'
  BY <1>2, <1>8, <1>9 DEF m
<1>11. ASSUME NEW k \in {"gem_info", "epics_map", "run_info"},
              \A i \in 1..(at + 1) - 1 : ms[i].type # k
       PROVE  t # k /\ \A i \in 1..at - 1 : ms[i].type # k
  BY <1>3, <1>11 DEF m
<1>12. /\ (\A i \in 1..(at + 1) - 1 : ms[i].type # "gem_info") => bank'.gem = before'.gem
       /\ (\A i \in 1..(at + 1) - 1 : ms[i].type # "epics_map") => bank'.epics_map = before'.epics_map
       /\ (\A i \in 1..(at + 1) - 1 : ms[i].type # "run_info") => bank'.run_info = before'.run_info
  BY <1>6, <1>7, <1>11
<1> QED
  BY <1>6, <1>7, <1>10, <1>12 DEF InfoRead

LEMMA InfoStep == DSTInv /\ InfoInv /\ [DSTNext]_dst_vars => InfoInv'
<1> SUFFICES ASSUME DSTInv, InfoInv, [DSTNext]_dst_vars PROVE InfoInv'
  OBVIOUS
<1>1. ASSUME UNCHANGED <<bank, meant>>, pc' # "reading" PROVE InfoInv'
  BY <1>1 DEF InfoInv
<1>2. CASE UNCHANGED dst_vars
  BY <1>2 DEF dst_vars, parser_vars, history, InfoInv, InfoRead, TakenOver, taken
<1>3. CASE NewData
  BY <1>3, BankDomain DEF NewData, InfoInv
<1>4. ASSUME NEW f \in Files, WriteToDST(f) \/ \E source \in Sources : Replay(f, source) PROVE InfoInv'
  <2>1. PICK rs : OneRecord(rs) /\ OpenOutput(f, rs) /\ bank' = bank /\ pc' # "reading"
    BY <1>4, SavesHaveOneEach DEF WriteToDST, Replay
  <2>2. \A g \in Files : OneRecord(meant'[g])
    BY <2>1 DEF OpenOutput, InfoInv, DSTInv, FilesAsMeant
  <2> QED
    BY <2>1, <2>2 DEF InfoInv
<1>5. CASE WriteRecord
  BY <1>1, <1>5 DEF WriteRecord
<1>6. CASE WriteFails
  BY <1>1, <1>6 DEF WriteFails
<1>7. CASE CloseOutput
  BY <1>1, <1>7 DEF CloseOutput
<1>8. CASE Killed \/ Restart
  BY <1>8, BankDomain DEF Killed, Restart, NewProcess, InfoInv
<1>9. ASSUME NEW f \in Files, NEW bits, ReadFromDST(f, bits) PROVE InfoInv'
  <2>1. bank' = bank /\ meant' = meant /\ before' = bank /\ dst_pos' = 1
    BY <1>9 DEF ReadFromDST
  <2>2. InfoRead(meant[f], 1)'
    BY <2>1 DEF InfoRead
  <2> QED
    BY <2>1, <2>2, <1>9 DEF InfoInv, InfoRead, ReadFromDST
<1>10. CASE ReadNext
  <2> DEFINE r == disk[dst_in].records[dst_pos]
             t == r.type
             m == meant[dst_in][dst_pos]
             p == parsed(t, in_buf')
  <2>1. /\ UNCHANGED <<dst_in, mode, disk, meant, before>>
        /\ in_buf' = overlay(DOMAIN in_buf, r.body, in_buf)
        /\ in_bufl' = (IF r.length = 0 THEN in_bufl ELSE r.length)
        /\ pc = "reading" /\ dst_pos <= Len(disk[dst_in].records)
    BY <1>10 DEF ReadNext, getBuffer, dst_records
  <2>2. CASE pc' # "reading"
    <3>1. bank' = bank
      BY <1>10, <2>1, <2>2 DEF ReadNext
    <3> QED
      BY <1>1, <2>1, <2>2, <3>1
  <2>3. CASE pc' = "reading"
    <3>1. /\ readable(t, in_buf', in_bufl') /\ bank' = update(bank, p) /\ dst_pos' = dst_pos + 1
      BY <1>10, <2>3 DEF ReadNext, dst_records, advance
    <3>2. /\ dst_in \in Files /\ disk[dst_in].records \in Seq(Written)
          /\ meant[dst_in] \in Seq(Records) /\ AsMeant(disk[dst_in], meant[dst_in])
          /\ dst_pos \in 1..Len(disk[dst_in].records) /\ in_buf \in [1..BufSize -> Nat]
      <4>1. dst_in \in Files /\ ReadSoFar(disk[dst_in], meant[dst_in], dst_pos, got)
        BY <2>1 DEF DSTInv, Reading
      <4>2. disk[dst_in] \in DSTFiles /\ AsMeant(disk[dst_in], meant[dst_in])
        BY <4>1 DEF DSTInv, FilesAsMeant
      <4>3. dst_pos \in 1..Len(disk[dst_in].records)
        BY <2>1, <4>1, <4>2 DEF ReadSoFar, DSTFiles
      <4> QED
        BY <4>1, <4>2, <4>3 DEF DSTFiles, AsMeant, DSTInv, DSTTypes
    <3>3. dst_pos \in 1..Len(meant[dst_in]) /\ r \in Written /\ t = m.type /\ Len(r.body) < BufSize
          /\ (disk[dst_in].closed => Whole(r, m))
      <4>1. Len(disk[dst_in].records) \in Nat /\ Len(meant[dst_in]) \in Nat
        BY <3>2
      <4> QED
        BY <3>2, <4>1 DEF AsMeant
    <3>4. p.type = t /\ t \in Types
      BY <3>3 DEF parsed, rec, Written, Types, DataTypes, ListTypes
    <3>5. InfoFields \subseteq DOMAIN bank'
      BY <3>1, <3>4, UpdateFields DEF InfoInv
    <3>6. PICK ms, at : ms = meant[dst_in] /\ at = dst_pos
      OBVIOUS
    <3>7. ASSUME disk[dst_in].closed PROVE InfoRead(ms, at + 1)'
      <4>1. Whole(r, m) /\ r.body \in Counts /\ m \in Records
        BY <3>2, <3>3, <3>7 DEF Written
      <4>2. Holds(in_buf', r.body)
        BY <2>1, <3>2, <3>3, <4>1, BufferRead
      <4>3. in_bufl' = r.length
        BY <2>1, <4>1 DEF Whole, Counts
      <4>4. ASSUME t \in {"run_info", "gem_info", "epics_map"} PROVE p = m
        <5>1. readable(m.type, in_buf', r.length) /\ m.type \in {"run_info", "gem_info", "epics_map"}
          BY <3>1, <3>3, <4>3, <4>4
        <5> HIDE DEF r, m
        <5>2. parsed(m.type, in_buf') = m
          BY <3>3, <4>1, <4>2, <5>1, InfoBack
        <5> USE DEF r, m
        <5> QED
          BY <3>3, <5>2
      <4>5. InfoRead(ms, at) /\ OneRecord(ms) /\ InfoFields \subseteq DOMAIN bank
        BY <2>1, <3>2, <3>6, <3>7 DEF InfoInv
      <4> HIDE DEF p
      <4>6. /\ ms \in Seq(Records) /\ at \in 1..Len(ms) /\ bank' = update(bank, p)
            /\ p.type = ms[at].type /\ before' = before /\ mode' = mode
            /\ p.type \in {"run_info", "gem_info", "epics_map"} => p = ms[at]
        BY <2>1, <3>1, <3>2, <3>3, <3>4, <3>6, <4>4
      <4> QED
        BY <4>5, <4>6, NextInfoRead
    <3>8. meant'[dst_in'] = ms /\ dst_pos' = at + 1 /\ disk' = disk /\ dst_in' = dst_in /\ meant' = meant
      BY <2>1, <3>1, <3>6
    <3>9. pc' = "reading" /\ disk'[dst_in'].closed => InfoRead(meant[dst_in], dst_pos)'
      BY <3>7, <3>8 DEF InfoRead
    <3> QED
      BY <3>5, <3>8, <3>9 DEF InfoInv
  <2> QED
    BY <2>2, <2>3
<1>11. CASE CloseInput
  BY <1>1, <1>11 DEF CloseInput
<1>12. CASE DSTNext
  BY <1>3, <1>4, <1>5, <1>6, <1>7, <1>8, <1>9, <1>10, <1>11, <1>12 DEF DSTNext, Write, Load
<1> QED
  BY <1>2, <1>12

LEMMA InfoInvariant == DSTSpec => []InfoInv
  BY DSTInvariant, InfoStart, InfoStep, PTL DEF DSTSpec

(* A file that was closed gives back its events and EPICS events, all of    *)
(* them and in order, and the information of the systems that its bits ask  *)
(* for (WriteToDST, Replay, ReadFromDST).                                   *)
THEOREM ClosedFilesReadBack == DSTSpec => []ClosedFileReadsBack
<1>1. DSTInv => EventsAsSaved
  <2> SUFFICES ASSUME DSTInv, pc = "reading", disk[dst_in].closed
               PROVE  /\ IsPrefix(got, data(meant[dst_in]))
                      /\ wasRead => got = data(meant[dst_in])
    BY DEF EventsAsSaved
  <2> DEFINE ms == meant[dst_in]
             rs == disk[dst_in].records
  <2>1. /\ ms \in Seq(Records) /\ Len(rs) = Len(ms) /\ Len(ms) \in Nat
        /\ dst_pos \in 1..Len(rs) + 1 /\ got = dataOf(ms)[dst_pos - 1]
    BY DEF DSTInv, Reading, ReadSoFar, FilesAsMeant, AsMeant
  <2> HIDE DEF ms, rs
  <2>2. dst_pos - 1 \in 0..Len(ms)
    BY <2>1
  <2>3. IsPrefix(got, data(ms))
    BY <2>1, <2>2, DataGrows
  <2>4. dst_pos > Len(rs) => dst_pos - 1 = Len(ms)
    BY <2>1
  <2> QED
    BY <2>1, <2>3, <2>4 DEF wasRead, dst_records, data, ms, rs
<1>2. DSTInv /\ InfoInv => InfoAsSaved
  <2> SUFFICES ASSUME DSTInv, InfoInv, wasRead, disk[dst_in].closed
               PROVE  \A i \in DOMAIN meant[dst_in] : TakenOver(meant[dst_in][i])
    BY DEF InfoAsSaved
  <2> DEFINE ms == meant[dst_in]
             rs == disk[dst_in].records
  <2>1. /\ ms \in Seq(Records) /\ Len(rs) = Len(ms) /\ Len(ms) \in Nat
        /\ dst_pos \in 1..Len(rs) + 1 /\ dst_pos > Len(rs)
    BY DEF DSTInv, Reading, ReadSoFar, FilesAsMeant, AsMeant, wasRead, dst_records
  <2>2. InfoRead(ms, dst_pos)
    BY DEF InfoInv, wasRead
  <2> HIDE DEF ms, rs
  <2>3. DOMAIN ms = 1..dst_pos - 1
    BY <2>1
  <2> QED
    BY <2>2, <2>3 DEF InfoRead, ms
<1> QED
  BY <1>1, <1>2, DSTInvariant, InfoInvariant, PTL DEF ClosedFileReadsBack
=============================================================================
