--------------------------- MODULE HVSystemProofs ---------------------------
(***************************************************************************)
(* But for painting, the crates are accessed by one thread at a time       *)
(* although half of the accesses take no lock, for any crates, boards,     *)
(* settings files and failures of the library.                             *)
(***************************************************************************)
EXTENDS HVSystem, HVChannels, WellFoundedInduction, TLAPS

(* How the menu and the join stand in for the lock.  Connecting is offered *)
(* only when nothing runs; while it runs nothing is offered; the monitor   *)
(* runs only when connecting is not offered; past the join it is gone.     *)
Control ==
  /\ worker \in {"none", "lock", "connect", "emit"}
  /\ signals \in {0, 1}
  /\ worker # "none" \/ signals # 0 =>
       enabled = {} /\ gui \in {"idle", "show"} /\ query = "none"
  /\ worker = "none" \/ signals = 0
  /\ "enable" \in enabled =>
       enabled = {"enable"} /\ gui \in {"idle", "show"} /\ query = "none"
  /\ gui \notin {"idle", "show", "join"} => query = "none"
  /\ query # "terminate"

ControlInv == /\ Control
              /\ gui \notin {"idle", "show"} => worker = "none" /\ signals = 0

LEMMA InitControl == Init => ControlInv
BY DEF Init, ControlInv, Control

(* Only connectHVSystem, with every other thread at rest, starts a worker. *)
LEMMA MenuControl == ControlInv /\ Menu => ControlInv'
<1> SUFFICES ASSUME ControlInv, Menu PROVE ControlInv'
  OBVIOUS
<1>1. CASE connectHVSystem
  BY <1>1 DEF connectHVSystem, ControlInv, Control
<1>2. ASSUME NEW action \in {"disable", "save", "restore"}, Trigger(action)
      PROVE  ControlInv'
  BY <1>2 DEF Trigger, ControlInv, Control
<1> QED
  BY <1>1, <1>2 DEF Menu, disconnectHVSystem, saveHVSetting, restoreHVSetting

LEMMA SignalControl == ControlInv /\ startHVMonitor => ControlInv'
BY DEF startHVMonitor, StartMonitor, ControlInv, Control

LEMMA PaintControl == ControlInv /\ (Refresh \/ GetVoltage) => ControlInv'
BY DEF Refresh, GetVoltage, painting, ControlInv, Control

(* The operations start the monitor again only after they have joined it.  *)
LEMMA OperationControl == ControlInv /\ Operation => ControlInv'
<1> SUFFICES ASSUME ControlInv, Operation PROVE ControlInv'
  OBVIOUS
<1> USE DEF ControlInv, Control
<1>8. CASE GetVoltage
  BY <1>8, PaintControl
<1> SUFFICES ASSUME ~GetVoltage PROVE ControlInv'
  BY <1>8
<1>0. /\ gui \notin {"idle", "show"} /\ worker = "none" /\ signals = 0
      /\ "enable" \notin enabled
  BY DEF Operation, Join, DeInitialize, SaveLock, SaveRead, SaveWrite, RestoreLine, Restored
<1>1. CASE Join
  BY <1>0, <1>1 DEF Join
<1>2. CASE DeInitialize
  BY <1>0, <1>2 DEF DeInitialize
<1>3. CASE SaveLock
  BY <1>0, <1>3 DEF SaveLock
<1>4. CASE SaveRead
  BY <1>0, <1>4 DEF SaveRead
<1>5. CASE SaveWrite
  BY <1>0, <1>5 DEF SaveWrite, StartMonitor
<1>6. CASE RestoreLine
  BY <1>0, <1>6 DEF RestoreLine, guiVars
<1>7. CASE Restored
  BY <1>0, <1>7 DEF Restored, StartMonitor
<1> QED
  BY <1>1, <1>2, <1>3, <1>4, <1>5, <1>6, <1>7 DEF Operation

LEMMA WorkerControl == ControlInv /\ Worker => ControlInv'
BY DEF Worker, WorkerLock, Initialize, HVSystemInitialized, guiVars, ControlInv, Control

LEMMA QueryControl == ControlInv /\ Query => ControlInv'
<1> SUFFICES ASSUME ControlInv, Query PROVE ControlInv'
  OBVIOUS
<1>1. UNCHANGED <<gui, op, enabled, worker, signals>>
  BY DEF Query, QueryLoop, QueryLock, QueryRead, QueryRefresh, QueryCheck, QuerySleep,
         other, guiVars
<1>2. query # "none" /\ query' # "terminate"
  BY DEF Query, QueryLoop, QueryLock, QueryRead, QueryRefresh, QueryCheck, QuerySleep
<1> QED
  BY <1>1, <1>2 DEF ControlInv, Control

LEMMA ControlInvariant == Spec => []ControlInv
<1>1. ControlInv /\ UNCHANGED vars => ControlInv'
  BY DEF ControlInv, Control, vars, guiVars
<1>2. ControlInv /\ [Next]_vars => ControlInv'
  BY <1>1, MenuControl, SignalControl, PaintControl, OperationControl, WorkerControl,
     QueryControl DEF Next
<1> QED
  BY <1>2, InitControl, PTL DEF Spec

(* What painting reads aside, no two threads are in the board lists at     *)
(* once (Connect, queryLoop, Disconnect, SaveCurrentSetting,               *)
(* RestoreSetting, GetVoltage).                                            *)
THEOREM OnlyPaintingOverlaps == Spec => []CrateAccess
<1>1. ControlInv => CrateAccess
  BY DEF ControlInv, Control, CrateAccess, WorkerInside, GuiInside, QueryInside
<1> QED
  BY <1>1, ControlInvariant, PTL

(* StartMonitor never assigns a thread over a joinable one.                *)
THEOREM MonitorStartsOnce == Spec => []NeverTerminates
<1>1. ControlInv => NeverTerminates
  BY DEF ControlInv, Control, NeverTerminates
<1> QED
  BY <1>1, ControlInvariant, PTL

-----------------------------------------------------------------------------
(* Restore.  A mapped crate has the boards of its slots, in their order,    *)
(* and its slot map leads to them.                                          *)
Board == [slot : Slots, vset : Volts]

Crated == /\ mapped \in [Crates -> BOOLEAN]
          /\ boardList \in [Crates -> Seq(Board)]
          /\ slot_map \in [Crates -> [Slots -> Nat]]
          /\ hw \in [Crates -> [Slots -> Volts]]

Boards(c) == [i \in 1..Len(boardList[c]) |-> boardList[c][i].slot]

Mapped(c) ==
  mapped[c] => /\ Boards(c) = SlotsOf[c]
               /\ \A s \in SlotsIn(c) : slot_map[c][s] = Position(c, s)

(* The file being restored, and how far.                                    *)
Filed == /\ file = <<>> \/ file \in Files
         /\ line \in Nat \ {0}
         /\ line # 1 => gui = "restore"

(* The lines before line have been applied: the last of each channel holds. *)
Applied ==
  \A c \in Crates : \A s \in SlotsIn(c) : \A i \in Named(c, s) :
    /\ mapped[c] /\ <<c, s>> \notin refused
    /\ i < line /\ \A j \in Named(c, s) : j < line => j <= i
    => hw[c][s] = file[i].vset

RestoreInv == Crated /\ (\A c \in Crates : Mapped(c)) /\ Filed /\ Applied

(* Where nothing is being restored nothing has been applied.                *)
LEMMA NothingApplied == ASSUME line = 1 PROVE Applied
BY DEF Applied, Named

LEMMA SlotsInSlots == ASSUME NEW c \in Crates PROVE SlotsIn(c) \subseteq Slots
<1>1. SlotsOf[c] \in Seq(Slots)
  BY HVAssumption
<1>2. \A i \in 1..Len(SlotsOf[c]) : SlotsOf[c][i] \in Slots
  BY <1>1
<1> QED
  BY <1>2 DEF SlotsIn

LEMMA PositionFinds ==
  ASSUME NEW c \in Crates, NEW s \in SlotsIn(c)
  PROVE  /\ Position(c, s) \in Nat
         /\ Position(c, s) + 1 \in 1..Len(SlotsOf[c])
         /\ SlotsOf[c][Position(c, s) + 1] = s
<1> DEFINE k == CHOOSE i \in 1..Len(SlotsOf[c]) : SlotsOf[c][i] = s
<1>1. k \in 1..Len(SlotsOf[c]) /\ SlotsOf[c][k] = s
  BY DEF SlotsIn
<1>2. Position(c, s) = k - 1
  BY DEF Position
<1>3. Len(SlotsOf[c]) \in Nat
  BY HVAssumption
<1> HIDE DEF k
<1>4. k - 1 \in Nat /\ (k - 1) + 1 = k
  BY <1>1, <1>3
<1> QED
  BY <1>1, <1>2, <1>4

LEMMA PositionNat == ASSUME NEW c \in Crates, NEW s \in Slots PROVE Position(c, s) \in Nat
<1>1. CASE s \in SlotsIn(c)
  BY <1>1, PositionFinds
<1>2. CASE s \notin SlotsIn(c)
  BY <1>2 DEF Position
<1> QED
  BY <1>1, <1>2

(* Reading voltages leaves the boards where they are.                       *)
LEMMA ReadingsKeep ==
  ASSUME Crated, NEW c \in Crates, NEW slots \in Seq(Slots), NEW r \in Readings(c, slots)
  PROVE  /\ r \in Seq(Board)
         /\ [i \in 1..Len(r) |-> r[i].slot] = slots
<1>1. PICK v \in [1..Len(slots) -> Volts] :
         r = [i \in 1..Len(slots) |-> [slot |-> slots[i], vset |-> v[i]]]
  <2>1. CASE r = [i \in 1..Len(slots) |-> [slot |-> slots[i], vset |-> hw[c][slots[i]]]]
    <3>1. [i \in 1..Len(slots) |-> hw[c][slots[i]]] \in [1..Len(slots) -> Volts]
      BY DEF Crated
    <3> QED
      BY <2>1, <3>1
  <2>2. ASSUME NEW u \in Unset, r = [i \in 1..Len(slots) |-> [slot |-> slots[i], vset |-> u]]
        PROVE  \E v \in [1..Len(slots) -> Volts] :
                 r = [i \in 1..Len(slots) |-> [slot |-> slots[i], vset |-> v[i]]]
    <3>1. [i \in 1..Len(slots) |-> u] \in [1..Len(slots) -> Volts]
      BY HVAssumption
    <3> QED
      BY <2>2, <3>1
  <2> QED
    BY <2>1, <2>2 DEF Readings
<1>2. \A i \in 1..Len(slots) : r[i] \in Board /\ r[i].slot = slots[i]
  BY <1>1 DEF Board
<1>3. Len(slots) \in Nat /\ DOMAIN r = 1..Len(slots)
  BY <1>1
<1>4. r \in Seq(Board) /\ Len(r) = Len(slots)
  BY <1>1, <1>2, <1>3
<1>5. slots = [i \in 1..Len(slots) |-> slots[i]]
  OBVIOUS
<1> QED
  BY <1>2, <1>4, <1>5

LEMMA UpdatesKeep ==
  ASSUME Crated, NEW c \in Crates, NEW r \in Updates(c)
  PROVE  r \in Seq(Board) /\ [i \in 1..Len(r) |-> r[i].slot] = Boards(c)
<1>1. Boards(c) \in Seq(Slots)
  <2>1. boardList[c] \in Seq(Board)
    BY DEF Crated
  <2>3. Len(boardList[c]) \in Nat /\ \A i \in 1..Len(boardList[c]) : boardList[c][i] \in Board
    BY <2>1
  <2>2. \A i \in 1..Len(boardList[c]) : boardList[c][i].slot \in Slots
    BY <2>3 DEF Board
  <2> QED
    BY <2>2, <2>3 DEF Boards
<1>2. CASE r = boardList[c]
  BY <1>2 DEF Crated, Boards
<1>3. CASE r \in Readings(c, Boards(c))
  BY <1>1, <1>3, ReadingsKeep
<1> QED
  BY <1>2, <1>3 DEF Updates, Boards

(* Mapping a crate gives it the boards of its slots.                        *)
LEMMA MapKeeps ==
  ASSUME RestoreInv, line = 1, NEW c \in Crates, ReadCrateMap(c), UNCHANGED <<hw, restore>>
  PROVE  RestoreInv'
<1>1. PICK r \in Readings(c, SlotsOf[c]) : boardList' = [boardList EXCEPT ![c] = r]
  BY DEF ReadCrateMap
<1>2. SlotsOf[c] \in Seq(Slots)
  BY HVAssumption
<1>3. r \in Seq(Board) /\ [i \in 1..Len(r) |-> r[i].slot] = SlotsOf[c]
  BY <1>2, ReadingsKeep DEF RestoreInv
<1>4. Crated'
  BY <1>1, <1>3, PositionNat DEF RestoreInv, Crated, ReadCrateMap, restore
<1>5. ASSUME NEW d \in Crates PROVE Mapped(d)'
  <2>1. CASE d = c
    <3>1. boardList'[c] = r /\ Boards(c)' = SlotsOf[c]
      BY <1>1, <1>3 DEF RestoreInv, Crated, Boards
    <3>2. slot_map'[c] = [s \in Slots |-> Position(c, s)]
      BY DEF RestoreInv, Crated, ReadCrateMap
    <3>3. \A s \in SlotsIn(c) : slot_map'[c][s] = Position(c, s)
      BY <3>2, SlotsInSlots
    <3> QED
      BY <2>1, <3>1, <3>3 DEF Mapped
  <2>2. CASE d # c
    BY <1>1, <2>2 DEF RestoreInv, Crated, ReadCrateMap, Mapped, Boards, Position, SlotsIn
  <2> QED
    BY <2>1, <2>2
<1>6. Filed'
  BY DEF RestoreInv, Filed, restore
<1>7. Applied'
  BY NothingApplied DEF restore, Applied, Named
<1> QED
  BY <1>4, <1>5, <1>6, <1>7 DEF RestoreInv

(* Reading some crates' voltages changes no board's place and no setting.   *)
LEMMA ReadKeeps ==
  ASSUME RestoreInv, boardList' \in [Crates -> Seq(Board)],
         \A c \in Crates : Boards(c)' = Boards(c),
         UNCHANGED <<mapped, slot_map, hw, restore>>, line = 1 \/ gui' = gui
  PROVE  RestoreInv'
<1>1. Crated'
  BY DEF RestoreInv, Crated
<1>2. \A c \in Crates : Mapped(c)'
  BY DEF RestoreInv, Mapped
<1>3. Filed'
  BY DEF RestoreInv, Filed, restore
<1>4. Applied'
  BY DEF RestoreInv, Applied, Named, restore
<1> QED
  BY <1>1, <1>2, <1>3, <1>4 DEF RestoreInv

(* Steps that neither restore nor touch the crates.                         *)
LEMMA OtherKeeps ==
  ASSUME RestoreInv, UNCHANGED <<crates, hw, restore>>, line = 1 \/ gui' = gui
  PROVE  RestoreInv'
<1>1. boardList' \in [Crates -> Seq(Board)] /\ \A c \in Crates : Boards(c)' = Boards(c)
  BY DEF RestoreInv, Crated, crates, Boards
<1> QED
  BY <1>1, ReadKeeps DEF crates

LEMMA InitRestore == Init => RestoreInv
<1> SUFFICES ASSUME Init PROVE RestoreInv
  OBVIOUS
<1>1. Crated
  BY DEF Init, Crated, NoMap
<1>2. \A c \in Crates : Mapped(c)
  BY DEF Init, Mapped
<1>3. Filed
  BY DEF Init, Filed
<1>4. Applied
  BY NothingApplied DEF Init
<1> QED
  BY <1>1, <1>2, <1>3, <1>4 DEF RestoreInv

LEMMA WorkerRestore == ControlInv /\ RestoreInv /\ Worker => RestoreInv'
<1> SUFFICES ASSUME ControlInv, RestoreInv, Worker PROVE RestoreInv'
  OBVIOUS
<1>1. line = 1 /\ gui' = gui
  BY DEF ControlInv, RestoreInv, Filed, Worker, WorkerLock, Initialize, HVSystemInitialized,
         guiVars
<1>2. CASE Initialize
  <2>1. CASE UNCHANGED crates
    BY <1>1, <1>2, <2>1, OtherKeeps DEF Initialize
  <2>2. CASE ReadCrateMap(crateList[next])
    <3>1. CASE crateList[next] \in Crates
      BY <1>1, <1>2, <2>2, <3>1, MapKeeps DEF Initialize
    <3>2. CASE crateList[next] \notin Crates
      BY <1>1, <1>2, <2>2, <3>2, OtherKeeps DEF Initialize, ReadCrateMap, RestoreInv, Crated, crates
    <3> QED
      BY <3>1, <3>2
  <2> QED
    BY <1>2, <2>1, <2>2 DEF Initialize
<1>3. CASE WorkerLock \/ HVSystemInitialized
  BY <1>1, <1>3, OtherKeeps DEF WorkerLock, HVSystemInitialized
<1> QED
  BY <1>2, <1>3 DEF Worker

LEMMA QueryRestore == RestoreInv /\ Query => RestoreInv'
<1> SUFFICES ASSUME RestoreInv, Query PROVE RestoreInv'
  OBVIOUS
<1>1. CASE QueryRead
  <2>1. \A c \in Crates : boardList'[c] \in Updates(c)
    BY <1>1 DEF QueryRead
  <2>2. \A c \in Crates : boardList'[c] \in Seq(Board) /\ Boards(c)' = Boards(c)
    BY <2>1, UpdatesKeep DEF RestoreInv, Boards
  <2>3. boardList' \in [Crates -> Seq(Board)]
    BY <1>1, <2>2 DEF QueryRead
  <2> QED
    BY <1>1, <2>2, <2>3, ReadKeeps DEF QueryRead, other, guiVars
<1>2. CASE QueryLoop \/ QueryLock \/ QueryRefresh \/ QueryCheck \/ QuerySleep
  BY <1>2, OtherKeeps DEF QueryLoop, QueryLock, QueryRefresh, QueryCheck, QuerySleep,
                          other, guiVars, crates
<1> QED
  BY <1>1, <1>2 DEF Query

LEMMA MenuRestore == RestoreInv /\ (Menu \/ startHVMonitor) => RestoreInv'
<1> SUFFICES ASSUME RestoreInv, Menu \/ startHVMonitor PROVE RestoreInv'
  OBVIOUS
<1>0. line = 1
  BY DEF RestoreInv, Filed, Menu, connectHVSystem, disconnectHVSystem, saveHVSetting,
         restoreHVSetting, Trigger, startHVMonitor
<1>1. CASE restoreHVSetting
  <2>1. UNCHANGED <<mapped, boardList, slot_map, hw>> /\ file' \in Files /\ line' = 1
    BY <1>1 DEF restoreHVSetting, Trigger, crates
  <2>2. Crated' /\ \A c \in Crates : Mapped(c)'
    BY <2>1 DEF RestoreInv, Crated, Mapped, Boards
  <2>3. Filed'
    BY <2>1 DEF Filed
  <2>4. Applied'
    BY <2>1 DEF Applied, Named
  <2> QED
    BY <2>2, <2>3, <2>4 DEF RestoreInv
<1>2. CASE connectHVSystem \/ disconnectHVSystem \/ saveHVSetting \/ startHVMonitor
  BY <1>0, <1>2, OtherKeeps DEF connectHVSystem, disconnectHVSystem, saveHVSetting, Trigger,
                                startHVMonitor
<1> QED
  BY <1>1, <1>2 DEF Menu

LEMMA PaintRestore == RestoreInv /\ (Refresh \/ GetVoltage) => RestoreInv'
<1> SUFFICES ASSUME RestoreInv, Refresh \/ GetVoltage PROVE RestoreInv'
  OBVIOUS
<1>1. line = 1 /\ UNCHANGED <<crates, hw, restore>>
  BY DEF RestoreInv, Filed, Refresh, GetVoltage, painting
<1> QED
  BY <1>1, OtherKeeps

(* Operations that do not restore begin and end with nothing applied.       *)
LEMMA DisconnectRestore == RestoreInv /\ DeInitialize => RestoreInv'
<1> SUFFICES ASSUME RestoreInv, DeInitialize PROVE RestoreInv'
  OBVIOUS
<1>0. line = 1 /\ UNCHANGED <<hw, restore>>
  BY DEF RestoreInv, Filed, DeInitialize
<1>1. CASE UNCHANGED crates
  BY <1>0, <1>1, OtherKeeps
<1>2. ASSUME NEW c, mapped' = [mapped EXCEPT ![c] = FALSE],
             boardList' = [boardList EXCEPT ![c] = <<>>],
             slot_map' = [slot_map EXCEPT ![c] = NoMap]
      PROVE  RestoreInv'
  <2>1. Crated'
    <3>1. <<>> \in Seq(Board) /\ NoMap \in [Slots -> Nat]
      BY DEF NoMap
    <3> QED
      BY <1>0, <1>2, <3>1 DEF RestoreInv, Crated
  <2>2. ASSUME NEW d \in Crates PROVE Mapped(d)'
    <3>1. CASE d = c
      BY <1>2, <3>1 DEF RestoreInv, Crated, Mapped
    <3>2. CASE d # c
      BY <1>2, <3>2 DEF RestoreInv, Crated, Mapped, Boards
    <3> QED
      BY <3>1, <3>2
  <2>3. Filed'
    BY <1>0 DEF RestoreInv, Filed, restore
  <2>4. Applied'
    BY <1>0 DEF restore, Applied, Named
  <2> QED
    BY <2>1, <2>2, <2>3, <2>4 DEF RestoreInv
<1> QED
  BY <1>1, <1>2 DEF DeInitialize

LEMMA SaveRestore == RestoreInv /\ (Join \/ SaveLock \/ SaveRead \/ SaveWrite) => RestoreInv'
<1> SUFFICES ASSUME RestoreInv, Join \/ SaveLock \/ SaveRead \/ SaveWrite PROVE RestoreInv'
  OBVIOUS
<1>0. line = 1 /\ UNCHANGED <<mapped, slot_map, hw, restore>>
  BY DEF RestoreInv, Filed, Join, SaveLock, SaveRead, SaveWrite, crates
<1>1. CASE SaveRead
  <2>1. PICK r \in Updates(crateList[next]) :
          boardList' = [boardList EXCEPT ![crateList[next]] = r]
    BY <1>1 DEF SaveRead
  <2>2. ASSUME NEW c \in Crates
        PROVE  boardList'[c] \in Seq(Board) /\ Boards(c)' = Boards(c)
    <3>1. CASE c = crateList[next]
      BY <2>1, <3>1, UpdatesKeep DEF RestoreInv, Crated, Boards
    <3>2. CASE c # crateList[next]
      BY <2>1, <3>2 DEF RestoreInv, Crated, Boards
    <3> QED
      BY <3>1, <3>2
  <2>3. boardList' \in [Crates -> Seq(Board)]
    BY <2>1, <2>2 DEF RestoreInv, Crated
  <2> QED
    BY <1>0, <2>2, <2>3, ReadKeeps
<1>2. CASE Join \/ SaveLock \/ SaveWrite
  BY <1>0, <1>2, OtherKeeps DEF Join, SaveLock, SaveWrite
<1> QED
  BY <1>1, <1>2

(* The board a line of the file leads to is the one it names.               *)
LEMMA BoardFound ==
  ASSUME RestoreInv, NEW c \in Crates, NEW s \in SlotsIn(c), mapped[c]
  PROVE  /\ GetBoard(c, s) \in 1..Len(boardList[c])
         /\ GetBoard(c, s) # 0
         /\ boardList[c][GetBoard(c, s)].slot = s
<1>1. Boards(c) = SlotsOf[c] /\ slot_map[c][s] = Position(c, s)
  BY DEF RestoreInv, Mapped
<1>2. Len(boardList[c]) \in Nat /\ SlotsOf[c] \in Seq(Slots)
  BY HVAssumption DEF RestoreInv, Crated
<1>3. Len(SlotsOf[c]) = Len(boardList[c])
        /\ \A i \in 1..Len(boardList[c]) : SlotsOf[c][i] = boardList[c][i].slot
  BY <1>1, <1>2 DEF Boards
<1>4. GetBoard(c, s) = Position(c, s) + 1
  BY <1>1, <1>2, <1>3, PositionFinds DEF GetBoard
<1> QED
  BY <1>2, <1>3, <1>4, PositionFinds

LEMMA SetOne ==
  ASSUME NEW q \in Seq(Board), NEW k \in 1..Len(q), NEW v \in Volts
  PROVE  /\ [q EXCEPT ![k].vset = v] \in Seq(Board)
         /\ [i \in 1..Len([q EXCEPT ![k].vset = v]) |-> [q EXCEPT ![k].vset = v][i].slot]
              = [i \in 1..Len(q) |-> q[i].slot]
<1> DEFINE e == [q[k] EXCEPT !.vset = v]
           r == [q EXCEPT ![k] = e]
<1>1. q[k] \in Board
  OBVIOUS
<1>2. e \in Board /\ e.slot = q[k].slot
  BY <1>1 DEF Board
<1> HIDE DEF e
<1>3. r \in Seq(Board) /\ Len(r) = Len(q)
  BY <1>2
<1>4. \A i \in 1..Len(q) : r[i].slot = q[i].slot
  BY <1>2
<1>5. [i \in 1..Len(r) |-> r[i].slot] = [i \in 1..Len(q) |-> q[i].slot]
  BY <1>3, <1>4
<1> QED
  BY <1>3, <1>5 DEF e

LEMMA LineRestore == FilesFit /\ RestoreInv /\ RestoreLine => RestoreInv'
<1> SUFFICES ASSUME FilesFit, RestoreInv, RestoreLine PROVE RestoreInv'
  OBVIOUS
<1> DEFINE l == file[line]
           b == GetBoard(l.crate, l.slot)
<1>1. /\ file \in Files /\ file \in Seq(Lines) /\ line \in 1..Len(file)
      /\ line' = line + 1 /\ UNCHANGED <<mapped, slot_map, file, gui>>
      /\ gui = "restore"
  BY HVAssumption DEF RestoreLine, RestoreInv, Filed, guiVars
<1>2. l \in Lines /\ l.slot \in SlotsIn(l.crate)
  BY <1>1 DEF FilesFit
<1>3. l.crate \in Crates /\ l.slot \in Slots /\ l.vset \in Volts
  BY <1>2 DEF Lines
<1>4. Filed'
  BY <1>1 DEF RestoreInv, Filed
<1>5. CASE b = 0
  <2>1. UNCHANGED <<hw, boardList, refused>> /\ ~mapped[l.crate]
    BY <1>2, <1>3, <1>5, BoardFound DEF RestoreLine
  <2>2. Crated' /\ \A c \in Crates : Mapped(c)'
    BY <1>1, <2>1 DEF RestoreInv, Crated, Mapped, Boards
  <2>3. Applied'
    <3> SUFFICES ASSUME NEW c \in Crates, NEW s \in SlotsIn(c), NEW i \in Named(c, s),
                        mapped[c], <<c, s>> \notin refused, i < line + 1,
                        \A j \in Named(c, s) : j < line + 1 => j <= i
                 PROVE  hw[c][s] = file[i].vset
      BY <1>1, <2>1 DEF Applied, Named
    <3>1. i # line /\ i \in Nat
      BY <1>1, <2>1 DEF Named
    <3>2. i < line /\ \A j \in Named(c, s) : j < line => j <= i
      BY <1>1, <3>1 DEF Named
    <3> QED
      BY <3>2 DEF RestoreInv, Applied
  <2> QED
    BY <1>4, <2>2, <2>3 DEF RestoreInv
<1>6. CASE b # 0
  <2>1. SetVoltage(l.crate, b, l.vset)
    BY <1>6 DEF RestoreLine
  <2>2. ASSUME UNCHANGED <<hw, boardList>>,
               refused' = refused \cup {<<l.crate, boardList[l.crate][b].slot>>}
        PROVE  RestoreInv'
    <3>1. Crated' /\ \A c \in Crates : Mapped(c)'
      BY <1>1, <2>2 DEF RestoreInv, Crated, Mapped, Boards
    <3>2. Applied'
      <4> SUFFICES ASSUME NEW c \in Crates, NEW s \in SlotsIn(c), NEW i \in Named(c, s),
                          mapped[c], <<c, s>> \notin refused', i < line + 1,
                          \A j \in Named(c, s) : j < line + 1 => j <= i
                   PROVE  hw[c][s] = file[i].vset
        BY <1>1, <2>2 DEF Applied, Named
      <4>1. i # line /\ i \in Nat
        BY <1>1, <1>2, <1>3, <2>2, BoardFound DEF Named
      <4>2. i < line /\ \A j \in Named(c, s) : j < line => j <= i
        BY <1>1, <4>1 DEF Named
      <4> QED
        BY <2>2, <4>2 DEF RestoreInv, Applied
    <3> QED
      BY <1>4, <3>1, <3>2 DEF RestoreInv
  <2>3. ASSUME hw' = [hw EXCEPT ![l.crate][boardList[l.crate][b].slot] = l.vset],
               boardList' = [boardList EXCEPT ![l.crate][b].vset = l.vset],
               UNCHANGED refused
        PROVE  RestoreInv'
    <3>0. boardList[l.crate] \in Seq(Board) /\ b \in 1..Len(boardList[l.crate])
      BY <1>3, <1>6 DEF RestoreInv, Crated, GetBoard
    <3>1. ASSUME NEW c \in Crates
          PROVE  boardList'[c] \in Seq(Board) /\ Boards(c)' = Boards(c)
      <4>1. CASE c = l.crate
        <5>1. boardList'[c] = [boardList[c] EXCEPT ![b].vset = l.vset]
          BY <2>3, <4>1 DEF RestoreInv, Crated
        <5> HIDE DEF b
        <5> QED
          BY <1>3, <3>0, <4>1, <5>1, SetOne DEF Boards
      <4>2. CASE c # l.crate
        BY <2>3, <4>2 DEF RestoreInv, Crated, Boards
      <4> QED
        BY <4>1, <4>2
    <3>2. boardList' \in [Crates -> Seq(Board)]
      BY <2>3, <3>1 DEF RestoreInv, Crated
    <3>3. hw' \in [Crates -> [Slots -> Volts]]
      BY <1>3, <2>3 DEF RestoreInv, Crated
    <3>4. Crated' /\ \A c \in Crates : Mapped(c)'
      BY <1>1, <3>1, <3>2, <3>3 DEF RestoreInv, Crated, Mapped
    <3>5. Applied'
      <4> SUFFICES ASSUME NEW c \in Crates, NEW s \in SlotsIn(c), NEW i \in Named(c, s),
                          mapped[c], <<c, s>> \notin refused, i < line + 1,
                          \A j \in Named(c, s) : j < line + 1 => j <= i
                   PROVE  hw'[c][s] = file[i].vset
        BY <1>1, <2>3 DEF Applied, Named
      <4>1. i \in Nat /\ s \in Slots
        BY <1>1, SlotsInSlots DEF Named
      <4>2. CASE i = line
        <5>1. l.crate = c /\ l.slot = s
          BY <4>2 DEF Named
        <5>2. boardList[l.crate][b].slot = s
          BY <5>1, BoardFound
        <5> QED
          BY <2>3, <4>1, <4>2, <5>1, <5>2 DEF RestoreInv, Crated
      <4>3. CASE i # line
        <5>1. i < line /\ \A j \in Named(c, s) : j < line => j <= i
          BY <1>1, <4>1, <4>3 DEF Named
        <5>2. hw[c][s] = file[i].vset
          BY <5>1 DEF RestoreInv, Applied
        <5>3. ~(c = l.crate /\ s = l.slot)
          BY <1>1, <4>1, <4>3, <5>1 DEF Named
        <5>4. c = l.crate => boardList[l.crate][b].slot # s
          BY <1>2, <1>3, <5>3, BoardFound
        <5> QED
          BY <2>3, <5>2, <5>4 DEF RestoreInv, Crated
      <4> QED
        BY <4>2, <4>3
    <3> QED
      BY <1>4, <3>4, <3>5 DEF RestoreInv
  <2> QED
    BY <2>1, <2>2, <2>3 DEF SetVoltage
<1> QED
  BY <1>5, <1>6

LEMMA EndRestore == RestoreInv /\ Restored => RestoreInv'
<1> SUFFICES ASSUME RestoreInv, Restored PROVE RestoreInv'
  OBVIOUS
<1>1. file' = <<>> /\ line' = 1 /\ UNCHANGED <<mapped, boardList, slot_map, hw>>
  BY DEF Restored, crates
<1>2. Crated' /\ \A c \in Crates : Mapped(c)'
  BY <1>1 DEF RestoreInv, Crated, Mapped, Boards
<1>3. Filed'
  BY <1>1 DEF Filed
<1>4. Applied'
  BY <1>1 DEF Applied, Named
<1> QED
  BY <1>2, <1>3, <1>4 DEF RestoreInv

LEMMA RestoreInvariant == FilesFit => (Spec => []RestoreInv)
<1> SUFFICES ASSUME FilesFit PROVE Spec => []RestoreInv
  OBVIOUS
<1>1. ControlInv /\ RestoreInv /\ Next => RestoreInv'
  BY MenuRestore, PaintRestore, WorkerRestore, QueryRestore, DisconnectRestore, SaveRestore, LineRestore,
     EndRestore DEF Next, Operation
<1>2. RestoreInv /\ UNCHANGED vars => RestoreInv'
  BY OtherKeeps DEF vars, guiVars
<1>3. ControlInv /\ RestoreInv /\ [Next]_vars => RestoreInv'
  BY <1>1, <1>2
<1> QED
  BY <1>3, InitRestore, ControlInvariant, PTL DEF Spec

LEMMA GreatestExists ==
  ASSUME NEW n \in Nat, NEW S \in SUBSET (1..n), S # {}
  PROVE  \E i \in S : \A j \in S : j <= i
<1> DEFINE R == OpToRel(<, Nat)
           T == {n - i : i \in S}
<1>0. \A i \in S : i \in Nat /\ n - i \in Nat
  OBVIOUS
<1>1. T \subseteq Nat /\ T # {}
  BY <1>0
<1>2. IsWellFoundedOn(R, Nat)
  BY NatLessThanWellFounded
<1>3. \A x, y \in Nat : <<x, y>> \in R <=> x < y
  BY DEF OpToRel
<1> HIDE DEF R
<1>4. PICK x \in T : \A y \in T : ~(<<y, x>> \in R)
  BY <1>1, <1>2, WFMin
<1>5. \A y \in T : ~(y < x)
  BY <1>1, <1>3, <1>4
<1>6. PICK i \in S : x = n - i
  BY <1>4
<1>7. ASSUME NEW j \in S PROVE ~(n - j < n - i)
  BY <1>5, <1>6
<1>8. \A j \in S : j <= i
  BY <1>0, <1>7
<1> QED
  BY <1>8

(* A restore leaves every channel the file names at the voltage of its last *)
(* line: mapping, unmapping and reading the crates in any order, with any   *)
(* failures, never leads a line to another board (RestoreSetting, GetBoard).*)
THEOREM RestoreReachesBoards == FilesFit => (Spec => []RestoreApplies)
<1>1. RestoreInv => RestoreApplies
  <2> SUFFICES ASSUME RestoreInv, gui = "restore", line > Len(file),
                      NEW c \in Crates, NEW s \in SlotsIn(c),
                      mapped[c], Named(c, s) # {}, <<c, s>> \notin refused
               PROVE  \E i \in Named(c, s) : /\ \A j \in Named(c, s) : j <= i
                                             /\ hw[c][s] = file[i].vset
    BY DEF RestoreApplies
  <2>0. <<>> \in Seq(Lines)
    OBVIOUS
  <2>1. file \in Seq(Lines) /\ line \in Nat
    BY <2>0, HVAssumption DEF RestoreInv, Filed
  <2>4. Len(file) \in Nat
    BY <2>1
  <2>2. PICK i \in Named(c, s) : \A j \in Named(c, s) : j <= i
    <3>1. Named(c, s) \subseteq 1..Len(file)
      BY DEF Named
    <3> QED
      BY <2>4, <3>1, GreatestExists
  <2>3. i < line /\ \A j \in Named(c, s) : j < line => j <= i
    BY <2>1, <2>2, <2>4 DEF Named
  <2> QED
    BY <2>2, <2>3 DEF RestoreInv, Applied
<1> QED
  BY <1>1, RestoreInvariant, PTL

-----------------------------------------------------------------------------
(* The channels: what the program shows of a channel is what is set in the  *)
(* crate, for any list of crates, boards, names, voltages and contents of   *)
(* arrays that were not written.                                            *)
Fields == {"name", "on", "vset"}
Setting(r) == r = [f \in Fields |-> r[f]]

(* Where the channels of the program may be: on the boards that are mapped  *)
(* they are those of all usable slots, so mapping a crate again leaves no   *)
(* channel of before.                                                       *)
Usable(id) == UNION {ChannelsAt(id, s) : s \in UsableSlots(id)}
Placed     == UNION {Usable(id) : id \in DOMAIN Installed}

ChannelInv ==
  /\ crate_hw = [a \in DOMAIN crate_hw |-> crate_hw[a]]
  /\ channel = [a \in DOMAIN channel |-> channel[a]]
  /\ DOMAIN channel \subseteq Placed
  /\ Placed \subseteq DOMAIN crate_hw
  /\ \A a \in DOMAIN crate_hw : Setting(crate_hw[a])
  /\ \A a \in DOMAIN channel : Setting(channel[a])
  /\ ShowsWhatIsSet

LEMMA ToldSetting ==
  ASSUME NEW a, NEW o \in Outcomes, NEW u
  PROVE  /\ Setting(Told(a, o, u))
         /\ o.vset => Told(a, o, u).vset = crate_hw[a].vset
<1>1. Told(a, o, u) = [f \in Fields |-> IF o[f] THEN crate_hw[a][f] ELSE u[f]]
  BY DEF Told, Fields
<1>2. Setting(Told(a, o, u))
  BY <1>1 DEF Setting
<1>3. "vset" \in Fields
  BY DEF Fields
<1>4. Told(a, o, u)["vset"] = IF o["vset"] THEN crate_hw[a]["vset"] ELSE u["vset"]
  BY <1>1, <1>3
<1> QED
  BY <1>2, <1>4

LEMMA SettingKept ==
  ASSUME NEW r, Setting(r), NEW x
  PROVE  /\ Setting([r EXCEPT !.on = x]) /\ [r EXCEPT !.on = x].vset = r.vset
         /\ Setting([r EXCEPT !.name = x]) /\ [r EXCEPT !.name = x].vset = r.vset
         /\ Setting([r EXCEPT !.vset = x]) /\ [r EXCEPT !.vset = x].vset = x
BY DEF Setting, Fields

LEMMA UsableIs ==
  ASSUME NEW id, NEW a \in Usable(id)
  PROVE  a[1] = id /\ a[2] \in UsableSlots(id) /\ a \in ChannelsIn(id)
<1>1. PICK s \in UsableSlots(id) : a \in ChannelsAt(id, s)
  BY DEF Usable
<1>2. a[1] = id /\ a[2] = s
  BY <1>1 DEF ChannelsAt
<1>3. s \in DOMAIN Installed[id]
  BY <1>1 DEF UsableSlots
<1>4. a \in ChannelsIn(id)
  BY <1>1, <1>3 DEF ChannelsIn
<1> QED
  BY <1>1, <1>2, <1>4

LEMMA PlacedInstalled == Placed \subseteq UNION {ChannelsIn(id) : id \in DOMAIN Installed}
BY UsableIs DEF Placed

LEMMA InitChannels == ChannelsInit => ChannelInv
<1> SUFFICES ASSUME ChannelsInit PROVE ChannelInv
  OBVIOUS
<1>1. PICK n \in Names : crate_hw = [a \in UNION {ChannelsIn(id) : id \in DOMAIN Installed} |->
                                 [name |-> n, on |-> FALSE, vset |-> 0]]
  BY DEF ChannelsInit
<1>2. Setting([name |-> n, on |-> FALSE, vset |-> 0])
  BY DEF Setting, Fields
<1>3. \A a \in DOMAIN crate_hw : Setting(crate_hw[a])
  BY <1>1, <1>2
<1>4. channel = <<>> /\ DOMAIN channel = {}
  BY DEF ChannelsInit
<1>5. channel = [a \in DOMAIN channel |-> channel[a]]
  BY <1>4
<1>6. /\ DOMAIN crate_hw = UNION {ChannelsIn(id) : id \in DOMAIN Installed}
      /\ crate_hw = [a \in DOMAIN crate_hw |-> crate_hw[a]]
  BY <1>1
<1> QED
  BY <1>3, <1>4, <1>5, <1>6, PlacedInstalled DEF ChannelInv, ShowsWhatIsSet

(* Steps that change the program's channels only.                           *)
LEMMA ReadChannels == ChannelInv /\ ReadVoltage => ChannelInv'
<1> SUFFICES ASSUME ChannelInv, ReadVoltage PROVE ChannelInv'
  OBVIOUS
<1>1. PICK o \in Outcomes, u \in Unwritten, chans \in SUBSET DOMAIN channel :
        BoardReadVoltage(chans, o, u)
  BY DEF ReadVoltage
<1> DEFINE same(a) == Told(a, o, u).name = channel[a].name
<1>2. /\ DOMAIN channel' = DOMAIN channel
      /\ \A a \in DOMAIN channel :
           channel'[a] = IF a \in chans /\ same(a)
                         THEN [Told(a, o, u) EXCEPT !.name = channel[a].name] ELSE channel[a]
      /\ channel' = [a \in DOMAIN channel' |-> channel'[a]]
  BY <1>1 DEF BoardReadVoltage
<1>3. crate_hw' = crate_hw
  BY DEF ReadVoltage
<1>4. ASSUME NEW a \in DOMAIN channel
      PROVE  Setting(channel'[a]) /\ (a \notin missed' => channel'[a].vset = crate_hw[a].vset)
  <2>1. CASE a \in chans /\ same(a)
    <3>1. channel'[a] = [Told(a, o, u) EXCEPT !.name = channel[a].name]
      BY <1>2, <2>1
    <3>4. Setting(Told(a, o, u))
      BY ToldSetting
    <3>2. Setting(channel'[a]) /\ channel'[a].vset = Told(a, o, u).vset
      BY <3>1, <3>4 DEF Setting, Fields
    <3>3. a \notin missed' => o.vset
      BY <1>1, <2>1 DEF BoardReadVoltage
    <3> QED
      BY <3>2, <3>3, ToldSetting
  <2>2. CASE ~(a \in chans /\ same(a))
    <3>1. channel'[a] = channel[a]
      BY <1>2, <2>2
    <3>2. a \notin missed' => a \notin missed
      BY <1>1, <2>2 DEF BoardReadVoltage
    <3> QED
      BY <3>1, <3>2 DEF ChannelInv, ShowsWhatIsSet
  <2> QED
    BY <2>1, <2>2
<1> QED
  BY <1>2, <1>3, <1>4 DEF ChannelInv, ShowsWhatIsSet

LEMMA MapChannels ==
  ASSUME ChannelInv, NEW id \in DOMAIN Installed, InitializeCrate(id) PROVE ChannelInv'
<1>1. PICK o \in [UsableSlots(id) -> Outcomes], u \in Unwritten :
        /\ channel' = [a \in Usable(id) \cup DOMAIN channel |->
                         IF a \in Usable(id) THEN Told(a, o[a[2]], u) ELSE channel[a]]
        /\ missed' = {a \in missed : a[1] # id}
                     \cup {a \in ChannelsIn(id) : a[2] \in DOMAIN o /\ ~o[a[2]].vset}
  BY DEF InitializeCrate, Usable
<1>2. crate_hw' = crate_hw
  BY DEF InitializeCrate
<1>3. /\ DOMAIN channel' = Usable(id) \cup DOMAIN channel
      /\ \A a \in DOMAIN channel' :
           channel'[a] = IF a \in Usable(id) THEN Told(a, o[a[2]], u) ELSE channel[a]
      /\ channel' = [a \in DOMAIN channel' |-> channel'[a]]
  BY <1>1
<1>4. Usable(id) \subseteq Placed
  BY DEF Placed
<1>5. ASSUME NEW a \in DOMAIN channel'
      PROVE  Setting(channel'[a]) /\ (a \notin missed' => channel'[a].vset = crate_hw[a].vset)
  <2>1. CASE a \in Usable(id)
    <3>1. a[2] \in UsableSlots(id) /\ a \in ChannelsIn(id)
      BY <2>1, UsableIs
    <3>2. o[a[2]] \in Outcomes /\ channel'[a] = Told(a, o[a[2]], u)
      BY <1>3, <2>1, <3>1
    <3>3. a \notin missed' => o[a[2]].vset
      BY <1>1, <3>1
    <3> QED
      BY <3>2, <3>3, ToldSetting
  <2>2. CASE a \notin Usable(id)
    <3>1. a \in DOMAIN channel /\ channel'[a] = channel[a]
      BY <1>3, <2>2
    <3>2. a[1] # id
      BY <2>2, <3>1, UsableIs DEF ChannelInv, Placed
    <3> QED
      BY <1>1, <3>1, <3>2 DEF ChannelInv, ShowsWhatIsSet
  <2> QED
    BY <2>1, <2>2
<1> QED
  BY <1>2, <1>3, <1>4, <1>5 DEF ChannelInv, ShowsWhatIsSet

LEMMA ClearChannels ==
  ASSUME ChannelInv, NEW id, Clear(id) PROVE ChannelInv'
<1>1. /\ channel' = [a \in {b \in DOMAIN channel : b[1] # id} |-> channel[a]]
      /\ crate_hw' = crate_hw /\ missed' = missed
  BY DEF Clear
<1> QED
  BY <1>1 DEF ChannelInv, ShowsWhatIsSet

(* One channel of the program, perhaps with that of the crate.              *)
LEMMA ChannelChannels ==
  ASSUME ChannelInv, NEW a \in DOMAIN channel, DOMAIN crate_hw' = DOMAIN crate_hw,
         DOMAIN channel' = DOMAIN channel,
         crate_hw' = [b \in DOMAIN crate_hw' |-> crate_hw'[b]],
         channel' = [b \in DOMAIN channel' |-> channel'[b]],
         \A b \in DOMAIN crate_hw : Setting(crate_hw'[b]) /\ (b = a \/ crate_hw'[b].vset = crate_hw[b].vset),
         \A b \in DOMAIN channel : b # a => channel'[b] = channel[b],
         \A b \in missed : b # a => b \in missed',
         Setting(channel'[a]),
         a \notin missed' => channel'[a].vset = crate_hw'[a].vset
  PROVE  ChannelInv'
<1>1. \A b \in DOMAIN channel : b \in DOMAIN crate_hw
  BY DEF ChannelInv
<1>2. ASSUME NEW b \in DOMAIN channel, b \notin missed'
      PROVE  channel'[b].vset = crate_hw'[b].vset
  BY <1>1, <1>2 DEF ChannelInv, ShowsWhatIsSet
<1>3. \A b \in DOMAIN channel : Setting(channel'[b])
  BY DEF ChannelInv
<1> QED
  BY <1>2, <1>3 DEF ChannelInv, ShowsWhatIsSet

LEMMA ChannelReads ==
  ASSUME ChannelInv, NEW a \in DOMAIN channel, NEW o \in Outcomes, ChannelReadVoltage(a, o)
  PROVE  ChannelInv'
<1>1. PICK u \in Unwritten :
        channel' = [channel EXCEPT ![a].on = Told(a, o, u).on,
                                   ![a].vset = IF o.vset THEN crate_hw[a].vset ELSE @]
  BY DEF ChannelReadVoltage
<1>2. crate_hw' = crate_hw /\ missed' = IF o.vset THEN missed \ {a} ELSE missed \cup {a}
  BY DEF ChannelReadVoltage
<1>3. /\ DOMAIN channel' = DOMAIN channel
      /\ channel' = [b \in DOMAIN channel' |-> channel'[b]]
      /\ \A b \in DOMAIN channel : b # a => channel'[b] = channel[b]
  BY <1>1
<1>4. Setting(channel[a])
  BY DEF ChannelInv
<1>5. /\ Setting(channel'[a])
      /\ o.vset => channel'[a].vset = crate_hw[a].vset
  BY <1>1, <1>4 DEF Setting, Fields
<1> QED
  BY <1>2, <1>3, <1>5, ChannelChannels DEF ChannelInv

LEMMA ChannelSets ==
  ASSUME ChannelInv, NEW a \in DOMAIN channel, NEW v, NEW ok \in BOOLEAN,
         ChannelSetVoltage(a, v, ok)
  PROVE  ChannelInv'
<1>1. CASE ok
  <2>1. /\ crate_hw' = [crate_hw EXCEPT ![a].vset = v] /\ channel' = [channel EXCEPT ![a].vset = v]
        /\ missed' = missed \ {a}
    BY <1>1 DEF ChannelSetVoltage
  <2>2. a \in DOMAIN crate_hw /\ Setting(channel[a]) /\ Setting(crate_hw[a])
    BY DEF ChannelInv
  <2>3. /\ DOMAIN crate_hw' = DOMAIN crate_hw /\ crate_hw' = [b \in DOMAIN crate_hw' |-> crate_hw'[b]]
        /\ \A b \in DOMAIN crate_hw : b # a => crate_hw'[b] = crate_hw[b]
        /\ DOMAIN channel' = DOMAIN channel
        /\ channel' = [b \in DOMAIN channel' |-> channel'[b]]
        /\ \A b \in DOMAIN channel : b # a => channel'[b] = channel[b]
    BY <2>1
  <2>4. Setting(crate_hw'[a]) /\ crate_hw'[a].vset = v
    BY <2>1, <2>2 DEF Setting, Fields
  <2>5. Setting(channel'[a]) /\ channel'[a].vset = v
    BY <2>1, <2>2 DEF Setting, Fields
  <2>6. \A b \in DOMAIN crate_hw : Setting(crate_hw'[b]) /\ (b = a \/ crate_hw'[b].vset = crate_hw[b].vset)
    BY <2>3, <2>4 DEF ChannelInv
  <2> QED
    BY <2>1, <2>3, <2>4, <2>5, <2>6, ChannelChannels
<1>2. CASE ~ok
  BY <1>2 DEF ChannelSetVoltage, ChannelInv, ShowsWhatIsSet
<1> QED
  BY <1>1, <1>2

LEMMA ChannelNames ==
  ASSUME ChannelInv, NEW a \in DOMAIN channel, NEW n, ChannelSetName(a, n) \/ Rename(a, n)
  PROVE  ChannelInv'
<1>1. /\ crate_hw' = [crate_hw EXCEPT ![a].name = n] /\ missed' = missed
      /\ channel' = channel \/ channel' = [channel EXCEPT ![a].name = n]
  BY DEF ChannelSetName, Rename
<1>2. a \in DOMAIN crate_hw /\ Setting(channel[a]) /\ Setting(crate_hw[a])
  BY DEF ChannelInv
<1>3. /\ DOMAIN crate_hw' = DOMAIN crate_hw /\ crate_hw' = [b \in DOMAIN crate_hw' |-> crate_hw'[b]]
      /\ \A b \in DOMAIN crate_hw : b # a => crate_hw'[b] = crate_hw[b]
  BY <1>1
<1>4. /\ DOMAIN channel' = DOMAIN channel
      /\ channel' = [b \in DOMAIN channel' |-> channel'[b]]
      /\ \A b \in DOMAIN channel : b # a => channel'[b] = channel[b]
  BY <1>1 DEF ChannelInv
<1>5. Setting(crate_hw'[a]) /\ crate_hw'[a].vset = crate_hw[a].vset
  BY <1>1, <1>2 DEF Setting, Fields
<1>6. Setting(channel'[a]) /\ channel'[a].vset = channel[a].vset
  BY <1>1, <1>2 DEF Setting, Fields
<1>7. \A b \in DOMAIN crate_hw : Setting(crate_hw'[b]) /\ (b = a \/ crate_hw'[b].vset = crate_hw[b].vset)
  BY <1>3, <1>5 DEF ChannelInv
<1>8. a \notin missed' => channel'[a].vset = crate_hw'[a].vset
  BY <1>1, <1>5, <1>6 DEF ChannelInv, ShowsWhatIsSet
<1> QED
  BY <1>1, <1>3, <1>4, <1>6, <1>7, <1>8, ChannelChannels

(* Steps that change the crates only.                                       *)
LEMMA CrateChannels ==
  ASSUME ChannelInv, UNCHANGED channel, DOMAIN crate_hw' = DOMAIN crate_hw,
         crate_hw' = [b \in DOMAIN crate_hw' |-> crate_hw'[b]],
         \A b \in DOMAIN crate_hw : Setting(crate_hw'[b]),
         \A b \in DOMAIN crate_hw : b \notin missed' => b \notin missed /\ crate_hw'[b].vset = crate_hw[b].vset
  PROVE  ChannelInv'
<1>1. \A b \in DOMAIN channel : b \in DOMAIN crate_hw
  BY DEF ChannelInv
<1> QED
  BY <1>1 DEF ChannelInv, ShowsWhatIsSet

LEMMA PowerChannels ==
  ASSUME ChannelInv, UNCHANGED <<channel, missed>>, NEW S, NEW on,
         crate_hw' = [a \in DOMAIN crate_hw |-> IF a \in S THEN [crate_hw[a] EXCEPT !.on = on[a]] ELSE crate_hw[a]]
  PROVE  ChannelInv'
<1>1. DOMAIN crate_hw' = DOMAIN crate_hw /\ crate_hw' = [b \in DOMAIN crate_hw' |-> crate_hw'[b]]
  OBVIOUS
<1>2. ASSUME NEW b \in DOMAIN crate_hw PROVE Setting(crate_hw'[b]) /\ crate_hw'[b].vset = crate_hw[b].vset
  <2>1. Setting(crate_hw[b])
    BY DEF ChannelInv
  <2>2. CASE b \in S
    BY <2>1, <2>2 DEF Setting, Fields
  <2>3. CASE b \notin S
    BY <2>1, <2>3
  <2> QED
    BY <2>2, <2>3
<1> QED
  BY <1>1, <1>2, CrateChannels

LEMMA BoardSets ==
  ASSUME ChannelInv, NEW id, NEW s, NEW list, BoardSetVoltage(id, s, list) PROVE ChannelInv'
<1>1. /\ crate_hw' = [a \in DOMAIN crate_hw |-> IF a \in ChannelsAt(id, s)
                                    THEN [crate_hw[a] EXCEPT !.vset = list[a[3] + 1]] ELSE crate_hw[a]]
      /\ missed' = missed \cup ChannelsAt(id, s) /\ channel' = channel
  BY DEF BoardSetVoltage
<1>2. DOMAIN crate_hw' = DOMAIN crate_hw /\ crate_hw' = [b \in DOMAIN crate_hw' |-> crate_hw'[b]]
  BY <1>1
<1>3. ASSUME NEW b \in DOMAIN crate_hw
      PROVE  Setting(crate_hw'[b]) /\ (b \in ChannelsAt(id, s) \/ crate_hw'[b].vset = crate_hw[b].vset)
  <2>1. Setting(crate_hw[b])
    BY DEF ChannelInv
  <2>2. CASE b \in ChannelsAt(id, s)
    BY <1>1, <2>1, <2>2 DEF Setting, Fields
  <2>3. CASE b \notin ChannelsAt(id, s)
    BY <1>1, <2>1, <2>3
  <2> QED
    BY <2>2, <2>3
<1> QED
  BY <1>1, <1>2, <1>3, CrateChannels

LEMMA NextChannels == ChannelInv /\ ChannelsNext => ChannelInv'
<1> SUFFICES ASSUME ChannelInv, ChannelsNext PROVE ChannelInv'
  OBVIOUS
<1>1. ASSUME NEW a \in DOMAIN channel, NEW on, ChannelSetPower(a, on) PROVE ChannelInv'
  <2> DEFINE S == {b \in DOMAIN crate_hw : b = a \/ (on /\ b \in Primary(a[1], a[2]))}
             o == [b \in DOMAIN crate_hw |-> on]
  <2>1. crate_hw' = [b \in DOMAIN crate_hw |-> IF b \in S THEN [crate_hw[b] EXCEPT !.on = o[b]] ELSE crate_hw[b]]
    BY <1>1 DEF ChannelSetPower
  <2> HIDE DEF S, o
  <2> QED
    BY <1>1, <2>1, PowerChannels DEF ChannelSetPower
<1>2. ASSUME NEW id, NEW s, NEW list, BoardSetPower(id, s, list) PROVE ChannelInv'
  <2> DEFINE S == ChannelsAt(id, s)
             o == [b \in DOMAIN crate_hw |-> list[b[3] + 1]]
  <2>1. crate_hw' = [b \in DOMAIN crate_hw |-> IF b \in S THEN [crate_hw[b] EXCEPT !.on = o[b]] ELSE crate_hw[b]]
    BY <1>2 DEF BoardSetPower
  <2> HIDE DEF S, o
  <2> QED
    BY <1>2, <2>1, PowerChannels DEF BoardSetPower
<1>3. ASSUME NEW on, SetPowerOfAll(on) PROVE ChannelInv'
  <2>1. PICK sent : crate_hw' = [a \in DOMAIN crate_hw |-> IF <<a[1], a[2]>> \in sent
                                               THEN [crate_hw[a] EXCEPT !.on = on] ELSE crate_hw[a]]
    BY <1>3 DEF SetPowerOfAll
  <2> DEFINE S == {b \in DOMAIN crate_hw : <<b[1], b[2]>> \in sent}
             o == [b \in DOMAIN crate_hw |-> on]
  <2>2. crate_hw' = [b \in DOMAIN crate_hw |-> IF b \in S THEN [crate_hw[b] EXCEPT !.on = o[b]] ELSE crate_hw[b]]
    BY <2>1
  <2> HIDE DEF S, o
  <2> QED
    BY <1>3, <2>2, PowerChannels DEF SetPowerOfAll
<1>4. ASSUME NEW id, NEW s, NEW k PROVE GetChannel(id, s, k) \subseteq DOMAIN channel
  BY DEF GetChannel
<1>5. ASSUME NEW id, NEW s, NEW k, NEW v, SetVoltageAt(id, s, k, v) PROVE ChannelInv'
  BY <1>4, <1>5, ChannelSets DEF SetVoltageAt
<1>6. ASSUME NEW id, NEW s, NEW k, NEW on, SetPower(id, s, k, on) PROVE ChannelInv'
  BY <1>1, <1>4, <1>6 DEF SetPower
<1> QED
  BY <1>2, <1>3, <1>5, <1>6, ReadChannels, MapChannels, ClearChannels, ChannelReads,
     ChannelNames, BoardSets DEF ChannelsNext

(* A voltage shown is one that is set: settings that are refused, readings  *)
(* that fail, names that change and crates that are mapped again never make *)
(* the program show another channel's or an old value (CAEN_Channel,        *)
(* CAEN_Board, PRadHVSystem).                                               *)
THEOREM ShownVoltagesAreSet == ChannelsSpec => []ShowsWhatIsSet
<1>1. ChannelInv /\ UNCHANGED channel_vars => ChannelInv'
  BY DEF ChannelInv, ShowsWhatIsSet, channel_vars
<1>2. ChannelInv /\ [ChannelsNext]_channel_vars => ChannelInv'
  BY <1>1, NextChannels
<1>3. ChannelInv => ShowsWhatIsSet
  BY DEF ChannelInv
<1> QED
  BY <1>2, <1>3, InitChannels, PTL DEF ChannelsSpec
=============================================================================
