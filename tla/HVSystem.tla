----------------------------- MODULE HVSystem -----------------------------
(***************************************************************************)
(* High voltage control: PRadHVSystem, the CAEN crates it drives, and the  *)
(* part of PRadEventViewer that starts and stops it.  Three threads share  *)
(* the crates: the GUI thread, the worker QtConcurrent runs Connect on,    *)
(* and queryThread, which reads the voltages every ReadPeriod seconds.     *)
(* Connect, ReadVoltage and CheckStatus hold locker; Disconnect and        *)
(* RestoreSetting do not, and rely on the menu (which action is enabled)   *)
(* and on StopMonitor joining queryThread; GetVoltage, which the viewer    *)
(* calls whenever it paints, relies on nothing.  What it reads is painted  *)
(* only, and what may come of reading a list while it grows is left out.   *)
(*                                                                         *)
(* A board is represented by one channel.  The CAEN library and the crates *)
(* are external: a call may succeed or fail, hw holds the voltages set.    *)
(***************************************************************************)
EXTENDS Naturals, Sequences

CONSTANTS
  Crates,      \* names of the crates
  crateList,   \* the same as a sequence, in the order of the crate list file
  Slots,       \* slot numbers
  SlotsOf,     \* external: the slots of a crate that hold a usable board
  Volts,       \* voltages
  Unset,       \* what a variable the library did not write may hold
  Files,       \* settings files written by hand: sequences of lines
  ReadPeriod, CheckPeriod    \* 5 and 30 seconds

Lines == [crate : Crates, slot : Slots, vset : Volts]

ASSUME HVAssumption ==
  /\ crateList \in Seq(Crates) /\ crateList # <<>>
  /\ \A c \in Crates : \E i \in 1..Len(crateList) : crateList[i] = c
  /\ \A i, j \in 1..Len(crateList) : crateList[i] = crateList[j] => i = j
  /\ Slots \subseteq Nat
  /\ SlotsOf \in [Crates -> Seq(Slots)]
  /\ \A c \in Crates : \A i, j \in 1..Len(SlotsOf[c]) : i < j => SlotsOf[c][i] < SlotsOf[c][j]
  /\ Volts \subseteq Nat /\ Unset \subseteq Volts
  /\ Files \subseteq Seq(Lines)
  /\ ReadPeriod \in Nat \ {0} /\ CheckPeriod \in Nat \ {0}
  /\ CheckPeriod % ReadPeriod = 0

VARIABLES
  gui, op,     \* the GUI thread: where it is, in which menu action
  enabled,     \* menu actions that can be triggered
  worker,      \* the thread Connect runs on
  signals,     \* HVSystemInitialized, emitted and not delivered
  query,       \* queryThread; "none" when it is not joinable
  loopCount,   \* of queryLoop, modulo CheckPeriod
  alive,
  locker,      \* its holder
  next,        \* the crate the loop over crateList has reached
  mapped, boardList, slot_map,    \* the crates
  hw,          \* external: V0Set in the crates
  file, line,  \* the settings file being restored, its next line
  refused      \* history: addresses whose SetVoltage failed in this restore

guiVars == <<gui, op, enabled>>
crates  == <<mapped, boardList, slot_map>>
restore == <<file, line, refused>>
vars == <<guiVars, worker, signals, query, loopCount, alive, locker, next,
          crates, hw, restore>>

-----------------------------------------------------------------------------
NoMap == [s \in Slots |-> 0]

SlotsIn(c) == {SlotsOf[c][i] : i \in 1..Len(SlotsOf[c])}

Init ==
  /\ gui = "idle" /\ op = "none" /\ enabled = {"enable"}
  /\ worker = "none" /\ signals = 0
  /\ query = "none" /\ loopCount = 0 /\ alive = FALSE
  /\ locker = "free" /\ next = 1
  /\ mapped = [c \in Crates |-> FALSE]
  /\ boardList = [c \in Crates |-> <<>>] /\ slot_map = [c \in Crates |-> NoMap]
  /\ \E v \in Volts : hw = [c \in Crates |-> [s \in Slots |-> v]]
  /\ file = <<>> /\ line = 1 /\ refused = {}

LastCrate == next = Len(crateList)

\* What reading the boards in these slots of crate c returns: on an error the
\* array the library was to fill is used as it is.
Readings(c, slots) ==
  {[i \in 1..Len(slots) |-> [slot |-> slots[i], vset |-> hw[c][slots[i]]]]}
  \cup {[i \in 1..Len(slots) |-> [slot |-> slots[i], vset |-> u]] : u \in Unset}

\* CAEN_Board::ReadVoltage, for every board of c: a channel whose name does
\* not come back (GetChName failed) is skipped.
Updates(c) ==
  {boardList[c]} \cup Readings(c, [i \in 1..Len(boardList[c]) |-> boardList[c][i].slot])

-----------------------------------------------------------------------------
(* Connect, on its worker.                                                 *)

\* Mutant of connectHVSystem: the action stays enabled.
ConnectStaysEnabled ==
  /\ gui = "idle" /\ "enable" \in enabled /\ worker = "none"
  /\ worker' = "lock"
  /\ UNCHANGED <<guiVars, signals, query, loopCount, alive, locker, next, crates,
                 hw, restore>>

connectHVSystem ==
  /\ gui = "idle" /\ "enable" \in enabled
  /\ enabled' = {}
  /\ worker' = "lock"
  /\ UNCHANGED <<gui, op, signals, query, loopCount, alive, locker, next, crates,
                 hw, restore>>

WorkerLock ==
  /\ worker = "lock" /\ locker = "free"
  /\ locker' = "worker" /\ worker' = "connect" /\ next' = 1
  /\ UNCHANGED <<guiVars, signals, query, loopCount, alive, crates, hw, restore>>

Position(c, s) == IF s \in SlotsIn(c)
                  THEN (CHOOSE i \in 1..Len(SlotsOf[c]) : SlotsOf[c][i] = s) - 1
                  ELSE 0

\* The boards in slot order; the known bad slots (TODO in the code) are not
\* in SlotsOf.  The array is zeroed first, so an empty slot maps to 0.
ReadCrateMap(c) ==
  /\ \E r \in Readings(c, SlotsOf[c]) : boardList' = [boardList EXCEPT ![c] = r]
  /\ slot_map' = [slot_map EXCEPT ![c] = [s \in Slots |-> Position(c, s)]]
  /\ mapped' = [mapped EXCEPT ![c] = TRUE]

\* CAEN_Crate::Initialize, of the next crate; InitSystem or GetCrateMap may
\* fail, and a crate still mapped (its DeInitialize failed) keeps its map.
Initialize ==
  /\ worker = "connect"
  /\ UNCHANGED crates \/ (~mapped[crateList[next]] /\ ReadCrateMap(crateList[next]))
  /\ IF LastCrate THEN worker' = "emit" /\ locker' = "free" /\ UNCHANGED next
                  ELSE next' = next + 1 /\ UNCHANGED <<worker, locker>>
  /\ UNCHANGED <<guiVars, signals, query, loopCount, alive, hw, restore>>

HVSystemInitialized ==
  /\ worker = "emit"
  /\ worker' = "none" /\ signals' = signals + 1
  /\ UNCHANGED <<guiVars, query, loopCount, alive, locker, next, crates, hw, restore>>

Worker == WorkerLock \/ Initialize \/ HVSystemInitialized

-----------------------------------------------------------------------------
(* The GUI thread.                                                         *)

\* alive = true; queryThread = thread(...): assigning over a joinable thread
\* ends the program.
StartMonitor ==
  /\ alive' = TRUE
  /\ query' = IF query = "none" THEN "loop" ELSE "terminate"
  /\ loopCount' = 0

startHVMonitor ==
  /\ gui = "idle" /\ signals > 0
  /\ signals' = signals - 1
  /\ StartMonitor
  /\ enabled' = {"disable", "save", "restore"}
  /\ UNCHANGED <<gui, op, worker, locker, next, crates, hw, restore>>

\* Disconnect, Save and Restore begin with StopMonitor.
Trigger(action) ==
  /\ gui = "idle" /\ action \in enabled
  /\ op' = action /\ gui' = "join"
  /\ alive' = FALSE
  /\ UNCHANGED <<enabled, worker, signals, query, loopCount, locker, next, crates,
                 hw>>

disconnectHVSystem == Trigger("disable") /\ UNCHANGED restore
saveHVSetting      == Trigger("save") /\ UNCHANGED restore
restoreHVSetting ==
  /\ Trigger("restore")
  /\ file' \in Files /\ line' = 1 /\ refused' = {}

\* Refresh and UpdateStatusInfo, of the view modes and the selected module:
\* GetVoltage for each module, on the GUI thread, without the lock.
painting == <<op, enabled, worker, signals, query, loopCount, alive, locker, next,
              crates, hw, restore>>

Refresh    == gui = "idle" /\ gui' = "show" /\ UNCHANGED painting
GetVoltage == gui = "show" /\ gui' = "idle" /\ UNCHANGED painting

After == [disable |-> "disconnect", save |-> "lock", restore |-> "restore"]

\* Mutant of Join: alive is cleared but the thread is not waited for.
DoNotJoin ==
  /\ gui = "join"
  /\ gui' = After[op] /\ next' = 1
  /\ UNCHANGED <<op, enabled, worker, signals, query, loopCount, alive, locker,
                 crates, hw, restore>>

Join ==
  /\ gui = "join" /\ query \in {"none", "exited"}
  /\ query' = "none"
  /\ gui' = After[op] /\ next' = 1
  /\ UNCHANGED <<op, enabled, worker, signals, loopCount, alive, locker, crates,
                 hw, restore>>

\* CAEN_Crate::DeInitialize, of the next crate: Clear only when it succeeds.
DeInitialize ==
  /\ gui = "disconnect"
  /\ LET c == crateList[next] IN
     \/ UNCHANGED crates
     \/ /\ mapped' = [mapped EXCEPT ![c] = FALSE]
        /\ boardList' = [boardList EXCEPT ![c] = <<>>]
        /\ slot_map' = [slot_map EXCEPT ![c] = NoMap]
  /\ IF LastCrate THEN gui' = "idle" /\ enabled' = {"enable"} /\ UNCHANGED next
                  ELSE next' = next + 1 /\ UNCHANGED <<gui, enabled>>
  /\ UNCHANGED <<op, worker, signals, query, loopCount, alive, locker, hw, restore>>

\* SaveCurrentSetting: ReadVoltage, then one line for each channel (the file
\* written is not modelled).
SaveLock ==
  /\ gui = "lock" /\ locker = "free"
  /\ locker' = "gui" /\ gui' = "read" /\ next' = 1
  /\ UNCHANGED <<op, enabled, worker, signals, query, loopCount, alive, crates, hw,
                 restore>>

SaveRead ==
  /\ gui = "read"
  /\ \E r \in Updates(crateList[next]) :
       boardList' = [boardList EXCEPT ![crateList[next]] = r]
  /\ IF LastCrate THEN gui' = "write" /\ locker' = "free" /\ next' = 1
                  ELSE next' = next + 1 /\ UNCHANGED <<gui, locker>>
  /\ UNCHANGED <<op, enabled, worker, signals, query, loopCount, alive,
                 mapped, slot_map, hw, restore>>

SaveWrite ==
  /\ gui = "write"
  /\ IF LastCrate THEN gui' = "idle" /\ StartMonitor /\ UNCHANGED next
                  ELSE next' = next + 1 /\ UNCHANGED <<gui, query, loopCount, alive>>
  /\ UNCHANGED <<op, enabled, worker, signals, locker, crates, hw, restore>>

\* Mutant of GetBoard: boardList is indexed with the slot number.
BoardAtSlot(c, s) == IF s >= Len(boardList[c]) THEN 0 ELSE s + 1

\* CAEN_Crate::GetBoard: the position in boardList, or 0 for nullptr.
GetBoard(c, s) ==
  IF slot_map[c][s] >= Len(boardList[c]) THEN 0 ELSE slot_map[c][s] + 1

\* CAEN_Channel::SetVoltage: above the limit a message, and the same value.
SetVoltage(c, i, v) ==
  LET s == boardList[c][i].slot IN
  \/ /\ hw' = [hw EXCEPT ![c][s] = v]
     /\ boardList' = [boardList EXCEPT ![c][i].vset = v]
     /\ UNCHANGED refused
  \/ /\ refused' = refused \cup {<<c, s>>}
     /\ UNCHANGED <<hw, boardList>>

\* RestoreSetting, one line of the file.
RestoreLine ==
  /\ gui = "restore" /\ line <= Len(file)
  /\ line' = line + 1
  /\ LET l == file[line]
         i == GetBoard(l.crate, l.slot) IN
     IF i = 0 THEN UNCHANGED <<hw, boardList, refused>> ELSE SetVoltage(l.crate, i, l.vset)
  /\ UNCHANGED <<guiVars, worker, signals, query, loopCount, alive, locker, next,
                 mapped, slot_map, file>>

Restored ==
  /\ gui = "restore" /\ line > Len(file)
  /\ gui' = "idle" /\ StartMonitor
  /\ file' = <<>> /\ line' = 1 /\ refused' = {}
  /\ UNCHANGED <<op, enabled, worker, signals, locker, next, crates, hw>>

Operation == \/ Join \/ DeInitialize \/ SaveLock \/ SaveRead \/ SaveWrite
             \/ RestoreLine \/ Restored \/ GetVoltage

Menu == connectHVSystem \/ disconnectHVSystem \/ saveHVSetting \/ restoreHVSetting

-----------------------------------------------------------------------------
(* queryLoop, on queryThread.                                              *)

other == <<guiVars, worker, signals, alive, next, mapped, slot_map, hw,
           restore>>

\* Mutant of QueryLoop: the loop does not look at alive.
LoopForever ==
  /\ query = "loop"
  /\ query' = IF loopCount % ReadPeriod = 0 THEN "lockRead" ELSE "sleep"
  /\ UNCHANGED <<loopCount, locker, boardList, other>>

QueryLoop ==
  /\ query = "loop"
  /\ query' = IF ~alive THEN "exited"
              ELSE IF loopCount % ReadPeriod = 0 THEN "lockRead" ELSE "sleep"
  /\ UNCHANGED <<loopCount, locker, boardList, other>>

QueryLock ==
  /\ query \in {"lockRead", "lockCheck"} /\ locker = "free"
  /\ locker' = "query"
  /\ query' = IF query = "lockRead" THEN "read" ELSE "check"
  /\ UNCHANGED <<loopCount, boardList, other>>

\* ReadVoltage of every crate, under the lock; Refresh is called without it.
QueryRead ==
  /\ query = "read"
  /\ boardList' \in {f \in [Crates -> UNION {Updates(c) : c \in Crates}] :
                       \A c \in Crates : f[c] \in Updates(c)}
  /\ locker' = "free" /\ query' = "refresh"
  /\ UNCHANGED <<loopCount, other>>

QueryRefresh ==
  /\ query = "refresh"
  /\ query' = IF loopCount % CheckPeriod = 0 THEN "lockCheck" ELSE "sleep"
  /\ UNCHANGED <<loopCount, locker, boardList, other>>

QueryCheck ==
  /\ query = "check"
  /\ locker' = "free" /\ query' = "sleep"
  /\ UNCHANGED <<loopCount, boardList, other>>

QuerySleep ==
  /\ query = "sleep"
  /\ query' = "loop" /\ loopCount' = (loopCount + 1) % CheckPeriod
  /\ UNCHANGED <<locker, boardList, other>>

Query == QueryLoop \/ QueryLock \/ QueryRead \/ QueryRefresh \/ QueryCheck \/ QuerySleep

Next == Menu \/ startHVMonitor \/ Refresh \/ Operation \/ Worker \/ Query

(* Every thread is scheduled and the event loop delivers the signal.       *)
Fairness ==
  /\ WF_vars(Worker) /\ WF_vars(Query)
  /\ WF_vars(Operation) /\ WF_vars(startHVMonitor)

Spec == Init /\ [][Next]_vars

FairSpec == Spec /\ Fairness

-----------------------------------------------------------------------------
TypeOK ==
  /\ gui \in {"idle", "show", "join", "disconnect", "lock", "read", "write", "restore"}
  /\ op \in {"none"} \cup DOMAIN After
  /\ gui \notin {"idle", "show"} => op # "none"
  /\ enabled \subseteq {"enable"} \cup DOMAIN After
  /\ worker \in {"none", "lock", "connect", "emit"}
  /\ signals \in Nat
  /\ query \in {"none", "loop", "lockRead", "read", "refresh", "lockCheck", "check",
                "sleep", "exited", "terminate"}
  /\ loopCount \in 0..(CheckPeriod-1)
  /\ alive \in BOOLEAN
  /\ locker \in {"free", "gui", "worker", "query"}
  /\ next \in 1..Len(crateList)
  /\ mapped \in [Crates -> BOOLEAN]
  /\ boardList \in [Crates -> Seq([slot : Slots, vset : Volts])]
  /\ slot_map \in [Crates -> [Slots -> Nat]]
  /\ hw \in [Crates -> [Slots -> Volts]]
  /\ file \in Seq(Lines) /\ line \in Nat \ {0}
  /\ refused \subseteq Crates \X Slots

WorkerInside == worker = "connect"
GuiInside    == gui \in {"show", "disconnect", "read", "write", "restore"}
QueryInside  == query \in {"read", "refresh", "check"}

(* Painting is all that the GUI thread ever does inside the crates' board  *)
(* lists while another thread is there; the two others exclude each other. *)
(* Disconnect, which empties the lists, and the loops that write and       *)
(* restore settings take no lock, and yet have the crates to themselves,   *)
(* also from what queryThread paints (Refresh in ReadVoltage).             *)
CrateAccess ==
  /\ ~(WorkerInside /\ QueryInside)
  /\ GuiInside /\ (WorkerInside \/ QueryInside) => gui = "show"

(* StartMonitor is never called while queryThread is joinable, which would *)
(* end the program: not by two signals, nor by a signal after a restore.   *)
NeverTerminates == query # "terminate"

\* A file that names boards only: a slot without one leads to the first board.
FilesFit == \A f \in Files : \A i \in 1..Len(f) : f[i].slot \in SlotsIn(f[i].crate)

Named(c, s) == {i \in 1..Len(file) : file[i].crate = c /\ file[i].slot = s}

(* A restore leaves every channel the file names at the voltage of its     *)
(* last line, unless its crate is not connected or refused a setting.      *)
RestoreApplies ==
  gui = "restore" /\ line > Len(file) =>
    \A c \in Crates : \A s \in SlotsIn(c) :
      mapped[c] /\ Named(c, s) # {} /\ <<c, s>> \notin refused =>
        \E i \in Named(c, s) : /\ \A j \in Named(c, s) : j <= i
                               /\ hw[c][s] = file[i].vset

(* Disconnect, save and restore return to the event loop: the join ends.   *)
MenuReturns == gui # "idle" ~> gui = "idle"

=============================================================================
