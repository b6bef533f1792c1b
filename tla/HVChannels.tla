----------------------------- MODULE HVChannels -----------------------------
(* The channels of the high voltage crates, as a program uses them: names,   *)
(* power and voltages set by address, by channel, by board and for all, and  *)
(* read back.  HVSystem has the threads around it, with one channel a board. *)
(*                                                                           *)
(* The crates are external: each call of the library may fail, and names of  *)
(* channels may be changed on the crate itself.  Limits only decide on       *)
(* messages (a voltage above its limit is sent as it is) and are left out,   *)
(* as are monitored voltages, which are read like the others.                *)
EXTENDS Integers, Sequences, FiniteSets, FiniteSetsExt, SequencesExt, Functions

CONSTANTS CrateLines, \* config/hv_crate_list.txt: sequence of [name, id]
          Installed,  \* external: id -> slot -> [chans, multi]; multi: model 1932
          Names, Voltages,
          Unwritten,      \* what arrays the library did not write may hold
          MaxCalls    \* bound on the calls

VARIABLES crate_list,
          boards,  \* id -> slots of its boards, in order
          channel,    \* address -> [name, on, vset], for the channels of boards
          crate_hw,         \* external: the same, for those installed
          missed,     \* history: not read, or set by list, since last read
          calls

channel_vars == <<crate_list, boards, channel, crate_hw, missed, calls>>

-----------------------------------------------------------------------------
(* setupHVSystem reads the list; AddCrate skips a known id or name.          *)
AddCrate(list, l) ==
  IF \E k \in DOMAIN list : list[k].id = l.id \/ list[k].name = l.name THEN list ELSE Append(list, l)
setupHVSystem == FoldLeft(AddCrate, <<>>, CrateLines)

Ids == {crate_list[k].id : k \in DOMAIN crate_list}

(* The TODO of ReadCrateMap. *)
KnownBad == {<<5, 14>>, <<4, 12>>, <<4, 14>>}
UsableSlots(id) ==
  {s \in DOMAIN Installed[id] : Installed[id][s].chans > 0 /\ <<id, s>> \notin KnownBad}

ChannelsAt(id, s) == {<<id, s, k>> : k \in 0 .. Installed[id][s].chans - 1}
ChannelsIn(id) == UNION {ChannelsAt(id, s) : s \in DOMAIN Installed[id]}
Primary(id, s) == IF Installed[id][s].multi THEN {<<id, s, 0>>} ELSE {}

(* The boards a slot leads to: slot_map is zeroed before boards are entered. *)
BoardOf(id, s) ==
  LET at == {k \in DOMAIN boards[id] : boards[id][k] = s}
  IN  IF at # {} THEN {s} ELSE {b \in Range(boards[id]) : b = boards[id][1]}

(* Addresses of the channels GetChannel finds: one or none. *)
GetChannel(id, s, k) ==
  IF id \notin Ids THEN {} ELSE {a \in DOMAIN channel : a[1] = id /\ a[2] \in BoardOf(id, s) /\ a[3] = k}

-----------------------------------------------------------------------------
ChannelsInit ==
  /\ crate_list = setupHVSystem
  /\ boards = [id \in DOMAIN Installed |-> <<>>] /\ channel = <<>>
  /\ \E n \in Names : crate_hw = [a \in UNION {ChannelsIn(id) : id \in DOMAIN Installed} |->
                             [name |-> n, on |-> FALSE, vset |-> 0]]
  /\ missed = {} /\ calls = 0

Call == calls < MaxCalls /\ calls' = calls + 1

(* How the calls that read one board went. *)
Outcomes == {[name |-> TRUE, on |-> TRUE, vset |-> TRUE], [name |-> FALSE, on |-> TRUE, vset |-> TRUE],
             [name |-> TRUE, on |-> FALSE, vset |-> FALSE]}
Told(a, o, u) == [f \in {"name", "on", "vset"} |-> IF o[f] THEN crate_hw[a][f] ELSE u[f]]

(* Initialize of a crate that is not mapped, with ReadBoardMap of its boards. *)
InitializeCrate(id) ==
  /\ Call /\ id \in Ids /\ boards[id] = <<>>
  /\ \E o \in [UsableSlots(id) -> Outcomes], u \in Unwritten :
       /\ boards' = [boards EXCEPT ![id] = SetToSortSeq(UsableSlots(id), LAMBDA x, y : x < y)]
       /\ channel' = LET new == UNION {ChannelsAt(id, s) : s \in UsableSlots(id)}
                     IN  [a \in new \cup DOMAIN channel |->
                            IF a \in new THEN Told(a, o[a[2]], u) ELSE channel[a]]
       /\ missed' = {a \in missed : a[1] # id} \cup {a \in ChannelsIn(id) : a[2] \in DOMAIN o /\ ~o[a[2]].vset}
  /\ UNCHANGED <<crate_list, crate_hw>>

(* DeInitialize that succeeds. *)
Clear(id) ==
  /\ Call /\ id \in Ids
  /\ boards' = [boards EXCEPT ![id] = <<>>]
  /\ channel' = [a \in {b \in DOMAIN channel : b[1] # id} |-> channel[a]]
  /\ UNCHANGED <<crate_list, crate_hw, missed>>

(* CAEN_Board::ReadVoltage: a channel whose name is not the one it had when  *)
(* the boards were mapped is skipped.                                        *)
BoardReadVoltage(chans, o, u) ==
  LET same(a) == Told(a, o, u).name = channel[a].name
  IN  /\ channel' = [a \in DOMAIN channel |->
                       IF a \in chans /\ same(a) THEN [Told(a, o, u) EXCEPT !.name = channel[a].name]
                       ELSE channel[a]]
      /\ missed' = {a \in missed : ~(a \in chans /\ same(a) /\ o.vset)}
                   \cup {a \in chans : ~same(a) \/ ~o.vset}

(* PRadHVSystem::ReadVoltage, of all crates; one board may have gone wrong.  *)
ReadVoltage ==
  /\ Call
  /\ \E o \in Outcomes, u \in Unwritten, chans \in {DOMAIN channel} \cup
           {{a \in DOMAIN channel : <<a[1], a[2]>> = b} : b \in {<<a[1], a[2]>> : a \in DOMAIN channel}} :
       BoardReadVoltage(chans, o, u)
  /\ UNCHANGED <<crate_list, boards, crate_hw>>

(* CAEN_Channel::ReadVoltage: the name is not looked at. *)
ChannelReadVoltage(a, o) ==
  /\ Call /\ \E u \in Unwritten :
       channel' = [channel EXCEPT ![a].on = Told(a, o, u).on, ![a].vset = IF o.vset THEN crate_hw[a].vset ELSE @]
  /\ missed' = IF o.vset THEN missed \ {a} ELSE missed \cup {a}
  /\ UNCHANGED <<crate_list, boards, crate_hw>>

\* Mutant of ChannelSetVoltage: the value is kept whether it was sent or not.
SetVoltageUnchecked(a, v, ok) ==
  /\ Call /\ crate_hw' = IF ok THEN [crate_hw EXCEPT ![a].vset = v] ELSE crate_hw
  /\ channel' = [channel EXCEPT ![a].vset = v]
  /\ missed' = IF ok THEN missed \ {a} ELSE missed
  /\ UNCHANGED <<crate_list, boards>>

(* CAEN_Channel::SetVoltage. *)
ChannelSetVoltage(a, v, ok) ==
  /\ Call
  /\ IF ok THEN /\ crate_hw' = [crate_hw EXCEPT ![a].vset = v]
                /\ channel' = [channel EXCEPT ![a].vset = v]
                /\ missed' = missed \ {a}
     ELSE UNCHANGED <<crate_hw, channel, missed>>
  /\ UNCHANGED <<crate_list, boards>>

(* CAEN_Channel::SetPower: with the primary channel, when it is switched on. *)
ChannelSetPower(a, on) ==
  /\ Call
  /\ crate_hw' = [b \in DOMAIN crate_hw |-> IF b = a \/ (on /\ b \in Primary(a[1], a[2])) THEN [crate_hw[b] EXCEPT !.on = on]
                                ELSE crate_hw[b]]
  /\ UNCHANGED <<crate_list, boards, channel, missed>>

ChannelSetName(a, n) ==
  /\ Call /\ crate_hw' = [crate_hw EXCEPT ![a].name = n] /\ channel' = [channel EXCEPT ![a].name = n]
  /\ UNCHANGED <<crate_list, boards, missed>>

(* PRadHVSystem::SetVoltage and SetPower of an address. *)
SetVoltageAt(id, s, k, v) == \E a \in GetChannel(id, s, k), ok \in BOOLEAN : ChannelSetVoltage(a, v, ok)
SetPower(id, s, k, on)  == \E a \in GetChannel(id, s, k) : ChannelSetPower(a, on)

(* CAEN_Board::SetVoltage and SetPower with one value for each channel; a    *)
(* list of another size changes nothing.  Vset is not updated.               *)
BoardSetVoltage(id, s, list) ==
  /\ Call /\ Len(list) = Installed[id][s].chans
  /\ crate_hw' = [a \in DOMAIN crate_hw |-> IF a \in ChannelsAt(id, s) THEN [crate_hw[a] EXCEPT !.vset = list[a[3] + 1]] ELSE crate_hw[a]]
  /\ missed' = missed \cup ChannelsAt(id, s)
  /\ UNCHANGED <<crate_list, boards, channel>>

BoardSetPower(id, s, list) ==
  /\ Call /\ Len(list) = Installed[id][s].chans
  /\ crate_hw' = [a \in DOMAIN crate_hw |-> IF a \in ChannelsAt(id, s) THEN [crate_hw[a] EXCEPT !.on = list[a[3] + 1]] ELSE crate_hw[a]]
  /\ UNCHANGED <<crate_list, boards, channel, missed>>

(* PRadHVSystem::SetPower, all channels of all boards; any may fail.         *)
SetPowerOfAll(on) ==
  /\ Call /\ \E sent \in SUBSET {<<a[1], a[2]>> : a \in DOMAIN channel} :
       crate_hw' = [a \in DOMAIN crate_hw |-> IF <<a[1], a[2]>> \in sent THEN [crate_hw[a] EXCEPT !.on = on] ELSE crate_hw[a]]
  /\ UNCHANGED <<crate_list, boards, channel, missed>>

(* External: somebody names a channel on the crate. *)
Rename(a, n) ==
  Call /\ crate_hw' = [crate_hw EXCEPT ![a].name = n] /\ UNCHANGED <<crate_list, boards, channel, missed>>

ChannelsNext ==
  \/ ReadVoltage
  \/ \E id \in DOMAIN Installed : InitializeCrate(id) \/ Clear(id)
  \/ \E a \in DOMAIN channel : \/ \E o \in Outcomes : ChannelReadVoltage(a, o)
                               \/ \E n \in Names : ChannelSetName(a, n) \/ Rename(a, n)
  \/ \E id \in DOMAIN Installed, s \in UNION {DOMAIN Installed[i] : i \in DOMAIN Installed}, k \in 0 .. 1 :
       (\E v \in Voltages : SetVoltageAt(id, s, k, v)) \/ (\E on \in BOOLEAN : SetPower(id, s, k, on))
  \/ \E id \in DOMAIN Installed : \E s \in Range(boards[id]) :
       \/ \E list \in BoundedSeq(Voltages, 2) : BoardSetVoltage(id, s, list)
       \/ \E list \in BoundedSeq(BOOLEAN, 2) : BoardSetPower(id, s, list)
  \/ \E on \in BOOLEAN : SetPowerOfAll(on)

ChannelsSpec == ChannelsInit /\ [][ChannelsNext]_channel_vars

-----------------------------------------------------------------------------
(* The voltage the program shows for a channel is the one set in the crate,  *)
(* unless its last reading failed or skipped it, or the voltages of its      *)
(* board were set as a list, which the program does not take over: a         *)
(* setting that was refused is not shown, and a crate that is mapped again   *)
(* or renamed does not mix channels up.                                      *)
ShowsWhatIsSet == \A a \in DOMAIN channel \ missed : channel[a].vset = crate_hw[a].vset
=============================================================================
