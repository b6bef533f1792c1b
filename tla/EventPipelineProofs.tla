------------------------ MODULE EventPipelineProofs ------------------------
(***************************************************************************)
(* Proofs about EventPipeline, for any channels, event shapes, files and   *)
(* set of commands (InitializeByData included) and any number of events.   *)
(***************************************************************************)
EXTENDS EventPipeline, TLAPS

(* The facts about one bank that FeedBank relies on.                       *)
LEMMA BankFields ==
  ASSUME NEW b \in Banks
  PROVE  /\ b.kind = "TI" => b.trg \in Triggers
         /\ b.kind = "EPICS" => b.ch \in Channels
         /\ b.kind = "ADC" => b.above \in BOOLEAN
BY DEF Banks

LEMMA ShapeFields ==
  ASSUME NEW s \in Shapes
  PROVE  s.tag \in Tags /\ s.banks \in Seq(Banks)
BY ConstantsAssumption DEF ConstantsAssumption

LEMMA AppendKeeps ==
  ASSUME NEW S, NEW s \in Seq(S), NEW x \in S
  PROVE  Append(s, x) \in Seq(S)
OBVIOUS

LEMMA EmptyIsEvent == Empty \in Events
BY DEF Empty, Events, Triggers

(* An update of one field of an event yields an event.                     *)
LEMMA EventUpdates ==
  ASSUME NEW e \in Events
  PROVE  /\ \A t \in Tags, n \in Nat : [e EXCEPT !.type = t, !.id = n] \in Events
         /\ \A t \in Triggers : [e EXCEPT !.trg = t] \in Events
         /\ \A n \in Nat : [e EXCEPT !.num = n] \in Events
         /\ \A n, k \in Nat : [e EXCEPT !.hits = @ \cup {<<n, k>>}] \in Events
<1>1. \A t \in Tags, n \in Nat : [e EXCEPT !.type = t, !.id = n] \in Events
  BY DEF Events
<1>2. \A t \in Triggers : [e EXCEPT !.trg = t] \in Events
  BY DEF Events
<1>3. \A n \in Nat : [e EXCEPT !.num = n] \in Events
  BY DEF Events
<1>4. \A n, k \in Nat : [e EXCEPT !.hits = @ \cup {<<n, k>>}] \in Events
  BY DEF Events
<1> QED
  BY <1>1, <1>2, <1>3, <1>4

(* Hence an update of one field of one buffer keeps the buffers' type.     *)
LEMMA BufferUpdates ==
  ASSUME NEW f \in [1..2 -> Events], NEW i \in 1..2
  PROVE  /\ f[i] \in Events
         /\ \A t \in Tags, n \in Nat :
              [f EXCEPT ![i].type = t, ![i].id = n] \in [1..2 -> Events]
         /\ \A t \in Triggers : [f EXCEPT ![i].trg = t] \in [1..2 -> Events]
         /\ \A n \in Nat : [f EXCEPT ![i].num = n] \in [1..2 -> Events]
         /\ \A n, k \in Nat :
              [f EXCEPT ![i].hits = @ \cup {<<n, k>>}] \in [1..2 -> Events]
<1>1. f[i] \in Events
  OBVIOUS
<1>2. \A e \in Events : [f EXCEPT ![i] = e] \in [1..2 -> Events]
  OBVIOUS
<1>3. ASSUME NEW t \in Tags, NEW n \in Nat
      PROVE  [f EXCEPT ![i].type = t, ![i].id = n] \in [1..2 -> Events]
  <2>1. [f EXCEPT ![i].type = t, ![i].id = n] = [f EXCEPT ![i] = [f[i] EXCEPT !.type = t, !.id = n]]
    OBVIOUS
  <2> QED
    BY <1>1, <1>2, <2>1, EventUpdates
<1>4. ASSUME NEW t \in Triggers
      PROVE  [f EXCEPT ![i].trg = t] \in [1..2 -> Events]
  BY <1>1, <1>2, EventUpdates
<1>5. ASSUME NEW n \in Nat
      PROVE  [f EXCEPT ![i].num = n] \in [1..2 -> Events]
  BY <1>1, <1>2, EventUpdates
<1>6. ASSUME NEW n \in Nat, NEW k \in Nat
      PROVE  [f EXCEPT ![i].hits = @ \cup {<<n, k>>}] \in [1..2 -> Events]
  BY <1>1, <1>2, EventUpdates
<1> QED
  BY <1>1, <1>3, <1>4, <1>5, <1>6

LEMMA InitType == Init => TypeOK
<1> SUFFICES ASSUME Init PROVE TypeOK
  OBVIOUS
<1>1. buf \in [1..2 -> Events]
  BY EmptyIsEvent DEF Init
<1>2. Undefined \in [Channels -> Nat]
  BY DEF Undefined
<1>3. \A S : <<>> \in Seq(S)
  OBVIOUS
<1>4. /\ input \in Seq(Shapes \cup {BadBlock}) /\ files \in Seq(Files)
      /\ epics_data \in Seq(EpicsRecords) /\ event_data \in Seq(Events)
      /\ dst \in Seq(Events \cup EpicsRecords)
      /\ truth \in Seq([tag : Parsed, banks : Seq(Banks), num : Nat, vals : [Channels -> Nat]])
  BY <1>3 DEF Init
<1>5. /\ limit \in Nat /\ count \in Nat /\ pos \in Nat \ {0} /\ event_number \in Nat
      /\ new_event \in 1..2 /\ proc_event \in 1..2 /\ ev \in 1..2
      /\ hist \in SUBSET Nat /\ nread \in Nat /\ cleared \in SUBSET Nat
  BY DEF Init
<1> QED
  BY <1>1, <1>2, <1>4, <1>5 DEF Init, TypeOK

LEMMA EraseType == TypeOK /\ Erase =>
  /\ event_data' \in Seq(Events) /\ event_number' \in Nat
  /\ epics_data' \in Seq(EpicsRecords) /\ epics_values' \in [Channels -> Nat]
  /\ hist' \in SUBSET Nat /\ cleared' \in SUBSET Nat
  /\ UNCHANGED <<dst, nread, truth>>
BY DEF TypeOK, Erase, Undefined

(* The operations of the caller keep the types.                            *)
LEMMA InvokeType == TypeOK /\ Invoke => TypeOK'
<1> SUFFICES ASSUME TypeOK, Invoke PROVE TypeOK'
  OBVIOUS
<1> USE ConstantsAssumption DEF ConstantsAssumption
<1>1. CASE Decode
  <2>1. PICK s \in Shapes : ReadEvioFile(<<s>>, 0)
    BY <1>1 DEF Decode
  <2>2. <<s>> \in Seq(Shapes \cup {BadBlock})
    OBVIOUS
  <2> QED
    BY <1>1, <2>1, <2>2 DEF Decode, Begin, ReadEvioFile, TypeOK, ptrs, store, modes, ghosts
<1>2. CASE ReadFromEvio
  BY <1>2 DEF ReadFromEvio, Begin, ReadEvioFile, TypeOK, ptrs, store, modes, ghosts
<1>3. CASE Replay
  <2>1. PICK f \in Files, g \in Files : ReadEvioFile(f, 0) /\ files' = <<g>>
    BY <1>3 DEF Replay
  <2>2. <<g>> \in Seq(Files)
    OBVIOUS
  <2> QED
    BY <1>3, <2>1, <2>2 DEF Replay, Begin, ReadEvioFile, TypeOK, ptrs, store, modes, ghosts
<1>4. CASE InitializeByData
  BY <1>4 DEF InitializeByData, Begin, ReadEvioFile, TypeOK, ptrs, store, modes, ghosts
<1>5. CASE Clear
  BY <1>5, EraseType DEF Clear, Begin, TypeOK, ptrs, modes
<1>6. CASE startOnlineMode
  BY <1>6, EraseType DEF startOnlineMode, Begin, TypeOK, ptrs, modes
<1>7. CASE stopOnlineMode
  BY <1>7 DEF stopOnlineMode, Begin, TypeOK, ptrs, store, ghosts
<1> QED
  BY <1>1, <1>2, <1>3, <1>4, <1>5, <1>6, <1>7 DEF Invoke

(* So do the steps of the parser, ...                                      *)
LEMMA ParseType == TypeOK /\ Parse => TypeOK'
<1> SUFFICES ASSUME TypeOK, Parse PROVE TypeOK'
  OBVIOUS
<1> USE DEF TypeOK
<1>1. CASE SkipEvent
  BY <1>1 DEF SkipEvent, ptrs, store, modes, ghosts
<1>2. CASE StartofNewEvent
  <2>1. Head(input) \in Shapes /\ Tail(input) \in Seq(Shapes \cup {BadBlock})
    BY <1>2 DEF StartofNewEvent
  <2>2. buf' \in [1..2 -> Events]
    <3>1. Head(input).tag \in Tags /\ nread + 1 \in Nat
      BY <2>1, ShapeFields
    <3> QED
      BY <1>2, <3>1, BufferUpdates DEF StartofNewEvent
  <2>3. /\ nread' \in Nat /\ cur' \in Shapes /\ cur'.tag \in Parsed
        /\ input' \in Seq(Shapes \cup {BadBlock}) /\ pos' = 1 /\ pc' = "parse"
    BY <1>2, <2>1 DEF StartofNewEvent
  <2>4. UNCHANGED <<cmd, files, limit, count, event_number, ptrs, epics_values,
                    store, modes, truth, cleared>>
    BY <1>2 DEF StartofNewEvent
  <2> QED
    BY <2>2, <2>3, <2>4 DEF ptrs, store, modes
<1>3. CASE FeedBank
  <2> DEFINE b == cur.banks[pos]
  <2>0. /\ pc = "parse" /\ pos <= Len(cur.banks) /\ pos' = pos + 1
        /\ NumberBank(b) \/ TriggerBank(b) \/ AdcBank(b) \/ RawBank(b) \/ EpicsBank(b)
        /\ UNCHANGED <<pc, cmd, input, files, limit, count, cur, ptrs, store, modes, ghosts>>
    <3> HIDE DEF TypeOK
    <3> QED
      BY <1>3 DEF FeedBank
  <2>1. b \in Banks
    <3>1. cur \in Shapes /\ pos \in 1..Len(cur.banks)
      BY <2>0
    <3> HIDE DEF TypeOK
    <3> QED
      BY <3>1, ShapeFields
  <2>2. /\ new_event \in 1..2 /\ nread \in Nat /\ pos \in Nat \ {0} /\ event_number \in Nat
        /\ buf \in [1..2 -> Events] /\ epics_values \in [Channels -> Nat]
    OBVIOUS
  <2>3. buf' \in [1..2 -> Events] /\ event_number' \in Nat /\ epics_values' \in [Channels -> Nat]
    <3> HIDE DEF TypeOK, b
    <3>1. CASE NumberBank(b)
      BY <2>2, <3>1 DEF NumberBank
    <3>2. CASE TriggerBank(b)
      BY <2>1, <2>2, <3>2, BankFields, BufferUpdates DEF TriggerBank
    <3>3. CASE AdcBank(b)
      BY <2>2, <3>3, BufferUpdates DEF AdcBank, AddHit
    <3>4. CASE RawBank(b)
      BY <2>2, <3>4, BufferUpdates DEF RawBank, AddHit
    <3>5. CASE EpicsBank(b)
      BY <2>1, <2>2, <3>5, BankFields DEF EpicsBank
    <3> QED
      BY <2>0, <3>1, <3>2, <3>3, <3>4, <3>5
  <2>4. pos' \in Nat \ {0}
    BY <2>0, <2>2
  <2>5. UNCHANGED <<pc, cmd, input, files, limit, count, cur, ptrs, store, modes, ghosts>>
    BY <2>0
  <2> HIDE DEF b
  <2> QED
    BY <2>3, <2>4, <2>5 DEF ptrs, store, modes, ghosts
<1>4. CASE EndofThisEvent
  <2>1. buf' \in [1..2 -> Events]
    BY <1>4, BufferUpdates DEF EndofThisEvent
  <2>2. [tag |-> cur.tag, banks |-> cur.banks, num |-> event_number, vals |-> epics_values]
          \in [tag : Parsed, banks : Seq(Banks), num : Nat, vals : [Channels -> Nat]]
    BY <1>4, ShapeFields DEF EndofThisEvent
  <2>3. truth' \in Seq([tag : Parsed, banks : Seq(Banks), num : Nat, vals : [Channels -> Nat]])
    BY <1>4, <2>2 DEF EndofThisEvent
  <2> QED
    BY <1>4, <2>1, <2>3 DEF EndofThisEvent, ptrs, store, modes
<1>5. CASE SwapAndSpawn
  BY <1>5 DEF SwapAndSpawn, SwapPointers, store, modes, ghosts
<1>6. CASE EndOfFile
  BY <1>6 DEF EndOfFile, ptrs, store, modes, ghosts
<1>7. CASE NextFile
  BY <1>7, ConstantsAssumption DEF ConstantsAssumption, NextFile, store, modes, ghosts
<1>8. CASE Return
  BY <1>8 DEF Return, store, ghosts
<1>9. CASE FitPedestal
  BY <1>9 DEF FitPedestal, ptrs, store, modes, ghosts
<1>10. CASE InitErase
  BY <1>10, EraseType DEF InitErase, ptrs, modes
<1> QED
  BY <1>1, <1>2, <1>3, <1>4, <1>5, <1>6, <1>7, <1>8, <1>9, <1>10 DEF Parse

(* ... and those of end_thread.                                            *)
LEMMA EndProcessType == TypeOK /\ EndProcess => TypeOK'
<1> SUFFICES ASSUME TypeOK, EndProcess PROVE TypeOK'
  OBVIOUS
<1> USE DEF TypeOK
<1>1. CASE FillHistograms
  BY <1>1 DEF FillHistograms, caller, modes, ghosts, Events
<1>2. CASE StoreEpics
  <2>1. EpicsRecord \in EpicsRecords
    BY DEF EpicsRecord, EpicsRecords, Events
  <2>2. DropFirst(epics_data) \in Seq(EpicsRecords)
    BY DEF DropFirst
  <2>3. /\ Append(dst, EpicsRecord) \in Seq(Events \cup EpicsRecords)
        /\ Append(DropFirst(epics_data), EpicsRecord) \in Seq(EpicsRecords)
    BY <2>1, <2>2, AppendKeeps
  <2>4. epics_data' \in Seq(EpicsRecords) /\ dst' \in Seq(Events \cup EpicsRecords)
    BY <1>2, <2>3, Zenon DEF StoreEpics
  <2> QED
    BY <1>2, <2>4 DEF StoreEpics, caller, modes, ghosts
<1>3. CASE StoreEvent
  <2>1. buf[ev] \in Events
    OBVIOUS
  <2>2. DropFirst(event_data) \in Seq(Events)
    BY DEF DropFirst
  <2>3. /\ Append(dst, buf[ev]) \in Seq(Events \cup EpicsRecords)
        /\ Append(DropFirst(event_data), buf[ev]) \in Seq(Events)
    BY <2>1, <2>2, AppendKeeps
  <2>4. event_data' \in Seq(Events) /\ dst' \in Seq(Events \cup EpicsRecords)
    BY <1>3, <2>2, <2>3, Zenon DEF StoreEvent
  <2> QED
    BY <1>3, <2>4 DEF StoreEvent, caller, modes, ghosts
<1>4. CASE ClearBuffer
  BY <1>4, EmptyIsEvent DEF ClearBuffer, caller, store, modes, ghosts
<1> QED
  BY <1>1, <1>2, <1>3, <1>4 DEF EndProcess

(* Type correctness of the event pipeline.                                 *)
THEOREM TypeCorrect == Spec => []TypeOK
<1>1. TypeOK /\ UNCHANGED vars => TypeOK'
  BY DEF TypeOK, vars, caller, ptrs, store, modes, ghosts
<1>2. TypeOK /\ [Next]_vars => TypeOK'
  BY <1>1, InvokeType, ParseType, EndProcessType DEF Next
<1> QED
  BY <1>2, InitType, PTL DEF Spec

-----------------------------------------------------------------------------
(* What EndofThisEvent hands over is exactly what the event contained.     *)

(* trg is the trigger in force when the parser reaches bank k.             *)
InEffect(trg, banks, k) ==
  \/ trg = "NotFromTI" /\ \A i \in 1..(k-1) : banks[i].kind # "TI"
  \/ \E j \in 1..(k-1) : InForce(banks, j, k) /\ trg = banks[j].trg

LEMMA InEffectStart ==
  ASSUME NEW banks
  PROVE  InEffect("NotFromTI", banks, 1)
BY DEF InEffect

LEMMA InEffectStep ==
  ASSUME NEW banks, NEW k \in Nat \ {0}, NEW trg, InEffect(trg, banks, k)
  PROVE  InEffect(IF banks[k].kind = "TI" THEN banks[k].trg ELSE trg, banks, k + 1)
<1>1. CASE banks[k].kind = "TI"
  <2>1. InForce(banks, k, k + 1) /\ k \in 1..((k+1)-1)
    BY <1>1 DEF InForce
  <2> QED
    BY <1>1, <2>1 DEF InEffect
<1>2. CASE banks[k].kind # "TI"
  <2>1. CASE trg = "NotFromTI" /\ \A i \in 1..(k-1) : banks[i].kind # "TI"
    <3>1. \A i \in 1..((k+1)-1) : banks[i].kind # "TI"
      BY <1>2, <2>1
    <3> QED
      BY <1>2, <2>1, <3>1 DEF InEffect
  <2>2. CASE \E j \in 1..(k-1) : InForce(banks, j, k) /\ trg = banks[j].trg
    <3>1. PICK j \in 1..(k-1) : InForce(banks, j, k) /\ trg = banks[j].trg
      BY <2>2
    <3>2. j \in 1..((k+1)-1) /\ InForce(banks, j, k + 1)
      BY <1>2, <3>1 DEF InForce
    <3> QED
      BY <1>2, <3>1, <3>2 DEF InEffect
  <2> QED
    BY <2>1, <2>2 DEF InEffect
<1> QED
  BY <1>1, <1>2

(* The parser, which tests the last trigger it stored, decides as Belongs. *)
LEMMA InEffectDecides ==
  ASSUME NEW banks, NEW k \in Nat \ {0}, NEW trg, InEffect(trg, banks, k),
         banks[k].kind = "ADC"
  PROVE  Belongs(banks, k) <=> Kept(trg, banks[k])
<1>1. CASE trg = "NotFromTI" /\ \A i \in 1..(k-1) : banks[i].kind # "TI"
  BY <1>1 DEF Belongs, InForce, Kept
<1>2. CASE \E j \in 1..(k-1) : InForce(banks, j, k) /\ trg = banks[j].trg
  <2>1. PICK j \in 1..(k-1) : InForce(banks, j, k) /\ trg = banks[j].trg
    BY <1>2
  <2>2. \A i \in 1..(k-1) : InForce(banks, i, k) => i = j
    BY <2>1 DEF InForce
  <2> QED
    BY <2>1, <2>2 DEF Belongs
<1> QED
  BY <1>1, <1>2 DEF InEffect

LEMMA OwnHitsStep ==
  ASSUME NEW id, NEW banks, NEW k \in Nat \ {0}
  PROVE  OwnHits(id, banks, k) =
           OwnHits(id, banks, k - 1) \cup (IF Belongs(banks, k) THEN {<<id, k>>} ELSE {})
<1>1. 1..k = (1..(k-1)) \cup {k}
  OBVIOUS
<1> QED
  BY <1>1 DEF OwnHits

LEMMA OwnHitsNone ==
  ASSUME NEW id, NEW banks
  PROVE  OwnHits(id, banks, 0) = {}
BY DEF OwnHits

(* Own data stays own data when more events are read.                      *)
LEMMA OwnGrows ==
  ASSUME NEW T, NEW t \in Seq(T), NEW x \in T, NEW r
  PROVE  /\ OwnData(r, t) => OwnData(r, Append(t, x))
         /\ OwnRecord(r, t) => OwnRecord(r, Append(t, x))
<1>1. /\ Len(Append(t, x)) = Len(t) + 1 /\ Len(t) \in Nat
      /\ \A i \in 1..Len(t) : Append(t, x)[i] = t[i]
  OBVIOUS
<1> QED
  BY <1>1 DEF OwnData, OwnRecord

LEMMA AppendAll ==
  ASSUME NEW S, NEW s \in Seq(S), NEW x \in S, NEW i \in 1..Len(Append(s, x))
  PROVE  Append(s, x)[i] = x \/ (i \in 1..Len(s) /\ Append(s, x)[i] = s[i])
OBVIOUS

LEMMA DropFirstAll ==
  ASSUME NEW S, NEW s \in Seq(S), NEW i \in 1..Len(DropFirst(s))
  PROVE  \E j \in 1..Len(s) : DropFirst(s)[i] = s[j]
<1>1. CASE DropFirst(s) = s
  BY <1>1
<1>2. CASE s # <<>> /\ DropFirst(s) = Tail(s)
  <2>1. i + 1 \in 1..Len(s) /\ Tail(s)[i] = s[i + 1]
    BY <1>2
  <2> QED
    BY <1>2, <2>1
<1> QED
  BY <1>1, <1>2 DEF DropFirst

-----------------------------------------------------------------------------
(* The inductive invariant: BufferOwnership, what the buffer of the parser *)
(* holds part way through an event, and own data in every buffer that is   *)
(* complete, in the data bank and in the replay output.                    *)
ReadSoFar ==
  /\ Len(truth) = IF pc = "parse" THEN nread - 1 ELSE nread
  /\ pc = "join" => buf[new_event].id = nread
  /\ pc = "parse" =>
       /\ pos <= Len(cur.banks) + 1
       /\ buf[new_event].id = nread
       /\ buf[new_event].type = cur.tag
       /\ buf[new_event].hits = OwnHits(nread, cur.banks, pos - 1)
       /\ InEffect(buf[new_event].trg, cur.banks, pos)

CompleteBuffers ==
  /\ pc = "join" => OwnData(buf[new_event], truth)
  /\ endpc \in {"start", "store"} => OwnData(buf[ev], truth)

PipelineInv == /\ TypeOK /\ BufferOwnership /\ ReadSoFar /\ CompleteBuffers
               /\ BankHoldsOwnData /\ ReplayWritesOwnData

LEMMA InitInv == Init => PipelineInv
<1> SUFFICES ASSUME Init PROVE PipelineInv
  OBVIOUS
<1>1. TypeOK
  BY InitType
<1>2. BufferOwnership
  BY DEF Init, BufferOwnership, Running
<1>3. ReadSoFar /\ CompleteBuffers /\ BankHoldsOwnData /\ ReplayWritesOwnData
  BY DEF Init, ReadSoFar, CompleteBuffers, BankHoldsOwnData, ReplayWritesOwnData
<1> QED
  BY <1>1, <1>2, <1>3 DEF PipelineInv

(* A step between events: no buffer is touched, end_thread stays where it  *)
(* is or is joined, the stores are kept or emptied.                        *)
BetweenEvents ==
  /\ pc \notin {"parse", "join"} /\ pc' \notin {"parse", "join"}
  /\ UNCHANGED <<buf, new_event, proc_event, ev, truth, nread>>
  /\ endpc' = endpc \/ (Joined /\ Joined')
  /\ event_data' = event_data \/ event_data' = <<>>
  /\ dst' = dst \/ dst' = <<>>

LEMMA BetweenEventsInv ==
  PipelineInv /\ BetweenEvents /\ TypeOK' => PipelineInv'
<1> SUFFICES ASSUME PipelineInv, BetweenEvents, TypeOK' PROVE PipelineInv'
  OBVIOUS
<1>1. BufferOwnership'
  BY DEF PipelineInv, BufferOwnership, BetweenEvents, Running, Joined
<1>2. ReadSoFar' /\ CompleteBuffers'
  BY DEF PipelineInv, ReadSoFar, CompleteBuffers, BetweenEvents, Joined
<1>3. BankHoldsOwnData'
  BY DEF PipelineInv, BankHoldsOwnData, BetweenEvents
<1>4. ReplayWritesOwnData'
  BY DEF PipelineInv, ReplayWritesOwnData, BetweenEvents
<1> QED
  BY <1>1, <1>2, <1>3, <1>4 DEF PipelineInv

LEMMA InvokeInv == PipelineInv /\ Invoke => PipelineInv'
<1> SUFFICES ASSUME PipelineInv, Invoke PROVE PipelineInv'
  OBVIOUS
<1>1. TypeOK'
  BY InvokeType DEF PipelineInv
<1>2. BetweenEvents
  <2>1. CASE Decode
    BY <2>1 DEF Decode, Begin, ReadEvioFile, BetweenEvents, ptrs, store, ghosts
  <2>2. CASE ReadFromEvio
    BY <2>2 DEF ReadFromEvio, Begin, ReadEvioFile, BetweenEvents, ptrs, store, ghosts
  <2>3. CASE Replay
    BY <2>3 DEF Replay, Begin, ReadEvioFile, BetweenEvents, ptrs, ghosts
  <2>4. CASE InitializeByData
    BY <2>4 DEF InitializeByData, Begin, ReadEvioFile, BetweenEvents, ptrs, store, ghosts
  <2>5. CASE Clear
    BY <2>5 DEF Clear, Begin, Erase, BetweenEvents, ptrs
  <2>6. CASE startOnlineMode
    BY <2>6 DEF startOnlineMode, Begin, Erase, BetweenEvents, ptrs
  <2>7. CASE stopOnlineMode
    BY <2>7 DEF stopOnlineMode, Begin, BetweenEvents, ptrs, store, ghosts
  <2> QED
    BY <2>1, <2>2, <2>3, <2>4, <2>5, <2>6, <2>7 DEF Invoke
<1> QED
  BY <1>1, <1>2, BetweenEventsInv

LEMMA StartInv == PipelineInv /\ StartofNewEvent /\ TypeOK' => PipelineInv'
<1> SUFFICES ASSUME PipelineInv, StartofNewEvent, TypeOK' PROVE PipelineInv'
  OBVIOUS
<1>0. /\ UNCHANGED <<new_event, proc_event, ev, endpc, truth, event_data, dst>>
      /\ pc = "fetch" /\ pc' = "parse" /\ pos' = 1 /\ nread' = nread + 1
      /\ cur' \in Shapes
  BY DEF StartofNewEvent, ptrs, store, TypeOK
<1>1. /\ buf[new_event] = Empty /\ new_event # proc_event /\ new_event \in 1..2
      /\ proc_event \in 1..2 /\ ev \in 1..2 /\ nread \in Nat
      /\ buf \in [1..2 -> Events]
  BY <1>0 DEF PipelineInv, BufferOwnership, TypeOK
<1>2. /\ buf'[new_event] = [Empty EXCEPT !.type = cur'.tag, !.id = nread']
      /\ \A i \in 1..2 : i # new_event => buf'[i] = buf[i]
  BY <1>1 DEF StartofNewEvent
<1>3. BufferOwnership'
  BY <1>0, <1>1, <1>2 DEF PipelineInv, BufferOwnership, Running
<1>4. ReadSoFar'
  <2>1. Len(truth') = nread' - 1
    BY <1>0, <1>1 DEF PipelineInv, ReadSoFar
  <2>2. /\ buf'[new_event].id = nread' /\ buf'[new_event].type = cur'.tag
        /\ buf'[new_event].hits = {} /\ buf'[new_event].trg = "NotFromTI"
    BY <1>2 DEF Empty
  <2>3. Len(cur'.banks) \in Nat
    BY <1>0, ShapeFields
  <2> QED
    BY <1>0, <2>1, <2>2, <2>3, OwnHitsNone, InEffectStart DEF ReadSoFar
<1>5. CompleteBuffers'
  <2>1. endpc \in {"start", "store"} => ev # new_event
    BY <1>1 DEF PipelineInv, BufferOwnership, Running
  <2> QED
    BY <1>0, <1>1, <1>2, <2>1 DEF PipelineInv, CompleteBuffers
<1>6. BankHoldsOwnData' /\ ReplayWritesOwnData'
  BY <1>0 DEF PipelineInv, BankHoldsOwnData, ReplayWritesOwnData
<1> QED
  BY <1>3, <1>4, <1>5, <1>6 DEF PipelineInv

LEMMA FeedInv == PipelineInv /\ FeedBank /\ TypeOK' => PipelineInv'
<1> SUFFICES ASSUME PipelineInv, FeedBank, TypeOK' PROVE PipelineInv'
  OBVIOUS
<1> DEFINE b == cur.banks[pos]
           e == buf[new_event]
           f == buf'[new_event]
<1>0. /\ UNCHANGED <<pc, cur, new_event, proc_event, ev, endpc, truth, nread, event_data, dst>>
      /\ pc = "parse" /\ pos' = pos + 1 /\ pos <= Len(cur.banks)
  BY DEF FeedBank, ptrs, store, ghosts
<1>10. NumberBank(b) \/ TriggerBank(b) \/ AdcBank(b) \/ RawBank(b) \/ EpicsBank(b)
  BY DEF FeedBank
<1>1. /\ new_event # proc_event /\ new_event \in 1..2
      /\ proc_event \in 1..2 /\ ev \in 1..2 /\ nread \in Nat /\ pos \in Nat \ {0}
      /\ buf \in [1..2 -> Events]
  BY <1>0 DEF PipelineInv, BufferOwnership, TypeOK
<1>2. Len(cur.banks) \in Nat /\ b \in Banks
  BY <1>0, <1>1, ShapeFields DEF PipelineInv, TypeOK
<1>3. \A i \in 1..2 : i # new_event => buf'[i] = buf[i]
  BY <1>1, <1>10 DEF NumberBank, TriggerBank, AdcBank, RawBank, EpicsBank, AddHit
<1>4. /\ e.id = nread /\ e.type = cur.tag
      /\ e.hits = OwnHits(nread, cur.banks, pos - 1)
      /\ InEffect(e.trg, cur.banks, pos)
  BY <1>0 DEF PipelineInv, ReadSoFar
<1>5. /\ f.id = e.id /\ f.type = e.type
      /\ f.trg = IF b.kind = "TI" THEN b.trg ELSE e.trg
      /\ f.hits = e.hits \cup (IF Belongs(cur.banks, pos) THEN {<<nread, pos>>} ELSE {})
  <2>1. e \in Events
    BY <1>1
  <2>2. CASE b.kind = "EVINFO" \/ b.kind = "EPICS"
    <3>1. ~Belongs(cur.banks, pos) /\ f = e
      BY <1>10, <2>2 DEF Belongs, NumberBank, TriggerBank, AdcBank, RawBank, EpicsBank
    <3> QED
      BY <2>2, <3>1
  <2>3. CASE b.kind = "TI"
    <3>1. ~Belongs(cur.banks, pos)
      BY <2>3 DEF Belongs
    <3>2. f = [e EXCEPT !.trg = b.trg]
      BY <1>1, <1>10, <2>3 DEF NumberBank, TriggerBank, AdcBank, RawBank, EpicsBank
    <3> QED
      BY <2>1, <2>3, <3>1, <3>2 DEF Events
  <2>4. CASE b.kind = "ADC"
    <3>1. Belongs(cur.banks, pos) <=> Kept(e.trg, b)
      BY <1>1, <1>4, <2>4, InEffectDecides
    <3>2. f = IF Kept(e.trg, b) THEN [e EXCEPT !.hits = @ \cup {<<nread, pos>>}] ELSE e
      BY <1>1, <1>10, <2>4 DEF NumberBank, TriggerBank, AdcBank, RawBank, EpicsBank, AddHit
    <3> QED
      BY <2>1, <2>4, <3>1, <3>2 DEF Events
  <2>5. CASE b.kind = "RAW"
    <3>1. Belongs(cur.banks, pos)
      BY <2>5 DEF Belongs
    <3>2. f = [e EXCEPT !.hits = @ \cup {<<nread, pos>>}]
      BY <1>1, <1>10, <2>5 DEF NumberBank, TriggerBank, AdcBank, RawBank, EpicsBank, AddHit
    <3> QED
      BY <2>1, <2>5, <3>1, <3>2 DEF Events
  <2> QED
    BY <1>2, <2>2, <2>3, <2>4, <2>5 DEF Banks
<1>6. BufferOwnership'
  BY <1>0, <1>1, <1>3 DEF PipelineInv, BufferOwnership, Running
<1>7. ReadSoFar'
  <2>1. f.hits = OwnHits(nread, cur.banks, pos' - 1)
    BY <1>0, <1>1, <1>4, <1>5, OwnHitsStep
  <2>2. InEffect(f.trg, cur.banks, pos')
    BY <1>0, <1>1, <1>4, <1>5, InEffectStep
  <2>3. pos' <= Len(cur.banks) + 1
    BY <1>0, <1>1, <1>2
  <2>4. Len(truth) = nread - 1
    BY <1>0 DEF PipelineInv, ReadSoFar
  <2> QED
    BY <1>0, <1>4, <1>5, <2>1, <2>2, <2>3, <2>4 DEF ReadSoFar
<1>8. CompleteBuffers'
  <2>1. endpc \in {"start", "store"} => ev # new_event
    BY <1>1 DEF PipelineInv, BufferOwnership, Running
  <2> QED
    BY <1>0, <1>1, <1>3, <2>1 DEF PipelineInv, CompleteBuffers
<1>9. BankHoldsOwnData' /\ ReplayWritesOwnData'
  BY <1>0 DEF PipelineInv, BankHoldsOwnData, ReplayWritesOwnData
<1> QED
  BY <1>6, <1>7, <1>8, <1>9 DEF PipelineInv

LEMMA EndInv == PipelineInv /\ EndofThisEvent /\ TypeOK' => PipelineInv'
<1> SUFFICES ASSUME PipelineInv, EndofThisEvent, TypeOK' PROVE PipelineInv'
  OBVIOUS
<1> DEFINE e == buf[new_event]
           f == buf'[new_event]
           T == [tag : Parsed, banks : Seq(Banks), num : Nat, vals : [Channels -> Nat]]
           x == [tag |-> cur.tag, banks |-> cur.banks, num |-> event_number, vals |-> epics_values]
<1>0. /\ UNCHANGED <<cur, new_event, proc_event, ev, endpc, nread, event_data, dst>>
      /\ pc = "parse" /\ pc' = "join" /\ pos > Len(cur.banks)
      /\ truth' = Append(truth, x)
  BY DEF EndofThisEvent, ptrs, store
<1>1. /\ new_event # proc_event /\ new_event \in 1..2
      /\ proc_event \in 1..2 /\ ev \in 1..2 /\ nread \in Nat /\ pos \in Nat \ {0}
      /\ buf \in [1..2 -> Events] /\ truth \in Seq(T) /\ cur \in Shapes /\ cur.tag \in Parsed
      /\ event_number \in Nat /\ epics_values \in [Channels -> Nat]
      /\ event_data \in Seq(Events) /\ dst \in Seq(Events \cup EpicsRecords)
  BY <1>0 DEF PipelineInv, BufferOwnership, TypeOK
<1>2. x \in T /\ Len(cur.banks) \in Nat
  BY <1>1, ShapeFields
<1>3. /\ f = [e EXCEPT !.num = event_number]
      /\ \A i \in 1..2 : i # new_event => buf'[i] = buf[i]
  BY <1>1 DEF EndofThisEvent
<1>4. /\ Len(truth) = nread - 1 /\ pos <= Len(cur.banks) + 1
      /\ e.id = nread /\ e.type = cur.tag
      /\ e.hits = OwnHits(nread, cur.banks, pos - 1)
  BY <1>0 DEF PipelineInv, ReadSoFar
<1>5. /\ Len(truth') = nread /\ truth'[nread] = x
  <2> HIDE DEF x, T
  <2> QED
    BY <1>0, <1>1, <1>2, <1>4
<1>6. OwnData(f, truth')
  <2>1. e \in Events
    BY <1>1
  <2>2. f.id = nread /\ f.type = cur.tag /\ f.num = event_number /\ f.hits = e.hits
    BY <1>3, <1>4, <2>1 DEF Events
  <2>3. nread \in 1..Len(truth')
    BY <1>0, <1>1, <1>2, <1>4, <1>5
  <2>4. pos - 1 = Len(cur.banks)
    BY <1>0, <1>1, <1>2, <1>4
  <2> QED
    BY <1>4, <1>5, <2>2, <2>3, <2>4 DEF OwnData
<1>7. BufferOwnership'
  BY <1>0, <1>1, <1>3 DEF PipelineInv, BufferOwnership, Running
<1>8. ReadSoFar'
  <2>1. f.id = nread
    BY <1>1, <1>3, <1>4 DEF Events
  <2> QED
    BY <1>0, <1>5, <2>1 DEF ReadSoFar
<1>9. \A r : (OwnData(r, truth) => OwnData(r, truth')) /\ (OwnRecord(r, truth) => OwnRecord(r, truth'))
  <2> HIDE DEF x, T
  <2> QED
    BY <1>0, <1>1, <1>2, OwnGrows
<1>10. CompleteBuffers'
  <2>1. endpc \in {"start", "store"} => ev # new_event /\ OwnData(buf[ev], truth)
    BY <1>1 DEF PipelineInv, BufferOwnership, Running, CompleteBuffers
  <2> QED
    BY <1>0, <1>1, <1>3, <1>6, <1>9, <2>1 DEF CompleteBuffers
<1>11. BankHoldsOwnData' /\ ReplayWritesOwnData'
  BY <1>0, <1>9 DEF PipelineInv, BankHoldsOwnData, ReplayWritesOwnData
<1> QED
  BY <1>7, <1>8, <1>10, <1>11 DEF PipelineInv

(* The join is what makes the swap safe: the other buffer is clean.        *)
LEMMA SwapInv == PipelineInv /\ SwapAndSpawn /\ TypeOK' => PipelineInv'
<1> SUFFICES ASSUME PipelineInv, SwapAndSpawn, TypeOK' PROVE PipelineInv'
  OBVIOUS
<1>0. /\ UNCHANGED <<cur, buf, nread, truth, event_data, dst>>
      /\ pc = "join" /\ pc' = "fetch" /\ Joined
      /\ new_event' = proc_event /\ proc_event' = new_event /\ ev' = new_event
      /\ endpc' = "start"
  BY DEF SwapAndSpawn, SwapPointers, store, ghosts
<1>1. new_event # proc_event /\ buf[proc_event] = Empty
  BY <1>0 DEF PipelineInv, BufferOwnership, Joined, Running
<1>2. BufferOwnership'
  BY <1>0, <1>1 DEF BufferOwnership, Running
<1>3. ReadSoFar'
  BY <1>0 DEF PipelineInv, ReadSoFar
<1>4. CompleteBuffers'
  BY <1>0 DEF PipelineInv, CompleteBuffers
<1>5. BankHoldsOwnData' /\ ReplayWritesOwnData'
  BY <1>0 DEF PipelineInv, BankHoldsOwnData, ReplayWritesOwnData
<1> QED
  BY <1>2, <1>3, <1>4, <1>5 DEF PipelineInv

LEMMA ParseInv == PipelineInv /\ Parse => PipelineInv'
<1> SUFFICES ASSUME PipelineInv, Parse PROVE PipelineInv'
  OBVIOUS
<1>0. TypeOK'
  BY ParseType DEF PipelineInv
<1>1. CASE SkipEvent
  <2>1. BetweenEvents
    BY <1>1 DEF SkipEvent, BetweenEvents, ptrs, store, ghosts
  <2> QED
    BY <1>0, <2>1, BetweenEventsInv
<1>2. CASE StartofNewEvent
  BY <1>0, <1>2, StartInv
<1>3. CASE FeedBank
  BY <1>0, <1>3, FeedInv
<1>4. CASE EndofThisEvent
  BY <1>0, <1>4, EndInv
<1>5. CASE SwapAndSpawn
  BY <1>0, <1>5, SwapInv
<1>6. CASE EndOfFile
  <2>1. BetweenEvents
    BY <1>6 DEF EndOfFile, BetweenEvents, ptrs, store, ghosts
  <2> QED
    BY <1>0, <2>1, BetweenEventsInv
<1>7. CASE NextFile
  <2>1. BetweenEvents
    BY <1>7 DEF NextFile, BetweenEvents, Joined, store, ghosts
  <2> QED
    BY <1>0, <2>1, BetweenEventsInv
<1>8. CASE Return
  <2>1. BetweenEvents
    BY <1>8 DEF Return, BetweenEvents, Joined, store, ghosts
  <2> QED
    BY <1>0, <2>1, BetweenEventsInv
<1>9. CASE FitPedestal
  <2>1. BetweenEvents
    BY <1>9 DEF FitPedestal, BetweenEvents, ptrs, store, ghosts
  <2> QED
    BY <1>0, <2>1, BetweenEventsInv
<1>10. CASE InitErase
  <2>1. BetweenEvents
    BY <1>10 DEF InitErase, Erase, BetweenEvents, ptrs
  <2> QED
    BY <1>0, <2>1, BetweenEventsInv
<1> QED
  BY <1>1, <1>2, <1>3, <1>4, <1>5, <1>6, <1>7, <1>8, <1>9, <1>10 DEF Parse

LEMMA EndProcessInv == PipelineInv /\ EndProcess => PipelineInv'
<1> SUFFICES ASSUME PipelineInv, EndProcess PROVE PipelineInv'
  OBVIOUS
<1>0. TypeOK'
  BY EndProcessType DEF PipelineInv
<1>1. /\ UNCHANGED <<pc, cur, pos, new_event, proc_event, ev, nread, truth>>
      /\ endpc \in {"start", "store", "clear"}
  BY DEF EndProcess, FillHistograms, StoreEpics, StoreEvent, ClearBuffer, caller, ghosts
<1>2. /\ ev = proc_event /\ new_event # proc_event /\ ev \in 1..2 /\ new_event \in 1..2
      /\ buf \in [1..2 -> Events] /\ event_data \in Seq(Events)
      /\ dst \in Seq(Events \cup EpicsRecords)
  BY <1>1 DEF PipelineInv, BufferOwnership, Running, TypeOK
<1>3. CASE FillHistograms
  <2>1. endpc = "start" /\ endpc' = "store" /\ UNCHANGED <<buf, event_data, dst>>
    BY <1>3 DEF FillHistograms
  <2>2. BufferOwnership' /\ ReadSoFar' /\ CompleteBuffers'
    BY <1>1, <2>1 DEF PipelineInv, BufferOwnership, Running, ReadSoFar, CompleteBuffers
  <2>3. BankHoldsOwnData' /\ ReplayWritesOwnData'
    BY <1>1, <2>1 DEF PipelineInv, BankHoldsOwnData, ReplayWritesOwnData
  <2> QED
    BY <1>0, <2>2, <2>3 DEF PipelineInv
<1>4. CASE StoreEpics \/ StoreEvent
  <2>1. endpc = "store" /\ endpc' = "clear" /\ UNCHANGED buf
    BY <1>4 DEF StoreEpics, StoreEvent
  <2>2. OwnData(buf[ev], truth) /\ buf[ev] \in Events
    BY <1>2, <2>1 DEF PipelineInv, CompleteBuffers
  <2>3. BufferOwnership' /\ ReadSoFar' /\ CompleteBuffers'
    BY <1>1, <2>1 DEF PipelineInv, BufferOwnership, Running, ReadSoFar, CompleteBuffers
  <2>4. /\ \A i \in 1..Len(event_data) : OwnData(event_data[i], truth)
        /\ \A i \in 1..Len(dst) : OwnRecord(dst[i], truth)
    BY DEF PipelineInv, BankHoldsOwnData, ReplayWritesOwnData
  <2>5. \A i \in 1..Len(DropFirst(event_data)) : OwnData(DropFirst(event_data)[i], truth)
    BY <1>2, <2>4, DropFirstAll
  <2>6. DropFirst(event_data) \in Seq(Events)
    BY <1>2 DEF DropFirst
  <2>7. BankHoldsOwnData'
    <3>1. CASE event_data' = event_data \/ event_data' = DropFirst(event_data)
      BY <1>1, <2>4, <2>5, <3>1 DEF BankHoldsOwnData
    <3>2. CASE event_data' = Append(DropFirst(event_data), buf[ev])
      BY <1>1, <2>2, <2>5, <2>6, <3>2, AppendAll DEF BankHoldsOwnData
    <3> QED
      BY <1>4, <3>1, <3>2, Zenon DEF StoreEpics, StoreEvent
  <2>8. OwnRecord(buf[ev], truth)
    BY <2>2 DEF OwnRecord, OwnData
  <2>9. buf[ev].type = "EPICS_Info" => OwnRecord(EpicsRecord, truth) /\ EpicsRecord \in EpicsRecords
    <3>1. EpicsRecord.id = buf[ev].id /\ EpicsRecord.num = buf[ev].num
      BY DEF EpicsRecord
    <3>2. EpicsRecord \in EpicsRecords
      <4>1. epics_values \in [Channels -> Nat]
        BY DEF PipelineInv, TypeOK
      <4> QED
        BY <2>2, <4>1 DEF EpicsRecord, EpicsRecords, Events
    <3> QED
      BY <2>2, <3>1, <3>2 DEF OwnRecord, OwnData
  <2>10. ReplayWritesOwnData'
    <3>1. CASE dst' = dst
      BY <1>1, <2>4, <3>1 DEF ReplayWritesOwnData
    <3>2. CASE dst' = Append(dst, buf[ev])
      BY <1>1, <1>2, <2>2, <2>4, <2>8, <3>2, AppendAll DEF ReplayWritesOwnData
    <3>3. CASE buf[ev].type = "EPICS_Info" /\ dst' = Append(dst, EpicsRecord)
      BY <1>1, <1>2, <2>4, <2>9, <3>3, AppendAll DEF ReplayWritesOwnData
    <3> QED
      BY <1>4, <3>1, <3>2, <3>3, Zenon DEF StoreEpics, StoreEvent
  <2> QED
    BY <1>0, <2>3, <2>7, <2>10 DEF PipelineInv
<1>5. CASE ClearBuffer
  <2>1. /\ endpc' = "done" /\ UNCHANGED <<event_data, dst>>
        /\ buf'[ev] = Empty /\ buf'[new_event] = buf[new_event]
    BY <1>2, <1>5 DEF ClearBuffer, store
  <2>2. BufferOwnership' /\ ReadSoFar' /\ CompleteBuffers'
    BY <1>1, <1>2, <2>1 DEF PipelineInv, BufferOwnership, Running, ReadSoFar, CompleteBuffers
  <2>3. BankHoldsOwnData' /\ ReplayWritesOwnData'
    BY <1>1, <2>1 DEF PipelineInv, BankHoldsOwnData, ReplayWritesOwnData
  <2> QED
    BY <1>0, <2>2, <2>3 DEF PipelineInv
<1> QED
  BY <1>3, <1>4, <1>5 DEF EndProcess

LEMMA UnchangedInv == PipelineInv /\ UNCHANGED vars => PipelineInv'
<1> SUFFICES ASSUME PipelineInv, UNCHANGED vars PROVE PipelineInv'
  OBVIOUS
<1>1. UNCHANGED <<pc, cur, pos, new_event, proc_event, ev, endpc, nread, truth, buf, event_data, dst>>
  BY DEF vars, caller, ptrs, store, ghosts
<1>2. TypeOK'
  BY DEF PipelineInv, TypeOK, vars, caller, ptrs, store, modes, ghosts
<1>3. BufferOwnership' /\ ReadSoFar' /\ CompleteBuffers'
  BY <1>1 DEF PipelineInv, BufferOwnership, Running, ReadSoFar, CompleteBuffers
<1>4. BankHoldsOwnData' /\ ReplayWritesOwnData'
  BY <1>1 DEF PipelineInv, BankHoldsOwnData, ReplayWritesOwnData
<1> QED
  BY <1>2, <1>3, <1>4 DEF PipelineInv

LEMMA PipelineInvariant == Spec => []PipelineInv
<1>1. PipelineInv /\ [Next]_vars => PipelineInv'
  BY UnchangedInv, InvokeInv, ParseInv, EndProcessInv DEF Next
<1> QED
  BY <1>1, InitInv, PTL DEF Spec

(* The join of waitEventProcess keeps the two threads on different buffers *)
(* and hands the parser a clean one (EndofThisEvent, EndProcess).          *)
THEOREM BufferOwnershipHolds == Spec => []BufferOwnership
<1>1. PipelineInv => BufferOwnership
  BY DEF PipelineInv
<1> QED
  BY <1>1, PipelineInvariant, PTL

(* Whatever is read and in whatever operation, the data bank never mixes   *)
(* the data of two events (FeedData, EndofThisEvent, EndProcess).          *)
THEOREM BankHoldsOwn == Spec => []BankHoldsOwnData
<1>1. PipelineInv => BankHoldsOwnData
  BY DEF PipelineInv
<1> QED
  BY <1>1, PipelineInvariant, PTL

(* Nor does the DST file of a replay (Replay, EndProcess).                 *)
THEOREM ReplayWritesOwn == Spec => []ReplayWritesOwnData
<1>1. PipelineInv => ReplayWritesOwnData
  BY DEF PipelineInv
<1> QED
  BY <1>1, PipelineInvariant, PTL

-----------------------------------------------------------------------------
(* What the histograms hold: an event is filled in before the next one is   *)
(* handed over, and was not cleared in between.                             *)
HistInv == /\ HistogramsComplete
           /\ cleared \subseteq 1..Accepted
           /\ endpc = "start" => buf[ev].id \in (1..Accepted) \ cleared

LEMMA HistInit == Init => HistInv
  BY DEF Init, HistInv, HistogramsComplete, Handed, Accepted

(* A step that leaves the histograms, and what end_thread was handed, alone. *)
LEMMA HistKept ==
  ASSUME PipelineInv, HistInv,
         UNCHANGED <<hist, cleared, truth, nread>>,
         pc' = "join" <=> pc = "join", Accepted' = Accepted,
         endpc' = endpc \/ (endpc # "start" /\ endpc' # "start"),
         endpc' = "start" => ev' = ev /\ buf'[ev].id = buf[ev].id
  PROVE  HistInv'
BY DEF HistInv, HistogramsComplete, Handed

(* All that was read is erased, but the event end_thread has not begun.     *)
LEMMA HistErased ==
  ASSUME PipelineInv, HistInv, Erase, pc \notin {"parse", "join"},
         pc' \notin {"parse", "join"}, UNCHANGED <<ev, endpc, buf>>
  PROVE  HistInv'
<1>1. /\ hist' = {} /\ cleared' = (1..nread) \ Handed /\ UNCHANGED <<nread, truth>>
      /\ Len(truth) = nread /\ Accepted' = nread /\ Accepted = nread
      /\ Handed' = Handed
  BY DEF Erase, PipelineInv, ReadSoFar, Accepted, Handed
<1>2. HistogramsComplete'
  BY <1>1 DEF HistogramsComplete
<1> QED
  BY <1>1, <1>2 DEF HistInv, Handed

LEMMA HistInvoke == PipelineInv /\ HistInv /\ Invoke => HistInv'
<1> SUFFICES ASSUME PipelineInv, HistInv, Invoke PROVE HistInv'
  OBVIOUS
<1>1. CASE Clear \/ startOnlineMode
  BY <1>1, HistErased DEF Clear, startOnlineMode, Begin, ptrs
<1>2. CASE ~(Clear \/ startOnlineMode)
  <2>1. /\ pc = "idle" /\ pc' \in {"idle", "fetch"}
        /\ UNCHANGED <<hist, cleared, truth, nread, endpc, ev, buf>>
    BY <1>2 DEF Invoke, Decode, ReadFromEvio, Replay, InitializeByData, stopOnlineMode,
                Begin, ReadEvioFile, ptrs, store, ghosts
  <2>2. Accepted' = Accepted
    BY <2>1 DEF Accepted
  <2> QED
    BY <2>1, <2>2, HistKept
<1> QED
  BY <1>1, <1>2

LEMMA HistParse == PipelineInv /\ HistInv /\ Parse => HistInv'
<1> SUFFICES ASSUME PipelineInv, HistInv, Parse PROVE HistInv'
  OBVIOUS
<1>0. /\ nread \in Nat /\ new_event # proc_event /\ new_event \in 1..2 /\ proc_event \in 1..2
      /\ buf \in [1..2 -> Events] /\ (endpc = "start" => ev = proc_event)
      /\ Len(truth) = IF pc = "parse" THEN nread - 1 ELSE nread
  BY DEF PipelineInv, TypeOK, BufferOwnership, Running, ReadSoFar
<1>1. CASE SkipEvent \/ EndOfFile \/ FitPedestal
  <2>1. /\ pc \notin {"parse", "join"} /\ pc' \notin {"parse", "join"}
        /\ UNCHANGED <<hist, cleared, truth, nread, endpc, ev, buf>>
    BY <1>1 DEF SkipEvent, EndOfFile, FitPedestal, ptrs, store, ghosts
  <2> QED
    BY <2>1, HistKept DEF Accepted
<1>2. CASE NextFile \/ Return
  <2>1. /\ pc \notin {"parse", "join"} /\ pc' \notin {"parse", "join"}
        /\ UNCHANGED <<hist, cleared, truth, nread, ev, buf>>
        /\ endpc # "start" /\ endpc' # "start"
    BY <1>2 DEF NextFile, Return, Joined, store, ghosts
  <2> QED
    BY <2>1, HistKept DEF Accepted
<1>3. CASE StartofNewEvent
  <2>1. /\ pc = "fetch" /\ pc' = "parse" /\ nread' = nread + 1
        /\ UNCHANGED <<hist, cleared, truth, endpc, ev>>
        /\ Accepted' = Accepted
    BY <1>0, <1>3 DEF StartofNewEvent, Accepted, ptrs, store
  <2>2. endpc = "start" => buf'[ev] = buf[ev]
    BY <1>0, <1>3 DEF StartofNewEvent
  <2>3. Handed' = Handed
    BY <2>1, <2>2 DEF Handed
  <2> QED
    BY <2>1, <2>2, <2>3 DEF HistInv, HistogramsComplete
<1>4. CASE FeedBank
  <2>1. /\ pc = "parse" /\ UNCHANGED <<pc, hist, cleared, truth, nread, endpc, ev>>
    BY <1>4 DEF FeedBank, ptrs, store, ghosts
  <2>2. endpc = "start" => buf'[ev] = buf[ev]
    <3> DEFINE b == cur.banks[pos]
    <3>1. NumberBank(b) \/ TriggerBank(b) \/ AdcBank(b) \/ RawBank(b) \/ EpicsBank(b)
      BY <1>4 DEF FeedBank
    <3> QED
      BY <1>0, <3>1 DEF NumberBank, TriggerBank, AdcBank, RawBank, EpicsBank, AddHit
  <2> QED
    BY <2>1, <2>2, HistKept DEF Accepted
<1>5. CASE EndofThisEvent
  <2> DEFINE x == [tag |-> cur.tag, banks |-> cur.banks, num |-> event_number, vals |-> epics_values]
             T == [tag : Parsed, banks : Seq(Banks), num : Nat, vals : [Channels -> Nat]]
  <2>1. /\ pc = "parse" /\ pc' = "join" /\ truth' = Append(truth, x)
        /\ UNCHANGED <<hist, cleared, nread, endpc, ev>>
        /\ Accepted' = Accepted /\ Accepted = nread - 1
    BY <1>5 DEF EndofThisEvent, Accepted, ptrs, store
  <2>2. endpc = "start" => buf'[ev].id = buf[ev].id
    BY <1>0, <1>5 DEF EndofThisEvent
  <2>3. Handed' = Handed
    BY <2>1, <2>2 DEF Handed
  <2>4. truth \in Seq(T) /\ Len(truth) = nread - 1
    BY <1>0, <2>1 DEF PipelineInv, TypeOK
  <2>5. x \in T
    <3>1. cur \in Shapes /\ cur.tag \in Parsed /\ event_number \in Nat
          /\ epics_values \in [Channels -> Nat]
      BY <2>1 DEF PipelineInv, TypeOK
    <3> QED
      BY <3>1, ShapeFields
  <2> HIDE DEF x, T
  <2>6. Len(truth') = nread /\ \A i \in 1..nread - 1 : truth'[i] = truth[i]
    BY <1>0, <2>1, <2>4, <2>5
  <2>7. HistogramsComplete'
    BY <1>0, <2>1, <2>3, <2>4, <2>6 DEF HistInv, HistogramsComplete
  <2> QED
    BY <2>1, <2>2, <2>7 DEF HistInv
<1>6. CASE SwapAndSpawn
  <2>1. /\ pc = "join" /\ pc' = "fetch" /\ endpc # "start" /\ endpc' = "start" /\ ev' = new_event
        /\ UNCHANGED <<hist, cleared, nread, truth, buf>>
        /\ Accepted' = nread /\ Accepted = nread - 1
    BY <1>6 DEF SwapAndSpawn, Joined, Accepted, store, ghosts
  <2>2. Handed = {} /\ Handed' = {buf[new_event].id}
    BY <2>1 DEF Handed
  <2>3. buf[new_event].id = nread /\ nread \in 1..nread
    <3>1. OwnData(buf[new_event], truth) /\ buf[new_event].id = nread
      BY <2>1 DEF PipelineInv, CompleteBuffers, ReadSoFar
    <3> QED
      BY <1>0, <2>1, <3>1 DEF OwnData
  <2> QED
    BY <1>0, <2>1, <2>2, <2>3 DEF HistInv, HistogramsComplete
<1>7. CASE InitErase
  BY <1>7, HistErased DEF InitErase, ptrs
<1> QED
  BY <1>1, <1>2, <1>3, <1>4, <1>5, <1>6, <1>7 DEF Parse

LEMMA HistEndProcess == PipelineInv /\ HistInv /\ EndProcess => HistInv'
<1> SUFFICES ASSUME PipelineInv, HistInv, EndProcess PROVE HistInv'
  OBVIOUS
<1>1. UNCHANGED <<pc, ev, cleared, truth, nread>> /\ Accepted' = Accepted
  BY DEF EndProcess, FillHistograms, StoreEpics, StoreEvent, ClearBuffer, caller, ghosts, Accepted
<1>2. CASE FillHistograms
  <2> DEFINE id == buf[ev].id
  <2>1. /\ endpc = "start" /\ endpc' = "store" /\ UNCHANGED buf
        /\ hist' = IF buf[ev].type = "EPICS_Info" THEN hist ELSE hist \cup {id}
    BY <1>2 DEF FillHistograms
  <2>2. id \in 1..Len(truth) /\ buf[ev].type = truth[id].tag
    BY <2>1 DEF PipelineInv, CompleteBuffers, OwnData
  <2>3. id \notin cleared /\ (pc = "join" => id # nread)
    BY <2>1 DEF HistInv, Accepted, PipelineInv, TypeOK
  <2>4. Handed = {id} /\ Handed' = {}
    BY <2>1 DEF Handed
  <2>5. HistogramsComplete'
    BY <1>1, <2>1, <2>2, <2>3, <2>4 DEF HistInv, HistogramsComplete
  <2> QED
    BY <1>1, <2>1, <2>5 DEF HistInv
<1>3. CASE StoreEpics \/ StoreEvent \/ ClearBuffer
  <2>1. endpc # "start" /\ endpc' # "start" /\ UNCHANGED hist
    BY <1>3 DEF StoreEpics, StoreEvent, ClearBuffer, store
  <2> QED
    BY <1>1, <2>1, HistKept
<1> QED
  BY <1>2, <1>3 DEF EndProcess

(* The histograms hold every event read that was not cleared, except the    *)
(* one being parsed and the one end_thread has not looked at yet, whatever  *)
(* the operations and the interleaving (EndProcess, FillHistograms, Clear). *)
THEOREM EveryEventInHistograms == Spec => []HistogramsComplete
<1>1. PipelineInv /\ HistInv /\ [Next]_vars => HistInv'
  <2>1. PipelineInv /\ HistInv /\ UNCHANGED vars => HistInv'
    BY HistKept DEF vars, caller, ptrs, store, ghosts, Accepted
  <2> QED
    BY <2>1, HistInvoke, HistParse, HistEndProcess DEF Next
<1>2. HistInv => HistogramsComplete
  BY DEF HistInv
<1> QED
  BY <1>1, <1>2, HistInit, PipelineInvariant, PTL DEF Spec

-----------------------------------------------------------------------------
(* Without InitializeByData, the one operation that does not wait for       *)
(* end_thread, the event path implements EventStore.                        *)
Store == INSTANCE EventStore WITH
  accepted <- Accepted, pending <- Pending,
  bank <- Ordinals(event_data), log <- Ordinals(epics_data), file <- Ordinals(dst),
  online <- onlineMode, replay <- replayMode

Waits == "InitializeByData" \notin Commands

(* Modes change when nothing is on its way, and online mode keeps one event. *)
ModeInv ==
  /\ cmd # "InitializeByData" /\ pc \notin {"fit", "erase"}
  /\ pc = "idle" => ~Running /\ ~replayMode
  /\ onlineMode => ~replayMode /\ Len(event_data) <= 1 /\ Len(epics_data) <= 1

LEMMA ModeInit == Init => ModeInv
  BY DEF Init, ModeInv, Running

LEMMA DropFirstLen ==
  ASSUME NEW S, NEW s \in Seq(S)
  PROVE  /\ DropFirst(s) \in Seq(S)
         /\ ~onlineMode => DropFirst(s) = s
         /\ onlineMode /\ Len(s) <= 1 => DropFirst(s) = <<>>
<1>1. CASE onlineMode /\ s # <<>>
  <2>1. DropFirst(s) = Tail(s) /\ Len(s) \in Nat /\ Len(s) # 0
    BY <1>1 DEF DropFirst
  <2>2. Len(s) <= 1 => Tail(s) = <<>>
    BY <2>1
  <2> QED
    BY <1>1, <2>1, <2>2
<1>2. CASE ~(onlineMode /\ s # <<>>)
  BY <1>2 DEF DropFirst
<1> QED
  BY <1>1, <1>2

LEMMA ModeStep ==
  ASSUME Waits, PipelineInv, ModeInv, [Next]_vars
  PROVE  ModeInv'
<1> USE DEF ModeInv, Running
<1>0. event_data \in Seq(Events) /\ epics_data \in Seq(EpicsRecords)
      /\ event_data' \in Seq(Events) /\ epics_data' \in Seq(EpicsRecords)
  <2>1. PipelineInv'
    <3>1. PipelineInv /\ UNCHANGED vars => PipelineInv'
      BY UnchangedInv
    <3> QED
      BY <3>1, InvokeInv, ParseInv, EndProcessInv DEF Next
  <2> QED
    BY <2>1 DEF PipelineInv, TypeOK
<1>1. CASE Decode \/ ReadFromEvio \/ Replay
  BY <1>1 DEF Decode, ReadFromEvio, Replay, Begin, ReadEvioFile, modes, ptrs, store
<1>2. CASE InitializeByData
  BY <1>2 DEF InitializeByData, Begin, Waits
<1>3. CASE Clear \/ startOnlineMode \/ stopOnlineMode
  BY <1>3 DEF Clear, startOnlineMode, stopOnlineMode, Begin, Erase, modes, ptrs, store
<1>4. CASE Parse
  BY <1>4 DEF Parse, SkipEvent, StartofNewEvent, FeedBank, EndofThisEvent, SwapAndSpawn,
              EndOfFile, NextFile, Return, FitPedestal, InitErase, Joined, ptrs, store, modes
<1>5. CASE EndProcess
  <2>1. UNCHANGED <<pc, cmd, modes>> /\ Running
    BY <1>5 DEF EndProcess, FillHistograms, StoreEpics, StoreEvent, ClearBuffer, caller
  <2>2. CASE FillHistograms \/ ClearBuffer
    BY <2>1, <2>2 DEF FillHistograms, ClearBuffer, store, modes
  <2>3. CASE StoreEpics \/ StoreEvent
    <3>1. ASSUME onlineMode PROVE Len(event_data') <= 1 /\ Len(epics_data') <= 1
      <4>1. DropFirst(event_data) = <<>> /\ DropFirst(epics_data) = <<>>
        BY <1>0, <3>1, DropFirstLen
      <4>2. \A x : Len(Append(<<>>, x)) <= 1
        OBVIOUS
      <4>3. ~replayMode /\ Len(event_data) <= 1 /\ Len(epics_data) <= 1
        BY <3>1
      <4>4. event_data' = event_data \/ \E x : event_data' = Append(<<>>, x)
        BY <2>3, <4>1, <4>3, Zenon DEF StoreEpics, StoreEvent
      <4>5. epics_data' \in {epics_data, Append(<<>>, EpicsRecord)}
        BY <2>3, <4>1, Zenon DEF StoreEpics, StoreEvent
      <4>6. Len(event_data') <= 1
        BY <4>2, <4>3, <4>4, Zenon
      <4>7. Len(epics_data') <= 1
        BY <4>2, <4>3, <4>5, Zenon
      <4> QED
        BY <4>6, <4>7
    <3> QED
      BY <2>1, <3>1 DEF modes
  <2> QED
    BY <1>5, <2>2, <2>3 DEF EndProcess
<1>6. CASE UNCHANGED vars
  BY <1>6 DEF vars, caller, ptrs, store, modes
<1> QED
  BY <1>1, <1>2, <1>3, <1>4, <1>5, <1>6 DEF Next, Invoke

LEMMA OrdinalsAppend ==
  ASSUME NEW S, NEW s \in Seq(S), NEW x \in S
  PROVE  Ordinals(Append(s, x)) = Append(Ordinals(s), x.id)
<1>1. /\ Append(s, x) \in Seq(S) /\ Len(s) \in Nat /\ Len(Append(s, x)) = Len(s) + 1
      /\ \A i \in 1..Len(s) : Append(s, x)[i] = s[i]
      /\ Append(s, x)[Len(s) + 1] = x
  OBVIOUS
<1> DEFINE I == {e.id : e \in S}
           o == Ordinals(s)
           r == Ordinals(Append(s, x))
<1>2. o \in Seq(I) /\ Len(o) = Len(s) /\ \A i \in 1..Len(s) : o[i] = s[i].id
  <2>1. \A i \in 1..Len(s) : s[i].id \in I
    OBVIOUS
  <2> HIDE DEF I
  <2> QED
    BY <1>1, <2>1 DEF Ordinals
<1>3. x.id \in I
  OBVIOUS
<1>4. r \in Seq(I) /\ Len(r) = Len(s) + 1
      /\ \A i \in 1..Len(s) + 1 : r[i] = Append(s, x)[i].id
  <2>1. \A i \in 1..Len(s) + 1 : Append(s, x)[i].id \in I
    BY <1>1
  <2> HIDE DEF I
  <2> QED
    BY <1>1, <2>1 DEF Ordinals
<1> HIDE DEF I, o, r
<1>5. /\ Append(o, x.id) \in Seq(I) /\ Len(Append(o, x.id)) = Len(s) + 1
      /\ \A i \in 1..Len(s) : Append(o, x.id)[i] = o[i]
      /\ Append(o, x.id)[Len(s) + 1] = x.id
  BY <1>2, <1>3
<1>6. \A i \in 1..Len(s) + 1 : r[i] = Append(o, x.id)[i]
  BY <1>1, <1>2, <1>4, <1>5
<1>7. r = Append(o, x.id)
  BY <1>1, <1>4, <1>5, <1>6
<1> QED
  BY <1>7 DEF o, r

LEMMA OrdinalsEmpty == Ordinals(<<>>) = <<>>
  BY DEF Ordinals

LEMMA StoreInitial == Init => Store!StoreInit
  BY OrdinalsEmpty DEF Init, Store!StoreInit, Accepted, Pending

(* What EventStore sees does not change, or only that data are erased or a  *)
(* mode changes.                                                            *)
LEMMA StoreInvoke ==
  ASSUME Waits, PipelineInv, ModeInv, Invoke
  PROVE  [Store!StoreNext]_Store!storeVars
<1>0. /\ pc = "idle" /\ Pending = <<>> /\ Accepted = nread
  BY DEF Invoke, Decode, ReadFromEvio, Replay, InitializeByData, Clear, startOnlineMode,
         stopOnlineMode, Begin, ModeInv, Running, Pending, Accepted
<1>1. pc' \in {"idle", "fetch"} /\ UNCHANGED <<endpc, nread>>
  BY DEF Invoke, Decode, ReadFromEvio, Replay, InitializeByData, Clear, startOnlineMode,
         stopOnlineMode, Begin, ReadEvioFile, Erase, ptrs, ghosts
<1>2. Pending' = <<>> /\ Accepted' = nread
  BY <1>0, <1>1 DEF ModeInv, Running, Pending, Accepted
<1>3. CASE Decode \/ ReadFromEvio
  <2>1. UNCHANGED <<event_data, epics_data, dst, onlineMode, replayMode>>
    BY <1>3 DEF Decode, ReadFromEvio, store, modes
  <2>2. UNCHANGED <<Ordinals(event_data), Ordinals(epics_data), Ordinals(dst)>>
    BY <2>1, Zenon
  <2> QED
    BY <1>0, <1>2, <2>1, <2>2 DEF Store!storeVars
<1>4. CASE Replay
  <2>1. /\ ~onlineMode /\ replayMode' = TRUE /\ dst' = <<>>
        /\ UNCHANGED <<event_data, epics_data, onlineMode>>
    BY <1>4 DEF Replay
  <2>2. Ordinals(dst)' = <<>> /\ UNCHANGED <<Ordinals(event_data), Ordinals(epics_data)>>
    BY <2>1, OrdinalsEmpty
  <2> QED
    BY <1>0, <1>2, <2>1, <2>2 DEF Store!StoreNext, Store!OpenReplay
<1>5. CASE InitializeByData
  BY <1>5 DEF InitializeByData, Begin, Waits
<1>6. CASE Clear \/ startOnlineMode
  <2>1. /\ event_data' = <<>> /\ epics_data' = <<>> /\ onlineMode' \in BOOLEAN
        /\ UNCHANGED <<dst, replayMode>>
    BY <1>6 DEF Clear, startOnlineMode, Erase, modes, PipelineInv, TypeOK
  <2>2. Ordinals(event_data)' = <<>> /\ Ordinals(epics_data)' = <<>> /\ UNCHANGED Ordinals(dst)
    BY <2>1, OrdinalsEmpty
  <2> QED
    BY <1>0, <1>2, <2>1, <2>2 DEF Store!StoreNext, Store!Reset
<1>7. CASE stopOnlineMode
  <2>1. /\ onlineMode' = FALSE /\ UNCHANGED <<event_data, epics_data, dst, replayMode>>
    BY <1>7 DEF stopOnlineMode, store
  <2>2. UNCHANGED <<Ordinals(event_data), Ordinals(epics_data), Ordinals(dst)>>
    BY <2>1, Zenon
  <2> QED
    BY <1>0, <1>2, <2>1, <2>2 DEF Store!StoreNext, Store!GoOffline
<1> QED
  BY <1>3, <1>4, <1>5, <1>6, <1>7 DEF Invoke

(* An event is accepted when it is handed over (SwapAndSpawn), and a replay *)
(* is over when its last event has been joined (Return).                    *)
LEMMA StoreParse ==
  ASSUME PipelineInv, ModeInv, Parse
  PROVE  [Store!StoreNext]_Store!storeVars
<1>0. /\ nread \in Nat /\ new_event # proc_event /\ new_event \in 1..2 /\ proc_event \in 1..2
      /\ buf \in [1..2 -> Events] /\ (endpc \in {"start", "store"} => ev = proc_event)
      /\ pc \notin {"fit", "erase"}
  BY DEF PipelineInv, TypeOK, BufferOwnership, Running, ModeInv
<1>1. UNCHANGED <<event_data, epics_data, dst, onlineMode>>
  BY <1>0 DEF Parse, SkipEvent, StartofNewEvent, FeedBank, EndofThisEvent, SwapAndSpawn,
         EndOfFile, NextFile, Return, FitPedestal, InitErase, store, modes
<1>2. UNCHANGED <<Ordinals(event_data), Ordinals(epics_data), Ordinals(dst)>>
  BY <1>1, Zenon
<1>3. ASSUME UNCHANGED <<Pending, Accepted, replayMode>>
      PROVE  UNCHANGED Store!storeVars
  BY <1>1, <1>2, <1>3 DEF Store!storeVars
<1>4. CASE SkipEvent \/ EndOfFile \/ FitPedestal \/ NextFile
  <2>1. /\ pc \notin {"parse", "join"} /\ pc' \notin {"parse", "join"}
        /\ UNCHANGED <<nread, buf, ev, replayMode>>
        /\ UNCHANGED endpc \/ (endpc \notin {"start", "store"} /\ endpc' \notin {"start", "store"})
    BY <1>4 DEF SkipEvent, EndOfFile, FitPedestal, NextFile, Joined, ptrs, ghosts, modes
  <2>2. UNCHANGED <<Pending, Accepted, replayMode>>
    BY <2>1 DEF Pending, Accepted
  <2> QED
    BY <1>3, <2>2
<1>5. CASE Return
  <2>1. /\ pc \notin {"parse", "join"} /\ pc' \notin {"parse", "join"} /\ replayMode' = FALSE
        /\ UNCHANGED nread
        /\ endpc \notin {"start", "store"} /\ endpc' \notin {"start", "store"}
    BY <1>5 DEF Return, Joined, ghosts
  <2>2. Pending = <<>> /\ Pending' = <<>> /\ Accepted' = Accepted
    BY <2>1 DEF Pending, Accepted
  <2> QED
    BY <1>1, <1>2, <2>1, <2>2 DEF Store!StoreNext, Store!CloseReplay
<1>6. CASE StartofNewEvent
  <2>1. /\ pc = "fetch" /\ pc' = "parse" /\ nread' = nread + 1 /\ UNCHANGED <<endpc, ev, replayMode>>
    BY <1>6 DEF StartofNewEvent, ptrs, modes
  <2>2. endpc \in {"start", "store"} => buf'[ev] = buf[ev]
    BY <1>0, <1>6 DEF StartofNewEvent
  <2>3. UNCHANGED <<Pending, Accepted>>
    BY <1>0, <2>1, <2>2 DEF Pending, Accepted
  <2> QED
    BY <1>3, <2>1, <2>3
<1>7. CASE FeedBank
  <2>1. UNCHANGED <<pc, nread, endpc, ev, replayMode>>
    BY <1>7 DEF FeedBank, ptrs, ghosts, modes
  <2>2. endpc \in {"start", "store"} => buf'[ev] = buf[ev]
    <3> DEFINE b == cur.banks[pos]
    <3>1. NumberBank(b) \/ TriggerBank(b) \/ AdcBank(b) \/ RawBank(b) \/ EpicsBank(b)
      BY <1>7 DEF FeedBank
    <3> QED
      BY <1>0, <3>1 DEF NumberBank, TriggerBank, AdcBank, RawBank, EpicsBank, AddHit
  <2>3. UNCHANGED <<Pending, Accepted>>
    BY <2>1, <2>2 DEF Pending, Accepted
  <2> QED
    BY <1>3, <2>1, <2>3
<1>8. CASE EndofThisEvent
  <2>1. /\ pc = "parse" /\ pc' = "join" /\ UNCHANGED <<nread, endpc, ev, replayMode>>
    BY <1>8 DEF EndofThisEvent, ptrs, modes
  <2>2. endpc \in {"start", "store"} => buf'[ev] = buf[ev]
    BY <1>0, <1>8 DEF EndofThisEvent
  <2>3. UNCHANGED <<Pending, Accepted>>
    BY <2>1, <2>2 DEF Pending, Accepted
  <2> QED
    BY <1>3, <2>1, <2>3
<1>9. CASE SwapAndSpawn
  <2>1. /\ pc = "join" /\ pc' = "fetch" /\ endpc \notin {"start", "store"} /\ endpc' = "start"
        /\ ev' = new_event /\ UNCHANGED <<nread, buf, replayMode>>
    BY <1>9 DEF SwapAndSpawn, Joined, ghosts, modes
  <2>2. buf[new_event].id = nread
    BY <2>1 DEF PipelineInv, ReadSoFar
  <2>3. Accepted = nread - 1 /\ Accepted' = Accepted + 1 /\ Pending = <<>>
    BY <1>0, <2>1 DEF Accepted, Pending
  <2>4. \E k \in {"event", "epics"} : Pending' = <<[id |-> Accepted + 1, kind |-> k]>>
    BY <1>0, <2>1, <2>2, <2>3 DEF Pending, Accepted
  <2> QED
    BY <1>1, <1>2, <2>1, <2>3, <2>4 DEF Store!StoreNext, Store!Accept
<1>10. CASE InitErase
  BY <1>0, <1>10 DEF InitErase
<1> QED
  BY <1>4, <1>5, <1>6, <1>7, <1>8, <1>9, <1>10 DEF Parse

(* end_thread delivers what it was handed when it stores it.                *)
LEMMA StoreEndProcess ==
  ASSUME PipelineInv, ModeInv, EndProcess
  PROVE  [Store!StoreNext]_Store!storeVars
<1>0. UNCHANGED <<pc, nread, ev, onlineMode, replayMode>> /\ Accepted' = Accepted
  BY DEF EndProcess, FillHistograms, StoreEpics, StoreEvent, ClearBuffer, caller, ghosts, modes,
         Accepted
<1>1. CASE FillHistograms \/ ClearBuffer
  <2>1. Pending' = Pending
    BY <1>0, <1>1 DEF FillHistograms, ClearBuffer, Pending
  <2>2. UNCHANGED <<event_data, epics_data, dst>>
    BY <1>1 DEF FillHistograms, ClearBuffer, store
  <2>3. UNCHANGED <<Ordinals(event_data), Ordinals(epics_data), Ordinals(dst)>>
    BY <2>2, Zenon
  <2> QED
    BY <1>0, <2>1, <2>3 DEF Store!storeVars
<1>2. CASE StoreEpics \/ StoreEvent
  <2> DEFINE kind == IF buf[ev].type = "EPICS_Info" THEN "epics" ELSE "event"
             e == [id |-> buf[ev].id, kind |-> kind]
  <2>1. endpc = "store" /\ endpc' = "clear" /\ UNCHANGED buf
    BY <1>2 DEF StoreEpics, StoreEvent
  <2>2. Pending = <<e>> /\ Pending' = <<>> /\ Pending # <<>> /\ Pending[1] = e
    BY <2>1 DEF Pending
  <2>3. /\ event_data \in Seq(Events) /\ epics_data \in Seq(EpicsRecords)
        /\ dst \in Seq(Events \cup EpicsRecords)
        /\ buf[ev] \in Events /\ EpicsRecord \in EpicsRecords /\ EpicsRecord.id = buf[ev].id
    <3>1. epics_values \in [Channels -> Nat] /\ buf[ev] \in Events
      BY DEF PipelineInv, TypeOK
    <3>2. EpicsRecord \in EpicsRecords
      BY <3>1 DEF EpicsRecord, EpicsRecords, Events
    <3> QED
      BY <3>1, <3>2 DEF PipelineInv, TypeOK, EpicsRecord
  <2>4. /\ Ordinals(Append(dst, buf[ev])) = Append(Ordinals(dst), e.id)
        /\ Ordinals(Append(dst, EpicsRecord)) = Append(Ordinals(dst), e.id)
    BY <2>3, OrdinalsAppend
  <2>5. /\ Ordinals(Append(DropFirst(event_data), buf[ev]))
             = Store!KeepLast(Ordinals(event_data), e.id)
        /\ Ordinals(Append(DropFirst(epics_data), EpicsRecord))
             = Store!KeepLast(Ordinals(epics_data), e.id)
    <3>1. \A S : \A s \in Seq(S) : \A x \in S : (onlineMode => Len(s) <= 1) =>
            Ordinals(Append(DropFirst(s), x)) = Store!KeepLast(Ordinals(s), x.id)
      <4> SUFFICES ASSUME NEW S, NEW s \in Seq(S), NEW x \in S, onlineMode => Len(s) <= 1
                   PROVE  Ordinals(Append(DropFirst(s), x)) = Store!KeepLast(Ordinals(s), x.id)
        OBVIOUS
      <4>1. Ordinals(Append(DropFirst(s), x)) = Append(Ordinals(DropFirst(s)), x.id)
        BY DropFirstLen, OrdinalsAppend
      <4>2. CASE onlineMode
        <5>1. Ordinals(DropFirst(s)) = <<>>
          BY <4>2, DropFirstLen, OrdinalsEmpty
        <5>2. Append(<<>>, x.id) = <<x.id>>
          OBVIOUS
        <5> QED
          BY <4>1, <4>2, <5>1, <5>2 DEF Store!KeepLast
      <4>3. CASE ~onlineMode
        <5>1. DropFirst(s) = s
          BY <4>3 DEF DropFirst
        <5> QED
          BY <4>1, <4>3, <5>1 DEF Store!KeepLast
      <4> QED
        BY <4>2, <4>3
    <3> QED
      BY <2>3, <3>1 DEF ModeInv
  <2>6. ASSUME replayMode PROVE Store!Deliver
    <3>1. DropFirst(event_data) = event_data
      BY <2>6 DEF ModeInv, DropFirst
    <3>2. UNCHANGED <<event_data, epics_data>> /\ Ordinals(dst)' = Append(Ordinals(dst), e.id)
      BY <1>2, <2>4, <2>6, <3>1 DEF StoreEpics, StoreEvent
    <3>3. UNCHANGED <<Ordinals(event_data), Ordinals(epics_data)>>
      BY <3>2, Zenon
    <3> QED
      BY <1>0, <2>2, <2>6, <3>2, <3>3 DEF Store!Deliver
  <2>7. ASSUME ~replayMode, StoreEvent PROVE Store!Deliver
    <3>1. /\ event_data' = Append(DropFirst(event_data), buf[ev])
          /\ UNCHANGED <<epics_data, dst>> /\ e.kind = "event"
      BY <2>7 DEF StoreEvent
    <3>2. Ordinals(event_data)' = Store!KeepLast(Ordinals(event_data), e.id)
      BY <2>5, <3>1, Zenon
    <3>3. UNCHANGED <<Ordinals(epics_data), Ordinals(dst)>>
      BY <3>1, Zenon
    <3> QED
      BY <1>0, <2>2, <2>7, <3>1, <3>2, <3>3 DEF Store!Deliver
  <2>8. ASSUME ~replayMode, StoreEpics PROVE Store!Deliver
    <3>1. /\ epics_data' = Append(DropFirst(epics_data), EpicsRecord)
          /\ UNCHANGED <<event_data, dst>> /\ e.kind = "epics"
      BY <2>8 DEF StoreEpics
    <3>2. Ordinals(epics_data)' = Store!KeepLast(Ordinals(epics_data), e.id)
      BY <2>5, <3>1, Zenon
    <3>3. UNCHANGED <<Ordinals(event_data), Ordinals(dst)>>
      BY <3>1, Zenon
    <3> QED
      BY <1>0, <2>2, <2>8, <3>1, <3>2, <3>3 DEF Store!Deliver
  <2> QED
    BY <1>2, <2>6, <2>7, <2>8 DEF Store!StoreNext
<1> QED
  BY <1>1, <1>2 DEF EndProcess

(* Operations that wait for end_thread deliver every event once, in order,  *)
(* to the destination selected when it was read (EndofThisEvent,            *)
(* EndProcess): the safety of MCEventPipeline's ImplementsStore, for any    *)
(* files, commands and limits.                                              *)
THEOREM StoreImplemented == Waits /\ Spec => Store!StoreSpec
<1> SUFFICES ASSUME Waits PROVE Spec => Store!StoreSpec
  OBVIOUS
<1>1. PipelineInv /\ ModeInv /\ [Next]_vars => ModeInv'
  BY ModeStep
<1>2. PipelineInv /\ ModeInv /\ [Next]_vars => [Store!StoreNext]_Store!storeVars
  <2> SUFFICES ASSUME PipelineInv, ModeInv, [Next]_vars
               PROVE  [Store!StoreNext]_Store!storeVars
    OBVIOUS
  <2>1. CASE UNCHANGED vars
    <3>1. UNCHANGED <<pc, nread, endpc, ev, buf, event_data, epics_data, dst, onlineMode, replayMode>>
      BY <2>1 DEF vars, caller, ptrs, store, modes, ghosts
    <3>2. UNCHANGED <<Pending, Accepted>>
      BY <3>1 DEF Pending, Accepted
    <3>3. UNCHANGED <<Ordinals(event_data), Ordinals(epics_data), Ordinals(dst)>>
      BY <3>1, Zenon
    <3> QED
      BY <3>1, <3>2, <3>3 DEF Store!storeVars
  <2> QED
    BY <2>1, StoreInvoke, StoreParse, StoreEndProcess DEF Next
<1> QED
  BY <1>1, <1>2, ModeInit, StoreInitial, PipelineInvariant, PTL DEF Spec, Store!StoreSpec
=============================================================================
