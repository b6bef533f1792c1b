--------------------------- MODULE EventPipeline ---------------------------
(***************************************************************************)
(* The event path of PRadDataHandler and PRadEvioParser.  The caller's     *)
(* thread (the GUI, or a decoder program) parses events into *new_event;   *)
(* EndofThisEvent hands the filled buffer to a second thread, end_thread,  *)
(* which runs EndProcess on it (histograms, data bank or DST file, clear)  *)
(* while the parser goes on with the other buffer.  The two threads share  *)
(* the mode flags, the EPICS values and the data bank without a lock; the  *)
(* only synchronisation is the join in waitEventProcess.                   *)
(*                                                                         *)
(* All detector systems are attached (epic_sys, hycal_sys # nullptr) and   *)
(* the output of a replay is open.  Event payloads are abstracted to where *)
(* they came from: the k-th bank of the n-th event read is <<n, k>>, and   *)
(* the value of an EPICS channel is the ordinal of the event that wrote it.*)
(***************************************************************************)
EXTENDS Naturals, Sequences

CONSTANTS
  Channels,    \* EPICS channels
  Shapes,      \* what the data acquisition can write: events, tag and banks
  Files,       \* evio files: sequences of Shapes and BadBlock
  BadBlock,    \* a block whose size word exceeds MAX_BUFFER_SIZE
  Limits,      \* values of the argument evt of ReadEvioFile, 0 for "all"
  Commands,    \* the operations the caller may invoke
  MaxEvents    \* bound: events parsed in a behaviour (TLC only)

AllCommands == {"Decode", "ReadFromEvio", "Replay", "InitializeByData",
                "Clear", "startOnlineMode", "stopOnlineMode"}

Parsed   == {"CODA_Event", "CODA_Sync", "EPICS_Info"}
Tags     == Parsed \cup {"CODA_Prestart"}
Triggers == {"NotFromTI", "physics", "monitor", "other"}

(* The banks of an event: the number bank, a trigger word, a charge of a   *)
(* known ADC channel above or below its sparsification threshold, a datum  *)
(* stored whatever the trigger (TDC, scaler, GEM), a line of EPICS text.   *)
Banks == [kind : {"EVINFO", "RAW"}]
         \cup [kind : {"TI"}, trg : Triggers]
         \cup [kind : {"ADC"}, above : BOOLEAN]
         \cup [kind : {"EPICS"}, ch : Channels]

ASSUME ConstantsAssumption ==
  /\ Shapes \subseteq [tag : Tags, banks : Seq(Banks)]
  /\ BadBlock \notin Shapes
  /\ Files \subseteq Seq(Shapes \cup {BadBlock})
  /\ Limits \subseteq Nat
  /\ Commands \subseteq AllCommands
  /\ MaxEvents \in Nat

VARIABLES
  pc,          \* where the caller's thread is
  cmd,         \* the operation it executes
  input,       \* what is left of the evio file being read
  files,       \* split files of a replay still to be read
  limit,       \* argument evt of ReadEvioFile
  count,       \* physics events counted by ReadEvioFile
  cur,         \* the event being parsed
  pos,         \* its next bank
  event_number,\* of the parser
  buf,         \* the two EventData buffers
  new_event,   \* the buffer the parser fills
  proc_event,  \* the other one
  ev,          \* argument of the running EndProcess
  endpc,       \* where end_thread is; "none" when it is not joinable
  epics_values, epics_data,     \* PRadEPICSystem
  event_data,  \* the data bank
  dst,         \* records in the DST output
  hist,        \* events filled into the histograms
  onlineMode, replayMode,
  nread,       \* history: events started
  truth,       \* history: for each event read, what it contained
  cleared      \* history: the events the last Clear erased

caller == <<pc, cmd, input, files, limit, count, cur, pos>>
store  == <<epics_data, event_data, dst, hist>>
ghosts == <<nread, truth, cleared>>
modes  == <<onlineMode, replayMode>>
ptrs   == <<new_event, proc_event, ev, endpc>>
vars   == <<caller, event_number, buf, ptrs, epics_values, store, modes, ghosts>>

-----------------------------------------------------------------------------
Empty == [id |-> 0, type |-> "none", num |-> 0, trg |-> "NotFromTI", hits |-> {}]

Undefined == [c \in Channels |-> 0]    \* EPICS_UNDEFINED_VALUE everywhere

Init ==
  /\ pc = "idle" /\ cmd = "none"
  /\ input = <<>> /\ files = <<>> /\ limit = 0 /\ count = 0
  /\ cur = <<>> /\ pos = 1
  /\ event_number = 0
  /\ buf = [i \in 1..2 |-> Empty]
  /\ new_event = 1 /\ proc_event = 2 /\ ev = 2
  /\ endpc = "none"
  /\ epics_values = Undefined /\ epics_data = <<>>
  /\ event_data = <<>> /\ dst = <<>> /\ hist = {}
  /\ onlineMode = FALSE /\ replayMode = FALSE
  /\ nread = 0 /\ truth = <<>> /\ cleared = {}

-----------------------------------------------------------------------------
(* Operations of the caller.  The viewer disables "open file" while online.*)

Begin(c) ==
  /\ pc = "idle" /\ c \in Commands
  /\ cmd' = c

ReadEvioFile(f, n) ==
  /\ nread + Len(f) <= MaxEvents
  /\ pc' = "fetch" /\ input' = f /\ limit' = n /\ count' = 0
  /\ UNCHANGED <<cur, pos, event_number, buf, ptrs, epics_values, ghosts>>

\* Decode parses one buffer and joins, as a file of one event would.
Decode ==
  /\ Begin("Decode")
  /\ \E s \in Shapes : ReadEvioFile(<<s>>, 0)
  /\ UNCHANGED <<files, store, modes>>

ReadFromEvio ==
  /\ Begin("ReadFromEvio") /\ ~onlineMode
  /\ \E f \in Files, n \in Limits : ReadEvioFile(f, n)
  /\ UNCHANGED <<files, store, modes>>

\* OpenOutput truncates; the split files are read one after the other.
Replay ==
  /\ Begin("Replay") /\ ~onlineMode
  /\ \E f, g \in Files : /\ nread + Len(f) + Len(g) <= MaxEvents
                         /\ ReadEvioFile(f, 0)
                         /\ files' = <<g>>
  /\ dst' = <<>>
  /\ replayMode' = TRUE
  /\ UNCHANGED <<epics_data, event_data, hist, onlineMode>>

InitializeByData ==
  /\ Begin("InitializeByData")
  /\ \E f \in Files, n \in Limits : ReadEvioFile(f, n)
  /\ UNCHANGED <<files, store, modes>>

\* The event end_thread has not looked at yet.
Handed == IF endpc = "start" THEN {buf[ev].id} ELSE {}

\* Mutant of Erase: the histograms are not reset.
EraseKeepingHists ==
  /\ event_data' = <<>> /\ event_number' = 0
  /\ epics_data' = <<>> /\ epics_values' = Undefined
  /\ cleared' = (1..nread) \ Handed
  /\ UNCHANGED <<hist, dst, nread, truth>>

Erase ==
  /\ event_data' = <<>> /\ event_number' = 0
  /\ epics_data' = <<>> /\ epics_values' = Undefined
  /\ hist' = {}
  /\ cleared' = (1..nread) \ Handed
  /\ UNCHANGED <<dst, nread, truth>>

Clear ==
  /\ Begin("Clear")
  /\ Erase
  /\ UNCHANGED <<pc, input, files, limit, count, cur, pos, buf, ptrs, modes>>

startOnlineMode ==
  /\ Begin("startOnlineMode") /\ ~onlineMode
  /\ onlineMode' = TRUE
  /\ Erase
  /\ UNCHANGED <<pc, input, files, limit, count, cur, pos, buf, ptrs, replayMode>>

stopOnlineMode ==
  /\ Begin("stopOnlineMode") /\ onlineMode
  /\ onlineMode' = FALSE
  /\ UNCHANGED <<pc, input, files, limit, count, cur, pos, event_number, buf,
                 ptrs, epics_values, store, replayMode, ghosts>>

Invoke == \/ Decode \/ ReadFromEvio \/ Replay \/ InitializeByData
          \/ Clear \/ startOnlineMode \/ stopOnlineMode

-----------------------------------------------------------------------------
(* Parsing, on the caller's thread.                                        *)

Enough == limit > 0 /\ count >= limit

\* Mutant of SkipEvent: the index is not advanced past a skipped event.
SkipWithoutAdvance ==
  /\ pc = "fetch" /\ ~Enough /\ input # <<>>
  /\ Head(input) # BadBlock /\ Head(input).tag \notin Parsed
  /\ UNCHANGED vars

SkipEvent ==
  /\ pc = "fetch" /\ ~Enough /\ input # <<>>
  /\ Head(input) # BadBlock /\ Head(input).tag \notin Parsed
  /\ input' = Tail(input)
  /\ UNCHANGED <<pc, cmd, files, limit, count, cur, pos, event_number, buf,
                 ptrs, epics_values, store, modes, ghosts>>

StartofNewEvent ==
  /\ pc = "fetch" /\ ~Enough /\ input # <<>>
  /\ Head(input) # BadBlock /\ Head(input).tag \in Parsed
  /\ cur' = Head(input) /\ input' = Tail(input) /\ pos' = 1
  /\ nread' = nread + 1
  /\ buf' = [buf EXCEPT ![new_event].type = Head(input).tag,
                        ![new_event].id = nread + 1]
  /\ pc' = "parse"
  /\ UNCHANGED <<cmd, files, limit, count, event_number, ptrs, epics_values,
                 store, modes, truth, cleared>>

\* FeedData(ADC1881MData): the trigger seen so far decides.
Kept(trg, b) == (trg = "physics" /\ b.above) \/ trg = "monitor"

AddHit == buf' = [buf EXCEPT ![new_event].hits = @ \cup {<<nread, pos>>}]

NumberBank(b) ==
  /\ b.kind = "EVINFO"
  /\ event_number' = nread
  /\ UNCHANGED <<buf, epics_values>>

\* UpdateTrgType: a mismatch with the trigger word before it is only logged.
TriggerBank(b) ==
  /\ b.kind = "TI"
  /\ buf' = [buf EXCEPT ![new_event].trg = b.trg]
  /\ UNCHANGED <<event_number, epics_values>>

AdcBank(b) ==
  /\ b.kind = "ADC"
  /\ IF Kept(buf[new_event].trg, b) THEN AddHit ELSE UNCHANGED buf
  /\ UNCHANGED <<event_number, epics_values>>

RawBank(b) ==
  /\ b.kind = "RAW"
  /\ AddHit
  /\ UNCHANGED <<event_number, epics_values>>

EpicsBank(b) ==
  /\ b.kind = "EPICS"
  /\ epics_values' = [epics_values EXCEPT ![b.ch] = nread]
  /\ UNCHANGED <<event_number, buf>>

FeedBank ==
  /\ pc = "parse" /\ pos <= Len(cur.banks)
  /\ pos' = pos + 1
  /\ LET b == cur.banks[pos] IN
       NumberBank(b) \/ TriggerBank(b) \/ AdcBank(b) \/ RawBank(b) \/ EpicsBank(b)
  /\ UNCHANGED <<pc, cmd, input, files, limit, count, cur, ptrs, store, modes, ghosts>>

EndofThisEvent ==
  /\ pc = "parse" /\ pos > Len(cur.banks)
  /\ buf' = [buf EXCEPT ![new_event].num = event_number]
  /\ truth' = Append(truth, [tag |-> cur.tag, banks |-> cur.banks,
                             num |-> event_number, vals |-> epics_values])
  /\ pc' = "join"
  /\ UNCHANGED <<cmd, input, files, limit, count, cur, pos, event_number, ptrs,
                 epics_values, store, modes, nread, cleared>>

\* Mutant of Joined: EndofThisEvent and the callers go on without the join.
NeverWait == TRUE

Joined == endpc \in {"none", "done"}   \* waitEventProcess returns

SwapPointers == new_event' = proc_event /\ proc_event' = new_event

SwapAndSpawn ==
  /\ pc = "join" /\ Joined
  /\ SwapPointers
  /\ ev' = new_event /\ endpc' = "start"
  /\ count' = IF cur.tag = "EPICS_Info" THEN count ELSE count + 1
  /\ pc' = "fetch"
  /\ UNCHANGED <<cmd, input, files, limit, cur, pos, event_number, buf,
                 epics_values, store, modes, ghosts>>

\* ReadEvioFile returns: enough events, an oversized block, or end of file.
EndOfFile ==
  /\ pc = "fetch"
  /\ Enough \/ input = <<>> \/ (input # <<>> /\ Head(input) = BadBlock)
  /\ pc' = IF cmd = "InitializeByData" THEN "fit" ELSE "drain"
  /\ input' = <<>>
  /\ UNCHANGED <<cmd, files, limit, count, cur, pos, event_number, buf, ptrs,
                 epics_values, store, modes, ghosts>>

\* ReadFromEvio waits; a replay goes on with its next split file.
NextFile ==
  /\ pc = "drain" /\ Joined /\ files # <<>>
  /\ endpc' = "none"
  /\ pc' = "fetch" /\ input' = Head(files) /\ files' = Tail(files) /\ count' = 0
  /\ UNCHANGED <<cmd, limit, cur, pos, event_number, buf, new_event, proc_event,
                 ev, epics_values, store, modes, ghosts>>

Return ==
  /\ pc = "drain" /\ Joined /\ files = <<>>
  /\ endpc' = "none"
  /\ pc' = "idle"
  /\ replayMode' = FALSE
  /\ UNCHANGED <<cmd, input, files, limit, count, cur, pos, event_number, buf,
                 new_event, proc_event, ev, epics_values, store, onlineMode, ghosts>>

\* InitializeByData does not join: it fits what the histograms hold, ...
FitPedestal ==
  /\ pc = "fit"
  /\ pc' = "erase"
  /\ UNCHANGED <<cmd, input, files, limit, count, cur, pos, event_number, buf,
                 ptrs, epics_values, store, modes, ghosts>>

\* ... and clears.
InitErase ==
  /\ pc = "erase"
  /\ Erase
  /\ pc' = "idle"
  /\ UNCHANGED <<cmd, input, files, limit, count, cur, pos, buf, ptrs, modes>>

Parse == \/ SkipEvent \/ StartofNewEvent \/ FeedBank \/ EndofThisEvent
         \/ SwapAndSpawn \/ EndOfFile \/ NextFile \/ Return
         \/ FitPedestal \/ InitErase

-----------------------------------------------------------------------------
(* EndProcess(ev), on end_thread.                                          *)

FillHistograms ==
  /\ endpc = "start"
  /\ endpc' = "store"
  /\ hist' = IF buf[ev].type = "EPICS_Info" THEN hist ELSE hist \cup {buf[ev].id}
  /\ UNCHANGED <<caller, event_number, buf, new_event, proc_event, ev,
                 epics_values, epics_data, event_data, dst, modes, ghosts>>

DropFirst(s) == IF onlineMode /\ s # <<>> THEN Tail(s) ELSE s

EpicsRecord == [id |-> buf[ev].id, num |-> buf[ev].num, vals |-> epics_values]

StoreEpics ==
  /\ endpc = "store" /\ buf[ev].type = "EPICS_Info"
  /\ endpc' = "clear"
  /\ IF replayMode
     THEN dst' = Append(dst, EpicsRecord) /\ UNCHANGED epics_data
     ELSE epics_data' = Append(DropFirst(epics_data), EpicsRecord) /\ UNCHANGED dst
  /\ UNCHANGED <<caller, event_number, buf, new_event, proc_event, ev,
                 epics_values, event_data, hist, modes, ghosts>>

StoreEvent ==
  /\ endpc = "store" /\ buf[ev].type # "EPICS_Info"
  /\ endpc' = "clear"
  /\ IF replayMode
     THEN dst' = Append(dst, buf[ev]) /\ event_data' = DropFirst(event_data)
     ELSE event_data' = Append(DropFirst(event_data), buf[ev]) /\ UNCHANGED dst
  /\ UNCHANGED <<caller, event_number, buf, new_event, proc_event, ev,
                 epics_values, epics_data, hist, modes, ghosts>>

\* Mutant of ClearBuffer: EventData::clear forgets the trigger.
ClearAllButTrigger ==
  /\ endpc = "clear"
  /\ endpc' = "done"
  /\ buf' = [buf EXCEPT ![ev] = [Empty EXCEPT !.trg = buf[ev].trg]]
  /\ UNCHANGED <<caller, event_number, new_event, proc_event, ev, epics_values,
                 store, modes, ghosts>>

ClearBuffer ==
  /\ endpc = "clear"
  /\ endpc' = "done"
  /\ buf' = [buf EXCEPT ![ev] = Empty]
  /\ UNCHANGED <<caller, event_number, new_event, proc_event, ev, epics_values,
                 store, modes, ghosts>>

EndProcess == FillHistograms \/ StoreEpics \/ StoreEvent \/ ClearBuffer

Next == Invoke \/ Parse \/ EndProcess

(* A started operation runs on and end_thread is scheduled: neither waits  *)
(* for anything but the join.  Nothing obliges the caller to start one.    *)
Fairness == WF_vars(Parse) /\ WF_vars(EndProcess)

Spec == Init /\ [][Next]_vars

FairSpec == Spec /\ Fairness

-----------------------------------------------------------------------------
(* Properties.                                                             *)

Events == [id : Nat, type : Tags \cup {"none"}, num : Nat, trg : Triggers,
           hits : SUBSET (Nat \X Nat)]
EpicsRecords == [id : Nat, num : Nat, vals : [Channels -> Nat]]

TypeOK ==
  /\ pc \in {"idle", "fetch", "parse", "join", "drain", "fit", "erase"}
  /\ cmd \in AllCommands \cup {"none"}
  /\ input \in Seq(Shapes \cup {BadBlock})
  /\ files \in Seq(Files)
  /\ limit \in Nat /\ count \in Nat /\ pos \in Nat \ {0}
  /\ pc \in {"parse", "join"} => cur \in Shapes /\ cur.tag \in Parsed
  /\ event_number \in Nat
  /\ buf \in [1..2 -> Events]
  /\ new_event \in 1..2 /\ proc_event \in 1..2 /\ ev \in 1..2
  /\ endpc \in {"none", "start", "store", "clear", "done"}
  /\ epics_values \in [Channels -> Nat]
  /\ epics_data \in Seq(EpicsRecords)
  /\ event_data \in Seq(Events)
  /\ dst \in Seq(Events \cup EpicsRecords)
  /\ hist \in SUBSET Nat
  /\ onlineMode \in BOOLEAN /\ replayMode \in BOOLEAN
  /\ nread \in Nat /\ cleared \in SUBSET Nat
  /\ truth \in Seq([tag : Parsed, banks : Seq(Banks), num : Nat,
                     vals : [Channels -> Nat]])

Running == endpc \in {"start", "store", "clear"}

(* While end_thread works on a buffer the parser owns the other one, and   *)
(* whenever no event is being parsed the parser's buffer is clean: what    *)
(* EndProcess left there two events ago is gone (EndofThisEvent, clear).   *)
BufferOwnership ==
  /\ new_event # proc_event
  /\ Running => ev = proc_event
  /\ pc \notin {"parse", "join"} => buf[new_event] = Empty
  /\ ~Running => buf[proc_event] = Empty

(* The trigger in force at bank k is that of the last trigger word before  *)
(* it in the same event; with none, an ADC datum is dropped.               *)
InForce(banks, j, k) ==
  /\ banks[j].kind = "TI"
  /\ \A i \in (j+1)..(k-1) : banks[i].kind # "TI"

Belongs(banks, k) ==
  \/ banks[k].kind = "RAW"
  \/ /\ banks[k].kind = "ADC"
     /\ \E j \in 1..(k-1) : InForce(banks, j, k) /\ Kept(banks[j].trg, banks[k])

OwnHits(id, banks, n) == {<<id, k>> : k \in {i \in 1..n : Belongs(banks, i)}}

OwnData(r, t) ==
  /\ r.id \in 1..Len(t)
  /\ r.type = t[r.id].tag /\ r.num = t[r.id].num
  /\ r.hits = OwnHits(r.id, t[r.id].banks, Len(t[r.id].banks))

OwnRecord(r, t) ==
  /\ r.id \in 1..Len(t)
  /\ IF t[r.id].tag = "EPICS_Info" THEN r.num = t[r.id].num ELSE OwnData(r, t)

(* Every event in the data bank carries the type, the number and exactly   *)
(* the data of one event that was read: nothing of the event before it, of *)
(* the event that used the same buffer, or of the one parsed meanwhile.    *)
BankHoldsOwnData == \A i \in 1..Len(event_data) : OwnData(event_data[i], truth)

(* The same of the events a replay writes to the DST file.                 *)
ReplayWritesOwnData == \A i \in 1..Len(dst) : OwnRecord(dst[i], truth)

(* FindValue returns "the epics event that just before evt": the values    *)
(* recorded for an event are not those of a later one.                     *)
NoFutureEpics ==
  \A i \in 1..Len(epics_data) : \A c \in Channels :
    epics_data[i].vals[c] <= epics_data[i].id

(* The histograms hold every event read that was not cleared, except the   *)
(* one being parsed and the one end_thread has not looked at yet.  A       *)
(* clearing that does not wait, that of InitializeByData, does not get the *)
(* latter: it is filled in afterwards (EndProcess, FillHistograms, Clear). *)
HistogramsComplete ==
  hist = {i \in 1..Len(truth) : truth[i].tag # "EPICS_Info" /\ i \notin cleared}
           \ ((IF pc = "join" THEN {nread} ELSE {}) \cup Handed)

(* Every operation returns to its caller.                                  *)
OperationsReturn == pc # "idle" ~> pc = "idle"

(* What EventStore sees of the state: ordinals, the events accepted and the *)
(* one that is pending.                                                    *)
Ordinals(s) == [i \in 1..Len(s) |-> s[i].id]
Accepted == IF pc \in {"parse", "join"} THEN nread - 1 ELSE nread
Pending  == IF endpc \in {"start", "store"}
            THEN <<[id   |-> buf[ev].id,
                    kind |-> IF buf[ev].type = "EPICS_Info" THEN "epics" ELSE "event"]>>
            ELSE <<>>
=============================================================================
