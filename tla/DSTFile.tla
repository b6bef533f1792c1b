------------------------------ MODULE DSTFile ------------------------------
(***************************************************************************)
(* PRadDSTParser and the three operations of PRadDataHandler that use it:  *)
(* WriteToDST, Replay and ReadFromDST.  A file is the sequence of its      *)
(* records, a record its type, its length and its body; a field takes one  *)
(* word of the buffer.  A program that writes a file may die: the stream   *)
(* is buffered, so the file then ends anywhere.                            *)
(*                                                                         *)
(* Left out: format 0x13 (no length word), and the byte that saveBuffer    *)
(* adds to every record, counted in its length and never read.             *)
(***************************************************************************)
EXTENDS Naturals, SequencesExt

CONSTANTS
  Files,       \* paths
  NoFile,      \* no file open
  Banks,       \* what a PRadDataHandler holds when it saves: records with the
               \* fields events, epics, hycal, gem, epics_map, run_info
  Sources,     \* raw files for Replay: sequences of event and epics records
  Systems,     \* detector systems connected to the handler
  Modes,       \* bit words for ReadFromDST: sets of names of Mode bits
  BufSize,     \* DST_BUF_SIZE, in words
  Garbage,     \* words a fresh in_buf may hold
  MaxBank      \* bound: events in the bank (TLC only)

Counts == Seq(Nat)
Occurrences == [number : Nat, data : Counts]
Records == [type : {"event", "epics"}, value : Occurrences] \cup [type : {"run_info"}, value : Nat]
             \cup [type : {"hycal_info", "gem_info", "epics_map"}, value : Counts]

(* Every program that writes a DST file has a HyCal system.                *)
ASSUME DSTAssumption ==
  /\ BufSize \in Nat \ {0} /\ Garbage \subseteq Nat /\ NoFile \notin Files
  /\ Banks \subseteq [events : Seq(Occurrences), epics : Seq(Occurrences), hycal : Counts,
                     gem : Counts, epics_map : Counts, run_info : Nat]
  /\ \A s \in Sources : s \in Seq(Records) /\ \A i \in DOMAIN s : s[i].type \in {"event", "epics"}
  /\ "hycal" \in Systems /\ Systems \subseteq {"hycal", "gem", "epics"}

VARIABLES
  pc,          \* "idle", "writing", "reading", or how the program ended
  bank,        \* what the handler and its systems hold
  todo,        \* records this write still has to save
  caught,      \* the write runs inside a try block
  dst_out,     \* the file open for writing, or NoFile
  out_buf,     \* the words of out_buf below out_idx
  dst_in,      \* the file open for reading, or NoFile
  dst_pos,     \* next record of dst_in; beyond the end once a read failed
  mode,
  in_buf, in_bufl,
  disk,        \* path -> the file there
  meant,       \* history: path -> the records its writer was to save
  before, got  \* history: the bank before this load, the events it added

parser_vars == <<dst_out, out_buf, dst_in, dst_pos, mode, in_buf, in_bufl>>
history == <<before, got>>
dst_vars == <<pc, bank, todo, caught, parser_vars, disk, meant, history>>

Absent == [version |-> "none", closed |-> FALSE, records |-> <<>>]
Created == [version |-> "current", closed |-> FALSE, records |-> <<>>]

rec(t, v) == [type |-> t, value |-> v]

-----------------------------------------------------------------------------
(* Records of a save.                                                      *)

infos(b) ==
  (IF "hycal" \in Systems THEN <<rec("hycal_info", b.hycal)>> ELSE <<>>)
  \o (IF "gem" \in Systems THEN <<rec("gem_info", b.gem)>> ELSE <<>>)
  \o (IF "epics" \in Systems THEN <<rec("epics_map", b.epics_map)>> ELSE <<>>)

recs(t, s) == [i \in 1..Len(s) |-> rec(t, s[i])]

\* WriteToDST: the systems, every EPICS event, every event, the run.
saveRecords(b) ==
  infos(b)
  \o (IF "epics" \in Systems THEN recs("epics", b.epics) ELSE <<>>)
  \o recs("event", b.events) \o <<rec("run_info", b.run_info)>>

\* Replay: events and EPICS events as the raw files bring them.
replayRecords(b, source) ==
  infos(b) \o source \o <<rec("run_info", b.run_info)>>

counted(s) == <<Len(s)>> \o s

(* The fields of a record, in the order the code puts them in the buffer.  *)
WriteEvent(e)      == <<e.number>> \o counted(e.data)
WriteEPICS(e)      == <<e.number>> \o counted(e.data)
WriteRunInfo(run)  == <<run>>
WriteEPICSMap(chs) == counted(chs)
WriteHyCalInfo(ps) == counted(ps)
WriteGEMInfo(ps)   == counted(ps)

payload(r) ==
  CASE r.type = "event"      -> WriteEvent(r.value)
    [] r.type = "epics"      -> WriteEPICS(r.value)
    [] r.type = "run_info"   -> WriteRunInfo(r.value)
    [] r.type = "epics_map"  -> WriteEPICSMap(r.value)
    [] r.type = "hycal_info" -> WriteHyCalInfo(r.value)
    [] r.type = "gem_info"   -> WriteGEMInfo(r.value)

(* writeBuffer drops each field that does not fit.                         *)
writeBuffer(buf, words) ==
  IF Len(buf) + Len(words) < BufSize THEN buf \o words
  ELSE SubSeq(buf \o words, 1, BufSize - 1)

Fits(r) == Len(payload(r)) < BufSize

-----------------------------------------------------------------------------
(* Fields of a record read back.  readBuffer ends the program on a read    *)
(* beyond in_bufl.                                                         *)

listEnd(buf, i) == i + buf[i]               \* last word of a counted list at i
listAt(buf, i) == SubSeq(buf, i + 1, listEnd(buf, i))
listWithin(buf, len, i) == i < len /\ listEnd(buf, i) < len

parsed(t, buf) ==
  CASE t \in {"event", "epics"} ->
         rec(t, [number |-> buf[1], data |-> listAt(buf, 2)])
    [] t = "run_info" -> rec(t, buf[1])
    [] OTHER -> rec(t, listAt(buf, 1))

readable(t, buf, len) ==
  CASE t \in {"event", "epics"} -> listWithin(buf, len, 2)
    [] t = "run_info" -> 1 < len
    [] OTHER -> listWithin(buf, len, 1)

(* The later of two lists, where it has an entry.                          *)
overlay(D, new, old) ==
  [i \in D |-> IF i \in DOMAIN new THEN new[i] ELSE old[i]]

readEPICSMap(b, chs) ==     \* AddChannel
  IF "epics" \in Systems /\ "update_epics_map" \in mode
  THEN [b EXCEPT !.epics_map = overlay(DOMAIN @ \cup DOMAIN chs, chs, @)] ELSE b

readGEMInfo(b, ps) ==       \* an APV this system does not have is skipped
  IF "gem" \in Systems /\ "update_gem_info" \in mode
  THEN [b EXCEPT !.gem = overlay(DOMAIN @, ps, @)] ELSE b

readRunInfo(b, run) ==
  IF "update_run_info" \in mode THEN [b EXCEPT !.run_info = run] ELSE b

\* readHyCalInfo goes on to the next channel whenever this system has the
\* channel, which updates none, ...
readHyCalInfo(b, ps) == b

\* ... and dereferences a null pointer when it has not.
channelMissing(r) ==
  r.type = "hycal_info" /\ "hycal" \in Systems /\ Len(r.value) > Len(bank.hycal)

(* What a record changes in the handler; ReadFromDST stores the events.    *)
update(b, r) ==
  CASE r.type = "event"      -> [b EXCEPT !.events = Append(@, r.value)]
    [] r.type = "epics"      -> IF "epics" \in Systems
                                THEN [b EXCEPT !.epics = Append(@, r.value)] ELSE b
    [] r.type = "run_info"   -> readRunInfo(b, r.value)
    [] r.type = "epics_map"  -> readEPICSMap(b, r.value)
    [] r.type = "hycal_info" -> readHyCalInfo(b, r.value)
    [] r.type = "gem_info"   -> readGEMInfo(b, r.value)

-----------------------------------------------------------------------------
Buffers == {[i \in 1..BufSize |-> w] : w \in Garbage}

DSTInit ==
  /\ pc = "idle" /\ bank \in Banks
  /\ todo = <<>> /\ caught = FALSE
  /\ dst_out = NoFile /\ out_buf = <<>>
  /\ dst_in = NoFile /\ dst_pos = 1 /\ mode = {} /\ in_buf \in Buffers /\ in_bufl = 0
  /\ disk = [f \in Files |-> Absent] /\ meant = [f \in Files |-> <<>>]
  /\ before = bank /\ got = <<>>

\* The handler is filled by other means, raw data and calibration files; its
\* channels stay.
NewData ==
  /\ pc = "idle"
  /\ bank' \in {b \in Banks : Len(b.hycal) = Len(bank.hycal) /\ Len(b.gem) = Len(bank.gem)}
  /\ before' = bank'
  /\ UNCHANGED <<pc, todo, caught, parser_vars, disk, meant, got>>

(* OpenOutput says nothing to its caller when it cannot open the file.     *)
OpenOutput(f, records) ==
  \/ /\ dst_out' = f
     /\ disk' = [disk EXCEPT ![f] = Created]
     /\ meant' = [meant EXCEPT ![f] = records]
  \/ UNCHANGED <<dst_out, disk, meant>>

WriteToDST(f) ==
  /\ pc = "idle" /\ bank \in Banks        \* bound: no mixture of loads is saved
  /\ OpenOutput(f, saveRecords(bank))
  /\ pc' = "writing" /\ todo' = saveRecords(bank) /\ caught' = TRUE
  /\ UNCHANGED <<bank, out_buf, dst_in, dst_pos, mode, in_buf, in_bufl, history>>

(* Every Write...Info throws for a system that is not connected, and       *)
(* nothing catches it.                                                     *)
Replay(f, source) ==
  /\ pc = "idle" /\ bank \in Banks
  /\ OpenOutput(f, replayRecords(bank, source))
  /\ pc' = IF Systems = {"hycal", "gem", "epics"} THEN "writing" ELSE "terminated"
  /\ todo' = replayRecords(bank, source) /\ caught' = FALSE
  /\ UNCHANGED <<bank, out_buf, dst_in, dst_pos, mode, in_buf, in_bufl, history>>

lengthWord(buf) == Len(buf) + 1

saved(r, buf) == [type |-> r.type, length |-> lengthWord(buf), body |-> buf]

\* Mutant of WriteRecord: saveBuffer leaves out_idx where it is.
WriteWithoutReset ==
  /\ pc = "writing" /\ todo # <<>> /\ dst_out # NoFile
  /\ LET r == Head(todo)
         buf == writeBuffer(out_buf, payload(r)) IN
       /\ out_buf' = buf
       /\ disk' = [disk EXCEPT ![dst_out].records = Append(@, saved(r, buf))]
  /\ todo' = Tail(todo)
  /\ UNCHANGED <<pc, bank, caught, dst_out, dst_in, dst_pos, mode, in_buf, in_bufl, meant, history>>

WriteRecord ==
  /\ pc = "writing" /\ todo # <<>> /\ dst_out # NoFile
  /\ LET r == Head(todo) IN
       disk' = [disk EXCEPT ![dst_out].records =
                  Append(@, saved(r, writeBuffer(out_buf, payload(r))))]
  /\ out_buf' = <<>> /\ todo' = Tail(todo)
  /\ UNCHANGED <<pc, bank, caught, dst_out, dst_in, dst_pos, mode, in_buf, in_bufl, meant, history>>

(* saveBuffer throws: the fields stay in out_buf.                          *)
WriteFails ==
  /\ pc = "writing" /\ dst_out = NoFile
  /\ out_buf' = writeBuffer(out_buf, payload(Head(todo)))
  /\ pc' = IF caught THEN "idle" ELSE "terminated"
  /\ todo' = <<>>
  /\ UNCHANGED <<bank, caught, dst_out, dst_in, dst_pos, mode, in_buf, in_bufl, disk, meant, history>>

CloseOutput ==
  /\ pc = "writing" /\ todo = <<>>
  /\ disk' = [disk EXCEPT ![dst_out].closed = TRUE]
  /\ dst_out' = NoFile /\ pc' = "idle"
  /\ UNCHANGED <<bank, todo, caught, out_buf, dst_in, dst_pos, mode, in_buf, in_bufl, meant, history>>

-----------------------------------------------------------------------------
(* What is left of a record when the file ends in it: the type, or the     *)
(* type, the length and some of the body.                                  *)
cuts(r) ==
  {[r EXCEPT !.length = 0, !.body = <<>>]}
  \cup {[r EXCEPT !.body = SubSeq(@, 1, k)] : k \in 0..Len(r.body)}

truncations(records) ==
  {SubSeq(records, 1, n) : n \in 0..Len(records)}
  \cup UNION {{Append(SubSeq(records, 1, n - 1), c) : c \in cuts(records[n])} :
                n \in 1..Len(records)}

NewProcess ==
  /\ pc' = "idle" /\ bank' \in Banks
  /\ todo' = <<>> /\ caught' = FALSE
  /\ dst_out' = NoFile /\ out_buf' = <<>>
  /\ dst_in' = NoFile /\ dst_pos' = 1 /\ mode' = {} /\ in_buf' \in Buffers /\ in_bufl' = 0
  /\ before' = bank' /\ got' = <<>>

Killed ==
  /\ pc = "writing" /\ dst_out # NoFile
  /\ \E t \in truncations(disk[dst_out].records) :
       disk' = [disk EXCEPT ![dst_out].records = t]
  /\ NewProcess /\ UNCHANGED meant

Restart == pc \in {"terminated", "aborted"} /\ NewProcess /\ UNCHANGED <<disk, meant>>

-----------------------------------------------------------------------------
(* OpenInput refuses a file that is not there; Read then returns false.    *)
ReadFromDST(f, bits) ==
  /\ pc = "idle" /\ disk[f] # Absent
  /\ Len(bank.events) + Len(bank.epics) + Len(disk[f].records) <= MaxBank
  /\ pc' = "reading" /\ dst_in' = f /\ dst_pos' = 1 /\ mode' = bits
  /\ before' = bank /\ got' = <<>>
  /\ UNCHANGED <<bank, todo, caught, dst_out, out_buf, in_buf, in_bufl, disk, meant>>

dst_records == disk[dst_in].records

\* Mutant of advance: a read that came short is tried again.
advanceIfWhole == IF Len(dst_records[dst_pos].body) + 1 = dst_records[dst_pos].length THEN dst_pos + 1 ELSE dst_pos

advance == dst_pos + 1

(* getBuffer.  Past the end of the file it reads nothing and leaves what   *)
(* in_bufl and in_buf held.                                                *)
getBuffer ==
  LET r == dst_records[dst_pos] IN
    /\ in_bufl' = IF r.length = 0 THEN in_bufl ELSE r.length
    /\ in_buf' = overlay(DOMAIN in_buf, r.body, in_buf)

ReadNext ==
  /\ pc = "reading" /\ dst_pos <= Len(dst_records)
  /\ getBuffer
  /\ LET t == dst_records[dst_pos].type IN
       IF readable(t, in_buf', in_bufl') /\ ~channelMissing(parsed(t, in_buf'))
       THEN LET r == parsed(t, in_buf') IN
              /\ bank' = update(bank, r)
              /\ got' = IF t \in {"event", "epics"} THEN Append(got, r) ELSE got
              /\ dst_pos' = advance /\ UNCHANGED pc
       ELSE pc' = "aborted" /\ UNCHANGED <<bank, got, dst_pos>>
  /\ UNCHANGED <<todo, caught, dst_out, out_buf, dst_in, mode, disk, meant, before>>

CloseInput ==
  /\ pc = "reading" /\ dst_pos > Len(dst_records)
  /\ pc' = "idle" /\ dst_in' = NoFile /\ dst_pos' = 1 /\ mode' = {}
  /\ before' = bank /\ got' = <<>>
  /\ UNCHANGED <<bank, todo, caught, dst_out, out_buf, in_buf, in_bufl, disk, meant>>

-----------------------------------------------------------------------------
Write == WriteRecord \/ WriteFails \/ CloseOutput
Load == ReadNext \/ CloseInput

DSTNext ==
  \/ NewData \/ Write \/ Load \/ Killed \/ Restart
  \/ \E f \in Files : \/ WriteToDST(f)
                      \/ \E source \in Sources : Replay(f, source)
                      \/ \E bits \in Modes : ReadFromDST(f, bits)

DSTSpec == DSTInit /\ [][DSTNext]_dst_vars

-----------------------------------------------------------------------------
(* Type invariant: neither buffer is ever written beyond its size.         *)
DSTTypes ==
  /\ pc \in {"idle", "writing", "reading", "terminated", "aborted"}
  /\ dst_out \in Files \cup {NoFile} /\ dst_in \in Files \cup {NoFile}
  /\ out_buf \in Seq(Nat) /\ Len(out_buf) < BufSize
  /\ in_buf \in [1..BufSize -> Nat] /\ in_bufl \in 0..BufSize
  /\ dst_pos \in Nat \ {0} /\ caught \in BOOLEAN

(* The data records among the first n, for every n.                        *)
dataOf(rs) ==
  LET first[n \in 0..Len(rs)] ==
        IF n = 0 THEN <<>>
        ELSE IF rs[n].type \in {"event", "epics"} THEN Append(first[n - 1], rs[n])
        ELSE first[n - 1]
  IN  first
data(rs) == dataOf(rs)[Len(rs)]

wasRead == pc = "reading" /\ dst_pos > Len(dst_records)

(* The events and EPICS events of a file that was closed come back, all of *)
(* them and in order, whatever was written, and failed to be written, by   *)
(* the same parser before.                                                 *)
EventsAsSaved ==
  pc = "reading" /\ disk[dst_in].closed =>
    /\ IsPrefix(got, data(meant[dst_in]))
    /\ wasRead => got = data(meant[dst_in])

(* What the bank took over of a record: the pedestals of the GEM, the EPICS *)
(* channels or the run information, when its bit is set; the pedestals of  *)
(* HyCal, only when theirs is set, and then all or none.                   *)
taken(bit, new, old) == IF bit \in mode THEN new ELSE old
TakenOver(r) ==
  /\ r.type = "gem_info" =>
       bank.gem = taken("update_gem_info", overlay(DOMAIN before.gem, r.value, before.gem), before.gem)
  /\ r.type = "epics_map" =>
       bank.epics_map =
         taken("update_epics_map",
               overlay(DOMAIN before.epics_map \cup DOMAIN r.value, r.value, before.epics_map),
               before.epics_map)
  /\ r.type = "run_info" => bank.run_info = taken("update_run_info", r.value, before.run_info)
  /\ r.type = "hycal_info" =>
       bank.hycal \in {before.hycal,
                       taken("update_hycal_ped", overlay(DOMAIN before.hycal, r.value, before.hycal),
                             before.hycal)}

(* The information in a closed file is that of the time it was written,    *)
(* each part taken over when its bit is set and else left.  Whether the    *)
(* bits of HyCal have an effect is left open: readHyCalInfo skips every    *)
(* channel there is.                                                       *)
InfoAsSaved ==
  wasRead /\ disk[dst_in].closed =>
    \A i \in DOMAIN meant[dst_in] : TakenOver(meant[dst_in][i])

(* A file that was closed gives back what it was written from.             *)
ClosedFileReadsBack == EventsAsSaved /\ InfoAsSaved

(* A file cut short at any place brings in at most one record that was     *)
(* never written, and it is the last.                                      *)
OneBadRecordAtMost ==
  pc = "reading" /\ got # <<>> => IsPrefix(Front(got), data(meant[dst_in]))

(* Reading ends the program only for a file that was cut short, that holds *)
(* a record larger than the buffer, or that comes from a larger HyCal.     *)
AbortMeansDamage ==
  pc = "aborted" =>
    \/ ~disk[dst_in].closed
    \/ \E i \in DOMAIN meant[dst_in] : LET r == meant[dst_in][i] IN
         ~Fits(r) \/ channelMissing(r)

(* What a program that died while it wrote can do to those that read.      *)
DamageIsContained == OneBadRecordAtMost /\ AbortMeansDamage /\ DSTTypes
=============================================================================
