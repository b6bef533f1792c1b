---------------------------- MODULE EventSelect ----------------------------
(***************************************************************************)
(* The tool decoder/src/eventSelect.cpp with PRadEventFilter.  It reads a  *)
(* DST file, sends the monitoring events to one file and gathers the rest  *)
(* in packs that end with a sync event; a pack is written to the other     *)
(* file unless the list of bad events says its period is bad.              *)
(***************************************************************************)
EXTENDS Integers, Sequences

CONSTANTS
  EventFiles,  \* contents of DST files: sequences of Events
  BadLists     \* lists of bad events: sequences of Intervals

Events == [number : Int, monitor : BOOLEAN, sync : BOOLEAN]
Intervals == [begin : Int, end : Int]

InOrder(s) == \A i, j \in 1..Len(s) : i <= j => s[i].number <= s[j].number

(* A replay writes the events in the order of their numbers.  Nothing is   *)
(* assumed of the list: an interval may end before it begins.              *)
ASSUME SelectAssumption ==
  /\ EventFiles \subseteq {s \in Seq(Events) : InOrder(s)}
  /\ BadLists \subseteq Seq(Intervals)

VARIABLES
  file, bad_events_list,
  pos,         \* the next event Read returns
  first_sync,  \* no sync event was seen so far
  event_pack,
  sel, mon     \* the events in _sel.dst and in _mon.dst

vars == <<file, bad_events_list, pos, first_sync, event_pack, sel, mon>>

-----------------------------------------------------------------------------
Within(n, interval) == interval.begin <= n /\ n <= interval.end

IsBadEvent(event) ==
  \E i \in 1..Len(bad_events_list) : Within(event.number, bad_events_list[i])

\* Mutant of IsBadPeriod: only the ends of the period are looked at.
EndsAreBad(begin, end) == IsBadEvent(begin) \/ IsBadEvent(end)

\* Mutant of IsBadPeriod: a period that touches the interval contains it.
TouchesBad(begin, end) ==
  \E i \in 1..Len(bad_events_list) :
    \/ IsBadEvent(begin) \/ IsBadEvent(end)
    \/ begin.number < bad_events_list[i].begin \/ end.number > bad_events_list[i].end

IsBadPeriod(begin, end) ==
  \E i \in 1..Len(bad_events_list) :
    \/ IsBadEvent(begin) \/ IsBadEvent(end)
    \/ begin.number < bad_events_list[i].begin /\ end.number > bad_events_list[i].end

Init ==
  /\ file \in EventFiles /\ bad_events_list \in BadLists
  /\ pos = 1 /\ first_sync = TRUE
  /\ event_pack = <<>> /\ sel = <<>> /\ mon = <<>>

event == file[pos]

Read == pos <= Len(file) /\ pos' = pos + 1 /\ UNCHANGED <<file, bad_events_list>>

MonitorEvent ==
  /\ Read /\ event.monitor
  /\ mon' = Append(mon, event)
  /\ UNCHANGED <<first_sync, event_pack, sel>>

(* Everything up to the first sync event is thrown away, the sync event    *)
(* with it.                                                                *)
FirstSync ==
  /\ Read /\ ~event.monitor /\ event.sync /\ first_sync
  /\ first_sync' = FALSE /\ event_pack' = <<>>
  /\ UNCHANGED <<sel, mon>>

PhysicsEvent ==
  /\ Read /\ ~event.monitor /\ ~event.sync
  /\ event_pack' = IF first_sync THEN event_pack ELSE Append(event_pack, event)
  /\ UNCHANGED <<first_sync, sel, mon>>

WriteEvents(pack) ==
  sel' = IF IsBadPeriod(pack[1], pack[Len(pack)]) THEN sel ELSE sel \o pack

SyncEvent ==
  /\ Read /\ ~event.monitor /\ event.sync /\ ~first_sync
  /\ WriteEvents(Append(event_pack, event)) /\ event_pack' = <<>>
  /\ UNCHANGED <<first_sync, mon>>

\* The file ends; what is in the pack then is thrown away.
Finished == pos > Len(file) /\ UNCHANGED vars

Next == MonitorEvent \/ FirstSync \/ PhysicsEvent \/ SyncEvent \/ Finished

Spec == Init /\ [][Next]_vars

-----------------------------------------------------------------------------
(* Type invariant; what is kept is no more than what was read.             *)
TypeOK ==
  /\ file \in Seq(Events) /\ bad_events_list \in Seq(Intervals)
  /\ pos \in 1..Len(file) + 1 /\ first_sync \in BOOLEAN
  /\ event_pack \in Seq(Events) /\ sel \in Seq(Events) /\ mon \in Seq(Events)
  /\ Len(event_pack) + Len(sel) + Len(mon) < pos

(* No event of the list is selected.  The tool looks at the first and the  *)
(* last event of a pack only; the bad one may be any in between.           *)
NoBadEventSelected == \A i \in 1..Len(sel) : ~IsBadEvent(sel[i])

(* What the selection is to be, for a list of intervals: an event that is  *)
(* not a monitoring event, in a period from one sync event to the next     *)
(* whose event numbers, those of no event included, are none of them bad.  *)
IsSync(i) == ~file[i].monitor /\ file[i].sync

ToSelect(i) ==
  /\ ~file[i].monitor
  /\ \E s \in 1..i - 1, t \in i..Len(file) :
       /\ IsSync(s) /\ IsSync(t) /\ \A k \in s + 1..t - 1 : ~IsSync(k)
       /\ LET period == {file[k].number : k \in {j \in s + 1..t : ~file[j].monitor}} IN
            \A b \in 1..Len(bad_events_list) : \A n \in period, m \in period :
              ~\E x \in n..m : Within(x, bad_events_list[b])

Selection == LET chosen == SelectSeq([i \in 1..Len(file) |-> i], ToSelect)
             IN  [i \in 1..Len(chosen) |-> file[chosen[i]]]

(* The tool selects these and no others, each once and in order, and the   *)
(* monitoring events all go to the other file.                             *)
SelectsExactly ==
  pos > Len(file) =>
    /\ (\A b \in 1..Len(bad_events_list) :
          bad_events_list[b].begin <= bad_events_list[b].end) => sel = Selection
    /\ mon = SelectSeq(file, LAMBDA e : e.monitor)
=============================================================================
