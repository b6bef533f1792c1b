---------------------------- MODULE EventSearch ----------------------------
(***************************************************************************)
(* The searches by event number: PRadDataHandler::FindEvent in the data    *)
(* bank (cana::binary_search) and PRadEPICSystem::FindEvent and FindValue  *)
(* in the EPICS bank (cana::binary_search_close_less).  The templates are  *)
(* modelled one loop iteration per step, on iterators 1 .. Len(list) + 1,  *)
(* with the comparison operators of the element type they are used with.   *)
(***************************************************************************)
EXTENDS Naturals, Sequences

CONSTANTS
  Numbers,     \* event numbers, in the banks and asked for
  MaxLen       \* bound: length of a bank (TLC only)

ASSUME SearchAssumption == Numbers \subseteq Nat /\ MaxLen \in Nat

VARIABLES
  bank,        \* "event_data" or "epics_data", the bank searched
  list,        \* its event numbers
  val,         \* the event number asked for
  pc,
  beg, end,    \* the interval left
  ret          \* the iterator returned; end of the list for "not found"

vars == <<bank, list, val, pc, beg, end, ret>>

Ascending(s) == \A i, j \in 1..Len(s) : i < j => s[i] <= s[j]

PastEnd == Len(list) + 1       \* event_data.end()

(* The banks are filled in reading order, and an EPICS event repeats the   *)
(* number of the physics event before it.                                  *)
Init ==
  /\ bank \in {"event_data", "epics_data"}
  /\ list \in {s \in UNION {[1..n -> Numbers] : n \in 0..MaxLen} : Ascending(s)}
  /\ val \in Numbers
  /\ pc = "call" /\ beg = 1 /\ end = PastEnd /\ ret = 0

Mid == beg + (end - beg) \div 2

(* operator >(const int &): EpicsData compares its own number with the     *)
(* argument, EventData the argument with its own number.                   *)
Exceeds(x) == IF bank = "epics_data" THEN x > val ELSE val > x

return(i) == pc' = "done" /\ ret' = i /\ UNCHANGED <<bank, list, val, beg, end>>

(* binary_search_close_less: nothing to search, or the last element will do.*)
ReturnAtOnce ==
  /\ pc = "call" /\ bank = "epics_data"
  /\ \/ list = <<>> /\ return(PastEnd)
     \/ list # <<>> /\ list[PastEnd - 1] <= val /\ return(PastEnd - 1)

Search ==
  /\ pc = "call"
  /\ bank = "epics_data" => list # <<>> /\ list[PastEnd - 1] > val
  /\ pc' = "loop"
  /\ UNCHANGED <<bank, list, val, beg, end, ret>>

Found == pc = "loop" /\ Mid # end /\ list[Mid] = val /\ return(Mid)

Halve ==
  /\ pc = "loop" /\ Mid # end /\ list[Mid] # val
  /\ IF Exceeds(list[Mid])
     THEN end' = Mid /\ UNCHANGED beg
     ELSE beg' = Mid + 1 /\ UNCHANGED end
  /\ UNCHANGED <<bank, list, val, pc, ret>>

(* binary_search: mid met end.                                             *)
NotFound == bank = "event_data" /\ pc = "loop" /\ Mid = end /\ return(PastEnd)

\* Mutant of CloseLess: the first larger element itself is returned.
CloseLarger ==
  /\ bank = "epics_data" /\ pc = "loop" /\ Mid = end
  /\ IF list[Mid] < val \/ Mid > 1 THEN return(Mid) ELSE return(PastEnd)

(* binary_search_close_less: the element before the first larger one.      *)
CloseLess ==
  /\ bank = "epics_data" /\ pc = "loop" /\ Mid = end
  /\ IF list[Mid] < val THEN return(Mid)
     ELSE IF Mid = 1 THEN return(PastEnd)
     ELSE return(Mid - 1)

Done == pc = "done" /\ UNCHANGED vars

Next == ReturnAtOnce \/ Search \/ Found \/ Halve \/ NotFound \/ CloseLess \/ Done

Spec == Init /\ [][Next]_vars

FairSpec == Spec /\ WF_vars(Next)

-----------------------------------------------------------------------------
TypeOK ==
  /\ bank \in {"event_data", "epics_data"}
  /\ list \in Seq(Numbers) /\ val \in Numbers
  /\ pc \in {"call", "loop", "done"}
  /\ beg \in 1..PastEnd /\ end \in 1..PastEnd /\ beg <= end
  /\ ret \in 0..PastEnd

(* EPICS search: the record returned is the latest one not after the event *)
(* asked for, and none is returned only when every record is later.        *)
CloseLessCorrect ==
  pc = "done" /\ bank = "epics_data" =>
    \/ ret \in 1..Len(list) /\ list[ret] <= val
       /\ \A i \in 1..Len(list) : list[i] <= val => list[i] <= list[ret]
    \/ ret = PastEnd /\ \A i \in 1..Len(list) : list[i] > val

(* No iterator at or past the end is dereferenced, by the loop or by the   *)
(* comparison after it (binary_search_close_less reads *mid there).        *)
NoReadPastEnd ==
  /\ pc = "loop" /\ Mid # end => Mid \in 1..Len(list)
  /\ pc = "loop" /\ Mid = end /\ bank = "epics_data" => Mid \in 1..Len(list)

(* Event search: an index returned is that of the event asked for, ...     *)
FindEventSound ==
  pc = "done" /\ bank = "event_data" /\ ret # PastEnd => ret \in 1..Len(list) /\ list[ret] = val

(* ... and an event that is in the bank, whose files were loaded in order, *)
(* is found.                                                               *)
FindEventComplete ==
  pc = "done" /\ bank = "event_data" /\ ret = PastEnd =>
    \A i \in 1..Len(list) : list[i] # val

=============================================================================
