------------------------------ MODULE RunInfo ------------------------------
(* The run information (PRadInfoCenter): the run number, which comes from    *)
(* the name of a data file or from a DST file, and the charge and the dead   *)
(* time, summed over the sync events of physics triggers.                    *)
(*                                                                           *)
(* Paths are sequences of characters: "/", ".", "-", digits.  The trigger    *)
(* frequencies of the online information are left out: UpdateInfo assigns    *)
(* them to copies of the trigger channels, and they stay 0.                  *)
EXTENDS Integers, Sequences, FiniteSets, FiniteSetsExt

CONSTANTS Paths,
          IntMax,   \* INT_MAX
          SizeMax,  \* string::npos, the largest size_t
          Events,   \* [sync, physics, dsc]; dsc: <<>> or [charge, gated, ungated]
          MaxCalls  \* bound on the calls

VARIABLES run_info,            \* [run_number, beam_charge, dead_count, ungated_count]
          live_scaled_charge,  \* [sum, nan]
          online_info,         \* [live, beam_current]: counts they are made of
          initializing,        \* InitializeByData is reading its file
          saved,               \* run information of a DST file
          named, saved_name,   \* history: the number read last, and that of the file
          calls

vars == <<run_info, live_scaled_charge, online_info, initializing, saved, named, saved_name, calls>>

Value == [c \in {"0", "1", "2", "3", "4", "5", "6", "7", "8", "9"} |->
            CASE c = "0" -> 0 [] c = "1" -> 1 [] c = "2" -> 2 [] c = "3" -> 3 [] c = "4" -> 4
              [] c = "5" -> 5 [] c = "6" -> 6 [] c = "7" -> 7 [] c = "8" -> 8 [] c = "9" -> 9]
Digits == DOMAIN Value

-----------------------------------------------------------------------------
(* decompose_path: positions are of type size_t and wrap around. *)
LastOf(s, c) ==
  LET at == {k \in DOMAIN s : s[k] = c} IN IF at = {} THEN SizeMax ELSE Max(at) - 1
substr(s, pos, n) == SubSeq(s, pos + 1, Min({pos + n, Len(s)}))

decompose_path(s) ==
  LET dir_pos == LastOf(s, "/")
      suf_pos == LastOf(s, ".")
  IN  IF dir_pos = SizeMax THEN substr(s, 0, suf_pos)
      ELSE substr(s, dir_pos + 1, (suf_pos - dir_pos - 1) % (SizeMax + 1))

\* Mutant of Fits: the last digit is not looked at.
FitsAlmost(num, d) == num <= IntMax \div 10

(* A digit is taken as long as the number fits in an int. *)
Fits(num, d) == ~(num > IntMax \div 10 \/ (num = IntMax \div 10 /\ d > IntMax - num * 10))

(* The number at the beginning of s, and how many digits it takes: a digit *)
(* that does not fit is dropped, and those after it are another number.    *)
RECURSIVE Take(_, _, _)
Take(s, num, i) ==
  IF i = Len(s) \/ s[i + 1] \notin Digits THEN <<num, i>>
  ELSE IF ~Fits(num, Value[s[i + 1]]) THEN <<num, i + 1>>
  ELSE Take(s, num * 10 + Value[s[i + 1]], i + 1)

(* find_integers: a minus anywhere before the digits makes them negative.   *)
RECURSIVE find_integers(_)
find_integers(s) ==
  LET at  == {k \in DOMAIN s : s[k] \in Digits}
      beg == Min(at)
      t   == Take(SubSeq(s, beg, Len(s)), 0, 0)
      negative == \E k \in 1 .. beg - 1 : s[k] = "-"
  IN  IF at = {} THEN <<>>
      ELSE <<IF negative THEN -t[1] ELSE t[1]>> \o find_integers(SubSeq(s, beg + t[2], Len(s)))

find_integer(s) == IF find_integers(s) = <<>> THEN 0 ELSE find_integers(s)[1]

-----------------------------------------------------------------------------
NoInfo == [run_number |-> 0, beam_charge |-> 0, dead_count |-> 0, ungated_count |-> 0]
Counts(e) == IF e.dsc = <<>> THEN [charge |-> 0, gated |-> 0, ungated |-> 0] ELSE e.dsc

Init ==
  /\ run_info = NoInfo /\ live_scaled_charge = [sum |-> 0, nan |-> FALSE]
  /\ online_info = [live |-> <<>>, beam_current |-> <<>>]
  /\ initializing = FALSE
  /\ saved = NoInfo /\ named = 0 /\ saved_name = 0 /\ calls = 0

Call == calls < MaxCalls /\ calls' = calls + 1

(* The number a path names, by the words of a user: the first digits of its *)
(* base name, as many as fit, unless a minus stands before them.            *)
Named(path) ==
  LET base  == {k \in DOMAIN path : \A j \in k .. Len(path) : path[j] # "/"}
      dots  == {k \in base : path[k] = "."}
      name  == IF dots = {} THEN base ELSE {k \in base : k < Max(dots)}
      digit == {k \in name : path[k] \in Digits}
      number[k \in DOMAIN path] ==
        (IF k = Min(digit) THEN 0 ELSE number[k - 1] * 10) + Value[path[k]]
      whole == {k \in digit : Min(digit) .. k \subseteq digit /\ number[k] <= IntMax}
  IN  IF digit = {} \/ (\E k \in name : k < Min(digit) /\ path[k] = "-") THEN 0 ELSE number[Max(whole)]

(* SetRunNumber(path): a name without a number leaves the one of before.    *)
Number(path, run) ==
  LET n == find_integer(decompose_path(path)) IN IF n > 0 THEN n ELSE run

(* InitializeByData sets the number and reads the file ...                  *)
InitializeByData(path) ==
  /\ Call /\ ~initializing
  /\ initializing' = TRUE
  /\ run_info' = [run_info EXCEPT !.run_number = Number(path, @)]
  /\ named' = IF Named(path) > 0 THEN Named(path) ELSE named
  /\ UNCHANGED <<live_scaled_charge, online_info, saved, saved_name>>

Reset == run_info' = NoInfo

(* ... and erases it, but for the number.                                   *)
Erase ==
  /\ Call
  /\ IF initializing THEN run_info' = [NoInfo EXCEPT !.run_number = run_info.run_number]
     ELSE Reset
  /\ live_scaled_charge' = [sum |-> 0, nan |-> FALSE]
  /\ online_info' = [live |-> <<>>, beam_current |-> <<>>]
  /\ named' = IF initializing THEN named ELSE 0
  /\ initializing' = FALSE
  /\ UNCHANGED <<saved, saved_name>>

(* The program counter of charge takes the number without reading evio.     *)
SetRunNumber(path) ==
  /\ Call /\ ~initializing
  /\ run_info' = [run_info EXCEPT !.run_number = Number(path, @)]
  /\ named' = IF Named(path) > 0 THEN Named(path) ELSE named
  /\ UNCHANGED <<live_scaled_charge, online_info, initializing, saved, saved_name>>

(* Only sync events count; without pulses of the reference the live part of *)
(* the charge is not a number, and stays so until Reset.                    *)
UpdateInfo(e) ==
  /\ Call /\ e.sync
  /\ LET c == Counts(e)
     IN  /\ online_info' = [live |-> <<c.gated, c.ungated>>, beam_current |-> <<c.charge, c.ungated>>]
         /\ IF e.physics
            THEN /\ run_info' = [run_info EXCEPT !.beam_charge = @ + c.charge,
                                   !.dead_count = @ + c.gated, !.ungated_count = @ + c.ungated]
                 /\ live_scaled_charge' =
                      IF c.ungated = 0 THEN [live_scaled_charge EXCEPT !.nan = TRUE]
                      ELSE [live_scaled_charge EXCEPT
                              !.sum = @ + (c.charge * (c.ungated - c.gated)) \div c.ungated]
            ELSE UNCHANGED <<run_info, live_scaled_charge>>
  /\ UNCHANGED <<initializing, saved, named, saved_name>>

WriteRunInfo ==
  /\ Call /\ ~initializing /\ saved' = run_info /\ saved_name' = named
  /\ UNCHANGED <<run_info, live_scaled_charge, online_info, initializing, named>>

(* With the mode update_run_info; the live part of the charge is not saved. *)
readRunInfo ==
  /\ Call /\ ~initializing /\ run_info' = saved /\ named' = saved_name
  /\ UNCHANGED <<live_scaled_charge, online_info, initializing, saved, saved_name>>

Next == \/ \E path \in Paths : SetRunNumber(path) \/ InitializeByData(path)
        \/ \E e \in Events : UpdateInfo(e)
        \/ Erase \/ WriteRunInfo \/ readRunInfo

Spec == Init /\ [][Next]_vars

-----------------------------------------------------------------------------
(* The run is the one the last file with a number is named after, whatever  *)
(* its directory and suffix look like and however long its digits are: kept *)
(* while the file is initialised from, forgotten when data is erased, and   *)
(* taken back with a DST file (SetRunNumber, find_integers, Clear).         *)
RunOfFile == run_info.run_number = named
=============================================================================
