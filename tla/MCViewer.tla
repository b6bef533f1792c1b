------------------------------ MODULE MCViewer ------------------------------
(* What the viewer does on its own thread, one part at a time: the objects  *)
(* of the detectors it builds, the texts it reads its configuration from,   *)
(* the searches in the banks, what it shows, and the dialogs that set the   *)
(* reconstruction and the spectrum.  The parts share no state.              *)
(*                                                                          *)
(* Search: every ascending bank of up to five numbers out of 0..5.          *)
(* View: files with physics and monitor events of none to two clusters.     *)
(* Settings: coordinate files with two runs, with one incomplete run, and   *)
(* without any.                                                             *)
(* Spectrum: ranges of a preset and others; custom maps without a module, of *)
(* the range of a preset, with a negative value, and beyond the spin boxes. *)
(* Config: every value of up to three tokens, and longer ones that begin and *)
(* end with a brace, next to lines of comments, of too many elements and     *)
(* with repeated keys; two settings, one with a default; two module types.   *)
(* Info: every path of up to four characters; sync events with and without  *)
(* counts; 12 as the largest int.                                           *)
(* Text: every text of up to five tokens with comments between marks, or    *)
(* with comments to the end of the line, and longer ones of both kinds.     *)
(*                                                                          *)
(* HyCal wiring: two modules of one name and one of another; a channel for  *)
(* each name and a third that repeats a name or an address; one group,      *)
(* listed with the first two channels, and a second of the same address.    *)
(* GEM wiring: two APVs; two FECs and one plane, or one FEC and one beyond  *)
(* the capacity with two planes; a detector of a known name and another.    *)
EXTENDS EventSearch, EventView, HyCalWiring, Dialogs, TLC

CONSTANTS d1, d2, m1, m2, m3, a1, a2, a3, t1, t2,
          f1, f2, g1, g2, p1, p2, v1, v2

VARIABLES part,
          slot, home, objects, daq_list, loose, phase,
          text, source, lines, in_comment_pair, taken, reads, proper,
          config_map, config_path, settings, min_module_energy, disk, last, overrides,
          applied, calls,
          run_info, live_scaled_charge, online_info, initializing, saved, named, saved_name,
          info_calls

MCEventFiles   == {<<"p1">>, <<"p2", "m">>, <<"p1", "p2">>}
MCOnlineEvents == {"q", "s"}
MCClusters     == ("p1" :> 2) @@ ("p2" :> 1) @@ ("q" :> 1)

MCCoordFiles == {(5 :> <<-552455, 1012440>>) @@ (7 :> <<1012440, 29876500>>),
                 (6 :> (2 :> -552455)), <<>>}
MCCoordValues == {25000000}
MCCustomMaps == {<<>>, << <<"W1", 24>>, <<>>, <<"X", 90>>, <<"G1", -3>> >>,
                 << <<"W1", 3>>, <<"W1", 23>> >>, << <<"G1", 900000>> >>}

TextsOf(A, n) == UNION {[1 .. k -> A] : k \in 0 .. n}
MCTexts == TextsOf({"word", "nl", "open", "close"}, 5) \cup TextsOf({"word", "nl", "mark"}, 5)
           \cup {s \o t : s \in [1 .. 4 -> {"word", "nl", "open", "close"}],
                          t \in {<<"close", "word", "nl">>, <<"mark", "word", "nl">>}}

T == INSTANCE ConfigText WITH Texts <- MCTexts, MaxReads <- 2

MCValues == TextsOf({"{", "}", "a", "B"}, 3)
            \cup {<<"{">> \o v \o <<"}">> : v \in [1 .. 2 -> {"{", "}", "a", "B"}]}
            \cup {<<"{", "{", "a", "}", "b", "}">>, <<"{", "{", "c", "}", "}", "a">>,
                  <<"{", "a", "{", "c", "}", "}">>, <<"{", "}", "{", "b", "}", "}">>}
MCLines == <<<<"a", "=", "b">>, <<"A", "_", "b", "=", "=", " ", "5", "#", "6">>,
             <<"b", "=", "7", "=", "8">>, <<" ", "B", " ", "=", "9">>, <<"b", " ", "=", "6">>,
             <<"c", "=">>, <<"#", "c", "=", "1">>>>

C == INSTANCE ConfigStore WITH
       Files <- {Append(MCLines, <<"s", "=", " ">> \o v) : v \in MCValues}
                \cup {<<<<"e", "=", "3">>>>, <<<<"e", "[", "w", "]", "=", "4">>, <<"E", "=", "3">>>>},
       Values <- {<<>>, <<"{", "a", "}">>, <<"2">>},
       Lower <- ("A" :> "a") @@ ("B" :> "b") @@ ("E" :> "e") @@ ("S" :> "s"),
       Settings <- <<[name |-> <<"S", " ", "z">>, def |-> <<"1">>], [name |-> <<"s">>, def |-> <<>>]>>,
       Universal <- <<"E">>,
       Typed <- ("w" :> <<"E", " ", "[", "w", "]">>) @@ ("g" :> <<"E", " ", "[", "g", "]">>),
       MaxCalls <- 3

Counts(c, g, u) == [charge |-> c, gated |-> g, ungated |-> u]
Sync(p, c) == [sync |-> TRUE, physics |-> p, dsc |-> c]

I == INSTANCE RunInfo WITH
       calls <- info_calls,
       Paths <- TextsOf({"/", ".", "-", "0", "1", "3"}, 4), IntMax <- 12, SizeMax <- 255,
       Events <- {Sync(TRUE, Counts(2, 1, 2)), Sync(TRUE, <<>>), Sync(FALSE, Counts(1, 1, 2))},
       MaxCalls <- 4

MCNameOf  == (m1 :> "W1") @@ (m2 :> "W1") @@ (m3 :> "W2")
          @@ (a1 :> "W1") @@ (a2 :> "W2") @@ (a3 :> "W1")
          @@ (t1 :> "T1") @@ (t2 :> "T2")
MCAddrOf  == (a1 :> 1) @@ (a2 :> 2) @@ (a3 :> 3) @@ (t1 :> 1) @@ (t2 :> 1)
MCGroupOf == (a1 :> "T1") @@ (a2 :> "T1") @@ (a3 :> "T2")

MCChannelLists == {<< <<t1, t2>>, <<a1>> >>, << <<t2>>, <<a2, a3, a1>> >>}
MCRunInfos     == {<< {a1, a2}, {a1} >>, << {a2, a3}, {} >>}

F == INSTANCE GEMWiring WITH
       FECs <- {f1, f2}, Dets <- {g1, g2}, DaqSlots <- {f1, f2}, DetSlots <- {g1},
       Planes <- {p1}, TypeOf <- p1 :> "X", APVs <- {v1, v2},
       Caps <- {0, 2}, alive <- objects, list <- daq_list

G == INSTANCE GEMWiring WITH
       FECs <- {f1, f2}, Dets <- {g1, g2}, DaqSlots <- {f1}, DetSlots <- {g1},
       Planes <- {p1, p2}, TypeOf <- (p1 :> "X") @@ (p2 :> "Y"), APVs <- {v1, v2},
       Caps <- {0, 2}, alive <- objects, list <- daq_list

ASSUME MCObjectsDistinct == ObjectKinds /\ F!DistinctObjects /\ G!DistinctObjects

gem_vars      == <<slot, home, objects, daq_list, loose, phase>>
text_vars     == <<text, source, lines, in_comment_pair, taken, reads, proper>>
config_vars   == <<config_map, config_path, settings, min_module_energy, disk, last, overrides,
                   applied, calls>>
info_vars     == <<run_info, live_scaled_charge, online_info, initializing, saved, named,
                   saved_name, info_calls>>
all_vars      == <<part, vars, wiring_vars, gem_vars, view_vars, settings_vars, text_vars,
                   config_vars, info_vars, screen>>

(* One initial state of a part stands for all while another part runs.      *)
MCInit ==
  /\ part \in {"search", "view", "settings", "text", "config", "info", "spectrum",
              "hycal", "fecs", "planes"}
  /\ Init
  /\ part # "search" => list = <<>> /\ val = 0 /\ bank = "event_data"
  /\ WiringInit
  /\ part # "hycal" => hycal = d1 /\ recon = "Island"
  /\ IF part = "fecs" THEN F!Init ELSE G!Init
  /\ ViewInit
  /\ R!Init
  /\ part # "settings" => coords_data = <<>> /\ mark = 1 /\ \A m \in DOMAIN config : config[m] = 1
  /\ T!Init
  /\ C!Init
  /\ I!Init
  /\ S!Init
  /\ part # "config" => disk["file.conf"] = <<<<"e", "=", "3">>>>

SearchNext ==
  part = "search" /\ Next
  /\ UNCHANGED <<part, wiring_vars, gem_vars, view_vars, settings_vars, text_vars, config_vars,
                 info_vars, screen>>
HyCalNext ==
  part = "hycal" /\ WiringNext
  /\ UNCHANGED <<part, vars, gem_vars, view_vars, settings_vars, text_vars, config_vars,
                 info_vars, screen>>
GEMNext ==
  /\ \/ part = "fecs" /\ F!Next
     \/ part = "planes" /\ G!Next
  /\ UNCHANGED <<part, vars, wiring_vars, view_vars, settings_vars, text_vars, config_vars,
                 info_vars, screen>>
ViewStep ==
  part = "view" /\ ViewNext
  /\ UNCHANGED <<part, vars, wiring_vars, gem_vars, settings_vars, text_vars, config_vars,
                 info_vars, screen>>
SettingsNext ==
  part = "settings" /\ R!Next
  /\ UNCHANGED <<part, vars, wiring_vars, gem_vars, view_vars, text_vars, config_vars, info_vars, screen>>
TextNext ==
  part = "text" /\ T!Next
  /\ UNCHANGED <<part, vars, wiring_vars, gem_vars, view_vars, settings_vars, config_vars,
                 info_vars, screen>>
ConfigNext ==
  part = "config" /\ C!Next
  /\ UNCHANGED <<part, vars, wiring_vars, gem_vars, view_vars, settings_vars, text_vars, info_vars, screen>>
InfoNext ==
  part = "info" /\ I!Next
  /\ UNCHANGED <<part, vars, wiring_vars, gem_vars, view_vars, settings_vars, text_vars, config_vars, screen>>

SpectrumNext ==
  part = "spectrum" /\ S!Next
  /\ UNCHANGED <<part, vars, wiring_vars, gem_vars, view_vars, settings_vars, text_vars, config_vars,
                 info_vars>>

MCSpec ==
  /\ MCInit
  /\ [][\/ SearchNext \/ HyCalNext \/ GEMNext \/ ViewStep \/ SettingsNext \/ TextNext
         \/ ConfigNext \/ InfoNext \/ SpectrumNext]_all_vars

(* GEM: the two sides of every association agree, nothing points to         *)
(* something deleted, and nothing is lost without being deleted.            *)
GEMLinksHold ==
  /\ part = "fecs" => F!LinksAgree /\ F!NothingDangling /\ F!NothingLeaks
  /\ part = "planes" => G!LinksAgree /\ G!NothingDangling /\ G!NothingLeaks

(* A text means what is written in it.  A parser takes what stands outside  *)
(* of the comments; a value is formed as the example says; what is saved    *)
(* gives the same values when it is read; settings are those of the last    *)
(* file, or set since; and the run is the one the path of the last file     *)
(* with a number names.                                                     *)
TextReadAsWritten ==
  /\ part = "text" => T!ReadsOutsideComments
  /\ part = "config" => C!FormedAsWritten /\ C!SavedReadsBack /\ C!SettingsFromLastFile
  /\ part = "info" => I!RunOfFile

(* Config: module types have the minimum energy that is configured.         *)
MinEnergyAsConfigured == part = "config" => C!MinEnergyAsConfigured
=============================================================================
