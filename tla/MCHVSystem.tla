----------------------------- MODULE MCHVSystem -----------------------------
(* Threads: two crates, one with an empty slot between two boards, one with *)
(* a single board that is not in its first slot; a settings file with lines *)
(* of boards that exist, one of them twice.                                 *)
(*                                                                          *)
(* Channels: a crate with a board with a primary channel, an empty slot and *)
(* another board, and one with a slot that is known to be bad; their list   *)
(* has a line with a name that is known.                                    *)
EXTENDS HVSystem, HVChannels, TLC

CONSTANTS k1, k2

VARIABLE part

MCCrates == {k1, k2}
MCList   == <<k1, k2>>
MCSlots  == 0..2
MCSlotsOf == (k1 :> <<0, 2>>) @@ (k2 :> <<1>>)

L(c, s, v) == [crate |-> c, slot |-> s, vset |-> v]

MCFiles == {<<L(k1, 2, 1), L(k2, 1, 2), L(k1, 2, 2)>>}

(* RestoreApplies is stated for files that name boards.                     *)
ASSUME MCFilesFit == FilesFit

MCCrateLines == <<[name |-> k1, id |-> 1], [name |-> k1, id |-> 5], [name |-> k2, id |-> 5]>>

Board(n, m) == [chans |-> n, multi |-> m]
MCInstalled == (1 :> ((0 :> Board(2, TRUE)) @@ (1 :> Board(0, FALSE)) @@ (2 :> Board(1, FALSE))))
               @@ (5 :> ((14 :> Board(1, FALSE)) @@ (15 :> Board(1, FALSE))))

MCUnwritten == {[name |-> "?", on |-> FALSE, vset |-> 2]}

all_vars == <<part, vars, channel_vars>>

MCInit == /\ part \in {"threads", "channels"} /\ Init /\ ChannelsInit
          /\ part = "threads" => \A a \in DOMAIN crate_hw : crate_hw[a].name = "W1"
          /\ part = "channels" => \A c \in Crates : hw[c][1] = 1

ThreadsNext  == part = "threads" /\ Next /\ UNCHANGED <<part, channel_vars>>
\* A program may stop using the channels; the threads may not stop.
CratesNext  == part = "channels" /\ (ChannelsNext \/ UNCHANGED channel_vars) /\ UNCHANGED <<part, vars>>

\* In the other part the threads are idle: their fairness asks for nothing.
MCSpec == MCInit /\ [][ThreadsNext \/ CratesNext]_all_vars /\ Fairness
=============================================================================
