------------------------------ MODULE MCFiles ------------------------------
(* DST files, the programs of decoder/ that read them or the files made of  *)
(* them, and the tagger: one at a time.                                     *)
(*                                                                          *)
(* Selection: every file of up to four events numbered 1..3, and of five    *)
(* of which none is both a monitor and a sync event; lists with intervals   *)
(* of one number, of several, and with the ends in the wrong order.         *)
(*                                                                          *)
(* DST files: one path, a buffer of five words, and banks that differ in    *)
(* every list.                                                              *)
(*                                                                          *)
(* Physics calibration: every file of up to three of seven records, and     *)
(* two runs with eight pairs to cross.  Gains: two or three files, two of   *)
(* one run, with channels and references fitted in some of them only.       *)
(* Tagger: a counter of each slot, and two slots an address may be left     *)
(* with.                                                                    *)
EXTENDS EventSelect, DSTFile, PhysCalib, AvgGain, TaggerSystem

VARIABLE part

MCEvents == [number : 1..3, monitor : BOOLEAN, sync : BOOLEAN]
OneMark  == {e \in MCEvents : ~(e.monitor /\ e.sync)}
MCEventFiles == {s \in UNION {[1..n -> MCEvents] : n \in 0..4} \cup [1..5 -> OneMark] : InOrder(s)}

interval(b, e) == [begin |-> b, end |-> e]
MCBadLists == {<<>>, <<interval(2, 2)>>, <<interval(1, 1), interval(3, 3)>>, <<interval(3, 2)>>}

ev(n, d) == [number |-> n, data |-> d]

MCBanks == {
  [events |-> <<>>, epics |-> <<>>, hycal |-> <<2, 3>>, gem |-> <<4>>,
   epics_map |-> <<1>>, run_info |-> 1],
  [events |-> <<ev(1, <<2>>)>>, epics |-> <<ev(1, <<3>>)>>,
   hycal |-> <<1>>, gem |-> <<2>>, epics_map |-> <<3>>, run_info |-> 2],
  \* the same systems, calibrated anew
  [events |-> <<>>, epics |-> <<>>, hycal |-> <<4>>, gem |-> <<1>>,
   epics_map |-> <<2, 2>>, run_info |-> 1]}

\* The second holds an event larger than the buffer.
MCSources == {<<rec("epics", ev(1, <<1>>)), rec("event", ev(2, <<1, 2>>))>>,
              <<rec("event", ev(3, <<1, 1, 1>>))>>}

MCModes == {{"update_gem_info", "update_run_info"}, {"update_epics_map", "update_hycal_ped"}}

hit(E, phi, theta, flag, inner) ==
  [E |-> E, phi |-> phi, theta |-> theta, flag |-> flag, nblocks |-> 5, cid |-> 7,
   inner |-> inner, at |-> 9, near |-> TRUE]
both == {"PbWO4", "GEM1Match"}

physics(hits) == [type |-> "event", trigger |-> "TotalSum", hits |-> hits]
\* A Moller pair of 1000 MeV, one with an ep, two clusters that are not on a line.
moller == physics(<<hit(600, 0, 12, both, TRUE), hit(400, 180, 16, both, FALSE)>>)
evenly == physics(<<hit(500, 0, 14, both, TRUE), hit(495, 181, 14, both, TRUE)>>)
highep == physics(<<hit(100, 10, 30, {"PbGlass"}, FALSE), hit(950, 190, 30, {"PbWO4"}, FALSE)>>)
askew  == physics(<<hit(980, 0, 12, both, TRUE), hit(990, 90, 12, {"Transition"}, FALSE)>>)
single == physics(<<[hit(990, 0, 12, both, TRUE) EXCEPT !.at = 8]>>)
\* The first and the third have the same weight.
multi  == physics(<<hit(300, 180, 14, both, FALSE), hit(600, 0, 12, both, FALSE),
                    hit(500, 180, 30, both, FALSE)>>)
crowd  == physics([i \in 1..6 |-> hit(100, 0, 12, {}, FALSE)])
pulser == [type |-> "event", trigger |-> "LMS", hits |-> <<hit(900, 0, 12, {}, FALSE)>>]
beam(E) == [type |-> "epics", beam |-> E]

MCRecords == {moller, evenly, highep, askew, single, multi, beam(1000)}
MCPhysRuns ==
  {{}} \cup {{[run |-> 1, records |-> s]} : s \in UNION {[1..n -> MCRecords] : n \in 0..3}}
    \cup {{[run |-> r, records |->
              IF r = 1 THEN <<beam(-9999), single, beam(1000), moller, crowd, moller, moller, moller>>
                       ELSE <<pulser, evenly, moller, multi, moller, evenly>>] : r \in 1..3}}
    \cup {{[run |-> 2, records |-> <<beam(1000), highep>>],
            [run |-> 2, records |-> <<askew, beam(2000), moller>>]}}
MCInnerModules == {8, 9}

channel(name, ped, LMS) == [kind |-> "hycal", name |-> name, ped |-> ped, LMS |-> LMS]
reference(r, ped, alpha, LMS) ==
  [kind |-> "reference", ref |-> r, ped |-> ped, alpha |-> alpha, LMS |-> LMS]
MCKeys == {channel("W1", 3, 0), channel("G1", 0, 5),
           reference(1, 2, 4, 7), reference(1, 0, 0, 1), reference(2, 3, 2, 0)}
\* A file of one setup: its lists are always the same, its fits are not.
setup(r, p, q) ==
  [run |-> r, keys |-> <<channel("W1", p, q), reference(1, p, 4, q), channel("G1", q, 2)>>]
MCLMSRuns ==
  {{}} \cup {{setup(1, p, q), setup(r, q, u), setup(3, u, p)} :
               p \in {0, 3}, q \in {0, 3}, u \in {0, 3}, r \in 1..2}
       \cup {{[run |-> 1, keys |-> <<a, b>>], [run |-> r, keys |-> <<c>>],
              [run |-> 3, keys |-> <<channel("W1", 4, 6), a>>]} :
     a \in MCKeys, b \in MCKeys, c \in MCKeys, r \in 1..2}
MCChannelNames == {"W1", "G1"}

SelectInit == part = "select" /\ Init /\ DSTInit /\ bank = CHOOSE b \in MCBanks : TRUE
FileInit   == part = "dst" /\ DSTInit /\ file = <<>> /\ bad_events_list = <<>> /\ Init
OthersInit == DSTInit /\ bank = (CHOOSE b \in MCBanks : TRUE)
                /\ file = <<>> /\ bad_events_list = <<>> /\ Init

NoPhysics == inputFiles = <<>> /\ PhysInit
NoGains   == lmsFiles = <<>> /\ doAverage = FALSE /\ AvgInit

MCInit == /\ TaggerInit
          /\ \/ NoPhysics /\ NoGains /\ (SelectInit \/ FileInit)
             \/ NoPhysics /\ NoGains /\ part = "tagger" /\ OthersInit
             \/ NoGains /\ part = "calibration" /\ OthersInit /\ PhysInit
             \/ NoPhysics /\ part = "gains" /\ OthersInit /\ AvgInit

SelectNext ==
  part = "select" /\ Next /\ UNCHANGED <<part, dst_vars, phys_vars, avg_vars, tagger_vars>>
FileNext   == part = "dst" /\ DSTNext /\ UNCHANGED <<part, vars, phys_vars, avg_vars, tagger_vars>>
CalibNext  == part = "calibration" /\ PhysNext /\ UNCHANGED <<part, vars, dst_vars, avg_vars, tagger_vars>>
GainNext   == part = "gains" /\ AvgNext /\ UNCHANGED <<part, vars, dst_vars, phys_vars, tagger_vars>>
TagNext    == part = "tagger" /\ TaggerNext /\ UNCHANGED <<part, vars, dst_vars, phys_vars, avg_vars>>

MCSpec ==
  MCInit /\ [][SelectNext \/ FileNext \/ CalibNext \/ GainNext \/ TagNext]_<<
                 part, vars, dst_vars, phys_vars, avg_vars, tagger_vars>>
=============================================================================
