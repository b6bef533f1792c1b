# Verification of the PRad event viewer and decoder

TLA+ models of the parts of PRadEventViewer whose correctness depends on order
or on state that outlives an event: threads that share buffers and crates,
objects that point to each other, files that are cut short, settings and
constants that are replaced, and the algorithms of reconstruction, which change
the lists they go through. TLC checks each model on small instances; TLAPS
proves the most important properties of sixteen of them for every value of the
constants.

## 1. The system

PRadEventViewer shows and analyses the data of the PRad experiment (an
electromagnetic calorimeter, HyCal; two GEM detectors; a tagger; slow control
through EPICS). The same classes serve the viewer (Qt, one GUI thread) and the
command line programs in `src/decoder`.

| component | state it keeps | operations | with whom |
|---|---|---|---|
| `PRadDataHandler` | two `EventData` buffers, the data bank, the mode flags, `end_thread` | `Decode`, `ReadFromEvio`, `ReadFromSplitEvio`, `Replay`, `InitializeByData`, `ReadFromDST`, `WriteToDST`, `Clear`, `FindEvent` | called by the viewer and the programs; fed by the parser; feeds the detector systems |
| `PRadEvioParser` | `event_number` | `ReadEvioFile`, `ReadEventBuffer` | calls `StartofNewEvent`, `FeedData`, `EndofThisEvent` of the handler; a thread for each large ROC bank |
| `PRadDSTParser` | one buffer in, one out, two streams, the mode bits | `Open/CloseOutput`, `Write...`, `Open/CloseInput`, `Read` | owned by the handler; reads and updates the detector systems |
| `PRadEPICSystem` | channel map, current values, EPICS bank | `FillRawData`, `SaveData`, `FindEvent`, `FindValue`, `Reset` | values are written by the parser's thread and read by `end_thread` |
| `PRadHVSystem`, `CAEN_Crate/Board/Channel` | crates with their board lists, channels and slot maps, `locker`, `alive`, `queryThread` | `Connect`, `Disconnect`, `StartMonitor`, `StopMonitor`, `SaveCurrentSetting`, `RestoreSetting`, power, voltages and names | started from the viewer's menu; talks to the CAEN library; calls `Refresh` of the viewer |
| `PRadETChannel`, `PRadETStation` | the connection to ET, the stations | `Open`, `NewStation`, `AttachStation`, `Read`, `ForceClose` | the viewer's online mode polls it with a timer |
| `PRadEventFilter`, `eventSelect` | bad event intervals, the current pack | `IsBadEvent`, `IsBadPeriod`, the selection loop | reads and writes DST files |
| `PRadGEMSystem` and its FECs, APVs, detectors, planes | links in both directions, raw buffers, hit flags, pedestals | map files, connect and disconnect, `FillRawData`, `ZeroSuppression`, `ChooseEvent` | fed by the handler and the ROC threads |
| `PRadGEMCluster` | thresholds | `FormClusters`, `Cartesian...` | called for each plane of a detector |
| `PRadHyCalSystem` and its ADC and TDC channels, modules, detector | links in both directions, pedestals, gains, histograms, cluster methods | map and calibration files, `Sparsify`, `ChooseEvent`, `FitPedestal`, `CorrectGainFactor` | fed by the handler |
| `PRadIslandCluster`, `PRadSquareCluster`, `PRadPrimexCluster` with `island.F` | groups and clusters; the common blocks of the Fortran code | `FormCluster`, `LeakCorr` | called by `PRadHyCalDetector::Reconstruct` |
| `PRadDetMatch`, `PRadCoordSystem` | match settings; coordinates by run | `Match`; `LoadCoordData`, `ChooseCoord` | used by the viewer and the analysis programs |
| `PRadInfoCenter` | run and online information | `SetRunNumber`, `UpdateInfo`, `Reset` | a singleton, updated by `end_thread` |
| `ConfigParser`, `ConfigObject` | lines, the state of a comment; a map of keys to values | reading, `GetConfigValue`, `SaveConfig`, `Configure` | base of the cluster methods, the matching and the systems |
| viewer windows | event, cluster, marks, scene; the settings dialog | slots of the GUI thread | callers of all of the above |
| `PRadTaggerSystem` | a table of channel numbers, two histograms | `FeedTaggerHits`, `FillHists`, `Reset` | fed by the parser through the handler |
| `Spectrum`, `SpectrumSettingPanel` | type, scale and range of the colors; what the dialog shows | setters, presets, view modes, custom maps | repaints the viewer at each change |
| `physCalib`, `getAvgGain` | histograms and pairs of a range of runs; arrays of fits | the loops over files | read DST files and histogram files, write calibration and gain databases |
| utilities, other decoder programs, tools | histograms, or nothing | | |

What is hard here, and what makes each part correct:

* **Event path.** The caller parses into `*new_event` while `end_thread` works
  on the other buffer. The only synchronisation is the join in
  `waitEventProcess`. Correct means: the two threads never hold the same
  buffer; every event reaches the bank or the DST output once, in order, with
  its own number, type, trigger and hits; nothing of the buffer's previous event
  is left in it; histograms agree with the bank; an operation returns only when
  the last event is stored.
* **High voltage.** `Connect` runs on a worker, the monitor on `queryThread`,
  everything else on the GUI thread; three of the operations take no lock and
  rely on which menu actions are enabled and on joining the monitor; what the
  viewer paints is read without a lock at any time. Crates fail at any call.
  Correct means: all other access is exclusive, never two monitors, settings
  restored to the channels they name, what is shown is what is set, the menu
  always returns.
* **DST files.** A closed file gives back what was written, whatever failed
  before; a file cut short by a crash does bounded damage.
* **Searches and selection.** Exact at both ends, for any bank and any list.
* **Online mode.** A worker connects to ET while the GUI goes on, ET may die at
  any moment, stations outlive connections. Correct means: one thread on the
  channel at a time, no connection leaked, every attempt and every update ends.
* **GEM and HyCal wiring.** Long sequences of legal calls, some of which return
  half way, must keep links in both directions consistent.
* **Readout.** Threads side by side fill APVs that keep their buffer and their
  hit flags for ever, through bad packets and early returns. Correct means: the
  hits of an event are those of its data, once.
* **Calibration.** Pedestals and gains come from several files and from data, in
  any order. Correct means: corrections replace each other, and histograms
  follow the bank.
* **Clusters.** Groups are merged and split in lists that change while they are
  gone through, and shares are dropped and corrected. Correct means: clusters
  are the connected parts of the hits, and energy is neither lost nor invented.
* **Configuration.** Files are read into maps and members that are there
  already. Correct means: what is in use is what was read or set last.
* **Analysis over many files.** State is made once and lives through all files of
  a range of runs. Correct means: nothing of one run is taken for another's, and
  every cluster is counted once.
* **Viewer.** Slots, timers and dialogs interleave on one thread. Correct means:
  what is painted is what is chosen, and what is chosen exists.

`PROJECT.json` lists every component with its status and every hazard at its
line of code.

## 2. Plan

Order by importance; all of it is done, except what section 7 lists.

1. `EventPipeline`, with the abstract `EventStore` it implements, and proofs.
2. `EventSearch`, `HVSystem`, `EventSelect`, `OnlineET`, with proofs; `DSTFile`.
3. Wiring: `GEMWiring`, `HyCalWiring`.
4. Readout with the ROC threads and calibration: `GEMReadout`,
   `HyCalCalibration`.
5. Reconstruction: `HyCalClusters`, `PrimexClusters`, `IslandSector`,
   `GEMClusters`, `DetMatch`.
6. The viewer and its settings: `EventView`, `ReconSettings`,
   `SpectrumSettings`, `Dialogs`, `ConfigText`, `ConfigStore`, `RunInfo`,
   `HVChannels`.
7. Programs over many files, and the tagger: `InputFiles`, `PhysCalib`,
   `AvgGain`, `TaggerSystem`, with proofs.
8. Proofs of the refinement of `EventStore`, of the histograms, of the readout,
   of voltages and calibration, of DST files, of the GEM wiring.
9. Proofs of the HyCal wiring, of the island grouping and of the matching.

What is left to prove is listed at the end of section 5.

## 3. Modules

Names are the code's where TLA+ allows it. Mutants (definitions introduced by a
comment "Mutant of ...") are plausible bugs; no specification uses them. Each
property of a passing run is violated when its mutant replaces the definition it
belongs to.

### EventPipeline, EventStore

`EventPipeline` has the caller's thread (`pc`, the operation `cmd`, what is left
of the file in `input`) and `end_thread` (`endpc`: `start`, `store`, `clear`,
`done`, or `none` when it is not joinable). `buf` are the two `EventData`,
`new_event` and `proc_event` the indices the code's pointers are, `ev` the
argument of the running `EndProcess`. One action is what a thread does between
two accesses to shared state: `StartofNewEvent`, one `FeedBank` per bank,
`EndofThisEvent`, the join with the swap and the new thread in `SwapAndSpawn`;
on the other side `FillHistograms`, `StoreEvent` or `StoreEpics`, `ClearBuffer`.
`Replay`, `ReadFromEvio`, `Decode`, `InitializeByData`, `Clear` and the online
switch are the caller's operations.

The payload of an event is where it came from: the k-th bank of the n-th event
read is `<<n, k>>`, so an event that holds another's data is visible. An EPICS
value is the ordinal of the event that wrote it. `truth` remembers what each
event contained. The trigger decides what sparsification keeps, and a bank that
precedes the trigger word sees the trigger left in the buffer, as in the code.

`EventStore` is what the handler promises: one list of events and one of EPICS
events, to which complete events are appended in reading order, and which an
operation clears. `ImplementsStore` (in `MCEventPipeline`) is the refinement,
with the mapping at the end of `EventPipeline`.

Assumed: all detector systems are attached; the output of a replay can be
opened; `WriteEvent` does not throw (it does only for a file that is not open).
ROC banks are parsed in sequence here; their threads are in `GEMReadout`.

### EventSearch

`binary_search` and `binary_search_close_less` of `canalib.h`, one loop
iteration per step, on `event_data` with the operators of `EventData` and on
`epics_data` with those of `EpicsData`. The bank is any ascending list: an EPICS
event repeats the number of the physics event before it.

### HVSystem, HVChannels

`HVSystem` has the threads: the GUI thread (`gui`, `op`, the `enabled` menu
actions), the worker of `Connect`, `queryThread` with its `loopCount`, `locker`
and its holder. Each pass of a loop over `crateList` is a step, since the code
can be overtaken between two crates. `mapped`, `boardList` and `slot_map` are
the crate's fields; `hw` is what the crate really outputs (external). Each call
of the CAEN library may fail; a read that fails leaves what was in the array
(`Unset`). `Refresh` and `GetVoltage` are the viewer painting voltages or the
status of a module, from the idle event loop and without the lock (`gui` is
"show" meanwhile); it may paint while any other thread is anywhere. What comes of
reading a list while it grows is not modelled, as what is read is only painted.
`QueryRefresh` is the same on `queryThread`.

`HVChannels` has what the programs do with the channels, without threads: the
crate list with a repeated name, mapping and clearing a crate, power, voltages
and names set by address, by channel, by board and for all, and read back. A
board whose first channel switches all of them, a slot known to be bad, channels
renamed on the crate, and every call failing are in it.

Left out: a view of voltages that refreshes during `Connect`, quitting during
`Connect`; monitored voltages, limits and status, which only make messages.

### DSTFile

A file is the sequence of its records, a record is type, length and body, and a
field takes one word. `WriteToDST` and `Replay` put the records to save in
`todo`; `WriteRecord` is a `Write...` function with `saveBuffer`, `WriteFails`
the one that throws because the file could not be opened (inside `try` for
`WriteToDST`, outside for `Replay`, which ends the program). `out_buf` keeps the
fields of a record that was refused. `Killed` ends the program while it writes:
the stream is buffered, so the file then ends at any word. `ReadNext` is
`Read` with what `ReadFromDST` does of the record; it reads what is there and
leaves the rest of `in_buf` and `in_bufl` as they were; a field beyond the length ends the program, as `exit(-1)` does. The mode bits decide
what an info record changes. `readHyCalInfo` skips every channel the system has
and dereferences a null pointer for one it does not have; the model has both,
and `ClosedFileReadsBack` leaves it open whether the bits of HyCal work.
That every program has a HyCal system (`DSTAssumption`) is read off the callers:
the viewer, `replay.cpp` and `testSim.cpp` set one.

Left out: format 0x13, which has no length words; the padding byte `saveBuffer`
adds; a file that ends inside a word; stop of a load at an unknown record type.

### EventSelect

`eventSelect.cpp` with `PRadEventFilter`: one event of the input per step.
Assumed: the input is in the order of event numbers, as a replay writes it.
Nothing is assumed of the list of bad events, except in `SelectsExactly`, whose
intervals do not end before they begin.

### InputFiles, PhysCalib, AvgGain

Two programs of `src/decoder` with state that outlives a file. `InputFiles` is
how both find the files of a range of runs: sorted by run, files of one run in
any order. `PhysCalib` is `physCalib.cpp`, one record per step: the cuts that
take a cluster for ep or for one of a Moller pair, in the order of the code,
what the histograms are filled with, and the pairs that wait to be crossed. A
cluster is what reconstruction and matching make of it; the direction of the
inequalities and the integer forms of the cuts are the code's. The beam energy
is 0 until the first EPICS event and may be negative, as a failed reading is.
`AvgGain` is `getAvgGain.cpp`, one list of histograms per step, with and without
averaging; a fit is its mean, 0 when there were too few entries.
`GainsOfOwnRun` has two parts. What the last file of a run fitted is in the
lines of its lists, whatever the files were. And when the files read so far list
the same channels and references in the same order, every line has the name of
its channel, and a line or reference without a list shows nothing, so that the
whole database is of that run. Without that condition the code keeps names and
values of an earlier run (section 6).

Left out: widths of fits, which go where the means go; the fits of the
histograms and the point where two lines cross, which is geometry; printing.

### TaggerSystem

A bank of the tagger word by word: a header sets the slot, a hit is fed with the
channel number that slot and channel are folded into, and `FillHists` takes the
numbers of an event apart again, each into the bin that ROOT's axis has for it
(`FindBin`, from 1; one more than the last when it is beyond). `slot` is any of `UnsetSlots` before the first
header, since the code does not initialise it. `MaxHits` bounds the hits of an
event.

### OnlineET

The GUI thread (`gui`: in the event loop, in one of the three message boxes, or
in `onlineUpdate`), what can be chosen in the menu (`enabled`), the timer, and
the worker that runs `connectETClient`. `et_id`, `stations`, `curr_stat` are the
channel's fields, `attach_id` that of each station object. `initOnlineMode` is
the accepted settings dialog; `startOnlineMode` the watcher's signal, split at
its message box, since other threads and ET go on while it is shown;
`stopOnlineMode` likewise. `Read` takes an event and `PutFails`, `Decode` or
`Discard` puts it back, so ET can die in between.

ET is external: `conn` are its live connections, `attached` those with an
attachment, `exists` its stations, `queue` the number of events waiting. A
station stays when its client closes, as `Create` expects (`ET_ERROR_EXISTS`),
until the operator removes it or ET restarts. A handle that is in use, held by
the channel or remembered by a station is not given again. `credit` counts the
decoded events, less `Chunk` for each discarded one, and is cut at `Cap`;
cutting can only lower it. Nothing else needs a bound.

Left out: contents and sizes of events (`copyEvent` skips a block header), the
settings of a station, `SwitchStation`, `RemoveStation` and `Detach`, which
nothing calls, and what `Decode` does, which is in `EventPipeline`.

### GEMWiring

Every association of the GEM objects is stored twice. `slot` has the holder's
pointers, `home` what a member knows of its holder and its place; "daq" and
"det" are the two sides of the system. The functions of both sides call each
other with a `force` flag that ends the recursion, so each is an operator from
wiring to wiring, and an action is the call a user of the class can make:
adding, connecting, disconnecting, removing, resizing an FEC, destroying any
object. `daq_list` and `objects` are the lists and what is not deleted.

Left out: copies and moves of the objects, which nothing calls; a second
`Configure` of the same system (the programs read one map file).

### GEMReadout

The parser (`event`, `next`), a thread for each large bank (`thread`), `locker`
around the raw data of all of them, the APVs' buffers and flags (`apv`), the
hits of the event (`gem`), the stored events, and `strips` of the planes, which
`ChooseEvent` fills. A word in a buffer is the event it came from and how often
the common mode was subtracted. Packets may be too long, too short, without
header or for an APV that is not there; zero-suppressed packs may be incomplete.
`PedestalMode`, the monitor trigger and `Reset` are in it. Pedestal fits are
external; whether a channel has a signal above threshold is given with the
packet.

### GEMClusters

One plane of an X side: channel to strip (`MapStrip` with the special mapping of
the last APVs), grouping, the split at valleys, position, filters and cross
talk. The last APV reads strips of its two neighbours again, so hits of one
strip go to two sides with half of the charge. Left out: configuration, the
Cartesian combination, and the logarithm of positions.

### HyCalWiring, HyCalCalibration

`HyCalWiring` has every pointer pair between system, detector, modules, ADC
channels and TDC groups, with the ids that stand for positions in lists; map
files read again, `Configure` again, modules, channels and groups added,
removed and deleted; the registry of cluster methods; and what is read of an
event through the links (`ChooseHits`, `ReconstructEvent`). `HyCalCalibration` has
the numbers: pedestals, the factor and base gains of each module, which
histogram a trigger fills, the bank, and the energy histogram, under
calibration files, run information files, `InitializeByData`, `fitPedestal`,
`correctGainFactor`, reading and erasing. A fit is the mean of the entries.

Left out: `DisconnectDetector` and `DisconnectModule` called from outside of a
destructor, copies and moves, text output.

### HyCalClusters, PrimexClusters, IslandSector

`HyCalClusters` is one event of the island or the square method, a step per
stage: hits, groups (with merging and erasing while iterating), the split of a
group at its maxima, clusters with leakage. Modules stand on a grid of one size;
positions are a choice, so energies are checked for any of them.
`PrimexClusters` hands the hits to the Fortran code by sectors and glues what
comes back over the borders; what the Fortran code finds is a choice there, and
`IslandSector` has it in detail: `main_island` with `clus_hyc`, `gams_hyc` and
`out_hyc` on one sector, with the tables of photons and cells that are kept from
one event to the next. Real numbers are integers. Left out: the branch without
`ISLAND_FINE_SPLIT` (`PRadIslandCluster.h:7` defines it), and the fits of
`gamma_hyc`, which returns before it would try a second photon.

### DetMatch, ReconSettings

`DetMatch` chooses the hits of both GEMs for each HyCal hit, on a line.
`ReconSettings` is the settings dialog over the coordinate database and the
objects it configures: each slot is an action, with the slots its own changes
trigger. A detector has one coordinate instead of six, in units of 10^-6 mm, and
`InBox` is its spin box: four decimals, from -20 to 20. `saveCoordData` stores
what the box shows, so Ok rounds a coordinate nobody edited. `pending` is a
history variable: the detectors saved to the copy but not applied.

### EventView

The event spin box, the bank, the event in the channels, the clusters and their
box, marks, and the painted scene, over files, erasing, online mode and its
timer, recalibration and dialogs, during which only timers and watchers run.
Handlers are operators from a state of the viewer to the next one, because they
call each other through signals.

### SpectrumSettings

The spectrum, the dialog that sets it, the view mode, the custom map, and what
the modules were last painted with. As in `EventView`, slots are operators from
a state to the next, since a spin box runs its slot, and a change repaints, while
the caller is still at work. Values are integers; which value a module shows in
a view mode belongs to `EventView` and the detector modules.

`Dialogs` composes this module and `ReconSettings`: both dialogs of one viewer,
whose steps interleave, with `DialogsAsShown` for the two of them. `MCViewer`
extends it and runs each dialog as a part of its own; the proof is of the
interleaving.

### ConfigText, ConfigStore, RunInfo

`ConfigText` has both readers of `ConfigParser` with their comments;
`ConfigStore` lines, keys and values, `ConfigObject::form` with its braces,
`SaveConfig`, and the members `Configure` assigns; `RunInfo` the run number of a
path, with positions that wrap around and digits up to the largest `int`, and
the sums over sync events.

### MC and Proofs modules

`MC...` modules hold the instances; `...Proofs` modules the theorems.
`MCReconstruction`, `MCViewer`, `MCFiles` and `MCHVSystem` put several
components side by side: a variable `part`, chosen in the initial state, names
the one that runs. A component is extended (its specification then has a name of
its own, as in `EventView` and `HyCalWiring`) or instanced; a property of an
instance is stated for its part, one of an extended component holds while other
parts run because its state does not change. The parts share no state, so that a behaviour
of one says all there is to say of it; while a part does not run it is in one
initial state.

## 4. Runs

All passing runs but `viewer` check deadlock. A system that may rest has a step
that shows it: an idle handler can always be called, and a program may stop
using the channels. The parts of `viewer` do stop: a search is done, and a
system that was destroyed is used no more.

| run | question | instance |
|---|---|---|
| `pipeline` | Do the two threads store every event once, in order and complete, for every interleaving and any sequence of operations, and what still holds when `InitializeByData` does not wait? | physics, monitor, EPICS and control events and a damaged block in nine files, up to four events, one limit; with `InitializeByData` on the shorter files and without `Clear` |
| `hv` | Exclusive access, one monitor, correct restore, progress; and is what is shown what is set? | threads: two crates with empty slots, one with two boards, all failures, a settings file that names a channel twice; channels: two crates with an empty and a bad slot, four calls |
| `online` | Do worker and GUI thread keep apart, is anything leaked, does everything end? | two station names, four handles, a chunk of two events, a queue of three |
| `files` | What does a DST file give back: closed, cut short, after failures? Are exactly the good packs selected? What do programs over many files, and the tagger, count? | one path, three banks that differ in every list, two replays, two mode words, a buffer of five words; every ordered file of up to five events numbered 1..3, four lists; calibration: files of up to three records out of seven, two runs with eight pairs; gains: two or three files, two of one run; tagger: three slots, three channels, two hits |
| `reconstruction` | From banks to hits, clusters and matches, and the constants in between | see the comment of `MCReconstruction`: seven parts |
| `viewer` | Links, searches, what is shown, dialogs, configuration | see the comment of `MCViewer`: ten parts |

The passing runs take from 10 seconds to 2 minutes.

Why the bounds are enough.

* `pipeline`: with two buffers a mistake shows when a buffer is used the second
  time, which is the third event; a fourth one lets two operations follow each
  other.
* `hv`: two crates make the loops interruptible, and the slots put a board after
  an empty slot; `ReadPeriod` 2 and `CheckPeriod` 4 keep the order of 5 and 30.
  Channels: four calls set, rename, map again and read; a voltage is the initial
  0, a set 1, or 2 that a failed read leaves.
* `online`: two names make a station object come back after another was current;
  the queue is longer than a chunk, so an update ends at the limit or before it.
* `files`: one word more than the largest record of the normal banks, so that
  the second replay source overflows; a path that is written again and again.
  Calibration: three records of one file are every pair of neighbours before and
  after an EPICS event; eight pairs cross twice with one left over between runs.
  Gains: a second and a third file with fewer lists, in another order or of the
  same run, and three files of one setup whose fits fail in turn. Tagger: a channel at each end of the 64 that `TimingRow` swaps.
  Three numbers put an event before, in and after an interval; five events give
  two full packs.
* `reconstruction`, readout: three events, so that an APV's buffer and flags are
  used again after a bad packet and after a monitor event; two large banks give
  two threads beside the parser. Calibration: a file to measure gains, one with
  other heights, physics; a bank of up to four events. Clusters: three columns
  with every energy make one, two or three maxima; three hits in a row that a
  second row may connect make every merge of two and three groups. Each part is
  given a second, different event, so that what is kept from the first would
  show. Sector: rings around inner cells are islands that are glued late; a room
  for four photons is used up. Primex: three sectors that border each other.
  GEM: seven strips around each place where APVs meet.
* `viewer`, wiring: two FECs and a plane, or two planes of two types, because
  links of a member are to one FEC and one plane; two modules of one name and
  channels of one name or address for the refusals. Search: five elements give
  intervals of odd and even length, with repeated numbers. Settings: two
  detectors, coordinate files with two, one incomplete and no run; values beyond
the box (viewer) and between two of its steps (`recon_settings`).
  Text: five tokens open, close and reopen a comment across lines. Config: three
  calls configure, set or save, and configure again; values with two nested or
  two adjacent pairs of braces. Spectrum: spin boxes can reach the range of a
  preset by hand, and custom maps are within, at and beyond their limits. Info: all paths of up to four characters put
  separators, signs and two-digit numbers beyond the largest int in any order.

Six runs end in a counterexample on purpose: each states what a comment of the
code says, and shows that the code does something else.

| run | statement | what happens |
|---|---|---|
| `pipeline_epics_race` | `FindValue` gives the value before the event | an EPICS event is stored with a value of the EPICS event that follows |
| `search_findevent` | `FindEvent` works for files loaded in order | `EventData` compares the wrong way round, and the search goes to the wrong half |
| `gain_reference` | the reference gains are LMS1, LMS2, LMS3 | a gain measured with one PMT is divided by the base gain of the next |
| `island_glue` | subclusters are glued | two cells that touch stay in two islands, because a glued cluster is not in order |
| `recon_settings` | `ApplyChanges` applies all the changes | the match settings are stored, and the matching keeps its copies |
| `min_energy` | the minimum energy is set for all module types | a file read after construction does not change it |

### Properties

* `BufferOwnership`: the parser and `EndProcess` are never on the same buffer.
  `BankHoldsOwnData`: a stored event is one event read. `HistogramsComplete`: the
  histograms have exactly the events read that were not cleared (`cleared`),
  except those still on their way: the one at the join and the one `end_thread`
  was handed. `ImplementsStore` (refinement) and `OperationsReturn` (liveness).
* `CrateAccess`, `NeverTerminates`, `RestoreApplies`, `MenuReturns` (liveness);
  `ShowsWhatIsSet`.
* `ChannelOwned`, `NoOrphans`, `Responds` (liveness).
* `ClosedFileReadsBack` (with the information its bits ask for),
  `DamageIsContained`: a file cut short brings in at most one bad record and
  ends the program only if damaged or too large; `NoBadEventSelected`,
  `SelectsExactly`; `CountedOnce`, `PairsInStep`, `GainsOfOwnRun`, `RowsApart`.
* `OwnHits`, `PlanesShowChosen`, `EventEnds` (liveness) of the readout;
  `GainsDoNotCompound`, `EnergyFollowsBank` of the calibration.
* `IslandsAreComponents`, `EnergyAccounted`; `GluedOnce`; `CellsAccounted`;
  `StripsGrouped`; `MatchIsClosest`.
* `LinksAgree` and `NothingDangling` of HyCal, `GEMLinksHold` (the same for the
  GEM detectors, and that nothing leaks); `CloseLessCorrect`;
  `EventOfSpin`, `SceneFresh`; `DialogsAsShown` (reconstruction and spectrum).
* `TextReadAsWritten`: comments, values, saved files, members that were
  configured, and the run number of a path.

Some properties say less than their name suggests, because the code does less
(section 6). `EnergyFollowsBank` is stated only while no constant changed after
the histogram was filled. `CrateAccess` lets the GUI thread read voltages to
paint while another thread is in the crates, and nothing else. `GainsOfOwnRun`
says that nothing of another run is left only where the files list the same
channels. `RowsApart` lets the last row of a histogram be beyond its axis.
`DialogsAsShown` compares a coordinate with its box after rounding, and says that
the coordinates in use are those of some run of the database (`UsedAreStored`),
not of the run that "Select Run" shows.

### Fairness

Weak fairness of each thread's steps: a started operation runs on, `end_thread`,
the ROC threads, the worker and `queryThread` are scheduled by the operating
system, the event loop delivers the signal of `Connect` and that of the connect
worker, ET's calls return (reads are `ET_ASYNC`). `GEMReadout` has one weak
fairness for all ROC threads together: some thread of the event runs on, and
that is enough since each has finitely many steps. Nothing makes the user start
anything, so the menu actions and the caller's operations have none. The
monitor loop sleeps between two turns, so that it does not keep the lock from
the others; no step relies on strong fairness.

## 5. Proofs

Everything below holds for every value of the constants that satisfies the
`ASSUME` of its module (which TLC evaluates on the instances).

**EventPipelineProofs.** `TypeCorrect`, `BufferOwnershipHolds`, `BankHoldsOwn`,
`ReplayWritesOwn`, `EveryEventInHistograms`, `StoreImplemented`.
`BufferOwnership` follows from a few facts on the indices, but the data
properties need the inductive invariant `PipelineInv`: the free buffer is empty
between events; while an event is parsed, the buffer's hits are those of the
banks parsed so far, judged by the trigger then in force; while `EndProcess`
runs, its buffer is one whole event of `truth`, and `truth` never changes. Each
action of the parser touches one conjunct, and the swap moves the buffer from
one to the next. The argument needs that `ClearBuffer` really empties the buffer
and that the join precedes the swap, and it breaks at the same two places as the
mutants do. `HistInv` adds that what `end_thread` was handed is an event read
and not yet in the histograms; a clear that does not wait takes effect before
it, so that the event is filled in afterwards. `StoreImplemented` is the safety
of the refinement: `Waits` says that no command is `InitializeByData` (which
clears without waiting, and does not implement the store), `ModeInv` that the
modes do not change while an event is on its way, and each action is then an
append, a clear, a load or a stutter of `EventStore`.

**HVSystemProofs.** `OnlyPaintingOverlaps`, `MonitorStartsOnce`,
`RestoreReachesBoards`, for any crates, slots and settings files, and
`ShownVoltagesAreSet` of `HVChannels`, for any list of crates, boards, names,
voltages and contents of unwritten arrays. `ControlInv` ties the menu to the
threads: while `Connect` runs no action is enabled and there is no monitor; at
most one signal is on its way; after the join there is no monitor until
`StartMonitor`. Painting does not enter: it changes nothing and begins and ends
in the event loop, where no operation is. For the restore, `RestoreInv` adds that a mapped crate has the
boards of its slots in order and that its slot map leads to them, through any
mapping, clearing and reading, and that of the lines restored so far the last of
each channel holds. It needs `ControlInv`: mapping a crate while a restore goes
on would break it. The theorem is for files that name boards (`FilesFit`;
`MCHVSystem` assumes it of its files), as the code takes a slot without one for
the first board (section 6). `ChannelInv` adds where channels can be: those of
the usable slots of a crate, so that mapping it again makes all of them anew and
leaves none of before.

**DetectorDataProofs.** Of `GEMReadout`: `HitsAreOwn`, `PlanesFollowChoice`,
`CollectingIsExclusive`, for any APVs, banks and number of threads. The
invariant `ReadoutInv` follows each APV of an event through the bank that holds
it: until its thread comes to it, it has a word of an earlier event or none;
then that of this event, and its hits are in the list once the thread has
collected them. Threads of other banks do not touch it, because the input has
the raw data of an APV in one bank of an event (`OneBank` in the assumption of
`GEMReadout`: an APV is read out by one FEC, and a FEC by one ROC). The lists of
hits grow only under `locker`, so that what a thread has seen is what is there.
Of `HyCalCalibration`: `GainsCorrectedOnce`, `EnergyHistFollowsBank`.
`GainsDoNotCompound` alone is not inductive: `GainInv` says of every constant
that it is its base factor, or the factor corrected by one remembered gain whose
reference has a base gain, and never by the result of an earlier correction. For
the histogram, `FillInv` says it is `Energies` of the bank with the constants of
the last filling. `Energies` is defined by recursion over the bank, so that its
equations are proved once, by induction over finite sequences: the least length
of a counterexample (`WFMin` on the natural numbers) has a predecessor.
Of `DetMatch`: `ClosestIsKept`, for any hits, ranges and overlap. The hypothesis
`MatchConstants` says that no HyCal hit has a flag before it is matched, and that
every range is less than the distance from which the search for the closest hit
starts (`Far`); a hit beyond it would be a candidate and never be kept. `MatchInv`
follows the loop over HyCal hits: those passed have what `PostMatch` chooses, the
others are as they came.

**GEMWiringProofs.** `GEMLinksAlwaysAgree`, `GEMNothingDangles`,
`GEMNothingLeaks`, for any FECs, detectors, planes, APVs and capacities. They
hold between two calls, but not inside one: members are told to forget their
holder before their places are freed, and each side may call the other, until
`force` says that it knows. The lemmas on these functions therefore take a set
`X` of places that still point to a member that has forgotten them (`Wired`),
and say which places a function adds to `X` or frees. The invariant `WiringInv`
is `Wired` with no such place. It
adds that a holder has the members of its class only, that one that was deleted
has no slots, that the lists of FECs and detectors are of members, and `Owned`.
The hypothesis
`DistinctObjects` says that objects of different classes are different, as they
are in memory; `MCViewer` assumes it of both instances.

**HyCalProofs.** Of `HyCalWiring`: `HyCalLinksAgree`, `HyCalNothingDangles`, for
any objects, names, addresses, lists of channels and orders of calls. The
hypothesis `ObjectKinds` says that objects of different kinds are different and
that a detector has finitely many modules. Neither property is inductive: that
what a channel leads to exists needs that it is led back to, and that a group
forgets a deleted channel needs that the channel knows its group. The invariant
`Sound` has a part for each kind of link: `Owned`, every module that exists is in
the list of the one detector; `Wired`, a module and a channel name each other or
neither does, and both exist; `GroupsAgree`, the list has the channels that exist
once each, and a group holds a channel under its place in the list exactly if the
channel names the group. The functions that unlink are first brought to what
they change (`UnsetModuleIs`, `DroppedIs`, `Joined`, ...), so that the proof of
a call is about the tables and no longer about nested updates. The loops over the
modules and over the lines of a file run through states that are all `Sound`
(`LoopRuns`: a loop whose turns stay in a set has a run in it), and so does the
destructor, whose last two calls empty both lists.
Of `HyCalClusters`: `GroupsAreIslands`, for any modules on a grid, any energies
and threshold. That the groups are the connected parts of the hits is true at the end of
the loop only. `ClusterInv` says of every turn that groups share out the hits
(each hit in one group, once), that each is `Connected` (no part of it but the
whole is closed under adjacency), and that the groups before the loop's position
are `Apart`, touching no other. Moving a group into a later one that it touches
keeps all three, although the list gets shorter under the loop; a group that
touches none is apart. Adding hits only asks for the first half. At the end all
are apart, and connected sets apart from each other are the components. The
hypothesis `GridConstants` says that modules stand at integers and energies are
integers.

**ViewerProofs.** Of `EventSearch`: `CloseLessIsCorrect`, `NeverReadsPastEnd`,
`FindEventIsSound`, for banks of any length. `SearchInv` says that everything
before the interval is less than or equal to the number asked for, everything
after it greater, and that the last element is greater, which is why the element
after the interval may be read.
Of `EventView`: `ChannelsFollowSpin`, `NothingStaleIsShown`, for any files,
events, numbers of clusters and modes. Each slot is an operator on the state of
the viewer, and the invariant `Good` has a part for each pair that must agree:
the box of events and the bank (`Spun`), the box of clusters and the clusters
(`Ranged`), the scene and what it is of (`Painted`). While the mode is on, the
box of events is empty whatever the bank holds.
Of `Dialogs`: `DialogsShowWhatIsUsed`, for any coordinate files, settings,
custom maps and values of the spin boxes. Of the reconstruction, `Ready` has a part for each pair that must agree: the
database and the coordinates in use (`IsUsed`: there is a run with them), these
and the copy (`IsCopy`: equal except at the detectors that were saved and not
applied), the copy and the box (`IsShown`). Whatever number `ChooseCoord` is
called with, what it finds is a run of the database (`ChosenIs`; the least one is
there because the runs are finitely many), and storing what the box shows keeps
all three, because rounding what is rounded changes nothing (`BoxIs`).
`DialogsAssumption` says that runs are numbers and coordinates integers, in the
unit above. Of the spectrum,
`GoodScreen` says that dialog and spectrum agree, that the preset whose button is
checked is in use, and that the modules are painted as set. A preset sets four
values one after the other, each slot repainting and marking the view as custom,
so the proof follows these states in the order of the calls.

**FilesProofs.** Of `EventSelect`: `SelectTypes`, `NothingBadSelected`, for every
list and every file whose events are in order. `SelectInv` adds `PackInOrder`:
the pack read since the last sync event is in order and nothing still to be read
is older. `PeriodWithoutBadEvent` is where that is used: a period whose two ends
are not bad, and that contains no interval of the list, has no bad event in it.
Of `PhysCalib`: `ClustersCountedOnce`, `PairsAreInStep`, for every directory and
every value of energies and angles. What is filled is of events already read
(`FilledBefore`), so that the clusters of the next event are new, and of one
event the cases of `MollerFills` exclude each other; the cuts of `Symmetric`
exclude every way in which the loop ends early. `Waiting` and
`CrossedInOrder`: the pairs that wait are the same events in both vectors, in
order, and later than all that were crossed. Of `AvgGain`: `GainsAreOfOwnRun`.
The arrays show the lists read so far of the open file, counted from the first
(`ShowsLists`), whatever is in them of other files (`ShowsRead`, with `Counted`
for the number of channels), and a database file is written when the last list
was read. As long as all files list what the first one does, `Named` adds that
the lines reached have the names of its channels, and `Unlisted` that lines and
references without a list were never filled; a fit that fails leaves 0 because
it was set to 0 before. Of `TaggerSystem`: `CountersApart`: every number in the
event is that of its address, the two formulas are injective on the addresses a
hit can come from, with any slot in the uninitialised case, and `FindBin` keeps
rows apart: row y is bin y + 1, but the last, which is beyond the axis.
Of `DSTFile`: `ClosedFilesReadBack`, `DamageStaysContained`, for any banks,
buffer size and systems. `DSTInv` follows a record from the bank to the disk and
back. `Writing`: what is left to save is what was meant and not yet saved, and
`out_buf` has words in it only before the first record of a file, those of
earlier saves that could not open theirs. They can do no harm because the first
record is HyCal's, and the channels of a system stay: whatever is in front, the
record begins with the number of channels and is at least as long as that many
(`HyCalBody`), and nothing else of it is used. `FilesAsMeant`: every record of a
file but the last one of a file cut short is `Whole`. `Reading`: what was read so
far is the data of the records passed (`dataOf`, a recursive function whose
equations are proved by induction), or that and one bad record, the last.
`DataReadBack` and `InfoReadBack` are the heart: a whole record that fits is
readable and parses to what was meant, and one that does not fit cannot be read,
because its counts say it is longer than the buffer. `InfoInv` adds that a file
has the information of each system once and that the bank has taken over what
was passed.

**OnlineETProofs.** `ChannelIsOwned`, `NothingOrphaned`, `ReadsAreAttached`,
`LossIsBounded`, for any names, handles and chunk size. `OnlineInv` has
`Situation`, which thread is where and what menu and timer then allow;
`Attachment`, that the current station remembers the attachment of the live
connection while the mode can read; and `Account`, that every event of the
running update is counted in `credit`.

Model-checked only:

* all liveness (`OperationsReturn`, `MenuReturns`, `Responds`, `EventEnds`, and
  the liveness part of `ImplementsStore`), which is out of the prover's reach;
* the algorithms that compute sums or sequences: `EnergyAccounted`, `GluedOnce`,
  `CellsAccounted`, `StripsGrouped`; and `TextReadAsWritten`. Their modules use recursive operators, or folds over data;
* `SelectsExactly`, whose reference definition cuts the file into packs with
  operators of the standard modules that are recursive;
* `GEMLinksHold`, which states for two instances what the theorems of
  `GEMWiringProofs` state for all.

## 6. Other disagreements, read off the code

They have no run: the models show what the code does, or leave it out.

* `PRadInfoCenter.cpp:44` loops over copies of the trigger channels, so their
  frequencies stay 0. At line 83 a physics sync event without reference counts
  makes the live charge not a number for good.
* `PRadDataHandler.cpp:443`: the last event `InitializeByData` reads may be
  stored, and its charge counted, after `Clear`.
* `PRadDSTParser.cpp:657`: `Read` returns true for a record that is cut short.
  At line 440 `hycal->GetADCChannel(i)` lacks a negation: every channel there is
  is skipped, so that the bits `update_hycal_ped` and `update_hycal_cal`
  (`PRadDSTParser.h:40-48`, "by default it updates all info", and lines 445-448)
  have no effect, and a channel that is not there is a null pointer that is used.
* `PRadEventViewer.cpp:581-605` and `:987`: the GUI thread reads voltages with
  `PRadHVSystem::GetVoltage`, which takes no lock, while the worker of `Connect`
  or `queryThread` may be mapping crates or reading into channels: a data race.
* `CAENHVSystem.cpp:441`: a slot without a board is the crate's first board; at
  lines 44-49 a voltage above the limit is sent as it is, although the message
  says it is changed to the limit.
* `PRadEventViewer.cpp:1306`: `enableReconstruct` is connected to nothing; marks
  of an earlier event stay when reconstruction is switched off. Line 1403 shows
  the marks of the second GEM with `ShowDetector(PRadGEM1)`. The event range is
  not updated online, and finding an event then does nothing.
* The energy histogram is not filled again after pedestals are fitted or
  calibration or run information files are opened; reading calibration
  constants drops gain corrections made before.
* `ConfigObject.cpp:89-97`: `SaveConfig` with a path writes to `latest.conf`
  whatever the path is. Values that name each other in a cycle recurse
  without end. Typed minimum energies and lists of virtual modules stay from
  files read earlier.
* `ConfigParser`: a path with a `-` before the digits of its name has no run
  number; the reader of buffers drops a last line without an end; the reader of
  files does not remove a second comment after a close on the same line.
* `ReconSettingPanel.cpp:378-386`: "Select Run" (line 148) passes its position
  where `ChooseCoord` expects a run number, so that with run numbers as those of
  the experiment the least run of the database is used, whatever is selected.
  Lines 163-175: coordinate boxes have four decimals (z: one) and limits, while
  `database/coordinates.dat` has six (-0.552455 is shown as -0.5525); Ok stores
  the rounded value although nobody edited it.
* `ReconSettingPanel`: opening
  the dialog resets the current coordinates; loading the configuration of HyCal
  and the check box of the marks act without Ok; an incomplete coordinate file
  stores its values under run 0.
* `PRadCoordSystem::Transform` uses x and y it has already overwritten.
  `PRadHyCalDetector::GetModule(x, y)` uses the width for the height.
* `PRadHyCalSystem::SetDetector` with the detector it has uses it after deleting
  it; flags for dead neighbours are never cleared; a second `Configure` keeps
  the old dead hits of a detector.
* `PRadPrimexCluster` glues in the order of the sectors, starting from the
  center; `module_status` of a module that is not listed is not initialised.
  Photons at the limit of `madcgam` keep the cells of an earlier photon.
* `PRadTaggerSystem.cpp:21-22`: 384 bins over [0, 383) and 128 over [0, 127) put
  the last row of each histogram into the overflow bin. The move assignment
  leaves the histograms of the object it moves from in both objects.
  `PRadEvioParser.cpp:446`: the slot of a hit before the first header of a bank
  is not initialised.
* `PRadEventViewer.h:67-75` numbers the view modes 4 custom map, 5 high voltage,
  6 voltage setting; `SpectrumSettingPanel.cpp:234-236` takes 4 and 5 for the
  voltage preset and has none for 6. "Show Custom Map" sets the range to
  900..1700, and "Show HV Setting" leaves the range of the view before.
* `physCalib.cpp`: the beam energy is 0 before the first EPICS event and may be
  -9999, and the cut on 10 percent divides by it, so that a negative one passes
  every energy. The third pair of lines makes the two before it be crossed and
  is dropped itself; pairs left at the end of a run are crossed with those of
  the next. An event taken for ep by its cluster's energy can be one of the
  pairs that are crossed.
* `getAvgGain.cpp`: channel names are those of the first file only, and the
  lists of later files are taken in the same order. An average is divided by the
  number of files, also where some had no fit. Line 202 says "clean arrays before
  filling", but only what the file lists is cleaned: a reference that it does not
  have keeps the values of the run before, and so do the last channels when it
  has fewer. A second file of a run replaces the first.

## 7. Not modelled

* **Floating-point geometry**: coordinate transformations, positions by
  logarithmic weights, density and S-shape corrections, the fits of `island.F`
  and of ROOT. The models take such a result as any of the values it may have.
* **Words of a bank** (the bit fields of FASTBUS, TI, VTP and APV data): a bank
  is represented by its kind and by what is in it.
* **Utilities, most decoder programs, tools**: timers, exceptions, numerical
  functions; analysis scripts in sequence over the components above; converters
  of files. `physCalib.cpp` and `getAvgGain.cpp` are modelled; `replay.cpp` and
  `testSim.cpp` are the callers in `DSTFile`,
  `eventSelect.cpp` is `EventSelect`, and the sums of `beamChargeCount.cpp` are
  in `RunInfo`.
* **The GUI's drawing and layout**, text files that only list parameters, the
  configuration of GEM clusters, copies and moves of detector objects, DST
  format 0x13, quitting while `Connect` runs.
* `src/thirdparty` is vendored; the CAEN and ET libraries are external and
  modelled from how the code uses them.
