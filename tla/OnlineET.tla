------------------------------ MODULE OnlineET ------------------------------
(***************************************************************************)
(* Online mode: the part of PRadEventViewer that starts it, reads events   *)
(* on a timer and stops it, with PRadETChannel and PRadETStation.  The     *)
(* connection to ET is made by connectETClient on a worker thread; the GUI *)
(* thread hears of its end through a QFutureWatcher.  Both threads use     *)
(* etChannel without a lock and rely on the menu to keep them apart.       *)
(*                                                                         *)
(* ET is external: it may die and be restarted at any moment, keeps a      *)
(* station after its client has gone, and gives each connection a handle.  *)
(* A message box runs a nested event loop: the GUI thread waits in it, the *)
(* main window takes no input, other threads and ET go on.                 *)
(***************************************************************************)
EXTENDS Integers

CONSTANTS
  Names,       \* station names the user may enter
  Handles,     \* external: handles of connections
  null,        \* nullptr
  Cue,         \* external: events a station queues (SetCUE), then bypasses it
  Chunk,       \* ET_CHUNK_SIZE, events decoded per timeout
  Cap          \* bound: where credit is cut

ASSUME OnlineAssumption ==
  /\ null \notin Handles /\ null \notin Names
  /\ Cue \in Nat \ {0}
  /\ Chunk \in Nat \ {0}
  /\ Cap \in Nat /\ Cap >= Chunk

VARIABLES
  gui,         \* the GUI thread: idle, in a message box, or in onlineUpdate
  enabled,     \* what can be chosen: "start", "stop", "open"
  timer,       \* onlineTimer is active
  onlineMode,
  worker,      \* connectETClient; "idle" when its result has been taken
  name,        \* the station name entered in the dialog
  et_id, stations, curr_stat,     \* PRadETChannel
  attach_id,   \* of the PRadETStation of each name
  num,         \* local to onlineUpdate
  et, conn, exists, attached, queue,    \* external: ET
  credit       \* history: events decoded, less Chunk for each discarded one

guiVars == <<gui, enabled, timer, onlineMode>>
channel == <<et_id, stations, curr_stat, attach_id>>
etVars  == <<et, conn, exists, attached, queue>>
vars == <<guiVars, worker, name, channel, num, etVars, credit>>

Init ==
  /\ gui = "idle" /\ enabled = {"start", "open"}
  /\ timer = FALSE /\ onlineMode = FALSE
  /\ worker = "idle" /\ name = null
  /\ et_id = null /\ stations = {} /\ curr_stat = null
  /\ attach_id = [n \in Names |-> null]
  /\ num = 0
  /\ et \in BOOLEAN /\ conn = {} /\ exists = {} /\ attached = {} /\ queue = 0
  /\ credit = 0

Alive == et_id \in conn      \* et_id != nullptr && et_alive(et_id)

ForceClose ==
  /\ et_id' = IF Alive THEN null ELSE et_id
  /\ conn' = conn \ {et_id} /\ attached' = attached \ {et_id}
  /\ queue' = IF attached' = {} THEN 0 ELSE queue
  /\ UNCHANGED <<et, exists>>

-----------------------------------------------------------------------------
(* The GUI thread: starting and stopping.                                  *)

\* Mutant of initOnlineMode: "Start Online Mode" is left enabled.
initWithoutDisabling ==
  /\ gui = "idle" /\ "start" \in enabled /\ worker = "idle"
  /\ enabled' = enabled \ {"open"}
  /\ \E n \in Names : name' = n
  /\ worker' = "open"
  /\ UNCHANGED <<gui, timer, onlineMode, channel, num, etVars, credit>>

\* Accepting the settings dialog; cancelling it changes nothing.
initOnlineMode ==
  /\ gui = "idle" /\ "start" \in enabled
  /\ enabled' = enabled \ {"start", "open"}
  /\ \E n \in Names : name' = n
  /\ worker' = "open"
  /\ UNCHANGED <<gui, timer, onlineMode, channel, num, etVars, credit>>

\* QFutureWatcher::finished is delivered; a message box tells the result.
startOnlineMode ==
  /\ gui = "idle" /\ worker \in {"connected", "failed"}
  /\ gui' = IF worker = "connected" THEN "started" ELSE "failure"
  /\ worker' = "idle"
  /\ UNCHANGED <<enabled, timer, onlineMode, name, channel, num, etVars, credit>>

startRejected ==
  /\ gui = "failure"
  /\ gui' = "idle" /\ enabled' = enabled \cup {"start", "open"}
  /\ UNCHANGED <<timer, onlineMode, worker, name, channel, num, etVars, credit>>

startConfirmed ==
  /\ gui = "started"
  /\ gui' = "idle" /\ enabled' = enabled \cup {"stop"}
  /\ onlineMode' = TRUE /\ timer' = TRUE
  /\ UNCHANGED <<worker, name, channel, num, etVars, credit>>

\* The timer stops and the channel closes before the box is shown, ...
stopOnlineMode ==
  /\ gui = "idle" /\ "stop" \in enabled
  /\ timer' = FALSE
  /\ ForceClose
  /\ gui' = "stopped"
  /\ UNCHANGED <<enabled, onlineMode, worker, name, stations, curr_stat,
                 attach_id, num, credit>>

\* ... mode and menu change when it is dismissed.
stopConfirmed ==
  /\ gui = "stopped"
  /\ gui' = "idle" /\ onlineMode' = FALSE
  /\ enabled' = (enabled \cup {"start", "open"}) \ {"stop"}
  /\ UNCHANGED <<timer, worker, name, channel, num, etVars, credit>>

-----------------------------------------------------------------------------
(* The worker thread: connectETClient.                                     *)

\* PRadException; a failed et_open leaves the handle as it was.
Fail == /\ worker' = "close"
        /\ UNCHANGED <<guiVars, name, channel, num, etVars, credit>>

Open ==
  /\ worker = "open"
  /\ \/ /\ et
        /\ \E h \in Handles \ (conn \cup {et_id} \cup {attach_id[n] : n \in Names}) :
             et_id' = h /\ conn' = conn \cup {h}
        /\ worker' = "station"
        /\ UNCHANGED <<guiVars, name, stations, curr_stat, attach_id, num, et,
                       exists, attached, queue, credit>>
     \/ Fail

\* A station known from an earlier attempt does not become the current one.
NewStation ==
  /\ worker = "station"
  /\ worker' = "create"
  /\ IF name \in stations
     THEN UNCHANGED <<stations, curr_stat>>
     ELSE stations' = stations \cup {name} /\ curr_stat' = name
  /\ UNCHANGED <<guiVars, name, et_id, attach_id, num, etVars, credit>>

\* ET_ERROR_EXISTS is an error too.
Create ==
  /\ worker = "create"
  /\ \/ /\ Alive /\ curr_stat \notin exists
        /\ exists' = exists \cup {curr_stat}
        /\ worker' = "attach"
        /\ UNCHANGED <<guiVars, name, channel, num, et, conn, attached, queue, credit>>
     \/ Fail

Attach ==
  /\ worker = "attach"
  /\ \/ /\ Alive /\ curr_stat \in exists
        /\ attached' = attached \cup {et_id}
        /\ attach_id' = [attach_id EXCEPT ![curr_stat] = et_id]
        /\ worker' = "connected"
        /\ UNCHANGED <<guiVars, name, et_id, stations, curr_stat, num, et, conn,
                       exists, queue, credit>>
     \/ Fail

\* Mutant of Recover: the exception is reported and the channel stays open.
RecoverOpen ==
  /\ worker = "close"
  /\ worker' = "failed"
  /\ UNCHANGED <<guiVars, name, channel, num, etVars, credit>>

Recover ==
  /\ worker = "close"
  /\ ForceClose
  /\ worker' = "failed"
  /\ UNCHANGED <<guiVars, name, stations, curr_stat, attach_id, num, credit>>

connectETClient == Open \/ NewStation \/ Create \/ Attach \/ Recover

-----------------------------------------------------------------------------
(* The GUI thread: onlineUpdate, one Read at a time.                       *)

handleOnlineTimer ==
  /\ gui = "idle" /\ timer
  /\ gui' = "read" /\ num' = 0
  /\ UNCHANGED <<enabled, timer, onlineMode, worker, name, channel, etVars, credit>>

Leave == /\ gui' = "idle"
         /\ UNCHANGED <<enabled, timer, onlineMode, worker, name, channel, num,
                        etVars, credit>>

\* Mutant of Read: an empty station is polled again.
ReadAgain ==
  /\ gui = "read"
  /\ IF Alive /\ queue > 0
     THEN /\ queue' = queue - 1 /\ gui' = "put"
          /\ UNCHANGED <<enabled, timer, onlineMode, worker, name, channel, num,
                         et, conn, exists, attached, credit>>
     ELSE UNCHANGED vars

\* A dead channel throws, an empty station ends the loop.
Read ==
  /\ gui = "read"
  /\ IF Alive /\ queue > 0
     THEN /\ queue' = queue - 1 /\ gui' = "put"
          /\ UNCHANGED <<enabled, timer, onlineMode, worker, name, channel, num,
                         et, conn, exists, attached, credit>>
     ELSE Leave

\* et_event_put fails when ET has died: the copied event is not decoded.
PutFails == gui = "put" /\ ~Alive /\ Leave

Capped(n) == IF n > Cap THEN Cap ELSE n

Decode ==
  /\ gui = "put" /\ Alive /\ num < Chunk
  /\ gui' = "read" /\ num' = num + 1 /\ credit' = Capped(credit + 1)
  /\ UNCHANGED <<enabled, timer, onlineMode, worker, name, channel, etVars>>

\* "etChannel->Read() && num < max_events": the limit is tested last.
Discard ==
  /\ gui = "put" /\ Alive /\ num >= Chunk
  /\ gui' = "idle" /\ credit' = credit - Chunk
  /\ UNCHANGED <<enabled, timer, onlineMode, worker, name, channel, num, etVars>>

onlineUpdate == Read \/ PutFails \/ Decode \/ Discard
-----------------------------------------------------------------------------
(* ET, external.                                                           *)

EtStart ==
  /\ ~et /\ et' = TRUE
  /\ UNCHANGED <<guiVars, worker, name, channel, num, conn, exists, attached,
                 queue, credit>>

EtDie ==
  /\ et /\ et' = FALSE
  /\ conn' = {} /\ exists' = {} /\ attached' = {} /\ queue' = 0
  /\ UNCHANGED <<guiVars, worker, name, channel, num, credit>>

\* The operator removes a station nobody is attached to.
EtRemove ==
  /\ attached = {}
  /\ \E n \in exists : exists' = exists \ {n}
  /\ UNCHANGED <<guiVars, worker, name, channel, num, et, conn, attached, queue,
                 credit>>

EtEvent ==
  /\ attached # {} /\ queue < Cue
  /\ queue' = queue + 1
  /\ UNCHANGED <<guiVars, worker, name, channel, num, et, conn, exists, attached,
                 credit>>

EventTransfer == EtStart \/ EtDie \/ EtRemove \/ EtEvent

-----------------------------------------------------------------------------
User == initOnlineMode \/ startRejected \/ startConfirmed \/ stopOnlineMode \/ stopConfirmed

Next == \/ User \/ startOnlineMode \/ handleOnlineTimer
        \/ onlineUpdate \/ connectETClient \/ EventTransfer

(* The worker is scheduled and the library's calls return (reads are       *)
(* ET_ASYNC); the GUI thread delivers the watcher's signal and finishes    *)
(* onlineUpdate.  The user and ET owe nothing.                             *)
Fairness ==
  /\ WF_vars(connectETClient) /\ WF_vars(startOnlineMode) /\ WF_vars(onlineUpdate)

Spec == Init /\ [][Next]_vars /\ Fairness

-----------------------------------------------------------------------------
(* Properties.                                                             *)

Connecting == worker \in {"open", "station", "create", "attach", "close"}

TypeOK ==
  /\ gui \in {"idle", "started", "failure", "stopped", "read", "put"}
  /\ enabled \subseteq {"start", "stop", "open"}
  /\ timer \in BOOLEAN /\ onlineMode \in BOOLEAN
  /\ Connecting \/ worker \in {"idle", "connected", "failed"}
  /\ name \in Names \cup {null}
  /\ Connecting => name \in Names
  /\ et_id \in Handles \cup {null}
  /\ stations \subseteq Names
  /\ curr_stat \in Names \cup {null}
  /\ curr_stat = null <=> stations = {}
  /\ worker \in {"create", "attach", "connected"} \/ gui = "started" \/ timer => stations # {}
  /\ attach_id \in [Names -> Handles \cup {null}]
  /\ num \in Nat
  /\ et \in BOOLEAN /\ conn \subseteq Handles /\ attached \subseteq conn
  /\ exists \subseteq Names
  /\ queue \in Nat /\ credit \in Int

(* The menu keeps the two threads off each other's channel: while the      *)
(* worker connects, nothing on the GUI thread can start another worker,    *)
(* close the channel or read from it, and no data file can be opened; and  *)
(* "Start Online Mode" is offered only when the mode has been left, the    *)
(* timer is stopped and the channel is closed or dead.                     *)
ChannelOwned ==
  /\ Connecting => /\ enabled = {} /\ ~timer
                   /\ gui \notin {"read", "put", "stopped"}
  /\ "start" \in enabled => /\ worker = "idle" /\ ~timer /\ ~onlineMode /\ ~Alive
                            /\ "open" \in enabled /\ "stop" \notin enabled

(* The viewer never leaves a connection behind in ET, whatever step of     *)
(* connectETClient fails and whenever ET dies: the only live one is the    *)
(* one the channel holds.                                                  *)
NoOrphans == conn \subseteq {et_id}

(* Read asks for events with an attachment of the connection it reads      *)
(* from, although the station object outlives many connections.            *)
ReadsOwnAttachment ==
  gui \in {"read", "put"} /\ Alive => attach_id[curr_stat] = et_id /\ et_id \in attached

(* onlineUpdate takes one event more than it decodes when ET has more than *)
(* a chunk: it throws away at most one event for every Chunk it decodes.   *)
LossBounded == credit >= 0

(* An attempt to connect ends in a message box, an update ends.            *)
Responds ==
  /\ worker = "open" ~> gui \in {"started", "failure"}
  /\ gui = "read" ~> gui = "idle"
=============================================================================
