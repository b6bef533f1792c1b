--------------------------- MODULE OnlineETProofs ---------------------------
(* The safety of online mode, for every set of station names and every     *)
(* chunk size.  The invariant lists the four situations the viewer can be  *)
(* in, what the menu shows in each, and what the channel holds.            *)
EXTENDS OnlineET, TLAPS

(* The worker connects or its result waits; a box tells of the result; the *)
(* mode is off; the mode is on (a box telling of its end included).        *)
Situation ==
  \/ /\ worker # "idle" /\ gui = "idle"
     /\ enabled = {} /\ ~timer /\ ~onlineMode
     /\ worker \in {"open", "failed"} => ~Alive
  \/ /\ worker = "idle" /\ gui \in {"started", "failure"}
     /\ enabled = {} /\ ~timer /\ ~onlineMode
     /\ gui = "failure" => ~Alive
  \/ /\ worker = "idle" /\ gui = "idle"
     /\ enabled = {"start", "open"} /\ ~timer /\ ~onlineMode
     /\ ~Alive
  \/ /\ worker = "idle" /\ gui \in {"idle", "read", "put", "stopped"}
     /\ enabled = {"stop"} /\ onlineMode
     /\ timer <=> gui # "stopped"
     /\ gui = "stopped" => ~Alive

(* From the end of connectETClient to the end of the mode, the current     *)
(* station remembers the attachment of the live connection.                *)
Attachment ==
  (worker = "connected" \/ gui = "started" \/ timer) /\ Alive =>
    attach_id[curr_stat] = et_id /\ et_id \in attached

(* Every event of the running update is counted in credit.                 *)
Account ==
  /\ credit >= 0
  /\ gui \in {"read", "put"} => credit >= num /\ num <= Chunk

OnlineInv == TypeOK /\ Situation /\ NoOrphans /\ Attachment /\ Account

LEMMA InitOnline == Init => OnlineInv
<1> USE OnlineAssumption
<1> SUFFICES ASSUME Init PROVE OnlineInv
  OBVIOUS
<1>1. TypeOK
  <2>1. attach_id \in [Names -> Handles \cup {null}]
    BY DEF Init
  <2>2. /\ timer \in BOOLEAN /\ onlineMode \in BOOLEAN /\ et \in BOOLEAN /\ ~timer
        /\ conn = {} /\ attached = {} /\ exists = {} /\ stations = {}
    BY DEF Init
  <2>3. /\ gui = "idle" /\ worker = "idle" /\ name = null /\ et_id = null /\ curr_stat = null
        /\ enabled = {"start", "open"} /\ num = 0 /\ queue = 0 /\ credit = 0
    BY DEF Init
  <2> QED
    BY <2>1, <2>2, <2>3 DEF TypeOK, Connecting
<1>2. Situation
  BY DEF Init, Situation, Alive
<1>3. NoOrphans /\ Attachment /\ Account
  BY DEF Init, NoOrphans, Attachment, Account, Alive
<1> QED
  BY <1>1, <1>2, <1>3 DEF OnlineInv

(* The menu actions and the message boxes.                                 *)
LEMMA UserOnline == OnlineInv /\ (User \/ startOnlineMode) => OnlineInv'
<1> SUFFICES ASSUME OnlineInv, User \/ startOnlineMode PROVE OnlineInv'
  OBVIOUS
<1> USE OnlineAssumption DEF OnlineInv, TypeOK, Situation, NoOrphans, Attachment,
        Account, Connecting, Alive
<1>1. CASE initOnlineMode
  BY <1>1 DEF initOnlineMode, channel, etVars
<1>2. CASE startRejected
  BY <1>2 DEF startRejected, channel, etVars
<1>3. CASE startConfirmed
  <2>1. TypeOK'
    BY <1>3 DEF startConfirmed, channel, etVars
  <2>2. Situation'
    BY <1>3 DEF startConfirmed, channel, etVars
  <2>3. NoOrphans'
    BY <1>3 DEF startConfirmed, channel, etVars
  <2>4. Attachment'
    BY <1>3 DEF startConfirmed, channel, etVars
  <2>5. Account'
    BY <1>3 DEF startConfirmed, channel, etVars
  <2> QED
    BY <2>1, <2>2, <2>3, <2>4, <2>5 DEF OnlineInv
<1>4. CASE stopOnlineMode
  <2>1. TypeOK'
    BY <1>4 DEF stopOnlineMode, ForceClose
  <2>2. Situation'
    BY <1>4 DEF stopOnlineMode, ForceClose
  <2>3. NoOrphans'
    BY <1>4 DEF stopOnlineMode, ForceClose
  <2>4. Attachment'
    BY <1>4 DEF stopOnlineMode, ForceClose
  <2>5. Account'
    BY <1>4 DEF stopOnlineMode, ForceClose
  <2> QED
    BY <2>1, <2>2, <2>3, <2>4, <2>5 DEF OnlineInv
<1>5. CASE stopConfirmed
  BY <1>5 DEF stopConfirmed, channel, etVars
<1>6. CASE startOnlineMode
  BY <1>6 DEF startOnlineMode, channel, etVars
<1> QED
  BY <1>1, <1>2, <1>3, <1>4, <1>5, <1>6 DEF User

(* The steps of the worker.                                                *)
LEMMA WorkerOnline == OnlineInv /\ connectETClient => OnlineInv'
<1> SUFFICES ASSUME OnlineInv, connectETClient PROVE OnlineInv'
  OBVIOUS
<1> USE OnlineAssumption DEF OnlineInv, TypeOK, Situation, NoOrphans, Attachment,
        Account, Connecting, Alive
<1>1. ASSUME Fail, worker \in {"open", "create", "attach"} PROVE OnlineInv'
  BY <1>1 DEF Fail, guiVars, channel, etVars
<1>2. CASE Open
  BY <1>1, <1>2 DEF Open, guiVars
<1>3. CASE NewStation
  BY <1>3 DEF NewStation, guiVars, etVars
<1>4. CASE Create
  <2>1. TypeOK'
    BY <1>1, <1>4 DEF Create, guiVars, channel
  <2>2. Situation'
    BY <1>1, <1>4 DEF Create, guiVars, channel
  <2>3. NoOrphans'
    BY <1>1, <1>4 DEF Create, guiVars, channel
  <2>4. Attachment'
    BY <1>1, <1>4 DEF Create, guiVars, channel
  <2>5. Account'
    BY <1>1, <1>4 DEF Create, guiVars, channel
  <2> QED
    BY <2>1, <2>2, <2>3, <2>4, <2>5 DEF OnlineInv
<1>5. CASE Attach
  <2>1. CASE Fail
    BY <1>1, <1>5, <2>1 DEF Attach
  <2>2. CASE ~Fail
    <3>1. /\ worker = "attach" /\ worker' = "connected" /\ Alive /\ curr_stat \in exists
          /\ attached' = attached \cup {et_id}
          /\ attach_id' = [attach_id EXCEPT ![curr_stat] = et_id]
          /\ UNCHANGED <<gui, enabled, timer, onlineMode, name, et_id, stations,
                         curr_stat, num, et, conn, exists, queue, credit>>
      BY <1>5, <2>2 DEF Attach, guiVars
    <3>2. /\ curr_stat \in Names /\ et_id \in Handles
          /\ attach_id \in [Names -> Handles \cup {null}] /\ attached \subseteq conn
      BY <3>1
    <3>3. attach_id'[curr_stat] = et_id /\ attach_id' \in [Names -> Handles \cup {null}]
      BY <3>1, <3>2
    <3>4. attached' \subseteq conn /\ et_id \in attached'
      BY <3>1, <3>2
    <3>5. TypeOK'
      BY <3>1, <3>3, <3>4
    <3>6. Situation' /\ NoOrphans' /\ Account'
      BY <3>1
    <3>7. Attachment'
      BY <3>1, <3>3, <3>4
    <3> QED
      BY <3>5, <3>6, <3>7 DEF OnlineInv
  <2> QED
    BY <2>1, <2>2
<1>6. CASE Recover
  BY <1>6 DEF Recover, ForceClose, guiVars
<1> QED
  BY <1>2, <1>3, <1>4, <1>5, <1>6 DEF connectETClient

(* The steps of an update.                                                 *)
LEMMA UpdateOnline == OnlineInv /\ (handleOnlineTimer \/ onlineUpdate) => OnlineInv'
<1> SUFFICES ASSUME OnlineInv, handleOnlineTimer \/ onlineUpdate PROVE OnlineInv'
  OBVIOUS
<1> USE OnlineAssumption DEF OnlineInv, TypeOK, Situation, NoOrphans, Attachment,
        Account, Connecting, Alive
<1>1. CASE handleOnlineTimer
  BY <1>1 DEF handleOnlineTimer, channel, etVars
<1>2. ASSUME Leave, gui \in {"read", "put"} PROVE OnlineInv'
  BY <1>2 DEF Leave, channel, etVars
<1>3. CASE Read
  <2>1. CASE Alive /\ queue > 0
    <3>1. /\ gui = "read" /\ gui' = "put" /\ queue' = queue - 1
          /\ UNCHANGED <<enabled, timer, onlineMode, worker, name, et_id, stations,
                         curr_stat, attach_id, num, et, conn, exists, attached, credit>>
      BY <1>3, <2>1 DEF Read, channel
    <3>2. queue' \in Nat
      BY <2>1, <3>1
    <3>3. TypeOK'
      BY <3>1, <3>2
    <3>4. Situation' /\ NoOrphans' /\ Account'
      BY <3>1
    <3>5. Attachment'
      BY <3>1
    <3> QED
      BY <3>3, <3>4, <3>5 DEF OnlineInv
  <2>2. CASE ~(Alive /\ queue > 0)
    <3>1. Leave /\ gui = "read"
      BY <1>3, <2>2 DEF Read
    <3> QED
      BY <1>2, <3>1
  <2> QED
    BY <2>1, <2>2
<1>4. CASE PutFails
  BY <1>2, <1>4 DEF PutFails
<1>5. CASE Decode
  BY <1>5 DEF Decode, Capped, channel, etVars
<1>6. CASE Discard
  BY <1>6 DEF Discard, channel, etVars
<1> QED
  BY <1>1, <1>3, <1>4, <1>5, <1>6 DEF onlineUpdate

(* What ET does on its own.                                                *)
LEMMA EtOnline == OnlineInv /\ EventTransfer => OnlineInv'
<1> SUFFICES ASSUME OnlineInv, EventTransfer PROVE OnlineInv'
  OBVIOUS
<1> USE OnlineAssumption DEF OnlineInv, TypeOK, Situation, NoOrphans, Attachment,
        Account, Connecting, Alive
<1>1. CASE EtStart
  BY <1>1 DEF EtStart, guiVars, channel
<1>2. CASE EtDie
  BY <1>2 DEF EtDie, guiVars, channel
<1>3. CASE EtRemove
  BY <1>3 DEF EtRemove, guiVars, channel
<1>4. CASE EtEvent
  BY <1>4 DEF EtEvent, guiVars, channel
<1> QED
  BY <1>1, <1>2, <1>3, <1>4 DEF EventTransfer

LEMMA OnlineInductive == Spec => []OnlineInv
<1>1. OnlineInv /\ [Next]_vars => OnlineInv'
  <2> SUFFICES ASSUME OnlineInv, [Next]_vars PROVE OnlineInv'
    OBVIOUS
  <2>1. CASE Next
    BY <2>1, UserOnline, WorkerOnline, UpdateOnline, EtOnline DEF Next
  <2>2. CASE UNCHANGED vars
    BY <2>2 DEF OnlineInv, TypeOK, Situation, NoOrphans, Attachment, Account,
                Connecting, Alive, vars, guiVars, channel, etVars
  <2> QED
    BY <2>1, <2>2
<1> QED
  BY InitOnline, <1>1, PTL DEF Spec

(* Menu and timer keep the two threads off each other's channel, and the   *)
(* viewer is never left where the mode can be started twice.               *)
THEOREM ChannelIsOwned == Spec => []ChannelOwned
<1>1. OnlineInv => ChannelOwned
  BY DEF OnlineInv, Situation, ChannelOwned, Connecting, Alive
<1> QED
  BY <1>1, OnlineInductive, PTL

(* Neither a failed attempt nor the end of the mode leaves a connection in *)
(* ET that the viewer no longer knows.                                     *)
THEOREM NothingOrphaned == Spec => []NoOrphans
<1>1. OnlineInv => NoOrphans
  BY DEF OnlineInv
<1> QED
  BY <1>1, OnlineInductive, PTL

(* Read uses the attachment of the connection it reads from.               *)
THEOREM ReadsAreAttached == Spec => []ReadsOwnAttachment
<1>1. OnlineInv => ReadsOwnAttachment
  BY DEF OnlineInv, Situation, Attachment, ReadsOwnAttachment
<1> QED
  BY <1>1, OnlineInductive, PTL

(* An event is thrown away only after a full chunk has been decoded.       *)
THEOREM LossIsBounded == Spec => []LossBounded
<1>1. OnlineInv => LossBounded
  BY DEF OnlineInv, Account, LossBounded
<1> QED
  BY <1>1, OnlineInductive, PTL
=============================================================================
