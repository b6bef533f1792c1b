----------------------------- MODULE EventStore -----------------------------
(***************************************************************************)
(* What PRadDataHandler promises to its users, without threads or buffers: *)
(* events are accepted one at a time, and each is delivered exactly once,  *)
(* in the order of acceptance, before the next one is accepted, to the     *)
(* destination the mode selects: the output file during a replay, else the *)
(* data bank (the EPICS log for slow-control events), where online mode    *)
(* keeps the last one only.  Modes change, and data is erased, only when   *)
(* nothing is on its way.                                                  *)
(***************************************************************************)
EXTENDS Naturals, Sequences

VARIABLES
  accepted,   \* number of events accepted so far
  pending,    \* the event accepted and not yet delivered, if any
  bank, log,  \* ordinals of the events in the data bank and the EPICS log
  file,       \* ordinals of the events in the replay output
  online, replay

storeVars == <<accepted, pending, bank, log, file, online, replay>>

StoreInit ==
  /\ accepted = 0 /\ pending = <<>>
  /\ bank = <<>> /\ log = <<>> /\ file = <<>>
  /\ online = FALSE /\ replay = FALSE

Accept ==
  /\ pending = <<>>
  /\ accepted' = accepted + 1
  /\ \E k \in {"event", "epics"} : pending' = <<[id |-> accepted + 1, kind |-> k]>>
  /\ UNCHANGED <<bank, log, file, online, replay>>

KeepLast(s, id) == IF online THEN <<id>> ELSE Append(s, id)

Deliver ==
  /\ pending # <<>>
  /\ pending' = <<>>
  /\ LET e == pending[1] IN
     \/ /\ replay
        /\ file' = Append(file, e.id)
        /\ UNCHANGED <<bank, log>>
     \/ /\ ~replay /\ e.kind = "event"
        /\ bank' = KeepLast(bank, e.id)
        /\ UNCHANGED <<log, file>>
     \/ /\ ~replay /\ e.kind = "epics"
        /\ log' = KeepLast(log, e.id)
        /\ UNCHANGED <<bank, file>>
  /\ UNCHANGED <<accepted, online, replay>>

Reset(on) ==
  /\ pending = <<>>
  /\ bank' = <<>> /\ log' = <<>>
  /\ online' = on
  /\ UNCHANGED <<accepted, pending, file, replay>>

GoOffline ==
  /\ pending = <<>>
  /\ online' = FALSE
  /\ UNCHANGED <<accepted, pending, bank, log, file, replay>>

OpenReplay ==
  /\ pending = <<>> /\ ~online
  /\ replay' = TRUE /\ file' = <<>>
  /\ UNCHANGED <<accepted, pending, bank, log, online>>

CloseReplay ==
  /\ pending = <<>>
  /\ replay' = FALSE
  /\ UNCHANGED <<accepted, pending, bank, log, file, online>>

StoreNext == \/ Accept \/ Deliver \/ GoOffline \/ OpenReplay \/ CloseReplay
             \/ \E on \in BOOLEAN : Reset(on)

StoreSpec == StoreInit /\ [][StoreNext]_storeVars

(* An accepted event is eventually delivered. *)
FairStoreSpec == StoreSpec /\ WF_storeVars(Deliver)
=============================================================================
