-------------------------- MODULE MCEventPipeline --------------------------
(* A small instance of EventPipeline, once without InitializeByData and    *)
(* once with it, on shorter files and without Clear.                       *)
EXTENDS EventPipeline

CONSTANTS c1, c2

VARIABLE with_init

TI(t)  == [kind |-> "TI", trg |-> t]
ADC(a) == [kind |-> "ADC", above |-> a]
Info   == [kind |-> "EVINFO"]
Raw    == [kind |-> "RAW"]
Ep(c)  == [kind |-> "EPICS", ch |-> c]

\* A physics event, one whose ADC bank precedes its trigger word, a monitor
\* event, a slow-control event, a control event the parser skips.
Phys  == [tag |-> "CODA_Event", banks |-> <<Info, TI("physics"), ADC(TRUE), ADC(FALSE)>>]
Late  == [tag |-> "CODA_Sync",  banks |-> <<ADC(TRUE), TI("monitor"), ADC(FALSE), Raw>>]
Epics == [tag |-> "EPICS_Info", banks |-> <<Ep(c1), Ep(c2)>>]
Start == [tag |-> "CODA_Prestart", banks |-> <<>>]

MCChannels == {c1, c2}
MCShapes   == {Phys, Late, Epics, Start}

\* every order of two or three of the events above, and a damaged block
MCFiles == {<<Phys, Late, Epics>>, <<Late, Epics, Phys>>, <<Epics, Phys, Late>>,
            <<Start, Phys, BadBlock, Late>>, <<>>}
MCShort == {<<Phys, Late>>, <<Epics, Epics>>, <<Late, Epics>>, <<>>}
MCAllFiles == MCFiles \cup MCShort

\* the files of an operation, and the operations
Given(files_read) == pc = "idle" /\ cmd' # "Decode" =>
                       {input'} \cup {files'[i] : i \in DOMAIN files'} \subseteq files_read
Allowed == IF with_init THEN cmd' # "Clear" /\ Given(MCShort)
                        ELSE cmd' # "InitializeByData" /\ Given(MCFiles)

MCInit == Init /\ with_init \in BOOLEAN
MCNext == Next /\ Allowed /\ UNCHANGED with_init

MCSpec == /\ MCInit
          /\ [][MCNext]_<<vars, with_init>>
          /\ Fairness

Else(mapped, x) == IF with_init THEN x ELSE mapped

Store == INSTANCE EventStore WITH
  accepted <- Else(Accepted, 0), pending <- Else(Pending, <<>>),
  bank <- Else(Ordinals(event_data), <<>>), log <- Else(Ordinals(epics_data), <<>>),
  file <- Else(Ordinals(dst), <<>>),
  online <- Else(onlineMode, FALSE), replay <- Else(replayMode, FALSE)

(* Without InitializeByData, which leaves an event behind that Clear does   *)
(* not wait for, every event is delivered once, in order, to the            *)
(* destination selected when it was read, and eventually (EndofThisEvent,   *)
(* EndProcess).                                                             *)
ImplementsStore == Store!FairStoreSpec
=============================================================================
