----------------------------- MODULE GEMReadout -----------------------------
(* GEM data from the banks of an event to the strips of the planes.  The   *)
(* parser starts a thread for every large ROC bank and parses a small one  *)
(* itself; all of them feed PRadGEMSystem, whose APVs keep one buffer of   *)
(* raw data and one set of hit flags for ever.                             *)
(*                                                                         *)
(* Of the words in a buffer the model keeps the events they came from (0:  *)
(* cleared) and how often the common mode was subtracted since; of the hit *)
(* flags, the event that set them (0: none).                               *)
EXTENDS Naturals, Sequences, FiniteSets

CONSTANTS APVs,        \* in the FECs, as the map file has them
          Connected,   \* those that are connected to a plane
          Shapes,      \* the events the input may hold
          MaxEvents    \* bound: events read

(* Where the data of an event is: what feeds the APVs, by bank.             *)
FeedsOf(s) == UNION {{<<b, i>> : i \in DOMAIN s.banks[b].feeds} : b \in DOMAIN s.banks}
TheFeed(s, p) == s.banks[p[1]].feeds[p[2]]

Listed(q) == q \in Seq({q[i] : i \in DOMAIN q})
Packets   == {"good", "short", "headless", "long"}

(* A FEC is read by one ROC, so raw data of an APV comes in one bank.       *)
OneBank(s) ==
  \A p, q \in FeedsOf(s) :
    /\ TheFeed(s, p).kind = "raw" /\ TheFeed(s, q).kind = "raw"
    /\ TheFeed(s, p).apv = TheFeed(s, q).apv
    => p[1] = q[1]

ASSUME ReadoutAssumption ==
  /\ Connected \subseteq APVs /\ MaxEvents \in Nat
  /\ \A s \in Shapes :
       /\ s.trigger \in {"physics", "monitor"} /\ Listed(s.banks)
       /\ \A b \in DOMAIN s.banks : Listed(s.banks[b].feeds)
       /\ \A p \in FeedsOf(s) : \/ TheFeed(s, p).kind = "raw" /\ TheFeed(s, p).packet \in Packets
                                \/ TheFeed(s, p).kind = "pack"
       /\ OneBank(s)

VARIABLES apv,      \* raw_data, hit_pos, ts_index of every APV
          ped,      \* what its pedestal histograms were filled with
          PedestalMode,
          count,    \* events read so far
          event,    \* the event in the parser, or Idle
          gem,      \* gem_data of new_event
          next,     \* the bank parseEvent is at
          thread,   \* where the parsing of each bank is
          locker,   \* 0, or the bank whose thread has the lock
          stored,   \* the events that are complete
          strips,   \* the strip hits of the planes
          chosen    \* the stored event ChooseEvent was called for, or 0

vars == <<apv, ped, PedestalMode, count, event, gem, next, thread, locker, stored,
          strips, chosen>>
parser == <<count, event, next, stored>>

Idle    == [trigger |-> "none", banks |-> <<>>]
NoHits  == [a \in APVs |-> <<>>]
Banks   == DOMAIN event.banks
Hit(v)  == [src |-> IF v.ts = "none" THEN {} ELSE v.src, fixes |-> v.fixes, flag |-> v.flag]
Own(n)  == [src |-> {n}, fixes |-> 1, flag |-> n]

(* 5000 in every word, no hit; ts_index is not initialised. *)
ClearData(v) == [v EXCEPT !.src = {0}, !.fixes = 0, !.flag = 0]
NewAPV       == [src |-> {0}, fixes |-> 0, flag |-> 0, ts |-> "any"]

Init == /\ apv = [a \in APVs |-> NewAPV]
        /\ ped = [a \in APVs |-> {}]
        /\ PedestalMode = FALSE
        /\ count = 0
        /\ event = Idle
        /\ gem = NoHits
        /\ next = 0
        /\ thread = <<>>
        /\ locker = 0
        /\ stored = <<>>
        /\ strips = NoHits
        /\ chosen = 0

-----------------------------------------------------------------------------
(* One APV. *)

(* A packet that is too long is refused and leaves everything as it was; a *)
(* short one leaves the rest of the buffer; without a header in the data   *)
(* getTimeSampleStart gives the end of the buffer.                         *)
FillRawData(v, packet) ==
  CASE packet = "long"     -> v
    [] packet = "short"    -> [v EXCEPT !.src = @ \cup {count}, !.fixes = 0, !.ts = "start"]
    [] packet = "headless" -> [v EXCEPT !.src = {count}, !.fixes = 0, !.ts = "none"]
    [] packet = "good"     -> [v EXCEPT !.src = {count}, !.fixes = 0, !.ts = "start"]

(* CommonModeCorrection and the comparison with the noise.  An APV without *)
(* a plane and a bad ts_index return before; the words of a damaged packet *)
(* may be above the noise or not.                                          *)
Corrected(v) == [v EXCEPT !.fixes = IF @ < 2 THEN @ + 1 ELSE 2]

ZeroSuppression(v, f) ==
  LET flags == IF f.packet = "good" THEN {IF f.signal THEN count ELSE 0} ELSE {0, count}
  IN  IF f.apv \notin Connected \/ v.ts = "none" THEN {v}
      ELSE {[Corrected(v) EXCEPT !.flag = x] : x \in flags}
           \cup (IF v.ts = "any" THEN {v} ELSE {})

(* One zero-suppressed strip, with all of its time samples or not. *)
FillZeroSupData(v, whole) ==
  [src |-> IF whole THEN {count} ELSE v.src \cup {count}, fixes |-> 1, flag |-> count,
   ts |-> "start"]

CollectZeroSupHits(hits, a, v) ==
  IF v.flag = 0 THEN hits ELSE [hits EXCEPT ![a] = Append(@, Hit(v))]

-----------------------------------------------------------------------------
(* The parser. *)
Feeds(b)  == event.banks[b].feeds
Feed(b)   == Feeds(b)[thread[b].at]
Parsing(b) == /\ b < next \/ (b = next /\ ~event.banks[b].large)
              /\ thread[b].at <= Len(Feeds(b))
At(b, s)  == Parsing(b) /\ thread[b].step = s

StartofNewEvent(s) ==
  /\ event = Idle /\ count < MaxEvents
  /\ event' = s
  /\ count' = count + 1
  /\ gem' = NoHits
  /\ next' = 1
  /\ thread' = [b \in DOMAIN s.banks |-> [at |-> 1, step |-> "fill", seen |-> NoHits]]
  /\ UNCHANGED <<apv, ped, PedestalMode, locker, stored, strips, chosen>>

(* parseEvent goes to the next bank when it has started a thread for this  *)
(* one or has parsed it.                                                   *)
NextBank ==
  /\ event # Idle /\ next \in Banks
  /\ event.banks[next].large \/ thread[next].at > Len(Feeds(next))
  /\ next' = next + 1
  /\ UNCHANGED <<apv, ped, PedestalMode, count, event, gem, thread, locker, stored,
                 strips, chosen>>

Step(b, s) == thread' = [thread EXCEPT ![b].step = s]
Fed(b)     == thread' = [thread EXCEPT ![b] = [at |-> @.at + 1, step |-> "fill", seen |-> NoHits]]

(* parseGEMData, PRadGEMSystem::FillRawData.  A packet for an APV that is   *)
(* not in the map is ignored.                                              *)
FillRaw(b) ==
  LET f == Feed(b)
  IN  /\ At(b, "fill") /\ f.kind = "raw"
      /\ IF f.apv \notin APVs THEN Fed(b) /\ UNCHANGED apv
         ELSE /\ apv' = [apv EXCEPT ![f.apv] = FillRawData(@, f.packet)]
              /\ Step(b, IF event.trigger = "monitor" THEN "pedestal" ELSE "suppress")
      /\ UNCHANGED <<parser, gem, locker, ped, PedestalMode, strips, chosen>>

FillPedHist(b) ==
  LET f == Feed(b)
  IN  /\ At(b, "pedestal")
      /\ ped' = IF PedestalMode
                THEN [ped EXCEPT ![f.apv] = @ \cup
                        {[n |-> count, packet |-> f.packet, hit |-> Hit(apv[f.apv])]}]
                ELSE ped
      /\ Fed(b)
      /\ UNCHANGED <<parser, gem, locker, apv, PedestalMode, strips, chosen>>

Suppress(b) ==
  /\ At(b, "suppress")
  /\ \E v \in ZeroSuppression(apv[Feed(b).apv], Feed(b)) :
       apv' = [apv EXCEPT ![Feed(b).apv] = v]
  /\ Step(b, "lock")
  /\ UNCHANGED <<parser, gem, locker, ped, PedestalMode, strips, chosen>>

(* parseGEMZeroSupData, PRadGEMSystem::FillZeroSupData: all the flags of   *)
(* all APVs are reset, the strips of the pack are filled.                  *)
FillPack(b) ==
  /\ At(b, "fill") /\ Feed(b).kind = "pack"
  /\ apv' = [a \in APVs |->
       LET v == [apv[a] EXCEPT !.flag = 0]
           S == {s \in Feed(b).samples : s.apv = a}
       IN  IF S = {} THEN v ELSE FillZeroSupData(v, \A s \in S : s.whole)]
  /\ Step(b, "lock")
  /\ UNCHANGED <<parser, gem, locker, ped, PedestalMode, strips, chosen>>

\* Mutant of Lock: the hits are appended without the lock
LockNothing(b) ==
  /\ At(b, "lock")
  /\ thread' = [thread EXCEPT ![b].step = "collect", ![b].seen = gem]
  /\ UNCHANGED <<parser, gem, locker, apv, ped, PedestalMode, strips, chosen>>

Lock(b) ==
  /\ At(b, "lock") /\ locker = 0
  /\ locker' = b
  /\ thread' = [thread EXCEPT ![b].step = "collect", ![b].seen = gem]
  /\ UNCHANGED <<parser, gem, apv, ped, PedestalMode, strips, chosen>>

\* Mutant of Collect: the unlock is left out
CollectAndKeep(b) ==
  /\ At(b, "collect")
  /\ gem' = [a \in APVs |-> CollectZeroSupHits(thread[b].seen, a, apv[a])[a]]
  /\ Fed(b)
  /\ UNCHANGED <<parser, locker, apv, ped, PedestalMode, strips, chosen>>

(* The hits go to the event's gem_data: of the APV, or of all of them for a *)
(* pack.                                                                    *)
Collect(b) ==
  LET of == IF Feed(b).kind = "raw" THEN {Feed(b).apv} ELSE APVs
      seen == thread[b].seen
  IN  /\ At(b, "collect")
      /\ gem' = [a \in APVs |-> IF a \in of THEN CollectZeroSupHits(seen, a, apv[a])[a]
                                ELSE seen[a]]
      /\ locker' = 0
      /\ Fed(b)
      /\ UNCHANGED <<parser, apv, ped, PedestalMode, strips, chosen>>

(* parseEvent joins the threads and hands the event over. *)
EndofThisEvent ==
  /\ event # Idle /\ next \notin Banks
  /\ \A b \in Banks : thread[b].at > Len(Feeds(b))
  /\ stored' = Append(stored, [n |-> count, shape |-> event, gem |-> gem])
  /\ event' = Idle
  /\ thread' = <<>>
  /\ next' = 0
  /\ gem' = NoHits
  /\ UNCHANGED <<apv, ped, PedestalMode, count, locker, strips, chosen>>

-----------------------------------------------------------------------------
(* Between two events. *)
SetPedestalMode ==
  /\ event = Idle
  /\ PedestalMode' = ~PedestalMode
  /\ ped' = IF PedestalMode THEN [a \in APVs |-> {}] ELSE ped
  /\ UNCHANGED <<parser, gem, thread, locker, apv, strips, chosen>>

\* Mutant of Refilled: the APVs without hits are not cleared
RefilledOnly(hits, a) ==
  IF hits[a] = <<>> THEN apv[a]
  ELSE LET h == hits[a][Len(hits[a])]
       IN  [src |-> h.src, fixes |-> h.fixes, flag |-> h.flag, ts |-> "start"]

(* The hits of a stored event go back to the APVs and on to the planes.  A  *)
(* plane collects the flagged hits of the APVs that are connected to it.    *)
Refilled(hits, a) ==
  IF hits[a] = <<>> THEN ClearData(apv[a])
  ELSE LET h == hits[a][Len(hits[a])]
       IN  [src |-> h.src, fixes |-> h.fixes, flag |-> h.flag, ts |-> "start"]

CollectHits(v) == [a \in APVs |-> IF a \in Connected /\ v[a].flag # 0
                                  THEN <<Hit(v[a])>> ELSE <<>>]

ChooseEvent(k) ==
  /\ event = Idle /\ k \in DOMAIN stored
  /\ apv' = [a \in APVs |-> Refilled(stored[k].gem, a)]
  /\ strips' = CollectHits(apv')
  /\ chosen' = k
  /\ UNCHANGED <<parser, gem, thread, locker, ped, PedestalMode>>

(* PRadDataHandler::Clear, PRadGEMSystem::Reset. *)
Reset ==
  /\ event = Idle
  /\ apv' = [a \in APVs |-> ClearData(apv[a])]
  /\ ped' = [a \in APVs |-> {}]
  /\ strips' = NoHits
  /\ stored' = <<>>
  /\ chosen' = 0
  /\ UNCHANGED <<count, event, next, gem, thread, locker, PedestalMode>>

Parse == \/ NextBank
         \/ \E b \in Banks : \/ FillRaw(b) \/ FillPedHist(b) \/ Suppress(b)
                             \/ FillPack(b) \/ Lock(b) \/ Collect(b)
         \/ EndofThisEvent

Next == \/ Parse
        \/ \E s \in Shapes : StartofNewEvent(s)
        \/ SetPedestalMode
        \/ \E k \in 1..MaxEvents : ChooseEvent(k)
        \/ Reset

Spec     == Init /\ [][Next]_vars
FairSpec == Spec /\ WF_vars(Parse)

-----------------------------------------------------------------------------
(* What each APV should give for an event: one hit for each packet or pack *)
(* in which it has a signal.                                               *)
Concerns(f, a) == IF f.kind = "raw" THEN f.apv = a ELSE \E x \in f.samples : x.apv = a
WellFormed(f, a) == IF f.kind = "raw" THEN f.packet = "good"
                    ELSE \A x \in f.samples : x.apv = a => x.whole
Signal(f) == IF f.kind = "raw" THEN f.signal ELSE TRUE

(* A pack resets the flags of all APVs: it must not be parsed beside       *)
(* another bank.                                                           *)
PackInParallel(s) ==
  \E p, q \in FeedsOf(s) : /\ p[1] # q[1] /\ TheFeed(s, p).kind = "pack"
                           /\ s.banks[p[1]].large \/ s.banks[q[1]].large

(* The hits stored with an event are its own: from each APV with well-     *)
(* formed data exactly the hits of that data, corrected once, none lost to *)
(* another thread and none left from an earlier event.  Bad data in the    *)
(* event harms only the APV it is for, and nothing in later events         *)
(* (FillRawData, ZeroSuppression, CollectZeroSupHits).  An APV without a   *)
(* plane keeps the flags of a pack or of a chosen event: not stated of it. *)
OwnHits ==
  \A k \in DOMAIN stored :
    LET s == stored[k].shape
    IN  s.trigger = "physics" /\ ~PackInParallel(s) => \A a \in Connected :
          LET P == {p \in FeedsOf(s) : Concerns(TheFeed(s, p), a)}
          IN  (\A p \in P : WellFormed(TheFeed(s, p), a)) =>
                stored[k].gem[a] = [i \in 1..Cardinality({p \in P : Signal(TheFeed(s, p))})
                                      |-> Own(stored[k].n)]

(* The planes show the hits of the event that was chosen, and nothing that *)
(* the events decoded before or since left in the APVs (ChooseEvent).      *)
PlanesShowChosen ==
  \A a \in APVs : strips[a] =
    IF chosen # 0 /\ a \in Connected /\ stored[chosen].gem[a] # <<>>
    THEN <<stored[chosen].gem[a][Len(stored[chosen].gem[a])]>> ELSE <<>>

(* The threads of an event end, so that its end is reached: the lock is    *)
(* given back (parseEvent joins all of them).                              *)
EventEnds == event # Idle ~> event = Idle
=============================================================================
