------------------------- MODULE DetectorDataProofs -------------------------
(***************************************************************************)
(* What the detectors keep of an event is that event's.  GEM: the hits     *)
(* stored with an event are its own although the threads of its banks      *)
(* share the APVs and one lock, for any APVs and any input in which the    *)
(* raw data of an APV comes in one bank.  HyCal: gains are corrected once  *)
(* and the histogram of the energy follows the bank, for any modules,      *)
(* references, files and data.  Matching: each hit of HyCal is matched     *)
(* with the closest hit of the GEMs, for any hits and ranges.              *)
(***************************************************************************)
EXTENDS GEMReadout, HyCalCalibration, DetMatch,
        FiniteSetTheorems, WellFoundedInduction, TLAPS

-----------------------------------------------------------------------------
(* The hits of the GEMs.                                                    *)

Words == [src : SUBSET Nat, fixes : Nat, flag : Nat, ts : {"any", "start", "none"}]
Hits  == [src : SUBSET Nat, fixes : Nat, flag : Nat \ {0}]
Lists == [APVs -> Seq(Hits)]
Steps == {"fill", "pedestal", "suppress", "lock", "collect"}

StoredType == /\ apv \in [APVs -> Words]
              /\ gem \in Lists
              /\ count \in Nat
              /\ stored \in Seq([n : Nat, shape : Shapes, gem : Lists])
              /\ chosen \in {0} \cup DOMAIN stored

(* The lock is held by the thread that collects, which has seen the hits    *)
(* there are; a thread has left "fill" only while it is parsing.            *)
Threads ==
  /\ event \in Shapes \cup {Idle}
  /\ event = Idle => locker = 0
  /\ event # Idle =>
       /\ count # 0 /\ next \in Nat \ {0} /\ locker \in {0} \cup Banks
       /\ thread \in [Banks -> [at : Nat \ {0}, step : Steps, seen : Lists]]
       /\ \A b \in Banks : /\ thread[b].step # "fill" => Parsing(b)
                           /\ thread[b].at <= Len(Feeds(b)) + 1
                           /\ b < next /\ ~event.banks[b].large => ~Parsing(b)
                           /\ thread[b].step = "collect" => locker = b /\ thread[b].seen = gem
                           /\ locker = b => thread[b].step = "collect"

Fit(s, a) == \A p \in FeedsOf(s) : Concerns(TheFeed(s, p), a) => WellFormed(TheFeed(s, p), a)

(* What of the data of an APV has been collected.                           *)
Given(s, a) == {p \in FeedsOf(s) : Concerns(TheFeed(s, p), a) /\ Signal(TheFeed(s, p))}
Collected(a) == {p \in Given(event, a) : p[2] < thread[p[1]].at}

(* What the APVs hold of the data a thread is at.                           *)
Touches(f, a) == f.kind = "raw" => f.apv = a
Ready(b, a) ==
  /\ thread[b].step = "suppress" /\ Feed(b).apv = a =>
       apv[a].src = {count} /\ apv[a].fixes = 0 /\ apv[a].ts = "start"
  /\ thread[b].step = "suppress" => Feed(b).kind = "raw" /\ Feed(b).apv \in APVs
  /\ thread[b].step \in {"lock", "collect"} /\ Touches(Feed(b), a) =>
       IF Concerns(Feed(b), a) /\ Signal(Feed(b)) THEN Hit(apv[a]) = Own(count) ELSE apv[a].flag = 0
  /\ thread[b].step # "pedestal"

OwnSoFar ==
  event # Idle /\ event.trigger = "physics" /\ ~PackInParallel(event) =>
    \A a \in Connected : Fit(event, a) =>
      /\ IsFiniteSet(Collected(a))
      /\ gem[a] = [i \in 1..Cardinality(Collected(a)) |-> Own(count)]
      /\ \A b \in Banks : Ready(b, a)

ReadoutInv == StoredType /\ Threads /\ OwnSoFar /\ OwnHits /\ PlanesShowChosen

-----------------------------------------------------------------------------
LEMMA ListedLen == ASSUME NEW q, Listed(q) PROVE Len(q) \in Nat /\ DOMAIN q = 1..Len(q)
BY DEF Listed

LEMMA IdleIsNone == Idle \notin Shapes
BY ReadoutAssumption DEF Idle

LEMMA BanksAre ==
  ASSUME event \in Shapes
  PROVE  /\ Banks \subseteq Nat \ {0}
         /\ \A b \in Banks : Len(Feeds(b)) \in Nat /\ DOMAIN Feeds(b) = 1..Len(Feeds(b))
<1>1. Listed(event.banks) /\ \A b \in DOMAIN event.banks : Listed(event.banks[b].feeds)
  BY ReadoutAssumption
<1>2. DOMAIN event.banks = 1..Len(event.banks) /\ Len(event.banks) \in Nat
  BY <1>1, ListedLen
<1> QED
  BY <1>1, <1>2, ListedLen DEF Banks, Feeds

(* The feed a bank is at is one of the event's.                             *)
LEMMA FeedAt ==
  ASSUME Threads, event # Idle, NEW b \in Banks, Parsing(b)
  PROVE  /\ thread[b].at \in DOMAIN Feeds(b)
         /\ <<b, thread[b].at>> \in FeedsOf(event)
         /\ Feed(b) = TheFeed(event, <<b, thread[b].at>>)
         /\ \/ Feed(b).kind = "raw" /\ Feed(b).packet \in Packets
            \/ Feed(b).kind = "pack"
<1>1. event \in Shapes
  BY DEF Threads
<1>2. thread[b].at \in Nat \ {0} /\ thread[b].at <= Len(Feeds(b))
  BY DEF Threads, Parsing
<1>3. thread[b].at \in DOMAIN Feeds(b)
  BY <1>1, <1>2, BanksAre
<1>4. <<b, thread[b].at>> \in FeedsOf(event)
  BY <1>3 DEF FeedsOf, Feeds, Banks
<1>5. Feed(b) = TheFeed(event, <<b, thread[b].at>>)
  BY DEF Feed, TheFeed, Feeds
<1> QED
  BY <1>1, <1>3, <1>4, <1>5, ReadoutAssumption

(* Two threads of an event without parallel packs never touch one APV.      *)
LEMMA Alone ==
  ASSUME Threads, event # Idle, ~PackInParallel(event),
         NEW b \in Banks, NEW c \in Banks, b # c, Parsing(b), Parsing(c),
         NEW a, Touches(Feed(b), a)
  PROVE  ~Touches(Feed(c), a) /\ Feed(b).kind = "raw" /\ Feed(c).kind = "raw"
<1>1. event \in Shapes
  BY DEF Threads
<1>2. event.banks[b].large \/ event.banks[c].large
  <2> SUFFICES ASSUME ~event.banks[b].large, ~event.banks[c].large PROVE FALSE
    OBVIOUS
  <2>1. ~(b < next) /\ ~(c < next)
    BY DEF Threads
  <2>2. b = next /\ c = next
    BY <2>1 DEF Parsing
  <2> QED
    BY <2>2
<1> DEFINE p == <<b, thread[b].at>>
           q == <<c, thread[c].at>>
<1>3. /\ p \in FeedsOf(event) /\ q \in FeedsOf(event) /\ p[1] = b /\ q[1] = c
      /\ Feed(b) = TheFeed(event, p) /\ Feed(c) = TheFeed(event, q)
  BY FeedAt
<1> HIDE DEF p, q
<1>4. Feed(b).kind # "pack" /\ Feed(c).kind # "pack"
  BY <1>2, <1>3 DEF PackInParallel
<1>5. Feed(b).kind = "raw" /\ Feed(c).kind = "raw"
  BY <1>4, FeedAt
<1>6. OneBank(event)
  BY <1>1, ReadoutAssumption
<1>7. Feed(b).apv # Feed(c).apv
  BY <1>3, <1>5, <1>6 DEF OneBank
<1> QED
  BY <1>5, <1>7 DEF Touches

LEMMA InitReadout == Init => ReadoutInv
<1> SUFFICES ASSUME Init PROVE ReadoutInv
  OBVIOUS
<1>1. NewAPV \in Words
  BY DEF NewAPV, Words
<1>2. NoHits \in Lists
  BY DEF NoHits, Lists
<1>3. <<>> \in Seq([n : Nat, shape : Shapes, gem : Lists]) /\ DOMAIN <<>> = {}
  OBVIOUS
<1>4. StoredType
  BY <1>1, <1>2, <1>3 DEF Init, StoredType
<1>5. Threads /\ OwnSoFar
  BY DEF Init, Threads, OwnSoFar
<1>6. OwnHits
  BY <1>3 DEF Init, OwnHits
<1>7. PlanesShowChosen
  BY DEF Init, PlanesShowChosen, NoHits
<1> QED
  BY <1>4, <1>5, <1>6, <1>7 DEF ReadoutInv

(* What the data of an APV leaves in it.                                    *)
LEMMA HitTyped == ASSUME NEW v \in Words, v.flag # 0 PROVE Hit(v) \in Hits
BY DEF Words, Hits, Hit

LEMMA CollectTyped ==
  ASSUME NEW hits \in Lists, NEW a \in APVs, NEW v \in Words
  PROVE  /\ CollectZeroSupHits(hits, a, v) \in Lists
         /\ CollectZeroSupHits(hits, a, v)[a] \in Seq(Hits)
         /\ CollectZeroSupHits(hits, a, v)[a] = IF v.flag = 0 THEN hits[a] ELSE Append(hits[a], Hit(v))
BY HitTyped DEF CollectZeroSupHits, Lists

LEMMA FillTyped ==
  ASSUME NEW v \in Words, NEW packet \in Packets, count \in Nat
  PROVE  /\ FillRawData(v, packet) \in Words
         /\ packet = "good" => /\ FillRawData(v, packet).src = {count}
                               /\ FillRawData(v, packet).fixes = 0
                               /\ FillRawData(v, packet).ts = "start"
BY DEF FillRawData, Words, Packets

LEMMA SuppressTyped ==
  ASSUME NEW v \in Words, NEW f, count \in Nat, NEW w \in ZeroSuppression(v, f)
  PROVE  /\ w \in Words
         /\ /\ f.apv \in Connected /\ f.packet = "good"
            /\ v.src = {count} /\ v.fixes = 0 /\ v.ts = "start"
            => /\ w.src = {count} /\ w.fixes = 1 /\ w.ts = "start"
               /\ w.flag = IF f.signal THEN count ELSE 0
<1>1. Corrected(v) \in Words /\ Corrected(v).src = v.src /\ Corrected(v).ts = v.ts
      /\ (v.fixes = 0 => Corrected(v).fixes = 1)
  BY DEF Corrected, Words
<1>2. \A x \in {0, count} : /\ [Corrected(v) EXCEPT !.flag = x] \in Words
                            /\ [Corrected(v) EXCEPT !.flag = x].src = v.src
                            /\ [Corrected(v) EXCEPT !.flag = x].ts = v.ts
                            /\ [Corrected(v) EXCEPT !.flag = x].fixes = Corrected(v).fixes
                            /\ [Corrected(v) EXCEPT !.flag = x].flag = x
  BY <1>1 DEF Words
<1>3. CASE f.apv \notin Connected \/ v.ts = "none"
  BY <1>3 DEF ZeroSuppression
<1>4. CASE ~(f.apv \notin Connected \/ v.ts = "none") /\ w = v /\ v.ts = "any"
  BY <1>4
<1>5. CASE ~(f.apv \notin Connected \/ v.ts = "none") /\ ~(w = v /\ v.ts = "any")
  <2>1. PICK x \in (IF f.packet = "good" THEN {IF f.signal THEN count ELSE 0} ELSE {0, count}) :
          w = [Corrected(v) EXCEPT !.flag = x]
    BY <1>5 DEF ZeroSuppression
  <2>2. x \in {0, count}
    BY <2>1
  <2> QED
    BY <1>1, <1>2, <2>1, <2>2
<1> QED
  BY <1>3, <1>4, <1>5

LEMMA PackTyped ==
  ASSUME NEW v \in Words, count \in Nat, NEW whole \in BOOLEAN
  PROVE  /\ [v EXCEPT !.flag = 0] \in Words /\ [v EXCEPT !.flag = 0].flag = 0
         /\ FillZeroSupData([v EXCEPT !.flag = 0], whole) \in Words
         /\ whole => Hit(FillZeroSupData([v EXCEPT !.flag = 0], whole)) = Own(count)
BY DEF FillZeroSupData, Words, Hit, Own

-----------------------------------------------------------------------------
(* Steps of the parser do not touch what is stored.                         *)
LEMMA StoredKept ==
  ASSUME OwnHits, PlanesShowChosen, UNCHANGED <<stored, strips, chosen>>
  PROVE  OwnHits' /\ PlanesShowChosen'
BY DEF OwnHits, PlanesShowChosen

ThreadStates == [at : Nat \ {0}, step : Steps, seen : Lists]

(* One thread goes on, and at most takes or gives back the lock.            *)
LEMMA ThreadMoves ==
  ASSUME Threads, event # Idle, NEW b \in Banks, NEW t \in ThreadStates,
         UNCHANGED <<count, event, next>>, thread' = [thread EXCEPT ![b] = t],
         thread[b].at <= t.at, t.at <= Len(Feeds(b)) + 1,
         t.step # "fill" => t.at = thread[b].at /\ Parsing(b),
         t.step = "collect" => locker' = b /\ t.seen = gem',
         locker' = b => t.step = "collect",
         gem' = gem \/ thread[b].step = "collect",
         locker' = locker \/ (locker \in {0, b} /\ locker' \in {0, b})
  PROVE  /\ Threads'
         /\ \A c \in Banks : thread'[c] = IF c = b THEN t ELSE thread[c]
<1>1. event \in Shapes /\ Banks' = Banks
  BY DEF Threads, Banks
<1>2. \A c \in Banks : /\ c \in Nat \ {0} /\ Len(Feeds(c)) \in Nat
  BY <1>1, BanksAre
<1>3. \A c \in Banks : thread'[c] = IF c = b THEN t ELSE thread[c]
  BY DEF Threads
<1>4. thread' \in [Banks -> ThreadStates]
  BY DEF Threads, ThreadStates
<1>5. ASSUME NEW c \in Banks
      PROVE  /\ thread'[c].step # "fill" => Parsing(c)'
             /\ thread'[c].at <= Len(Feeds(c)) + 1
             /\ c < next /\ ~event.banks[c].large => ~Parsing(c)'
             /\ thread'[c].step = "collect" => locker' = c /\ thread'[c].seen = gem'
             /\ locker' = c => thread'[c].step = "collect"
  <2>1. CASE c = b
    <3>1. thread'[c] = t
      BY <1>3, <2>1
    <3>2. Parsing(c)' <=> (c < next \/ (c = next /\ ~event.banks[c].large)) /\ t.at <= Len(Feeds(c))
      BY <3>1 DEF Parsing, Feeds
    <3>3. t.at \in Nat /\ thread[c].at \in Nat
      BY DEF Threads, ThreadStates
    <3>4. Parsing(c)' => Parsing(c)
      BY <1>2, <2>1, <3>2, <3>3 DEF Parsing
    <3>5. t.at = thread[b].at => (Parsing(c) => Parsing(c)')
      BY <2>1, <3>2 DEF Parsing
    <3> QED
      BY <2>1, <3>1, <3>4, <3>5 DEF Threads
  <2>2. CASE c # b
    <3>1. thread'[c] = thread[c]
      BY <1>3, <2>2
    <3>2. Parsing(c)' <=> Parsing(c)
      BY <3>1 DEF Parsing, Feeds
    <3>3. thread[c].step = "collect" => locker = c /\ thread[c].seen = gem
      BY DEF Threads
    <3>4. locker = c <=> locker' = c
      BY <1>2, <2>2
    <3>5. thread[b].step = "collect" => locker = b
      BY DEF Threads
    <3> QED
      BY <2>2, <3>1, <3>2, <3>3, <3>4, <3>5 DEF Threads
  <2> QED
    BY <2>1, <2>2
<1>6. count # 0 /\ next \in Nat \ {0} /\ locker' \in {0} \cup Banks
  BY DEF Threads
<1>7. Threads'
  BY <1>1, <1>4, <1>5, <1>6 DEF Threads, ThreadStates, Feeds
<1> QED
  BY <1>3, <1>7

(* What has been collected when a thread goes to its next feed.             *)
LEMMA CollectedFed ==
  ASSUME Threads, event # Idle, NEW b \in Banks, Parsing(b), UNCHANGED <<event>>,
         \A c \in Banks : thread'[c].at = IF c = b THEN thread[c].at + 1 ELSE thread[c].at, NEW a
  PROVE  /\ Concerns(Feed(b), a) /\ Signal(Feed(b)) =>
              /\ Collected(a)' = Collected(a) \cup {<<b, thread[b].at>>}
              /\ <<b, thread[b].at>> \notin Collected(a)
         /\ ~(Concerns(Feed(b), a) /\ Signal(Feed(b))) => Collected(a)' = Collected(a)
<1> DEFINE p == <<b, thread[b].at>>
<1>1. p \in FeedsOf(event) /\ Feed(b) = TheFeed(event, p)
  BY FeedAt
<1>2. p \in Given(event, a) <=> Concerns(Feed(b), a) /\ Signal(Feed(b))
  BY <1>1 DEF Given
<1>3. event \in Shapes
  BY DEF Threads
<1>4. \A q \in Given(event, a) : q[1] \in Banks /\ q[2] \in Nat /\ q = <<q[1], q[2]>>
  BY <1>3, BanksAre DEF Given, FeedsOf, Banks, Feeds
<1>5. \A c \in Banks : thread[c].at \in Nat
  BY DEF Threads
<1>6. p[1] = b /\ p[2] = thread[b].at
  OBVIOUS
<1>7. \A q \in Given(event, a) : (q[2] < thread'[q[1]].at <=> q[2] < thread[q[1]].at \/ q = p)
  BY <1>4, <1>5
<1>8. Collected(a)' = {q \in Given(event, a) : q[2] < thread'[q[1]].at}
  BY DEF Collected
<1>9. p \notin Collected(a)
  BY <1>5, <1>6 DEF Collected
<1> HIDE DEF p
<1>10. p \in Given(event, a) => Collected(a)' = Collected(a) \cup {p}
  BY <1>7, <1>8 DEF Collected
<1>11. p \notin Given(event, a) => Collected(a)' = Collected(a)
  BY <1>7, <1>8 DEF Collected
<1> QED
  BY <1>2, <1>9, <1>10, <1>11 DEF p

LEMMA CollectedSame ==
  ASSUME Threads, event # Idle, UNCHANGED <<event>>,
         \A c \in Banks : thread'[c].at = thread[c].at, NEW a
  PROVE  Collected(a)' = Collected(a)
<1>1. event \in Shapes
  BY DEF Threads
<1>2. \A q \in Given(event, a) : q[1] \in Banks
  BY <1>1 DEF Given, FeedsOf, Banks
<1> QED
  BY <1>2 DEF Collected

(* A thread does not disturb what another has put into an APV.              *)
LEMMA OthersReady ==
  ASSUME Threads, event # Idle, ~PackInParallel(event), NEW b \in Banks, Parsing(b),
         NEW c \in Banks, c # b, thread'[c] = thread[c], UNCHANGED <<event, count>>,
         NEW a, Touches(Feed(b), a) \/ apv'[a] = apv[a], Ready(c, a)
  PROVE  Ready(c, a)'
<1>1. Feed(c)' = Feed(c)
  BY DEF Feed, Feeds
<1>2. CASE thread[c].step = "fill"
  BY <1>1, <1>2 DEF Ready
<1>3. CASE thread[c].step # "fill" /\ apv'[a] = apv[a]
  BY <1>1, <1>3 DEF Ready
<1>4. CASE thread[c].step # "fill" /\ Touches(Feed(b), a)
  <2>1. Parsing(c)
    BY <1>4 DEF Threads
  <2>2. ~Touches(Feed(c), a)
    BY <1>4, <2>1, Alone
  <2> QED
    BY <1>1, <2>2 DEF Ready, Touches
<1> QED
  BY <1>2, <1>3, <1>4

(* A step that collects nothing.                                            *)
LEMMA NotCollecting ==
  ASSUME Threads, event # Idle, OwnSoFar, NEW b \in Banks, Parsing(b),
         UNCHANGED <<event, count, gem>>,
         \A c \in Banks : c # b => thread'[c] = thread[c],
         event.trigger = "physics" => thread'[b].at = thread[b].at,
         \A a \in APVs : Touches(Feed(b), a) \/ apv'[a] = apv[a],
         event.trigger = "physics" =>
           \A a \in Connected : Fit(event, a) /\ Ready(b, a) => Ready(b, a)'
  PROVE  OwnSoFar'
<1> SUFFICES ASSUME event.trigger = "physics", ~PackInParallel(event),
                    NEW a \in Connected, Fit(event, a)
             PROVE  /\ IsFiniteSet(Collected(a)')
                    /\ gem[a] = [i \in 1..Cardinality(Collected(a)') |-> Own(count)]
                    /\ \A c \in Banks : Ready(c, a)'
  BY DEF OwnSoFar, Own, Banks
<1>0. a \in APVs
  BY ReadoutAssumption
<1>1. /\ IsFiniteSet(Collected(a))
      /\ gem[a] = [i \in 1..Cardinality(Collected(a)) |-> Own(count)]
      /\ \A c \in Banks : Ready(c, a)
  BY DEF OwnSoFar
<1>2. \A c \in Banks : thread'[c].at = thread[c].at
  OBVIOUS
<1>3. Collected(a)' = Collected(a)
  BY <1>2, CollectedSame
<1>4. \A c \in Banks : Ready(c, a)'
  BY <1>0, <1>1, OthersReady
<1> QED
  BY <1>1, <1>3, <1>4

LEMMA TypesOfFeeds ==
  ASSUME event \in Shapes, NEW a, Fit(event, a), NEW p \in FeedsOf(event)
  PROVE  /\ TheFeed(event, p).kind = "raw" /\ TheFeed(event, p).apv = a => TheFeed(event, p).packet = "good"
         /\ TheFeed(event, p).kind = "pack" =>
              \A x \in TheFeed(event, p).samples : x.apv = a => x.whole
<1>1. Concerns(TheFeed(event, p), a) => WellFormed(TheFeed(event, p), a)
  BY DEF Fit
<1> QED
  BY <1>1 DEF Concerns, WellFormed

LEMMA NextBankKeeps == ReadoutInv /\ NextBank => ReadoutInv'
<1> SUFFICES ASSUME ReadoutInv, NextBank PROVE ReadoutInv'
  OBVIOUS
<1> USE DEF ReadoutInv
<1>1. OwnHits' /\ PlanesShowChosen'
  BY StoredKept DEF NextBank
<1>2. StoredType'
  BY DEF StoredType, NextBank
<1>3. event \in Shapes /\ event # Idle
  BY DEF NextBank, Threads
<1>4. Banks \subseteq Nat \ {0}
  BY <1>3, BanksAre
<1>5. ASSUME NEW b \in Banks
      PROVE  /\ Parsing(b) => Parsing(b)'
             /\ b < next' /\ ~event.banks[b].large => ~Parsing(b)'
             /\ thread[b].step # "fill" => Parsing(b)
  <2>0. b \in Nat /\ next \in Nat /\ next' = next + 1 /\ Len(Feeds(b)) \in Nat /\ thread[b].at \in Nat
    BY <1>3, <1>4, BanksAre DEF NextBank, Threads
  <2>1. Parsing(b)' <=> (b < next + 1 \/ (b = next + 1 /\ ~event.banks[b].large)) /\ thread[b].at <= Len(Feeds(b))
    BY DEF Parsing, NextBank, Feeds
  <2>2. b = next => event.banks[b].large \/ thread[b].at > Len(Feeds(b))
    BY DEF NextBank
  <2>3. b < next /\ ~event.banks[b].large => thread[b].at > Len(Feeds(b))
    BY <2>0, <1>3 DEF Threads, Parsing
  <2>4. thread[b].step # "fill" => Parsing(b)
    BY <1>3 DEF Threads
  <2> QED
    BY <2>0, <2>1, <2>2, <2>3, <2>4 DEF Parsing
<1>6. Threads'
  BY <1>3, <1>5 DEF NextBank, Threads, Banks, Feeds
<1>7. OwnSoFar'
  <2> SUFFICES ASSUME event.trigger = "physics", ~PackInParallel(event),
                      NEW a \in Connected, Fit(event, a)
               PROVE  /\ IsFiniteSet(Collected(a)')
                      /\ gem[a] = [i \in 1..Cardinality(Collected(a)') |-> Own(count)]
                      /\ \A c \in Banks : Ready(c, a)'
    BY DEF OwnSoFar, Own, Banks, NextBank
  <2>1. Collected(a)' = Collected(a)
    BY DEF Collected, NextBank
  <2>2. \A c \in Banks : Ready(c, a) => Ready(c, a)'
    BY DEF Ready, NextBank, Feed, Feeds
  <2> QED
    BY <1>3, <2>1, <2>2 DEF OwnSoFar
<1> QED
  BY <1>1, <1>2, <1>6, <1>7

LEMMA StepMoves ==
  ASSUME Threads, event # Idle, NEW b \in Banks, Parsing(b), NEW s \in Steps \ {"fill", "collect"},
         Step(b, s), UNCHANGED <<parser, gem, locker>>, thread[b].step # "collect"
  PROVE  /\ Threads' /\ thread'[b].at = thread[b].at /\ thread'[b].step = s
         /\ \A c \in Banks : c # b => thread'[c] = thread[c]
<1> DEFINE t == [thread[b] EXCEPT !.step = s]
<1>1. t \in ThreadStates /\ t.at = thread[b].at /\ t.step = s
  BY DEF Threads, ThreadStates
<1>2. thread' = [thread EXCEPT ![b] = t]
  BY DEF Step
<1>3. thread[b].at \in Nat /\ t.at <= Len(Feeds(b)) + 1
  BY <1>1 DEF Threads
<1>4. locker' # b
  BY DEF Threads
<1> HIDE DEF t
<1>5. UNCHANGED <<count, event, next>>
  BY DEF parser
<1>6. /\ t.step # "fill" => t.at = thread[b].at /\ Parsing(b)
      /\ t.step = "collect" => locker' = b /\ t.seen = gem'
      /\ locker' = b => t.step = "collect"
      /\ thread[b].at <= t.at
  BY <1>1, <1>3, <1>4
<1>7. Threads' /\ \A c \in Banks : thread'[c] = IF c = b THEN t ELSE thread[c]
  BY <1>1, <1>2, <1>3, <1>4, <1>5, <1>6, ThreadMoves
<1> QED
  BY <1>1, <1>7

LEMMA FedMoves ==
  ASSUME Threads, event # Idle, NEW b \in Banks, Parsing(b), Fed(b), UNCHANGED parser,
         gem' = gem \/ thread[b].step = "collect",
         \/ thread[b].step # "collect" /\ locker' = locker
         \/ thread[b].step = "collect" /\ locker' = 0
  PROVE  /\ Threads' /\ thread'[b].step = "fill"
         /\ \A c \in Banks : thread'[c].at = IF c = b THEN thread[c].at + 1 ELSE thread[c].at
         /\ \A c \in Banks : c # b => thread'[c] = thread[c]
<1> DEFINE t == [at |-> thread[b].at + 1, step |-> "fill", seen |-> NoHits]
<1>1. t \in ThreadStates /\ t.at = thread[b].at + 1 /\ t.step = "fill"
  BY DEF Threads, ThreadStates, NoHits, Lists, Steps
<1>2. thread' = [thread EXCEPT ![b] = t]
  BY DEF Fed
<1>3. thread[b].at \in Nat /\ thread[b].at <= t.at /\ t.at <= Len(Feeds(b)) + 1
  <2>1. thread[b].at \in Nat /\ Len(Feeds(b)) \in Nat /\ thread[b].at <= Len(Feeds(b))
    BY BanksAre DEF Threads, Parsing
  <2> QED
    BY <1>1, <2>1
<1>4. b # 0 /\ locker' # b /\ (locker' = locker \/ (locker \in {0, b} /\ locker' \in {0, b}))
  BY BanksAre DEF Threads
<1> HIDE DEF t
<1>5. UNCHANGED <<count, event, next>>
  BY DEF parser
<1>6. /\ t.step # "fill" => t.at = thread[b].at /\ Parsing(b)
      /\ t.step = "collect" => locker' = b /\ t.seen = gem'
      /\ locker' = b => t.step = "collect"
      /\ thread[b].at <= t.at
  BY <1>1, <1>3, <1>4
<1>7. Threads' /\ \A c \in Banks : thread'[c] = IF c = b THEN t ELSE thread[c]
  BY <1>1, <1>2, <1>3, <1>4, <1>5, <1>6, ThreadMoves
<1> QED
  BY <1>1, <1>7

-----------------------------------------------------------------------------
LEMMA FillRawKeeps == ReadoutInv /\ event # Idle /\ (\E b \in Banks : FillRaw(b)) => ReadoutInv'
<1> SUFFICES ASSUME ReadoutInv, event # Idle, NEW b \in Banks, FillRaw(b) PROVE ReadoutInv'
  OBVIOUS
<1> USE DEF ReadoutInv
<1> DEFINE f == Feed(b)
<1>0. /\ Parsing(b) /\ thread[b].step = "fill" /\ f.kind = "raw"
      /\ UNCHANGED <<parser, gem, locker, ped, PedestalMode, strips, chosen>>
      /\ event \in Shapes /\ f.packet \in Packets
  BY FeedAt DEF FillRaw, At, Threads
<1>1. OwnHits' /\ PlanesShowChosen'
  BY <1>0, StoredKept DEF parser
<1>2. CASE f.apv \notin APVs
  <2>1. Fed(b) /\ UNCHANGED apv
    BY <1>2 DEF FillRaw
  <2>2. StoredType'
    BY <1>0, <2>1 DEF StoredType, parser
  <2>3. /\ Threads' /\ thread'[b].step = "fill"
        /\ \A c \in Banks : thread'[c].at = IF c = b THEN thread[c].at + 1 ELSE thread[c].at
        /\ \A c \in Banks : c # b => thread'[c] = thread[c]
    BY <1>0, <2>1, FedMoves
  <2>4. OwnSoFar'
    <3> SUFFICES ASSUME event.trigger = "physics", ~PackInParallel(event),
                        NEW a \in Connected, Fit(event, a)
                 PROVE  /\ IsFiniteSet(Collected(a)')
                        /\ gem[a] = [i \in 1..Cardinality(Collected(a)') |-> Own(count)]
                        /\ \A c \in Banks : Ready(c, a)'
      BY <1>0 DEF OwnSoFar, Own, Banks, parser
    <3>1. a # f.apv
      BY <1>2, ReadoutAssumption
    <3>2. Collected(a)' = Collected(a)
      BY <1>0, <2>3, <3>1, CollectedFed DEF Concerns, parser
    <3>3. Ready(b, a)'
      BY <2>3 DEF Ready
    <3>4. ASSUME NEW c \in Banks, c # b PROVE Ready(c, a)'
      BY <1>0, <2>1, <2>3, <3>4, OthersReady DEF OwnSoFar, parser
    <3> QED
      BY <3>2, <3>3, <3>4 DEF OwnSoFar
  <2> QED
    BY <1>1, <2>2, <2>3, <2>4
<1>3. CASE f.apv \in APVs
  <2> DEFINE s == IF event.trigger = "monitor" THEN "pedestal" ELSE "suppress"
  <2>1. apv' = [apv EXCEPT ![f.apv] = FillRawData(@, f.packet)] /\ Step(b, s)
    BY <1>3 DEF FillRaw
  <2>2. /\ apv[f.apv] \in Words /\ count \in Nat /\ apv \in [APVs -> Words]
        /\ FillRawData(apv[f.apv], f.packet) \in Words
    BY <1>0, <1>3, FillTyped DEF StoredType
  <2>3. StoredType'
    BY <1>0, <2>1, <2>2 DEF StoredType, parser
  <2>4. s \in Steps \ {"fill", "collect"}
    BY DEF Steps
  <2>5. /\ Threads' /\ thread'[b].at = thread[b].at /\ thread'[b].step = s
        /\ \A c \in Banks : c # b => thread'[c] = thread[c]
    BY <1>0, <2>1, <2>4, StepMoves
  <2>6. \A a \in APVs : Touches(f, a) \/ apv'[a] = apv[a]
    BY <1>0, <2>1, <2>2 DEF Touches
  <2>7. ASSUME event.trigger = "physics", NEW a \in Connected, Fit(event, a) PROVE Ready(b, a)'
    <3>1. Feed(b)' = f /\ thread'[b].step = "suppress" /\ count' = count
      BY <1>0, <2>5, <2>7 DEF Feed, Feeds, parser
    <3>2. ASSUME f.apv = a
          PROVE  apv'[a].src = {count} /\ apv'[a].fixes = 0 /\ apv'[a].ts = "start"
      <4>1. f.packet = "good"
        BY <1>0, <2>7, <3>2, FeedAt, TypesOfFeeds
      <4>2. apv'[a] = FillRawData(apv[a], "good")
        BY <1>3, <2>1, <2>2, <3>2, <4>1
      <4> QED
        BY <1>3, <2>2, <3>2, <4>1, <4>2, FillTyped DEF Packets
    <3> QED
      BY <1>0, <1>3, <3>1, <3>2 DEF Ready
  <2>8. OwnSoFar'
    BY <1>0, <2>5, <2>6, <2>7, NotCollecting DEF parser
  <2> QED
    BY <1>1, <2>3, <2>5, <2>8
<1> QED
  BY <1>2, <1>3

LEMMA PedestalKeeps == ReadoutInv /\ event # Idle /\ (\E b \in Banks : FillPedHist(b)) => ReadoutInv'
<1> SUFFICES ASSUME ReadoutInv, event # Idle, NEW b \in Banks, FillPedHist(b) PROVE ReadoutInv'
  OBVIOUS
<1> USE DEF ReadoutInv
<1>0. /\ Parsing(b) /\ thread[b].step = "pedestal" /\ Fed(b)
      /\ UNCHANGED <<parser, gem, locker, apv, PedestalMode, strips, chosen>>
  BY DEF FillPedHist, At
<1>1. OwnHits' /\ PlanesShowChosen' /\ StoredType'
  BY <1>0, StoredKept DEF parser, StoredType
<1>2. Threads'
  BY <1>0, FedMoves
<1>3. event.trigger = "physics" /\ ~PackInParallel(event) => \A a \in Connected : ~Fit(event, a)
  BY <1>0 DEF OwnSoFar, Ready
<1>4. OwnSoFar'
  BY <1>0, <1>3 DEF OwnSoFar, parser
<1> QED
  BY <1>1, <1>2, <1>4

LEMMA SuppressKeeps == ReadoutInv /\ event # Idle /\ (\E b \in Banks : Suppress(b)) => ReadoutInv'
<1> SUFFICES ASSUME ReadoutInv, event # Idle, NEW b \in Banks, Suppress(b) PROVE ReadoutInv'
  OBVIOUS
<1> USE DEF ReadoutInv
<1> DEFINE f == Feed(b)
<1>0. /\ Parsing(b) /\ thread[b].step = "suppress" /\ Step(b, "lock")
      /\ UNCHANGED <<parser, gem, locker, ped, PedestalMode, strips, chosen>>
      /\ event \in Shapes /\ apv \in [APVs -> Words] /\ count \in Nat
  BY DEF Suppress, At, Threads, StoredType
<1>1. OwnHits' /\ PlanesShowChosen'
  BY <1>0, StoredKept DEF parser
<1>2. PICK v \in ZeroSuppression(apv[f.apv], f) : apv' = [apv EXCEPT ![f.apv] = v]
  BY DEF Suppress
<1>3. f.apv \in APVs => v \in Words
  BY <1>0, SuppressTyped
<1>4. StoredType'
  BY <1>0, <1>2, <1>3 DEF StoredType, parser
<1>5. /\ Threads' /\ thread'[b].at = thread[b].at /\ thread'[b].step = "lock"
      /\ \A c \in Banks : c # b => thread'[c] = thread[c]
  BY <1>0, StepMoves DEF Steps
<1>6. \A a \in APVs : f.kind = "raw" => Touches(f, a) \/ apv'[a] = apv[a]
  BY <1>0, <1>2 DEF Touches
<1>7. \A a \in APVs : f.kind # "raw" => Touches(f, a)
  BY DEF Touches
<1>8. ASSUME event.trigger = "physics", NEW a \in Connected, Fit(event, a), Ready(b, a)
      PROVE  Ready(b, a)'
  <2>0. f.kind = "raw" /\ f.apv \in APVs /\ count' = count /\ Feed(b)' = f /\ a \in APVs
    BY <1>0, <1>5, <1>8, ReadoutAssumption DEF Ready, Feed, Feeds, parser
  <2>1. CASE f.apv = a
    <3>1. f.packet = "good"
      BY <1>0, <2>0, <2>1, <1>8, FeedAt, TypesOfFeeds
    <3>2. v.src = {count} /\ v.fixes = 1 /\ v.ts = "start" /\ v.flag = IF f.signal THEN count ELSE 0
      BY <1>0, <1>8, <2>1, <2>0, <3>1, SuppressTyped DEF Ready
    <3>3. apv'[a] = v
      BY <1>0, <1>2, <2>0, <2>1
    <3>4. Concerns(f, a) /\ (Signal(f) <=> f.signal)
      BY <2>0, <2>1 DEF Concerns, Signal
    <3>5. f.signal => Hit(v) = Own(count)
      BY <3>2 DEF Hit, Own
    <3> QED
      BY <1>5, <2>0, <3>2, <3>3, <3>4, <3>5 DEF Ready, Own
  <2>2. CASE f.apv # a
    BY <1>5, <2>0, <2>2 DEF Ready, Touches
  <2> QED
    BY <2>1, <2>2
<1>9. OwnSoFar'
  BY <1>0, <1>5, <1>6, <1>7, <1>8, NotCollecting DEF parser
<1> QED
  BY <1>1, <1>4, <1>5, <1>9

LEMMA FillPackKeeps == ReadoutInv /\ event # Idle /\ (\E b \in Banks : FillPack(b)) => ReadoutInv'
<1> SUFFICES ASSUME ReadoutInv, event # Idle, NEW b \in Banks, FillPack(b) PROVE ReadoutInv'
  OBVIOUS
<1> USE DEF ReadoutInv
<1> DEFINE f == Feed(b)
           S(a) == {s \in f.samples : s.apv = a}
           whole(a) == \A s \in S(a) : s.whole
<1>0. /\ Parsing(b) /\ thread[b].step = "fill" /\ f.kind = "pack" /\ Step(b, "lock")
      /\ UNCHANGED <<parser, gem, locker, ped, PedestalMode, strips, chosen>>
      /\ event \in Shapes /\ apv \in [APVs -> Words] /\ count \in Nat
  BY DEF FillPack, At, Threads, StoredType
<1>1. OwnHits' /\ PlanesShowChosen'
  BY <1>0, StoredKept DEF parser
<1>2. apv' = [a \in APVs |-> IF S(a) = {} THEN [apv[a] EXCEPT !.flag = 0]
                             ELSE FillZeroSupData([apv[a] EXCEPT !.flag = 0], whole(a))]
  BY DEF FillPack
<1>3. \A a \in APVs : whole(a) \in BOOLEAN
  OBVIOUS
<1>4. ASSUME NEW a \in APVs
      PROVE  /\ apv'[a] \in Words
             /\ S(a) = {} => apv'[a].flag = 0
             /\ S(a) # {} /\ whole(a) => Hit(apv'[a]) = Own(count)
  <2>1. apv[a] \in Words /\ whole(a) \in BOOLEAN
    BY <1>0, <1>3
  <2> HIDE DEF S, whole
  <2> QED
    BY <1>0, <1>2, <2>1, PackTyped
<1> HIDE DEF S
<1>5. StoredType'
  <2>1. apv' \in [APVs -> Words]
    BY <1>2, <1>4
  <2> QED
    BY <1>0, <2>1 DEF StoredType, parser
<1>6. /\ Threads' /\ thread'[b].at = thread[b].at /\ thread'[b].step = "lock"
      /\ \A c \in Banks : c # b => thread'[c] = thread[c]
  BY <1>0, StepMoves DEF Steps
<1>7. \A a \in APVs : Touches(f, a)
  BY <1>0 DEF Touches
<1>8. ASSUME event.trigger = "physics", NEW a \in Connected, Fit(event, a) PROVE Ready(b, a)'
  <2>0. f.kind = "pack" /\ count' = count /\ Feed(b)' = f /\ a \in APVs
    BY <1>0, <1>6, ReadoutAssumption DEF Feed, Feeds, parser
  <2>1. Concerns(f, a) <=> S(a) # {}
    BY <1>0 DEF S, Concerns
  <2>2. Signal(f)
    BY <1>0 DEF Signal
  <2>3. whole(a)
    BY <1>0, <1>8, FeedAt, TypesOfFeeds DEF S
  <2> QED
    BY <1>4, <1>6, <2>0, <2>1, <2>2, <2>3 DEF Ready, Own
<1>9. OwnSoFar'
  BY <1>0, <1>6, <1>7, <1>8, NotCollecting DEF parser
<1> QED
  BY <1>1, <1>5, <1>6, <1>9

LEMMA LockKeeps == ReadoutInv /\ event # Idle /\ (\E b \in Banks : Lock(b)) => ReadoutInv'
<1> SUFFICES ASSUME ReadoutInv, event # Idle, NEW b \in Banks, Lock(b) PROVE ReadoutInv'
  OBVIOUS
<1> USE DEF ReadoutInv
<1> DEFINE t == [at |-> thread[b].at, step |-> "collect", seen |-> gem]
<1>0. /\ Parsing(b) /\ thread[b].step = "lock" /\ locker = 0 /\ locker' = b
      /\ UNCHANGED <<parser, gem, apv, ped, PedestalMode, strips, chosen>>
      /\ gem \in Lists /\ thread[b] \in ThreadStates /\ thread[b].at <= Len(Feeds(b)) + 1
  BY DEF Lock, At, Threads, StoredType, ThreadStates
<1>1. OwnHits' /\ PlanesShowChosen' /\ StoredType'
  BY <1>0, StoredKept DEF parser, StoredType
<1>2. t \in ThreadStates /\ t.at = thread[b].at /\ t.step = "collect" /\ t.seen = gem
  BY <1>0 DEF ThreadStates, Steps
<1>3. thread' = [thread EXCEPT ![b] = t]
  <2>1. thread \in [Banks -> ThreadStates]
    BY DEF Threads, ThreadStates
  <2>2. thread' = [thread EXCEPT ![b].step = "collect", ![b].seen = gem]
    BY DEF Lock
  <2>3. /\ DOMAIN thread' = Banks /\ thread' = [c \in Banks |-> thread'[c]]
        /\ \A c \in Banks : c # b => thread'[c] = thread[c]
    BY <2>1, <2>2
  <2>4. thread'[b] = [[thread[b] EXCEPT !.step = "collect"] EXCEPT !.seen = gem]
    BY <2>1, <2>2
  <2>5. thread'[b] = t
    BY <1>0, <2>4 DEF ThreadStates
  <2>6. \A c \in Banks : thread'[c] = [thread EXCEPT ![b] = t][c]
    BY <2>1, <2>3, <2>5
  <2> QED
    BY <2>1, <2>3, <2>6
<1> HIDE DEF t
<1>4. UNCHANGED <<count, event, next>> /\ thread[b].at \in Nat
  BY <1>0 DEF parser, ThreadStates
<1>5. Threads' /\ \A c \in Banks : thread'[c] = IF c = b THEN t ELSE thread[c]
  <2>1. /\ thread[b].at <= t.at /\ t.at <= Len(Feeds(b)) + 1
        /\ t.step # "fill" => t.at = thread[b].at /\ Parsing(b)
        /\ t.step = "collect" => locker' = b /\ t.seen = gem'
        /\ locker' = b => t.step = "collect"
        /\ gem' = gem /\ locker \in {0, b} /\ locker' \in {0, b}
    BY <1>0, <1>2, <1>4
  <2> QED
    BY <1>2, <1>3, <1>4, <2>1, ThreadMoves
<1>6. ASSUME NEW a \in Connected, Ready(b, a) PROVE Ready(b, a)'
  BY <1>0, <1>2, <1>4, <1>5, <1>6 DEF Ready, Feed, Feeds, Own
<1>7. OwnSoFar'
  BY <1>0, <1>2, <1>4, <1>5, <1>6, NotCollecting
<1> QED
  BY <1>1, <1>5, <1>7

LEMMA AppendSame ==
  ASSUME NEW num \in Nat, NEW x, NEW s, s = [i \in 1..num |-> x]
  PROVE  Append(s, x) = [i \in 1..num+1 |-> x]
<1>1. s \in Seq({x}) /\ Len(s) = num
  OBVIOUS
<1>2. /\ Len(Append(s, x)) = num + 1 /\ DOMAIN Append(s, x) = 1..num+1
      /\ \A i \in 1..num+1 : Append(s, x)[i] = x
  BY <1>1
<1>3. Append(s, x) \in Seq({x})
  BY <1>1
<1>4. Append(s, x) = [i \in DOMAIN Append(s, x) |-> Append(s, x)[i]]
  BY <1>3
<1> QED
  BY <1>2, <1>4

LEMMA CollectKeeps == ReadoutInv /\ event # Idle /\ (\E b \in Banks : Collect(b)) => ReadoutInv'
<1> SUFFICES ASSUME ReadoutInv, event # Idle, NEW b \in Banks, Collect(b) PROVE ReadoutInv'
  OBVIOUS
<1> USE DEF ReadoutInv
<1> DEFINE f == Feed(b)
           of == IF f.kind = "raw" THEN {f.apv} ELSE APVs
<1>0. /\ Parsing(b) /\ thread[b].step = "collect" /\ Fed(b) /\ locker' = 0
      /\ UNCHANGED <<parser, apv, ped, PedestalMode, strips, chosen>>
      /\ gem \in Lists /\ apv \in [APVs -> Words] /\ count \in Nat
      /\ thread[b].seen = gem
  BY DEF Collect, At, Threads, StoredType
<1>1. OwnHits' /\ PlanesShowChosen'
  BY <1>0, StoredKept DEF parser
<1>2. gem' = [a \in APVs |-> IF a \in of THEN CollectZeroSupHits(gem, a, apv[a])[a] ELSE gem[a]]
  BY <1>0 DEF Collect
<1> HIDE DEF of
<1>3. \A a \in APVs :
        /\ gem'[a] \in Seq(Hits)
        /\ gem'[a] = IF a \in of /\ apv[a].flag # 0 THEN Append(gem[a], Hit(apv[a])) ELSE gem[a]
  BY <1>0, <1>2, CollectTyped DEF Lists
<1>4. StoredType'
  <2>1. gem' \in Lists
    BY <1>2, <1>3 DEF Lists
  <2> QED
    BY <1>0, <2>1 DEF StoredType, parser
<1>5. /\ Threads' /\ thread'[b].step = "fill"
      /\ \A c \in Banks : thread'[c].at = IF c = b THEN thread[c].at + 1 ELSE thread[c].at
      /\ \A c \in Banks : c # b => thread'[c] = thread[c]
  BY <1>0, FedMoves
<1>6. OwnSoFar'
  <2> SUFFICES ASSUME event.trigger = "physics", ~PackInParallel(event),
                      NEW a \in Connected, Fit(event, a)
               PROVE  /\ IsFiniteSet(Collected(a)')
                      /\ gem'[a] = [i \in 1..Cardinality(Collected(a)') |-> Own(count)]
                      /\ \A c \in Banks : Ready(c, a)'
    BY <1>0 DEF OwnSoFar, Own, Banks, parser
  <2>0. /\ a \in APVs /\ IsFiniteSet(Collected(a))
        /\ gem[a] = [i \in 1..Cardinality(Collected(a)) |-> Own(count)]
        /\ \A c \in Banks : Ready(c, a)
    BY ReadoutAssumption DEF OwnSoFar
  <2>1. ASSUME NEW c \in Banks PROVE Ready(c, a)'
    <3>1. CASE c = b
      BY <1>5, <3>1 DEF Ready
    <3>2. CASE c # b
      BY <1>0, <1>5, <2>0, <3>2, OthersReady DEF parser
    <3> QED
      BY <3>1, <3>2
  <2>2. f.kind \in {"raw", "pack"} /\ (Touches(f, a) <=> a \in of)
    BY <1>0, <2>0, FeedAt DEF Touches, of
  <2>3. Concerns(f, a) => Touches(f, a)
    BY <2>2 DEF Concerns, Touches
  <2>4. event' = event
    BY <1>0 DEF parser
  <2>5. CASE Concerns(f, a) /\ Signal(f)
    <3>1. Hit(apv[a]) = Own(count) /\ apv[a].flag # 0 /\ a \in of
      <4>1. Hit(apv[a]) = Own(count) /\ count # 0
        BY <1>0, <2>0, <2>2, <2>3, <2>5 DEF Ready, Threads
      <4> QED
        BY <2>2, <2>3, <2>5, <4>1 DEF Hit, Own
    <3>2. gem'[a] = Append(gem[a], Own(count))
      BY <1>3, <2>0, <3>1
    <3>3. Collected(a)' = Collected(a) \cup {<<b, thread[b].at>>} /\ <<b, thread[b].at>> \notin Collected(a)
      BY <1>0, <1>5, <2>4, <2>5, CollectedFed
    <3>4. IsFiniteSet(Collected(a)') /\ Cardinality(Collected(a)') = Cardinality(Collected(a)) + 1
          /\ Cardinality(Collected(a)) \in Nat
      BY <2>0, <3>3, FS_AddElement, FS_CardinalityType
    <3>5. gem'[a] = [i \in 1..Cardinality(Collected(a)) + 1 |-> Own(count)]
      BY <2>0, <3>2, <3>4, AppendSame
    <3> QED
      BY <2>1, <3>4, <3>5
  <2>6. CASE ~(Concerns(f, a) /\ Signal(f))
    <3>1. Collected(a)' = Collected(a)
      BY <1>0, <1>5, <2>4, <2>6, CollectedFed
    <3>2. Touches(f, a) => apv[a].flag = 0
      BY <1>0, <2>0, <2>6 DEF Ready
    <3>3. gem'[a] = gem[a]
      BY <1>3, <2>0, <2>2, <3>2
    <3> QED
      BY <2>0, <2>1, <3>1, <3>3
  <2> QED
    BY <2>5, <2>6
<1> QED
  BY <1>1, <1>4, <1>5, <1>6

(* What has been stored is its own, by the data given for an APV.           *)
OwnIn(list) ==
  \A k \in DOMAIN list : list[k].shape.trigger = "physics" /\ ~PackInParallel(list[k].shape) =>
    \A a \in Connected : Fit(list[k].shape, a) =>
      list[k].gem[a] = [i \in 1..Cardinality(Given(list[k].shape, a)) |-> Own(list[k].n)]

LEMMA OwnHitsIs == (OwnHits <=> OwnIn(stored)) /\ (OwnHits' <=> OwnIn(stored'))
<1>1. \A s, a : {p \in {q \in FeedsOf(s) : Concerns(TheFeed(s, q), a)} : Signal(TheFeed(s, p))} = Given(s, a)
  BY DEF Given
<1>2. \A s, a : (\A p \in {q \in FeedsOf(s) : Concerns(TheFeed(s, q), a)} : WellFormed(TheFeed(s, p), a))
                <=> Fit(s, a)
  BY DEF Fit
<1> QED
  BY <1>1, <1>2 DEF OwnHits, OwnIn

LEMMA EndKeeps == ReadoutInv /\ EndofThisEvent => ReadoutInv'
<1> SUFFICES ASSUME ReadoutInv, EndofThisEvent PROVE ReadoutInv'
  OBVIOUS
<1> USE DEF ReadoutInv
<1> DEFINE r == [n |-> count, shape |-> event, gem |-> gem]
<1>0. /\ event # Idle /\ event \in Shapes /\ event' = Idle
      /\ stored \in Seq([n : Nat, shape : Shapes, gem : Lists])
      /\ stored' = Append(stored, r) /\ gem' = NoHits
      /\ UNCHANGED <<apv, ped, PedestalMode, count, locker, strips, chosen>>
      /\ \A b \in Banks : thread[b].at > Len(Feeds(b))
  BY DEF EndofThisEvent, Threads, StoredType
<1>1. r \in [n : Nat, shape : Shapes, gem : Lists]
  BY <1>0 DEF StoredType
<1>2. /\ stored' \in Seq([n : Nat, shape : Shapes, gem : Lists])
      /\ DOMAIN stored' = DOMAIN stored \cup {Len(stored) + 1}
      /\ \A k \in DOMAIN stored : stored'[k] = stored[k]
      /\ stored'[Len(stored) + 1] = r /\ 0 \notin DOMAIN stored
  BY <1>0, <1>1
<1>3. StoredType'
  <2>1. NoHits \in Lists
    BY DEF NoHits, Lists
  <2> QED
    BY <1>0, <1>2, <2>1 DEF StoredType
<1>4. Threads'
  <2>1. locker \in {0} \cup Banks
    BY <1>0 DEF Threads
  <2>2. \A b \in Banks : locker # b
    <3> SUFFICES ASSUME NEW b \in Banks, locker = b PROVE FALSE
      OBVIOUS
    <3>1. Parsing(b)
      BY <1>0 DEF Threads
    <3>2. thread[b].at <= Len(Feeds(b)) /\ thread[b].at > Len(Feeds(b)) /\ thread[b].at \in Nat /\ Len(Feeds(b)) \in Nat
      BY <1>0, <3>1, BanksAre DEF Parsing, Threads
    <3> QED
      BY <3>2
  <2> QED
    BY <1>0, <2>1, <2>2 DEF Threads
<1>5. OwnSoFar'
  BY <1>0 DEF OwnSoFar
<1>6. OwnHits'
  <2> SUFFICES ASSUME NEW k \in DOMAIN stored',
                      stored'[k].shape.trigger = "physics", ~PackInParallel(stored'[k].shape),
                      NEW a \in Connected, Fit(stored'[k].shape, a)
               PROVE  stored'[k].gem[a] = [i \in 1..Cardinality(Given(stored'[k].shape, a)) |-> Own(stored'[k].n)]
    BY OwnHitsIs DEF OwnIn
  <2>1. CASE k \in DOMAIN stored
    BY <1>2, <2>1, OwnHitsIs DEF OwnIn
  <2>2. CASE k = Len(stored) + 1
    <3>1. stored'[k] = r
      BY <1>2, <2>2
    <3>2. event.trigger = "physics" /\ ~PackInParallel(event) /\ Fit(event, a)
      BY <3>1
    <3>3. gem[a] = [i \in 1..Cardinality(Collected(a)) |-> Own(count)]
      BY <1>0, <3>2 DEF OwnSoFar
    <3>4. Collected(a) = Given(event, a)
      <4>1. ASSUME NEW p \in Given(event, a) PROVE p[2] < thread[p[1]].at
        <5>0. PICK b \in Banks : p \in {<<b, i>> : i \in DOMAIN Feeds(b)}
          BY DEF Given, FeedsOf, Banks, Feeds
        <5>1. PICK i \in DOMAIN Feeds(b) : p = <<b, i>>
          BY <5>0
        <5>2. i \in Nat /\ i <= Len(Feeds(b)) /\ Len(Feeds(b)) \in Nat /\ thread[b].at \in Nat
          BY <1>0, BanksAre DEF Threads
        <5> QED
          BY <1>0, <5>1, <5>2
      <4> QED
        BY <4>1 DEF Collected
    <3> QED
      BY <3>1, <3>3, <3>4
  <2> QED
    BY <1>2, <2>1, <2>2
<1>7. PlanesShowChosen'
  <2>1. chosen # 0 => stored'[chosen] = stored[chosen]
    BY <1>2 DEF StoredType
  <2> QED
    BY <1>0, <2>1 DEF PlanesShowChosen
<1> QED
  BY <1>3, <1>4, <1>5, <1>6, <1>7

LEMMA StartKeeps == ASSUME NEW s \in Shapes PROVE ReadoutInv /\ StartofNewEvent(s) => ReadoutInv'
<1> SUFFICES ASSUME ReadoutInv, StartofNewEvent(s) PROVE ReadoutInv'
  OBVIOUS
<1> USE DEF ReadoutInv
<1>0. /\ event' = s /\ count' = count + 1 /\ gem' = NoHits /\ next' = 1 /\ locker = 0
      /\ thread' = [b \in DOMAIN s.banks |-> [at |-> 1, step |-> "fill", seen |-> NoHits]]
      /\ UNCHANGED <<apv, ped, PedestalMode, locker, stored, strips, chosen>>
      /\ count \in Nat
  BY DEF StartofNewEvent, Threads, StoredType
<1>1. OwnHits' /\ PlanesShowChosen'
  BY <1>0, StoredKept
<1>2. NoHits \in Lists /\ \A a \in APVs : NoHits[a] = <<>>
  BY DEF NoHits, Lists
<1>3. StoredType'
  BY <1>0, <1>2 DEF StoredType
<1>4. Listed(s.banks) /\ \A b \in DOMAIN s.banks : Listed(s.banks[b].feeds)
  BY ReadoutAssumption
<1>5. \A b \in DOMAIN s.banks : /\ b \in Nat \ {0} /\ Len(s.banks[b].feeds) \in Nat
                                /\ DOMAIN s.banks[b].feeds = 1..Len(s.banks[b].feeds)
  BY <1>4, ListedLen
<1>6. Threads'
  <2>1. [at |-> 1, step |-> "fill", seen |-> NoHits] \in [at : Nat \ {0}, step : Steps, seen : Lists]
    BY <1>2 DEF Steps
  <2>2. \A b \in DOMAIN s.banks : /\ thread'[b].step = "fill" /\ thread'[b].at = 1 /\ ~(b < next') /\ locker' # b
    BY <1>0, <1>5
  <2>3. DOMAIN event'.banks = DOMAIN s.banks /\ \A b \in DOMAIN s.banks : Feeds(b)' = s.banks[b].feeds
    BY <1>0 DEF Feeds
  <2> QED
    BY <1>0, <1>5, <2>1, <2>2, <2>3 DEF Threads, Banks
<1>7. OwnSoFar'
  <2> SUFFICES ASSUME NEW a \in Connected
               PROVE  /\ IsFiniteSet(Collected(a)')
                      /\ gem'[a] = [i \in 1..Cardinality(Collected(a)') |-> Own(count)']
                      /\ \A b \in Banks' : Ready(b, a)'
    BY DEF OwnSoFar
  <2>1. Collected(a)' = {}
    <3>1. ASSUME NEW p \in Given(s, a) PROVE ~(p[2] < thread'[p[1]].at)
      <4>0. PICK b \in DOMAIN s.banks : p \in {<<b, i>> : i \in DOMAIN s.banks[b].feeds}
        BY DEF Given, FeedsOf
      <4>1. PICK i \in DOMAIN s.banks[b].feeds : p = <<b, i>>
        BY <4>0
      <4>2. i \in Nat \ {0} /\ thread'[b].at = 1
        BY <1>0, <1>5
      <4> QED
        BY <4>1, <4>2
    <3> QED
      BY <1>0, <3>1 DEF Collected
  <2>2. \A b \in Banks' : thread'[b].step = "fill"
    BY <1>0 DEF Banks
  <2>3. gem'[a] = <<>>
    BY <1>0, <1>2, ReadoutAssumption
  <2>4. [i \in 1..0 |-> Own(count)'] = <<>>
    OBVIOUS
  <2> QED
    BY <2>1, <2>2, <2>3, <2>4, FS_EmptySet DEF Ready
<1> QED
  BY <1>1, <1>3, <1>6, <1>7

(* Between two events.                                                      *)
LEMMA IdleThreads ==
  ASSUME Threads, event = Idle, UNCHANGED <<event, locker>> PROVE Threads' /\ OwnSoFar'
BY DEF Threads, OwnSoFar

LEMMA ClearTyped == ASSUME NEW v \in Words PROVE ClearData(v) \in Words /\ ClearData(v).flag = 0
<1>1. v = [src |-> v.src, fixes |-> v.fixes, flag |-> v.flag, ts |-> v.ts]
  BY DEF Words
<1>2. ClearData(v) = [[[v EXCEPT !.src = {0}] EXCEPT !.fixes = 0] EXCEPT !.flag = 0]
  BY <1>1 DEF ClearData
<1>3. ClearData(v) = [src |-> {0}, fixes |-> 0, flag |-> 0, ts |-> v.ts]
  BY <1>1, <1>2
<1> QED
  BY <1>3 DEF Words

LEMMA ElementOf ==
  ASSUME NEW S, NEW q \in Seq(S), NEW k \in DOMAIN q PROVE q[k] \in S /\ k # 0
OBVIOUS

LEMMA ChooseKeeps == ASSUME NEW k \in Nat PROVE ReadoutInv /\ ChooseEvent(k) => ReadoutInv'
<1> SUFFICES ASSUME ReadoutInv, ChooseEvent(k) PROVE ReadoutInv'
  OBVIOUS
<1> USE DEF ReadoutInv
<1> DEFINE hits == stored[k].gem
<1>0. /\ event = Idle /\ k \in DOMAIN stored /\ chosen' = k
      /\ apv' = [a \in APVs |-> Refilled(hits, a)] /\ strips' = CollectHits(apv')
      /\ UNCHANGED <<count, event, next, stored, gem, thread, locker, ped, PedestalMode>>
      /\ apv \in [APVs -> Words] /\ stored \in Seq([n : Nat, shape : Shapes, gem : Lists])
  BY DEF ChooseEvent, StoredType, parser
<1>1. hits \in Lists /\ k # 0
  <2> DEFINE S == [n : Nat, shape : Shapes, gem : Lists]
  <2>1. \A r \in S : r.gem \in Lists
    OBVIOUS
  <2>2. stored \in Seq(S)
    BY <1>0
  <2> HIDE DEF S
  <2>3. stored[k] \in S /\ k # 0
    BY <1>0, <2>2, ElementOf
  <2> QED
    BY <2>1, <2>3
<1> HIDE DEF hits
<1>2. ASSUME NEW a \in APVs
      PROVE  /\ Refilled(hits, a) \in Words
             /\ hits[a] = <<>> => Refilled(hits, a).flag = 0
             /\ hits[a] # <<>> => /\ Refilled(hits, a).flag # 0
                                  /\ Hit(Refilled(hits, a)) = hits[a][Len(hits[a])]
  <2>1. hits[a] \in Seq(Hits) /\ apv[a] \in Words
    BY <1>0, <1>1 DEF Lists
  <2>2. CASE hits[a] = <<>>
    BY <2>1, <2>2, ClearTyped DEF Refilled
  <2>3. CASE hits[a] # <<>>
    <3> DEFINE h == hits[a][Len(hits[a])]
    <3>1. h \in Hits
      BY <2>1, <2>3
    <3>2. Refilled(hits, a) = [src |-> h.src, fixes |-> h.fixes, flag |-> h.flag, ts |-> "start"]
      BY <2>3 DEF Refilled
    <3> QED
      BY <2>3, <3>1, <3>2 DEF Hits, Words, Hit
  <2> QED
    BY <2>2, <2>3
<1>3. StoredType'
  <2>1. apv' \in [APVs -> Words]
    BY <1>0, <1>2
  <2> QED
    BY <1>0, <2>1 DEF StoredType
<1>4. Threads' /\ OwnSoFar'
  BY <1>0, IdleThreads
<1>5. OwnHits'
  <2>1. stored' = stored
    BY <1>0
  <2> QED
    BY <2>1, OwnHitsIs
<1>6. PlanesShowChosen'
  <2>1. ASSUME NEW a \in APVs
        PROVE  strips'[a] = IF a \in Connected /\ hits[a] # <<>> THEN <<hits[a][Len(hits[a])]>> ELSE <<>>
    BY <1>0, <1>2 DEF CollectHits
  <2> QED
    BY <1>0, <1>1, <2>1 DEF PlanesShowChosen, hits
<1> QED
  BY <1>3, <1>4, <1>5, <1>6

LEMMA ResetKeeps == ReadoutInv /\ (Reset \/ SetPedestalMode) => ReadoutInv'
<1> SUFFICES ASSUME ReadoutInv, Reset \/ SetPedestalMode PROVE ReadoutInv'
  OBVIOUS
<1> USE DEF ReadoutInv
<1>1. CASE SetPedestalMode
  <2>1. OwnHits' /\ PlanesShowChosen'
    BY <1>1, StoredKept DEF SetPedestalMode, parser
  <2>2. Threads' /\ OwnSoFar'
    BY <1>1, IdleThreads DEF SetPedestalMode, parser
  <2>3. StoredType'
    BY <1>1 DEF SetPedestalMode, parser, StoredType
  <2> QED
    BY <2>1, <2>2, <2>3
<1>2. CASE Reset
  <2>1. Threads' /\ OwnSoFar'
    BY <1>2, IdleThreads DEF Reset
  <2>2. StoredType'
    <3>1. \A a \in APVs : ClearData(apv[a]) \in Words
      BY ClearTyped DEF StoredType
    <3> QED
      BY <1>2, <3>1 DEF Reset, StoredType
  <2>3. stored' = <<>> /\ DOMAIN stored' = {} /\ chosen' = 0 /\ strips' = NoHits
    BY <1>2 DEF Reset
  <2>4. OwnHits' /\ PlanesShowChosen'
    BY <2>3 DEF OwnHits, PlanesShowChosen, NoHits
  <2> QED
    BY <2>1, <2>2, <2>4
<1> QED
  BY <1>1, <1>2

LEMMA ReadoutInvariant == Spec => []ReadoutInv
<1>1. ReadoutInv /\ Next => ReadoutInv'
  <2> SUFFICES ASSUME ReadoutInv, Next PROVE ReadoutInv'
    OBVIOUS
  <2>1. CASE Parse
    <3>1. CASE event # Idle
      BY <2>1, <3>1, NextBankKeeps, FillRawKeeps, PedestalKeeps, SuppressKeeps, FillPackKeeps,
         LockKeeps, CollectKeeps, EndKeeps DEF Parse
    <3>2. CASE event = Idle
      <4>1. Banks = {}
        BY <3>2 DEF Banks, Idle
      <4> QED
        BY <2>1, <3>2, <4>1 DEF Parse, NextBank, EndofThisEvent
    <3> QED
      BY <3>1, <3>2
  <2>2. CASE \E s \in Shapes : StartofNewEvent(s)
    BY <2>2, StartKeeps
  <2>3. CASE \E k \in 1..MaxEvents : ChooseEvent(k)
    BY <2>3, ChooseKeeps, ReadoutAssumption
  <2>4. CASE Reset \/ SetPedestalMode
    BY <2>4, ResetKeeps
  <2> QED
    BY <2>1, <2>2, <2>3, <2>4 DEF Next
<1>2. ReadoutInv /\ UNCHANGED vars => ReadoutInv'
  <2> SUFFICES ASSUME ReadoutInv, UNCHANGED vars PROVE ReadoutInv'
    OBVIOUS
  <2>1. OwnHits' /\ PlanesShowChosen' /\ StoredType'
    BY StoredKept DEF vars, ReadoutInv, StoredType
  <2>2. Threads'
    BY DEF vars, ReadoutInv, Threads, Banks, Feeds, Parsing
  <2>3. OwnSoFar'
    <3>1. UNCHANGED <<apv, count, event, gem, thread>>
      BY DEF vars
    <3>2. \A a : Collected(a)' = Collected(a)
      BY <3>1 DEF Collected
    <3>3. \A a, b : Ready(b, a)' <=> Ready(b, a)
      BY <3>1 DEF Ready, Feed, Feeds, Own
    <3> HIDE DEF Collected, Ready
    <3> QED
      BY <3>1, <3>2, <3>3 DEF ReadoutInv, OwnSoFar, Banks, Own
  <2> QED
    BY <2>1, <2>2, <2>3 DEF ReadoutInv
<1> QED
  BY <1>1, <1>2, InitReadout, PTL DEF Spec

(* The hits stored with an event are its own, one for each packet or pack   *)
(* with a signal, although its banks are parsed by threads that share the   *)
(* APVs (PRadGEMSystem::FillRawData, CollectZeroSupHits).                   *)
THEOREM HitsAreOwn == Spec => []OwnHits
<1>1. ReadoutInv => OwnHits
  BY DEF ReadoutInv
<1> QED
  BY <1>1, ReadoutInvariant, PTL

(* The planes show the hits of the event that was chosen and of no other    *)
(* (PRadGEMSystem::ChooseEvent).                                            *)
THEOREM PlanesFollowChoice == Spec => []PlanesShowChosen
<1>1. ReadoutInv => PlanesShowChosen
  BY DEF ReadoutInv
<1> QED
  BY <1>1, ReadoutInvariant, PTL

(* The threads of an event share one lock: while one collects hits into the *)
(* event, no other does, and the hits it adds to are those that are there   *)
(* (PRadGEMSystem::FillRawData, FillZeroSupData).                           *)
CollectsAlone ==
  event # Idle => \A b, c \in Banks :
    thread[b].step = "collect" =>
      thread[b].seen = gem /\ (thread[c].step = "collect" => c = b)

THEOREM CollectingIsExclusive == Spec => []CollectsAlone
<1>1. ReadoutInv => CollectsAlone
  BY DEF ReadoutInv, Threads, CollectsAlone
<1> QED
  BY <1>1, ReadoutInvariant, PTL

-----------------------------------------------------------------------------
(* The constants and the energies of HyCal.                                 *)

IsConst(c) == c = [factor |-> c.factor, base_factor |-> c.base_factor, gains |-> c.gains]

(* The factor follows from the base factor and the last accepted gain, whose *)
(* reference has a base gain.                                               *)
FactorFollows(c, m, gain_of) ==
  IF m \in DOMAIN gain_of
  THEN /\ gain_of[m].ref \in DOMAIN c.gains
       /\ c.factor = (c.base_factor * c.gains[gain_of[m].ref]) \div gain_of[m].gain
  ELSE c.factor = c.base_factor

GainInv == /\ cal_const = [m \in Modules |-> cal_const[m]]
           /\ \A m \in Modules : IsConst(cal_const[m]) /\ FactorFollows(cal_const[m], m, last)

(* A gain that is accepted replaces what the factor was corrected for, one  *)
(* that is refused leaves it (GainCorrection).                              *)
LEMMA GainCorrectionOK ==
  ASSUME NEW const, IsConst(const), NEW gain, NEW ref
  PROVE  /\ IsConst(GainCorrection(const, gain, ref))
         /\ ~Accepted(const, gain, ref) => GainCorrection(const, gain, ref) = const
         /\ Accepted(const, gain, ref) =>
              /\ ref \in DOMAIN const.gains
              /\ GainCorrection(const, gain, ref).gains = const.gains
              /\ GainCorrection(const, gain, ref).base_factor = const.base_factor
              /\ GainCorrection(const, gain, ref).factor
                   = (const.base_factor * const.gains[ref]) \div gain
<1>1. CASE ~Accepted(const, gain, ref)
  BY <1>1 DEF GainCorrection
<1>2. CASE Accepted(const, gain, ref)
  <2>1. ref \in DOMAIN const.gains /\ RefGain(const, ref) = const.gains[ref]
    BY <1>2, SMT DEF Accepted, RefGain
  <2>2. GainCorrection(const, gain, ref)
          = [const EXCEPT !.factor = (const.base_factor * const.gains[ref]) \div gain]
    BY <1>2, <2>1 DEF GainCorrection
  <2>3. \A x : [const EXCEPT !.factor = x]
                 = [factor |-> x, base_factor |-> const.base_factor, gains |-> const.gains]
    BY DEF IsConst
  <2> QED BY <1>2, <2>1, <2>2, <2>3 DEF IsConst
<1> QED BY <1>1, <1>2

(* Every way of correcting gains keeps the invariant (Correct).             *)
LEMMA CorrectOK ==
  ASSUME GainInv, NEW gains, NEW ref, NEW pmt, Correct(gains, ref, pmt)
  PROVE  GainInv'
<1>1. cal_const' = [m \in Modules |-> cal_const'[m]]
  BY DEF Correct
<1>2. ASSUME NEW m \in Modules
      PROVE  IsConst(cal_const'[m]) /\ FactorFollows(cal_const'[m], m, last')
  <2> DEFINE const == cal_const[m]
  <2>0. IsConst(const) /\ FactorFollows(const, m, last)
    BY DEF GainInv
  <2>1. CASE m \in DOMAIN gains /\ Accepted(const, gains[m], ref)
    <3>1. cal_const'[m] = GainCorrection(const, gains[m], ref)
      BY <2>1 DEF Correct
    <3>2. m \in DOMAIN last' /\ last'[m].gain = gains[m] /\ last'[m].ref = ref
      BY <2>1 DEF Correct
    <3> QED BY <2>0, <2>1, <3>1, <3>2, GainCorrectionOK DEF FactorFollows
  <2>2. CASE ~(m \in DOMAIN gains /\ Accepted(const, gains[m], ref))
    <3>1. cal_const'[m] = const
      BY <2>0, <2>2, GainCorrectionOK DEF Correct
    <3>2. m \in DOMAIN last' <=> m \in DOMAIN last
      BY <2>2 DEF Correct
    <3>3. m \in DOMAIN last => last'[m] = last[m]
      BY <2>2, <3>2 DEF Correct
    <3> QED BY <2>0, <3>1, <3>2, <3>3 DEF FactorFollows
  <2> QED BY <2>1, <2>2
<1> QED BY <1>1, <1>2 DEF GainInv

LEMMA GainInit == CalibInit => GainInv
  BY DEF CalibInit, GainInv, IsConst, FactorFollows

(* Each action keeps the invariant; only files and data change constants.   *)
LEMMA GainStep == GainInv /\ [CalibNext]_calib_vars => GainInv'
<1> SUFFICES ASSUME GainInv, [CalibNext]_calib_vars PROVE GainInv'
  OBVIOUS
<1>0. ASSUME UNCHANGED <<cal_const, last>> PROVE GainInv'
  BY <1>0 DEF GainInv
<1>1. ASSUME NEW f \in CalFiles, ReadCalibrationFile(f) PROVE GainInv'
  <2>1. cal_const' = [m \in Modules |-> cal_const'[m]]
    BY <1>1 DEF ReadCalibrationFile
  <2>2. ASSUME NEW m \in Modules, m \in DOMAIN f
        PROVE  IsConst(cal_const'[m]) /\ FactorFollows(cal_const'[m], m, last')
    <3>1. cal_const'[m] = [factor |-> f[m].factor, base_factor |-> f[m].factor,
                           gains |-> f[m].gains]
      BY <1>1, <2>2 DEF ReadCalibrationFile
    <3>2. m \notin DOMAIN last'
      BY <1>1, <2>2 DEF ReadCalibrationFile
    <3> QED BY <3>1, <3>2 DEF IsConst, FactorFollows
  <2>3. ASSUME NEW m \in Modules, m \notin DOMAIN f
        PROVE  IsConst(cal_const'[m]) /\ FactorFollows(cal_const'[m], m, last')
    <3>1. cal_const'[m] = cal_const[m]
      BY <1>1, <2>3 DEF ReadCalibrationFile
    <3>2. /\ m \in DOMAIN last' <=> m \in DOMAIN last
          /\ m \in DOMAIN last => last'[m] = last[m]
      BY <1>1, <2>3 DEF ReadCalibrationFile
    <3> QED BY <3>1, <3>2 DEF GainInv, FactorFollows
  <2> QED BY <2>1, <2>2, <2>3 DEF GainInv
<1>2. ASSUME NEW f \in RunFiles, ReadRunInfoFile(f) PROVE GainInv'
  BY <1>2, CorrectOK DEF ReadRunInfoFile
<1>3. ASSUME NEW f \in Files, ReadFile(f) PROVE GainInv'
  BY <1>0, <1>3 DEF ReadFile, constants
<1>4. ASSUME NEW f \in Files, InitializeByData(f) PROVE GainInv'
  BY <1>4, CorrectOK DEF InitializeByData, CorrectGainFactor
<1>5. CASE EraseData
  BY <1>0, <1>5 DEF EraseData, constants
<1>6. CASE fitPedestal
  BY <1>0, <1>6 DEF fitPedestal
<1>7. CASE correctGainFactor
  BY <1>7, CorrectOK DEF correctGainFactor, CorrectGainFactor
<1>8. CASE UNCHANGED calib_vars
  BY <1>0, <1>8 DEF calib_vars, constants
<1> QED BY <1>1, <1>2, <1>3, <1>4, <1>5, <1>6, <1>7, <1>8 DEF CalibNext

(* However often gains are corrected, from files or from data, a factor is  *)
(* the calibrated one corrected once, by the last gain that was accepted    *)
(* since it was read (PRadCalibConst::GainCorrection).                      *)
THEOREM GainsCorrectedOnce == CalibSpec => []GainsDoNotCompound
<1>1. GainInv => GainsDoNotCompound
  BY DEF GainInv, FactorFollows, GainsDoNotCompound
<1> QED BY <1>1, GainInit, GainStep, PTL DEF CalibSpec

-----------------------------------------------------------------------------
LEMMA SetInduction ==
  ASSUME NEW S \in SUBSET Nat, 0 \in S, \A num \in S : num + 1 \in S
  PROVE  S = Nat
<1> DEFINE R == OpToRel(<, Nat)
           T == Nat \ S
<1>1. IsWellFoundedOn(R, Nat)
  BY NatLessThanWellFounded
<1>2. \A x, y \in Nat : <<x, y>> \in R <=> x < y
  BY DEF OpToRel
<1> HIDE DEF R
<1>3. SUFFICES ASSUME T # {} PROVE FALSE
  OBVIOUS
<1>4. PICK x \in T : \A y \in T : ~(<<y, x>> \in R)
  BY <1>1, <1>3, WFMin
<1>5. x \in Nat /\ x # 0 /\ x - 1 \in Nat /\ (x - 1) + 1 = x
  BY <1>4
<1>6. <<x - 1, x>> \in R
  BY <1>2, <1>5
<1>7. x - 1 \in S
  BY <1>4, <1>5, <1>6
<1>8. x \in S
  BY <1>5, <1>7
<1> QED
  BY <1>4, <1>8

LEMMA SequenceGrows ==
  ASSUME NEW s, IsSequence(s), NEW e
  PROVE  /\ IsSequence(Append(s, e)) /\ Len(s) \in Nat /\ Len(Append(s, e)) = Len(s) + 1
         /\ \A i \in 1..Len(s) : Append(s, e)[i] = s[i]
         /\ Append(s, e)[Len(s) + 1] = e
<1> DEFINE S == {s[i] : i \in DOMAIN s} \cup {e}
<1>1. s \in Seq(S) /\ e \in S
  BY DEF IsSequence
<1> HIDE DEF S
<1>2. /\ Append(s, e) \in Seq(S) /\ Len(s) \in Nat /\ Len(Append(s, e)) = Len(s) + 1
      /\ DOMAIN s = 1..Len(s) /\ DOMAIN Append(s, e) = 1..Len(s) + 1
      /\ \A i \in 1..Len(s) : Append(s, e)[i] = s[i]
      /\ Append(s, e)[Len(s) + 1] = e
  BY <1>1
<1>3. IsSequence(Append(s, e))
  <2>1. \A q \in Seq(S) : q \in Seq({q[i] : i \in DOMAIN q})
    OBVIOUS
  <2> QED
    BY <1>2, <2>1 DEF IsSequence
<1> QED
  BY <1>2, <1>3

(* The energies of a bank exist, and follow from those of its beginning.    *)
LEMMA EnergiesGrow ==
  ASSUME NEW peds, NEW consts, NEW bank, IsSequence(bank), NEW e
  PROVE  /\ bank = <<>> => Energies(peds, consts, bank) = <<>>
         /\ Energies(peds, consts, Append(bank, e)) =
              IF IsPhysics(e) THEN Append(Energies(peds, consts, bank), GetEnergy(peds, consts, e))
              ELSE Energies(peds, consts, bank)
<1> DEFINE step(s, x) == IF IsPhysics(x) THEN Append(s, GetEnergy(peds, consts, x)) ELSE s
           is(f, num, q) == f = [i \in 0..num |-> IF i = 0 THEN <<>> ELSE step(f[i - 1], q[i])]
           long == Append(bank, e)
<1>1. ASSUME NEW q, NEW num \in Nat PROVE \E f : is(f, num, q)
  <2> DEFINE S == {k \in Nat : \E f : is(f, k, q)}
  <2>1. 0 \in S
    <3>1. is([i \in 0..0 |-> <<>>], 0, q)
      OBVIOUS
    <3> QED
      BY <3>1
  <2>2. ASSUME NEW k \in S PROVE k + 1 \in S
    <3>1. PICK f : is(f, k, q)
      BY <2>2
    <3> DEFINE g == [i \in 0..k + 1 |-> IF i = k + 1 THEN step(f[k], q[k + 1]) ELSE f[i]]
    <3> HIDE DEF step
    <3>2. \A i \in 0..k : f[i] = IF i = 0 THEN <<>> ELSE step(f[i - 1], q[i])
      BY <3>1
    <3>3. k \in Nat /\ \A i \in 0..k : g[i] = f[i]
      BY <2>2
    <3>4. \A i \in 0..k + 1 : g[i] = IF i = 0 THEN <<>> ELSE step(g[i - 1], q[i])
      <4> SUFFICES ASSUME NEW i \in 0..k + 1
                   PROVE  g[i] = IF i = 0 THEN <<>> ELSE step(g[i - 1], q[i])
        OBVIOUS
      <4>1. CASE i = k + 1
        BY <3>3, <4>1
      <4>2. CASE i # k + 1
        <5>1. i \in 0..k /\ (i # 0 => i - 1 \in 0..k)
          BY <3>3, <4>2
        <5> HIDE DEF g
        <5> QED
          BY <3>2, <3>3, <5>1
      <4> QED
        BY <4>1, <4>2
    <3>5. DOMAIN g = 0..k + 1 /\ g = [i \in 0..k + 1 |-> g[i]]
      OBVIOUS
    <3> HIDE DEF g
    <3>6. is(g, k + 1, q)
      BY <3>4, <3>5
    <3> QED
      BY <3>3, <3>6
  <2> HIDE DEF S
  <2>3. S = Nat
    <3>1. S \in SUBSET Nat
      BY DEF S
    <3> QED
      BY <2>1, <2>2, <3>1, SetInduction
  <2> QED
    BY <2>3 DEF S
<1> DEFINE run(q) == CHOOSE f : is(f, Len(q), q)
<1>2. \A q : Energies(peds, consts, q) = run(q)[Len(q)]
  BY Zenon DEF Energies
<1> HIDE DEF step
<1>3. IsSequence(long) /\ Len(bank) \in Nat /\ Len(long) = Len(bank) + 1
      /\ (\A i \in 1..Len(bank) : long[i] = bank[i]) /\ long[Len(bank) + 1] = e
  BY SequenceGrows
<1> HIDE DEF long, is
<1>4. is(run(bank), Len(bank), bank) /\ is(run(long), Len(bank) + 1, long)
  <2>1. \A q : Len(q) \in Nat => is(run(q), Len(q), q)
    <3> SUFFICES ASSUME NEW q, Len(q) \in Nat PROVE is(run(q), Len(q), q)
      OBVIOUS
    <3>1. \E f : is(f, Len(q), q)
      BY <1>1
    <3> QED
      BY <3>1, Zenon
  <2>2. is(run(bank), Len(bank), bank)
    BY <1>3, <2>1
  <2>3. is(run(long), Len(long), long) /\ Len(long) = Len(bank) + 1
    BY <1>3, <2>1
  <2> HIDE DEF run
  <2> QED
    BY <2>2, <2>3
<1> HIDE DEF run
<1>5. /\ \A i \in 0..Len(bank) : run(bank)[i] = IF i = 0 THEN <<>> ELSE step(run(bank)[i - 1], bank[i])
      /\ \A i \in 0..Len(bank) + 1 : run(long)[i] = IF i = 0 THEN <<>> ELSE step(run(long)[i - 1], long[i])
  BY <1>4 DEF is
<1>6. \A i \in 0..Len(bank) : run(long)[i] = run(bank)[i]
  <2> DEFINE S == {i \in Nat : i <= Len(bank) => run(long)[i] = run(bank)[i]}
  <2>1. 0 \in S
    BY <1>3, <1>5
  <2>2. ASSUME NEW i \in S PROVE i + 1 \in S
    <3>1. i \in Nat /\ (i <= Len(bank) => run(long)[i] = run(bank)[i])
      BY <2>2
    <3>2. CASE i + 1 <= Len(bank)
      <4>1. i + 1 \in 1..Len(bank) /\ i + 1 \in 0..Len(bank) /\ i + 1 \in 0..Len(bank) + 1
            /\ i <= Len(bank) /\ (i + 1) - 1 = i /\ i + 1 # 0
        BY <1>3, <3>1, <3>2
      <4>2. run(long)[i + 1] = step(run(long)[i], long[i + 1])
        BY <1>5, <4>1
      <4>3. run(bank)[i + 1] = step(run(bank)[i], bank[i + 1])
        BY <1>5, <4>1
      <4> QED
        BY <1>3, <3>1, <4>1, <4>2, <4>3
    <3>3. CASE ~(i + 1 <= Len(bank))
      BY <3>1, <3>3
    <3> QED
      BY <3>2, <3>3
  <2> HIDE DEF S
  <2>3. S = Nat
    <3>1. S \in SUBSET Nat
      BY DEF S
    <3> QED
      BY <2>1, <2>2, <3>1, SetInduction
  <2> QED
    BY <1>3, <2>3 DEF S
<1>7. run(long)[Len(bank) + 1] = step(run(bank)[Len(bank)], e)
  <2>1. Len(bank) \in 0..Len(bank) /\ Len(bank) + 1 \in 0..Len(bank) + 1 /\ Len(bank) + 1 # 0
        /\ (Len(bank) + 1) - 1 = Len(bank)
    BY <1>3
  <2>2. run(long)[Len(bank) + 1] = step(run(long)[Len(bank)], long[Len(bank) + 1])
    BY <1>5, <2>1
  <2> QED
    BY <1>3, <1>6, <2>1, <2>2
<1>8. bank = <<>> => run(bank)[Len(bank)] = <<>>
  BY <1>3, <1>5
<1> QED
  BY <1>2, <1>3, <1>7, <1>8 DEF step, long
-----------------------------------------------------------------------------
(* What a file adds to the histograms and the bank.                         *)
IsFilled(s) == s = [hist_map |-> s.hist_map, energy_hist |-> s.energy_hist,
                    event_data |-> s.event_data]

HasEnergies(s) == /\ IsFilled(s) /\ IsSequence(s.event_data)
                  /\ fresh => s.energy_hist = Energies(pedestal, cal_const, s.event_data)

(* One event of the file (FillHists, then the bank).                        *)
LEMMA StoreOK ==
  ASSUME NEW s, HasEnergies(s), NEW ev
  PROVE  HasEnergies(Store(s, ev))
<1> DEFINE energy == IF IsPhysics(ev)
                     THEN Append(s.energy_hist, GetEnergy(pedestal, cal_const, ev))
                     ELSE s.energy_hist
           hists  == [c \in Channels |-> [num \in Names |-> AddTo(s.hist_map[c][num], ev, c, num)]]
           bank   == Append(s.event_data, ev)
<1>1. Store(s, ev) = [hist_map |-> hists, energy_hist |-> energy, event_data |-> bank]
  <2>1. \A x, y, z : [[s EXCEPT !.hist_map = x, !.energy_hist = y] EXCEPT !.event_data = z]
                       = [hist_map |-> x, energy_hist |-> y, event_data |-> z]
    <3> DEFINE rec(a, b, c) == [hist_map |-> a, energy_hist |-> b, event_data |-> c]
    <3>1. \A x, y : [s EXCEPT !.hist_map = x, !.energy_hist = y]
                      = [[s EXCEPT !.hist_map = x] EXCEPT !.energy_hist = y]
      BY DEF HasEnergies, IsFilled
    <3>2. s = rec(s.hist_map, s.energy_hist, s.event_data)
      BY DEF HasEnergies, IsFilled
    <3> HIDE DEF rec
    <3>3. \A x, y, z : [[[s EXCEPT !.hist_map = x] EXCEPT !.energy_hist = y] EXCEPT !.event_data = z]
                         = rec(x, y, z)
      <4> SUFFICES ASSUME NEW x, NEW y, NEW z
                   PROVE  [[[s EXCEPT !.hist_map = x] EXCEPT !.energy_hist = y]
                             EXCEPT !.event_data = z] = rec(x, y, z)
        OBVIOUS
      <4> DEFINE s1 == [s EXCEPT !.hist_map = x]
                 s2 == [s1 EXCEPT !.energy_hist = y]
      <4>1. s1 = rec(x, s.energy_hist, s.event_data)
        BY <3>2 DEF rec
      <4> HIDE DEF s1
      <4>2. s2 = rec(x, y, s.event_data)
        BY <4>1 DEF rec
      <4> HIDE DEF s2
      <4>3. [s2 EXCEPT !.event_data = z] = rec(x, y, z)
        BY <4>2 DEF rec
      <4> QED
        BY <4>3 DEF s1, s2
    <3>4. \A x, y, z : [[s EXCEPT !.hist_map = x, !.energy_hist = y] EXCEPT !.event_data = z]
                         = rec(x, y, z)
      BY <3>1, <3>3, Zenon
    <3> QED
      BY <3>4 DEF rec
  <2>2. FillHists(s, ev) = [s EXCEPT !.hist_map = hists, !.energy_hist = energy]
    BY DEF FillHists
  <2>3. FillHists(s, ev).event_data = s.event_data
    <3>1. \A x, y : [s EXCEPT !.hist_map = x, !.energy_hist = y].event_data = s.event_data
      BY DEF HasEnergies, IsFilled
    <3> QED
      BY <2>2, <3>1
  <2>4. Store(s, ev) = [FillHists(s, ev) EXCEPT !.event_data = bank]
    BY <2>3 DEF Store
  <2> HIDE DEF hists, energy, bank
  <2> QED
    BY <2>1, <2>2, <2>4
<1>2. IsSequence(bank)
  BY SequenceGrows DEF HasEnergies
<1>3. fresh => energy = Energies(pedestal, cal_const, bank)
  <2>0. IsSequence(s.event_data)
    BY DEF HasEnergies
  <2>1. Energies(pedestal, cal_const, bank) =
          IF IsPhysics(ev)
          THEN Append(Energies(pedestal, cal_const, s.event_data), GetEnergy(pedestal, cal_const, ev))
          ELSE Energies(pedestal, cal_const, s.event_data)
    BY <2>0, EnergiesGrow
  <2>2. fresh => s.energy_hist = Energies(pedestal, cal_const, s.event_data)
    BY DEF HasEnergies
  <2> QED
    BY <2>1, <2>2, Zenon
<1> HIDE DEF hists, energy, bank
<1> QED
  BY <1>1, <1>2, <1>3 DEF HasEnergies, IsFilled

LEMMA DecodedOK ==
  ASSUME NEW f, IsSequence(f), IsSequence(event_data), EnergyFollowsBank
  PROVE  HasEnergies(Decoded(f))
<1> DEFINE first == [hist_map |-> hist_map, energy_hist |-> energy_hist, event_data |-> event_data]
           step(s, k) == Store(s, Kept(f[k]))
           is(now, num) == now = [k \in 0..num |-> IF k = 0 THEN first ELSE step(now[k - 1], k)]
           S == {num \in Nat : \E now : is(now, num) /\ HasEnergies(now[num])}
<1>1. 0 \in S
  <2>1. HasEnergies(first)
    BY DEF HasEnergies, IsFilled, EnergyFollowsBank
  <2> HIDE DEF first
  <2>2. is([k \in 0..0 |-> first], 0) /\ [k \in 0..0 |-> first][0] = first
    OBVIOUS
  <2> QED
    BY <2>1, <2>2
<1>2. ASSUME NEW num \in S PROVE num + 1 \in S
  <2>1. PICK now : is(now, num) /\ HasEnergies(now[num])
    BY <1>2
  <2> DEFINE g == [i \in 0..num + 1 |-> IF i = num + 1 THEN step(now[num], num + 1) ELSE now[i]]
  <2>2. HasEnergies(step(now[num], num + 1))
    BY <2>1, StoreOK
  <2> HIDE DEF step, first
  <2>3. \A i \in 0..num : now[i] = IF i = 0 THEN first ELSE step(now[i - 1], i)
    BY <2>1
  <2>4. num \in Nat /\ (\A i \in 0..num : g[i] = now[i]) /\ g[num + 1] = step(now[num], num + 1)
    BY <1>2
  <2>5. \A i \in 0..num + 1 : g[i] = IF i = 0 THEN first ELSE step(g[i - 1], i)
    <3> SUFFICES ASSUME NEW i \in 0..num + 1
                 PROVE  g[i] = IF i = 0 THEN first ELSE step(g[i - 1], i)
      OBVIOUS
    <3>1. CASE i = num + 1
      BY <2>4, <3>1
    <3>2. CASE i # num + 1
      <4>1. i \in 0..num /\ (i # 0 => i - 1 \in 0..num)
        BY <2>4, <3>2
      <4> HIDE DEF g
      <4> QED
        BY <2>3, <2>4, <4>1
    <3> QED
      BY <3>1, <3>2
  <2>6. DOMAIN g = 0..num + 1 /\ g = [i \in 0..num + 1 |-> g[i]]
    OBVIOUS
  <2> HIDE DEF g
  <2>7. is(g, num + 1)
    BY <2>5, <2>6
  <2> QED
    BY <2>2, <2>4, <2>7
<1> DEFINE now == CHOOSE q : is(q, Len(f))
<1>3. Decoded(f) = now[Len(f)]
  BY Zenon DEF Decoded
<1>4. Len(f) \in Nat
  BY SequenceGrows
<1>5. S = Nat
  <2> HIDE DEF is
  <2>1. S \in SUBSET Nat
    OBVIOUS
  <2> HIDE DEF S
  <2> QED
    BY <1>1, <1>2, <2>1, SetInduction
<1>6. PICK q : is(q, Len(f)) /\ HasEnergies(q[Len(f)])
  BY <1>4, <1>5
<1>7. is(now, Len(f))
  BY <1>6, Zenon
<1>8. ASSUME NEW g, NEW h, is(g, Len(f)), is(h, Len(f)) PROVE g[Len(f)] = h[Len(f)]
  <2> HIDE DEF step, first
  <2>1. /\ \A i \in 0..Len(f) : g[i] = IF i = 0 THEN first ELSE step(g[i - 1], i)
        /\ \A i \in 0..Len(f) : h[i] = IF i = 0 THEN first ELSE step(h[i - 1], i)
    BY <1>8
  <2> DEFINE T == {i \in Nat : i <= Len(f) => g[i] = h[i]}
  <2>2. 0 \in T
    BY <1>4, <2>1
  <2>3. ASSUME NEW i \in T PROVE i + 1 \in T
    <3>1. i \in Nat /\ (i <= Len(f) => g[i] = h[i])
      BY <2>3
    <3>2. CASE i + 1 <= Len(f)
      <4>1. i + 1 \in 0..Len(f) /\ i <= Len(f) /\ (i + 1) - 1 = i /\ i + 1 # 0
        BY <1>4, <3>1, <3>2
      <4>2. g[i + 1] = step(g[i], i + 1) /\ h[i + 1] = step(h[i], i + 1)
        BY <2>1, <4>1
      <4> QED
        BY <3>1, <4>1, <4>2
    <3> QED
      BY <3>1, <3>2
  <2> HIDE DEF T
  <2>4. T = Nat
    <3>1. T \in SUBSET Nat
      BY DEF T
    <3> QED
      BY <2>2, <2>3, <3>1, SetInduction
  <2> QED
    BY <1>4, <2>4 DEF T
<1> HIDE DEF is, now
<1> QED
  BY <1>3, <1>6, <1>7, <1>8

FillInv == IsSequence(event_data) /\ EnergyFollowsBank

(* Constants that change leave the histogram behind, unless it is refilled. *)
LEMMA FillStep == FillInv /\ [CalibNext]_calib_vars => FillInv'
<1> SUFFICES ASSUME FillInv, [CalibNext]_calib_vars PROVE FillInv'
  OBVIOUS
<1>1. IsSequence(<<>>) /\ \A p, c : Energies(p, c, <<>>) = <<>>
  <2>1. IsSequence(<<>>)
    BY DEF IsSequence
  <2> QED
    BY <2>1, EnergiesGrow
<1>2. ASSUME UNCHANGED filled, fresh' => fresh /\ UNCHANGED <<pedestal, cal_const>>
      PROVE  FillInv'
  BY <1>2 DEF FillInv, EnergyFollowsBank, filled
<1>3. ASSUME NEW f \in CalFiles, ReadCalibrationFile(f) PROVE FillInv'
  BY <1>2, <1>3 DEF ReadCalibrationFile
<1>4. ASSUME NEW f \in RunFiles, ReadRunInfoFile(f) PROVE FillInv'
  BY <1>2, <1>4 DEF ReadRunInfoFile
<1>5. ASSUME NEW f \in Files, ReadFile(f) PROVE FillInv'
  <2>1. HasEnergies(Decoded(f))
    BY DecodedOK, CalibrationAssumption DEF FillInv
  <2>2. energy_hist' = Decoded(f).energy_hist /\ event_data' = Decoded(f).event_data
        /\ UNCHANGED <<pedestal, cal_const, fresh>>
    BY <1>5 DEF ReadFile, constants
  <2> QED
    BY <2>1, <2>2 DEF HasEnergies, FillInv, EnergyFollowsBank
<1>6. ASSUME energy_hist' = <<>>, event_data' = <<>> PROVE FillInv'
  BY <1>1, <1>6 DEF FillInv, EnergyFollowsBank
<1>7. ASSUME NEW f \in Files, InitializeByData(f) PROVE FillInv'
  BY <1>6, <1>7 DEF InitializeByData, ResetHyCal
<1>8. CASE EraseData
  BY <1>6, <1>8 DEF EraseData, ResetHyCal
<1>9. CASE fitPedestal
  BY <1>2, <1>9 DEF fitPedestal
<1>10. CASE correctGainFactor
  BY <1>10 DEF correctGainFactor, RefillEnergyHist, FillInv, EnergyFollowsBank
<1>11. CASE UNCHANGED calib_vars
  BY <1>2, <1>11 DEF calib_vars, constants
<1> QED
  BY <1>3, <1>4, <1>5, <1>7, <1>8, <1>9, <1>10, <1>11 DEF CalibNext

(* As long as no constant changes after it was filled, the histogram of the *)
(* energy has the energies of the physics events in the bank, in order, for *)
(* any files (FillHists, RefillEnergyHist, Reset).                          *)
THEOREM EnergyHistFollowsBank == CalibSpec => []EnergyFollowsBank
<1>1. CalibInit => FillInv
  <2>1. IsSequence(<<>>) /\ \A p, c : Energies(p, c, <<>>) = <<>>
    <3>1. IsSequence(<<>>)
      BY DEF IsSequence
    <3> QED
      BY <3>1, EnergiesGrow
  <2> QED
    BY <2>1 DEF CalibInit, FillInv, EnergyFollowsBank
<1>2. FillInv => EnergyFollowsBank
  BY DEF FillInv
<1> QED
  BY <1>1, <1>2, FillStep, PTL DEF CalibSpec

-----------------------------------------------------------------------------
LEMMA LeastExists ==
  ASSUME NEW S \in SUBSET Nat, S # {}
  PROVE  \E x \in S : \A y \in S : x <= y
<1> DEFINE R == OpToRel(<, Nat)
<1>1. IsWellFoundedOn(R, Nat)
  BY NatLessThanWellFounded
<1>2. \A x, y \in Nat : <<x, y>> \in R <=> x < y
  BY DEF OpToRel
<1> HIDE DEF R
<1>3. PICK x \in S : \A y \in S : ~(<<y, x>> \in R)
  BY <1>1, WFMin
<1>4. ASSUME NEW y \in S PROVE x <= y
  <2>1. x \in Nat /\ y \in Nat /\ ~(<<y, x>> \in R)
    BY <1>3
  <2>2. ~(y < x)
    BY <1>2, <2>1
  <2> QED
    BY <2>1, <2>2
<1> QED
  BY <1>4

HyCalHit == [x : Int, part : DOMAIN MatchRange, flag : SUBSET {1, 2}]
GEMHit   == [x : Int]

LEMMA DistanceIs ==
  ASSUME NEW a, NEW b, a.x \in Int, b.x \in Int
  PROVE  ProjectionDistance(a, b) \in Nat /\ ProjectionDistance(a, b) = ProjectionDistance(b, a)
BY DEF ProjectionDistance

(* The candidate chosen is closer than or as close as any hit of the GEM.   *)
LEMMA ClosestIs ==
  ASSUME MatchConstants, NEW h \in HyCalHit, NEW found \in Seq(GEMHit)
  PROVE  /\ Candidates(h, found) = {} => Closest(h, found) = None
         /\ Candidates(h, found) # {} =>
              /\ Closest(h, found) \in Candidates(h, found) /\ Closest(h, found) # None
              /\ \A k \in DOMAIN found :
                   ProjectionDistance(h, found[Closest(h, found)]) <= ProjectionDistance(h, found[k])
<1> DEFINE d(j) == ProjectionDistance(h, found[j])
           C    == Candidates(h, found)
           near == {j \in C : d(j) < Far}
           best == {j \in near : \A k \in near : d(j) <= d(k)}
<1>1. /\ DOMAIN found \subseteq Nat \ {0} /\ \A j \in DOMAIN found : d(j) \in Nat
      /\ h.part \in DOMAIN MatchRange
  <2>1. \A j \in DOMAIN found : found[j].x \in Int /\ j \in Nat \ {0}
    <3>1. \A j \in DOMAIN found : found[j] \in GEMHit /\ j \in Nat \ {0}
      OBVIOUS
    <3> QED
      BY <3>1 DEF GEMHit
  <2>2. h.x \in Int /\ h.part \in DOMAIN MatchRange
    BY DEF HyCalHit
  <2> QED
    BY <2>1, <2>2, DistanceIs
<1>2. MatchRange[h.part] \in Int /\ MatchRange[h.part] < Far /\ Far \in Int
  BY <1>1 DEF MatchConstants
<1>3. \A j \in DOMAIN found : j \in C <=> d(j) <= MatchRange[h.part]
  BY DEF Candidates
<1>4. C \subseteq DOMAIN found
  BY DEF Candidates
<1>5. Closest(h, found) = IF near = {} THEN None ELSE CHOOSE j \in best : \A k \in best : j <= k
  BY DEF Closest
<1> HIDE DEF d, C
<1>6. near = C
  BY <1>1, <1>2, <1>3, <1>4
<1>7. CASE C = {}
  BY <1>5, <1>6, <1>7 DEF C
<1>8. CASE C # {}
  <2>1. PICK e \in {d(j) : j \in near} : \A f \in {d(j) : j \in near} : e <= f
    <3>1. {d(j) : j \in near} \in SUBSET Nat /\ {d(j) : j \in near} # {}
      BY <1>1, <1>4, <1>6, <1>8
    <3> QED
      BY <3>1, LeastExists
  <2>2. PICK j0 \in near : e = d(j0)
    BY <2>1
  <2>3. j0 \in best
    BY <2>1, <2>2
  <2>4. best \in SUBSET Nat /\ best # {} /\ best \subseteq near
    BY <1>1, <1>4, <1>6, <2>3
  <2>5. \E j \in best : \A k \in best : j <= k
    BY <2>4, LeastExists
  <2>6. Closest(h, found) \in best
    <3> DEFINE c == CHOOSE j \in best : \A k \in best : j <= k
    <3>1. c \in best
      BY <2>5
    <3> QED
      BY <1>5, <1>6, <1>8, <3>1
  <2>7. Closest(h, found) \in C /\ \A k \in C : d(Closest(h, found)) <= d(k)
    BY <1>6, <2>6
  <2>8. ASSUME NEW k \in DOMAIN found PROVE d(Closest(h, found)) <= d(k)
    BY <1>1, <1>2, <1>3, <1>4, <2>7
  <2> QED
    BY <1>1, <1>4, <1>8, <2>7, <2>8 DEF C, d, None
<1> QED
  BY <1>7, <1>8

(* A record of the loop, for the hit h: what MatchIsClosest asks of it.     *)
First(m, h)  == /\ m.gem1 # None
                /\ \A j \in DOMAIN gem1 : ProjectionDistance(h, gem1[m.gem1]) <= ProjectionDistance(h, gem1[j])
                /\ \A k \in DOMAIN gem2 : ProjectionDistance(h, gem1[m.gem1]) <= ProjectionDistance(h, gem2[k])
Second(m, h) == /\ m.gem2 # None
                /\ \A j \in DOMAIN gem1 : ProjectionDistance(h, gem2[m.gem2]) <= ProjectionDistance(h, gem1[j])
                /\ \A k \in DOMAIN gem2 : ProjectionDistance(h, gem2[m.gem2]) <= ProjectionDistance(h, gem2[k])

Closer(m, h) ==
  /\ m.gem1 \in {None} \cup DOMAIN gem1 /\ m.gem2 \in {None} \cup DOMAIN gem2
  /\ First(m, h) \/ Second(m, h)
  /\ m.gem1 # None /\ m.gem2 # None => ProjectionDistance(gem1[m.gem1], gem2[m.gem2]) <= Overlap

Reached(h) == Candidates(h, gem1) # {} \/ Candidates(h, gem2) # {}
FlagOf(m)  == {g \in {1, 2} : IF g = 1 THEN m.gem1 # None ELSE m.gem2 # None}

LEMMA PostMatchIs ==
  ASSUME MatchConstants, NEW h \in HyCalHit, gem1 \in Seq(GEMHit), gem2 \in Seq(GEMHit), Reached(h)
  PROVE  Closer(PostMatch(h, gem1, gem2), h)
<1> DEFINE j == Closest(h, gem1)
           k == Closest(h, gem2)
           m == PostMatch(h, gem1, gem2)
           apart == j # None /\ k # None /\ ProjectionDistance(gem1[j], gem2[k]) > Overlap
           closer2 == apart /\ ProjectionDistance(gem2[k], h) < ProjectionDistance(gem1[j], h)
<1>1. /\ m.gem1 = IF closer2 THEN None ELSE j
      /\ m.gem2 = IF apart /\ ~closer2 THEN None ELSE k
  BY DEF PostMatch
<1>2. /\ Candidates(h, gem1) = {} => j = None
      /\ Candidates(h, gem1) # {} => /\ j \in Candidates(h, gem1) /\ j # None
              /\ \A i \in DOMAIN gem1 : ProjectionDistance(h, gem1[j]) <= ProjectionDistance(h, gem1[i])
  BY ClosestIs
<1>3. /\ Candidates(h, gem2) = {} => k = None
      /\ Candidates(h, gem2) # {} => /\ k \in Candidates(h, gem2) /\ k # None
              /\ \A i \in DOMAIN gem2 : ProjectionDistance(h, gem2[k]) <= ProjectionDistance(h, gem2[i])
  BY ClosestIs
<1>4. h.x \in Int /\ MatchRange[h.part] \in Int /\ Overlap \in Nat
  BY DEF HyCalHit, MatchConstants
<1>5. /\ \A i \in DOMAIN gem1 : /\ gem1[i].x \in Int
                                /\ ProjectionDistance(h, gem1[i]) \in Nat
                                /\ ProjectionDistance(h, gem1[i]) = ProjectionDistance(gem1[i], h)
      /\ \A i \in DOMAIN gem2 : /\ gem2[i].x \in Int
                                /\ ProjectionDistance(h, gem2[i]) \in Nat
                                /\ ProjectionDistance(h, gem2[i]) = ProjectionDistance(gem2[i], h)
  <2>1. /\ \A i \in DOMAIN gem1 : gem1[i] \in GEMHit
        /\ \A i \in DOMAIN gem2 : gem2[i] \in GEMHit
    OBVIOUS
  <2>2. \A x \in GEMHit : x.x \in Int
    BY DEF GEMHit
  <2> QED
    BY <1>4, <2>1, <2>2, DistanceIs
<1>6. /\ \A i \in DOMAIN gem1 : i \in Candidates(h, gem1) <=> ProjectionDistance(h, gem1[i]) <= MatchRange[h.part]
      /\ \A i \in DOMAIN gem2 : i \in Candidates(h, gem2) <=> ProjectionDistance(h, gem2[i]) <= MatchRange[h.part]
      /\ Candidates(h, gem1) \subseteq DOMAIN gem1 /\ Candidates(h, gem2) \subseteq DOMAIN gem2
  BY DEF Candidates
<1> SUFFICES Closer(m, h)
  OBVIOUS
<1> HIDE DEF j, k, m
<1>7. CASE j # None /\ k # None
  <2>1. /\ j \in DOMAIN gem1 /\ k \in DOMAIN gem2
        /\ \A i \in DOMAIN gem1 : ProjectionDistance(h, gem1[j]) <= ProjectionDistance(h, gem1[i])
        /\ \A i \in DOMAIN gem2 : ProjectionDistance(h, gem2[k]) <= ProjectionDistance(h, gem2[i])
    BY <1>2, <1>3, <1>6, <1>7
  <2>2. ProjectionDistance(gem1[j], gem2[k]) \in Nat
    BY <1>5, <2>1, DistanceIs
  <2>3. CASE closer2
    <3>1. m.gem1 = None /\ m.gem2 = k
      BY <1>1, <2>3
    <3>2. Second(m, h)
      BY <1>5, <1>7, <2>1, <2>3, <3>1 DEF Second
    <3> QED
      BY <2>1, <3>1, <3>2 DEF Closer
  <2>4. CASE apart /\ ~closer2
    <3>1. m.gem1 = j /\ m.gem2 = None
      BY <1>1, <2>4
    <3>2. First(m, h)
      BY <1>5, <1>7, <2>1, <2>4, <3>1 DEF First
    <3> QED
      BY <2>1, <3>1, <3>2 DEF Closer
  <2>5. CASE ~apart
    <3>1. m.gem1 = j /\ m.gem2 = k
      BY <1>1, <2>5
    <3>2. First(m, h) \/ Second(m, h)
      BY <1>5, <1>7, <2>1, <3>1 DEF First, Second
    <3>3. ProjectionDistance(gem1[j], gem2[k]) <= Overlap
      BY <1>4, <1>7, <2>2, <2>5
    <3> QED
      BY <2>1, <3>1, <3>2, <3>3 DEF Closer
  <2> QED
    BY <2>3, <2>4, <2>5
<1>8. CASE j # None /\ k = None
  <2>1. m.gem1 = j /\ m.gem2 = None
    BY <1>1, <1>8
  <2>2. j \in Candidates(h, gem1) /\ Candidates(h, gem2) = {} /\ j \in DOMAIN gem1
    BY <1>2, <1>3, <1>6, <1>8
  <2>3. First(m, h)
    BY <1>2, <1>4, <1>5, <1>6, <1>8, <2>1, <2>2 DEF First
  <2> QED
    BY <2>1, <2>2, <2>3 DEF Closer
<1>9. CASE j = None /\ k # None
  <2>1. m.gem1 = None /\ m.gem2 = k
    BY <1>1, <1>9
  <2>2. k \in Candidates(h, gem2) /\ Candidates(h, gem1) = {} /\ k \in DOMAIN gem2
    BY <1>2, <1>3, <1>6, <1>9
  <2>3. Second(m, h)
    BY <1>3, <1>4, <1>5, <1>6, <1>9, <2>1, <2>2 DEF Second
  <2> QED
    BY <2>1, <2>2, <2>3 DEF Closer
<1>10. j # None \/ k # None
  BY <1>2, <1>3 DEF Reached
<1> QED
  BY <1>7, <1>8, <1>9, <1>10

Records == [hycal : Nat, gem1 : Nat, gem2 : Nat]

MatchType ==
  /\ n \in Nat /\ hycal \in Seq(HyCalHit) /\ n <= Len(hycal) + 1
  /\ gem1 \in Seq(GEMHit) /\ gem2 \in Seq(GEMHit) /\ matches \in Seq(Records)

(* The records are of hits passed, one for each that has a candidate.       *)
MatchInv ==
  /\ MatchType
  /\ \A r \in DOMAIN matches :
       /\ matches[r].hycal \in 1 .. n - 1
       /\ Closer(matches[r], hycal[matches[r].hycal])
       /\ hycal[matches[r].hycal].flag = FlagOf(matches[r])
  /\ \A r, s \in DOMAIN matches : matches[r].hycal = matches[s].hycal => r = s
  /\ \A k \in 1 .. n - 1 : Reached(hycal[k]) <=> \E r \in DOMAIN matches : matches[r].hycal = k

LEMMA MatchInitOK == MatchInit => MatchInv
<1> SUFFICES ASSUME MatchInit PROVE MatchInv
  OBVIOUS
<1>1. n = 0 /\ hycal = <<>> /\ gem1 = <<>> /\ gem2 = <<>> /\ matches = <<>>
  BY DEF MatchInit
<1>2. MatchType /\ DOMAIN matches = {} /\ 1 .. n - 1 = {}
  BY <1>1 DEF MatchType
<1> QED
  BY <1>2 DEF MatchInv

(* The distances do not see the flag.                                       *)
LEMMA SameBesideFlag ==
  ASSUME NEW h, NEW g, h.x = g.x, h.part = g.part, NEW m
  PROVE  (Reached(h) <=> Reached(g)) /\ (Closer(m, h) <=> Closer(m, g))
<1>1. \A j : ProjectionDistance(h, j) = ProjectionDistance(g, j)
  BY DEF ProjectionDistance
<1> QED
  BY <1>1 DEF Reached, Candidates, Closer, First, Second

LEMMA MatchKeeps == MatchConstants /\ MatchInv /\ Match => MatchInv'
<1> SUFFICES ASSUME MatchConstants, MatchInv, Match PROVE MatchInv'
  OBVIOUS
<1> DEFINE h == hycal[n]
           m == PostMatch(h, gem1, gem2)
<1>1. /\ n \in 1 .. Len(hycal) /\ n' = n + 1 /\ gem1' = gem1 /\ gem2' = gem2
      /\ IF ~Reached(h) THEN hycal' = hycal /\ matches' = matches
         ELSE /\ matches' = Append(matches, [hycal |-> n, gem1 |-> m.gem1, gem2 |-> m.gem2])
              /\ hycal' = [hycal EXCEPT ![n].flag = FlagOf(m)]
  BY DEF Match, Reached, FlagOf
<1>2. MatchType /\ h \in HyCalHit /\ n \in DOMAIN hycal
  BY <1>1 DEF MatchInv, MatchType
<1>3. /\ \A q, p : Closer(q, p)' <=> Closer(q, p)
      /\ \A p : Reached(p)' <=> Reached(p)
  BY <1>1 DEF Closer, First, Second, Reached
<1>4. CASE ~Reached(h)
  <2>1. MatchType'
    BY <1>1, <1>2, <1>4 DEF MatchType
  <2>2. hycal' = hycal /\ matches' = matches /\ 1 .. n' - 1 = (1 .. n - 1) \cup {n} /\ n \notin 1 .. n - 1
    BY <1>1, <1>2, <1>4 DEF MatchType
  <2>3. \A r \in DOMAIN matches : matches[r].hycal # n
    BY <2>2 DEF MatchInv
  <2> QED
    BY <1>3, <1>4, <2>1, <2>2, <2>3 DEF MatchInv, FlagOf
<1>5. CASE Reached(h)
  <2> DEFINE rec == [hycal |-> n, gem1 |-> m.gem1, gem2 |-> m.gem2]
  <2>0. Closer(m, h) /\ m.gem1 \in Nat /\ m.gem2 \in Nat
    <3>1. Closer(m, h)
      BY <1>2, <1>5, PostMatchIs DEF MatchType
    <3> QED
      BY <1>2, <3>1 DEF Closer, MatchType, None
  <2>1. rec \in Records /\ Closer(rec, h) /\ FlagOf(rec) = FlagOf(m) /\ rec.hycal = n
    <3>1. rec.gem1 = m.gem1 /\ rec.gem2 = m.gem2 /\ rec.hycal = n /\ rec \in Records
      BY <1>2, <2>0 DEF Records, MatchType
    <3> HIDE DEF rec, m
    <3> QED
      BY <2>0, <3>1 DEF Closer, First, Second, FlagOf
  <2> HIDE DEF m, rec
  <2>2. /\ hycal' = [hycal EXCEPT ![n] = [h EXCEPT !.flag = FlagOf(m)]]
        /\ matches' = Append(matches, rec)
    BY <1>1, <1>5 DEF rec, m
  <2>3. [h EXCEPT !.flag = FlagOf(m)] \in HyCalHit
        /\ [h EXCEPT !.flag = FlagOf(m)].x = h.x /\ [h EXCEPT !.flag = FlagOf(m)].part = h.part
        /\ [h EXCEPT !.flag = FlagOf(m)].flag = FlagOf(m)
    BY <1>2 DEF HyCalHit, FlagOf
  <2> DEFINE g == [h EXCEPT !.flag = FlagOf(m)]
  <2> HIDE DEF g
  <2>4. /\ hycal' \in Seq(HyCalHit) /\ DOMAIN hycal' = DOMAIN hycal /\ Len(hycal') = Len(hycal)
        /\ hycal'[n] = g /\ \A k \in DOMAIN hycal : k # n => hycal'[k] = hycal[k]
    BY <1>2, <2>2, <2>3 DEF g, MatchType
  <2>5. /\ matches' \in Seq(Records) /\ Len(matches) \in Nat /\ DOMAIN matches = 1 .. Len(matches)
        /\ DOMAIN matches' = 1 .. Len(matches) + 1
        /\ matches'[Len(matches) + 1] = rec
        /\ \A r \in DOMAIN matches : matches'[r] = matches[r]
    BY <1>2, <2>1, <2>2 DEF MatchType
  <2>6. MatchType'
    BY <1>1, <1>2, <2>4, <2>5 DEF MatchType
  <2>7. \A k \in DOMAIN hycal : hycal'[k].x = hycal[k].x /\ hycal'[k].part = hycal[k].part
    BY <2>3, <2>4 DEF g
  <2>8. /\ \A k \in DOMAIN hycal : Reached(hycal'[k]) <=> Reached(hycal[k])
        /\ \A q, k : k \in DOMAIN hycal => (Closer(q, hycal'[k]) <=> Closer(q, hycal[k]))
    BY <2>7, SameBesideFlag
  <2>9. /\ 1 .. n' - 1 = (1 .. n - 1) \cup {n} /\ n \notin 1 .. n - 1
        /\ 1 .. n - 1 \subseteq DOMAIN hycal
    BY <1>1, <1>2 DEF MatchType
  <2>10. ASSUME NEW r \in DOMAIN matches'
         PROVE  /\ matches'[r].hycal \in 1 .. n' - 1
                /\ Closer(matches'[r], hycal'[matches'[r].hycal])
                /\ hycal'[matches'[r].hycal].flag = FlagOf(matches'[r])
    <3>1. CASE r = Len(matches) + 1
      BY <1>2, <2>1, <2>3, <2>4, <2>5, <2>8, <2>9, <3>1 DEF g
    <3>2. CASE r \in DOMAIN matches
      <4>1. matches[r].hycal \in 1 .. n - 1 /\ Closer(matches[r], hycal[matches[r].hycal])
            /\ hycal[matches[r].hycal].flag = FlagOf(matches[r])
        BY <3>2 DEF MatchInv
      <4> QED
        BY <2>4, <2>5, <2>8, <2>9, <3>2, <4>1
    <3> QED
      BY <2>5, <3>1, <3>2
  <2>11. \A r, s \in DOMAIN matches' : matches'[r].hycal = matches'[s].hycal => r = s
    <3>1. \A r \in DOMAIN matches : matches[r].hycal \in 1 .. n - 1
      BY DEF MatchInv
    <3>2. \A r, s \in DOMAIN matches : matches[r].hycal = matches[s].hycal => r = s
      BY DEF MatchInv
    <3>3. DOMAIN matches' = DOMAIN matches \cup {Len(matches) + 1}
      BY <2>5
    <3> QED
      BY <2>1, <2>5, <2>9, <3>1, <3>2, <3>3
  <2>12. ASSUME NEW k \in 1 .. n' - 1
         PROVE  Reached(hycal'[k]) <=> \E r \in DOMAIN matches' : matches'[r].hycal = k
    <3>1. CASE k = n
      <4>1. Reached(hycal'[k])
        BY <1>2, <1>5, <2>8, <3>1
      <4> QED
        BY <2>1, <2>5, <3>1, <4>1
    <3>2. CASE k # n
      <4>1. k \in 1 .. n - 1
        BY <2>9, <3>2
      <4>2. Reached(hycal[k]) <=> \E r \in DOMAIN matches : matches[r].hycal = k
        BY <4>1 DEF MatchInv
      <4>3. DOMAIN matches' = DOMAIN matches \cup {Len(matches) + 1}
        BY <2>5
      <4> QED
        BY <2>1, <2>5, <2>8, <2>9, <3>2, <4>1, <4>2, <4>3
    <3> QED
      BY <3>1, <3>2
  <2> QED
    BY <1>3, <2>6, <2>10, <2>11, <2>12 DEF MatchInv, FlagOf
<1> QED
  BY <1>4, <1>5

LEMMA MatchStep == MatchConstants /\ MatchInv /\ [MatchNext]_match_vars => MatchInv'
<1> SUFFICES ASSUME MatchConstants, MatchInv, [MatchNext]_match_vars PROVE MatchInv'
  OBVIOUS
<1>1. CASE Call
  <2>1. /\ hycal' \in Seq([x : Int, part : DOMAIN MatchRange, flag : {{}}])
        /\ gem1' \in Seq(GEMHit) /\ gem2' \in Seq(GEMHit) /\ n' = 1 /\ matches' = <<>>
    BY <1>1 DEF Call, MatchConstants, GEMHit
  <2>2. [x : Int, part : DOMAIN MatchRange, flag : {{}}] \subseteq HyCalHit
    BY DEF HyCalHit
  <2>3. hycal' \in Seq(HyCalHit)
    <3>1. \A S, T : S \subseteq T => Seq(S) \subseteq Seq(T)
      OBVIOUS
    <3> QED
      BY <2>1, <2>2, <3>1
  <2>4. MatchType' /\ DOMAIN matches' = {} /\ 1 .. n' - 1 = {}
    BY <2>1, <2>3 DEF MatchType
  <2> QED
    BY <2>4 DEF MatchInv
<1>2. CASE Match
  BY <1>2, MatchKeeps
<1>3. CASE Return
  <2>1. n' = 0 /\ hycal' = <<>> /\ gem1' = <<>> /\ gem2' = <<>> /\ matches' = <<>>
    BY <1>3 DEF Return
  <2>2. MatchType' /\ DOMAIN matches' = {} /\ 1 .. n' - 1 = {}
    BY <2>1 DEF MatchType
  <2> QED
    BY <2>2 DEF MatchInv
<1>4. CASE UNCHANGED match_vars
  BY <1>4 DEF match_vars, MatchInv, MatchType, Closer, First, Second, Reached, FlagOf
<1> QED
  BY <1>1, <1>2, <1>3, <1>4 DEF MatchNext

LEMMA MatchInvariant == MatchConstants /\ MatchSpec => [](MatchConstants /\ MatchInv)
<1>1. MatchConstants /\ MatchInit => MatchConstants /\ MatchInv
  BY MatchInitOK
<1>2. MatchConstants /\ MatchInv /\ [MatchNext]_match_vars => (MatchConstants /\ MatchInv)'
  BY MatchStep DEF MatchConstants
<1> QED
  BY <1>1, <1>2, PTL DEF MatchSpec

KeptOf(m) == {<<gem1[j], 1>> : j \in {m.gem1} \ {None}} \cup {<<gem2[k], 2>> : k \in {m.gem2} \ {None}}
AllHits   == {<<g, 1>> : g \in ToSet(gem1)} \cup {<<g, 2>> : g \in ToSet(gem2)}

LEMMA KeptIsClosest ==
  ASSUME MatchInv, NEW r \in DOMAIN matches, NEW m, m = matches[r], NEW h, h = hycal[m.hycal], MatchConstants
  PROVE  /\ \E p \in KeptOf(m) : \A q \in AllHits : ProjectionDistance(h, p[1]) <= ProjectionDistance(h, q[1])
         /\ \A p, q \in KeptOf(m) : ProjectionDistance(p[1], q[1]) <= Overlap
         /\ h.flag = {p[2] : p \in KeptOf(m)}
<1>1. Closer(m, h) /\ h.flag = FlagOf(m)
  BY DEF MatchInv
<1>2. /\ \A q \in AllHits : \/ \E j \in DOMAIN gem1 : q[1] = gem1[j]
                            \/ \E k \in DOMAIN gem2 : q[1] = gem2[k]
  BY DEF AllHits, ToSet
<1>3. /\ m.gem1 # None => <<gem1[m.gem1], 1>> \in KeptOf(m)
      /\ m.gem2 # None => <<gem2[m.gem2], 2>> \in KeptOf(m)
      /\ \A p \in KeptOf(m) : \/ m.gem1 # None /\ p = <<gem1[m.gem1], 1>>
                              \/ m.gem2 # None /\ p = <<gem2[m.gem2], 2>>
  BY DEF KeptOf
<1>7. /\ m.gem1 # None => \E p \in KeptOf(m) : p[1] = gem1[m.gem1] /\ p[2] = 1
      /\ m.gem2 # None => \E p \in KeptOf(m) : p[1] = gem2[m.gem2] /\ p[2] = 2
  <2>1. \A x, y : <<x, y>>[1] = x /\ <<x, y>>[2] = y
    OBVIOUS
  <2> QED
    BY <1>3, <2>1
<1>8. ASSUME NEW p \in KeptOf(m)
      PROVE  \/ m.gem1 # None /\ p[1] = gem1[m.gem1] /\ p[2] = 1
             \/ m.gem2 # None /\ p[1] = gem2[m.gem2] /\ p[2] = 2
  <2>1. CASE m.gem1 # None /\ p = <<gem1[m.gem1], 1>>
    BY <2>1
  <2>2. CASE m.gem2 # None /\ p = <<gem2[m.gem2], 2>>
    BY <2>2
  <2> QED
    BY <1>3, <2>1, <2>2
<1>4. \E p \in KeptOf(m) : \A q \in AllHits : ProjectionDistance(h, p[1]) <= ProjectionDistance(h, q[1])
  <2>1. CASE First(m, h)
    <3>1. m.gem1 # None /\ \A q \in AllHits : ProjectionDistance(h, gem1[m.gem1]) <= ProjectionDistance(h, q[1])
      BY <1>2, <2>1 DEF First
    <3>2. <<gem1[m.gem1], 1>>[1] = gem1[m.gem1]
      OBVIOUS
    <3> QED
      BY <1>3, <3>1, <3>2
  <2>2. CASE Second(m, h)
    <3>1. m.gem2 # None /\ \A q \in AllHits : ProjectionDistance(h, gem2[m.gem2]) <= ProjectionDistance(h, q[1])
      BY <1>2, <2>2 DEF Second
    <3>2. <<gem2[m.gem2], 2>>[1] = gem2[m.gem2]
      OBVIOUS
    <3> QED
      BY <1>3, <3>1, <3>2
  <2> QED
    BY <1>1, <2>1, <2>2 DEF Closer
<1>5. ASSUME NEW p \in KeptOf(m), NEW q \in KeptOf(m) PROVE ProjectionDistance(p[1], q[1]) <= Overlap
  <2>1. \A g \in GEMHit : g.x \in Int
    BY DEF GEMHit
  <2>2. /\ m.gem1 # None => gem1[m.gem1] \in GEMHit /\ gem1[m.gem1].x \in Int
        /\ m.gem2 # None => gem2[m.gem2] \in GEMHit /\ gem2[m.gem2].x \in Int
    <3>1. /\ m.gem1 # None => m.gem1 \in DOMAIN gem1
          /\ m.gem2 # None => m.gem2 \in DOMAIN gem2
      BY <1>1 DEF Closer
    <3> QED
      BY <2>1, <3>1 DEF MatchInv, MatchType
  <2>3. Overlap \in Nat
    BY DEF MatchConstants
  <2>4. ASSUME NEW a, a.x \in Int PROVE ProjectionDistance(a, a) = 0
    BY <2>4 DEF ProjectionDistance
  <2>5. m.gem1 # None /\ m.gem2 # None =>
          /\ ProjectionDistance(gem1[m.gem1], gem2[m.gem2]) <= Overlap
          /\ ProjectionDistance(gem2[m.gem2], gem1[m.gem1]) <= Overlap
    <3> SUFFICES ASSUME m.gem1 # None, m.gem2 # None
                 PROVE  /\ ProjectionDistance(gem1[m.gem1], gem2[m.gem2]) <= Overlap
                        /\ ProjectionDistance(gem2[m.gem2], gem1[m.gem1]) <= Overlap
      OBVIOUS
    <3>1. ProjectionDistance(gem1[m.gem1], gem2[m.gem2]) = ProjectionDistance(gem2[m.gem2], gem1[m.gem1])
      BY <2>2, DistanceIs
    <3>2. ProjectionDistance(gem1[m.gem1], gem2[m.gem2]) <= Overlap
      BY <1>1 DEF Closer
    <3> QED
      BY <3>1, <3>2
  <2>6. /\ (m.gem1 # None /\ p[1] = gem1[m.gem1]) \/ (m.gem2 # None /\ p[1] = gem2[m.gem2])
        /\ (m.gem1 # None /\ q[1] = gem1[m.gem1]) \/ (m.gem2 # None /\ q[1] = gem2[m.gem2])
    BY <1>5, <1>8
  <2> QED
    BY <2>2, <2>3, <2>4, <2>5, <2>6
<1>6. h.flag = {p[2] : p \in KeptOf(m)}
  <2>1. \A g : g \in FlagOf(m) <=> (g = 1 /\ m.gem1 # None) \/ (g = 2 /\ m.gem2 # None)
    BY DEF FlagOf
  <2> HIDE DEF KeptOf
  <2>2. ASSUME NEW g PROVE g \in {p[2] : p \in KeptOf(m)} <=> (g = 1 /\ m.gem1 # None) \/ (g = 2 /\ m.gem2 # None)
    BY <1>7, <1>8
  <2> QED
    BY <1>1, <2>1, <2>2
<1> QED
  BY <1>4, <1>5, <1>6

(* Each hit of HyCal that a GEM hit is in range of is matched, once, with   *)
(* the closest of all GEM hits, and keeps two only where they overlap; the  *)
(* flags say which (Match, PreMatch, PostMatch).                            *)
THEOREM ClosestIsKept == MatchConstants /\ MatchSpec => []MatchIsClosest
<1>1. ASSUME MatchConstants, MatchInv PROVE MatchIsClosest
  <2> HIDE DEF AllHits
  <2> DEFINE InReach(h) == \E p \in AllHits : ProjectionDistance(h, p[1]) <= MatchRange[h.part]
  <2>1. \A h : InReach(h) <=> Reached(h)
    <3> SUFFICES ASSUME NEW h PROVE InReach(h) <=> Reached(h)
      OBVIOUS
    <3>1. /\ \A p \in AllHits : \/ \E j \in DOMAIN gem1 : p[1] = gem1[j]
                                \/ \E k \in DOMAIN gem2 : p[1] = gem2[k]
      BY DEF AllHits, ToSet
    <3>2. ASSUME NEW j \in DOMAIN gem1 PROVE \E p \in AllHits : p[1] = gem1[j]
      <4>1. <<gem1[j], 1>> \in AllHits /\ <<gem1[j], 1>>[1] = gem1[j]
        BY DEF AllHits, ToSet
      <4> QED
        BY <4>1
    <3>3. ASSUME NEW k \in DOMAIN gem2 PROVE \E p \in AllHits : p[1] = gem2[k]
      <4>1. <<gem2[k], 2>> \in AllHits /\ <<gem2[k], 2>>[1] = gem2[k]
        BY DEF AllHits, ToSet
      <4> QED
        BY <4>1
    <3> HIDE DEF AllHits
    <3> QED
      BY <3>1, <3>2, <3>3 DEF Reached, Candidates
  <2>2. {matches[r].hycal : r \in DOMAIN matches} = {k \in 1 .. n - 1 : InReach(hycal[k])}
    <3>1. \A k \in 1 .. n - 1 : InReach(hycal[k]) <=> \E r \in DOMAIN matches : matches[r].hycal = k
      BY <1>1, <2>1 DEF MatchInv
    <3>2. \A r \in DOMAIN matches : matches[r].hycal \in 1 .. n - 1
      BY <1>1 DEF MatchInv
    <3> HIDE DEF InReach
    <3> QED
      BY <3>1, <3>2
  <2>3. IsInjective([r \in DOMAIN matches |-> matches[r].hycal])
    BY <1>1 DEF MatchInv, IsInjective
  <2>4. \A r \in DOMAIN matches :
          LET m == matches[r]  h == hycal[m.hycal]
          IN  /\ \E p \in KeptOf(m) : \A q \in AllHits : ProjectionDistance(h, p[1]) <= ProjectionDistance(h, q[1])
              /\ \A p, q \in KeptOf(m) : ProjectionDistance(p[1], q[1]) <= Overlap
              /\ h.flag = {p[2] : p \in KeptOf(m)}
    BY <1>1, KeptIsClosest
  <2> QED
    BY <2>2, <2>3, <2>4, Zenon DEF MatchIsClosest, KeptOf, AllHits
<1> QED
  BY <1>1, MatchInvariant, PTL
=============================================================================
