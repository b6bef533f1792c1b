---------------------------- MODULE TaggerSystem ----------------------------
(***************************************************************************)
(* PRadTaggerSystem: the TDC hits of the tagger, from the words of a V1190 *)
(* in the bank of its crate to the bins of two histograms.  Energy (E) and *)
(* timing (T) counters share the numbers of TDC channels with HyCal: the   *)
(* tagger has those from TAGGER_CHANID.                                    *)
(***************************************************************************)
EXTENDS Integers, Sequences

CONSTANTS
  TaggerSlots, TaggerChannels,  \* what a header and a word can hold
  UnsetSlots,                   \* values of a slot that was never assigned
  MaxHits                       \* bound on the hits of an event

TAGGER_CHANID   == 30000
TAGGER_T_CHANID == 1000

Addresses == [slot : TaggerSlots \cup UnsetSlots, channel : TaggerChannels]

(* Five bits of slot and seven of channel.                                 *)
ASSUME TaggerAssumption ==
  TaggerSlots \subseteq 0..31 /\ TaggerChannels \subseteq 0..127 /\ UnsetSlots \subseteq Nat

VARIABLES
  parsing, slot,  \* a bank is parsed; the slot of its last header
  tdc_data,       \* the event that is filled: channel ids with the addresses they come from
  hist_E, hist_T  \* what fills the bins: the addresses of the hits

tagger_vars == <<parsing, slot, tdc_data, hist_E, hist_T>>

-----------------------------------------------------------------------------
IsEnergy(a) == a.slot \in {3, 5, 7}
IsTiming(a) == a.slot = 14

EnergyRow(a) == a.channel + (a.slot - 3) * 64

\* Mutant of TimingRow: the upper 32 channels of each 64 are not told from the lower.
TimingRowUnsplit(a) == ((a.channel + 16) % 32) + (a.channel \div 64) * 64

(* The halves of each 32 channels change places.                           *)
TimingRow(a) ==
  LET ch == a.channel % 64
  IN  (IF ch > 31 THEN 32 ELSE 0) + ((ch + 16) % 32) + (a.channel \div 64) * 64

ChannelId(a) ==
  TAGGER_CHANID + (IF IsEnergy(a) THEN EnergyRow(a) ELSE TAGGER_T_CHANID + TimingRow(a))

TaggerInit ==
  /\ parsing = FALSE /\ slot = 0 /\ tdc_data = <<>> /\ hist_E = {} /\ hist_T = {}

(* Each bank begins with an address that nobody initialized.               *)
BeginBank ==
  /\ ~parsing /\ parsing' = TRUE /\ slot' \in UnsetSlots
  /\ UNCHANGED <<tdc_data, hist_E, hist_T>>

GlobalHeader ==
  /\ parsing /\ slot' \in TaggerSlots
  /\ UNCHANGED <<parsing, tdc_data, hist_E, hist_T>>

FeedTaggerHits ==
  /\ parsing /\ Len(tdc_data) < MaxHits
  /\ \E ch \in TaggerChannels : LET a == [slot |-> slot, channel |-> ch] IN
       tdc_data' = IF IsEnergy(a) \/ IsTiming(a)
                   THEN Append(tdc_data, [id |-> ChannelId(a), from |-> a]) ELSE tdc_data
  /\ UNCHANGED <<parsing, slot, hist_E, hist_T>>

EndBank == parsing /\ parsing' = FALSE /\ UNCHANGED <<slot, tdc_data, hist_E, hist_T>>

(* The axes have rowsE bins over [0, rowsE - 1) and rowsT over [0, rowsT - *)
(* 1).  TAxis::FindBin counts bins from 1; beyond the axis is one more.    *)
rowsE == 384
rowsT == 128

FindBin(rows, y) == IF y >= rows - 1 THEN rows + 1 ELSE 1 + (rows * y) \div (rows - 1)

(* The event is complete; the hits of HyCal have smaller ids.              *)
FillHists ==
  /\ ~parsing /\ tdc_data' = <<>>
  /\ LET hits == {tdc_data[i] : i \in 1..Len(tdc_data)}
         E == {h \in hits : h.id - TAGGER_CHANID \in 0..TAGGER_T_CHANID - 1}
         T == {h \in hits : h.id - TAGGER_CHANID >= TAGGER_T_CHANID}
     IN  /\ hist_E' = hist_E \cup
               {[bin |-> FindBin(rowsE, h.id - TAGGER_CHANID), from |-> h.from] : h \in E}
         /\ hist_T' = hist_T \cup
               {[bin |-> FindBin(rowsT, h.id - TAGGER_CHANID - TAGGER_T_CHANID),
                 from |-> h.from] : h \in T}
  /\ UNCHANGED <<parsing, slot>>

ResetTagger ==
  /\ ~parsing /\ hist_E' = {} /\ hist_T' = {} /\ UNCHANGED <<parsing, slot, tdc_data>>

TaggerNext ==
  BeginBank \/ GlobalHeader \/ FeedTaggerHits \/ EndBank \/ FillHists \/ ResetTagger

TaggerSpec == TaggerInit /\ [][TaggerNext]_tagger_vars

-----------------------------------------------------------------------------
(* What is counted in one bin comes from one counter, also beyond the end  *)
(* of the axis; energy and timing counters are in their own histogram.     *)
(* Bins on the axis are in the order of the rows, and only the last row    *)
(* of a histogram may be beyond it (FeedTaggerHits, FillHists).            *)
InOwnBin(hist, rows, Row(_)) ==
  \A q, r \in hist : /\ q.bin = r.bin => q = r
                     /\ q.bin = Row(q.from) + 1 \/ Row(q.from) = rows - 1

RowsApart ==
  /\ (\A q \in hist_E : IsEnergy(q.from)) /\ InOwnBin(hist_E, rowsE, EnergyRow)
  /\ (\A q \in hist_T : IsTiming(q.from)) /\ InOwnBin(hist_T, rowsT, TimingRow)
=============================================================================
