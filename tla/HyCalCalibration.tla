-------------------------- MODULE HyCalCalibration --------------------------
(* Pedestals, gains and histograms of HyCal, and how they follow from files *)
(* and from the events read: PRadADCChannel, PRadCalibConst and the part of *)
(* PRadHyCalSystem that calibrates, with the slots of the viewer that start *)
(* it.                                                                      *)
(*                                                                          *)
(* A module and its ADC channel have one name; the reference PMTs are       *)
(* channels without a module.  Real numbers are integers here, and a fit is *)
(* the mean of the entries.  An event is given as its trigger and the       *)
(* charge of each channel, before zero suppression.                         *)
EXTENDS Integers, Sequences, FiniteSets, SequencesExt

CONSTANTS
  Modules,     \* modules, by name
  Refs,        \* the reference PMTs LMS1, LMS2, ... in order
  CalFiles,    \* calibration files: factor and gains of some modules
  RunFiles,    \* run information: gains of the PMTs, and a line per channel
  Files,       \* what a data file holds: sequences of events
  MinEntries,  \* entries a fit needs (1000)
  Separation,  \* between pedestal and signal of a PMT (PED_LED_REF)
  LeastLed,    \* least LED signal of a module (PED_LED_HYC)
  Sigma,       \* width of a fitted pedestal
  MaxBank      \* bound: events in the bank (TLC only)

IsSequence(s) == s \in Seq({s[i] : i \in DOMAIN s})

ASSUME CalibrationAssumption == \A f \in Files : IsSequence(f)

Channels == Modules \cup ToSet(Refs)
Names    == {"Physics", "Pedestal", "LMS"}

VARIABLES
  pedestal,    \* mean and sparsify threshold of each channel
  cal_const,   \* factor, base_factor and base_gains of each module
  hist_map,    \* entries of the three histograms of each channel
  energy_hist, \* entries of the histogram of the total energy
  event_data,  \* the data bank
  last,        \* history: the last gain a module was given since its constants
  fresh        \* history: the constants are those energy_hist was filled with

constants  == <<pedestal, cal_const, last>>
filled     == <<hist_map, energy_hist, event_data>>
calib_vars == <<constants, filled, fresh>>

-----------------------------------------------------------------------------
IsPhysics(event) == event.trigger \in {"PHYS_LeadGlassSum", "PHYS_TotalSum"}
IsMonitor(event) == event.trigger \in {"LMS_Led", "LMS_Alpha"}

(* The histogram a trigger is mapped to: a PMT sees its source where a      *)
(* module has its pedestal, and the other way round.                        *)
TrgHist(c, trigger) ==
  CASE trigger = "LMS_Led"   -> "LMS"
    [] trigger = "LMS_Alpha" -> IF c \in Modules THEN "Pedestal" ELSE "Physics"
    [] trigger = "NotFromTI" -> "none"
    [] OTHER                 -> IF c \in Modules THEN "Physics" ELSE "Pedestal"

SetPedestal(mean, sigma) == [mean |-> mean, sparsify |-> mean + 5 * sigma]

(* A gain that is not positive, or a reference that was not calibrated,     *)
(* changes nothing.                                                         *)
RefGain(const, ref) == IF ref \in DOMAIN const.gains THEN const.gains[ref] ELSE 0

Accepted(const, gain, ref) == gain > 0 /\ RefGain(const, ref) > 0

\* Mutant of GainCorrection: the factor in use is corrected
GainCorrectionAgain(const, gain, ref) ==
  IF ~Accepted(const, gain, ref) THEN const
  ELSE [const EXCEPT !.factor = (@ * RefGain(const, ref)) \div gain]

GainCorrection(const, gain, ref) ==
  IF ~Accepted(const, gain, ref) THEN const
  ELSE [const EXCEPT !.factor = (const.base_factor * RefGain(const, ref)) \div gain]

(* The calibrated energy of a stored hit; PMTs have none. *)
HitEnergy(peds, consts, hit) ==
  LET value == hit.value - peds[hit.channel].mean
  IN  IF hit.channel \in Modules /\ value > 0 THEN value * consts[hit.channel].factor ELSE 0

GetEnergy(peds, consts, event) ==
  FoldSet(LAMBDA hit, sum : sum + HitEnergy(peds, consts, hit), 0, event.adc_data)

(* The energies of the physics events of a bank, in order.                  *)
Energies(peds, consts, bank) ==
  LET upto[i \in 0 .. Len(bank)] ==
        IF i = 0 THEN <<>>
        ELSE IF IsPhysics(bank[i]) THEN Append(upto[i - 1], GetEnergy(peds, consts, bank[i]))
        ELSE upto[i - 1]
  IN  upto[Len(bank)]

-----------------------------------------------------------------------------
CalibInit ==
  /\ pedestal = [c \in Channels |-> [mean |-> 0, sparsify |-> 0]]
  /\ cal_const = [m \in Modules |-> [factor |-> 0, base_factor |-> 0,
                                     gains |-> [r \in DOMAIN Refs |-> 0]]]
  /\ hist_map = [c \in Channels |-> [n \in Names |-> <<>>]]
  /\ energy_hist = <<>> /\ event_data = <<>>
  /\ last = <<>> /\ fresh = TRUE

(* A module the file does not list keeps its constants, and those listed    *)
(* lose the gain they had been corrected for.                               *)
ReadCalibrationFile(f) ==
  /\ cal_const' = [m \in Modules |->
       IF m \in DOMAIN f THEN [factor |-> f[m].factor, base_factor |-> f[m].factor,
                               gains |-> f[m].gains]
       ELSE cal_const[m]]
  /\ last' = [m \in DOMAIN last \ DOMAIN f |-> last[m]]
  /\ fresh' = (fresh /\ cal_const' = cal_const)
  /\ UNCHANGED <<pedestal, filled>>

(* Corrections given as the gain of each module and their reference.  The   *)
(* history keeps the PMT the gain was measured against.                     *)
Correct(gains, ref, pmt) ==
  /\ cal_const' = [m \in Modules |->
       IF m \in DOMAIN gains THEN GainCorrection(cal_const[m], gains[m], ref) ELSE cal_const[m]]
  /\ last' = [m \in DOMAIN last \cup {n \in DOMAIN gains : Accepted(cal_const[n], gains[n], ref)} |->
       IF m \in DOMAIN gains /\ Accepted(cal_const[m], gains[m], ref)
       THEN [gain |-> gains[m], ref |-> ref, pmt |-> pmt] ELSE last[m]]

(* The first line may be missing or name a PMT that has no gain: then the   *)
(* file is left unread.                                                     *)
ReadRunInfoFile(f) ==
  /\ f.ref \in DOMAIN f.ref_gain
  /\ pedestal' = [c \in Channels |->
       IF c \in DOMAIN f.lines THEN SetPedestal(f.lines[c].ped_mean, f.lines[c].ped_sig)
       ELSE pedestal[c]]
  /\ Correct([m \in Modules \cap DOMAIN f.lines |->
                (f.lines[m].lms_mean - f.lines[m].ped_mean) \div f.ref_gain[f.ref]],
             f.ref, f.ref)
  /\ fresh' = (fresh /\ cal_const' = cal_const /\ pedestal' = pedestal)
  /\ UNCHANGED <<filled>>

-----------------------------------------------------------------------------
(* Zero suppression: a physics event keeps the charges that reach the       *)
(* threshold, a monitor event all of them, any other none.                  *)
Kept(event) ==
  [trigger |-> event.trigger,
   adc_data |-> {[channel |-> c, value |-> event.adc[c]] :
                   c \in {d \in DOMAIN event.adc :
                            \/ IsPhysics(event) /\ event.adc[d] >= pedestal[d].sparsify
                            \/ IsMonitor(event)}}]

AddTo(s, event, c, n) ==
  LET hits == {h \in event.adc_data : h.channel = c /\ TrgHist(c, event.trigger) = n}
  IN  s \o SetToSeq({h.value : h \in hits})

FillHists(now, event) ==
  [now EXCEPT !.hist_map = [c \in Channels |-> [n \in Names |-> AddTo(@[c][n], event, c, n)]],
              !.energy_hist = IF IsPhysics(event)
                              THEN Append(@, GetEnergy(pedestal, cal_const, event)) ELSE @]

Store(now, event) == [FillHists(now, event) EXCEPT !.event_data = Append(@, event)]

(* What the histograms and the bank are after a file, event by event.       *)
Decoded(f) ==
  LET now[k \in 0 .. Len(f)] ==
        IF k = 0 THEN [hist_map |-> hist_map, energy_hist |-> energy_hist, event_data |-> event_data]
        ELSE Store(now[k - 1], Kept(f[k]))
  IN  now[Len(f)]

ReadFile(f) ==
  /\ Len(event_data) + Len(f) <= MaxBank
  /\ LET now == Decoded(f) IN /\ hist_map' = now.hist_map
                              /\ energy_hist' = now.energy_hist
                              /\ event_data' = now.event_data
  /\ UNCHANGED <<constants, fresh>>

\* Mutant of ResetHyCal: the histogram of the energy is left
ResetChannels ==
  /\ hist_map' = [c \in Channels |-> [n \in Names |-> <<>>]]
  /\ UNCHANGED energy_hist

ResetHyCal ==
  /\ hist_map' = [c \in Channels |-> [n \in Names |-> <<>>]]
  /\ energy_hist' = <<>>

EraseData ==
  /\ ResetHyCal
  /\ event_data' = <<>> /\ fresh' = TRUE
  /\ UNCHANGED <<constants>>

-----------------------------------------------------------------------------
Within(s, lo, hi) == SelectSeq(s, LAMBDA v : lo <= v /\ v <= hi)
Mean(s) == FoldLeft(+, 0, s) \div Len(s)

FittedPedestals(hists) ==
  [c \in Channels |-> IF Len(hists[c]["Pedestal"]) < MinEntries THEN pedestal[c]
                      ELSE SetPedestal(Mean(hists[c]["Pedestal"]), Sigma)]

fitPedestal ==
  /\ pedestal' = FittedPedestals(hist_map)
  /\ fresh' = (fresh /\ pedestal' = pedestal)
  /\ UNCHANGED <<cal_const, last, filled>>

(* Zero when there are too few entries. *)
fit_gaussian(s) == IF Len(s) < MinEntries THEN 0 ELSE Mean(s)

(* The gain of each module with an LED signal, relative to PMT number ref;  *)
(* none when the PMT lacks entries.  The reference whose base gain is used  *)
(* is counted from zero, the PMTs from one.                                 *)
MeasuredGains(hists, peds, pmt) ==
  LET h     == hists[Refs[pmt]]
      ped   == fit_gaussian(Within(h["Physics"], 0, Separation))
      alpha == fit_gaussian(SelectSeq(h["Physics"], LAMBDA v : v > Separation))
      led   == fit_gaussian(h["LMS"])
      signal(m) == fit_gaussian(hists[m]["LMS"]) - peds[m].mean
  IN  IF 0 \in {ped, alpha, led} THEN <<>>
      ELSE [m \in {n \in Modules : signal(n) > LeastLed} |->
              (signal(m) * (alpha - ped)) \div (led - ped)]

CorrectGainFactor(hists, peds, ref) == Correct(MeasuredGains(hists, peds, ref), ref + 1, ref)

RefillEnergyHist(consts) == energy_hist' = Energies(pedestal, consts, event_data)

(* The viewer uses the second PMT. *)
correctGainFactor ==
  /\ CorrectGainFactor(hist_map, pedestal, 2)
  /\ RefillEnergyHist(cal_const')
  /\ fresh' = TRUE
  /\ UNCHANGED <<pedestal, hist_map, event_data>>

(* Everything is calibrated with a file whose events are dropped then.      *)
InitializeByData(f) ==
  /\ Len(event_data) + Len(f) <= MaxBank
  /\ LET now == Decoded(f)
     IN  /\ pedestal' = FittedPedestals(now.hist_map)
         /\ CorrectGainFactor(now.hist_map, pedestal', 2)
  /\ ResetHyCal
  /\ event_data' = <<>> /\ fresh' = TRUE

CalibNext ==
  \/ \E f \in CalFiles : ReadCalibrationFile(f)
  \/ \E f \in RunFiles : ReadRunInfoFile(f)
  \/ \E f \in Files : ReadFile(f) \/ InitializeByData(f)
  \/ EraseData
  \/ fitPedestal
  \/ correctGainFactor

CalibSpec == CalibInit /\ [][CalibNext]_calib_vars

-----------------------------------------------------------------------------
(* However often gains are corrected, from files or from data, a factor is  *)
(* the calibrated one corrected once, by the last gain that was accepted    *)
(* since it was read (PRadCalibConst::GainCorrection).                      *)
GainsDoNotCompound ==
  \A m \in Modules :
    cal_const[m].factor =
      IF m \notin DOMAIN last THEN cal_const[m].base_factor
      ELSE (cal_const[m].base_factor * cal_const[m].gains[last[m].ref]) \div last[m].gain

(* As long as no constant changes after it was filled, the histogram of the *)
(* energy has the energies of the physics events in the bank, in order      *)
(* (FillHists, RefillEnergyHist, Reset).                                    *)
EnergyFollowsBank ==
  fresh => energy_hist = Energies(pedestal, cal_const, event_data)

(* A gain measured against a reference PMT is compared with the base gain   *)
(* of the same PMT (base_gains are those of LMS1, LMS2, LMS3 in order).     *)
OwnReference == \A m \in DOMAIN last : last[m].ref = last[m].pmt
=============================================================================
