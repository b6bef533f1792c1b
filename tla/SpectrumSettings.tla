------------------------- MODULE SpectrumSettings --------------------------
(* The color spectrum of the viewer, the dialog that sets it, and the view  *)
(* mode and custom map that are painted with it.                            *)
(*                                                                          *)
(* Everything runs in the slots of one thread: setting a spin box runs its  *)
(* slot at once, and a change of the spectrum repaints at once.  Checking a *)
(* radio button in the code emits nothing.  Values are integers.            *)
EXTENDS Integers, SequencesExt

CONSTANTS Types,       \* of colors; one is "Rainbow1"
          SpinValues,  \* that the user enters
          CustomMaps,  \* files: sequences of lines, <<name, value>> or <<>>
          Modules,     \* names that HyCal has
          ViewModes    \* indices of the box: 0 .. 4, or 0 .. 6 with high voltage

VARIABLES screen  \* [spectrum, panel, viewMode, custom, painted]

MAX_RANGE  == 100000
CustomView == 4

(* changePreSetting *)
Presets ==
  [energy    |-> [min |-> 1,   max |-> 1000,   scale |-> "Log"],
   occupancy |-> [min |-> 1,   max |-> 100000, scale |-> "Log"],
   voltage   |-> [min |-> 900, max |-> 1700,   scale |-> "Linear"],
   pedestal  |-> [min |-> 200, max |-> 1000,   scale |-> "Linear"],
   sigma     |-> [min |-> 0,   max |-> 30,     scale |-> "Linear"]]

-----------------------------------------------------------------------------
(* Refresh: every module is painted by the spectrum. *)
Refresh(s) ==
  [s EXCEPT !.painted = [by |-> s.spectrum, viewMode |-> s.viewMode, custom |-> s.custom]]

(* SetSpectrumType, SetSpectrumScale, SetSpectrumRangeMin and Max *)
SetSpectrum(s, f, v) ==
  IF s.spectrum[f] = v THEN s ELSE Refresh([s EXCEPT !.spectrum[f] = v])

(* What changeScale, changeType, changeRangeMin and changeRangeMax share:   *)
(* they check customView, except while a preset is set.                     *)
Change(s, f, view) == SetSpectrum([s EXCEPT !.panel.view = view], f, s.panel[f])

(* setValue of a spin box: within its range, and no signal without change. *)
SetSpin(s, f, v, view) ==
  LET x == Min({Max({v, -MAX_RANGE}), MAX_RANGE})
  IN  IF s.panel[f] = x THEN s ELSE Change([s EXCEPT !.panel[f] = x], f, view)

ChangePreSetting(s) ==
  LET view == s.panel.view
      set  == Presets[view]
      ends == SetSpin(SetSpin(s, "max", set.max, view), "min", set.min, view)
  IN  Change([ends EXCEPT !.panel.scale = set.scale], "scale", view)

PresetOf == <<"energy", "occupancy", "pedestal", "sigma", "voltage", "voltage">>

ChoosePreSetting(s, index) ==
  IF index + 1 \in DOMAIN PresetOf
    THEN ChangePreSetting([s EXCEPT !.panel.view = PresetOf[index + 1]]) ELSE s

\* Mutant of ChangeViewMode: only a preset repaints.
ChangeViewModeUnpainted(s, index) == ChoosePreSetting([s EXCEPT !.viewMode = index], index)

ChangeViewMode(s, index) == Refresh(ChoosePreSetting([s EXCEPT !.viewMode = index], index))

(* setCurrentIndex of viewModeBox *)
SetViewMode(s, index) == IF s.viewMode = index THEN s ELSE ChangeViewMode(s, index)

SetSpectrumRange(s, min, max) == SetSpin(SetSpin(s, "min", min, "custom"), "max", max, "custom")

SetLinearScale(s) == SetSpectrum([s EXCEPT !.panel.scale = "Linear"], "scale", "Linear")

-----------------------------------------------------------------------------
(* readCustomValue *)

NoCustom      == [m \in Modules |-> 0]
OfModule(l)   == Len(l) = 2 /\ l[1] \in Modules
CustomOf(map) == FoldLeft(LAMBDA c, l : IF OfModule(l) THEN [c EXCEPT ![l[1]] = l[2]] ELSE c,
                          NoCustom, map)

Scaled(v) == (13 * v) \div 10   \* floor(v * 1.3)

ReadCustomValue(s, map) ==
  LET values == {l[2] : l \in {k \in Range(map) : OfModule(k)}}
      viewed == SetViewMode([s EXCEPT !.custom = CustomOf(map)], CustomView)
      ranged == SetSpectrumRange(viewed, Scaled(Min(values \cup {0})), Scaled(Max(values \cup {1})))
  IN  Refresh(SetLinearScale(ranged))

-----------------------------------------------------------------------------
(* generateSpectrum: what ConnectSpectrum shows, before anything is set. *)
Default   == [type |-> "Rainbow1", scale |-> "Log", min |-> 1, max |-> 100]

(* Setting the spin boxes checks the button of the custom view.             *)
PanelOf(d) == [type |-> d.type, scale |-> d.scale, min |-> d.min, max |-> d.max, view |-> "custom"]

Connected ==
  [spectrum |-> Default, panel |-> PanelOf(Default), viewMode |-> 0,
   custom |-> NoCustom, painted |-> [by |-> Default, viewMode |-> 0, custom |-> NoCustom]]

Init == screen = Refresh(ChoosePreSetting(Connected, 0))

(* The user clicks a radio button for the type or the scale. *)
ClickType  == \E t \in Types :
                screen' = Change([screen EXCEPT !.panel.type = t], "type", "custom")
ClickScale == \E c \in {"Linear", "Log"} :
                screen' = Change([screen EXCEPT !.panel.scale = c], "scale", "custom")

EnterRange == \E f \in {"min", "max"}, v \in SpinValues : screen' = SetSpin(screen, f, v, "custom")

ClickPreSetting == \E v \in DOMAIN Presets :
                     screen' = ChangePreSetting([screen EXCEPT !.panel.view = v])

(* customView has no slot. *)
ClickCustomView == screen' = [screen EXCEPT !.panel.view = "custom"]

ChooseViewMode == \E index \in ViewModes : screen' = SetViewMode(screen, index)

OpenCustomMap == \E map \in CustomMaps : screen' = ReadCustomValue(screen, map)

Next == ClickType \/ ClickScale \/ EnterRange \/ ClickPreSetting \/ ClickCustomView
        \/ ChooseViewMode \/ OpenCustomMap

-----------------------------------------------------------------------------
(* The dialog shows the spectrum, and a preset that is checked in it is the *)
(* one in use.                                                              *)
PanelShowsSpectrum ==
  /\ \A f \in DOMAIN screen.spectrum : screen.panel[f] = screen.spectrum[f]
  /\ \A v \in DOMAIN Presets : screen.panel.view = v =>
       \A f \in DOMAIN Presets[v] : screen.spectrum[f] = Presets[v][f]

(* The modules are painted with the spectrum, for the view mode and with    *)
(* the custom map in use.                                                   *)
PaintedAsSet ==
  screen.painted = [by |-> screen.spectrum, viewMode |-> screen.viewMode, custom |-> screen.custom]
=============================================================================
