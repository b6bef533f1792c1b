------------------------------ MODULE Dialogs ------------------------------
(* The two dialogs of the viewer that set how it works: ReconSettings for   *)
(* the reconstruction, SpectrumSettings for the colors.  They run in one    *)
(* thread and share no state.                                               *)
EXTENDS Integers, FiniteSets

CONSTANTS Detectors, CoordFiles, CoordValues, ReconChoices,            \* of ReconSettings
          ColorTypes, SpinValues, CustomMaps, HyCalModules, ViewModes  \* of SpectrumSettings

VARIABLES coords_data, current_coord, det_coords, pending, run_index, type_index, coord_box,
          edited, boxes, config, used, mark, saved_mark, open,
          screen

settings_vars == <<coords_data, current_coord, det_coords, pending, run_index, type_index,
                   coord_box, edited, boxes, config, used, mark, saved_mark, open>>

R == INSTANCE ReconSettings WITH Dets <- Detectors, Values <- CoordValues, Settings <- ReconChoices
S == INSTANCE SpectrumSettings WITH Types <- ColorTypes, Modules <- HyCalModules

(* The detectors are 1 .. Max_Dets, the first is the one whose run counts.  *)
(* Runs are numbers, coordinates and the values of a custom map integers.   *)
ASSUME DialogsAssumption ==
  /\ Detectors \subseteq Nat /\ 1 \in Detectors /\ CoordValues \subseteq Int
  /\ \A f \in CoordFiles :
       /\ IsFiniteSet(DOMAIN f) /\ DOMAIN f \subseteq Nat
       /\ \A r \in DOMAIN f : \A d \in DOMAIN f[r] : f[r][d] \in Int
  /\ \A map \in CustomMaps :
       IsFiniteSet(DOMAIN map) /\ \A i \in DOMAIN map : S!OfModule(map[i]) => map[i][2] \in Int

DialogsInit == R!Init /\ S!Init

DialogsNext == \/ R!Next /\ UNCHANGED screen
               \/ S!Next /\ UNCHANGED settings_vars

DialogsSpec == DialogsInit /\ [][DialogsNext]_<<settings_vars, screen>>

-----------------------------------------------------------------------------
(* What a dialog shows is what is used.  Settings: the coordinates in use   *)
(* are stored in the database, and unless the user has edited or saved it,  *)
(* the box shows that of the selected detector, rounded to its decimals.    *)
(* Which run is in use the dialog does not show.  Spectrum: the dialog      *)
(* shows the range, scale and preset, and the modules are painted with them. *)
DialogsAsShown ==
  /\ R!UsedAreStored /\ R!BoxShowsCoord
  /\ S!PanelShowsSpectrum /\ S!PaintedAsSet
=============================================================================
