--------------------------- MODULE ReconSettings ---------------------------
(* The dialog for the settings of reconstruction, over the coordinate       *)
(* system it edits and the methods it configures.                           *)
(*                                                                          *)
(* A detector has one coordinate instead of six, x in 10^-6 mm: those of    *)
(* the files have up to six decimals, its spin box has four (that of z has  *)
(* one).  The combo boxes emit currentIndexChanged when they are filled;    *)
(* what their slots do then is part of ConnectCoordSystem.  Marks have one  *)
(* property.                                                                *)
EXTENDS Integers, Sequences, FiniteSetsExt

CONSTANTS Dets,       \* 1 .. Max_Dets
          CoordFiles, \* what a file says: run -> (some detectors -> value)
          Values,     \* of coordinates that the user enters
          Settings    \* of "method", "gem" and "match", as their boxes show them; of marks

VARIABLES coords_data,    \* run -> detector -> [run, x]
          current_coord,  \* detector -> [run, x], or empty
          det_coords,     \* the copy of current_coord that is edited
          pending,        \* history: detectors saved in the copy and not yet in use
          run_index, type_index,    \* of the combo boxes; None when empty
          coord_box,      \* the value shown
          edited,         \* whether it was changed since it was filled in
          boxes,          \* what the boxes of the methods show
          config,         \* what GetConfig and GetClusterMethodName return
          used,           \* what the methods run with
          mark, saved_mark,
          open            \* the dialog is open

coord_vars == <<coords_data, current_coord, det_coords, pending, run_index, type_index,
                coord_box, edited>>
conf_vars  == <<boxes, config, used, mark, saved_mark>>
vars == <<coord_vars, conf_vars, open>>

None == -1
Methods == {"method", "gem", "match"}
NoCoords == <<>>

-----------------------------------------------------------------------------
(* PRadCoordSystem *)

Unset == [run |-> 0, x |-> 0]
Least(data) == data[Min(DOMAIN data)]

(* ChooseCoord: 0 and unknown runs give the least one. *)
ChooseCoord(data, current, run) ==
  IF DOMAIN data = {} THEN current
  ELSE IF run # 0 /\ run \in DOMAIN data THEN data[run] ELSE Least(data)

(* LoadCoordData: detectors a run does not list have no run either. *)
Loaded(file) ==
  [r \in DOMAIN file |->
     [d \in Dets |-> IF d \in DOMAIN file[r] THEN [run |-> r, x |-> file[r][d]] ELSE Unset]]

(* SetCurrentCoord: stored under the run of the first detector. *)
SetCurrentCoord(data, coords) ==
  LET current == [d \in Dets |-> IF d \in DOMAIN coords THEN coords[d] ELSE Unset]
      run     == current[1].run
  IN  <<[r \in DOMAIN data \cup {run} |-> IF r = run THEN current ELSE data[r]], current>>

-----------------------------------------------------------------------------
(* ReconSettingPanel *)

(* createCoordGroup: setValue rounds to four decimals and keeps to +-20. *)
InBox(x) ==
  LET v == ((x + 50) \div 100) * 100
  IN  IF v > 20000000 THEN 20000000 ELSE IF v < -20000000 THEN -20000000 ELSE v

(* changeCoordType *)
Shown(coords, t) == IF t \in DOMAIN coords THEN InBox(coords[t].x) ELSE 0

(* saveCoordData: what the box shows, edited or not. *)
Saved == IF type_index \in DOMAIN det_coords THEN [det_coords EXCEPT ![type_index].x = coord_box]
                                             ELSE det_coords

(* ConnectCoordSystem: adding the first run to its box selects it, and the  *)
(* slot passes its position, 0, to ChooseCoord.                             *)
ConnectCoordSystem(data, current) ==
  LET coords == ChooseCoord(data, current, 0)
  IN  /\ coords_data' = data /\ current_coord' = coords /\ det_coords' = coords /\ pending' = {}
      /\ run_index' = IF DOMAIN data = {} THEN None ELSE 0
      /\ type_index' = IF coords = NoCoords THEN None ELSE 1
      /\ coord_box' = Shown(coords, 1) /\ edited' = FALSE

Init ==
  /\ \E f \in CoordFiles :
       coords_data = Loaded(f) /\ current_coord = ChooseCoord(Loaded(f), NoCoords, 0)
  /\ det_coords = current_coord /\ pending = {}
  /\ run_index = IF DOMAIN coords_data = {} THEN None ELSE 0
  /\ type_index = IF current_coord = NoCoords THEN None ELSE 1
  /\ coord_box = Shown(current_coord, 1) /\ edited = FALSE
  /\ config \in [Methods -> Settings] /\ boxes = config /\ used = config
  /\ mark \in Settings /\ saved_mark = mark /\ open = FALSE

(* setupReconMethods: SyncSettings and SaveSettings, then the dialog. *)
SyncSettings ==
  /\ ~open /\ open' = TRUE
  /\ boxes' = config /\ saved_mark' = mark
  /\ ConnectCoordSystem(coords_data, current_coord)
  /\ UNCHANGED <<config, used, mark>>

Edit == open /\ UNCHANGED <<conf_vars, open>>

EditCoord ==
  /\ Edit
  /\ coord_box' \in {InBox(x) : x \in Values} \ {coord_box} /\ edited' = TRUE
  /\ UNCHANGED <<coords_data, current_coord, det_coords, pending, run_index, type_index>>

changeCoordType ==
  /\ Edit
  /\ \E t \in DOMAIN det_coords \ {type_index} :
       type_index' = t /\ coord_box' = Shown(det_coords, t) /\ edited' = FALSE
  /\ UNCHANGED <<coords_data, current_coord, det_coords, pending, run_index>>

\* Mutant of selectCoordData: the box keeps the value of the run before.
selectCoordDataUnshown ==
  /\ Edit
  /\ \E r \in 0 .. Cardinality(DOMAIN coords_data) - 1 :
       /\ r # run_index /\ run_index' = r
       /\ current_coord' = ChooseCoord(coords_data, current_coord, r)
  /\ det_coords' = current_coord' /\ pending' = {} /\ edited' = FALSE
  /\ UNCHANGED <<coords_data, type_index, coord_box>>

(* selectCoordData: r is the position in the combo box, not the run. *)
selectCoordData ==
  /\ Edit
  /\ \E r \in 0 .. Cardinality(DOMAIN coords_data) - 1 :
       /\ r # run_index /\ run_index' = r
       /\ current_coord' = ChooseCoord(coords_data, current_coord, r)
  /\ det_coords' = current_coord' /\ pending' = {}
  /\ coord_box' = Shown(det_coords', type_index) /\ edited' = FALSE
  /\ UNCHANGED <<coords_data, type_index>>

saveCoordData ==
  /\ Edit
  /\ det_coords' = Saved /\ pending' = pending \cup {type_index} /\ edited' = FALSE
  /\ UNCHANGED <<coords_data, current_coord, run_index, type_index, coord_box>>

restoreCoordData ==
  /\ Edit
  /\ det_coords' = current_coord /\ pending' = {}
  /\ coord_box' = Shown(det_coords', type_index) /\ edited' = FALSE
  /\ UNCHANGED <<coords_data, current_coord, run_index, type_index>>

openCoordFile ==
  /\ Edit
  /\ \E f \in CoordFiles : ConnectCoordSystem(Loaded(f), ChooseCoord(Loaded(f), NoCoords, 0))

saveCoordFile ==
  /\ Edit
  /\ det_coords' = Saved /\ pending' = {} /\ edited' = FALSE
  /\ LET s == SetCurrentCoord(coords_data, Saved)
     IN  coords_data' = s[1] /\ current_coord' = s[2]
  /\ UNCHANGED <<run_index, type_index, coord_box>>

EditMethods ==
  /\ open
  /\ \/ \E m \in Methods, v \in Settings :
          v # boxes[m] /\ boxes' = [boxes EXCEPT ![m] = v] /\ UNCHANGED mark
     \/ mark' \in Settings \ {mark} /\ UNCHANGED boxes
  /\ UNCHANGED <<coord_vars, config, used, saved_mark, open>>

(* ApplyChanges: the GEM method is configured again, the matching is not.   *)
ApplyChanges ==
  /\ open /\ open' = FALSE
  /\ config' = boxes
  /\ used' = [m \in Methods |-> IF m = "match" THEN used[m] ELSE boxes[m]]
  /\ det_coords' = Saved /\ pending' = {} /\ edited' = FALSE
  /\ LET s == SetCurrentCoord(coords_data, Saved)
     IN  coords_data' = s[1] /\ current_coord' = s[2]
  /\ UNCHANGED <<run_index, type_index, coord_box, boxes, mark, saved_mark>>

(* The dialog is cancelled. *)
RestoreSettings ==
  /\ open /\ open' = FALSE
  /\ mark' = saved_mark
  /\ UNCHANGED <<coord_vars, boxes, config, used, saved_mark>>

Next == \/ SyncSettings \/ EditCoord \/ changeCoordType \/ selectCoordData
        \/ saveCoordData \/ restoreCoordData \/ openCoordFile \/ saveCoordFile
        \/ EditMethods \/ ApplyChanges \/ RestoreSettings

Spec == Init /\ [][Next]_vars

-----------------------------------------------------------------------------

(* When the dialog is closed with Ok, all that it shows is in use.          *)
SettingsApplied == [][open /\ ~open' /\ config' = boxes => used' = boxes]_vars

(* The coordinates in use are those of a run of the database, as they are   *)
(* stored there, also after the database was replaced or stored to.         *)
UsedAreStored == current_coord = NoCoords \/ \E r \in DOMAIN coords_data : coords_data[r] = current_coord

(* The copy that is edited differs from the coordinates in use only where   *)
(* it was saved to and neither applied nor given up since, and the box      *)
(* shows the coordinate of the selected detector, rounded, until it is      *)
(* changed, although filling the boxes runs the slots before all is there.  *)
BoxShowsCoord ==
  /\ \A d \in DOMAIN det_coords \ pending : det_coords[d] = current_coord[d]
  /\ type_index # None /\ ~edited => coord_box = InBox(det_coords[type_index].x)
=============================================================================
