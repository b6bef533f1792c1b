-------------------------- MODULE MCReconSettings --------------------------
(* Two detectors; coordinate files with two runs, with one incomplete run,  *)
(* and without any.                                                         *)
EXTENDS ReconSettings, TLC

MCCoordFiles == {(5 :> <<-552455, 1012440>>) @@ (7 :> <<1012440, 29876500>>),
                 (6 :> (2 :> -552455)), <<>>}
MCCoordValues == {-552400, 25000000}
=============================================================================
