--------------------------- MODULE MCEventSearch ---------------------------
(* Small banks for TLC.                                                    *)
EXTENDS EventSearch

MCNumbers == 0..5
=============================================================================
