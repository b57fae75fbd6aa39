---------------------------- MODULE MCLevelStats ----------------------------
(***************************************************************************)
(* The five levels of the platform.                                        *)
(***************************************************************************)
EXTENDS LevelStats

MCLevels == <<"DEBUG", "ERROR", "INFO", "UNKNOWN", "WARN">>

=============================================================================
