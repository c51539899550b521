---------------------------- MODULE MCStatusPage ----------------------------
(* Instances of StatusPage for TLC.                                        *)
EXTENDS StatusPage

MapsThePage == {"mapped"}
AnyBuild == BOOLEAN
ReorderingBuild == {FALSE}
PageOrSocket == {"mapped", "MAP_FAILED"}
=============================================================================
