---------------------------- MODULE BuildQueueMC ----------------------------
(***************************************************************************)
(* BuildQueue for TLC.                                                     *)
(***************************************************************************)
EXTENDS BuildQueue

SecondIsEngineOne == {2}
NoJob == {}
=============================================================================
