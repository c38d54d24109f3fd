---------------------------- MODULE MCFshareReader ----------------------------
(***************************************************************************)
(* Instances of FshareReader for TLC; the .cfg files give the constants.   *)
(***************************************************************************)
EXTENDS FshareReader
=============================================================================
