----------------------------- MODULE MCRtspChain -----------------------------
(***************************************************************************)
(* Instances of RtspChain for TLC.                                         *)
(***************************************************************************)
EXTENDS RtspChain
=============================================================================
