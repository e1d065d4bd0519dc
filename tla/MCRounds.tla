------------------------------ MODULE MCRounds -------------------------------
(***************************************************************************)
(* Instances of the rounds for TLC.  A run ends when every agent was told  *)
(* and every ticket is gone, so deadlock is not checked.                   *)
(***************************************************************************)
EXTENDS RoundsProperties
==============================================================================
