----------------------------- MODULE MCStreaming -----------------------------
(***************************************************************************)
(* Instances of the forwarding of one upload for TLC.  The handler stops   *)
(* once it ended, which is no deadlock; any other stop is one.             *)
(***************************************************************************)
EXTENDS StreamingProperties

Finished == handler = "ended" /\ UNCHANGED vars
MCSpec == Init /\ [][Next \/ Finished]_vars
MCFairSpec == MCSpec /\ Fairness
==============================================================================
