----------------------------- MODULE MCFileSink ------------------------------
(***************************************************************************)
(* Instances of the filesystem sink for TLC.  Nothing remains to do once   *)
(* every upload is over; any other stop is a deadlock.                     *)
(***************************************************************************)
EXTENDS FileSinkProperties, TLC

Quiet == \A u \in Uploads : at[u] \in {"ok", "failed", "killed"} /\ ~deferred[u]
MCSpec == Init /\ [][Next \/ (Quiet /\ UNCHANGED vars)]_vars
Permuted == Permutations(Uploads) \cup Permutations(Names) \cup Permutations(Numbers)
==============================================================================
