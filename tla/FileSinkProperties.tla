-------------------------- MODULE FileSinkProperties -------------------------
(***************************************************************************)
(* What the directory of a filesystem sink shows to its readers, and what  *)
(* the sink owes the uploads.                                              *)
(***************************************************************************)
EXTENDS FileSink

(* The file of `u` has every byte of an upload that validated.             *)
Complete(u) == whole[u] /\ written[u] = taken[u] /\ u \notin torn

(* "A reader of the directory sees a complete, verified file or nothing":  *)
(* whatever was cancelled, raised or killed and whenever the power failed, *)
(* a final name never refers to part of an upload (sinks.py:122-126), nor  *)
(* to a file with bytes of another; unless the close of some seal raised,  *)
(* see NoStrayWrite.                                                       *)
VisibleIsWhole ==
  misclosed = {} => \A n \in Names : entry[n] # NoFile => Complete(entry[n])

(* An upload reported to the gateway as written is under its final name,   *)
(* for good: no other upload, no discard and no power loss takes it away   *)
(* or puts another in its place (without overwrite; sinks.py:131-137).     *)
ReportedIsKept ==
  \A u \in Uploads : at[u] = "ok" => entry[final[u]] = u

(* An upload reported as failed leaves neither a temporary file nor a      *)
(* final one nor a descriptor, once the operation it was cancelled under   *)
(* is over, unless the process died under it, or the power failed then or  *)
(* later, which may bring back a name that was deleted (sinks.py:124-125). *)
FailedLeavesNothing ==
  \A u \in Uploads :
    at[u] = "failed" /\ ~deferred[u] /\ u \notin outage =>
      /\ u \notin temps
      /\ \A n \in Names : entry[n] # u
      /\ \A n \in Numbers : table[n] # u

(* No thread uses a number that its upload's own file does not answer to,  *)
(* for by then it may name another upload's (sinks.py:163-165), as long as *)
(* no os.close has raised in a seal: that seal leaves the number in place  *)
(* (sinks.py:227-228), and its discard closes it again (251-253), whoever  *)
(* has it by then.  Every variable has its type.                           *)
NoStrayWrite ==
  /\ FileSinkTypeOK
  /\ misclosed = {} =>
       \A u \in Uploads : job[u] \in {"write", "seal"} /\ phase[u] = "running" => Refers(u) = u

(* The file of a reported upload can be replaced, with overwrite, but is   *)
(* not removed: the discard of an upload that failed undoes its own work   *)
(* and no other's, for no file operation races another (sinks.py:208-209). *)
FailureSparesOthers ==
  [][\A u \in Uploads :
       at[u] = "ok" /\ entry[final[u]] = u => entry'[final[u]] # NoFile]_vars
==============================================================================
