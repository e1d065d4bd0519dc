-------------------------- MODULE RoundsProperties ---------------------------
(***************************************************************************)
(* What agents and tools may rely on when a file passes between them.      *)
(***************************************************************************)
EXTENDS Rounds

(* A URI that upload_file returns names an upload that completed with what *)
(* the client hashed, though the file may change before it is sent and the *)
(* gateway may not check the digest (client.py:165-168).                   *)
UriIsTheFile ==
  \A a \in Agents : agent[a].result = "uri" => stored[agent[a].ticket] = agent[a].hashed

(* A tool is told that the upload completed only of one that did, and, if  *)
(* the client said what it sent, only of one that holds that, whoever else *)
(* used the link meanwhile.                                                *)
AgentsToldTruly ==
  \A a \in Agents :
    agent[a].result \in {"completed", "claimed"} =>
      /\ stored[agent[a].ticket] # None
      /\ agent[a].proof \in {None, stored[agent[a].ticket]}

(* "Two tool calls naming the same URI cannot both act on it", through     *)
(* resolve_file with a claim.                                              *)
Took(c) == call[c].claim /\ call[c].answer = "file"
TakenOnce ==
  \A c, d \in Resolvers :
    Took(c) /\ Took(d) /\ call[c].ticket = call[d].ticket => c = d

(* Both, in well-typed states.                                             *)
ToldTruly == RoundsTypeOK /\ AgentsToldTruly /\ TakenOnce

(* resolve_file's answer was right at some time of the call, although it   *)
(* asks twice and the upload ends, is claimed or goes in between.  Of one  *)
(* that read failed at first it may say "not completed", if it went or, as *)
(* one only taken for abandoned, was completed meanwhile (resolve.py:70).  *)
AnswerWasRight ==
  [][\A c \in Resolvers :
       call'[c].at = "done" /\ call[c].at # "done" =>
         \/ call'[c].answer \in could[c]
         \/ /\ call'[c].answer = "not_completed" /\ "failed" \in could[c]
            /\ could[c] \cap {"not_found", "file", "already_claimed"} # {}]_vars

(* Every call of an agent comes to an end: rounds of asking go on for no   *)
(* longer than the ticket can be used or its upload can last.              *)
CallsEnd == \A a \in Agents : agent[a].at = "asked" ~> agent[a].at = "told"
==============================================================================
