------------------------------- MODULE Rounds --------------------------------
(***************************************************************************)
(* How an agent gets a file to a tool: adapters/_rounds.py (the tool asks  *)
(* for the file and is called again), adapters/sep2631.py and client.py    *)
(* (the client asks where to send it), resolve.py (a tool takes the file   *)
(* its argument names).  Each call to the gateway is a step of its own, so *)
(* the ticket moves between two of one call.                               *)
(*                                                                         *)
(* The gateway is what TicketContract says of it, with what a completed    *)
(* upload holds and with deadlines: `late` has the tickets that read       *)
(* expired and the uploads that read abandoned.  Either may still go on:   *)
(* see StatusMonotone of GatewayProperties.                                *)
(***************************************************************************)
EXTENDS Naturals, FiniteSets

CONSTANTS
  Tickets,
  Agents,      \* the agents, each with one file for one call
  Resolvers,   \* tool calls given a file's URI
  Contents,    \* what a file can hold
  None,        \* no ticket, no content, no proof
  Verifies     \* the gateway compares an upload with the declared digest

ASSUME RoundsAssumption ==
  /\ None \notin Tickets \cup Contents
  /\ Contents # {}
  /\ Verifies \in BOOLEAN

VARIABLES
  life, winner, taker,  \* as in TicketContract
  late,      \* the tickets whose deadline passed: to expire, and to be abandoned once redeemed
  declared,  \* ticket -> the content it was issued for, if its digest was declared
  stored,    \* ticket -> history: what its completed upload held
  file,      \* agent -> what its file holds now
  agent,     \* agent -> [flow, at, ticket, hashed, action, proof, seen, result]
  sent,      \* poster -> what it uploads, until that has ended
  reply,     \* client -> how its upload ended
  call,      \* resolver -> [at, ticket, claim, answer]
  could      \* history: resolver -> the answers that were right at some time of its call

ticketVars == <<life, winner, taker, late, declared, stored>>
vars == <<ticketVars, file, agent, sent, reply, call, could>>

(* Who may send bytes to an agent's ticket: its client, and the person who *)
(* was shown the upload page.                                              *)
Clients == Agents \X {"client"}
Posters == Clients \cup (Agents \X {"page"})
Contract == INSTANCE TicketContract WITH Requests <- Posters, Claimers <- Resolvers

(* status() of a ticket.                                                   *)
Mutant_Status(t) ==
  CASE life[t] = "gone" -> "unknown"
    [] life[t] = "issued" /\ t \in late -> "expired"
    [] OTHER -> life[t]
Status(t) ==
  CASE life[t] = "gone" -> "unknown"
    [] life[t] = "issued" /\ t \in late -> "expired"
    [] life[t] = "redeemed" /\ t \in late -> "failed"
    [] OTHER -> life[t]

Agent == [flow : {"ask", "authorize"},
          at : {"idle", "asked", "sending", "retry", "resume", "told"},
          ticket : Tickets \cup {None}, hashed : Contents \cup {None},
          action : {"none", "accept", "decline", "cancel"},
          proof : Contents \cup {None}, seen : {"none", "issued", "redeemed"},
          result : {"none", "issued", "redeemed", "completed", "claimed", "failed", "expired",
                    "unknown", "declined", "cancelled", "proof_mismatch", "uri", "refused"}]

Reasons == {"not_found", "not_completed", "failed", "already_claimed"}

RoundsTypeOK ==
  /\ Contract!ContractTypeOK
  /\ late \subseteq Tickets
  /\ declared \in [Tickets -> Contents \cup {None}]
  /\ stored \in [Tickets -> Contents \cup {None}]
  /\ file \in [Agents -> Contents]
  /\ agent \in [Agents -> Agent]
  /\ sent \in [Posters -> Contents \cup {None}]
  /\ reply \in [Clients -> {"none", "completed", "failed"}]
  /\ call \in [Resolvers -> [at : {"new", "claim", "status", "done"},
                             ticket : Tickets \cup {None}, claim : BOOLEAN, answer : Reasons \cup {"none", "file"}]]
  /\ could \in [Resolvers -> SUBSET (Reasons \cup {"file"})]

Init ==
  /\ Contract!ContractInit
  /\ late = {}
  /\ declared = [t \in Tickets |-> None]
  /\ stored = [t \in Tickets |-> None]
  /\ file \in [Agents -> Contents]
  /\ \E flow \in [Agents -> {"ask", "authorize"}] :
       agent = [a \in Agents |-> [flow |-> flow[a], at |-> "idle", ticket |-> None,
                                  hashed |-> None, action |-> "none", proof |-> None,
                                  seen |-> "none", result |-> "none"]]
  /\ sent = [p \in Posters |-> None]
  /\ reply = [p \in Clients |-> "none"]
  /\ call \in [Resolvers -> [at : {"new"}, ticket : {None}, claim : BOOLEAN,
                             answer : {"none"}]]
  /\ could = [c \in Resolvers |-> {}]

Told(a, result) == agent' = [agent EXCEPT ![a].at = "told", ![a].result = result]
Retries(a, action, proof) ==
  agent' = [agent EXCEPT ![a].at = "retry", ![a].action = action, ![a].proof = proof]

----------------------------------------------------------------------------
(* The ticket: uploads end, deadlines pass, records are forgotten.         *)

(* An upload ends, perhaps after it has been reported as abandoned.        *)
Matches(t, content) == declared[t] \in {None, content} \/ ~Verifies

PostEnds(p) ==
  \E t \in Tickets, how \in {"completed", "failed"} :
    /\ p \in winner[t]
    /\ how = "completed" => Matches(t, sent[p])
    /\ Contract!End(t)
    /\ life'[t] = how
    /\ stored' = [stored EXCEPT ![t] = IF how = "completed" THEN sent[p] ELSE @]
    /\ sent' = [sent EXCEPT ![p] = None]
    /\ reply' = IF p \in Clients THEN [reply EXCEPT ![p] = how] ELSE reply
    /\ UNCHANGED <<late, declared, file, agent, call>>

Late(t) ==
  /\ life[t] \in {"issued", "redeemed"}
  /\ t \notin late
  /\ late' = late \cup {t}
  /\ UNCHANGED <<life, winner, taker, declared, stored, file, agent, sent, reply, call>>

Forget(t) ==
  /\ life[t] \notin {"unborn", "gone"}
  /\ Contract!Forget({t})
  /\ UNCHANGED <<late, declared, stored, file, agent, sent, reply, call>>

(* A POST or PUT that wins the ticket, perhaps after it has been reported  *)
(* as expired: the request's own time counts.                              *)
Redeem(p, t, content) ==
  /\ Contract!Spend(t, p)
  /\ late' = late \ {t}
  /\ sent' = [sent EXCEPT ![p] = content]

(* The person picks a file on the page, whatever the client does.          *)
PageUpload(a) ==
  /\ agent[a].flow = "ask" /\ agent[a].ticket # None
  /\ \E content \in Contents : Redeem(<<a, "page">>, agent[a].ticket, content)
  /\ UNCHANGED <<declared, stored, file, agent, reply, call>>

(* The file changes on the agent's disk, once it was hashed.               *)
FileChanges(a) ==
  /\ agent[a].at = "asked" /\ agent[a].hashed # None
  /\ file' \in [Agents -> Contents]
  /\ \A b \in Agents \ {a} : file'[b] = file[b]
  /\ UNCHANGED <<ticketVars, agent, sent, reply, call>>

----------------------------------------------------------------------------
(* Asking for a ticket.  A destination, a declaration or a full store may  *)
(* be refused.                                                             *)

Asked(a, t, content) ==
  /\ Contract!Issue(t, {})
  /\ declared' = [declared EXCEPT ![t] = content]
  /\ UNCHANGED <<late, stored, file, sent, reply, call>>

(* ask_for_upload, called without a request state of its own, by a tool    *)
(* that declares no digest.                                                *)
AskFirst(a) ==
  /\ agent[a].flow = "ask" /\ agent[a].at = "idle"
  /\ \E t \in Tickets : /\ Asked(a, t, None)
                        /\ agent' = [agent EXCEPT ![a].at = "asked", ![a].ticket = t]

(* upload_file: the digest of the file, then files/authorizeUpload.        *)
Authorize(a) ==
  /\ agent[a].flow = "authorize" /\ agent[a].at = "idle"
  /\ \E t \in Tickets :
       /\ Asked(a, t, file[a])
       /\ agent' = [agent EXCEPT ![a].at = "asked", ![a].ticket = t, ![a].hashed = file[a]]

AskRefused(a) ==
  /\ agent[a].at = "idle"
  /\ Told(a, "refused")
  /\ UNCHANGED <<ticketVars, file, sent, reply, call>>

----------------------------------------------------------------------------
(* send_file: the bytes as they are on the disk now.                       *)

SendFile(a) ==
  /\ agent[a].at = "asked"
  /\ Redeem(<<a, "client">>, agent[a].ticket, file[a])
  /\ agent' = [agent EXCEPT ![a].at = "sending"]
  /\ UNCHANGED <<declared, stored, file, reply, call>>

(* UploadFailed, or a connection that broke, before or after the upload    *)
(* ended at the gateway.                                                   *)
SendRaises(a) ==
  /\ agent[a].at \in {"asked", "sending"}
  /\ Told(a, "refused")
  /\ UNCHANGED <<ticketVars, file, sent, reply, call>>

(* The stored file comes back.  upload_file compares its digest with the   *)
(* one it computed; a harness proves with it what it uploaded.             *)
Mutant_Stored(a, content) ==
  IF agent[a].flow = "authorize"
    THEN Told(a, "uri")
    ELSE Retries(a, "accept", content)
Stored(a, content) ==
  IF agent[a].flow = "authorize"
    THEN Told(a, IF content = agent[a].hashed THEN "uri" ELSE "refused")
    ELSE Retries(a, "accept", content)

SendReturns(a) ==
  LET p == <<a, "client">> IN
  /\ agent[a].at = "sending"
  /\ reply[p] = "completed"
  /\ Stored(a, stored[agent[a].ticket])
  /\ UNCHANGED <<ticketVars, file, sent, reply, call>>

(* A client calls the tool again: the person said yes, whether or not they *)
(* sent a file, or refused.  The client may claim to know the content.     *)
Answer(a) ==
  /\ agent[a].flow = "ask" /\ agent[a].at \in {"asked", "sending"}
  /\ \E action \in {"accept", "decline", "cancel"}, proof \in Contents \cup {None} :
       Retries(a, action, proof)
  /\ UNCHANGED <<ticketVars, file, sent, reply, call>>

----------------------------------------------------------------------------
(* ask_for_upload, called again with its request state: one look at the    *)
(* record, and one more when it is too early.                              *)

Mutant_Mismatch(a, t) == FALSE
Mismatch(a, t) == agent[a].proof \notin {None, stored[t]}

Retry(a) ==
  LET t == agent[a].ticket
      status == Status(t)
      refusal == agent[a].action \in {"decline", "cancel"}
  IN
  /\ agent[a].at = "retry"
  /\ \/ /\ status = "issued" /\ refusal
        /\ Told(a, IF agent[a].action = "decline" THEN "declined" ELSE "cancelled")
     \/ /\ status = "redeemed" \/ (status = "issued" /\ ~refusal)
        /\ agent' = [agent EXCEPT ![a].at = "resume", ![a].seen = status]
     \/ /\ status \in {"completed", "claimed"}
        /\ Told(a, IF Mismatch(a, t) THEN "proof_mismatch" ELSE status)
     \/ /\ status \in {"failed", "expired", "unknown"}
        /\ Told(a, status)
  /\ UNCHANGED <<ticketVars, file, sent, reply, call>>

(* resume: the same ticket is asked for again, unless it is gone.          *)
Resume(a) ==
  /\ agent[a].at = "resume"
  /\ IF life[agent[a].ticket] = "gone"
       THEN Told(a, agent[a].seen)
       ELSE agent' = [agent EXCEPT ![a].at = "asked", ![a].action = "none",
                                   ![a].proof = None, ![a].seen = "none"]
  /\ UNCHANGED <<ticketVars, file, sent, reply, call>>

----------------------------------------------------------------------------
(* resolve_file.  The URI is one some agent was given, and names a record. *)

Answers(c, answer) == call' = [call EXCEPT ![c].at = "done", ![c].answer = answer]
Awaits(c, at) == call' = [call EXCEPT ![c].at = at]
Known == {agent[a].ticket : a \in Agents} \ {None}

Resolve(c) ==
  /\ call[c].at = "new"
  /\ \E t \in Known :
       call' = [call EXCEPT ![c].ticket = t,
                            ![c].at = IF call[c].claim THEN "claim" ELSE "status"]
  /\ UNCHANGED <<ticketVars, file, agent, sent, reply>>

Mutant_RefusedIsTaken(c) ==
  LET t == call[c].ticket IN
  /\ call[c].at = "claim"
  /\ IF life[t] = "completed"
       THEN Contract!Take(t, c) /\ Answers(c, "file")
       ELSE Answers(c, "already_claimed") /\ UNCHANGED <<life, winner, taker>>
  /\ UNCHANGED <<late, declared, stored, file, agent, sent, reply>>
ClaimFile(c) ==
  LET t == call[c].ticket IN
  /\ call[c].at = "claim"
  /\ \/ Contract!Take(t, c) /\ Answers(c, "file")
     \/ /\ life[t] # "completed"
        /\ CASE life[t] = "gone" -> Answers(c, "not_found")
             [] life[t] = "claimed" -> Answers(c, "already_claimed")
             [] OTHER -> Awaits(c, "status")
        /\ UNCHANGED <<life, winner, taker>>
  /\ UNCHANGED <<late, declared, stored, file, agent, sent, reply>>

AskStatus(c) ==
  LET status == Status(call[c].ticket)
      answer == CASE status = "failed" -> "failed"
                  [] ~call[c].claim /\ status \in {"completed", "claimed"} -> "file"
                  [] ~call[c].claim /\ status = "unknown" -> "not_found"
                  [] OTHER -> "not_completed"
  IN
  /\ call[c].at = "status"
  /\ Answers(c, answer)
  /\ UNCHANGED <<ticketVars, file, agent, sent, reply>>

----------------------------------------------------------------------------
(* What would be right to tell a resolver now.                             *)
Right(c) ==
  LET status == Status(call[c].ticket) IN
  CASE status = "unknown" -> {"not_found"}
    [] status = "completed" -> {"file"}
    [] status = "claimed" -> {IF call[c].claim THEN "already_claimed" ELSE "file"}
    [] status = "failed" -> {"failed"}
    [] OTHER -> {"not_completed"}

Observe ==
  could' = [c \in Resolvers |->
              IF call'[c].at \in {"claim", "status"} THEN could[c] \cup Right(c)' ELSE {}]

Looks(a) == Retry(a) \/ Resume(a)
Sends(a) == SendReturns(a) \/ SendRaises(a)
Client(a) == SendFile(a) \/ Answer(a) \/ Sends(a)

Next ==
  /\ \/ \E a \in Agents : \/ AskFirst(a) \/ Authorize(a) \/ AskRefused(a)
                          \/ Client(a) \/ Looks(a)
                          \/ PageUpload(a) \/ FileChanges(a)
     \/ \E p \in Posters : PostEnds(p)
     \/ \E t \in Tickets : Late(t) \/ Forget(t)
     \/ \E c \in Resolvers : Resolve(c) \/ ClaimFile(c) \/ AskStatus(c)
  /\ Observe

Spec == Init /\ [][Next]_vars

(* The server answers its calls, a client asked for a file does something  *)
(* about it and calls again, and deadlines pass.                           *)
Fairness ==
  /\ \A a \in Agents : WF_vars(Client(a) /\ Observe) /\ WF_vars(Looks(a) /\ Observe)
  /\ \A t \in Tickets : WF_vars(Late(t) /\ Observe)
FairSpec == Spec /\ Fairness
==============================================================================
