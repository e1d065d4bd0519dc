----------------------------- MODULE RoundsProofs -----------------------------
(***************************************************************************)
(* Proofs about the rounds, for any number of agents, tickets, contents    *)
(* and tool calls.                                                         *)
(***************************************************************************)
EXTENDS RoundsProperties, TLAPS

(* What was stored under a ticket stays: only an upload that ends stores.  *)
StoredInv ==
  \A t \in Tickets :
    /\ life[t] \in {"completed", "claimed"} => stored[t] # None
    /\ life[t] \in {"unborn", "issued", "redeemed"} => stored[t] = None

(* Who spent a ticket was given it, and sends something until that ended.  *)
SenderInv ==
  \A a \in Agents, way \in {"client", "page"} : \A t \in Tickets :
    <<a, way>> \in winner[t] =>
      /\ t = agent[a].ticket
      /\ life[t] = "redeemed" => sent[<<a, way>>] # None

(* What an agent knows of its ticket.                                      *)
Knows(a) ==
  /\ agent[a].at = "idle" => agent[a].ticket = None
  /\ agent[a].at \notin {"idle", "told"} => agent[a].ticket \in Tickets
  /\ agent[a].at = "resume" => agent[a].seen # "none"
  /\ agent[a].result # "none" => agent[a].at = "told"
  /\ agent[a].result = "uri" => agent[a].hashed # None /\ stored[agent[a].ticket] = agent[a].hashed
  /\ agent[a].result \in {"uri", "completed", "claimed"} =>
       agent[a].ticket \in Tickets /\ stored[agent[a].ticket] # None
  /\ agent[a].result \in {"completed", "claimed"} =>
       agent[a].proof \in {None, stored[agent[a].ticket]}
  /\ reply[<<a, "client">>] = "completed" =>
       agent[a].ticket \in Tickets /\ stored[agent[a].ticket] # None
AgentInv == \A a \in Agents : Knows(a)

(* Who took an upload.                                                     *)
TakeInv ==
  /\ \A t \in Tickets : \A c, d \in taker[t] : c = d
  /\ \A c \in Resolvers : Took(c) => call[c].ticket \in Tickets /\ c \in taker[call[c].ticket]
  /\ \A c \in Resolvers : /\ call[c].at = "status" => call[c].answer = "none"
                          /\ call[c].at \in {"claim", "status"} => call[c].ticket \in Tickets
                          /\ call[c].at = "claim" => call[c].claim
                          /\ call[c].at # "done" => call[c].answer = "none"

(* What a resolver saw.  One that claims asks for the status only of an    *)
(* upload that was neither taken, nor to be had, nor gone.                 *)
SeenInv ==
  \A c \in Resolvers : call[c].at \in {"claim", "status"} =>
    /\ Right(c) \subseteq could[c]
    /\ call[c].at = "status" /\ call[c].claim =>
         could[c] \cap {"not_completed", "failed"} # {}

----------------------------------------------------------------------------
(* Types.                                                                  *)
LEMMA RoundsInit ==
  Init => RoundsTypeOK /\ StoredInv /\ SenderInv /\ AgentInv /\ TakeInv /\ SeenInv
<1> SUFFICES ASSUME Init
             PROVE  RoundsTypeOK /\ StoredInv /\ SenderInv /\ AgentInv /\ TakeInv /\ SeenInv
  OBVIOUS
<1>1. Contract!ContractTypeOK
  BY DEF Init, Contract!ContractInit, Contract!ContractTypeOK, Contract!Lives
<1>2. \A a \in Agents : agent[a] \in Agent
  BY DEF Init, Agent
<1>3. \A c \in Resolvers : /\ call[c].at = "new" /\ call[c].ticket = None
                           /\ call[c].claim \in BOOLEAN /\ call[c].answer = "none"
  BY DEF Init
<1>4. RoundsTypeOK
  BY <1>1, <1>2 DEF Init, RoundsTypeOK, Reasons
<1>5. StoredInv /\ SenderInv
  BY DEF Init, Contract!ContractInit, StoredInv, SenderInv
<1>6. AgentInv
  BY DEF Init, AgentInv, Knows, Clients
<1>7. TakeInv /\ SeenInv
  BY <1>3 DEF Init, Contract!ContractInit, TakeInv, SeenInv, Took
<1> QED BY <1>4, <1>5, <1>6, <1>7

(* The record of one agent becomes r.                                      *)
Became(a, r) ==
  /\ agent' \in [Agents -> Agent]
  /\ agent'[a] = r
  /\ \A b \in Agents \ {a} : agent'[b] = agent[b]

LEMMA BecomesIt ==
  ASSUME agent \in [Agents -> Agent], NEW a \in Agents, NEW r \in Agent,
         agent' = [agent EXCEPT ![a] = r]
  PROVE  Became(a, r)
BY DEF Became

Results == {"issued", "redeemed", "completed", "claimed", "failed", "expired", "unknown",
            "declined", "cancelled", "proof_mismatch", "uri", "refused"}

LEMMA ToldIs ==
  ASSUME agent \in [Agents -> Agent], NEW a \in Agents, NEW result \in Results, Told(a, result)
  PROVE  Became(a, [agent[a] EXCEPT !.at = "told", !.result = result])
<1> DEFINE r == [agent[a] EXCEPT !.at = "told", !.result = result]
<1>1. agent[a] \in Agent
  OBVIOUS
<1>2. r \in Agent
  <2>1. result \in Results \cup {"none"}
    OBVIOUS
  <2>2. Agent = [flow : {"ask", "authorize"},
                 at : {"idle", "asked", "sending", "retry", "resume", "told"},
                 ticket : Tickets \cup {None}, hashed : Contents \cup {None},
                 action : {"none", "accept", "decline", "cancel"},
                 proof : Contents \cup {None}, seen : {"none", "issued", "redeemed"},
                 result : Results \cup {"none"}]
    BY DEF Agent, Results
  <2> QED BY <1>1, <2>1, <2>2
<1>3. agent' = [agent EXCEPT ![a] = r]
  BY DEF Told
<1> QED BY <1>2, <1>3, BecomesIt

LEMMA RetriesIs ==
  ASSUME agent \in [Agents -> Agent], NEW a \in Agents, NEW action \in {"accept", "decline", "cancel"},
         NEW proof \in Contents \cup {None}, Retries(a, action, proof)
  PROVE  Became(a, [agent[a] EXCEPT !.at = "retry", !.action = action, !.proof = proof])
<1> DEFINE r == [agent[a] EXCEPT !.at = "retry", !.action = action, !.proof = proof]
<1>1. agent[a] \in Agent
  OBVIOUS
<1>2. r \in Agent
  BY <1>1 DEF Agent
<1>3. agent' = [agent EXCEPT ![a] = r]
  BY DEF Retries
<1> QED BY <1>2, <1>3, BecomesIt

(* What an agent's step makes of its record.                               *)
LEMMA AskIs ==
  ASSUME RoundsTypeOK, NEW a \in Agents, AskFirst(a) \/ Authorize(a)
  PROVE  \E t \in Tickets, content \in Contents \cup {None} :
           /\ Asked(a, t, content)
           /\ \/ Became(a, [agent[a] EXCEPT !.at = "asked", !.ticket = t])
              \/ Became(a, [agent[a] EXCEPT !.at = "asked", !.ticket = t, !.hashed = file[a]])
<1>1. agent \in [Agents -> Agent] /\ agent[a] \in Agent /\ file[a] \in Contents
  BY DEF RoundsTypeOK
<1>2. CASE AskFirst(a)
  <2>1. PICK t \in Tickets : /\ Asked(a, t, None)
                             /\ agent' = [agent EXCEPT ![a].at = "asked", ![a].ticket = t]
    BY <1>2 DEF AskFirst
  <2> DEFINE r == [agent[a] EXCEPT !.at = "asked", !.ticket = t]
  <2>2. r \in Agent
    BY <1>1 DEF Agent
  <2>3. agent' = [agent EXCEPT ![a] = r]
    BY <1>1, <2>1
  <2>4. Became(a, r)
    BY <1>1, <2>2, <2>3, BecomesIt
  <2> QED BY <2>1, <2>4
<1>3. CASE Authorize(a)
  <2>1. PICK t \in Tickets :
          /\ Asked(a, t, file[a])
          /\ agent' = [agent EXCEPT ![a].at = "asked", ![a].ticket = t, ![a].hashed = file[a]]
    BY <1>3 DEF Authorize
  <2> DEFINE r == [agent[a] EXCEPT !.at = "asked", !.ticket = t, !.hashed = file[a]]
  <2>2. r \in Agent
    BY <1>1 DEF Agent
  <2>3. agent' = [agent EXCEPT ![a] = r]
    BY <1>1, <2>1
  <2>4. Became(a, r)
    BY <1>1, <2>2, <2>3, BecomesIt
  <2> QED BY <1>1, <2>1, <2>4
<1> QED BY <1>2, <1>3

LEMMA SendFileIs ==
  ASSUME RoundsTypeOK, NEW a \in Agents, SendFile(a)
  PROVE  Became(a, [agent[a] EXCEPT !.at = "sending"])
<1>1. agent \in [Agents -> Agent] /\ agent[a] \in Agent
  BY DEF RoundsTypeOK
<1> DEFINE r == [agent[a] EXCEPT !.at = "sending"]
<1>2. r \in Agent
  BY <1>1 DEF Agent
<1>3. agent' = [agent EXCEPT ![a] = r]
  BY <1>1 DEF SendFile
<1> QED BY <1>1, <1>2, <1>3, BecomesIt

LEMMA SendReturnsIs ==
  ASSUME RoundsTypeOK, AgentInv, NEW a \in Agents, SendReturns(a)
  PROVE  LET content == stored[agent[a].ticket] IN
         \/ /\ content = agent[a].hashed
            /\ Became(a, [agent[a] EXCEPT !.at = "told", !.result = "uri"])
         \/ Became(a, [agent[a] EXCEPT !.at = "told", !.result = "refused"])
         \/ Became(a, [agent[a] EXCEPT !.at = "retry", !.action = "accept", !.proof = content])
<1> DEFINE content == stored[agent[a].ticket]
<1>1. agent \in [Agents -> Agent]
  BY DEF RoundsTypeOK
<1>2. content \in Contents \cup {None}
  BY DEF RoundsTypeOK, AgentInv, Knows, SendReturns
<1>3. Stored(a, content)
  BY DEF SendReturns
<1>4. \/ content = agent[a].hashed /\ Told(a, "uri")
      \/ Told(a, "refused")
      \/ Retries(a, "accept", content)
  BY <1>3 DEF Stored
<1>5. CASE content = agent[a].hashed /\ Told(a, "uri")
  BY <1>1, <1>5, ToldIs DEF Results
<1>6. CASE Told(a, "refused")
  BY <1>1, <1>6, ToldIs DEF Results
<1>7. CASE Retries(a, "accept", content)
  BY <1>1, <1>2, <1>7, RetriesIs
<1> QED BY <1>4, <1>5, <1>6, <1>7

LEMMA ResumeIs ==
  ASSUME RoundsTypeOK, NEW a \in Agents, Resume(a), agent[a].seen # "none"
  PROVE  \/ Became(a, [agent[a] EXCEPT !.at = "told", !.result = agent[a].seen])
         \/ Became(a, [agent[a] EXCEPT !.at = "asked", !.action = "none", !.proof = None,
                                       !.seen = "none"])
<1>1. agent \in [Agents -> Agent] /\ agent[a] \in Agent
  BY DEF RoundsTypeOK
<1>2. agent[a].seen \in Results
  BY <1>1 DEF Agent, Results
<1>3. CASE Told(a, agent[a].seen)
  BY <1>1, <1>2, <1>3, ToldIs
<1>4. CASE agent' = [agent EXCEPT ![a].at = "asked", ![a].action = "none",
                                  ![a].proof = None, ![a].seen = "none"]
  <2> DEFINE r == [agent[a] EXCEPT !.at = "asked", !.action = "none", !.proof = None,
                                   !.seen = "none"]
  <2>1. r \in Agent
    BY <1>1 DEF Agent
  <2>2. agent' = [agent EXCEPT ![a] = r]
    BY <1>1, <1>4
  <2> QED BY <1>1, <2>1, <2>2, BecomesIt
<1> QED BY <1>3, <1>4 DEF Resume

LEMMA RetryIs ==
  ASSUME RoundsTypeOK, NEW a \in Agents, Retry(a)
  PROVE  \/ \E result \in Results \ {"uri"} :
              /\ Became(a, [agent[a] EXCEPT !.at = "told", !.result = result])
              /\ result \in {"completed", "claimed"} =>
                   Status(agent[a].ticket) = result /\ ~Mismatch(a, agent[a].ticket)
         \/ \E status \in {"issued", "redeemed"} :
              Became(a, [agent[a] EXCEPT !.at = "resume", !.seen = status])
<1>1. agent \in [Agents -> Agent] /\ agent[a] \in Agent
  BY DEF RoundsTypeOK
<1> DEFINE status == Status(agent[a].ticket)
<1>2. \/ \E result \in Results \ {"uri"} :
           /\ Told(a, result)
           /\ result \in {"completed", "claimed"} =>
                status = result /\ ~Mismatch(a, agent[a].ticket)
      \/ /\ status \in {"issued", "redeemed"}
         /\ agent' = [agent EXCEPT ![a].at = "resume", ![a].seen = status]
  BY DEF Retry, Results
<1>3. ASSUME NEW result \in Results \ {"uri"}, Told(a, result)
      PROVE  Became(a, [agent[a] EXCEPT !.at = "told", !.result = result])
  BY <1>1, <1>3, ToldIs
<1>4. ASSUME status \in {"issued", "redeemed"},
             agent' = [agent EXCEPT ![a].at = "resume", ![a].seen = status]
      PROVE  Became(a, [agent[a] EXCEPT !.at = "resume", !.seen = status])
  <2> DEFINE r == [agent[a] EXCEPT !.at = "resume", !.seen = status]
  <2>1. r \in Agent
    BY <1>1, <1>4 DEF Agent
  <2>2. agent' = [agent EXCEPT ![a] = r]
    BY <1>1, <1>4
  <2> QED BY <1>1, <2>1, <2>2, BecomesIt
<1> QED BY <1>2, <1>3, <1>4

(* The steps of the tickets keep their types.                              *)
LEMMA ContractTypes ==
  ASSUME Contract!ContractTypeOK,
         \/ \E t \in Tickets : Contract!Issue(t, {}) \/ Contract!End(t) \/ Contract!Forget({t})
         \/ \E t \in Tickets, p \in Posters : Contract!Spend(t, p)
         \/ \E t \in Tickets, c \in Resolvers : Contract!Take(t, c)
         \/ UNCHANGED <<life, winner, taker>>
  PROVE  Contract!ContractTypeOK'
<1> USE DEF Contract!ContractTypeOK, Contract!Lives
<1>1. CASE \E t \in Tickets : Contract!Issue(t, {}) \/ Contract!End(t) \/ Contract!Forget({t})
  BY <1>1 DEF Contract!Issue, Contract!End, Contract!Forget
<1>2. CASE \E t \in Tickets, p \in Posters : Contract!Spend(t, p)
  BY <1>2 DEF Contract!Spend
<1>3. CASE \E t \in Tickets, c \in Resolvers : Contract!Take(t, c)
  BY <1>3 DEF Contract!Take
<1>4. CASE UNCHANGED <<life, winner, taker>>
  BY <1>4
<1> QED BY <1>1, <1>2, <1>3, <1>4

(* The actions, by what they do to the tickets.                            *)
Quiet ==
  \/ \E a \in Agents : \/ AskRefused(a) \/ SendRaises(a) \/ SendReturns(a) \/ Answer(a)
                       \/ Retry(a) \/ Resume(a) \/ FileChanges(a)
  \/ \E t \in Tickets : Late(t)
  \/ \E c \in Resolvers : Resolve(c) \/ AskStatus(c)
Asking == \E a \in Agents : AskFirst(a) \/ Authorize(a)
Spending == \E a \in Agents : SendFile(a) \/ PageUpload(a)

LEMMA Actions ==
  ASSUME Next
  PROVE  \/ Quiet \/ Asking \/ Spending
         \/ \E p \in Posters : PostEnds(p)
         \/ \E t \in Tickets : Forget(t)
         \/ \E c \in Resolvers : ClaimFile(c)
BY DEF Next, Quiet, Asking, Spending, Client, Sends, Looks

LEMMA QuietKeeps ==
  ASSUME Quiet
  PROVE  UNCHANGED <<life, winner, taker, declared, stored, sent, reply>>
BY DEF Quiet, AskRefused, SendRaises, SendReturns, Answer, Retry, Resume, FileChanges, Late,
       Resolve, AskStatus, ticketVars

LEMMA AskingIs ==
  ASSUME RoundsTypeOK, Asking
  PROVE  \E a \in Agents, t \in Tickets, content \in Contents \cup {None} :
           /\ Asked(a, t, content)
           /\ agent[a].at = "idle" /\ agent'[a].ticket = t /\ agent'[a].at = "asked"
           /\ \/ Became(a, [agent[a] EXCEPT !.at = "asked", !.ticket = t])
              \/ Became(a, [agent[a] EXCEPT !.at = "asked", !.ticket = t, !.hashed = file[a]])
<1>1. PICK a \in Agents : AskFirst(a) \/ Authorize(a)
  BY DEF Asking
<1>2. PICK t \in Tickets, content \in Contents \cup {None} :
        /\ Asked(a, t, content)
        /\ \/ Became(a, [agent[a] EXCEPT !.at = "asked", !.ticket = t])
           \/ Became(a, [agent[a] EXCEPT !.at = "asked", !.ticket = t, !.hashed = file[a]])
  BY <1>1, AskIs
<1>3. agent[a].at = "idle"
  BY <1>1 DEF AskFirst, Authorize
<1>4. agent[a] \in Agent
  BY DEF RoundsTypeOK
<1>5. agent'[a].ticket = t /\ agent'[a].at = "asked"
  BY <1>2, <1>4 DEF Became, Agent
<1> QED BY <1>2, <1>3, <1>5

LEMMA SpendingIs ==
  ASSUME RoundsTypeOK, AgentInv, Spending
  PROVE  \E a \in Agents, way \in {"client", "page"}, content \in Contents :
           /\ agent[a].ticket \in Tickets /\ <<a, way>> \in Posters
           /\ Redeem(<<a, way>>, agent[a].ticket, content)
           /\ \/ agent' = agent
              \/ Became(a, [agent[a] EXCEPT !.at = "sending"]) /\ agent[a].at = "asked"
           /\ UNCHANGED <<declared, stored, file, reply, call>>
<1>1. PICK a \in Agents : SendFile(a) \/ PageUpload(a)
  BY DEF Spending
<1>2. <<a, "client">> \in Posters /\ <<a, "page">> \in Posters
  BY DEF Posters, Clients
<1>3. CASE SendFile(a)
  <2>1. agent[a].ticket \in Tickets /\ file[a] \in Contents
    BY <1>3 DEF SendFile, AgentInv, Knows, RoundsTypeOK
  <2>2. Became(a, [agent[a] EXCEPT !.at = "sending"])
    BY <1>3, SendFileIs
  <2> QED BY <1>2, <1>3, <2>1, <2>2 DEF SendFile
<1>4. CASE PageUpload(a)
  <2>1. agent[a].ticket \in Tickets
    BY <1>4 DEF PageUpload, RoundsTypeOK, Agent
  <2> QED BY <1>2, <1>4, <2>1 DEF PageUpload
<1> QED BY <1>1, <1>3, <1>4

----------------------------------------------------------------------------
(* What is stored is stored for good.                                      *)
LEMMA StoredStep ==
  ASSUME RoundsTypeOK, StoredInv, SenderInv, AgentInv, [Next]_vars
  PROVE  /\ StoredInv'
         /\ \A t \in Tickets : stored[t] # None => stored'[t] = stored[t]
<1> USE DEF StoredInv
<1>0. life \in [Tickets -> Contract!Lives] /\ stored \in [Tickets -> Contents \cup {None}]
  BY DEF RoundsTypeOK, Contract!ContractTypeOK
<1>1. CASE Quiet \/ UNCHANGED vars
  BY <1>1, QuietKeeps DEF vars, ticketVars
<1>2. CASE Asking
  BY <1>0, <1>2, AskingIs DEF Asked, Contract!Issue
<1>3. CASE Spending
  BY <1>0, <1>3, SpendingIs DEF Redeem, Contract!Spend
<1>4. ASSUME NEW p \in Posters, PostEnds(p)
      PROVE  StoredInv' /\ \A t \in Tickets : stored[t] # None => stored'[t] = stored[t]
  <2>1. PICK t \in Tickets, how \in {"completed", "failed"} :
          /\ p \in winner[t] /\ life[t] = "redeemed"
          /\ Contract!End(t) /\ life'[t] = how
          /\ stored' = [stored EXCEPT ![t] = IF how = "completed" THEN sent[p] ELSE @]
    BY <1>4 DEF PostEnds, Contract!End
  <2>2. PICK a \in Agents, way \in {"client", "page"} : p = <<a, way>>
    BY DEF Posters, Clients
  <2>3. sent[p] # None
    BY <2>1, <2>2 DEF SenderInv
  <2>4. \A u \in Tickets \ {t} : life'[u] = life[u] /\ stored'[u] = stored[u]
    BY <1>0, <2>1 DEF Contract!End
  <2>5. stored'[t] = IF how = "completed" THEN sent[p] ELSE stored[t]
    BY <1>0, <2>1
  <2> QED BY <1>0, <2>1, <2>3, <2>4, <2>5
<1>5. ASSUME NEW t \in Tickets, Forget(t) PROVE StoredInv' /\ stored' = stored
  BY <1>0, <1>5 DEF Forget, Contract!Forget
<1>6. ASSUME NEW c \in Resolvers, ClaimFile(c) PROVE StoredInv' /\ stored' = stored
  BY <1>0, <1>6 DEF ClaimFile, Contract!Take
<1> QED BY <1>1, <1>2, <1>3, <1>4, <1>5, <1>6, Actions DEF vars

(* A ticket once given to an agent stays its ticket.                       *)
LEMMA OwnStep ==
  ASSUME RoundsTypeOK, NEW a \in Agents, AgentInv,
         \/ AskRefused(a) \/ SendRaises(a) \/ SendReturns(a) \/ Answer(a) \/ Retry(a) \/ Resume(a)
  PROVE  /\ agent' \in [Agents -> Agent]
         /\ \A b \in Agents : agent'[b].ticket = agent[b].ticket
<1>1. agent \in [Agents -> Agent] /\ agent[a] \in Agent
  BY DEF RoundsTypeOK
<1>2. CASE AskRefused(a) \/ SendRaises(a)
  <2>1. Told(a, "refused") /\ "refused" \in Results
    BY <1>2 DEF AskRefused, SendRaises, Results
  <2>2. Became(a, [agent[a] EXCEPT !.at = "told", !.result = "refused"])
    BY <1>1, <2>1, ToldIs
  <2> QED BY <1>1, <2>2 DEF Became, Agent
<1>a. ASSUME NEW r, Became(a, r), r.ticket = agent[a].ticket
      PROVE  agent' \in [Agents -> Agent] /\ \A b \in Agents : agent'[b].ticket = agent[b].ticket
  BY <1>a DEF Became
<1>3. CASE SendReturns(a)
  <2> DEFINE content == stored[agent[a].ticket]
             told(result) == [agent[a] EXCEPT !.at = "told", !.result = result]
             retries == [agent[a] EXCEPT !.at = "retry", !.action = "accept", !.proof = content]
  <2>1. \/ Became(a, told("uri")) \/ Became(a, told("refused")) \/ Became(a, retries)
    BY <1>3, SendReturnsIs
  <2>2. \A result : told(result).ticket = agent[a].ticket
    BY <1>1 DEF Agent
  <2>3. retries.ticket = agent[a].ticket
    BY <1>1 DEF Agent
  <2> HIDE DEF told, retries
  <2> QED BY <1>a, <2>1, <2>2, <2>3
<1>4. CASE Answer(a)
  <2>1. PICK action \in {"accept", "decline", "cancel"}, proof \in Contents \cup {None} :
          Retries(a, action, proof)
    BY <1>4 DEF Answer
  <2>2. Became(a, [agent[a] EXCEPT !.at = "retry", !.action = action, !.proof = proof])
    BY <1>1, <2>1, RetriesIs
  <2> QED BY <1>1, <2>2 DEF Became, Agent
<1>5. CASE Retry(a)
  <2> DEFINE told(result) == [agent[a] EXCEPT !.at = "told", !.result = result]
             resumes(status) == [agent[a] EXCEPT !.at = "resume", !.seen = status]
  <2>1. \/ \E result : Became(a, told(result))
        \/ \E status : Became(a, resumes(status))
    BY <1>5, RetryIs
  <2>2. \A x : told(x).ticket = agent[a].ticket /\ resumes(x).ticket = agent[a].ticket
    BY <1>1 DEF Agent
  <2> HIDE DEF told, resumes
  <2> QED BY <1>a, <2>1, <2>2
<1>6. CASE Resume(a)
  <2>1. agent[a].seen # "none"
    BY <1>6 DEF AgentInv, Knows, Resume
  <2> DEFINE told == [agent[a] EXCEPT !.at = "told", !.result = agent[a].seen]
             asked == [agent[a] EXCEPT !.at = "asked", !.action = "none", !.proof = None,
                                       !.seen = "none"]
  <2>2. Became(a, told) \/ Became(a, asked)
    BY <1>6, <2>1, ResumeIs
  <2>3. told.ticket = agent[a].ticket /\ asked.ticket = agent[a].ticket
    BY <1>1 DEF Agent
  <2> HIDE DEF told, asked
  <2> QED BY <1>a, <2>2, <2>3
<1> QED BY <1>2, <1>3, <1>4, <1>5, <1>6

LEMMA OwnTicket ==
  ASSUME RoundsTypeOK, AgentInv, [Next]_vars
  PROVE  \A a \in Agents : (agent[a].at # "idle" \/ ~Asking) => agent'[a].ticket = agent[a].ticket
<1>1. agent \in [Agents -> Agent]
  BY DEF RoundsTypeOK
<1>2. CASE Quiet
  <2>1. CASE \E a \in Agents : FileChanges(a)
    BY <2>1 DEF FileChanges
  <2>2. CASE \/ \E t \in Tickets : Late(t)
             \/ \E c \in Resolvers : Resolve(c) \/ AskStatus(c)
    BY <2>2 DEF Late, Resolve, AskStatus
  <2>3. ASSUME NEW a \in Agents,
               \/ AskRefused(a) \/ SendRaises(a) \/ SendReturns(a) \/ Answer(a) \/ Retry(a) \/ Resume(a)
        PROVE  \A b \in Agents : agent'[b].ticket = agent[b].ticket
    BY <2>3, OwnStep
  <2> QED BY <1>2, <2>1, <2>2, <2>3 DEF Quiet
<1>3. ASSUME Asking, NEW a \in Agents, agent[a].at # "idle"
      PROVE  agent'[a].ticket = agent[a].ticket
  <2>1. PICK b \in Agents :
          agent[b].at = "idle" /\ \A c \in Agents \ {b} : agent'[c] = agent[c]
    <3>1. PICK b \in Agents, t \in Tickets :
            /\ agent[b].at = "idle"
            /\ \/ Became(b, [agent[b] EXCEPT !.at = "asked", !.ticket = t])
               \/ Became(b, [agent[b] EXCEPT !.at = "asked", !.ticket = t, !.hashed = file[b]])
      BY <1>3, AskingIs
    <3>2. \A c \in Agents \ {b} : agent'[c] = agent[c]
      BY <3>1 DEF Became
    <3> QED BY <3>1, <3>2
  <2>2. a # b
    BY <1>3, <2>1
  <2> QED BY <2>1, <2>2
<1>4. CASE Spending
  <2>1. PICK b \in Agents : \/ agent' = agent
                            \/ Became(b, [agent[b] EXCEPT !.at = "sending"])
    BY <1>4, SpendingIs
  <2>2. agent[b] \in Agent
    BY <1>1
  <2>3. [agent[b] EXCEPT !.at = "sending"].ticket = agent[b].ticket
    BY <2>2 DEF Agent
  <2> QED BY <2>1, <2>3 DEF Became
<1>5. CASE \/ \E p \in Posters : PostEnds(p)
           \/ \E t \in Tickets : Forget(t)
           \/ \E c \in Resolvers : ClaimFile(c)
           \/ UNCHANGED vars
  BY <1>5 DEF PostEnds, Forget, ClaimFile, vars
<1> QED BY <1>2, <1>3, <1>4, <1>5, Actions

LEMMA SenderStep ==
  ASSUME RoundsTypeOK, SenderInv, AgentInv, [Next]_vars
  PROVE  SenderInv'
<1> SUFFICES ASSUME NEW a \in Agents, NEW way \in {"client", "page"}, NEW t \in Tickets,
                    <<a, way>> \in winner'[t]
             PROVE  t = agent'[a].ticket /\ (life'[t] = "redeemed" => sent'[<<a, way>>] # None)
  BY DEF SenderInv
<1>0. /\ life \in [Tickets -> Contract!Lives] /\ winner \in [Tickets -> SUBSET Posters]
      /\ sent \in [Posters -> Contents \cup {None}] /\ None \notin Contents /\ None \notin Tickets
  BY RoundsAssumption DEF RoundsTypeOK, Contract!ContractTypeOK, RoundsAssumption
<1>1. <<a, way>> \in winner[t] =>
        t = agent[a].ticket /\ (life[t] = "redeemed" => sent[<<a, way>>] # None)
  BY DEF SenderInv
<1>2. CASE Quiet \/ UNCHANGED vars
  <2>1. UNCHANGED <<life, winner, sent>>
    BY <1>2, QuietKeeps DEF vars, ticketVars
  <2>2. agent'[a].ticket = agent[a].ticket
    <3>1. CASE Asking
      BY <1>0, <1>1, <2>1, <3>1, AskingIs DEF Asked, Contract!Issue, Contract!Lives
    <3>2. CASE ~Asking
      BY <3>2, OwnTicket
    <3> QED BY <3>1, <3>2
  <2> QED BY <1>1, <2>1, <2>2
<1>3. CASE Asking
  <2>1. PICK b \in Agents, u \in Tickets, content \in Contents \cup {None} :
          Asked(b, u, content) /\ agent[b].at = "idle"
    BY <1>3, AskingIs
  <2>2. UNCHANGED <<winner, sent>> /\ (life'[t] = "redeemed" => life[t] = "redeemed")
    BY <1>0, <2>1 DEF Asked, Contract!Issue
  <2>3. agent[a].at # "idle"
    BY <1>0, <1>1, <2>2 DEF AgentInv, Knows
  <2> QED BY <1>1, <2>2, <2>3, OwnTicket
<1>4. CASE Spending /\ ~Asking
  <2>1. PICK b \in Agents, by \in {"client", "page"}, content \in Contents :
          /\ agent[b].ticket \in Tickets /\ <<b, by>> \in Posters
          /\ Redeem(<<b, by>>, agent[b].ticket, content)
    BY <1>4, SpendingIs
  <2>2. agent'[a].ticket = agent[a].ticket
    BY <1>4, OwnTicket
  <2>3. /\ winner' = [winner EXCEPT ![agent[b].ticket] = {<<b, by>>}]
        /\ sent' = [sent EXCEPT ![<<b, by>>] = content]
        /\ life' = [life EXCEPT ![agent[b].ticket] = "redeemed"]
    BY <2>1 DEF Redeem, Contract!Spend
  <2>4. CASE t = agent[b].ticket
    <3>1. <<a, way>> = <<b, by>>
      BY <1>0, <2>3, <2>4
    <3>2. sent'[<<a, way>>] = content /\ a = b
      BY <1>0, <2>1, <2>3, <3>1
    <3> QED BY <1>0, <2>2, <2>4, <3>2
  <2>5. CASE t # agent[b].ticket
    <3>1. winner'[t] = winner[t] /\ life'[t] = life[t]
      BY <1>0, <2>3, <2>5
    <3>2. sent[<<a, way>>] # None => sent'[<<a, way>>] # None
      BY <1>0, <2>1, <2>3
    <3> QED BY <1>1, <2>2, <3>1, <3>2
  <2> QED BY <2>4, <2>5
<1>5. ASSUME NEW p \in Posters, PostEnds(p)
      PROVE  t = agent'[a].ticket /\ (life'[t] = "redeemed" => sent'[<<a, way>>] # None)
  <2>1. PICK u \in Tickets :
          /\ p \in winner[u] /\ Contract!End(u) /\ life'[u] # "redeemed"
          /\ sent' = [sent EXCEPT ![p] = None] /\ agent' = agent
    BY <1>5 DEF PostEnds
  <2>2. winner' = winner /\ (life'[t] = "redeemed" => life[t] = "redeemed")
    BY <1>0, <2>1 DEF Contract!End
  <2>3. CASE p = <<a, way>>
    <3>1. u = agent[a].ticket
      BY <2>1, <2>3 DEF SenderInv
    <3> QED BY <1>1, <2>1, <2>2, <3>1
  <2>4. CASE p # <<a, way>>
    <3>1. sent'[<<a, way>>] = sent[<<a, way>>] \/ <<a, way>> \notin Posters
      BY <1>0, <2>1, <2>4
    <3>2. <<a, way>> \in Posters
      BY DEF Posters, Clients
    <3> QED BY <1>1, <2>1, <2>2, <3>1, <3>2
  <2> QED BY <2>3, <2>4
<1>6. ASSUME NEW u \in Tickets, Forget(u)
      PROVE  t = agent'[a].ticket /\ (life'[t] = "redeemed" => sent'[<<a, way>>] # None)
  BY <1>0, <1>1, <1>6 DEF Forget, Contract!Forget
<1>7. ASSUME NEW c \in Resolvers, ClaimFile(c)
      PROVE  t = agent'[a].ticket /\ (life'[t] = "redeemed" => sent'[<<a, way>>] # None)
  <2>1. CASE \E u \in Tickets : Contract!Take(u, c)
    BY <1>0, <1>1, <1>7, <2>1 DEF ClaimFile, Contract!Take
  <2>2. CASE UNCHANGED <<life, winner, taker>>
    BY <1>1, <1>7, <2>2 DEF ClaimFile
  <2>3. CASE Contract!Take(call[c].ticket, c) /\ call[c].ticket \notin Tickets
    BY <1>0, <1>1, <1>7, <2>3 DEF ClaimFile, Contract!Take
  <2> QED BY <1>7, <2>1, <2>2, <2>3 DEF ClaimFile
<1> QED BY <1>2, <1>3, <1>4, <1>5, <1>6, <1>7, Actions

----------------------------------------------------------------------------
(* What an agent knows.  Another agent's step leaves it alone, as what is  *)
(* stored stays.                                                           *)
LEMMA KnowsFrame ==
  ASSUME RoundsTypeOK, NEW a \in Agents, Knows(a), agent'[a] = agent[a],
         reply'[<<a, "client">>] = "completed" =>
           \/ reply[<<a, "client">>] = "completed"
           \/ agent[a].ticket \in Tickets /\ stored'[agent[a].ticket] # None,
         \A t \in Tickets : stored[t] # None => stored'[t] = stored[t]
  PROVE  Knows(a)'
BY DEF Knows

(* An agent that goes on, or is told what carries no promise.              *)
LEMMA KnowsOn ==
  ASSUME RoundsTypeOK, NEW a \in Agents, Knows(a), NEW r \in Agent, Became(a, r),
         r.ticket = agent[a].ticket, r.hashed = agent[a].hashed,
         agent[a].at # "told", r.at # "idle", agent[a].at = "idle" => r.at = "told",
         r.at = "resume" => r.seen # "none",
         r.at = "told" => r.result \notin {"uri", "completed", "claimed"},
         r.at # "told" => r.result = agent[a].result,
         reply' = reply, stored' = stored
  PROVE  Knows(a)'
BY DEF Knows, Became

LEMMA AgentStepKnows ==
  ASSUME RoundsTypeOK, StoredInv, AgentInv, NEW a \in Agents,
         \/ AskRefused(a) \/ SendRaises(a) \/ SendReturns(a) \/ Answer(a) \/ Retry(a) \/ Resume(a)
  PROVE  Knows(a)' /\ \A b \in Agents \ {a} : agent'[b] = agent[b]
<1>1. agent \in [Agents -> Agent] /\ agent[a] \in Agent /\ Knows(a)
  BY DEF RoundsTypeOK, AgentInv
<1>2. reply' = reply /\ stored' = stored
  BY DEF AskRefused, SendRaises, SendReturns, Answer, Retry, Resume, ticketVars
<1> DEFINE told(result) == [agent[a] EXCEPT !.at = "told", !.result = result]
<1>3. \A result \in Results :
        /\ told(result) \in Agent
        /\ told(result).ticket = agent[a].ticket /\ told(result).hashed = agent[a].hashed
        /\ told(result).proof = agent[a].proof
        /\ told(result).at = "told" /\ told(result).result = result
  BY <1>1 DEF Agent, Results
<1>4. ASSUME NEW result \in Results \ {"uri", "completed", "claimed"}, Became(a, told(result)),
             agent[a].at # "told"
      PROVE  Knows(a)'
  <2> HIDE DEF told
  <2> QED BY <1>1, <1>2, <1>3, <1>4, KnowsOn
<1>5. CASE AskRefused(a) \/ SendRaises(a)
  <2>1. Told(a, "refused") /\ "refused" \in Results /\ agent[a].at # "told"
    BY <1>5 DEF AskRefused, SendRaises, Results
  <2>2. Became(a, told("refused"))
    BY <1>1, <2>1, ToldIs
  <2> QED BY <1>4, <2>1, <2>2 DEF Became
<1>6. CASE SendReturns(a)
  <2> DEFINE t == agent[a].ticket
             retries == [agent[a] EXCEPT !.at = "retry", !.action = "accept", !.proof = stored[t]]
  <2>1. agent[a].at = "sending" /\ t \in Tickets /\ stored[t] # None /\ stored[t] \in Contents
    BY <1>1, <1>6 DEF SendReturns, Knows, RoundsTypeOK
  <2>2. \/ stored[t] = agent[a].hashed /\ Became(a, told("uri"))
        \/ Became(a, told("refused"))
        \/ Became(a, retries)
    BY <1>6, SendReturnsIs
  <2>3. CASE stored[t] = agent[a].hashed /\ Became(a, told("uri"))
    <3>1. "uri" \in Results
      BY DEF Results
    <3> HIDE DEF told
    <3> QED BY <1>1, <1>2, <1>3, <2>1, <2>3, <3>1 DEF Knows, Became
  <2>4. CASE Became(a, told("refused"))
    <3>1. "refused" \in Results
      BY DEF Results
    <3>2. Knows(a)'
      <4> HIDE DEF told
      <4> QED BY <1>4, <2>1, <2>4, <3>1
    <3> QED BY <2>4, <3>2 DEF Became
  <2>5. CASE Became(a, retries)
    <3>1. /\ retries \in Agent /\ retries.ticket = t /\ retries.hashed = agent[a].hashed
          /\ retries.at = "retry" /\ retries.result = agent[a].result
      BY <1>1, <2>1 DEF Agent
    <3> HIDE DEF retries
    <3> QED BY <1>1, <1>2, <2>1, <2>5, <3>1, KnowsOn DEF Became
  <2> QED BY <2>2, <2>3, <2>4, <2>5
<1>7. CASE Answer(a)
  <2>1. PICK action \in {"accept", "decline", "cancel"}, proof \in Contents \cup {None} :
          Retries(a, action, proof)
    BY <1>7 DEF Answer
  <2> DEFINE retries == [agent[a] EXCEPT !.at = "retry", !.action = action, !.proof = proof]
  <2>2. Became(a, retries)
    BY <1>1, <2>1, RetriesIs
  <2>3. /\ retries \in Agent /\ retries.ticket = agent[a].ticket
        /\ retries.hashed = agent[a].hashed
        /\ retries.at = "retry" /\ retries.result = agent[a].result
    BY <1>1 DEF Agent
  <2>4. agent[a].at \notin {"idle", "told"}
    BY <1>7 DEF Answer
  <2> HIDE DEF retries
  <2> QED BY <1>1, <1>2, <2>2, <2>3, <2>4, KnowsOn DEF Became
<1>8. CASE Retry(a)
  <2> DEFINE t == agent[a].ticket
             resumes(status) == [agent[a] EXCEPT !.at = "resume", !.seen = status]
  <2>1. agent[a].at = "retry" /\ t \in Tickets
    BY <1>1, <1>8 DEF Retry, Knows
  <2>2. \/ \E result \in Results \ {"uri"} :
              /\ Became(a, told(result))
              /\ result \in {"completed", "claimed"} => Status(t) = result /\ ~Mismatch(a, t)
        \/ \E status \in {"issued", "redeemed"} : Became(a, resumes(status))
    BY <1>8, RetryIs
  <2>3. ASSUME NEW result \in {"completed", "claimed"}, Became(a, told(result)),
               Status(t) = result, ~Mismatch(a, t)
        PROVE  Knows(a)'
    <3>1. stored[t] # None
      BY <2>1, <2>3 DEF Status, StoredInv
    <3>2. agent[a].proof \in {None, stored[t]}
      BY <2>3 DEF Mismatch
    <3>3. result \in Results
      BY <2>3 DEF Results
    <3> HIDE DEF told
    <3> QED BY <1>1, <1>2, <1>3, <2>1, <2>3, <3>1, <3>2, <3>3 DEF Knows, Became
  <2>4. ASSUME NEW status \in {"issued", "redeemed"}, Became(a, resumes(status))
        PROVE  Knows(a)'
    <3>1. /\ resumes(status) \in Agent /\ resumes(status).ticket = t
          /\ resumes(status).hashed = agent[a].hashed /\ resumes(status).seen = status
          /\ resumes(status).at = "resume" /\ resumes(status).result = agent[a].result
      BY <1>1 DEF Agent
    <3> HIDE DEF resumes
    <3> QED BY <1>1, <1>2, <2>1, <2>4, <3>1, KnowsOn
  <2> HIDE DEF told, resumes
  <2> QED BY <1>4, <2>1, <2>2, <2>3, <2>4 DEF Became
<1>9. CASE Resume(a)
  <2>1. agent[a].seen # "none" /\ agent[a].at = "resume"
    BY <1>1, <1>9 DEF Knows, Resume
  <2>2. agent[a].seen \in Results \ {"uri", "completed", "claimed"}
    BY <1>1, <2>1 DEF Agent, Results
  <2> DEFINE asked == [agent[a] EXCEPT !.at = "asked", !.action = "none", !.proof = None,
                                       !.seen = "none"]
  <2>3. Became(a, told(agent[a].seen)) \/ Became(a, asked)
    BY <1>9, <2>1, ResumeIs
  <2>4. CASE Became(a, told(agent[a].seen))
    BY <1>4, <2>1, <2>2, <2>4 DEF Became
  <2>5. CASE Became(a, asked)
    <3>1. /\ asked \in Agent /\ asked.ticket = agent[a].ticket /\ asked.hashed = agent[a].hashed
          /\ asked.at = "asked" /\ asked.result = agent[a].result
      BY <1>1 DEF Agent
    <3> HIDE DEF asked
    <3> QED BY <1>1, <1>2, <2>1, <2>5, <3>1, KnowsOn DEF Became
  <2> QED BY <2>3, <2>4, <2>5
<1> QED BY <1>5, <1>6, <1>7, <1>8, <1>9

LEMMA AgentInvStep ==
  ASSUME RoundsTypeOK, StoredInv, SenderInv, AgentInv, [Next]_vars
  PROVE  AgentInv'
<1>0. /\ agent \in [Agents -> Agent] /\ reply \in [Clients -> {"none", "completed", "failed"}]
      /\ stored \in [Tickets -> Contents \cup {None}] /\ None \notin Tickets
      /\ \A t \in Tickets : stored[t] # None => stored'[t] = stored[t]
  BY StoredStep, RoundsAssumption DEF RoundsTypeOK, RoundsAssumption
<1> SUFFICES ASSUME NEW a \in Agents PROVE Knows(a)'
  BY DEF AgentInv
<1>1. Knows(a)
  BY DEF AgentInv
<1>2. ASSUME agent'[a] = agent[a], reply' = reply PROVE Knows(a)'
  BY <1>0, <1>1, <1>2, KnowsFrame
<1>3. CASE Quiet
  <2>1. reply' = reply
    BY <1>3, QuietKeeps
  <2>2. CASE \/ \E b \in Agents : FileChanges(b)
             \/ \E t \in Tickets : Late(t)
             \/ \E c \in Resolvers : Resolve(c) \/ AskStatus(c)
    BY <1>2, <2>1, <2>2 DEF FileChanges, Late, Resolve, AskStatus
  <2>3. ASSUME NEW b \in Agents,
               \/ AskRefused(b) \/ SendRaises(b) \/ SendReturns(b) \/ Answer(b) \/ Retry(b) \/ Resume(b)
        PROVE  Knows(a)'
    BY <1>2, <2>1, <2>3, AgentStepKnows
  <2> QED BY <1>3, <2>2, <2>3 DEF Quiet
<1>4. CASE Asking
  <2>1. PICK b \in Agents, t \in Tickets, content \in Contents \cup {None} :
          /\ Asked(b, t, content) /\ agent[b].at = "idle"
          /\ \/ Became(b, [agent[b] EXCEPT !.at = "asked", !.ticket = t])
             \/ Became(b, [agent[b] EXCEPT !.at = "asked", !.ticket = t, !.hashed = file[b]])
    BY <1>4, AskingIs
  <2>2. reply' = reply
    BY <2>1 DEF Asked
  <2>3. CASE a # b
    BY <1>2, <2>1, <2>2, <2>3 DEF Became
  <2>4. CASE a = b
    <3>1. agent[b] \in Agent /\ agent[b].result = "none" /\ reply[<<b, "client">>] # "completed"
      BY <1>0, <1>1, <2>1, <2>4 DEF Knows
    <3>2. agent'[b].at = "asked" /\ agent'[b].ticket = t /\ agent'[b].result = agent[b].result
      BY <2>1, <3>1 DEF Became, Agent
    <3> QED BY <2>2, <2>4, <3>1, <3>2 DEF Knows
  <2> QED BY <2>3, <2>4
<1>5. CASE Spending
  <2>1. PICK b \in Agents :
          /\ \/ agent' = agent
             \/ Became(b, [agent[b] EXCEPT !.at = "sending"]) /\ agent[b].at = "asked"
          /\ reply' = reply /\ stored' = stored
    BY <1>5, SpendingIs
  <2>2. CASE agent'[a] = agent[a]
    BY <1>2, <2>1, <2>2
  <2>3. CASE Became(b, [agent[b] EXCEPT !.at = "sending"]) /\ agent[b].at = "asked" /\ a = b
    <3> DEFINE sending == [agent[a] EXCEPT !.at = "sending"]
    <3>1. agent[a] \in Agent
      BY <1>0
    <3>2. /\ sending \in Agent /\ sending.ticket = agent[a].ticket
          /\ sending.hashed = agent[a].hashed
          /\ sending.at = "sending" /\ sending.result = agent[a].result
      BY <3>1 DEF Agent
    <3>3. Became(a, sending) /\ agent[a].at = "asked"
      BY <2>3
    <3> HIDE DEF sending
    <3> QED BY <1>1, <2>1, <3>2, <3>3, KnowsOn
  <2> QED BY <2>1, <2>2, <2>3 DEF Became
<1>6. ASSUME NEW p \in Posters, PostEnds(p) PROVE Knows(a)'
  <2>1. PICK t \in Tickets, how \in {"completed", "failed"} :
          /\ p \in winner[t] /\ Contract!End(t) /\ agent' = agent
          /\ stored' = [stored EXCEPT ![t] = IF how = "completed" THEN sent[p] ELSE @]
          /\ reply' = IF p \in Clients THEN [reply EXCEPT ![p] = how] ELSE reply
    BY <1>6 DEF PostEnds
  <2>2. CASE p = <<a, "client">> /\ how = "completed"
    <3>1. t = agent[a].ticket /\ sent[p] # None
      BY <2>1, <2>2 DEF SenderInv, Contract!End
    <3>2. stored'[t] # None
      BY <1>0, <2>1, <2>2, <3>1
    <3> QED BY <1>0, <1>1, <2>1, <3>1, <3>2, KnowsFrame
  <2>3. CASE ~(p = <<a, "client">> /\ how = "completed")
    <3>1. reply'[<<a, "client">>] = "completed" => reply[<<a, "client">>] = "completed"
      <4>1. <<a, "client">> \in Clients
        BY DEF Clients
      <4> QED BY <1>0, <2>1, <2>3, <4>1
    <3> QED BY <1>0, <1>1, <2>1, <3>1, KnowsFrame
  <2> QED BY <2>2, <2>3
<1>7. CASE \/ \E t \in Tickets : Forget(t)
           \/ \E c \in Resolvers : ClaimFile(c)
           \/ UNCHANGED vars
  BY <1>2, <1>7 DEF Forget, ClaimFile, vars
<1> QED BY <1>3, <1>4, <1>5, <1>6, <1>7, Actions

----------------------------------------------------------------------------
(* Every variable stays in its type.                                       *)
LEMMA AgentTypes ==
  ASSUME RoundsTypeOK, AgentInv, [Next]_vars
  PROVE  agent' \in [Agents -> Agent]
<1>1. CASE Quiet
  <2>1. CASE \/ \E b \in Agents : FileChanges(b)
             \/ \E t \in Tickets : Late(t)
             \/ \E c \in Resolvers : Resolve(c) \/ AskStatus(c)
    BY <2>1 DEF FileChanges, Late, Resolve, AskStatus, RoundsTypeOK
  <2>2. ASSUME NEW b \in Agents,
               \/ AskRefused(b) \/ SendRaises(b) \/ SendReturns(b) \/ Answer(b) \/ Retry(b) \/ Resume(b)
        PROVE  agent' \in [Agents -> Agent]
    BY <2>2, OwnStep
  <2> QED BY <1>1, <2>1, <2>2 DEF Quiet
<1>2. CASE Asking
  BY <1>2, AskingIs DEF Became
<1>3. CASE Spending
  BY <1>3, SpendingIs DEF Became, RoundsTypeOK
<1>4. CASE \/ \E p \in Posters : PostEnds(p)
           \/ \E t \in Tickets : Forget(t)
           \/ \E c \in Resolvers : ClaimFile(c)
           \/ UNCHANGED vars
  BY <1>4 DEF PostEnds, Forget, ClaimFile, vars, RoundsTypeOK
<1> QED BY <1>1, <1>2, <1>3, <1>4, Actions

(* The record of one call becomes r.                                       *)
Call == [at : {"new", "claim", "status", "done"}, ticket : Tickets \cup {None}, claim : BOOLEAN,
         answer : Reasons \cup {"none", "file"}]
CallBecame(c, r) ==
  /\ call' \in [Resolvers -> Call]
  /\ call'[c] = r
  /\ \A d \in Resolvers \ {c} : call'[d] = call[d]

LEMMA CallBecomesIt ==
  ASSUME call \in [Resolvers -> Call], NEW c \in Resolvers, NEW r \in Call,
         call' = [call EXCEPT ![c] = r]
  PROVE  CallBecame(c, r)
BY DEF CallBecame

LEMMA AnswersIs ==
  ASSUME call \in [Resolvers -> Call], NEW c \in Resolvers, NEW answer \in Reasons \cup {"file"},
         Answers(c, answer)
  PROVE  CallBecame(c, [call[c] EXCEPT !.at = "done", !.answer = answer])
<1> DEFINE r == [call[c] EXCEPT !.at = "done", !.answer = answer]
<1>1. call[c] \in Call
  OBVIOUS
<1>2. r \in Call
  BY <1>1 DEF Call
<1>3. call' = [call EXCEPT ![c] = r]
  BY DEF Answers
<1> QED BY <1>2, <1>3, CallBecomesIt

LEMMA AwaitsIs ==
  ASSUME call \in [Resolvers -> Call], NEW c \in Resolvers, Awaits(c, "status")
  PROVE  CallBecame(c, [call[c] EXCEPT !.at = "status"])
<1> DEFINE r == [call[c] EXCEPT !.at = "status"]
<1>1. call[c] \in Call
  OBVIOUS
<1>2. r \in Call
  BY <1>1 DEF Call
<1>3. call' = [call EXCEPT ![c] = r]
  BY DEF Awaits
<1> QED BY <1>2, <1>3, CallBecomesIt

(* What a step makes of one call, by its fields.                           *)
CallGoes(c, at, answer) ==
  /\ call' \in [Resolvers -> Call]
  /\ call'[c].ticket = call[c].ticket /\ call'[c].claim = call[c].claim
  /\ call'[c].at = at /\ call'[c].answer = answer
  /\ \A d \in Resolvers \ {c} : call'[d] = call[d]

LEMMA AnswersGoes ==
  ASSUME call \in [Resolvers -> Call], NEW c \in Resolvers, NEW answer \in Reasons \cup {"file"},
         Answers(c, answer)
  PROVE  CallGoes(c, "done", answer)
<1> DEFINE r == [call[c] EXCEPT !.at = "done", !.answer = answer]
<1>1. CallBecame(c, r)
  BY AnswersIs
<1>2. call[c] \in Call
  OBVIOUS
<1>3. r.ticket = call[c].ticket /\ r.claim = call[c].claim /\ r.at = "done" /\ r.answer = answer
  BY <1>2 DEF Call
<1> HIDE DEF r
<1> QED BY <1>1, <1>3 DEF CallBecame, CallGoes

LEMMA AwaitsGoes ==
  ASSUME call \in [Resolvers -> Call], NEW c \in Resolvers, Awaits(c, "status")
  PROVE  CallGoes(c, "status", call[c].answer)
<1> DEFINE r == [call[c] EXCEPT !.at = "status"]
<1>1. CallBecame(c, r)
  BY AwaitsIs
<1>2. call[c] \in Call
  OBVIOUS
<1>3. r.ticket = call[c].ticket /\ r.claim = call[c].claim /\ r.at = "status"
      /\ r.answer = call[c].answer
  BY <1>2 DEF Call
<1> HIDE DEF r
<1> QED BY <1>1, <1>3 DEF CallBecame, CallGoes

LEMMA ResolveGoes ==
  ASSUME RoundsTypeOK, NEW c \in Resolvers, Resolve(c)
  PROVE  /\ call' \in [Resolvers -> Call]
         /\ call[c].at = "new" /\ call'[c].ticket \in Tickets
         /\ call'[c].claim = call[c].claim /\ call'[c].answer = call[c].answer
         /\ call'[c].at = IF call[c].claim THEN "claim" ELSE "status"
         /\ \A d \in Resolvers \ {c} : call'[d] = call[d]
<1>1. call \in [Resolvers -> Call] /\ agent \in [Agents -> Agent]
  BY DEF RoundsTypeOK, Call
<1>2. Known \subseteq Tickets
  BY <1>1 DEF Known, Agent
<1>3. PICK t \in Tickets :
        call' = [call EXCEPT ![c].ticket = t, ![c].at = IF call[c].claim THEN "claim" ELSE "status"]
  BY <1>2 DEF Resolve
<1> DEFINE at == IF call[c].claim THEN "claim" ELSE "status"
           r == [call[c] EXCEPT !.ticket = t, !.at = at]
<1>4. call[c] \in Call /\ at \in {"claim", "status"}
  BY <1>1
<1>5. /\ r \in Call /\ r.ticket = t /\ r.at = at /\ r.claim = call[c].claim
      /\ r.answer = call[c].answer
  <2> HIDE DEF at
  <2> QED BY <1>4 DEF Call
<1>6. call' = [call EXCEPT ![c] = r]
  BY <1>1, <1>3
<1>7. CallBecame(c, r)
  <2> HIDE DEF r
  <2> QED BY <1>1, <1>5, <1>6, CallBecomesIt
<1>8. call[c].at = "new"
  BY DEF Resolve
<1> HIDE DEF r
<1> QED BY <1>5, <1>7, <1>8 DEF CallBecame

(* What ClaimFile and AskStatus do.                                        *)
LEMMA ClaimGoes ==
  ASSUME RoundsTypeOK, TakeInv, NEW c \in Resolvers, ClaimFile(c)
  PROVE  LET t == call[c].ticket IN
         /\ call[c].at = "claim" /\ t \in Tickets
         /\ \/ Contract!Take(t, c) /\ CallGoes(c, "done", "file")
            \/ /\ life[t] = "gone" /\ CallGoes(c, "done", "not_found")
               /\ UNCHANGED <<life, winner, taker>>
            \/ /\ life[t] = "claimed" /\ CallGoes(c, "done", "already_claimed")
               /\ UNCHANGED <<life, winner, taker>>
            \/ /\ life[t] \notin {"completed", "gone", "claimed"}
               /\ CallGoes(c, "status", "none")
               /\ UNCHANGED <<life, winner, taker>>
<1> DEFINE t == call[c].ticket
<1>1. call \in [Resolvers -> Call]
  BY DEF RoundsTypeOK, Call
<1>2. call[c].at = "claim" /\ t \in Tickets /\ call[c].answer = "none"
  BY DEF ClaimFile, TakeInv
<1>3. \/ Contract!Take(t, c) /\ Answers(c, "file")
      \/ /\ life[t] = "gone" /\ Answers(c, "not_found") /\ UNCHANGED <<life, winner, taker>>
      \/ /\ life[t] = "claimed" /\ Answers(c, "already_claimed")
         /\ UNCHANGED <<life, winner, taker>>
      \/ /\ life[t] \notin {"completed", "gone", "claimed"} /\ Awaits(c, "status")
         /\ UNCHANGED <<life, winner, taker>>
  BY DEF ClaimFile
<1> QED BY <1>1, <1>2, <1>3, AnswersGoes, AwaitsGoes DEF Reasons

LEMMA StatusGoes ==
  ASSUME RoundsTypeOK, TakeInv, NEW c \in Resolvers, AskStatus(c)
  PROVE  LET status == Status(call[c].ticket) IN
         /\ call[c].at = "status" /\ call[c].ticket \in Tickets
         /\ UNCHANGED <<life, winner, taker>>
         /\ \/ status = "failed" /\ CallGoes(c, "done", "failed")
            \/ /\ ~call[c].claim /\ status \in {"completed", "claimed"}
               /\ CallGoes(c, "done", "file")
            \/ /\ ~call[c].claim /\ status = "unknown"
               /\ CallGoes(c, "done", "not_found")
            \/ /\ status # "failed" /\ CallGoes(c, "done", "not_completed")
               /\ ~call[c].claim => status \notin {"completed", "claimed", "unknown"}
<1> DEFINE status == Status(call[c].ticket)
<1>1. call \in [Resolvers -> Call]
  BY DEF RoundsTypeOK, Call
<1>2. call[c].at = "status" /\ call[c].ticket \in Tickets /\ UNCHANGED <<life, winner, taker>>
  BY DEF AskStatus, TakeInv, ticketVars
<1>3. \/ status = "failed" /\ Answers(c, "failed")
      \/ ~call[c].claim /\ status \in {"completed", "claimed"} /\ Answers(c, "file")
      \/ ~call[c].claim /\ status = "unknown" /\ Answers(c, "not_found")
      \/ /\ status # "failed" /\ Answers(c, "not_completed")
         /\ ~call[c].claim => status \notin {"completed", "claimed", "unknown"}
  <2> HIDE DEF status
  <2> QED BY DEF AskStatus, status
<1> QED BY <1>1, <1>2, <1>3, AnswersGoes DEF Reasons

(* Every other action leaves the calls and the takers alone.               *)
LEMMA CallsKept ==
  ASSUME [Next]_vars
  PROVE  \/ call' = call /\ taker' = taker
         \/ \E c \in Resolvers : Resolve(c) \/ ClaimFile(c) \/ AskStatus(c)
<1> USE DEF ticketVars
<1>1. ASSUME NEW a \in Agents, \/ AskFirst(a) \/ Authorize(a) \/ AskRefused(a) \/ Client(a)
                               \/ Looks(a) \/ PageUpload(a) \/ FileChanges(a)
      PROVE  call' = call /\ taker' = taker
  BY <1>1 DEF AskFirst, Authorize, AskRefused, Client, Sends, SendFile, Answer, SendReturns,
              SendRaises, Looks, Retry, Resume, PageUpload, FileChanges, Asked, Redeem,
              Contract!Issue, Contract!Spend
<1>2. ASSUME NEW p \in Posters, PostEnds(p) PROVE call' = call /\ taker' = taker
  BY <1>2 DEF PostEnds, Contract!End
<1>3. ASSUME NEW t \in Tickets, Late(t) \/ Forget(t) PROVE call' = call /\ taker' = taker
  BY <1>3 DEF Late, Forget, Contract!Forget
<1> QED BY <1>1, <1>2, <1>3 DEF Next, vars

LEMMA CouldTypes ==
  ASSUME could \in [Resolvers -> SUBSET (Reasons \cup {"file"})], Observe
  PROVE  could' \in [Resolvers -> SUBSET (Reasons \cup {"file"})]
<1>1. \A c \in Resolvers : Right(c)' \subseteq Reasons \cup {"file"}
  BY DEF Right, Reasons
<1> QED BY <1>1 DEF Observe

LEMMA RoundsTypeStep ==
  ASSUME RoundsTypeOK, TakeInv, AgentInv, [Next]_vars
  PROVE  RoundsTypeOK'
<1>1. agent' \in [Agents -> Agent]
  BY AgentTypes
<1>2. call' \in [Resolvers -> Call]
  BY CallsKept, ResolveGoes, ClaimGoes, StatusGoes DEF CallGoes, RoundsTypeOK, Call
<1>3. could' \in [Resolvers -> SUBSET (Reasons \cup {"file"})]
  BY CouldTypes DEF RoundsTypeOK, Next, vars
<1>4. CASE Quiet
  <2>1. UNCHANGED <<life, winner, taker, declared, stored, sent, reply>>
    BY <1>4, QuietKeeps
  <2>2. Contract!ContractTypeOK'
    BY <2>1, ContractTypes DEF RoundsTypeOK
  <2>3. late' \subseteq Tickets /\ file' \in [Agents -> Contents]
    BY <1>4 DEF Quiet, RoundsTypeOK, AskRefused, SendRaises, SendReturns, Answer, Retry, Resume,
                FileChanges, Late, Resolve, AskStatus, ticketVars
  <2> QED BY <1>1, <1>2, <1>3, <2>1, <2>2, <2>3 DEF RoundsTypeOK, Call
<1>5. CASE Asking
  <2>1. PICK a \in Agents, t \in Tickets, content \in Contents \cup {None} : Asked(a, t, content)
    BY <1>5, AskingIs
  <2>2. Contract!ContractTypeOK'
    BY <2>1, ContractTypes DEF RoundsTypeOK, Asked
  <2>3. /\ declared' \in [Tickets -> Contents \cup {None}]
        /\ UNCHANGED <<late, stored, file, sent, reply>>
    BY <2>1 DEF Asked, RoundsTypeOK
  <2> QED BY <1>1, <1>2, <1>3, <2>2, <2>3 DEF RoundsTypeOK, Call
<1>6. CASE Spending
  <2>1. PICK a \in Agents, way \in {"client", "page"}, content \in Contents :
          /\ agent[a].ticket \in Tickets /\ <<a, way>> \in Posters
          /\ Redeem(<<a, way>>, agent[a].ticket, content)
          /\ UNCHANGED <<declared, stored, file, reply>>
    BY <1>6, SpendingIs
  <2>2. Contract!ContractTypeOK'
    BY <2>1, ContractTypes DEF RoundsTypeOK, Redeem
  <2>3. sent' \in [Posters -> Contents \cup {None}] /\ late' \subseteq Tickets
    BY <2>1 DEF Redeem, RoundsTypeOK
  <2> QED BY <1>1, <1>2, <1>3, <2>1, <2>2, <2>3 DEF RoundsTypeOK, Call
<1>7. ASSUME NEW p \in Posters, PostEnds(p) PROVE RoundsTypeOK'
  <2>1. PICK t \in Tickets, how \in {"completed", "failed"} :
          /\ Contract!End(t)
          /\ stored' = [stored EXCEPT ![t] = IF how = "completed" THEN sent[p] ELSE @]
          /\ sent' = [sent EXCEPT ![p] = None]
          /\ reply' = IF p \in Clients THEN [reply EXCEPT ![p] = how] ELSE reply
          /\ UNCHANGED <<late, declared, file>>
    BY <1>7 DEF PostEnds
  <2>2. Contract!ContractTypeOK'
    BY <2>1, ContractTypes DEF RoundsTypeOK
  <2>3. sent[p] \in Contents \cup {None}
    BY DEF RoundsTypeOK
  <2>4. /\ stored' \in [Tickets -> Contents \cup {None}]
        /\ sent' \in [Posters -> Contents \cup {None}]
        /\ reply' \in [Clients -> {"none", "completed", "failed"}]
    BY <2>1, <2>3 DEF RoundsTypeOK
  <2> QED BY <1>1, <1>2, <1>3, <2>1, <2>2, <2>4 DEF RoundsTypeOK, Call
<1>8. ASSUME NEW t \in Tickets, Forget(t) PROVE RoundsTypeOK'
  <2>1. Contract!ContractTypeOK'
    BY <1>8, ContractTypes DEF RoundsTypeOK, Forget
  <2> QED BY <1>1, <1>2, <1>3, <1>8, <2>1 DEF Forget, RoundsTypeOK, Call
<1>9. ASSUME NEW c \in Resolvers, ClaimFile(c) PROVE RoundsTypeOK'
  <2>1. Contract!ContractTypeOK'
    BY <1>9, ClaimGoes, ContractTypes DEF RoundsTypeOK
  <2> QED BY <1>1, <1>2, <1>3, <1>9, <2>1 DEF ClaimFile, RoundsTypeOK, Call
<1>10. CASE UNCHANGED vars
  BY <1>10 DEF vars, ticketVars, RoundsTypeOK, Contract!ContractTypeOK
<1> QED BY <1>4, <1>5, <1>6, <1>7, <1>8, <1>9, <1>10, Actions

----------------------------------------------------------------------------
(* Claims, and what a resolver saw.                                        *)
LEMMA TakeStep ==
  ASSUME RoundsTypeOK, TakeInv, [Next]_vars
  PROVE  TakeInv'
<1>0. taker \in [Tickets -> SUBSET Resolvers]
  BY DEF RoundsTypeOK, Contract!ContractTypeOK
<1>1. CASE call' = call /\ taker' = taker
  BY <1>1 DEF TakeInv, Took
<1>2. ASSUME NEW c \in Resolvers, Resolve(c) PROVE TakeInv'
  <2>1. taker' = taker
    BY <1>2 DEF Resolve, ticketVars
  <2>2. call[c].answer = "none"
    BY <1>2, ResolveGoes DEF TakeInv
  <2> QED BY <1>2, <2>1, <2>2, ResolveGoes DEF TakeInv, Took
<1>3. ASSUME NEW c \in Resolvers, ClaimFile(c) PROVE TakeInv'
  <2> DEFINE t == call[c].ticket
  <2>1. call[c].at = "claim" /\ t \in Tickets
    BY <1>3, ClaimGoes
  <2>2. CASE Contract!Take(t, c) /\ CallGoes(c, "done", "file")
    <3>1. /\ taker[t] = {} /\ taker'[t] = {c} /\ \A u \in Tickets \ {t} : taker'[u] = taker[u]
      BY <1>0, <2>1, <2>2 DEF Contract!Take
    <3> QED BY <2>1, <2>2, <3>1 DEF TakeInv, Took, CallGoes
  <2>3. CASE /\ taker' = taker
             /\ \/ CallGoes(c, "done", "not_found") \/ CallGoes(c, "done", "already_claimed")
                \/ CallGoes(c, "status", "none")
    BY <2>1, <2>3 DEF TakeInv, Took, CallGoes
  <2> QED BY <1>3, <2>2, <2>3, ClaimGoes
<1>4. ASSUME NEW c \in Resolvers, AskStatus(c) PROVE TakeInv'
  <2>1. taker' = taker /\ call[c].at = "status" /\ call[c].ticket \in Tickets
    BY <1>4, StatusGoes
  <2>2. \E answer \in Reasons \cup {"file"} :
          CallGoes(c, "done", answer) /\ (answer = "file" => ~call[c].claim)
    BY <1>4, StatusGoes DEF Reasons
  <2> QED BY <2>1, <2>2 DEF TakeInv, Took, CallGoes
<1> QED BY <1>1, <1>2, <1>3, <1>4, CallsKept

(* The readings of a record, case by case.                                 *)
LEMMA StatusIs ==
  ASSUME NEW t \in Tickets
  PROVE  /\ life[t] = "gone" => Status(t) = "unknown"
         /\ life[t] = "issued" /\ t \in late => Status(t) = "expired"
         /\ life[t] = "redeemed" /\ t \in late => Status(t) = "failed"
         /\ life[t] \in {"unborn", "completed", "claimed", "failed"} => Status(t) = life[t]
         /\ life[t] \in {"issued", "redeemed"} /\ t \notin late => Status(t) = life[t]
<1>1. CASE life[t] = "gone"
  BY <1>1 DEF Status
<1>2. CASE life[t] = "issued" /\ t \in late
  BY <1>2 DEF Status
<1>3. CASE life[t] = "redeemed" /\ t \in late
  BY <1>3 DEF Status
<1>4. CASE /\ life[t] # "gone" /\ ~(life[t] = "issued" /\ t \in late)
           /\ ~(life[t] = "redeemed" /\ t \in late)
  BY <1>4 DEF Status
<1> QED BY <1>1, <1>2, <1>3, <1>4

LEMMA RightIs ==
  ASSUME NEW c \in Resolvers
  PROVE  LET status == Status(call[c].ticket) IN
         /\ status = "unknown" => Right(c) = {"not_found"}
         /\ status = "completed" => Right(c) = {"file"}
         /\ status = "claimed" => Right(c) = {IF call[c].claim THEN "already_claimed" ELSE "file"}
         /\ status = "failed" => Right(c) = {"failed"}
         /\ status \notin {"unknown", "completed", "claimed", "failed"} =>
              Right(c) = {"not_completed"}
<1> DEFINE status == Status(call[c].ticket)
<1> HIDE DEF status
<1>1. CASE status = "unknown"
  BY <1>1 DEF Right, status
<1>2. CASE status = "completed"
  BY <1>2 DEF Right, status
<1>3. CASE status = "claimed"
  BY <1>3 DEF Right, status
<1>4. CASE status = "failed"
  BY <1>4 DEF Right, status
<1>5. CASE status \notin {"unknown", "completed", "claimed", "failed"}
  BY <1>5 DEF Right, status
<1> QED BY <1>1, <1>2, <1>3, <1>4, <1>5 DEF status

LEMMA SeenStep ==
  ASSUME RoundsTypeOK, TakeInv, AgentInv, SeenInv, [Next]_vars
  PROVE  SeenInv'
<1>1. CASE UNCHANGED vars
  BY <1>1 DEF vars, ticketVars, SeenInv, Right, Status
<1>2. ASSUME Observe, NEW c \in Resolvers, call'[c].at \in {"claim", "status"}
      PROVE  could'[c] = could[c] \cup Right(c)'
  BY <1>2 DEF Observe
<1>3. ASSUME Next, NEW c \in Resolvers, call'[c].at = "status", call'[c].claim
      PROVE  could[c] \cap {"not_completed", "failed"} # {}
  <2>1. CASE call'[c] = call[c]
    BY <1>3, <2>1 DEF SeenInv
  <2>2. CASE Resolve(c)
    BY <1>3, <2>2, ResolveGoes
  <2>3. CASE ClaimFile(c)
    <3> DEFINE t == call[c].ticket
    <3>1. /\ call[c].at = "claim" /\ t \in Tickets /\ call'[c].ticket = t
          /\ life[t] \notin {"completed", "gone", "claimed"}
      BY <1>3, <2>3, ClaimGoes DEF CallGoes
    <3>2. Right(c) \subseteq could[c]
      BY <3>1 DEF SeenInv
    <3>3. Status(t) \notin {"completed", "claimed", "unknown"}
      <4>1. life[t] \in {"unborn", "issued", "redeemed", "failed"}
        BY <3>1 DEF RoundsTypeOK, Contract!ContractTypeOK, Contract!Lives
      <4> QED BY <3>1, <4>1, StatusIs
    <3>4. "failed" \in Right(c) \/ "not_completed" \in Right(c)
      BY <3>3, RightIs
    <3> QED BY <3>2, <3>4
  <2>4. CASE AskStatus(c)
    BY <1>3, <2>4, StatusGoes DEF CallGoes
  <2> QED BY <2>1, <2>2, <2>3, <2>4, CallsKept, ResolveGoes, ClaimGoes, StatusGoes DEF CallGoes
<1> QED BY <1>1, <1>2, <1>3 DEF SeenInv, Next

RoundsInv == RoundsTypeOK /\ StoredInv /\ SenderInv /\ AgentInv /\ TakeInv /\ SeenInv

LEMMA RoundsInvHolds == Spec => []RoundsInv
<1>1. Init => RoundsInv
  BY RoundsInit DEF RoundsInv
<1>2. RoundsInv /\ [Next]_vars => RoundsInv'
  BY RoundsTypeStep, StoredStep, SenderStep, AgentInvStep, TakeStep, SeenStep DEF RoundsInv
<1> QED BY <1>1, <1>2, PTL DEF Spec

(* A URI that upload_file returns names an upload with the content that    *)
(* the client hashed, whatever happened to its file and whether or not the *)
(* gateway compares digests.                                               *)
THEOREM UrisAreTheFiles == Spec => []UriIsTheFile
<1>1. RoundsInv => UriIsTheFile
  BY DEF RoundsInv, AgentInv, Knows, UriIsTheFile
<1> QED BY <1>1, RoundsInvHolds, PTL

(* Agents are told of a completed upload only if it is one and holds what  *)
(* the client proved, and two claims never both get one file.              *)
THEOREM RoundsTellTheTruth == Spec => []ToldTruly
<1>1. RoundsInv => AgentsToldTruly
  BY DEF RoundsInv, AgentInv, Knows, AgentsToldTruly
<1>2. RoundsInv => TakenOnce
  BY DEF RoundsInv, TakeInv, TakenOnce
<1>3. RoundsInv => ToldTruly
  BY <1>1, <1>2 DEF RoundsInv, ToldTruly
<1> QED BY <1>3, RoundsInvHolds, PTL

(* The action of AnswerWasRight.                                           *)
RightAnswers ==
  \A c \in Resolvers :
    call'[c].at = "done" /\ call[c].at # "done" =>
      \/ call'[c].answer \in could[c]
      \/ /\ call'[c].answer = "not_completed" /\ "failed" \in could[c]
         /\ could[c] \cap {"not_found", "file", "already_claimed"} # {}

LEMMA AnswersRight ==
  ASSUME RoundsInv, [Next]_vars
  PROVE  RightAnswers
<1> USE DEF RoundsInv
<1> SUFFICES ASSUME NEW c \in Resolvers, call'[c].at = "done", call[c].at # "done"
             PROVE  \/ call'[c].answer \in could[c]
                    \/ /\ call'[c].answer = "not_completed" /\ "failed" \in could[c]
                       /\ could[c] \cap {"not_found", "file", "already_claimed"} # {}
  BY DEF RightAnswers
<1> DEFINE t == call[c].ticket
<1>1. ClaimFile(c) \/ AskStatus(c)
  <2>1. call'[c] # call[c]
    OBVIOUS
  <2>2. ~Resolve(c)
    BY ResolveGoes
  <2> QED BY <2>1, <2>2, CallsKept, ResolveGoes, ClaimGoes, StatusGoes DEF CallGoes
<1>2. Right(c) \subseteq could[c]
  BY <1>1, ClaimGoes, StatusGoes DEF SeenInv
<1>3. CASE ClaimFile(c)
  <2>1. t \in Tickets /\ call[c].claim
    BY <1>3, ClaimGoes DEF TakeInv
  <2>2. \/ life[t] = "completed" /\ call'[c].answer = "file"
        \/ life[t] = "gone" /\ call'[c].answer = "not_found"
        \/ life[t] = "claimed" /\ call'[c].answer = "already_claimed"
    BY <1>3, ClaimGoes DEF CallGoes, Contract!Take
  <2>3. call'[c].answer \in Right(c)
    BY <2>1, <2>2, StatusIs, RightIs
  <2> QED BY <1>2, <2>3
<1>4. CASE AskStatus(c)
  <2>1. call[c].at = "status" /\ t \in Tickets
    BY <1>4, StatusGoes
  <2>2. \/ Status(t) = "failed" /\ call'[c].answer = "failed"
        \/ /\ ~call[c].claim /\ Status(t) \in {"completed", "claimed"}
           /\ call'[c].answer = "file"
        \/ ~call[c].claim /\ Status(t) = "unknown" /\ call'[c].answer = "not_found"
        \/ /\ Status(t) # "failed" /\ call'[c].answer = "not_completed"
           /\ ~call[c].claim => Status(t) \notin {"completed", "claimed", "unknown"}
    BY <1>4, StatusGoes DEF CallGoes
  <2>3. CASE ~call[c].claim \/ Status(t) = "failed"
    BY <1>2, <2>2, <2>3, RightIs
  <2>4. CASE call[c].claim /\ Status(t) # "failed"
    <3>1. call'[c].answer = "not_completed"
      BY <2>2, <2>4
    <3>2. could[c] \cap {"not_completed", "failed"} # {}
      BY <2>1, <2>4 DEF SeenInv
    <3>3. Right(c) \cap {"not_found", "file", "already_claimed", "not_completed"} # {}
      BY <2>4, RightIs
    <3> QED BY <1>2, <3>1, <3>2, <3>3
  <2> QED BY <2>3, <2>4
<1> QED BY <1>1, <1>3, <1>4

(* resolve_file gives an answer that was right at some time of the call,   *)
(* although it is two round trips and the ticket moves between them.       *)
THEOREM ResolversAnswerRight == Spec => AnswerWasRight
<1>1. RoundsInv /\ [Next]_vars => [RightAnswers]_vars
  BY AnswersRight
<1>2. Spec => [][RightAnswers]_vars
  BY <1>1, RoundsInvHolds, PTL DEF Spec
<1> QED BY <1>2 DEF AnswerWasRight, RightAnswers
==============================================================================
