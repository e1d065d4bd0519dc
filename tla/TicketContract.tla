--------------------------- MODULE TicketContract ---------------------------
(***************************************************************************)
(* What the package promises about one ticket, with no clock, no process   *)
(* and no store: a ticket is issued once, spent by one request, ends once, *)
(* and a completed upload is taken once.  A record can be forgotten at any *)
(* time after it was issued, and nothing brings it back.                   *)
(*                                                                         *)
(* Gateway is shown to implement this module.                              *)
(***************************************************************************)
EXTENDS FiniteSets

CONSTANTS Tickets, Requests, Claimers

VARIABLES
  life,      \* ticket -> where it is in its life
  winner,    \* ticket -> the requests whose redemption spent it
  taker      \* ticket -> the claimers that took its upload

contractVars == <<life, winner, taker>>

Lives == {"unborn", "issued", "redeemed", "completed", "failed", "claimed", "gone"}

ContractTypeOK ==
  /\ life \in [Tickets -> Lives]
  /\ winner \in [Tickets -> SUBSET Requests]
  /\ taker \in [Tickets -> SUBSET Claimers]

ContractInit ==
  /\ life = [t \in Tickets |-> "unborn"]
  /\ winner = [t \in Tickets |-> {}]
  /\ taker = [t \in Tickets |-> {}]

(* Issuing may make the store forget others to make room.                  *)
Issue(t, forgotten) ==
  /\ life[t] = "unborn"
  /\ \A u \in forgotten : life[u] # "unborn"
  /\ life' = [u \in Tickets |-> IF u = t THEN "issued"
                                ELSE IF u \in forgotten THEN "gone" ELSE life[u]]
  /\ UNCHANGED <<winner, taker>>

Spend(t, r) ==
  /\ life[t] = "issued"
  /\ winner[t] = {}
  /\ life' = [life EXCEPT ![t] = "redeemed"]
  /\ winner' = [winner EXCEPT ![t] = {r}]
  /\ UNCHANGED taker

End(t) ==
  /\ life[t] = "redeemed"
  /\ \E e \in {"completed", "failed"} : life' = [life EXCEPT ![t] = e]
  /\ UNCHANGED <<winner, taker>>

Take(t, c) ==
  /\ life[t] = "completed"
  /\ taker[t] = {}
  /\ life' = [life EXCEPT ![t] = "claimed"]
  /\ taker' = [taker EXCEPT ![t] = {c}]
  /\ UNCHANGED winner

Forget(forgotten) ==
  /\ \A u \in forgotten : life[u] # "unborn"
  /\ life' = [u \in Tickets |-> IF u \in forgotten THEN "gone" ELSE life[u]]
  /\ UNCHANGED <<winner, taker>>

ContractNext ==
  \/ \E t \in Tickets, forgotten \in SUBSET Tickets : Issue(t, forgotten)
  \/ \E t \in Tickets, r \in Requests : Spend(t, r)
  \/ \E t \in Tickets : End(t)
  \/ \E t \in Tickets, c \in Claimers : Take(t, c)
  \/ \E forgotten \in SUBSET Tickets : Forget(forgotten)

ContractSpec == ContractInit /\ [][ContractNext]_contractVars
==============================================================================
