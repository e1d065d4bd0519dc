-------------------------- MODULE GatewayProperties --------------------------
(***************************************************************************)
(* What must hold of the gateway and its store, whatever the interleaving. *)
(***************************************************************************)
EXTENDS Gateway

(* A ticket is spent at most once, over all processes, crashes, retries    *)
(* and lost replies: the conditional flip in redeem.                       *)
SingleUse == \A t \in Tickets : \A r, s \in redeemers[t] : r = s

(* _in_flight counts exactly the requests inside the slot and never passes *)
(* the cap, although authenticators, stores and backends suspend requests  *)
(* between the check and the release, and fail between them.               *)
Holding(p) == {r \in Requests : home[r] = p /\ pc[r] \in InSlot}
SlotAccounting ==
  \A p \in Processes : /\ inFlight[p] = Cardinality(Holding(p))
                       /\ inFlight[p] <= MaxInFlight

(* The final answer and the record agree for as long as the record exists: *)
(* nobody is told "completed" of an upload recorded as anything else.      *)
AnswerTruthful ==
  \A r \in Requests :
    LET rec == store[target[r]] IN
    Present(rec) =>
      /\ answer[r] = "completed" => rec.status \in {"completed", "claimed"}
      /\ answer[r] = "failed" => rec.status = "failed"

(* A refusal leaves the ticket to whoever may still use it, "used" is said *)
(* only of a ticket some request spent or the store forgot, and "expired"  *)
(* only past the deadline.                                                 *)
RefusalTruthful ==
  \A r \in Requests :
    LET t == target[r] IN
    /\ answer[r] \in Refusals => r \notin redeemers[t]
    /\ answer[r] = "ticket_used" => redeemers[t] # {} \/ (t \in minted /\ ~Present(store[t]))
    /\ answer[r] = "ticket_expired" /\ Present(store[t]) => clock >= store[t].expiresAt

(* With an authenticator, only the record's owner spends its ticket; with  *)
(* ids in the URL, a record nobody owns is spent by nobody.                *)
OnlyOwnerSpends ==
  \A t \in Tickets : \A r \in redeemers[t] :
    Authenticates /\ Present(store[t]) =>
      IF store[t].owner = Nobody THEN TicketInUrl ELSE principal[r] = store[t].owner

(* The record of an upload at work is still there for its end, whatever    *)
(* the sweeps and the evictions, unless the destination drags.             *)
AtWork(r) == pc[r] \in {"forward", "finish"}
RecordOutlivesUpload ==
  \A r \in Requests : AtWork(r) /\ r \notin dragging => Present(store[target[r]])

(* What callers are told of a ticket moves forward: "failed" and "claimed" *)
(* are final, and so are "expired" and "abandoned", but for two answers    *)
(* that come late.  A redemption judged before the deadline may take       *)
(* effect after it, while the store's delay lasts and unless the store     *)
(* judges by its own clock; and an upload reported abandoned may still be  *)
(* ended by the one request that spent its ticket, while its destination   *)
(* takes longer than the grace.                                            *)
Reported(t) == ReportedStatus(store[t], clock, UploadTimeout, Grace)
Follows(old, new) ==
  \/ new \in {old, "unknown"}
  \/ old = "issued"    /\ new \in {"expired", "redeemed", "abandoned"}
  \/ old = "redeemed"  /\ new \in {"completed", "failed", "abandoned"}
  \/ old = "completed" /\ new = "claimed"
LateRedemption(t, old, new) ==
  /\ old = "expired" /\ new \in {"redeemed", "abandoned"}
  /\ ~DecidesExpiry
  /\ clock < store[t].expiresAt + StoreTime
LateEnd(t, old, new) ==
  /\ old = "abandoned" /\ new \in {"completed", "failed"}
  /\ \E r \in redeemers[t] :
       /\ pc[r] = "finish"
       /\ \/ r \in dragging
          \/ clock <= store[t].redeemedAt + UploadTimeout + BackendTime + 2 * StoreTime
StatusMoves ==
  \A t \in minted :
    LET old == Reported(t)
        new == Reported(t)'
    IN Follows(old, new) \/ LateRedemption(t, old, new) \/ LateEnd(t, old, new)
StatusMonotone == [][StatusMoves]_vars

(* A process at its cap takes uploads again, or comes to a point where all *)
(* its slots are kept by requests the code sets no bound for: an           *)
(* authenticator that does not answer, a response that drags on.  No other *)
(* way through the handler keeps a slot.                                   *)
Hung(r) == pc[r] = "auth" \/ (pc[r] = "forward" /\ r \in dragging)
SlotsComeBack ==
  \A p \in Processes :
    inFlight[p] = MaxInFlight ~>
      \/ inFlight[p] < MaxInFlight
      \/ inFlight[p] = Cardinality({r \in Holding(p) : Hung(r)})

(* A spent ticket does not read "redeemed" for ever, whatever became of    *)
(* the request that spent it; and on_complete hears of every upload that   *)
(* was finished, unless its process died or the store raised first.        *)
SpentTicketResolves ==
  /\ \A t \in Tickets : Reported(t) = "redeemed" ~> Reported(t) # "redeemed"
  /\ \A r \in Requests :
       pc[r] = "finish" ~> r \in hooked \/ pc[r] = "dead" \/ answer[r] = "internal"

(* The gateway implements what the package promises about one ticket.      *)
Life == [t \in Tickets |-> IF t \notin minted THEN "unborn"
                           ELSE IF Present(store[t]) THEN store[t].status ELSE "gone"]
Taker == [t \in Tickets |-> {c \in Claimers : claim[c].at = "granted" /\ claim[c].ticket = t}]
Contract == INSTANCE TicketContract WITH life <- Life, winner <- redeemers, taker <- Taker
ImplementsContract == Contract!ContractSpec
==============================================================================
