----------------------------- MODULE MemoryStore -----------------------------
(***************************************************************************)
(* The ticket store, as its one-step implementations behave: MemoryStore,  *)
(* whose operations have no await between their read and their write, and  *)
(* the stores whose operations one script or one statement decides.  The   *)
(* operators are actions on `store`; a specification that EXTENDS this     *)
(* module says who calls them and when.                                    *)
(***************************************************************************)
EXTENDS TicketRecords, FiniteSets

CONSTANTS
  Tickets,      \* the record ids that can be minted
  MaxRecords    \* the store's record cap

ASSUME StoreAssumption == MaxRecords \in Nat \ {0}

VARIABLE store  \* id -> record, NoRecord where the store holds none

StoreTypeOK == store \in [Tickets -> Slot]

StoreInit == store = [t \in Tickets |-> NoRecord]

Stored == {t \in Tickets : Present(store[t])}

Mutant_DeadUnredeemed(now) == {t \in Stored : now >= store[t].expiresAt}
Dead(now) == {t \in Stored : now >= store[t].retentionUntil}

HasRoom(kept) == Cardinality(kept) < MaxRecords

(* put: at the cap, sweep first; if the store is still full, StoreFull.    *)
Put(t, rec, now) ==
  LET kept == IF HasRoom(Stored) THEN Stored ELSE Stored \ Dead(now) IN
  /\ HasRoom(kept)
  /\ store' = [u \in Tickets |-> IF u = t THEN rec
                                 ELSE IF u \in kept THEN store[u] ELSE NoRecord]

(* redeem: `judged` is the time expiry is judged at, `now` the time the    *)
(* caller passes and the record keeps.  They differ only in a store that   *)
(* decides expiry by its own clock.                                        *)
Mutant_RedeemSpent(t, judged) ==
  IF ~Present(store[t]) THEN "not_found"
  ELSE IF Expired(store[t], judged) THEN "expired"
  ELSE "redeemed"
RedeemResult(t, judged) ==
  IF ~Present(store[t]) THEN "not_found"
  ELSE IF store[t].status # "issued" THEN "already_used"
  ELSE IF Expired(store[t], judged) THEN "expired"
  ELSE "redeemed"

Redeem(t, now) == store' = [store EXCEPT ![t] = Redeemed(@, now)]

(* finish: overwrites the status whatever it is, and does nothing when the *)
(* record is gone.                                                         *)
Mutant_FinishRecreates(t, status) ==
  store' = [store EXCEPT ![t] = Finished(@, status)]
Finish(t, status) ==
  store' = IF Present(store[t])
           THEN [store EXCEPT ![t] = Finished(@, status)]
           ELSE store

Claimable(t) == store[t].status = "completed"
Claim(t) == store' = [store EXCEPT ![t] = Claimed(@)]

Sweep(now) ==
  store' = [t \in Tickets |-> IF t \in Dead(now) THEN NoRecord ELSE store[t]]
==============================================================================
