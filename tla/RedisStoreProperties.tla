------------------------ MODULE RedisStoreProperties -------------------------
(***************************************************************************)
(* What the callers of a RedisStore are owed, over round trips that fail,  *)
(* are repeated and interleave, two layouts, skewed clocks and keys that   *)
(* the server drops by itself.                                             *)
(***************************************************************************)
EXTENDS RedisStore

(* Over all processes, layouts, failed round trips and lost replies each   *)
(* ticket has the life the package promises, and no command brings back a  *)
(* record whose key is gone.                                               *)
Life == [t \in Tickets |-> IF Present(Held(t)) THEN Held(t).status
                           ELSE IF born[t] # -1 THEN "gone" ELSE "unborn"]
Contract == INSTANCE TicketContract
              WITH Requests <- Callers, Claimers <- Callers,
                   life <- Life, winner <- won, taker <- took
ImplementsContract == Contract!ContractSpec

(* A refusal was right at some moment of the call, although finding the    *)
(* record takes other round trips than acting on it: a stale memo, or an   *)
(* index gone before its record, never hides a record that is there, but   *)
(* for one whose retention is over and whose sweep deleted only the index. *)
Refusals == {"not_found", "already_used", "expired", "already_claimed", "not_completed"}
RefusalsWereTrue ==
  \A c \in Callers :
    pc[c] = "idle" /\ call[c].op \in {"redeem", "finish", "claim"} /\ call[c].answer \in Refusals
      => \/ call[c].answer \in could[c]
         \/ call[c].answer = "not_found" /\ clock + Skew >= Held(call[c].ticket).retentionUntil

(* An upload is claimed by one call: "Two tool calls naming the same file  *)
(* cannot both act on it" (guide/usage.md:175-176).                        *)
ClaimedOnce == \A t \in Tickets : Cardinality(took[t]) <= 1

(* Every key has a deadline of its own: no write makes a record that stays *)
(* for ever (redis_store.py:109-113, 138-141).                              *)
NothingImmortal == \A l \in Layouts, t \in Tickets : deadline[l][t] # Never

(* "Every key is written with a TTL covering the retention window"         *)
(* (redis_store.py:171-172): the server keeps a record, and its index, for as  *)
(* long as the gateway promised, by its own measure of the time since it   *)
(* was written, unless it is swept.                                        *)
KeysCoverRetention ==
  \A l \in Layouts, t \in Tickets :
    /\ deadline[l][t] # 0 => deadline[l][t] >= born[t] + Retention
    /\ index[l][t] # 0 => index[l][t] >= born[t] + Retention

(* A key lasts as long as the record it holds, and not for ever; every     *)
(* variable has its type.                                                  *)
KeysLast == RedisTypeOK /\ KeysCoverRetention /\ NothingImmortal

(* With server_clock, processes whose clocks disagree agree on when a      *)
(* ticket expires: none redeems it at or after its deadline by the         *)
(* server's clock (redis_store.py:176-178).                                *)
AgreedExpiry ==
  [][\A t \in Tickets :
       ServerClock /\ Held(t).status = "issued" /\ Held(t)'.status = "redeemed"
         => clock < Held(t).expiresAt]_vars
==============================================================================
