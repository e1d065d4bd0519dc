---------------------------- MODULE TicketRecords ----------------------------
(***************************************************************************)
(* The record behind an upload ticket (tickets.py), and the questions the  *)
(* gateway asks of one record.  Every operator is a function of the record *)
(* it is given: who may change a record, and when, is the business of the  *)
(* modules that extend this one.                                           *)
(*                                                                         *)
(* A secret, its hash and the record id are in one-to-one correspondence   *)
(* and never reused (new_id and new_secret draw from `secrets`), so one    *)
(* name stands for all three.  Times are counted in ticks from 0.          *)
(*                                                                         *)
(* Here and in the other modules, Mutant_X is a bug X could have.  No      *)
(* specification uses one: putting it in X's place must break a property.  *)
(***************************************************************************)
EXTENDS Integers

CONSTANTS
  Principals,   \* whoever a credential can prove, and whoever a record can belong to
  Nobody        \* no owner, or no principal

ASSUME NobodyAssumption == Nobody \notin Principals

Statuses == {"issued", "redeemed", "completed", "failed", "claimed"}

(* A slot of a store: a record, or NoRecord where the store holds none.    *)
Slot == [status         : Statuses \cup {"absent"},
         owner          : Principals \cup {Nobody},
         expiresAt      : Nat,
         retentionUntil : Nat,
         redeemedAt     : Nat]

NoRecord == [status |-> "absent", owner |-> Nobody, expiresAt |-> 0,
             retentionUntil |-> 0, redeemedAt |-> 0]

(* A record as issue() builds it.  redeemed_at is None until redemption;   *)
(* nothing reads it before, so 0 stands for None.                          *)
NewRecord(owner, now, ttl, retention) ==
  [status |-> "issued", owner |-> owner, expiresAt |-> now + ttl,
   retentionUntil |-> now + retention, redeemedAt |-> 0]

Present(rec) == rec.status # "absent"

Expired(rec, now) == now >= rec.expiresAt

Redeemed(rec, now) == [rec EXCEPT !.status = "redeemed", !.redeemedAt = now]
Finished(rec, status) == [rec EXCEPT !.status = status]
Claimed(rec) == [rec EXCEPT !.status = "claimed"]

(* _visible: whether status() and claim() answer a question from `asker`.  *)
Visible(rec, asker) ==
  \/ asker = Nobody
  \/ rec.owner = Nobody
  \/ rec.owner = asker

(* _owned_by: whether an authenticated principal may upload to the record. *)
Mutant_AnyPrincipal(rec, principal, strict) == principal # Nobody
OwnedBy(rec, principal, strict) ==
  /\ principal # Nobody
  /\ IF rec.owner = Nobody THEN ~strict ELSE rec.owner = principal

(* _abandoned: a redeemed record older than any upload may live.           *)
Mutant_NeverAbandoned(rec, now, uploadTimeout, grace) == FALSE
Abandoned(rec, now, uploadTimeout, grace) ==
  now > rec.redeemedAt + uploadTimeout + grace

(* status_of: what a caller who asks is told.  "abandoned" stands for the  *)
(* answer {status: failed, error: abandoned}, "unknown" for a record that  *)
(* is gone.                                                                *)
Mutant_ExpiredWhenever(rec, now, uploadTimeout, grace) ==
  CASE ~Present(rec) -> "unknown"
    [] rec.status \in {"issued", "redeemed"} /\ Expired(rec, now) -> "expired"
    [] OTHER -> rec.status
ReportedStatus(rec, now, uploadTimeout, grace) ==
  CASE ~Present(rec) -> "unknown"
    [] rec.status = "issued" /\ Expired(rec, now) -> "expired"
    [] rec.status = "redeemed" /\ Abandoned(rec, now, uploadTimeout, grace) -> "abandoned"
    [] OTHER -> rec.status
==============================================================================
