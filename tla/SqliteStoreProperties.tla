----------------------- MODULE SqliteStoreProperties -------------------------
(***************************************************************************)
(* What the callers of a SqliteStore are owed, although a call is several  *)
(* statements and others come between them.                                *)
(***************************************************************************)
EXTENDS SqliteStore

(* The table never holds more records than the cap, over all processes,    *)
(* and the trigger's count that decides it is the number of rows.  Every   *)
(* variable has its type.                                                  *)
CapHolds ==
  /\ SqliteTypeOK
  /\ count = Cardinality(Stored)
  /\ count <= MaxRecords

(* A refusal was right at some moment of the call: no caller is told       *)
(* "used", "expired", "claimed already", "not completed", "unknown" or     *)
(* "full" of a store that was never so while the call ran, although the    *)
(* SELECT that explains a refusal comes after the UPDATE it explains.      *)
Refusals == {"full", "not_found", "already_used", "expired", "already_claimed", "not_completed"}
RefusalWasTrue ==
  \A x \in told :
    x.call.op \in {"put", "redeem", "claim"} /\ x.answer \in Refusals => x.answer \in x.could

(* Of all the calls that redeem a ticket, or claim an upload, those told   *)
(* that they did are those whose UPDATE did, so at most one over all       *)
(* processes.                                                              *)
OnlyWinnersAreTold ==
  \A x \in told :
    /\ x.answer = "redeemed" => x.caller \in won[x.call.ticket]
    /\ x.call.op = "claim" /\ x.answer = "claimed" => x.caller \in took[x.call.ticket]
    /\ x.call.op = "redeem" /\ x.call.rowcount => x.answer \in {"redeemed", "raised"}

(* What a caller is told of the store was so, refusal or success.          *)
AnswersWereTrue == RefusalWasTrue /\ OnlyWinnersAreTold

(* The statements of all calls of all processes, in whatever order they    *)
(* are committed, give each ticket the life the package promises.          *)
Life == [t \in Tickets |-> IF t \notin issued THEN "unborn"
                           ELSE IF Present(store[t]) THEN store[t].status ELSE "gone"]
Contract == INSTANCE TicketContract
              WITH Requests <- Callers, Claimers <- Callers,
                   life <- Life, winner <- won, taker <- took
ImplementsContract == Contract!ContractSpec
==============================================================================
