------------------------------- MODULE Gateway -------------------------------
(***************************************************************************)
(* The upload gateway (gateway.py): processes that serve upload requests   *)
(* against one ticket store.  A request is a coroutine; one action is what *)
(* it does between two awaits, so other requests, sweeps, claims, crashes  *)
(* and the clock come in between:                                          *)
(*                                                                         *)
(*   Arrive -> Authenticate -> Lookup -> RedeemTicket -> EndForward        *)
(*          -> FinishRecord -> NotifyHook                                  *)
(*                                                                         *)
(* How the bytes travel (_forward) is the business of module Streaming;    *)
(* here it ends completed, failed, or by an exception nobody catches.      *)
(***************************************************************************)
EXTENDS MemoryStore

CONSTANTS
  Requests,       \* upload requests (POST or PUT), each served once
  Claimers,       \* tool calls that claim an upload
  Processes,      \* gateway processes sharing the store
  MaxInFlight,    \* max_in_flight, the slots of one process
  Ttls,           \* the ttl values issue() may use
  Retention,      \* retention
  UploadTimeout,  \* upload_timeout, the longest a client may take for a body
  Grace,          \* _ABANDON_GRACE
  BackendTime,    \* the longest a destination that does not drag takes after the body
  StoreTime,      \* the longest the store takes over lookup and redeem, or over finish
  Authenticates,  \* authenticate is not None
  TicketInUrl,    \* ticket_in_url
  DecidesExpiry,  \* the store judges expiry by its own clock (decides_expiry)
  StoreMayFail,   \* store calls can raise, before or after they took effect
  Durable,        \* the store survives a crash of the process
  LastStart,      \* bound: no upload starts after this tick
  MaxClock        \* bound: the clock stops at this tick

ASSUME GatewayAssumption ==
  /\ IsFiniteSet(Requests)
  /\ MaxInFlight \in Nat \ {0}
  /\ {Retention, UploadTimeout, Grace, BackendTime, StoreTime, LastStart, MaxClock} \subseteq Nat
  /\ Ttls \subseteq 1..Retention
  /\ {Authenticates, TicketInUrl, DecidesExpiry, StoreMayFail, Durable} \subseteq BOOLEAN
  /\ Durable \/ \A p, q \in Processes : p = q    \* records in memory serve one process

(* The constructor's check: a public id in the URL needs an authenticator. *)
ASSUME CredentialAssumption == TicketInUrl \/ Authenticates

VARIABLES
  clock,      \* the wall clock all processes share
  minted,     \* ids issue() has ever used
  pc,         \* request -> the await it is at
  target,     \* request -> the ticket its URL names
  home,       \* request -> the process serving it
  principal,  \* request -> whom its credential proved
  now,        \* request -> the clock reading taken before the lookup
  started,    \* request -> the clock when its redemption took effect
  verdict,    \* request -> how the forwarding ended
  dragging,   \* the requests whose backend answers bit by bit, for as long as it likes
  answer,     \* request -> the response sent
  inFlight,   \* process -> its _in_flight counter
  redeemers,  \* history: ticket -> the requests whose redemption spent it
  hooked,     \* history: the requests on_complete was called for
  claim       \* claimer -> [at, ticket]: where the tool call is

requestVars == <<pc, target, home, principal, now, started, verdict, dragging, answer, inFlight>>
historyVars == <<redeemers, hooked>>
vars == <<store, clock, minted, requestVars, historyVars, claim>>

InSlot == {"auth", "lookup", "redeem", "forward", "finish"}
Refusals == {"bad_request", "too_many_uploads", "unauthenticated", "unknown_ticket",
             "forbidden", "ticket_used", "ticket_expired", "unfit"}
Answers == Refusals \cup {"none", "completed", "failed", "internal"}

TypeOK ==
  /\ StoreTypeOK
  /\ clock \in Nat
  /\ minted \subseteq Tickets
  /\ pc \in [Requests -> InSlot \cup {"new", "notify", "done", "dead"}]
  /\ target \in [Requests -> Tickets]
  /\ home \in [Requests -> Processes]
  /\ principal \in [Requests -> Principals \cup {Nobody}]
  /\ now \in [Requests -> Nat]
  /\ started \in [Requests -> Nat]
  /\ verdict \in [Requests -> {"none", "completed", "failed"}]
  /\ dragging \subseteq Requests
  /\ answer \in [Requests -> Answers]
  /\ inFlight \in [Processes -> Int]
  /\ redeemers \in [Tickets -> SUBSET Requests]
  /\ hooked \subseteq Requests
  /\ claim \in [Claimers -> [at : {"new", "claim", "granted", "refused"}, ticket : Tickets]]

Init ==
  /\ StoreInit
  /\ clock = 0
  /\ minted = {}
  /\ pc = [r \in Requests |-> "new"]
  /\ target \in [Requests -> Tickets]
  /\ home \in [Requests -> Processes]
  /\ principal = [r \in Requests |-> Nobody]
  /\ now = [r \in Requests |-> 0]
  /\ started = [r \in Requests |-> 0]
  /\ verdict = [r \in Requests |-> "none"]
  /\ dragging = {}
  /\ answer = [r \in Requests |-> "none"]
  /\ inFlight = [p \in Processes |-> 0]
  /\ redeemers = [t \in Tickets |-> {}]
  /\ hooked = {}
  /\ claim \in [Claimers -> [at : {"new"}, ticket : Tickets]]

----------------------------------------------------------------------------
(* Issuing.  StoreFull, raised when Put has no room, changes nothing.      *)

Issue(t) ==
  /\ t \notin minted
  /\ \E owner \in Principals \cup {Nobody}, ttl \in Ttls :
       /\ TicketInUrl \/ owner # Nobody
       /\ Put(t, NewRecord(owner, clock, ttl, Retention), clock)
  /\ minted' = minted \cup {t}
  /\ UNCHANGED <<clock, requestVars, historyVars, claim>>

----------------------------------------------------------------------------
(* Serving one request.                                                    *)

FreeSlot(r) == inFlight' = [inFlight EXCEPT ![home[r]] = @ - 1]

Goto(r, await) == pc' = [pc EXCEPT ![r] = await]

Reply(r, code) == /\ Goto(r, "done")
                  /\ answer' = [answer EXCEPT ![r] = code]

(* A refusal from inside the slot; the `finally` of _ingest gives it back. *)
Refuse(r, code) == /\ Reply(r, code)
                   /\ FreeSlot(r)
                   /\ UNCHANGED <<target, home, started, verdict, dragging>>

Mutant_SlotFree(r) == inFlight[home[r]] <= MaxInFlight
SlotFree(r) == inFlight[home[r]] < MaxInFlight

(* _ingest up to its first await: the header checks, then the slot.        *)
Arrive(r) ==
  /\ pc[r] = "new"
  /\ clock <= LastStart
  /\ \/ /\ \/ Reply(r, "bad_request")
           \/ ~SlotFree(r) /\ Reply(r, "too_many_uploads")
        /\ UNCHANGED <<now, inFlight>>
     \/ /\ SlotFree(r)
        /\ inFlight' = [inFlight EXCEPT ![home[r]] = @ + 1]
        /\ IF Authenticates
             THEN Goto(r, "auth") /\ UNCHANGED now
             ELSE Goto(r, "lookup") /\ now' = [now EXCEPT ![r] = clock]
        /\ UNCHANGED answer
  /\ UNCHANGED <<store, clock, minted, target, home, principal, started, verdict,
                 dragging, historyVars, claim>>

(* The authenticator answers; the clock is read before the lookup starts.  *)
Authenticate(r) ==
  /\ pc[r] = "auth"
  /\ \/ /\ clock <= LastStart
        /\ \E p \in Principals : principal' = [principal EXCEPT ![r] = p]
        /\ now' = [now EXCEPT ![r] = clock]
        /\ Goto(r, "lookup")
        /\ UNCHANGED <<target, home, started, verdict, dragging, answer, inFlight>>
     \/ /\ Refuse(r, "unauthenticated")
        /\ UNCHANGED <<principal, now>>
  /\ UNCHANGED <<store, clock, minted, historyVars, claim>>

LookupResult(r) ==
  LET rec == store[target[r]] IN
  IF ~Present(rec) THEN "unknown_ticket"
  ELSE IF Authenticates /\ ~OwnedBy(rec, principal[r], ~TicketInUrl) THEN "forbidden"
  ELSE IF rec.status # "issued" THEN "ticket_used"
  ELSE IF Expired(rec, now[r]) /\ ~DecidesExpiry THEN "ticket_expired"
  ELSE "usable"

(* The record as it was read, and every check made on it.  "unfit" stands  *)
(* for the declared length, the raw type and name and the destination.     *)
Lookup(r) ==
  /\ pc[r] = "lookup"
  /\ \/ /\ LookupResult(r) = "usable"
        /\ \/ /\ Goto(r, "redeem")
              /\ UNCHANGED <<target, home, started, verdict, dragging, answer, inFlight>>
           \/ Refuse(r, "unfit")
     \/ /\ LookupResult(r) # "usable"
        /\ Refuse(r, LookupResult(r))
  /\ UNCHANGED <<store, clock, minted, principal, now, historyVars, claim>>

JudgedAt(r) == IF DecidesExpiry THEN clock ELSE now[r]

(* The effect of a redemption that wins, whether or not the caller learns. *)
Win(r) ==
  /\ RedeemResult(target[r], JudgedAt(r)) = "redeemed"
  /\ Redeem(target[r], now[r])
  /\ redeemers' = [redeemers EXCEPT ![target[r]] = @ \cup {r}]

Mutant_RefuseAfterRedeem(r) ==
  /\ pc[r] = "redeem"
  /\ Win(r)
  /\ Refuse(r, "unfit")
  /\ UNCHANGED <<clock, minted, principal, now, hooked, claim>>
Mutant_StoreCodeAnswered(r) ==
  /\ pc[r] = "redeem"
  /\ RedeemResult(target[r], JudgedAt(r)) # "redeemed"
  /\ Refuse(r, RedeemResult(target[r], JudgedAt(r)))
  /\ UNCHANGED <<store, redeemers, clock, minted, principal, now, hooked, claim>>
RedeemTicket(r) ==
  /\ pc[r] = "redeem"
  /\ \/ /\ Win(r)
        /\ Goto(r, "forward")
        /\ started' = [started EXCEPT ![r] = clock]
        /\ UNCHANGED <<target, home, verdict, dragging, answer, inFlight>>
     \/ /\ RedeemResult(target[r], JudgedAt(r)) # "redeemed"
        /\ Refuse(r, IF RedeemResult(target[r], JudgedAt(r)) = "expired"
                     THEN "ticket_expired" ELSE "ticket_used")
        /\ UNCHANGED <<store, redeemers>>
  /\ UNCHANGED <<clock, minted, principal, now, hooked, claim>>

(* dest.timeout bounds each read of an HTTP exchange, not the exchange: a  *)
(* backend that sends its response bit by bit keeps the request.           *)
Drag(r) ==
  /\ pc[r] = "forward"
  /\ r \notin dragging
  /\ dragging' = dragging \cup {r}
  /\ UNCHANGED <<store, clock, minted, pc, target, home, principal, now, started, verdict,
                 answer, inFlight, historyVars, claim>>

(* _forward returns a status and an outcome.                               *)
EndForward(r) ==
  /\ pc[r] = "forward"
  /\ Goto(r, "finish")
  /\ \E v \in {"completed", "failed"} : verdict' = [verdict EXCEPT ![r] = v]
  /\ UNCHANGED <<store, clock, minted, target, home, principal, now, started, dragging,
                 answer, inFlight, historyVars, claim>>

(* Any exception but UploadError leaves _forward and the handler; only the *)
(* slot's `finally` runs.                                                  *)
Mutant_KeepSlot(r) ==
  /\ pc[r] = "forward"
  /\ Reply(r, "internal")
  /\ UNCHANGED <<store, clock, minted, target, home, principal, now, started, verdict,
                 dragging, inFlight, historyVars, claim>>
ForwardRaises(r) ==
  /\ pc[r] = "forward"
  /\ Refuse(r, "internal")
  /\ UNCHANGED <<store, clock, minted, principal, now, historyVars, claim>>

(* finish, then the response; the slot is free once the response is built, *)
(* and on_complete runs after it.  A record swept meanwhile stays gone.    *)
FinishRecord(r) ==
  /\ pc[r] = "finish"
  /\ Finish(target[r], verdict[r])
  /\ answer' = [answer EXCEPT ![r] = verdict[r]]
  /\ Goto(r, "notify")
  /\ FreeSlot(r)
  /\ UNCHANGED <<clock, minted, target, home, principal, now, started, verdict,
                 dragging, historyVars, claim>>

NotifyHook(r) ==
  /\ pc[r] = "notify"
  /\ hooked' = hooked \cup {r}
  /\ Goto(r, "done")
  /\ UNCHANGED <<store, clock, minted, target, home, principal, now, started, verdict,
                 dragging, answer, inFlight, redeemers, claim>>

(* A store call raises: before it took effect, or after, its reply lost.   *)
StoreRaises(r) ==
  /\ StoreMayFail
  /\ \/ /\ pc[r] \in {"lookup", "redeem", "finish"}
        /\ UNCHANGED <<store, redeemers>>
     \/ pc[r] = "redeem" /\ Win(r)
     \/ /\ pc[r] = "finish"
        /\ Finish(target[r], verdict[r])
        /\ UNCHANGED redeemers
  /\ Refuse(r, "internal")
  /\ UNCHANGED <<clock, minted, principal, now, hooked, claim>>

----------------------------------------------------------------------------
(* Claiming: get and the visibility check, then the store's claim.         *)

BeginClaim(c) ==
  /\ claim[c].at = "new"
  /\ LET rec == store[claim[c].ticket] IN
     \E asker \in Principals \cup {Nobody} :
       claim' = [claim EXCEPT ![c].at =
                   IF Present(rec) /\ Visible(rec, asker) THEN "claim" ELSE "refused"]
  /\ UNCHANGED <<store, clock, minted, requestVars, historyVars>>

EndClaim(c) ==
  /\ claim[c].at = "claim"
  /\ \/ /\ Claimable(claim[c].ticket)
        /\ Claim(claim[c].ticket)
        /\ claim' = [claim EXCEPT ![c].at = "granted"]
     \/ /\ ~Claimable(claim[c].ticket)
        /\ claim' = [claim EXCEPT ![c].at = "refused"]
        /\ UNCHANGED store
  /\ UNCHANGED <<clock, minted, requestVars, historyVars>>

----------------------------------------------------------------------------
(* The environment.                                                        *)

SweepStore ==
  /\ Dead(clock) # {}
  /\ Sweep(clock)
  /\ UNCHANGED <<clock, minted, requestVars, historyVars, claim>>

(* A process dies and is started again: its coroutines and its counter are *)
(* gone, and so are the records if it kept them itself.                    *)
Crash(p) ==
  /\ pc' = [r \in Requests |-> IF home[r] = p /\ pc[r] \in InSlot \cup {"notify"}
                               THEN "dead" ELSE pc[r]]
  /\ inFlight' = [inFlight EXCEPT ![p] = 0]
  /\ store' = IF Durable THEN store ELSE [t \in Tickets |-> NoRecord]
  /\ UNCHANGED <<clock, minted, target, home, principal, now, started, verdict, dragging,
                 answer, historyVars, claim>>

(* Time passes only while no await has outlived its limit: the watchdog    *)
(* ends the body at upload_timeout, and a destination that does not drag   *)
(* answers within BackendTime after it.  An authenticator has no limit.    *)
WithinLimits(r) ==
  /\ pc[r] \in {"lookup", "redeem"} => clock < now[r] + StoreTime
  /\ r \notin dragging =>
       /\ pc[r] = "forward" => clock < started[r] + UploadTimeout + BackendTime
       /\ pc[r] = "finish" => clock < started[r] + UploadTimeout + BackendTime + StoreTime

Tick ==
  /\ clock < MaxClock
  /\ \A r \in Requests : WithinLimits(r)
  /\ clock' = clock + 1
  /\ UNCHANGED <<store, minted, requestVars, historyVars, claim>>

----------------------------------------------------------------------------
Serve(r) == \/ Lookup(r)
            \/ RedeemTicket(r)
            \/ r \notin dragging /\ EndForward(r)
            \/ FinishRecord(r)
            \/ NotifyHook(r)

(* What no timeout of the code bounds: the authenticator, which is awaited *)
(* inside the slot, and a response that drags on.                          *)
Unbounded(r) == Authenticate(r) \/ Drag(r) \/ (r \in dragging /\ EndForward(r))

Next ==
  \/ \E t \in Tickets : Issue(t)
  \/ \E r \in Requests : \/ Arrive(r) \/ Serve(r) \/ Unbounded(r)
                         \/ ForwardRaises(r) \/ StoreRaises(r)
  \/ \E c \in Claimers : BeginClaim(c) \/ EndClaim(c)
  \/ SweepStore
  \/ \E p \in Processes : Crash(p)
  \/ Tick

Spec == Init /\ [][Next]_vars

(* The event loop runs every coroutine that can run; a store call answers  *)
(* or raises; the body ends by upload_timeout and the destination answers  *)
(* it, unless it drags; and time passes.  Nothing makes an authenticator   *)
(* answer, a dragging response end, a ticket be issued, a request arrive,  *)
(* a store fail or a process die.                                          *)
Fairness == /\ \A r \in Requests : WF_vars(Serve(r))
            /\ WF_vars(Tick)

FairSpec == Spec /\ Fairness
==============================================================================
