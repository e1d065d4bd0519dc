---------------------------- MODULE GatewayProofs ----------------------------
(***************************************************************************)
(* Proofs about the gateway for every value of its constants.              *)
(***************************************************************************)
EXTENDS GatewayProperties, TLAPS, FiniteSetTheorems

(* A request that reached finish() carries a final status.                 *)
VerdictInv == \A r \in Requests : pc[r] = "finish" => verdict[r] \in {"completed", "failed"}

TypeInv == TypeOK /\ VerdictInv

----------------------------------------------------------------------------
(* What the store's operations return.                                     *)

LEMMA RecordTypes ==
  /\ NoRecord \in Slot
  /\ \A owner \in Principals \cup {Nobody}, n \in Nat, ttl \in Ttls :
       NewRecord(owner, n, ttl, Retention) \in Slot
  /\ \A rec \in Slot, n \in Nat : Redeemed(rec, n) \in Slot
  /\ \A rec \in Slot, s \in Statuses : Finished(rec, s) \in Slot
  /\ \A rec \in Slot : Claimed(rec) \in Slot
<1>1. NoRecord \in Slot
  BY DEF NoRecord, Slot
<1>2. ASSUME NEW owner \in Principals \cup {Nobody}, NEW n \in Nat, NEW ttl \in Ttls
      PROVE  NewRecord(owner, n, ttl, Retention) \in Slot
  <2>1. ttl \in Nat /\ Retention \in Nat
    BY GatewayAssumption DEF GatewayAssumption
  <2> QED BY <2>1 DEF NewRecord, Slot, Statuses
<1>3. \A rec \in Slot, n \in Nat : Redeemed(rec, n) \in Slot
  BY DEF Redeemed, Slot, Statuses
<1>4. \A rec \in Slot, s \in Statuses : Finished(rec, s) \in Slot
  BY DEF Finished, Slot
<1>5. \A rec \in Slot : Claimed(rec) \in Slot
  BY DEF Claimed, Slot, Statuses
<1> QED BY <1>1, <1>2, <1>3, <1>4, <1>5

LEMMA StoreTypes ==
  ASSUME StoreTypeOK, NEW t \in Tickets, NEW n \in Nat
  PROVE  /\ \A owner \in Principals \cup {Nobody}, ttl \in Ttls :
              Put(t, NewRecord(owner, n, ttl, Retention), n) => StoreTypeOK'
         /\ Redeem(t, n) => StoreTypeOK'
         /\ \A s \in Statuses : Finish(t, s) => StoreTypeOK'
         /\ Claim(t) => StoreTypeOK'
         /\ Sweep(n) => StoreTypeOK'
<1> USE DEF StoreTypeOK
<1>1. ASSUME NEW owner \in Principals \cup {Nobody}, NEW ttl \in Ttls,
             Put(t, NewRecord(owner, n, ttl, Retention), n)
      PROVE  StoreTypeOK'
  <2>1. NewRecord(owner, n, ttl, Retention) \in Slot /\ NoRecord \in Slot
    BY RecordTypes
  <2> QED BY <1>1, <2>1 DEF Put
<1>2. Redeem(t, n) => StoreTypeOK'
  BY RecordTypes DEF Redeem
<1>3. ASSUME NEW s \in Statuses, Finish(t, s) PROVE StoreTypeOK'
  BY <1>3, RecordTypes DEF Finish
<1>4. Claim(t) => StoreTypeOK'
  BY RecordTypes DEF Claim
<1>5. Sweep(n) => StoreTypeOK'
  BY RecordTypes DEF Sweep
<1> QED BY <1>1, <1>2, <1>3, <1>4, <1>5

----------------------------------------------------------------------------
(* Type correctness.                                                       *)

LEMMA TypeInit == Init => TypeInv
BY RecordTypes DEF Init, TypeInv, TypeOK, VerdictInv, StoreInit, StoreTypeOK, Answers, InSlot

(* What refusing keeps, whatever the code.                                 *)
LEMMA RefuseTypes ==
  ASSUME TypeInv, NEW r \in Requests, NEW code \in Answers, Refuse(r, code)
  PROVE  /\ pc' \in [Requests -> InSlot \cup {"new", "notify", "done", "dead"}]
         /\ answer' \in [Requests -> Answers]
         /\ inFlight' \in [Processes -> Int]
         /\ UNCHANGED <<target, home, started, verdict, dragging>>
         /\ VerdictInv'
BY DEF TypeInv, TypeOK, VerdictInv, Refuse, Reply, Goto, FreeSlot, InSlot

LEMMA TypeStep == TypeInv /\ [Next]_vars => TypeInv'
<1> SUFFICES ASSUME TypeInv, [Next]_vars PROVE TypeInv'
  OBVIOUS
<1> USE DEF TypeInv, VerdictInv, TypeOK, InSlot
<1>1. ASSUME NEW t \in Tickets, Issue(t) PROVE TypeInv'
  <2>1. StoreTypeOK'
    BY <1>1, StoreTypes DEF Issue
  <2> QED BY <1>1, <2>1 DEF Issue, requestVars, historyVars
<1>2. ASSUME NEW r \in Requests, Arrive(r) PROVE TypeInv'
  BY <1>2 DEF Arrive, Reply, Goto, StoreTypeOK, historyVars, Answers, Refusals
<1>3. ASSUME NEW r \in Requests, Authenticate(r) PROVE TypeInv'
  BY <1>3 DEF Authenticate, Refuse, Reply, Goto, FreeSlot, StoreTypeOK, historyVars,
              Answers, Refusals
<1>4. ASSUME NEW r \in Requests, Lookup(r) PROVE TypeInv'
  <2>1. LookupResult(r) \in Answers \cup {"usable"}
    BY DEF LookupResult, Answers, Refusals
  <2>2. CASE \E code \in Answers : Refuse(r, code)
    BY <1>4, <2>2, RefuseTypes DEF Lookup, StoreTypeOK, historyVars
  <2>3. CASE LookupResult(r) = "usable" /\ Goto(r, "redeem")
             /\ UNCHANGED <<target, home, started, verdict, dragging, answer, inFlight>>
    BY <1>4, <2>3 DEF Lookup, Goto, StoreTypeOK, historyVars
  <2> QED BY <1>4, <2>1, <2>2, <2>3 DEF Lookup, Answers, Refusals
<1>5. ASSUME NEW r \in Requests, RedeemTicket(r) PROVE TypeInv'
  <2>1. StoreTypeOK'
    BY <1>5, StoreTypes DEF RedeemTicket, Win, StoreTypeOK
  <2>2. redeemers' \in [Tickets -> SUBSET Requests]
    BY <1>5 DEF RedeemTicket, Win
  <2>3. CASE \E code \in Answers : Refuse(r, code)
    BY <1>5, <2>1, <2>2, <2>3, RefuseTypes DEF RedeemTicket
  <2>4. CASE Goto(r, "forward") /\ started' = [started EXCEPT ![r] = clock]
             /\ UNCHANGED <<target, home, verdict, dragging, answer, inFlight>>
    BY <1>5, <2>1, <2>2, <2>4 DEF RedeemTicket, Goto
  <2> QED BY <1>5, <2>3, <2>4 DEF RedeemTicket, Answers, Refusals
<1>6. ASSUME NEW r \in Requests, EndForward(r) PROVE TypeInv'
  BY <1>6 DEF EndForward, Goto, StoreTypeOK, historyVars
<1>7. ASSUME NEW r \in Requests, FinishRecord(r) PROVE TypeInv'
  <2>1. verdict[r] \in Statuses /\ verdict[r] \in Answers
    BY <1>7 DEF FinishRecord, Statuses, Answers
  <2>2. StoreTypeOK'
    BY <1>7, <2>1, StoreTypes DEF FinishRecord
  <2> QED BY <1>7, <2>1, <2>2 DEF FinishRecord, Goto, FreeSlot, historyVars
<1>8. ASSUME NEW r \in Requests, NotifyHook(r) PROVE TypeInv'
  BY <1>8 DEF NotifyHook, Goto, StoreTypeOK
<1>9. ASSUME NEW r \in Requests, ForwardRaises(r) PROVE TypeInv'
  BY <1>9 DEF ForwardRaises, Refuse, Reply, Goto, FreeSlot, StoreTypeOK, historyVars, Answers
<1>10. ASSUME NEW r \in Requests, StoreRaises(r) PROVE TypeInv'
  <2>1. pc[r] = "finish" => verdict[r] \in Statuses
    BY DEF Statuses
  <2>2. StoreTypeOK'
    BY <1>10, <2>1, StoreTypes DEF StoreRaises, Win, StoreTypeOK
  <2>3. redeemers' \in [Tickets -> SUBSET Requests]
    BY <1>10 DEF StoreRaises, Win
  <2>4. Refuse(r, "internal") /\ "internal" \in Answers
    BY <1>10 DEF StoreRaises, Answers
  <2> QED BY <1>10, <2>2, <2>3, <2>4, RefuseTypes DEF StoreRaises
<1>11. ASSUME NEW c \in Claimers, BeginClaim(c) PROVE TypeInv'
  BY <1>11 DEF BeginClaim, StoreTypeOK, requestVars, historyVars
<1>12. ASSUME NEW c \in Claimers, EndClaim(c) PROVE TypeInv'
  <2>1. StoreTypeOK'
    BY <1>12, StoreTypes DEF EndClaim, StoreTypeOK
  <2> QED BY <1>12, <2>1 DEF EndClaim, requestVars, historyVars
<1>13. ASSUME SweepStore PROVE TypeInv'
  <2>1. StoreTypeOK'
    BY <1>13, StoreTypes, RecordTypes DEF SweepStore, Sweep, StoreTypeOK
  <2> QED BY <1>13, <2>1 DEF SweepStore, requestVars, historyVars
<1>14. ASSUME NEW p \in Processes, Crash(p) PROVE TypeInv'
  BY <1>14, RecordTypes DEF Crash, StoreTypeOK, historyVars
<1>15. ASSUME Tick PROVE TypeInv'
  BY <1>15 DEF Tick, StoreTypeOK, requestVars, historyVars
<1>16. ASSUME NEW r \in Requests, Drag(r) PROVE TypeInv'
  BY <1>16 DEF Drag, StoreTypeOK, historyVars
<1>17. CASE UNCHANGED vars
  BY <1>17 DEF vars, requestVars, historyVars, StoreTypeOK
<1> QED BY <1>1, <1>2, <1>3, <1>4, <1>5, <1>6, <1>7, <1>8, <1>9, <1>10, <1>11, <1>12,
           <1>13, <1>14, <1>15, <1>16, <1>17 DEF Next, Serve, Unbounded

(* Every variable stays in its type, and no record outside the type of     *)
(* records is ever stored, whatever the requests, replicas and crashes.    *)
THEOREM TypeCorrect == Spec => []TypeOK
<1>1. TypeInv => TypeOK
  BY DEF TypeInv
<1> QED BY TypeInit, TypeStep, <1>1, PTL DEF Spec
----------------------------------------------------------------------------
(* Single use.  SingleUse is not inductive: that the record of an unspent  *)
(* ticket has no redeemer must be known where redeem's check sees "issued",*)
(* and that finish(), which checks no status, meets only the record of its *)
(* own redemption.                                                         *)
Spending(r) == pc[r] \in {"forward", "finish"}

SpendInv ==
  /\ \A t \in Tickets \ minted : ~Present(store[t]) /\ redeemers[t] = {}
  /\ \A t \in Tickets : store[t].status = "issued" => redeemers[t] = {}
  /\ \A r \in Requests : Spending(r) =>
       /\ r \in redeemers[target[r]]
       /\ store[target[r]].status \in {"redeemed", "absent"}
  /\ SingleUse

(* A step that touches no record, no redeemer and starts no forwarding.    *)
LEMMA SpendFrame ==
  ASSUME TypeInv, SpendInv, UNCHANGED <<store, minted, redeemers, target>>,
         \A r \in Requests : Spending(r)' => Spending(r)
  PROVE  SpendInv'
BY DEF SpendInv, SingleUse, Present

(* A step that forgets some records, or claims one, changes nothing else.  *)
LEMMA SpendForget ==
  ASSUME TypeInv, SpendInv, UNCHANGED <<minted, redeemers, target>>,
         \A t \in Tickets : \/ store'[t] = store[t]
                            \/ store'[t].status = "absent"
                            \/ store[t].status = "completed" /\ store'[t].status = "claimed",
         \A r \in Requests : Spending(r)' => Spending(r)
  PROVE  SpendInv'
<1>1. \A t \in Tickets \ minted : store'[t].status = "absent"
  BY DEF SpendInv, Present
<1> QED BY <1>1 DEF SpendInv, SingleUse, Present, TypeInv, TypeOK

LEMMA SpendInit == Init => SpendInv
BY DEF Init, SpendInv, SingleUse, Spending, StoreInit, NoRecord, Present

(* The one step that spends: redeem found the record issued.               *)
LEMMA SpendWin ==
  ASSUME TypeInv, SpendInv, NEW r \in Requests, pc[r] = "redeem", Win(r),
         UNCHANGED <<minted, target>>,
         \A s \in Requests \ {r} : pc'[s] = pc[s],
         pc'[r] \in {"forward", "done"}
  PROVE  SpendInv'
<1> DEFINE t == target[r]
<1>1. t \in Tickets /\ store[t].status = "issued" /\ redeemers[t] = {}
  BY DEF Win, RedeemResult, TypeInv, TypeOK, SpendInv, Present
<1>2. redeemers' = [redeemers EXCEPT ![t] = {r}]
  BY <1>1 DEF Win, TypeInv, TypeOK
<1>3. /\ store'[t].status = "redeemed"
      /\ \A u \in Tickets \ {t} : store'[u] = store[u]
  BY <1>1 DEF Win, Redeem, Redeemed, TypeInv, TypeOK, StoreTypeOK, Slot
<1>4. t \in minted
  BY <1>1 DEF SpendInv, Present
<1>5. \A s \in Requests \ {r} : Spending(s) => target[s] # t
  BY <1>1 DEF SpendInv
<1>6. \A u \in Tickets : u # t => redeemers'[u] = redeemers[u]
  BY <1>2 DEF TypeInv, TypeOK
<1>7. redeemers'[t] = {r}
  BY <1>1, <1>2 DEF TypeInv, TypeOK
<1>8. \A s \in Requests : Spending(s)' =>
        /\ s \in redeemers'[target[s]]
        /\ store'[target[s]].status \in {"redeemed", "absent"}
  <2> SUFFICES ASSUME NEW s \in Requests, Spending(s)'
               PROVE  /\ s \in redeemers'[target[s]]
                      /\ store'[target[s]].status \in {"redeemed", "absent"}
    OBVIOUS
  <2>1. CASE s = r
    BY <2>1, <1>3, <1>7
  <2>2. CASE s # r
    <3>1. Spending(s) /\ target[s] \in Tickets \ {t}
      BY <2>2, <1>5 DEF Spending, TypeInv, TypeOK
    <3> QED BY <3>1, <1>3, <1>6 DEF SpendInv
  <2> QED BY <2>1, <2>2
<1>9. SingleUse'
  BY <1>6, <1>7 DEF SingleUse, SpendInv
<1> QED BY <1>1, <1>3, <1>4, <1>6, <1>7, <1>8, <1>9 DEF SpendInv, Present

(* The step that ends an upload writes only its own record.                *)
LEMMA SpendFinish ==
  ASSUME TypeInv, SpendInv, NEW r \in Requests, pc[r] = "finish",
         Finish(target[r], verdict[r]), UNCHANGED <<minted, target, redeemers>>,
         \A s \in Requests \ {r} : pc'[s] = pc[s],
         pc'[r] \in {"notify", "done"}
  PROVE  SpendInv'
<1> DEFINE t == target[r]
<1>1. t \in Tickets /\ r \in redeemers[t]
  BY DEF TypeInv, TypeOK, SpendInv, Spending
<1>2. \A s \in Requests \ {r} : Spending(s) => target[s] # t
  BY <1>1 DEF SpendInv, SingleUse
<1>3. \A u \in Tickets \ {t} : store'[u] = store[u]
  BY <1>1 DEF Finish, TypeInv, TypeOK, StoreTypeOK
<1>4. store'[t].status = "absent" \/ store'[t].status \in {"completed", "failed"}
  BY <1>1 DEF Finish, Finished, Present, TypeInv, VerdictInv, TypeOK, StoreTypeOK, Slot
<1>5. t \in minted
  BY <1>1 DEF SpendInv
<1>6. ~Spending(r)' /\ \A s \in Requests \ {r} : Spending(s)' => Spending(s)
  BY DEF Spending
<1> QED BY <1>1, <1>2, <1>3, <1>4, <1>5, <1>6
        DEF SpendInv, SingleUse, Present, TypeInv, TypeOK

LEMMA SpendStep == TypeInv /\ SpendInv /\ [Next]_vars => SpendInv'
<1> SUFFICES ASSUME TypeInv, SpendInv, [Next]_vars PROVE SpendInv'
  OBVIOUS
<1> USE DEF TypeInv, TypeOK, StoreTypeOK
<1>1. ASSUME NEW t \in Tickets, Issue(t) PROVE SpendInv'
  <2>1. PICK owner \in Principals \cup {Nobody}, ttl \in Ttls :
          Put(t, NewRecord(owner, clock, ttl, Retention), clock)
    BY <1>1 DEF Issue
  <2>2. /\ store'[t].status = "issued"
        /\ \A u \in Tickets \ {t} : store'[u] = store[u] \/ store'[u].status = "absent"
    BY <2>1 DEF Put, NewRecord, NoRecord
  <2>3. /\ t \notin minted /\ minted' = minted \cup {t}
        /\ UNCHANGED <<pc, target, redeemers>>
    BY <1>1 DEF Issue, requestVars, historyVars
  <2>4. \A r \in Requests : Spending(r) => target[r] # t
    BY <2>3 DEF SpendInv
  <2> QED BY <2>2, <2>3, <2>4 DEF SpendInv, SingleUse, Spending, Present
<1>2. ASSUME NEW r \in Requests, Arrive(r) PROVE SpendInv'
  BY <1>2, SpendFrame DEF Arrive, Reply, Goto, Spending, historyVars
<1>3. ASSUME NEW r \in Requests, Authenticate(r) PROVE SpendInv'
  BY <1>3, SpendFrame DEF Authenticate, Refuse, Reply, Goto, Spending, historyVars
<1>4. ASSUME NEW r \in Requests, Lookup(r) PROVE SpendInv'
  BY <1>4, SpendFrame DEF Lookup, Refuse, Reply, Goto, Spending, historyVars
<1>5. ASSUME NEW r \in Requests, RedeemTicket(r) PROVE SpendInv'
  <2>1. CASE Win(r) /\ Goto(r, "forward")
    BY <1>5, <2>1, SpendWin DEF RedeemTicket, Goto, Refuse
  <2>2. CASE /\ RedeemResult(target[r], JudgedAt(r)) # "redeemed"
             /\ UNCHANGED <<store, redeemers>>
    BY <1>5, <2>2, SpendFrame DEF RedeemTicket, Win, Refuse, Reply, Goto, Spending
  <2> QED BY <1>5, <2>1, <2>2 DEF RedeemTicket
<1>6. ASSUME NEW r \in Requests, EndForward(r) PROVE SpendInv'
  BY <1>6, SpendFrame DEF EndForward, Goto, Spending, historyVars
<1>7. ASSUME NEW r \in Requests, FinishRecord(r) PROVE SpendInv'
  BY <1>7, SpendFinish DEF FinishRecord, Goto, historyVars
<1>8. ASSUME NEW r \in Requests, NotifyHook(r) PROVE SpendInv'
  BY <1>8, SpendFrame DEF NotifyHook, Goto, Spending
<1>9. ASSUME NEW r \in Requests, ForwardRaises(r) PROVE SpendInv'
  BY <1>9, SpendFrame DEF ForwardRaises, Refuse, Reply, Goto, Spending, historyVars
<1>10. ASSUME NEW r \in Requests, StoreRaises(r) PROVE SpendInv'
  <2>1. /\ UNCHANGED <<minted, target>>
        /\ pc' = [pc EXCEPT ![r] = "done"]
    BY <1>10 DEF StoreRaises, Refuse, Reply, Goto
  <2>2. CASE UNCHANGED <<store, redeemers>>
    BY <2>1, <2>2, SpendFrame DEF Spending
  <2>3. CASE pc[r] = "redeem" /\ Win(r)
    BY <2>1, <2>3, SpendWin
  <2>4. CASE pc[r] = "finish" /\ Finish(target[r], verdict[r]) /\ UNCHANGED redeemers
    BY <2>1, <2>4, SpendFinish
  <2> QED BY <1>10, <2>2, <2>3, <2>4 DEF StoreRaises
<1>11. ASSUME NEW c \in Claimers, BeginClaim(c) PROVE SpendInv'
  BY <1>11, SpendFrame DEF BeginClaim, Spending, requestVars, historyVars
<1>12. ASSUME NEW c \in Claimers, EndClaim(c) PROVE SpendInv'
  <2>1. claim[c].ticket \in Tickets
    OBVIOUS
  <2> QED BY <1>12, <2>1, SpendForget
          DEF EndClaim, Claim, Claimable, Claimed, Spending, Slot, requestVars, historyVars
<1>13. ASSUME SweepStore PROVE SpendInv'
  BY <1>13, SpendForget DEF SweepStore, Sweep, NoRecord, Spending, requestVars, historyVars
<1>14. ASSUME NEW p \in Processes, Crash(p) PROVE SpendInv'
  <2>1. \A r \in Requests : Spending(r)' => Spending(r)
    BY <1>14 DEF Crash, Spending
  <2> QED BY <1>14, <2>1, SpendForget DEF Crash, NoRecord, historyVars
<1>15. ASSUME Tick PROVE SpendInv'
  BY <1>15, SpendFrame DEF Tick, Spending, requestVars, historyVars
<1>16. ASSUME NEW r \in Requests, Drag(r) PROVE SpendInv'
  BY <1>16, SpendFrame DEF Drag, Spending, historyVars
<1>17. CASE UNCHANGED vars
  BY <1>17, SpendFrame DEF vars, Spending, requestVars, historyVars
<1> QED BY <1>1, <1>2, <1>3, <1>4, <1>5, <1>6, <1>7, <1>8, <1>9, <1>10, <1>11, <1>12,
           <1>13, <1>14, <1>15, <1>16, <1>17 DEF Next, Serve, Unbounded

(* A ticket is spent at most once, for any number of requests, processes   *)
(* and tickets, through crashes, lost replies and forgotten records.       *)
THEOREM TicketSpentOnce == Spec => []SingleUse
<1>1. SpendInv => SingleUse
  BY DEF SpendInv
<1> QED BY TypeInit, TypeStep, SpendInit, SpendStep, <1>1, PTL DEF Spec

----------------------------------------------------------------------------
(* Times.  redeemed_at is the clock read before the lookup, so the age of  *)
(* a record at work is bounded by the time of the two store calls, of the  *)
(* body, of the backend, unless it drags, and of finish().                 *)
StreamTime == UploadTimeout + BackendTime

TimeInv ==
  \A r \in Requests :
    /\ pc[r] \in {"lookup", "redeem"} => clock <= now[r] + StoreTime
    /\ Spending(r) =>
         /\ started[r] <= now[r] + StoreTime
         /\ Present(store[target[r]]) => store[target[r]].redeemedAt = now[r]
    /\ r \notin dragging =>
         /\ pc[r] = "forward" => clock <= started[r] + StreamTime
         /\ pc[r] = "finish" => clock <= started[r] + StreamTime + StoreTime

LEMMA TimesAreNat == StreamTime \in Nat /\ {UploadTimeout, BackendTime, StoreTime, Grace} \subseteq Nat
BY GatewayAssumption DEF GatewayAssumption, StreamTime

LEMMA TimeInit == Init => TimeInv
BY DEF Init, TimeInv, Spending

(* A step of other requests, of the store's owner or of the environment    *)
(* that leaves the clock alone.                                            *)
LEMMA TimeFrame ==
  ASSUME TypeInv, SpendInv, TimeInv, UNCHANGED <<clock, now, started, target>>,
         dragging \subseteq dragging',
         \A r \in Requests : pc'[r] = pc[r] \/ pc'[r] \in {"new", "auth", "notify", "done", "dead"},
         \A r \in Requests : Spending(r)' => \/ store'[target[r]] = store[target[r]]
                                             \/ store'[target[r]].status = "absent"
  PROVE  TimeInv'
BY DEF TimeInv, Spending, Present

LEMMA TimeStep == TypeInv /\ SpendInv /\ TimeInv /\ [Next]_vars => TimeInv'
<1> SUFFICES ASSUME TypeInv, SpendInv, TimeInv, [Next]_vars PROVE TimeInv'
  OBVIOUS
<1> USE DEF TypeInv, TypeOK, StoreTypeOK
<1>1. ASSUME NEW t \in Tickets, Issue(t) PROVE TimeInv'
  <2>1. PICK owner \in Principals \cup {Nobody}, ttl \in Ttls :
          Put(t, NewRecord(owner, clock, ttl, Retention), clock)
    BY <1>1 DEF Issue
  <2>2. \A u \in Tickets \ {t} : store'[u] = store[u] \/ store'[u].status = "absent"
    BY <2>1 DEF Put, NoRecord
  <2>3. \A r \in Requests : Spending(r) => target[r] # t
    BY <1>1 DEF SpendInv, Issue
  <2> QED BY <1>1, <2>2, <2>3, TimeFrame DEF Issue, Spending, requestVars
<1>2. ASSUME NEW r \in Requests, Arrive(r) PROVE TimeInv'
  BY <1>2, TimesAreNat DEF Arrive, Reply, Goto, TimeInv, Spending
<1>3. ASSUME NEW r \in Requests, Authenticate(r) PROVE TimeInv'
  BY <1>3, TimesAreNat DEF Authenticate, Refuse, Reply, Goto, TimeInv, Spending
<1>4. ASSUME NEW r \in Requests, Lookup(r) PROVE TimeInv'
  BY <1>4 DEF Lookup, Refuse, Reply, Goto, TimeInv, Spending
<1>5. ASSUME NEW r \in Requests, pc[r] = "redeem", Win(r),
             UNCHANGED <<clock, target, now, dragging>>,
             \A s \in Requests \ {r} : pc'[s] = pc[s] /\ started'[s] = started[s],
             \/ pc'[r] = "forward" /\ started'[r] = clock
             \/ pc'[r] = "done"
      PROVE  TimeInv'
  <2> DEFINE t == target[r]
  <2>1. /\ store[t].status = "issued" /\ redeemers[t] = {}
        /\ store'[t].redeemedAt = now[r]
        /\ \A u \in Tickets \ {t} : store'[u] = store[u]
    BY <1>5 DEF Win, RedeemResult, Redeem, Redeemed, Present, SpendInv, Slot
  <2>2. \A s \in Requests \ {r} : Spending(s)' => Spending(s) /\ target[s] # t
    BY <1>5, <2>1 DEF SpendInv, Spending
  <2>3. clock <= now[r] + StoreTime /\ clock <= clock + StreamTime
    BY <1>5, TimesAreNat DEF TimeInv
  <2> QED BY <1>5, <2>1, <2>2, <2>3 DEF TimeInv, Spending, Present
<1>6. ASSUME NEW r \in Requests, RedeemTicket(r) PROVE TimeInv'
  <2>1. CASE Win(r) /\ Goto(r, "forward") /\ started' = [started EXCEPT ![r] = clock]
    <3>1. /\ pc[r] = "redeem" /\ UNCHANGED <<clock, now, target, dragging>>
          /\ pc'[r] = "forward" /\ started'[r] = clock
          /\ \A s \in Requests \ {r} : pc'[s] = pc[s] /\ started'[s] = started[s]
      BY <1>6, <2>1 DEF RedeemTicket, Goto, Refuse
    <3> QED BY <1>5, <2>1, <3>1
  <2>2. CASE UNCHANGED store /\ Goto(r, "done") /\ UNCHANGED started
    BY <1>6, <2>2, TimeFrame DEF RedeemTicket, Goto, Refuse
  <2> QED BY <1>6, <2>1, <2>2 DEF RedeemTicket, Refuse, Reply
<1>7. ASSUME NEW r \in Requests, EndForward(r) PROVE TimeInv'
  BY <1>7, TimesAreNat DEF EndForward, Goto, TimeInv, Spending
<1>8. ASSUME NEW r \in Requests, pc[r] = "finish", Finish(target[r], verdict[r]),
             UNCHANGED <<clock, now, started, target, dragging>>,
             \A s \in Requests \ {r} : pc'[s] = pc[s], pc'[r] \in {"notify", "done"}
      PROVE  TimeInv'
  <2>1. \A s \in Requests \ {r} : Spending(s) => target[s] # target[r]
    BY <1>8 DEF SpendInv, SingleUse, Spending
  <2>2. \A u \in Tickets \ {target[r]} : store'[u] = store[u]
    BY <1>8 DEF Finish
  <2> QED BY <1>8, <2>1, <2>2, TimeFrame DEF Spending
<1>9. ASSUME NEW r \in Requests, FinishRecord(r) PROVE TimeInv'
  BY <1>8, <1>9 DEF FinishRecord, Goto
<1>10. ASSUME NEW r \in Requests, NotifyHook(r) PROVE TimeInv'
  BY <1>10, TimeFrame DEF NotifyHook, Goto
<1>11. ASSUME NEW r \in Requests, ForwardRaises(r) PROVE TimeInv'
  BY <1>11, TimeFrame DEF ForwardRaises, Refuse, Reply, Goto
<1>12. ASSUME NEW r \in Requests, StoreRaises(r) PROVE TimeInv'
  <2>1. /\ UNCHANGED <<clock, now, started, target, dragging>>
        /\ pc' = [pc EXCEPT ![r] = "done"]
    BY <1>12 DEF StoreRaises, Refuse, Reply, Goto
  <2>2. CASE UNCHANGED store
    BY <2>1, <2>2, TimeFrame
  <2>3. CASE pc[r] = "redeem" /\ Win(r)
    BY <1>5, <2>1, <2>3
  <2>4. CASE pc[r] = "finish" /\ Finish(target[r], verdict[r])
    BY <1>8, <2>1, <2>4
  <2> QED BY <1>12, <2>2, <2>3, <2>4 DEF StoreRaises
<1>13. ASSUME NEW c \in Claimers, BeginClaim(c) PROVE TimeInv'
  BY <1>13, TimeFrame DEF BeginClaim, requestVars
<1>14. ASSUME NEW c \in Claimers, EndClaim(c) PROVE TimeInv'
  <2>1. \A t \in Tickets : store'[t] = store[t] \/ store[t].status = "completed"
    BY <1>14 DEF EndClaim, Claim, Claimable
  <2>2. \A r \in Requests : Spending(r) => store[target[r]].status # "completed"
    BY DEF SpendInv
  <2> QED BY <1>14, <2>1, <2>2, TimeFrame DEF EndClaim, Spending, requestVars
<1>15. ASSUME SweepStore PROVE TimeInv'
  BY <1>15, TimeFrame DEF SweepStore, Sweep, NoRecord, requestVars
<1>16. ASSUME NEW p \in Processes, Crash(p) PROVE TimeInv'
  BY <1>16, TimeFrame DEF Crash, NoRecord
<1>17. ASSUME Tick PROVE TimeInv'
  BY <1>17, TimesAreNat DEF Tick, WithinLimits, TimeInv, Spending, StreamTime,
                            requestVars, historyVars
<1>18. ASSUME NEW r \in Requests, Drag(r) PROVE TimeInv'
  BY <1>18, TimeFrame DEF Drag
<1>19. CASE UNCHANGED vars
  BY <1>19, TimeFrame DEF vars, requestVars
<1> QED BY <1>1, <1>2, <1>3, <1>4, <1>6, <1>7, <1>9, <1>10, <1>11, <1>12, <1>13, <1>14,
           <1>15, <1>16, <1>17, <1>18, <1>19 DEF Next, Serve, Unbounded

----------------------------------------------------------------------------
(***************************************************************************)
(* What the gateway says is true.  Two lemmas say once what any step may   *)
(* do to a record and to a request; the invariants then follow move by     *)
(* move, not action by action.                                             *)
(***************************************************************************)

Left(r) == pc'[r] \in {"notify", "done"}

(* What a step may do to the record of ticket t and to its redeemers.      *)
Kept(t) == store'[t] = store[t] /\ redeemers'[t] = redeemers[t]
Forgotten(t) ==     \* retention is over, or the process that kept it died
  /\ store'[t] = NoRecord /\ redeemers'[t] = redeemers[t]
  /\ \/ ~Present(store[t])
     \/ clock >= store[t].retentionUntil
     \/ \A r \in Requests : pc'[r] \notin InSlot
Born(t) ==
  /\ t \notin minted /\ t \in minted'
  /\ redeemers'[t] = redeemers[t]
  /\ \E owner \in Principals \cup {Nobody}, ttl \in Ttls :
       store'[t] = NewRecord(owner, clock, ttl, Retention)
SpentBy(t, r) ==
  /\ pc[r] = "redeem" /\ target[r] = t /\ pc'[r] \in {"forward", "done"}
  /\ RedeemResult(t, JudgedAt(r)) = "redeemed"
  /\ store'[t] = Redeemed(store[t], now[r])
  /\ redeemers[t] = {} /\ redeemers'[t] = {r}
EndedBy(t, r) ==
  /\ pc[r] = "finish" /\ target[r] = t /\ Left(r)
  /\ store[t].status = "redeemed"
  /\ store'[t] = Finished(store[t], verdict[r])
  /\ redeemers'[t] = redeemers[t]
Taken(t) ==
  /\ store[t].status = "completed"
  /\ store'[t] = Claimed(store[t])
  /\ redeemers'[t] = redeemers[t]

RecordMove(t) ==
  \/ Kept(t) \/ Forgotten(t) \/ Born(t) \/ Taken(t)
  \/ \E r \in Requests : SpentBy(t, r) \/ EndedBy(t, r)

(* The record moves of redeem and finish, whoever makes the call.          *)
LEMMA WinMoves ==
  ASSUME TypeInv, SpendInv, NEW r \in Requests, pc[r] = "redeem", Win(r),
         pc'[r] \in {"forward", "done"}
  PROVE  \A t \in Tickets : RecordMove(t)
<1> USE DEF TypeInv, TypeOK, StoreTypeOK
<1>1. target[r] \in Tickets /\ redeemers[target[r]] = {}
  BY DEF Win, RedeemResult, Present, SpendInv
<1>2. SpentBy(target[r], r)
  BY <1>1 DEF Win, Redeem, SpentBy
<1>3. \A t \in Tickets \ {target[r]} : Kept(t)
  BY <1>1 DEF Win, Redeem, Kept
<1> QED BY <1>2, <1>3 DEF RecordMove

LEMMA FinishMoves ==
  ASSUME TypeInv, SpendInv, NEW r \in Requests, pc[r] = "finish", Left(r),
         Finish(target[r], verdict[r]), UNCHANGED redeemers
  PROVE  \A t \in Tickets : RecordMove(t)
<1> USE DEF TypeInv, TypeOK, StoreTypeOK
<1>1. target[r] \in Tickets /\ store[target[r]].status \in {"redeemed", "absent"}
  BY DEF SpendInv, Spending
<1>2. EndedBy(target[r], r) \/ Kept(target[r])
  BY <1>1 DEF Finish, Present, EndedBy, Kept
<1>3. \A t \in Tickets \ {target[r]} : Kept(t)
  BY <1>1 DEF Finish, Kept
<1> QED BY <1>2, <1>3 DEF RecordMove

LEMMA RecordMoves == TypeInv /\ SpendInv /\ [Next]_vars => \A t \in Tickets : RecordMove(t)
<1> SUFFICES ASSUME TypeInv, SpendInv, [Next]_vars PROVE \A t \in Tickets : RecordMove(t)
  OBVIOUS
<1> USE DEF TypeInv, TypeOK, StoreTypeOK
<1>0. ASSUME UNCHANGED <<store, redeemers>> PROVE \A t \in Tickets : RecordMove(t)
  BY <1>0 DEF RecordMove, Kept
<1>1. ASSUME NEW t \in Tickets, Issue(t) PROVE \A u \in Tickets : RecordMove(u)
  <2>1. PICK owner \in Principals \cup {Nobody}, ttl \in Ttls :
          Put(t, NewRecord(owner, clock, ttl, Retention), clock)
    BY <1>1 DEF Issue
  <2>2. /\ store'[t] = NewRecord(owner, clock, ttl, Retention)
        /\ \A u \in Tickets \ {t} : \/ store'[u] = store[u]
                                    \/ /\ store'[u] = NoRecord
                                       /\ ~Present(store[u]) \/ clock >= store[u].retentionUntil
    BY <2>1 DEF Put, Stored, Dead
  <2>3. t \notin minted /\ t \in minted' /\ UNCHANGED redeemers
    BY <1>1 DEF Issue, historyVars
  <2>4. Born(t)
    BY <2>2, <2>3 DEF Born
  <2> QED BY <2>2, <2>3, <2>4 DEF RecordMove, Kept, Forgotten
<1>2. ASSUME NEW r \in Requests, RedeemTicket(r) PROVE \A t \in Tickets : RecordMove(t)
  <2>1. CASE Win(r) /\ Goto(r, "forward")
    BY <1>2, <2>1, WinMoves DEF RedeemTicket, Goto
  <2> QED BY <1>0, <1>2, <2>1 DEF RedeemTicket
<1>3. ASSUME NEW r \in Requests, FinishRecord(r) PROVE \A t \in Tickets : RecordMove(t)
  BY <1>3, FinishMoves DEF FinishRecord, Goto, Left, historyVars
<1>4. ASSUME NEW r \in Requests, StoreRaises(r) PROVE \A t \in Tickets : RecordMove(t)
  <2>1. pc'[r] = "done"
    BY <1>4 DEF StoreRaises, Refuse, Reply, Goto
  <2> QED BY <1>0, <1>4, <2>1, WinMoves, FinishMoves DEF StoreRaises, Left
<1>5. ASSUME NEW c \in Claimers, EndClaim(c) PROVE \A t \in Tickets : RecordMove(t)
  <2>1. CASE Claimable(claim[c].ticket) /\ Claim(claim[c].ticket)
    <3>1. \A t \in Tickets : Taken(t) \/ Kept(t)
      BY <1>5, <2>1 DEF EndClaim, Claimable, Claim, Taken, Kept, historyVars
    <3> QED BY <3>1 DEF RecordMove
  <2>2. CASE UNCHANGED store
    BY <1>0, <1>5, <2>2 DEF EndClaim, historyVars
  <2> QED BY <1>5, <2>1, <2>2 DEF EndClaim
<1>6. ASSUME SweepStore PROVE \A t \in Tickets : RecordMove(t)
  BY <1>6 DEF SweepStore, Sweep, Dead, RecordMove, Kept, Forgotten, historyVars
<1>7. ASSUME NEW p \in Processes, Crash(p) PROVE \A t \in Tickets : RecordMove(t)
  <2>1. CASE Durable
    BY <1>7, <2>1 DEF Crash, RecordMove, Kept, historyVars
  <2>2. CASE ~Durable
    <3>1. \A r \in Requests : home[r] = p
      BY <2>2, GatewayAssumption DEF GatewayAssumption
    <3>2. \A r \in Requests : pc'[r] \notin InSlot
      BY <1>7, <3>1 DEF Crash, InSlot
    <3> QED BY <1>7, <2>2, <3>2 DEF Crash, RecordMove, Forgotten, historyVars
  <2> QED BY <2>1, <2>2
<1>8. ASSUME NEW r \in Requests, Arrive(r) \/ Authenticate(r) \/ Lookup(r) \/ Drag(r)
                                 \/ EndForward(r) \/ NotifyHook(r) \/ ForwardRaises(r)
      PROVE  UNCHANGED <<store, redeemers>>
  BY <1>8 DEF Arrive, Authenticate, Lookup, Drag, EndForward, NotifyHook, ForwardRaises, historyVars
<1>9. ASSUME NEW c \in Claimers, BeginClaim(c) PROVE UNCHANGED <<store, redeemers>>
  BY <1>9 DEF BeginClaim, historyVars
<1>10. Tick \/ UNCHANGED vars => UNCHANGED <<store, redeemers>>
  BY DEF Tick, vars, historyVars
<1> QED BY <1>0, <1>1, <1>2, <1>3, <1>4, <1>5, <1>6, <1>7, <1>8, <1>9, <1>10 DEF Next, Serve, Unbounded

----------------------------------------------------------------------------
(* What a step may do to request r.                                        *)
Idle(r) == pc'[r] \in {pc[r], "dead"} /\ answer'[r] = answer[r]
Knocks(r) ==        \* up to the lookup: no look at the record yet
  /\ pc[r] \in {"new", "auth"}
  /\ \/ pc'[r] \in {"auth", "lookup"} /\ answer'[r] = answer[r]
     \/ /\ pc'[r] = "done"
        /\ answer'[r] \in {"bad_request", "too_many_uploads", "unauthenticated"}
Looks(r) ==
  /\ pc[r] = "lookup"
  /\ store'[target[r]] = store[target[r]]
  /\ \/ /\ LookupResult(r) = "usable"
        /\ pc'[r] = "redeem" /\ answer'[r] = answer[r]
     \/ /\ pc'[r] = "done"
        /\ answer'[r] \in {LookupResult(r), "unfit"} \ {"usable"}
Spends(r) ==
  /\ pc[r] = "redeem" /\ pc'[r] = "forward" /\ answer'[r] = answer[r]
  /\ started'[r] = clock
Misses(r) ==
  /\ pc[r] = "redeem" /\ pc'[r] = "done"
  /\ UNCHANGED <<store, redeemers>>
  /\ \/ RedeemResult(target[r], JudgedAt(r)) = "expired" /\ answer'[r] = "ticket_expired"
     \/ /\ RedeemResult(target[r], JudgedAt(r)) \in {"not_found", "already_used"}
        /\ answer'[r] = "ticket_used"
Streams(r) == pc[r] = "forward" /\ pc'[r] = "finish" /\ answer'[r] = answer[r]
Ends(r) ==
  /\ pc[r] = "finish" /\ pc'[r] = "notify"
  /\ Finish(target[r], verdict[r]) /\ answer'[r] = verdict[r]
Tells(r) == pc[r] = "notify" /\ pc'[r] = "done" /\ answer'[r] = answer[r]
Breaks(r) == /\ pc[r] \in {"lookup", "redeem", "forward", "finish"} /\ pc'[r] = "done"
             /\ answer'[r] = "internal"

RequestMove(r) ==
  /\ target'[r] = target[r]
  /\ \/ now'[r] = now[r]
     \/ pc[r] \in {"new", "auth"} /\ now'[r] = clock
  /\ principal'[r] = principal[r] \/ pc[r] = "auth"
  /\ started'[r] = started[r] \/ pc[r] = "redeem"
  /\ \/ Idle(r) \/ Knocks(r) \/ Looks(r) \/ Spends(r) \/ Misses(r)
     \/ Streams(r) \/ Ends(r) \/ Tells(r) \/ Breaks(r)

LEMMA RequestMoves == TypeInv /\ [Next]_vars => \A r \in Requests : RequestMove(r)
<1> SUFFICES ASSUME TypeInv, [Next]_vars PROVE \A r \in Requests : RequestMove(r)
  OBVIOUS
<1> USE DEF TypeInv, TypeOK
<1>0. ASSUME UNCHANGED <<pc, target, principal, now, started, answer>>
      PROVE  \A r \in Requests : RequestMove(r)
  BY <1>0 DEF RequestMove, Idle
<1>1. ASSUME NEW r \in Requests,
             target' = target, principal' = principal, now' = now,
             \A s \in Requests \ {r} : /\ pc'[s] = pc[s] /\ answer'[s] = answer[s]
                                       /\ started'[s] = started[s],
             started'[r] = started[r] \/ pc[r] = "redeem",
             \/ Looks(r) \/ Spends(r) \/ Misses(r) \/ Streams(r) \/ Ends(r) \/ Tells(r)
             \/ Breaks(r)
      PROVE  \A s \in Requests : RequestMove(s)
  BY <1>1 DEF RequestMove, Idle
<1>2. ASSUME NEW r \in Requests, Arrive(r) PROVE \A s \in Requests : RequestMove(s)
  <2>1. Knocks(r) /\ (now'[r] = now[r] \/ now'[r] = clock)
    BY <1>2 DEF Arrive, Reply, Goto, Knocks
  <2>2. /\ target' = target /\ principal' = principal /\ started' = started
        /\ \A s \in Requests \ {r} : Idle(s) /\ now'[s] = now[s]
    BY <1>2 DEF Arrive, Reply, Goto, Idle
  <2>3. RequestMove(r)
    BY <2>1, <2>2 DEF RequestMove, Knocks
  <2> QED BY <2>2, <2>3 DEF RequestMove
<1>3. ASSUME NEW r \in Requests, Authenticate(r) PROVE \A s \in Requests : RequestMove(s)
  <2>1. Knocks(r) /\ pc[r] = "auth" /\ (now'[r] = now[r] \/ now'[r] = clock)
    BY <1>3 DEF Authenticate, Refuse, Reply, Goto, Knocks
  <2>2. /\ target' = target /\ started' = started
        /\ \A s \in Requests \ {r} : Idle(s) /\ now'[s] = now[s] /\ principal'[s] = principal[s]
    BY <1>3 DEF Authenticate, Refuse, Reply, Goto, Idle
  <2>3. RequestMove(r)
    BY <2>1, <2>2 DEF RequestMove
  <2> QED BY <2>2, <2>3 DEF RequestMove
<1>4. ASSUME NEW r \in Requests, Lookup(r) PROVE \A s \in Requests : RequestMove(s)
  <2>1. Looks(r)
    BY <1>4 DEF Lookup, Refuse, Reply, Goto, Looks
  <2> QED BY <1>1, <1>4, <2>1 DEF Lookup, Refuse, Reply, Goto
<1>5. ASSUME NEW r \in Requests, RedeemTicket(r) PROVE \A s \in Requests : RequestMove(s)
  <2>1. Spends(r) \/ Misses(r)
    BY <1>5 DEF RedeemTicket, RedeemResult, Refuse, Reply, Goto, Spends, Misses
  <2> QED BY <1>1, <1>5, <2>1 DEF RedeemTicket, Refuse, Reply, Goto
<1>6. ASSUME NEW r \in Requests, EndForward(r) PROVE \A s \in Requests : RequestMove(s)
  BY <1>1, <1>6 DEF EndForward, Goto, Streams
<1>7. ASSUME NEW r \in Requests, FinishRecord(r) PROVE \A s \in Requests : RequestMove(s)
  BY <1>1, <1>7 DEF FinishRecord, Goto, Ends
<1>8. ASSUME NEW r \in Requests, NotifyHook(r) PROVE \A s \in Requests : RequestMove(s)
  BY <1>1, <1>8 DEF NotifyHook, Goto, Tells
<1>9. ASSUME NEW r \in Requests, ForwardRaises(r) \/ StoreRaises(r)
      PROVE  \A s \in Requests : RequestMove(s)
  <2>1. Breaks(r) /\ UNCHANGED <<target, principal, now, started>>
    BY <1>9 DEF ForwardRaises, StoreRaises, Refuse, Reply, Goto, Breaks
  <2> QED BY <1>1, <1>9, <2>1 DEF ForwardRaises, StoreRaises, Refuse, Reply, Goto
<1>10. ASSUME NEW p \in Processes, Crash(p) PROVE \A s \in Requests : RequestMove(s)
  BY <1>10 DEF Crash, RequestMove, Idle
<1>11. ASSUME NEW t \in Tickets, Issue(t) PROVE \A s \in Requests : RequestMove(s)
  BY <1>0, <1>11 DEF Issue, requestVars
<1>12. ASSUME NEW c \in Claimers, BeginClaim(c) \/ EndClaim(c)
       PROVE  \A s \in Requests : RequestMove(s)
  BY <1>0, <1>12 DEF BeginClaim, EndClaim, requestVars
<1>13. SweepStore \/ Tick \/ UNCHANGED vars => UNCHANGED requestVars
  BY DEF SweepStore, Tick, vars
<1>14. ASSUME NEW r \in Requests, Drag(r) PROVE \A s \in Requests : RequestMove(s)
  BY <1>0, <1>14 DEF Drag
<1> QED BY <1>0, <1>2, <1>3, <1>4, <1>5, <1>6, <1>7, <1>8, <1>9, <1>10, <1>11, <1>12,
           <1>13, <1>14 DEF Next, Serve, Unbounded, requestVars

(* The clock, the set of minted ids and the set of dragging requests only  *)
(* grow, and no record changes while the clock moves.                      *)
LEMMA Growth ==
  ASSUME TypeInv, [Next]_vars
  PROVE  /\ clock <= clock' /\ minted \subseteq minted' /\ dragging \subseteq dragging'
         /\ clock' = clock \/ store' = store
BY DEF TypeInv, TypeOK, Next, Serve, Unbounded, Issue, Arrive, Authenticate, Lookup,
       RedeemTicket, Drag, EndForward, FinishRecord, NotifyHook, ForwardRaises, StoreRaises,
       Refuse, BeginClaim, EndClaim, SweepStore, Crash, Tick, vars, requestVars

(* A record that was minted keeps its terms for as long as it is there,    *)
(* and once gone it stays gone; redeemers are never taken back.            *)
LEMMA TermsKept ==
  ASSUME TypeInv, SpendInv, NEW t \in Tickets, RecordMove(t)
  PROVE  /\ redeemers[t] \subseteq redeemers'[t]
         /\ t \in minted /\ Present(store'[t]) =>
              /\ Present(store[t])
              /\ store'[t].owner = store[t].owner
              /\ store'[t].expiresAt = store[t].expiresAt
              /\ store'[t].retentionUntil = store[t].retentionUntil
<1> USE DEF TypeInv, TypeOK, StoreTypeOK, Slot
<1>1. store[t] \in Slot
  OBVIOUS
<1>2. CASE Kept(t) \/ Forgotten(t) \/ Born(t) \/ Taken(t)
  BY <1>1, <1>2 DEF Kept, Forgotten, Born, Taken, NoRecord, Claimed, Present
<1>3. CASE \E r \in Requests : SpentBy(t, r) \/ EndedBy(t, r)
  BY <1>1, <1>3 DEF SpentBy, EndedBy, RedeemResult, Redeemed, Finished, Present
<1> QED BY <1>2, <1>3 DEF RecordMove

(* Only the request that spent a ticket ends its record, and a spent       *)
(* ticket is not spent again.                                              *)
LEMMA OneEnds ==
  ASSUME TypeInv, SpendInv, NEW t \in Tickets, NEW r \in redeemers[t], RecordMove(t)
  PROVE  \/ Kept(t) \/ Forgotten(t) \/ Taken(t) \/ EndedBy(t, r)
<1>1. ~Born(t) /\ \A s \in Requests : ~SpentBy(t, s)
  BY DEF SpendInv, Born, SpentBy
<1>2. ASSUME NEW s \in Requests, EndedBy(t, s) PROVE s = r
  BY <1>2 DEF EndedBy, SpendInv, SingleUse, Spending
<1> QED BY <1>1, <1>2 DEF RecordMove

----------------------------------------------------------------------------
(* Final answers.  AnswerTruthful is not inductive: that the request which *)
(* was told "completed" is the one that spent the ticket rules out that    *)
(* another request ends the same record afterwards.                        *)
AnswerInv ==
  /\ \A r \in Requests : answer[r] \in {"completed", "failed"} =>
       /\ r \in redeemers[target[r]]
       /\ pc[r] \in {"notify", "done", "dead"}
  /\ AnswerTruthful

LEMMA AnswerInit == Init => AnswerInv
BY DEF Init, AnswerInv, AnswerTruthful

LEMMA AnswerStep == TypeInv /\ SpendInv /\ AnswerInv /\ [Next]_vars => AnswerInv'
<1> SUFFICES ASSUME TypeInv, SpendInv, AnswerInv, [Next]_vars,
                    NEW r \in Requests, answer'[r] \in {"completed", "failed"}
             PROVE  /\ r \in redeemers'[target'[r]]
                    /\ pc'[r] \in {"notify", "done", "dead"}
                    /\ Present(store'[target'[r]]) =>
                         IF answer'[r] = "completed"
                         THEN store'[target'[r]].status \in {"completed", "claimed"}
                         ELSE store'[target'[r]].status = "failed"
  BY DEF AnswerInv, AnswerTruthful
<1> DEFINE t == target[r]
<1>1. t \in Tickets /\ store[t] \in Slot /\ RequestMove(r) /\ RecordMove(t) /\ target'[r] = t
  BY RequestMoves, RecordMoves DEF RequestMove, TypeInv, TypeOK, StoreTypeOK
<1>2. CASE Ends(r)
  <2>1. r \in redeemers[t]
    BY <1>2 DEF Ends, SpendInv, Spending
  <2>2. r \in redeemers'[t]
    BY <1>1, <2>1, TermsKept
  <2>3. Present(store'[t]) => store'[t].status = verdict[r]
    BY <1>1, <1>2 DEF Ends, Finish, Finished, Present, Slot, TypeInv, TypeOK, StoreTypeOK
  <2> QED BY <1>1, <1>2, <2>2, <2>3 DEF Ends
<1>3. CASE ~Ends(r)
  <2>1. answer[r] = answer'[r]
    BY <1>1, <1>3 DEF RequestMove, Idle, Knocks, Looks, Spends, Misses, Streams, Tells, Breaks,
                      LookupResult
  <2>2. r \in redeemers[t] /\ pc[r] \in {"notify", "done", "dead"}
    BY <2>1 DEF AnswerInv
  <2>3. pc'[r] \in {"notify", "done", "dead"}
    BY <1>1, <1>3, <2>2 DEF RequestMove, Idle, Knocks, Looks, Spends, Misses, Streams, Tells, Breaks
  <2>4. Kept(t) \/ Forgotten(t) \/ Taken(t)
    BY <1>1, <2>2, OneEnds DEF EndedBy
  <2>5. Present(store[t]) => IF answer[r] = "completed"
                             THEN store[t].status \in {"completed", "claimed"}
                             ELSE store[t].status = "failed"
    BY <2>1 DEF AnswerInv, AnswerTruthful
  <2> QED BY <1>1, <2>1, <2>2, <2>3, <2>4, <2>5
          DEF Kept, Forgotten, Taken, NoRecord, Claimed, Present, Slot
<1> QED BY <1>2, <1>3

(* The answer sent and the record agree for as long as the record is       *)
(* there, for any number of requests, replicas, crashes and lost replies.  *)
THEOREM AnswersAreTruthful == Spec => []AnswerTruthful
<1>1. AnswerInv => AnswerTruthful
  BY DEF AnswerInv
<1> QED BY TypeInit, TypeStep, SpendInit, SpendStep, AnswerInit, AnswerStep, <1>1, PTL DEF Spec

----------------------------------------------------------------------------
(* Refusals.  Three facts carry the invariant from one await to the next:  *)
(* a request has no answer while it is served, a record past "issued" has  *)
(* a redeemer, and a request that read a record names a minted ticket, so  *)
(* that what it learned cannot be undone by a later issue().               *)
RefusalInv ==
  /\ \A u \in Tickets : \A r \in redeemers[u] :
       /\ target[r] = u
       /\ pc[r] \in {"forward", "finish", "notify", "done", "dead"}
       /\ answer[r] \notin Refusals
  /\ \A u \in Tickets : store[u].status \notin {"absent", "issued"} => redeemers[u] # {}
  /\ \A r \in Requests :
       /\ pc[r] \in {"new"} \cup InSlot => answer[r] = "none"
       /\ pc[r] = "redeem" => target[r] \in minted
       /\ answer[r] \in {"ticket_used", "ticket_expired"} => target[r] \in minted
       /\ now[r] <= clock
  /\ RefusalTruthful

LEMMA RefusalInit == Init => RefusalInv
BY DEF Init, RefusalInv, RefusalTruthful, InSlot, StoreInit, NoRecord, Present, Refusals

(* What a new answer of each kind was read from.                           *)
LEMMA RefusalGrounds ==
  ASSUME TypeInv, SpendInv, RefusalInv, NEW r \in Requests, RequestMove(r),
         RecordMove(target[r]), answer'[r] # answer[r],
         answer'[r] \in {"ticket_used", "ticket_expired"}
  PROVE  /\ target[r] \in minted
         /\ pc[r] \in {"lookup", "redeem"}
         /\ store'[target[r]] = store[target[r]]
         /\ answer'[r] = "ticket_used" =>
              redeemers[target[r]] # {} \/ ~Present(store[target[r]])
         /\ answer'[r] = "ticket_expired" /\ Present(store[target[r]]) =>
              clock >= store[target[r]].expiresAt
<1> USE DEF TypeInv, TypeOK, StoreTypeOK
<1> DEFINE t == target[r]
<1>1. t \in Tickets /\ store[t] \in Slot /\ clock \in Nat /\ now[r] \in Nat /\ now[r] <= clock
  BY DEF RefusalInv
<1>2. Looks(r) \/ Misses(r)
  BY DEF RequestMove, Idle, Knocks, Spends, Streams, Ends, Tells, Breaks, VerdictInv
<1>3. CASE Looks(r)
  <2>1. answer'[r] = LookupResult(r)
    BY <1>2, <1>3 DEF Looks
  <2>2. Present(store[t]) /\ t \in minted
    BY <1>1, <2>1 DEF LookupResult, SpendInv
  <2>3. answer'[r] = "ticket_used" => store[t].status # "issued"
    BY <2>1 DEF LookupResult
  <2>4. answer'[r] = "ticket_expired" => clock >= store[t].expiresAt
    BY <1>1, <2>1 DEF LookupResult, Expired, Slot
  <2> QED BY <1>1, <1>3, <2>2, <2>3, <2>4 DEF Looks, RefusalInv, Present
<1>4. CASE Misses(r)
  <2>1. JudgedAt(r) \in Nat /\ JudgedAt(r) <= clock
    BY <1>1 DEF JudgedAt
  <2>2. answer'[r] = "ticket_expired" => clock >= store[t].expiresAt
    BY <1>1, <1>4, <2>1 DEF Misses, RedeemResult, Expired, Slot
  <2>3. answer'[r] = "ticket_used" => ~Present(store[t]) \/ store[t].status # "issued"
    BY <1>4 DEF Misses, RedeemResult
  <2> QED BY <1>1, <1>4, <2>2, <2>3 DEF Misses, RefusalInv, Present
<1> QED BY <1>2, <1>3, <1>4

LEMMA RefusalStep == TypeInv /\ SpendInv /\ RefusalInv /\ [Next]_vars => RefusalInv'
<1> SUFFICES ASSUME TypeInv, SpendInv, RefusalInv, [Next]_vars PROVE RefusalInv'
  OBVIOUS
<1> USE DEF TypeInv, TypeOK, StoreTypeOK
<1>1. /\ \A r \in Requests : RequestMove(r)
      /\ \A t \in Tickets : RecordMove(t)
      /\ TypeInv'
      /\ clock <= clock' /\ minted \subseteq minted'
  BY RequestMoves, RecordMoves, Growth, TypeStep
<1>2. \A r \in Requests : target'[r] = target[r] /\ target[r] \in Tickets
  BY <1>1 DEF RequestMove
<1>3. ASSUME NEW u \in Tickets, NEW r \in redeemers'[u]
      PROVE  /\ target'[r] = u
             /\ pc'[r] \in {"forward", "finish", "notify", "done", "dead"}
             /\ answer'[r] \notin Refusals
  <2>1. r \in Requests /\ RequestMove(r)
    BY <1>1, <1>3
  <2>2. CASE r \in redeemers[u]
    <3>1. /\ target[r] = u /\ answer[r] \notin Refusals
          /\ pc[r] \in {"forward", "finish", "notify", "done", "dead"}
      BY <2>2 DEF RefusalInv
    <3> QED BY <1>2, <2>1, <3>1 DEF RequestMove, Idle, Knocks, Looks, Spends, Misses, Streams,
                                    Ends, Tells, Breaks, VerdictInv, Refusals
  <2>3. CASE r \notin redeemers[u]
    <3>1. SpentBy(u, r)
      <4>1. PICK s \in Requests : SpentBy(u, s)
        BY <1>1, <1>3, <2>3 DEF RecordMove, Kept, Forgotten, Born, Taken, EndedBy
      <4> QED BY <1>3, <4>1 DEF SpentBy
    <3>2. ~Misses(r)
      BY <3>1 DEF SpentBy, Misses
    <3>3. answer[r] = "none"
      BY <2>1, <3>1 DEF RefusalInv, SpentBy, InSlot
    <3>4. answer'[r] \in {"none", "internal"}
      BY <2>1, <3>1, <3>2, <3>3 DEF RequestMove, SpentBy, Idle, Knocks, Looks, Spends, Streams,
                                    Ends, Tells, Breaks
    <3> QED BY <1>2, <2>1, <3>1, <3>4 DEF SpentBy, Refusals
  <2> QED BY <2>2, <2>3
<1>4. ASSUME NEW u \in Tickets, store'[u].status \notin {"absent", "issued"}
      PROVE  redeemers'[u] # {}
  <2>1. CASE Kept(u) \/ Taken(u)
    BY <1>4, <2>1 DEF Kept, Taken, RefusalInv
  <2>2. ~Forgotten(u)
    BY <1>4 DEF Forgotten, NoRecord
  <2>3. ~Born(u)
    <3>1. \A owner, n, ttl : NewRecord(owner, n, ttl, Retention).status = "issued"
      BY DEF NewRecord
    <3> QED BY <1>4, <3>1 DEF Born
  <2>4. CASE \E r \in Requests : SpentBy(u, r) \/ EndedBy(u, r)
    BY <2>4 DEF SpentBy, EndedBy, RefusalInv
  <2> QED BY <1>1, <2>1, <2>2, <2>3, <2>4 DEF RecordMove
<1>5. ASSUME NEW r \in Requests
      PROVE  /\ pc'[r] \in {"new"} \cup InSlot => answer'[r] = "none"
             /\ pc'[r] = "redeem" => target'[r] \in minted'
             /\ now'[r] <= clock'
  <2>1. RequestMove(r)
    BY <1>1
  <2>2. pc'[r] \in {"new"} \cup InSlot => answer'[r] = "none"
    <3>1. pc[r] \in {"new"} \cup InSlot => answer[r] = "none"
      BY DEF RefusalInv
    <3> QED BY <2>1, <3>1 DEF RequestMove, Idle, Knocks, Looks, Spends, Misses, Streams, Ends,
                              Tells, Breaks, InSlot
  <2>3. ASSUME pc'[r] = "redeem" PROVE target'[r] \in minted'
    <3>1. CASE pc[r] = "redeem"
      BY <1>1, <1>2, <3>1 DEF RefusalInv
    <3>2. CASE Looks(r) /\ LookupResult(r) = "usable"
      BY <1>1, <1>2, <3>2 DEF LookupResult, SpendInv
    <3> QED BY <2>1, <2>3, <3>1, <3>2 DEF RequestMove, Idle, Knocks, Looks, Spends, Misses,
                                          Streams, Ends, Tells, Breaks
  <2>4. now'[r] <= clock'
    BY <1>1, <2>1 DEF RequestMove, RefusalInv
  <2> QED BY <2>2, <2>3, <2>4
<1>6. ASSUME NEW r \in Requests, answer'[r] = "ticket_used"
      PROVE  /\ target'[r] \in minted'
             /\ redeemers'[target'[r]] # {} \/ ~Present(store'[target'[r]])
  <2>1. RecordMove(target[r]) /\ RequestMove(r) /\ target[r] \in Tickets
    BY <1>1, <1>2
  <2>2. target[r] \in minted /\ (redeemers[target[r]] # {} \/ ~Present(store[target[r]]))
    BY <1>6, <2>1, RefusalGrounds DEF RefusalInv, RefusalTruthful
  <2> QED BY <1>1, <1>2, <2>1, <2>2, TermsKept
<1>7. ASSUME NEW r \in Requests, answer'[r] = "ticket_expired"
      PROVE  /\ target'[r] \in minted'
             /\ Present(store'[target'[r]]) => clock' >= store'[target'[r]].expiresAt
  <2>1. RecordMove(target[r]) /\ RequestMove(r) /\ target[r] \in Tickets
    BY <1>1, <1>2
  <2>2. /\ target[r] \in minted
        /\ Present(store[target[r]]) => clock >= store[target[r]].expiresAt
    BY <1>7, <2>1, RefusalGrounds DEF RefusalInv, RefusalTruthful
  <2>3. store[target[r]].expiresAt \in Nat /\ clock \in Nat /\ clock' \in Nat
    BY <1>1, <2>1 DEF Slot
  <2>4. Present(store'[target[r]]) =>
          /\ Present(store[target[r]])
          /\ store'[target[r]].expiresAt = store[target[r]].expiresAt
    BY <2>1, <2>2, TermsKept
  <2> QED BY <1>1, <1>2, <2>2, <2>3, <2>4
<1> QED BY <1>2, <1>3, <1>4, <1>5, <1>6, <1>7 DEF RefusalInv, RefusalTruthful

(* A refusal takes no ticket; "used" is said only of a ticket somebody     *)
(* spent or the store forgot, "expired" only past the deadline, although   *)
(* the record was read one await earlier and others ran in between.        *)
THEOREM RefusalsAreTruthful == Spec => []RefusalTruthful
<1>1. RefusalInv => RefusalTruthful
  BY DEF RefusalInv
<1> QED BY TypeInit, TypeStep, SpendInit, SpendStep, RefusalInit, RefusalStep, <1>1, PTL DEF Spec

----------------------------------------------------------------------------
(* Ownership.  The check is made at the lookup, on a record read one await *)
(* before the redemption: what must not change in between is the record's  *)
(* owner and whom the request's credential proved.                         *)
OwnerInv ==
  Authenticates =>
    \A r \in Requests :
      LET rec == store[target[r]] IN
      (pc[r] = "redeem" \/ r \in redeemers[target[r]]) /\ Present(rec) =>
        IF rec.owner = Nobody THEN TicketInUrl ELSE principal[r] = rec.owner

LEMMA OwnerInit == Init => OwnerInv
BY DEF Init, OwnerInv

LEMMA OwnerStep == TypeInv /\ SpendInv /\ RefusalInv /\ OwnerInv /\ [Next]_vars => OwnerInv'
<1> SUFFICES ASSUME TypeInv, SpendInv, RefusalInv, OwnerInv, [Next]_vars, Authenticates,
                    NEW r \in Requests,
                    pc'[r] = "redeem" \/ r \in redeemers'[target'[r]],
                    Present(store'[target'[r]])
             PROVE  IF store'[target'[r]].owner = Nobody THEN TicketInUrl
                    ELSE principal'[r] = store'[target'[r]].owner
  BY DEF OwnerInv
<1> DEFINE t == target[r]
<1>1. t \in Tickets /\ RequestMove(r) /\ RecordMove(t) /\ target'[r] = t
  BY RequestMoves, RecordMoves DEF RequestMove, TypeInv, TypeOK
<1>2. pc[r] = "redeem" \/ r \in redeemers[t] \/ (Looks(r) /\ pc'[r] = "redeem")
  <2>1. CASE r \in redeemers'[t]
    BY <1>1, <2>1 DEF RecordMove, Kept, Forgotten, Born, Taken, SpentBy, EndedBy
  <2>2. CASE pc'[r] = "redeem"
    BY <1>1, <2>2 DEF RequestMove, Idle, Knocks, Looks, Spends, Misses, Streams, Ends, Tells, Breaks
  <2> QED BY <1>1, <2>1, <2>2
<1>3. CASE pc[r] = "redeem" \/ r \in redeemers[t]
  <2>1. t \in minted /\ pc[r] # "auth"
    BY <1>1, <1>3 DEF RefusalInv, SpendInv
  <2>2. Present(store[t]) /\ store'[t].owner = store[t].owner
    BY <1>1, <2>1, TermsKept
  <2>3. principal'[r] = principal[r]
    BY <1>1, <2>1 DEF RequestMove
  <2> QED BY <1>1, <1>3, <2>2, <2>3 DEF OwnerInv
<1>4. CASE Looks(r) /\ pc'[r] = "redeem"
  <2>1. /\ LookupResult(r) = "usable" /\ store'[t] = store[t] /\ principal'[r] = principal[r]
    BY <1>1, <1>4 DEF Looks, RequestMove
  <2>2. OwnedBy(store[t], principal[r], ~TicketInUrl)
    BY <1>1, <2>1 DEF LookupResult
  <2> QED BY <1>1, <2>1, <2>2 DEF OwnedBy
<1> QED BY <1>2, <1>3, <1>4

(* With an authenticator, only the record's owner spends its ticket, and a *)
(* public id that nobody owns is spent by nobody.                          *)
THEOREM OwnersSpend == Spec => []OnlyOwnerSpends
<1>1. TypeInv /\ RefusalInv /\ OwnerInv => OnlyOwnerSpends
  <2> SUFFICES ASSUME RefusalInv, OwnerInv, TypeInv, Authenticates,
                      NEW t \in Tickets, NEW r \in redeemers[t], Present(store[t])
               PROVE  IF store[t].owner = Nobody THEN TicketInUrl
                      ELSE principal[r] = store[t].owner
    BY DEF OnlyOwnerSpends
  <2>1. r \in Requests /\ target[r] = t
    BY DEF RefusalInv, TypeInv, TypeOK
  <2> QED BY <2>1 DEF OwnerInv
<1> QED BY TypeInit, TypeStep, SpendInit, SpendStep, RefusalInit, RefusalStep,
           OwnerInit, OwnerStep, <1>1, PTL DEF Spec

----------------------------------------------------------------------------
(* Records outlive their uploads.  A ticket can be redeemed up to its      *)
(* deadline, so retention must leave room after it for the whole upload:   *)
(* the body, the backend and finish(), and where expiry is judged at the   *)
(* clock read before the lookup, the lookup and the redemption too.        *)
RoomForUpload ==
  \A ttl \in Ttls :
    ttl + StreamTime + StoreTime + (IF DecidesExpiry THEN 0 ELSE StoreTime) <= Retention

JudgedBefore(r) == IF DecidesExpiry THEN started[r] ELSE now[r]

OutliveInv ==
  /\ \A t \in Tickets : Present(store[t]) =>
       \E ttl \in Ttls : store[t].retentionUntil + ttl = store[t].expiresAt + Retention
  /\ \A r \in Requests : Spending(r) /\ r \notin dragging =>
       Present(store[target[r]]) /\ JudgedBefore(r) < store[target[r]].expiresAt

LEMMA OutliveInit == Init => OutliveInv
BY DEF Init, OutliveInv, Spending, StoreInit, NoRecord, Present

(* Retention does not end while an upload that does not drag is at work.   *)
LEMMA StillRetained ==
  ASSUME RoomForUpload, TypeInv, TimeInv, OutliveInv,
         NEW r \in Requests, Spending(r), r \notin dragging
  PROVE  clock < store[target[r]].retentionUntil
<1> USE DEF TypeInv, TypeOK, StoreTypeOK
<1> DEFINE rec == store[target[r]]
<1>1. /\ rec \in Slot /\ clock \in Nat /\ now[r] \in Nat /\ started[r] \in Nat
      /\ StreamTime \in Nat /\ StoreTime \in Nat /\ Retention \in Nat
  BY TimesAreNat, GatewayAssumption DEF GatewayAssumption
<1>2. PICK ttl \in Ttls : rec.retentionUntil + ttl = rec.expiresAt + Retention
  BY DEF OutliveInv
<1>3. /\ ttl \in Nat
      /\ ttl + StreamTime + StoreTime + (IF DecidesExpiry THEN 0 ELSE StoreTime) <= Retention
  BY GatewayAssumption DEF GatewayAssumption, RoomForUpload
<1>4. /\ started[r] <= now[r] + StoreTime
      /\ clock <= started[r] + StreamTime + StoreTime
  BY <1>1 DEF TimeInv, Spending
<1>5. (IF DecidesExpiry THEN started[r] ELSE now[r]) < rec.expiresAt
  BY DEF OutliveInv, JudgedBefore
<1>6. rec.expiresAt \in Nat /\ rec.retentionUntil \in Nat
  BY <1>1 DEF Slot
<1>7. CASE DecidesExpiry
  BY <1>1, <1>2, <1>3, <1>4, <1>5, <1>6, <1>7
<1>8. CASE ~DecidesExpiry
  BY <1>1, <1>2, <1>3, <1>4, <1>5, <1>6, <1>8
<1> QED BY <1>7, <1>8

LEMMA OutliveStep ==
  ASSUME RoomForUpload, TypeInv, SpendInv, TimeInv, RefusalInv, OutliveInv, [Next]_vars
  PROVE  OutliveInv'
<1> USE DEF TypeInv, TypeOK, StoreTypeOK
<1>1. /\ \A t \in Tickets : RecordMove(t)
      /\ \A r \in Requests : RequestMove(r)
      /\ SpendInv'
      /\ dragging \subseteq dragging'
  BY RecordMoves, RequestMoves, SpendStep, Growth
<1>2. ASSUME NEW t \in Tickets, Present(store'[t])
      PROVE  \E ttl \in Ttls : store'[t].retentionUntil + ttl = store'[t].expiresAt + Retention
  <2>1. CASE Born(t)
    <3>1. PICK owner \in Principals \cup {Nobody}, ttl \in Ttls :
            store'[t] = NewRecord(owner, clock, ttl, Retention)
      BY <2>1 DEF Born
    <3>2. ttl \in Nat /\ Retention \in Nat
      BY GatewayAssumption DEF GatewayAssumption
    <3> QED BY <3>1, <3>2 DEF NewRecord
  <2>2. CASE t \in minted
    BY <1>1, <1>2, <2>2, TermsKept DEF OutliveInv
  <2>3. CASE t \notin minted /\ ~Born(t)
    <3>1. ~Present(store[t])
      BY <2>3 DEF SpendInv
    <3> QED BY <1>1, <1>2, <2>3, <3>1
            DEF RecordMove, Kept, Forgotten, Taken, SpentBy, EndedBy, RedeemResult, NoRecord, Present
  <2> QED BY <2>1, <2>2, <2>3
<1>3. ASSUME NEW r \in Requests, Spending(r)', r \notin dragging'
      PROVE  /\ Present(store'[target'[r]])
             /\ JudgedBefore(r)' < store'[target'[r]].expiresAt
  <2> DEFINE t == target[r]
  <2>1. t \in Tickets /\ store[t] \in Slot /\ RecordMove(t) /\ RequestMove(r) /\ target'[r] = t
    BY <1>1 DEF RequestMove
  <2>0. r \notin dragging
    BY <1>1, <1>3
  <2>2. Spending(r) \/ Spends(r)
    BY <1>3, <2>1 DEF RequestMove, Spending, Idle, Knocks, Looks, Misses, Streams, Ends, Tells, Breaks
  <2>3. CASE Spending(r)
    <3>1. /\ r \in redeemers[t] /\ store[t].status = "redeemed" /\ t \in minted
          /\ JudgedBefore(r) < store[t].expiresAt
      BY <2>0, <2>1, <2>3 DEF OutliveInv, SpendInv, Present
    <3>2. /\ pc[r] \in {"forward", "finish"} /\ pc'[r] \in {"forward", "finish"}
      BY <1>3, <2>3 DEF Spending
    <3>3. started'[r] = started[r] /\ now'[r] = now[r]
      BY <2>1, <3>2 DEF RequestMove
    <3>4. ~(clock >= store[t].retentionUntil)
      BY <2>0, <2>1, <2>3, StillRetained DEF Slot
    <3>5. ~Forgotten(t)
      BY <3>1, <3>2, <3>4 DEF Forgotten, InSlot, Present
    <3>6. Kept(t)
      BY <2>1, <3>1, <3>2, <3>5, OneEnds DEF Taken, EndedBy, Left
    <3> QED BY <2>1, <3>1, <3>3, <3>6 DEF Kept, Present, JudgedBefore
  <2>4. CASE Spends(r)
    <3>1. r \in redeemers'[t] /\ r \notin redeemers[t]
      BY <1>1, <1>3, <2>1, <2>4 DEF SpendInv, Spends, RefusalInv
    <3>2. SpentBy(t, r)
      <4>1. PICK s \in Requests : SpentBy(t, s)
        BY <2>1, <3>1 DEF RecordMove, Kept, Forgotten, Born, Taken, EndedBy
      <4> QED BY <3>1, <4>1 DEF SpentBy
    <3>3. /\ Present(store[t]) /\ JudgedAt(r) < store[t].expiresAt
          /\ store'[t] = Redeemed(store[t], now[r])
      BY <2>1, <3>2 DEF SpentBy, RedeemResult, Expired, JudgedAt, Slot
    <3>4. store'[t].status = "redeemed" /\ store'[t].expiresAt = store[t].expiresAt
      BY <2>1, <3>3 DEF Redeemed, Slot
    <3>5. JudgedBefore(r)' = JudgedAt(r)
      BY <2>1, <2>4 DEF JudgedBefore, JudgedAt, Spends, RequestMove
    <3> QED BY <2>1, <3>3, <3>4, <3>5 DEF Present
  <2> QED BY <2>2, <2>3, <2>4
<1> QED BY <1>2, <1>3 DEF OutliveInv

(* If retention leaves room for an upload after the deadline of a ticket,  *)
(* no sweep and no eviction at the cap takes the record of an upload at    *)
(* work, so that finish() finds it, unless the destination drags.          *)
THEOREM RecordsOutliveUploads ==
  ASSUME RoomForUpload
  PROVE  Spec => []RecordOutlivesUpload
<1>1. OutliveInv => RecordOutlivesUpload
  BY DEF OutliveInv, RecordOutlivesUpload, AtWork, Spending
<1>2. TypeInv /\ SpendInv /\ TimeInv /\ RefusalInv /\ OutliveInv /\ [Next]_vars => OutliveInv'
  BY OutliveStep
<1> QED BY TypeInit, TypeStep, SpendInit, SpendStep, TimeInit, TimeStep, RefusalInit,
           RefusalStep, OutliveInit, <1>1, <1>2, PTL DEF Spec

----------------------------------------------------------------------------
(* What a caller is told of a ticket.  Each move of its record is one of   *)
(* the steps forward, or one of the two answers that come late: the times  *)
(* of TimeInv say how late.                                                *)
StatusMove(t, old, new) == Follows(old, new) \/ LateRedemption(t, old, new) \/ LateEnd(t, old, new)

LEMMA StatusStep ==
  ASSUME TypeInv, SpendInv, TimeInv, [Next]_vars, NEW t \in minted
  PROVE  StatusMove(t, Reported(t), Reported(t)')
<1> USE DEF TypeInv, TypeOK, StoreTypeOK
<1>1. /\ t \in Tickets /\ store[t] \in Slot /\ clock \in Nat /\ RecordMove(t)
      /\ clock <= clock' /\ (clock' = clock \/ store' = store)
      /\ clock' \in Nat
  BY RecordMoves, Growth, TypeStep
<1>2. UploadTimeout \in Nat /\ Grace \in Nat /\ StoreTime \in Nat /\ BackendTime \in Nat
  BY TimesAreNat
<1>3. CASE Kept(t)
  <2>1. Follows(Reported(t), Reported(t)')
    BY <1>1, <1>2, <1>3 DEF Kept, Reported, ReportedStatus, Expired, Abandoned, Follows, Present,
                            Slot, Statuses
  <2> QED BY <2>1 DEF StatusMove
<1>4. CASE Forgotten(t)
  BY <1>4 DEF Forgotten, NoRecord, Reported, ReportedStatus, Follows, Present, StatusMove
<1>5. CASE Taken(t)
  <2>1. store'[t].status = "claimed"
    BY <1>1, <1>5 DEF Taken, Claimed, Slot
  <2> QED BY <1>5, <2>1 DEF Taken, Reported, ReportedStatus, Follows, Present, StatusMove
<1>6. ASSUME NEW r \in Requests, SpentBy(t, r)
      PROVE  StatusMove(t, Reported(t), Reported(t)')
  <2>1. store[t].status = "issued" /\ ~Expired(store[t], JudgedAt(r))
    BY <1>6 DEF SpentBy, RedeemResult
  <2>2. store'[t].status = "redeemed"
    BY <1>1, <1>6 DEF SpentBy, Redeemed, Slot
  <2>3. Reported(t)' \in {"redeemed", "abandoned"}
    BY <2>2 DEF Reported, ReportedStatus, Present
  <2>4. CASE ~Expired(store[t], clock)
    <3>1. Reported(t) = "issued"
      BY <2>1, <2>4 DEF Reported, ReportedStatus, Present
    <3> QED BY <2>3, <3>1 DEF Follows, StatusMove
  <2>5. CASE Expired(store[t], clock)
    <3>1. Reported(t) = "expired"
      BY <2>1, <2>5 DEF Reported, ReportedStatus, Present
    <3>2. ~DecidesExpiry /\ ~Expired(store[t], now[r])
      BY <2>1, <2>5 DEF JudgedAt
    <3>3. clock <= now[r] + StoreTime /\ now[r] \in Nat
      BY <1>6 DEF TimeInv, SpentBy
    <3>4. clock < store[t].expiresAt + StoreTime
      BY <1>1, <1>2, <3>2, <3>3 DEF Expired, Slot
    <3> QED BY <2>3, <3>1, <3>2, <3>4 DEF LateRedemption, StatusMove
  <2> QED BY <2>4, <2>5
<1>7. ASSUME NEW r \in Requests, EndedBy(t, r)
      PROVE  StatusMove(t, Reported(t), Reported(t)')
  <2>1. target[r] = t /\ pc[r] = "finish" /\ store[t].status = "redeemed"
    BY <1>7 DEF EndedBy
  <2>2. Reported(t) \in {"redeemed", "abandoned"}
    BY <2>1 DEF Reported, ReportedStatus, Present
  <2>3. store'[t].status \in {"completed", "failed"}
    BY <1>1, <1>7, <2>1 DEF EndedBy, Finished, Slot, VerdictInv
  <2>4. Reported(t)' \in {"completed", "failed"}
    BY <2>3 DEF Reported, ReportedStatus, Present
  <2>5. r \in redeemers[t]
    BY <2>1 DEF SpendInv, Spending
  <2>6. ASSUME r \notin dragging
        PROVE  clock <= store[t].redeemedAt + UploadTimeout + BackendTime + 2 * StoreTime
    <3>1. started[r] <= store[t].redeemedAt + StoreTime
      BY <2>1 DEF TimeInv, Spending, Present
    <3>2. clock <= started[r] + StreamTime + StoreTime
      BY <2>1, <2>6 DEF TimeInv
    <3>3. started[r] \in Nat /\ store[t].redeemedAt \in Nat
      BY <1>1 DEF Slot
    <3> QED BY <1>1, <1>2, <3>1, <3>2, <3>3 DEF StreamTime
  <2>7. LateEnd(t, "abandoned", Reported(t)')
    BY <2>1, <2>4, <2>5, <2>6 DEF LateEnd
  <2> QED BY <2>2, <2>4, <2>7 DEF Follows, StatusMove
<1>8. ~Born(t)
  BY DEF Born
<1> QED BY <1>1, <1>3, <1>4, <1>5, <1>6, <1>7, <1>8 DEF RecordMove

(* Between two questions about a ticket its reported status moves forward, *)
(* except when a redemption judged in time takes effect at most StoreTime  *)
(* after the deadline, and when the request that spent the ticket ends an  *)
(* upload reported abandoned: then its backend dragged, or no more time    *)
(* passed than lookup and redemption, body, backend and finish may take.   *)
(* Nothing is assumed of the grace or of who judges expiry.                *)
THEOREM StatusOnlyMovesForward == Spec => StatusMonotone
<1>1. TypeInv /\ SpendInv /\ TimeInv /\ [Next]_vars => StatusMoves
  BY StatusStep DEF StatusMoves, StatusMove
<1> QED BY TypeInit, TypeStep, SpendInit, SpendStep, TimeInit, TimeStep, <1>1, PTL
        DEF Spec, StatusMonotone

----------------------------------------------------------------------------
(***************************************************************************)
(* The slots of a process are counted exactly, and the gateway implements  *)
(* TicketContract.                                                         *)
(***************************************************************************)

(* Slots.  SlotAccounting is inductive by itself; what it takes is that    *)
(* every action moves one request in or out of InSlot together with the    *)
(* counter of its process, and a crash empties both.                       *)
LEMMA HoldingFinite == \A p \in Processes : IsFiniteSet(Holding(p))
<1>1. ASSUME NEW p \in Processes PROVE IsFiniteSet(Holding(p))
  <2>1. Holding(p) \in SUBSET Requests
    BY DEF Holding
  <2> QED BY <2>1, GatewayAssumption, FS_Subset DEF GatewayAssumption
<1> QED BY <1>1

(* No request enters or leaves a slot.                                     *)
LEMMA SlotFrame ==
  ASSUME SlotAccounting, UNCHANGED <<home, inFlight>>,
         \A r \in Requests : pc'[r] \in InSlot <=> pc[r] \in InSlot
  PROVE  SlotAccounting'
<1>1. \A p : Holding(p)' = Holding(p)
  BY DEF Holding
<1> QED BY <1>1 DEF SlotAccounting

(* One request leaves its slot.                                            *)
LEMMA SlotLeave ==
  ASSUME TypeInv, SlotAccounting, NEW r \in Requests, pc[r] \in InSlot, pc'[r] \notin InSlot,
         \A s \in Requests \ {r} : pc'[s] = pc[s], UNCHANGED home, FreeSlot(r)
  PROVE  SlotAccounting'
<1> USE DEF TypeInv, TypeOK
<1> DEFINE h == home[r]
<1>1. h \in Processes /\ inFlight'[h] = inFlight[h] - 1 /\ r \in Holding(h)
  BY DEF FreeSlot, Holding
<1>2. Holding(h)' = Holding(h) \ {r}
  BY DEF Holding
<1>3. Cardinality(Holding(h) \ {r}) = Cardinality(Holding(h)) - 1
  <2>1. IsFiniteSet(Holding(h))
    BY <1>1, HoldingFinite
  <2>2. Cardinality(Holding(h) \ {r}) =
          IF r \in Holding(h) THEN Cardinality(Holding(h)) - 1 ELSE Cardinality(Holding(h))
    BY ONLY <2>1, FS_RemoveElement, Zenon
  <2> QED BY <1>1, <2>2
<1>4. \A p \in Processes \ {h} : Holding(p)' = Holding(p) /\ inFlight'[p] = inFlight[p]
  <2>1. \A p \in Processes \ {h} : inFlight'[p] = inFlight[p]
    BY DEF FreeSlot
  <2>2. \A p \in Processes \ {h} : Holding(p)' = Holding(p)
    BY DEF Holding
  <2> QED BY <2>1, <2>2
<1>5. inFlight[h] \in Int /\ MaxInFlight \in Int
  BY <1>1, GatewayAssumption DEF GatewayAssumption
<1>6. inFlight[h] = Cardinality(Holding(h)) /\ inFlight[h] <= MaxInFlight
  BY <1>1 DEF SlotAccounting
<1>7. inFlight'[h] = Cardinality(Holding(h)') /\ inFlight'[h] <= MaxInFlight
  BY <1>1, <1>2, <1>3, <1>5, <1>6
<1> QED BY <1>4, <1>7 DEF SlotAccounting

(* One request takes a free slot.                                          *)
LEMMA SlotEnter ==
  ASSUME TypeInv, SlotAccounting, NEW r \in Requests, pc[r] \notin InSlot, pc'[r] \in InSlot,
         \A s \in Requests \ {r} : pc'[s] = pc[s], UNCHANGED home, SlotFree(r),
         inFlight' = [inFlight EXCEPT ![home[r]] = @ + 1]
  PROVE  SlotAccounting'
<1> USE DEF TypeInv, TypeOK
<1> DEFINE h == home[r]
<1>1. h \in Processes /\ inFlight'[h] = inFlight[h] + 1 /\ r \notin Holding(h)
  BY DEF Holding
<1>2. Holding(h)' = Holding(h) \cup {r}
  BY DEF Holding
<1>3. Cardinality(Holding(h) \cup {r}) = Cardinality(Holding(h)) + 1
  <2>1. IsFiniteSet(Holding(h))
    BY <1>1, HoldingFinite
  <2> QED BY <1>1, <2>1, FS_AddElement
<1>4. \A p \in Processes \ {h} : Holding(p)' = Holding(p) /\ inFlight'[p] = inFlight[p]
  BY DEF Holding
<1>5. inFlight[h] \in Int /\ MaxInFlight \in Int /\ inFlight[h] < MaxInFlight
  BY <1>1, GatewayAssumption DEF GatewayAssumption, SlotFree
<1>6. inFlight[h] = Cardinality(Holding(h))
  BY <1>1 DEF SlotAccounting
<1>7. inFlight'[h] = Cardinality(Holding(h)') /\ inFlight'[h] <= MaxInFlight
  BY <1>1, <1>2, <1>3, <1>5, <1>6
<1> QED BY <1>4, <1>7 DEF SlotAccounting

LEMMA SlotInit == Init => SlotAccounting
<1> SUFFICES ASSUME Init, NEW p \in Processes
             PROVE  inFlight[p] = Cardinality(Holding(p)) /\ inFlight[p] <= MaxInFlight
  BY DEF SlotAccounting
<1>1. Holding(p) = {} /\ inFlight[p] = 0
  BY DEF Init, Holding, InSlot
<1> QED BY <1>1, FS_EmptySet, GatewayAssumption DEF GatewayAssumption

LEMMA SlotStep == TypeInv /\ SlotAccounting /\ [Next]_vars => SlotAccounting'
<1> SUFFICES ASSUME TypeInv, SlotAccounting, [Next]_vars PROVE SlotAccounting'
  OBVIOUS
<1> USE DEF TypeInv, TypeOK
<1>1. ASSUME UNCHANGED requestVars PROVE SlotAccounting'
  BY <1>1, SlotFrame DEF requestVars
<1>2. ASSUME NEW r \in Requests, NEW code, pc[r] \in InSlot, Refuse(r, code) PROVE SlotAccounting'
  BY <1>2, SlotLeave DEF Refuse, Reply, Goto, InSlot
<1>3. ASSUME NEW r \in Requests, Arrive(r) PROVE SlotAccounting'
  <2>1. CASE pc'[r] = "done"
    BY <1>3, <2>1, SlotFrame DEF Arrive, Reply, Goto, InSlot
  <2>2. CASE pc'[r] \in {"auth", "lookup"}
    BY <1>3, <2>2, SlotEnter DEF Arrive, Reply, Goto, InSlot
  <2> QED BY <1>3, <2>1, <2>2 DEF Arrive, Reply, Goto
<1>4. ASSUME NEW r \in Requests, Authenticate(r) PROVE SlotAccounting'
  <2>1. CASE Goto(r, "lookup") /\ UNCHANGED <<home, inFlight>>
    BY <1>4, <2>1, SlotFrame DEF Authenticate, Goto, InSlot
  <2> QED BY <1>2, <1>4, <2>1 DEF Authenticate, InSlot
<1>5. ASSUME NEW r \in Requests, Lookup(r) PROVE SlotAccounting'
  <2>1. CASE Goto(r, "redeem") /\ UNCHANGED <<home, inFlight>>
    BY <1>5, <2>1, SlotFrame DEF Lookup, Goto, InSlot
  <2> QED BY <1>2, <1>5, <2>1 DEF Lookup, InSlot
<1>6. ASSUME NEW r \in Requests, RedeemTicket(r) PROVE SlotAccounting'
  <2>1. CASE Goto(r, "forward") /\ UNCHANGED <<home, inFlight>>
    BY <1>6, <2>1, SlotFrame DEF RedeemTicket, Goto, InSlot
  <2> QED BY <1>2, <1>6, <2>1 DEF RedeemTicket, InSlot
<1>7. ASSUME NEW r \in Requests, EndForward(r) PROVE SlotAccounting'
  BY <1>7, SlotFrame DEF EndForward, Goto, InSlot
<1>8. ASSUME NEW r \in Requests, FinishRecord(r) PROVE SlotAccounting'
  BY <1>8, SlotLeave DEF FinishRecord, Goto, InSlot
<1>9. ASSUME NEW r \in Requests, NotifyHook(r) PROVE SlotAccounting'
  BY <1>9, SlotFrame DEF NotifyHook, Goto, InSlot
<1>10. ASSUME NEW r \in Requests, ForwardRaises(r) \/ StoreRaises(r) PROVE SlotAccounting'
  BY <1>2, <1>10 DEF ForwardRaises, StoreRaises, InSlot
<1>11. ASSUME NEW p \in Processes, Crash(p) PROVE SlotAccounting'
  <2>1. Holding(p)' = {} /\ inFlight'[p] = 0
    BY <1>11 DEF Crash, Holding, InSlot
  <2>2. \A q \in Processes \ {p} : Holding(q)' = Holding(q) /\ inFlight'[q] = inFlight[q]
    BY <1>11 DEF Crash, Holding, InSlot
  <2>3. Cardinality(Holding(p)') = 0 /\ 0 <= MaxInFlight
    BY <2>1, FS_EmptySet, GatewayAssumption DEF GatewayAssumption
  <2>4. inFlight'[p] = Cardinality(Holding(p)') /\ inFlight'[p] <= MaxInFlight
    BY <2>1, <2>3
  <2> QED BY <2>2, <2>4 DEF SlotAccounting
<1>12. ASSUME NEW r \in Requests, Drag(r) PROVE SlotAccounting'
  BY <1>12, SlotFrame DEF Drag
<1>13. \/ \E t \in Tickets : Issue(t)
       \/ \E c \in Claimers : BeginClaim(c) \/ EndClaim(c)
       \/ SweepStore \/ Tick \/ UNCHANGED vars
       => UNCHANGED requestVars
  BY DEF Issue, BeginClaim, EndClaim, SweepStore, Tick, vars
<1> QED BY <1>1, <1>3, <1>4, <1>5, <1>6, <1>7, <1>8, <1>9, <1>10, <1>11, <1>12,
           <1>13 DEF Next, Serve, Unbounded

(* The counter of a process is the number of requests in its slots and     *)
(* never passes max_in_flight, whichever way requests leave the handler.   *)
THEOREM SlotsAreCounted == Spec => []SlotAccounting
BY TypeInit, TypeStep, SlotInit, SlotStep, PTL DEF Spec

----------------------------------------------------------------------------
(* The refinement.  A granted claim found the upload completed and left it *)
(* claimed; that keeps a second claim of the same upload from being        *)
(* granted, which is what the contract's Take requires.                    *)
ClaimInv ==
  \A c \in Claimers : claim[c].at = "granted" =>
    /\ claim[c].ticket \in minted
    /\ store[claim[c].ticket].status \in {"claimed", "absent"}

LEMMA ClaimInit == Init => ClaimInv
BY DEF Init, ClaimInv

(* Claims are granted by EndClaim alone.                                   *)
LEMMA ClaimsOnlyEnd ==
  ASSUME TypeInv, [Next]_vars
  PROVE  \/ \E c \in Claimers : EndClaim(c)
         \/ \A c \in Claimers : /\ claim'[c].ticket = claim[c].ticket
                                /\ (claim'[c].at = "granted") <=> (claim[c].at = "granted")
<1> USE DEF TypeInv, TypeOK
<1>1. ASSUME NEW c \in Claimers, BeginClaim(c)
      PROVE  \A d \in Claimers : /\ claim'[d].ticket = claim[d].ticket
                                 /\ (claim'[d].at = "granted") <=> (claim[d].at = "granted")
  <2>1. PICK at \in {"claim", "refused"} : claim' = [claim EXCEPT ![c].at = at]
    BY <1>1 DEF BeginClaim
  <2>2. claim[c].at = "new"
    BY <1>1 DEF BeginClaim
  <2> QED BY <2>1, <2>2
<1>2. \/ \E t \in Tickets : Issue(t)
      \/ \E r \in Requests : Arrive(r) \/ Serve(r) \/ Unbounded(r) \/ ForwardRaises(r) \/ StoreRaises(r)
      \/ SweepStore \/ Tick \/ UNCHANGED vars
      \/ \E p \in Processes : Crash(p)
      => claim' = claim
  BY DEF Issue, Serve, Unbounded, Arrive, Authenticate, Lookup, RedeemTicket, Drag, EndForward,
         FinishRecord, NotifyHook, ForwardRaises, StoreRaises, SweepStore, Crash, Tick, vars
<1> QED BY <1>1, <1>2 DEF Next

LEMMA ClaimStep == TypeInv /\ SpendInv /\ ClaimInv /\ [Next]_vars => ClaimInv'
<1> SUFFICES ASSUME TypeInv, SpendInv, ClaimInv, [Next]_vars PROVE ClaimInv'
  OBVIOUS
<1>1. /\ \A t \in Tickets : RecordMove(t)
      /\ minted \subseteq minted'
      /\ minted \subseteq Tickets
      /\ TypeInv'
  BY RecordMoves, Growth, TypeStep DEF TypeInv, TypeOK
<1>2. ASSUME NEW t \in minted, store[t].status \in {"claimed", "absent"}
      PROVE  t \in minted' /\ store'[t].status \in {"claimed", "absent"}
  <2>1. t \in Tickets /\ RecordMove(t)
    BY <1>1
  <2> QED BY <1>1, <1>2, <2>1 DEF RecordMove, Kept, Forgotten, Born, Taken, SpentBy, EndedBy,
                                  RedeemResult, NoRecord, Present
<1>3. ASSUME NEW c \in Claimers, EndClaim(c) PROVE ClaimInv'
  <2> DEFINE t == claim[c].ticket
  <2>1. t \in Tickets /\ store[t] \in Slot /\ minted' = minted
    BY <1>3 DEF EndClaim, TypeInv, TypeOK, StoreTypeOK
  <2>2. CASE Claimable(t) /\ Claim(t)
    <3>1. t \in minted /\ store'[t].status = "claimed"
      BY <2>1, <2>2 DEF Claimable, Claim, Claimed, SpendInv, Present, Slot, TypeInv, TypeOK, StoreTypeOK
    <3>2. \A d \in Claimers : /\ claim'[d].ticket = claim[d].ticket
                              /\ d # c => claim'[d].at = claim[d].at
      BY <1>3 DEF EndClaim, TypeInv, TypeOK
    <3> SUFFICES ASSUME NEW d \in Claimers, claim'[d].at = "granted"
                 PROVE  /\ claim'[d].ticket \in minted'
                        /\ store'[claim'[d].ticket].status \in {"claimed", "absent"}
      BY DEF ClaimInv
    <3>3. CASE d = c
      BY <2>1, <3>1, <3>2, <3>3
    <3>4. CASE d # c
      BY <1>2, <3>2, <3>4 DEF ClaimInv
    <3> QED BY <3>3, <3>4
  <2>3. CASE claim' = [claim EXCEPT ![c].at = "refused"] /\ UNCHANGED store
    <3>1. \A d \in Claimers : /\ claim'[d].ticket = claim[d].ticket
                              /\ claim'[d].at = "granted" => claim[d].at = "granted"
      BY <2>3 DEF TypeInv, TypeOK
    <3> QED BY <2>1, <2>3, <3>1 DEF ClaimInv
  <2> QED BY <1>3, <2>2, <2>3 DEF EndClaim
<1>4. CASE \A c \in Claimers : /\ claim'[c].ticket = claim[c].ticket
                               /\ (claim'[c].at = "granted") <=> (claim[c].at = "granted")
  <2> SUFFICES ASSUME NEW d \in Claimers, claim'[d].at = "granted"
               PROVE  /\ claim'[d].ticket \in minted'
                      /\ store'[claim'[d].ticket].status \in {"claimed", "absent"}
    BY DEF ClaimInv
  <2>1. claim'[d].ticket = claim[d].ticket /\ claim[d].at = "granted"
    BY <1>4
  <2> QED BY <1>2, <2>1 DEF ClaimInv
<1> QED BY <1>3, <1>4, ClaimsOnlyEnd

(* The abstract life of one ticket, read off its record.                   *)
LifeOf(t) == IF t \notin minted THEN "unborn"
             ELSE IF Present(store[t]) THEN store[t].status ELSE "gone"

LEMMA LifeIsLifeOf == Life = [t \in Tickets |-> LifeOf(t)] /\ Life' = [t \in Tickets |-> LifeOf(t)']
BY DEF Life, LifeOf

(* No claim is granted in the step: nobody takes an upload.                *)
LEMMA TakerFrame ==
  ASSUME \A c \in Claimers : /\ claim'[c].ticket = claim[c].ticket
                             /\ (claim'[c].at = "granted") <=> (claim[c].at = "granted")
  PROVE  Taker' = Taker
<1>1. ASSUME NEW t \in Tickets
      PROVE  {c \in Claimers : claim'[c].at = "granted" /\ claim'[c].ticket = t}
               = {c \in Claimers : claim[c].at = "granted" /\ claim[c].ticket = t}
  OBVIOUS
<1> QED BY <1>1 DEF Taker

(* A step that at most forgets records is a Forget of the contract.        *)
LEMMA ContractForget ==
  ASSUME TypeInv, SpendInv, UNCHANGED <<minted, redeemers>>, Taker' = Taker,
         \A t \in Tickets : store'[t].status \in {store[t].status, "absent"}
  PROVE  Contract!ContractNext
<1> DEFINE forgotten == {t \in Tickets : Present(store[t]) /\ ~Present(store'[t])}
<1>1. forgotten \in SUBSET Tickets
  OBVIOUS
<1>2. \A u \in forgotten : Life[u] # "unborn"
  <2>1. \A u \in forgotten : u \in Tickets /\ u \in minted /\ store[u] \in Slot
    BY DEF SpendInv, TypeInv, TypeOK, StoreTypeOK
  <2>2. \A u \in forgotten : LifeOf(u) # "unborn"
    BY <2>1 DEF LifeOf, Slot, Statuses
  <2> QED BY <2>1, <2>2, LifeIsLifeOf
<1>3. \A t \in Tickets : LifeOf(t)' = IF t \in forgotten THEN "gone" ELSE LifeOf(t)
  BY DEF LifeOf, Present, SpendInv
<1>4. Life' = [t \in Tickets |-> IF t \in forgotten THEN "gone" ELSE Life[t]]
  BY <1>3, LifeIsLifeOf
<1>5. Contract!Forget(forgotten)
  BY <1>2, <1>4 DEF Contract!Forget
<1> QED BY <1>1, <1>5 DEF Contract!ContractNext

(* A redemption that wins spends, whether or not its reply arrives.        *)
LEMMA ContractSpend ==
  ASSUME TypeInv, SpendInv, NEW r \in Requests, Win(r), minted' = minted, Taker' = Taker
  PROVE  Contract!ContractNext
<1> USE DEF TypeInv, TypeOK, StoreTypeOK
<1> DEFINE t == target[r]
<1>1. /\ t \in Tickets /\ store[t] \in Slot /\ store[t].status = "issued"
      /\ redeemers[t] = {} /\ t \in minted
  BY DEF Win, RedeemResult, SpendInv, Present
<1>2. /\ redeemers' = [redeemers EXCEPT ![t] = {r}]
      /\ store'[t].status = "redeemed"
      /\ \A u \in Tickets \ {t} : store'[u] = store[u]
  BY <1>1 DEF Win, Redeem, Redeemed, Slot
<1>3. \A u \in Tickets : LifeOf(u)' = IF u = t THEN "redeemed" ELSE LifeOf(u)
  BY <1>1, <1>2 DEF LifeOf, Present
<1>4. Life' = [Life EXCEPT ![t] = "redeemed"] /\ Life[t] = "issued"
  BY <1>1, <1>3, LifeIsLifeOf DEF LifeOf, Present
<1>5. Contract!Spend(t, r)
  BY <1>1, <1>2, <1>4 DEF Contract!Spend
<1> QED BY <1>1, <1>5 DEF Contract!ContractNext

(* finish() ends the record of its own redemption, or finds it gone.       *)
LEMMA ContractEnd ==
  ASSUME TypeInv, SpendInv, NEW r \in Requests, pc[r] = "finish",
         Finish(target[r], verdict[r]), UNCHANGED <<minted, redeemers>>, Taker' = Taker
  PROVE  Contract!ContractNext
<1> USE DEF TypeInv, TypeOK, StoreTypeOK
<1> DEFINE t == target[r]
<1>1. /\ t \in Tickets /\ store[t] \in Slot /\ t \in minted
      /\ store[t].status \in {"redeemed", "absent"}
      /\ verdict[r] \in {"completed", "failed"}
  BY DEF SpendInv, Spending, VerdictInv
<1>2. CASE store[t].status = "absent"
  BY <1>2, ContractForget DEF Finish, Present
<1>3. CASE store[t].status = "redeemed"
  <2>1. /\ store'[t].status = verdict[r]
        /\ \A u \in Tickets \ {t} : store'[u] = store[u]
    BY <1>1, <1>3 DEF Finish, Finished, Present, Slot
  <2>2. \A u \in Tickets : LifeOf(u)' = IF u = t THEN verdict[r] ELSE LifeOf(u)
    BY <1>1, <2>1 DEF LifeOf, Present
  <2>3. Life' = [Life EXCEPT ![t] = verdict[r]] /\ Life[t] = "redeemed"
    BY <1>1, <1>3, <2>2, LifeIsLifeOf DEF LifeOf, Present
  <2>4. Contract!End(t)
    BY <1>1, <2>3 DEF Contract!End
  <2> QED BY <1>1, <2>4 DEF Contract!ContractNext
<1> QED BY <1>1, <1>2, <1>3

(* A granted claim takes a completed upload nobody has taken.              *)
LEMMA ContractTake ==
  ASSUME TypeInv, SpendInv, ClaimInv, NEW c \in Claimers, EndClaim(c), claim'[c].at = "granted"
  PROVE  Contract!ContractNext
<1> USE DEF TypeInv, TypeOK, StoreTypeOK
<1> DEFINE t == claim[c].ticket
<1>1. /\ t \in Tickets /\ store[t] \in Slot /\ store[t].status = "completed" /\ t \in minted
      /\ claim[c].at = "claim" /\ claim' = [claim EXCEPT ![c].at = "granted"]
      /\ Claim(t) /\ UNCHANGED <<minted, redeemers>>
  BY DEF EndClaim, Claimable, historyVars, SpendInv, Present
<1>2. store'[t].status = "claimed" /\ \A u \in Tickets \ {t} : store'[u] = store[u]
  BY <1>1 DEF Claim, Claimed, Slot
<1>3. \A u \in Tickets : LifeOf(u)' = IF u = t THEN "claimed" ELSE LifeOf(u)
  BY <1>1, <1>2 DEF LifeOf, Present
<1>4. Life' = [Life EXCEPT ![t] = "claimed"] /\ Life[t] = "completed"
  BY <1>1, <1>3, LifeIsLifeOf DEF LifeOf, Present
<1>5. \A d \in Claimers : ~(claim[d].at = "granted" /\ claim[d].ticket = t)
  BY <1>1 DEF ClaimInv
<1>6. Taker[t] = {}
  BY <1>1, <1>5 DEF Taker
<1>7. Taker' = [Taker EXCEPT ![t] = {c}]
  <2>1. \A d \in Claimers : /\ claim'[d].ticket = claim[d].ticket
                            /\ claim'[d].at = IF d = c THEN "granted" ELSE claim[d].at
    BY <1>1
  <2>2. \A u \in Tickets : {d \in Claimers : claim'[d].at = "granted" /\ claim'[d].ticket = u}
          = IF u = t THEN {c} ELSE {d \in Claimers : claim[d].at = "granted" /\ claim[d].ticket = u}
    BY <1>1, <1>5, <2>1
  <2> QED BY <1>1, <2>2 DEF Taker
<1>8. Contract!Take(t, c)
  BY <1>1, <1>4, <1>6, <1>7 DEF Contract!Take
<1> QED BY <1>1, <1>8 DEF Contract!ContractNext

(* Issuing may evict dead records to make room, in the same step.          *)
LEMMA ContractIssue ==
  ASSUME TypeInv, SpendInv, NEW t \in Tickets, Issue(t), Taker' = Taker
  PROVE  Contract!ContractNext
<1> USE DEF TypeInv, TypeOK, StoreTypeOK
<1> DEFINE forgotten == {u \in Tickets : Present(store[u]) /\ ~Present(store'[u])}
<1>1. PICK owner \in Principals \cup {Nobody}, ttl \in Ttls :
        Put(t, NewRecord(owner, clock, ttl, Retention), clock)
  BY DEF Issue
<1>2. t \notin minted /\ minted' = minted \cup {t} /\ redeemers' = redeemers
  BY DEF Issue, historyVars
<1>3. /\ store'[t].status = "issued"
      /\ \A u \in Tickets \ {t} : store'[u] = store[u] \/ store'[u].status = "absent"
  BY <1>1 DEF Put, NewRecord, NoRecord
<1>4. forgotten \in SUBSET Tickets /\ t \notin forgotten
  BY <1>3 DEF Present
<1>5. \A u \in forgotten : Life[u] # "unborn"
  <2>1. \A u \in forgotten : u \in Tickets /\ u \in minted /\ store[u] \in Slot
    BY DEF SpendInv
  <2>2. \A u \in forgotten : LifeOf(u) # "unborn"
    BY <2>1 DEF LifeOf, Slot, Statuses
  <2> QED BY <2>1, <2>2, LifeIsLifeOf
<1>6. \A u \in Tickets : LifeOf(u)' = IF u = t THEN "issued"
                                     ELSE IF u \in forgotten THEN "gone" ELSE LifeOf(u)
  <2>1. LifeOf(t)' = "issued"
    BY <1>2, <1>3 DEF LifeOf, Present
  <2>2. ASSUME NEW u \in Tickets \ {t}
        PROVE  LifeOf(u)' = IF u \in forgotten THEN "gone" ELSE LifeOf(u)
    BY <1>2, <1>3 DEF LifeOf, Present, SpendInv
  <2> QED BY <2>1, <2>2
<1>7. /\ Life[t] = "unborn"
      /\ Life' = [u \in Tickets |-> IF u = t THEN "issued"
                                   ELSE IF u \in forgotten THEN "gone" ELSE Life[u]]
  BY <1>2, <1>6, LifeIsLifeOf DEF LifeOf
<1>8. Contract!Issue(t, forgotten)
  BY <1>2, <1>5, <1>7 DEF Contract!Issue
<1> QED BY <1>4, <1>8 DEF Contract!ContractNext

(* A step that touches nothing the contract speaks of.                     *)
LEMMA ContractStutter ==
  ASSUME UNCHANGED <<store, minted, redeemers>>, Taker' = Taker
  PROVE  UNCHANGED Contract!contractVars
BY DEF Life, Contract!contractVars

LEMMA ContractStep ==
  TypeInv /\ SpendInv /\ ClaimInv /\ [Next]_vars
    => [Contract!ContractNext]_(Contract!contractVars)
<1> SUFFICES ASSUME TypeInv, SpendInv, ClaimInv, [Next]_vars
             PROVE  Contract!ContractNext \/ UNCHANGED Contract!contractVars
  OBVIOUS
<1>1. ASSUME NEW c \in Claimers, EndClaim(c)
      PROVE  Contract!ContractNext \/ UNCHANGED Contract!contractVars
  <2>1. CASE Claimable(claim[c].ticket)
    <3>1. claim'[c].at = "granted"
      BY <1>1, <2>1 DEF EndClaim, TypeInv, TypeOK
    <3> QED BY <1>1, <3>1, ContractTake
  <2>2. CASE ~Claimable(claim[c].ticket)
    <3>1. UNCHANGED <<store, minted, redeemers>>
      BY <1>1, <2>2 DEF EndClaim, historyVars
    <3>2. /\ claim[c].at = "claim" /\ claim' = [claim EXCEPT ![c].at = "refused"]
          /\ claim \in [Claimers -> [at : {"new", "claim", "granted", "refused"}, ticket : Tickets]]
      BY <1>1, <2>2 DEF EndClaim, TypeInv, TypeOK
    <3>3. Taker' = Taker
      BY <3>2, TakerFrame
    <3> QED BY <3>1, <3>3, ContractStutter
  <2> QED BY <2>1, <2>2
<1>2. CASE Taker' = Taker
  <2> DEFINE Step == Contract!ContractNext \/ UNCHANGED Contract!contractVars
  <2>1. ASSUME NEW r \in Requests, RedeemTicket(r) PROVE Step
    BY <1>2, <2>1, ContractSpend, ContractStutter DEF RedeemTicket
  <2>2. ASSUME NEW r \in Requests, FinishRecord(r) PROVE Step
    BY <1>2, <2>2, ContractEnd DEF FinishRecord, historyVars
  <2>3. ASSUME NEW r \in Requests, StoreRaises(r) PROVE Step
    BY <1>2, <2>3, ContractSpend, ContractEnd, ContractStutter DEF StoreRaises
  <2>4. ASSUME SweepStore PROVE Step
    BY <1>2, <2>4, ContractForget DEF SweepStore, Sweep, NoRecord, historyVars
  <2>5. ASSUME NEW p \in Processes, Crash(p) PROVE Step
    <3>1. \A t \in Tickets : store'[t].status \in {store[t].status, "absent"}
      BY <2>5 DEF Crash, NoRecord
    <3> QED BY <1>2, <2>5, <3>1, ContractForget DEF Crash, historyVars
  <2>6. ASSUME NEW r \in Requests,
               \/ Arrive(r) \/ Authenticate(r) \/ Lookup(r) \/ Drag(r) \/ EndForward(r)
               \/ NotifyHook(r) \/ ForwardRaises(r)
        PROVE  UNCHANGED <<store, minted, redeemers>>
    BY <2>6 DEF Arrive, Authenticate, Lookup, Drag, EndForward, NotifyHook, ForwardRaises, historyVars
  <2>7. ASSUME NEW c \in Claimers, BeginClaim(c) PROVE UNCHANGED <<store, minted, redeemers>>
    BY <2>7 DEF BeginClaim, historyVars
  <2>8. Tick \/ UNCHANGED vars => UNCHANGED <<store, minted, redeemers>>
    BY DEF Tick, vars, historyVars
  <2> QED BY <1>1, <1>2, <2>1, <2>2, <2>3, <2>4, <2>5, <2>6, <2>7, <2>8, ContractIssue,
             ContractStutter DEF Next, Serve, Unbounded
<1> QED BY <1>1, <1>2, ClaimsOnlyEnd, TakerFrame

(* The gateway with its store, for any number of requests, claimers,       *)
(* processes and tickets, does to one ticket only what the contract allows:*)
(* it is issued once, spent once, ended once, taken once, and once         *)
(* forgotten stays forgotten.                                              *)
THEOREM GatewayImplementsContract == Spec => ImplementsContract
<1>1. Init => Contract!ContractInit
  BY DEF Init, Contract!ContractInit, Life, Taker
<1> QED BY TypeInit, TypeStep, SpendInit, SpendStep, ClaimInit, ClaimStep, ContractStep, <1>1,
           PTL DEF Spec, ImplementsContract, Contract!ContractSpec
==============================================================================
