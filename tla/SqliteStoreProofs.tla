-------------------------- MODULE SqliteStoreProofs --------------------------
(***************************************************************************)
(* Proofs about the SQLite store for any number of tickets, processes and  *)
(* threads: the cap holds, callers are told the truth, and the statements  *)
(* of all calls together implement TicketContract.                         *)
(***************************************************************************)
EXTENDS SqliteStoreProperties, FiniteSetTheorems, TLAPS

(* A call is where its operation can be, and about a ticket it can name.   *)
Placed(c) ==
  /\ pc[c] = "idle" => call[c] = NoCall
  /\ pc[c] \in {"insert", "purge", "reinsert"} =>
       call[c].op = "put" /\ call[c].ticket \in minted \ issued
  /\ pc[c] \in {"update", "select"} =>
       call[c].op \in {"redeem", "finish", "claim"} /\ call[c].ticket \in issued
  /\ pc[c] = "delete" => call[c].op = "sweep"
AllPlaced == \A c \in Callers : Placed(c)

(* A ticket is put once, and before that nothing is known of it.           *)
Minting ==
  /\ \A c, d \in Callers :
       call[c].op = "put" /\ call[d].op = "put" /\ call[c].ticket = call[d].ticket => c = d
  /\ \A t \in Tickets \ issued : store[t] = NoRecord /\ won[t] = {} /\ took[t] = {}

(* What is past does not come back.                                        *)
Past ==
  \A t \in Tickets :
    /\ won[t] # {} => store[t].status # "issued"
    /\ took[t] # {} => store[t].status \in {"claimed", "absent"}

(* Who may end the record of a ticket: the call that redeemed it until it  *)
(* answers, then its process, then the call that finishes.                 *)
Holds(c, t) ==
  /\ call[c].ticket = t
  /\ \/ pc[c] = "select" /\ call[c].op = "redeem" /\ call[c].rowcount
     \/ pc[c] = "update" /\ call[c].op = "finish"
Holding ==
  /\ \A t \in Tickets, c \in Callers : Holds(c, t) =>
       /\ t \in issued /\ won[t] # {} /\ store[t].status \in {"redeemed", "absent"}
       /\ \A d \in Callers : Holds(d, t) => d = c
       /\ \A p \in Processes : <<p, t>> \notin uploading
  /\ \A t \in Tickets, p \in Processes : <<p, t>> \in uploading =>
       /\ t \in issued /\ won[t] # {} /\ store[t].status \in {"redeemed", "absent"}
       /\ \A q \in Processes : <<q, t>> \in uploading => q = p

(* What the SELECT after an UPDATE can find.                               *)
Updated(c) ==
  LET t == call[c].ticket IN
  pc[c] = "select" =>
    /\ call[c].op = "finish" => store[t].status \in {"completed", "failed", "claimed", "absent"}
    /\ call[c].op = "redeem" /\ call[c].rowcount => c \in won[t]
    /\ call[c].op = "claim" /\ call[c].rowcount => c \in took[t] /\ ~Claimable(t)
AllUpdated == \A c \in Callers : Updated(c)

Counted == IsFiniteSet(Stored) /\ count = Cardinality(Stored) /\ count <= MaxRecords

(* A call ends within its time of the caller's reading of the clock.       *)
Timely ==
  \A c \in Callers : pc[c] # "idle" => call[c].now <= clock /\ clock <= call[c].now + CallTime

(* What the store would answer in one step is among the right answers, and *)
(* what was found by a statement before is still so.                       *)
Honest(c) ==
  LET k == call[c] IN
  pc[c] # "idle" =>
    /\ Would(k) \in could[c]
    /\ pc[c] = "reinsert" => Dead(k.now) = {}
    /\ pc[c] = "select" /\ k.op = "redeem" /\ ~k.rowcount => ~MayRedeem(k.ticket, k.now)
    /\ pc[c] = "select" /\ k.op = "claim" /\ ~k.rowcount =>
         "not_completed" \in could[c] \/ store[k.ticket].status \in {"claimed", "absent"}
AllHonest == \A c \in Callers : Honest(c)

IInv == SqliteTypeOK /\ AllPlaced /\ Minting /\ Past /\ Holding /\ AllUpdated /\ Counted

----------------------------------------------------------------------------
(* A step is one caller's, or a crash, or nothing the calls see.           *)
Mine(c) == \A d \in Callers \ {c} : pc'[d] = pc[d] /\ call'[d] = call[d]
Frame == UNCHANGED <<store, count, callVars, callerVars, historyVars>>

LEMMA MineStep ==
  ASSUME SqliteTypeOK, NEW c \in Callers, Starts(c) \/ Step(c)
  PROVE  Mine(c)
BY DEF Starts, BeginPut, BeginRedeem, BeginClaim, BeginFinish, BeginSweep, Begin, Step, Insert,
       Inserted, Purge, Reinsert, Update, Select, DeleteSwept, Raises, Goes, Answer, Mine, SqliteTypeOK

LEMMA OtherSteps ==
  ASSUME [Next]_vars
  PROVE  \/ \E c \in Callers : Starts(c) \/ Step(c)
         \/ \E p \in Processes : Crash(p)
         \/ Frame
BY DEF Next, Close, Closed, Tick, vars, Frame, callVars, callerVars, historyVars

(* What each way to begin a call, to go on with it and to end it does.     *)
LEMMA Begins ==
  ASSUME SqliteTypeOK, NEW c \in Callers, Starts(c)
  PROVE  /\ pc[c] = "idle" /\ UNCHANGED <<store, count, issued, won, took>>
         /\ call'[c] \in Call /\ call'[c].now = clock /\ ~call'[c].rowcount
         /\ \/ /\ call'[c].op = "put" /\ pc'[c] = "insert" /\ uploading' = uploading
               /\ call'[c].ticket \in Tickets \ minted /\ minted' = minted \cup {call'[c].ticket}
            \/ /\ call'[c].op \in {"redeem", "claim"} /\ pc'[c] = "update"
               /\ call'[c].ticket \in issued /\ UNCHANGED <<minted, uploading>>
            \/ /\ call'[c].op = "finish" /\ pc'[c] = "update" /\ minted' = minted
               /\ call'[c].ticket \in Tickets /\ <<c[1], call'[c].ticket>> \in uploading
               /\ uploading' = uploading \ {<<c[1], call'[c].ticket>>}
            \/ /\ call'[c].op = "sweep" /\ pc'[c] = "delete" /\ UNCHANGED <<minted, uploading>>
<1> USE DEF SqliteTypeOK
<1>1. ASSUME NEW op \in Ops, NEW t \in Tickets \cup {NoTicket}, NEW e \in {"completed", "failed"},
             NEW first, Begin(c, op, t, e, first)
      PROVE  /\ pc[c] = "idle" /\ pc'[c] = first /\ UNCHANGED <<store, count, won, took>>
             /\ call'[c] \in Call /\ call'[c].op = op /\ call'[c].ticket = t
             /\ call'[c].now = clock /\ call'[c].rowcount = FALSE
  BY <1>1 DEF Begin, historyVars, Call
<1>2. ASSUME NEW t \in Tickets, BeginPut(c, t)
      PROVE  /\ Begin(c, "put", t, "failed", "insert") /\ UNCHANGED <<issued, uploading>>
             /\ t \notin minted /\ minted' = minted \cup {t}
  BY <1>2 DEF BeginPut
<1>3. ASSUME NEW t \in Tickets, NEW e \in {"completed", "failed"}, BeginFinish(c, t, e)
      PROVE  /\ Begin(c, "finish", t, e, "update") /\ UNCHANGED <<minted, issued>>
             /\ <<c[1], t>> \in uploading /\ uploading' = uploading \ {<<c[1], t>>}
  BY <1>3 DEF BeginFinish
<1> HIDE DEF SqliteTypeOK
<1>4. CASE \E t \in Tickets : BeginPut(c, t)
  <2>1. PICK t \in Tickets : BeginPut(c, t)
    BY <1>4
  <2>2. /\ Begin(c, "put", t, "failed", "insert") /\ UNCHANGED <<issued, uploading>>
        /\ t \notin minted /\ minted' = minted \cup {t}
    BY <1>2, <2>1
  <2>3. "put" \in Ops
    BY DEF Ops
  <2>4. /\ pc[c] = "idle" /\ pc'[c] = "insert" /\ UNCHANGED <<store, count, won, took>>
        /\ call'[c] \in Call /\ call'[c].op = "put" /\ call'[c].ticket = t
        /\ call'[c].now = clock /\ call'[c].rowcount = FALSE
    BY <1>1, <2>2, <2>3
  <2> QED BY <2>2, <2>4
<1>5. CASE \E t \in Tickets, e \in {"completed", "failed"} : BeginFinish(c, t, e)
  <2>1. PICK t \in Tickets : \E e \in {"completed", "failed"} : BeginFinish(c, t, e)
    BY <1>5
  <2>2. PICK e \in {"completed", "failed"} : BeginFinish(c, t, e)
    BY <2>1
  <2>3. /\ Begin(c, "finish", t, e, "update") /\ UNCHANGED <<minted, issued>>
        /\ <<c[1], t>> \in uploading /\ uploading' = uploading \ {<<c[1], t>>}
    BY <1>3, <2>2
  <2>4. "finish" \in Ops
    BY DEF Ops
  <2>5. /\ pc[c] = "idle" /\ pc'[c] = "update" /\ UNCHANGED <<store, count, won, took>>
        /\ call'[c] \in Call /\ call'[c].op = "finish" /\ call'[c].ticket = t
        /\ call'[c].now = clock /\ call'[c].rowcount = FALSE
    BY <1>1, <2>3, <2>4
  <2> QED BY <2>3, <2>5
<1>6. ASSUME NEW t \in Tickets, NEW op \in {"redeem", "claim"}, t \in issued,
             Begin(c, op, t, "failed", "update"), UNCHANGED callerVars
      PROVE  /\ pc[c] = "idle" /\ UNCHANGED <<store, count, issued, won, took>>
             /\ call'[c] \in Call /\ call'[c].now = clock /\ ~call'[c].rowcount
             /\ call'[c].op \in {"redeem", "claim"} /\ pc'[c] = "update"
             /\ call'[c].ticket \in issued /\ UNCHANGED <<minted, uploading>>
  <2>1. op \in Ops
    BY DEF Ops
  <2> QED BY <1>1, <1>6, <2>1 DEF callerVars
<1>7. CASE BeginSweep(c)
  <2>1. Begin(c, "sweep", NoTicket, "failed", "delete") /\ UNCHANGED callerVars
    BY <1>7 DEF BeginSweep
  <2> QED BY <1>1, <2>1 DEF Ops, callerVars
<1> QED BY <1>4, <1>5, <1>6, <1>7 DEF Starts, BeginRedeem, BeginClaim

(* The four outcomes of an UPDATE.                                         *)
RowUpdated(c, rec) ==
  store' = [store EXCEPT ![call[c].ticket] = rec] /\ call'[c].rowcount
Updates(c, t, rec) ==
  \/ /\ call[c].op = "redeem" /\ MayRedeem(t, call[c].now)
     /\ RowUpdated(c, Redeemed(rec, call[c].now))
     /\ won' = [won EXCEPT ![t] = @ \cup {c}] /\ took' = took
  \/ /\ call[c].op = "finish" /\ Present(rec)
     /\ RowUpdated(c, Finished(rec, call[c].ending)) /\ UNCHANGED <<won, took>>
  \/ /\ call[c].op = "claim" /\ MayClaim(t)
     /\ RowUpdated(c, Claimed(rec))
     /\ took' = [took EXCEPT ![t] = @ \cup {c}] /\ won' = won
  \/ /\ ~call'[c].rowcount /\ UNCHANGED <<store, won, took>>
     /\ call[c].op = "redeem" => ~MayRedeem(t, call[c].now)
     /\ call[c].op = "finish" => ~Present(rec)
     /\ call[c].op = "claim" => ~MayClaim(t)

LEMMA Matched ==
  ASSUME NEW k \in Call, NEW hit \in BOOLEAN, NEW m, m = [k EXCEPT !.rowcount = hit]
  PROVE  /\ m \in Call /\ m.op = k.op /\ m.ticket = k.ticket /\ m.now = k.now
         /\ m.ending = k.ending /\ m.rowcount = hit
BY DEF Call

LEMMA UpdateIs ==
  ASSUME SqliteTypeOK, AllPlaced, NEW c \in Callers, Update(c)
  PROVE  /\ pc[c] = "update" /\ pc'[c] = "select" /\ call'[c] \in Call
         /\ call'[c].op = call[c].op /\ call'[c].ticket = call[c].ticket
         /\ call'[c].now = call[c].now /\ call'[c].ending = call[c].ending
         /\ UNCHANGED <<count, minted, issued, uploading>>
         /\ Updates(c, call[c].ticket, store[call[c].ticket])
<1> DEFINE k == call[c]
           t == call[c].ticket
<1>1. /\ pc[c] = "update" /\ pc'[c] = "select"
      /\ UNCHANGED <<count, minted, issued, uploading>>
  BY DEF Update, At, Goes, SqliteTypeOK, callerVars
<1>2. k \in Call /\ k.op \in {"redeem", "finish", "claim"} /\ t \in Tickets
  BY <1>1 DEF AllPlaced, Placed, SqliteTypeOK
<1> DEFINE hit == CASE k.op = "redeem" -> MayRedeem(t, k.now)
                    [] k.op = "finish" -> Present(store[t])
                    [] k.op = "claim" -> MayClaim(t)
                    [] OTHER -> FALSE
<1>3. call'[c] = [k EXCEPT !.rowcount = hit]
  BY DEF Update, SqliteTypeOK
<1>4. hit \in BOOLEAN
  BY <1>2 DEF MayRedeem, MayClaim, Present
<1>5. /\ store' = IF ~hit THEN store
                  ELSE [store EXCEPT ![t] = CASE k.op = "redeem" -> Redeemed(@, k.now)
                                              [] k.op = "finish" -> Finished(@, k.ending)
                                              [] OTHER -> Claimed(@)]
      /\ won' = IF hit /\ k.op = "redeem" THEN [won EXCEPT ![t] = @ \cup {c}] ELSE won
      /\ took' = IF hit /\ k.op = "claim" THEN [took EXCEPT ![t] = @ \cup {c}] ELSE took
  BY DEF Update
<1>6. /\ k.op = "redeem" => (hit <=> MayRedeem(t, k.now))
      /\ k.op = "finish" => (hit <=> Present(store[t]))
      /\ k.op = "claim" => (hit <=> MayClaim(t))
  BY <1>2 DEF MayRedeem, MayClaim, Present
<1> HIDE DEF hit
<1>7. /\ call'[c] \in Call /\ call'[c].op = k.op /\ call'[c].ticket = t /\ call'[c].now = k.now
      /\ call'[c].ending = k.ending /\ call'[c].rowcount = hit
  BY <1>2, <1>3, <1>4, Matched
<1>8. ASSUME ~hit PROVE Updates(c, t, store[t])
  BY <1>4, <1>5, <1>6, <1>7, <1>8 DEF Updates
<1>9. ASSUME hit /\ k.op = "redeem" PROVE Updates(c, t, store[t])
  <2>1. store' = [store EXCEPT ![t] = Redeemed(store[t], k.now)]
    BY <1>5, <1>9
  <2> QED BY <1>4, <1>5, <1>6, <1>7, <1>9, <2>1 DEF Updates, RowUpdated
<1>10. ASSUME hit /\ k.op = "finish" PROVE Updates(c, t, store[t])
  <2>1. store' = [store EXCEPT ![t] = Finished(store[t], k.ending)]
    BY <1>5, <1>10
  <2> QED BY <1>4, <1>5, <1>6, <1>7, <1>10, <2>1 DEF Updates, RowUpdated
<1>11. ASSUME hit /\ k.op = "claim" PROVE Updates(c, t, store[t])
  <2>1. store' = [store EXCEPT ![t] = Claimed(store[t])]
    BY <1>5, <1>11
  <2> QED BY <1>4, <1>5, <1>6, <1>7, <1>11, <2>1 DEF Updates, RowUpdated
<1>12. Updates(c, t, store[t])
  BY <1>2, <1>4, <1>8, <1>9, <1>10, <1>11
<1> QED BY <1>1, <1>7, <1>12

(* A call that is over.                                                    *)
Over(c) == pc'[c] = "idle" /\ call'[c] = NoCall

LEMMA Steps ==
  ASSUME SqliteTypeOK, AllPlaced, AllUpdated, NEW c \in Callers, Step(c)
  PROVE  /\ minted' = minted
         /\ \/ Update(c)
            \/ /\ UNCHANGED <<uploading, won, took>>
               /\ \/ /\ pc[c] \in {"insert", "reinsert"} /\ Over(c)
                     /\ InsertRow(call[c].ticket, call[c].now)
                     /\ issued' = issued \cup {call[c].ticket}
                  \/ /\ pc[c] = "purge" /\ pc'[c] = "reinsert" /\ call'[c] = call[c]
                     /\ DeleteDead(call[c].now) /\ issued' = issued
                  \/ pc[c] = "delete" /\ Over(c) /\ DeleteDead(call[c].now) /\ issued' = issued
            \/ /\ UNCHANGED <<store, count, issued, won, took>>
               /\ \/ /\ pc[c] = "insert" /\ pc'[c] = "purge" /\ call'[c] = call[c]
                     /\ uploading' = uploading
                  \/ Over(c) /\ uploading' = uploading
                  \/ /\ pc[c] = "select" /\ call[c].op = "redeem" /\ call[c].rowcount /\ Over(c)
                     /\ uploading' = uploading \cup {<<c[1], call[c].ticket>>}
<1> USE DEF SqliteTypeOK
<1>1. ASSUME NEW answer, Answer(c, answer) PROVE Over(c)
  BY <1>1 DEF Answer, Over
<1>2. CASE Insert(c)
  BY <1>1, <1>2 DEF Insert, Inserted, At, Goes, historyVars
<1>3. CASE Purge(c)
  BY <1>3 DEF Purge, At, Goes, historyVars, callerVars
<1>4. CASE Reinsert(c)
  BY <1>1, <1>4 DEF Reinsert, Inserted, At, historyVars
<1>5. CASE Update(c)
  BY <1>5, UpdateIs
<1>6. CASE Select(c)
  <2>1. /\ Over(c) /\ UNCHANGED <<store, count, minted, issued, won, took>> /\ pc[c] = "select"
    BY <1>1, <1>6 DEF Select, At, historyVars
  <2>2. call[c] \in Call /\ call[c].op \in {"redeem", "finish", "claim"}
    BY <2>1 DEF AllPlaced, Placed
  <2>3. CASE uploading' = uploading
    BY <2>1, <2>3
  <2>4. CASE uploading' # uploading
    <3>1. /\ uploading' = uploading \cup {<<c[1], call[c].ticket>>}
          /\ "redeemed" = CASE call[c].op = "redeem" -> RedeemAnswer(call[c], store[call[c].ticket])
                            [] call[c].op = "finish" -> FinishAnswer(store[call[c].ticket])
                            [] OTHER -> ClaimAnswer(call[c], store[call[c].ticket])
      BY <1>6, <2>4 DEF Select
    <3>2. call[c].op # "finish"
      BY <2>1, <3>1 DEF FinishAnswer, AllUpdated, Updated
    <3>3. call[c].op # "claim"
      BY <3>1 DEF ClaimAnswer
    <3>4. "redeemed" = RedeemAnswer(call[c], store[call[c].ticket])
      BY <2>2, <3>1, <3>2, <3>3
    <3>5. call[c].rowcount
      BY <3>4 DEF RedeemAnswer
    <3> QED BY <2>1, <2>2, <3>1, <3>2, <3>3, <3>5
  <2> QED BY <2>3, <2>4
<1>7. CASE DeleteSwept(c)
  BY <1>1, <1>7 DEF DeleteSwept, At, historyVars, callerVars
<1>8. CASE Raises(c)
  BY <1>1, <1>8 DEF Raises, historyVars, callerVars
<1> QED BY <1>2, <1>3, <1>4, <1>5, <1>6, <1>7, <1>8 DEF Step

----------------------------------------------------------------------------
(* What a step does to the record of one ticket, and to who won it.        *)
Kept(t) == /\ store'[t] = store[t] /\ won'[t] = won[t] /\ took'[t] = took[t]
           /\ t \in issued' <=> t \in issued
Forgotten(t) == /\ store'[t] = NoRecord /\ won'[t] = won[t] /\ took'[t] = took[t]
                /\ t \in issued /\ t \in issued'
Born(c, t) == /\ call[c].op = "put" /\ call[c].ticket = t /\ call'[c].op = "none"
              /\ t \notin issued /\ issued' = issued \cup {t}
              /\ store'[t] = NewRecord(Nobody, call[c].now, Ttl, Retention)
              /\ won'[t] = won[t] /\ took'[t] = took[t]
Spent(c, t) == /\ call[c].op = "redeem" /\ MayRedeem(t, call[c].now)
               /\ store'[t] = Redeemed(store[t], call[c].now)
               /\ won'[t] = won[t] \cup {c} /\ took'[t] = took[t]
               /\ t \in issued /\ t \in issued'
Ended(c, t) == /\ Holds(c, t) /\ Present(store[t])
               /\ store'[t] = Finished(store[t], call[c].ending)
               /\ won'[t] = won[t] /\ took'[t] = took[t]
               /\ t \in issued /\ t \in issued'
Taken(c, t) == /\ call[c].op = "claim" /\ MayClaim(t)
               /\ store'[t] = Claimed(store[t])
               /\ took'[t] = took[t] \cup {c} /\ won'[t] = won[t]
               /\ t \in issued /\ t \in issued'
RecordMove(t) == \/ Kept(t) \/ Forgotten(t)
                 \/ \E c \in Callers : Born(c, t) \/ Spent(c, t) \/ Ended(c, t) \/ Taken(c, t)

(* A deletion keeps a record or forgets one.                               *)
LEMMA Deletes ==
  ASSUME SqliteTypeOK, Minting, NEW now \in Nat, DeleteDead(now), UNCHANGED <<issued, won, took>>,
         NEW t \in Tickets
  PROVE  Kept(t) \/ Forgotten(t)
<1>1. store'[t] = store[t] \/ store'[t] = NoRecord
  BY DEF DeleteDead
<1>2. t \notin issued => store[t] = NoRecord
  BY DEF Minting
<1> QED BY <1>1, <1>2 DEF Kept, Forgotten

LEMMA RecordMoves ==
  ASSUME SqliteTypeOK, AllPlaced, AllUpdated, Minting, [Next]_vars, NEW t \in Tickets
  PROVE  RecordMove(t)
<1>1. CASE UNCHANGED <<store, issued, won, took>>
  BY <1>1 DEF RecordMove, Kept
<1>2. ASSUME NEW c \in Callers, Starts(c) PROVE RecordMove(t)
  BY <1>1, <1>2, Begins
<1>3. ASSUME NEW c \in Callers, Update(c) PROVE RecordMove(t)
  <2> DEFINE u == call[c].ticket
  <2>1. /\ u \in Tickets /\ u \in issued /\ issued' = issued /\ pc[c] = "update"
        /\ Updates(c, u, store[u])
    BY <1>3, UpdateIs DEF AllPlaced, Placed, SqliteTypeOK
  <2>2. CASE t = u
    <3>1. /\ Spent(c, t) \/ Ended(c, t) \/ Taken(c, t) \/ Kept(t)
      BY <2>1, <2>2 DEF Updates, RowUpdated, Spent, Ended, Taken, Kept, Holds, SqliteTypeOK, StoreTypeOK
    <3> QED BY <3>1 DEF RecordMove
  <2>3. CASE t # u
    <3>1. Kept(t)
      BY <2>1, <2>3 DEF Updates, RowUpdated, Kept, SqliteTypeOK, StoreTypeOK
    <3> QED BY <3>1 DEF RecordMove
  <2> QED BY <2>2, <2>3
<1>4. ASSUME NEW c \in Callers, Step(c), ~Update(c) PROVE RecordMove(t)
  <2> DEFINE u == call[c].ticket
  <2>1. call[c].now \in Nat
    BY DEF SqliteTypeOK, Call
  <2>2. CASE DeleteDead(call[c].now) /\ UNCHANGED <<issued, won, took>>
    BY <2>1, <2>2, Deletes DEF RecordMove
  <2>3. CASE /\ InsertRow(u, call[c].now) /\ UNCHANGED <<won, took>> /\ issued' = issued \cup {u}
             /\ pc[c] \in {"insert", "reinsert"} /\ Over(c)
    <3>1. u \in Tickets /\ u \notin issued /\ call[c].op = "put"
      BY <2>3 DEF AllPlaced, Placed, SqliteTypeOK
    <3>2. CASE t = u
      <4>1. Born(c, t)
        BY <2>3, <3>1, <3>2 DEF Born, InsertRow, Over, NoCall, SqliteTypeOK, StoreTypeOK
      <4> QED BY <4>1 DEF RecordMove
    <3>3. CASE t # u
      BY <2>3, <3>1, <3>3 DEF RecordMove, Kept, InsertRow, SqliteTypeOK, StoreTypeOK
    <3> QED BY <3>2, <3>3
  <2> QED BY <1>1, <1>4, <2>2, <2>3, Steps
<1>5. CASE Frame \/ \E p \in Processes : Crash(p)
  BY <1>1, <1>5 DEF Frame, Crash, callerVars, historyVars
<1> QED BY <1>2, <1>3, <1>4, <1>5, OtherSteps

(* What the operations on a row make of its status.                        *)
LEMMA Rows ==
  ASSUME NEW rec \in Slot, NEW n \in 0..MaxClock, NEW e \in {"completed", "failed"}
  PROVE  /\ {Redeemed(rec, n), Finished(rec, e), Claimed(rec)} \subseteq Slot
         /\ NewRecord(Nobody, n, Ttl, Retention) \in Slot /\ NoRecord \in Slot
         /\ Redeemed(rec, n).status = "redeemed" /\ Finished(rec, e).status = e
         /\ Claimed(rec).status = "claimed" /\ NoRecord.status = "absent"
         /\ NewRecord(Nobody, n, Ttl, Retention).status = "issued"
         /\ Present(rec) <=> rec.status # "absent"
<1>1. n \in Nat /\ n + Ttl \in Nat /\ n + Retention \in Nat
  BY SqliteAssumption DEF SqliteAssumption
<1>2. Redeemed(rec, n) \in Slot /\ Finished(rec, e) \in Slot /\ Claimed(rec) \in Slot
  BY <1>1 DEF Redeemed, Finished, Claimed, Slot, Statuses
<1>3. NewRecord(Nobody, n, Ttl, Retention) \in Slot /\ NoRecord \in Slot
  BY <1>1 DEF NewRecord, NoRecord, Slot, Statuses
<1>4. /\ Redeemed(rec, n).status = "redeemed" /\ Finished(rec, e).status = e
      /\ Claimed(rec).status = "claimed" /\ NoRecord.status = "absent"
      /\ NewRecord(Nobody, n, Ttl, Retention).status = "issued"
  BY DEF Redeemed, Finished, Claimed, NewRecord, NoRecord, Slot
<1> QED BY <1>2, <1>3, <1>4 DEF Present

(* The same moves, told by the status.                                     *)
LEMMA StatusMoves ==
  ASSUME SqliteTypeOK, Holding, NEW t \in Tickets, RecordMove(t)
  PROVE  LET was == store[t].status
             is == store'[t].status
         IN
         /\ won[t] \subseteq won'[t] /\ took[t] \subseteq took'[t] /\ (t \in issued => t \in issued')
         /\ \/ is \in {was, "absent"} /\ won'[t] = won[t] /\ took'[t] = took[t]
            \/ is = "issued" /\ t \notin issued /\ won'[t] = won[t] /\ took'[t] = took[t]
            \/ was = "issued" /\ is = "redeemed" /\ won'[t] # {} /\ took'[t] = took[t]
            \/ was = "redeemed" /\ is \in {"completed", "failed"} /\ won'[t] = won[t] /\ took'[t] = took[t]
            \/ was = "completed" /\ is = "claimed" /\ won'[t] = won[t]
<1>1. store[t] \in Slot
  BY DEF SqliteTypeOK, StoreTypeOK
<1>2. \A c \in Callers : call[c].now \in 0..MaxClock /\ call[c].ending \in {"completed", "failed"}
  BY DEF SqliteTypeOK, Call
<1>3. CASE Kept(t)
  BY <1>3 DEF Kept
<1>4. CASE Forgotten(t)
  BY <1>4 DEF Forgotten, NoRecord
<1>5. ASSUME NEW c \in Callers, Born(c, t)
      PROVE  store'[t].status = "issued" /\ t \notin issued /\ t \in issued' /\ UNCHANGED <<won[t], took[t]>>
  BY <1>1, <1>2, <1>5, Rows DEF Born
<1>6. ASSUME NEW c \in Callers, Spent(c, t)
      PROVE  /\ store[t].status = "issued" /\ store'[t].status = "redeemed" /\ c \in won'[t]
             /\ won'[t] = won[t] \cup {c} /\ took'[t] = took[t] /\ t \in issued'
  BY <1>1, <1>2, <1>6, Rows DEF Spent, MayRedeem
<1>7. ASSUME NEW c \in Callers, Ended(c, t)
      PROVE  /\ store[t].status = "redeemed" /\ store'[t].status \in {"completed", "failed"}
             /\ won'[t] = won[t] /\ took'[t] = took[t] /\ t \in issued'
  <2>1. store[t].status = "redeemed"
    BY <1>7 DEF Ended, Holding, Present
  <2> QED BY <1>1, <1>2, <1>7, <2>1, Rows DEF Ended
<1>8. ASSUME NEW c \in Callers, Taken(c, t)
      PROVE  /\ store[t].status = "completed" /\ store'[t].status = "claimed"
             /\ won'[t] = won[t] /\ took'[t] = took[t] \cup {c} /\ t \in issued'
  BY <1>1, <1>2, <1>8, Rows DEF Taken, MayClaim
<1> QED BY <1>3, <1>4, <1>5, <1>6, <1>7, <1>8 DEF RecordMove

LEMMA PastStep ==
  ASSUME SqliteTypeOK, AllPlaced, AllUpdated, Minting, Past, Holding, [Next]_vars
  PROVE  Past'
<1> SUFFICES ASSUME NEW t \in Tickets
             PROVE  /\ won'[t] # {} => store'[t].status # "issued"
                    /\ took'[t] # {} => store'[t].status \in {"claimed", "absent"}
  BY DEF Past
<1>1. RecordMove(t)
  BY RecordMoves
<1>2. /\ won[t] # {} => store[t].status # "issued"
      /\ took[t] # {} => store[t].status \in {"claimed", "absent"}
      /\ t \notin issued => won[t] = {} /\ took[t] = {}
  BY DEF Past, Minting
<1> QED BY <1>1, <1>2, StatusMoves

----------------------------------------------------------------------------
(* Where the calls are.                                                    *)
LEMMA Growth ==
  ASSUME SqliteTypeOK, AllPlaced, AllUpdated, [Next]_vars
  PROVE  minted \subseteq minted' /\ issued \subseteq issued'
<1>1. ASSUME NEW c \in Callers, Starts(c) PROVE minted \subseteq minted' /\ issued \subseteq issued'
  BY <1>1, Begins
<1>2. ASSUME NEW c \in Callers, Step(c) PROVE minted \subseteq minted' /\ issued \subseteq issued'
  BY <1>2, Steps, UpdateIs
<1>3. CASE Frame \/ \E p \in Processes : Crash(p)
  BY <1>3 DEF Frame, Crash, callerVars
<1> QED BY <1>1, <1>2, <1>3, OtherSteps

(* A crash ends calls.                                                     *)
LEMMA CrashEnds ==
  ASSUME SqliteTypeOK, NEW p \in Processes, Crash(p)
  PROVE  /\ \A c \in Callers : Over(c) \/ (pc'[c] = pc[c] /\ call'[c] = call[c])
         /\ UNCHANGED <<store, clock, count, minted, issued, won, took>>
         /\ uploading' \subseteq uploading /\ told' = {}
BY DEF Crash, Over, SqliteTypeOK, historyVars

LEMMA PlacedStep ==
  ASSUME SqliteTypeOK, AllPlaced, AllUpdated, Minting, Holding, [Next]_vars
  PROVE  AllPlaced'
<1> SUFFICES ASSUME NEW d \in Callers PROVE Placed(d)'
  BY DEF AllPlaced
<1>1. minted \subseteq minted' /\ issued \subseteq issued' /\ Placed(d) /\ issued \subseteq minted
  BY Growth DEF AllPlaced, SqliteTypeOK
<1>2. ASSUME pc'[d] = pc[d], call'[d] = call[d],
             call[d].op = "put" => call[d].ticket \notin issued' \ issued
      PROVE  Placed(d)'
  BY <1>1, <1>2 DEF Placed
<1>3. ASSUME Over(d) PROVE Placed(d)'
  BY <1>3 DEF Over, Placed, NoCall
<1>4. ASSUME NEW c \in Callers, Starts(c) PROVE Placed(d)'
  <2>1. CASE c = d
    <3>1. call'[d].op = "finish" => call'[d].ticket \in issued
      <4>1. call'[d].op = "finish" =>
              call'[d].ticket \in Tickets /\ <<d[1], call'[d].ticket>> \in uploading
        BY <1>4, <2>1, Begins
      <4>2. d[1] \in Processes
        BY DEF Callers
      <4> QED BY <4>1, <4>2 DEF Holding
    <3>2. issued' = issued
      BY <1>4, Begins
    <3> QED BY <1>1, <1>4, <2>1, <3>1, <3>2, Begins DEF Placed
  <2>2. CASE c # d
    BY <1>2, <1>4, <2>2, Begins, MineStep DEF Mine
  <2> QED BY <2>1, <2>2
<1>5. ASSUME NEW c \in Callers, Step(c) PROVE Placed(d)'
  <2>1. CASE Update(c)
    <3>1. /\ pc[c] = "update" /\ pc'[c] = "select" /\ call'[c].op = call[c].op
          /\ call'[c].ticket = call[c].ticket /\ UNCHANGED <<minted, issued>>
      BY <2>1, UpdateIs
    <3>2. CASE c = d
      BY <1>1, <3>1, <3>2 DEF Placed
    <3>3. CASE c # d
      BY <1>2, <1>5, <3>1, <3>3, MineStep DEF Mine
    <3> QED BY <3>2, <3>3
  <2>2. CASE ~Update(c) /\ issued' = issued
    <3>1. CASE c = d
      <4>1. CASE call'[c] = call[c] /\ {pc[c], pc'[c]} \subseteq {"insert", "purge", "reinsert"}
        BY <1>1, <2>2, <3>1, <4>1 DEF Placed
      <4> QED BY <1>3, <1>5, <2>2, <3>1, <4>1, Steps
    <3>2. CASE c # d
      BY <1>2, <1>5, <2>2, <3>2, MineStep DEF Mine
    <3> QED BY <3>1, <3>2
  <2>3. CASE ~Update(c) /\ issued' # issued
    <3>1. /\ Over(c) /\ issued' = issued \cup {call[c].ticket}
          /\ pc[c] \in {"insert", "reinsert"}
      BY <1>5, <2>3, Steps
    <3>2. call[c].op = "put"
      BY <3>1 DEF AllPlaced, Placed
    <3>3. CASE c = d
      BY <1>3, <3>1, <3>3
    <3>4. CASE c # d
      BY <1>2, <1>5, <3>1, <3>2, <3>4, MineStep DEF Mine, Minting
    <3> QED BY <3>3, <3>4
  <2> QED BY <2>1, <2>2, <2>3
<1>6. CASE \E p \in Processes : Crash(p)
  BY <1>2, <1>3, <1>6, CrashEnds
<1>7. CASE Frame
  BY <1>2, <1>7 DEF Frame, callVars, callerVars
<1> QED BY <1>4, <1>5, <1>6, <1>7, OtherSteps

LEMMA MintingStep ==
  ASSUME SqliteTypeOK, AllPlaced, AllUpdated, Minting, Holding, [Next]_vars
  PROVE  Minting'
<1>1. ASSUME NEW t \in Tickets \ issued'
      PROVE  store'[t] = NoRecord /\ won'[t] = {} /\ took'[t] = {}
  <2>1. RecordMove(t) /\ t \notin issued
    BY <1>1, RecordMoves, Growth
  <2>2. store[t] = NoRecord /\ won[t] = {} /\ took[t] = {}
    BY <2>1 DEF Minting
  <2>3. \A c \in Callers : ~Born(c, t)
    BY <1>1 DEF Born
  <2> QED BY <2>1, <2>2, <2>3 DEF RecordMove, Kept, Forgotten, Spent, Ended, Taken
<1>2. ASSUME NEW c \in Callers, NEW d \in Callers, call'[c].op = "put", call'[d].op = "put",
             call'[c].ticket = call'[d].ticket
      PROVE  c = d
  <2>1. \A e \in Callers : call[e].op = "put" => call[e].ticket \in minted
    BY DEF AllPlaced, Placed, NoCall, SqliteTypeOK
  <2>2. CASE \A e \in Callers : call'[e].op = "put" =>
               call[e].op = "put" /\ call'[e].ticket = call[e].ticket
    BY <1>2, <2>2 DEF Minting
  <2>3. ASSUME NEW e \in Callers, Starts(e) PROVE c = d
    <3>1. /\ \A f \in Callers \ {e} : call'[f] = call[f]
          /\ call'[e].op = "put" => call'[e].ticket \notin minted
      BY <2>3, Begins, MineStep DEF Mine
    <3> QED BY <1>2, <2>1, <3>1 DEF Minting
  <2>4. ASSUME NEW e \in Callers, Step(e) PROVE c = d
    <3>1. call'[e].op = "put" => call[e].op = "put" /\ call'[e].ticket = call[e].ticket
      BY <2>4, Steps, UpdateIs DEF Over, NoCall
    <3> QED BY <2>2, <2>4, <3>1, MineStep DEF Mine
  <2>5. CASE \E p \in Processes : Crash(p)
    BY <2>2, <2>5, CrashEnds DEF Over, NoCall
  <2>6. CASE Frame
    BY <2>2, <2>6 DEF Frame, callVars
  <2> QED BY <2>3, <2>4, <2>5, <2>6, OtherSteps
<1> QED BY <1>1, <1>2 DEF Minting

----------------------------------------------------------------------------
(* Who may end a record.  It is handed on, or gained with a ticket that    *)
(* nobody has, or lost.                                                    *)
SameHolds(c) == \A t \in Tickets : Holds(c, t)' => Holds(c, t)
OthersHold(c) == \A d \in Callers \ {c} : SameHolds(d)
StartsFinish(c, t) ==
  /\ <<c[1], t>> \in uploading /\ uploading' = uploading \ {<<c[1], t>>}
  /\ \A u \in Tickets : Holds(c, u)' => u = t
Gains(c, t) ==
  /\ Spent(c, t) /\ uploading' = uploading
  /\ \A u \in Tickets : Holds(c, u)' => u = t
HandsOn(c, t) ==
  /\ Holds(c, t) /\ uploading' = uploading \cup {<<c[1], t>>}
  /\ \A u \in Tickets : ~Holds(c, u)'

LEMMA HolderMoves ==
  ASSUME SqliteTypeOK, AllPlaced, AllUpdated, Minting, Holding, [Next]_vars
  PROVE  \/ (\A c \in Callers : SameHolds(c)) /\ uploading' \subseteq uploading
         \/ \E c \in Callers : /\ OthersHold(c)
                               /\ \E t \in Tickets : StartsFinish(c, t) \/ Gains(c, t) \/ HandsOn(c, t)
<1>1. ASSUME NEW c \in Callers, pc'[c] = pc[c], call'[c] = call[c] PROVE SameHolds(c)
  BY <1>1 DEF SameHolds, Holds
<1>2. ASSUME NEW c \in Callers, Over(c) PROVE \A t \in Tickets : ~Holds(c, t)'
  BY <1>2 DEF Over, Holds, NoCall
<1>3. ASSUME NEW c \in Callers, Mine(c) PROVE OthersHold(c)
  BY <1>1, <1>3 DEF Mine, OthersHold
<1>4. ASSUME NEW c \in Callers, OthersHold(c), SameHolds(c) PROVE \A d \in Callers : SameHolds(d)
  BY <1>4 DEF OthersHold
<1>5. ASSUME NEW c \in Callers, Starts(c)
      PROVE  \/ SameHolds(c) /\ uploading' \subseteq uploading
             \/ \E t \in Tickets : StartsFinish(c, t)
  <2> DEFINE t == call'[c].ticket
  <2>1. CASE call'[c].op = "finish"
    <3>1. t \in Tickets /\ <<c[1], t>> \in uploading /\ uploading' = uploading \ {<<c[1], t>>}
      BY <1>5, <2>1, Begins
    <3>2. StartsFinish(c, t)
      BY <3>1 DEF StartsFinish, Holds
    <3> QED BY <3>1, <3>2
  <2>2. CASE call'[c].op # "finish"
    BY <1>5, <2>2, Begins DEF SameHolds, Holds
  <2> QED BY <2>1, <2>2
<1>6. ASSUME NEW c \in Callers, Update(c)
      PROVE  \/ SameHolds(c) /\ uploading' \subseteq uploading
             \/ \E t \in Tickets : Gains(c, t)
  <2> DEFINE t == call[c].ticket
  <2>1. /\ t \in Tickets /\ t \in issued /\ issued' = issued /\ pc'[c] = "select"
        /\ call'[c].op = call[c].op /\ call'[c].ticket = t /\ uploading' = uploading
        /\ Updates(c, t, store[t])
    BY <1>6, UpdateIs DEF AllPlaced, Placed, SqliteTypeOK
  <2>2. CASE call[c].op = "redeem" /\ call'[c].rowcount
    <3>1. Spent(c, t)
      BY <2>1, <2>2 DEF Updates, RowUpdated, Spent, SqliteTypeOK, StoreTypeOK
    <3>2. Gains(c, t)
      BY <2>1, <3>1 DEF Gains, Holds
    <3> QED BY <2>1, <3>2
  <2>3. CASE ~(call[c].op = "redeem" /\ call'[c].rowcount)
    BY <2>1, <2>3 DEF SameHolds, Holds
  <2> QED BY <2>2, <2>3
<1>7. ASSUME NEW c \in Callers, Step(c), ~Update(c)
      PROVE  \/ SameHolds(c) /\ uploading' \subseteq uploading
             \/ \E t \in Tickets : HandsOn(c, t)
  <2> DEFINE t == call[c].ticket
  <2>1. CASE uploading' = uploading
    <3>1. Over(c) \/ (call'[c] = call[c] /\ pc'[c] \in {"purge", "reinsert"})
      BY <1>7, <2>1, Steps
    <3>2. SameHolds(c)
      BY <1>2, <3>1 DEF SameHolds, Holds
    <3> QED BY <2>1, <3>2
  <2>2. CASE uploading' # uploading
    <3>1. /\ pc[c] = "select" /\ call[c].op = "redeem" /\ call[c].rowcount /\ Over(c)
          /\ uploading' = uploading \cup {<<c[1], t>>}
      BY <1>7, <2>2, Steps
    <3>2. t \in Tickets
      BY <3>1 DEF AllPlaced, Placed, SqliteTypeOK
    <3>3. HandsOn(c, t)
      BY <1>2, <3>1 DEF HandsOn, Holds
    <3> QED BY <3>2, <3>3
  <2> QED BY <2>1, <2>2
<1>8. ASSUME NEW c \in Callers, Starts(c) \/ Step(c)
      PROVE  \/ (\A d \in Callers : SameHolds(d)) /\ uploading' \subseteq uploading
             \/ /\ OthersHold(c)
                /\ \E t \in Tickets : StartsFinish(c, t) \/ Gains(c, t) \/ HandsOn(c, t)
  <2>1. OthersHold(c)
    BY <1>3, <1>8, MineStep
  <2> QED BY <1>4, <1>5, <1>6, <1>7, <1>8, <2>1
<1>9. CASE \E p \in Processes : Crash(p)
  <2>1. \A c \in Callers : SameHolds(c)
    BY <1>1, <1>2, <1>9, CrashEnds DEF SameHolds
  <2> QED BY <1>9, <2>1, CrashEnds
<1>10. CASE Frame
  BY <1>1, <1>10 DEF Frame, callVars, callerVars
<1> QED BY <1>8, <1>9, <1>10, OtherSteps

(* Whoever ends a record holds it no longer.                               *)
LEMMA EndLetsGo ==
  ASSUME SqliteTypeOK, AllPlaced, AllUpdated, Minting, Holding, [Next]_vars,
         NEW t \in Tickets, store[t].status = "redeemed", store'[t].status \in {"completed", "failed"}
  PROVE  /\ \A c \in Callers : ~Holds(c, t)'
         /\ \A p \in Processes : <<p, t>> \notin uploading'
<1>1. /\ store' # store
      /\ \A c \in Callers : ~Starts(c)
      /\ ~Frame /\ \A p \in Processes : ~Crash(p)
  BY Begins, CrashEnds DEF Frame
<1>2. PICK c \in Callers : Step(c)
  BY <1>1, OtherSteps
<1>3. NoRecord.status = "absent"
  BY DEF NoRecord
<1>4. \A now \in Nat : ~DeleteDead(now)
  BY <1>3 DEF DeleteDead
<1>5. call[c] \in Call /\ call[c].now \in Nat
  BY DEF SqliteTypeOK, Call
<1>6. ~InsertRow(call[c].ticket, call[c].now)
  BY DEF InsertRow, NewRecord, SqliteTypeOK, StoreTypeOK
<1>7. Update(c)
  BY <1>1, <1>2, <1>4, <1>5, <1>6, Steps
<1>8. /\ pc[c] = "update" /\ pc'[c] = "select" /\ call'[c].op = call[c].op
      /\ Updates(c, call[c].ticket, store[call[c].ticket]) /\ uploading' = uploading
  BY <1>7, UpdateIs
<1>9. call[c].op = "finish" /\ call[c].ticket = t
  <2>1. /\ store[t] \in Slot /\ store'[t] # store[t]
        /\ call[c].now \in 0..MaxClock /\ call[c].ending \in {"completed", "failed"}
    BY DEF SqliteTypeOK, StoreTypeOK, Call
  <2>2. PICK rec : store' = [store EXCEPT ![call[c].ticket] = rec]
    BY <1>1, <1>8 DEF Updates, RowUpdated
  <2>3. call[c].ticket = t
    BY <2>1, <2>2 DEF SqliteTypeOK, StoreTypeOK
  <2>4. /\ store'[t] # Redeemed(store[t], call[c].now)
        /\ store'[t] # Claimed(store[t])
    BY <2>1, Rows
  <2> QED BY <1>1, <1>8, <2>3, <2>4 DEF Updates, RowUpdated, SqliteTypeOK, StoreTypeOK
<1>10. Holds(c, t) /\ ~Holds(c, t)'
  BY <1>8, <1>9 DEF Holds
<1>11. \A d \in Callers \ {c} : ~Holds(d, t) /\ (Holds(d, t)' => Holds(d, t))
  BY <1>2, <1>10, MineStep DEF Holding, Mine, Holds
<1>12. \A p \in Processes : <<p, t>> \notin uploading
  BY <1>10 DEF Holding
<1> QED BY <1>8, <1>10, <1>11, <1>12

LEMMA HoldingStep ==
  ASSUME SqliteTypeOK, AllPlaced, AllUpdated, Minting, Past, Holding, [Next]_vars
  PROVE  Holding'
<1> DEFINE Solo(t) == t \in issued /\ won[t] # {} /\ store[t].status \in {"redeemed", "absent"}
<1>1. ASSUME NEW t \in Tickets, Solo(t),
             \/ \E c \in Callers : Holds(c, t)'
             \/ \E p \in Processes : <<p, t>> \in uploading'
      PROVE  Solo(t)'
  <2>1. ~(store[t].status = "redeemed" /\ store'[t].status \in {"completed", "failed"})
    BY <1>1, EndLetsGo
  <2>2. RecordMove(t)
    BY RecordMoves
  <2> QED BY <1>1, <2>1, <2>2, StatusMoves
<1>2. ASSUME NEW t \in Tickets, NEW c \in Callers, Spent(c, t)
      PROVE  /\ Solo(t)'
             /\ \A d \in Callers : ~Holds(d, t)
             /\ \A p \in Processes : <<p, t>> \notin uploading
  <2>1. store[t].status = "issued" /\ c \in won'[t] /\ t \in issued'
    BY <1>2 DEF Spent, MayRedeem
  <2>2. store'[t].status = "redeemed"
    <3>1. store[t] \in Slot /\ call[c].now \in 0..MaxClock /\ call[c].ending \in {"completed", "failed"}
      BY DEF SqliteTypeOK, StoreTypeOK, Call
    <3>2. Redeemed(store[t], call[c].now).status = "redeemed"
      BY <3>1, Rows
    <3> QED BY <1>2, <3>2 DEF Spent
  <2>3. won[t] = {}
    BY <2>1 DEF Past
  <2> QED BY <2>1, <2>2, <2>3 DEF Holding
<1>3. CASE (\A c \in Callers : SameHolds(c)) /\ uploading' \subseteq uploading
  <2>1. \A t \in Tickets, c \in Callers : Holds(c, t)' => Holds(c, t)
    BY <1>3 DEF SameHolds
  <2>2. \A t \in Tickets, c \in Callers : Holds(c, t)' => Solo(t)
    BY <2>1 DEF Holding
  <2>3. \A t \in Tickets, p \in Processes : <<p, t>> \in uploading' => Solo(t)
    BY <1>3 DEF Holding
  <2>4. /\ \A t \in Tickets, c \in Callers : Holds(c, t)' => Solo(t)'
        /\ \A t \in Tickets, p \in Processes : <<p, t>> \in uploading' => Solo(t)'
    BY <1>1, <2>2, <2>3
  <2> HIDE DEF Solo
  <2>5. /\ \A t \in Tickets, c \in Callers : Holds(c, t)' =>
             /\ \A d \in Callers : Holds(d, t)' => d = c
             /\ \A p \in Processes : <<p, t>> \notin uploading'
        /\ \A t \in Tickets, p \in Processes : <<p, t>> \in uploading' =>
             \A q \in Processes : <<q, t>> \in uploading' => q = p
    BY <1>3, <2>1 DEF Holding
  <2> QED BY <2>4, <2>5 DEF Holding, Solo
<1>4. ASSUME NEW c \in Callers, NEW u \in Tickets, OthersHold(c),
             StartsFinish(c, u) \/ Gains(c, u) \/ HandsOn(c, u)
      PROVE  Holding'
  <2>1. c[1] \in Processes
    BY DEF Callers
  <2>2. \A d \in Callers \ {c} : \A t \in Tickets : Holds(d, t)' => Holds(d, t)
    BY <1>4 DEF OthersHold, SameHolds
  <2>3. Solo(u)' \/ Solo(u)
    BY <1>2, <1>4, <2>1 DEF StartsFinish, Gains, HandsOn, Holding
  <2>4. \A t \in Tickets \ {u} : Holds(c, t)' => FALSE
    BY <1>4 DEF StartsFinish, Gains, HandsOn
  <2>5. \A t \in Tickets \ {u}, p \in Processes : <<p, t>> \in uploading' => <<p, t>> \in uploading
    BY <1>4 DEF StartsFinish, Gains, HandsOn
  <2>6. /\ \A d \in Callers \ {c} : ~Holds(d, u)
        /\ \/ Holds(c, u)' /\ \A p \in Processes : <<p, u>> \notin uploading'
           \/ ~Holds(c, u)' /\ \A p \in Processes : <<p, u>> \in uploading' => p = c[1]
    <3>1. CASE StartsFinish(c, u)
      <4>1. \A p \in Processes : <<p, u>> \notin uploading'
        BY <2>1, <3>1 DEF StartsFinish, Holding
      <4>2. \A d \in Callers : ~Holds(d, u)
        BY <2>1, <3>1 DEF StartsFinish, Holding
      <4> QED BY <4>1, <4>2
    <3>2. CASE Gains(c, u)
      BY <1>2, <3>2 DEF Gains
    <3>3. CASE HandsOn(c, u)
      BY <3>3 DEF HandsOn, Holding
    <3> QED BY <1>4, <3>1, <3>2, <3>3
  <2>7. ASSUME NEW t \in Tickets, \/ \E d \in Callers : Holds(d, t)'
                                  \/ \E p \in Processes : <<p, t>> \in uploading'
        PROVE  Solo(t)'
    <3>1. CASE t = u
      BY <1>1, <2>3, <2>7, <3>1
    <3>2. CASE t # u
      <4>1. \/ \E d \in Callers : Holds(d, t)
            \/ \E p \in Processes : <<p, t>> \in uploading
        BY <2>2, <2>4, <2>5, <2>7, <3>2
      <4>2. Solo(t)
        BY <4>1 DEF Holding
      <4> QED BY <1>1, <2>7, <4>2
    <3> QED BY <3>1, <3>2
  <2> HIDE DEF Solo
  <2>8. ASSUME NEW t \in Tickets
        PROVE  /\ \A d \in Callers : Holds(d, t)' =>
                    /\ \A e \in Callers : Holds(e, t)' => e = d
                    /\ \A p \in Processes : <<p, t>> \notin uploading'
               /\ \A p \in Processes : <<p, t>> \in uploading' =>
                    \A q \in Processes : <<q, t>> \in uploading' => q = p
    <3>1. CASE t = u
      BY <2>2, <2>6, <3>1
    <3>2. CASE t # u
      BY <2>2, <2>4, <2>5, <3>2 DEF Holding
    <3> QED BY <3>1, <3>2
  <2> QED BY <2>7, <2>8 DEF Holding, Solo
<1> QED BY <1>3, <1>4, HolderMoves

(* What the SELECT can find.                                               *)
LEMMA UpdatedStep ==
  ASSUME SqliteTypeOK, AllPlaced, AllUpdated, Minting, Past, Holding, [Next]_vars
  PROVE  AllUpdated'
<1> SUFFICES ASSUME NEW d \in Callers, pc'[d] = "select" PROVE Updated(d)'
  BY DEF AllUpdated, Updated
<1>1. Past'
  BY PastStep
<1>2. ASSUME pc'[d] = pc[d], call'[d] = call[d] PROVE Updated(d)'
  <2> DEFINE t == call[d].ticket
  <2>1. t \in issued /\ t \in Tickets /\ Updated(d)
    BY <1>2 DEF AllPlaced, Placed, AllUpdated, SqliteTypeOK
  <2>2. RecordMove(t)
    BY <2>1, RecordMoves
  <2>3. /\ won[t] \subseteq won'[t] /\ took[t] \subseteq took'[t]
        /\ store[t].status \in {"completed", "failed", "claimed", "absent"} =>
             store'[t].status \in {"completed", "failed", "claimed", "absent"}
    BY <2>1, <2>2, StatusMoves
  <2>4. took'[t] # {} => store'[t].status # "completed"
    BY <1>1, <2>1 DEF Past
  <2> QED BY <1>2, <2>1, <2>3, <2>4 DEF Updated, Claimable
<1>3. ASSUME NEW c \in Callers, Starts(c) PROVE Updated(d)'
  <2>1. c # d
    BY <1>3, Begins
  <2> QED BY <1>2, <1>3, <2>1, MineStep DEF Mine
<1>4. ASSUME NEW c \in Callers, Step(c), c # d PROVE Updated(d)'
  BY <1>2, <1>4, MineStep DEF Mine
<1>5. ASSUME Step(d) PROVE Updated(d)'
  <2> DEFINE t == call[d].ticket
             rec == store[call[d].ticket]
  <2>1. Update(d)
    BY <1>5, Steps DEF Over
  <2>2. /\ call'[d].op = call[d].op /\ call'[d].ticket = t /\ t \in Tickets
        /\ Updates(d, t, rec) /\ call[d] \in Call
    BY <2>1, UpdateIs DEF AllPlaced, Placed, SqliteTypeOK
  <2>3. rec \in Slot /\ call[d].now \in 0..MaxClock /\ call[d].ending \in {"completed", "failed"}
    BY <2>2 DEF SqliteTypeOK, StoreTypeOK, Call
  <2>4. call[d].op = "finish" => store'[t].status \in {"completed", "failed", "claimed", "absent"}
    <3>1. ASSUME call[d].op = "finish", Present(rec)
          PROVE  store'[t] = Finished(rec, call[d].ending)
      BY <2>2, <3>1 DEF Updates, RowUpdated, SqliteTypeOK, StoreTypeOK
    <3>2. ASSUME call[d].op = "finish", ~Present(rec) PROVE store'[t] = rec
      BY <2>2, <3>2 DEF Updates
    <3> QED BY <2>3, <3>1, <3>2, Rows
  <2>5. call[d].op = "redeem" /\ call'[d].rowcount => d \in won'[t]
    BY <2>2 DEF Updates, SqliteTypeOK
  <2>6. call[d].op = "claim" /\ call'[d].rowcount => d \in took'[t]
    BY <2>2 DEF Updates, SqliteTypeOK
  <2>7. took'[t] # {} => store'[t].status # "completed"
    BY <1>1, <2>2 DEF Past
  <2> QED BY <2>2, <2>4, <2>5, <2>6, <2>7 DEF Updated, Claimable
<1>6. CASE \E p \in Processes : Crash(p)
  BY <1>2, <1>6, CrashEnds DEF Over
<1>7. CASE Frame
  BY <1>2, <1>7 DEF Frame, callVars
<1> QED BY <1>3, <1>4, <1>5, <1>6, <1>7, OtherSteps

----------------------------------------------------------------------------
(* The count is the number of rows.                                        *)
LEMMA CountedStep ==
  ASSUME SqliteTypeOK, AllPlaced, AllUpdated, Minting, Past, Holding, Counted, [Next]_vars
  PROVE  Counted'
<1>1. CASE UNCHANGED <<store, count>>
  BY <1>1 DEF Counted, Stored
<1>2. ASSUME NEW c \in Callers, Starts(c) PROVE Counted'
  BY <1>1, <1>2, Begins
<1>3. ASSUME NEW c \in Callers, Update(c) PROVE Counted'
  <2> DEFINE t == call[c].ticket
             rec == store[call[c].ticket]
  <2>1. t \in Tickets /\ count' = count /\ Updates(c, t, rec)
    BY <1>3, UpdateIs DEF AllPlaced, Placed, SqliteTypeOK
  <2>2. rec \in Slot /\ call[c].now \in 0..MaxClock /\ call[c].ending \in {"completed", "failed"}
    BY <2>1 DEF SqliteTypeOK, StoreTypeOK, Call
  <2>3. \A u \in Tickets : Present(store'[u]) <=> Present(store[u])
    <3>1. CASE store' = store
      BY <3>1
    <3>2. ASSUME NEW new, RowUpdated(c, new), Present(new), Present(rec)
          PROVE  \A u \in Tickets : Present(store'[u]) <=> Present(store[u])
      BY <2>1, <3>2 DEF RowUpdated, SqliteTypeOK, StoreTypeOK
    <3>3. CASE call[c].op = "redeem" /\ MayRedeem(t, call[c].now)
               /\ RowUpdated(c, Redeemed(rec, call[c].now))
      <4>1. Present(Redeemed(rec, call[c].now)) /\ Present(rec)
        BY <2>2, <3>3, Rows DEF Present, MayRedeem
      <4> QED BY <3>2, <3>3, <4>1
    <3>4. CASE Present(rec) /\ RowUpdated(c, Finished(rec, call[c].ending))
      <4>1. Present(Finished(rec, call[c].ending))
        BY <2>2, Rows DEF Present
      <4> QED BY <3>2, <3>4, <4>1
    <3>5. CASE MayClaim(t) /\ RowUpdated(c, Claimed(rec))
      <4>1. Present(Claimed(rec)) /\ Present(rec)
        BY <2>2, <3>5, Rows DEF Present, MayClaim
      <4> QED BY <3>2, <3>5, <4>1
    <3> QED BY <2>1, <3>1, <3>3, <3>4, <3>5 DEF Updates
  <2>4. Stored' = Stored
    BY <2>3 DEF Stored
  <2> QED BY <2>1, <2>4 DEF Counted
<1>4. ASSUME NEW now \in Nat, DeleteDead(now) PROVE Counted'
  <2>1. Dead(now) \subseteq Stored /\ IsFiniteSet(Stored) /\ count = Cardinality(Stored) /\ count <= MaxRecords
    BY DEF Dead, Counted
  <2>2. Stored' = Stored \ Dead(now)
    <3>1. \A t \in Tickets : /\ store[t] \in Slot
                             /\ store'[t] = IF store[t].retentionUntil <= now THEN NoRecord ELSE store[t]
      BY <1>4 DEF DeleteDead, SqliteTypeOK, StoreTypeOK
    <3>2. \A t \in Tickets : Present(store'[t]) <=> Present(store[t]) /\ ~(now >= store[t].retentionUntil)
      BY <3>1 DEF Present, NoRecord, Slot
    <3> QED BY <3>2 DEF Stored, Dead
  <2>3. Stored \cap Dead(now) = Dead(now)
    BY <2>1
  <2>4. /\ IsFiniteSet(Stored \ Dead(now))
        /\ Cardinality(Stored \ Dead(now)) = Cardinality(Stored) - Cardinality(Stored \cap Dead(now))
    BY ONLY <2>1, FS_Difference, Zenon
  <2>5. IsFiniteSet(Dead(now)) /\ Cardinality(Dead(now)) \in Nat /\ Cardinality(Stored) \in Nat
    BY <2>1, FS_Subset, FS_CardinalityType
  <2>6. count' = count - Cardinality(Dead(now))
    BY <1>4 DEF DeleteDead, CountDeleted
  <2> QED BY <2>1, <2>2, <2>3, <2>4, <2>5, <2>6, StoreAssumption DEF Counted, StoreAssumption
<1>5. ASSUME NEW t \in Tickets, NEW now \in Nat, t \notin issued, InsertRow(t, now) PROVE Counted'
  <2>1. t \notin Stored /\ IsFiniteSet(Stored) /\ count = Cardinality(Stored) /\ count < MaxRecords
    BY <1>5 DEF Minting, Stored, Present, NoRecord, Counted, InsertRow
  <2>2. Stored' = Stored \cup {t}
    BY <1>5 DEF Stored, InsertRow, NewRecord, Present, SqliteTypeOK, StoreTypeOK
  <2>3. IsFiniteSet(Stored \cup {t}) /\ Cardinality(Stored \cup {t}) = Cardinality(Stored) + 1
    BY <2>1, FS_AddElement
  <2>4. Cardinality(Stored) \in Nat
    BY <2>1, FS_CardinalityType
  <2>5. count' = count + 1
    BY <1>5 DEF InsertRow, CountInserted
  <2> QED BY <2>1, <2>2, <2>3, <2>4, <2>5, StoreAssumption DEF Counted, StoreAssumption
<1>6. ASSUME NEW c \in Callers, Step(c) PROVE Counted'
  <2>1. call[c].now \in Nat
    BY DEF SqliteTypeOK, Call
  <2>2. pc[c] \in {"insert", "reinsert"} => call[c].ticket \in Tickets /\ call[c].ticket \notin issued
    BY DEF AllPlaced, Placed, SqliteTypeOK
  <2> QED BY <1>1, <1>3, <1>4, <1>5, <1>6, <2>1, <2>2, Steps
<1>7. CASE Frame \/ \E p \in Processes : Crash(p)
  BY <1>1, <1>7 DEF Frame, Crash
<1> QED BY <1>2, <1>6, <1>7, OtherSteps

----------------------------------------------------------------------------
(* Types.                                                                  *)
LEMMA RowTypes ==
  ASSUME SqliteTypeOK, AllPlaced, AllUpdated, Minting, Holding, [Next]_vars
  PROVE  /\ store' \in [Tickets -> Slot]
         /\ won' \in [Tickets -> SUBSET Callers] /\ took' \in [Tickets -> SUBSET Callers]
<1>1. ASSUME NEW t \in Tickets
      PROVE  store'[t] \in Slot /\ won'[t] \subseteq Callers /\ took'[t] \subseteq Callers
  <2>1. /\ store[t] \in Slot /\ won[t] \subseteq Callers /\ took[t] \subseteq Callers
        /\ \A c \in Callers : call[c].now \in 0..MaxClock /\ call[c].ending \in {"completed", "failed"}
    BY DEF SqliteTypeOK, StoreTypeOK, Call
  <2>2. CASE Kept(t)
    BY <2>1, <2>2 DEF Kept
  <2>3. CASE Forgotten(t)
    BY <2>1, <2>3 DEF Forgotten, NoRecord, Slot
  <2>4. ASSUME NEW c \in Callers, Born(c, t) \/ Spent(c, t) \/ Ended(c, t) \/ Taken(c, t)
        PROVE  store'[t] \in Slot /\ won'[t] \subseteq Callers /\ took'[t] \subseteq Callers
    <3>1. /\ Redeemed(store[t], call[c].now) \in Slot
          /\ Finished(store[t], call[c].ending) \in Slot
          /\ Claimed(store[t]) \in Slot
          /\ NewRecord(Nobody, call[c].now, Ttl, Retention) \in Slot
      BY <2>1, Rows
    <3> QED BY <2>1, <2>4, <3>1 DEF Born, Spent, Ended, Taken
  <2> QED BY <2>2, <2>3, <2>4, RecordMoves DEF RecordMove
<1>2. /\ store' = [t \in Tickets |-> store'[t]]
      /\ won' = [t \in Tickets |-> won'[t]] /\ took' = [t \in Tickets |-> took'[t]]
  <2>1. ASSUME UNCHANGED <<store, won, took>>
        PROVE  /\ store' = [t \in Tickets |-> store'[t]]
               /\ won' = [t \in Tickets |-> won'[t]] /\ took' = [t \in Tickets |-> took'[t]]
    BY <2>1 DEF SqliteTypeOK, StoreTypeOK
  <2>2. ASSUME NEW now, DeleteDead(now), UNCHANGED <<won, took>>
        PROVE  /\ store' = [t \in Tickets |-> store'[t]]
               /\ won' = [t \in Tickets |-> won'[t]] /\ took' = [t \in Tickets |-> took'[t]]
    BY <2>2 DEF DeleteDead, SqliteTypeOK
  <2>3. ASSUME NEW t, NEW now, InsertRow(t, now), UNCHANGED <<won, took>>
        PROVE  /\ store' = [u \in Tickets |-> store'[u]]
               /\ won' = [u \in Tickets |-> won'[u]] /\ took' = [u \in Tickets |-> took'[u]]
    BY <2>3 DEF InsertRow, SqliteTypeOK, StoreTypeOK
  <2>4. ASSUME NEW c \in Callers, Update(c)
        PROVE  /\ store' = [t \in Tickets |-> store'[t]]
               /\ won' = [t \in Tickets |-> won'[t]] /\ took' = [t \in Tickets |-> took'[t]]
    <3>1. Updates(c, call[c].ticket, store[call[c].ticket])
      BY <2>4, UpdateIs
    <3> QED BY <3>1 DEF Updates, RowUpdated, SqliteTypeOK, StoreTypeOK
  <2>5. \A c \in Callers : Starts(c) => UNCHANGED <<store, won, took>>
    BY Begins
  <2>6. Frame \/ (\E p \in Processes : Crash(p)) => UNCHANGED <<store, won, took>>
    BY DEF Frame, Crash, historyVars
  <2> QED BY <2>1, <2>2, <2>3, <2>4, <2>5, <2>6, Steps, OtherSteps
<1> QED BY <1>1, <1>2

LEMMA CallTypes ==
  ASSUME SqliteTypeOK, AllPlaced, AllUpdated, Minting, Holding, [Next]_vars
  PROVE  /\ call' \in [Callers -> Call]
         /\ pc' \in [Callers -> {"idle", "insert", "purge", "reinsert", "update", "select", "delete"}]
<1> USE DEF SqliteTypeOK
<1>1. NoCall \in Call
  BY SqliteAssumption DEF NoCall, Call, Ops, SqliteAssumption
<1>2. ASSUME NEW c \in Callers, Starts(c) PROVE call' \in [Callers -> Call]
  <2>1. PICK k : call' = [call EXCEPT ![c] = k]
    BY <1>2 DEF Starts, BeginPut, BeginRedeem, BeginClaim, BeginFinish, BeginSweep, Begin
  <2> QED BY <1>2, <2>1, Begins
<1>3. ASSUME NEW c \in Callers, NEW answer, Answer(c, answer) PROVE call' \in [Callers -> Call]
  BY <1>1, <1>3 DEF Answer
<1>4. ASSUME NEW c \in Callers, Update(c) PROVE call' \in [Callers -> Call]
  <2>1. PICK b : call' = [call EXCEPT ![c].rowcount = b]
    BY <1>4 DEF Update
  <2>2. call' = [call EXCEPT ![c] = call'[c]]
    BY <2>1
  <2> QED BY <1>4, <2>2, UpdateIs
<1>5. ASSUME NEW c \in Callers, Step(c) PROVE call' \in [Callers -> Call]
  BY <1>3, <1>4, <1>5 DEF Step, Insert, Inserted, Purge, Reinsert, Select, DeleteSwept, Raises
<1>6. CASE \E p \in Processes : Crash(p)
  <2>1. call' \in [Callers -> Call]
    BY <1>1, <1>6 DEF Crash
  <2>2. pc' \in [Callers -> {"idle", "insert", "purge", "reinsert", "update", "select", "delete"}]
    BY <1>6 DEF Crash
  <2> QED BY <2>1, <2>2
<1>7. CASE Frame
  BY <1>7 DEF Frame, callVars
<1>8. ASSUME NEW c \in Callers, Starts(c) \/ Step(c)
      PROVE  pc' \in [Callers -> {"idle", "insert", "purge", "reinsert", "update", "select", "delete"}]
  BY <1>8 DEF Starts, BeginPut, BeginRedeem, BeginClaim, BeginFinish, BeginSweep, Begin, Step, Insert,
     Inserted, Purge, Reinsert, Update, Select, DeleteSwept, Raises, Goes, Answer
<1> QED BY <1>2, <1>5, <1>6, <1>7, <1>8, OtherSteps

LEMMA PoolTypes ==
  ASSUME SqliteTypeOK, [Next]_vars
  PROVE  /\ clock' \in 0..MaxClock
         /\ lock' \in [Processes -> Callers \cup {Free}]
         /\ closing' \subseteq Closes
         /\ {awaited', opened', cut'} \subseteq SUBSET Callers
<1> USE DEF SqliteTypeOK
<1>1. MaxClock \in Nat
  BY SqliteAssumption DEF SqliteAssumption
<1>2. ASSUME NEW c \in Callers PROVE c[1] \in Processes
  BY DEF Callers
<1>3. ASSUME NEW c \in Callers, Starts(c)
      PROVE  /\ UNCHANGED <<clock, lock, closing, awaited, cut>>
             /\ opened' \subseteq opened \cup {c}
  BY <1>3 DEF Starts, BeginPut, BeginRedeem, BeginClaim, BeginFinish, BeginSweep, Begin
<1>4. ASSUME NEW c \in Callers, Step(c)
      PROVE  /\ UNCHANGED <<clock, closing, opened>> /\ awaited' \subseteq awaited /\ cut' \subseteq cut
             /\ \/ lock' = lock \/ lock' = [lock EXCEPT ![c[1]] = Free] \/ lock' = [lock EXCEPT ![c[1]] = c]
  <2>1. \A answer : Answer(c, answer) =>
          UNCHANGED <<closing, opened>> /\ awaited' \subseteq awaited /\ cut' \subseteq cut
    BY DEF Answer
  <2>2. CASE Insert(c)
    BY <2>1, <2>2 DEF Insert, Inserted, Release, poolVars
  <2>3. CASE Reinsert(c)
    BY <2>1, <2>3 DEF Reinsert, Inserted, Release
  <2>4. CASE Purge(c) \/ Update(c)
    BY <2>4 DEF Purge, Update, poolVars
  <2>5. CASE Select(c) \/ DeleteSwept(c) \/ Raises(c)
    BY <2>1, <2>5 DEF Select, DeleteSwept, Raises
  <2> QED BY <1>4, <2>2, <2>3, <2>4, <2>5 DEF Step
<1>5. ASSUME NEW p \in Processes, Crash(p)
      PROVE  /\ UNCHANGED clock /\ lock' = [lock EXCEPT ![p] = Free]
             /\ closing' \subseteq closing /\ awaited' \subseteq awaited
             /\ opened' \subseteq opened /\ cut' \subseteq cut
  BY <1>5 DEF Crash
<1>6. ASSUME NEW p \in Processes, Close(p) \/ Closed(p)
      PROVE  /\ UNCHANGED <<clock, lock>> /\ closing' \subseteq Closes /\ awaited' \subseteq Callers
             /\ opened' \subseteq opened /\ cut' \subseteq Callers
  BY <1>6 DEF Close, Closed, OfProcess
<1>7. CASE Tick
  BY <1>1, <1>7 DEF Tick, poolVars
<1>8. CASE UNCHANGED vars
  BY <1>8 DEF vars, poolVars
<1>9. ASSUME NEW c \in Callers, Starts(c) \/ Step(c)
      PROVE  /\ clock' \in 0..MaxClock
             /\ lock' \in [Processes -> Callers \cup {Free}]
             /\ closing' \subseteq Closes
             /\ {awaited', opened', cut'} \subseteq SUBSET Callers
  BY <1>2, <1>3, <1>4, <1>9
<1>10. CASE \E p \in Processes : Crash(p)
  BY <1>5, <1>10
<1>11. CASE \E p \in Processes : Close(p) \/ Closed(p)
  BY <1>6, <1>11
<1> QED BY <1>7, <1>8, <1>9, <1>10, <1>11 DEF Next

----------------------------------------------------------------------------
(* What callers are told.                                                  *)
Said(c, a) == told' = {[caller |-> c, call |-> call[c], answer |-> a, could |-> could[c]]}
Says(c, a) ==
  LET rec == store[call[c].ticket] IN
  \/ a = "stored" /\ pc[c] \in {"insert", "reinsert"}
  \/ a = "full" /\ pc[c] = "reinsert" /\ count >= MaxRecords
  \/ a = RedeemAnswer(call[c], rec) /\ pc[c] = "select" /\ call[c].op = "redeem"
  \/ a = FinishAnswer(rec) /\ pc[c] = "select" /\ call[c].op = "finish"
  \/ a = ClaimAnswer(call[c], rec) /\ pc[c] = "select" /\ call[c].op = "claim"
  \/ a = "swept" /\ pc[c] = "delete"
  \/ a = "raised"

LEMMA Sayings ==
  ASSUME SqliteTypeOK, AllPlaced, NEW c \in Callers, Step(c)
  PROVE  told' = {} \/ \E a : Said(c, a) /\ Says(c, a)
<1>1. ASSUME NEW a, Answer(c, a) PROVE Said(c, a)
  BY <1>1 DEF Answer, Said
<1>2. CASE Insert(c)
  BY <1>1, <1>2 DEF Insert, Inserted, At, Goes, Says
<1>3. CASE Purge(c) \/ Update(c)
  BY <1>3 DEF Purge, Update, Goes
<1>4. CASE Reinsert(c)
  BY <1>1, <1>4 DEF Reinsert, Inserted, At, Says
<1>5. CASE Select(c)
  <2> DEFINE rec == store[call[c].ticket]
             a == CASE call[c].op = "redeem" -> RedeemAnswer(call[c], rec)
                    [] call[c].op = "finish" -> FinishAnswer(rec)
                    [] OTHER -> ClaimAnswer(call[c], rec)
  <2>1. pc[c] = "select" /\ Answer(c, a)
    BY <1>5 DEF Select, At
  <2>2. call[c].op \in {"redeem", "finish", "claim"}
    BY <2>1 DEF AllPlaced, Placed
  <2>3. Says(c, a)
    BY <2>1, <2>2 DEF Says
  <2> HIDE DEF a
  <2> QED BY <1>1, <2>1, <2>3
<1>6. CASE DeleteSwept(c)
  BY <1>1, <1>6 DEF DeleteSwept, At, Says
<1>7. CASE Raises(c)
  BY <1>1, <1>7 DEF Raises, Says
<1> QED BY <1>2, <1>3, <1>4, <1>5, <1>6, <1>7 DEF Step

(* Nobody is told anything otherwise.                                      *)
LEMMA Silence ==
  ASSUME SqliteTypeOK, [Next]_vars, ~(\E c \in Callers : Step(c))
  PROVE  told' = {} \/ UNCHANGED vars
<1>1. ASSUME NEW c \in Callers, Starts(c) PROVE told' = {}
  BY <1>1 DEF Starts, BeginPut, BeginRedeem, BeginClaim, BeginFinish, BeginSweep, Begin
<1>2. ASSUME NEW p \in Processes, Close(p) \/ Closed(p) \/ Crash(p) PROVE told' = {}
  BY <1>2 DEF Close, Closed, Crash
<1>3. Tick => told' = {}
  BY DEF Tick
<1> QED BY <1>1, <1>2, <1>3 DEF Next

LEMMA ToldTypes ==
  ASSUME SqliteTypeOK, AllPlaced, AllUpdated, [Next]_vars
  PROVE  told' \subseteq Told
<1>1. ASSUME NEW c \in Callers, Step(c) PROVE told' \subseteq Told
  <2>1. ASSUME NEW a, Says(c, a) PROVE a \in Answers
    <3>1. CASE pc[c] = "select" /\ call[c].op = "redeem" /\ a = RedeemAnswer(call[c], store[call[c].ticket])
      BY <3>1 DEF RedeemAnswer, Answers
    <3>2. CASE pc[c] = "select" /\ call[c].op = "finish" /\ a = FinishAnswer(store[call[c].ticket])
      BY <3>2 DEF FinishAnswer, AllUpdated, Updated, Answers, Present
    <3>3. CASE pc[c] = "select" /\ call[c].op = "claim" /\ a = ClaimAnswer(call[c], store[call[c].ticket])
      BY <3>3 DEF ClaimAnswer, Answers
    <3>4. CASE a \in {"stored", "full", "swept", "raised"}
      BY <3>4 DEF Answers
    <3> QED BY <2>1, <3>1, <3>2, <3>3, <3>4 DEF Says
  <2>2. call[c] \in Call /\ could[c] \subseteq Answers
    BY DEF SqliteTypeOK
  <2>3. ASSUME NEW a, Said(c, a), Says(c, a) PROVE told' \subseteq Told
    BY <2>1, <2>2, <2>3 DEF Said, Told
  <2> QED BY <1>1, <2>3, Sayings
<1>2. UNCHANGED vars => told' \subseteq Told
  BY DEF SqliteTypeOK, vars
<1> QED BY <1>1, <1>2, Silence

LEMMA CouldTypes ==
  ASSUME SqliteTypeOK, [Next]_vars
  PROVE  could' \in [Callers -> SUBSET Answers]
<1>1. CASE UNCHANGED vars
  BY <1>1 DEF vars, SqliteTypeOK
<1>2. CASE Observe
  <2>1. \A c \in Callers : Would(call[c])' \in Answers
    BY DEF Would, RedeemResult, Answers
  <2> QED BY <1>2, <2>1 DEF Observe, SqliteTypeOK
<1> QED BY <1>1, <1>2 DEF Next

LEMMA CallerTypes ==
  ASSUME SqliteTypeOK, AllPlaced, AllUpdated, [Next]_vars
  PROVE  minted' \subseteq Tickets /\ issued' \subseteq minted' /\ uploading' \subseteq Processes \X Tickets
<1> USE DEF SqliteTypeOK
<1>1. ASSUME NEW c \in Callers, Starts(c)
      PROVE  minted' \subseteq Tickets /\ issued' \subseteq minted' /\ uploading' \subseteq Processes \X Tickets
  BY <1>1, Begins
<1>2. ASSUME NEW c \in Callers, Step(c)
      PROVE  minted' \subseteq Tickets /\ issued' \subseteq minted' /\ uploading' \subseteq Processes \X Tickets
  <2>1. /\ pc[c] \in {"insert", "reinsert"} => call[c].ticket \in minted
        /\ pc[c] = "select" => call[c].ticket \in Tickets
        /\ c[1] \in Processes
    BY DEF AllPlaced, Placed, Callers
  <2>2. minted' = minted
    BY <1>2, Steps
  <2>3. issued' \subseteq minted
    BY <1>2, <2>1, Steps, UpdateIs
  <2>4. uploading' \subseteq Processes \X Tickets
    BY <1>2, <2>1, Steps, UpdateIs
  <2> QED BY <2>2, <2>3, <2>4
<1>3. CASE Frame \/ \E p \in Processes : Crash(p)
  BY <1>3 DEF Frame, Crash, callerVars
<1> QED BY <1>1, <1>2, <1>3, OtherSteps

----------------------------------------------------------------------------
LEMMA IInvInit == Init => IInv
<1> SUFFICES ASSUME Init PROVE IInv
  OBVIOUS
<1> USE DEF Init
<1>1. NoRecord \in Slot /\ NoCall \in Call
  BY SqliteAssumption DEF NoRecord, Slot, NoCall, Call, Ops, SqliteAssumption
<1>2. Stored = {}
  BY DEF Stored, StoreInit, Present, NoRecord
<1>3. Counted
  BY <1>2, FS_EmptySet, StoreAssumption DEF Counted, StoreAssumption
<1>4. 0 \in 0..MaxClock /\ 0 \in 0..MaxRecords
  BY SqliteAssumption, StoreAssumption DEF SqliteAssumption, StoreAssumption
<1>5. SqliteTypeOK
  BY <1>1, <1>4 DEF SqliteTypeOK, StoreTypeOK, StoreInit, Free
<1>6. AllPlaced /\ Minting /\ Past /\ Holding /\ AllUpdated
  BY DEF AllPlaced, Placed, Minting, NoCall, StoreInit, Past, Holding, Holds, AllUpdated, Updated
<1> QED BY <1>3, <1>5, <1>6 DEF IInv

LEMMA IInvStep == IInv /\ [Next]_vars => IInv'
<1> SUFFICES ASSUME IInv, [Next]_vars PROVE IInv'
  OBVIOUS
<1> USE DEF IInv
<1>1. Counted'
  BY CountedStep
<1>2. count' \in 0..MaxRecords
  BY <1>1, FS_CardinalityType, StoreAssumption DEF Counted, StoreAssumption
<1>3. SqliteTypeOK'
  BY <1>2, RowTypes, CallTypes, PoolTypes, CallerTypes, CouldTypes, ToldTypes DEF SqliteTypeOK, StoreTypeOK
<1> QED BY <1>1, <1>3, PlacedStep, MintingStep, PastStep, HoldingStep, UpdatedStep

LEMMA IInvHolds == Spec => []IInv
BY IInvInit, IInvStep, PTL DEF Spec

(* The file never holds more records than the cap, over all processes, and *)
(* the triggers count its rows, whatever statements come between two of a  *)
(* put.                                                                    *)
THEOREM CapIsKept == Spec => []CapHolds
<1>1. IInv => CapHolds
  BY DEF IInv, Counted, CapHolds
<1> QED BY <1>1, IInvHolds, PTL

----------------------------------------------------------------------------
(* The contract.                                                           *)
LifeOf(t) == IF t \notin issued THEN "unborn"
             ELSE IF Present(store[t]) THEN store[t].status ELSE "gone"

LEMMA LifeIs == Life = [t \in Tickets |-> LifeOf(t)] /\ Life' = [t \in Tickets |-> LifeOf(t)']
BY DEF Life, LifeOf

LEMMA ContractStutter ==
  ASSUME UNCHANGED <<store, issued, won, took>>
  PROVE  UNCHANGED Contract!contractVars
BY DEF Life, Contract!contractVars

LEMMA ContractForget ==
  ASSUME IInv, NEW now \in Nat, DeleteDead(now), UNCHANGED <<issued, won, took>>
  PROVE  Contract!ContractNext
<1> DEFINE forgotten == {t \in Tickets : Present(store[t]) /\ ~Present(store'[t])}
<1>1. \A t \in Tickets : /\ store'[t] \in {store[t], NoRecord} /\ store[t] \in Slot
                         /\ t \notin issued => store[t] = NoRecord
  BY DEF DeleteDead, IInv, Minting, SqliteTypeOK, StoreTypeOK
<1>2. \A t \in forgotten : LifeOf(t) # "unborn"
  BY <1>1 DEF LifeOf, Present, NoRecord, Slot, Statuses
<1>3. \A t \in Tickets : LifeOf(t)' = IF t \in forgotten THEN "gone" ELSE LifeOf(t)
  BY <1>1 DEF LifeOf, Present, NoRecord
<1>4. Contract!Forget(forgotten)
  BY <1>2, <1>3, LifeIs DEF Contract!Forget
<1>5. forgotten \in SUBSET Tickets
  OBVIOUS
<1> QED BY <1>4, <1>5 DEF Contract!ContractNext

LEMMA ContractIssue ==
  ASSUME IInv, NEW t \in Tickets \ issued, NEW now \in 0..MaxClock,
         InsertRow(t, now), issued' = issued \cup {t}, UNCHANGED <<won, took>>
  PROVE  Contract!ContractNext
<1>1. store'[t].status = "issued" /\ \A u \in Tickets \ {t} : store'[u] = store[u]
  BY DEF InsertRow, NewRecord, IInv, SqliteTypeOK, StoreTypeOK
<1>2. LifeOf(t) = "unborn" /\ \A u \in Tickets : LifeOf(u)' = IF u = t THEN "issued" ELSE LifeOf(u)
  BY <1>1 DEF LifeOf, Present
<1>3. Contract!Issue(t, {})
  BY <1>2, LifeIs DEF Contract!Issue
<1> QED BY <1>3 DEF Contract!ContractNext

LEMMA ContractUpdate ==
  ASSUME IInv, NEW c \in Callers, Update(c)
  PROVE  Contract!ContractNext \/ UNCHANGED Contract!contractVars
<1> USE DEF IInv
<1> DEFINE t == call[c].ticket
           rec == store[call[c].ticket]
<1>1. t \in Tickets /\ t \in issued /\ issued' = issued /\ pc[c] = "update" /\ Updates(c, t, rec)
  BY UpdateIs DEF AllPlaced, Placed, SqliteTypeOK
<1>2. rec \in Slot /\ call[c].now \in 0..MaxClock /\ call[c].ending \in {"completed", "failed"}
  BY <1>1 DEF SqliteTypeOK, StoreTypeOK, Call
<1>3. ASSUME NEW new \in Slot, RowUpdated(c, new), Present(rec), Present(new)
      PROVE  Life[t] = rec.status /\ Life' = [Life EXCEPT ![t] = new.status]
  <2>1. store'[t] = new /\ \A u \in Tickets \ {t} : store'[u] = store[u]
    BY <1>1, <1>3 DEF RowUpdated, SqliteTypeOK, StoreTypeOK
  <2>2. \A u \in Tickets : LifeOf(u)' = IF u = t THEN new.status ELSE LifeOf(u)
    BY <1>1, <1>3, <2>1 DEF LifeOf
  <2>3. LifeOf(t) = rec.status
    BY <1>1, <1>3 DEF LifeOf
  <2> QED BY <1>1, <2>2, <2>3, LifeIs
<1>4. /\ Redeemed(rec, call[c].now) \in Slot /\ Redeemed(rec, call[c].now).status = "redeemed"
      /\ Finished(rec, call[c].ending) \in Slot /\ Finished(rec, call[c].ending).status = call[c].ending
      /\ Claimed(rec) \in Slot /\ Claimed(rec).status = "claimed"
  BY <1>2, Rows
<1>5. CASE /\ call[c].op = "redeem" /\ MayRedeem(t, call[c].now)
           /\ RowUpdated(c, Redeemed(rec, call[c].now))
           /\ won' = [won EXCEPT ![t] = @ \cup {c}] /\ took' = took
  <2>1. rec.status = "issued" /\ won[t] = {}
    BY <1>1, <1>5 DEF MayRedeem, Past
  <2>2. Life[t] = "issued" /\ Life' = [Life EXCEPT ![t] = "redeemed"]
    BY <1>3, <1>4, <1>5, <2>1 DEF Present
  <2>3. won' = [won EXCEPT ![t] = {c}]
    BY <1>5, <2>1
  <2>4. Contract!Spend(t, c)
    BY <1>5, <2>1, <2>2, <2>3 DEF Contract!Spend
  <2> QED BY <1>1, <2>4 DEF Contract!ContractNext
<1>6. CASE /\ call[c].op = "finish" /\ Present(rec)
           /\ RowUpdated(c, Finished(rec, call[c].ending)) /\ UNCHANGED <<won, took>>
  <2>1. Holds(c, t)
    BY <1>1, <1>6 DEF Holds
  <2>2. rec.status = "redeemed"
    BY <1>1, <1>6, <2>1 DEF Holding, Present
  <2>3. Life[t] = "redeemed" /\ Life' = [Life EXCEPT ![t] = call[c].ending]
    BY <1>2, <1>3, <1>4, <1>6, <2>2 DEF Present
  <2>4. Contract!End(t)
    BY <1>2, <1>6, <2>3 DEF Contract!End
  <2> QED BY <1>1, <2>4 DEF Contract!ContractNext
<1>7. CASE /\ call[c].op = "claim" /\ MayClaim(t) /\ RowUpdated(c, Claimed(rec))
           /\ took' = [took EXCEPT ![t] = @ \cup {c}] /\ won' = won
  <2>1. rec.status = "completed" /\ took[t] = {}
    BY <1>1, <1>7 DEF MayClaim, Past
  <2>2. Life[t] = "completed" /\ Life' = [Life EXCEPT ![t] = "claimed"]
    BY <1>3, <1>4, <1>7, <2>1 DEF Present
  <2>3. took' = [took EXCEPT ![t] = {c}]
    BY <1>7, <2>1
  <2>4. Contract!Take(t, c)
    BY <1>7, <2>1, <2>2, <2>3 DEF Contract!Take
  <2> QED BY <1>1, <2>4 DEF Contract!ContractNext
<1>8. CASE UNCHANGED <<store, won, took>>
  BY <1>1, <1>8, ContractStutter
<1> QED BY <1>1, <1>5, <1>6, <1>7, <1>8 DEF Updates

LEMMA ContractInit == Init => Contract!ContractInit
<1> SUFFICES ASSUME Init PROVE Contract!ContractInit
  OBVIOUS
<1>1. Life = [t \in Tickets |-> "unborn"]
  BY DEF Init, Life
<1> QED BY <1>1 DEF Init, Contract!ContractInit

LEMMA ContractStep ==
  IInv /\ [Next]_vars => Contract!ContractNext \/ UNCHANGED Contract!contractVars
<1> SUFFICES ASSUME IInv, [Next]_vars
             PROVE  Contract!ContractNext \/ UNCHANGED Contract!contractVars
  OBVIOUS
<1>1. ASSUME NEW c \in Callers, Starts(c) PROVE UNCHANGED Contract!contractVars
  BY <1>1, Begins, ContractStutter DEF IInv
<1>2. ASSUME NEW c \in Callers, Step(c), ~Update(c)
      PROVE  Contract!ContractNext \/ UNCHANGED Contract!contractVars
  <2>1. call[c].now \in 0..MaxClock /\ call[c].now \in Nat
    BY DEF IInv, SqliteTypeOK, Call
  <2>2. pc[c] \in {"insert", "reinsert"} => call[c].ticket \in Tickets \ issued
    BY DEF IInv, AllPlaced, Placed, SqliteTypeOK
  <2> QED BY <1>2, <2>1, <2>2, Steps, ContractStutter, ContractIssue, ContractForget DEF IInv
<1>3. CASE Frame \/ \E p \in Processes : Crash(p)
  BY <1>3, ContractStutter DEF Frame, Crash, callerVars, historyVars
<1> QED BY <1>1, <1>2, <1>3, ContractUpdate, OtherSteps

(* The statements of all calls of all processes, in whatever order they    *)
(* are committed, with crashes and closings, give each ticket the life     *)
(* that the package promises.                                              *)
THEOREM SqliteImplementsContract == Spec => ImplementsContract
<1>1. IInv /\ [Next]_vars => [Contract!ContractNext]_Contract!contractVars
  BY ContractStep
<1> QED BY <1>1, ContractInit, IInvHolds, PTL DEF Spec, ImplementsContract, Contract!ContractSpec

----------------------------------------------------------------------------
(* Answers.                                                                *)
WinnersInv == IInv /\ OnlyWinnersAreTold

LEMMA WinnersStep == WinnersInv /\ [Next]_vars => OnlyWinnersAreTold'
<1> SUFFICES ASSUME WinnersInv, [Next]_vars PROVE OnlyWinnersAreTold'
  OBVIOUS
<1> USE DEF WinnersInv, IInv
<1>1. CASE told' = {}
  BY <1>1 DEF OnlyWinnersAreTold
<1>2. CASE UNCHANGED vars
  BY <1>2 DEF OnlyWinnersAreTold, vars, historyVars
<1>3. ASSUME NEW c \in Callers, Step(c), NEW a, Said(c, a), Says(c, a) PROVE OnlyWinnersAreTold'
  <2> DEFINE k == call[c]
             t == call[c].ticket
  <2>1. Placed(c) /\ Updated(c)
    BY DEF AllPlaced, AllUpdated
  <2>2. pc[c] = "select" => won' = won /\ took' = took
    BY <1>3, Steps, UpdateIs
  <2>3. a = "redeemed" => c \in won'[t]
    <3>1. ASSUME a = "redeemed" PROVE pc[c] = "select" /\ k.op = "redeem" /\ k.rowcount
      BY <1>3, <2>1, <3>1 DEF Says, RedeemAnswer, FinishAnswer, ClaimAnswer, Updated
    <3> QED BY <2>1, <2>2, <3>1 DEF Updated
  <2>4. k.op = "claim" /\ a = "claimed" => c \in took'[t]
    <3>1. ASSUME k.op = "claim", a = "claimed" PROVE pc[c] = "select" /\ k.rowcount
      BY <1>3, <2>1, <3>1 DEF Says, ClaimAnswer
    <3> QED BY <2>1, <2>2, <3>1 DEF Updated
  <2>5. k.op = "redeem" /\ k.rowcount => a \in {"redeemed", "raised"}
    BY <1>3, <2>1 DEF Says, RedeemAnswer, Placed
  <2>6. \A x \in told' : x.caller = c /\ x.call = k /\ x.answer = a
    BY <1>3 DEF Said
  <2> QED BY <2>3, <2>4, <2>5, <2>6 DEF OnlyWinnersAreTold
<1> QED BY <1>1, <1>2, <1>3, Sayings, Silence

LEMMA TimelyStep == IInv /\ Timely /\ [Next]_vars => Timely'
<1> SUFFICES ASSUME IInv, Timely, [Next]_vars, NEW d \in Callers, pc'[d] # "idle"
             PROVE  call'[d].now <= clock' /\ clock' <= call'[d].now + CallTime
  BY DEF Timely
<1> USE DEF IInv
<1>1. CallTime \in Nat /\ clock \in Nat /\ call[d].now \in Nat
  BY SqliteAssumption DEF SqliteAssumption, SqliteTypeOK, Call
<1>2. CASE clock' = clock /\ pc[d] # "idle" /\ call'[d].now = call[d].now
  BY <1>2 DEF Timely
<1>3. CASE clock' = clock /\ call'[d].now = clock
  BY <1>1, <1>3
<1>4. ASSUME NEW c \in Callers, Starts(c) \/ Step(c)
      PROVE  call'[d].now <= clock' /\ clock' <= call'[d].now + CallTime
  <2>1. clock' = clock
    BY <1>4 DEF Starts, BeginPut, BeginRedeem, BeginClaim, BeginFinish, BeginSweep, Begin, Step, Insert,
       Purge, Reinsert, Update, Select, DeleteSwept, Raises
  <2>2. CASE c # d
    <3>1. pc'[d] = pc[d] /\ call'[d] = call[d]
      BY <1>4, <2>2, MineStep DEF Mine
    <3> QED BY <1>2, <2>1, <3>1
  <2>3. CASE c = d /\ Starts(d)
    BY <1>3, <2>1, <2>3, Begins
  <2>4. CASE c = d /\ Step(d)
    <3>1. pc[d] # "idle"
      BY <2>4 DEF Step, Insert, Purge, Reinsert, Update, Select, DeleteSwept, Raises, At
    <3>2. call'[d].now = call[d].now
      BY <2>4, Steps, UpdateIs DEF Over
    <3> QED BY <1>2, <2>1, <3>1, <3>2
  <2> QED BY <1>4, <2>2, <2>3, <2>4
<1>5. CASE \E p \in Processes : Crash(p)
  <2>1. clock' = clock /\ pc'[d] = pc[d] /\ call'[d] = call[d]
    BY <1>5, CrashEnds DEF Over
  <2> QED BY <1>2, <2>1
<1>6. CASE Tick
  <2>1. /\ clock' = clock + 1 /\ pc'[d] = pc[d] /\ call'[d] = call[d]
        /\ pc[d] # "idle" => clock < call[d].now + CallTime
    BY <1>6 DEF Tick, callVars
  <2> QED BY <1>1, <2>1 DEF Timely
<1>7. CASE (\E p \in Processes : Close(p) \/ Closed(p)) \/ UNCHANGED vars
  <2>1. clock' = clock /\ pc'[d] = pc[d] /\ call'[d] = call[d]
    BY <1>7 DEF Close, Closed, vars, callVars
  <2> QED BY <1>2, <2>1
<1> QED BY <1>4, <1>5, <1>6, <1>7 DEF Next

(* The answers of a one-step store, by operation.                          *)
LEMMA WouldIs ==
  ASSUME NEW k
  PROVE  /\ k.op = "put" => Would(k) = IF HasRoom(Stored \ Dead(k.now)) THEN "stored" ELSE "full"
         /\ k.op = "redeem" => Would(k) = RedeemResult(k.ticket, k.now)
         /\ k.op = "claim" =>
              /\ ~Present(store[k.ticket]) => Would(k) = "not_found"
              /\ store[k.ticket].status = "claimed" => Would(k) = "already_claimed"
              /\ Present(store[k.ticket]) /\ store[k.ticket].status \notin {"completed", "claimed"} =>
                   Would(k) = "not_completed"
BY DEF Would, Claimable, Present

(* If a record is kept for longer than a call takes, none that a call      *)
(* stores is dead for a call beside it.                                    *)
LEMMA NoneBornDead ==
  ASSUME CallTime < Retention, IInv, Timely, [Next]_vars,
         NEW d \in Callers, pc[d] = "reinsert", Dead(call[d].now) = {},
         NEW t \in Tickets, Present(store'[t])
  PROVE  ~(call[d].now >= store'[t].retentionUntil)
<1> USE DEF IInv
<1>1. /\ store[t] \in Slot /\ {CallTime, Retention, clock} \subseteq Nat
      /\ \A c \in Callers : call[c].now \in Nat
  BY SqliteAssumption DEF SqliteAssumption, SqliteTypeOK, StoreTypeOK, Call
<1>2. Present(store[t]) => ~(call[d].now >= store[t].retentionUntil)
  BY DEF Dead, Stored
<1>3. CASE Kept(t)
  BY <1>2, <1>3 DEF Kept
<1>4. CASE Forgotten(t)
  BY <1>4 DEF Forgotten, NoRecord, Present
<1>5. ASSUME NEW c \in Callers, Born(c, t) PROVE ~(call[d].now >= store'[t].retentionUntil)
  <2>1. store'[t].retentionUntil = call[c].now + Retention
    BY <1>5 DEF Born, NewRecord
  <2>2. pc[c] # "idle"
    BY <1>5 DEF Born, AllPlaced, Placed, NoCall
  <2>3. clock <= call[c].now + CallTime /\ call[d].now <= clock
    BY <2>2 DEF Timely
  <2> QED BY <1>1, <2>1, <2>3
<1>6. ASSUME NEW c \in Callers, Spent(c, t) \/ Ended(c, t) \/ Taken(c, t)
      PROVE  ~(call[d].now >= store'[t].retentionUntil)
  <2>1. Present(store[t])
    BY <1>6 DEF Spent, Ended, Taken, MayRedeem, MayClaim, Present
  <2>2. store'[t].retentionUntil = store[t].retentionUntil
    BY <1>1, <1>6 DEF Spent, Ended, Taken, Redeemed, Finished, Claimed, Slot
  <2> QED BY <1>2, <2>1, <2>2
<1> QED BY <1>3, <1>4, <1>5, <1>6, RecordMoves DEF RecordMove

LEMMA StaysIssued ==
  ASSUME IInv, NEW t \in issued, RecordMove(t), store'[t].status = "issued"
  PROVE  Kept(t)
<1>1. t \in Tickets /\ store[t] \in Slot
  BY DEF IInv, SqliteTypeOK, StoreTypeOK
<1>2. ~Forgotten(t)
  BY DEF Forgotten, NoRecord
<1>3. ASSUME NEW c \in Callers PROVE ~(Born(c, t) \/ Spent(c, t) \/ Ended(c, t) \/ Taken(c, t))
  <2>1. call[c].now \in 0..MaxClock /\ call[c].ending \in {"completed", "failed"}
    BY DEF IInv, SqliteTypeOK, Call
  <2>2. /\ Redeemed(store[t], call[c].now).status = "redeemed"
        /\ Finished(store[t], call[c].ending).status = call[c].ending
        /\ Claimed(store[t]).status = "claimed"
    BY <1>1, <2>1, Rows
  <2> QED BY <2>1, <2>2 DEF Born, Spent, Ended, Taken
<1> QED BY <1>2, <1>3 DEF RecordMove

LEMMA HonestStep ==
  ASSUME CallTime < Retention, IInv, Timely, AllHonest, [Next]_vars
  PROVE  AllHonest'
<1> SUFFICES ASSUME NEW d \in Callers, pc'[d] # "idle" PROVE Honest(d)'
  BY DEF AllHonest, Honest
<1> USE DEF IInv
<1>1. CASE UNCHANGED vars
  BY <1>1 DEF vars, AllHonest, Honest, Would, RedeemResult, HasRoom, Stored, Dead, Claimable,
              MayRedeem, callVars
<1>2. CASE Next
  <2>1. could'[d] = could[d] \cup {Would(call[d])'}
    BY <1>2 DEF Next, Observe
  <2>2. CASE pc'[d] = "reinsert"
    <3>1. \/ pc[d] = "reinsert" /\ call'[d] = call[d]
          \/ pc[d] = "purge" /\ call'[d] = call[d] /\ DeleteDead(call[d].now)
      <4>1. ASSUME NEW c \in Callers, Starts(c) \/ Step(c), c # d PROVE pc'[d] = pc[d] /\ call'[d] = call[d]
        BY <4>1, MineStep DEF Mine
      <4>2. ~Starts(d)
        BY <2>2, Begins
      <4>3. Step(d) => pc[d] = "purge" /\ call'[d] = call[d] /\ DeleteDead(call[d].now)
        BY <2>2, Steps, UpdateIs DEF Over
      <4>4. (\E p \in Processes : Crash(p)) => pc'[d] = pc[d] /\ call'[d] = call[d]
        BY <2>2, CrashEnds DEF Over
      <4>5. Frame => pc'[d] = pc[d] /\ call'[d] = call[d]
        BY DEF Frame, callVars
      <4> QED BY <2>2, <4>1, <4>2, <4>3, <4>4, <4>5, OtherSteps
    <3>2. \A t \in Tickets : Present(store'[t]) => ~(call'[d].now >= store'[t].retentionUntil)
      <4>1. CASE pc[d] = "reinsert"
        <5>1. Dead(call[d].now) = {} /\ call'[d] = call[d]
          BY <3>1, <4>1 DEF AllHonest, Honest
        <5> QED BY <4>1, <5>1, NoneBornDead
      <4>2. CASE pc[d] = "purge"
        <5>1. DeleteDead(call[d].now) /\ call'[d] = call[d] /\ call[d].now \in Nat
          BY <3>1, <4>2 DEF SqliteTypeOK, Call
        <5>2. \A t \in Tickets : /\ store[t].retentionUntil \in Nat
                                 /\ store'[t] = IF store[t].retentionUntil <= call[d].now
                                                THEN NoRecord ELSE store[t]
          BY <5>1 DEF DeleteDead, SqliteTypeOK, StoreTypeOK, Slot
        <5> QED BY <5>1, <5>2 DEF Present, NoRecord
      <4> QED BY <3>1, <4>1, <4>2
    <3>3. Dead(call[d].now)' = {}
      BY <3>2 DEF Dead, Stored
    <3> QED BY <2>1, <2>2, <3>3 DEF Honest
  <2>3. CASE pc'[d] = "select"
    <3> DEFINE t == call'[d].ticket
    <3>1. \/ pc[d] = "select" /\ call'[d] = call[d]
          \/ Update(d)
      <4>1. ASSUME NEW c \in Callers, Starts(c) \/ Step(c), c # d PROVE pc'[d] = pc[d] /\ call'[d] = call[d]
        BY <4>1, MineStep DEF Mine
      <4>2. ~Starts(d)
        BY <2>3, Begins
      <4>3. Step(d) => Update(d)
        BY <2>3, Steps DEF Over
      <4>4. (\E p \in Processes : Crash(p)) => pc'[d] = pc[d] /\ call'[d] = call[d]
        BY <2>3, CrashEnds DEF Over
      <4>5. Frame => pc'[d] = pc[d] /\ call'[d] = call[d]
        BY DEF Frame, callVars
      <4> QED BY <2>3, <4>1, <4>2, <4>3, <4>4, <4>5, OtherSteps
    <3>2. CASE pc[d] = "select" /\ call'[d] = call[d]
      <4>1. t \in Tickets /\ t \in issued /\ Honest(d)
        BY <3>2 DEF AllPlaced, Placed, SqliteTypeOK, AllHonest
      <4>2. RecordMove(t) /\ StoreTypeOK
        BY <4>1, RecordMoves DEF SqliteTypeOK
      <4>3. store'[t].status = "issued" /\ store'[t].expiresAt > call'[d].now => MayRedeem(t, call[d].now)
        <5>1. store'[t].status = "issued" => Kept(t)
          BY <4>1, <4>2, StaysIssued
        <5> QED BY <3>2, <5>1 DEF MayRedeem, Kept
      <4>4. store[t].status \in {"claimed", "absent"} => store'[t].status \in {"claimed", "absent"}
        BY <4>1, <4>2, StatusMoves
      <4> QED BY <2>1, <2>3, <3>2, <4>1, <4>3, <4>4 DEF Honest, MayRedeem
    <3>3. CASE Update(d)
      <4>1. /\ call'[d].op = call[d].op /\ call'[d].now = call[d].now /\ t = call[d].ticket
            /\ pc[d] = "update" /\ Updates(d, t, store[t])
        BY <3>3, UpdateIs
      <4>2. Would(call[d]) \in could[d]
        BY <4>1 DEF AllHonest, Honest
      <4>3. ASSUME call'[d].op = "redeem", ~call'[d].rowcount
            PROVE  ~(store'[t].status = "issued" /\ store'[t].expiresAt > call'[d].now)
        BY <4>1, <4>3 DEF Updates, RowUpdated, MayRedeem
      <4>4. ASSUME call'[d].op = "claim", ~call'[d].rowcount
            PROVE  "not_completed" \in could'[d] \/ store'[t].status \in {"claimed", "absent"}
        <5>1. store' = store /\ store[t].status # "completed"
          BY <4>1, <4>4 DEF Updates, RowUpdated, MayClaim
        <5>2. CASE store[t].status \in {"claimed", "absent"}
          BY <5>1, <5>2
        <5>3. CASE store[t].status \notin {"claimed", "absent"}
          <6>1. Would(call[d]) = "not_completed"
            BY <4>1, <4>4, <5>1, <5>3, WouldIs DEF Present
          <6> QED BY <2>1, <4>2, <6>1
        <5> QED BY <5>2, <5>3
      <4> QED BY <2>1, <2>3, <4>1, <4>3, <4>4 DEF Honest, MayRedeem
    <3> QED BY <3>1, <3>2, <3>3
  <2>4. CASE pc'[d] \notin {"reinsert", "select"}
    BY <2>1, <2>4 DEF Honest
  <2> QED BY <2>2, <2>3, <2>4
<1> QED BY <1>1, <1>2

LEMMA RefusalStep ==
  ASSUME IInv, AllHonest, RefusalWasTrue, [Next]_vars
  PROVE  RefusalWasTrue'
<1> USE DEF IInv
<1>1. CASE told' = {}
  BY <1>1 DEF RefusalWasTrue
<1>2. CASE UNCHANGED vars
  BY <1>2 DEF RefusalWasTrue, vars
<1>3. ASSUME NEW c \in Callers, Step(c), NEW a, Said(c, a), Says(c, a) PROVE RefusalWasTrue'
  <2> DEFINE k == call[c]
             rec == store[call[c].ticket]
  <2> SUFFICES ASSUME k.op \in {"put", "redeem", "claim"}, a \in Refusals PROVE a \in could[c]
    BY <1>3 DEF RefusalWasTrue, Said
  <2>1. Placed(c) /\ Honest(c) /\ k.now \in Nat
    BY DEF AllPlaced, AllHonest, SqliteTypeOK, Call
  <2>2. CASE a = "full" /\ pc[c] = "reinsert" /\ count >= MaxRecords
    <3>1. k.op = "put" /\ Dead(k.now) = {} /\ Would(k) \in could[c]
      BY <2>1, <2>2 DEF Placed, Honest
    <3>2. Stored \ Dead(k.now) = Stored /\ ~HasRoom(Stored)
      BY <2>2, <3>1, StoreAssumption DEF HasRoom, Counted, StoreAssumption, SqliteTypeOK
    <3> QED BY <2>2, <3>1, <3>2, WouldIs
  <2>3. CASE a = RedeemAnswer(k, rec) /\ pc[c] = "select" /\ k.op = "redeem"
    <3>1. ~k.rowcount /\ ~MayRedeem(k.ticket, k.now) /\ Would(k) \in could[c]
      BY <2>1, <2>3 DEF RedeemAnswer, Refusals, Honest
    <3>2. rec \in Slot
      BY <2>1, <2>3 DEF Placed, SqliteTypeOK, StoreTypeOK
    <3>3. a = RedeemResult(k.ticket, k.now)
      BY <2>1, <2>3, <3>1, <3>2 DEF RedeemAnswer, RedeemResult, MayRedeem, Expired, Slot
    <3> QED BY <2>3, <3>1, <3>3, WouldIs
  <2>4. CASE a = ClaimAnswer(k, rec) /\ pc[c] = "select" /\ k.op = "claim"
    <3>1. /\ Would(k) \in could[c]
          /\ ~k.rowcount => "not_completed" \in could[c] \/ rec.status \in {"claimed", "absent"}
      BY <2>1, <2>4 DEF Honest
    <3>2. CASE ~Present(rec)
      BY <2>4, <3>1, <3>2, WouldIs DEF ClaimAnswer
    <3>3. CASE Present(rec) /\ ~k.rowcount /\ rec.status = "claimed"
      BY <2>4, <3>1, <3>3, WouldIs DEF ClaimAnswer
    <3>4. CASE Present(rec) /\ ~k.rowcount /\ rec.status # "claimed"
      BY <2>4, <3>1, <3>4 DEF ClaimAnswer, Present
    <3>5. CASE Present(rec) /\ k.rowcount
      BY <2>4, <3>5 DEF ClaimAnswer, Refusals
    <3> QED BY <3>2, <3>3, <3>4, <3>5
  <2> QED BY <1>3, <2>1, <2>2, <2>3, <2>4 DEF Says, Refusals, Placed
<1> QED BY <1>1, <1>2, <1>3, Sayings, Silence

(* Callers are told the truth: who is told that it redeemed or claimed     *)
(* did, and a refusal was right at some moment of the call, although the   *)
(* statement that explains it is not the one that refused.  It takes a     *)
(* retention longer than a call; otherwise "full" can be said for a record *)
(* that was dead when a slower put stored it.                              *)
THEOREM AnswersAreTrue ==
  ASSUME CallTime < Retention
  PROVE  Spec => []AnswersWereTrue
<1>1. Init => Timely /\ AllHonest /\ RefusalWasTrue /\ OnlyWinnersAreTold
  BY DEF Init, Timely, AllHonest, Honest, RefusalWasTrue, OnlyWinnersAreTold
<1>2. IInv /\ Timely /\ AllHonest /\ [Next]_vars => AllHonest'
  BY HonestStep
<1>3. IInv /\ AllHonest /\ RefusalWasTrue /\ [Next]_vars => RefusalWasTrue'
  BY RefusalStep
<1>4. IInv /\ OnlyWinnersAreTold /\ [Next]_vars => OnlyWinnersAreTold'
  BY WinnersStep DEF WinnersInv
<1>5. RefusalWasTrue /\ OnlyWinnersAreTold => AnswersWereTrue
  BY DEF AnswersWereTrue
<1> QED BY <1>1, <1>2, <1>3, <1>4, <1>5, IInvHolds, TimelyStep, PTL DEF Spec
==============================================================================
